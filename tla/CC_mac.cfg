CONSTANTS
  MaxOwed = 2
  MaxTimers <- MCMaxTimers
SPECIFICATION FairSpec
INVARIANTS Watched ReadyIsConnected NotStuck
PROPERTY Settles
CHECK_DEADLOCK FALSE
