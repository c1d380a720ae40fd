CONSTANTS
  bob = bob
  carol = carol
  m1 = m1
  m2 = m2
  m3 = m3
  None = None
  Peers = {bob, carol}
  Msgs <- MCMsgs
  Total <- MCTotal
  To <- FirstToCarol
  Room = 2
  Serial = TRUE
  Path = "notify"
  Session = FALSE
  ChecksTotal = TRUE
  Forgets = FALSE
SPECIFICATION FairSpec
INVARIANTS Consecutive OneLength
PROPERTY PendingDrains
