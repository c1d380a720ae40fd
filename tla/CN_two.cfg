CONSTANTS
  c1 = c1
  c2 = c2
  Conns = {c1, c2}
  Rounds = 2
SPECIFICATION FairSpec
INVARIANTS RouteFollows 
PROPERTY Rejoins
CHECK_DEADLOCK FALSE
