CONSTANTS
  f1 = f1
  f2 = f2
  t1 = t1
  p1 = p1
  p2 = p2
  Pipe = Pipe
  Hole = Hole
  Absent = Absent
  Files <- MCFiles
  Texts = {}
  Chunks <- MCChunks
  Paths <- MCPaths
  Name <- DistinctNames
  Transport = "libp2p"
  Window = 2
SPECIFICATION FairSpec
CHECK_DEADLOCK FALSE
INVARIANTS AckSlotOwned AckInTime DamageIsReported
PROPERTIES SavedIntact ReturnsOrBlocked
