CONSTANTS
  f1 = f1
  f2 = f2
  t1 = t1
  p1 = p1
  p2 = p2
  Pipe = Pipe
  Hole = Hole
  Absent = Absent
  Files <- MCFiles
  Texts = {t1}
  Chunks <- MCChunks
  Paths <- MCPaths
  Name <- DistinctNames
  Transport = "ble"
  Window = 2
SPECIFICATION Spec
CHECK_DEADLOCK FALSE
PROPERTY KeepsPromise
