CONSTANTS
  f1 = f1
  f2 = f2
  d1 = d1
  d2 = d2
  c1 = c1
  c2 = c2
  s1 = s1
  s2 = s2
  None = None
  Found = {f1, f2}
  Data = {d1}
  Conns = {c1}
  Sends = {s1}
  Serial = TRUE
  MaxLosses = 2
  Hellos = {f1}
SPECIFICATION FairSpec
INVARIANTS NoReaderLeft DataReachesReader
PROPERTIES FallbackStays BrokenLeaves
CHECK_DEADLOCK FALSE
