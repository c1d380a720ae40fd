CONSTANTS
  None = None
  p1 = p1
  p2 = p2
  p3 = p3
  a1 = a1
  Named = {TRUE, FALSE}
  Sightings <- MCSightings
  Name <- MCName
  Owner <- MCOwner
  Home = "/h"
  Entries <- MCEntries
  Filters = {"", "x"}
  Matching <- MCMatching
  SendCap = 1
  Asks = 2
SPECIFICATION AppFairSpec
INVARIANTS AppTypeOK SentAsShown NothingBeforeStart CursorShown
PROPERTY Drains
CHECK_DEADLOCK FALSE
