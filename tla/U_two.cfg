CONSTANTS
  i1 = i1
  i2 = i2
  o1 = o1
  o2 = o2
  None = None
  Initiators = {i1, i2}
  Offers = {o1, o2}
SPECIFICATION FairSpec
INVARIANTS SlotWaits AnsweredOnce
PROPERTY EveryConnEnds
CHECK_DEADLOCK FALSE
