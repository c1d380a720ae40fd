CONSTANTS
  bob = bob
  carol = carol
  m1 = m1
  m2 = m2
  m3 = m3
  None = None
  Peers = {bob, carol}
  Msgs <- MCMsgs
  Total <- MCTotal
  To <- ThirdToCarol
  Room = 2
  Serial = FALSE
  Path = "notify"
  Session = TRUE
  ChecksTotal = TRUE
  Forgets = FALSE
SPECIFICATION Spec
INVARIANTS Mine StaleStaysOut
