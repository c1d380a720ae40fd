CONSTANTS
  bob = bob
  carol = carol
  m1 = m1
  m2 = m2
  m3 = m3
  None = None
  Peers = {bob}
  Msgs <- MCMsgs
  Total <- MCTotal
  To <- AllToBob
  Room = 2
  Serial = TRUE
  Path = "notify"
  Session = FALSE
  ChecksTotal = FALSE
  Forgets = TRUE
SPECIFICATION Spec
INVARIANT StaleStaysOut
