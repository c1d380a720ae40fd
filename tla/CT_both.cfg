CONSTANTS
  a1 = a1
  a2 = a2
  a3 = a3
  s1 = s1
  s2 = s2
  w1 = w1
  w2 = w2
  n1 = n1
  n2 = n2
  None = None
  Addrs = {a1, a2, a3}
  Nameless = {a2}
  Refused = {a3}
  Sessions = {s1, s2}
  Session <- MCSession
  Workers = {w1, w2}
  Senders = {n1, n2}
SPECIFICATION FairSpec
INVARIANTS NoMarkLeft NoSendToSentinel BackoffKept SuppressionEnds
PROPERTY Reached
CHECK_DEADLOCK FALSE
