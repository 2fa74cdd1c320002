SPECIFICATION Spec
CONSTANTS
  Senders = {s1}
  s1 = s1
  s2 = s2
  s3 = s3
  Loop = Loop
  NULL = NULL
  SharedAddr = SharedAddr
  Addrs = {a1, a2}
  a1 = a1
  a2 = a2
  Refused = {}
  Entries = {"addr"}
  MaxCalls = 1
  MaxLoopSends = 1
  AllocFails = FALSE
  CloseWhenIdle = TRUE
CHECK_DEADLOCK FALSE
PROPERTIES
  SendReturns
