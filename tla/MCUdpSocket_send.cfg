SPECIFICATION Spec
CONSTANTS
  Senders = {s1, s2, s3}
  s1 = s1
  s2 = s2
  s3 = s3
  Loop = Loop
  NULL = NULL
  SharedAddr = SharedAddr
  Addrs = {a1, a2}
  a1 = a1
  a2 = a2
  Refused = {a2}
  Entries = {"addr"}
  MaxCalls = 2
  MaxLoopSends = 0
  AllocFails = TRUE
  CloseWhenIdle = TRUE
CHECK_DEADLOCK FALSE
INVARIANTS
  TypeOK
  SendsAreServedInTurn
  NoFault
PROPERTIES
  SendReturns
  CloseDrains
  RefusalSilencesTheHandle
  ImplementsSendService
