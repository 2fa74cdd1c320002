SPECIFICATION Spec
CONSTANTS
  s1 = s1
  s2 = s2
  Loop = Loop
  NULL = NULL
  s3 = s3
  Senders = {s1, s2, s3}
  Uses = {{"threads"}, {"loop"}}
  PeerLeaves = TRUE
  CloseMeetsEnd = FALSE
  CloseMeetsError = FALSE
  MaxCalls = 2
  MaxLoopSends = 2
  AllocFails = TRUE
  CloseWhenIdle = TRUE
CHECK_DEADLOCK FALSE
INVARIANTS
  TypeOK
  UsesStayWithinLives
  SendsAreServedInTurn
PROPERTIES
  SendReturns
  CloseFreesAll
  ImplementsSendService
