SPECIFICATION Spec
CONSTANTS
  Loop = Loop
  NULL = NULL
  Senders = {}
  Uses = {{}}
  PeerLeaves = TRUE
  CloseMeetsEnd = TRUE
  CloseMeetsError = FALSE
  MaxCalls = 0
  MaxLoopSends = 0
  AllocFails = FALSE
  CloseWhenIdle = TRUE
INVARIANTS
  ClientOutlivesSession
