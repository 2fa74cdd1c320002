SPECIFICATION Spec
CONSTANTS
  w1 = w1
  w2 = w2
  Writers = {w1, w2}
  Loop = Loop
  Fds = {0, 3, 4}
  Requests <- SomeRequests
  Orders = {TRUE, FALSE}
  MAX_BUF_LEN = 2
  MaxInput = 3
  MaxCalls = 1
  MaxCloses = 2
  AllocFails = TRUE
INVARIANTS
  TypeOK
  NothingOutlivesClose
  DescriptorHasOneLife
PROPERTIES
  InputIsRead
  CloseCompletes
