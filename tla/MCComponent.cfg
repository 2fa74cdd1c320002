SPECIFICATION Spec
CONSTANTS
  p1 = p1
  p2 = p2
  Msg = Msg
  Loop = Loop
  NULL = NULL
  SharedAddr = SharedAddr
  Peers = {p1, p2}
  Refused = {p2}
  Lengths = {1, 2}
  MSG_PRINT_SIZE = 2
  Capacity = 1
  MaxDatagrams = 4
  AllocFails = TRUE
CHECK_DEADLOCK FALSE
INVARIANTS
  TypeOK
  AnswersGoToFirstPeer
  PartsOutliveTheirUsers
PROPERTIES
  PartsKeepTheirPromises
  JamEndsInLoss
  MessagesMove
  UninitReturns
