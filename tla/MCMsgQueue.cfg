SPECIFICATION Spec
CONSTANTS
  s1 = s1
  s2 = s2
  Senders = {s1, s2}
  NULL = NULL
  Capacity = 1
  MaxSends = 2
  MaxStarts = 2
INVARIANTS
  TypeOK
  BuffersHaveOneOwner
  EachHandledOnceInOrder
PROPERTIES
  CallsReturn
  AcceptedAreHandled
  ImplementsFifoChannel
