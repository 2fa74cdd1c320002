SPECIFICATION Spec
CONSTANTS
  c1 = c1
  c2 = c2
  c3 = c3
  s1 = s1
  s2 = s2
  Conns = {c1, c2, c3}
  Senders = {s1, s2}
  Loop = Loop
  NULL = NULL
  Anchor = Anchor
  Uses <- WalkRace
  MaxCalls = 1
  AllocFails = FALSE
PROPERTIES
  ListStandsStillForWalks
