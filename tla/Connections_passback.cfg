SPECIFICATION Spec
CONSTANTS
  a = a
  b = b
  x = x
  Peers = {a, b, x}
  NoPeer = NoPeer
  MaxDegree = 2
  Worlds <- PassBackWorlds
INVARIANT StagesNeverSkip
CHECK_DEADLOCK FALSE
