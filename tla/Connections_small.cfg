SPECIFICATION FairSpec
CONSTANTS
  a = a
  b = b
  x = x
  Peers = {a, b, x}
  NoPeer = NoPeer
  MaxDegree = 2
  Worlds <- SmallWorlds
INVARIANTS PeersAreDistinct StagesAdvance 
PROPERTY DebutsAreSettled
CHECK_DEADLOCK FALSE
