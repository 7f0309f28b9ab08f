CONSTANTS
  Node = {1, 2, 3, 4}
  Worlds <- Networks
  PassDegree = 0
  PatchSize = 3
SPECIFICATION Spec
CHECK_DEADLOCK FALSE
INVARIANTS  VersionsAreOwners VersionsConverge
PROPERTIES GossipStops
