SPECIFICATION FairSpec
CONSTANTS
  Ports = {"a", "b"}
  Worlds <- StreamWorlds
INVARIANTS
  ServersGetRequests
  
  
  
  
PROPERTY WorkEnds
CHECK_DEADLOCK FALSE
