SPECIFICATION Spec
CONSTANTS
  Ports = {"a", "b"}
  Worlds <- RetryWorlds
INVARIANT RouteResultsFindRetries
CHECK_DEADLOCK FALSE
