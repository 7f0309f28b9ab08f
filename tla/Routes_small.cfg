CONSTANTS
  Root = 1
  Worlds <- Neighborhoods
SPECIFICATION Spec
INVARIANTS RoutesAreLeast  MissingAreMissing ExitsAreAsked
