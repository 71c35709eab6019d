SPECIFICATION Spec
CONSTANTS
  N = 3
  Paths <- MCPaths
  Begins <- MCBegins
  Manifests <- MCManifests
  Gated = {2}
  MaxEscapes = 0
  MaxFaults = 0
PROPERTIES
  OutcomeStays
\* A run that is over is the end.
CHECK_DEADLOCK FALSE
