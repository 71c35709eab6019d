SPECIFICATION Spec
CONSTANTS
  N = 3
  Paths <- MCPaths
  Begins <- MCBegins
  WriteSets <- NameWrites
INVARIANTS
  WavesAreDisjoint
\* A planned or rejected manifest is the end.
CHECK_DEADLOCK FALSE
