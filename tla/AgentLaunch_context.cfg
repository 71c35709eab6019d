SPECIFICATION Spec
CONSTANTS
  Workers = {"v", "w"}
  Bins = {"git", "projx-engine", "go", "cargo"}
  Declared <- MCDeclared
  Languages <- MCLanguages
  MaxFaults = 0
INVARIANTS
  OwnContext
\* A launch that is over is the end.
CHECK_DEADLOCK FALSE
