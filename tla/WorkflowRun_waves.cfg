SPECIFICATION FairSpec
CONSTANTS
    N = 3
    Paths <- MCPaths
    Begins <- MCBegins
    Manifests <- MCManifests
    Gated = {2, 3}
    MaxEscapes = 1
    MaxFaults = 1
INVARIANTS
    DependenciesFirst
    DoneIsComplete
    NoSharedWrites
PROPERTIES
    ImplementsExecution
    RunEnds
\* A run that is over is the end.
CHECK_DEADLOCK FALSE
