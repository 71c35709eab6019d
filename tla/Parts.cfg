SPECIFICATION Spec
CONSTANTS
  Processes = {"p", "q"}
  MaxFaults = 1
  MaxEdits = 1
  \* Two records of one project, of which a prompt injects one.
  Roots = {"home"}
  Home = "home"
  Repos = {"sub"}
  Records = {1, 2}
  Cap = 1
  Budget = 1
  MaxClock = 2
  Parallel = 2
  Subjects = {"r"}
  MaxCadences = 2
  MaxScans = 4
  Profiles <- MCProfiles
  Alphabet <- MCAlphabet
  MaxRefreshes = 2
  MaxTTLs = 1
  \* Two workers, whose launches may allow more than the default.
  Workers = {"v", "w"}
  Bins = {"git", "projx-engine", "go", "cargo"}
  Declared = {{}, {"go"}}
  Languages = {{}, {"cargo"}}
  Codenames = {"a", "b"}
  MaxKeys = 2
  MaxCommands = 4
  BoundaryRules = {"r"}
  Facts = {"f", "s"}
  OffLimits = {"s"}
  Systems = {"go", "rust"}
  MaxIters = 2
  Setups <- MCSetups
  GateHooks = {"h"}
  Calls <- MCCalls
  Projects = {"a", "b"}
  HomeProject = "a"
  Targets = {"x"}
  MaxChanges = 4
  MaxCalls = 2
  N = 3
  PathNames = {"a", "ab", "c"}
  Paths <- MCPaths
  Begins <- MCBegins
  WriteSets <- MCWriteSets
  \* Two machines, the exports of which arrive in any order and number.
  Machines = {"m", "n"}
  Bodies = {"a", "b"}
  Ids = {1, 2}
  Requests = {1, 2}
  Stamps = {1, 2}
  MaxWrites = 2
  MaxSent = 2
  MaxMerges = 2
  \* The console engine and its background proxy, of two versions.
  Installers = {"p", "q"}
  Cleaners = {"c"}
  Versions = {"v", "w"}
  FileCount = 2
  MaxInstalls = 3
INVARIANTS
    
    OldIssuesBlock
    LastKnownGood
    
    
    
    
    WavesAreDisjoint
    
    RuntimeIsWhole
\* Bounded commands, and a plan that is made, are the end.
CHECK_DEADLOCK FALSE
