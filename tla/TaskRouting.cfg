SPECIFICATION Spec
CONSTANTS
  Profiles <- MCProfiles
  Catalogs <- MCCatalogs
  Alphabet <- MCAlphabet
  CmdProvider <- MCCmdProvider
  Tasks <- MCTasks
  Triages <- MCTriages
  Overrides <- MCOverrides
  File <- MCFile
  Weights <- MCWeights
  Seeded <- MCSeeded
  Pins = {"cheap-fast", "elevate", "sol"}
  Policies <- MCPolicies
  Envs <- MCEnvs
  Files = {"main.go"}
  MaxCommands = 2
CHECK_DEADLOCK FALSE
INVARIANTS FloorHolds GateHolds DecisionIsLaunched PlainDoneIsHonest
