SPECIFICATION Spec
CONSTANTS
  Cmds = {c}
  CallHooks = {h}
  Rules = {r1, r2}
  Consulted = {r1}
  MaxTtl = 2
  MaxGrants = 2
  MaxCalls = 4
  MaxCrashes = 1
  MaxFaults = 1
  Schedulers = {s1, s2}
  MaxWorkers = 4
  MaxKills = 2
  Tools = {t}
  Roots = {a, b, home}
  HomeRoots = {home}
  MaxFailures = 1
INVARIANTS
    OveruseIsPerFault
    OneWorker
    
PROPERTIES
    LockIsNotForEver
\* Bounded commands and calls are the end of the overrides.
CHECK_DEADLOCK FALSE
