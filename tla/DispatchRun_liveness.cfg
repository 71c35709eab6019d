SPECIFICATION FairSpec
CONSTANTS
    N = 2
    Sup = sup
    Cancels = {c1}
    Hooks = {h1}
    Platforms = {"unix", "windows"}
    MaxFaults = 0
    MaxCrashes = 1
PROPERTIES
    CancelTakesEffect
    FinishedIsSurfaced
    RunConcludes
    
