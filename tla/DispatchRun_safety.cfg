SPECIFICATION Spec
CONSTANTS
    N = 2
    Sup = sup
    Cancels = {c1, c2}
    Hooks = {h1, h2}
    Platforms = {"unix", "windows"}
    MaxFaults = 1
    MaxCrashes = 1
SYMMETRY Interchangeable
INVARIANTS
    LabelsAreTrue
    
PROPERTIES
    NoLaunchAfterTerminal
    
