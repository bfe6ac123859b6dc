SPECIFICATION Spec
CONSTANTS
    Owners = {auto, config}
    AutoImports = {auto}
    NumGlobs = 2
    Tasks = {t1, t2}
    Workloads <- AllWorkloads
    None = None
SYMMETRY Symmetry
INVARIANT WatchesMatch
 
INVARIANT Unbroken
