SPECIFICATION UpdateSpec
CONSTANTS
    a = a
    Uris = {a, b}
    Paths = {a, b}
    PathOf <- OwnPath
    Contents = {c1, c2}
    Settings <- AllSettings
    MaxInflight = 1
    Threshold = 99
    None = None
SYMMETRY Symmetry
INVARIANT NoPanic
INVARIANT ProgramFresh
INVARIANT DiskFilesFresh
INVARIANT OverlaysFollowEditor
