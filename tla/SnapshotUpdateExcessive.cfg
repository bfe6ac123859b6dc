SPECIFICATION UpdateSpec
CONSTANTS
    a = a
    Uris = {a, x, y}
    Paths = {a, x, y}
    PathOf <- OwnPath
    Contents = {c1, c2}
    Settings <- OneRoot
    MaxInflight = 0
    Threshold = 2
    None = None
INVARIANT ProgramFresh
