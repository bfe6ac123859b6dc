SPECIFICATION FairSpec
CONSTANTS
    p1 = p1
    p2 = p2
    p3 = p3
    Procs = {p1, p2, p3}
    Anonymous = {}
    Files = {f1}
    Diags = {}
    MaxCheckers = 2
    MaxCancels = 2
    IdentifiedDepth = 1
    AnonymousDepth = 1
    MaxGets <- Once
    None = None
PROPERTY GetCheckerReturns
