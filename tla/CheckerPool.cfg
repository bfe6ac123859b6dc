SPECIFICATION FairSpec
CONSTANTS
    p1 = p1
    p2 = p2
    p3 = p3
    Procs = {p1, p2, p3}
    Anonymous = {p3}
    Files = {f1}
    Diags = {d1, d2}
    MaxCheckers = 2
    MaxCancels = 1
    IdentifiedDepth = 2
    AnonymousDepth = 2
    MaxGets <- TwiceOnceTwice
    None = None
INVARIANT TypeOK
INVARIANT Exclusive
INVARIANT OneCheckerPerRequest
INVARIANT NoLostWakeup
INVARIANT NoDiagnosticLost
PROPERTY ReturnsUnlessCanceled
