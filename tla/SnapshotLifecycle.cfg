SPECIFICATION Spec
CONSTANTS
    Requests = {r1, r2}
    Tasks = {t1, t2}
    Workloads <- AllWorkloads
    MaxLost = 2
    Ids = {s1, s2, s3, s4}
    None = None
SYMMETRY Symmetry
INVARIANT NoPanic
INVARIANT RefsAccounted
INVARIANT ProgramsAlive
INVARIANT RequestSeesEdits
INVARIANT CurrentIsLatest
INVARIANT Unstuck
PROPERTY NeverBack
