SPECIFICATION FairSpec
CONSTANTS
    Procs = {p1, p2, p3, p4}
    Racers = {p1, p2}
    Keys = {k1}
    Entries = {e1, e2, e3, e4, e5}
    None = None
CHECK_DEADLOCK FALSE
INVARIANT CountIsOwners
INVARIANT RefFindsEntry
INVARIANT ValueShared
PROPERTY OperationsEnd
