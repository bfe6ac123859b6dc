SPECIFICATION FairSpec
CONSTANTS
    a = a
    b = b
    c = c
    Projects = {a, b, c}
    Reexporting = {b}
    Builders = {w1, w2}
    Uses <- AllUses
    Graph <- GenerateGraph
    Null = Null
INVARIANT NoPanic
INVARIANT UpstreamSettled
INVARIANT ReportsInOrder
 
PROPERTY Quiesces
