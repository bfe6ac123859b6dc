SPECIFICATION FairSpec
CHECK_DEADLOCK FALSE
CONSTANTS
    p1 = p1
    p2 = p2
    Pools = {p1, p2}
    Tasks = {1, 2, 3}
    Scripts <- AllScripts
    QueueCap = 2
    OutCap = 1
    None = None
 
 
PROPERTY Served
PROPERTY RefreshComes
PROPERTY NewsPublished
