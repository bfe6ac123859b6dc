SPECIFICATION FairSpec
CONSTANTS
    r1 = r1
    r2 = r2
    b = b
    c = c
    Roots = {r1, r2}
    Configs = {b, c}
    Worlds <- Circular
    Requests = {}
    Ids = {s1, s2, s3}
    Objects = {e1, e2}
    None = None
CHECK_DEADLOCK FALSE
PROPERTY ParsesEnd
