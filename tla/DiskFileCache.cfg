SPECIFICATION Spec
CONSTANTS
    p1 = p1
    p2 = p2
    p3 = p3
    a = a
    b = b
    Procs = {p1, p2, p3}
    Texts = {a, b}
    Missing = Missing
    Unknown = Unknown
    Nil = Nil
INVARIANT Consistent
PROPERTY Implements
