SPECIFICATION Spec
CONSTANTS
    c1 = c1  c2 = c2  c3 = c3  p1 = p1
    Client = {c1, c2, c3}
    Parent = {p1}
    NoClient = NoClient
    Timeout = 2
    MaxTime = 7
INVARIANT ExclusiveUnlessOverlapping
SYMMETRY Symmetry
CHECK_DEADLOCK FALSE
