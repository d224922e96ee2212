CONSTANTS
    Name <- MCName
    Wanted <- MCWanted
    Admin = "roxey.dev"
    CA = {ca1, ca2}
    Pair = {k1, k2}
    Proc = {p1, p2}
    Absent = Absent
    Torn = Torn
    None = None
SPECIFICATION Spec
INVARIANTS ServesTheDisk AloneCovers UndisturbedUpsWork
SYMMETRY Identities
CHECK_DEADLOCK FALSE
