CONSTANTS
    Email = {e1, e2}
    Password = {p1, p2}
    UserId = {u1, u2, u3}
    NoUser = NoUser
    Key = {k1, k2}
    NoKey = NoKey
    Client = {c1, c2}
    None = None
    Up = {a1, a2}
SPECIFICATION Spec
SYMMETRY Symmetry
CHECK_DEADLOCK FALSE
INVARIANTS OneAccountPerEmail EverythingHasAnAccount CredentialsWork
