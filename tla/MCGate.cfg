SPECIFICATION Spec
CONSTANTS
    Key = {ip1, ip2}
    Window = 2
    SweepEvery = 1
    MaxHits = 2
    Host = {"a", "b", "c"}
    NoHost = "no host"
    User = {"u1", "u2"}
    NoUser = "no user"
    Group = {"up1", "up2"}
    NoGroup = "no group"
    Secret = {"s1", "s2"}
    NoSecret = "no secret"
    Apex = "apex"
    Under = {}
    Offers <- Gates
    SingleUser = FALSE
    TTL = 2
    MaxTime = 4
    MaxUnlocks = 2
SYMMETRY Addresses
INVARIANTS
    GrantIsEarned
    UnlockedStaysOpen
    PostsLimited
    AbandonedAreSwept
