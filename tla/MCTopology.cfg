SPECIFICATION Spec
CONSTANTS
    Manifests <- MCManifests
    Slugs <- Words2
    Free = {3000, 4000, 5000, 6000}
    MaxPort = 65535
    NoName <- None
    Nowhere <- Absent
INVARIANTS
    PortsApart
    TargetsFollow
    TunnelsApart
CHECK_DEADLOCK FALSE
