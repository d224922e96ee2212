CONSTANTS
    Host = {"a", "c"}
    Prefix = {"api"}
    Root = "root"
    Worker = {w1, w2}
    NoWorker = NoWorker
    NoRoute = NoRoute
    Unreliable = FALSE
    Manifest <- TwoManifests
    RoutesOf <- Both
    RunRoute <- RunAC
    AdHoc <- ByHand
    NoManifest = "none"
    Declared <- OwnPort
    Port = {"p1", "p2"}
    AnyFree = "auto"
    Service = {s1, s2}
    NoService = NoService
    Command = {c1, c2}
    Idle = Idle
    NoCommand = NoCommand
    Stubborn = TRUE
    Restarting = TRUE
    MaxRunning = 2
    MaxBusy = 2
    MaxKills = 1
SPECIFICATION Spec
SYMMETRY PidSymmetry
CHECK_DEADLOCK FALSE
INVARIANTS CleanSlate DownStopsEverything OneWorkerPerRoute
PROPERTY OnlyItsOwn
