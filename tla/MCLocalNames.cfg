CONSTANTS
    Dir = {"d1", "d2"}
    FQDN <- MCFQDN
    TLDOf <- MCTLDOf
    Manifests <- MCManifests
    Command = {c1}
    Idle = Idle
    Nothing = Nothing
    NoEntry = NoEntry
    MaxNames = 2
    MaxAgents = 1
    DefaultTLD = "dev"
    NativeTLD = {"localhost"}
    Localhost = "localhost"
    BareName = "localhost"
    BeginLine = "BEGIN"
    EndLine = "END"
    Blank = ""
    AdminLine = {"127.0.0.1 localhost", "10.0.0.7 nas"}
    FirstHosts <- MCFirstHosts
SPECIFICATION Spec
CHECK_DEADLOCK FALSE
INVARIANTS BlockIsRegistry DownForgetsEverything
PROPERTIES OthersKeepTheirNames AdminsLinesStay
