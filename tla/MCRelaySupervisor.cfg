CONSTANTS
    TLD = {t1, t2}
    NoTLD = NoTLD
    Child = {k1, k2, k3}
    NoChild = NoChild
    Handler = {h1, h2}
    Main = Main
    MaxCrashes = 1
    MaxErrors = 1
    MaxStops = 1
    MaxSyncs = 2
CHECK_DEADLOCK FALSE
SPECIFICATION FairSpec
INVARIANTS CurrentIsWatched NoRivals
PROPERTIES NoNeedlessRestart KeepsServing
