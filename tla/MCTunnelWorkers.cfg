CONSTANTS
    Host = {h1}
    Prefix = {}
    Root = "root"
    Worker = {w1, w2}
    NoWorker = NoWorker
    NoRoute = NoRoute
    Unreliable = TRUE
    Stream = {s1, s2}
    Stalling = {s1}
SPECIFICATION StreamsSpec
INVARIANT LinkedIsRouted
PROPERTIES ComesBack StoppedFreesRoute NobodyWaitsBehind StreamsEnd
CHECK_DEADLOCK FALSE
