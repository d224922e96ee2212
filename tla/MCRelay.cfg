CONSTANTS
    Host = {"h1"}
    Entry = {e1, e2}
    Visit = {v1}
    Secret = {"s1"}
    Prefix <- MCPrefix
    Path <- MCPath
    Length <- MCLength
    Under <- MCUnder
    Root = "root"
    NoEntry = NoEntry
    NoTunnel = NoTunnel
    NoVisit = NoVisit
    NoSecret = NoSecret
    HostCookie = HostCookie
    Asked <- MCAsked
    Presented <- MCPresented
    MaxCrashes = 1
SPECIFICATION FairSpec
INVARIANTS RoutesHeldExactly GreetedIsRouted NoStreamBeforeGreeting OnlyThroughItsGate
PROPERTIES LiveRouteStays RowClosesAfterRoute ImplementsDirectory BrokenTunnelFreesRoute RequestsSettle
CHECK_DEADLOCK FALSE
