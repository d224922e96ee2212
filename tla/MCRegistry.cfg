CONSTANTS
    Host = {h1, h2}
    Entry = {e1, e2, e3, e4}
    Prefix <- MCPrefix
    Path <- MCPath
    Length <- MCLength
    Under <- MCUnder
    Root = "root"
    NoEntry = NoEntry
    Fresh = Fresh
    Spent = Spent
SPECIFICATION RegistrySpec
INVARIANT ResolvesLongest
CHECK_DEADLOCK FALSE
