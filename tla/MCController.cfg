SPECIFICATION FairSpec
CONSTANTS
    Conns = {c1, c2}
    Handlers = {h1, h2}
    MaxLegs = 2
    DrainRaises = TRUE
    NoConn = NoConn
    Items <- MCItems
    MaxItems = 2
    Overrides <- MCOverrides
    MaxOverrides = 2
    Nothing = Nothing
    c1 = c1
    c2 = c2
    h1 = h1
    h2 = h2
INVARIANTS
    ConnectionInv
    CommandsAwaited
    StartsAsConfigured
PROPERTIES
    ConnectionEnds
