SPECIFICATION Spec
CONSTANTS
    Conns = {c1, c2}
    Handlers = {h1}
    MaxLegs = 1
    DrainRaises = FALSE
    NoConn = NoConn
    Items <- MCDefaultItems
    MaxItems = 1
    Overrides = {}
    MaxOverrides = 0
    Nothing = Nothing
    c1 = c1
    c2 = c2
    h1 = h1
PROPERTIES
    BroadcastReachesAll
