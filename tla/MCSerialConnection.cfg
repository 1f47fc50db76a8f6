SPECIFICATION FairSpec
CONSTANTS
    Clients = {c1, c2, c3}
    Connectors = {c1}
    ConnectsCancelled = FALSE
    Links = {l1, l2}
    Readers = {r1}
    MaxChunk = 1
    MaxMsgs = 1
    NoOwner = NoOwner
    NoLink = NoLink
    NoReader = NoReader
    c1 = c1
    c2 = c2
    c3 = c3
    l1 = l1
    l2 = l2
    r1 = r1
INVARIANTS
    LinkInv
    LinkOwned
PROPERTIES
    CallsReturn
    ReadersStop
