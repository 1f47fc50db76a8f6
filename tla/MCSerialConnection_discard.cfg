SPECIFICATION Spec
CONSTANTS
    Clients = {c1, c2}
    Connectors = {c1}
    ConnectsCancelled = FALSE
    Links = {l1}
    Readers = {r1}
    MaxChunk = 1
    MaxMsgs = 1
    NoOwner = NoOwner
    NoLink = NoLink
    NoReader = NoReader
    c1 = c1
    c2 = c2
    l1 = l1
    r1 = r1
INVARIANTS
    WritersDiscard
