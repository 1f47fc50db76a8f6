SPECIFICATION Spec
CONSTANTS
    Clients = {c1, c2}
    Connectors = {c1, c2}
    ConnectsCancelled = TRUE
    Links = {l1, l2}
    Readers = {r1, r2}
    MaxChunk = 2
    MaxMsgs = 3
    NoOwner = NoOwner
    NoLink = NoLink
    NoReader = NoReader
    c1 = c1
    c2 = c2
    l1 = l1
    l2 = l2
    r1 = r1
    r2 = r2
SYMMETRY Symmetry
INVARIANTS
    ReaderInv
    RequestListens
