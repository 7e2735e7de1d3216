SPECIFICATION Spec
CONSTANTS
    Conns = {c1, c2}
    Reuse = TRUE
    MaxDown = 3
    MaxUp = 3
    Protocol = "http"
    FaultKinds = {"idle"}
    PartialWrites = FALSE
    NoLink = NoLink
    c1 = c1
    c2 = c2
CHECK_DEADLOCK FALSE
SYMMETRY ConnSymmetry
INVARIANTS
    TypeOK
    OneHandler
    UpstreamIntact
    DownstreamIntact
    CloseIsLast
    CloseRemovesSession
    GrantIsReal
PROPERTIES
    StreamOK
