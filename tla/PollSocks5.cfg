SPECIFICATION Spec
CONSTANTS
    Conns = {c1, c2}
    Reuse = TRUE
    MaxDown = 1
    MaxUp = 1
    Protocol = "socks5"
    FaultKinds = {}
    PartialWrites = FALSE
    NoLink = NoLink
    c1 = c1
    c2 = c2
CHECK_DEADLOCK FALSE
INVARIANTS
    GrantIsReal
