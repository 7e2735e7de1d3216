SPECIFICATION Spec
CONSTANTS
    Conns = {c1, c2}
    Reuse = TRUE
    MaxDown = 1
    MaxUp = 1
    Protocol = "http"
    FaultKinds = {}
    PartialWrites = TRUE
    NoLink = NoLink
    c1 = c1
    c2 = c2
CHECK_DEADLOCK FALSE
INVARIANTS
    NoGarbage
