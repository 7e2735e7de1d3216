SPECIFICATION FairSpec
CONSTANTS
    Conns = {c1, c2}
    Reuse = TRUE
    MaxDown = 1
    MaxUp = 0
    Protocol = "http"
    FaultKinds = {"lost"}
    PartialWrites = FALSE
    NoLink = NoLink
    c1 = c1
    c2 = c2
CHECK_DEADLOCK FALSE
PROPERTIES
    HandlerReturns
