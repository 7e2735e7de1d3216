SPECIFICATION FairSpec
CONSTANTS
    Conns = {c1, c2}
    Reuse = TRUE
    MaxDown = 1
    MaxUp = 1
    Protocol = "http"
    FaultKinds = {"idle", "refuse", "lost"}
    PartialWrites = FALSE
    NoLink = NoLink
    c1 = c1
    c2 = c2
CHECK_DEADLOCK FALSE
PROPERTIES
    PostReturns
    DownstreamDelivered
