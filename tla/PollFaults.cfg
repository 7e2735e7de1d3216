SPECIFICATION FaultsSpec
CONSTANTS
    Conns = {c1, c2}
    Reuse = TRUE
    MaxDown = 2
    MaxUp = 2
    Protocol = "http"
    FaultKinds = {"idle", "refuse", "lost"}
    PartialWrites = FALSE
    NoLink = NoLink
    c1 = c1
    c2 = c2
CHECK_DEADLOCK FALSE
SYMMETRY ConnSymmetry
INVARIANTS
    OneExchange
    AnswerMatches
    DownstreamOrder
    BoundedCopies
    SingleCopies
    SingleConnection
