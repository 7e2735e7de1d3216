SPECIFICATION FairSpec
CONSTANTS
    MaxUp = 2
    MaxDown = 1
    Window = 2
CHECK_DEADLOCK FALSE
INVARIANTS
    TypeOK
    Conserved
    GrantStands
PROPERTIES
    PipesOK
    EndSpreads
    Delivered
