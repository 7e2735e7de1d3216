SPECIFICATION Spec
CONSTANT
    MaxQueued = 1
CHECK_DEADLOCK FALSE
INVARIANTS
    TlsOnly
