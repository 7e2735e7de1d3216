SPECIFICATION Spec
CONSTANTS
    Handshakes <- MCHandshakes
    Requests <- MCRequests
    Payload = 1
    MaxRequests = 3
    AnswerParts = 2
CHECK_DEADLOCK FALSE
INVARIANTS
    NewConnection
