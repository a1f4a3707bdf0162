SPECIFICATION Spec
CONSTANTS
    c1 = c1
    w1 = w1
    None = None
    Chunks <- OneChunk
    Withheld <- Nothing
    MaxDeliveries = 2
    MaxAttempts = 2
    MaxTurns = 1
    MaxCrashes = 0
INVARIANTS
    TypeOK
    ReviewedIsIntegrated
PROPERTIES
    ClosedStaysClosed
CHECK_DEADLOCK FALSE
