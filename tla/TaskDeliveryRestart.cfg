SPECIFICATION FairSpec
CONSTANTS
    c1 = c1
    w1 = w1
    None = None
    Chunks <- TwoChunks
    Withheld <- OneWithheld
    MaxDeliveries = 1
    MaxAttempts = 2
    MaxTurns = 2
    MaxCrashes = 1
INVARIANTS
    AcceptedWasReviewed
PROPERTIES
    ReviewNeverStalls
CHECK_DEADLOCK FALSE
