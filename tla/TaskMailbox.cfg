SPECIFICATION Spec
CONSTANTS
    MaxMessages = 2
    MaxAttempts = 2
    MaxSessions = 2
    MaxPending = 0
    MaxCrashes = 1
    MaxFailures = 1
INVARIANTS
    MemoryMatchesJournal
    RepeatedOnFailure
PROPERTIES
    AckFollowsDelivery
CHECK_DEADLOCK FALSE
