SPECIFICATION Spec
CONSTANTS
    a = a
    b = b
    c = c
    p = p
    Tasks <- MCTasks
    Batches <- MCBatches
    Deps <- MCDeps
    ReviewedGate <- MCReviewedGate
    Mode <- MCMode
    WritePaths <- MCWritePaths
    Priority <- MCPriority
    Place <- MCPlace
    Limit = 1
    MaxLaunches = 2
    MaxEvents = 2
INVARIANTS
    EndedOwnsNothing
    LocksExclude
PROPERTIES
    FreedSlotsDispatched
    WithinLimit
CHECK_DEADLOCK FALSE
