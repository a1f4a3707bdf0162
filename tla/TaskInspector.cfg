SPECIFICATION FairSpec
CONSTANTS
    inspector = inspector
    workbench = workbench
    Consumers <- MCConsumers
    PageLimit = 1
    ReplayLimit = 1
    MaxEvents = 2
    MaxOpens = 3
INVARIANTS
    ProjectionIsExact
    NothingKeptUnwatched
PROPERTIES
    ComesToRest
CHECK_DEADLOCK FALSE
