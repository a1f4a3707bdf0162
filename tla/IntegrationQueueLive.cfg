SPECIFICATION FairSpec
CONSTANTS
    c1 = c1
    c2 = c2
    t1 = t1
    t2 = t2
    None = None
    Candidates <- MCCandidates
    Tasks <- MCTasks
    TaskOf <- MCTaskOf
    MaxWaiting = 1
    MaxCrashes = 0
    MaxFaults = 1
    MaxUserMoves = 1
PROPERTIES
    EveryOperationSettles
CHECK_DEADLOCK FALSE
