SPECIFICATION Spec
CONSTANTS
    c1 = c1
    c2 = c2
    t1 = t1
    t2 = t2
    None = None
    Candidates <- MCCandidates
    Tasks <- MCTasks
    TaskOf <- MCTaskOf
    MaxWaiting = 1
    MaxCrashes = 1
    MaxFaults = 1
    MaxUserMoves = 1
SYMMETRY MCSymmetry
INVARIANTS
    TypeOK
    OnlyAcceptedOrAdoptedOnBase
    JournaledHeadVerified
    MemoryMatchesJournal
PROPERTIES
    ImplementsLedger
    PublishesWhatWasAccepted
CHECK_DEADLOCK FALSE
