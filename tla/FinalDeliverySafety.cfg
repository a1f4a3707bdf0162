SPECIFICATION FairSpec
CONSTANTS
    t1 = t1
    t2 = t2
    u1 = u1
    None = None
    Tasks <- TwoTasks
    ReportOnly <- OneReport
    Callers <- OneCaller
    MaxVersion = 2
    MaxHead = 2
    MaxCrashes = 0
INVARIANTS
    TypeOK
    OneDecisionPerDelivery
PROPERTIES
    DeliveredWorkInHead
    EveryCallSettles
CHECK_DEADLOCK FALSE
