SPECIFICATION Spec
CONSTANTS
    t1 = t1
    t2 = t2
    u1 = u1
    None = None
    Tasks <- TwoTasks
    ReportOnly <- OneReport
    Callers <- OneCaller
    MaxVersion = 2
    MaxHead = 1
    MaxCrashes = 1
INVARIANTS
    DecisionSurvives
CHECK_DEADLOCK FALSE
