SPECIFICATION FairSpec
CONSTANTS
    None = None
    Cut = Cut
    MaxSeq = 4
    MaxFaults = 1
    MaxStarts = 3
    MaxSnapshots = 2
INVARIANTS
    TypeOK
    ReplayOrdered
    NoAckOvertakesGap
    AcknowledgedSurvive
    SnapshotTrusted
PROPERTIES
    EveryCallSettles
CHECK_DEADLOCK FALSE
