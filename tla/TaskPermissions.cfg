SPECIFICATION Spec
CONSTANTS
    secret = secret
    host = host
    wipe = wipe
    Workers = {1, 2, 3}
    Brokered = {2}
    Numbered = {1, 3}
    Targets <- MCTargets
    Granted = {}
    Forbidden = {secret}
    Memorable = {host}
    Confirmed = {wipe}
    NoReject <- MCNoReject
    DenyLimit = 2
    MaxRequests = 2
    MaxTotal = 3
    MaxSessions = 3
    MaxFaults = 1
INVARIANTS
    NothingUnapproved
    EveryRequestHasADeadline
CHECK_DEADLOCK FALSE
