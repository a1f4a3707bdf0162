SPECIFICATION HostsSpec
CONSTANTS
    claude = claude
    codex = codex
    Hosts <- MCHosts
    Default = claude
    Codex <- MCCodex
    Coordinators <- MCHosts
    MaxHosts = 3
    QueueLimit = 1
    MaxGroups = 3
    MaxHostStarts = 2
    MaxMessages = 3
INVARIANTS
    HostsTypeOK
    HeardByAddressee
    ReadyHostIsServed
    SessionsReachable
PROPERTIES
    AlarmsAreTrue
CHECK_DEADLOCK FALSE
