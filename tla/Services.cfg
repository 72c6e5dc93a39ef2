CONSTANTS
    Reader = {r1}
    Stream = {s1}
    Queue = 1
    MaxSize = 2
    Retention = 1
    MaxEntries = 4
    MaxFaults = 1
    MaxCrashes = 1
    MaxClears = 1
    flood = flood
    scan = scan
    slack = slack
    discord = discord
    Rules <- MCRules
    On <- MCOn
    Targets <- MCTargets
    Cooldown <- MCCooldown
    Provider = {slack, discord}
    Known <- MCKnown
    Attempts <- MCAttempts
    FirstBackoff <- MCFirstBackoff
    Width = 8
    MaxHistory = 2
    Dispatcher = {d1, d2}
    MaxAlertTime = 1
    MaxDispatches = 2
    MaxEvents = 1
    Client = {c1, c2}
    Cost = 2
    Burst = 5
    Idle = 3
    SweepEvery = 2
    MaxTime = 9
    MaxPause = 3
    Pager = {p1}
    PageSize = 1
    Wanted = {1, 3, 4}
    MaxRecords = 4
    MaxMishaps = 2
SPECIFICATION Spec
INVARIANTS
    TypeOK
    AcknowledgedIsKept
    QueriesTellTheLog
    StreamsFollowTheLog
    ArchivesAreBounded
    CooldownHolds
    HistoryIsTrue
    HealthAgreesWithHistory
    IdleBucketsGo
    AuditIsATrail
PROPERTY ImplementsTokenBuckets
\* The clock, the entries, the dispatches and the records end.
CHECK_DEADLOCK FALSE
