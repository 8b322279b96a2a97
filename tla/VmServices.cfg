SPECIFICATION Spec
CONSTANTS
    Vms = {1, 2}
    FirstIp = 1
    LastIp = 3
    MaxTries = 4
    MaxEvents = 5
    HealthVms = {v1}
    Recoveries = {t1, t2}
    MaxRecoveries = 1
    MaxAttempts = 2
    RestartDelay = 1
    MaxBackoff = 2
    Migration = TRUE
    Pools = {1, 2}
    PoolRange <- MCRange
    Gateway <- MCGateway
    PoolHint <- MCHint
    IpClients = {c1, c2}
    IpVms = {"a", "b"}
INVARIANTS
    VmTypesOK
    LocalIpsDistinct
    AllocationComplete
    NoPhantomRecovery
    RecoveriesWithinLimit
    IpIndexesAgree
PROPERTIES
    RecoveriesEnd
CHECK_DEADLOCK FALSE
