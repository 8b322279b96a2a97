SPECIFICATION Spec
CONSTANTS
    Callers = {c1, c2}
    MaxRestarts = 3
    Bootstrap = 1
    Joiners = {2, 3}
    MaxStarts = 2
    StatusNodes = {1, 2}
    StatusSelf = 1
    MaxStatusTerm = 2
    MaxTasks = 3
    PoolUsers = {u1, u2, u3}
    MaxSize = 2
    MinSize = 1
    WordSize = 16
    Peers = {n1}
    Priorities = {1, 3}
    MaxMessages = 3
    MaxBuffered = 2
    BatchLimit = 2
    MaxOutages = 1
    ConnPeers = {n1, n2}
    NoPeer = NoPeer
    ConnCallers = {c1, c2}
    MaxConnections = 2
    QueueLimit = 1
    MaxCount = 3
INVARIANTS
    NodeTypesOK
    GivesUpAfterMaxRestarts
    
    PermitsAreConserved
    SentAtMostOnce
    BuffersInOrder
    
    MarkHasOneOwner
PROPERTIES
    WaitsOnlyOnLiveManager
    JoinAttemptEnds
    StatusCacheConverges
    DeadConnectionsAreDropped
    ShutdownEnds
CHECK_DEADLOCK FALSE
