SPECIFICATION FairSpec
CONSTANTS
    QueueSize = 2
    Buffers = 2
    Transactions = 2
    ClientCbs = 3
    EventCbs = 4
    IdleTimeout = 1
    NonLifetime = 2
    Tokens <- OneToken
    MaxRequests = 2
    MaxReceived = 2
INVARIANTS Accounted
PROPERTIES PoolsRecover
