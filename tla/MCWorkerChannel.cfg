SPECIFICATION FairSpec
CONSTANTS
    Conns = {c1, c2}
    QueueSize = 2
    WireSize = 1
    MaxEvents = 4
    MaxRestarts = 1
CHECK_DEADLOCK FALSE
INVARIANTS
    TypeOK
PROPERTIES
    ImplementsChannel
    DeadSubscribersLeave
    AcceptedIsHandled
