\* A customer who waits, two connections, all that the server does.
SPECIFICATION FairSpec
CONSTANTS
    NoName = NoName
    Users = {NoName}
    Packages <- OnePackage
    MaxConn = 2
    QueueCap = 3
    HastyCap = 2
    Deeds = {"register", "start", "tick", "end", "lock", "say", "gone"}
    HastyDeeds = {"register", "gone"}
    Layered = TRUE
INVARIANTS
    TypeOK
    LockIsWhole
    StationFollows
    PaymentIsAsked
PROPERTIES
    LockTakesEffect
    LossIsNoticed
CHECK_DEADLOCK FALSE
