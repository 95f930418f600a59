\* One connection at a time, and a second one after it.
SPECIFICATION PatientFairSpec
CONSTANTS
    NoName = NoName
    Packages <- OnePackage
    Users <- Nobody
    MaxConn = 2
    MaxTicks = 1
    QueueCap = 4
    OddNames = TRUE
INVARIANTS
    LockShows
    NothingLeaks
    FollowsServer
PROPERTIES
    LockArrivesIfAnswered
