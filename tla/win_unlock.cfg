\* The admin unlocks a station by hand.
SPECIFICATION Spec
CONSTANTS
    NoName = NoName
    Users = {NoName}
    Packages <- OnePackage
    MaxConn = 2
    QueueCap = 3
    HastyCap = 2
    Deeds = {"register", "start", "tick", "end", "lock", "say", "gone"}
    HastyDeeds = {"register", "gone"}
    Layered = TRUE
INVARIANT
    UnlockFrees
CHECK_DEADLOCK FALSE
