\* Three connections at once.
SPECIFICATION TangledSpec
CONSTANTS
    NoName = NoName
    Packages <- OnePackage
    Users <- Nobody
    MaxConn = 3
    MaxTicks = 0
    QueueCap = 2
    OddNames = FALSE
INVARIANTS
    TypeOK
    FieldsAreWatched
