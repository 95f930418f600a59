\* A covered window is closed after a reconnect.
SPECIFICATION PatientSpec
CONSTANTS
    NoName = NoName
    Packages <- OnePackage
    Users <- Nobody
    MaxConn = 2
    MaxTicks = 1
    QueueCap = 2
    OddNames = FALSE
PROPERTIES
    CoveredStays
