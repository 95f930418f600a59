\* Two stations, two sessions: where every session goes.
SPECIFICATION Spec
CONSTANTS
    NoName = NoName
    Packages <- FixedAndHourly
    Users <- Nobody
    MaxId = 2
    MaxSessions = 2
    MaxElapsed = 2
    MaxLag = 1
    SendCap = 0
INVARIANTS
    TypeOK
    Accounted
    NoOvertime
    BilledWithinWallClock
    
    StopDialogNamesSession
    StartTargetsFree
PROPERTIES
    NoOverwrite
    KeepsLedger
