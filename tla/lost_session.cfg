\* The process ends while a session runs.
SPECIFICATION Spec
CONSTANTS
    NoName = NoName
    Packages <- FixedAndHourly
    Users <- Nobody
    MaxId = 1
    MaxSessions = 1
    MaxElapsed = 2
    MaxLag = 1
    SendCap = 0
INVARIANTS
    EndedSessionsAreRecorded
