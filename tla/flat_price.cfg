\* A session on a fixed package ends before its first tick.
SPECIFICATION Spec
CONSTANTS
    NoName = NoName
    Packages <- FixedAndHourly
    Users <- Nobody
    MaxId = 1
    MaxSessions = 1
    MaxElapsed = 2
    MaxLag = 1
    SendCap = 0
INVARIANTS
    FlatPriceIsPaid
