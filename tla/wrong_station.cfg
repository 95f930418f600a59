\* The start dialog outlives the client it was opened for.
SPECIFICATION Spec
CONSTANTS
    NoName = NoName
    Packages <- FixedOnly
    Users <- Nobody
    MaxId = 2
    MaxSessions = 1
    MaxElapsed = 2
    MaxLag = 1
    SendCap = 0
PROPERTIES
    StartHitsChosenStation
