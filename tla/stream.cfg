\* One station, two sessions: what is written to it, in which order, and that
\* the timer ends them.
SPECIFICATION SeldomFairSpec
CONSTANTS
    NoName = NoName
    Packages <- FixedOnly
    Users <- Nobody
    MaxId = 1
    MaxSessions = 2
    MaxElapsed = 2
    MaxLag = 0
    SendCap = 3
INVARIANTS
    StreamMirrorsServer
PROPERTIES
    KeepsContract
    TimedSessionEnds
