\* The admin window over the server, across midnight.
SPECIFICATION ViewFairSpec
CONSTANTS
    NoName = NoName
    Users = {NoName}
    Packages <- FixedOnly
    MaxId = 2
    MaxSessions = 2
    MaxElapsed = 1
    MaxLag = 0
    SendCap = 0
    LastDay = 1
    Latest = 1
INVARIANTS
    ViewTypeOK
    CardsAreCurrent
    HeaderCountsClients
    DashboardLags
    MidnightMoney
PROPERTIES
    HistoryLags
    RevenueComesTrue
