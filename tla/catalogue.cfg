\* Two processes of the server on one database file.
SPECIFICATION Spec
SYMMETRY Interchangeable
CONSTANTS
    Procs = {p1, p2}
    Prices <- Few
    Ports = {12345, 73616}
    Default <- Fresh
    MaxId <- TwoPackages
INVARIANTS
    TypeOK
    IdsNameOneRow
    ListsFollow
    DialogsAreCurrent
PROPERTIES
    LaunchKeepsRows
