CONSTANTS
    Sids = {"A", "B"}
    Customers = {"a", "b", "x"}
    Remotes = {"s"}
    Publics = {"p"}
    Infra = {}
    AppOf <- MCAppOf
    ManagedApps = {}
    Exporters = {"E", "P", "Q"}
    DestLimit = 2
    HostLimit = 1
    NatTtl = 1
    None = None
    Passages <- MCPassages
    ClientOf <- MCClientOf
    Layout <- MCLayout
    Announced = {"E", "P", "Q"}
    Block0 <- MCBlock0
    Declared0 <- MCDeclared0
    Role0 <- MCRole0
    Movable = {"a"}
    Editable = {"E"}
    DupTtl = 1
    PointTtl = 0
    MaxMoves = 1
SPECIFICATION MCSpec
INVARIANTS CountedOnce AppsAddUp
PROPERTIES ReturnIsItsOwn HandStays Converges
CHECK_DEADLOCK FALSE
