\* Two routers and a rule not laid yet; one change of any kind, at every moment of
\* the passes.
SPECIFICATION FairSpec
CONSTANTS
    d1 = d1  d2 = d2  c1 = c1  c2 = c2  r1 = r1  r2 = r2  op = op
    RuleIds = {1}
    Operators = {op}
    Takes <- MCTakes
    Dests = {d1, d2}
    Clients = {c1, c2}
    Ways = {"up"}
    AddressLimit = 1
    MaxRows = 10
    NoTarget = NoTarget
    NoAddr = NoAddr
    Absent = Absent
    Inventory <- MCTwoRouters
    Loops = {job}
    People = {ui}
    MaxActions = 6
    ForcedOff = FALSE
    Pass = Pass
    Free = Free
    Gone = Gone
    Shapes <- MCShapes
    FirstRules <- MCSaved
    OperatorRows <- MCOperatorRows
    Moves = {"save", "suspend", "delete", "discover", "client", "operator", "vanish", "toggle", "flag", "switch", "restart", "fault", "apply"}
    MaxMoves = 1
INVARIANTS AimedExactly
PROPERTIES OperatorLinesKept Converges
CHECK_DEADLOCK FALSE
