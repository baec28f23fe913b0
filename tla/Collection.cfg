CONSTANTS
    None = None
    PopOf <- MCPopOf
    Plain <- MCPlain
    SiteName <- MCSiteName
    DefaultName <- MCDefaultName
    Within <- MCWithin
    Aggregates = {"all"}
    MinInterval = 2
    MaxStep = 9
    LoginOrder <- MCLoginOrder
    Clients <- MCClients
    ClientOrder <- MCClientOrder
    RouterOf <- MCRouterOf
    AddressesOf <- MCAddressesOf
    QueueRouter <- MCQueueRouter
    Ports <- MCPorts
    Plans <- MCPlans
    BatchSize = 1
    MaxMoves = 4
    FirstAddress <- MCFirstAddress
    Queue0 <- MCQueue0
    Seen0 <- MCSighted
    RouterLists <- MCRouterLists
    SeenLists <- MCSeenLists
    Kinds = {"traffic", "session", "queue", "fault", "record", "delete", "site", "plan", "external", "vlans", "routers", "probe", "age"}
SPECIFICATION MCSpec
INVARIANTS RateIsOwn
PROPERTIES Settles EveryoneIsProbed
CHECK_DEADLOCK FALSE
