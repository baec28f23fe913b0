SPECIFICATION Spec
CONSTANTS
    None = None
    Routers <- Order
    Declared <- Records
    Generic = {"mikrotik"}
    Stories <- Tales
    Discoveries = {1, 2}
    MaxMoves = 4
INVARIANTS OneBoxEach LinksAreCables NoCableLost OneParent
CHECK_DEADLOCK FALSE
