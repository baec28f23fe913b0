\* The loop, an integration and the apply button on one router, with the switches,
\* a restart and another instance's row: the write path keeps its contract.
SPECIFICATION Spec
CONSTANTS
    s1 = s1  s2 = s2  l1 = l1  x1 = x1  x2 = x2  a1 = a1  a2 = a2
    Subs = {s1}
    Links = {l1}
    ThirdNames = {x1}
    Addrs = {a1, a2}
    Blocks = {}
    Network <- MCNetwork
    Sector <- MCSector
    Static = {}
    Rates = {1, 2}
    MaxRows = 5
    Adopt = TRUE
    NoParent = NoParent
    Absent = Absent
    Skip = Skip
    Off = Off
    Loops = {loop}
    Humans = {}
    Apis = {api}
    Appliers = {apply}
    All = All
    Rank <- MCRank
    MaxActions = 5
    ForcedOff = FALSE
    FirstLists <- MCLists
    FirstPolicies <- MCClientOff
    FirstReaches <- MCReaches
    ThirdRows <- MCThirdOnFirst
    Moves = {"switch", "flag", "third", "restart", "fault"}
    MaxMoves = 2
PROPERTIES KeepsContract
CHECK_DEADLOCK FALSE
