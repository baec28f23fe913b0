\* The loop beside a person's gesture: what the gesture answers, and, once the
\* environment is quiet, nothing left to write.
SPECIFICATION FairSpec
CONSTANTS
    s1 = s1  s2 = s2  l1 = l1  x1 = x1  x2 = x2  a1 = a1  a2 = a2
    Subs = {s1}
    Links = {l1}
    ThirdNames = {x1}
    Addrs = {a1, a2}
    Blocks = {}
    Network <- MCNetwork
    Sector <- MCSector
    Static = {}
    Rates = {1, 2}
    MaxRows = 5
    Adopt = FALSE
    NoParent = NoParent
    Absent = Absent
    Skip = Skip
    Off = Off
    Loops = {loop}
    Humans = {ui}
    Apis = {}
    Appliers = {}
    All = All
    Rank <- MCRank
    MaxActions = 5
    ForcedOff = FALSE
    FirstLists <- MCLists
    FirstPolicies <- MCPolicies
    FirstReaches <- MCReaches
    ThirdRows <- MCThirdOnFirst
    Moves = {"policy", "session", "third", "fault", "switch", "flag", "toggle"}
    MaxMoves = 1
PROPERTIES Converges HeldOrFrozen
