\* What the planner says against what the router does: every way three changes of
\* the policies, the sessions and the list may fall between the steps of the loop.
SPECIFICATION Spec
CONSTANTS
    s1 = s1  s2 = s2  l1 = l1  x1 = x1  x2 = x2  a1 = a1  a2 = a2
    Subs = {s1, s2}
    Links = {l1}
    ThirdNames = {x1, x2}
    Addrs = {a1, a2}
    Blocks <- MCBlocks
    Network <- MCNetwork
    Sector <- MCSector
    Static = {s2}
    Rates = {1, 2}
    MaxRows = 7
    Adopt = FALSE
    NoParent = NoParent
    Absent = Absent
    Skip = Skip
    Off = Off
    Loops = {loop}
    Humans = {}
    Apis = {}
    Appliers = {}
    All = All
    Rank <- MCRank
    MaxActions = 5
    ForcedOff = FALSE
    FirstLists <- MCLists
    FirstPolicies <- MCPolicies
    FirstReaches <- MCReachesNested
    ThirdRows <- MCThirdOnBoth
    Moves = {"policy", "session", "third", "toggle", "vanish", "window"}
    MaxMoves = 3
INVARIANTS GreenPlanIsHeld ParentsFirst PageIsExact
PROPERTIES FrozenIsLeftAlone
