SPECIFICATION Spec
CONSTANTS
    o = o  a = a  b = b  c = c  p = p  g = g  k = k
    None = None
    Default = Default
    Addrs = {o, a, b, c, p, g, k}
    Retention = 1
    Starts <- Stories
INVARIANTS OkRunMissesNobody
PROPERTIES CandidatesSettle RunsOnlyAdd TreeFollows
