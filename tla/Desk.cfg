SPECIFICATION Spec
CONSTANTS
    u1 = u1  u2 = u2  k1 = k1  k2 = k2  k3 = k3  app = app  p1 = p1  p2 = p2
    cake = cake  low = low  high = high
    None = None
    Users = {u1, u2}
    Tokens = {k1, k2, k3}
    Keys = {app}
    Passwords = {p1, p2}
    Settings = {cake}
    Values = {low, high}
    Requests = {1, 2}
    MaxSessions = 1
    MaxMoves = 4
    Starts <- Stories
INVARIANTS EditorRemains TakenAtOnce OldPasswordsOut RestartAgrees
CHECK_DEADLOCK FALSE
