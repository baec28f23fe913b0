SPECIFICATION Spec
CONSTANTS
    rn = rn  rs = rs  north = north  south = south  vlan = vlan  r1 = r1  r2 = r2  u = u
    a1 = a1  b1 = b1  c1 = c1  m = m  p1 = p1  one = one  two = two
    None = None  NoSite = NoSite
    Routers = {rn, rs}
    References = {r1, r2}
    Logins = {u}
    Addresses = {a1, b1, c1}
    Sites = {north, south, vlan, NoSite}
    Packages = {p1}
    Macs = {m}
    Requests = {one, two}
    DefaultRate = 0
    Order <- TheOrder
    OwnSite <- TheOwnSite
    VlanRouter <- TheVlans
    Network <- TheNetworks
    Stories <- TheStories
PROPERTIES HandIsKept Delivered Gone
CHECK_DEADLOCK FALSE
