--------------------------- MODULE TopologyGraph ---------------------------
(***************************************************************************)
(* How one discovery builds the graph of the network                       *)
(* (ShapingService.discover, collectors/topology.py,                       *)
(* collectors/config_graph.py) from what the routers could be read to see, *)
(* and how the tree that is served folds its boxes (reconcile_topology).   *)
(* Addresses and ports are numbers, so that the first of several is one;   *)
(* a point-to-point subnet is a name; a segment is the set of the ends     *)
(* plugged into one cable or switch.                                       *)
(***************************************************************************)
EXTENDS Integers, Sequences, FiniteSets, SequencesExt

CONSTANTS
    Routers,   \* the routers the operator may declare, in the order of their names
    Declared,  \* router -> [host, loopback, pop, role]: its record in the inventory
    Generic,   \* identities that prove nothing (GENERIC_NAMES)
    None
ASSUME RoutersAssumption == Routers \in Seq(Range(Routers)) /\ IsInjective(Routers)

Rank(r) == CHOOSE i \in DOMAIN Routers : Routers[i] = r
First(S) == CHOOSE x \in S : \A y \in S : x <= y
\* One mapping laid over another (what @@ of TLC is, written out to be proved about).
Over(f, g) == [x \in DOMAIN f \cup DOMAIN g |-> IF x \in DOMAIN f THEN f[x] ELSE g[x]]
Given(S) == S \ {None}

(***************************************************************************)
(* What one router answers (_read_router_topology).                        *)
(***************************************************************************)
Segment(w, r, p) == {s \in w.segments : [of |-> r, port |-> p] \in s}
Others(w, r, p) == (UNION Segment(w, r, p)) \ {[of |-> r, port |-> p]}
\* A device announces the addresses of the port, or those of no port.
Announced(d, port) ==
    LET on(p) == {a.ip : a \in {b \in d.addrs : b.port = p}} IN
    IF on(port) # {} THEN on(port) ELSE on(None)
Sighting(w, r, p, end) ==
    LET d == w.device[end.of] IN
    [by |-> r, port |-> p, mac |-> d.mac[end.port], name |-> d.name, radio |-> d.radio,
     addrs |-> Announced(d, end.port)]
Sightings(w, r) ==
    UNION {{Sighting(w, r, p, end) : end \in Others(w, r, p)} : p \in DOMAIN w.device[r].mac}
Reading(w, r) ==
    LET d == w.device[r] IN
    [sees |-> Sightings(w, r), macs |-> Range(d.mac), name |-> d.name, serial |-> d.serial,
     addrs |-> d.addrs, rids |-> d.rids, gateways |-> d.gateways, peers |-> d.peers,
     tunnels |-> d.tunnels, vlans |-> d.vlans, sessions |-> d.sessions]

-----------------------------------------------------------------------------
(* Identities.                                                             *)
RouterKey(r) == <<"router", r>>
OfRouter(k) == k[1] = "router"
MacKey(m) == <<"mac", m>>

\* The MACs several named devices announce.
AmbiguousMacs(seen) ==
    {m \in {s.mac : s \in seen} :
        Cardinality({s.name : s \in {t \in seen : t.mac = m}} \ (Generic \cup {None})) > 1}
NodeKey(s, ambiguous) ==
    IF s.mac # None /\ ~(s.mac \in ambiguous /\ s.name \notin Generic \cup {None}) THEN MacKey(s.mac)
    ELSE IF s.name # None THEN <<"identity", s.name>>
    ELSE IF s.addrs # {} THEN <<"address", First(s.addrs)>>
    ELSE None

\* The host address a router is known by: declared, carried by a loopback
\* interface, its router-id, named in a comment, a lone /32.
Loopback(declared, addrs, rids) ==
    LET on(kind) == {a.ip : a \in {b \in addrs : b.kind = kind}} IN
    IF declared # None THEN declared
    ELSE IF on("loopback") # {} THEN First(on("loopback"))
    ELSE IF rids # <<>> THEN rids[1]
    ELSE IF on("commented") # {} THEN First(on("commented"))
    ELSE IF on("host") # {} THEN First(on("host"))
    ELSE None

\* The default gateway, unless several tie.
Upstream(gateways) ==
    LET best == {g \in gateways : \A h \in gateways : g.distance <= h.distance} IN
    IF Cardinality({g.ip : g \in best}) = 1 THEN (CHOOSE g \in best : TRUE).ip ELSE None

\* Mutant: of several routers that claim a hint, one wins.
AnyOwner(claims, hint) ==
    LET owners == {c[2] : c \in {d \in claims : d[1] = hint}} IN
    IF owners # {} THEN CHOOSE o \in owners : \A p \in owners : Rank(o[2]) <= Rank(p[2]) ELSE None
\* A hint two routers claim identifies nobody.
Owner(claims, hint) ==
    LET owners == {c[2] : c \in {d \in claims : d[1] = hint}} IN
    IF Cardinality(owners) = 1 THEN CHOOSE o \in owners : TRUE ELSE None

-----------------------------------------------------------------------------
(* The hints by which a router of the inventory is recognised when another  *)
(* sees it.  in is what the discovery starts from: listed, the collectors;  *)
(* read, what each of them answered or None; own and loops, the addresses   *)
(* and the loopbacks read before; last, what the last graph knew of each.   *)
Claims(in, hints(_)) == UNION {{<<h, RouterKey(r)>> : h \in Given(hints(r))} : r \in in.listed}
Remembered(in, r) ==
    IF in.last[r] # None THEN in.last[r] ELSE [macs |-> {}, name |-> None, loopback |-> None]
LoopbackOf(in, r) ==
    IF in.read[r] # None THEN Loopback(Declared[r].loopback, in.read[r].addrs, in.read[r].rids)
    ELSE IF Declared[r].loopback # None THEN Declared[r].loopback ELSE Remembered(in, r).loopback
\* The addresses of a router that could not be read, as far as the routers
\* read before it have not taken them (own_addresses).
Kept(in, r) ==
    LET before == {s \in in.listed : in.read[s] # None /\ Rank(s) < Rank(r)}
        taken == (UNION {{a.ip : a \in in.read[s].addrs} : s \in before})
                 \cup {IF s \in before THEN LoopbackOf(in, s) ELSE in.loops[s] : s \in DOMAIN in.loops \ {r}}
    IN ({ip \in DOMAIN in.own : in.own[ip] = r} \ taken) \cup {in.loops[r]}
AddressHints(in, r) ==
    {Declared[r].host, Declared[r].loopback}
    \cup IF in.read[r] # None THEN {a.ip : a \in in.read[r].addrs} ELSE Kept(in, r)
MacHints(in, r) == IF in.read[r] # None THEN in.read[r].macs ELSE Remembered(in, r).macs
NameHints(in, r) ==
    ({r, Declared[r].pop} \ Generic)
    \cup {IF in.read[r] # None THEN in.read[r].name ELSE Remembered(in, r).name}

Indexes(in) ==
    [loopback |-> Claims(in, LAMBDA r : {LoopbackOf(in, r)}),
     ip |-> Claims(in, LAMBDA r : AddressHints(in, r)),
     mac |-> Claims(in, LAMBDA r : MacHints(in, r)),
     name |-> Claims(in, LAMBDA r : NameHints(in, r))]
AddressOwner(ix, ip) ==
    IF Owner(ix.loopback, ip) # None THEN Owner(ix.loopback, ip) ELSE Owner(ix.ip, ip)

-----------------------------------------------------------------------------
(* The boxes and the links as they are first laid.                         *)
Kind(role) == IF role \in {"gateway", "core"} THEN role ELSE "pop"
Box(name, kind, macs, addrs) ==
    [name |-> name, kind |-> kind, macs |-> macs, addrs |-> addrs, managed |-> FALSE,
     serial |-> None, ident |-> None, loopback |-> None, uisp |-> None, parent |-> None,
     cpe |-> None]
Link(src, port, dst, kind, by) ==
    [src |-> src, port |-> port, dst |-> dst, kind |-> kind, by |-> by, mirror |-> None,
     proven |-> FALSE]
LinkKey(l) == <<l.src, l.port, l.dst>>

\* A router that could not be read keeps its box, and what was known of it.
RouterBox(in, r) ==
    LET box == [Box(Declared[r].pop, Kind(Declared[r].role), MacHints(in, r), {Declared[r].host})
                  EXCEPT !.managed = TRUE] IN
    IF in.read[r] # None
    THEN [box EXCEPT !.serial = in.read[r].serial, !.ident = in.read[r].name,
                     !.loopback = LoopbackOf(in, r)]
    ELSE [box EXCEPT !.ident = Remembered(in, r).name, !.loopback = Declared[r].loopback]

Seen(in) == UNION {in.read[r].sees : r \in {s \in in.listed : in.read[s] # None}}
\* Router by router, and port by port.
Before(s, t) == Rank(s.by) < Rank(t.by) \/ (s.by = t.by /\ s.port <= t.port)

Earliest(S) == CHOOSE s \in S : \A t \in S : Before(s, t)
Latest(S) == CHOOSE s \in S : \A t \in S : Before(t, s)

\* Met several times under one key, a neighbour keeps its first name, MAC and
\* address and the first known kind; the addresses announced are the last ones
\* (add_node), an announcement without any taking none back.
NeighborBox(met) ==
    LET wired == {s \in met : s.mac # None}
        told == {s \in met : s.addrs # {}}
    IN Box(Earliest(met).name,
           IF \E s \in met : s.radio THEN "radio" ELSE "unknown",
           IF wired = {} THEN {} ELSE {Earliest(wired).mac},
           IF told = {} THEN {} ELSE {First(Earliest(told).addrs)} \cup Latest(told).addrs)
Laid(in) ==
    LET seen == Seen(in)
        ambiguous == AmbiguousMacs(seen)
        key(s) == NodeKey(s, ambiguous)
        at(k) == {s \in seen : key(s) = k}
        keys == {key(s) : s \in seen} \ {None}
    IN [nodes |-> [k \in keys \cup {RouterKey(r) : r \in in.listed} |->
                     IF OfRouter(k) THEN RouterBox(in, k[2]) ELSE NeighborBox(at(k))],
        links |-> {Link(RouterKey(s.by), s.port, key(s), "ethernet", s.by)
                     : s \in {t \in seen : key(t) # None}}]

-----------------------------------------------------------------------------
(* A neighbour that is a router of the inventory gives way to its box: by   *)
(* its loopback, its MAC, one of its addresses, its name, in that order.    *)
Resolved(ix, node) ==
    LET by(owners) == IF Given(owners) = {} THEN None ELSE CHOOSE o \in Given(owners) : TRUE
        looped == by({Owner(ix.loopback, a) : a \in node.addrs})
        macced == by({Owner(ix.mac, m) : m \in node.macs})
        addressed == by({Owner(ix.ip, a) : a \in node.addrs})
    IN IF looped # None THEN looped
       ELSE IF macced # None THEN macced
       ELSE IF addressed # None THEN addressed
       ELSE IF node.name \in Generic THEN None
       ELSE Owner(ix.name, node.name)
Folded(g, ix) ==
    LET now(k) == IF OfRouter(k) \/ Resolved(ix, g.nodes[k]) = None THEN k
                  ELSE Resolved(ix, g.nodes[k])
        moved == {[l EXCEPT !.src = now(l.src), !.dst = now(l.dst)] : l \in g.links}
    IN [nodes |-> [k \in {n \in DOMAIN g.nodes : now(n) = n} |-> g.nodes[k]],
        links |-> {l \in moved : l.src # l.dst}]

Joined(g, a, b) == \E l \in g.links : {l.src, l.dst} = {a, b}
\* Of the links found between two boxes not joined yet, one is kept.
Completed(g, found) ==
    LET pairs == {{l.src, l.dst} : l \in {f \in found : ~Joined(g, f.src, f.dst)}}
        between(p) == {l \in found : {l.src, l.dst} = p}
    IN [g EXCEPT !.links = @ \cup {CHOOSE l \in between(p) : TRUE : p \in pairs}]

\* Two routers read on one point-to-point subnet, and only these two.
Subnetted(g, in) ==
    LET read == {r \in in.listed : in.read[r] # None}
        on(r, net) == {a \in in.read[r].addrs : a.net = net /\ net # None}
        nets == UNION {{a.net : a \in in.read[r].addrs} : r \in read}
        members(net) == {r \in read : on(r, net) # {}}
        pairs == {net \in nets : Cardinality(members(net)) = 2}
        link(net) ==
            LET a == CHOOSE r \in members(net) : \A s \in members(net) : Rank(r) <= Rank(s)
                b == CHOOSE r \in members(net) : r # a
            IN Link(RouterKey(a), (CHOOSE x \in on(a, net) : TRUE).port, RouterKey(b),
                    "ethernet", a)
    IN Completed(g, {link(net) : net \in pairs})

Tunnelled(g, in, ix) ==
    LET ends(r) == {<<t.name, Owner(ix.ip, t.remote)>> : t \in in.read[r].tunnels}
        found == UNION {{Link(RouterKey(r), e[1], e[2], "ethernet", r)
                           : e \in {f \in ends(r) : f[2] \notin {None, RouterKey(r)}}}
                          : r \in {s \in in.listed : in.read[s] # None}}
    IN Completed(g, found)

\* A router set aside by the inventory has its box too.
WithSkipped(g, skipped) ==
    LET added == {RouterKey(r) : r \in skipped} \ DOMAIN g.nodes
        box(k) == [Box(Declared[k[2]].pop, Kind(Declared[k[2]].role), {}, {Declared[k[2]].host})
                     EXCEPT !.managed = TRUE]
    IN [g EXCEPT !.nodes = Over([k \in added |-> box(k)], @)]

\* The established routing sessions prove a link, or add one.
Peers(in, ix) ==
    UNION {{<<r, AddressOwner(ix, ip)>> : ip \in in.read[r].peers}
             : r \in {s \in in.listed : in.read[s] # None}}
Proven(g, in, ix) ==
    LET talks == {t \in Peers(in, ix) : t[2] \notin {None, RouterKey(t[1])}}
        between(t) == {l \in g.links : {l.src, l.dst} = {RouterKey(t[1]), t[2]}}
        marked == {CHOOSE l \in between(t) : TRUE : t \in {u \in talks : between(u) # {}}}
        added == Completed(g, {[Link(RouterKey(t[1]), None, t[2], "routing", t[1])
                                  EXCEPT !.proven = TRUE] : t \in talks}).links \ g.links
    IN [g EXCEPT !.links = {IF l \in marked THEN [l EXCEPT !.proven = TRUE] ELSE l : l \in @}
                           \cup added]

\* The parent of a router is the owner of its default gateway.
ParentOf(in, ix, r) ==
    LET owner == AddressOwner(ix, Upstream(in.read[r].gateways)) IN
    IF owner = RouterKey(r) THEN None ELSE owner
Oriented(g, in, ix) ==
    LET heard(k) == OfRouter(k) /\ k[2] \in in.listed /\ in.read[k[2]] # None IN
    [g EXCEPT !.nodes = [k \in DOMAIN @ |->
        IF heard(k) THEN [@[k] EXCEPT !.parent = ParentOf(in, ix, k[2])] ELSE @[k]]]

-----------------------------------------------------------------------------
(* The radios, the clients declared, the subscribers.                      *)
RadioKey(d) == IF d.mac # None THEN MacKey(d.mac) ELSE <<"uisp", d.id>>
WithRadios(g, radios) ==
    LET kind(d) == IF d.ap THEN "sector" ELSE "radio"
        known(d) == {k \in DOMAIN g.nodes : ~g.nodes[k].managed /\ d.mac \in g.nodes[k].macs}
        new == {d \in radios : known(d) = {}}
        here(k) == {d \in radios : k \in known(d)}
        box(k) == LET d == CHOOSE e \in new : RadioKey(e) = k IN
                  [Box(d.id, kind(d), Given({d.mac}), {}) EXCEPT !.uisp = d.id]
        named(k) == LET d == CHOOSE e \in here(k) : TRUE IN
                    [g.nodes[k] EXCEPT !.uisp = d.id, !.kind = kind(d)]
        old == [k \in DOMAIN g.nodes |-> IF here(k) = {} THEN g.nodes[k] ELSE named(k)]
    IN [nodes |-> Over(old, [k \in {RadioKey(d) : d \in new} |-> box(k)]),
        links |-> g.links \cup {Link(<<"uisp", d.parent>>, None, RadioKey(d), "radio", "uisp")
                                  : d \in {e \in radios : e.parent # None}}]

\* The VLAN of a client on the router of its PoP, when one interface only
\* carries it there.
VlanSite(in, c) ==
    LET r == c.pop
        named == IF r \in in.listed /\ in.read[r] # None /\ c.vlan # None
                 THEN {v \in in.read[r].vlans : v.id = c.vlan} ELSE {}
    IN IF Cardinality(named) = 1 THEN CHOOSE v \in named : TRUE ELSE None
VlanKey(r, id) == <<"vlan", r, id>>
ClientKey(c) == <<"static", c.ref>>

ParentOfClient(g, in, c) ==
    IF c.sector # None THEN c.sector
    ELSE IF VlanSite(in, c) # None THEN VlanKey(c.pop, c.vlan)
    ELSE IF c.pop \in in.listed THEN RouterKey(c.pop)
    ELSE None
WithClients(g, in, clients) ==
    LET onVlan == {c \in clients : c.sector = None /\ VlanSite(in, c) # None}
        vlans == [k \in {VlanKey(c.pop, c.vlan) : c \in onVlan} |->
                    Box(k[3], "vlan", {}, {})]
        boxes == [k \in {ClientKey(c) : c \in clients} |->
                    LET c == CHOOSE d \in clients : ClientKey(d) = k IN
                    Box(c.ref, "static", {}, {c.ip})]
        nodes == Over(Over(vlans, g.nodes), boxes)
        placed == {c \in clients : ParentOfClient(g, in, c) \in DOMAIN nodes}
    IN [nodes |-> nodes,
        links |-> g.links
            \cup {Link(RouterKey(c.pop), VlanSite(in, c).name, VlanKey(c.pop, c.vlan), "vlan", c.pop)
                    : c \in onVlan}
            \cup {Link(ParentOfClient(g, in, c), None, ClientKey(c), "static", "inventory")
                    : c \in placed}]

\* The sector of a subscriber: the one UISP declares for its station, else
\* the radio whose MAC its session carries.
Stations(g, radios) ==
    LET keyOf(id) ==
            IF \E k \in DOMAIN g.nodes : g.nodes[k].uisp = id
            THEN CHOOSE k \in DOMAIN g.nodes : g.nodes[k].uisp = id ELSE <<"uisp", id>>
        declared == {d \in radios : d.mac # None /\ d.parent # None
                                      /\ keyOf(d.parent) \in DOMAIN g.nodes}
        radio == {k \in DOMAIN g.nodes : g.nodes[k].kind \in {"radio", "sector"}}
    IN Over([m \in {d.mac : d \in declared} |-> keyOf((CHOOSE d \in declared : d.mac = m).parent)],
            [m \in UNION {g.nodes[k].macs : k \in radio} |->
               CHOOSE k \in radio : m \in g.nodes[k].macs])
Sessions(in) == UNION {in.read[r].sessions : r \in {s \in in.listed : in.read[s] # None}}
Sectors(g, in, radios, clients) ==
    LET stations == Stations(g, radios)
        joined == {s \in Sessions(in) : s.mac \in DOMAIN stations}
        declared == {c \in clients : c.sector \in DOMAIN g.nodes}
    IN Over([u \in {s.login : s \in joined} |-> stations[(CHOOSE s \in joined : s.login = u).mac]],
            [u \in {c.ref : c \in declared} |-> (CHOOSE c \in declared : c.ref = u).sector])

\* A neighbour that is the equipment of a subscriber: never a managed router.
WithCpes(g, in, clients) ==
    LET logins(n) == {s.login : s \in {t \in Sessions(in) : t.mac \in n.macs \/ t.ip \in n.addrs}}
                     \cup {c.ref : c \in {d \in clients : d.ip \in n.addrs}}
        free(n) == ~n.managed /\ n.kind # "static" /\ logins(n) # {}
        marked(n) == [n EXCEPT !.cpe = CHOOSE u \in logins(n) : TRUE, !.kind = "cpe"]
    IN [g EXCEPT !.nodes = [k \in DOMAIN @ |-> IF free(@[k]) THEN marked(@[k]) ELSE @[k]]]

-----------------------------------------------------------------------------
(* A cable seen from both its ends is two links: the second is marked.      *)
\* Mutant: the original is the link of the lower port.
LowerPort(pair) == CHOOSE l \in pair : \A o \in pair : l.port <= o.port
\* The original is the one its first router discovered, at every discovery.
Original(pair) == CHOOSE l \in pair : \A o \in pair : Rank(l.by) <= Rank(o.by)
Mirrored(g) ==
    LET managed == {k \in DOMAIN g.nodes : g.nodes[k].managed}
        ported == {l \in g.links : l.port # None /\ {l.src, l.dst} \subseteq managed}
        pair(l) == {o \in ported : {o.src, o.dst} = {l.src, l.dst}}
        both(l) == \E o \in pair(l) : o.src = l.dst /\ pair(l) = {l, o}
        marked == {l \in ported : both(l) /\ l # Original(pair(l))}
    IN [g EXCEPT !.links = {IF l \in marked THEN [l EXCEPT !.mirror = LinkKey(Original(pair(l)))]
                            ELSE l : l \in @}]

\* The whole of discover, from what was read to the graph that is kept.
Discovered(in, skipped, radios, clients) ==
    LET ix == Indexes(in)
        routers == Proven(WithSkipped(Tunnelled(Subnetted(Folded(Laid(in), ix), in), in, ix),
                                      skipped), in, ix)
        all == WithClients(WithRadios(Oriented(routers, in, ix), radios), in, clients)
        whole == Mirrored(WithCpes(all, in, clients))
    IN [nodes |-> whole.nodes, links |-> whole.links, sectors |-> Sectors(all, in, radios, clients)]

-----------------------------------------------------------------------------
(* The tree served: the boxes of one equipment are one (reconcile_topology).*)
\* Mutant: a MAC that two routers of the inventory carry still folds a box.
OwnersAny(nodes, m) == {k \in DOMAIN nodes : nodes[k].managed /\ m \in nodes[k].macs}
OwnersOfMac(nodes, m) ==
    LET owners == {k \in DOMAIN nodes : nodes[k].managed /\ m \in nodes[k].macs} IN
    IF Cardinality(owners) = 1 THEN owners ELSE {}
Same(nodes, aliases, a, b) ==
    \/ /\ nodes[a].serial # None /\ nodes[a].serial = nodes[b].serial
       /\ ~(nodes[a].managed /\ nodes[b].managed)
    \/ ~nodes[a].managed /\ \E m \in nodes[a].macs : b \in OwnersOfMac(nodes, m)
    \/ a \in DOMAIN aliases /\ aliases[a] = b
\* The boxes of the equipment of k: those reached in as many steps as there are.
Near(nodes, aliases, S) ==
    S \cup {b \in DOMAIN nodes :
              \E a \in S : Same(nodes, aliases, a, b) \/ Same(nodes, aliases, b, a)}
Reach(nodes, aliases, k) ==
    LET within[n \in 0..Cardinality(DOMAIN nodes)] ==
            IF n = 0 THEN {k} ELSE Near(nodes, aliases, within[n - 1])
    IN within
Members(nodes, aliases, k) == Reach(nodes, aliases, k)[Cardinality(DOMAIN nodes)]
\* The box that stands for them: chosen by hand, else a router of the
\* inventory, else a neighbour known by its MAC.
Canonical(boxes, aliases) ==
    LET first(some, others) == IF some # {} THEN some ELSE others
        chosen == first(boxes \cap Range(aliases), boxes)
        routers == {k \in chosen : OfRouter(k)}
        macs == {k \in chosen : k[1] = "mac"}
    IN CHOOSE k \in first(routers, first(macs, chosen)) : TRUE
=============================================================================
