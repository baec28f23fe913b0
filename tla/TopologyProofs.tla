---------------------------- MODULE TopologyProofs ----------------------------
(***************************************************************************)
(* What holds of the tree for every network, however the discoveries       *)
(* overlap and whatever the operator does: a cable keeps one of its two    *)
(* links unmarked, a client declared has one parent, and a router keeps a  *)
(* box of its own.  And where devices are told apart: a link between two    *)
(* routers is one the network has or had, and no router has a second box.  *)
(*                                                                         *)
(* The first part follows the graph of one discovery step by step, then    *)
(* what the database holds: a discovery marks of two links that answer     *)
(* each other the one whose router comes later, so that no two discoveries *)
(* can mark both.  The second part follows what the boxes and the links    *)
(* say of the network, through the graph of one discovery, what a process  *)
(* remembers, and the database.                                            *)
(***************************************************************************)
EXTENDS Topology, FiniteSetTheorems, WellFoundedInduction, TLAPS

-----------------------------------------------------------------------------
(* Names and ranks.                                                         *)
RouterKeys == {RouterKey(r) : r \in Names}

LEMMA RankOrders ==
    /\ \A r \in Names : Rank(r) \in Nat
    /\ \A r, s \in Names : Rank(r) = Rank(s) => r = s
<1>1. ASSUME NEW r \in Names PROVE Rank(r) \in DOMAIN Routers /\ Routers[Rank(r)] = r
    BY <1>1 DEF Names, Range, Rank
<1>2. DOMAIN Routers \subseteq Nat
    BY RoutersAssumption
<1> QED
    BY <1>1, <1>2

LEMMA NamesFinite == IsFiniteSet(Names)
<1>1. IsFiniteSet(DOMAIN Routers)
    <2>1. DOMAIN Routers = 1..Len(Routers) /\ Len(Routers) \in Nat
        BY RoutersAssumption
    <2> QED
        BY <2>1, FS_Interval
<1>2. Routers \in Surjection(DOMAIN Routers, Names)
    BY RoutersAssumption DEF Names, Range, Surjection
<1> QED
    BY <1>1, <1>2, FS_Surjection

\* What is made of the elements of a finite set is finite.
LEMMA ImageFinite ==
    ASSUME NEW S, IsFiniteSet(S), NEW f, f = [x \in S |-> f[x]]
    PROVE  IsFiniteSet({f[x] : x \in S})
<1> DEFINE T == {f[x] : x \in S}
<1>1. f \in Surjection(S, T)
    BY DEF Surjection
<1> HIDE DEF T
<1>2. IsFiniteSet(T)
    BY <1>1, FS_Surjection
<1> QED
    BY <1>2 DEF T

\* An owner found is a router that claims the hint.
LEMMA OwnerClaims ==
    ASSUME NEW claims, NEW S, NEW hint,
           \A c \in claims : \E r \in S : c[2] = RouterKey(r),
           Owner(claims, hint) # None
    PROVE  \E r \in S : Owner(claims, hint) = RouterKey(r)
<1> DEFINE owners == {c[2] : c \in {d \in claims : d[1] = hint}}
<1>1. Cardinality(owners) = 1 /\ Owner(claims, hint) = CHOOSE o \in owners : TRUE
    BY DEF Owner
<1>2. owners # {}
    BY <1>1, FS_EmptySet
<1>3. Owner(claims, hint) \in owners
    BY <1>1, <1>2
<1> QED
    BY <1>3

\* What a discovery starts from: every sighting is by its router, and there are
\* finitely many.
Input(in) ==
    /\ in.listed \subseteq Names
    /\ \A r \in in.listed :
          in.read[r] # None => /\ \A s \in in.read[r].sees : s.by = r
                               /\ IsFiniteSet(in.read[r].sees)

\* Every hint is claimed by a router that is collected.
LEMMA IndexesName ==
    ASSUME NEW in, NEW ix, ix = Indexes(in)
    PROVE  \A hint : /\ Owner(ix.loopback, hint) # None
                            => \E r \in in.listed : Owner(ix.loopback, hint) = RouterKey(r)
                     /\ Owner(ix.mac, hint) # None
                            => \E r \in in.listed : Owner(ix.mac, hint) = RouterKey(r)
                     /\ Owner(ix.ip, hint) # None
                            => \E r \in in.listed : Owner(ix.ip, hint) = RouterKey(r)
                     /\ Owner(ix.name, hint) # None
                            => \E r \in in.listed : Owner(ix.name, hint) = RouterKey(r)
<1> DEFINE Named(claims) == \A c \in claims : \E r \in in.listed : c[2] = RouterKey(r)
<1>1. Named(ix.loopback)
    <2> DEFINE hinted(r) == Given({LoopbackOf(in, r)})
    <2>1. ix.loopback = UNION {{<<h, RouterKey(r)>> : h \in hinted(r)} : r \in in.listed}
        BY DEF Indexes, Claims
    <2> HIDE DEF hinted
    <2> QED
        BY <2>1
<1>2. Named(ix.ip)
    BY DEF Indexes, Claims
<1>3. Named(ix.mac)
    BY DEF Indexes, Claims
<1>4. Named(ix.name)
    BY DEF Indexes, Claims
<1> QED
    BY <1>1, <1>2, <1>3, <1>4, OwnerClaims

-----------------------------------------------------------------------------
(* One discovery: the links it lays, before any is marked.                  *)
LinkFields == {"src", "port", "dst", "kind", "by", "mirror", "proven"}
Across(l)   == OfRouter(l.src) /\ OfRouter(l.dst)
IsBranch(k) == k[1] \in {"static", "vlan"}

\* A link between two routers starts from the router that found it.
LaidBy(l) ==
    /\ l.by \in Names /\ l.src = RouterKey(l.by) /\ l.kind # "vlan"
    /\ \E r \in Names \ {l.by} : l.dst = RouterKey(r)
Drawn(l) ==
    /\ DOMAIN l = LinkFields /\ l.mirror = None /\ l.by # "manual"
    /\ Across(l) => LaidBy(l)

\* The managed boxes are those of routers of the inventory, which no subscriber
\* takes; the others have one MAC at most, and no serial number.
BoxFields == {"name", "kind", "macs", "addrs", "managed", "serial", "ident", "loopback", "uisp",
              "parent", "cpe"}
Labelled(k, n) ==
    /\ BoxFields \subseteq DOMAIN n /\ (n.managed <=> OfRouter(k))
    /\ OfRouter(k) => k \in RouterKeys /\ n.cpe = None
    /\ ~OfRouter(k) => n.serial = None /\ \E m : n.macs \subseteq {m}
Boxes(f) == IsFiniteSet(DOMAIN f) /\ \A k \in DOMAIN f : Labelled(k, f[k])
\* A graph without the clients.
Bare(g) ==
    /\ DOMAIN g = {"nodes", "links"} /\ Boxes(g.nodes)
    /\ \A l \in g.links : Drawn(l) /\ ~IsBranch(l.dst)

LEMMA OverBoxes ==
    ASSUME NEW f, NEW h, Boxes(f), Boxes(h)
    PROVE  Boxes(Over(f, h))
<1>1. \A k \in DOMAIN Over(f, h) :
         \/ k \in DOMAIN f /\ Over(f, h)[k] = f[k]
         \/ k \in DOMAIN h /\ Over(f, h)[k] = h[k]
    BY DEF Over
<1>2. IsFiniteSet(DOMAIN Over(f, h))
    <2>1. DOMAIN Over(f, h) = DOMAIN f \cup DOMAIN h
        BY DEF Over
    <2> QED
        BY <2>1, FS_Union DEF Boxes
<1> QED
    BY <1>1, <1>2 DEF Boxes

\* A neighbour is known by a MAC, a name or an address.
IsNeighbour(k) == k[1] \in {"mac", "identity", "address"}

LEMMA NeighbourKey ==
    ASSUME NEW s, NEW ambiguous, NodeKey(s, ambiguous) # None
    PROVE  IsNeighbour(NodeKey(s, ambiguous))
<1>1. \/ NodeKey(s, ambiguous) = MacKey(s.mac)
      \/ NodeKey(s, ambiguous) = <<"identity", s.name>>
      \/ NodeKey(s, ambiguous) = <<"address", First(s.addrs)>>
      \/ NodeKey(s, ambiguous) = None
    BY DEF NodeKey
<1> QED
    BY <1>1 DEF IsNeighbour, MacKey

LEMMA BoxShape ==
    ASSUME NEW name, NEW kind, NEW macs, NEW addrs, NEW n, n = Box(name, kind, macs, addrs)
    PROVE  /\ DOMAIN n = BoxFields /\ ~n.managed /\ n.serial = None /\ n.cpe = None
           /\ n.macs = macs
<1>1. DOMAIN n = BoxFields
    BY DEF Box, BoxFields
<1>2. ~n.managed
    <2>1. n.managed = FALSE
        BY Zenon DEF Box
    <2> QED
        BY <2>1, Zenon
<1>3. n.serial = None /\ n.cpe = None /\ n.macs = macs
    BY DEF Box
<1> QED
    BY <1>1, <1>2, <1>3

\* A box changed in what it says of nothing but itself.
LEMMA SameLabel ==
    ASSUME NEW k, NEW n, Labelled(k, n), NEW m, BoxFields \subseteq DOMAIN m,
           m.managed = n.managed, m.macs = n.macs, m.serial = n.serial,
           OfRouter(k) => m.cpe = n.cpe
    PROVE  Labelled(k, m)
<1>1. m.managed <=> OfRouter(k)
    BY Zenon DEF Labelled
<1>2. /\ OfRouter(k) => k \in RouterKeys /\ m.cpe = None
      /\ ~OfRouter(k) => m.serial = None /\ \E a : m.macs \subseteq {a}
    BY DEF Labelled
<1> QED
    BY <1>1, <1>2, Zenon DEF Labelled

\* The box of what is not a router.
LEMMA PlainLabel ==
    ASSUME NEW k, ~OfRouter(k), NEW m, NEW n, BoxFields \subseteq DOMAIN n, ~n.managed,
           n.serial = None, n.macs \subseteq {m}
    PROVE  Labelled(k, n)
BY DEF Labelled

LEMMA LinkShape ==
    ASSUME NEW src, NEW port, NEW dst, NEW kind, NEW by, NEW l, l = Link(src, port, dst, kind, by)
    PROVE  /\ DOMAIN l = LinkFields /\ l.mirror = None
           /\ l.src = src /\ l.port = port /\ l.dst = dst /\ l.kind = kind /\ l.by = by
BY DEF Link, LinkFields

LEMMA KeysApart ==
    /\ \A k : IsNeighbour(k) => ~OfRouter(k) /\ ~IsBranch(k)
    /\ \A r : OfRouter(RouterKey(r)) /\ ~IsBranch(RouterKey(r))
    /\ \A r, s : RouterKey(r) = RouterKey(s) => r = s
    /\ \A k \in RouterKeys : \E r \in Names : k = RouterKey(r)
BY DEF IsNeighbour, OfRouter, IsBranch, RouterKey, RouterKeys

\* The links of the first reading: from each router to what it saw.
LEMMA LaidSound ==
    ASSUME NEW in, Input(in)
    PROVE  /\ Boxes(Laid(in).nodes)
           /\ \A l \in Laid(in).links :
                 /\ DOMAIN l = LinkFields /\ l.mirror = None
                 /\ l.by \in Names /\ l.src = RouterKey(l.by) /\ l.kind = "ethernet"
                 /\ IsNeighbour(l.dst)
<1> DEFINE seen == Seen(in)
           ambiguous == AmbiguousMacs(seen)
           key(s) == NodeKey(s, ambiguous)
           of(k) == {s \in seen : key(s) = k}
           keys == {key(s) : s \in seen} \ {None}
           all == keys \cup {RouterKey(r) : r \in in.listed}
<1>1. Laid(in) =
        [nodes |-> [k \in all |-> IF OfRouter(k) THEN RouterBox(in, k[2])
                                  ELSE NeighborBox(of(k))],
         links |-> {Link(RouterKey(s.by), s.port, key(s), "ethernet", s.by)
                      : s \in {t \in seen : key(t) # None}}]
    BY DEF Laid
<1>2. \A s \in seen : s.by \in Names
    BY DEF Seen, Input
<1>3. \A k \in keys : IsNeighbour(k)
    BY NeighbourKey
<1>6. IsFiniteSet(all)
    <2>1. IsFiniteSet(seen)
        <3> DEFINE heard == {r \in in.listed : in.read[r] # None}
                   f == [r \in heard |-> in.read[r].sees]
        <3>1. IsFiniteSet(heard)
            BY NamesFinite, FS_Subset DEF Input
        <3>2. seen = UNION {f[r] : r \in heard} /\ \A r \in heard : IsFiniteSet(f[r])
            BY DEF Seen, Input
        <3>3. f = [r \in heard |-> f[r]]
            OBVIOUS
        <3> HIDE DEF f, heard, seen
        <3>4. IsFiniteSet({f[r] : r \in heard})
            BY <3>1, <3>3, ImageFinite
        <3>5. \A T \in {f[r] : r \in heard} : IsFiniteSet(T)
            BY <3>2
        <3> QED
            BY <3>2, <3>4, <3>5, FS_UNION
    <2>2. IsFiniteSet({key(s) : s \in seen})
        <3> HIDE DEF key, seen
        <3> DEFINE f == [s \in seen |-> key(s)]
        <3>1. f = [s \in seen |-> f[s]] /\ {f[s] : s \in seen} = {key(s) : s \in seen}
            OBVIOUS
        <3> HIDE DEF f
        <3> QED
            BY <2>1, <3>1, ImageFinite
    <2>3. IsFiniteSet({RouterKey(r) : r \in in.listed})
        <3> DEFINE f == [r \in in.listed |-> RouterKey(r)]
        <3>1. f = [r \in in.listed |-> f[r]]
              /\ {f[r] : r \in in.listed} = {RouterKey(r) : r \in in.listed}
            OBVIOUS
        <3>2. IsFiniteSet(in.listed)
            BY NamesFinite, FS_Subset DEF Input
        <3> HIDE DEF f, keys, key, seen, all
        <3>3. PICK T : T = in.listed
            OBVIOUS
        <3>4. IsFiniteSet({f[r] : r \in T})
            BY <3>1, <3>2, <3>3, ImageFinite
        <3> QED
            BY <3>1, <3>3, <3>4
    <2>4. IsFiniteSet(keys)
        <3>1. keys \in SUBSET {key(s) : s \in seen}
            OBVIOUS
        <3> HIDE DEF keys, key, seen
        <3> QED
            BY <2>2, <3>1, FS_Subset
    <2> HIDE DEF keys
    <2> QED
        BY <2>3, <2>4, FS_Union
<1> HIDE DEF of
<1>4. Boxes(Laid(in).nodes)
    <2>1. \A r : /\ BoxFields \subseteq DOMAIN RouterBox(in, r) /\ RouterBox(in, r).managed = TRUE
                 /\ RouterBox(in, r).cpe = None
        BY DEF RouterBox, Box, BoxFields
    <2>2. ASSUME NEW met
          PROVE  /\ DOMAIN NeighborBox(met) = BoxFields /\ ~NeighborBox(met).managed
                 /\ NeighborBox(met).serial = None
                 /\ \E m : NeighborBox(met).macs \subseteq {m}
        <3>1. PICK n : n = NeighborBox(met)
            OBVIOUS
        <3> DEFINE wired == {s \in met : s.mac # None}
                   wires == IF wired = {} THEN {} ELSE {Earliest(wired).mac}
        <3>2. PICK macs : macs = wires /\ \E name, kind, addrs : n = Box(name, kind, macs, addrs)
            BY <3>1 DEF NeighborBox
        <3>4. macs \subseteq {Earliest(wired).mac}
            BY <3>2
        <3> HIDE DEF wired, wires
        <3>3. DOMAIN n = BoxFields /\ ~n.managed /\ n.serial = None /\ n.macs = macs
            BY <3>2, BoxShape
        <3> QED
            BY <3>1, <3>3, <3>4
    <2>3. \A k \in all : OfRouter(k) => k \in RouterKeys
        BY <1>3, KeysApart DEF Input, RouterKeys
    <2> HIDE DEF all
    <2>4. SUFFICES ASSUME NEW k \in all
          PROVE  LET box == IF OfRouter(k) THEN RouterBox(in, k[2])
                            ELSE NeighborBox(of(k))
                 IN  Labelled(k, box)
        BY <1>1, <1>6 DEF Boxes
    <2>5. CASE OfRouter(k)
        BY <2>1, <2>3, <2>5 DEF Labelled
    <2>6. CASE ~OfRouter(k)
        BY <2>2, <2>6, PlainLabel
    <2> QED
        BY <2>5, <2>6
<1>5. ASSUME NEW l \in Laid(in).links
      PROVE  /\ DOMAIN l = LinkFields /\ l.mirror = None
             /\ l.by \in Names /\ l.src = RouterKey(l.by) /\ l.kind = "ethernet"
             /\ IsNeighbour(l.dst)
    <2>1. PICK s \in seen : /\ key(s) # None
                            /\ l = Link(RouterKey(s.by), s.port, key(s), "ethernet", s.by)
        BY <1>1, <1>5
    <2> HIDE DEF key, seen
    <2>2. IsNeighbour(key(s))
        BY <2>1, NeighbourKey DEF key
    <2> QED
        BY <1>2, <2>1, <2>2, LinkShape
<1> QED
    BY <1>4, <1>5

\* A neighbour that gives way does so to a router that is collected.
LEMMA ResolvedRouter ==
    ASSUME NEW in, Input(in), NEW ix, ix = Indexes(in), NEW node, Resolved(ix, node) # None
    PROVE  Resolved(ix, node) \in RouterKeys
<1> DEFINE by(owners) == IF Given(owners) = {} THEN None ELSE CHOOSE o \in Given(owners) : TRUE
           looped == by({Owner(ix.loopback, a) : a \in node.addrs})
           macced == by({Owner(ix.mac, m) : m \in node.macs})
           addressed == by({Owner(ix.ip, a) : a \in node.addrs})
<1>1. ASSUME NEW owners, \A o \in owners : o # None => o \in RouterKeys
      PROVE  by(owners) = None \/ by(owners) \in RouterKeys
    BY <1>1 DEF Given
<1>2. \A hint : /\ Owner(ix.loopback, hint) # None => Owner(ix.loopback, hint) \in RouterKeys
                /\ Owner(ix.mac, hint) # None => Owner(ix.mac, hint) \in RouterKeys
                /\ Owner(ix.ip, hint) # None => Owner(ix.ip, hint) \in RouterKeys
                /\ Owner(ix.name, hint) # None => Owner(ix.name, hint) \in RouterKeys
    BY IndexesName DEF Input, RouterKeys
<1> HIDE DEF by
<1>3. looped = None \/ looped \in RouterKeys
    BY <1>1, <1>2
<1>4. macced = None \/ macced \in RouterKeys
    BY <1>1, <1>2
<1>5. addressed = None \/ addressed \in RouterKeys
    BY <1>1, <1>2
<1>6. Resolved(ix, node) \in {looped, macced, addressed, None, Owner(ix.name, node.name)}
    BY DEF Resolved, by
<1> QED
    BY <1>2, <1>3, <1>4, <1>5, <1>6

LEMMA FoldedSound ==
    ASSUME NEW in, Input(in), NEW ix, ix = Indexes(in)
    PROVE  Bare(Folded(Laid(in), ix))
<1> DEFINE g == Laid(in)
           now(k) == IF OfRouter(k) \/ Resolved(ix, g.nodes[k]) = None THEN k
                     ELSE Resolved(ix, g.nodes[k])
           Moved(l) == [l EXCEPT !.src = now(l.src), !.dst = now(l.dst)]
           moved == {Moved(l) : l \in g.links}
           left == {n \in DOMAIN g.nodes : now(n) = n}
<1>1. Folded(g, ix) = [nodes |-> [k \in left |-> g.nodes[k]],
                       links |-> {l \in moved : l.src # l.dst}]
    BY DEF Folded
<1>2. \A k : now(k) = k \/ (~OfRouter(k) /\ now(k) \in RouterKeys)
    BY ResolvedRouter
<1>3. \A k : OfRouter(k) => now(k) = k
    OBVIOUS
<1>4. Boxes(Folded(g, ix).nodes)
    <2>1. Boxes(g.nodes)
        BY LaidSound
    <2>2. left \subseteq DOMAIN g.nodes
        OBVIOUS
    <2> HIDE DEF g, now, left, moved
    <2>3. Folded(g, ix).nodes = [k \in left |-> g.nodes[k]]
        BY <1>1
    <2>4. \A k \in left : Folded(g, ix).nodes[k] = g.nodes[k]
        BY <2>3
    <2>5. DOMAIN Folded(g, ix).nodes = left
        BY <2>3
    <2> QED
        BY <2>1, <2>2, <2>4, <2>5, FS_Subset DEF Boxes
<1> HIDE DEF g, now
<1>5. ASSUME NEW l \in Folded(g, ix).links
      PROVE  Drawn(l) /\ ~IsBranch(l.dst)
    <2>1. PICK old \in g.links : l = Moved(old)
        <3> HIDE DEF Moved
        <3> QED
            BY <1>1, <1>5
    <2>2. /\ DOMAIN old = LinkFields /\ old.mirror = None /\ old.by \in Names
          /\ old.src = RouterKey(old.by) /\ old.kind = "ethernet" /\ IsNeighbour(old.dst)
        BY LaidSound DEF g
    <2>3. /\ DOMAIN l = LinkFields /\ l.mirror = None /\ l.by = old.by /\ l.kind = "ethernet"
          /\ l.src = now(old.src) /\ l.dst = now(old.dst)
        BY <2>1, <2>2 DEF LinkFields
    <2>9. l.src # l.dst
        <3> HIDE DEF Moved
        <3> QED
            BY <1>1, <1>5
    <2>4. l.src = RouterKey(l.by)
        BY <1>3, <2>2, <2>3, KeysApart
    <2>5. l.dst = old.dst \/ \E r \in Names : l.dst = RouterKey(r)
        BY <1>2, <2>3 DEF RouterKeys
    <2>6. ~IsBranch(l.dst)
        BY <2>2, <2>5, KeysApart
    <2>7. Across(l) => \E r \in Names \ {l.by} : l.dst = RouterKey(r)
        BY <2>2, <2>3, <2>4, <2>5, <2>9, KeysApart DEF Across
    <2>8. l.by # "manual" /\ l.kind # "vlan"
        BY <2>2, <2>3, TopologyAssumption
    <2> QED
        BY <2>2, <2>3, <2>4, <2>6, <2>7, <2>8 DEF Drawn, LaidBy
<1>6. DOMAIN Folded(g, ix) = {"nodes", "links"}
    BY <1>1
<1> HIDE DEF moved, left
<1> QED
    BY <1>4, <1>5, <1>6 DEF Bare, g

\* What is completed with links between routers stays sound.
LEMMA CompletedSound ==
    ASSUME NEW g, Bare(g),
           NEW found, \A l \in found : Drawn(l) /\ ~IsBranch(l.dst)
    PROVE  /\ Bare(Completed(g, found))
           /\ \A l \in Completed(g, found).links : l \in g.links \cup found
<1> DEFINE pairs == {{l.src, l.dst} : l \in {f \in found : ~Joined(g, f.src, f.dst)}}
           between(p) == {l \in found : {l.src, l.dst} = p}
           kept == {CHOOSE l \in between(p) : TRUE : p \in pairs}
<1>1. Completed(g, found) = [g EXCEPT !.links = g.links \cup kept]
    BY DEF Completed
<1>2. kept \subseteq found
    <2>1. \A p \in pairs : between(p) # {}
        OBVIOUS
    <2>2. \A p \in pairs : (CHOOSE l \in between(p) : TRUE) \in between(p)
        BY <2>1
    <2> QED
        BY <2>2
<1> HIDE DEF kept
<1>3. /\ Completed(g, found).links = g.links \cup kept
      /\ Completed(g, found).nodes = g.nodes
      /\ DOMAIN Completed(g, found) = DOMAIN g
    BY <1>1 DEF Bare
<1> QED
    BY <1>2, <1>3 DEF Bare

\* A link that a router reports towards another.
LEMMA ReportedLink ==
    ASSUME NEW r \in Names, NEW s \in Names, r # s, NEW port, NEW kind, kind # "vlan",
           NEW l, l = Link(RouterKey(r), port, RouterKey(s), kind, r)
    PROVE  Drawn(l) /\ ~IsBranch(l.dst)
<1>1. /\ DOMAIN l = LinkFields /\ l.mirror = None
      /\ l.src = RouterKey(r) /\ l.dst = RouterKey(s) /\ l.kind = kind /\ l.by = r
    BY LinkShape
<1>2. r # "manual"
    BY TopologyAssumption
<1> QED
    BY <1>1, <1>2, KeysApart DEF Drawn, LaidBy

\* The two routers of a point-to-point subnet.
LEMMA TwoMembers ==
    ASSUME NEW members \in SUBSET Names, Cardinality(members) = 2
    PROVE  /\ \E r \in members : \A s \in members : Rank(r) <= Rank(s)
           /\ \A a \in members : \E r \in members : r # a
<1>1. IsFiniteSet(members)
    BY NamesFinite, FS_Subset
<1>2. members # {}
    BY FS_EmptySet
<1>3. PICK x : x \in members
    BY <1>2
<1>4. members # {x}
    <2>1. Cardinality({x}) = 1
        BY FS_Singleton
    <2> QED
        BY <2>1
<1>5. PICK y \in members : y # x
    BY <1>3, <1>4
<1>6. members = {x, y}
    <2>1. IsFiniteSet(members \ {x}) /\ Cardinality(members \ {x}) = 1
        BY <1>1, <1>3, FS_RemoveElement
    <2>2. IsFiniteSet((members \ {x}) \ {y}) /\ Cardinality((members \ {x}) \ {y}) = 0
        BY <1>5, <2>1, FS_RemoveElement
    <2>3. (members \ {x}) \ {y} = {}
        BY <2>2, FS_EmptySet
    <2> QED
        BY <1>3, <1>5, <2>3
<1>7. \E r \in members : \A s \in members : Rank(r) <= Rank(s)
    <2>1. Rank(x) \in Nat /\ Rank(y) \in Nat
        BY <1>3, <1>5, RankOrders
    <2>2. CASE Rank(x) <= Rank(y)
        BY <1>6, <2>1, <2>2
    <2>3. CASE Rank(y) <= Rank(x)
        BY <1>6, <2>1, <2>3
    <2> QED
        BY <2>1, <2>2, <2>3
<1> QED
    BY <1>3, <1>5, <1>7

LEMMA SubnettedSound ==
    ASSUME NEW in, Input(in), NEW g, Bare(g)
    PROVE  Bare(Subnetted(g, in))
<1> DEFINE read == {r \in in.listed : in.read[r] # None}
           on(r, net) == {a \in in.read[r].addrs : a.net = net /\ net # None}
           nets == UNION {{a.net : a \in in.read[r].addrs} : r \in read}
           members(net) == {r \in read : on(r, net) # {}}
           pairs == {net \in nets : Cardinality(members(net)) = 2}
           one(net) == CHOOSE r \in members(net) : \A s \in members(net) : Rank(r) <= Rank(s)
           other(net) == CHOOSE r \in members(net) : r # one(net)
           link(net) == Link(RouterKey(one(net)), (CHOOSE x \in on(one(net), net) : TRUE).port,
                             RouterKey(other(net)), "ethernet", one(net))
           found == {link(net) : net \in pairs}
<1>1. Subnetted(g, in) = Completed(g, found)
    BY DEF Subnetted
<1>2. ASSUME NEW net \in pairs PROVE Drawn(link(net)) /\ ~IsBranch(link(net).dst)
    <2>1. members(net) \in SUBSET Names /\ Cardinality(members(net)) = 2
        BY DEF Input
    <2> HIDE DEF members, on
    <2>2. /\ \E r \in members(net) : \A s \in members(net) : Rank(r) <= Rank(s)
          /\ \A r \in members(net) : \E s \in members(net) : s # r
        BY <2>1, TwoMembers
    <2>3. one(net) \in members(net)
        BY <2>2
    <2>4. other(net) \in members(net) /\ other(net) # one(net)
        <3> HIDE DEF one
        <3> QED
            BY <2>2, <2>3
    <2> HIDE DEF one, other
    <2> QED
        BY <2>1, <2>3, <2>4, ReportedLink
<1> HIDE DEF link, pairs
<1>3. \A l \in found : Drawn(l) /\ ~IsBranch(l.dst)
    BY <1>2
<1> HIDE DEF found
<1> QED
    BY <1>1, <1>3, CompletedSound

LEMMA TunnelledSound ==
    ASSUME NEW in, Input(in), NEW ix, ix = Indexes(in), NEW g, Bare(g)
    PROVE  Bare(Tunnelled(g, in, ix))
<1> DEFINE ends(r) == {<<t.name, Owner(ix.ip, t.remote)>> : t \in in.read[r].tunnels}
           far(r) == {f \in ends(r) : f[2] \notin {None, RouterKey(r)}}
           read == {s \in in.listed : in.read[s] # None}
           found == UNION {{Link(RouterKey(r), e[1], e[2], "ethernet", r) : e \in far(r)} : r \in read}
<1>1. Tunnelled(g, in, ix) = Completed(g, found)
    BY DEF Tunnelled
<1>2. ASSUME NEW l \in found PROVE Drawn(l) /\ ~IsBranch(l.dst)
    <2>1. PICK r \in read : \E e \in far(r) : l = Link(RouterKey(r), e[1], e[2], "ethernet", r)
        <3> HIDE DEF far, read
        <3> QED
            BY <1>2
    <2>2. PICK e \in far(r) : l = Link(RouterKey(r), e[1], e[2], "ethernet", r)
        BY <2>1
    <2>3. r \in Names
        BY <2>1 DEF Input
    <2>4. PICK s \in Names : e[2] = RouterKey(s) /\ s # r
        <3>1. PICK t \in in.read[r].tunnels : e = <<t.name, Owner(ix.ip, t.remote)>>
            BY <2>2
        <3>2. e[2] = Owner(ix.ip, t.remote) /\ e[2] # None /\ e[2] # RouterKey(r)
            BY <2>2, <3>1
        <3>3. \E s \in in.listed : Owner(ix.ip, t.remote) = RouterKey(s)
            BY <3>2, IndexesName
        <3> QED
            BY <3>2, <3>3 DEF Input
    <2> QED
        BY <2>2, <2>3, <2>4, ReportedLink
<1> HIDE DEF found
<1> QED
    BY <1>1, <1>2, CompletedSound

LEMMA SkippedSound ==
    ASSUME NEW g, Bare(g), NEW set \in SUBSET Names
    PROVE  Bare(WithSkipped(g, set))
<1>1. PICK old : old = g.nodes
    OBVIOUS
<1> DEFINE added == {RouterKey(r) : r \in set} \ DOMAIN old
           box(k) == [Box(Declared[k[2]].pop, Kind(Declared[k[2]].role), {}, {Declared[k[2]].host})
                        EXCEPT !.managed = TRUE]
           laid == [k \in added |-> box(k)]
           new == Over(laid, old)
<1>2. WithSkipped(g, set) = [g EXCEPT !.nodes = new]
    BY <1>1 DEF WithSkipped
<1>3. \A k : BoxFields \subseteq DOMAIN box(k) /\ box(k).managed = TRUE /\ box(k).cpe = None
    BY DEF Box, BoxFields
<1>4. \A k \in added : k \in RouterKeys /\ OfRouter(k)
    BY KeysApart DEF RouterKeys
<1>8. IsFiniteSet(added)
    <2> DEFINE f == [r \in set |-> RouterKey(r)]
    <2>1. f = [r \in set |-> f[r]] /\ {f[r] : r \in set} = {RouterKey(r) : r \in set}
        OBVIOUS
    <2>2. IsFiniteSet(set)
        BY NamesFinite, FS_Subset
    <2> HIDE DEF f
    <2>3. IsFiniteSet({RouterKey(r) : r \in set})
        BY <2>1, <2>2, ImageFinite
    <2>4. added \in SUBSET {RouterKey(r) : r \in set}
        OBVIOUS
    <2> HIDE DEF added
    <2> QED
        BY <2>3, <2>4, FS_Subset
<1> HIDE DEF box, added
<1>5. DOMAIN laid = added /\ \A k \in added : laid[k] = box(k)
    OBVIOUS
<1> HIDE DEF laid
<1>6. Boxes(new)
    <2>1. Boxes(laid)
        BY <1>3, <1>4, <1>5, <1>8 DEF Boxes, Labelled
    <2> QED
        BY <1>1, <2>1, OverBoxes DEF Bare
<1> HIDE DEF new
<1>7. /\ DOMAIN WithSkipped(g, set) = DOMAIN g /\ WithSkipped(g, set).nodes = new
      /\ WithSkipped(g, set).links = g.links
    BY <1>2 DEF Bare
<1> QED
    BY <1>6, <1>7 DEF Bare

\* A proof of a link changes nothing of where it goes.
LEMMA ProvenLink ==
    ASSUME NEW l, Drawn(l), ~IsBranch(l.dst)
    PROVE  Drawn([l EXCEPT !.proven = TRUE]) /\ ~IsBranch([l EXCEPT !.proven = TRUE].dst)
<1> DEFINE m == [l EXCEPT !.proven = TRUE]
<1>1. /\ DOMAIN m = DOMAIN l /\ m.src = l.src /\ m.dst = l.dst /\ m.kind = l.kind
      /\ m.by = l.by /\ m.mirror = l.mirror
    BY DEF Drawn, LinkFields
<1> HIDE DEF m
<1>2. Drawn(m) /\ ~IsBranch(m.dst)
    BY <1>1 DEF Drawn, Across, LaidBy
<1> QED
    BY <1>2 DEF m

LEMMA ProvenSound ==
    ASSUME NEW in, Input(in), NEW ix, ix = Indexes(in), NEW g, Bare(g)
    PROVE  Bare(Proven(g, in, ix))
<1> DEFINE talks == {t \in Peers(in, ix) : t[2] \notin {None, RouterKey(t[1])}}
           between(t) == {l \in g.links : {l.src, l.dst} = {RouterKey(t[1]), t[2]}}
           marked == {CHOOSE l \in between(t) : TRUE : t \in {u \in talks : between(u) # {}}}
           session(t) == [Link(RouterKey(t[1]), None, t[2], "routing", t[1]) EXCEPT !.proven = TRUE]
           found == {session(t) : t \in talks}
           added == Completed(g, found).links \ g.links
           told(l) == IF l \in marked THEN [l EXCEPT !.proven = TRUE] ELSE l
           all == {told(l) : l \in g.links} \cup added
<1>1. Proven(g, in, ix) = [g EXCEPT !.links = all]
    BY DEF Proven
<1>2. ASSUME NEW t \in talks PROVE Drawn(session(t)) /\ ~IsBranch(session(t).dst)
    <2>1. PICK r \in in.listed : \E ip : t = <<r, AddressOwner(ix, ip)>>
        BY DEF Peers
    <2>2. PICK ip : t = <<r, AddressOwner(ix, ip)>>
        BY <2>1
    <2>3. t[1] = r /\ t[2] = AddressOwner(ix, ip) /\ t[2] # None /\ t[2] # RouterKey(r)
        BY <2>2
    <2>4. t[2] = Owner(ix.loopback, ip) \/ t[2] = Owner(ix.ip, ip)
        BY <2>3 DEF AddressOwner
    <2>5. PICK s \in Names : t[2] = RouterKey(s) /\ s # r
        BY <2>3, <2>4, IndexesName DEF Input
    <2>6. r \in Names
        BY DEF Input
    <2>7. /\ Drawn(Link(RouterKey(t[1]), None, t[2], "routing", t[1]))
          /\ ~IsBranch(Link(RouterKey(t[1]), None, t[2], "routing", t[1]).dst)
        BY <2>3, <2>5, <2>6, ReportedLink
    <2> QED
        BY <2>7, ProvenLink
<1> HIDE DEF session, talks
<1>3. \A l \in found : Drawn(l) /\ ~IsBranch(l.dst)
    BY <1>2
<1> HIDE DEF found
<1>4. \A l \in added : Drawn(l) /\ ~IsBranch(l.dst)
    BY <1>3, CompletedSound DEF Bare
<1>5. \A l \in g.links : Drawn(told(l)) /\ ~IsBranch(told(l).dst)
    BY ProvenLink DEF Bare
<1> HIDE DEF told, added
<1>6. \A l \in all : Drawn(l) /\ ~IsBranch(l.dst)
    BY <1>4, <1>5
<1> HIDE DEF all
<1>7. /\ DOMAIN Proven(g, in, ix) = DOMAIN g /\ Proven(g, in, ix).nodes = g.nodes
      /\ Proven(g, in, ix).links = all
    BY <1>1 DEF Bare
<1> QED
    BY <1>6, <1>7 DEF Bare

LEMMA OrientedSound ==
    ASSUME NEW in, NEW ix, NEW g, Bare(g)
    PROVE  Bare(Oriented(g, in, ix))
<1>1. PICK old : old = g.nodes
    OBVIOUS
<1> DEFINE heard(k) == OfRouter(k) /\ k[2] \in in.listed /\ in.read[k[2]] # None
           turned(k) == [old[k] EXCEPT !.parent = ParentOf(in, ix, k[2])]
           box(k) == IF heard(k) THEN turned(k) ELSE old[k]
           new == [k \in DOMAIN old |-> box(k)]
<1>2. Oriented(g, in, ix) = [g EXCEPT !.nodes = new]
    BY <1>1 DEF Oriented
<1>3. IsFiniteSet(DOMAIN old) /\ \A k \in DOMAIN old : Labelled(k, old[k])
    BY <1>1 DEF Bare, Boxes
<1>6. \A k \in DOMAIN old : Labelled(k, box(k))
    <2> SUFFICES ASSUME NEW k \in DOMAIN old PROVE Labelled(k, box(k))
        OBVIOUS
    <2>1. /\ BoxFields \subseteq DOMAIN box(k) /\ box(k).managed = old[k].managed
          /\ box(k).macs = old[k].macs /\ box(k).serial = old[k].serial /\ box(k).cpe = old[k].cpe
        BY <1>3 DEF Labelled, BoxFields
    <2> HIDE DEF box
    <2> QED
        BY <1>3, <2>1, SameLabel
<1> HIDE DEF box
<1>4. Boxes(new)
    BY <1>3, <1>6 DEF Boxes
<1> HIDE DEF new
<1>5. /\ DOMAIN Oriented(g, in, ix) = DOMAIN g /\ Oriented(g, in, ix).nodes = new
      /\ Oriented(g, in, ix).links = g.links
    BY <1>2 DEF Bare
<1> QED
    BY <1>4, <1>5 DEF Bare

\* The radios: no router among their boxes, no client.
LEMMA RadiosSound ==
    ASSUME NEW g, Bare(g), NEW radios, IsFiniteSet(radios)
    PROVE  Bare(WithRadios(g, radios))
<1>1. PICK nodesBefore : nodesBefore = g.nodes
    OBVIOUS
<1> DEFINE kind(d) == IF d.ap THEN "sector" ELSE "radio"
           known(d) == {k \in DOMAIN nodesBefore : /\ ~nodesBefore[k].managed
                                                   /\ d.mac \in nodesBefore[k].macs}
           new == {d \in radios : known(d) = {}}
           here(k) == {d \in radios : k \in known(d)}
           made(k) == LET d == CHOOSE e \in new : RadioKey(e) = k IN
                      [Box(d.id, kind(d), Given({d.mac}), {}) EXCEPT !.uisp = d.id]
           named(k) == LET d == CHOOSE e \in here(k) : TRUE IN
                       [nodesBefore[k] EXCEPT !.uisp = d.id, !.kind = kind(d)]
           kept(k) == IF here(k) = {} THEN nodesBefore[k] ELSE named(k)
           old == [k \in DOMAIN nodesBefore |-> kept(k)]
           added == [k \in {RadioKey(d) : d \in new} |-> made(k)]
           beam(d) == Link(<<"uisp", d.parent>>, None, RadioKey(d), "radio", "uisp")
           beams == {beam(d) : d \in {e \in radios : e.parent # None}}
<1>2. WithRadios(g, radios) = [nodes |-> Over(old, added), links |-> g.links \cup beams]
    BY <1>1 DEF WithRadios
<1>3. \A k \in DOMAIN nodesBefore : Labelled(k, kept(k))
    <2> SUFFICES ASSUME NEW k \in DOMAIN nodesBefore PROVE Labelled(k, kept(k))
        OBVIOUS
    <2>1. PICK n : n = nodesBefore[k] /\ Labelled(k, n)
        BY <1>1 DEF Bare, Boxes
    <2>2. PICK d : d = CHOOSE e \in here(k) : TRUE
        OBVIOUS
    <2>3. kept(k) = n \/ kept(k) = [n EXCEPT !.uisp = d.id, !.kind = kind(d)]
        BY <2>1, <2>2
    <2> HIDE DEF kept, kind
    <2>4. CASE kept(k) = n
        BY <2>1, <2>4
    <2>5. CASE kept(k) = [n EXCEPT !.uisp = d.id, !.kind = kind(d)]
        <3>1. /\ BoxFields \subseteq DOMAIN kept(k) /\ kept(k).managed = n.managed
              /\ kept(k).macs = n.macs /\ kept(k).serial = n.serial /\ kept(k).cpe = n.cpe
            BY <2>1, <2>5 DEF Labelled, BoxFields
        <3> QED
            BY <2>1, <3>1, SameLabel
    <2> QED
        BY <2>3, <2>4, <2>5
<1>4. \A k : ~OfRouter(k) => Labelled(k, made(k))
    <2> SUFFICES ASSUME NEW k, ~OfRouter(k) PROVE Labelled(k, made(k))
        OBVIOUS
    <2>1. PICK d : d = CHOOSE e \in new : RadioKey(e) = k
        OBVIOUS
    <2>2. made(k) = [Box(d.id, kind(d), Given({d.mac}), {}) EXCEPT !.uisp = d.id]
        BY <2>1
    <2> HIDE DEF made, kind
    <2>3. /\ BoxFields \subseteq DOMAIN made(k) /\ ~made(k).managed
          /\ made(k).serial = None /\ made(k).macs \subseteq {d.mac}
        <3>1. PICK S : S = Given({d.mac})
            OBVIOUS
        <3>2. PICK n : n = Box(d.id, kind(d), S, {})
            OBVIOUS
        <3>3. DOMAIN n = BoxFields /\ ~n.managed /\ n.serial = None /\ n.macs = S
            BY <3>2, BoxShape
        <3>4. made(k) = [n EXCEPT !.uisp = d.id]
            BY <2>2, <3>1, <3>2
        <3>5. /\ DOMAIN made(k) = DOMAIN n /\ made(k).managed = n.managed
              /\ made(k).serial = n.serial /\ made(k).macs = n.macs
            BY <3>3, <3>4 DEF BoxFields
        <3>6. S \subseteq {d.mac}
            BY <3>1 DEF Given
        <3> QED
            BY <3>3, <3>5, <3>6, Zenon
    <2> QED
        BY <2>3, PlainLabel
<1>5. \A d : ~OfRouter(RadioKey(d)) /\ ~IsBranch(RadioKey(d))
    BY DEF RadioKey, MacKey, OfRouter, IsBranch
<1>6. \A d : Drawn(beam(d)) /\ ~IsBranch(beam(d).dst)
    <2> SUFFICES ASSUME NEW d PROVE Drawn(beam(d)) /\ ~IsBranch(beam(d).dst)
        OBVIOUS
    <2>1. /\ DOMAIN beam(d) = LinkFields /\ beam(d).mirror = None
          /\ beam(d).src = <<"uisp", d.parent>> /\ beam(d).dst = RadioKey(d)
          /\ beam(d).by = "uisp"
        BY DEF Link, LinkFields
    <2> HIDE DEF beam
    <2> QED
        BY <1>5, <2>1 DEF Drawn, Across, OfRouter
<1>11. IsFiniteSet({RadioKey(d) : d \in new})
    <2>1. IsFiniteSet(new)
        <3>1. new \in SUBSET radios
            OBVIOUS
        <3> HIDE DEF new
        <3> QED
            BY <3>1, FS_Subset
    <2> HIDE DEF new
    <2> DEFINE f == [d \in new |-> RadioKey(d)]
    <2>2. f = [d \in new |-> f[d]] /\ {f[d] : d \in new} = {RadioKey(d) : d \in new}
        OBVIOUS
    <2> HIDE DEF f
    <2> QED
        BY <2>1, <2>2, ImageFinite
<1> HIDE DEF kept, made, new, beam
<1>7. Boxes(old)
    BY <1>1, <1>3 DEF Bare, Boxes
<1>8. Boxes(added)
    BY <1>4, <1>5, <1>11 DEF Boxes
<1> HIDE DEF old, added
<1>9. Boxes(Over(old, added))
    BY <1>7, <1>8, OverBoxes
<1>10. \A l \in g.links \cup beams : Drawn(l) /\ ~IsBranch(l.dst)
    BY <1>6 DEF Bare
<1> HIDE DEF beams
<1> QED
    BY <1>2, <1>9, <1>10 DEF Bare

-----------------------------------------------------------------------------
(* The clients declared.                                                    *)
\* A graph with its clients, before any link is marked.
Planted(g) ==
    /\ DOMAIN g = {"nodes", "links"} /\ Boxes(g.nodes)
    /\ \A l \in g.links : Drawn(l) /\ (IsBranch(l.dst) => IsDeclared(l))
    /\ \A l, m \in g.links : l.dst = m.dst /\ IsBranch(l.dst) => LinkKey(l) = LinkKey(m)
Referenced(clients) == \A c, d \in clients : c.ref = d.ref => c = d

\* The interface of a VLAN on a router depends on nothing else.
LEMMA SiteOfVlan ==
    ASSUME NEW in, NEW c, NEW d, c.pop = d.pop, c.vlan = d.vlan
    PROVE  VlanSite(in, c) = VlanSite(in, d)
<1>1. PICK r, v : r = c.pop /\ v = c.vlan
    OBVIOUS
<1> DEFINE site == LET named == IF r \in in.listed /\ in.read[r] # None /\ v # None
                                THEN {x \in in.read[r].vlans : x.id = v} ELSE {}
                   IN  IF Cardinality(named) = 1 THEN CHOOSE x \in named : TRUE ELSE None
<1>2. VlanSite(in, c) = site
    BY <1>1 DEF VlanSite
<1>3. VlanSite(in, d) = site
    BY <1>1 DEF VlanSite
<1> QED
    BY <1>2, <1>3

LEMMA SiteIsCollected ==
    ASSUME NEW in, NEW c, VlanSite(in, c) # None
    PROVE  c.pop \in in.listed
<1> DEFINE r == c.pop
           named == IF r \in in.listed /\ in.read[r] # None /\ c.vlan # None
                    THEN {v \in in.read[r].vlans : v.id = c.vlan} ELSE {}
<1>1. Cardinality(named) = 1
    BY DEF VlanSite
<1>2. named # {}
    BY <1>1, FS_EmptySet
<1> QED
    BY <1>2

LEMMA ClientsSound ==
    ASSUME NEW in, Input(in), NEW g, Bare(g), NEW clients, Referenced(clients),
           IsFiniteSet(clients)
    PROVE  Planted(WithClients(g, in, clients))
<1>1. PICK old : old = g.nodes
    OBVIOUS
<1> DEFINE onVlan == {c \in clients : c.sector = None /\ VlanSite(in, c) # None}
           trunk(k) == Box(k[3], "vlan", {}, {})
           vlans == [k \in {VlanKey(c.pop, c.vlan) : c \in onVlan} |-> trunk(k)]
           leaf(k) == LET c == CHOOSE d \in clients : ClientKey(d) = k IN
                      Box(c.ref, "static", {}, {c.ip})
           boxes == [k \in {ClientKey(c) : c \in clients} |-> leaf(k)]
           all == Over(Over(vlans, old), boxes)
           placed == {c \in clients : ParentOfClient(g, in, c) \in DOMAIN all}
           carry(c) == Link(RouterKey(c.pop), VlanSite(in, c).name, VlanKey(c.pop, c.vlan),
                            "vlan", c.pop)
           hang(c) == Link(ParentOfClient(g, in, c), None, ClientKey(c), "static", "inventory")
           carried == {carry(c) : c \in onVlan}
           hung == {hang(c) : c \in placed}
           drawn == g.links \cup carried \cup hung
<1>2. WithClients(g, in, clients) = [nodes |-> all, links |-> drawn]
    BY <1>1 DEF WithClients
<1>3. \A k : ~OfRouter(k) => Labelled(k, trunk(k)) /\ Labelled(k, leaf(k))
    <2> SUFFICES ASSUME NEW k, ~OfRouter(k) PROVE Labelled(k, trunk(k)) /\ Labelled(k, leaf(k))
        OBVIOUS
    <2>1. PICK c : leaf(k) = Box(c.ref, "static", {}, {c.ip})
        OBVIOUS
    <2> HIDE DEF leaf
    <2>2. ASSUME NEW n, NEW name, NEW kind, NEW addrs, n = Box(name, kind, {}, addrs)
          PROVE  Labelled(k, n)
        <3>1. DOMAIN n = BoxFields /\ ~n.managed /\ n.serial = None /\ n.macs = {}
            BY <2>2, BoxShape
        <3> QED
            BY <3>1, PlainLabel
    <2> QED
        BY <2>1, <2>2
<1>4. /\ \A r, v : IsBranch(VlanKey(r, v)) /\ ~OfRouter(VlanKey(r, v)) /\ VlanKey(r, v)[1] = "vlan"
      /\ \A c : IsBranch(ClientKey(c)) /\ ~OfRouter(ClientKey(c)) /\ ClientKey(c)[1] = "static"
      /\ \A r, v, s, w : VlanKey(r, v) = VlanKey(s, w) => r = s /\ v = w
      /\ \A c, d : ClientKey(c) = ClientKey(d) => c.ref = d.ref
    BY DEF VlanKey, ClientKey, IsBranch, OfRouter
<1>10. IsFiniteSet(DOMAIN vlans) /\ IsFiniteSet(DOMAIN boxes)
    <2>1. IsFiniteSet(onVlan)
        <3>1. onVlan \in SUBSET clients
            OBVIOUS
        <3> HIDE DEF onVlan
        <3> QED
            BY <3>1, FS_Subset
    <2> HIDE DEF onVlan
    <2> DEFINE f == [c \in onVlan |-> VlanKey(c.pop, c.vlan)]
               h == [c \in clients |-> ClientKey(c)]
    <2>2. f = [c \in onVlan |-> f[c]] /\ {f[c] : c \in onVlan} = DOMAIN vlans
        OBVIOUS
    <2>3. h = [c \in clients |-> h[c]] /\ {h[c] : c \in clients} = DOMAIN boxes
        OBVIOUS
    <2> HIDE DEF f, h
    <2>4. IsFiniteSet({f[c] : c \in onVlan}) /\ IsFiniteSet({h[c] : c \in clients})
        BY <2>1, <2>2, <2>3, ImageFinite
    <2> HIDE DEF vlans, boxes
    <2> QED
        BY <2>2, <2>3, <2>4
<1> HIDE DEF trunk, leaf
<1>5. Boxes(all)
    <2>1. Boxes(vlans) /\ Boxes(boxes)
        <3> HIDE DEF onVlan
        <3>1. /\ \A k \in DOMAIN vlans : ~OfRouter(k) /\ vlans[k] = trunk(k)
              /\ \A k \in DOMAIN boxes : ~OfRouter(k) /\ boxes[k] = leaf(k)
            BY <1>4
        <3> HIDE DEF vlans, boxes
        <3> QED
            BY <1>3, <1>10, <3>1 DEF Boxes
    <2> HIDE DEF vlans, boxes
    <2>2. Boxes(Over(vlans, old))
        BY <1>1, <2>1, OverBoxes DEF Bare
    <2> QED
        BY <2>1, <2>2, OverBoxes
<1> HIDE DEF all
<1>6. ASSUME NEW c \in onVlan
      PROVE  /\ Drawn(carry(c)) /\ IsDeclared(carry(c)) /\ carry(c).dst = VlanKey(c.pop, c.vlan)
             /\ LinkKey(carry(c)) = <<RouterKey(c.pop), VlanSite(in, c).name, VlanKey(c.pop, c.vlan)>>
    <2>1. /\ DOMAIN carry(c) = LinkFields /\ carry(c).mirror = None
          /\ carry(c).src = RouterKey(c.pop) /\ carry(c).port = VlanSite(in, c).name
          /\ carry(c).dst = VlanKey(c.pop, c.vlan)
          /\ carry(c).kind = "vlan" /\ carry(c).by = c.pop
        BY LinkShape
    <2>2. c.pop # "manual"
        BY SiteIsCollected, TopologyAssumption DEF Input
    <2> HIDE DEF carry
    <2> QED
        BY <1>4, <2>1, <2>2 DEF Drawn, Across, IsDeclared, LinkKey
<1>7. ASSUME NEW c \in placed
      PROVE  Drawn(hang(c)) /\ IsDeclared(hang(c)) /\ hang(c).dst = ClientKey(c)
    <2>1. /\ DOMAIN hang(c) = LinkFields /\ hang(c).mirror = None
          /\ hang(c).dst = ClientKey(c) /\ hang(c).by = "inventory"
        BY LinkShape
    <2> HIDE DEF hang
    <2> QED
        BY <1>4, <2>1 DEF Drawn, Across, IsDeclared
<1> HIDE DEF carry, hang
<1>8. \A l \in drawn : Drawn(l) /\ (IsBranch(l.dst) => IsDeclared(l))
    BY <1>6, <1>7 DEF Bare
<1>9. ASSUME NEW l \in drawn, NEW m \in drawn, l.dst = m.dst, IsBranch(l.dst)
      PROVE  LinkKey(l) = LinkKey(m)
    <2>1. l \notin g.links /\ m \notin g.links
        BY <1>9 DEF Bare
    <2>2. CASE l \in carried
        <3>1. PICK c \in onVlan : l = carry(c)
            BY <2>2
        <3>2. m \notin hung
            BY <1>4, <1>6, <1>7, <1>9, <3>1
        <3>3. PICK d \in onVlan : m = carry(d)
            BY <2>1, <3>2
        <3>4. c.pop = d.pop /\ c.vlan = d.vlan
            BY <1>4, <1>6, <1>9, <3>1, <3>3
        <3>5. VlanSite(in, c) = VlanSite(in, d)
            BY <3>4, SiteOfVlan
        <3> QED
            BY <1>6, <3>1, <3>3, <3>4, <3>5
    <2>3. CASE l \in hung
        <3>1. PICK c \in placed : l = hang(c)
            BY <2>3
        <3>2. m \notin carried
            BY <1>4, <1>6, <1>7, <1>9, <3>1
        <3>3. PICK d \in placed : m = hang(d)
            BY <2>1, <3>2
        <3>4. c = d
            BY <1>4, <1>7, <1>9, <3>1, <3>3 DEF Referenced
        <3> QED
            BY <3>1, <3>3, <3>4
    <2> QED
        BY <2>1, <2>2, <2>3
<1> HIDE DEF drawn
<1> QED
    BY <1>2, <1>5, <1>8, <1>9 DEF Planted

\* The equipment of the subscribers: a router is never taken for one.
LEMMA CpesSound ==
    ASSUME NEW in, NEW g, Planted(g), NEW clients
    PROVE  Planted(WithCpes(g, in, clients))
<1>1. PICK old : old = g.nodes
    OBVIOUS
<1> DEFINE logins(n) == {s.login : s \in {t \in Sessions(in) : t.mac \in n.macs \/ t.ip \in n.addrs}}
                        \cup {c.ref : c \in {d \in clients : d.ip \in n.addrs}}
           free(n) == ~n.managed /\ n.kind # "static" /\ logins(n) # {}
           marked(n) == [n EXCEPT !.cpe = CHOOSE u \in logins(n) : TRUE, !.kind = "cpe"]
           box(k) == IF free(old[k]) THEN marked(old[k]) ELSE old[k]
           new == [k \in DOMAIN old |-> box(k)]
<1>2. WithCpes(g, in, clients) = [g EXCEPT !.nodes = new]
    BY <1>1 DEF WithCpes
<1>3. \A k \in DOMAIN old : Labelled(k, box(k))
    <2> SUFFICES ASSUME NEW k \in DOMAIN old PROVE Labelled(k, box(k))
        OBVIOUS
    <2>1. PICK n : n = old[k] /\ Labelled(k, n)
        BY <1>1 DEF Planted, Boxes
    <2>2. PICK u : u = CHOOSE v \in logins(n) : TRUE
        OBVIOUS
    <2>3. box(k) = n \/ (~n.managed /\ box(k) = [n EXCEPT !.cpe = u, !.kind = "cpe"])
        BY <2>1, <2>2
    <2> HIDE DEF box
    <2>4. CASE box(k) = n
        BY <2>1, <2>4
    <2>5. CASE ~n.managed /\ box(k) = [n EXCEPT !.cpe = u, !.kind = "cpe"]
        <3>1. /\ BoxFields \subseteq DOMAIN box(k) /\ box(k).managed = n.managed
              /\ box(k).macs = n.macs /\ box(k).serial = n.serial /\ ~OfRouter(k)
            BY <2>1, <2>5 DEF Labelled, BoxFields
        <3> QED
            BY <2>1, <3>1, SameLabel
    <2> QED
        BY <2>3, <2>4, <2>5
<1> HIDE DEF box
<1>4. Boxes(new)
    BY <1>1, <1>3 DEF Planted, Boxes
<1> HIDE DEF new
<1>5. /\ DOMAIN WithCpes(g, in, clients) = DOMAIN g /\ WithCpes(g, in, clients).nodes = new
      /\ WithCpes(g, in, clients).links = g.links
    BY <1>2 DEF Planted
<1> QED
    BY <1>4, <1>5 DEF Planted

-----------------------------------------------------------------------------
(* The marks.                                                               *)
\* A link marked goes from a router to one that comes before, and names the
\* link that comes back.
Marked(l, keys) ==
    l.mirror # None =>
        /\ l.mirror \in keys /\ l.mirror[1] = l.dst /\ l.mirror[3] = l.src
        /\ \E a, b \in Names : Rank(a) < Rank(b) /\ l.src = RouterKey(b) /\ l.dst = RouterKey(a)
\* A link laid by a discovery.
Found(l) == l.by # "manual" /\ (Across(l) => LaidBy(l)) /\ (IsBranch(l.dst) => IsDeclared(l))
KeysOf(g) == {LinkKey(l) : l \in g.links}
\* The graph that a discovery saves.
Whole(g) ==
    /\ Boxes(g.nodes)
    /\ \A l \in g.links : DOMAIN l = LinkFields /\ Found(l) /\ Marked(l, KeysOf(g))
    /\ \A l, m \in g.links : l.dst = m.dst /\ IsBranch(l.dst) => LinkKey(l) = LinkKey(m)

LEMMA OriginalIsOther ==
    ASSUME NEW l, NEW o, l.by \in Names, o.by \in Names, l.by # o.by,
           l # Original({l, o})
    PROVE  Original({l, o}) = o /\ Rank(o.by) < Rank(l.by)
<1>1. Rank(l.by) \in Nat /\ Rank(o.by) \in Nat /\ Rank(l.by) # Rank(o.by)
    BY RankOrders
<1>2. \E x \in {l, o} : \A y \in {l, o} : Rank(x.by) <= Rank(y.by)
    <2>1. CASE Rank(l.by) <= Rank(o.by)
        BY <1>1, <2>1
    <2>2. CASE Rank(o.by) <= Rank(l.by)
        BY <1>1, <2>2
    <2> QED
        BY <1>1, <2>1, <2>2
<1>3. /\ Original({l, o}) \in {l, o}
      /\ \A y \in {l, o} : Rank(Original({l, o}).by) <= Rank(y.by)
    BY <1>2 DEF Original
<1> QED
    BY <1>1, <1>3

LEMMA MirroredSound ==
    ASSUME NEW g, Planted(g)
    PROVE  Whole(Mirrored(g)) /\ DOMAIN Mirrored(g) = {"nodes", "links"}
<1> DEFINE managed == {k \in DOMAIN g.nodes : g.nodes[k].managed}
           ported == {l \in g.links : l.port # None /\ {l.src, l.dst} \subseteq managed}
           pair(l) == {o \in ported : {o.src, o.dst} = {l.src, l.dst}}
           both(l) == \E o \in pair(l) : o.src = l.dst /\ pair(l) = {l, o}
           marked == {l \in ported : both(l) /\ l # Original(pair(l))}
           told(l) == IF l \in marked THEN [l EXCEPT !.mirror = LinkKey(Original(pair(l)))] ELSE l
           all == {told(l) : l \in g.links}
<1>1. Mirrored(g) = [g EXCEPT !.links = all]
    BY DEF Mirrored
<1>2. \A l \in g.links : Drawn(l) /\ (IsBranch(l.dst) => IsDeclared(l))
    BY DEF Planted
<1>3. \A k \in managed : OfRouter(k)
    BY DEF Planted, Boxes, Labelled
<1>4. ASSUME NEW l \in marked
      PROVE  LET to == LinkKey(Original(pair(l))) IN
             /\ to \in KeysOf(g) /\ to[1] = l.dst /\ to[3] = l.src
             /\ \E a, b \in Names : Rank(a) < Rank(b) /\ l.src = RouterKey(b) /\ l.dst = RouterKey(a)
    <2>1. PICK o \in pair(l) : o.src = l.dst /\ pair(l) = {l, o}
        BY <1>4
    <2>2. l \in g.links /\ o \in g.links /\ {l.src, l.dst} \subseteq managed
        OBVIOUS
    <2>3. o.dst = l.src
        BY <2>1
    <2>4. l # Original({l, o})
        <3> HIDE DEF pair
        <3> QED
            BY <1>4, <2>1
    <2> HIDE DEF pair, marked
    <2>5. LaidBy(l) /\ LaidBy(o)
        BY <1>2, <1>3, <2>1, <2>2, <2>3 DEF Drawn, Across
    <2>6. PICK a \in Names : l.dst = RouterKey(a) /\ a # l.by
        BY <2>5 DEF LaidBy
    <2>7. o.by = a /\ l.by \in Names /\ l.src = RouterKey(l.by)
        BY <2>1, <2>5, <2>6, KeysApart DEF LaidBy
    <2>8. Original({l, o}) = o /\ Rank(o.by) < Rank(l.by)
        BY <2>4, <2>6, <2>7, OriginalIsOther
    <2>9. LinkKey(o) \in KeysOf(g) /\ LinkKey(o)[1] = l.dst /\ LinkKey(o)[3] = l.src
        BY <2>1, <2>2, <2>3 DEF LinkKey, KeysOf
    <2> QED
        BY <2>1, <2>6, <2>7, <2>8, <2>9
<1>5. ASSUME NEW l \in g.links
      PROVE  /\ DOMAIN told(l) = LinkFields /\ Found(told(l))
             /\ Marked(told(l), KeysOf(g)) /\ LinkKey(told(l)) = LinkKey(l)
             /\ told(l).dst = l.dst
    <2>1. Drawn(l) /\ (IsBranch(l.dst) => IsDeclared(l))
        BY <1>2
    <2>2. PICK m : m = told(l)
        OBVIOUS
    <2>3. /\ DOMAIN m = LinkFields /\ m.src = l.src /\ m.port = l.port /\ m.dst = l.dst
          /\ m.kind = l.kind /\ m.by = l.by
        <3> HIDE DEF marked, pair
        <3> QED
            BY <2>1, <2>2 DEF Drawn, LinkFields
    <2>4. Found(m)
        BY <2>1, <2>3 DEF Drawn, Found, Across, LaidBy, IsDeclared
    <2>5. LinkKey(m) = LinkKey(l)
        BY <2>3 DEF LinkKey
    <2>6. Marked(m, KeysOf(g))
        <3>1. CASE l \in marked
            <4>1. m.mirror = LinkKey(Original(pair(l)))
                <5> HIDE DEF marked, pair
                <5> QED
                    BY <2>1, <2>2, <3>1 DEF Drawn, LinkFields
            <4> HIDE DEF marked, pair
            <4> QED
                BY <1>4, <2>3, <3>1, <4>1 DEF Marked
        <3>2. CASE l \notin marked
            <4> HIDE DEF marked, pair
            <4> QED
                BY <2>1, <2>2, <3>2 DEF Marked, Drawn
        <3> QED
            BY <3>1, <3>2
    <2> QED
        BY <2>2, <2>3, <2>4, <2>5, <2>6
<1> HIDE DEF told
<1>6. /\ DOMAIN Mirrored(g) = {"nodes", "links"} /\ Mirrored(g).nodes = g.nodes
      /\ Mirrored(g).links = all
    <2> HIDE DEF all
    <2> QED
        BY <1>1 DEF Planted
<1>7. KeysOf(Mirrored(g)) = KeysOf(g)
    BY <1>5, <1>6 DEF KeysOf
<1>8. \A l, m \in all : l.dst = m.dst /\ IsBranch(l.dst) => LinkKey(l) = LinkKey(m)
    BY <1>5 DEF Planted
<1>9. \A l \in all : DOMAIN l = LinkFields /\ Found(l) /\ Marked(l, KeysOf(g))
    BY <1>5
<1> HIDE DEF all
<1> QED
    BY <1>6, <1>7, <1>8, <1>9 DEF Whole, Planted

LEMMA DiscoveredWhole ==
    ASSUME NEW in, Input(in), NEW set \in SUBSET Names, NEW radios, IsFiniteSet(radios),
           NEW clients, Referenced(clients), IsFiniteSet(clients)
    PROVE  Whole(Discovered(in, set, radios, clients))
<1> DEFINE ix == Indexes(in)
           folded == Folded(Laid(in), ix)
           cabled == Tunnelled(Subnetted(folded, in), in, ix)
           routers == Proven(WithSkipped(cabled, set), in, ix)
           all == WithClients(WithRadios(Oriented(routers, in, ix), radios), in, clients)
           whole == Mirrored(WithCpes(all, in, clients))
<1>1. Bare(cabled)
    <2>1. Bare(folded)
        BY FoldedSound
    <2> HIDE DEF folded
    <2>2. Bare(Subnetted(folded, in))
        BY <2>1, SubnettedSound
    <2> QED
        BY <2>2, TunnelledSound
<1>2. Bare(routers)
    <2> HIDE DEF cabled
    <2>1. Bare(WithSkipped(cabled, set))
        BY <1>1, SkippedSound
    <2> QED
        BY <2>1, ProvenSound
<1>3. Planted(all)
    <2> HIDE DEF routers
    <2>1. Bare(Oriented(routers, in, ix))
        BY <1>2, OrientedSound
    <2>2. Bare(WithRadios(Oriented(routers, in, ix), radios))
        BY <2>1, RadiosSound
    <2> QED
        BY <2>2, ClientsSound
<1>4. Whole(whole)
    <2> HIDE DEF all
    <2>1. Planted(WithCpes(all, in, clients))
        BY <1>3, CpesSound
    <2> QED
        BY <2>1, MirroredSound
<1>5. /\ Discovered(in, set, radios, clients).nodes = whole.nodes
      /\ Discovered(in, set, radios, clients).links = whole.links
    BY DEF Discovered
<1> HIDE DEF whole
<1> QED
    BY <1>4, <1>5 DEF Whole, KeysOf

-----------------------------------------------------------------------------
(* What the database holds.                                                 *)
\* The links of the tree, however many discoveries wrote them.
Tree(f) ==
    /\ \A k \in DOMAIN f :
          /\ DOMAIN f[k] = LinkFields \cup {"hidden"} /\ LinkKey(f[k]) = k
          /\ Found(f[k]) \/ (f[k].by = "manual" /\ f[k].kind = "manual")
          /\ Marked(f[k], DOMAIN f)
    /\ \A j, k \in DOMAIN f :
          f[j].dst = f[k].dst /\ IsBranch(f[j].dst) =>
              j = k \/ f[j].by = "manual" \/ f[k].by = "manual"
TreeHolds == Tree(links)
BoxesHold == Boxes(nodes)
StoryHolds ==
    /\ story \in Stories /\ at \in DOMAIN story.worlds /\ asks \subseteq story.asks
    /\ listed \subseteq Names /\ skipped \subseteq Names
RunsHold ==
    /\ DOMAIN run = Discoveries
    /\ \A d \in Discoveries : /\ DOMAIN run[d] = {"phase", "listed", "graph"}
                              /\ run[d].listed \subseteq Names
                              /\ run[d].phase = "save" => Whole(run[d].graph)
Inv == StoryHolds /\ RunsHold /\ BoxesHold /\ TreeHolds

\* The links that stay are sound when the originals of their marks stay.
LEMMA TreeShrinks ==
    ASSUME NEW f, Tree(f), NEW S \in SUBSET DOMAIN f,
           \A k \in S : f[k].mirror # None => f[k].mirror \in S
    PROVE  Tree([k \in S |-> f[k]])
<1> DEFINE h == [k \in S |-> f[k]]
<1>1. DOMAIN h = S /\ \A k \in S : h[k] = f[k]
    OBVIOUS
<1> HIDE DEF h
<1>2. ASSUME NEW k \in S
      PROVE  /\ DOMAIN h[k] = LinkFields \cup {"hidden"} /\ LinkKey(h[k]) = k
             /\ Found(h[k]) \/ (h[k].by = "manual" /\ h[k].kind = "manual")
             /\ Marked(h[k], DOMAIN h)
    BY <1>1 DEF Tree, Marked
<1>3. \A j, k \in S : h[j].dst = h[k].dst /\ IsBranch(h[j].dst) =>
                        j = k \/ h[j].by = "manual" \/ h[k].by = "manual"
    BY <1>1 DEF Tree
<1>4. Tree(h)
    BY <1>1, <1>2, <1>3 DEF Tree
<1> QED
    BY <1>4 DEF h

\* The original of a mark joins the same two routers; its own laid it, or the
\* operator.
LEMMA OriginalOfMark ==
    ASSUME NEW f, Tree(f), NEW k \in DOMAIN f, f[k].mirror # None
    PROVE  LET m == f[k].mirror IN
           /\ m \in DOMAIN f /\ f[m].src = f[k].dst /\ f[m].dst = f[k].src
           /\ ~IsDeclared(f[m])
           /\ f[k].src \in RouterKeys /\ f[k].dst \in RouterKeys
           /\ f[m].by = "manual" \/ f[m].src = RouterKey(f[m].by)
<1>1. PICK m : m = f[k].mirror
    OBVIOUS
<1>2. Marked(f[k], DOMAIN f)
    BY DEF Tree
<1>3. /\ m \in DOMAIN f /\ m[1] = f[k].dst /\ m[3] = f[k].src
      /\ f[k].src \in RouterKeys /\ f[k].dst \in RouterKeys
    BY <1>1, <1>2 DEF Marked, RouterKeys
<1>4. f[m].src = f[k].dst /\ f[m].dst = f[k].src
    BY <1>3 DEF Tree, LinkKey
<1>5. Across(f[m])
    BY <1>3, <1>4, KeysApart DEF Across
<1>6. CASE f[m].by = "manual" /\ f[m].kind = "manual"
    BY <1>1, <1>3, <1>4, <1>6 DEF IsDeclared
<1>7. CASE Found(f[m])
    <2>1. LaidBy(f[m])
        BY <1>5, <1>7 DEF Found
    <2>2. f[m].by # "inventory"
        BY <2>1, TopologyAssumption DEF LaidBy
    <2> QED
        BY <1>1, <1>3, <1>4, <2>1, <2>2 DEF IsDeclared, LaidBy
<1> QED
    BY <1>3, <1>6, <1>7 DEF Tree

LEMMA UpsertedLink ==
    ASSUME NEW old, NEW new, DOMAIN new = LinkFields \cup {"hidden"}
    PROVE  LET l == LinkUpserted(old, new) IN
           /\ DOMAIN l = LinkFields \cup {"hidden"}
           /\ l.src = new.src /\ l.port = new.port /\ l.dst = new.dst
           /\ l.kind = new.kind /\ l.by = new.by
           /\ l.mirror = new.mirror \/ l.mirror = old.mirror
BY DEF LinkUpserted, LinkFields

LEMMA SavedTree ==
    ASSUME TreeHolds, NEW g, Whole(g)
    PROVE  Tree(SavedLinks(g))
<1> DEFINE keys == KeysOf(g)
           chosen(k) == CHOOSE l \in g.links : LinkKey(l) = k
           fresh(k) == Over(chosen(k), [hidden |-> FALSE])
           now(k) == IF k \in DOMAIN links THEN LinkUpserted(links[k], fresh(k)) ELSE fresh(k)
           all == Over([k \in keys |-> now(k)], links)
           stay == DOMAIN all \ Outdated(g.links)
           h == [k \in stay |-> all[k]]
<1>1. SavedLinks(g) = h
    BY DEF SavedLinks, KeysOf
<1>2. ASSUME NEW k \in keys
      PROVE  chosen(k) \in g.links /\ LinkKey(chosen(k)) = k
    BY DEF KeysOf
<1> HIDE DEF chosen
<1>3. ASSUME NEW k \in keys
      PROVE  /\ DOMAIN fresh(k) = LinkFields \cup {"hidden"}
             /\ fresh(k).src = chosen(k).src /\ fresh(k).port = chosen(k).port
             /\ fresh(k).dst = chosen(k).dst /\ fresh(k).kind = chosen(k).kind
             /\ fresh(k).by = chosen(k).by /\ fresh(k).mirror = chosen(k).mirror
    <2>1. DOMAIN chosen(k) = LinkFields
        BY <1>2 DEF Whole
    <2> QED
        BY <2>1 DEF Over, LinkFields
<1> HIDE DEF fresh
<1>4. ASSUME NEW k \in keys
      PROVE  /\ DOMAIN now(k) = LinkFields \cup {"hidden"}
             /\ now(k).src = chosen(k).src /\ now(k).port = chosen(k).port
             /\ now(k).dst = chosen(k).dst /\ now(k).kind = chosen(k).kind
             /\ now(k).by = chosen(k).by
             /\ \/ now(k).mirror = chosen(k).mirror
                \/ k \in DOMAIN links /\ now(k).mirror = links[k].mirror
    <2>1. PICK new, old : new = fresh(k) /\ old = links[k]
        OBVIOUS
    <2>2. CASE k \in DOMAIN links
        <3>1. now(k) = LinkUpserted(old, new)
            BY <2>1, <2>2
        <3> HIDE DEF now
        <3>2. PICK l : l = LinkUpserted(old, new)
            OBVIOUS
        <3>3. /\ DOMAIN l = LinkFields \cup {"hidden"}
              /\ l.src = new.src /\ l.port = new.port /\ l.dst = new.dst
              /\ l.kind = new.kind /\ l.by = new.by
              /\ l.mirror = new.mirror \/ l.mirror = old.mirror
            BY <1>3, <2>1, <3>2, UpsertedLink
        <3> QED
            BY <1>3, <2>1, <2>2, <3>1, <3>2, <3>3
    <2>3. CASE k \notin DOMAIN links
        BY <1>3, <2>3
    <2> QED
        BY <2>2, <2>3
<1> HIDE DEF now
<1>5. /\ DOMAIN all = keys \cup DOMAIN links
      /\ \A k \in keys : all[k] = now(k)
      /\ \A k \in DOMAIN links : k \notin keys => all[k] = links[k]
    BY DEF Over
<1> HIDE DEF all
<1>6. ASSUME NEW k \in keys
      PROVE  /\ LinkKey(all[k]) = k /\ Found(all[k])
             /\ IsDeclared(all[k]) => \E l \in g.links : IsDeclared(l)
    <2>1. Found(chosen(k))
        BY <1>2 DEF Whole
    <2>2. LinkKey(all[k]) = k
        BY <1>2, <1>4, <1>5 DEF LinkKey
    <2>3. Found(all[k])
        BY <1>4, <1>5, <2>1 DEF Found, Across, LaidBy, IsDeclared
    <2>4. IsDeclared(all[k]) => IsDeclared(chosen(k))
        BY <1>4, <1>5 DEF IsDeclared
    <2> QED
        BY <1>2, <2>2, <2>3, <2>4
<1>7. /\ keys \subseteq stay
      /\ \A k \in DOMAIN links : ~IsDeclared(links[k]) => k \in stay
      /\ \A k \in stay \ keys : /\ k \in DOMAIN links
                                /\ IsDeclared(links[k]) => ~ \E l \in g.links : IsDeclared(l)
    BY <1>5 DEF Outdated, KeysOf
<1> HIDE DEF stay, keys
<1>8. DOMAIN h = stay /\ \A k \in stay : h[k] = all[k]
    OBVIOUS
<1> HIDE DEF h
<1>9. ASSUME NEW k \in DOMAIN links, links[k].mirror # None
      PROVE  links[k].mirror \in stay /\ Marked(links[k], stay)
    <2>1. Tree(links)
        BY DEF TreeHolds
    <2>2. links[k].mirror \in DOMAIN links /\ ~IsDeclared(links[links[k].mirror])
        BY <1>9, <2>1, OriginalOfMark
    <2>3. Marked(links[k], DOMAIN links)
        BY <2>1 DEF Tree
    <2> QED
        BY <1>7, <2>2, <2>3 DEF Marked
<1>10. ASSUME NEW k \in stay
       PROVE  /\ DOMAIN all[k] = LinkFields \cup {"hidden"} /\ LinkKey(all[k]) = k
              /\ Found(all[k]) \/ (all[k].by = "manual" /\ all[k].kind = "manual")
              /\ Marked(all[k], stay)
    <2>1. CASE k \notin keys
        BY <1>5, <1>7, <1>9, <2>1 DEF TreeHolds, Tree, Marked
    <2>2. CASE k \in keys
        <3>1. Marked(chosen(k), stay)
            BY <1>2, <1>7, <2>2 DEF Whole, Marked, keys
        <3>2. CASE all[k].mirror = chosen(k).mirror
            BY <1>4, <1>5, <1>6, <2>2, <3>1, <3>2 DEF Marked
        <3>3. CASE k \in DOMAIN links /\ all[k].mirror = links[k].mirror
            <4>1. LinkKey(links[k]) = k
                BY <3>3 DEF TreeHolds, Tree
            <4>2. links[k].src = all[k].src /\ links[k].dst = all[k].dst
                BY <1>6, <2>2, <4>1 DEF LinkKey
            <4>3. Marked(all[k], stay)
                BY <1>9, <3>3, <4>2 DEF Marked
            <4> QED
                BY <1>4, <1>5, <1>6, <2>2, <4>3
        <3> QED
            BY <1>4, <1>5, <2>2, <3>2, <3>3
    <2> QED
        BY <2>1, <2>2
<1>11. ASSUME NEW j \in stay, NEW k \in stay, all[j].dst = all[k].dst, IsBranch(all[j].dst),
              all[j].by # "manual", all[k].by # "manual"
       PROVE  j = k
    <2>1. IsDeclared(all[j]) /\ IsDeclared(all[k])
        BY <1>10, <1>11 DEF Found
    <2>2. CASE \E l \in g.links : IsDeclared(l)
        <3>1. j \in keys /\ k \in keys
            BY <1>5, <1>7, <2>1, <2>2
        <3>2. chosen(j).dst = chosen(k).dst /\ IsBranch(chosen(j).dst)
            BY <1>4, <1>5, <1>11, <3>1
        <3> QED
            BY <1>2, <3>1, <3>2 DEF Whole
    <2>3. CASE ~ \E l \in g.links : IsDeclared(l)
        <3>1. j \notin keys /\ k \notin keys
            BY <1>6, <2>1, <2>3
        <3> QED
            BY <1>5, <1>7, <1>11, <3>1 DEF TreeHolds, Tree
    <2> QED
        BY <2>2, <2>3
<1>12. Tree(h)
    BY <1>8, <1>10, <1>11 DEF Tree
<1> QED
    BY <1>1, <1>12

-----------------------------------------------------------------------------
(* The steps.                                                               *)
LEMMA InitInv == Init => Inv
<1> SUFFICES ASSUME Init PROVE Inv
    OBVIOUS
<1>1. StoryHolds
    <2>1. story.worlds \in Seq(Range(story.worlds)) \ {<<>>}
        BY TopologyAssumption DEF Init
    <2>2. 1 \in DOMAIN story.worlds
        BY <2>1
    <2> QED
        BY <2>2, TopologyAssumption DEF Init, StoryHolds
<1>2. RunsHold
    BY DEF Init, RunsHold, Idle
<1>3. BoxesHold /\ TreeHolds
    BY FS_EmptySet DEF Init, BoxesHold, Boxes, TreeHolds, Tree, Nothing
<1> QED
    BY <1>1, <1>2, <1>3 DEF Inv

\* The network a discovery reads.
LEMMA WorldHolds ==
    ASSUME StoryHolds
    PROVE  /\ Referenced(World.clients)
           /\ IsFiniteSet(World.segments) /\ \A e \in World.segments : IsFiniteSet(e)
           /\ IsFiniteSet(World.clients) /\ IsFiniteSet(World.radios)
           /\ \A r \in Names : IsFiniteSet(DOMAIN World.device[r].mac)
<1>1. World \in Range(story.worlds)
    BY DEF StoryHolds, World, Range
<1>2. story \in Stories
    BY DEF StoryHolds
<1>3. ASSUME NEW r \in Names PROVE IsFiniteSet(DOMAIN World.device[r].mac)
    <2>1. PICK macs : macs = World.device[r].mac /\ macs \in Seq(Range(macs))
        BY <1>1, <1>2, TopologyAssumption
    <2>2. DOMAIN macs = 1..Len(macs) /\ Len(macs) \in Nat
        BY <2>1
    <2> QED
        BY <2>1, <2>2, FS_Interval
<1> QED
    BY <1>1, <1>2, <1>3, TopologyAssumption DEF Referenced

LEMMA SeenByItself ==
    ASSUME NEW w, NEW r, NEW s \in Reading(w, r).sees
    PROVE  s.by = r
<1>1. s \in Sightings(w, r)
    BY DEF Reading
<1>2. PICK p \in DOMAIN w.device[r].mac : \E end \in Others(w, r, p) : s = Sighting(w, r, p, end)
    BY <1>1 DEF Sightings
<1>3. PICK end : s = Sighting(w, r, p, end)
    BY <1>2
<1> QED
    BY <1>3 DEF Sighting

\* A router sees finitely many ends.
LEMMA SeesFinitely ==
    ASSUME NEW w, NEW r, IsFiniteSet(w.segments), \A e \in w.segments : IsFiniteSet(e),
           IsFiniteSet(DOMAIN w.device[r].mac)
    PROVE  IsFiniteSet(Reading(w, r).sees)
<1> DEFINE ports == DOMAIN w.device[r].mac
           seen(p) == {Sighting(w, r, p, end) : end \in Others(w, r, p)}
           f == [p \in ports |-> seen(p)]
<1>1. Reading(w, r).sees = UNION {f[p] : p \in ports}
    <2>1. Reading(w, r).sees = Sightings(w, r)
        BY DEF Reading
    <2>2. {f[p] : p \in ports} = {seen(p) : p \in ports}
        <3> HIDE DEF seen
        <3> QED
            OBVIOUS
    <2> QED
        BY <2>1, <2>2 DEF Sightings
<1>2. ASSUME NEW p \in ports PROVE IsFiniteSet(seen(p))
    <2>1. IsFiniteSet(Others(w, r, p))
        <3>1. Segment(w, r, p) \in SUBSET w.segments
            BY DEF Segment
        <3>2. IsFiniteSet(UNION Segment(w, r, p))
            BY <3>1, FS_Subset, FS_UNION
        <3> QED
            BY <3>2, FS_Subset DEF Others
    <2> DEFINE ends == Others(w, r, p)
               h == [end \in ends |-> Sighting(w, r, p, end)]
    <2>2. h = [end \in ends |-> h[end]] /\ {h[end] : end \in ends} = seen(p)
        OBVIOUS
    <2> HIDE DEF h, ends, seen
    <2>3. IsFiniteSet({h[end] : end \in ends})
        BY <2>1, <2>2, ImageFinite DEF ends
    <2> QED
        BY <2>2, <2>3
<1> HIDE DEF seen
<1>3. f = [p \in ports |-> f[p]] /\ \A p \in ports : IsFiniteSet(f[p])
    BY <1>2
<1> HIDE DEF f
<1>4. IsFiniteSet({f[p] : p \in ports}) /\ \A T \in {f[p] : p \in ports} : IsFiniteSet(T)
    BY <1>3, ImageFinite
<1> QED
    BY <1>1, <1>4, FS_UNION

LEMMA StoryStep == StoryHolds /\ [Next]_vars => StoryHolds'
<1> SUFFICES ASSUME StoryHolds, [Next]_vars PROVE StoryHolds'
    OBVIOUS
<1> USE DEF StoryHolds, inventory
<1>1. ASSUME NEW d \in Discoveries,
             Begins(d) \/ Reads(d) \/ Saves(d) \/ SaveFails(d) \/ Forgets(d) \/ ForgetFails(d)
               \/ Attaches(d)
      PROVE  StoryHolds'
    BY <1>1 DEF Begins, Reads, Saves, SaveFails, Forgets, ForgetFails, Attaches
<1>2. ASSUME NEW ask \in asks,
             MergesBoxes(ask) \/ UnmergesBox(ask) \/ LinksByHand(ask) \/ HidesLink(ask)
               \/ ForgetsStale(ask) \/ Restarts(ask)
      PROVE  StoryHolds'
    BY <1>2 DEF MergesBoxes, UnmergesBox, LinksByHand, HidesLink, ForgetsStale, Restarts, Asked
<1>3. ASSUME NEW ask \in asks, Reloads(ask)
      PROVE  StoryHolds'
    <2>1. ask.op \in {"add", "set aside"} => ask.a \in Names
        BY TopologyAssumption
    <2> QED
        BY <1>3, <2>1 DEF Reloads, Asked
<1>4. CASE NetworkChanges
    <2>1. story.worlds \in Seq(Range(story.worlds))
        BY TopologyAssumption
    <2>2. at + 1 \in DOMAIN story.worlds
        BY <1>4, <2>1 DEF NetworkChanges
    <2> QED
        BY <1>4, <2>2 DEF NetworkChanges
<1>5. CASE UNCHANGED vars
    BY <1>5 DEF vars
<1> QED
    BY <1>1, <1>2, <1>3, <1>4, <1>5 DEF Next

LEMMA ReadsWhole ==
    ASSUME StoryHolds, RunsHold, NEW d \in Discoveries, Reads(d)
    PROVE  RunsHold'
<1>1. PICK silent \in SUBSET (run[d].listed \cap story.silent) :
      \E radios \in {World.radios, {}} :
         LET in == [listed |-> run[d].listed, own |-> own, loops |-> loops, last |-> last,
                    read |-> [r \in run[d].listed |->
                                IF r \in silent THEN None ELSE Reading(World, r)]]
             g == Discovered(in, skipped, radios, World.clients)
         IN run' = [run EXCEPT ![d].phase = "save", ![d].graph = g]
    BY DEF Reads
<1>2. PICK radios \in {World.radios, {}} :
         LET in == [listed |-> run[d].listed, own |-> own, loops |-> loops, last |-> last,
                    read |-> [r \in run[d].listed |->
                                IF r \in silent THEN None ELSE Reading(World, r)]]
             g == Discovered(in, skipped, radios, World.clients)
         IN run' = [run EXCEPT ![d].phase = "save", ![d].graph = g]
    BY <1>1
<1> DEFINE in == [listed |-> run[d].listed, own |-> own, loops |-> loops, last |-> last,
                  read |-> [r \in run[d].listed |->
                              IF r \in silent THEN None ELSE Reading(World, r)]]
           g == Discovered(in, skipped, radios, World.clients)
<1>3. run' = [run EXCEPT ![d].phase = "save", ![d].graph = g]
    BY <1>2
<1>4. Input(in)
    <2>1. in.listed = run[d].listed
        OBVIOUS
    <2>2. \A r \in run[d].listed : in.read[r] # None => in.read[r] = Reading(World, r)
        OBVIOUS
    <2>3. \A r \in run[d].listed : IsFiniteSet(Reading(World, r).sees)
        BY WorldHolds, SeesFinitely DEF RunsHold
    <2> HIDE DEF in
    <2> QED
        BY <2>1, <2>2, <2>3, SeenByItself DEF RunsHold, Input
<1> HIDE DEF in
<1>5. Whole(g)
    <2>1. IsFiniteSet(radios)
        BY <1>2, WorldHolds, FS_EmptySet
    <2> QED
        BY <1>4, <2>1, WorldHolds, DiscoveredWhole DEF StoryHolds
<1> HIDE DEF g
<1>6. /\ DOMAIN run' = DOMAIN run
      /\ run'[d] = [run[d] EXCEPT !.phase = "save", !.graph = g]
      /\ \A e \in Discoveries \ {d} : run'[e] = run[e]
    BY <1>3 DEF RunsHold
<1>7. /\ DOMAIN run'[d] = DOMAIN run[d] /\ run'[d].listed = run[d].listed
      /\ run'[d].graph = g
    BY <1>6 DEF RunsHold
<1> QED
    BY <1>5, <1>6, <1>7 DEF RunsHold

LEMMA RunsStep == StoryHolds /\ RunsHold /\ [Next]_vars => RunsHold'
<1> SUFFICES ASSUME StoryHolds, RunsHold, [Next]_vars PROVE RunsHold'
    OBVIOUS
<1>1. ASSUME NEW d \in Discoveries, Begins(d) PROVE RunsHold'
    BY <1>1 DEF Begins, RunsHold, StoryHolds
<1>2. ASSUME NEW d \in Discoveries, Reads(d) PROVE RunsHold'
    BY <1>2, ReadsWhole
<1>3. ASSUME NEW d \in Discoveries,
             \/ run' = [run EXCEPT ![d].phase = "forget"]
             \/ run' = [run EXCEPT ![d].phase = "attach"]
      PROVE  RunsHold'
    BY <1>3 DEF RunsHold
<1>4. ASSUME NEW d \in Discoveries, run' = [run EXCEPT ![d] = Idle] PROVE RunsHold'
    BY <1>4 DEF RunsHold, Idle
<1>5. ASSUME NEW d \in Discoveries,
             Saves(d) \/ SaveFails(d) \/ Forgets(d) \/ ForgetFails(d) \/ Attaches(d)
      PROVE  RunsHold'
    BY <1>3, <1>4, <1>5 DEF Saves, SaveFails, Forgets, ForgetFails, Attaches
<1>6. ASSUME NEW ask \in asks,
             MergesBoxes(ask) \/ UnmergesBox(ask) \/ LinksByHand(ask) \/ HidesLink(ask)
               \/ ForgetsStale(ask) \/ Reloads(ask)
      PROVE  RunsHold'
    BY <1>6 DEF RunsHold, MergesBoxes, UnmergesBox, LinksByHand, HidesLink, ForgetsStale, Reloads
<1>7. ASSUME NEW ask \in asks, Restarts(ask) PROVE RunsHold'
    BY <1>7 DEF RunsHold, Restarts, Idle
<1>8. CASE NetworkChanges \/ UNCHANGED vars
    BY <1>8 DEF RunsHold, NetworkChanges, vars
<1> QED
    BY <1>1, <1>2, <1>5, <1>6, <1>7, <1>8 DEF Next

\* What is known of a box and not said again stays its own.
LEMMA UpsertedBox ==
    ASSUME NEW k, NEW old, NEW new, Labelled(k, old), Labelled(k, new)
    PROVE  Labelled(k, Upserted(old, new))
<1>1. PICK n : n = Upserted(old, new)
    OBVIOUS
<1>2. /\ BoxFields \subseteq DOMAIN n
      /\ n.macs = new.macs \/ n.macs = old.macs
      /\ n.serial = IF new.serial = None THEN old.serial ELSE new.serial
      /\ n.cpe = IF new.cpe = None THEN old.cpe ELSE new.cpe
    BY <1>1 DEF Upserted, Labelled, BoxFields
<1>3. n.managed <=> OfRouter(k)
    <2>1. n.managed <=> (new.managed \/ old.managed)
        BY <1>1 DEF Upserted, Labelled, BoxFields
    <2>2. (new.managed <=> OfRouter(k)) /\ (old.managed <=> OfRouter(k))
        BY Zenon DEF Labelled
    <2> QED
        BY <2>1, <2>2, Zenon
<1>4. /\ OfRouter(k) => k \in RouterKeys /\ n.cpe = None
      /\ ~OfRouter(k) => n.serial = None /\ \E a : n.macs \subseteq {a}
    BY <1>2 DEF Labelled
<1>5. Labelled(k, n)
    BY <1>2, <1>3, <1>4, Zenon DEF Labelled
<1> QED
    BY <1>1, <1>5

LEMMA SavedBoxes ==
    ASSUME NEW g, Boxes(g.nodes), Boxes(nodes)
    PROVE  Boxes(SavedNodes(g))
<1> DEFINE fresh(k) == Over(g.nodes[k], [seen |-> saves + 1])
           now(k) == IF k \in DOMAIN nodes THEN Upserted(nodes[k], fresh(k)) ELSE fresh(k)
           laid == [k \in DOMAIN g.nodes |-> now(k)]
<1>1. SavedNodes(g) = Over(laid, nodes)
    BY DEF SavedNodes
<1>2. ASSUME NEW k \in DOMAIN g.nodes PROVE Labelled(k, fresh(k))
    <2>1. PICK n : n = g.nodes[k] /\ Labelled(k, n)
        BY DEF Boxes
    <2>2. fresh(k) = Over(n, [seen |-> saves + 1])
        BY <2>1
    <2> HIDE DEF fresh
    <2>3. /\ BoxFields \subseteq DOMAIN fresh(k)
          /\ fresh(k).managed = n.managed /\ fresh(k).macs = n.macs
          /\ fresh(k).serial = n.serial /\ fresh(k).cpe = n.cpe
        BY <2>1, <2>2 DEF Over, Labelled, BoxFields
    <2> QED
        BY <2>1, <2>3, SameLabel
<1> HIDE DEF fresh
<1>3. ASSUME NEW k \in DOMAIN g.nodes PROVE Labelled(k, now(k))
    BY <1>2, UpsertedBox DEF Boxes
<1> HIDE DEF now
<1>4. Boxes(laid)
    BY <1>3 DEF Boxes
<1> HIDE DEF laid
<1> QED
    BY <1>1, <1>4, OverBoxes

LEMMA BoxesStep == RunsHold /\ BoxesHold /\ [Next]_vars => BoxesHold'
<1> SUFFICES ASSUME RunsHold, BoxesHold, [Next]_vars PROVE BoxesHold'
    OBVIOUS
<1>1. ASSUME NEW d \in Discoveries, Saves(d) PROVE BoxesHold'
    <2>1. PICK g : g = run[d].graph /\ Whole(g)
        BY <1>1 DEF Saves, RunsHold
    <2>2. Boxes(SavedNodes(g))
        BY <2>1, SavedBoxes DEF Whole, BoxesHold
    <2>3. nodes' = SavedNodes(g)
        BY <1>1, <2>1 DEF Saves
    <2> QED
        BY <2>2, <2>3 DEF BoxesHold
<1>8. ASSUME NEW S \in SUBSET DOMAIN nodes, nodes' = [k \in S |-> nodes[k]] PROVE BoxesHold'
    BY <1>8, FS_Subset DEF BoxesHold, Boxes
<1>2. ASSUME NEW d \in Discoveries, Forgets(d) PROVE BoxesHold'
    BY <1>2, <1>8 DEF Forgets
<1>3. ASSUME NEW ask \in asks, ForgetsStale(ask) PROVE BoxesHold'
    BY <1>3, <1>8 DEF ForgetsStale
<1>4. ASSUME UNCHANGED nodes PROVE BoxesHold'
    BY <1>4 DEF BoxesHold
<1>5. ASSUME NEW d \in Discoveries,
             Begins(d) \/ Reads(d) \/ SaveFails(d) \/ ForgetFails(d) \/ Attaches(d)
      PROVE  UNCHANGED nodes
    BY <1>5 DEF Begins, Reads, SaveFails, ForgetFails, Attaches, database
<1>6. ASSUME NEW ask \in asks,
             MergesBoxes(ask) \/ UnmergesBox(ask) \/ LinksByHand(ask) \/ HidesLink(ask)
               \/ Reloads(ask) \/ Restarts(ask)
      PROVE  UNCHANGED nodes
    BY <1>6 DEF MergesBoxes, UnmergesBox, LinksByHand, HidesLink, Reloads, Restarts, database
<1>7. NetworkChanges \/ UNCHANGED vars => UNCHANGED nodes
    BY DEF NetworkChanges, vars, database
<1> QED
    BY <1>1, <1>2, <1>3, <1>4, <1>5, <1>6, <1>7 DEF Next

\* A router that leaves takes the two links of each of its cables.
LEMMA ForgetsTree ==
    ASSUME BoxesHold, TreeHolds, NEW d \in Discoveries, Forgets(d)
    PROVE  TreeHolds'
<1> DEFINE gone == Gone(run[d].listed)
           tied(l) == l.src \in gone \/ l.dst \in gone \/ l.by \in {k[2] : k \in gone}
           S == {j \in DOMAIN links : ~tied(links[j])}
<1>1. links' = [k \in S |-> links[k]]
    BY DEF Forgets
<1>2. \A k \in gone : k \in RouterKeys
    BY DEF Gone, BoxesHold, Boxes, Labelled
<1>3. \A r : r \in {k[2] : k \in gone} => r \in Names /\ RouterKey(r) \in gone
    <2> HIDE DEF gone
    <2> QED
        BY <1>2 DEF RouterKeys, RouterKey
<1> HIDE DEF gone
<1>4. ASSUME NEW k \in S, links[k].mirror # None
      PROVE  links[k].mirror \in S
    <2>1. PICK m : m = links[k].mirror
        OBVIOUS
    <2>2. /\ m \in DOMAIN links /\ links[m].src = links[k].dst /\ links[m].dst = links[k].src
          /\ links[m].by = "manual" \/ links[m].src = RouterKey(links[m].by)
        BY <1>4, <2>1, OriginalOfMark DEF TreeHolds
    <2>3. links[m].by = "manual" => links[m].by \notin Names
        BY TopologyAssumption
    <2>4. ~tied(links[m])
        BY <1>3, <2>2, <2>3
    <2> QED
        BY <2>1, <2>2, <2>4
<1>5. S \in SUBSET DOMAIN links
    OBVIOUS
<1> HIDE DEF S
<1>6. Tree([k \in S |-> links[k]])
    BY <1>4, <1>5, TreeShrinks DEF TreeHolds
<1> QED
    BY <1>1, <1>6 DEF TreeHolds

\* No router is ever stale.
LEMMA StaleTree ==
    ASSUME TreeHolds, NEW ask, ForgetsStale(ask)
    PROVE  TreeHolds'
<1>1. PICK older \in 1..(saves + 1) :
         LET stale == Stale(older)
             tied(l) == l.by # "manual" /\ {l.src, l.dst} \cap stale # {}
         IN links' = [k \in {j \in DOMAIN links : ~tied(links[j])} |-> links[k]]
    BY DEF ForgetsStale
<1> DEFINE stale == Stale(older)
           tied(l) == l.by # "manual" /\ {l.src, l.dst} \cap stale # {}
           S == {j \in DOMAIN links : ~tied(links[j])}
<1>2. links' = [k \in S |-> links[k]]
    BY <1>1
<1>3. \A k \in stale : k \notin RouterKeys
    BY KeysApart DEF Stale, RouterKeys
<1> HIDE DEF stale
<1>4. ASSUME NEW k \in S, links[k].mirror # None
      PROVE  links[k].mirror \in S
    <2>1. PICK m : m = links[k].mirror
        OBVIOUS
    <2>2. /\ m \in DOMAIN links /\ links[m].src = links[k].dst /\ links[m].dst = links[k].src
          /\ links[k].src \in RouterKeys /\ links[k].dst \in RouterKeys
        BY <1>4, <2>1, OriginalOfMark DEF TreeHolds
    <2>3. ~tied(links[m])
        BY <1>3, <2>2
    <2> QED
        BY <2>1, <2>2, <2>3
<1>5. S \in SUBSET DOMAIN links
    OBVIOUS
<1> HIDE DEF S
<1>6. Tree([k \in S |-> links[k]])
    BY <1>4, <1>5, TreeShrinks DEF TreeHolds
<1> QED
    BY <1>2, <1>6 DEF TreeHolds

LEMMA ByHandTree ==
    ASSUME TreeHolds, NEW ask, LinksByHand(ask)
    PROVE  TreeHolds'
<1>1. PICK l : /\ l = Over(Link(ask.a, ByHand, ask.b, "manual", "manual"), [hidden |-> FALSE])
               /\ links' = [k \in DOMAIN links \cup {LinkKey(l)} |->
                              IF k = LinkKey(l) THEN l ELSE links[k]]
    BY DEF LinksByHand
<1>2. /\ DOMAIN l = LinkFields \cup {"hidden"} /\ l.by = "manual" /\ l.kind = "manual"
      /\ l.mirror = None
    BY <1>1 DEF Over, Link, LinkFields
<1>3. PICK h : h = links'
    OBVIOUS
<1>4. /\ DOMAIN h = DOMAIN links \cup {LinkKey(l)} /\ h[LinkKey(l)] = l
      /\ \A k \in DOMAIN links : k # LinkKey(l) => h[k] = links[k]
    BY <1>1, <1>3
<1>5. ASSUME NEW k \in DOMAIN h
      PROVE  /\ DOMAIN h[k] = LinkFields \cup {"hidden"} /\ LinkKey(h[k]) = k
             /\ Found(h[k]) \/ (h[k].by = "manual" /\ h[k].kind = "manual")
             /\ Marked(h[k], DOMAIN h)
    BY <1>2, <1>4 DEF TreeHolds, Tree, Marked
<1>6. \A j, k \in DOMAIN h : h[j].dst = h[k].dst /\ IsBranch(h[j].dst) =>
                                j = k \/ h[j].by = "manual" \/ h[k].by = "manual"
    BY <1>2, <1>4 DEF TreeHolds, Tree
<1>7. Tree(h)
    BY <1>5, <1>6 DEF Tree
<1> QED
    BY <1>3, <1>7 DEF TreeHolds

LEMMA HidesTree ==
    ASSUME TreeHolds, NEW ask, HidesLink(ask)
    PROVE  TreeHolds'
<1>1. PICK i \in DOMAIN links : links' = [links EXCEPT ![i].hidden = TRUE]
    BY DEF HidesLink
<1>2. PICK h : h = links'
    OBVIOUS
<1>3. /\ DOMAIN h = DOMAIN links
      /\ \A k \in DOMAIN h : /\ DOMAIN h[k] = DOMAIN links[k]
                             /\ h[k].src = links[k].src /\ h[k].port = links[k].port
                             /\ h[k].dst = links[k].dst /\ h[k].kind = links[k].kind
                             /\ h[k].by = links[k].by /\ h[k].mirror = links[k].mirror
    BY <1>1, <1>2 DEF TreeHolds, Tree, LinkFields
<1>4. ASSUME NEW k \in DOMAIN h
      PROVE  /\ DOMAIN h[k] = LinkFields \cup {"hidden"} /\ LinkKey(h[k]) = k
             /\ Found(h[k]) \/ (h[k].by = "manual" /\ h[k].kind = "manual")
             /\ Marked(h[k], DOMAIN h)
    <2>1. LinkKey(h[k]) = LinkKey(links[k])
        BY <1>3 DEF LinkKey
    <2>2. Found(links[k]) => Found(h[k])
        BY <1>3 DEF Found, Across, LaidBy, IsDeclared
    <2>3. Marked(links[k], DOMAIN links) => Marked(h[k], DOMAIN h)
        BY <1>3 DEF Marked
    <2> QED
        BY <1>3, <2>1, <2>2, <2>3 DEF TreeHolds, Tree
<1>5. \A j, k \in DOMAIN h : h[j].dst = h[k].dst /\ IsBranch(h[j].dst) =>
                                j = k \/ h[j].by = "manual" \/ h[k].by = "manual"
    BY <1>3 DEF TreeHolds, Tree
<1>6. Tree(h)
    BY <1>4, <1>5 DEF Tree
<1> QED
    BY <1>2, <1>6 DEF TreeHolds

LEMMA TreeStep == RunsHold /\ BoxesHold /\ TreeHolds /\ [Next]_vars => TreeHolds'
<1> SUFFICES ASSUME RunsHold, BoxesHold, TreeHolds, [Next]_vars PROVE TreeHolds'
    OBVIOUS
<1>1. ASSUME NEW d \in Discoveries, Saves(d) PROVE TreeHolds'
    <2>1. Whole(run[d].graph) /\ links' = SavedLinks(run[d].graph)
        BY <1>1 DEF Saves, RunsHold
    <2> QED
        BY <2>1, SavedTree DEF TreeHolds
<1>2. ASSUME NEW d \in Discoveries, Forgets(d) PROVE TreeHolds'
    BY <1>2, ForgetsTree
<1>3. ASSUME NEW ask \in asks, LinksByHand(ask) \/ HidesLink(ask) \/ ForgetsStale(ask)
      PROVE  TreeHolds'
    BY <1>3, ByHandTree, HidesTree, StaleTree
<1>4. ASSUME UNCHANGED links PROVE TreeHolds'
    BY <1>4 DEF TreeHolds
<1>5. ASSUME NEW d \in Discoveries,
             Begins(d) \/ Reads(d) \/ SaveFails(d) \/ ForgetFails(d) \/ Attaches(d)
      PROVE  UNCHANGED links
    BY <1>5 DEF Begins, Reads, SaveFails, ForgetFails, Attaches, database
<1>6. ASSUME NEW ask \in asks,
             MergesBoxes(ask) \/ UnmergesBox(ask) \/ Reloads(ask) \/ Restarts(ask)
      PROVE  UNCHANGED links
    BY <1>6 DEF MergesBoxes, UnmergesBox, Reloads, Restarts, database
<1>7. NetworkChanges \/ UNCHANGED vars => UNCHANGED links
    BY DEF NetworkChanges, vars, database
<1> QED
    BY <1>1, <1>2, <1>3, <1>4, <1>5, <1>6, <1>7 DEF Next

LEMMA InvHolds == Spec => []Inv
<1>1. Inv /\ [Next]_vars => Inv'
    BY StoryStep, RunsStep, BoxesStep, TreeStep DEF Inv
<1> QED
    BY InitInv, <1>1, PTL DEF Spec

-----------------------------------------------------------------------------
(* A client declared hangs under one box, and a VLAN under one router,      *)
(* whichever of the discoveries in flight wrote last, and whatever was      *)
(* declared before (save_snapshot).                                        *)
THEOREM ParentIsOne == Spec => []OneParent
<1>1. Inv => OneParent
    <2> SUFFICES ASSUME TreeHolds, NEW k \in DOMAIN nodes, IsBranch(k)
        PROVE  Cardinality({j \in DOMAIN links : links[j].dst = k /\ links[j].by # "manual"}) <= 1
        BY DEF Inv, OneParent, IsBranch
    <2> DEFINE S == {j \in DOMAIN links : links[j].dst = k /\ links[j].by # "manual"}
    <2>1. \A i, j \in S : i = j
        BY DEF TreeHolds, Tree
    <2>2. CASE S = {}
        BY <2>2, FS_EmptySet
    <2>3. CASE S # {}
        <3>1. PICK i : S = {i}
            BY <2>1, <2>3
        <3> HIDE DEF S
        <3>2. Cardinality(S) = 1
            BY <3>1, FS_Singleton
        <3> QED
            BY <3>2 DEF S
    <2> QED
        BY <2>2, <2>3
<1> QED
    BY InvHolds, <1>1, PTL

\* The two ends of a cable.
LEMMA TwoEnds ==
    ASSUME NEW s, IsFiniteSet(s), Cardinality(s) = 2
    PROVE  \E x, y \in s : x # y /\ s = {x, y}
<1>1. s # {}
    BY FS_EmptySet
<1>2. PICK x : x \in s
    BY <1>1
<1>3. IsFiniteSet(s \ {x}) /\ Cardinality(s \ {x}) = 1
    BY <1>2, FS_RemoveElement
<1>4. PICK rest : rest = s \ {x}
    OBVIOUS
<1>5. PICK y : y \in rest
    BY <1>3, <1>4, FS_EmptySet
<1>6. Cardinality(rest \ {y}) = 0 /\ IsFiniteSet(rest \ {y})
    BY <1>3, <1>4, <1>5, FS_RemoveElement
<1>7. rest \ {y} = {}
    BY <1>6, FS_EmptySet
<1> QED
    BY <1>2, <1>4, <1>5, <1>7

(***************************************************************************)
(* A cable both of whose ends were discovered keeps one of its two links    *)
(* unmarked, and a link marked has its original, whichever discoveries      *)
(* wrote them and in whatever order (mark_reciprocal_links, save_snapshot). *)
(***************************************************************************)
THEOREM CablesStay == Spec => []NoCableLost
<1>1. Inv => NoCableLost
    <2> SUFFICES ASSUME StoryHolds, TreeHolds PROVE NoCableLost
        BY DEF Inv
    <2>1. ASSUME NEW s \in Cables, EndsOf(s) \subseteq DOMAIN links
          PROVE  \E k \in EndsOf(s) : links[k].mirror = None
        <3>1. PICK x \in s : \E y \in s : x # y /\ s = {x, y}
            BY WorldHolds, TwoEnds DEF Cables
        <3>2. PICK y \in s : x # y /\ s = {x, y}
            BY <3>1
        <3> DEFINE here == <<RouterKey(x.of), x.port, RouterKey(y.of)>>
                   there == <<RouterKey(y.of), y.port, RouterKey(x.of)>>
        <3>3. (CHOOSE o \in s : o # x) = y /\ (CHOOSE o \in s : o # y) = x
            BY <3>2
        <3>4. here \in EndsOf(s) /\ there \in EndsOf(s)
            BY <3>3 DEF EndsOf, KeyFrom
        <3>5. x.of \in Names /\ y.of \in Names
            BY DEF Cables, StoryHolds
        <3>6. ASSUME NEW a \in Names, NEW b \in Names, NEW p,
                     NEW k \in DOMAIN links, k = <<RouterKey(b), p, RouterKey(a)>>,
                     links[k].mirror # None
              PROVE  Rank(a) < Rank(b)
            <4>1. links[k].src = RouterKey(b) /\ links[k].dst = RouterKey(a)
                BY <3>6 DEF TreeHolds, Tree, LinkKey
            <4> QED
                BY <3>6, <4>1, KeysApart DEF TreeHolds, Tree, Marked
        <3>7. here \in DOMAIN links /\ there \in DOMAIN links
            BY <2>1, <3>4
        <3>8. \/ links[here].mirror = None
              \/ Rank(y.of) < Rank(x.of)
            BY <3>5, <3>6, <3>7
        <3>9. \/ links[there].mirror = None
              \/ Rank(x.of) < Rank(y.of)
            BY <3>5, <3>6, <3>7
        <3> QED
            BY <3>4, <3>5, <3>8, <3>9, RankOrders
    <2>2. \A k \in DOMAIN links : links[k].mirror \in DOMAIN links \cup {None}
        BY DEF TreeHolds, Tree, Marked
    <2> QED
        BY <2>1, <2>2 DEF NoCableLost
<1> QED
    BY InvHolds, <1>1, PTL

-----------------------------------------------------------------------------
(* The boxes served as one: without the operator's hand, those of a router  *)
(* are its own and the neighbours whose MAC only it carries.               *)
LEMMA LeastNumber ==
    ASSUME NEW S, S \subseteq Nat, S # {}
    PROVE  \E k \in S : \A j \in S : k <= j
<1>1. PICK k \in S : \A j \in S : ~(<<j, k>> \in OpToRel(<, Nat))
    BY NatLessThanWellFounded, WFMin
<1>2. \A j \in S : ~(j < k)
    BY <1>1 DEF OpToRel
<1>3. \A j \in S : k <= j
    BY <1>2
<1> QED
    BY <1>3

\* Reach is a function, and each step follows from the one before.
LEMMA ReachSteps ==
    ASSUME NEW f, IsFiniteSet(DOMAIN f), NEW al, NEW k
    PROVE  /\ Cardinality(DOMAIN f) \in Nat
           /\ Reach(f, al, k)[0] = {k}
           /\ \A n \in 1..Cardinality(DOMAIN f) :
                 Reach(f, al, k)[n] = Near(f, al, Reach(f, al, k)[n - 1])
<1>1. PICK N : N = Cardinality(DOMAIN f) /\ N \in Nat
    BY FS_CardinalityType
<1> DEFINE Step(g, n) == IF n = 0 THEN {k} ELSE Near(f, al, g[n - 1])
           Upto(g, n) == g = [m \in 0..n |-> Step(g, m)]
           lacking == {n \in 0..N : ~\E g : Upto(g, n)}
<1>2. lacking = {}
    <2> SUFFICES ASSUME lacking # {} PROVE FALSE
        OBVIOUS
    <2>1. lacking \subseteq Nat
        BY <1>1
    <2> HIDE DEF lacking
    <2>2. PICK n \in lacking : \A j \in lacking : n <= j
        BY <2>1, LeastNumber
    <2> USE DEF lacking
    <2>3. n # 0
        <3> DEFINE g == [m \in 0..0 |-> {k}]
        <3>1. Upto(g, 0)
            OBVIOUS
        <3> HIDE DEF Upto, g
        <3> QED
            BY <3>1
    <2>4. n - 1 \in 0..N /\ n - 1 \notin lacking
        <3>1. n \in 0..N
            OBVIOUS
        <3> HIDE DEF lacking
        <3> QED
            BY <1>1, <2>2, <2>3, <3>1
    <2> HIDE DEF Upto
    <2>5. PICK g : Upto(g, n - 1)
        BY <2>4
    <2> DEFINE h == [m \in 0..n |-> IF m = n THEN Near(f, al, g[n - 1]) ELSE g[m]]
    <2>6. \A m \in 0..(n - 1) : g[m] = Step(g, m)
        BY <2>5 DEF Upto
    <2>7. \A m \in 0..n : h[m] = Step(h, m)
        <3>1. n \in Nat
            BY <1>1
        <3>2. h[n] = Step(h, n)
            BY <2>3, <3>1
        <3>3. ASSUME NEW m \in 0..(n - 1) PROVE h[m] = Step(h, m)
            <4>1. h[m] = g[m] /\ (m # 0 => h[m - 1] = g[m - 1])
                BY <3>1, <3>3
            <4> HIDE DEF h
            <4> QED
                BY <2>6, <4>1
        <3> HIDE DEF h, Step
        <3>4. \A m \in 0..n : m = n \/ m \in 0..(n - 1)
            BY <3>1
        <3> QED
            BY <3>2, <3>3, <3>4
    <2>8. h = [m \in 0..n |-> Step(h, m)]
        <3> HIDE DEF Step
        <3>1. h = [m \in 0..n |-> h[m]]
            OBVIOUS
        <3> HIDE DEF h
        <3> QED
            BY <2>7, <3>1
    <2>9. Upto(h, n)
        BY <2>8 DEF Upto
    <2> HIDE DEF h
    <2> QED
        BY <2>9
<1>3. \E g : Upto(g, N)
    <2> HIDE DEF Upto
    <2> QED
        BY <1>1, <1>2
<1>4. Upto(Reach(f, al, k), N)
    BY <1>1, <1>3 DEF Reach
<1>5. \A n \in 0..N : Reach(f, al, k)[n] = Step(Reach(f, al, k), n)
    BY <1>4
<1>6. 0 \in 0..N /\ \A n \in 1..N : n \in 0..N /\ n # 0
    BY <1>1
<1> QED
    BY <1>1, <1>5, <1>6

\* A MAC that one router carries names that one.
LEMMA OneOwner ==
    ASSUME NEW f, Boxes(f), NEW m, NEW a \in OwnersOfMac(f, m)
    PROVE  /\ a \in DOMAIN f /\ f[a].managed
           /\ \A b \in OwnersOfMac(f, m) : b = a
<1> DEFINE owners == {k \in DOMAIN f : f[k].managed /\ m \in f[k].macs}
<1>1. OwnersOfMac(f, m) = owners /\ Cardinality(owners) = 1
    BY DEF OwnersOfMac
<1>2. IsFiniteSet(owners)
    BY FS_Subset DEF Boxes
<1>3. a \in DOMAIN f /\ f[a].managed
    BY <1>1
<1> HIDE DEF owners
<1>4. PICK x : owners = {x}
    BY <1>1, <1>2, FS_Singleton
<1> QED
    BY <1>1, <1>3, <1>4

Family(f, r) ==
    {RouterKey(r)}
        \cup {a \in DOMAIN f : ~f[a].managed /\ \E m \in f[a].macs : RouterKey(r) \in OwnersOfMac(f, m)}
Aliased(al, S) == \E k \in S : k \in DOMAIN al \cup Range(al)

\* One step from boxes no hand has joined stays within the family.
LEMMA NearFamily ==
    ASSUME NEW f, Boxes(f), NEW al, NEW r, RouterKey(r) \in DOMAIN f,
           NEW S, S \subseteq Family(f, r), ~Aliased(al, S)
    PROVE  Near(f, al, S) \subseteq Family(f, r)
<1>1. \A k \in DOMAIN f : Labelled(k, f[k])
    BY DEF Boxes
<1>2. f[RouterKey(r)].managed
    BY <1>1, KeysApart DEF Labelled
<1>3. Family(f, r) \subseteq DOMAIN f
    BY DEF Family
<1>4. ASSUME NEW a \in S, NEW b \in DOMAIN f, Same(f, al, a, b) PROVE b \in Family(f, r)
    <2>1. a \in DOMAIN f /\ a \notin DOMAIN al
        BY <1>3 DEF Aliased
    <2>2. ~(f[a].serial # None /\ f[a].serial = f[b].serial /\ ~(f[a].managed /\ f[b].managed))
        BY <1>1, <2>1 DEF Labelled
    <2>3. PICK m \in f[a].macs : ~f[a].managed /\ b \in OwnersOfMac(f, m)
        BY <1>4, <2>1, <2>2 DEF Same
    <2>4. PICK n \in f[a].macs : RouterKey(r) \in OwnersOfMac(f, n)
        BY <1>2, <2>3 DEF Family
    <2>5. m = n
        BY <1>1, <2>1, <2>3 DEF Labelled
    <2>6. b = RouterKey(r)
        BY <2>3, <2>4, <2>5, OneOwner
    <2> QED
        BY <2>6 DEF Family
<1>5. ASSUME NEW a \in S, NEW b \in DOMAIN f, Same(f, al, b, a) PROVE b \in Family(f, r)
    <2>1. a \in DOMAIN f /\ ~(b \in DOMAIN al /\ al[b] = a)
        BY <1>3 DEF Aliased, Range
    <2>2. ~(f[b].serial # None /\ f[b].serial = f[a].serial /\ ~(f[b].managed /\ f[a].managed))
        BY <1>1, <2>1 DEF Labelled
    <2>3. PICK m \in f[b].macs : ~f[b].managed /\ a \in OwnersOfMac(f, m)
        BY <1>5, <2>1, <2>2 DEF Same
    <2>4. f[a].managed
        BY <2>3, OneOwner
    <2>5. a = RouterKey(r)
        BY <2>4 DEF Family
    <2> QED
        BY <2>3, <2>5 DEF Family
<1> QED
    BY <1>4, <1>5 DEF Near

LEMMA MembersFamily ==
    ASSUME NEW f, Boxes(f), NEW al, NEW r, RouterKey(r) \in DOMAIN f,
           ~Aliased(al, Members(f, al, RouterKey(r)))
    PROVE  /\ RouterKey(r) \in Members(f, al, RouterKey(r))
           /\ Members(f, al, RouterKey(r)) \subseteq Family(f, r)
<1>1. PICK N, R : N = Cardinality(DOMAIN f) /\ R = Reach(f, al, RouterKey(r))
    OBVIOUS
<1>2. /\ N \in Nat /\ R[0] = {RouterKey(r)}
      /\ \A n \in 1..N : R[n] = Near(f, al, R[n - 1])
    BY <1>1, ReachSteps DEF Boxes
<1> DEFINE within(n) == /\ RouterKey(r) \in R[n]
                        /\ R[n] \subseteq Family(f, r) \/ Aliased(al, R[n])
           beyond == {n \in 0..N : ~within(n)}
<1>3. beyond = {}
    <2> SUFFICES ASSUME beyond # {} PROVE FALSE
        OBVIOUS
    <2>1. beyond \subseteq Nat
        BY <1>2
    <2> HIDE DEF beyond
    <2>2. PICK n \in beyond : \A j \in beyond : n <= j
        BY <2>1, LeastNumber
    <2> USE DEF beyond
    <2>3. within(0)
        BY <1>2 DEF Family
    <2> HIDE DEF within
    <2>4. n # 0 /\ n \in 1..N /\ within(n - 1)
        BY <1>2, <2>2, <2>3
    <2> USE DEF within
    <2>5. R[n] = Near(f, al, R[n - 1]) /\ R[n - 1] \subseteq R[n]
        BY <1>2, <2>4 DEF Near
    <2>6. CASE Aliased(al, R[n - 1])
        BY <2>2, <2>4, <2>5, <2>6 DEF Aliased
    <2>7. CASE ~Aliased(al, R[n - 1])
        BY <2>2, <2>4, <2>5, <2>7, NearFamily
    <2> QED
        BY <2>6, <2>7
<1>4. within(N)
    <2> HIDE DEF within
    <2> QED
        BY <1>2, <1>3
<1> QED
    BY <1>1, <1>4 DEF Members

\* A router of the inventory has a box of its own in the tree served.
BoxesApart == \A r \in Stored : Touched(BoxesOf(RouterKey(r))) \/ (Apart(r) /\ Shown(r))

LEMMA InvKeepsBoxes == Inv => BoxesApart
<1> SUFFICES ASSUME BoxesHold, NEW r \in Stored, ~Touched(BoxesOf(RouterKey(r)))
    PROVE  Apart(r) /\ Shown(r)
    BY DEF Inv, BoxesApart
<1>1. PICK B : B = BoxesOf(RouterKey(r))
    OBVIOUS
<1>2. RouterKey(r) \in DOMAIN nodes /\ ~Aliased(aliases, B)
    BY <1>1 DEF Stored, Touched, Aliased
<1>3. RouterKey(r) \in B /\ B \subseteq Family(nodes, r)
    BY <1>1, <1>2, MembersFamily DEF BoxesHold, BoxesOf
<1>4. \A k \in B : OfRouter(k) => k = RouterKey(r)
    BY <1>3 DEF Family, BoxesHold, Boxes, Labelled
<1>5. Apart(r)
    BY <1>1, <1>4, KeysApart DEF Apart
<1>6. B \cap Range(aliases) = {} /\ {k \in B : OfRouter(k)} = {RouterKey(r)}
    BY <1>2, <1>3, <1>4, KeysApart DEF Aliased
<1>7. Canonical(B, aliases) = RouterKey(r)
    <2>1. Canonical(B, aliases) = CHOOSE k \in {RouterKey(r)} : TRUE
        BY <1>6 DEF Canonical
    <2> QED
        BY <2>1
<1>8. nodes[RouterKey(r)].cpe = None
    BY <1>2, KeysApart DEF BoxesHold, Boxes, Labelled
<1> QED
    BY <1>1, <1>5, <1>7, <1>8 DEF Shown

(***************************************************************************)
(* A router of the inventory has a box of its own in the tree served: no    *)
(* other router is folded into it, it is the box shown, and no subscriber   *)
(* takes it; unless the operator has merged one of its boxes by hand        *)
(* (collectors/topology.py:257, reconcile_topology).                       *)
(***************************************************************************)
THEOREM RoutersKeepTheirBox == Spec => []BoxesApart
BY InvHolds, InvKeepsBoxes, PTL

-----------------------------------------------------------------------------
(* What is true of a network, whatever was read of it: P are the networks so *)
(* far, U the routers some discovery did not read.                         *)
KnownIn(P, d) == UNION {AddressesIn(w, d) : w \in P}
MacsIn(P, d)  == UNION {Range(w.device[d].mac) : w \in {v \in P : d \in Devices(v)}}
NamedIn(P, d) == UNION {NamesIn(w, d) : w \in P}
\* The MACs, the name and the loopback a router may be remembered by.
RouterIn(P, r, macs, name, loopback) ==
    /\ macs \subseteq MacsIn(P, r) /\ (MacsKept(P) => macs \in {{}, MacsIn(P, r)})
    /\ name \in NamedIn(P, r) \cup Generic \cup {None}
    /\ loopback \in KnownIn(P, r) \cup {None}
MemoryIn(P, o, lo, la) ==
    /\ \A ip \in DOMAIN o : ip \in KnownIn(P, o[ip])
    /\ \A r \in Names : lo[r] \in KnownIn(P, r) \cup {None}
    /\ \A r \in Names : la[r] # None => RouterIn(P, r, la[r].macs, la[r].name, la[r].loopback)
\* What a discovery starts from is what the routers said, now or before.
Truthful(in, w, P, U) ==
    /\ Input(in)
    /\ \A r \in in.listed : in.read[r] # None => in.read[r] = Reading(w, r)
    /\ \A r \in Names : r \in U \/ (r \in in.listed /\ in.read[r] # None)
    /\ MemoryIn(P, in.own, in.loops, in.last)
\* Addresses are numbers, ports and router-ids come in sequence.
Numbered(w) ==
    /\ \A d \in Devices(w) : \A a \in w.device[d].addrs : a.ip \in Nat
    /\ \A r \in Names : /\ w.device[r].mac \in Seq(Range(w.device[r].mac))
                        /\ w.device[r].rids \in Seq(Range(w.device[r].rids))

-----------------------------------------------------------------------------
(* The hints.                                                              *)
LEMMA RouterKeysFinite == IsFiniteSet(RouterKeys)
<1> DEFINE f == [r \in Names |-> RouterKey(r)]
<1>1. f = [r \in Names |-> f[r]] /\ {f[r] : r \in Names} = RouterKeys
    BY DEF RouterKeys
<1> HIDE DEF f
<1>2. IsFiniteSet({f[r] : r \in Names})
    BY <1>1, NamesFinite, ImageFinite
<1> QED
    BY <1>1, <1>2

\* The claims of the routers S, each of them for the hints f gives.
ClaimsOf(S, f) == UNION {{<<h, RouterKey(r)>> : h \in Given(f[r])} : r \in S}
OwnsFor(S, f, h, o) ==
    \E r \in S : /\ o = RouterKey(r) /\ h \in Given(f[r])
                 /\ \A s \in S : h \in f[s] => s = r

\* The owner of a hint is the one router that claims it.
LEMMA OwnerIsOne ==
    ASSUME NEW S \in SUBSET Names, NEW f, NEW h
    PROVE  /\ Owner(ClaimsOf(S, f), h) # None => OwnsFor(S, f, h, Owner(ClaimsOf(S, f), h))
           /\ \A o : OwnsFor(S, f, h, o) => Owner(ClaimsOf(S, f), h) = o
<1> DEFINE claims == ClaimsOf(S, f)
           owners == {c[2] : c \in {d \in claims : d[1] = h}}
<1>1. owners = {RouterKey(r) : r \in {s \in S : h \in Given(f[s])}}
    <2>1. ASSUME NEW o \in owners PROVE \E r \in S : h \in Given(f[r]) /\ o = RouterKey(r)
        <3>1. PICK c \in claims : c[1] = h /\ o = c[2]
            BY <2>1
        <3>2. PICK r \in S : \E i \in Given(f[r]) : c = <<i, RouterKey(r)>>
            BY <3>1 DEF ClaimsOf
        <3> QED
            BY <3>1, <3>2
    <2>2. ASSUME NEW r \in S, h \in Given(f[r]) PROVE RouterKey(r) \in owners
        <3>1. <<h, RouterKey(r)>> \in claims
            BY <2>2 DEF ClaimsOf
        <3>2. <<h, RouterKey(r)>>[1] = h /\ <<h, RouterKey(r)>>[2] = RouterKey(r)
            OBVIOUS
        <3> HIDE DEF claims
        <3> QED
            BY <3>1, <3>2
    <2> HIDE DEF owners
    <2> QED
        BY <2>1, <2>2
<1>2. IsFiniteSet(owners)
    <2>1. owners \in SUBSET RouterKeys
        BY <1>1 DEF RouterKeys
    <2> HIDE DEF owners
    <2> QED
        BY <2>1, RouterKeysFinite, FS_Subset
<1>3. Owner(claims, h) = IF Cardinality(owners) = 1 THEN CHOOSE o \in owners : TRUE ELSE None
    BY DEF Owner
<1> HIDE DEF owners, claims
<1>4. ASSUME Owner(claims, h) # None PROVE OwnsFor(S, f, h, Owner(claims, h))
    <2>1. PICK o : owners = {o} /\ Owner(claims, h) = o
        <3>1. Cardinality(owners) = 1
            BY <1>3, <1>4
        <3>2. PICK o : owners = {o}
            BY <1>2, <3>1, FS_Singleton
        <3>3. Owner(claims, h) = o
            BY <1>3, <3>1, <3>2
        <3> QED
            BY <3>2, <3>3
    <2>2. PICK r \in S : h \in Given(f[r]) /\ o = RouterKey(r)
        BY <1>1, <2>1
    <2>3. h # None
        BY <2>2 DEF Given
    <2>4. ASSUME NEW s \in S, h \in f[s] PROVE s = r
        <3>1. RouterKey(s) \in owners
            BY <1>1, <2>3, <2>4 DEF Given
        <3> QED
            BY <2>1, <2>2, <3>1, KeysApart
    <2> QED
        BY <2>1, <2>2, <2>4 DEF OwnsFor
<1>5. ASSUME NEW o, OwnsFor(S, f, h, o) PROVE Owner(claims, h) = o
    <2>1. PICK r \in S : o = RouterKey(r) /\ h \in Given(f[r]) /\ \A s \in S : h \in f[s] => s = r
        BY <1>5 DEF OwnsFor
    <2>2. owners = {o}
        <3>1. o \in owners
            BY <1>1, <2>1
        <3>2. \A x \in owners : x = o
            BY <1>1, <2>1 DEF Given
        <3> QED
            BY <3>1, <3>2
    <2>3. Cardinality(owners) = 1
        BY <2>2, FS_Singleton
    <2> QED
        BY <1>3, <2>2, <2>3
<1> QED
    BY <1>4, <1>5 DEF claims

LoopbackHints(in) == [r \in in.listed |-> {LoopbackOf(in, r)}]
AddressesHinted(in) == [r \in in.listed |-> AddressHints(in, r)]
MacsHinted(in) == [r \in in.listed |-> MacHints(in, r)]
NamesHinted(in) == [r \in in.listed |-> NameHints(in, r)]

LEMMA IndexesClaim ==
    ASSUME NEW in, NEW ix, ix = Indexes(in)
    PROVE  /\ ix.loopback = ClaimsOf(in.listed, LoopbackHints(in))
           /\ ix.ip = ClaimsOf(in.listed, AddressesHinted(in))
           /\ ix.mac = ClaimsOf(in.listed, MacsHinted(in))
           /\ ix.name = ClaimsOf(in.listed, NamesHinted(in))
<1>1. ix.loopback = ClaimsOf(in.listed, LoopbackHints(in))
    <2> DEFINE hinted(r) == {LoopbackOf(in, r)}
    <2>1. ix.loopback = UNION {{<<h, RouterKey(r)>> : h \in Given(hinted(r))} : r \in in.listed}
        BY DEF Indexes, Claims
    <2>2. \A r \in in.listed : LoopbackHints(in)[r] = hinted(r)
        BY DEF LoopbackHints
    <2> HIDE DEF hinted
    <2> QED
        BY <2>1, <2>2 DEF ClaimsOf
<1>2. ix.ip = ClaimsOf(in.listed, AddressesHinted(in))
    <2>1. ix.ip = UNION {{<<h, RouterKey(r)>> : h \in Given(AddressHints(in, r))} : r \in in.listed}
        BY DEF Indexes, Claims
    <2>2. \A r \in in.listed : AddressesHinted(in)[r] = AddressHints(in, r)
        BY DEF AddressesHinted
    <2> QED
        BY <2>1, <2>2 DEF ClaimsOf
<1>3. ix.mac = ClaimsOf(in.listed, MacsHinted(in))
    <2>1. ix.mac = UNION {{<<h, RouterKey(r)>> : h \in Given(MacHints(in, r))} : r \in in.listed}
        BY DEF Indexes, Claims
    <2>2. \A r \in in.listed : MacsHinted(in)[r] = MacHints(in, r)
        BY DEF MacsHinted
    <2> QED
        BY <2>1, <2>2 DEF ClaimsOf
<1>4. ix.name = ClaimsOf(in.listed, NamesHinted(in))
    <2>1. ix.name = UNION {{<<h, RouterKey(r)>> : h \in Given(NameHints(in, r))} : r \in in.listed}
        BY DEF Indexes, Claims
    <2>2. \A r \in in.listed : NamesHinted(in)[r] = NameHints(in, r)
        BY DEF NamesHinted
    <2> QED
        BY <2>1, <2>2 DEF ClaimsOf
<1> QED
    BY <1>1, <1>2, <1>3, <1>4

\* A discovery of a network whose devices are told apart.
Ground(in, w, P, U) == Identified(P) /\ w \in P /\ Numbered(w) /\ Truthful(in, w, P, U)

LEMMA LoopbackAmong ==
    ASSUME NEW declared, NEW addrs, NEW rids,
           \A a \in addrs : a.ip \in Nat, rids \in Seq(Range(rids))
    PROVE  Loopback(declared, addrs, rids)
             \in {a.ip : a \in addrs} \cup Range(rids) \cup {declared, None}
<1> DEFINE on(kind) == {a.ip : a \in {b \in addrs : b.kind = kind}}
<1>1. ASSUME NEW kind, on(kind) # {} PROVE First(on(kind)) \in {a.ip : a \in addrs}
    <2>1. on(kind) \subseteq Nat
        OBVIOUS
    <2>2. on(kind) \subseteq {a.ip : a \in addrs}
        OBVIOUS
    <2> HIDE DEF on
    <2>3. \E k \in on(kind) : \A j \in on(kind) : k <= j
        BY <1>1, <2>1, LeastNumber
    <2>4. First(on(kind)) \in on(kind)
        BY <2>3 DEF First
    <2> QED
        BY <2>2, <2>4
<1>2. rids # <<>> => rids[1] \in Range(rids)
    BY DEF Range
<1>3. Loopback(declared, addrs, rids) =
        IF declared # None THEN declared
        ELSE IF on("loopback") # {} THEN First(on("loopback"))
        ELSE IF rids # <<>> THEN rids[1]
        ELSE IF on("commented") # {} THEN First(on("commented"))
        ELSE IF on("host") # {} THEN First(on("host"))
        ELSE None
    BY DEF Loopback
<1> HIDE DEF on
<1> QED
    BY <1>1, <1>2, <1>3

LEMMA ReadHere ==
    ASSUME NEW in, NEW w, NEW P, NEW U, Ground(in, w, P, U),
           NEW r \in in.listed, in.read[r] # None
    PROVE  /\ in.read[r].macs = Range(w.device[r].mac) /\ in.read[r].name = w.device[r].name
           /\ in.read[r].addrs = w.device[r].addrs /\ in.read[r].rids = w.device[r].rids
           /\ in.read[r].sees = Sightings(w, r)
           /\ in.read[r].peers = w.device[r].peers /\ in.read[r].tunnels = w.device[r].tunnels
           /\ r \in Names /\ r \in Devices(w)
<1>1. in.read[r] = Reading(w, r) /\ r \in Names
    BY DEF Ground, Truthful, Input
<1>2. r \in Devices(w)
    BY <1>1 DEF Ground, Identified
<1> QED
    BY <1>1, <1>2 DEF Reading

LEMMA LoopbackTrue ==
    ASSUME NEW in, NEW w, NEW P, NEW U, Ground(in, w, P, U), NEW r \in in.listed
    PROVE  LoopbackOf(in, r) \in KnownIn(P, r) \cup {None}
<1>1. r \in Names /\ w \in P
    BY DEF Ground, Truthful, Input
<1>2. AddressesIn(w, r) \subseteq KnownIn(P, r)
    BY <1>1 DEF KnownIn
<1>3. Declared[r].loopback \in AddressesIn(w, r) \cup {None}
    BY <1>1 DEF AddressesIn, Given
<1>4. CASE in.read[r] # None
    <2>1. PICK addrs, rids : addrs = w.device[r].addrs /\ rids = w.device[r].rids
        OBVIOUS
    <2>2. (\A a \in addrs : a.ip \in Nat) /\ rids \in Seq(Range(rids))
        BY <1>4, <2>1, ReadHere DEF Ground, Numbered
    <2>3. LoopbackOf(in, r) = Loopback(Declared[r].loopback, addrs, rids)
        BY <1>4, <2>1, ReadHere DEF LoopbackOf
    <2>4. LoopbackOf(in, r) \in {a.ip : a \in addrs} \cup Range(rids) \cup {Declared[r].loopback, None}
        BY <2>2, <2>3, LoopbackAmong
    <2>5. {a.ip : a \in addrs} \cup Range(rids) \subseteq AddressesIn(w, r)
        BY <2>1 DEF AddressesIn
    <2> QED
        BY <1>2, <1>3, <2>4, <2>5
<1>5. CASE in.read[r] = None
    <2>1. LoopbackOf(in, r) \in {Declared[r].loopback, Remembered(in, r).loopback}
        BY <1>5 DEF LoopbackOf
    <2>2. Remembered(in, r).loopback \in KnownIn(P, r) \cup {None}
        BY <1>1 DEF Remembered, Ground, Truthful, MemoryIn, RouterIn
    <2> QED
        BY <1>2, <1>3, <2>1, <2>2
<1> QED
    BY <1>4, <1>5

LEMMA AddressHintsTrue ==
    ASSUME NEW in, NEW w, NEW P, NEW U, Ground(in, w, P, U), NEW r \in in.listed
    PROVE  AddressHints(in, r) \subseteq KnownIn(P, r) \cup {None}
<1>1. r \in Names /\ w \in P
    BY DEF Ground, Truthful, Input
<1>2. AddressesIn(w, r) \subseteq KnownIn(P, r)
    BY <1>1 DEF KnownIn
<1>3. {Declared[r].host, Declared[r].loopback} \subseteq AddressesIn(w, r) \cup {None}
    BY <1>1 DEF AddressesIn, Given
<1>4. CASE in.read[r] # None
    <2>1. AddressHints(in, r)
            = {Declared[r].host, Declared[r].loopback} \cup {a.ip : a \in w.device[r].addrs}
        BY <1>4, ReadHere DEF AddressHints
    <2>2. {a.ip : a \in w.device[r].addrs} \subseteq AddressesIn(w, r)
        BY DEF AddressesIn
    <2> QED
        BY <1>2, <1>3, <2>1, <2>2
<1>5. CASE in.read[r] = None
    <2>1. AddressHints(in, r) = {Declared[r].host, Declared[r].loopback} \cup Kept(in, r)
        BY <1>5 DEF AddressHints
    <2>2. Kept(in, r) \subseteq {ip \in DOMAIN in.own : in.own[ip] = r} \cup {in.loops[r]}
        BY DEF Kept
    <2>3. {ip \in DOMAIN in.own : in.own[ip] = r} \cup {in.loops[r]} \subseteq KnownIn(P, r) \cup {None}
        BY <1>1 DEF Ground, Truthful, MemoryIn
    <2> QED
        BY <1>2, <1>3, <2>1, <2>2, <2>3
<1> QED
    BY <1>4, <1>5

LEMMA MacHintsTrue ==
    ASSUME NEW in, NEW w, NEW P, NEW U, Ground(in, w, P, U), NEW r \in in.listed
    PROVE  /\ MacHints(in, r) \subseteq MacsIn(P, r)
           /\ MacsKept(P) => MacHints(in, r) \in {{}, MacsIn(P, r)}
<1>1. r \in Names /\ w \in P
    BY DEF Ground, Truthful, Input
<1>2. CASE in.read[r] # None
    <2>1. MacHints(in, r) = Range(w.device[r].mac) /\ r \in Devices(w)
        BY <1>2, ReadHere DEF MacHints
    <2>2. Range(w.device[r].mac) \subseteq MacsIn(P, r)
        BY <1>1, <2>1 DEF MacsIn
    <2>3. ASSUME MacsKept(P) PROVE MacsIn(P, r) \subseteq Range(w.device[r].mac)
        BY <1>1, <2>3 DEF MacsKept, MacsIn
    <2> QED
        BY <2>1, <2>2, <2>3
<1>3. CASE in.read[r] = None
    <2>1. MacHints(in, r) = Remembered(in, r).macs
        BY <1>3 DEF MacHints
    <2>2. CASE in.last[r] = None
        BY <2>1, <2>2 DEF Remembered
    <2>3. CASE in.last[r] # None
        BY <1>1, <2>1, <2>3 DEF Remembered, Ground, Truthful, MemoryIn, RouterIn
    <2> QED
        BY <2>2, <2>3
<1> QED
    BY <1>2, <1>3

LEMMA NameTrue ==
    ASSUME NEW P, NEW w \in P, NEW r \in Names
    PROVE  /\ w.device[r].name \in NamedIn(P, r) \cup Generic \cup {None}
           /\ {r, Declared[r].pop} \ Generic \subseteq NamedIn(P, r) \cup {None}
<1>1. NamesIn(w, r) \subseteq NamedIn(P, r)
    BY DEF NamedIn
<1>2. w.device[r].name \in NamesIn(w, r) \cup Generic \cup {None}
    BY DEF NamesIn, Given
<1>3. {r, Declared[r].pop} \ Generic \subseteq NamesIn(w, r) \cup {None}
    BY DEF NamesIn, Given
<1> QED
    BY <1>1, <1>2, <1>3

LEMMA NameHintsTrue ==
    ASSUME NEW in, NEW w, NEW P, NEW U, Ground(in, w, P, U), NEW r \in in.listed
    PROVE  NameHints(in, r) \subseteq NamedIn(P, r) \cup Generic \cup {None}
<1>1. r \in Names /\ w \in P
    BY DEF Ground, Truthful, Input
<1>2. /\ w.device[r].name \in NamedIn(P, r) \cup Generic \cup {None}
      /\ {r, Declared[r].pop} \ Generic \subseteq NamedIn(P, r) \cup {None}
    BY <1>1, NameTrue
<1>3. CASE in.read[r] # None
    BY <1>2, <1>3, ReadHere DEF NameHints
<1>4. CASE in.read[r] = None
    <2>1. NameHints(in, r) = ({r, Declared[r].pop} \ Generic) \cup {Remembered(in, r).name}
        BY <1>4 DEF NameHints
    <2>2. Remembered(in, r).name \in NamedIn(P, r) \cup Generic \cup {None}
        BY <1>1 DEF Remembered, Ground, Truthful, MemoryIn, RouterIn
    <2> QED
        BY <1>2, <2>1, <2>2
<1> QED
    BY <1>3, <1>4

-----------------------------------------------------------------------------
(* What a router sees is a device it has a segment with.                    *)
Adjacent(w, a, d) == \E t \in w.segments : {a, d} \subseteq {e.of : e \in t}
SeenIs(w, s, d) ==
    /\ d \in Devices(w) /\ Adjacent(w, s.by, d)
    /\ s.mac \in Range(w.device[d].mac) /\ s.name = w.device[d].name
    /\ s.addrs \subseteq {a.ip : a \in w.device[d].addrs}

LEMMA SeenDevice ==
    ASSUME NEW in, NEW w, NEW P, NEW U, Ground(in, w, P, U), NEW s \in Seen(in)
    PROVE  /\ s.by \in in.listed /\ in.read[s.by] # None
           /\ s.port \in DOMAIN w.device[s.by].mac
           /\ \E d : SeenIs(w, s, d)
<1>1. PICK r \in in.listed : in.read[r] # None /\ s \in in.read[r].sees
    BY DEF Seen
<1>2. s \in Sightings(w, r) /\ s.by = r /\ r \in Names
    BY <1>1, ReadHere DEF Ground, Truthful, Input
<1>3. PICK p \in DOMAIN w.device[r].mac : \E end \in Others(w, r, p) : s = Sighting(w, r, p, end)
    BY <1>2 DEF Sightings
<1>4. PICK end \in Others(w, r, p) : s = Sighting(w, r, p, end)
    BY <1>3
<1>5. PICK t \in w.segments : end \in t /\ [of |-> r, port |-> p] \in t
    BY <1>4 DEF Others, Segment
<1>6. PICK d : d = end.of /\ d \in Devices(w) /\ end.port \in DOMAIN w.device[d].mac
    BY <1>5 DEF Ground, Identified
<1>7. /\ s.port = p /\ s.mac = w.device[d].mac[end.port] /\ s.name = w.device[d].name
      /\ s.addrs = Announced(w.device[d], end.port)
    BY <1>4, <1>6 DEF Sighting
<1>9. SeenIs(w, s, d)
    <2>1. {s.by, d} \subseteq {e.of : e \in t}
        <3>1. [of |-> r, port |-> p].of = r
            OBVIOUS
        <3> QED
            BY <1>2, <1>5, <1>6, <3>1
    <2>2. s.addrs \subseteq {a.ip : a \in w.device[d].addrs}
        BY <1>7 DEF Announced
    <2>3. s.mac \in Range(w.device[d].mac)
        BY <1>6, <1>7 DEF Range
    <2> QED
        BY <1>5, <1>6, <1>7, <2>1, <2>2, <2>3 DEF SeenIs, Adjacent
<1> QED
    BY <1>1, <1>2, <1>3, <1>7, <1>9

LEMMA SeenFinite ==
    ASSUME NEW in, Input(in)
    PROVE  IsFiniteSet(Seen(in))
<1> DEFINE heard == {r \in in.listed : in.read[r] # None}
           f == [r \in heard |-> in.read[r].sees]
<1>1. IsFiniteSet(heard)
    BY NamesFinite, FS_Subset DEF Input
<1>2. Seen(in) = UNION {f[r] : r \in heard} /\ \A r \in heard : IsFiniteSet(f[r])
    BY DEF Seen, Input
<1>3. f = [r \in heard |-> f[r]]
    OBVIOUS
<1> HIDE DEF f, heard
<1>4. IsFiniteSet({f[r] : r \in heard})
    BY <1>1, <1>3, ImageFinite
<1>5. \A T \in {f[r] : r \in heard} : IsFiniteSet(T)
    BY <1>2
<1> QED
    BY <1>2, <1>4, <1>5, FS_UNION

\* The proper names announced with one MAC.
NamesSaid(seen, m) == {s.name : s \in {t \in seen : t.mac = m}} \ (Generic \cup {None})

LEMMA SaidFinite ==
    ASSUME NEW seen, IsFiniteSet(seen), NEW m
    PROVE  IsFiniteSet(NamesSaid(seen, m))
<1> DEFINE f == [s \in seen |-> s.name]
<1>1. f = [s \in seen |-> f[s]] /\ NamesSaid(seen, m) \in SUBSET {f[s] : s \in seen}
    BY DEF NamesSaid
<1> HIDE DEF f
<1>2. IsFiniteSet({f[s] : s \in seen})
    BY <1>1, ImageFinite
<1> QED
    BY <1>1, <1>2, FS_Subset

\* A MAC is ambiguous when two of its names differ.
LEMMA AmbiguousMeans ==
    ASSUME NEW seen, IsFiniteSet(seen), NEW m
    PROVE  m \in AmbiguousMacs(seen) <=> \E a, b \in NamesSaid(seen, m) : a # b
<1>1. PICK N : N = NamesSaid(seen, m)
    OBVIOUS
<1>2. IsFiniteSet(N) /\ Cardinality(N) \in Nat
    BY <1>1, SaidFinite, FS_CardinalityType
<1>3. m \in AmbiguousMacs(seen) <=> m \in {s.mac : s \in seen} /\ Cardinality(N) > 1
    BY <1>1 DEF AmbiguousMacs, NamesSaid
<1>4. N # {} => m \in {s.mac : s \in seen}
    BY <1>1 DEF NamesSaid
<1>5. Cardinality(N) = 0 <=> N = {}
    BY <1>2, FS_EmptySet
<1>6. Cardinality(N) = 1 <=> \E x : N = {x}
    BY <1>2, FS_Singleton
<1>7. (\E a, b \in N : a # b) <=> N # {} /\ ~(\E x : N = {x})
    <2>1. ASSUME N # {}, ~(\E x : N = {x}) PROVE \E a, b \in N : a # b
        <3>1. PICK a : a \in N
            BY <2>1
        <3>2. N # {a}
            BY <2>1
        <3> QED
            BY <3>1, <3>2
    <2>2. ASSUME NEW a \in N, NEW b \in N, a # b PROVE N # {} /\ ~(\E x : N = {x})
        BY <2>2
    <2> QED
        BY <2>1, <2>2
<1> QED
    BY <1>1, <1>2, <1>3, <1>4, <1>5, <1>6, <1>7

Proper(name) == name \notin Generic \cup {None}

LEMMA KeyIs ==
    ASSUME NEW in, NEW w, NEW P, NEW U, Ground(in, w, P, U), NEW s \in Seen(in),
           NEW ambiguous
    PROVE  \/ /\ NodeKey(s, ambiguous) = MacKey(s.mac) /\ s.mac # None
              /\ ~(s.mac \in ambiguous /\ Proper(s.name))
           \/ /\ NodeKey(s, ambiguous) = <<"identity", s.name>>
              /\ s.mac \in ambiguous /\ Proper(s.name)
<1>1. PICK d : SeenIs(w, s, d)
    BY SeenDevice
<1>2. s.mac # None
    BY <1>1 DEF SeenIs, Ground, Identified
<1>3. CASE s.mac \in ambiguous /\ Proper(s.name)
    <2>1. s.name # None /\ s.name \notin Generic
        BY <1>3 DEF Proper
    <2> QED
        BY <1>3, <2>1 DEF NodeKey, Proper
<1>4. CASE ~(s.mac \in ambiguous /\ Proper(s.name))
    BY <1>2, <1>4 DEF NodeKey, Proper
<1> QED
    BY <1>3, <1>4

\* Two devices that say one proper name are one.
LEMMA SameName ==
    ASSUME NEW P, Identified(P), NEW v \in P, NEW w \in P, NEW d \in Devices(v), NEW e \in Devices(w),
           v.device[d].name = w.device[e].name, Proper(w.device[e].name)
    PROVE  d = e
<1>1. v.device[d].name \in NamesIn(v, d)
    BY DEF NamesIn, Given, Proper
<1> QED
    BY <1>1 DEF Identified

LEMMA SharedMac ==
    ASSUME NEW P, Identified(P), NEW w \in P, NEW d \in Devices(w), NEW e \in Devices(w), d # e,
           NEW m, m \in Range(w.device[d].mac), m \in Range(w.device[e].mac)
    PROVE  Proper(w.device[d].name) /\ Proper(w.device[e].name)
<1>1. Range(w.device[d].mac) \cap Range(w.device[e].mac) # {}
    OBVIOUS
<1> QED
    BY <1>1 DEF Identified, Apparent, Proper

\* What is seen under one key is one device.
LEMMA OneDevice ==
    ASSUME NEW in, NEW w, NEW P, NEW U, Ground(in, w, P, U), NEW s \in Seen(in), NEW t \in Seen(in),
           NodeKey(s, AmbiguousMacs(Seen(in))) = NodeKey(t, AmbiguousMacs(Seen(in))),
           NEW d, SeenIs(w, s, d), NEW e, SeenIs(w, t, e)
    PROVE  d = e
<1> SUFFICES ASSUME d # e PROVE FALSE
    OBVIOUS
<1>1. PICK ambiguous : ambiguous = AmbiguousMacs(Seen(in))
    OBVIOUS
<1>2. /\ \/ /\ NodeKey(s, ambiguous) = MacKey(s.mac)
            /\ ~(s.mac \in ambiguous /\ Proper(s.name))
         \/ NodeKey(s, ambiguous) = <<"identity", s.name>> /\ Proper(s.name)
      /\ \/ NodeKey(t, ambiguous) = MacKey(t.mac)
         \/ NodeKey(t, ambiguous) = <<"identity", t.name>> /\ Proper(t.name)
    BY KeyIs
<1>3. NodeKey(s, ambiguous) = NodeKey(t, ambiguous)
    BY <1>1
<1>4. \/ s.mac = t.mac /\ ~(s.mac \in ambiguous /\ Proper(s.name))
      \/ s.name = t.name /\ Proper(s.name)
    BY <1>2, <1>3 DEF MacKey
<1>5. w \in P /\ Identified(P) /\ d \in Devices(w) /\ e \in Devices(w)
    BY DEF Ground, SeenIs
<1>6. ~(s.name = t.name /\ Proper(s.name))
    BY <1>5, SameName DEF SeenIs
<1>7. s.mac = t.mac /\ ~(s.mac \in ambiguous /\ Proper(s.name))
    BY <1>4, <1>6
<1>8. Proper(s.name) /\ Proper(t.name)
    BY <1>5, <1>7, SharedMac DEF SeenIs
<1>9. s.name \in NamesSaid(Seen(in), s.mac) /\ t.name \in NamesSaid(Seen(in), s.mac)
    BY <1>7, <1>8 DEF NamesSaid, Proper
<1>10. IsFiniteSet(Seen(in))
    BY SeenFinite DEF Ground, Truthful
<1>11. s.mac \in ambiguous
    BY <1>1, <1>6, <1>8, <1>9, <1>10, AmbiguousMeans
<1> QED
    BY <1>7, <1>8, <1>11

\* A neighbour known by its name shares its MAC with another.
LEMMA NamedIsCloned ==
    ASSUME NEW in, NEW w, NEW P, NEW U, Ground(in, w, P, U), NEW s \in Seen(in),
           s.mac \in AmbiguousMacs(Seen(in)), NEW d, SeenIs(w, s, d)
    PROVE  \E e \in Devices(w) \ {d} : s.mac \in Range(w.device[e].mac)
<1>1. IsFiniteSet(Seen(in))
    BY SeenFinite DEF Ground, Truthful
<1>2. PICK a, b \in NamesSaid(Seen(in), s.mac) : a # b
    BY <1>1, AmbiguousMeans
<1>3. PICK n \in NamesSaid(Seen(in), s.mac) : n # s.name
    BY <1>2
<1>4. PICK t \in Seen(in) : t.mac = s.mac /\ t.name = n
    BY <1>3 DEF NamesSaid
<1>5. PICK e : SeenIs(w, t, e)
    BY SeenDevice
<1> QED
    BY <1>3, <1>4, <1>5 DEF SeenIs

LEMMA GreatestNumber ==
    ASSUME NEW N \in Nat, NEW S, S \subseteq 0..N, S # {}
    PROVE  \E k \in S : \A j \in S : j <= k
<1> DEFINE T == {N - x : x \in S}
<1>1. T \subseteq Nat /\ T # {}
    <2>1. \A x \in S : N - x \in Nat
        OBVIOUS
    <2>2. PICK x : x \in S
        OBVIOUS
    <2> QED
        BY <2>1, <2>2
<1> HIDE DEF T
<1>2. PICK m \in T : \A j \in T : m <= j
    BY <1>1, LeastNumber
<1> USE DEF T
<1>3. PICK k \in S : m = N - k
    BY <1>2
<1>4. \A j \in S : N - j \in T
    OBVIOUS
<1>5. \A j \in S : N - k <= N - j
    BY <1>2, <1>3, <1>4
<1> QED
    BY <1>5

\* Of several sightings one comes first and one comes last.
LEMMA FirstAndLast ==
    ASSUME NEW in, NEW w, NEW P, NEW U, Ground(in, w, P, U), NEW A \in SUBSET Seen(in), A # {}
    PROVE  /\ \E s \in A : \A t \in A : Before(s, t)
           /\ \E s \in A : \A t \in A : Before(t, s)
<1>1. \A s \in A : s.by \in Names /\ s.port \in DOMAIN w.device[s.by].mac
    BY SeenDevice DEF Ground, Truthful, Input
<1>2. PICK N \in Nat : \A r \in Names : Rank(r) \in 0..N
    <2>1. PICK N : N = Len(Routers) /\ N \in Nat /\ DOMAIN Routers = 1..N
        BY RoutersAssumption
    <2>2. \A r \in Names : Rank(r) \in DOMAIN Routers
        BY DEF Names, Range, Rank
    <2> QED
        BY <2>1, <2>2
<1>3. \A r \in Names : \E M \in Nat : DOMAIN w.device[r].mac = 1..M
    <2> TAKE r \in Names
    <2>1. PICK macs : macs = w.device[r].mac /\ macs \in Seq(Range(macs))
        BY DEF Ground, Numbered
    <2>2. DOMAIN macs = 1..Len(macs) /\ Len(macs) \in Nat
        BY <2>1
    <2> QED
        BY <2>1, <2>2
<1> DEFINE ranks == {Rank(s.by) : s \in A}
           ports(r) == {s.port : s \in {t \in A : t.by = r}}
<1>4. ranks \subseteq 0..N /\ ranks # {} /\ ranks \subseteq Nat
    BY <1>1, <1>2
<1>5. \A r \in Names : \E M \in Nat : ports(r) \subseteq 0..M
    <2> TAKE r \in Names
    <2>1. PICK M \in Nat : DOMAIN w.device[r].mac = 1..M
        BY <1>3
    <2>2. ports(r) \subseteq 0..M
        BY <1>1, <2>1
    <2> QED
        BY <2>2
<1>6. \A r \in Names : ports(r) \subseteq Nat
    BY <1>5
<1>7. \E s \in A : \A t \in A : Before(s, t)
    <2> HIDE DEF ranks
    <2>1. PICK least \in ranks : \A j \in ranks : least <= j
        BY <1>4, LeastNumber
    <2> USE DEF ranks
    <2>2. PICK u \in A : least = Rank(u.by)
        BY <2>1
    <2>3. u.by \in Names /\ u.port \in ports(u.by)
        BY <1>1
    <2>4. PICK port \in ports(u.by) : \A j \in ports(u.by) : port <= j
        <3> HIDE DEF ports
        <3> QED
            BY <1>6, <2>3, LeastNumber
    <2>5. PICK s \in A : s.by = u.by /\ s.port = port
        BY <2>4
    <2>6. ASSUME NEW t \in A PROVE Before(s, t)
        <3>1. Rank(s.by) <= Rank(t.by) /\ Rank(s.by) \in Nat /\ Rank(t.by) \in Nat
            BY <1>1, <1>4, <2>1, <2>2, <2>5, RankOrders
        <3>2. CASE Rank(s.by) < Rank(t.by)
            BY <3>2 DEF Before
        <3>3. CASE Rank(s.by) = Rank(t.by)
            <4>1. s.by = t.by
                BY <1>1, <3>3, RankOrders
            <4>2. t.port \in ports(u.by)
                BY <2>5, <4>1
            <4> HIDE DEF ports
            <4> QED
                BY <2>4, <2>5, <4>1, <4>2 DEF Before
        <3> QED
            BY <3>1, <3>2, <3>3
    <2> QED
        BY <2>6
<1>8. \E s \in A : \A t \in A : Before(t, s)
    <2> HIDE DEF ranks
    <2>1. PICK most \in ranks : \A j \in ranks : j <= most
        BY <1>4, GreatestNumber
    <2> USE DEF ranks
    <2>2. PICK u \in A : most = Rank(u.by)
        BY <2>1
    <2>3. u.by \in Names /\ u.port \in ports(u.by)
        BY <1>1
    <2>4. PICK port \in ports(u.by) : \A j \in ports(u.by) : j <= port
        <3> HIDE DEF ports
        <3>1. PICK M \in Nat : ports(u.by) \subseteq 0..M
            BY <1>5, <2>3
        <3> QED
            BY <2>3, <3>1, GreatestNumber
    <2>5. PICK s \in A : s.by = u.by /\ s.port = port
        BY <2>4
    <2>6. ASSUME NEW t \in A PROVE Before(t, s)
        <3>1. Rank(t.by) <= Rank(s.by) /\ Rank(s.by) \in Nat /\ Rank(t.by) \in Nat
            BY <1>1, <1>4, <2>1, <2>2, <2>5, RankOrders
        <3>2. CASE Rank(t.by) < Rank(s.by)
            BY <3>2 DEF Before
        <3>3. CASE Rank(s.by) = Rank(t.by)
            <4>1. s.by = t.by
                BY <1>1, <3>3, RankOrders
            <4>2. t.port \in ports(u.by)
                BY <2>5, <4>1
            <4> HIDE DEF ports
            <4> QED
                BY <2>4, <2>5, <4>1, <4>2 DEF Before
        <3> QED
            BY <3>1, <3>2, <3>3
    <2> QED
        BY <2>6
<1> QED
    BY <1>7, <1>8

-----------------------------------------------------------------------------
(* The boxes first laid: each neighbour's is of one device.                 *)
Shares(w, d, e) == Range(w.device[d].mac) \cap Range(w.device[e].mac) # {}
NodeIs(w, k, n, d) ==
    /\ d \in Devices(w) /\ n.macs \subseteq Range(w.device[d].mac) /\ n.name = w.device[d].name
    /\ n.addrs \subseteq {a.ip : a \in w.device[d].addrs}
    /\ \/ k[1] = "mac" /\ n.macs = {k[2]}
       \/ /\ k[1] = "identity" /\ k[2] = n.name /\ Proper(n.name)
          /\ \E e \in Devices(w) \ {d} : Shares(w, d, e)

\* Of the addresses announced at once one comes first.
LEMMA FirstAnnounced ==
    ASSUME NEW in, NEW w, NEW P, NEW U, Ground(in, w, P, U), NEW d, NEW s, SeenIs(w, s, d),
           s.addrs # {}
    PROVE  First(s.addrs) \in s.addrs
<1>1. s.addrs \subseteq Nat
    BY DEF SeenIs, Ground, Numbered, Devices
<1>2. \E a \in s.addrs : \A b \in s.addrs : a <= b
    BY <1>1, LeastNumber
<1> QED
    BY <1>2 DEF First

LEMMA NeighborIs ==
    ASSUME NEW in, NEW w, NEW P, NEW U, Ground(in, w, P, U), NEW A \in SUBSET Seen(in), NEW s \in A,
           NEW k, \A t \in A : k = NodeKey(t, AmbiguousMacs(Seen(in))), NEW d, SeenIs(w, s, d)
    PROVE  NodeIs(w, k, NeighborBox(A), d)
<1> DEFINE wired == {t \in A : t.mac # None}
           told == {t \in A : t.addrs # {}}
<1>1. PICK n, kind, macs, addrs :
          /\ n = NeighborBox(A) /\ n = Box(Earliest(A).name, kind, macs, addrs)
          /\ macs = IF wired = {} THEN {} ELSE {Earliest(wired).mac}
          /\ addrs = IF told = {} THEN {} ELSE {First(Earliest(told).addrs)} \cup Latest(told).addrs
    BY DEF NeighborBox
<1>2. n.name = Earliest(A).name /\ n.macs = macs /\ n.addrs = addrs
    BY <1>1 DEF Box
<1>3. ASSUME NEW t \in A PROVE SeenIs(w, t, d)
    <2>1. PICK e : SeenIs(w, t, e)
        BY SeenDevice
    <2>2. NodeKey(s, AmbiguousMacs(Seen(in))) = NodeKey(t, AmbiguousMacs(Seen(in)))
        OBVIOUS
    <2>3. d = e
        BY <2>1, <2>2, OneDevice
    <2> QED
        BY <2>1, <2>3
<1>4. ASSUME NEW B \in SUBSET A, B # {} PROVE Earliest(B) \in B /\ Latest(B) \in B
    <2>1. B \in SUBSET Seen(in)
        OBVIOUS
    <2>2. /\ \E t \in B : \A u \in B : Before(t, u)
          /\ \E t \in B : \A u \in B : Before(u, t)
        BY <1>4, <2>1, FirstAndLast
    <2> QED
        BY <2>2 DEF Earliest, Latest
<1>5. wired \in SUBSET A /\ told \in SUBSET A /\ A \in SUBSET A
    OBVIOUS
<1>6. n.name = w.device[d].name
    BY <1>2, <1>3, <1>4, <1>5 DEF SeenIs
<1>7. n.macs \subseteq Range(w.device[d].mac)
    <2>1. wired # {} => Earliest(wired) \in A
        BY <1>4, <1>5
    <2>2. wired # {} => Earliest(wired).mac \in Range(w.device[d].mac)
        BY <1>3, <2>1 DEF SeenIs
    <2> HIDE DEF wired
    <2> QED
        BY <1>1, <1>2, <2>2
<1>8. n.addrs \subseteq {a.ip : a \in w.device[d].addrs}
    <2>1. CASE told = {}
        BY <1>1, <1>2, <2>1
    <2>2. CASE told # {}
        <3>1. Earliest(told) \in told /\ Latest(told) \in told
            BY <1>4, <1>5, <2>2
        <3>2. SeenIs(w, Earliest(told), d) /\ SeenIs(w, Latest(told), d)
            BY <1>3, <3>1
        <3>3. First(Earliest(told).addrs) \in Earliest(told).addrs
            BY <3>1, <3>2, FirstAnnounced
        <3> QED
            BY <1>1, <1>2, <2>2, <3>2, <3>3 DEF SeenIs
    <2> QED
        BY <2>1, <2>2
<1>9. PICK ambiguous : ambiguous = AmbiguousMacs(Seen(in))
    OBVIOUS
<1>10. \A t \in A : \/ k = MacKey(t.mac) /\ t.mac # None
                    \/ k = <<"identity", t.name>> /\ t.mac \in ambiguous /\ Proper(t.name)
    <2> TAKE t \in A
    <2>1. t \in Seen(in) /\ k = NodeKey(t, ambiguous)
        BY <1>9
    <2> QED
        BY <2>1, KeyIs
<1>11. CASE k = MacKey(s.mac) /\ s.mac # None
    <2>1. \A t \in A : k = MacKey(t.mac) /\ t.mac # None
        BY <1>10, <1>11 DEF MacKey
    <2>2. s \in wired /\ Earliest(wired) \in wired
        BY <1>4, <1>5, <1>11
    <2>3. k[2] = Earliest(wired).mac /\ k[1] = "mac"
        BY <2>1, <2>2 DEF MacKey
    <2>4. n.macs = {Earliest(wired).mac}
        <3> HIDE DEF wired
        <3> QED
            BY <1>1, <1>2, <2>2
    <2> QED
        BY <1>1, <1>6, <1>7, <1>8, <2>3, <2>4 DEF NodeIs, SeenIs
<1>12. CASE k = <<"identity", s.name>> /\ s.mac \in ambiguous /\ Proper(s.name)
    <2>1. PICK f \in Devices(w) \ {d} : s.mac \in Range(w.device[f].mac)
        BY <1>9, <1>12, NamedIsCloned
    <2>2. Shares(w, d, f)
        BY <2>1 DEF Shares, SeenIs
    <2> QED
        BY <1>1, <1>6, <1>7, <1>8, <1>12, <2>2 DEF NodeIs, SeenIs
<1> QED
    BY <1>10, <1>11, <1>12

\* A link first laid: from a router that was read to a device it has a segment with.
LaidTo(in, w, nodesOf, l) ==
    /\ l.by \in in.listed /\ in.read[l.by] # None /\ l.src = RouterKey(l.by)
    /\ l.dst \in DOMAIN nodesOf /\ ~OfRouter(l.dst)
    /\ \E d : NodeIs(w, l.dst, nodesOf[l.dst], d) /\ Adjacent(w, l.by, d)

LEMMA LaidTrue ==
    ASSUME NEW in, NEW w, NEW P, NEW U, Ground(in, w, P, U), NEW g, g = Laid(in)
    PROVE  /\ \A k \in DOMAIN g.nodes :
                 \/ /\ OfRouter(k) /\ k[2] \in in.listed /\ k = RouterKey(k[2])
                    /\ g.nodes[k] = RouterBox(in, k[2])
                 \/ ~OfRouter(k) /\ \E d : NodeIs(w, k, g.nodes[k], d)
           /\ \A l \in g.links : LaidTo(in, w, g.nodes, l)
<1> DEFINE seen == Seen(in)
           ambiguous == AmbiguousMacs(seen)
           key(s) == NodeKey(s, ambiguous)
           of(k) == {s \in seen : key(s) = k}
           keys == {key(s) : s \in seen} \ {None}
           all == keys \cup {RouterKey(r) : r \in in.listed}
<1>1. g = [nodes |-> [k \in all |-> IF OfRouter(k) THEN RouterBox(in, k[2])
                                    ELSE NeighborBox(of(k))],
           links |-> {Link(RouterKey(s.by), s.port, key(s), "ethernet", s.by)
                        : s \in {t \in seen : key(t) # None}}]
    BY DEF Laid
<1>3. ASSUME NEW k \in keys, NEW s \in of(k), NEW d, SeenIs(w, s, d)
      PROVE  NodeIs(w, k, NeighborBox(of(k)), d)
    <2>1. of(k) \in SUBSET Seen(in) /\ \A t \in of(k) : k = NodeKey(t, AmbiguousMacs(Seen(in)))
        OBVIOUS
    <2> HIDE DEF of
    <2> QED
        BY <1>3, <2>1, NeighborIs
<1>4. \A k \in keys : ~OfRouter(k)
    BY NeighbourKey, KeysApart
<1>5. ASSUME NEW k \in keys
      PROVE  /\ k \in DOMAIN g.nodes /\ g.nodes[k] = NeighborBox(of(k))
    BY <1>1, <1>4
<1>6. ASSUME NEW l \in g.links PROVE LaidTo(in, w, g.nodes, l)
    <2>1. PICK s \in seen : key(s) # None /\ l = Link(RouterKey(s.by), s.port, key(s), "ethernet", s.by)
        <3> HIDE DEF key, seen, all
        <3> QED
            BY <1>1, <1>6
    <2>2. l.src = RouterKey(s.by) /\ l.dst = key(s) /\ l.by = s.by
        BY <2>1, LinkShape
    <2>3. s.by \in in.listed /\ in.read[s.by] # None /\ \E d : SeenIs(w, s, d)
        BY <2>1, SeenDevice
    <2>4. PICK d : SeenIs(w, s, d)
        BY <2>3
    <2>5. key(s) \in keys /\ s \in of(key(s))
        BY <2>1
    <2>6. NodeIs(w, key(s), NeighborBox(of(key(s))), d)
        BY <1>3, <2>4, <2>5
    <2>7. Adjacent(w, s.by, d)
        BY <2>4 DEF SeenIs
    <2> HIDE DEF key, keys, of
    <2> QED
        BY <1>4, <1>5, <2>2, <2>3, <2>5, <2>6, <2>7 DEF LaidTo
<1>7. ASSUME NEW k \in DOMAIN g.nodes
      PROVE  \/ /\ OfRouter(k) /\ k[2] \in in.listed /\ k = RouterKey(k[2])
                /\ g.nodes[k] = RouterBox(in, k[2])
             \/ ~OfRouter(k) /\ \E d : NodeIs(w, k, g.nodes[k], d)
    <2>1. DOMAIN g.nodes = all
        BY <1>1
    <2>2. CASE k \in keys
        <3>1. PICK s \in seen : k = key(s)
            BY <2>2
        <3>2. s \in of(k)
            BY <3>1
        <3>3. PICK d : SeenIs(w, s, d)
            BY <3>1, SeenDevice
        <3> HIDE DEF keys, of
        <3> QED
            BY <1>3, <1>4, <1>5, <2>2, <3>2, <3>3
    <2>3. CASE k \notin keys
        <3>1. PICK r \in in.listed : k = RouterKey(r)
            BY <2>1, <2>3
        <3>2. OfRouter(k) /\ k[2] = r
            BY <3>1 DEF OfRouter, RouterKey
        <3>3. g.nodes[k] = RouterBox(in, k[2])
            <4>1. g.nodes = [j \in all |-> IF OfRouter(j) THEN RouterBox(in, j[2])
                                           ELSE NeighborBox(of(j))]
                BY <1>1
            <4> HIDE DEF all
            <4> QED
                BY <2>1, <3>2, <4>1
        <3> QED
            BY <3>1, <3>2, <3>3
    <2> QED
        BY <2>2, <2>3
<1> QED
    BY <1>6, <1>7

-----------------------------------------------------------------------------
(* What is true of the links and of the boxes of a graph.                   *)
WiredIn(P, a, b) ==
    \E w \in P : \/ Adjacent(w, a, b)
                 \/ \E t \in w.device[a].tunnels : t.remote \in KnownIn(P, b)
                 \/ w.device[a].peers \cap KnownIn(P, b) # {}
OneSubnetIn(P, a, b) ==
    \E w \in P : \E x \in w.device[a].addrs, y \in w.device[b].addrs : x.net # None /\ x.net = y.net
PassesIn(P, U, x, a) == (x \notin Names \/ x \in U) /\ MacsIn(P, x) \cap MacsIn(P, a) # {}
LookalikeIn(P, U, a, b) ==
    \E w \in P, x \in (UNION {Devices(v) : v \in P}) \ {a, b} :
        \/ Adjacent(w, a, x) /\ PassesIn(P, U, x, b)
        \/ Adjacent(w, b, x) /\ PassesIn(P, U, x, a)
CabledIn(P, U, a, b) == WiredIn(P, a, b) \/ OneSubnetIn(P, a, b) \/ LookalikeIn(P, U, a, b)
CableIn(P, U, l) == l.by # "manual" /\ Across(l) => CabledIn(P, U, l.src[2], l.dst[2])

\* A name that is the key of a box: of a device not read, or of none of the
\* inventory, whose MAC is not its own.
ConfusedIn(P, U, name) ==
    \E v \in P : \E d \in Devices(v) :
        /\ v.device[d].name = name /\ (d \notin Names \/ d \in U)
        /\ \E e \in Devices(v) \ {d} : Shares(v, d, e)
BoxIn(P, U, k, n) ==
    /\ OfRouter(k) => RouterIn(P, k[2], n.macs, n.ident, n.loopback)
    /\ k[1] = "mac" => n.macs = {k[2]}
    /\ k[1] = "identity" => ConfusedIn(P, U, k[2])
    /\ k[1] # "address"
GraphIn(P, U, g) ==
    /\ \A k \in DOMAIN g.nodes : BoxIn(P, U, k, g.nodes[k])
    /\ \A l \in g.links : CableIn(P, U, l)

-----------------------------------------------------------------------------
(* Which router a hint, and so a neighbour, is taken for.                   *)
LEMMA SameAddress ==
    ASSUME NEW P, Identified(P), NEW w \in P, NEW d \in Devices(w), NEW b \in Names,
           NEW a \in KnownIn(P, b), a \in AddressesIn(w, d)
    PROVE  d = b
<1>1. PICK v \in P : a \in AddressesIn(v, b)
    BY DEF KnownIn
<1>2. b \in Devices(v)
    BY DEF Identified
<1>3. b # d => AddressesIn(v, b) \cap AddressesIn(w, d) = {}
    BY <1>2 DEF Identified
<1> QED
    BY <1>1, <1>3

LEMMA KnownName ==
    ASSUME NEW P, Identified(P), NEW w \in P, NEW d \in Devices(w), NEW b \in Names,
           w.device[d].name \in NamedIn(P, b)
    PROVE  d = b
<1>1. PICK v \in P : w.device[d].name \in NamesIn(v, b)
    BY DEF NamedIn
<1>2. b \in Devices(v)
    BY DEF Identified
<1> QED
    BY <1>1, <1>2 DEF Identified

\* The owners of the indexes, for the truth of what was read.
LEMMA OwnersTrue ==
    ASSUME NEW in, NEW w, NEW P, NEW U, Ground(in, w, P, U), NEW ix, ix = Indexes(in), NEW h
    PROVE  /\ Owner(ix.loopback, h) # None =>
                 \E r \in in.listed : Owner(ix.loopback, h) = RouterKey(r) /\ h \in KnownIn(P, r)
           /\ Owner(ix.ip, h) # None =>
                 \E r \in in.listed : Owner(ix.ip, h) = RouterKey(r) /\ h \in KnownIn(P, r)
           /\ Owner(ix.mac, h) # None =>
                 \E r \in in.listed : /\ Owner(ix.mac, h) = RouterKey(r) /\ h \in MacsIn(P, r)
                                      /\ \A s \in in.listed : h \in MacHints(in, s) => s = r
           /\ Owner(ix.name, h) # None =>
                 \E r \in in.listed : /\ Owner(ix.name, h) = RouterKey(r)
                                      /\ h \in NamedIn(P, r) \cup Generic
           /\ \A r \in in.listed :
                 /\ h \in Given(NameHints(in, r))
                 /\ \A s \in in.listed : h \in NameHints(in, s) => s = r
                 => Owner(ix.name, h) = RouterKey(r)
<1>1. in.listed \in SUBSET Names
    BY DEF Ground, Truthful, Input
<1>2. Owner(ix.loopback, h) # None =>
        \E r \in in.listed : Owner(ix.loopback, h) = RouterKey(r) /\ h \in KnownIn(P, r)
    <2> HAVE Owner(ix.loopback, h) # None
    <2>1. OwnsFor(in.listed, LoopbackHints(in), h, Owner(ix.loopback, h))
        BY <1>1, IndexesClaim, OwnerIsOne
    <2>2. PICK r \in in.listed : Owner(ix.loopback, h) = RouterKey(r) /\ h \in Given(LoopbackHints(in)[r])
        BY <2>1 DEF OwnsFor
    <2>3. h = LoopbackOf(in, r) /\ h # None
        BY <2>2 DEF LoopbackHints, Given
    <2> QED
        BY <2>2, <2>3, LoopbackTrue
<1>3. Owner(ix.ip, h) # None =>
        \E r \in in.listed : Owner(ix.ip, h) = RouterKey(r) /\ h \in KnownIn(P, r)
    <2> HAVE Owner(ix.ip, h) # None
    <2>1. OwnsFor(in.listed, AddressesHinted(in), h, Owner(ix.ip, h))
        BY <1>1, IndexesClaim, OwnerIsOne
    <2>2. PICK r \in in.listed : Owner(ix.ip, h) = RouterKey(r) /\ h \in Given(AddressesHinted(in)[r])
        BY <2>1 DEF OwnsFor
    <2>3. h \in AddressHints(in, r) /\ h # None
        BY <2>2 DEF AddressesHinted, Given
    <2> QED
        BY <2>2, <2>3, AddressHintsTrue
<1>4. Owner(ix.mac, h) # None =>
        \E r \in in.listed : /\ Owner(ix.mac, h) = RouterKey(r) /\ h \in MacsIn(P, r)
                             /\ \A s \in in.listed : h \in MacHints(in, s) => s = r
    <2> HAVE Owner(ix.mac, h) # None
    <2>1. OwnsFor(in.listed, MacsHinted(in), h, Owner(ix.mac, h))
        BY <1>1, IndexesClaim, OwnerIsOne
    <2>2. PICK r \in in.listed : /\ Owner(ix.mac, h) = RouterKey(r) /\ h \in Given(MacsHinted(in)[r])
                                 /\ \A s \in in.listed : h \in MacsHinted(in)[s] => s = r
        BY <2>1 DEF OwnsFor
    <2>3. h \in MacHints(in, r) /\ \A s \in in.listed : h \in MacHints(in, s) => s = r
        BY <2>2 DEF MacsHinted, Given
    <2> QED
        BY <2>2, <2>3, MacHintsTrue
<1>5. Owner(ix.name, h) # None =>
        \E r \in in.listed : /\ Owner(ix.name, h) = RouterKey(r)
                             /\ h \in NamedIn(P, r) \cup Generic
    <2> HAVE Owner(ix.name, h) # None
    <2>1. OwnsFor(in.listed, NamesHinted(in), h, Owner(ix.name, h))
        BY <1>1, IndexesClaim, OwnerIsOne
    <2>2. PICK r \in in.listed : Owner(ix.name, h) = RouterKey(r) /\ h \in Given(NamesHinted(in)[r])
        BY <2>1 DEF OwnsFor
    <2>3. h \in NameHints(in, r) /\ h # None
        BY <2>2 DEF NamesHinted, Given
    <2> QED
        BY <2>2, <2>3, NameHintsTrue
<1>6. ASSUME NEW r \in in.listed, h \in Given(NameHints(in, r)),
             \A s \in in.listed : h \in NameHints(in, s) => s = r
      PROVE  Owner(ix.name, h) = RouterKey(r)
    <2>1. OwnsFor(in.listed, NamesHinted(in), h, RouterKey(r))
        BY <1>6 DEF OwnsFor, NamesHinted
    <2> QED
        BY <1>1, <2>1, IndexesClaim, OwnerIsOne
<1> QED
    BY <1>2, <1>3, <1>4, <1>5, <1>6

Heard(in, d) == d \in in.listed /\ in.read[d] # None

\* A neighbour gives way to the box of the router it is, or to one whose MAC a
\* device not heard carries.
LEMMA ResolvedTrue ==
    ASSUME NEW in, NEW w, NEW P, NEW U, Ground(in, w, P, U), NEW ix, ix = Indexes(in),
           NEW k, NEW n, NEW d, NodeIs(w, k, n, d), Resolved(ix, n) # None
    PROVE  \E b \in in.listed :
               /\ Resolved(ix, n) = RouterKey(b)
               /\ b = d \/ (~Heard(in, d) /\ MacsIn(P, d) \cap MacsIn(P, b) # {})
<1> DEFINE by(owners) == IF Given(owners) = {} THEN None ELSE CHOOSE o \in Given(owners) : TRUE
           looped == by({Owner(ix.loopback, a) : a \in n.addrs})
           macced == by({Owner(ix.mac, m) : m \in n.macs})
           addressed == by({Owner(ix.ip, a) : a \in n.addrs})
<1>1. /\ d \in Devices(w) /\ w \in P /\ Identified(P) /\ in.listed \subseteq Names
      /\ n.addrs \subseteq AddressesIn(w, d)
    BY DEF NodeIs, Ground, Truthful, Input, AddressesIn
<1>2. \A owners : by(owners) # None => by(owners) \in owners /\ by(owners) # None
    BY DEF Given
<1> HIDE DEF by
<1>3. CASE looped # None /\ Resolved(ix, n) = looped
    <2>1. PICK a \in n.addrs : looped = Owner(ix.loopback, a) /\ Owner(ix.loopback, a) # None
        <3> DEFINE owners == {Owner(ix.loopback, a) : a \in n.addrs}
        <3>1. by(owners) \in owners /\ by(owners) # None
            BY <1>2, <1>3
        <3> QED
            BY <3>1
    <2>2. PICK r \in in.listed : Owner(ix.loopback, a) = RouterKey(r) /\ a \in KnownIn(P, r)
        BY <2>1, OwnersTrue
    <2>3. d = r
        BY <1>1, <2>1, <2>2, SameAddress
    <2> QED
        BY <1>3, <2>1, <2>2, <2>3
<1>4. CASE addressed # None /\ Resolved(ix, n) = addressed
    <2>1. PICK a \in n.addrs : addressed = Owner(ix.ip, a) /\ Owner(ix.ip, a) # None
        <3> DEFINE owners == {Owner(ix.ip, a) : a \in n.addrs}
        <3>1. by(owners) \in owners /\ by(owners) # None
            BY <1>2, <1>4
        <3> QED
            BY <3>1
    <2>2. PICK r \in in.listed : Owner(ix.ip, a) = RouterKey(r) /\ a \in KnownIn(P, r)
        BY <2>1, OwnersTrue
    <2>3. d = r
        BY <1>1, <2>1, <2>2, SameAddress
    <2> QED
        BY <1>4, <2>1, <2>2, <2>3
<1>5. CASE macced # None /\ Resolved(ix, n) = macced
    <2>1. PICK m \in n.macs : macced = Owner(ix.mac, m) /\ Owner(ix.mac, m) # None
        <3> DEFINE owners == {Owner(ix.mac, m) : m \in n.macs}
        <3>1. by(owners) \in owners /\ by(owners) # None
            BY <1>2, <1>5
        <3> QED
            BY <3>1
    <2>2. PICK r \in in.listed : /\ Owner(ix.mac, m) = RouterKey(r) /\ m \in MacsIn(P, r)
                                 /\ \A s \in in.listed : m \in MacHints(in, s) => s = r
        BY <2>1, OwnersTrue
    <2>3. m \in MacsIn(P, d)
        BY <1>1, <2>1 DEF NodeIs, MacsIn
    <2>4. Heard(in, d) => d = r
        <3> HAVE Heard(in, d)
        <3>1. MacHints(in, d) = Range(w.device[d].mac)
            BY ReadHere DEF Heard, MacHints
        <3> QED
            BY <2>1, <2>2, <3>1 DEF NodeIs, Heard
    <2> QED
        BY <1>5, <2>1, <2>2, <2>3, <2>4
<1>6. CASE n.name \notin Generic /\ Resolved(ix, n) = Owner(ix.name, n.name)
    <2>1. PICK r \in in.listed : /\ Owner(ix.name, n.name) = RouterKey(r)
                                 /\ n.name \in NamedIn(P, r)
        BY <1>6, OwnersTrue
    <2>2. d = r
        BY <1>1, <2>1, KnownName DEF NodeIs
    <2> QED
        BY <1>6, <2>1, <2>2
<1>7. \/ looped # None /\ Resolved(ix, n) = looped
      \/ macced # None /\ Resolved(ix, n) = macced
      \/ addressed # None /\ Resolved(ix, n) = addressed
      \/ n.name \notin Generic /\ Resolved(ix, n) = Owner(ix.name, n.name)
    BY DEF Resolved, by
<1> QED
    BY <1>3, <1>4, <1>5, <1>6, <1>7

\* A router heard is known by the name it says.
LEMMA UnresolvedTrue ==
    ASSUME NEW in, NEW w, NEW P, NEW U, Ground(in, w, P, U), NEW ix, ix = Indexes(in),
           NEW k, NEW n, NEW d, NodeIs(w, k, n, d), Proper(n.name), Resolved(ix, n) = None
    PROVE  ~Heard(in, d)
<1> SUFFICES ASSUME Heard(in, d) PROVE FALSE
    OBVIOUS
<1>1. d \in in.listed /\ d \in Names /\ d \in Devices(w) /\ w \in P /\ Identified(P)
      /\ n.name = w.device[d].name /\ in.listed \subseteq Names
    BY DEF Heard, NodeIs, Ground, Truthful, Input
<1>2. n.name \in Given(NameHints(in, d))
    BY <1>1, ReadHere DEF Heard, NameHints, Given, Proper
<1>3. ASSUME NEW s \in in.listed, n.name \in NameHints(in, s) PROVE s = d
    <2>1. n.name \in NamedIn(P, s)
        BY <1>3, NameHintsTrue DEF Proper
    <2> QED
        BY <1>1, <2>1, KnownName
<1>4. Owner(ix.name, n.name) = RouterKey(d)
    BY <1>1, <1>2, <1>3, OwnersTrue
<1>5. RouterKey(d) # None
    BY <1>1, TopologyAssumption
<1> QED
    BY <1>4, <1>5 DEF Resolved, Proper

LEMMA RouterBoxTrue ==
    ASSUME NEW in, NEW w, NEW P, NEW U, Ground(in, w, P, U), NEW r \in in.listed,
           NEW n, n = RouterBox(in, r)
    PROVE  RouterIn(P, r, n.macs, n.ident, n.loopback)
<1>1. /\ n.macs = MacHints(in, r)
      /\ n.ident = IF in.read[r] # None THEN in.read[r].name ELSE Remembered(in, r).name
      /\ n.loopback = IF in.read[r] # None THEN LoopbackOf(in, r) ELSE Declared[r].loopback
    BY DEF RouterBox, Box
<1>2. r \in Names /\ w \in P
    BY DEF Ground, Truthful, Input
<1>3. n.macs \subseteq MacsIn(P, r) /\ (MacsKept(P) => n.macs \in {{}, MacsIn(P, r)})
    BY <1>1, MacHintsTrue
<1>4. n.ident \in NamedIn(P, r) \cup Generic \cup {None}
    <2>1. CASE in.read[r] # None
        BY <1>1, <1>2, <2>1, ReadHere, NameTrue
    <2>2. CASE in.read[r] = None
        BY <1>1, <1>2, <2>2 DEF Remembered, Ground, Truthful, MemoryIn, RouterIn
    <2> QED
        BY <2>1, <2>2
<1>5. n.loopback \in KnownIn(P, r) \cup {None}
    <2>1. Declared[r].loopback \in AddressesIn(w, r) \cup {None}
        BY <1>2 DEF AddressesIn, Given
    <2>2. AddressesIn(w, r) \subseteq KnownIn(P, r)
        BY <1>2 DEF KnownIn
    <2> QED
        BY <1>1, <2>1, <2>2, LoopbackTrue
<1> QED
    BY <1>3, <1>4, <1>5 DEF RouterIn

\* A router and a device it has a segment with, which passes for another router.
LEMMA SeenCabled ==
    ASSUME NEW in, NEW w, NEW P, NEW U, Ground(in, w, P, U),
           NEW a \in in.listed, in.read[a] # None, NEW d \in Devices(w), Adjacent(w, a, d),
           NEW b, b = d \/ (~Heard(in, d) /\ MacsIn(P, d) \cap MacsIn(P, b) # {})
    PROVE  CabledIn(P, U, a, b)
<1>1. w \in P
    BY DEF Ground
<1>2. CASE b = d
    BY <1>1, <1>2 DEF CabledIn, WiredIn
<1>3. CASE b # d
    <2>1. ~Heard(in, d) /\ MacsIn(P, d) \cap MacsIn(P, b) # {}
        BY <1>3
    <2>2. d \notin Names \/ d \in U
        BY <2>1 DEF Ground, Truthful, Heard
    <2>3. PassesIn(P, U, d, b)
        BY <2>1, <2>2 DEF PassesIn
    <2>4. d # a
        BY <2>1 DEF Heard
    <2>5. d \in (UNION {Devices(v) : v \in P}) \ {a, b}
        <3>1. Devices(w) \in {Devices(v) : v \in P}
            BY <1>1
        <3>2. d \in UNION {Devices(v) : v \in P}
            BY <3>1
        <3>3. d \notin {a, b}
            BY <1>3, <2>4
        <3> QED
            BY <3>2, <3>3
    <2>6. LookalikeIn(P, U, a, b)
        BY <1>1, <2>3, <2>5 DEF LookalikeIn
    <2> QED
        BY <2>6 DEF CabledIn
<1> QED
    BY <1>2, <1>3

LEMMA FoldedTrue ==
    ASSUME NEW in, NEW w, NEW P, NEW U, Ground(in, w, P, U), NEW ix, ix = Indexes(in)
    PROVE  GraphIn(P, U, Folded(Laid(in), ix))
<1> DEFINE g == Laid(in)
           now(k) == IF OfRouter(k) \/ Resolved(ix, g.nodes[k]) = None THEN k
                     ELSE Resolved(ix, g.nodes[k])
           Moved(l) == [l EXCEPT !.src = now(l.src), !.dst = now(l.dst)]
           moved == {Moved(l) : l \in g.links}
           left == {n \in DOMAIN g.nodes : now(n) = n}
<1>1. Folded(g, ix) = [nodes |-> [k \in left |-> g.nodes[k]],
                       links |-> {l \in moved : l.src # l.dst}]
    BY DEF Folded
<1>2. /\ \A k \in DOMAIN g.nodes :
            \/ /\ OfRouter(k) /\ k[2] \in in.listed /\ k = RouterKey(k[2])
               /\ g.nodes[k] = RouterBox(in, k[2])
            \/ ~OfRouter(k) /\ \E d : NodeIs(w, k, g.nodes[k], d)
      /\ \A l \in g.links : LaidTo(in, w, g.nodes, l)
    BY LaidTrue
<1>3. \A l \in g.links : DOMAIN l = LinkFields
    BY LaidSound DEF Ground, Truthful
<1> HIDE DEF g
<1>4. ASSUME NEW k \in left PROVE BoxIn(P, U, k, g.nodes[k])
    <2>1. CASE OfRouter(k)
        <3>1. RouterIn(P, k[2], g.nodes[k].macs, g.nodes[k].ident, g.nodes[k].loopback)
            BY <1>2, <1>4, <2>1, RouterBoxTrue
        <3> QED
            BY <2>1, <3>1 DEF BoxIn, OfRouter
    <2>2. CASE ~OfRouter(k)
        <3>1. PICK n, d : n = g.nodes[k] /\ NodeIs(w, k, n, d)
            BY <1>2, <1>4, <2>2
        <3>2. Resolved(ix, n) = None
            <4> SUFFICES ASSUME Resolved(ix, n) # None PROVE FALSE
                OBVIOUS
            <4>1. k = Resolved(ix, n)
                BY <1>4, <2>2, <3>1
            <4>2. \E b : Resolved(ix, n) = RouterKey(b)
                BY <3>1, ResolvedTrue
            <4> QED
                BY <2>2, <4>1, <4>2, KeysApart
        <3>3. CASE k[1] = "mac" /\ n.macs = {k[2]}
            BY <2>2, <3>1, <3>3 DEF BoxIn
        <3>4. CASE /\ k[1] = "identity" /\ k[2] = n.name /\ Proper(n.name)
                   /\ \E e \in Devices(w) \ {d} : Shares(w, d, e)
            <4>1. ~Heard(in, d)
                BY <3>1, <3>2, <3>4, UnresolvedTrue
            <4>2. d \notin Names \/ d \in U
                BY <4>1 DEF Ground, Truthful, Heard
            <4>3. ConfusedIn(P, U, k[2])
                BY <3>1, <3>4, <4>2 DEF ConfusedIn, NodeIs, Ground
            <4> QED
                BY <2>2, <3>1, <3>4, <4>3 DEF BoxIn
        <3> QED
            BY <3>1, <3>3, <3>4 DEF NodeIs
    <2> QED
        BY <2>1, <2>2
<1>5. ASSUME NEW old \in g.links, NEW l, l = Moved(old) PROVE CableIn(P, U, l)
    <2>1. /\ old.by \in in.listed /\ in.read[old.by] # None /\ old.src = RouterKey(old.by)
          /\ old.dst \in DOMAIN g.nodes /\ ~OfRouter(old.dst)
          /\ \E d : NodeIs(w, old.dst, g.nodes[old.dst], d) /\ Adjacent(w, old.by, d)
        BY <1>2 DEF LaidTo
    <2>2. l.src = now(old.src) /\ l.dst = now(old.dst)
        <3> HIDE DEF now
        <3> QED
            BY <1>3, <1>5 DEF LinkFields
    <2>3. l.src = RouterKey(old.by) /\ l.src[2] = old.by
        BY <2>1, <2>2, KeysApart DEF RouterKey
    <2>4. PICK n, d : n = g.nodes[old.dst] /\ NodeIs(w, old.dst, n, d) /\ Adjacent(w, old.by, d)
        BY <2>1
    <2>5. CASE Resolved(ix, n) = None
        BY <2>1, <2>2, <2>4, <2>5 DEF CableIn, Across
    <2>6. CASE Resolved(ix, n) # None
        <3>1. PICK b \in in.listed :
                   /\ Resolved(ix, n) = RouterKey(b)
                   /\ b = d \/ (~Heard(in, d) /\ MacsIn(P, d) \cap MacsIn(P, b) # {})
            BY <2>4, <2>6, ResolvedTrue
        <3>2. l.dst = RouterKey(b) /\ l.dst[2] = b
            BY <2>1, <2>2, <2>4, <2>6, <3>1 DEF RouterKey
        <3>3. d \in Devices(w)
            BY <2>4 DEF NodeIs
        <3>4. CabledIn(P, U, old.by, b)
            BY <2>1, <2>4, <3>1, <3>3, SeenCabled
        <3> QED
            BY <2>3, <3>2, <3>4 DEF CableIn
    <2> QED
        BY <2>5, <2>6
<1>6. /\ DOMAIN Folded(g, ix).nodes = left
      /\ \A k \in left : Folded(g, ix).nodes[k] = g.nodes[k]
      /\ \A l \in Folded(g, ix).links : \E old \in g.links : l = Moved(old)
    <2> HIDE DEF left, Moved
    <2> QED
        BY <1>1
<1> HIDE DEF left, Moved
<1> QED
    BY <1>4, <1>5, <1>6 DEF GraphIn, g

-----------------------------------------------------------------------------
(* The discovery, once its boxes are folded.                                *)
LEMMA SameBoxIn ==
    ASSUME NEW P, NEW U, NEW k, NEW n, BoxIn(P, U, k, n), NEW m, m.macs = n.macs,
           m.ident = n.ident, m.loopback = n.loopback
    PROVE  BoxIn(P, U, k, m)
BY DEF BoxIn

LEMMA SameCableIn ==
    ASSUME NEW P, NEW U, NEW l, CableIn(P, U, l), NEW m, m.src = l.src, m.dst = l.dst, m.by = l.by
    PROVE  CableIn(P, U, m)
BY DEF CableIn, Across

LEMMA CompletedTrue ==
    ASSUME NEW P, NEW U, NEW g, Bare(g), GraphIn(P, U, g),
           NEW found, \A l \in found : CableIn(P, U, l)
    PROVE  GraphIn(P, U, Completed(g, found))
<1> DEFINE pairs == {{l.src, l.dst} : l \in {f \in found : ~Joined(g, f.src, f.dst)}}
           between(p) == {l \in found : {l.src, l.dst} = p}
           kept == {CHOOSE l \in between(p) : TRUE : p \in pairs}
<1>1. Completed(g, found) = [g EXCEPT !.links = g.links \cup kept]
    BY DEF Completed
<1>2. kept \subseteq found
    <2>1. \A p \in pairs : between(p) # {}
        OBVIOUS
    <2>2. \A p \in pairs : (CHOOSE l \in between(p) : TRUE) \in between(p)
        BY <2>1
    <2> QED
        BY <2>2
<1> HIDE DEF kept
<1>3. /\ Completed(g, found).links = g.links \cup kept
      /\ Completed(g, found).nodes = g.nodes
    BY <1>1 DEF Bare
<1> QED
    BY <1>2, <1>3 DEF GraphIn

\* A link between two routers that are cabled.
LEMMA ReportedTrue ==
    ASSUME NEW P, NEW U, NEW a, NEW b, CabledIn(P, U, a, b), NEW port, NEW kind, NEW by,
           NEW l, l = Link(RouterKey(a), port, RouterKey(b), kind, by)
    PROVE  CableIn(P, U, l)
<1>1. l.src = RouterKey(a) /\ l.dst = RouterKey(b)
    BY LinkShape
<1>2. l.src[2] = a /\ l.dst[2] = b
    <2>1. \A r : RouterKey(r)[2] = r
        BY DEF RouterKey
    <2> QED
        BY <1>1, <2>1
<1> QED
    BY <1>2 DEF CableIn

LEMMA SubnettedTrue ==
    ASSUME NEW in, NEW w, NEW P, NEW U, Ground(in, w, P, U), NEW g, Bare(g), GraphIn(P, U, g)
    PROVE  GraphIn(P, U, Subnetted(g, in))
<1> DEFINE read == {r \in in.listed : in.read[r] # None}
           on(r, net) == {a \in in.read[r].addrs : a.net = net /\ net # None}
           nets == UNION {{a.net : a \in in.read[r].addrs} : r \in read}
           members(net) == {r \in read : on(r, net) # {}}
           pairs == {net \in nets : Cardinality(members(net)) = 2}
           one(net) == CHOOSE r \in members(net) : \A s \in members(net) : Rank(r) <= Rank(s)
           other(net) == CHOOSE r \in members(net) : r # one(net)
           link(net) == Link(RouterKey(one(net)), (CHOOSE x \in on(one(net), net) : TRUE).port,
                             RouterKey(other(net)), "ethernet", one(net))
           found == {link(net) : net \in pairs}
<1>1. Subnetted(g, in) = Completed(g, found)
    BY DEF Subnetted
<1>2. ASSUME NEW net \in pairs PROVE CableIn(P, U, link(net))
    <2>1. members(net) \in SUBSET Names /\ Cardinality(members(net)) = 2
        BY DEF Ground, Truthful, Input
    <2>2. \A r \in members(net) : \E x \in w.device[r].addrs : x.net = net /\ net # None
        BY ReadHere
    <2> HIDE DEF members, on
    <2>3. /\ \E r \in members(net) : \A s \in members(net) : Rank(r) <= Rank(s)
          /\ \A r \in members(net) : \E s \in members(net) : s # r
        BY <2>1, TwoMembers
    <2>4. one(net) \in members(net)
        BY <2>3
    <2>5. other(net) \in members(net)
        <3> HIDE DEF one
        <3> QED
            BY <2>3, <2>4
    <2> HIDE DEF one, other
    <2>6. OneSubnetIn(P, one(net), other(net))
        BY <2>2, <2>4, <2>5 DEF OneSubnetIn, Ground
    <2> QED
        BY <2>6, ReportedTrue DEF CabledIn
<1> HIDE DEF link, pairs
<1>3. \A l \in found : CableIn(P, U, l)
    BY <1>2
<1> HIDE DEF found
<1> QED
    BY <1>1, <1>3, CompletedTrue

LEMMA TunnelledTrue ==
    ASSUME NEW in, NEW w, NEW P, NEW U, Ground(in, w, P, U), NEW ix, ix = Indexes(in),
           NEW g, Bare(g), GraphIn(P, U, g)
    PROVE  GraphIn(P, U, Tunnelled(g, in, ix))
<1> DEFINE ends(r) == {<<t.name, Owner(ix.ip, t.remote)>> : t \in in.read[r].tunnels}
           far(r) == {f \in ends(r) : f[2] \notin {None, RouterKey(r)}}
           read == {s \in in.listed : in.read[s] # None}
           found == UNION {{Link(RouterKey(r), e[1], e[2], "ethernet", r) : e \in far(r)} : r \in read}
<1>1. Tunnelled(g, in, ix) = Completed(g, found)
    BY DEF Tunnelled
<1>2. ASSUME NEW l \in found PROVE CableIn(P, U, l)
    <2>1. PICK r \in read : \E e \in far(r) : l = Link(RouterKey(r), e[1], e[2], "ethernet", r)
        <3> HIDE DEF far, read
        <3> QED
            BY <1>2
    <2>2. PICK e \in far(r) : l = Link(RouterKey(r), e[1], e[2], "ethernet", r)
        BY <2>1
    <2>3. PICK t \in in.read[r].tunnels : e = <<t.name, Owner(ix.ip, t.remote)>>
        BY <2>2
    <2>4. e[2] = Owner(ix.ip, t.remote) /\ Owner(ix.ip, t.remote) # None
        BY <2>2, <2>3
    <2>5. PICK s \in in.listed : Owner(ix.ip, t.remote) = RouterKey(s) /\ t.remote \in KnownIn(P, s)
        BY <2>4, OwnersTrue
    <2>6. t \in w.device[r].tunnels /\ w \in P
        BY <2>1, <2>3, ReadHere DEF Ground
    <2>7. CabledIn(P, U, r, s)
        BY <2>5, <2>6 DEF CabledIn, WiredIn
    <2> QED
        BY <2>2, <2>4, <2>5, <2>7, ReportedTrue
<1> HIDE DEF found
<1> QED
    BY <1>1, <1>2, CompletedTrue

LEMMA SkippedTrue ==
    ASSUME NEW P, NEW U, NEW g, Bare(g), GraphIn(P, U, g), NEW set \in SUBSET Names
    PROVE  GraphIn(P, U, WithSkipped(g, set))
<1>1. PICK old : old = g.nodes
    OBVIOUS
<1> DEFINE added == {RouterKey(r) : r \in set} \ DOMAIN old
           box(k) == [Box(Declared[k[2]].pop, Kind(Declared[k[2]].role), {}, {Declared[k[2]].host})
                        EXCEPT !.managed = TRUE]
           laid == [k \in added |-> box(k)]
           new == Over(laid, old)
<1>2. WithSkipped(g, set) = [g EXCEPT !.nodes = new]
    BY <1>1 DEF WithSkipped
<1>3. \A k : box(k).macs = {} /\ box(k).ident = None /\ box(k).loopback = None
    BY DEF Box
<1>4. \A k \in added : k[1] = "router"
    BY DEF RouterKey
<1> HIDE DEF box, added
<1>5. \A k \in DOMAIN new : \/ k \in DOMAIN old /\ new[k] = old[k]
                            \/ k \in added /\ new[k] = box(k)
    BY DEF Over
<1>6. \A k \in added : BoxIn(P, U, k, box(k))
    <2> TAKE k \in added
    <2>1. RouterIn(P, k[2], box(k).macs, box(k).ident, box(k).loopback)
        BY <1>3 DEF RouterIn
    <2> QED
        BY <1>4, <2>1 DEF BoxIn
<1> HIDE DEF new
<1>7. WithSkipped(g, set).nodes = new /\ WithSkipped(g, set).links = g.links
    BY <1>2 DEF Bare
<1> QED
    BY <1>1, <1>5, <1>6, <1>7 DEF GraphIn

LEMMA ProvenTrue ==
    ASSUME NEW in, NEW w, NEW P, NEW U, Ground(in, w, P, U), NEW ix, ix = Indexes(in),
           NEW g, Bare(g), GraphIn(P, U, g)
    PROVE  GraphIn(P, U, Proven(g, in, ix))
<1> DEFINE talks == {t \in Peers(in, ix) : t[2] \notin {None, RouterKey(t[1])}}
           between(t) == {l \in g.links : {l.src, l.dst} = {RouterKey(t[1]), t[2]}}
           marked == {CHOOSE l \in between(t) : TRUE : t \in {u \in talks : between(u) # {}}}
           session(t) == [Link(RouterKey(t[1]), None, t[2], "routing", t[1]) EXCEPT !.proven = TRUE]
           found == {session(t) : t \in talks}
           added == Completed(g, found).links \ g.links
           told(l) == IF l \in marked THEN [l EXCEPT !.proven = TRUE] ELSE l
           all == {told(l) : l \in g.links} \cup added
<1>1. Proven(g, in, ix) = [g EXCEPT !.links = all]
    BY DEF Proven
<1>2. ASSUME NEW t \in talks PROVE CableIn(P, U, session(t))
    <2>1. PICK r \in in.listed : /\ in.read[r] # None
                                 /\ \E ip \in in.read[r].peers : t = <<r, AddressOwner(ix, ip)>>
        BY DEF Peers
    <2>2. PICK ip \in in.read[r].peers : t = <<r, AddressOwner(ix, ip)>>
        BY <2>1
    <2>3. t[1] = r /\ t[2] = AddressOwner(ix, ip) /\ t[2] # None
        BY <2>2
    <2>4. PICK s \in in.listed : t[2] = RouterKey(s) /\ ip \in KnownIn(P, s)
        <3>1. CASE Owner(ix.loopback, ip) # None
            BY <2>3, <3>1, OwnersTrue DEF AddressOwner
        <3>2. CASE Owner(ix.loopback, ip) = None
            <4>1. t[2] = Owner(ix.ip, ip) /\ Owner(ix.ip, ip) # None
                BY <2>3, <3>2 DEF AddressOwner
            <4> QED
                BY <4>1, OwnersTrue
        <3> QED
            BY <3>1, <3>2
    <2>5. ip \in w.device[r].peers /\ w \in P
        BY <2>1, ReadHere DEF Ground
    <2>6. CabledIn(P, U, r, s)
        BY <2>4, <2>5 DEF CabledIn, WiredIn
    <2>7. PICK l : l = Link(RouterKey(r), None, RouterKey(s), "routing", r)
        OBVIOUS
    <2>8. CableIn(P, U, l)
        BY <2>6, <2>7, ReportedTrue
    <2>9. session(t) = [l EXCEPT !.proven = TRUE]
        BY <2>3, <2>4, <2>7
    <2>10. DOMAIN l = LinkFields
        BY <2>7, LinkShape
    <2> HIDE DEF session
    <2>11. /\ session(t).src = l.src /\ session(t).dst = l.dst /\ session(t).by = l.by
        BY <2>9, <2>10 DEF LinkFields
    <2> QED
        BY <2>8, <2>11, SameCableIn
<1> HIDE DEF session, talks
<1>3. \A l \in found : CableIn(P, U, l)
    BY <1>2
<1> HIDE DEF found
<1>4. \A l \in added : CableIn(P, U, l)
    BY <1>3, CompletedTrue DEF GraphIn
<1>5. \A l \in g.links : CableIn(P, U, told(l))
    <2> SUFFICES ASSUME NEW l \in g.links PROVE CableIn(P, U, told(l))
        OBVIOUS
    <2>1. CableIn(P, U, l) /\ DOMAIN l = LinkFields
        BY DEF GraphIn, Bare, Drawn
    <2>2. told(l).src = l.src /\ told(l).dst = l.dst /\ told(l).by = l.by
        <3> HIDE DEF marked
        <3> QED
            BY <2>1 DEF LinkFields
    <2> HIDE DEF told
    <2> QED
        BY <2>1, <2>2, SameCableIn
<1> HIDE DEF told, added
<1>6. \A l \in all : CableIn(P, U, l)
    BY <1>4, <1>5
<1> HIDE DEF all
<1>7. Proven(g, in, ix).nodes = g.nodes /\ Proven(g, in, ix).links = all
    BY <1>1 DEF Bare
<1> QED
    BY <1>6, <1>7 DEF GraphIn

LEMMA OrientedTrue ==
    ASSUME NEW P, NEW U, NEW in, NEW ix, NEW g, Bare(g), GraphIn(P, U, g)
    PROVE  GraphIn(P, U, Oriented(g, in, ix))
<1>1. PICK old : old = g.nodes
    OBVIOUS
<1> DEFINE heard(k) == OfRouter(k) /\ k[2] \in in.listed /\ in.read[k[2]] # None
           turned(k) == [old[k] EXCEPT !.parent = ParentOf(in, ix, k[2])]
           box(k) == IF heard(k) THEN turned(k) ELSE old[k]
           new == [k \in DOMAIN old |-> box(k)]
<1>2. Oriented(g, in, ix) = [g EXCEPT !.nodes = new]
    BY <1>1 DEF Oriented
<1>3. \A k \in DOMAIN old : Labelled(k, old[k]) /\ BoxIn(P, U, k, old[k])
    BY <1>1 DEF Bare, Boxes, GraphIn
<1>4. \A k \in DOMAIN old : BoxIn(P, U, k, box(k))
    <2> SUFFICES ASSUME NEW k \in DOMAIN old PROVE BoxIn(P, U, k, box(k))
        OBVIOUS
    <2>1. /\ box(k).macs = old[k].macs /\ box(k).ident = old[k].ident
          /\ box(k).loopback = old[k].loopback
        BY <1>3 DEF Labelled, BoxFields
    <2> HIDE DEF box
    <2> QED
        BY <1>3, <2>1, SameBoxIn
<1> HIDE DEF box
<1>5. DOMAIN new = DOMAIN old /\ \A k \in DOMAIN old : new[k] = box(k)
    OBVIOUS
<1> HIDE DEF new
<1>6. Oriented(g, in, ix).nodes = new /\ Oriented(g, in, ix).links = g.links
    BY <1>2 DEF Bare
<1> QED
    BY <1>4, <1>5, <1>6 DEF GraphIn

LEMMA RadiosTrue ==
    ASSUME NEW P, NEW U, NEW g, Bare(g), GraphIn(P, U, g), NEW radios
    PROVE  GraphIn(P, U, WithRadios(g, radios))
<1>1. PICK nodesBefore : nodesBefore = g.nodes
    OBVIOUS
<1> DEFINE kind(d) == IF d.ap THEN "sector" ELSE "radio"
           known(d) == {k \in DOMAIN nodesBefore : /\ ~nodesBefore[k].managed
                                                   /\ d.mac \in nodesBefore[k].macs}
           new == {d \in radios : known(d) = {}}
           here(k) == {d \in radios : k \in known(d)}
           made(k) == LET d == CHOOSE e \in new : RadioKey(e) = k IN
                      [Box(d.id, kind(d), Given({d.mac}), {}) EXCEPT !.uisp = d.id]
           named(k) == LET d == CHOOSE e \in here(k) : TRUE IN
                       [nodesBefore[k] EXCEPT !.uisp = d.id, !.kind = kind(d)]
           kept(k) == IF here(k) = {} THEN nodesBefore[k] ELSE named(k)
           old == [k \in DOMAIN nodesBefore |-> kept(k)]
           added == [k \in {RadioKey(d) : d \in new} |-> made(k)]
           beam(d) == Link(<<"uisp", d.parent>>, None, RadioKey(d), "radio", "uisp")
           beams == {beam(d) : d \in {e \in radios : e.parent # None}}
<1>2. WithRadios(g, radios) = [nodes |-> Over(old, added), links |-> g.links \cup beams]
    BY <1>1 DEF WithRadios
<1>3. ASSUME NEW k \in DOMAIN nodesBefore PROVE BoxIn(P, U, k, kept(k))
    <2>1. PICK n : n = nodesBefore[k] /\ Labelled(k, n) /\ BoxIn(P, U, k, n)
        BY <1>1 DEF Bare, Boxes, GraphIn
    <2>2. PICK d : d = CHOOSE e \in here(k) : TRUE
        OBVIOUS
    <2>3. kept(k) = n \/ kept(k) = [n EXCEPT !.uisp = d.id, !.kind = kind(d)]
        BY <2>1, <2>2
    <2> HIDE DEF kept, kind
    <2>4. kept(k).macs = n.macs /\ kept(k).ident = n.ident /\ kept(k).loopback = n.loopback
        BY <2>1, <2>3 DEF Labelled, BoxFields
    <2> QED
        BY <2>1, <2>4, SameBoxIn
<1>4. ASSUME NEW k \in {RadioKey(d) : d \in new} PROVE BoxIn(P, U, k, made(k))
    <2>1. PICK d : d = CHOOSE e \in new : RadioKey(e) = k
        OBVIOUS
    <2>2. RadioKey(d) = k
        <3>1. \E e \in new : RadioKey(e) = k
            OBVIOUS
        <3> HIDE DEF new
        <3> QED
            BY <2>1, <3>1
    <2>3. made(k) = [Box(d.id, kind(d), Given({d.mac}), {}) EXCEPT !.uisp = d.id]
        BY <2>1
    <2> HIDE DEF made, kind, new
    <2>4. made(k).macs = Given({d.mac})
        <3>1. PICK S : S = Given({d.mac})
            OBVIOUS
        <3>2. PICK n : n = Box(d.id, kind(d), S, {})
            OBVIOUS
        <3>3. DOMAIN n = BoxFields /\ n.macs = S
            BY <3>2, BoxShape
        <3>4. made(k) = [n EXCEPT !.uisp = d.id]
            BY <2>3, <3>1, <3>2
        <3> QED
            BY <3>1, <3>3, <3>4 DEF BoxFields
    <2>5. CASE d.mac # None
        <3>1. k[1] = "mac" /\ k[2] = d.mac
            BY <2>2, <2>5 DEF RadioKey, MacKey
        <3>2. made(k).macs = {d.mac}
            BY <2>4, <2>5 DEF Given
        <3> QED
            BY <3>1, <3>2 DEF BoxIn, OfRouter
    <2>6. CASE d.mac = None
        <3>1. k[1] = "uisp"
            BY <2>2, <2>6 DEF RadioKey
        <3> QED
            BY <3>1 DEF BoxIn, OfRouter
    <2> QED
        BY <2>5, <2>6
<1>5. \A d : CableIn(P, U, beam(d))
    <2> SUFFICES ASSUME NEW d PROVE CableIn(P, U, beam(d))
        OBVIOUS
    <2>1. beam(d).src = <<"uisp", d.parent>>
        BY LinkShape
    <2> HIDE DEF beam
    <2>2. ~Across(beam(d))
        BY <2>1 DEF Across, OfRouter
    <2> QED
        BY <2>2 DEF CableIn
<1> HIDE DEF kept, made, beam
<1>6. /\ DOMAIN old = DOMAIN nodesBefore /\ \A k \in DOMAIN old : old[k] = kept(k)
      /\ \A k \in DOMAIN added : k \in {RadioKey(d) : d \in new} /\ added[k] = made(k)
    <2> HIDE DEF new
    <2> QED
        OBVIOUS
<1> HIDE DEF old, added, new
<1>7. \A k \in DOMAIN Over(old, added) :
         \/ k \in DOMAIN old /\ Over(old, added)[k] = old[k]
         \/ k \in DOMAIN added /\ Over(old, added)[k] = added[k]
    BY DEF Over
<1>8. \A k \in DOMAIN Over(old, added) : BoxIn(P, U, k, Over(old, added)[k])
    BY <1>3, <1>4, <1>6, <1>7
<1>9. \A l \in g.links \cup beams : CableIn(P, U, l)
    BY <1>5 DEF GraphIn
<1> HIDE DEF beams
<1> QED
    BY <1>2, <1>8, <1>9 DEF GraphIn

LEMMA ClientsTrue ==
    ASSUME NEW P, NEW U, NEW in, NEW g, GraphIn(P, U, g), NEW clients
    PROVE  GraphIn(P, U, WithClients(g, in, clients))
<1>1. PICK old : old = g.nodes
    OBVIOUS
<1> DEFINE onVlan == {c \in clients : c.sector = None /\ VlanSite(in, c) # None}
           trunk(k) == Box(k[3], "vlan", {}, {})
           vlans == [k \in {VlanKey(c.pop, c.vlan) : c \in onVlan} |-> trunk(k)]
           leaf(k) == LET c == CHOOSE d \in clients : ClientKey(d) = k IN
                      Box(c.ref, "static", {}, {c.ip})
           boxes == [k \in {ClientKey(c) : c \in clients} |-> leaf(k)]
           all == Over(Over(vlans, old), boxes)
           placed == {c \in clients : ParentOfClient(g, in, c) \in DOMAIN all}
           carry(c) == Link(RouterKey(c.pop), VlanSite(in, c).name, VlanKey(c.pop, c.vlan),
                            "vlan", c.pop)
           hang(c) == Link(ParentOfClient(g, in, c), None, ClientKey(c), "static", "inventory")
           carried == {carry(c) : c \in onVlan}
           hung == {hang(c) : c \in placed}
           drawn == g.links \cup carried \cup hung
<1>2. WithClients(g, in, clients) = [nodes |-> all, links |-> drawn]
    BY <1>1 DEF WithClients
<1>3. \A k, n : k[1] \in {"vlan", "static"} => BoxIn(P, U, k, n)
    BY DEF BoxIn, OfRouter
<1>4. /\ \A k \in DOMAIN vlans : k[1] \in {"vlan", "static"}
      /\ \A k \in DOMAIN boxes : k[1] \in {"vlan", "static"}
    BY DEF VlanKey, ClientKey
<1>5. \A k \in DOMAIN all : \/ k \in DOMAIN old /\ all[k] = old[k]
                            \/ k[1] \in {"vlan", "static"}
    <2> HIDE DEF vlans, boxes
    <2> QED
        BY <1>4 DEF Over
<1> HIDE DEF all
<1>6. \A k \in DOMAIN all : BoxIn(P, U, k, all[k])
    BY <1>1, <1>3, <1>5 DEF GraphIn
<1>7. \A c : CableIn(P, U, carry(c)) /\ CableIn(P, U, hang(c))
    <2> SUFFICES ASSUME NEW c PROVE CableIn(P, U, carry(c)) /\ CableIn(P, U, hang(c))
        OBVIOUS
    <2>1. carry(c).dst = VlanKey(c.pop, c.vlan) /\ hang(c).dst = ClientKey(c)
        BY LinkShape
    <2> HIDE DEF carry, hang
    <2>2. ~Across(carry(c)) /\ ~Across(hang(c))
        BY <2>1 DEF Across, OfRouter, VlanKey, ClientKey
    <2> QED
        BY <2>2 DEF CableIn
<1> HIDE DEF carry, hang, placed, onVlan
<1>8. \A l \in drawn : CableIn(P, U, l)
    BY <1>7 DEF GraphIn
<1> HIDE DEF drawn
<1> QED
    BY <1>2, <1>6, <1>8 DEF GraphIn

LEMMA CpesTrue ==
    ASSUME NEW P, NEW U, NEW in, NEW g, Planted(g), GraphIn(P, U, g), NEW clients
    PROVE  GraphIn(P, U, WithCpes(g, in, clients))
<1>1. PICK old : old = g.nodes
    OBVIOUS
<1> DEFINE logins(n) == {s.login : s \in {t \in Sessions(in) : t.mac \in n.macs \/ t.ip \in n.addrs}}
                        \cup {c.ref : c \in {d \in clients : d.ip \in n.addrs}}
           free(n) == ~n.managed /\ n.kind # "static" /\ logins(n) # {}
           marked(n) == [n EXCEPT !.cpe = CHOOSE u \in logins(n) : TRUE, !.kind = "cpe"]
           box(k) == IF free(old[k]) THEN marked(old[k]) ELSE old[k]
           new == [k \in DOMAIN old |-> box(k)]
<1>2. WithCpes(g, in, clients) = [g EXCEPT !.nodes = new]
    BY <1>1 DEF WithCpes
<1>3. ASSUME NEW k \in DOMAIN old PROVE BoxIn(P, U, k, box(k))
    <2>1. PICK n : n = old[k] /\ Labelled(k, n) /\ BoxIn(P, U, k, n)
        BY <1>1 DEF Planted, Boxes, GraphIn
    <2>2. PICK u : u = CHOOSE v \in logins(n) : TRUE
        OBVIOUS
    <2>3. box(k) = n \/ box(k) = [n EXCEPT !.cpe = u, !.kind = "cpe"]
        BY <2>1, <2>2
    <2> HIDE DEF box
    <2>4. box(k).macs = n.macs /\ box(k).ident = n.ident /\ box(k).loopback = n.loopback
        BY <2>1, <2>3 DEF Labelled, BoxFields
    <2> QED
        BY <2>1, <2>4, SameBoxIn
<1> HIDE DEF box
<1>4. DOMAIN new = DOMAIN old /\ \A k \in DOMAIN old : new[k] = box(k)
    OBVIOUS
<1> HIDE DEF new
<1>5. WithCpes(g, in, clients).nodes = new /\ WithCpes(g, in, clients).links = g.links
    BY <1>2 DEF Planted
<1> QED
    BY <1>3, <1>4, <1>5 DEF GraphIn

LEMMA MirroredTrue ==
    ASSUME NEW P, NEW U, NEW g, Planted(g), GraphIn(P, U, g)
    PROVE  GraphIn(P, U, Mirrored(g))
<1> DEFINE managed == {k \in DOMAIN g.nodes : g.nodes[k].managed}
           ported == {l \in g.links : l.port # None /\ {l.src, l.dst} \subseteq managed}
           pair(l) == {o \in ported : {o.src, o.dst} = {l.src, l.dst}}
           both(l) == \E o \in pair(l) : o.src = l.dst /\ pair(l) = {l, o}
           marked == {l \in ported : both(l) /\ l # Original(pair(l))}
           told(l) == IF l \in marked THEN [l EXCEPT !.mirror = LinkKey(Original(pair(l)))] ELSE l
           all == {told(l) : l \in g.links}
<1>1. Mirrored(g) = [g EXCEPT !.links = all]
    BY DEF Mirrored
<1>2. ASSUME NEW l \in g.links PROVE CableIn(P, U, told(l))
    <2>1. CableIn(P, U, l) /\ DOMAIN l = LinkFields
        BY DEF GraphIn, Planted, Drawn
    <2>2. told(l).src = l.src /\ told(l).dst = l.dst /\ told(l).by = l.by
        <3> HIDE DEF marked, pair
        <3> QED
            BY <2>1 DEF LinkFields
    <2> HIDE DEF told
    <2> QED
        BY <2>1, <2>2, SameCableIn
<1> HIDE DEF told
<1>3. \A l \in all : CableIn(P, U, l)
    BY <1>2
<1> HIDE DEF all
<1>4. Mirrored(g).nodes = g.nodes /\ Mirrored(g).links = all
    BY <1>1 DEF Planted
<1> QED
    BY <1>3, <1>4 DEF GraphIn

\* The graph a discovery keeps is true of the network it read.
LEMMA DiscoveredTrue ==
    ASSUME NEW in, NEW w, NEW P, NEW U, Ground(in, w, P, U),
           NEW set \in SUBSET Names, NEW radios, IsFiniteSet(radios),
           NEW clients, Referenced(clients), IsFiniteSet(clients)
    PROVE  GraphIn(P, U, Discovered(in, set, radios, clients))
<1> DEFINE ix == Indexes(in)
           folded == Folded(Laid(in), ix)
           cabled == Tunnelled(Subnetted(folded, in), in, ix)
           routers == Proven(WithSkipped(cabled, set), in, ix)
           all == WithClients(WithRadios(Oriented(routers, in, ix), radios), in, clients)
           whole == Mirrored(WithCpes(all, in, clients))
<1>1. Input(in)
    BY DEF Ground, Truthful
<1>2. Bare(cabled) /\ GraphIn(P, U, cabled)
    <2>1. Bare(folded) /\ GraphIn(P, U, folded)
        BY <1>1, FoldedSound, FoldedTrue
    <2> HIDE DEF folded
    <2>2. Bare(Subnetted(folded, in)) /\ GraphIn(P, U, Subnetted(folded, in))
        BY <1>1, <2>1, SubnettedSound, SubnettedTrue
    <2> QED
        BY <1>1, <2>2, TunnelledSound, TunnelledTrue
<1>3. Bare(routers) /\ GraphIn(P, U, routers)
    <2> HIDE DEF cabled
    <2>1. Bare(WithSkipped(cabled, set)) /\ GraphIn(P, U, WithSkipped(cabled, set))
        BY <1>2, SkippedSound, SkippedTrue
    <2> QED
        BY <1>1, <2>1, ProvenSound, ProvenTrue
<1>4. Planted(all) /\ GraphIn(P, U, all)
    <2> HIDE DEF routers
    <2>1. Bare(Oriented(routers, in, ix)) /\ GraphIn(P, U, Oriented(routers, in, ix))
        BY <1>3, OrientedSound, OrientedTrue
    <2>2. /\ Bare(WithRadios(Oriented(routers, in, ix), radios))
          /\ GraphIn(P, U, WithRadios(Oriented(routers, in, ix), radios))
        BY <2>1, RadiosSound, RadiosTrue
    <2> QED
        BY <1>1, <2>2, ClientsSound, ClientsTrue
<1>5. GraphIn(P, U, whole)
    <2> HIDE DEF all
    <2>1. Planted(WithCpes(all, in, clients)) /\ GraphIn(P, U, WithCpes(all, in, clients))
        BY <1>4, CpesSound, CpesTrue
    <2> QED
        BY <2>1, MirroredTrue
<1>6. /\ Discovered(in, set, radios, clients).nodes = whole.nodes
      /\ Discovered(in, set, radios, clients).links = whole.links
    BY DEF Discovered
<1> HIDE DEF whole
<1> QED
    BY <1>5, <1>6 DEF GraphIn

-----------------------------------------------------------------------------
(* What was true of a network stays true when more of it is seen, and more  *)
(* routers are missed.                                                     *)
Wider(P, Q, U, V) ==
    /\ P # {} /\ P \subseteq Q /\ U \subseteq V
    /\ \A w \in Q : Names \subseteq Devices(w)

LEMMA KnownWider ==
    ASSUME NEW P, NEW Q, P \subseteq Q, NEW d
    PROVE  /\ KnownIn(P, d) \subseteq KnownIn(Q, d) /\ MacsIn(P, d) \subseteq MacsIn(Q, d)
           /\ NamedIn(P, d) \subseteq NamedIn(Q, d)
BY DEF KnownIn, MacsIn, NamedIn

LEMMA MacsWider ==
    ASSUME NEW P, NEW Q, P # {}, P \subseteq Q, \A w \in Q : Names \subseteq Devices(w), MacsKept(Q),
           NEW r \in Names
    PROVE  MacsKept(P) /\ MacsIn(P, r) = MacsIn(Q, r)
<1>1. MacsKept(P)
    BY DEF MacsKept
<1>2. PICK v \in P : TRUE
    OBVIOUS
<1>3. \A w \in Q : Range(w.device[r].mac) = Range(v.device[r].mac)
    BY <1>2 DEF MacsKept
<1>4. {w \in Q : r \in Devices(w)} = Q /\ {w \in P : r \in Devices(w)} = P
    OBVIOUS
<1>5. MacsIn(Q, r) = Range(v.device[r].mac)
    BY <1>2, <1>3, <1>4 DEF MacsIn
<1>6. MacsIn(P, r) = Range(v.device[r].mac)
    BY <1>2, <1>3, <1>4 DEF MacsIn
<1> QED
    BY <1>1, <1>5, <1>6

LEMMA RouterWider ==
    ASSUME NEW P, NEW Q, NEW U, NEW V, Wider(P, Q, U, V), NEW r \in Names,
           NEW macs, NEW name, NEW loopback, RouterIn(P, r, macs, name, loopback)
    PROVE  RouterIn(Q, r, macs, name, loopback)
<1>1. P \subseteq Q
    BY DEF Wider
<1>2. macs \subseteq MacsIn(Q, r)
    BY <1>1, KnownWider DEF RouterIn
<1>3. name \in NamedIn(Q, r) \cup Generic \cup {None}
    BY <1>1, KnownWider DEF RouterIn
<1>4. loopback \in KnownIn(Q, r) \cup {None}
    BY <1>1, KnownWider DEF RouterIn
<1>5. MacsKept(Q) => MacsKept(P) /\ MacsIn(P, r) = MacsIn(Q, r)
    BY MacsWider DEF Wider
<1>6. MacsKept(Q) => macs \in {{}, MacsIn(Q, r)}
    BY <1>5 DEF RouterIn
<1> QED
    BY <1>2, <1>3, <1>4, <1>6 DEF RouterIn

LEMMA MemoryWider ==
    ASSUME NEW P, NEW Q, NEW U, NEW V, Wider(P, Q, U, V), NEW o, NEW lo, NEW la,
           MemoryIn(P, o, lo, la)
    PROVE  MemoryIn(Q, o, lo, la)
<1>1. P \subseteq Q
    BY DEF Wider
<1>2. \A d : KnownIn(P, d) \subseteq KnownIn(Q, d)
    BY <1>1, KnownWider
<1>3. \A r \in Names : la[r] # None => RouterIn(Q, r, la[r].macs, la[r].name, la[r].loopback)
    BY RouterWider DEF MemoryIn
<1> QED
    BY <1>2, <1>3 DEF MemoryIn

LEMMA CableWider ==
    ASSUME NEW P, NEW Q, NEW U, NEW V, Wider(P, Q, U, V), NEW l, CableIn(P, U, l)
    PROVE  CableIn(Q, V, l)
<1>1. P \subseteq Q /\ U \subseteq V
    BY DEF Wider
<1>2. ASSUME NEW a, NEW b, WiredIn(P, a, b) PROVE WiredIn(Q, a, b)
    <2>1. KnownIn(P, b) \subseteq KnownIn(Q, b)
        BY <1>1, KnownWider
    <2> QED
        BY <1>1, <1>2, <2>1 DEF WiredIn
<1>3. ASSUME NEW a, NEW b, OneSubnetIn(P, a, b) PROVE OneSubnetIn(Q, a, b)
    BY <1>1, <1>3 DEF OneSubnetIn
<1>4. ASSUME NEW x, NEW a, PassesIn(P, U, x, a) PROVE PassesIn(Q, V, x, a)
    <2>1. MacsIn(P, x) \subseteq MacsIn(Q, x) /\ MacsIn(P, a) \subseteq MacsIn(Q, a)
        BY <1>1, KnownWider
    <2> QED
        BY <1>1, <1>4, <2>1 DEF PassesIn
<1>5. ASSUME NEW a, NEW b, LookalikeIn(P, U, a, b) PROVE LookalikeIn(Q, V, a, b)
    <2>1. UNION {Devices(v) : v \in P} \subseteq UNION {Devices(v) : v \in Q}
        BY <1>1
    <2> QED
        BY <1>1, <1>4, <1>5, <2>1 DEF LookalikeIn
<1> QED
    BY <1>2, <1>3, <1>5 DEF CableIn, CabledIn

LEMMA BoxWider ==
    ASSUME NEW P, NEW Q, NEW U, NEW V, Wider(P, Q, U, V), NEW k, NEW n,
           OfRouter(k) => k \in RouterKeys, BoxIn(P, U, k, n)
    PROVE  BoxIn(Q, V, k, n)
<1>1. P \subseteq Q /\ U \subseteq V
    BY DEF Wider
<1>2. OfRouter(k) => k[2] \in Names
    BY DEF RouterKeys, RouterKey
<1>3. OfRouter(k) => RouterIn(Q, k[2], n.macs, n.ident, n.loopback)
    BY <1>2, RouterWider DEF BoxIn
<1>4. k[1] = "identity" => ConfusedIn(Q, V, k[2])
    BY <1>1 DEF BoxIn, ConfusedIn
<1> QED
    BY <1>3, <1>4 DEF BoxIn

LEMMA GraphWider ==
    ASSUME NEW P, NEW Q, NEW U, NEW V, Wider(P, Q, U, V), NEW g, Boxes(g.nodes), GraphIn(P, U, g)
    PROVE  GraphIn(Q, V, g)
<1>1. ASSUME NEW k \in DOMAIN g.nodes PROVE BoxIn(Q, V, k, g.nodes[k])
    BY BoxWider DEF GraphIn, Boxes, Labelled
<1>2. ASSUME NEW l \in g.links PROVE CableIn(Q, V, l)
    BY CableWider DEF GraphIn
<1> QED
    BY <1>1, <1>2 DEF GraphIn

LEMMA IdentifiedNarrows ==
    ASSUME NEW P, NEW Q, P \subseteq Q, Identified(Q)
    PROVE  Identified(P)
BY DEF Identified

-----------------------------------------------------------------------------
(* What the process and the database hold is true of the network so far.    *)
Told == Identified(Range(story.worlds))
MemoryTrue == MemoryIn(Past, own, loops, last)
RunsTrue ==
    \A d \in Discoveries : run[d].phase = "save" => GraphIn(Past, unread, run[d].graph)
BoxesTrue == \A k \in DOMAIN nodes : BoxIn(Past, unread, k, nodes[k])
TreeTrue == \A k \in DOMAIN links : CableIn(Past, unread, links[k])

\* The network of now is among those so far.
LEMMA PastHolds ==
    ASSUME StoryHolds
    PROVE  /\ at \in 1..Len(story.worlds) /\ Len(story.worlds) \in Nat
           /\ Past \subseteq Range(story.worlds) /\ World \in Past
<1>1. PICK worlds : worlds = story.worlds /\ worlds \in Seq(Range(worlds))
    BY TopologyAssumption DEF StoryHolds
<1>2. DOMAIN worlds = 1..Len(worlds) /\ Len(worlds) \in Nat
    BY <1>1
<1>3. at \in 1..Len(worlds) /\ at \in 1..at /\ 1..at \subseteq DOMAIN worlds
    BY <1>1, <1>2 DEF StoryHolds
<1> QED
    BY <1>1, <1>2, <1>3 DEF Past, World, Range

\* The network only moves on, and a router once missed stays so.
LEMMA StoryGoesOn ==
    ASSUME StoryHolds, Told, [Next]_vars
    PROVE  Told' /\ Wider(Past, Past', unread, unread')
<1>1. story' = story
    BY DEF Next, vars, Begins, Reads, Saves, SaveFails, Forgets, ForgetFails, Attaches, MergesBoxes,
           UnmergesBox, LinksByHand, HidesLink, ForgetsStale, Reloads, Restarts, NetworkChanges
<1>2. at' \in {at, at + 1}
    BY DEF Next, vars, Begins, Reads, Saves, SaveFails, Forgets, ForgetFails, Attaches, MergesBoxes,
           UnmergesBox, LinksByHand, HidesLink, ForgetsStale, Reloads, Restarts, NetworkChanges
<1>3. unread \subseteq unread'
    BY DEF Next, vars, Begins, Reads, Saves, SaveFails, Forgets, ForgetFails, Attaches, MergesBoxes,
           UnmergesBox, LinksByHand, HidesLink, ForgetsStale, Reloads, Restarts, NetworkChanges
<1>4. Past \subseteq Past'
    <2>1. \A i \in 1..at : i \in 1..at'
        BY <1>2, PastHolds
    <2> QED
        BY <1>1, <2>1 DEF Past
<1>5. StoryHolds'
    BY StoryStep
<1>6. Told'
    BY <1>1 DEF Told
<1>7. Past' \subseteq Range(story.worlds)
    <2>1. at' \in DOMAIN story.worlds /\ Len(story.worlds) \in Nat
        BY <1>1, <1>5, PastHolds DEF StoryHolds
    <2>2. DOMAIN story.worlds = 1..Len(story.worlds)
        <3>1. PICK worlds : worlds = story.worlds /\ worlds \in Seq(Range(worlds))
            BY TopologyAssumption DEF StoryHolds
        <3> QED
            BY <3>1
    <2>3. \A i \in 1..at' : i \in DOMAIN story.worlds
        BY <2>1, <2>2
    <2> QED
        BY <1>1, <2>3 DEF Past, Range
<1>8. \A w \in Past' : Names \subseteq Devices(w)
    BY <1>7 DEF Told, Identified
<1>9. Past # {}
    BY PastHolds
<1> QED
    BY <1>3, <1>4, <1>6, <1>8, <1>9 DEF Wider

LEMMA WorldNumbered ==
    ASSUME StoryHolds
    PROVE  Numbered(World)
<1>1. World \in Range(story.worlds)
    BY PastHolds
<1>2. story \in Stories
    BY DEF StoryHolds
<1> QED
    BY <1>1, <1>2, TopologyAssumption DEF Numbered, Devices

\* What a process remembers of the routers it has read is true of them.
LEMMA RenewedTrue ==
    ASSUME NEW in, NEW w, NEW P, NEW U, Ground(in, w, P, U), in.own = own
    PROVE  \A ip \in DOMAIN Renewed(in) : ip \in KnownIn(P, Renewed(in)[ip])
<1> DEFINE read == {r \in in.listed : in.read[r] # None}
           ips(r) == {a.ip : a \in in.read[r].addrs}
           of(ip) == {r \in read : ip \in ips(r)}
           new == UNION {ips(r) : r \in read}
           kept == {ip \in DOMAIN own : own[ip] \notin read /\ ip \notin new}
           lastOf(ip) == CHOOSE r \in of(ip) : \A s \in of(ip) : Rank(r) >= Rank(s)
<1>1. Renewed(in) = [ip \in kept \cup new |-> IF ip \in new THEN lastOf(ip) ELSE own[ip]]
    BY DEF Renewed
<1>2. \A ip \in kept : ip \in KnownIn(P, own[ip])
    BY DEF Ground, Truthful, MemoryIn
<1>3. ASSUME NEW ip \in new PROVE ip \in KnownIn(P, lastOf(ip))
    <2>1. of(ip) # {}
        OBVIOUS
    <2>2. of(ip) \subseteq Names
        BY DEF Ground, Truthful, Input
    <2>3. \A r \in Names : Rank(r) \in 0..Len(Routers)
        <3>1. ASSUME NEW r \in Names PROVE Rank(r) \in DOMAIN Routers
            BY DEF Names, Range, Rank
        <3> QED
            BY <3>1, RoutersAssumption
    <2>4. \E r \in of(ip) : \A s \in of(ip) : Rank(r) >= Rank(s)
        <3> DEFINE S == {Rank(r) : r \in of(ip)}
        <3>1. S \subseteq 0..Len(Routers) /\ S # {} /\ Len(Routers) \in Nat
            BY <2>1, <2>2, <2>3, RoutersAssumption
        <3> HIDE DEF S
        <3>2. PICK n \in S : \A j \in S : j <= n
            BY <3>1, GreatestNumber
        <3> USE DEF S
        <3>3. PICK r \in of(ip) : n = Rank(r)
            BY <3>2
        <3>4. ASSUME NEW s \in of(ip) PROVE Rank(r) >= Rank(s)
            BY <2>2, <2>3, <3>2, <3>3
        <3> QED
            BY <3>4
    <2>5. PICK r : r = lastOf(ip) /\ r \in of(ip)
        BY <2>4
    <2>6. r \in read /\ ip \in ips(r)
        BY <2>5
    <2>7. ip \in KnownIn(P, r)
        <3>1. ip \in {a.ip : a \in w.device[r].addrs}
            BY <2>6, ReadHere
        <3> QED
            BY <3>1 DEF KnownIn, AddressesIn, Ground
    <2> QED
        BY <2>5, <2>7
<1> HIDE DEF kept, new, lastOf
<1> QED
    BY <1>1, <1>2, <1>3

\* The answers of the routers, taken in: what is remembered and the graph.
LEMMA ReadsTrue ==
    ASSUME StoryHolds, RunsHold, Told, MemoryTrue, RunsTrue, NEW d \in Discoveries, Reads(d),
           Wider(Past, Past', unread, unread')
    PROVE  MemoryTrue' /\ RunsTrue'
<1>1. PICK silent \in SUBSET (run[d].listed \cap story.silent) :
      \E radios \in {World.radios, {}} :
         LET in == [listed |-> run[d].listed, own |-> own, loops |-> loops, last |-> last,
                    read |-> [r \in run[d].listed |->
                                IF r \in silent THEN None ELSE Reading(World, r)]]
             g == Discovered(in, skipped, radios, World.clients)
         IN /\ Remembers(in, g)
            /\ run' = [run EXCEPT ![d].phase = "save", ![d].graph = g]
            /\ unread' = unread \cup {r \in Names : r \notin in.listed \/ in.read[r] = None}
    BY DEF Reads
<1>2. PICK radios \in {World.radios, {}} :
         LET in == [listed |-> run[d].listed, own |-> own, loops |-> loops, last |-> last,
                    read |-> [r \in run[d].listed |->
                                IF r \in silent THEN None ELSE Reading(World, r)]]
             g == Discovered(in, skipped, radios, World.clients)
         IN /\ Remembers(in, g)
            /\ run' = [run EXCEPT ![d].phase = "save", ![d].graph = g]
            /\ unread' = unread \cup {r \in Names : r \notin in.listed \/ in.read[r] = None}
    BY <1>1
<1> DEFINE from == [listed |-> run[d].listed, own |-> own, loops |-> loops, last |-> last,
                    read |-> [r \in run[d].listed |->
                                IF r \in silent THEN None ELSE Reading(World, r)]]
<1>3. PICK in : in = from
    OBVIOUS
<1>4. PICK g : g = Discovered(in, skipped, radios, World.clients)
    OBVIOUS
<1>5. /\ Remembers(in, g)
      /\ run' = [run EXCEPT ![d].phase = "save", ![d].graph = g]
      /\ unread' = unread \cup {r \in Names : r \notin in.listed \/ in.read[r] = None}
    BY <1>2, <1>3, <1>4
<1>6. UNCHANGED <<story, at>>
    BY DEF Reads
<1>7. Past' = Past
    BY <1>6 DEF Past
<1>8. Input(in)
    <2>1. in.listed = run[d].listed
        BY <1>3
    <2>2. \A r \in run[d].listed : in.read[r] # None => in.read[r] = Reading(World, r)
        BY <1>3
    <2>3. \A r \in run[d].listed : IsFiniteSet(Reading(World, r).sees)
        BY WorldHolds, SeesFinitely DEF RunsHold
    <2> QED
        BY <2>1, <2>2, <2>3, SeenByItself DEF RunsHold, Input
<1>9. Ground(in, World, Past, unread')
    <2>1. Identified(Past)
        BY PastHolds, IdentifiedNarrows DEF Told
    <2>2. MemoryIn(Past, in.own, in.loops, in.last)
        BY <1>3 DEF MemoryTrue
    <2>3. \A r \in in.listed : in.read[r] # None => in.read[r] = Reading(World, r)
        BY <1>3
    <2>4. ASSUME NEW r \in Names, r \notin unread' PROVE r \in in.listed /\ in.read[r] # None
        BY <1>5, <2>4
    <2> QED
        BY <1>8, <2>1, <2>2, <2>3, <2>4, PastHolds, WorldNumbered DEF Ground, Truthful
<1>10. Boxes(g.nodes) /\ Whole(g) /\ GraphIn(Past, unread', g)
    <2>1. IsFiniteSet(radios)
        BY <1>2, WorldHolds, FS_EmptySet
    <2>2. skipped \subseteq Names
        BY DEF StoryHolds
    <2>3. Whole(g)
        BY <1>4, <1>8, <2>1, <2>2, WorldHolds, DiscoveredWhole
    <2>4. GraphIn(Past, unread', g)
        BY <1>4, <1>9, <2>1, <2>2, WorldHolds, DiscoveredTrue
    <2> QED
        BY <2>3, <2>4 DEF Whole
<1>11. MemoryTrue'
    <2>1. \A ip \in DOMAIN own' : ip \in KnownIn(Past, own'[ip])
        BY <1>3, <1>5, <1>9, RenewedTrue DEF Remembers
    <2>2. ASSUME NEW r \in Names PROVE loops'[r] \in KnownIn(Past, r) \cup {None}
        <3>1. loops'[r] = IF r \in in.listed /\ in.read[r] # None THEN LoopbackOf(in, r) ELSE loops[r]
            BY <1>5 DEF Remembers
        <3> QED
            BY <1>9, <3>1, LoopbackTrue DEF MemoryTrue, MemoryIn
    <2>3. ASSUME NEW r \in Names, last'[r] # None
          PROVE  RouterIn(Past, r, last'[r].macs, last'[r].name, last'[r].loopback)
        <3>1. PICK k : k = RouterKey(r)
            OBVIOUS
        <3>2. PICK n : n = g.nodes[k]
            OBVIOUS
        <3>3. last'[r] = IF k \notin DOMAIN g.nodes THEN None
                         ELSE [macs |-> n.macs, name |-> n.ident, loopback |-> n.loopback]
            BY <1>5, <3>1, <3>2 DEF Remembers
        <3>4. k \in DOMAIN g.nodes
            BY <2>3, <3>3
        <3>5. BoxIn(Past, unread', k, n)
            BY <1>10, <3>2, <3>4 DEF GraphIn
        <3>6. OfRouter(k) /\ k[2] = r
            BY <3>1 DEF RouterKey, OfRouter
        <3> QED
            BY <3>3, <3>4, <3>5, <3>6 DEF BoxIn
    <2> QED
        BY <1>7, <2>1, <2>2, <2>3 DEF MemoryTrue, MemoryIn
<1>12. ASSUME NEW e \in Discoveries, run'[e].phase = "save"
       PROVE  GraphIn(Past', unread', run'[e].graph)
    <2>1. CASE e = d
        <3>1. run'[d].graph = g
            BY <1>5 DEF RunsHold
        <3> QED
            BY <1>7, <1>10, <2>1, <3>1
    <2>2. CASE e # d
        <3>1. PICK h : h = run[e].graph
            OBVIOUS
        <3>2. run'[e] = run[e]
            BY <1>5, <2>2 DEF RunsHold
        <3>3. Whole(h) /\ GraphIn(Past, unread, h)
            BY <1>12, <3>1, <3>2 DEF RunsHold, RunsTrue
        <3>4. GraphIn(Past', unread', h)
            BY <3>3, GraphWider DEF Whole
        <3> QED
            BY <3>1, <3>2, <3>4
    <2> QED
        BY <2>1, <2>2
<1> QED
    BY <1>11, <1>12 DEF RunsTrue

\* What a save writes is true when what it held and what it is given are.
LEMMA UpsertedTrue ==
    ASSUME NEW P, NEW U, NEW k, NEW old, NEW new, BoxIn(P, U, k, old), BoxIn(P, U, k, new),
           Labelled(k, new)
    PROVE  BoxIn(P, U, k, Upserted(old, new))
<1>1. PICK n : n = Upserted(old, new)
    OBVIOUS
<1>2. /\ n.macs = IF new.macs = {} THEN old.macs ELSE new.macs
      /\ n.ident = IF new.ident = None THEN old.ident ELSE new.ident
      /\ n.loopback = IF new.loopback = None THEN old.loopback ELSE new.loopback
    BY <1>1 DEF Upserted, Labelled, BoxFields
<1>3. OfRouter(k) => RouterIn(P, k[2], n.macs, n.ident, n.loopback)
    BY <1>2 DEF BoxIn, RouterIn
<1>4. BoxIn(P, U, k, n)
    BY <1>2, <1>3 DEF BoxIn
<1> QED
    BY <1>1, <1>4

LEMMA SavedBoxesTrue ==
    ASSUME NEW P, NEW U, NEW g, Boxes(g.nodes), GraphIn(P, U, g),
           \A k \in DOMAIN nodes : BoxIn(P, U, k, nodes[k])
    PROVE  \A k \in DOMAIN SavedNodes(g) : BoxIn(P, U, k, SavedNodes(g)[k])
<1> DEFINE fresh(k) == Over(g.nodes[k], [seen |-> saves + 1])
           now(k) == IF k \in DOMAIN nodes THEN Upserted(nodes[k], fresh(k)) ELSE fresh(k)
           laid == [k \in DOMAIN g.nodes |-> now(k)]
<1>1. SavedNodes(g) = Over(laid, nodes)
    BY DEF SavedNodes
<1>2. ASSUME NEW k \in DOMAIN g.nodes PROVE Labelled(k, fresh(k)) /\ BoxIn(P, U, k, fresh(k))
    <2>1. PICK n : n = g.nodes[k] /\ Labelled(k, n) /\ BoxIn(P, U, k, n)
        BY DEF Boxes, GraphIn
    <2>2. fresh(k) = Over(n, [seen |-> saves + 1])
        BY <2>1
    <2> HIDE DEF fresh
    <2>3. /\ BoxFields \subseteq DOMAIN fresh(k)
          /\ fresh(k).managed = n.managed /\ fresh(k).macs = n.macs
          /\ fresh(k).serial = n.serial /\ fresh(k).cpe = n.cpe
          /\ fresh(k).ident = n.ident /\ fresh(k).loopback = n.loopback
        BY <2>1, <2>2 DEF Over, Labelled, BoxFields
    <2> QED
        BY <2>1, <2>3, SameLabel, SameBoxIn
<1> HIDE DEF fresh
<1>3. ASSUME NEW k \in DOMAIN g.nodes PROVE BoxIn(P, U, k, now(k))
    BY <1>2, UpsertedTrue
<1> HIDE DEF now
<1>4. /\ DOMAIN Over(laid, nodes) = DOMAIN g.nodes \cup DOMAIN nodes
      /\ \A k \in DOMAIN g.nodes : Over(laid, nodes)[k] = now(k)
      /\ \A k \in DOMAIN nodes \ DOMAIN g.nodes : Over(laid, nodes)[k] = nodes[k]
    BY DEF Over
<1> HIDE DEF laid
<1> QED
    BY <1>1, <1>3, <1>4

LEMMA SavedTreeTrue ==
    ASSUME NEW P, NEW U, NEW g, Whole(g), GraphIn(P, U, g),
           \A k \in DOMAIN links : CableIn(P, U, links[k])
    PROVE  \A k \in DOMAIN SavedLinks(g) : CableIn(P, U, SavedLinks(g)[k])
<1> DEFINE keys == KeysOf(g)
           chosen(k) == CHOOSE l \in g.links : LinkKey(l) = k
           fresh(k) == Over(chosen(k), [hidden |-> FALSE])
           now(k) == IF k \in DOMAIN links THEN LinkUpserted(links[k], fresh(k)) ELSE fresh(k)
           all == Over([k \in keys |-> now(k)], links)
           stay == DOMAIN all \ Outdated(g.links)
           h == [k \in stay |-> all[k]]
<1>1. SavedLinks(g) = h
    BY DEF SavedLinks, KeysOf
<1>2. ASSUME NEW k \in keys
      PROVE  chosen(k) \in g.links
    BY DEF KeysOf
<1> HIDE DEF chosen
<1>3. ASSUME NEW k \in keys
      PROVE  /\ DOMAIN fresh(k) = LinkFields \cup {"hidden"}
             /\ fresh(k).src = chosen(k).src /\ fresh(k).dst = chosen(k).dst
             /\ fresh(k).by = chosen(k).by
    <2>1. DOMAIN chosen(k) = LinkFields
        BY <1>2 DEF Whole
    <2> QED
        BY <2>1 DEF Over, LinkFields
<1> HIDE DEF fresh
<1>4. ASSUME NEW k \in keys
      PROVE  now(k).src = chosen(k).src /\ now(k).dst = chosen(k).dst /\ now(k).by = chosen(k).by
    <2>1. PICK new, old : new = fresh(k) /\ old = links[k]
        OBVIOUS
    <2>2. now(k) = IF k \in DOMAIN links THEN LinkUpserted(old, new) ELSE new
        BY <2>1
    <2> HIDE DEF now
    <2>3. PICK l : l = LinkUpserted(old, new)
        OBVIOUS
    <2>4. l.src = new.src /\ l.dst = new.dst /\ l.by = new.by
        BY <1>3, <2>1, <2>3, UpsertedLink
    <2> QED
        BY <1>3, <2>1, <2>2, <2>3, <2>4
<1> HIDE DEF now
<1>5. ASSUME NEW k \in keys PROVE CableIn(P, U, now(k))
    <2>1. CableIn(P, U, chosen(k))
        BY <1>2 DEF GraphIn
    <2> QED
        BY <1>4, <2>1, SameCableIn
<1>6. /\ DOMAIN all = keys \cup DOMAIN links
      /\ \A k \in keys : all[k] = now(k)
      /\ \A k \in DOMAIN links : k \notin keys => all[k] = links[k]
    BY DEF Over
<1> HIDE DEF all
<1> QED
    BY <1>1, <1>5, <1>6

LEMMA SavesTrue ==
    ASSUME RunsHold, RunsTrue, BoxesTrue, TreeTrue, NEW d \in Discoveries, Saves(d)
    PROVE  BoxesTrue' /\ TreeTrue'
<1>1. PICK g : g = run[d].graph
    OBVIOUS
<1>2. Whole(g) /\ GraphIn(Past, unread, g)
    BY <1>1 DEF Saves, RunsHold, RunsTrue
<1>3. nodes' = SavedNodes(g) /\ links' = SavedLinks(g) /\ Past' = Past /\ unread' = unread
    BY <1>1 DEF Saves, Past
<1>4. BoxesTrue'
    BY <1>2, <1>3, SavedBoxesTrue DEF Whole, BoxesTrue
<1>5. TreeTrue'
    BY <1>2, <1>3, SavedTreeTrue DEF TreeTrue
<1> QED
    BY <1>4, <1>5

-----------------------------------------------------------------------------
(* The steps.                                                               *)
\* What stays in the database stays true.
LEMMA BoxesStay ==
    ASSUME BoxesHold, BoxesTrue, Wider(Past, Past', unread, unread'),
           DOMAIN nodes' \subseteq DOMAIN nodes, \A k \in DOMAIN nodes' : nodes'[k] = nodes[k]
    PROVE  BoxesTrue'
<1>1. \A k \in DOMAIN nodes : BoxIn(Past', unread', k, nodes[k])
    BY BoxWider DEF BoxesHold, Boxes, Labelled, BoxesTrue
<1> QED
    BY <1>1 DEF BoxesTrue

LEMMA TreeStays ==
    ASSUME TreeTrue, Wider(Past, Past', unread, unread'),
           \A k \in DOMAIN links' : \/ links'[k].by = "manual"
                                    \/ /\ k \in DOMAIN links /\ links'[k].by = links[k].by
                                       /\ links'[k].src = links[k].src
                                       /\ links'[k].dst = links[k].dst
    PROVE  TreeTrue'
<1>1. \A k \in DOMAIN links : CableIn(Past', unread', links[k])
    BY CableWider DEF TreeTrue
<1>2. ASSUME NEW k \in DOMAIN links' PROVE CableIn(Past', unread', links'[k])
    <2>1. CASE links'[k].by = "manual"
        BY <2>1 DEF CableIn
    <2>2. CASE links'[k].by # "manual"
        BY <1>1, <2>2, SameCableIn
    <2> QED
        BY <2>1, <2>2
<1> QED
    BY <1>2 DEF TreeTrue

TrueHolds == MemoryTrue /\ RunsTrue /\ BoxesTrue /\ TreeTrue

LEMMA NothingIsTrue ==
    ASSUME NEW P
    PROVE  MemoryIn(P, Nothing, [r \in Names |-> None], [r \in Names |-> None])
BY DEF MemoryIn, Nothing

LEMMA MemoryStep ==
    ASSUME StoryHolds, RunsHold, Told, MemoryTrue, RunsTrue, [Next]_vars,
           Wider(Past, Past', unread, unread')
    PROVE  MemoryTrue' /\ RunsTrue'
<1>1. MemoryIn(Past', own, loops, last)
    BY MemoryWider DEF MemoryTrue
<1>2. ASSUME NEW d \in Discoveries, run[d].phase = "save"
      PROVE  GraphIn(Past', unread', run[d].graph)
    BY <1>2, GraphWider DEF RunsTrue, RunsHold, Whole
<1>3. UNCHANGED memory => MemoryTrue'
    BY <1>1 DEF memory, MemoryTrue
<1>4. UNCHANGED run => RunsTrue'
    BY <1>2 DEF RunsTrue
<1>5. ASSUME NEW d \in Discoveries, Reads(d) PROVE MemoryTrue' /\ RunsTrue'
    BY <1>5, ReadsTrue
<1>6. ASSUME NEW d \in Discoveries,
             \/ run' = [run EXCEPT ![d] = [phase |-> "read", listed |-> listed, graph |-> None]]
             \/ run' = [run EXCEPT ![d].phase = "forget"]
             \/ run' = [run EXCEPT ![d].phase = "attach"]
             \/ run' = [run EXCEPT ![d] = Idle]
      PROVE  RunsTrue'
    <2>1. ASSUME NEW e \in Discoveries, run'[e].phase = "save"
          PROVE  run[e].phase = "save" /\ run'[e].graph = run[e].graph
        BY <1>6, <2>1 DEF RunsHold, Idle
    <2> QED
        BY <1>2, <2>1 DEF RunsTrue
<1>7. ASSUME NEW d \in Discoveries,
             \/ Begins(d) \/ Saves(d) \/ SaveFails(d)
             \/ Forgets(d) \/ ForgetFails(d) \/ Attaches(d)
      PROVE  MemoryTrue' /\ RunsTrue'
    <2>1. UNCHANGED memory
        BY <1>7 DEF Begins, Saves, SaveFails, Forgets, ForgetFails, Attaches
    <2>2. RunsTrue'
        BY <1>6, <1>7 DEF Begins, Saves, SaveFails, Forgets, ForgetFails, Attaches
    <2> QED
        BY <1>3, <2>1, <2>2
<1>8. ASSUME NEW ask \in asks,
             MergesBoxes(ask) \/ UnmergesBox(ask) \/ LinksByHand(ask) \/ HidesLink(ask)
               \/ ForgetsStale(ask) \/ Reloads(ask)
      PROVE  UNCHANGED <<memory, run>>
    BY <1>8 DEF MergesBoxes, UnmergesBox, LinksByHand, HidesLink, ForgetsStale, Reloads
<1>9. ASSUME NEW ask \in asks, Restarts(ask) PROVE MemoryTrue' /\ RunsTrue'
    <2>1. MemoryTrue'
        BY <1>9, NothingIsTrue DEF Restarts, MemoryTrue
    <2>2. RunsTrue'
        BY <1>9 DEF Restarts, Idle, RunsTrue
    <2> QED
        BY <2>1, <2>2
<1>10. NetworkChanges \/ UNCHANGED vars => UNCHANGED <<memory, run>>
    BY DEF NetworkChanges, vars
<1> QED
    BY <1>3, <1>4, <1>5, <1>7, <1>8, <1>9, <1>10 DEF Next

LEMMA BoxesTrueStep ==
    ASSUME RunsHold, BoxesHold, RunsTrue, BoxesTrue, TreeTrue, [Next]_vars,
           Wider(Past, Past', unread, unread')
    PROVE  BoxesTrue'
<1>1. ASSUME NEW d \in Discoveries, Saves(d) PROVE BoxesTrue'
    BY <1>1, SavesTrue
<1>2. UNCHANGED nodes => BoxesTrue'
    BY BoxesStay
<1>3. ASSUME NEW S \in SUBSET DOMAIN nodes, nodes' = [k \in S |-> nodes[k]] PROVE BoxesTrue'
    BY <1>3, BoxesStay
<1>4. ASSUME NEW d \in Discoveries, Forgets(d) PROVE BoxesTrue'
    BY <1>3, <1>4 DEF Forgets
<1>5. ASSUME NEW ask \in asks, ForgetsStale(ask) PROVE BoxesTrue'
    BY <1>3, <1>5 DEF ForgetsStale
<1>6. ASSUME NEW d \in Discoveries,
             Begins(d) \/ Reads(d) \/ SaveFails(d) \/ ForgetFails(d) \/ Attaches(d)
      PROVE  UNCHANGED nodes
    BY <1>6 DEF Begins, Reads, SaveFails, ForgetFails, Attaches, database
<1>7. ASSUME NEW ask \in asks,
             MergesBoxes(ask) \/ UnmergesBox(ask) \/ LinksByHand(ask) \/ HidesLink(ask)
               \/ Reloads(ask) \/ Restarts(ask)
      PROVE  UNCHANGED nodes
    BY <1>7 DEF MergesBoxes, UnmergesBox, LinksByHand, HidesLink, Reloads, Restarts, database
<1>8. NetworkChanges \/ UNCHANGED vars => UNCHANGED nodes
    BY DEF NetworkChanges, vars, database
<1> QED
    BY <1>1, <1>2, <1>4, <1>5, <1>6, <1>7, <1>8 DEF Next

LEMMA TreeTrueStep ==
    ASSUME RunsHold, BoxesHold, TreeHolds, RunsTrue, BoxesTrue, TreeTrue, [Next]_vars,
           Wider(Past, Past', unread, unread')
    PROVE  TreeTrue'
<1>1. ASSUME NEW d \in Discoveries, Saves(d) PROVE TreeTrue'
    BY <1>1, SavesTrue
<1>2. UNCHANGED links => TreeTrue'
    BY TreeStays
<1>3. ASSUME NEW S \in SUBSET DOMAIN links, links' = [k \in S |-> links[k]] PROVE TreeTrue'
    BY <1>3, TreeStays
<1>4. ASSUME NEW d \in Discoveries, Forgets(d) PROVE TreeTrue'
    BY <1>3, <1>4 DEF Forgets
<1>5. ASSUME NEW ask \in asks, ForgetsStale(ask) PROVE TreeTrue'
    BY <1>3, <1>5 DEF ForgetsStale
<1>6. ASSUME NEW ask \in asks, LinksByHand(ask) PROVE TreeTrue'
    <2>1. PICK l : /\ l = Over(Link(ask.a, ByHand, ask.b, "manual", "manual"), [hidden |-> FALSE])
                   /\ links' = [k \in DOMAIN links \cup {LinkKey(l)} |->
                                  IF k = LinkKey(l) THEN l ELSE links[k]]
        BY <1>6 DEF LinksByHand
    <2>2. l.by = "manual"
        BY <2>1 DEF Over, Link
    <2> QED
        BY <2>1, <2>2, TreeStays
<1>7. ASSUME NEW ask \in asks, HidesLink(ask) PROVE TreeTrue'
    <2>1. PICK i \in DOMAIN links : links' = [links EXCEPT ![i].hidden = TRUE]
        BY <1>7 DEF HidesLink
    <2>2. \A k \in DOMAIN links' :
             /\ k \in DOMAIN links
             /\ links'[k].src = links[k].src /\ links'[k].dst = links[k].dst
             /\ links'[k].by = links[k].by
        BY <2>1 DEF TreeHolds, Tree, LinkFields
    <2> QED
        BY <2>2, TreeStays
<1>8. ASSUME NEW d \in Discoveries,
             Begins(d) \/ Reads(d) \/ SaveFails(d) \/ ForgetFails(d) \/ Attaches(d)
      PROVE  UNCHANGED links
    BY <1>8 DEF Begins, Reads, SaveFails, ForgetFails, Attaches, database
<1>9. ASSUME NEW ask \in asks,
             MergesBoxes(ask) \/ UnmergesBox(ask) \/ Reloads(ask) \/ Restarts(ask)
      PROVE  UNCHANGED links
    BY <1>9 DEF MergesBoxes, UnmergesBox, Reloads, Restarts, database
<1>10. NetworkChanges \/ UNCHANGED vars => UNCHANGED links
    BY DEF NetworkChanges, vars, database
<1> QED
    BY <1>1, <1>2, <1>4, <1>5, <1>6, <1>7, <1>8, <1>9, <1>10 DEF Next

\* What is known of the network is true of it, after any step.
LEMMA TrueInv == Spec => [](Inv /\ (Told => TrueHolds))
<1>1. Init => (Told => TrueHolds)
    <2> SUFFICES ASSUME Init PROVE TrueHolds
        OBVIOUS
    <2>1. MemoryTrue
        BY NothingIsTrue DEF Init, MemoryTrue
    <2>2. RunsTrue
        BY DEF Init, Idle, RunsTrue
    <2>3. BoxesTrue /\ TreeTrue
        BY DEF Init, Nothing, BoxesTrue, TreeTrue
    <2> QED
        BY <2>1, <2>2, <2>3 DEF TrueHolds
<1>2. Inv /\ (Told => TrueHolds) /\ [Next]_vars => (Told => TrueHolds)'
    <2> SUFFICES ASSUME Inv, Told => TrueHolds, [Next]_vars, Told' PROVE TrueHolds'
        OBVIOUS
    <2>1. story' = story
        BY DEF Next, vars, Begins, Reads, Saves, SaveFails, Forgets, ForgetFails, Attaches,
               MergesBoxes, UnmergesBox, LinksByHand, HidesLink, ForgetsStale, Reloads, Restarts,
               NetworkChanges
    <2>2. Told
        BY <2>1 DEF Told
    <2>3. StoryHolds /\ RunsHold /\ BoxesHold /\ TreeHolds
        BY DEF Inv
    <2>4. MemoryTrue /\ RunsTrue /\ BoxesTrue /\ TreeTrue
        BY <2>2 DEF TrueHolds
    <2>5. Wider(Past, Past', unread, unread')
        BY <2>2, <2>3, StoryGoesOn
    <2>6. MemoryTrue' /\ RunsTrue'
        BY <2>2, <2>3, <2>4, <2>5, MemoryStep
    <2>7. BoxesTrue' /\ TreeTrue'
        BY <2>3, <2>4, <2>5, BoxesTrueStep, TreeTrueStep
    <2> QED
        BY <2>6, <2>7 DEF TrueHolds
<1>3. Inv /\ [Next]_vars => Inv'
    BY StoryStep, RunsStep, BoxesStep, TreeStep DEF Inv
<1> QED
    BY InitInv, <1>1, <1>2, <1>3, PTL DEF Spec

(***************************************************************************)
(* Where devices are told apart, a link the tree shows between two routers  *)
(* of the inventory, but for those laid by hand, is one the network has or  *)
(* had: a cable, a tunnel, a session, a subnet on both, or the cable of a   *)
(* device that passes for one of the two (link_by_shared_subnets,           *)
(* resolve_to_managed).                                                    *)
(***************************************************************************)
THEOREM TreeIsCabled == Spec => [](Identified(Range(story.worlds)) => LinksAreCables)
<1>1. Inv /\ (Told => TrueHolds) => (Identified(Range(story.worlds)) => LinksAreCables)
    <2> SUFFICES ASSUME TreeTrue, NEW k \in DOMAIN links, links[k].by # "manual",
                        BetweenRouters(links[k])
                 PROVE  \/ Wired(links[k].src[2], links[k].dst[2])
                        \/ OneSubnet(links[k].src[2], links[k].dst[2])
                        \/ Lookalike(links[k].src[2], links[k].dst[2])
        BY DEF Told, TrueHolds, LinksAreCables
    <2>1. PICK a, b : a = links[k].src[2] /\ b = links[k].dst[2]
        OBVIOUS
    <2>2. CabledIn(Past, unread, a, b)
        BY <2>1 DEF TreeTrue, CableIn, BetweenRouters, Across
    <2>3. WiredIn(Past, a, b) => Wired(a, b)
        BY DEF WiredIn, Wired, KnownIn, KnownAs, Adjacent
    <2>4. OneSubnetIn(Past, a, b) => OneSubnet(a, b)
        BY DEF OneSubnetIn, OneSubnet
    <2>5. LookalikeIn(Past, unread, a, b) => Lookalike(a, b)
        <3>1. \A x, y : PassesIn(Past, unread, x, y) => Passes(x, y)
            BY DEF PassesIn, Passes, MacsIn, MacsOf
        <3>2. \A w, x, y : Adjacent(w, x, y) => \E s \in w.segments : {x, y} \subseteq {e.of : e \in s}
            BY DEF Adjacent
        <3> QED
            BY <3>1, <3>2 DEF LookalikeIn, Lookalike
    <2> QED
        BY <2>1, <2>2, <2>3, <2>4, <2>5 DEF CabledIn
<1> QED
    BY TrueInv, <1>1, PTL

\* A neighbour whose MAC one router carries is folded into the box of it.
LEMMA NearIsMember ==
    ASSUME NEW f, IsFiniteSet(DOMAIN f), NEW al, NEW k \in DOMAIN f, NEW r,
           Same(f, al, k, r)
    PROVE  k \in Members(f, al, r)
<1>1. PICK N, R : N = Cardinality(DOMAIN f) /\ R = Reach(f, al, r)
    OBVIOUS
<1>2. /\ N \in Nat /\ R[0] = {r}
      /\ \A n \in 1..N : R[n] = Near(f, al, R[n - 1])
    BY <1>1, ReachSteps
<1>3. N # 0
    BY <1>1, FS_EmptySet
<1> DEFINE lacking == {n \in 1..N : k \notin R[n]}
<1>4. lacking = {}
    <2> SUFFICES ASSUME lacking # {} PROVE FALSE
        OBVIOUS
    <2>1. lacking \subseteq Nat
        BY <1>2
    <2> HIDE DEF lacking
    <2>2. PICK n \in lacking : \A j \in lacking : n <= j
        BY <2>1, LeastNumber
    <2> USE DEF lacking
    <2>3. n \in 1..N /\ k \notin R[n] /\ R[n] = Near(f, al, R[n - 1])
        BY <1>2, <2>2
    <2>4. n # 1
        BY <1>2, <2>3 DEF Near
    <2>5. n - 1 \in 1..N /\ n - 1 \notin lacking
        BY <1>2, <2>2, <2>3, <2>4
    <2>6. k \in R[n - 1]
        BY <2>5
    <2> QED
        BY <2>3, <2>6 DEF Near
<1>5. N \in 1..N
    BY <1>2, <1>3
<1>6. k \in R[N]
    BY <1>4, <1>5
<1> QED
    BY <1>1, <1>6 DEF Members

\* The router a MAC is of, when only one ever had it and its box knows it.
LEMMA MacFoldsIn ==
    ASSUME StoryHolds, BoxesHold, BoxesTrue, MacsKept(Past), NEW r \in Names,
           RouterKey(r) \in DOMAIN nodes, nodes[RouterKey(r)].macs # {},
           NEW k \in DOMAIN nodes, k[1] = "mac", Represents(k) = {r}
    PROVE  k \in BoxesOf(RouterKey(r))
<1>1. \A d : d = r <=> k[2] \in MacsIn(Past, d)
    <2>1. ASSUME NEW d PROVE d \in Represents(k) <=> k[2] \in MacsIn(Past, d)
        BY DEF Represents, MacsIn
    <2> QED
        BY <2>1
<1>2. ASSUME NEW j \in DOMAIN nodes, nodes[j].managed, k[2] \in nodes[j].macs
      PROVE  j = RouterKey(r)
    <2>1. PICK s \in Names : j = RouterKey(s)
        BY <1>2 DEF BoxesHold, Boxes, Labelled, RouterKeys
    <2>2. OfRouter(j) /\ j[2] = s
        BY <2>1 DEF RouterKey, OfRouter
    <2>3. nodes[j].macs \subseteq MacsIn(Past, s)
        BY <2>2 DEF BoxesTrue, BoxIn, RouterIn
    <2> QED
        BY <1>1, <1>2, <2>1, <2>3
<1>3. nodes[RouterKey(r)].managed /\ k[2] \in nodes[RouterKey(r)].macs
    <2>1. PICK j : j = RouterKey(r)
        OBVIOUS
    <2>2. OfRouter(j) /\ j[2] = r
        BY <2>1 DEF RouterKey, OfRouter
    <2>3. nodes[j].managed /\ nodes[j].macs \in {{}, MacsIn(Past, r)}
        BY <2>1, <2>2 DEF BoxesHold, Boxes, Labelled, BoxesTrue, BoxIn, RouterIn
    <2> QED
        BY <1>1, <2>1, <2>3
<1>4. OwnersOfMac(nodes, k[2]) = {RouterKey(r)}
    <2> DEFINE owners == {j \in DOMAIN nodes : nodes[j].managed /\ k[2] \in nodes[j].macs}
    <2>1. owners = {RouterKey(r)}
        BY <1>2, <1>3
    <2>2. Cardinality(owners) = 1
        BY <2>1, FS_Singleton
    <2> QED
        BY <2>1, <2>2 DEF OwnersOfMac
<1>5. ~nodes[k].managed /\ nodes[k].macs = {k[2]}
    <2>1. ~OfRouter(k)
        BY DEF OfRouter
    <2> QED
        BY <2>1 DEF BoxesHold, Boxes, Labelled, BoxesTrue, BoxIn
<1>6. Same(nodes, aliases, k, RouterKey(r))
    BY <1>4, <1>5 DEF Same
<1> QED
    BY <1>6, NearIsMember DEF BoxesHold, Boxes, BoxesOf

(***************************************************************************)
(* Where devices are told apart and the routers keep their MACs, a router   *)
(* of the inventory has no second box in the tree served: every box that    *)
(* stands for it alone is folded into its own, unless the operator has      *)
(* merged one of them by hand, no save ever found it readable, or it shares *)
(* its MACs and was not read once (collectors/topology.py:257,              *)
(* reconcile_topology).                                                    *)
(***************************************************************************)
THEOREM RoutersHaveOneBox ==
    Spec => [](Identified(Range(story.worlds)) /\ MacsKept(Range(story.worlds)) => OneBoxEach)
<1>1. Inv /\ (Told => TrueHolds)
        => (Identified(Range(story.worlds)) /\ MacsKept(Range(story.worlds)) => OneBoxEach)
    <2> SUFFICES ASSUME Inv, TrueHolds, MacsKept(Range(story.worlds)),
                        NEW r \in Stored, ~Touched(BoxesOf(RouterKey(r)))
                 PROVE  Apart(r) /\ Shown(r) /\ (Alone(r) \/ NotTold(r))
        BY DEF Told, OneBoxEach
    <2>1. Apart(r) /\ Shown(r)
        BY InvKeepsBoxes DEF BoxesApart
    <2>2. r \in Names /\ RouterKey(r) \in DOMAIN nodes
        BY DEF Stored, Inv, StoryHolds
    <2>3. MacsKept(Past)
        BY PastHolds DEF MacsKept, Inv
    <2>4. ASSUME ~NotTold(r), NEW k \in DOMAIN nodes, Represents(k) = {r}
          PROVE  k \in BoxesOf(RouterKey(r))
        <3>1. k[1] \in {"mac", "identity", "address"}
            BY <2>4 DEF Represents
        <3>2. BoxIn(Past, unread, k, nodes[k])
            BY DEF TrueHolds, BoxesTrue
        <3>3. k[1] # "identity"
            <4> SUFFICES ASSUME k[1] = "identity" PROVE FALSE
                OBVIOUS
            <4>1. PICK v \in Past : \E d \in Devices(v) :
                     /\ v.device[d].name = k[2] /\ (d \notin Names \/ d \in unread)
                     /\ \E e \in Devices(v) \ {d} : Shares(v, d, e)
                BY <3>2 DEF BoxIn, ConfusedIn
            <4>2. PICK d \in Devices(v) :
                     /\ v.device[d].name = k[2] /\ (d \notin Names \/ d \in unread)
                     /\ \E e \in Devices(v) \ {d} : Shares(v, d, e)
                BY <4>1
            <4>3. PICK e \in Devices(v) \ {d} : Shares(v, d, e)
                BY <4>2
            <4>4. d \in Represents(k)
                BY <4>2 DEF Represents
            <4>5. d = r /\ r \in unread
                BY <2>2, <2>4, <4>2, <4>4
            <4>6. MacsOf(e) \cap MacsOf(r) # {}
                BY <4>3, <4>5 DEF MacsOf, Shares
            <4> QED
                BY <2>4, <4>3, <4>5, <4>6 DEF NotTold, Cloned
        <3>4. k[1] = "mac"
            BY <3>1, <3>2, <3>3 DEF BoxIn
        <3> QED
            BY <2>2, <2>3, <2>4, <3>4, MacFoldsIn DEF NotTold, Inv, TrueHolds
    <2> QED
        BY <2>1, <2>4 DEF Alone
<1> QED
    BY TrueInv, <1>1, PTL
=============================================================================
