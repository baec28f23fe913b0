------------------------------ MODULE Topology ------------------------------
(***************************************************************************)
(* The graph of the network over time: discoveries that overlap (the job    *)
(* and the button), routers that do not answer, the graph kept in the      *)
(* database (db/topology_repo.py), what a process remembers of the routers *)
(* and a restart forgets, what the operator does to the tree               *)
(* (api/shaping.py), and a network that changes under it.                  *)
(***************************************************************************)
EXTENDS TopologyGraph

CONSTANTS
    Stories,      \* [worlds, listed, asks, silent]: how the network goes, the routers
                  \* declared at first, what may happen, which routers may not answer
    Discoveries,  \* the discoveries in flight at once
    MaxMoves      \* bound: discoveries, changes, gestures and restarts

VARIABLES
    story,
    at,        \* the network is story.worlds[at]
    asks,      \* what may still happen
    listed,    \* the routers collected (registry.collectors)
    skipped,   \* the routers set aside (registry.skipped)
    own,       \* address -> router: as last read (_PROPRIETAIRES)
    loops,     \* router -> its loopback as last chosen (_LOOPBACKS_DETECTES)
    last,      \* router -> what the last graph knew of it (last_snapshot)
    nodes,     \* the boxes in the database: key -> box with seen, the save that last wrote it
    links,     \* the links in the database: key -> link with hidden
    aliases,   \* box -> box it is folded into by hand
    attached,  \* subscriber -> sector
    saves,
    run,
    unread,    \* observation: the routers some discovery did not read
    moves
memory == <<own, loops, last>>
database == <<nodes, links, aliases, attached, saves>>
inventory == <<listed, skipped>>
vars == <<story, at, asks, inventory, memory, database, run, unread, moves>>

World == story.worlds[at]
Nothing == [x \in {} |-> None]
Idle == [phase |-> "idle", listed |-> {}, graph |-> None]
Names == Range(Routers)

\* A link says who laid it: a router, or one of two marks; None is no box. A
\* network is finite, its addresses are numbers; the ports of a router are
\* numbered, its router-ids come in an order. The references of the clients are
\* unique in their table.
ASSUME TopologyAssumption ==
    /\ {"inventory", "manual"} \cap Names = {} /\ \A r \in Names : RouterKey(r) # None
    /\ \A s \in Stories :
          /\ s.worlds \in Seq(Range(s.worlds)) \ {<<>>}
          /\ s.listed \subseteq Names
          /\ \A ask \in s.asks : ask.op \in {"add", "set aside"} => ask.a \in Names
          /\ \A w \in Range(s.worlds) :
                /\ \A c, d \in w.clients : c.ref = d.ref => c = d
                /\ IsFiniteSet(w.segments) /\ \A e \in w.segments : IsFiniteSet(e)
                /\ IsFiniteSet(w.clients) /\ IsFiniteSet(w.radios)
                /\ \A d \in DOMAIN w.device : \A a \in w.device[d].addrs : a.ip \in Nat
                /\ \A r \in Names : /\ w.device[r].mac \in Seq(Range(w.device[r].mac))
                                    /\ w.device[r].rids \in Seq(Range(w.device[r].rids))

Init ==
    /\ story \in Stories
    /\ at = 1 /\ asks = story.asks /\ listed = story.listed /\ skipped = {}
    /\ own = Nothing /\ loops = [r \in Names |-> None] /\ last = [r \in Names |-> None]
    /\ nodes = Nothing /\ links = Nothing /\ aliases = Nothing /\ attached = Nothing /\ saves = 0
    /\ run = [d \in Discoveries |-> Idle]
    /\ unread = {} /\ moves = 0

-----------------------------------------------------------------------------
(* A discovery: the collectors it starts from, their answers, then one      *)
(* transaction for the graph, one for the routers that left, one for the   *)
(* subscribers.                                                            *)
Begins(d) ==
    /\ run[d].phase = "idle" /\ moves < MaxMoves
    /\ run' = [run EXCEPT ![d] = [phase |-> "read", listed |-> listed, graph |-> None]]
    /\ moves' = moves + 1
    /\ UNCHANGED <<story, at, asks, inventory, memory, database, unread>>

\* remember_addresses, remember_loopback
Renewed(in) ==
    LET read == {r \in in.listed : in.read[r] # None}
        ips(r) == {a.ip : a \in in.read[r].addrs}
        of(ip) == {r \in read : ip \in ips(r)}
        new == UNION {ips(r) : r \in read}
        kept == {ip \in DOMAIN own : own[ip] \notin read /\ ip \notin new}
    IN [ip \in kept \cup new |->
          IF ip \in new THEN CHOOSE r \in of(ip) : \A s \in of(ip) : Rank(r) >= Rank(s)
          ELSE own[ip]]
Remembers(in, g) ==
    /\ own' = Renewed(in)
    /\ loops' = [r \in Names |-> IF r \in in.listed /\ in.read[r] # None THEN LoopbackOf(in, r)
                                 ELSE loops[r]]
    /\ last' = [r \in Names |->
         IF RouterKey(r) \notin DOMAIN g.nodes THEN None
         ELSE LET n == g.nodes[RouterKey(r)] IN
              [macs |-> n.macs, name |-> n.ident, loopback |-> n.loopback]]

Reads(d) ==
    /\ run[d].phase = "read"
    /\ \E silent \in SUBSET (run[d].listed \cap story.silent),
          radios \in {World.radios, {}} :
         LET in == [listed |-> run[d].listed, own |-> own, loops |-> loops, last |-> last,
                    read |-> [r \in run[d].listed |->
                                IF r \in silent THEN None ELSE Reading(World, r)]]
             g == Discovered(in, skipped, radios, World.clients)
         IN /\ Remembers(in, g)
            /\ run' = [run EXCEPT ![d].phase = "save", ![d].graph = g]
            /\ unread' = unread \cup {r \in Names : r \notin in.listed \/ in.read[r] = None}
    /\ UNCHANGED <<story, at, asks, inventory, database, moves>>

\* What was known and is not said again stays; the parent never does.
Upserted(old, new) ==
    [new EXCEPT !.macs = IF @ = {} THEN old.macs ELSE @,
                !.addrs = IF @ = {} THEN old.addrs ELSE @,
                !.managed = @ \/ old.managed,
                !.serial = IF @ = None THEN old.serial ELSE @,
                !.ident = IF @ = None THEN old.ident ELSE @,
                !.loopback = IF @ = None THEN old.loopback ELSE @,
                !.uisp = IF @ = None THEN old.uisp ELSE @,
                !.cpe = IF @ = None THEN old.cpe ELSE @]
LinkUpserted(old, new) ==
    [new EXCEPT !.hidden = old.hidden, !.proven = @ \/ old.proven,
                !.mirror = IF @ = None THEN old.mirror ELSE @]
\* The attachments declared are written anew, when there is one at least.
IsDeclared(l) == l.by = "inventory" \/ l.kind = "vlan"
\* Mutant: the attachments that are no longer declared stay.
NothingOutdated(fresh) == {}
Outdated(fresh) ==
    IF \E l \in fresh : IsDeclared(l)
    THEN {k \in DOMAIN links : IsDeclared(links[k]) /\ k \notin {LinkKey(l) : l \in fresh}}
    ELSE {}
SavedNodes(g) ==
    LET fresh(k) == Over(g.nodes[k], [seen |-> saves + 1])
        now(k) == IF k \in DOMAIN nodes THEN Upserted(nodes[k], fresh(k)) ELSE fresh(k)
    IN Over([k \in DOMAIN g.nodes |-> now(k)], nodes)
SavedLinks(g) ==
    LET fresh(k) == Over(CHOOSE l \in g.links : LinkKey(l) = k, [hidden |-> FALSE])
        now(k) == IF k \in DOMAIN links THEN LinkUpserted(links[k], fresh(k)) ELSE fresh(k)
        all == Over([k \in {LinkKey(l) : l \in g.links} |-> now(k)], links)
    IN [k \in DOMAIN all \ Outdated(g.links) |-> all[k]]

Saves(d) ==
    /\ run[d].phase = "save"
    /\ nodes' = SavedNodes(run[d].graph)
    /\ links' = SavedLinks(run[d].graph)
    /\ saves' = saves + 1
    /\ run' = [run EXCEPT ![d].phase = "forget"]
    /\ UNCHANGED <<story, at, asks, inventory, memory, aliases, attached, unread, moves>>
\* The database refuses the graph: the discovery ends there.
SaveFails(d) ==
    /\ run[d].phase = "save" /\ "database" \in story.silent
    /\ run' = [run EXCEPT ![d] = Idle]
    /\ UNCHANGED <<story, at, asks, inventory, memory, database, unread, moves>>

\* The routers this discovery did not start from leave the graph.
Gone(from) ==
    IF from = {} THEN {} ELSE {k \in DOMAIN nodes : OfRouter(k) /\ k[2] \notin from}
Forgets(d) ==
    /\ run[d].phase = "forget"
    /\ LET gone == Gone(run[d].listed)
           tied(l) == l.src \in gone \/ l.dst \in gone \/ l.by \in {k[2] : k \in gone}
       IN /\ nodes' = [k \in DOMAIN nodes \ gone |-> nodes[k]]
          /\ links' = [k \in {j \in DOMAIN links : ~tied(links[j])} |-> links[k]]
    /\ run' = [run EXCEPT ![d].phase = "attach"]
    /\ UNCHANGED <<story, at, asks, inventory, memory, aliases, attached, saves, unread, moves>>
\* A cleaning that fails is left for the next discovery.
ForgetFails(d) ==
    /\ run[d].phase = "forget" /\ "database" \in story.silent
    /\ run' = [run EXCEPT ![d].phase = "attach"]
    /\ UNCHANGED <<story, at, asks, inventory, memory, database, unread, moves>>

Attaches(d) ==
    /\ run[d].phase = "attach"
    /\ attached' = Over(run[d].graph.sectors, attached)
    /\ run' = [run EXCEPT ![d] = Idle]
    /\ UNCHANGED <<story, at, asks, inventory, memory, nodes, links, aliases, saves, unread, moves>>

-----------------------------------------------------------------------------
(* The gestures of the operator, the inventory, the network.               *)
Asked(ask) ==
    /\ ask \in asks /\ moves < MaxMoves
    /\ asks' = asks \ {ask}
    /\ moves' = moves + 1

MergesBoxes(ask) ==
    /\ ask.op = "merge" /\ Asked(ask)
    /\ LET to == IF ask.b \in DOMAIN aliases THEN aliases[ask.b] ELSE ask.b IN
       /\ ask.a # to
       /\ aliases' = [k \in DOMAIN aliases \cup {ask.a} |->
                        IF k = ask.a \/ aliases[k] = ask.a THEN to ELSE aliases[k]]
    /\ UNCHANGED <<story, at, inventory, memory, nodes, links, attached, saves, run, unread>>
UnmergesBox(ask) ==
    /\ ask.op = "unmerge" /\ Asked(ask)
    /\ aliases' = [k \in DOMAIN aliases \ {ask.a} |-> aliases[k]]
    /\ UNCHANGED <<story, at, inventory, memory, nodes, links, attached, saves, run, unread>>

\* A link laid by hand has no port: its own mark keeps its key apart.
ByHand == 0
LinksByHand(ask) ==
    /\ ask.op = "link" /\ Asked(ask)
    /\ ask.a # ask.b
    /\ LET l == Over(Link(ask.a, ByHand, ask.b, "manual", "manual"), [hidden |-> FALSE]) IN
       links' = [k \in DOMAIN links \cup {LinkKey(l)} |-> IF k = LinkKey(l) THEN l ELSE links[k]]
    /\ UNCHANGED <<story, at, inventory, memory, nodes, aliases, attached, saves, run, unread>>
HidesLink(ask) ==
    /\ ask.op = "hide" /\ Asked(ask)
    /\ \E k \in DOMAIN links : links' = [links EXCEPT ![k].hidden = TRUE]
    /\ UNCHANGED <<story, at, inventory, memory, nodes, aliases, attached, saves, run, unread>>

\* What no save has written since leaves, with its links, but for the routers
\* and for what a link laid by hand holds.
Stale(older) == {k \in DOMAIN nodes : ~OfRouter(k) /\ nodes[k].seen < older}
Held(k) == \E j \in DOMAIN links : links[j].by = "manual" /\ k \in {links[j].src, links[j].dst}
ForgetsStale(ask) ==
    /\ ask.op = "forget" /\ Asked(ask)
    /\ \E older \in 1..(saves + 1) :
         LET stale == Stale(older)
             tied(l) == l.by # "manual" /\ {l.src, l.dst} \cap stale # {}
         IN /\ nodes' = [k \in {n \in DOMAIN nodes : n \in stale => Held(n)} |-> nodes[k]]
            /\ links' = [k \in {j \in DOMAIN links : ~tied(links[j])} |-> links[k]]
    /\ UNCHANGED <<story, at, inventory, memory, aliases, attached, saves, run, unread>>

\* The inventory reloaded: a router added, removed, or set aside.
Reloads(ask) ==
    /\ ask.op \in {"add", "remove", "set aside"} /\ Asked(ask)
    /\ listed' = IF ask.op = "add" THEN listed \cup {ask.a} ELSE listed \ {ask.a}
    /\ skipped' = IF ask.op = "set aside" THEN skipped \cup {ask.a} ELSE skipped \ {ask.a}
    /\ UNCHANGED <<story, at, memory, database, run, unread>>

NetworkChanges ==
    /\ at < Len(story.worlds) /\ moves < MaxMoves
    /\ at' = at + 1 /\ moves' = moves + 1
    /\ UNCHANGED <<story, asks, inventory, memory, database, run, unread>>

\* A process that starts again knows nothing of the routers.
Restarts(ask) ==
    /\ ask.op = "restart" /\ Asked(ask)
    /\ own' = Nothing /\ loops' = [r \in Names |-> None] /\ last' = [r \in Names |-> None]
    /\ run' = [d \in Discoveries |-> Idle]
    /\ UNCHANGED <<story, at, inventory, database, unread>>

Next ==
    \/ \E d \in Discoveries : \/ Begins(d) \/ Reads(d) \/ Saves(d) \/ SaveFails(d)
                              \/ Forgets(d) \/ ForgetFails(d) \/ Attaches(d)
    \/ \E ask \in asks : \/ MergesBoxes(ask) \/ UnmergesBox(ask) \/ LinksByHand(ask)
                         \/ HidesLink(ask) \/ ForgetsStale(ask) \/ Reloads(ask) \/ Restarts(ask)
    \/ NetworkChanges
Spec == Init /\ [][Next]_vars

-----------------------------------------------------------------------------
(* What the network was, as far as it has gone.                            *)
Past == {story.worlds[i] : i \in 1..at}
Devices(w) == DOMAIN w.device
\* The devices a box may have been made of.
Represents(k) ==
    UNION {{d \in Devices(w) :
              CASE k[1] = "mac" -> k[2] \in Range(w.device[d].mac)
                [] k[1] = "identity" -> k[2] = w.device[d].name
                [] k[1] = "address" -> k[2] \in {a.ip : a \in w.device[d].addrs}
                [] OTHER -> FALSE} : w \in Past}
Touched(boxes) == \E k \in boxes : k \in DOMAIN aliases \cup Range(aliases)
BoxesOf(k) == Members(nodes, aliases, k)
Stored == {r \in listed : RouterKey(r) \in DOMAIN nodes}

(***************************************************************************)
(* A router of the inventory has a box of its own in the tree, which no     *)
(* discovery and no subscriber takes from it, and no second one: two        *)
(* routers share a box only by the operator's hand                         *)
(* (collectors/topology.py:257, reconcile_topology).                       *)
(***************************************************************************)
Apart(r) == \A s \in Stored \ {r} : RouterKey(s) \notin BoxesOf(RouterKey(r))
Shown(r) == /\ Canonical(BoxesOf(RouterKey(r)), aliases) = RouterKey(r)
            /\ nodes[RouterKey(r)].cpe = None
\* Not told from a neighbour: a router no save ever found readable, which has
\* no MAC; and one that shares its MACs and was not read once: a box of its
\* own name may have been made then, which nothing folds.
MacsOf(d) == UNION {Range(w.device[d].mac) : w \in {v \in Past : d \in Devices(v)}}
Cloned(r) == \E d \in (UNION {Devices(w) : w \in Past}) \ {r} : MacsOf(d) \cap MacsOf(r) # {}
NotTold(r) == nodes[RouterKey(r)].macs = {} \/ (r \in unread /\ Cloned(r))
Alone(r) == \A k \in DOMAIN nodes : Represents(k) = {r} => k \in BoxesOf(RouterKey(r))
OneBoxEach ==
    \A r \in Stored :
        Touched(BoxesOf(RouterKey(r))) \/ (Apart(r) /\ Shown(r) /\ (Alone(r) \/ NotTold(r)))

(***************************************************************************)
(* A link the tree shows between two routers of the inventory is one the    *)
(* network has, or had (link_by_shared_subnets: "leur /ip/address le        *)
(* prouve"; a hint two routers claim identifies nobody).                   *)
(***************************************************************************)
\* A router is known by the addresses it has or had, and by those declared.
AddressesIn(w, d) ==
    {x.ip : x \in w.device[d].addrs} \cup Range(w.device[d].rids)
    \cup IF d \in Names THEN Given({Declared[d].host, Declared[d].loopback}) ELSE {}
KnownAs(d) == UNION {AddressesIn(w, d) : w \in Past}
Wired(a, b) ==
    \E w \in Past : \/ \E s \in w.segments : {a, b} \subseteq {e.of : e \in s}
                    \/ \E t \in w.device[a].tunnels : t.remote \in KnownAs(b)
                    \/ w.device[a].peers \cap KnownAs(b) # {}
\* One subnet on both is taken for a cable (link_by_shared_subnets).
OneSubnet(a, b) ==
    \E w \in Past : \E x \in w.device[a].addrs, y \in w.device[b].addrs : x.net # None /\ x.net = y.net
\* A device that carries a MAC of a router passes for it when it is none of the
\* inventory, or while it is not read: of an address both have, only the last
\* reader is remembered (resolve_to_managed, own_addresses).
Passes(x, a) == (x \notin Names \/ x \in unread) /\ MacsOf(x) \cap MacsOf(a) # {}
Lookalike(a, b) ==
    \E w \in Past, x \in (UNION {Devices(v) : v \in Past}) \ {a, b} :
        \E s \in w.segments : \/ {a, x} \subseteq {e.of : e \in s} /\ Passes(x, b)
                              \/ {b, x} \subseteq {e.of : e \in s} /\ Passes(x, a)
BetweenRouters(l) == OfRouter(l.src) /\ OfRouter(l.dst) /\ {l.src[2], l.dst[2]} \subseteq listed
LinksAreCables ==
    \A k \in DOMAIN links :
        LET l == links[k] IN
        l.by # "manual" /\ BetweenRouters(l) =>
            \/ Wired(l.src[2], l.dst[2])
            \/ OneSubnet(l.src[2], l.dst[2])
            \/ Lookalike(l.src[2], l.dst[2])

(***************************************************************************)
(* A cable both of whose ends were discovered keeps one of its two links    *)
(* unmarked, whichever discoveries wrote them and whatever was plugged      *)
(* there before, and a link marked has its original                        *)
(* (mark_reciprocal_links: "Choix DETERMINISTE du canonique";              *)
(* save_snapshot merges the attributes and never unmarks).                 *)
(***************************************************************************)
Cables == {s \in World.segments : Cardinality(s) = 2 /\ {e.of : e \in s} \subseteq listed}
KeyFrom(end, s) == <<RouterKey(end.of), end.port, RouterKey((CHOOSE o \in s : o # end).of)>>
EndsOf(s) == {KeyFrom(end, s) : end \in s}
NoCableLost ==
    /\ \A s \in Cables :
         EndsOf(s) \subseteq DOMAIN links => \E k \in EndsOf(s) : links[k].mirror = None
    /\ \A k \in DOMAIN links : links[k].mirror \in DOMAIN links \cup {None}

(***************************************************************************)
(* A client declared hangs under one box, and a VLAN under one router,      *)
(* whichever discovery wrote last (save_snapshot: "sinon l'arbre le montre  *)
(* sous deux parents").                                                    *)
(***************************************************************************)
OneParent ==
    \A k \in DOMAIN nodes : k[1] \in {"static", "vlan"} =>
        Cardinality({j \in DOMAIN links : links[j].dst = k /\ links[j].by # "manual"}) <= 1

-----------------------------------------------------------------------------
(* What the theorems take of a network, which no code decides: every port  *)
(* has a MAC, no device ever has an address of a router of the inventory,   *)
(* nor says a name another is known by, but for the names that say nothing, *)
(* and those that share a MAC each say a name.                             *)
NamesIn(w, d) ==
    Given({w.device[d].name} \cup IF d \in Names THEN {d, Declared[d].pop} ELSE {}) \ Generic
Apparent(w, d) == w.device[d].name \notin Generic \cup {None}
Identified(worlds) ==
    \A v, w \in worlds :
        /\ Names \subseteq Devices(w)
        /\ \A t \in w.segments : \A e \in t :
              e.of \in Devices(w) /\ e.port \in DOMAIN w.device[e.of].mac
        /\ \A d \in Devices(w) : None \notin Range(w.device[d].mac)
        /\ \A d, e \in Devices(w) :
              d # e /\ Range(w.device[d].mac) \cap Range(w.device[e].mac) # {}
                  => Apparent(w, d) /\ Apparent(w, e)
        /\ \A d \in Devices(v), e \in Devices(w) :
              d # e => /\ d \in Names => AddressesIn(v, d) \cap AddressesIn(w, e) = {}
                       /\ w.device[e].name \notin NamesIn(v, d)
\* The routers keep their MACs.
MacsKept(worlds) ==
    \A v, w \in worlds, r \in Names :
        Range(v.device[r].mac) = Range(w.device[r].mac)
=============================================================================
