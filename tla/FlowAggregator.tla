---------------------------- MODULE FlowAggregator ----------------------------
(***************************************************************************)
(* The pure part of the flow collector (services/flows.py): which client a *)
(* record belongs to, what is counted in the window, and what a window     *)
(* becomes when it is flushed. One record stands for one unit of volume;   *)
(* protocol and server port follow from the remote end. Time is the number *)
(* of flushes an entry has outlived (its age).                             *)
(*                                                                         *)
(* A record: [from, to: its ends; cport: the port on the client's side;    *)
(* tsrc, tport: source address and port after translation; tdst:           *)
(* destination after translation; input: the interface it came in by].     *)
(***************************************************************************)
EXTENDS Naturals, FiniteSets, Sequences, FiniteSetsExt, SequencesExt, Bags

CONSTANTS
    Sids,          \* subscribers
    Customers,     \* addresses of the clients' networks
    Remotes,       \* servers on the internet
    Publics,       \* public addresses of the translating routers
    Infra,         \* addresses of the operator's own equipment
    AppOf,         \* family of use of a server, from its port
    ManagedApps,   \* families of the management plane and of name resolution
    Exporters,
    DestLimit,     \* destinations kept per window
    HostLimit,     \* undeclared hosts kept per window
    NatTtl,        \* windows a translation is remembered without new upload
    None

Points == {"edge", "pop", "unknown"}
Dirs == {"down", "up"}
Addresses == Customers \cup Remotes \cup Publics \cup Infra
Apps == {AppOf[r] : r \in Remotes} \cup {"other"}

ASSUME AggregatorAssumption ==
    /\ IsFiniteSet(Sids) /\ IsFiniteSet(Exporters) /\ IsFiniteSet(Addresses)
    /\ Customers \cap (Remotes \cup Publics) = {} /\ Remotes \cap Publics = {}
    /\ DOMAIN AppOf = Remotes
    /\ DestLimit \in Nat /\ HostLimit \in Nat /\ NatTtl \in Nat
    /\ None \notin Sids \cup Addresses

\* What the window and the memory of the conversations hold.
EmptyAggregate ==
    [credits |-> EmptyBag,   \* <<sid, point, exporter, app, direction>>
     hosts |-> EmptyBag,     \* <<address, direction>>
     dests |-> EmptyBag,     \* <<client, remote, direction>>
     owner |-> {},           \* <<client, remote, sid>>: last subscriber known of a pair
     pair |-> {},            \* [client, remote, dir, source]: the source that is counted
     live |-> {},            \* [client, remote, flow, dir, age]
     exact |-> {},           \* [remote, port, sid, client, age]
     large |-> {},           \* [remote, sid, client, age]
     publics |-> {},         \* [address, age]
     waiting |-> <<>>]       \* returns heard before their upload

IsCustomer(a) == a \in Customers
IsRoutable(a) == a \in Remotes \cup Publics
IsInfrastructure(a) == a \in Infra

\* classify and service_port: the smallest port is the server's.
Classify(r) ==
    IF r.from \in Remotes THEN AppOf[r.from] ELSE IF r.to \in Remotes THEN AppOf[r.to] ELSE "other"

\* The subscriber of an address as exported, else of the translated one.
Attach(index, address, translated) ==
    IF index[address] # None \/ translated \notin Addresses
    THEN [sid |-> index[address], client |-> address]
    ELSE IF index[translated] # None THEN [sid |-> index[translated], client |-> translated]
    ELSE [sid |-> None, client |-> address]

Count(bag, key) == bag (+) SetToBag({key})
Copies(key, bag) == IF BagIn(key, bag) THEN bag[key] ELSE 0

Credit(agg, sid, src, r, dir) ==
    [agg EXCEPT !.credits = Count(@, <<sid, src.point, src.exporter, Classify(r), dir>>)]

-----------------------------------------------------------------------------
(* Who talks to whom: one source per conversation and direction, the one   *)
(* nearest to the client, the first heard of that point of view.           *)
Rank(point) == CASE point = "pop" -> 0 [] point = "unknown" -> 2 [] OTHER -> 1

SourceOf(agg, client, remote, dir) ==
    {p.source : p \in {q \in agg.pair : q.client = client /\ q.remote = remote /\ q.dir = dir}}

Retained(agg, client, remote, dir, src) ==
    \A s \in SourceOf(agg, client, remote, dir) : s = src \/ Rank(src.point) < Rank(s.point)

FlowKey(r) == <<r.from, r.to, r.cport>>

NoteDestination(agg, client, remote, r, dir, sid, src) ==
    LET known == \E d \in Dirs : BagIn(<<client, remote, d>>, agg.dests)
        others == {<<k[1], k[2]>> : k \in BagToSet(agg.dests)}
        kept == [agg EXCEPT
                   !.pair = {p \in @ : ~(p.client = client /\ p.remote = remote /\ p.dir = dir)}
                            \cup {[client |-> client, remote |-> remote, dir |-> dir, source |-> src]}]
        noted == [kept EXCEPT
                   !.dests = Count(@, <<client, remote, dir>>),
                   !.owner = IF sid = None THEN @
                             ELSE {o \in @ : o[1] # client \/ o[2] # remote}
                                  \cup {<<client, remote, sid>>},
                   !.live = {l \in @ : ~(l.client = client /\ l.remote = remote /\ l.flow = FlowKey(r))}
                            \cup {[client |-> client, remote |-> remote, flow |-> FlowKey(r),
                                   dir |-> dir, age |-> 0]}]
    IN  IF \/ IsInfrastructure(remote) \/ IsInfrastructure(client)
           \/ ~IsRoutable(remote) \/ IsCustomer(remote)
           \/ Classify(r) \in ManagedApps
           \/ ~Retained(agg, client, remote, dir, src)
        THEN agg
        ELSE IF ~known /\ Cardinality(others) >= DestLimit THEN kept
        ELSE noted

\* An address of a client's network that belongs to nobody.
NoteHost(agg, r) ==
    LET hears(a, address, dir) ==
            IF ~IsCustomer(address) THEN a
            ELSE LET hosts == {k[1] : k \in BagToSet(a.hosts)}
                 IN  IF address \notin hosts /\ Cardinality(hosts) >= HostLimit THEN a
                     ELSE [a EXCEPT !.hosts = Count(@, <<address, dir>>)]
    IN  hears(hears(agg, r.to, "down"), r.from, "up")

-----------------------------------------------------------------------------
(* A router that masks its clients hears the return on its own address:    *)
(* the upload names the client, by the remote end and the client's port.   *)
\* Mutant: one correspondence per remote end.
ExactKeyWithoutPort(remote, port) == <<remote>>
ExactKey(remote, port) == <<remote, port>>

LearnNat(agg, r, sid, client) ==
    LET ports == {r.cport, r.tport} \ {0}
        keys == {ExactKey(r.to, k) : k \in ports}
        new == {[key |-> k, sid |-> sid, client |-> client, age |-> 0] : k \in keys}
    IN  IF IsCustomer(r.to) \/ ~IsRoutable(r.to) THEN agg
        ELSE [agg EXCEPT
                !.publics = IF r.tsrc \in {None, r.from} THEN @
                            ELSE {p \in @ : p.address # r.tsrc} \cup {[address |-> r.tsrc, age |-> 0]},
                !.exact = {x \in @ : x.key \notin keys} \cup new,
                !.large = {x \in @ : ~(x.remote = r.to /\ x.sid = sid)}
                          \cup {[remote |-> r.to, sid |-> sid, client |-> client, age |-> 0]}]

MayBeReturn(r) == IsRoutable(r.from) /\ ~IsCustomer(r.from) /\ ~IsCustomer(r.to)

\* The correspondences that name a return: without the port, only if a single
\* subscriber talks to that end.
Pairings(agg, r) ==
    LET exact == {x \in agg.exact : x.key = ExactKey(r.from, r.cport)}
        large == {x \in agg.large : x.remote = r.from}
    IN  IF exact # {} THEN exact
        ELSE IF (\E p \in agg.publics : p.address = r.to) /\ Cardinality(large) = 1 THEN large
        ELSE {}

Replayed(agg, r, src) ==
    LET found == CHOOSE x \in Pairings(agg, r) : TRUE
        exact == \E x \in agg.exact : x.key = ExactKey(r.from, r.cport)
        seen == IF exact THEN [agg EXCEPT !.publics = {p \in @ : p.address # r.to}
                                            \cup {[address |-> r.to, age |-> 0]}]
                ELSE agg
    IN  NoteDestination(Credit(seen, found.sid, src, r, "down"),
                        found.client, r.from, r, "down", found.sid, src)

-----------------------------------------------------------------------------
\* One record. A flow may belong to two clients that talk to each other.
Added(agg, index, r, src) ==
    LET source == Attach(index, r.from, r.tsrc)
        target == Attach(index, r.to, r.tdst)
        down(a) == IF target.sid = None THEN a ELSE Credit(a, target.sid, src, r, "down")
        up(a) == IF source.sid = None THEN a
                 ELSE LET b == Credit(a, source.sid, src, r, "up")
                      IN  IF target.sid = None THEN LearnNat(b, r, source.sid, source.client) ELSE b
        named == source.sid # None \/ target.sid # None
        to(a) == IF target.sid # None \/ (~named /\ IsCustomer(r.to))
                 THEN NoteDestination(a, target.client, r.from, r, "down", target.sid, src) ELSE a
        out(a) == IF source.sid # None \/ (~named /\ IsCustomer(r.from))
                  THEN NoteDestination(a, source.client, r.to, r, "up", source.sid, src) ELSE a
        noted == out(to(up(down(agg))))
    IN  IF named THEN noted
        ELSE IF MayBeReturn(r)
        THEN IF Pairings(agg, r) # {} THEN Replayed(agg, r, src)
             ELSE [agg EXCEPT !.waiting = Append(@, [rec |-> r, src |-> src])]
        ELSE NoteHost(noted, r)

-----------------------------------------------------------------------------
(* The flush. Per point of view, each direction is read at the exporter    *)
(* that sees it best; nothing is added up between exporters.               *)
Older(entries, limit) ==
    {[e EXCEPT !.age = @ + 1] : e \in {f \in entries : f.age < limit}}

\* Mutant: the returns that waited are dropped.
ReplayedNever(a, w) == a

\* The returns heard before their upload, each in its turn.
ReplayedOnce(a, w) == IF Pairings(a, w.rec) # {} THEN Replayed(a, w.rec, w.src) ELSE a
Replays(agg) ==
    LET after[n \in 0..Len(agg.waiting)] ==
            IF n = 0 THEN agg ELSE ReplayedOnce(after[n - 1], agg.waiting[n])
    IN  after

WaitingEmptied(agg) ==
    LET replayed == Replays(agg)[Len(agg.waiting)]
    IN  [replayed EXCEPT !.waiting = <<>>, !.exact = Older(@, NatTtl), !.large = Older(@, NatTtl),
                         !.publics = Older(@, NatTtl)]

\* The sum of the volumes of f, counted unit by unit.
Total(f) == Cardinality(UNION {{k} \X (1..f[k]) : k \in DOMAIN f})

Volume(agg, sid, point, exporter, dir) ==
    Total([a \in Apps |-> Copies(<<sid, point, exporter, a, dir>>, agg.credits)])

ExportersOf(agg, sid, point) ==
    {k[3] : k \in {c \in BagToSet(agg.credits) : c[1] = sid /\ c[2] = point}}
PointsOf(agg, sid) == {k[2] : k \in {c \in BagToSet(agg.credits) : c[1] = sid}}

BestExporter(agg, sid, point, dir) ==
    LET seen(e) == Volume(agg, sid, point, e, dir)
        total(e) == Volume(agg, sid, point, e, "down") + Volume(agg, sid, point, e, "up")
    IN  CHOOSE e \in ExportersOf(agg, sid, point) :
            \A f \in ExportersOf(agg, sid, point) :
                seen(e) > seen(f) \/ (seen(e) = seen(f) /\ total(e) >= total(f))

\* Mutant: the exporter of the download serves for the upload too.
AppVolumeOneExporter(agg, sid, point, app, dir) ==
    Copies(<<sid, point, BestExporter(agg, sid, point, "down"), app, dir>>, agg.credits)

Row(agg, sid, point, dir) ==
    Volume(agg, sid, point, BestExporter(agg, sid, point, dir), dir)
AppVolume(agg, sid, point, app, dir) ==
    Copies(<<sid, point, BestExporter(agg, sid, point, dir), app, dir>>, agg.credits)

\* The point of view where a direction is read.
PointRead(agg, sid, vantage, dir) ==
    LET seen == PointsOf(agg, sid)
        first(S) == IF "edge" \in S THEN "edge" ELSE IF "pop" \in S THEN "pop" ELSE "unknown"
    IN  IF vantage \in seen THEN vantage
        ELSE IF vantage = "auto"
        THEN first({p \in seen : \A q \in seen : Row(agg, sid, p, dir) >= Row(agg, sid, q, dir)})
        ELSE first(seen)

BatchOf(agg, vantage) ==
    LET sids == {k[1] : k \in BagToSet(agg.credits)}
    IN  [rows |-> [k \in UNION {{<<s, p, d>> : p \in PointsOf(agg, s), d \in Dirs} : s \in sids} |->
                     Row(agg, k[1], k[2], k[3])],
         apps |-> [k \in sids \X Apps \X Dirs |->
                     AppVolume(agg, k[1], PointRead(agg, k[1], vantage, k[3]), k[2], k[3])],
         vantage |-> vantage,
         dests |-> agg.dests, hosts |-> agg.hosts]

EmptyBatch == BatchOf(EmptyAggregate, "auto")

\* live_rates: a conversation lives while one of its flows was heard in the
\* last 75 s, here in this window or the one before; when it ends its source is
\* forgotten.
Flushed(agg) ==
    LET live == Older(agg.live, 1)
        ends(p) == /\ \E l \in agg.live : l.client = p.client /\ l.remote = p.remote
                   /\ ~\E l \in live : l.client = p.client /\ l.remote = p.remote
    IN  [credits |-> EmptyBag, hosts |-> EmptyBag, dests |-> EmptyBag, owner |-> {},
         live |-> live, pair |-> {p \in agg.pair : ~ends(p)},
         exact |-> agg.exact, large |-> agg.large, publics |-> agg.publics,
         waiting |-> agg.waiting]
=============================================================================
