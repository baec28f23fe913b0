------------------------------ MODULE Placement ------------------------------
(***************************************************************************)
(* Where a client belongs and which counter is its own: the PoP of a       *)
(* declared name (services/pop_match.py), the sites of the VLANs           *)
(* (services/vlan_sites.py), and the helpers of services/collection.py     *)
(* that choose between the queues and the interface of a VLAN.             *)
(***************************************************************************)
EXTENDS Integers, Sequences, FiniteSets, SequencesExt

CONSTANTS
    PopOf,        \* router -> name of its PoP
    Plain,        \* name -> the form in which names are compared, None when empty
    SiteName,     \* interface -> name of the site it carries
    DefaultName,  \* VLAN number -> the interface named after it
    Within,       \* target of a queue -> targets it contains, itself included
    Aggregates,   \* targets too wide to be one client's without a known network
    None

Unmatched(how) == [routers |-> <<>>, pop |-> None, how |-> how]
Matched(routers, how) == [routers |-> routers, pop |-> PopOf[routers[1]], how |-> how]

\* The routers that carry a declared PoP; two different PoPs that compare
\* alike are never merged.
ResolvePop(declared, collectors) ==
    LET exact == SelectSeq(collectors, LAMBDA r : PopOf[r] = declared)
        near == SelectSeq(collectors, LAMBDA r : Plain[PopOf[r]] = Plain[declared])
    IN  CASE exact # <<>> -> Matched(exact, "exact")
          [] exact = <<>> /\ (Plain[declared] = None \/ near = <<>>) -> Unmatched("unknown")
          [] OTHER -> IF Cardinality({PopOf[r] : r \in ToSet(near)}) > 1
                      THEN Unmatched("ambiguous") ELSE Matched(near, "normalised")

\* The interface seen first on the field for a VLAN gives its name to the
\* clients that are declared by the number alone.
InterfaceOf(seen, router, tag) ==
    LET named == SelectSeq(seen, LAMBDA v : v.router = router /\ v.tag = tag)
    IN  IF named = <<>> THEN DefaultName[tag] ELSE named[1].interface

\* What exists on the field, then what is declared: both make a site.
Carriers(seen, clients) ==
    seen \o [i \in 1..Len(clients) |->
                [router |-> clients[i].router, tag |-> clients[i].vlan,
                 interface |-> InterfaceOf(seen, clients[i].router, clients[i].vlan)]]

\* One site by router and name: the interface of the first carrier, the first
\* number known, and how many carriers stand behind it.
SitesFrom(seen, clients) ==
    LET all == Carriers(seen, clients)
        alike(v) == SelectSeq(all, LAMBDA w : w.router = v.router
                                                /\ SiteName[w.interface] = SiteName[v.interface])
    IN  {[router |-> v.router, name |-> SiteName[v.interface],
          interface |-> alike(v)[1].interface,
          tag |-> LET known == SelectSeq(alike(v), LAMBDA w : w.tag # None)
                  IN  IF known = <<>> THEN None ELSE known[1].tag,
          carriers |-> Len(alike(v))] : v \in ToSet(all)}

RoutersForSite(name, sites) == {s.router : s \in {t \in sites : Plain[t.name] = Plain[name]}}

\* The site of a client that has a VLAN and a router; a second site of the same
\* number is left aside.
SiteOf(client, router, sites) ==
    LET own == {s \in sites : s.router = router /\ s.tag = client.vlan}
    IN  IF client.vlan = None \/ router = None \/ own = {} THEN None ELSE CHOOSE s \in own : TRUE

-----------------------------------------------------------------------------
(* Which counter.  files : target -> count;  vlans : set of interfaces of  *)
(* one number, [interface, count, pppoe, networks].                        *)
Occupancy(clients, tag, router) ==
    Cardinality({c \in clients : c.vlan = tag /\ c.vlan # None /\ c.router = router})

\* Three ways to be wrong: another client of the VLAN, a second interface of
\* the same number, PPPoE subscribers on it.
SoleVlan(vlans, occupancy) ==
    IF occupancy = 1 /\ Cardinality(vlans) = 1 /\ \A v \in vlans : ~v.pppoe /\ v.count # None
    THEN CHOOSE v \in vlans : TRUE ELSE None

Earliest(I) == CHOOSE i \in I : \A j \in I : i <= j
At(files, targets) ==
    LET found == {i \in 1..Len(targets) : targets[i] \in DOMAIN files}
    IN  IF found = {} THEN None ELSE files[targets[Earliest(found)]]

CountersFor(files, client) == At(files, <<client.address>> \o client.extra)

\* The most precise queue around the client, inside the network of its VLAN;
\* without a known network, never an aggregate.
CountersCovering(files, client, network) ==
    LET fit == {t \in DOMAIN files :
                    /\ client.address \in Within[t]
                    /\ IF network = None THEN t \notin Aggregates ELSE t \in Within[network]}
    IN  IF fit = {} THEN None ELSE files[CHOOSE t \in fit : \A u \in fit : t \in Within[u]]

NetworkFor(vlan, client) ==
    LET around == {i \in 1..Len(vlan.networks) : client.address \in Within[vlan.networks[i]]}
    IN  IF around # {} THEN vlan.networks[Earliest(around)]
        ELSE IF vlan.networks = <<>> THEN None ELSE vlan.networks[1]

\* The queue first: it counts what passed. The interface only at last, under
\* a key of its own.
Measured(client, files, sole) ==
    LET onNetwork == At(files, sole.networks)
        queue == CASE sole = None -> CountersFor(files, client)
                   [] sole # None /\ onNetwork # None -> onNetwork
                   [] OTHER -> IF CountersFor(files, client) # None
                               THEN CountersFor(files, client)
                               ELSE CountersCovering(files, client, NetworkFor(sole, client))
    IN  IF sole = None THEN [source |-> "plain", count |-> queue]
        ELSE IF queue # None THEN [source |-> "queue", count |-> queue]
        ELSE [source |-> sole.interface, count |-> sole.count]

-----------------------------------------------------------------------------
(* Rates from cumulative counters (services/rates.py). A snapshot is       *)
(* [count, uptime, age]; uptime is None for a client without a session.    *)
CONSTANTS MinInterval,  \* shortest interval a rate is computed over
          MaxStep       \* largest step of a counter that is plausible

Restarted(old, new) ==
    \/ old.uptime # None /\ new.uptime # None /\ new.uptime < old.uptime
    \/ old.count # None /\ new.count < old.count

\* What a reading adds to the rate: the step of the counter, or None.
Step(old, new) ==
    IF new.count = None \/ old = None THEN None
    ELSE IF Restarted(old, new) \/ old.age < MinInterval \/ old.count = None THEN None
    ELSE IF new.count - old.count > MaxStep THEN None ELSE new.count - old.count

\* Too short an interval keeps the older point of reference.
Kept(old, new) ==
    IF new.count # None /\ old # None /\ ~Restarted(old, new) /\ old.age < MinInterval
    THEN old ELSE new
=============================================================================
