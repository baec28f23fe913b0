----------------------------- MODULE MCServices -----------------------------
(* A small instance of Services: two routers, one of them with a VLAN site;   *)
(* an address of the sessions of the first (a1), one of the networks of the    *)
(* second (b1), one of no network (c1); two services and one subscriber.        *)
EXTENDS Services

CONSTANTS rn, rs, north, south, vlan, r1, r2, u, a1, b1, c1, m, p1, one, two

TheOrder    == <<r1, r2>>
TheOwnSite  == rn :> north @@ rs :> south
TheVlans    == vlan :> rs
TheNetworks == a1 :> rn @@ b1 :> rs @@ c1 :> None

Api(site, addr, rate) ==
    [source |-> "api", site |-> site, addr |-> addr, rate |-> rate, on |-> TRUE]
Hand(site, addr, rate) == [Api(site, addr, rate) EXCEPT !.source = "manual"]
Waits(rate) == [mac |-> m, rate |-> rate, package |-> None, site |-> NoSite, on |-> TRUE]

Ask(kind, name, addr, rate) ==
    [kind |-> kind, name |-> name, addr |-> addr, mac |-> None, rate |-> rate,
     package |-> None, site |-> NoSite, on |-> TRUE, does |-> None]
Put(name, addr, rate)  == Ask("put", name, addr, rate)
PutMac(name, rate)     == [Ask("put", name, None, rate) EXCEPT !.mac = m]
PutMacOff(name, site)  == [PutMac(name, 2) EXCEPT !.site = site, !.on = FALSE]
Delete(name)           == Ask("delete", name, None, 0)
Page(name, rate)       == Ask("page", name, None, rate)
HandAsk(does, name, site, addr, rate) ==
    [Ask("hand", name, addr, rate) EXCEPT !.site = site, !.does = does]

Empty == [fiche |-> [r \in References |-> None], waiting |-> [r \in References |-> None],
          plan |-> [n \in Names |-> None], forced |-> [x \in Names |-> 0],
          package |-> [p \in Packages |-> 2], rows |-> [l \in Logins |-> None],
          session |-> [l \in Logins |-> None], nets |-> Routers,
          arp |-> [x \in Macs |-> None], fasttrack |-> {}, hidden |-> {},
          jobs |-> {"reconcile"}, moves |-> {}]
Online  == [Empty EXCEPT !.session[u] = [at |-> rn, addr |-> a1],
                         !.rows[u] = [addr |-> a1, site |-> north, plan |-> 0]]
OneSold(r, f) == [Empty EXCEPT !.fiche[r] = f]
Moving(of, to) == [what |-> "session", of |-> of, to |-> to]

Fault(r) == [what |-> "fault", of |-> r]
Equipment(to) == [what |-> "equipment", of |-> m, to |-> to]
HandOff(name, addr) == [HandAsk("update", name, south, addr, 1) EXCEPT !.on = FALSE]

With(start, asks, now, later) ==
    [f \in DOMAIN start \cup {"asks"} |->
        CASE f = "asks" -> one :> asks[1] @@ two :> IF Len(asks) = 2 THEN asks[2] ELSE None
          [] f = "jobs" -> now
          [] f = "moves" -> later
          [] OTHER -> start[f]]

\* Around one story: pushed on a session, on a network, on a site; awaited.
TheStories ==
    { \* the address of a1 session: pushed, changed on the plans page, withdrawn
      With(Online, <<Put(r1, a1, 1), Page(u, 2)>>, {"reconcile"}, {}),
      With(Online, <<Put(r1, a1, 1), Delete(r1)>>, {"reconcile"}, {}),
      With([Online EXCEPT !.forced[u] = 3], <<Put(r1, a1, 0), Page(u, 0)>>, {}, {}),
      \* a plan before the first connection, and plans read while they change
      With(Empty, <<Page(u, 1), Page(u, 0)>>, {"reconcile"}, {Moving(u, [at |-> rn, addr |-> a1])}),
      With([Online EXCEPT !.plan[u] = [rate |-> 1, service |-> None]], <<Page(u, 0), Page(u, 2)>>,
           {"plans"}, {}),
      With([Online EXCEPT !.plan[u] = [rate |-> 1, service |-> None]], <<Page(u, 2)>>,
           {"plans", "reconcile"}, {}),
      With([Online EXCEPT !.plan[u] = [rate |-> 1, service |-> None]], <<Page(u, 0)>>,
           {"plans", "reconcile"}, {}),
      \* a session that opens on a service, and goes elsewhere
      With(OneSold(r1, Api(north, a1, 1)), <<Page(r1, 2)>>, {"reconcile"},
           {Moving(u, [at |-> rn, addr |-> a1]), Moving(u, [at |-> rs, addr |-> c1])}),
      \* known by its equipment only, pushed twice, and withdrawn
      With([Empty EXCEPT !.waiting[r1] = Waits(1)], <<Put(r1, b1, 2)>>, {"reconcile", "placing"},
           {Equipment(b1)}),
      With([Empty EXCEPT !.arp[m] = c1], <<PutMac(r1, 1), PutMacOff(r2, south)>>, {"placing"}, {}),
      With([Empty EXCEPT !.waiting[r1] = Waits(1), !.arp[m] = b1], <<Delete(r1)>>,
           {"reconcile", "placing"}, {}),
      With(OneSold(r1, Api(south, b1, 1)), <<PutMac(r1, 1), Delete(r1)>>, {"reconcile"}, {}),
      \* pushed before the networks of its router are known
      With([Empty EXCEPT !.nets = {rn}], <<Put(r1, b1, 1)>>, {"reconcile", "placing"},
           {[what |-> "network", of |-> rs]}),
      \* the billing and the screens on one reference
      With(Empty, <<Put(r1, b1, 1), HandAsk("create", r1, north, c1, 2)>>, {"reconcile"}, {}),
      With(OneSold(r1, Api(south, b1, 1)),
           <<Delete(r1), HandAsk("update", r1, north, c1, 2)>>, {"reconcile"}, {}),
      With(OneSold(r1, Hand(vlan, c1, 1)),
           <<Delete(r1), HandAsk("remove", r1, vlan, c1, 0)>>, {"reconcile"}, {}),
      With(OneSold(r1, Api(vlan, b1, 1)),
           <<HandAsk("remove", r1, NoSite, None, 0), HandAsk("create", r1, south, b1, 2)>>,
           {"reconcile"}, {}),
      With(OneSold(r1, Hand(south, c1, 1)), <<HandOff(r1, c1), Page(r1, 2)>>, {"reconcile"}, {}),
      With(OneSold(r1, Api(north, a1, 1)), <<Ask("clean", rn, None, 0)>>, {"reconcile"},
           {Moving(u, [at |-> rn, addr |-> a1])}),
      \* two services on one address, and the rate of a package
      With(Empty, <<Put(r1, b1, 1), [Put(r2, b1, 0) EXCEPT !.package = p1]>>, {"reconcile"},
           {[what |-> "package", of |-> p1, to |-> 3]}),
      \* what the audit says of it
      With([OneSold(r1, Api(north, a1, 1)) EXCEPT !.fasttrack = {rs}], <<Put(r2, b1, 1)>>,
           {"reconcile", "audit"}, {}),
      With(OneSold(r1, Api(north, a1, 1)), <<Page(r1, 2)>>, {"reconcile", "audit"}, {}),
      With(OneSold(r1, Api(north, a1, 1)), <<Page(r1, 2)>>, {"audit"},
           {Moving(u, [at |-> rn, addr |-> a1])}),
      With(OneSold(r1, Api(north, a1, 1)), <<None>>, {"reconcile", "audit"},
           {Moving(u, [at |-> rn, addr |-> a1])}),
      With(OneSold(r1, Api(north, a1, 1)), <<Page(r1, 2)>>, {"reconcile", "verify"}, {}),
      \* a firewall the account may not read, behind it fasttrack or nothing
      With([OneSold(r1, Api(south, b1, 1)) EXCEPT !.fasttrack = {rs}, !.hidden = Routers],
           <<Page(r1, 2)>>, {"reconcile", "audit"}, {}),
      With([OneSold(r1, Api(south, b1, 1)) EXCEPT !.fasttrack = {rs}, !.hidden = {rs}],
           <<None>>, {"reconcile", "verify"}, {}),
      \* a router that does not answer, or refuses: once, in a withdrawal, a change,
      \* a cleaning or the reconciliation
      With(OneSold(r1, Api(south, b1, 1)), <<Delete(r1), Page(r1, 2)>>, {"reconcile"}, {Fault(rs)}),
      With(OneSold(r1, Hand(south, c1, 1)), <<HandAsk("remove", r1, NoSite, None, 0)>>,
           {"reconcile"}, {Fault(rs)}),
      With([Online EXCEPT !.plan[u] = [rate |-> 1, service |-> None], !.rows[u].plan = 1],
           <<Page(u, 0)>>, {"reconcile"}, {Fault(rn)}),
      With([Online EXCEPT !.fiche[r1] = Api(south, b1, 1), !.fiche[r2] = Api(south, c1, 1)],
           <<Ask("clean", rs, None, 0)>>, {"reconcile"}, {Fault(rs)}) }
=============================================================================
