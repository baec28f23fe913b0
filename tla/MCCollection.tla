---------------------------- MODULE MCCollection ----------------------------
(* Two sessions on the router of North (ann, ben), one on the router of     *)
(* South (cal), two static clients of one VLAN of North (sta, stb). Each   *)
(* story puts some of them on the network and allows some changes.         *)
EXTENDS Collection, TLC

MCPopOf == [r1 |-> "North", r2 |-> "South"]
MCPlain == [North |-> "north", NORTH |-> "north", South |-> "south"]
MCSiteName == ("vlan-mairie" :> "Mairie") @@ ("vlan101" :> "VLAN 101")
MCDefaultName == [v1 |-> "vlan101"]
MCWithin == [a1 |-> {"a1"}, a2 |-> {"a2"}, s1 |-> {"s1"}, s2 |-> {"s2"}, net |-> {"net", "s1", "s2"},
             all |-> {"a1", "a2", "s1", "s2", "net", "all"}]
MCQueueRouter == [t \in DOMAIN MCWithin |-> "r1"]
MCQueue0 == [t \in DOMAIN MCWithin |-> IF t \in {"a1", "s1", "all"} THEN 0 ELSE None]
MCLoginOrder == <<"ann", "ben", "cal">>
MCClientOrder == <<"sta", "stb">>
MCClients == [sta |-> [vlan |-> "v1", address |-> "s1", extra |-> <<>>, place |-> "NORTH"],
              stb |-> [vlan |-> "v1", address |-> "s2", extra |-> <<>>, place |-> "North"]]
MCRouterOf == [ann |-> "r1", ben |-> "r1", cal |-> "r2"]
MCAddressesOf == [ann |-> {"a1", "a2"}, ben |-> {"a1", "a2"}, cal |-> {"c1"}]
MCFirstAddress == [ann |-> "a1", ben |-> "a2", cal |-> "c1"]
MCPorts == ("vlan-mairie" :> [router |-> "r1", tag |-> "v1", pppoe |-> FALSE, networks |-> <<"net">>])
MCSighted == <<[router |-> "r1", tag |-> "v1", interface |-> "vlan-mairie"]>>
MCRouterLists == {<<"r1">>, <<"r1", "r2">>, <<"r2", "r1">>, <<"r2">>}
MCSeenLists == {MCSighted, <<>>}
MCPlans == {NoPlan, "gold"}

Story(kinds, online, enabled, n) == [kinds |-> kinds, online |-> online, enabled |-> enabled, n |-> n]
Rates == {
    Story({"traffic", "session"}, {"ann"}, {}, 2),
    Story({"traffic", "fault"}, {"ann"}, {}, 2),
    Story({"traffic", "queue", "fault"}, {}, {"sta"}, 2),
    Story({"traffic", "record"}, {}, {"sta", "stb"}, 1)}
Changes == {
    Story({"delete", "fault"}, {"ann"}, {}, 2),
    Story({"delete", "site"}, {"ann"}, {"sta"}, 1),
    Story({"plan"}, {"ann"}, {}, 1),
    Story({"plan", "external"}, {"ann"}, {}, 1),
    Story({"record", "fault", "vlans"}, {}, {"sta"}, 2),
    Story({"routers"}, {"ann", "cal"}, {}, 2),
    Story({"probe", "session", "age"}, {"ann", "ben"}, {}, 1)}

ASSUME MCDeployment == Deployment

Begins(stories) == Init /\ \E t \in stories :
    /\ collectors = IF "routers" \in t.kinds THEN <<"r1", "r2">> ELSE <<"r1">>
    /\ story = t.kinds /\ moves = t.n
    /\ \A l \in Logins : (session[l] # None) = (l \in t.online)
    /\ \A s \in Statics : (declared[s] # None) = (s \in t.enabled)
MCSpec == Begins(Rates \cup Changes) /\ [][Next]_vars /\ Fairness
=============================================================================
