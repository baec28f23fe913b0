----------------------------- MODULE MCTopology -----------------------------
(* Small networks for Topology: a core A, two PoPs B and C behind it, a      *)
(* device X nobody declared, and what happens to them.                     *)
EXTENDS Topology

Order == <<"A", "B", "C">>
Records == [A |-> [host |-> 1, loopback |-> None, pop |-> "heights", role |-> "core"],
            B |-> [host |-> 2, loopback |-> None, pop |-> "valley", role |-> "pop"],
            C |-> [host |-> 3, loopback |-> None, pop |-> "island", role |-> "pop"]]

At(d, p) == [of |-> d, port |-> p]
Cable(d, p, e, q) == {At(d, p), At(e, q)}
Ip(ip, kind, net, port) == [ip |-> ip, kind |-> kind, net |-> net, port |-> port]
Lo(ip) == Ip(ip, "loopback", None, None)
Device(name, mac, addrs) ==
    [name |-> name, mac |-> mac, addrs |-> addrs, radio |-> FALSE, serial |-> None, rids |-> <<>>,
     gateways |-> {}, peers |-> {}, tunnels |-> {}, vlans |-> {}, sessions |-> {}]
Net(device, segments) ==
    [device |-> device, segments |-> segments, radios |-> {}, clients |-> {}]
Ask(op, a, b) == [op |-> op, a |-> a, b |-> b]
Story(worlds, who, asked, silent) ==
    [worlds |-> worlds, listed |-> who, asks |-> asked, silent |-> silent]

DevA == Device("a", <<11, 12>>, {Lo(1), Ip(41, "interface", "n1", 1)})
DevB == Device("b", <<21, 22>>, {Lo(2), Ip(42, "interface", "n1", 1)})
DevC == Device("c", <<31, 32>>, {Lo(3)})
DevX == Device("x", <<51>>, {Ip(90, "interface", None, 1)})
All == [A |-> DevA, B |-> DevB, C |-> DevC, X |-> DevX]

\* The port of a cable moves, a second cable comes.
Moved == <<Net(All, {Cable("A", 2, "B", 1)}), Net(All, {Cable("A", 1, "B", 2)}),
           Net(All, {Cable("A", 2, "B", 2), Cable("A", 1, "B", 1)})>>
Plain == Net(All, {Cable("A", 1, "B", 1), Cable("A", 2, "C", 1), Cable("B", 2, "X", 1)})
Restart == Ask("restart", None, None)
Forget == Ask("forget", None, None)

\* Two routers born of one configuration, not wired to each other, with one
\* MAC, one address and one template subnet; a device nobody declared that
\* carries the MAC of a router behind it.
Clones ==
    LET clone(d) == [d EXCEPT !.mac = <<21, 22>>, !.addrs = @ \cup {Ip(88, "interface", "n9", 1)}] IN
    Net([All EXCEPT !.B = clone([@ EXCEPT !.addrs = {Lo(2)}]), !.C = clone(@), !.X.mac = <<51, 52>>],
        {Cable("A", 2, "C", 1), Cable("C", 2, "X", 1), Cable("X", 2, "B", 1)})
Copied == Net([All EXCEPT !.X.mac = <<21, 51>>, !.B.addrs = {Lo(2)}],
              {Cable("A", 1, "X", 1), Cable("X", 2, "B", 2)})

Twins == Net([All EXCEPT !.B = [DevB EXCEPT !.mac = <<31, 32>>, !.serial = 7], !.C.serial = 7],
             {Cable("A", 1, "B", 1), Cable("A", 2, "C", 1)})

\* A tunnel, a routing session and default gateways behind a switch.
Spoken ==
    LET hears(d, peers, gateways) == [d EXCEPT !.peers = peers, !.gateways = gateways]
        via(ip, distance) == [ip |-> ip, distance |-> distance] IN
    Net([All EXCEPT !.A = [hears(@, {2}, {via(99, 1)}) EXCEPT !.tunnels = {[name |-> 7, remote |-> 3]}],
                    !.B = hears(@, {1}, {via(41, 1), via(3, 2)}),
                    !.C = hears(@, {2}, {via(1, 1), via(2, 1)})],
        {{At("A", 1), At("B", 1), At("X", 1)}, Cable("A", 2, "X", 1)})

\* Clients: one behind a VLAN of B, which moves to C, one behind a sector.
Vlan(name, id) == [name |-> name, id |-> id]
Client(ref, pop, ip, vlan, sector) ==
    [ref |-> ref, pop |-> pop, ip |-> ip, vlan |-> vlan, sector |-> sector]
Radio(id, mac, ap, parent) == [id |-> id, mac |-> mac, ap |-> ap, parent |-> parent]
Served(where, sector) ==
    LET carries(d, r) == [d EXCEPT !.vlans = IF r = where THEN {Vlan(5, 100)} ELSE {},
                                   !.sessions = IF r = "B" THEN {[login |-> "sam", mac |-> 52, ip |-> 77]}
                                                ELSE {}] IN
    [Net([All EXCEPT !.B = carries(@, "B"), !.C = carries(@, "C"), !.X.mac = <<52>>, !.X.radio = TRUE],
         {Cable("A", 1, "B", 1), Cable("A", 2, "C", 1), Cable("B", 2, "X", 1)})
     EXCEPT !.clients = {Client("kim", where, 78, 100, None), Client("lou", "B", 79, None, sector)},
            !.radios = {Radio("ap", 61, TRUE, None), Radio("cpe", 52, FALSE, "ap")}]

Shared == {Story(<<Clones>>, {"A", "B", "C"}, {Restart}, {"B", "C"})}
Distinct == {
    Story(<<Twins>>, {"A", "B", "C"}, {Forget}, {"B", "C"}),
    Story(<<Copied>>, {"A", "B"}, {Forget}, {"B"}),
    Story(Moved, {"A", "B"}, {Restart}, {"A", "B"}),
    Story(<<Plain>>, {"A", "B", "C"}, {Restart, Forget}, {"B", "database"}),
    Story(<<Spoken, Plain>>, {"A", "B", "C"}, {Restart}, {"A", "B"}),
    Story(<<Plain>>, {"A", "B"}, {Ask("add", "C", None), Ask("remove", "B", None), Ask("set aside", "B", None)}, {}),
    Story(<<Served("B", None), Served("C", MacKey(61))>>, {"A", "B", "C"}, {Forget}, {"C"}),
    Story(<<Plain>>, {"A", "B"}, {Ask("merge", MacKey(51), RouterKey("B")), Ask("unmerge", MacKey(51), None),
                                  Ask("link", RouterKey("A"), MacKey(51)), Ask("hide", None, None), Forget}, {})}
Tales == Shared \cup Distinct

\* The devices of a story are told apart, but for those of Clones, which share
\* an address.
ASSUME MCIdentified ==
    \A tale \in Tales : LET worlds == Range(tale.worlds) IN
                         MacsKept(worlds) /\ (Identified(worlds) <=> tale \in Distinct)
=============================================================================
