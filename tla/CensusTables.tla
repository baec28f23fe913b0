---------------------------- MODULE CensusTables ----------------------------
(***************************************************************************)
(* Who lives on a router, from the tables read on it: the pure part of     *)
(* collectors/pop_census.py and collectors/vlan_clients.py.                *)
(*                                                                         *)
(* A table is a sequence of rows, empty when it was not read.  A network   *)
(* is the set of the hosts it can hold, so that the longer of two prefixes *)
(* around an address is the smaller set; a host alone is a singleton.      *)
(***************************************************************************)
EXTENDS Naturals, Sequences, FiniteSets, SequencesExt

CONSTANTS Default,  \* destination of a default route
          None      \* nothing known

\* In the order they are read.
Order == <<"addresses", "arp", "vlans", "pppoe_servers", "ppp_active", "dhcp_leases",
           "dhcp_servers", "bridge_hosts", "bridge_ports", "routes", "queues", "neighbors",
           "ospf_neighbors", "bgp_sessions">>
Tables == ToSet(Order)
\* Tables whose absence is normal.
Optional == {"pppoe_servers", "ospf_neighbors", "bgp_sessions"}

\* The first value known, None if there is none.
First(values) == LET known == {i \in 1..Len(values) : values[i] # None}
                 IN  IF known = {} THEN None
                     ELSE values[CHOOSE i \in known : \A j \in known : i <= j]
Rows(s) == ToSet(s)
IsRows(s) == s \in Seq(ToSet(s))
\* SelectSeq of the standard module, written out so that it can be reasoned about.
Select(s, Test(_), Of(_)) ==
    FlattenSeq([i \in 1..Len(s) |-> IF Test(s[i]) THEN <<Of(s[i])>> ELSE <<>>])
Where(s, Test(_)) == Select(s, Test, LAMBDA row : row)
-----------------------------------------------------------------------------
(* Where a client may be.                                                  *)

LiveVlans(t) == {row.name : row \in {v \in Rows(t["vlans"]) : ~v.off}}
DeadVlans(t) == {row.name : row \in {v \in Rows(t["vlans"]) : v.off}}
TagOf(t, interface) ==
    First([i \in 1..Len(t["vlans"]) |->
        IF ~t["vlans"][i].off /\ t["vlans"][i].name = interface THEN t["vlans"][i].tag ELSE None])
PppoeInterfaces(t) == {row.interface : row \in {s \in Rows(t["pppoe_servers"]) : ~s.off}}

\* The peers of an adjacency that is up, and the gateways of the default routes in force.
Peers(t) == {row.address : row \in {p \in Rows(t["ospf_neighbors"]) \cup Rows(t["bgp_sessions"]) : p.up}}
Gateways(t) == {row.gateway : row \in {r \in Rows(t["routes"]) :
                    ~r.off /\ r.active /\ r.dst = Default /\ r.gateway # None}}

\* A /30 or longer: two hosts at most.
Narrow(net) == Cardinality(net) <= 2

Role(t, row) ==
    CASE row.off \/ row.interface \in DeadVlans(t) -> "disabled"
      [] OTHER ->
           IF Narrow(row.net) THEN "point to point"
           ELSE IF row.interface \in PppoeInterfaces(t) THEN "pppoe"
           ELSE IF (Peers(t) \cup Gateways(t)) \cap row.net # {} THEN "transit"
           ELSE "client"

Subnets(t) ==
    Select(t["addresses"], LAMBDA row : TRUE,
           LAMBDA row : [net |-> row.net, interface |-> row.interface, role |-> Role(t, row)])
ClientNets(subnets) == {s.net : s \in {r \in Rows(subnets) : r.role = "client"}}
InClientNet(subnets, a) == \E n \in ClientNets(subnets) : a \in n

\* The most precise network around an address; of one network on two
\* interfaces, the client's side first.
SubnetOf(subnets, a) ==
    LET around == Where(subnets, LAMBDA r : a \in r.net)
        best == Where(around, LAMBDA r : \A s \in Rows(around) : r.net \subseteq s.net)
        serving == Where(best, LAMBDA r : r.role = "client")
    IN  First(serving \o best)
-----------------------------------------------------------------------------
(* What each table shows: one trace for each row that tells a presence.    *)

Trace(a, source) == [address |-> a, source |-> source, mac |-> None, interface |-> None,
                     login |-> None, perimeter |-> FALSE]
\* The verdict on an ARP entry.
Judged(t, subnets, row) ==
    IF row.off THEN "off"
    ELSE IF row.invalid THEN "invalid"
    ELSE IF row.interface \in PppoeInterfaces(t) THEN "pppoe"
    ELSE IF row.interface \in DeadVlans(t) THEN "dead vlan"
    ELSE IF row.interface \notin LiveVlans(t) /\ ~InClientNet(subnets, row.address) THEN "no vlan"
    ELSE IF row.mac = None THEN "no mac"
    ELSE IF row.interface \in LiveVlans(t) THEN "kept" ELSE "kept by its network"

\* Only a lookup without an answer and a dead entry tell no presence.
ArpTraces(t, subnets) ==
    Select(t["arp"], LAMBDA row : Judged(t, subnets, row) \notin {"off", "invalid", "no mac"},
           LAMBDA row : [Trace(row.address, "arp") EXCEPT
               !.mac = row.mac, !.interface = row.interface,
               !.perimeter = Judged(t, subnets, row) = "kept"])

\* A lease outlives the silence of its client, and places it on its own.
ServedOn(t, server) ==
    First([i \in 1..Len(t["dhcp_servers"]) |->
        IF t["dhcp_servers"][i].name = server THEN t["dhcp_servers"][i].interface ELSE None])
LeaseTraces(t) ==
    Select(t["dhcp_leases"], LAMBDA row : ~row.off /\ First(<<row.active, row.address>>) # None,
           LAMBDA row : [Trace(First(<<row.active, row.address>>), "lease") EXCEPT
               !.mac = row.mac, !.interface = ServedOn(t, row.server), !.perimeter = TRUE])

SessionTraces(t) ==
    Select(t["ppp_active"], LAMBDA row : row.address # None,
           LAMBDA row : [Trace(row.address, "session") EXCEPT !.mac = row.mac, !.login = row.login])

NeighbourTraces(t) ==
    Select(t["neighbors"], LAMBDA row : row.address # None,
           LAMBDA row : [Trace(row.address, "neighbour") EXCEPT
               !.mac = row.mac, !.interface = row.interface])

\* The gateway of a static route speaks for the block behind it.
ClientRoutes(t, subnets) ==
    Where(t["routes"], LAMBDA r : /\ ~r.off /\ ~r.dynamic
                                  /\ r.dst # Default /\ r.gateway # None
                                  /\ InClientNet(subnets, r.gateway))
RouteTraces(t, subnets) ==
    [i \in 1..Len(ClientRoutes(t, subnets)) |-> Trace(ClientRoutes(t, subnets)[i].gateway, "route")]

\* A queue inside a client network: a host when it targets one address.
QueueTargets(t) == FlattenSeq(Select(t["queues"], LAMBDA q : ~q.off, LAMBDA q : q.targets))
ClientTargets(t, subnets) ==
    Where(QueueTargets(t), LAMBDA net : \E n \in ClientNets(subnets) : net \subseteq n)
QueueTraces(t, subnets) ==
    Select(ClientTargets(t, subnets), LAMBDA net : Cardinality(net) = 1,
           LAMBDA net : Trace(CHOOSE a \in net : TRUE, "queue"))
-----------------------------------------------------------------------------
(* The hosts: the traces of one address, of which the first to know a      *)
(* field gives it.                                                         *)

Traces(t, subnets) ==
    ArpTraces(t, subnets) \o LeaseTraces(t) \o SessionTraces(t) \o NeighbourTraces(t)
        \o RouteTraces(t, subnets) \o QueueTraces(t, subnets)

Located(subnets, traces, a) ==
    LET own == Where(traces, LAMBDA trace : trace.address = a)
        subnet == SubnetOf(subnets, a)
        Known(field) == First([i \in 1..Len(own) |-> own[i][field]])
    IN  [mac |-> Known("mac"),
         interface |-> IF Known("interface") = None /\ subnet # None
                       THEN subnet.interface ELSE Known("interface"),
         subnet |-> subnet,
         login |-> Known("login"),
         perimeter |-> \E trace \in Rows(own) : trace.perimeter,
         sources |-> {trace.source : trace \in Rows(own)}]

\* The VLAN: the interface that bears it, the bridge table that saw the MAC,
\* the pvid of the port, the interface of the network.
BridgeTag(t, mac) ==
    LET seen == Where(t["bridge_hosts"], LAMBDA h : ~h.local /\ h.mac = mac)
    IN  IF mac = None \/ seen = <<>> THEN None ELSE seen[1].tag
PortTag(t, interface) ==
    First([i \in 1..Len(t["bridge_ports"]) |->
        IF ~t["bridge_ports"][i].off /\ t["bridge_ports"][i].interface = interface
        THEN t["bridge_ports"][i].pvid ELSE None])
HostTag(t, host) ==
    First(<<TagOf(t, host.interface), BridgeTag(t, host.mac), PortTag(t, host.interface),
            IF host.subnet = None THEN None ELSE TagOf(t, host.subnet.interface)>>)

Placed(host) == IF host.subnet = None THEN IF host.perimeter THEN "client" ELSE "outside"
                ELSE IF host.subnet.role = "client" THEN "client" ELSE "outside"

\* Mutant: the equipment is not told from the clients.
NatureBlind(t, known, a, host) == IF host.login # None THEN "subscriber" ELSE Placed(host)

\* The router itself, then the session, then the equipment, then the network.
Nature(t, known, a, host) ==
    IF a \in {row.address : row \in Rows(t["addresses"])} THEN "equipment"
    ELSE IF host.login # None THEN "subscriber"
    ELSE IF a \in known \cup Peers(t) THEN "equipment"
    ELSE Placed(host)

\* The hosts of a router: where each one is, and what it is.
HostAt(t, known, subnets, traces, a) ==
    LET host == Located(subnets, traces, a)
    IN  [address |-> a, interface |-> host.interface, mac |-> host.mac, tag |-> HostTag(t, host),
         nature |-> Nature(t, known, a, host)]
Hosts(t, known) ==
    LET subnets == Subnets(t)
        traces == Traces(t, subnets)
    IN  {HostAt(t, known, subnets, traces, a) : a \in {trace.address : trace \in Rows(traces)}}

\* What is recorded: the clients alone.
Sightings(t, known) == {host \in Hosts(t, known) : host.nature = "client"}
Clients(t, known) == {host.address : host \in Sightings(t, known)}

\* Mutant: every table is one whose absence is normal.
MissingNone(unread) == {}

\* The readings that failed and should not have.
Missing(unread) == unread \ Optional
=============================================================================
