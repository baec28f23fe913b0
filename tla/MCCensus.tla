------------------------------ MODULE MCCensus ------------------------------
(* A small instance of Census: four routers as stories.                    *)
EXTENDS Census

CONSTANTS o, a, b, c, p, g, k

Blank == [name \in Tables |-> <<>>]
Lan == {o, a, b, c, k}
Address(own, net, interface) ==
    [address |-> own, net |-> net, interface |-> interface, off |-> FALSE]
Arp(addr, mac, interface) ==
    [address |-> addr, mac |-> mac, interface |-> interface, off |-> FALSE, invalid |-> FALSE]
Vlan(name, tag, off) == [name |-> name, tag |-> tag, off |-> off]
Lease(addr, mac, server) ==
    [active |-> None, address |-> addr, mac |-> mac, server |-> server, off |-> FALSE]
Session(addr, login) == [address |-> addr, login |-> login, mac |-> None]
Route(dst, gateway, dynamic) ==
    [dst |-> dst, gateway |-> gateway, off |-> FALSE, dynamic |-> dynamic, active |-> TRUE]
Queue(targets) == [targets |-> targets, off |-> FALSE]
Neighbour(addr, mac) == [address |-> addr, mac |-> mac, interface |-> "ether2"]
Peer(addr, up) == [address |-> addr, up |-> up]

\* A bridge with VLAN filtering: the ARP names the bridge, the bridge table the VLAN.
Bridged == [Blank EXCEPT
    !["addresses"] = <<Address(o, Lan, "bridge"), Address(g, {g, p}, "ether1")>>,
    !["arp"] = <<Arp(a, "m1", "bridge"), Arp(g, "m3", "ether1")>>,
    !["bridge_hosts"] = <<[mac |-> "m1", tag |-> 120, local |-> FALSE],
                          [mac |-> "m2", tag |-> 130, local |-> FALSE]>>,
    !["bridge_ports"] = <<[interface |-> "bridge", pvid |-> 1, off |-> FALSE]>>,
    !["dhcp_leases"] = <<Lease(b, "m2", "dhcp1")>>,
    !["dhcp_servers"] = <<[name |-> "dhcp1", interface |-> "vlan130"]>>,
    !["routes"] = <<Route(Default, p, FALSE), Route({}, c, FALSE)>>]

\* A VLAN that bears clients, a PPPoE server beside it, an antenna that speaks.
Mixed == [Blank EXCEPT
    !["addresses"] = <<Address(o, Lan, "vlan10"), Address(g, {g, p, None}, "ether5")>>,
    !["vlans"] = <<Vlan("vlan10", 10, FALSE), Vlan("vlan11", 11, TRUE)>>,
    !["pppoe_servers"] = <<[interface |-> "ether5", off |-> FALSE]>>,
    !["arp"] = <<Arp(a, "m1", "vlan10"), Arp(k, "m4", "vlan10"), Arp(p, None, "ether5")>>,
    !["ppp_active"] = <<Session(p, "p")>>,
    !["neighbors"] = <<Neighbour(k, "m4")>>,
    !["queues"] = <<Queue(<<{c}>>)>>]

\* A network that carries an adjacency, an address of nowhere.
Transit == [Blank EXCEPT
    !["addresses"] = <<Address(o, Lan, "ether2")>>,
    !["arp"] = <<Arp(a, "m1", "ether2"), Arp(g, None, "ether9")>>,
    !["dhcp_leases"] = <<Lease(p, "m3", "remote")>>,
    !["ospf_neighbors"] = <<Peer(k, TRUE)>>,
    !["bgp_sessions"] = <<Peer(b, FALSE)>>]

Move(table, rows) == [table |-> table, rows |-> rows]
InSteps(steps) == steps \o <<Tables \ UNION ToSet(steps)>>
Story(tables, steps, moves, changes) ==
    [router |-> tables, broken |-> {}, steps |-> InSteps(steps), managed |-> {}, fiches |-> {},
     moves |-> moves, declares |-> {}, manages |-> {}, changes |-> changes, failures |-> 1]

Stories ==
    { Story(Bridged, <<{"arp"}, {"dhcp_leases"}>>,
            {Move("arp", <<>>), Move("dhcp_leases", <<>>), Move("queues", <<Queue(<<{b}>>)>>)}, 2),
      [Story(Mixed, <<{"arp", "vlans"}, {"ppp_active"}>>,
            {Move("ppp_active", <<Session(a, "a")>>), Move("arp", <<>>),
             Move("vlans", <<Vlan("vlan10", 10, TRUE)>>)}, 1)
          EXCEPT !.broken = {"neighbors"}, !.manages = {k}],
      [Story(Transit, <<{"addresses", "arp"}>>,
            {Move("ospf_neighbors", <<Peer(k, FALSE)>>), Move("addresses", <<>>)}, 2)
          EXCEPT !.manages = {a}],
      [Story(Mixed, <<>>, {}, 3)
          EXCEPT !.broken = {"bridge_hosts", "ospf_neighbors"}, !.fiches = {{{a, b}}},
                 !.declares = {{{a, b}}, {{a}, {c}}}] }

ASSUME MCDeployment == Deployment
=============================================================================
