------------------------------ MODULE MCNetFlow ------------------------------
(* Two clients of one server behind a masking edge E and two sites P, Q. P *)
(* reports an upload by two interfaces; the download of a crosses Q, P and *)
(* E; the edge keeps the ports of the clients. An unknown machine talks.   *)
EXTENDS NetFlow, TLC

Rec(from, to, cport, tsrc, tport, input) ==
    [from |-> from, to |-> to, cport |-> cport, tsrc |-> tsrc, tport |-> tport,
     tdst |-> None, input |-> input]
At(packet, exporter, rec) == [packet |-> packet, exporter |-> exporter, rec |-> rec]

aUpP == At("aUp", "P", Rec("a", "s", 1, None, 0, 1))
aUpPAgain == At("aUp", "P", Rec("a", "s", 1, None, 0, 2))
aUpE == At("aUp", "E", Rec("a", "s", 1, "p", 1, 1))
bUpE == At("bUp", "E", Rec("b", "s", 2, "p", 2, 1))
aDownE == At("aDown", "E", Rec("s", "p", 1, None, 0, 3))
bDownE == At("bDown", "E", Rec("s", "p", 2, None, 0, 3))
aDownP == At("aDown", "P", Rec("s", "a", 1, None, 0, 3))
aDownQ == At("aDown", "Q", Rec("s", "a", 1, None, 0, 3))
xUpP == At("xUp", "P", Rec("x", "s", 3, None, 0, 1))

\* The sites alone, the edge alone, one client across both.
Stories == {{aUpP, aUpPAgain, aDownP, aDownQ}, {aUpE, bUpE, aDownE, bDownE},
            {aUpP, aUpE, aDownE, aDownQ}, {xUpP}, {aUpE}}
MCPassages == UNION Stories

MCClientOf ==
    [k \in {"aUp", "aDown", "bUp", "bDown", "xUp"} |->
        CASE k = "aUp" -> [address |-> "a", dir |-> "up", port |-> 1]
          [] k = "aDown" -> [address |-> "a", dir |-> "down", port |-> 1]
          [] k = "bUp" -> [address |-> "b", dir |-> "up", port |-> 2]
          [] k = "bDown" -> [address |-> "b", dir |-> "down", port |-> 2]
          [] OTHER -> [address |-> "x", dir |-> "up", port |-> 3]]
MCAppOf == [r \in Remotes |-> "web"]
MCLayout == [E |-> "x", P |-> "y", Q |-> "y"]
MCBlock0 == [x \in Addresses |-> CASE x = "a" -> "A" [] x = "b" -> "B" [] OTHER -> None]
MCDeclared0 == [E |-> None, P |-> "pop", Q |-> "pop"]
MCRole0 == [E |-> "core", P |-> "pop", Q |-> None]

\* The network is the one of the theorems.
ASSUME MCNetwork == EndsAreTold /\ OncePerInterface /\ PortsTellApart

\* Either a story and nobody at the interface, or one passage and MaxMoves
\* changes: each history stays within reach.
MCInit ==
    /\ Init /\ left \in Stories
    /\ IF Cardinality(left) = 1 THEN moves = 0 ELSE moves = MaxMoves
MCSpec == MCInit /\ [][Next]_vars /\ \A t \in Tasks : WF_vars(Works(t))
=============================================================================
