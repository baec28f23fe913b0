---------------------------- MODULE MCInventory ----------------------------
(* A file router nobody touches (f), another people act on (g), a router    *)
(* they declare, change and remove (a), two addresses; the process starts  *)
(* with g closed to writing, or with a declared, or with g put aside.      *)
EXTENDS Inventory

MCHosts == {"h1", "h2"}
MCFileHost == [n \in FileRouters |-> "h1"]
MCFileWrite == [n \in FileRouters |-> TRUE]
MCOrder == <<"a", "f", "g">>

Declared == [host |-> "h1", enabled |-> TRUE, write |-> TRUE, readable |-> TRUE]
MCInit ==
    /\ Init
    /\ \/ readonly = {"g"} /\ hidden = {} /\ \A n \in DbRouters : table[n] = NoRow
       \/ readonly = {} /\ hidden = {} /\ \A n \in DbRouters : table[n] = Declared
       \/ readonly = {} /\ hidden = {"g"} /\ \A n \in DbRouters : table[n] = NoRow
MCSpec == MCInit /\ [][Next]_vars /\ Fairness
=============================================================================
