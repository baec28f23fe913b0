--------------------------- MODULE MCRestrictions ---------------------------
(* One or two restrictions, two servers, two clients, two routers.           *)
EXTENDS RestrictionService

CONSTANTS d1, d2, c1, c2, r1, r2, op

MCTwoRouters == <<r1, r2>>
MCTakes == [o \in Operators |-> Dests]

Entered(dests, chosen, clients, action) ==
    [dests |-> dests, chosen |-> chosen, clients |-> clients, action |-> action, ways |-> Ways]

\* For everybody, for one client, a cap for one client; for clients never seen.
MCShapes == {Entered({d1}, FALSE, {}, "block"), Entered({d1}, TRUE, {c1}, "block"),
             Entered({d1}, TRUE, {c1}, "limit")}

\* No rule yet; one saved and never laid.
MCSaved == {[r \in RuleIds |-> [enabled |-> TRUE, state |-> "new", shape |-> shape]] :
                shape \in {Entered({d1}, FALSE, {}, "block"), Entered({d1}, TRUE, {c1}, "limit")}}

\* A line that accepts everything, in force or disabled.
MCOperatorRows ==
    {[kind |-> "filter", owner |-> op, way |-> CHOOSE w \in Ways : TRUE, addr |-> NoAddr,
      scoped |-> FALSE, disabled |-> off] : off \in BOOLEAN}
=============================================================================
