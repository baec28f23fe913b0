------------------------------- MODULE MCRates -------------------------------
(* A client, its sector and its router, a schedule, two slots of the week; the *)
(* moves come in pairs chosen for what the one does to a pass of the other.    *)
EXTENDS RateSources

CONSTANTS c1, l1, r1, day, night, boosts, reconcile, schedule, qoe

MCJobs == [k \in Kinds |-> CASE k = "reconcile" -> {reconcile} [] k = "boosts" -> {boosts}
                             [] k = "schedule" -> {schedule} [] k = "qoe" -> {qoe}]
MCRouterOf == [x \in Subjects |-> r1]
MCAttached == [c \in Clients |-> l1]
MCPlan == [c \in Clients |-> 20]
Evening == [id |-> 1, precision |-> 3, clients |-> Clients,
            window |-> [s \in Slots |-> IF s = night THEN 1 ELSE 0], rate |-> <<5>>]
MCProfiles == {Evening}
MCFirstProfiles == {{Evening}}
MCFirstMeasured == {[l \in Links |-> 100]}

Of(a, b) == [n \in MoveNames |-> (IF n = a THEN 1 ELSE 0) + (IF n = b THEN 1 ELSE 0)]
MCScenarios ==
    {Of("boost", b) : b \in {"boost", "clear", "override", "fault"}}
    \cup {Of("profile", b) : b \in {"slot", "fault"}}
    \cup {Of("slot", b) : b \in {"flag", "switch", "restart"}}
    \cup {Of("score", b) : b \in {"score", "loop", "cycle", "fade"}}
=============================================================================
