------------------------------ MODULE MCShaping ------------------------------
(* One or two clients behind one backhaul, two or three addresses, two rates,*)
(* rows that a third party or another instance may add.                      *)
EXTENDS ShapingService

CONSTANTS s1, s2, l1, x1, x2, a1, a2

MCNetwork == [l \in Links |-> Addrs]
MCSector  == [s \in Subs |-> NoParent]
MCRank    == [n \in Subjects |-> CASE n = l1 -> 0 [] n = s1 -> 1 [] n = s2 -> 2]

Third(name, target, owner) ==
    [name |-> name, target |-> target, rate |-> 2, parent |-> NoParent,
     owner |-> owner, disabled |-> FALSE]

Empty == [i \in Ids |-> Absent]

\* An empty router; one whose first row was written before instances existed,
\* on yesterday's address, and disabled by hand since.
MCLists == {Empty,
            [Empty EXCEPT ![1] = [Third(s1, {a2}, "unstamped") EXCEPT !.disabled = TRUE]]}

MCPolicies == {[n \in Subjects |-> IF n = s1 THEN 1 ELSE 2]}
MCClientOff == MCPolicies \cup {[n \in Subjects |-> IF n = s1 THEN Off ELSE 2]}
MCLinkOff  == {[n \in Subjects |-> IF n = l1 THEN Off ELSE IF n = s1 THEN 1 ELSE 2]}
MCReaches  == {[s \in Subs |-> IF s = s1 THEN {a1} ELSE {a2}]}
\* The second client has an address of its own, or a network around the first.
MCBlocks   == {Addrs}
MCReachesNested == MCReaches \cup {[s \in Subs |-> IF s = s1 THEN {a1} ELSE Addrs]}

MCNobody        == {}
MCThirdOnClient == {Third(x1, {a1}, "third"), Third(s2, {a2}, "other")}
MCThirdOnFirst  == {Third(x1, {a1}, "third"), Third(s1, {a1}, "other")}
MCThirdOnLink   == {Third(x1, {a1, a2}, "third")}
MCThirdNested   == {Third(x1, {a1, a2}, "third"), Third(x2, {a1}, "third")}
MCThirdOnBoth   == MCThirdOnClient \cup MCThirdNested
=============================================================================
