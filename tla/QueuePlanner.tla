----------------------------- MODULE QueuePlanner -----------------------------
(***************************************************************************)
(* The pure part of the shaping controller for ONE router: what the queues *)
(* should be (desired_state), how the list read on the router compares to  *)
(* it (masked_queues, build_plan), and what RouterOS does with a command.  *)
(*                                                                         *)
(* A subject is a subscriber or a link; its queue has the subject's name.  *)
(* A target is the set of addresses it covers, so that two targets overlap *)
(* when they intersect, a network contains a client when it includes it,   *)
(* and of two networks around an address the longer prefix is the smaller  *)
(* set.  A rate is a natural number, 0 being RouterOS's "unlimited" (0/0).  *)
(* RouterOS evaluates simple queues in list order and appends a new one at *)
(* the end: the list is a function of the row's .id, the lower the earlier.*)
(***************************************************************************)
EXTENDS Naturals, FiniteSets

CONSTANTS
    Subs,       \* subscribers, PPPoE or with a fixed address
    Links,      \* backhaul links, whose queues are the parents
    ThirdNames, \* names of queues written by hand or by another controller
    Addrs,      \* addresses
    Blocks,     \* the networks that targets give as one member (10.0.0.0/29)
    Network,    \* [Links -> SUBSET Addrs]: the L3 segment of a link
    Sector,     \* [Subs -> Links \cup {NoParent}]: the link a client was tied to
    Static,     \* the subscribers with a fixed address
    Rates,      \* rates a policy may give
    MaxRows,    \* bound: how many rows a router list may ever have held
    Adopt,      \* shaping_adopt_foreign_queues
    NoParent,   \* parent "none"
    Absent,     \* no row at that .id
    Skip,       \* no queue is wanted for that subject
    Off         \* the policy of a subject whose shaping is disabled

Subjects == Subs \cup Links
Names    == Subjects \cup ThirdNames
Ids      == 1..MaxRows
Owners   == {"ours", "unstamped", "other", "third"}
Fields   == {"target", "rate", "parent", "disabled", "comment"}
Policies == Rates \cup {0, Off}

Row  == [name : Names, target : SUBSET Addrs, rate : Rates \cup {0},
         parent : Names \cup {NoParent}, owner : Owners, disabled : BOOLEAN]
QueueSpec == [target : SUBSET Addrs, rate : Rates \cup {0},
              parent : Links \cup {NoParent}]
Verbs   == {"skip", "unchanged", "conflict", "add", "set", "remove"}
Verdict == [verb : Verbs, name : Names, id : Ids \cup {0}, fields : SUBSET Fields,
            spec : QueueSpec \cup {Skip}]

ASSUME PlannerAssumption ==
    /\ Subs \cap Links = {}
    /\ Subjects \cap ThirdNames = {}
    /\ Static \subseteq Subs
    /\ IsFiniteSet(Addrs)
    /\ Blocks \subseteq SUBSET Addrs
    /\ Network \in [Links -> SUBSET Addrs]
    /\ Sector \in [Subs -> Links \cup {NoParent}]
    /\ Rates \subseteq Nat \ {0}
    /\ MaxRows \in Nat
    /\ Adopt \in BOOLEAN
    /\ NoParent \notin Names
    /\ Absent \notin Row
    /\ Skip \notin QueueSpec
    /\ Off \notin Nat
-----------------------------------------------------------------------------
(* Whose row it is, read in its comment (models.py). *)

Managed(row)    == row.owner # "third"
IsOurs(row)     == row.owner \in {"ours", "unstamped"}
\* Mutant: every row of ours is claimed again, not only the unstamped ones.
NeedsClaimAlways(row) == IsOurs(row)
NeedsClaim(row) == row.owner = "unstamped"

Present(q)    == {i \in Ids : q[i] # Absent}
Called(q, n)  == {i \in Present(q) : q[i].name = n}
-----------------------------------------------------------------------------
(* The desired state. *)

SameTarget(policy, l) ==
    {m \in Links : m # l /\ policy[m] # Off /\ Network[m] = Network[l]}

LinkWanted(policy, l) ==
    policy[l] # Off /\ Network[l] # {} /\ SameTarget(policy, l) = {}

\* The subscribers that would really get a queue on their current address.
Claims(policy, reach, s) ==
    /\ policy[s] # Off
    /\ policy[s] # 0 \/ s \in Static
    /\ reach[s] # {}

\* The members of a target as they are written: its widest networks, and the
\* addresses that stand alone.
Members(target) ==
    LET inside == {b \in Blocks : b \subseteq target}
        whole == {b \in inside : \A c \in inside : b \subseteq c => b = c}
    IN  whole \cup {{a} : a \in target \ UNION whole}

\* Two clients claim one member, written alike: a client whose address lies in
\* the network of another claims nothing of his, and both have their queue.
Ambiguous(policy, reach, s) ==
    \E o \in Subs \ {s} : /\ Claims(policy, reach, o)
                          /\ Members(reach[o]) \cap Members(reach[s]) # {}

\* Mutant: a parent is taken among all the links, those without a queue too.
CarriersUnfiltered(policy, target) == {l \in Links : target \subseteq Network[l]}

\* The links whose segment holds the whole target, and the most precise of them.
Carriers(policy, target) ==
    {l \in Links : LinkWanted(policy, l) /\ target \subseteq Network[l]}

ParentOf(policy, s, target) ==
    LET up == Carriers(policy, target)
    IN  IF Sector[s] \in up THEN Sector[s]
        ELSE IF up = {} THEN NoParent
        ELSE CHOOSE l \in up : \A m \in up :
                 Network[m] \subseteq Network[l] => Network[m] = Network[l]

Desired(policy, reach) ==
    [x \in Subjects |->
        IF x \in Links
        THEN IF LinkWanted(policy, x)
             THEN [target |-> Network[x], rate |-> policy[x], parent |-> NoParent]
             ELSE Skip
        ELSE IF Claims(policy, reach, x) /\ ~Ambiguous(policy, reach, x)
             THEN [target |-> reach[x], rate |-> policy[x],
                   parent |-> ParentOf(policy, x, reach[x])]
             ELSE Skip]
-----------------------------------------------------------------------------
(* Masking: the first enabled row of the list that takes the traffic, the   *)
(* row's own parent apart (masked_queues).                                  *)

Maskers(q, i) ==
    {j \in Present(q) : /\ j < i
                        /\ ~q[j].disabled
                        /\ q[j].name # q[i].parent
                        /\ q[j].target \cap q[i].target # {}}

Masked(q, i) == ~q[i].disabled /\ Maskers(q, i) # {}

\* The enabled rows on exactly that target which are not ours.
Foreigners(q, target) ==
    {i \in Present(q) : ~IsOurs(q[i]) /\ ~q[i].disabled /\ q[i].target = target}

\* Mutant: "disabled" is not among the watched fields.
DifferingBlind(row, spec) ==
    (IF row.target # spec.target THEN {"target"} ELSE {})
    \cup (IF row.rate # spec.rate THEN {"rate"} ELSE {})
    \cup (IF row.parent # spec.parent THEN {"parent"} ELSE {})
    \cup (IF NeedsClaim(row) THEN {"comment"} ELSE {})

\* The fields of an existing row that must be rewritten.
Differing(row, spec) ==
    (IF row.target # spec.target THEN {"target"} ELSE {})
    \cup (IF row.rate # spec.rate THEN {"rate"} ELSE {})
    \cup (IF row.parent # spec.parent THEN {"parent"} ELSE {})
    \cup (IF row.disabled THEN {"disabled"} ELSE {})
    \cup (IF NeedsClaim(row) THEN {"comment"} ELSE {})
-----------------------------------------------------------------------------
(* build_plan: one verdict per subject.                                     *)

Say(verb, name, id, fields, spec) ==
    [verb |-> verb, name |-> name, id |-> id, fields |-> fields, spec |-> spec]

\* Mutant: the third-party queue is aligned whether adoption is on or not.
ThirdVerdictAdopted(q, n, spec) ==
    LET i == CHOOSE j \in Foreigners(q, spec.target) : TRUE
    IN  IF q[i].rate = spec.rate THEN Say("unchanged", n, i, {}, spec)
        ELSE Say("set", q[i].name, i, {"rate"}, spec)

\* No queue by that name, and somebody else's queue on the very target: an
\* aligned queue keeps its own name, which is then the name of the action.
ThirdVerdict(q, n, spec) ==
    LET third   == Foreigners(q, spec.target)
        i       == CHOOSE j \in third : TRUE
        unclear == Cardinality(third) > 1 \/ q[i].owner = "other"
    IN  CASE unclear                              -> Say("conflict", n, 0, {}, spec)
          [] ~unclear /\ spec.rate = 0            -> Say("unchanged", n, i, {}, spec)
          [] ~unclear /\ spec.rate # 0 /\ ~Adopt  -> Say("conflict", n, 0, {}, spec)
          [] ~unclear /\ spec.rate # 0 /\ Adopt   ->
                IF q[i].rate = spec.rate THEN Say("unchanged", n, i, {}, spec)
                ELSE Say("set", q[i].name, i, {"rate"}, spec)

\* A queue by that name exists.
NamedVerdict(q, n, i, spec) ==
    LET fields == Differing(q[i], spec)
        barred == Masked(q, i) \/ ~IsOurs(q[i])
    IN  CASE barred                   -> Say("conflict", n, i, {}, spec)
          [] ~barred /\ fields = {}   -> Say("unchanged", n, i, {}, spec)
          [] ~barred /\ fields # {}   -> Say("set", n, i, fields, spec)

\* Mutant: the purge goes by the name alone, not by the mark of the row.
UnwantedByName(q, n, prune) ==
    IF prune /\ Called(q, n) # {}
    THEN Say("remove", n, CHOOSE i \in Called(q, n) : TRUE, {}, Skip)
    ELSE Say("skip", n, 0, {}, Skip)

\* Not wanted: left alone, or removed when the plan prunes.
UnwantedVerdict(q, n, prune) ==
    LET ours == {i \in Called(q, n) : IsOurs(q[i])}
    IN  IF prune /\ ours # {}
        THEN Say("remove", n, CHOOSE i \in ours : TRUE, {}, Skip)
        ELSE Say("skip", n, 0, {}, Skip)

SubjectVerdict(q, n, spec, prune) ==
    LET named == Called(q, n)
    IN  CASE spec = Skip                  -> UnwantedVerdict(q, n, prune)
          [] spec # Skip /\ named # {}    ->
                NamedVerdict(q, n, CHOOSE i \in named : TRUE, spec)
          [] spec # Skip /\ named = {}    ->
                IF Foreigners(q, spec.target) = {} THEN Say("add", n, 0, {}, spec)
                ELSE ThirdVerdict(q, n, spec)

BuildPlan(q, want, prune) ==
    [n \in Subjects |-> SubjectVerdict(q, n, want[n], prune)]

Commands == {"add", "set", "remove"}
Actions(plan) == {n \in Subjects : plan[n].verb \in Commands}
-----------------------------------------------------------------------------
(* What RouterOS makes of a command (external: the code says it refuses a   *)
(* child whose parent does not exist, a second queue of the same name and   *)
(* a command on an .id that is gone; .id values are never given out twice). *)


Named(q) == {q[i].name : i \in Present(q)}

Accepts(q, n, v) ==
    /\ v.verb = "add" => n \notin Named(q)
    /\ v.verb \in {"set", "remove"} => q[v.id] # Absent
    /\ v.verb = "add" \/ "parent" \in v.fields
           => v.spec.parent \in Named(q) \cup {NoParent}

NewRow(n, spec) ==
    [name |-> n, target |-> spec.target, rate |-> spec.rate,
     parent |-> spec.parent, owner |-> "ours", disabled |-> FALSE]

Rewritten(row, v) ==
    LET Sent(field, new, old) == IF field \in v.fields THEN new ELSE old
    IN  [name     |-> row.name,
         target   |-> Sent("target", v.spec.target, row.target),
         rate     |-> Sent("rate", v.spec.rate, row.rate),
         parent   |-> Sent("parent", v.spec.parent, row.parent),
         owner    |-> Sent("comment", "ours", row.owner),
         disabled |-> Sent("disabled", FALSE, row.disabled)]

Effect(q, n, v, fresh) ==
    CASE v.verb = "add"    -> [q EXCEPT ![fresh] = NewRow(n, v.spec)]
      [] v.verb = "set"    -> [q EXCEPT ![v.id] = Rewritten(@, v)]
      [] v.verb = "remove" -> [q EXCEPT ![v.id] = Absent]
-----------------------------------------------------------------------------
(* What a customer actually gets: the rate of the first enabled row on the  *)
(* address, the row's ancestors apart (a parent shares, it does not mask).  *)

Holders(q, a) ==
    {i \in Present(q) : /\ ~q[i].disabled
                        /\ a \in q[i].target
                        /\ \A j \in Present(q) : q[j].parent = q[i].name
                                                 => a \notin q[j].target \/ q[j].disabled}

Held(q, a, rate) ==
    \E i \in Holders(q, a) : /\ q[i].rate = rate
                             /\ \A j \in Holders(q, a) : i <= j
=============================================================================
