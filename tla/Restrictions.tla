------------------------------ MODULE Restrictions ------------------------------
(***************************************************************************)
(* The pure part of the traffic restrictions for ONE router: the rows a    *)
(* restriction needs (desired_lines), the commands that bring a router to  *)
(* them (plan_restrictions, plan_lift), what RouterOS does with a command, *)
(* and which traffic the rows then stop.                                   *)
(*                                                                         *)
(* A restriction owns entries of two address lists, the service's ("dst")  *)
(* and the clients' ("src"), and lines: one "filter" drop per direction to *)
(* block, one "mangle" mark and one "tree" queue per capped direction to   *)
(* limit.  Rows are known by their .id, a tag in the comment says whose    *)
(* they are, and the order of the lines of a table is the order in which   *)
(* RouterOS evaluates them.                                                *)
(***************************************************************************)
EXTENDS Naturals, Sequences, FiniteSets

CONSTANTS
    RuleIds,      \* numbers of the restrictions: a set of positive integers
    Operators,    \* owners of lines that do not carry our tag
    Takes,        \* [Operators -> SUBSET Dests]: what such a line lets through
    Dests,        \* addresses of services
    Clients,      \* addresses of clients
    Ways,         \* directions that the model distinguishes
    AddressLimit, \* address_limit
    MaxRows,      \* bound: how many rows a router may ever have held
    NoTarget,     \* a restriction that the plan does not know
    NoAddr,       \* the address of a line
    Absent        \* no row at that .id

Ids    == 1..MaxRows
Tables == {"filter", "mangle", "tree"}
Sides  == {"dst", "src"}
Owners == RuleIds \cup Operators
Row    == [kind : Tables \cup Sides, owner : Owners, way : Ways,
           addr : Dests \cup Clients \cup {NoAddr}, scoped : BOOLEAN, disabled : BOOLEAN]
Target == [dests : SUBSET Dests, clients : SUBSET Clients,
           action : {"block", "limit"}, ways : SUBSET Ways]
Command == [stage : 0..3, turn : Nat, verb : {"add", "set", "remove"}, id : Ids \cup {0},
            row : Row \cup {Absent}, before : Ids \cup {0},
            fields : SUBSET {"clients", "disabled"}]

ASSUME RestrictionAssumption ==
    /\ RuleIds \subseteq Nat \ {0}
    /\ RuleIds \cap Operators = {}
    /\ Takes \in [Operators -> SUBSET Dests]
    /\ Ways \subseteq {"up", "down"} /\ Ways # {}
    /\ AddressLimit \in Nat /\ MaxRows \in Nat
    /\ NoTarget \notin Target
    /\ NoAddr \notin Dests \cup Clients
    /\ Absent \notin Row
-----------------------------------------------------------------------------
(* Reading a router.                                                        *)

Present(q)       == {i \in Ids : q[i] # Absent}
IsOurs(row)      == row.owner \in RuleIds
OfRule(q, r)     == {i \in Present(q) : q[i].owner = r}
Rank(order, i)   == CHOOSE k \in DOMAIN order : order[k] = i

Listed(q, r, side) == {q[i].addr : i \in {j \in OfRule(q, r) : q[j].kind = side}}

\* Mutant: the tag of a line is not read, its place is enough.
LinesOfAnyone(q, r, table, way) ==
    {i \in Present(q) : q[i].kind = table /\ q[i].way = way}

\* The lines of a table, of one restriction and one direction.
Lines(q, r, table, way) ==
    {i \in OfRule(q, r) : q[i].kind = table /\ q[i].way = way}

\* Of several lines with the same tag the last one read is the one that counts.
LastOf(order, ids) ==
    {i \in ids : \A j \in ids : Rank(order, j) <= Rank(order, i)}

\* The enabled lines of a table that are not ours.
Foreign(q, table) ==
    {i \in Present(q) : q[i].kind = table /\ ~IsOurs(q[i]) /\ ~q[i].disabled}

FirstForeign(q, order, table) ==
    CHOOSE i \in Foreign(q, table) :
        \A j \in Foreign(q, table) : Rank(order, i) <= Rank(order, j)
-----------------------------------------------------------------------------
(* What a restriction needs.                                                *)

Laid(target) ==
    /\ target # NoTarget
    /\ target.dests # {}
    /\ Cardinality(target.dests) <= AddressLimit
    /\ target.action = "limit" => target.ways # {}

\* <<table, direction>> of each line wanted.
DesiredLines(target) ==
    IF ~Laid(target) THEN {}
    ELSE IF target.action = "block" THEN {"filter"} \X Ways
    ELSE {"mangle", "tree"} \X target.ways

DesiredAddrs(target, side) ==
    IF ~Laid(target) THEN {}
    ELSE IF side = "dst" THEN target.dests ELSE target.clients

\* Only the lines of the firewall tables name the address lists.
NewLine(target, r, table, way) ==
    [kind |-> table, owner |-> r, way |-> way, addr |-> NoAddr,
     scoped |-> table # "tree" /\ target.clients # {}, disabled |-> FALSE]

NewEntry(r, side, addr) ==
    [kind |-> side, owner |-> r, way |-> CHOOSE w \in Ways : TRUE, addr |-> addr,
     scoped |-> FALSE, disabled |-> FALSE]

\* A field that is no longer wanted is not a difference: only the wanted fields
\* are compared.
Differing(row, line) ==
    (IF line.scoped /\ ~row.scoped THEN {"clients"} ELSE {})
    \cup (IF row.disabled THEN {"disabled"} ELSE {})
-----------------------------------------------------------------------------
(* The plans.  A command has a stage and, within the stage of the lines, a  *)
(* turn: the order in which the code appends the actions.                   *)

Add(stage, turn, row, before) ==
    [stage |-> stage, turn |-> turn, verb |-> "add", id |-> 0, row |-> row,
     before |-> before, fields |-> {}]
Set(turn, i, fields) ==
    [stage |-> 1, turn |-> turn, verb |-> "set", id |-> i, row |-> Absent,
     before |-> 0, fields |-> fields]
Remove(stage, turn, i) ==
    [stage |-> stage, turn |-> turn, verb |-> "remove", id |-> i, row |-> Absent,
     before |-> 0, fields |-> {}]

Sooner(a, b) ==
    a.stage < b.stage \/ (a.stage = b.stage /\ a.turn < b.turn)

\* Restrictions by number; "up" first to block, "down" first to limit.
Turn(r, table, way) ==
    LET late == IF table = "filter" THEN "down" ELSE "up"
    IN  10 * r + (IF way = late THEN 4 ELSE 0) + (IF table = "tree" THEN 2 ELSE 0)

\* Mutant: where a line stands does not matter.
MisplacedNever(q, order, table, i) == FALSE

Misplaced(q, order, table, i) ==
    /\ table # "tree"
    /\ Foreign(q, table) # {}
    /\ Rank(order, i) > Rank(order, FirstForeign(q, order, table))

LineActions(q, order, target, r, table, way) ==
    LET posed  == Lines(q, r, table, way)
        kept   == {i \in LastOf(order, posed) : ~Misplaced(q, order, table, i)}
        behind == LastOf(order, posed) \ kept
        line   == NewLine(target, r, table, way)
        ahead  == IF table # "tree" /\ Foreign(q, table) # {}
                  THEN FirstForeign(q, order, table) ELSE 0
        turn   == Turn(r, table, way)
    IN  {Remove(1, turn, i) : i \in behind}
        \cup (IF kept = {} THEN {Add(1, turn + 1, line, ahead)} ELSE {})
        \cup {Set(turn, i, Differing(q[i], line)) : i \in {j \in kept : Differing(q[j], line) # {}}}

\* The entries to add, the lines to put right, then the removals.
PlanRestrictions(q, order, targets) ==
    LET wanted(r, side) == DesiredAddrs(targets[r], side)
        adds    == UNION {{Add(0, 0, NewEntry(r, side, a), 0) :
                               a \in wanted(r, side) \ Listed(q, r, side)} :
                          r \in RuleIds, side \in Sides}
        aligns  == UNION {UNION {LineActions(q, order, targets[r], r, l[1], l[2]) :
                                     l \in DesiredLines(targets[r])} : r \in RuleIds}
        entries == {i \in Present(q) : /\ IsOurs(q[i]) /\ q[i].kind \in Sides
                                       /\ q[i].addr \notin wanted(q[i].owner, q[i].kind)}
        lines   == {i \in Present(q) :
                       /\ IsOurs(q[i]) /\ q[i].kind \in Tables
                       /\ <<q[i].kind, q[i].way>> \notin DesiredLines(targets[q[i].owner])
                       /\ i \in LastOf(order, Lines(q, q[i].owner, q[i].kind, q[i].way))}
    IN  adds \cup aligns \cup {Remove(2, 0, i) : i \in entries}
             \cup {Remove(3, 0, i) : i \in lines}

\* Only removals, of the rows of one restriction: the lines, then the entries.
PlanLift(q, r) ==
    {Remove(IF q[i].kind \in Tables THEN 1 ELSE 2,
            CASE q[i].kind = "mangle" -> 1 [] q[i].kind = "tree" -> 2 [] OTHER -> 0, i) :
        i \in OfRule(q, r)}
-----------------------------------------------------------------------------
(* What RouterOS makes of a command (external).                             *)

Accepts(q, c) ==
    /\ c.verb # "add" => q[c.id] # Absent
    /\ c.before # 0 => q[c.before] # Absent
    /\ c.verb = "add" /\ c.row.kind \in Sides
           => c.row.addr \notin Listed(q, c.row.owner, c.row.kind)
    /\ c.verb = "add" /\ c.row.kind = "tree"
           => Lines(q, c.row.owner, "tree", c.row.way) = {}

Effect(q, c, fresh) ==
    CASE c.verb = "add"    -> [q EXCEPT ![fresh] = c.row]
      [] c.verb = "set"    -> [q EXCEPT ![c.id].scoped = @ \/ "clients" \in c.fields,
                                        ![c.id].disabled = @ /\ "disabled" \notin c.fields]
      [] c.verb = "remove" -> [q EXCEPT ![c.id] = Absent]

\* The line new before line i; line i gone, if it was there.
Ahead(order, i, new) ==
    LET k == Rank(order, i)
    IN  SubSeq(order, 1, k - 1) \o <<new>> \o SubSeq(order, k, Len(order))
Unlisted(order, i) ==
    LET k == Rank(order, i)
    IN  IF \E j \in DOMAIN order : order[j] = i
        THEN SubSeq(order, 1, k - 1) \o SubSeq(order, k + 1, Len(order)) ELSE order

\* Where a line stands: before the line named, or at the end.
Reordered(order, c, fresh) ==
    CASE c.verb = "add" /\ c.row.kind \in Tables ->
            IF c.before = 0 THEN Append(order, fresh) ELSE Ahead(order, c.before, fresh)
      [] c.verb = "remove" -> Unlisted(order, c.id)
      [] OTHER -> order
-----------------------------------------------------------------------------
(* The traffic: a client and a service, in one direction.                   *)

InForce(q, r, side) ==
    {q[i].addr : i \in {j \in OfRule(q, r) : q[j].kind = side /\ ~q[j].disabled}}

Meets(q, i, c, d, way) ==
    /\ ~q[i].disabled
    /\ IF IsOurs(q[i])
       THEN /\ q[i].way = way
            /\ d \in InForce(q, q[i].owner, "dst")
            /\ q[i].scoped => c \in InForce(q, q[i].owner, "src")
       ELSE d \in Takes[q[i].owner]

\* The line of a table that decides, if one does.
Decider(q, order, table, c, d, way) ==
    {i \in Present(q) :
        /\ q[i].kind = table
        /\ Meets(q, i, c, d, way)
        /\ \A j \in Present(q) : q[j].kind = table /\ Meets(q, j, c, d, way)
                                 => Rank(order, i) <= Rank(order, j)}

Dropped(q, order, c, d, way) ==
    \E i \in Decider(q, order, "filter", c, d, way) : IsOurs(q[i])

Capped(q, order, c, d, way) ==
    \E i \in Decider(q, order, "mangle", c, d, way) :
        /\ IsOurs(q[i])
        /\ \E k \in Lines(q, q[i].owner, "tree", way) : ~q[k].disabled

Restrained(q, order, action, c, d, way) ==
    IF action = "block" THEN Dropped(q, order, c, d, way)
    ELSE Capped(q, order, c, d, way)
=============================================================================
