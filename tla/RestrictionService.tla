--------------------------- MODULE RestrictionService ---------------------------
(***************************************************************************)
(* Who lays and lifts the restrictions, on a list of routers.  The periodic*)
(* job reads all the rules, then visits each router: reads it, plans, asks *)
(* the gate of ShapingService.apply, sends the commands one by one, and at *)
(* the end records one state for all the rules.  A person who creates,     *)
(* edits or resumes a rule runs the same pass; one who suspends or deletes *)
(* it runs a pass of removals.  Nothing serialises these passes: all the   *)
(* steps below may interleave, with the operator's own and with a restart. *)
(*                                                                         *)
(* One action is what runs between two awaits, or one command.  Reading    *)
(* the rules and resolving them is one action; what a rule resolves to     *)
(* (its services' addresses, its clients' addresses) is part of the rule   *)
(* and changes by itself.                                                  *)
(***************************************************************************)
EXTENDS Restrictions

CONSTANTS
    Inventory,   \* the active routers, in the order a pass visits them
    Loops,       \* the job traffic_restrictions
    People,      \* requests in the interface
    MaxActions,  \* enforcement_max_actions
    ForcedOff,   \* ENFORCEMENT_ENABLED=false in the environment
    Pass,        \* the goal of a task that applies every rule
    Free, Gone,  \* a number not given yet, a rule deleted
    Shapes,      \* what a person may enter as a rule
    FirstRules,  \* the rules the database may hold when the program starts
    OperatorRows,\* lines that the operator may put at the head of a table
    Moves,       \* the moves of the environment a run allows
    MaxMoves     \* bound: how many of them, and how many requests

Tasks   == Loops \cup People
Routers == {Inventory[k] : k \in DOMAIN Inventory}
States  == {"new", "posee", "a poser", "erreur", "levee"}
Shape   == [dests : SUBSET Dests, chosen : BOOLEAN, clients : SUBSET Clients,
            action : {"block", "limit"}, ways : SUBSET Ways]
Rule    == [enabled : BOOLEAN, shape : Shape, state : States]

ASSUME ServiceAssumption ==
    /\ Loops \cap People = {}
    /\ Inventory \in Seq(Routers) /\ Inventory # << >>
    /\ \A j, k \in DOMAIN Inventory : Inventory[j] = Inventory[k] => j = k
    /\ MaxActions \in Nat /\ MaxMoves \in Nat /\ ForcedOff \in BOOLEAN
    /\ Pass \notin RuleIds \cup Routers /\ Routers \cap RuleIds = {}
    /\ Free \notin Rule /\ Gone \notin Rule /\ Free # Gone
    /\ Shapes \subseteq Shape
    /\ FirstRules \subseteq [RuleIds -> Rule \cup {Free}]
    /\ OperatorRows \subseteq Row
    /\ \A row \in OperatorRows : row.owner \in Operators /\ row.kind \in Tables

VARIABLES
    rules,       \* the table traffic_rules, and what each rule resolves to
    q,           \* per router, its rows
    order,       \* per router, its lines in their order
    fresh,       \* per router, the next .id
    enforcement, \* the global flag
    writable,    \* per router, its write switch
    phase,       \* what each task awaits
    goal,        \* the rule a task lifts, or Pass, or the one router it visits
    snap,        \* the rules as the pass read them
    at,          \* the router a task is at, in the inventory
    todo,        \* the commands still to be sent there
    found,       \* the states of the routers visited so far
    moves        \* moves of the environment left

routers  == <<q, order, fresh>>
switches == <<enforcement, writable>>
task     == <<phase, goal, snap, at, todo, found>>
vars     == <<rules, routers, switches, task, moves>>

NoRules == [r \in RuleIds |-> Free]
Known(table, r)  == table[r] \notin {Free, Gone}
Active(table, r) == Known(table, r) /\ table[r].enabled
-----------------------------------------------------------------------------
Init ==
    /\ rules \in FirstRules
    /\ q = [n \in Routers |-> [i \in Ids |-> Absent]]
    /\ order = [n \in Routers |-> << >>]
    /\ fresh = [n \in Routers |-> 1]
    /\ enforcement = ~ForcedOff
    /\ writable = [n \in Routers |-> TRUE]
    /\ phase = [t \in Tasks |-> "idle"]
    /\ goal = [t \in Tasks |-> Pass]
    /\ snap = [t \in Tasks |-> NoRules]
    /\ at = [t \in Tasks |-> 1]
    /\ todo = [t \in Tasks |-> {}]
    /\ found = [t \in Tasks |-> {}]
    /\ moves = MaxMoves
-----------------------------------------------------------------------------
(* The environment.                                                         *)

Move(kind) == kind \in Moves /\ moves > 0 /\ moves' = moves - 1

\* NetFlow meets a new server, a block is withdrawn; a client changes address.
ResolvesTo(r, shape) ==
    /\ Known(rules, r)
    /\ rules' = [rules EXCEPT ![r].shape = shape]

Discovers ==
    /\ Move("discover")
    /\ \E r \in RuleIds, d \in Dests :
           ResolvesTo(r, [rules[r].shape EXCEPT !.dests =
                             IF d \in @ THEN @ \ {d} ELSE @ \cup {d}])
    /\ UNCHANGED <<routers, switches, task>>

ClientMoves ==
    /\ Move("client")
    /\ \E r \in RuleIds, cs \in SUBSET Clients :
           Known(rules, r) /\ rules[r].shape.chosen
           /\ ResolvesTo(r, [rules[r].shape EXCEPT !.clients = cs])
    /\ UNCHANGED <<routers, switches, task>>

FlagFlips ==
    /\ Move("flag")
    /\ ~ForcedOff
    /\ enforcement' = ~enforcement
    /\ UNCHANGED <<rules, routers, writable, task>>

SwitchFlips ==
    /\ Move("switch")
    /\ \E n \in Routers : writable' = [writable EXCEPT ![n] = ~@]
    /\ UNCHANGED <<rules, routers, enforcement, task>>

\* The operator puts a line of theirs first.
OperatorAdds ==
    /\ Move("operator")
    /\ \E n \in Routers, row \in OperatorRows :
           /\ fresh[n] <= MaxRows
           /\ q' = [q EXCEPT ![n][fresh[n]] = row]
           /\ order' = [order EXCEPT ![n] = <<fresh[n]>> \o @]
           /\ fresh' = [fresh EXCEPT ![n] = @ + 1]
    /\ UNCHANGED <<rules, switches, task>>

OperatorRemoves ==
    /\ Move("vanish")
    /\ \E n \in Routers : \E i \in Present(q[n]) :
           /\ q' = [q EXCEPT ![n][i] = Absent]
           /\ order' = [order EXCEPT ![n] = Unlisted(@, i)]
    /\ UNCHANGED <<rules, fresh, switches, task>>

OperatorToggles ==
    /\ Move("toggle")
    /\ \E n \in Routers : \E i \in Present(q[n]) :
           q' = [q EXCEPT ![n][i].disabled = ~@]
    /\ UNCHANGED <<rules, order, fresh, switches, task>>

Restart ==
    /\ Move("restart")
    /\ phase' = [t \in Tasks |-> "idle"]
    /\ goal' = [t \in Tasks |-> Pass]
    /\ snap' = [t \in Tasks |-> NoRules]
    /\ at' = [t \in Tasks |-> 1]
    /\ todo' = [t \in Tasks |-> {}]
    /\ found' = [t \in Tasks |-> {}]
    /\ UNCHANGED <<rules, routers, switches>>

Environment ==
    \/ Discovers \/ ClientMoves \/ FlagFlips \/ SwitchFlips
    \/ OperatorAdds \/ OperatorRemoves \/ OperatorToggles \/ Restart
-----------------------------------------------------------------------------
(* The beginning of a pass.                                                 *)

Goes(t, to) == phase' = [phase EXCEPT ![t] = to]

Begins(t, what, to) ==
    /\ Goes(t, to)
    /\ goal' = [goal EXCEPT ![t] = what]
    /\ UNCHANGED <<routers, switches, snap, todo, found>>

\* The job does nothing while enforcement is off.
Reconciles(t) ==
    /\ t \in Loops /\ phase[t] = "idle"
    /\ enforcement
    /\ Begins(t, Pass, "rules")
    /\ UNCHANGED <<rules, at, moves>>

\* POST and PATCH /traffic-rules: the rule is saved, and laid when it is enabled.
Saves(t) ==
    /\ t \in People /\ phase[t] = "idle"
    /\ Move("save")
    /\ \E r \in RuleIds, shape \in Shapes, on \in BOOLEAN :
           /\ rules[r] # Gone
           /\ on \/ ~Active(rules, r)
           /\ rules' = [rules EXCEPT ![r] =
                  [enabled |-> on, shape |-> shape,
                   state |-> IF @ = Free THEN "new" ELSE @.state]]
           /\ Begins(t, Pass, IF on THEN "rules" ELSE "idle")
    /\ UNCHANGED at

\* PATCH enabled=false, and DELETE: saved, then lifted at once.
Suspends(t) ==
    /\ t \in People /\ phase[t] = "idle"
    /\ Move("suspend")
    /\ \E r \in RuleIds :
           /\ Active(rules, r)
           /\ rules' = [rules EXCEPT ![r].enabled = FALSE]
           /\ Begins(t, r, "router")
    /\ UNCHANGED at

Deletes(t) ==
    /\ t \in People /\ phase[t] = "idle"
    /\ Move("delete")
    /\ \E r \in RuleIds :
           /\ Known(rules, r)
           /\ rules' = [rules EXCEPT ![r] = Gone]
           /\ Begins(t, r, "router")
    /\ UNCHANGED at

\* POST /traffic-rules/apply, on every router or on one.
Applies(t) ==
    /\ t \in People /\ phase[t] = "idle"
    /\ Move("apply")
    /\ \/ Begins(t, Pass, "rules") /\ UNCHANGED at
       \/ \E k \in DOMAIN Inventory :
              /\ Begins(t, Inventory[k], "rules")
              /\ at' = [at EXCEPT ![t] = k]
    /\ UNCHANGED rules

ReadsRules(t) ==
    /\ phase[t] = "rules"
    /\ snap' = [snap EXCEPT ![t] = rules]
    /\ Goes(t, "router")
    /\ UNCHANGED <<rules, routers, switches, goal, at, todo, found, moves>>
-----------------------------------------------------------------------------
(* One router.                                                              *)

Here(t) == Inventory[at[t]]

\* Only the enabled rules have a target; "everyone" is no client in particular.
TargetOf(table, r) ==
    IF ~Active(table, r) THEN NoTarget
    ELSE LET s == table[r].shape
         IN  [dests |-> s.dests, clients |-> IF s.chosen THEN s.clients ELSE {},
              action |-> s.action, ways |-> s.ways]

Targets(table) == [r \in RuleIds |-> TargetOf(table, r)]

\* The next router of the inventory, or the account.
MovesOn(t, answer) ==
    /\ found' = [found EXCEPT ![t] = @ \cup {answer}]
    /\ todo' = [todo EXCEPT ![t] = {}]
    /\ IF goal[t] \notin Routers /\ at[t] < Len(Inventory)
       THEN Goes(t, "router") /\ at' = [at EXCEPT ![t] = @ + 1]
       ELSE Goes(t, "record") /\ UNCHANGED at

Inspects(t) ==
    LET n    == Here(t)
        plan == IF goal[t] \in RuleIds THEN PlanLift(q[n], goal[t])
                ELSE PlanRestrictions(q[n], order[n], Targets(snap[t]))
    IN  /\ phase[t] = "router"
        /\ IF plan = {} THEN MovesOn(t, "posee")
           ELSE /\ todo' = [todo EXCEPT ![t] = plan]
                /\ Goes(t, "decide")
                /\ UNCHANGED <<at, found>>
        /\ UNCHANGED <<rules, routers, switches, goal, snap, moves>>

ReadFails(t) ==
    /\ phase[t] = "router"
    /\ Move("fault")
    /\ MovesOn(t, "erreur")
    /\ UNCHANGED <<rules, routers, switches, goal, snap>>

Authorised(t) == enforcement \/ (t \in People /\ ~ForcedOff)

\* The write switch, the flag for the job, then the locks of apply().
Decides(t) ==
    /\ phase[t] = "decide"
    /\ \/ /\ ~writable[Here(t)] \/ (t \in Loops /\ ~enforcement)
          /\ MovesOn(t, "a poser")
       \/ /\ writable[Here(t)]
          /\ t \in People /\ ~Authorised(t)
          /\ MovesOn(t, "erreur")
       \/ /\ writable[Here(t)] /\ Authorised(t)
          /\ IF Cardinality(todo[t]) > MaxActions THEN MovesOn(t, "erreur")
             ELSE Goes(t, "exec") /\ UNCHANGED <<at, todo, found>>
    /\ UNCHANGED <<rules, routers, switches, goal, snap, moves>>

NextUp(t, c) ==
    /\ phase[t] = "exec" /\ c \in todo[t]
    /\ \A other \in todo[t] : ~Sooner(other, c)

Executes(n, c) ==
    /\ Accepts(q[n], c)
    /\ c.verb = "add" => fresh[n] <= MaxRows
    /\ q' = [q EXCEPT ![n] = Effect(@, c, fresh[n])]
    /\ order' = [order EXCEPT ![n] = Reordered(@, c, fresh[n])]
    /\ fresh' = IF c.verb = "add" THEN [fresh EXCEPT ![n] = @ + 1] ELSE fresh

Sends(t) ==
    /\ \E c \in todo[t] :
           /\ NextUp(t, c)
           /\ Executes(Here(t), c)
           /\ IF todo[t] = {c} THEN MovesOn(t, "posee")
              ELSE /\ todo' = [todo EXCEPT ![t] = @ \ {c}]
                   /\ UNCHANGED <<phase, at, found>>
    /\ UNCHANGED <<rules, switches, goal, snap, moves>>

\* The first failure ends the plan of the router.
Refused(t) ==
    /\ \E c \in todo[t] : NextUp(t, c) /\ ~Accepts(q[Here(t)], c)
    /\ MovesOn(t, "erreur")
    /\ UNCHANGED <<rules, routers, switches, goal, snap, moves>>

ConnectionLost(t) ==
    /\ \E c \in todo[t] : NextUp(t, c) /\ (Executes(Here(t), c) \/ UNCHANGED routers)
    /\ Move("fault")
    /\ MovesOn(t, "erreur")
    /\ UNCHANGED <<rules, switches, goal, snap>>
-----------------------------------------------------------------------------
(* The account of a pass.                                                   *)

Overall(answers) ==
    CASE "erreur" \in answers                                 -> "erreur"
      [] "erreur" \notin answers /\ "a poser" \in answers     -> "a poser"
      [] answers \subseteq {"posee"}                          -> "posee"

\* Mutant: only the rules the pass applied get a state.
RecordsActive(table, old, etat, everywhere) ==
    [r \in RuleIds |-> IF Active(old, r) /\ Known(table, r)
                       THEN [table[r] EXCEPT !.state = etat] ELSE table[r]]

\* One state for every rule the pass applied; and when all is in place, a rule
\* that was suspended has nothing left on the routers.
RecordsPass(table, old, etat, everywhere) ==
    [r \in RuleIds |->
        IF ~Known(table, r) \/ ~Known(old, r) THEN table[r]
        ELSE IF old[r].enabled THEN [table[r] EXCEPT !.state = etat]
        ELSE IF etat = "posee" /\ everywhere /\ old[r].state \notin {"new", "levee"}
             THEN [table[r] EXCEPT !.state = "levee"]
             ELSE table[r]]

RecordsLift(table, r, etat) ==
    IF Known(table, r) /\ etat = "posee" THEN [table EXCEPT ![r].state = "levee"]
    ELSE table

Records(t) ==
    LET etat == Overall(found[t])
    IN  /\ phase[t] = "record"
        /\ rules' = IF goal[t] \in RuleIds THEN RecordsLift(rules, goal[t], etat)
                    ELSE RecordsPass(rules, snap[t], etat, goal[t] = Pass)
        /\ Goes(t, "idle")
        /\ goal' = [goal EXCEPT ![t] = Pass]
        /\ snap' = [snap EXCEPT ![t] = NoRules]
        /\ at' = [at EXCEPT ![t] = 1]
        /\ found' = [found EXCEPT ![t] = {}]
        /\ UNCHANGED <<routers, switches, todo, moves>>
-----------------------------------------------------------------------------
Proceeds(t) ==
    \/ ReadsRules(t) \/ Inspects(t) \/ Decides(t)
    \/ Sends(t) \/ Refused(t) \/ Records(t)

Task(t) ==
    \/ Reconciles(t) \/ Saves(t) \/ Suspends(t) \/ Deletes(t) \/ Applies(t)
    \/ Proceeds(t) \/ ReadFails(t) \/ ConnectionLost(t)

Next == Environment \/ \E t \in Tasks : Task(t)

Spec == Init /\ [][Next]_vars

\* asyncio resumes what may run, each call has a timeout, the scheduler starts the
\* job again and again; nobody has to use the interface.
Fairness == /\ \A t \in Tasks : WF_vars(Proceeds(t))
            /\ \A t \in Loops : WF_vars(Reconciles(t))

FairSpec == Spec /\ Fairness
-----------------------------------------------------------------------------
(* Properties.                                                             *)

\* Every variable has its type.
TypeOK ==
    /\ rules \in [RuleIds -> Rule \cup {Free, Gone}]
    /\ q \in [Routers -> [Ids -> Row \cup {Absent}]]
    /\ order \in [Routers -> Seq(Ids)]
    /\ fresh \in [Routers -> 1..(MaxRows + 1)]
    /\ enforcement \in BOOLEAN /\ writable \in [Routers -> BOOLEAN]
    /\ phase \in [Tasks -> {"idle", "rules", "router", "decide", "exec", "record"}]
    /\ goal \in [Tasks -> RuleIds \cup {Pass} \cup Routers]
    /\ snap \in [Tasks -> [RuleIds -> Rule \cup {Free, Gone}]]
    /\ at \in [Tasks -> DOMAIN Inventory]
    /\ todo \in [Tasks -> SUBSET Command]
    /\ found \in [Tasks -> SUBSET States]
    /\ moves \in 0..MaxMoves

PlanNow(n) == PlanRestrictions(q[n], order[n], Targets(rules))
Nothing(n) == PlanNow(n) = {}

\* A client, a service and a direction that a rule is about, and the router's
\* rows do to them what the rule says.
Restrains(n, table, r) ==
    LET target == TargetOf(table, r)
    IN  \A c \in IF table[r].shape.chosen THEN target.clients ELSE Clients :
        \A d \in target.dests, l \in DesiredLines(target) :
            Restrained(q[n], order[n], target.action, c, d, l[2])

\* A client the rule did not choose meets one of its lines.
Strays(n, r) ==
    \E c \in Clients \ rules[r].shape.clients, d \in Dests, way \in Ways :
    \E i \in Decider(q[n], order[n], "filter", c, d, way)
             \cup Decider(q[n], order[n], "mangle", c, d, way) : q[n][i].owner = r

\* Where a restriction with nothing left to write may restrain too little or too
\* much: a line that still names clients, an entry disabled by hand, a line laid
\* twice, a choice of nobody.
Widened(n, r) == ~rules[r].shape.chosen /\ \E i \in OfRule(q[n], r) : q[n][i].scoped
Muted(n, r)   == \E i \in OfRule(q[n], r) : q[n][i].kind \in Sides /\ q[n][i].disabled
Doubled(n, r) == \E table \in Tables, way \in Ways :
                     Cardinality(Lines(q[n], r, table, way)) > 1
Nobody(r)     == rules[r].shape.chosen /\ rules[r].shape.clients = {}

\* Apart from these four, a restriction with nothing left to write restrains what
\* it names and nobody else, wherever the operator's own lines stand.
AimedExactly ==
    \A n \in Routers, r \in RuleIds :
        /\ Laid(TargetOf(rules, r))
        /\ ~Widened(n, r) /\ ~Muted(n, r) /\ ~Doubled(n, r) /\ ~Nobody(r)
        /\ Nothing(n)
        => Restrains(n, rules, r) /\ (rules[r].shape.chosen => ~Strays(n, r))

\* The lines of the operator are never touched by a command of ours, however old
\* the reading it was computed from.
OperatorLinesKept ==
    [][\A n \in Routers : todo' # todo
          => \A i \in Present(q[n]) : ~IsOurs(q[n][i]) => q'[n][i] = q[n][i]]_vars

\* Once nothing moves any more, with writing allowed: nothing left to write, a rule
\* suspended or deleted included, and no suspended rule said to be in place.
Settled ==
    /\ \A n \in Routers : Nothing(n) \/ Cardinality(PlanNow(n)) > MaxActions
    /\ \A r \in RuleIds : Known(rules, r) /\ ~rules[r].enabled => rules[r].state # "posee"
Allowed   == enforcement /\ \A n \in Routers : writable[n]
Converges == <>[]Allowed => <>[]Settled
=============================================================================
