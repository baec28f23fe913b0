---------------------------- MODULE ShapingService ----------------------------
(***************************************************************************)
(* The writing path of ShapingService on one router.  Several coroutines   *)
(* (the reconciliation loop, a gesture in the interface, the v1 API, the   *)
(* "apply plan" button) each read the desired state, then the router, then *)
(* compute a plan, pass the gate of apply() and send the plan one command  *)
(* at a time.  Nothing serialises them: between two awaits of one, the     *)
(* others, the operator on the router, and a restart may all step.         *)
(*                                                                         *)
(* One action is what runs between two awaits, or one command on the       *)
(* router.  The CAKE types are taken as already present: a plan holds the  *)
(* queue actions only, at most one per subject.                            *)
(***************************************************************************)
EXTENDS QueuePlanner, Sequences

CONSTANTS
    Loops,       \* automatic jobs: reconcile, boosts, schedules, QoE
    Humans,      \* a person's explicit gesture on one client or link
    Apis,        \* an integration's explicit gesture on one client
    Appliers,    \* POST /shaping/apply: the whole plan, pruning
    All,         \* the scope of a task that applies the whole plan
    Rank,        \* [Subjects -> Nat]: the order of the desired list, links first
    MaxActions,  \* enforcement_max_actions
    ForcedOff,   \* ENFORCEMENT_ENABLED=false in the environment
    FirstLists,  \* the lists the router may hold when the program starts
    FirstPolicies, \* the policies the database may hold then
    FirstReaches,  \* the sessions that may be open then
    ThirdRows,   \* rows the operator or another controller may add
    Moves,       \* the moves of the environment a run allows
    MaxMoves     \* bound: how many of them happen

Tasks == Loops \cup Humans \cup Apis \cup Appliers
Watched == {"target", "parent"}

VARIABLES
    queues,      \* the router's list
    fresh,       \* the next .id
    policy,      \* the rate each subject is due, from the database
    reach,       \* the addresses of each client now
    enforcement, \* the global flag, in memory
    writable,    \* the router's write switch
    phase,       \* what each task awaits
    scope,       \* the subject of a gesture, or All
    prune,       \* whether the plan removes what is no longer wanted
    want,        \* the desired state the task has assembled
    plan,        \* the plan it has computed
    todo,        \* the subjects whose action is still to be sent
    done,        \* the subjects whose action the router acknowledged
    told,        \* what the last gesture or pass of the task reported
    warned,      \* the conflicts the last pass of a loop logged
    written,     \* per .id, the last two values written in a watched field
    frozen,      \* the .id whose writing is suspended for oscillation
    moves        \* environment moves left

router == <<queues, fresh>>
switches == <<enforcement, writable>>
inputs == <<policy, reach>>
work   == <<scope, prune, want, plan, todo, done>>
guard  == <<written, frozen>>
vars   == <<router, inputs, switches, phase, work, told, warned, guard, moves>>

ASSUME ServiceAssumption ==
    /\ Rank \in [Subjects -> Nat]
    /\ \A l \in Links, s \in Subs : Rank[l] < Rank[s]
    /\ MaxActions \in Nat
    /\ MaxMoves \in Nat
    /\ ForcedOff \in BOOLEAN
    /\ All \notin Subjects
    /\ Loops \cap (Humans \cup Apis \cup Appliers) = {}
    /\ ThirdRows \subseteq Row
    /\ \A r \in ThirdRows : r.owner \in {"third", "other"}
    /\ FirstLists \subseteq [Ids -> Row \cup {Absent}]
    /\ FirstPolicies \subseteq [Subjects -> Policies]
    /\ FirstReaches \subseteq [Subs -> SUBSET Addrs]

NoWant == [n \in Subjects |-> Skip]
NoPlan == [n \in Subjects |-> Say("skip", n, 0, {}, Skip)]
NoTrace == [f \in Watched |-> << >>]
-----------------------------------------------------------------------------
Init ==
    /\ queues \in FirstLists
    /\ fresh \in 1..(MaxRows + 1)
    /\ \A i \in Ids : i >= fresh => queues[i] = Absent
    /\ fresh - 1 \in Ids => queues[fresh - 1] # Absent
    /\ policy \in FirstPolicies
    /\ reach \in FirstReaches
    /\ enforcement = ~ForcedOff
    /\ writable = TRUE
    /\ phase = [t \in Tasks |-> "idle"]
    /\ scope = [t \in Tasks |-> All]
    /\ prune = [t \in Tasks |-> FALSE]
    /\ want = [t \in Tasks |-> NoWant]
    /\ plan = [t \in Tasks |-> NoPlan]
    /\ todo = [t \in Tasks |-> {}]
    /\ done = [t \in Tasks |-> {}]
    /\ told = [t \in Tasks |-> "nothing"]
    /\ warned = {}
    /\ written = [i \in Ids |-> NoTrace]
    /\ frozen = {}
    /\ moves = MaxMoves
-----------------------------------------------------------------------------
(* The environment: the database, the subscribers, the switches, and the   *)
(* operator or another controller on the router itself.                    *)

Move(kind) == kind \in Moves /\ moves > 0 /\ moves' = moves - 1

PolicyChanges ==
    /\ Move("policy")
    /\ \E x \in Subjects, p \in Policies : policy' = [policy EXCEPT ![x] = p]
    /\ UNCHANGED <<router, reach, switches, phase, work, told, warned, guard>>

SessionChanges ==
    /\ Move("session")
    /\ \E s \in Subs \ Static, at \in {{}} \cup {{a} : a \in Addrs} :
           reach' = [reach EXCEPT ![s] = at]
    /\ UNCHANGED <<router, policy, switches, phase, work, told, warned, guard>>

FlagFlips ==
    /\ Move("flag")
    /\ ~ForcedOff
    /\ enforcement' = ~enforcement
    /\ UNCHANGED <<router, inputs, writable, phase, work, told, warned, guard>>

SwitchFlips ==
    /\ Move("switch")
    /\ writable' = ~writable
    /\ UNCHANGED <<router, inputs, enforcement, phase, work, told, warned, guard>>

ThirdPartyAdds ==
    /\ Move("third")
    /\ fresh <= MaxRows
    /\ \E row \in ThirdRows :
           /\ row.name \notin Named(queues)
           /\ queues' = [queues EXCEPT ![fresh] = row]
    /\ fresh' = fresh + 1
    /\ UNCHANGED <<inputs, switches, phase, work, told, warned, guard>>

RowVanishes ==
    /\ Move("vanish")
    /\ \E i \in Present(queues) : queues' = [queues EXCEPT ![i] = Absent]
    /\ UNCHANGED <<fresh, inputs, switches, phase, work, told, warned, guard>>

RowToggled ==
    /\ Move("toggle")
    /\ \E i \in Present(queues) : queues' = [queues EXCEPT ![i].disabled = ~@]
    /\ UNCHANGED <<fresh, inputs, switches, phase, work, told, warned, guard>>

\* Writes older than FENETRE_OSCILLATION_S no longer count.
WindowElapses ==
    /\ Move("window")
    /\ \E i \in Ids, f \in Watched :
           /\ written[i][f] # << >>
           /\ written' = [written EXCEPT ![i][f] = Tail(@)]
    /\ UNCHANGED <<router, inputs, switches, phase, work, told, warned, frozen>>

\* The process stops between two awaits, and all it held in memory with it.
Restart ==
    /\ Move("restart")
    /\ phase' = [t \in Tasks |-> "idle"]
    /\ scope' = [t \in Tasks |-> All]
    /\ prune' = [t \in Tasks |-> FALSE]
    /\ want' = [t \in Tasks |-> NoWant]
    /\ plan' = [t \in Tasks |-> NoPlan]
    /\ todo' = [t \in Tasks |-> {}]
    /\ done' = [t \in Tasks |-> {}]
    /\ told' = [t \in Tasks |-> "nothing"]
    /\ warned' = {}
    /\ written' = [i \in Ids |-> NoTrace]
    /\ frozen' = {}
    /\ UNCHANGED <<router, inputs, switches>>

Environment ==
    \/ PolicyChanges \/ SessionChanges \/ FlagFlips \/ SwitchFlips
    \/ ThirdPartyAdds \/ RowVanishes \/ RowToggled \/ WindowElapses \/ Restart
-----------------------------------------------------------------------------
(* A task: start, desired state, router, decision, commands, account.      *)

Goes(t, to) == phase' = [phase EXCEPT ![t] = to]

Ends(t, answer) ==
    /\ Goes(t, "idle")
    /\ told' = [told EXCEPT ![t] = answer]
    /\ scope' = [scope EXCEPT ![t] = All]
    /\ prune' = [prune EXCEPT ![t] = FALSE]
    /\ want' = [want EXCEPT ![t] = NoWant]
    /\ plan' = [plan EXCEPT ![t] = NoPlan]
    /\ todo' = [todo EXCEPT ![t] = {}]
    /\ done' = [done EXCEPT ![t] = {}]

Begins(t, on, removing) ==
    /\ phase[t] = "idle"
    /\ Goes(t, "targets")
    /\ scope' = [scope EXCEPT ![t] = on]
    /\ prune' = [prune EXCEPT ![t] = removing]
    /\ told' = [told EXCEPT ![t] = "nothing"]
    /\ UNCHANGED <<router, inputs, switches, want, plan, todo, done, warned, guard, moves>>

\* The loops skip the router when it is read-only, and all when the flag is off.
LoopStarts(t) ==
    /\ t \in Loops
    /\ enforcement /\ writable
    /\ Begins(t, All, FALSE)

GestureStarts(t) ==
    /\ t \in Humans \cup Apis
    /\ \/ \E s \in Subs, removing \in BOOLEAN : Begins(t, s, removing)
       \/ \E l \in Links : Begins(t, l, FALSE)

ApplyStarts(t) ==
    /\ t \in Appliers
    /\ Begins(t, All, TRUE)

BuildTargets(t) ==
    /\ phase[t] = "targets"
    /\ want' = [want EXCEPT ![t] = Desired(policy, reach)]
    /\ Goes(t, "inspect")
    /\ UNCHANGED <<router, inputs, switches, scope, prune, plan, todo, done,
                   told, warned, guard, moves>>

Inspect(t) ==
    /\ phase[t] = "inspect"
    /\ plan' = [plan EXCEPT ![t] = BuildPlan(queues, want[t], prune[t])]
    /\ want' = [want EXCEPT ![t] = NoWant]
    /\ Goes(t, "decide")
    /\ UNCHANGED <<router, inputs, switches, scope, prune, todo, done,
                   told, warned, guard, moves>>

\* The router or the database does not answer: no plan.
ReadFails(t) ==
    /\ phase[t] \in {"targets", "inspect"}
    /\ Move("fault")
    /\ Ends(t, "error")
    /\ UNCHANGED <<router, inputs, switches, warned, guard>>
-----------------------------------------------------------------------------
(* The decision and the gate: no await between the plan and the first      *)
(* command.                                                                *)

Conflicts(p) == {n \in Subjects : p[n].verb = "conflict"}

\* The queue itself, and the parent its action names.
ParentChain(p, x) ==
    {x} \cup (IF p[x].verb = "add" \/ "parent" \in p[x].fields
             THEN {p[x].spec.parent} ELSE {})

\* What the task may send: the whole plan, or its subject's chain by name.
Offered(t) ==
    IF scope[t] = All THEN Actions(plan[t])
    ELSE {n \in Actions(plan[t]) : plan[t][n].name \in ParentChain(plan[t], scope[t])}

Authorised(t) == writable /\ (enforcement \/ (t \in Humans /\ ~ForcedOff))

Value(v, f) == IF f = "target" THEN v.spec.target ELSE v.spec.parent

\* A -> B -> A: the field would go back to the value written before the last.
Oscillates(v) ==
    /\ v.verb = "set"
    /\ \E f \in v.fields \cap Watched :
           LET past == written[v.id][f]
           IN  Len(past) = 2 /\ past[1] = Value(v, f) /\ past[2] # Value(v, f)

\* Mutant: the set of frozen lines is filled and never looked at.
FrozenIgnored(v) == FALSE

Frozen(v) == v.verb = "set" /\ v.id \in frozen

Gate(t) ==
    LET offered == Offered(t)
        flips   == {n \in offered : ~Frozen(plan[t][n]) /\ Oscillates(plan[t][n])}
        kept    == {n \in offered : ~Frozen(plan[t][n])} \ flips
    IN  /\ Authorised(t)
        /\ frozen' = frozen \cup {plan[t][n].id : n \in flips}
        /\ todo' = [todo EXCEPT ![t] = IF Cardinality(kept) <= MaxActions
                                       THEN kept ELSE {}]
        /\ Goes(t, "exec")
        /\ UNCHANGED <<router, inputs, switches, scope, prune, want, plan, done,
                       told, warned, written, moves>>

\* What is answered without applying anything, in the order _enforce_one asks.
Dismissal(t) ==
    LET v == plan[t][scope[t]]
    IN  CASE v.verb = "conflict"                    -> "conflict"
          [] v.verb = "skip"                        -> "skipped"
          [] v.verb \notin {"conflict", "skip"} /\ Offered(t) = {}
                       -> IF prune[t] THEN "removed" ELSE "held"
          [] v.verb \notin {"conflict", "skip"} /\ Offered(t) # {}
                       -> "apply"

GestureDecides(t) ==
    /\ phase[t] = "decide" /\ scope[t] # All
    /\ \/ Dismissal(t) = "apply" /\ Gate(t)
       \/ /\ Dismissal(t) = "apply" /\ ~Authorised(t)
          /\ Ends(t, "to_set")
          /\ UNCHANGED <<router, inputs, switches, warned, guard, moves>>
       \/ /\ Dismissal(t) # "apply"
          /\ Ends(t, Dismissal(t))
          /\ UNCHANGED <<router, inputs, switches, warned, guard, moves>>

\* A loop goes to the next router at once when the plan has no action.
WholePlanDecides(t) ==
    /\ phase[t] = "decide" /\ scope[t] = All
    /\ \/ Offered(t) # {} /\ Gate(t)
       \/ /\ Offered(t) # {} /\ ~Authorised(t)
          /\ Ends(t, "error")
          /\ UNCHANGED <<router, inputs, switches, warned, guard, moves>>
       \/ /\ Offered(t) = {}
          /\ Ends(t, "nothing")
          /\ warned' = IF t \in Loops THEN {} ELSE warned
          /\ UNCHANGED <<router, inputs, switches, guard, moves>>
-----------------------------------------------------------------------------
(* apply_plan: in the order of the plan, stopping at the first failure.    *)

Before(p, m, n) ==
    \/ p[m].verb # "remove" /\ p[n].verb = "remove"
    \/ p[m].verb # "remove" /\ p[n].verb # "remove" /\ Rank[m] < Rank[n]
    \/ p[m].verb = "remove" /\ p[n].verb = "remove" /\ p[m].id < p[n].id

NextUp(t, n) ==
    /\ phase[t] = "exec" /\ n \in todo[t]
    /\ \A m \in todo[t] \ {n} : Before(plan[t], n, m)

Reaches(t, n) ==
    LET v == plan[t][n]
    IN  /\ Accepts(queues, n, v)
        /\ v.verb = "add" => fresh <= MaxRows
        /\ queues' = Effect(queues, n, v, fresh)
        /\ fresh' = IF v.verb = "add" THEN fresh + 1 ELSE fresh

\* Mutant: the outcome of the failed command is not recorded.
StopsSilently(t) == todo' = [todo EXCEPT ![t] = {}] /\ UNCHANGED told

Stops(t) ==
    /\ todo' = [todo EXCEPT ![t] = {}]
    /\ told' = [told EXCEPT ![t] = "error"]

Sends(t) ==
    \E n \in todo[t] :
        /\ NextUp(t, n)
        /\ Reaches(t, n)
        /\ todo' = [todo EXCEPT ![t] = @ \ {n}]
        /\ done' = [done EXCEPT ![t] = @ \cup {n}]
        /\ UNCHANGED <<inputs, switches, phase, scope, prune, want, plan,
                       told, warned, guard, moves>>

Refused(t) ==
    \E n \in todo[t] :
        /\ NextUp(t, n)
        /\ ~Accepts(queues, n, plan[t][n])
        /\ Stops(t)
        /\ UNCHANGED <<router, inputs, switches, phase, scope, prune, want, plan, done,
                       warned, guard, moves>>

\* The connection drops: the command may or may not have been executed.
ConnectionLost(t) ==
    \E n \in todo[t] :
        /\ NextUp(t, n)
        /\ Move("fault")
        /\ Reaches(t, n) \/ UNCHANGED router
        /\ Stops(t)
        /\ UNCHANGED <<inputs, switches, phase, scope, prune, want, plan, done,
                       warned, guard>>

LastTwo(s) == IF Len(s) > 2 THEN Tail(s) ELSE s

\* _retenir_ecritures, then the answer, and for a loop the conflicts it logs.
Finish(t) ==
    LET sets(i, f) == {n \in done[t] : /\ plan[t][n].verb = "set"
                                       /\ plan[t][n].id = i
                                       /\ f \in plan[t][n].fields}
        answer == CASE told[t] = "error"                         -> "error"
                    [] told[t] # "error" /\ scope[t] = All       -> "nothing"
                    [] told[t] # "error" /\ scope[t] # All       ->
                          IF plan[t][scope[t]].verb = "remove" THEN "removed" ELSE "held"
    IN  /\ phase[t] = "exec" /\ todo[t] = {}
        /\ written' = [i \in Ids |-> [f \in Watched |->
               IF sets(i, f) = {} THEN written[i][f]
               ELSE LastTwo(Append(written[i][f],
                                   Value(plan[t][CHOOSE n \in sets(i, f) : TRUE], f)))]]
        /\ warned' = IF t \in Loops THEN Conflicts(plan[t]) ELSE warned
        /\ Ends(t, answer)
        /\ UNCHANGED <<router, inputs, switches, frozen, moves>>
-----------------------------------------------------------------------------
Proceeds(t) ==
    \/ BuildTargets(t) \/ Inspect(t)
    \/ GestureDecides(t) \/ WholePlanDecides(t)
    \/ Sends(t) \/ Refused(t) \/ Finish(t)

Task(t) ==
    \/ LoopStarts(t) \/ GestureStarts(t) \/ ApplyStarts(t)
    \/ Proceeds(t) \/ ReadFails(t) \/ ConnectionLost(t)

Next == Environment \/ \E t \in Tasks : Task(t)

Spec == Init /\ [][Next]_vars

\* asyncio resumes what may run, every call has a timeout, and the scheduler
\* starts the loops again and again; nobody has to make a gesture.
Fairness == /\ \A t \in Tasks : WF_vars(Proceeds(t))
            /\ \A t \in Loops : WF_vars(LoopStarts(t))

FairSpec == Spec /\ Fairness
-----------------------------------------------------------------------------
(* Properties.                                                             *)

\* Every variable has its type.
TypeOK ==
    /\ queues \in [Ids -> Row \cup {Absent}]
    /\ fresh \in 1..(MaxRows + 1)
    /\ policy \in [Subjects -> Policies]
    /\ reach \in [Subs -> SUBSET Addrs]
    /\ enforcement \in BOOLEAN /\ writable \in BOOLEAN
    /\ phase \in [Tasks -> {"idle", "targets", "inspect", "decide", "exec"}]
    /\ scope \in [Tasks -> Subjects \cup {All}]
    /\ prune \in [Tasks -> BOOLEAN]
    /\ want \in [Tasks -> [Subjects -> QueueSpec \cup {Skip}]]
    /\ plan \in [Tasks -> [Subjects -> Verdict]]
    /\ todo \in [Tasks -> SUBSET Subjects]
    /\ done \in [Tasks -> SUBSET Subjects]
    /\ told \in [Tasks -> {"nothing", "held", "removed", "conflict", "skipped",
                           "to_set", "error"}]
    /\ warned \subseteq Subjects
    /\ DOMAIN written = Ids
    /\ \A i \in Ids : DOMAIN written[i] = Watched
    /\ frozen \subseteq Ids
    /\ moves \in 0..MaxMoves

\* What the write path promises about the router (RouterContract): no command
\* outside a batch accepted by the gate of apply(), never a row of another
\* instance, a third party's row only for its rate and with adoption on, no
\* removal by an automatic job -- however plans read earlier are interleaved.
Contract == INSTANCE RouterContract WITH batch <- todo
KeepsContract == Contract!CSpec

\* The verdict the planner would give a subject now, without pruning.
VerdictNow(n) == SubjectVerdict(queues, n, Desired(policy, reach)[n], FALSE)

\* build_plan says "unchanged" of a client only when the client is really held
\* at its rate: the first enabled queue of the list on its address carries it.
GreenPlanIsHeld ==
    \A s \in Subs : VerdictNow(s).verb = "unchanged" /\ policy[s] # 0
                    => \A a \in reach[s] : Held(queues, a, policy[s])

\* A plan carried out as it was computed is never refused by RouterOS for a
\* missing parent: the parent is on the router, or added before its child.  The
\* exception is named: a link whose segment somebody else's queue holds is not
\* created, and stays the parent.
ParentsFirst ==
    LET p == BuildPlan(queues, Desired(policy, reach), FALSE)
    IN  \A n \in Actions(p) :
            p[n].verb = "add" \/ "parent" \in p[n].fields
            => LET up == p[n].spec.parent
               IN  \/ up \in Named(queues) \cup {NoParent}
                   \/ p[up].verb = "add" /\ Rank[up] < Rank[n]
                   \/ Foreigners(queues, Network[up]) # {}

\* A line frozen for oscillation is not rewritten by the loop any more, however
\* its target goes on moving (one loop, no restart).
FrozenIsLeftAlone ==
    [][\A i \in frozen : todo' # todo => queues'[i] = queues[i]]_vars

\* What the gesture of a task was about when it answers "held".
AnswersHeld(t) == told'[t] = "held" /\ told[t] # "held"
WasAligned(t)  == plan[t][scope[t]].verb = "unchanged" \/ scope[t] \in done[t]

\* A gesture answers "held" only when it found the queue aligned, the router
\* acknowledged the command that aligns it, or the line was frozen for oscillation.
\* A refused command, a lost reply or a closed gate never ends in "held".
HeldOrFrozen ==
    [][\A t \in Humans \cup Apis :
          AnswersHeld(t) => WasAligned(t) \/ plan[t][scope[t]].id \in frozen]_vars

\* The inventory page reads a client's state in the plan by the name of its
\* queue (_etat_dans_le_plan): "held" only when nothing is left to write for it.
PageSaysHeld(n) ==
    LET p == BuildPlan(queues, Desired(policy, reach), FALSE)
    IN  /\ p[n].verb \notin {"conflict", "skip"}
        /\ \A m \in Actions(p) : p[m].name # n
PageIsExact == \A s \in Subs : PageSaysHeld(s) => VerdictNow(s).verb = "unchanged"

\* Once the network, the policies and the switches stop moving with writing
\* allowed, the loop brings the router to a list it has nothing more to write
\* on, frozen lines apart: no perpetual rewriting, whatever the other tasks did.
Settled ==
    \A n \in Subjects : \/ VerdictNow(n).verb \notin Commands
                        \/ VerdictNow(n).id \in frozen
Converges == <>[](enforcement /\ writable) => <>[]Settled
=============================================================================
