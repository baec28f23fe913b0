------------------------ MODULE ShapingServiceProofs ------------------------
(***************************************************************************)
(* The writing path is type correct and keeps the router's contract, for   *)
(* every network, every set of tasks and every interleaving.               *)
(*                                                                         *)
(* The difficulty is that a plan is computed from a list that is no longer *)
(* the router's when its commands leave.  What saves the contract is that  *)
(* .id values are never given out twice and that a row never changes       *)
(* hands: a row that was ours when the plan was made is still ours, or is  *)
(* gone.  PlansHold says so of every plan in flight.                       *)
(***************************************************************************)
EXTENDS ShapingService, FiniteSetTheorems, WellFoundedInduction, TLAPS

-----------------------------------------------------------------------------
(***************************************************************************)
(* Facts about the planner that hold for every list, policy and network:   *)
(* what it computes is well formed, and the rows its commands name.        *)
(***************************************************************************)

QList == [Ids -> Row \cup {Absent}]

\* Among links there is always a most precise one.
LEMMA MostPrecise ==
    ASSUME NEW up \in SUBSET Links, up # {}
    PROVE  \E l \in up : \A m \in up : Network[m] \subseteq Network[l]
                                       => Network[m] = Network[l]
<1> DEFINE nets == {Network[l] : l \in up}
<1>1. IsWellFoundedOn(StrictSubsetOrdering(Addrs), SUBSET Addrs)
    <2>1. FiniteSubsetsOf(Addrs) = SUBSET Addrs
        BY PlannerAssumption, FS_FiniteSubsetsOfFinite
    <2>2. IsWellFoundedOn(StrictSubsetOrdering(Addrs), FiniteSubsetsOf(Addrs))
        BY FS_StrictSubsetOrderingWellFounded
    <2> QED
        BY <2>1, <2>2
<1>2. nets \subseteq SUBSET Addrs /\ nets # {}
    BY PlannerAssumption
<1>3. PICK n \in nets : \A k \in nets : <<k, n>> \notin StrictSubsetOrdering(Addrs)
    BY <1>1, <1>2, WFMin
<1>4. \A k \in nets : k \subseteq n => k = n
    BY <1>2, <1>3 DEF StrictSubsetOrdering
<1> QED
    BY <1>4

\* The parent of a client is a link or nothing.
LEMMA ParentOfType ==
    ASSUME NEW table, NEW s \in Subs, NEW target
    PROVE  ParentOf(table, s, target) \in Links \cup {NoParent}
<1> DEFINE up == Carriers(table, target)
<1>1. up \in SUBSET Links
    BY DEF Carriers
<1>2. CASE Sector[s] \in up
    BY <1>1, <1>2 DEF ParentOf
<1>3. CASE Sector[s] \notin up /\ up = {}
    BY <1>3 DEF ParentOf
<1>4. CASE Sector[s] \notin up /\ up # {}
    <2>1. \E l \in up : \A m \in up : Network[m] \subseteq Network[l]
                                        => Network[m] = Network[l]
        BY <1>1, <1>4, MostPrecise
    <2> QED
        BY <1>1, <1>4, <2>1 DEF ParentOf
<1> QED
    BY <1>2, <1>3, <1>4

\* desired_state yields, for each subject, a queue or nothing.
LEMMA DesiredType ==
    ASSUME NEW table \in [Subjects -> Policies], NEW ways \in [Subs -> SUBSET Addrs]
    PROVE  Desired(table, ways) \in [Subjects -> QueueSpec \cup {Skip}]
<1> SUFFICES ASSUME NEW x \in Subjects
             PROVE  Desired(table, ways)[x] \in QueueSpec \cup {Skip}
    BY DEF Desired
<1>1. CASE x \in Links
    <2>1. Network[x] \in SUBSET Addrs
        BY <1>1, PlannerAssumption
    <2>2. LinkWanted(table, x) => table[x] \in Rates \cup {0}
        BY <1>1 DEF LinkWanted, Policies
    <2> QED
        BY <1>1, <2>1, <2>2 DEF Desired, QueueSpec, Subjects
<1>2. CASE x \notin Links
    <2>1. x \in Subs
        BY <1>2 DEF Subjects
    <2>2. ParentOf(table, x, ways[x]) \in Links \cup {NoParent}
        BY <2>1, ParentOfType
    <2>3. Claims(table, ways, x) => table[x] \in Rates \cup {0}
        BY DEF Claims, Policies
    <2> QED
        BY <1>2, <2>1, <2>2, <2>3 DEF Desired, QueueSpec, Subjects
<1> QED
    BY <1>1, <1>2

\* Only known fields are ever said to differ.
LEMMA DifferingType ==
    ASSUME NEW row, NEW spec
    PROVE  Differing(row, spec) \in SUBSET Fields
BY DEF Differing, Fields

\* Each row the planner looks up is on the router.
LEMMA CalledPresent ==
    ASSUME NEW q \in QList, NEW n
    PROVE  \A i \in Called(q, n) : i \in Ids /\ q[i] \in Row /\ q[i].name = n
BY DEF QList, Called, Present

\* The rows of others that the planner looks up are on the router.
LEMMA ForeignersPresent ==
    ASSUME NEW q \in QList, NEW target
    PROVE  \A i \in Foreigners(q, target) : i \in Ids /\ q[i] \in Row /\ ~IsOurs(q[i])
BY DEF QList, Foreigners, Present

\* What may be said of a row: its verdict is well formed, and a command on an
\* existing row names a row of ours, or a third party's for its rate alone.
Allowed(q, v) ==
    /\ v.verb = "set" =>
           /\ v.id \in Ids /\ q[v.id] \in Row
           /\ v.spec \in QueueSpec
           /\ \/ IsOurs(q[v.id])
              \/ /\ Adopt /\ q[v.id].owner = "third"
                 /\ v.fields = {"rate"} /\ v.spec.rate \in Rates
    /\ v.verb = "remove" => v.id \in Ids /\ q[v.id] \in Row /\ IsOurs(q[v.id])
    /\ v.verb = "add" => v.spec \in QueueSpec

\* A verdict built from well-typed parts is a verdict.
LEMMA SayType ==
    ASSUME NEW verb \in Verbs, NEW name \in Names, NEW id \in Ids \cup {0},
           NEW fields \in SUBSET Fields, NEW spec \in QueueSpec \cup {Skip}
    PROVE  /\ Say(verb, name, id, fields, spec) \in Verdict
           /\ Say(verb, name, id, fields, spec).verb = verb
           /\ Say(verb, name, id, fields, spec).name = name
           /\ Say(verb, name, id, fields, spec).id = id
           /\ Say(verb, name, id, fields, spec).fields = fields
           /\ Say(verb, name, id, fields, spec).spec = spec
BY DEF Say, Verdict

\* A subject with no queue wanted: at most a row of ours is removed, on a prune.
LEMMA UnwantedVerdictSound ==
    ASSUME NEW q \in QList, NEW n \in Subjects, NEW pruning \in BOOLEAN
    PROVE  /\ UnwantedVerdict(q, n, pruning) \in Verdict
           /\ Allowed(q, UnwantedVerdict(q, n, pruning))
           /\ UnwantedVerdict(q, n, pruning).verb = "remove" => pruning
<1> DEFINE ours == {i \in Called(q, n) : IsOurs(q[i])}
<1>1. n \in Names /\ Skip \in QueueSpec \cup {Skip}
    BY DEF Names
<1>2. CASE pruning /\ ours # {}
    <2> DEFINE i == CHOOSE j \in ours : TRUE
    <2>1. i \in Ids /\ q[i] \in Row /\ IsOurs(q[i])
        BY <1>2, CalledPresent
    <2>2. UnwantedVerdict(q, n, pruning) = Say("remove", n, i, {}, Skip)
        BY <1>2 DEF UnwantedVerdict
    <2> HIDE DEF i
    <2>3. UnwantedVerdict(q, n, pruning) \in Verdict
        BY <1>1, <2>1, <2>2 DEF Say, Verdict, Verbs
    <2>4. Allowed(q, UnwantedVerdict(q, n, pruning))
        BY <2>1, <2>2 DEF Say, Allowed
    <2> QED
        BY <1>2, <2>3, <2>4
<1>3. CASE ~(pruning /\ ours # {})
    <2>1. UnwantedVerdict(q, n, pruning) = Say("skip", n, 0, {}, Skip)
        BY <1>3 DEF UnwantedVerdict
    <2> QED
        BY <1>1, <2>1, SMT DEF Say, Verdict, Allowed, Verbs
<1> QED
    BY <1>2, <1>3

\* A subject whose name is taken: only a row of ours is rewritten.
LEMMA NamedVerdictSound ==
    ASSUME NEW q \in QList, NEW n \in Subjects, NEW i \in Called(q, n), NEW spec \in QueueSpec
    PROVE  /\ NamedVerdict(q, n, i, spec) \in Verdict
           /\ Allowed(q, NamedVerdict(q, n, i, spec))
           /\ NamedVerdict(q, n, i, spec).verb \in {"conflict", "unchanged", "set"}
<1> DEFINE fields == Differing(q[i], spec)
           barred == Masked(q, i) \/ ~IsOurs(q[i])
<1>1. n \in Names /\ i \in Ids /\ q[i] \in Row /\ fields \in SUBSET Fields
    BY CalledPresent, DifferingType DEF Names
<1>2. CASE barred
    <2>1. NamedVerdict(q, n, i, spec) = Say("conflict", n, i, {}, spec)
        BY <1>2 DEF NamedVerdict
    <2> QED
        BY <1>1, <2>1, SMT DEF Say, Verdict, Allowed, Verbs
<1>3. CASE ~barred /\ fields = {}
    <2>1. NamedVerdict(q, n, i, spec) = Say("unchanged", n, i, {}, spec)
        BY <1>3 DEF NamedVerdict
    <2> QED
        BY <1>1, <2>1, SMT DEF Say, Verdict, Allowed, Verbs
<1>4. CASE ~barred /\ fields # {}
    <2>1. NamedVerdict(q, n, i, spec) = Say("set", n, i, fields, spec)
        BY <1>4 DEF NamedVerdict
    <2> QED
        BY <1>1, <1>4, <2>1, SMT DEF Say, Verdict, Allowed, Verbs
<1> QED
    BY <1>2, <1>3, <1>4

\* Somebody else's queue on the target: at most its rate, and with adoption on.
LEMMA ThirdVerdictSound ==
    ASSUME NEW q \in QList, NEW n \in Subjects, NEW spec \in QueueSpec,
           Foreigners(q, spec.target) # {}
    PROVE  /\ ThirdVerdict(q, n, spec) \in Verdict
           /\ Allowed(q, ThirdVerdict(q, n, spec))
           /\ ThirdVerdict(q, n, spec).verb \in {"conflict", "unchanged", "set"}
           /\ ThirdVerdict(q, n, spec).verb = "unchanged" => Adopt \/ spec.rate = 0
<1> DEFINE third   == Foreigners(q, spec.target)
           i       == CHOOSE j \in third : TRUE
           unclear == Cardinality(third) > 1 \/ q[i].owner = "other"
           verdict == ThirdVerdict(q, n, spec)
<1>1. i \in Ids /\ q[i] \in Row /\ ~IsOurs(q[i]) /\ n \in Names
    BY ForeignersPresent DEF Names
<1>2. spec.rate \in Rates \cup {0} /\ q[i].name \in Names
    BY <1>1 DEF QueueSpec, Row
<1>3. CASE unclear
    <2>1. verdict = Say("conflict", n, 0, {}, spec)
        BY <1>3 DEF ThirdVerdict
    <2> QED
        BY <1>1, <2>1, SMT DEF Say, Verdict, Allowed, Verbs
<1>4. CASE ~unclear /\ spec.rate = 0
    <2>1. verdict = Say("unchanged", n, i, {}, spec)
        BY <1>4 DEF ThirdVerdict
    <2> HIDE DEF i
    <2> QED
        BY <1>1, <1>4, <2>1, SMT DEF Say, Verdict, Allowed, Verbs
<1>5. CASE ~unclear /\ spec.rate # 0 /\ ~Adopt
    <2>1. verdict = Say("conflict", n, 0, {}, spec)
        BY <1>5 DEF ThirdVerdict
    <2> QED
        BY <1>1, <2>1, SMT DEF Say, Verdict, Allowed, Verbs
<1>6. CASE ~unclear /\ spec.rate # 0 /\ Adopt /\ q[i].rate = spec.rate
    <2>1. verdict = Say("unchanged", n, i, {}, spec)
        BY <1>6 DEF ThirdVerdict
    <2>2. Adopt
        BY <1>6
    <2> HIDE DEF i
    <2>3. verdict \in Verdict /\ Allowed(q, verdict) /\ verdict.verb = "unchanged"
        BY <1>1, <2>1, SMT DEF Say, Verdict, Allowed, Verbs
    <2> QED
        BY <2>2, <2>3
<1>7. CASE ~unclear /\ spec.rate # 0 /\ Adopt /\ q[i].rate # spec.rate
    <2>1. verdict = Say("set", q[i].name, i, {"rate"}, spec)
        BY <1>7 DEF ThirdVerdict
    <2>2. Adopt /\ spec.rate \in Rates
        BY <1>2, <1>7
    <2>3. q[i].owner = "third"
        BY <1>1, <1>7 DEF Row, Owners, IsOurs
    <2> HIDE DEF i
    <2>4. verdict \in Verdict /\ verdict.verb = "set"
        BY <1>1, <1>2, <2>1, SMT DEF Say, Verdict, Verbs, Fields
    <2>5. Allowed(q, verdict)
        BY <1>1, <2>1, <2>2, <2>3 DEF Say, Allowed
    <2> QED
        BY <2>4, <2>5
<1> QED
    BY <1>3, <1>4, <1>5, <1>6, <1>7

\* A verdict is well formed, a removal is only of a plan that prunes, and a
\* command names a row of ours, or a third party's for its rate alone.
LEMMA SubjectVerdictSound ==
    ASSUME NEW q \in QList, NEW n \in Subjects, NEW spec \in QueueSpec \cup {Skip},
           NEW pruning \in BOOLEAN
    PROVE  /\ SubjectVerdict(q, n, spec, pruning) \in Verdict
           /\ Allowed(q, SubjectVerdict(q, n, spec, pruning))
           /\ SubjectVerdict(q, n, spec, pruning).verb = "remove" => pruning
<1> DEFINE named == Called(q, n)
<1>1. CASE spec = Skip
    <2>1. SubjectVerdict(q, n, spec, pruning) = UnwantedVerdict(q, n, pruning)
        BY <1>1 DEF SubjectVerdict
    <2> QED
        BY <2>1, UnwantedVerdictSound
<1>2. CASE spec # Skip /\ named # {}
    <2>1. SubjectVerdict(q, n, spec, pruning)
              = NamedVerdict(q, n, CHOOSE i \in named : TRUE, spec)
        BY <1>2 DEF SubjectVerdict
    <2>2. (CHOOSE i \in named : TRUE) \in Called(q, n) /\ spec \in QueueSpec
        BY <1>2
    <2> QED
        BY <2>1, <2>2, NamedVerdictSound
<1>3. CASE spec # Skip /\ named = {} /\ Foreigners(q, spec.target) = {}
    <2>1. SubjectVerdict(q, n, spec, pruning) = Say("add", n, 0, {}, spec)
        BY <1>3 DEF SubjectVerdict
    <2>2. spec \in QueueSpec /\ n \in Names
        BY <1>3 DEF Names
    <2> QED
        BY <2>1, <2>2, SMT DEF Say, Verdict, Allowed, Verbs
<1>4. CASE spec # Skip /\ named = {} /\ Foreigners(q, spec.target) # {}
    <2>1. SubjectVerdict(q, n, spec, pruning) = ThirdVerdict(q, n, spec)
        BY <1>4 DEF SubjectVerdict
    <2>2. spec \in QueueSpec
        BY <1>4
    <2> QED
        BY <1>4, <2>1, <2>2, ThirdVerdictSound
<1> QED
    BY <1>1, <1>2, <1>3, <1>4

\* build_plan never names a row it may not write.
THEOREM BuildPlanSound ==
    ASSUME NEW q \in QList, NEW wants \in [Subjects -> QueueSpec \cup {Skip}],
           NEW pruning \in BOOLEAN
    PROVE  /\ BuildPlan(q, wants, pruning) \in [Subjects -> Verdict]
           /\ \A n \in Subjects :
                  /\ Allowed(q, BuildPlan(q, wants, pruning)[n])
                  /\ BuildPlan(q, wants, pruning)[n].verb = "remove" => pruning
<1> SUFFICES ASSUME NEW n \in Subjects
             PROVE  /\ SubjectVerdict(q, n, wants[n], pruning) \in Verdict
                    /\ Allowed(q, SubjectVerdict(q, n, wants[n], pruning))
                    /\ SubjectVerdict(q, n, wants[n], pruning).verb = "remove" => pruning
    BY DEF BuildPlan
<1> QED
    BY SubjectVerdictSound

-----------------------------------------------------------------------------
(* The service.                                                            *)

\* What a verdict computed earlier still guarantees about the list of now.
StillAllowed(v) ==
    /\ v.verb = "add" => v.spec \in QueueSpec
    /\ v.verb = "set" =>
           /\ v.spec \in QueueSpec /\ v.id \in Ids /\ v.id < fresh
           /\ \/ queues[v.id] = Absent
              \/ IsOurs(queues[v.id])
              \/ /\ Adopt /\ queues[v.id].owner = "third"
                 /\ v.fields = {"rate"} /\ v.spec.rate \in Rates
    /\ v.verb = "remove" =>
           /\ v.id \in Ids /\ v.id < fresh
           /\ queues[v.id] = Absent \/ IsOurs(queues[v.id])

FreshIsFresh    == \A i \in Ids : i >= fresh => queues[i] = Absent
PlansHold       == \A t \in Tasks, n \in Subjects : StillAllowed(plan[t][n])
BatchesArePlans == \A t \in Tasks : /\ todo[t] \subseteq Actions(plan[t])
                                    /\ phase[t] # "exec" => todo[t] = {}
LoopsNeverPrune == \A t \in Loops : /\ ~prune[t]
                                    /\ \A n \in Subjects : plan[t][n].verb # "remove"

IInv == TypeOK /\ FreshIsFresh /\ PlansHold /\ BatchesArePlans /\ LoopsNeverPrune

\* Every way the list may change between two awaits of a task: rows come under
\* a new .id, go, or keep their owner.
RowsKept ==
    /\ fresh' \in Nat /\ fresh <= fresh'
    /\ \A i \in Ids : i < fresh =>
           \/ queues'[i] = Absent
           \/ /\ queues[i] # Absent
              /\ IsOurs(queues[i]) => IsOurs(queues'[i])
              /\ queues[i].owner = "third" => queues'[i].owner = "third"

\* A plan in flight survives any change of the list made of allowed moves of rows.
LEMMA PlansSurvive ==
    ASSUME TypeOK, RowsKept, NEW v, StillAllowed(v)
    PROVE  StillAllowed(v)'
<1>1. fresh \in Nat /\ fresh' \in Nat /\ fresh <= fresh'
    BY PlannerAssumption DEF TypeOK, RowsKept
<1>2. ASSUME v.verb = "set" PROVE StillAllowed(v)'
    <2>1. v.id \in Ids /\ v.id \in Nat /\ v.id < fresh /\ v.spec \in QueueSpec
        BY <1>2 DEF StillAllowed, Ids
    <2>2. \/ queues'[v.id] = Absent
          \/ IsOurs(queues'[v.id])
          \/ /\ Adopt /\ queues'[v.id].owner = "third"
             /\ v.fields = {"rate"} /\ v.spec.rate \in Rates
        BY <1>2, <2>1 DEF StillAllowed, RowsKept
    <2> QED
        BY <1>1, <1>2, <2>1, <2>2 DEF StillAllowed
<1>3. ASSUME v.verb = "remove" PROVE StillAllowed(v)'
    <2>1. v.id \in Ids /\ v.id \in Nat /\ v.id < fresh
        BY <1>3 DEF StillAllowed, Ids
    <2>2. queues'[v.id] = Absent \/ IsOurs(queues'[v.id])
        BY <1>3, <2>1 DEF StillAllowed, RowsKept
    <2> QED
        BY <1>1, <1>3, <2>1, <2>2 DEF StillAllowed
<1> QED
    BY <1>2, <1>3 DEF StillAllowed

\* A command changes one row, and only the way StillAllowed lets it.
LEMMA RewrittenType ==
    ASSUME NEW row \in Row, NEW v \in Verdict, v.spec \in QueueSpec
    PROVE  /\ Rewritten(row, v) \in Row
           /\ Rewritten(row, v).name = row.name
           /\ IsOurs(row) => IsOurs(Rewritten(row, v))
           /\ v.fields = {"rate"} => Rewritten(row, v) = [row EXCEPT !.rate = v.spec.rate]
<1>1. v.spec.target \in SUBSET Addrs /\ v.spec.rate \in Rates \cup {0}
      /\ v.spec.parent \in Names \cup {NoParent}
    BY DEF QueueSpec, Names, Subjects
<1>2. Rewritten(row, v) \in Row /\ Rewritten(row, v).name = row.name
    BY <1>1 DEF Rewritten, Row, Owners
<1>3. IsOurs(row) => IsOurs(Rewritten(row, v))
    <2>1. Rewritten(row, v).owner \in {row.owner, "ours"}
        BY DEF Rewritten, Row
    <2> QED
        BY <2>1 DEF IsOurs
<1>4. ASSUME v.fields = {"rate"}
      PROVE  Rewritten(row, v) = [row EXCEPT !.rate = v.spec.rate]
    <2>1. "target" \notin v.fields /\ "parent" \notin v.fields
          /\ "disabled" \notin v.fields /\ "comment" \notin v.fields /\ "rate" \in v.fields
        BY <1>4
    <2> QED
        BY <2>1 DEF Rewritten, Row
<1> QED
    BY <1>2, <1>3, <1>4

\* The row an add creates is well formed.
LEMMA NewRowType ==
    ASSUME NEW n \in Subjects, NEW spec \in QueueSpec
    PROVE  /\ NewRow(n, spec) \in Row /\ NewRow(n, spec).name = n
           /\ NewRow(n, spec).owner = "ours" /\ ~NewRow(n, spec).disabled
BY DEF NewRow, Row, QueueSpec, Names, Subjects, Owners
-----------------------------------------------------------------------------
(* The three ways a step may leave the invariant alone.                     *)

\* A step that touches neither the list nor the plans nor the batches.
LEMMA QuietKeeps ==
    ASSUME IInv, TypeOK', UNCHANGED <<queues, fresh, plan, todo, prune>>,
           \A t \in Tasks : phase'[t] # "exec" => phase[t] # "exec"
    PROVE  IInv'
<1>1. FreshIsFresh' /\ PlansHold'
    BY DEF IInv, FreshIsFresh, PlansHold, StillAllowed
<1>2. BatchesArePlans' /\ LoopsNeverPrune'
    BY DEF IInv, BatchesArePlans, LoopsNeverPrune
<1> QED
    BY <1>1, <1>2 DEF IInv

\* A step of the router alone.
LEMMA ListKeeps ==
    ASSUME IInv, TypeOK', RowsKept, FreshIsFresh', UNCHANGED <<plan, todo, prune, phase>>
    PROVE  IInv'
<1>1. PlansHold'
    <2> SUFFICES ASSUME NEW t \in Tasks, NEW n \in Subjects PROVE StillAllowed(plan[t][n])'
        BY DEF PlansHold
    <2>1. StillAllowed(plan[t][n]) /\ TypeOK
        BY DEF IInv, PlansHold
    <2>2. plan' = plan
        OBVIOUS
    <2> QED
        BY <2>1, <2>2, PlansSurvive DEF StillAllowed
<1>2. BatchesArePlans' /\ LoopsNeverPrune'
    BY DEF IInv, BatchesArePlans, LoopsNeverPrune
<1> QED
    BY <1>1, <1>2 DEF IInv

\* The empty plan, desired state and trace have their types.
LEMMA NothingPlanned ==
    /\ NoWant \in [Subjects -> QueueSpec \cup {Skip}]
    /\ NoPlan \in [Subjects -> Verdict]
    /\ Actions(NoPlan) = {}
    /\ \A n \in Subjects : StillAllowed(NoPlan[n]) /\ NoPlan[n].verb = "skip"
<1>1. \A n \in Subjects : /\ NoPlan[n] = Say("skip", n, 0, {}, Skip)
                          /\ NoPlan[n] \in Verdict /\ NoPlan[n].verb = "skip"
    BY DEF NoPlan, Say, Verdict, Verbs, Names
<1>2. NoPlan \in [Subjects -> Verdict]
    BY <1>1 DEF NoPlan
<1> QED
    BY <1>1, <1>2 DEF NoWant, Actions, Commands, StillAllowed

\* A task that ends forgets its plan.
LEMMA EndKeeps ==
    ASSUME IInv, TypeOK', NEW t \in Tasks, NEW answer, Ends(t, answer), UNCHANGED router
    PROVE  IInv'
<1>0. TypeOK /\ FreshIsFresh /\ PlansHold /\ BatchesArePlans /\ LoopsNeverPrune
    BY DEF IInv
<1>1. queues' = queues /\ fresh' = fresh
    BY DEF router
<1>2. /\ plan'[t] = NoPlan /\ todo'[t] = {} /\ prune'[t] = FALSE
      /\ \A u \in Tasks \ {t} : /\ plan'[u] = plan[u] /\ todo'[u] = todo[u]
                                /\ prune'[u] = prune[u] /\ phase'[u] = phase[u]
    BY <1>0 DEF Ends, Goes, TypeOK
<1>3. FreshIsFresh'
    BY <1>0, <1>1 DEF FreshIsFresh
<1>4. PlansHold'
    BY <1>0, <1>1, <1>2, NothingPlanned DEF PlansHold, StillAllowed
<1>5. BatchesArePlans'
    BY <1>0, <1>2 DEF BatchesArePlans
<1>6. LoopsNeverPrune'
    BY <1>0, <1>2, NothingPlanned DEF LoopsNeverPrune, Tasks
<1> QED
    BY <1>3, <1>4, <1>5, <1>6 DEF IInv
-----------------------------------------------------------------------------
(* The environment.                                                         *)

\* The moves left stay within their bound.
LEMMA MoveType == ASSUME TypeOK, NEW kind, Move(kind) PROVE moves' \in 0..MaxMoves
BY ServiceAssumption DEF TypeOK, Move

\* A policy edited meanwhile.
LEMMA PolicyChangesKeeps == ASSUME IInv, PolicyChanges PROVE IInv'
<1>1. TypeOK'
    BY MoveType DEF IInv, TypeOK, PolicyChanges, router, switches, work, guard
<1> QED
    BY <1>1, QuietKeeps DEF PolicyChanges, router, work

\* A client that connects, moves or leaves.
LEMMA SessionChangesKeeps == ASSUME IInv, SessionChanges PROVE IInv'
<1>1. reach' \in [Subs -> SUBSET Addrs]
    BY DEF IInv, TypeOK, SessionChanges
<1>2. TypeOK'
    BY <1>1, MoveType DEF IInv, TypeOK, SessionChanges, router, switches, work, guard
<1> QED
    BY <1>2, QuietKeeps DEF SessionChanges, router, work

\* The global flag.
LEMMA FlagFlipsKeeps == ASSUME IInv, FlagFlips PROVE IInv'
<1>1. TypeOK'
    BY MoveType DEF IInv, TypeOK, FlagFlips, router, inputs, work, guard
<1> QED
    BY <1>1, QuietKeeps DEF FlagFlips, router, work

\* The router's write switch.
LEMMA SwitchFlipsKeeps == ASSUME IInv, SwitchFlips PROVE IInv'
<1>1. TypeOK'
    BY MoveType DEF IInv, TypeOK, SwitchFlips, router, inputs, work, guard
<1> QED
    BY <1>1, QuietKeeps DEF SwitchFlips, router, work

\* An old write that no longer counts.
LEMMA WindowElapsesKeeps == ASSUME IInv, WindowElapses PROVE IInv'
<1>1. DOMAIN written' = Ids /\ \A i \in Ids : DOMAIN written'[i] = Watched
    BY DEF IInv, TypeOK, WindowElapses
<1>2. TypeOK'
    BY <1>1, MoveType DEF IInv, TypeOK, WindowElapses, router, inputs, switches, work
<1> QED
    BY <1>2, QuietKeeps DEF WindowElapses, router, work

\* A row added by others takes a fresh .id, which no plan names.
LEMMA ThirdPartyAddsKeeps == ASSUME IInv, ThirdPartyAdds PROVE IInv'
<1>0. TypeOK /\ FreshIsFresh /\ MaxRows \in Nat
    BY PlannerAssumption DEF IInv
<1>1. PICK row \in ThirdRows : queues' = [queues EXCEPT ![fresh] = row]
    BY DEF ThirdPartyAdds
<1>2. fresh \in Nat /\ fresh \in Ids /\ fresh' = fresh + 1 /\ fresh' \in 1..(MaxRows + 1)
    BY <1>0 DEF ThirdPartyAdds, TypeOK, Ids
<1>3. row \in Row
    BY ServiceAssumption
<1>4. queues' \in [Ids -> Row \cup {Absent}]
    BY <1>0, <1>1, <1>2, <1>3 DEF TypeOK
<1>5. TypeOK'
    BY <1>0, <1>2, <1>4, MoveType DEF TypeOK, ThirdPartyAdds, inputs, switches, work, guard
<1>6. RowsKept
    BY <1>0, <1>1, <1>2 DEF RowsKept, FreshIsFresh, TypeOK, Ids
<1>7. FreshIsFresh'
    BY <1>0, <1>1, <1>2 DEF FreshIsFresh, TypeOK, Ids
<1> QED
    BY <1>5, <1>6, <1>7, ListKeeps DEF ThirdPartyAdds, work

\* A row deleted by others: a plan may still name it, and names nothing.
LEMMA RowVanishesKeeps == ASSUME IInv, RowVanishes PROVE IInv'
<1>0. TypeOK /\ FreshIsFresh
    BY DEF IInv
<1>1. PICK i \in Present(queues) : queues' = [queues EXCEPT ![i] = Absent]
    BY DEF RowVanishes
<1>2. queues' \in [Ids -> Row \cup {Absent}] /\ fresh' = fresh /\ fresh \in Nat
    BY <1>0, <1>1, PlannerAssumption DEF TypeOK, Present, RowVanishes
<1>3. TypeOK'
    BY <1>0, <1>2, MoveType DEF TypeOK, RowVanishes, inputs, switches, work, guard
<1>4. RowsKept /\ FreshIsFresh'
    BY <1>0, <1>1, <1>2 DEF RowsKept, FreshIsFresh, TypeOK, Present
<1> QED
    BY <1>3, <1>4, ListKeeps DEF RowVanishes, work

\* A row enabled or disabled by others keeps its owner.
LEMMA RowToggledKeeps == ASSUME IInv, RowToggled PROVE IInv'
<1>0. TypeOK /\ FreshIsFresh
    BY DEF IInv
<1>1. PICK i \in Present(queues) : queues' = [queues EXCEPT ![i].disabled = ~@]
    BY DEF RowToggled
<1>2. i \in Ids /\ queues[i] \in Row /\ queues[i] # Absent
    BY <1>0 DEF TypeOK, Present
<1>3. queues'[i] \in Row /\ queues'[i].owner = queues[i].owner
      /\ \A j \in Ids \ {i} : queues'[j] = queues[j]
    BY <1>0, <1>1, <1>2 DEF TypeOK, Row
<1>4. queues' \in [Ids -> Row \cup {Absent}] /\ fresh' = fresh /\ fresh \in Nat
    <2>1. queues' = [j \in Ids |-> queues'[j]]
        BY <1>0, <1>1 DEF TypeOK
    <2>2. \A j \in Ids : queues'[j] \in Row \cup {Absent}
        BY <1>0, <1>3 DEF TypeOK
    <2>3. fresh' = fresh /\ fresh \in Nat
        BY <1>0, PlannerAssumption DEF TypeOK, RowToggled
    <2> QED
        BY <2>1, <2>2, <2>3
<1>5. TypeOK'
    BY <1>0, <1>4, MoveType DEF TypeOK, RowToggled, inputs, switches, work, guard
<1>6. RowsKept
    BY <1>2, <1>3, <1>4 DEF RowsKept, IsOurs
<1>7. FreshIsFresh'
    BY <1>0, <1>2, <1>3, <1>4 DEF FreshIsFresh
<1> QED
    BY <1>5, <1>6, <1>7, ListKeeps DEF RowToggled, work

\* After a restart no plan is left.
LEMMA RestartKeeps == ASSUME IInv, Restart PROVE IInv'
<1>0. TypeOK /\ FreshIsFresh
    BY DEF IInv
<1>1. TypeOK'
    BY <1>0, MoveType, NothingPlanned
       DEF TypeOK, Restart, router, inputs, switches, NoTrace
<1>2. queues' = queues /\ fresh' = fresh
    BY DEF Restart, router
<1>3. FreshIsFresh'
    BY <1>0, <1>2 DEF FreshIsFresh
<1>4. PlansHold'
    BY <1>2, NothingPlanned DEF PlansHold, StillAllowed, Restart
<1>5. BatchesArePlans' /\ LoopsNeverPrune'
    BY NothingPlanned DEF BatchesArePlans, LoopsNeverPrune, Restart, Tasks
<1> QED
    BY <1>1, <1>3, <1>4, <1>5 DEF IInv
-----------------------------------------------------------------------------
(* The tasks, up to the first command.                                      *)

Answers == {"nothing", "held", "removed", "conflict", "skipped", "to_set", "error"}

\* A task that starts; a loop never asks to prune.
LEMMA BeginsKeeps ==
    ASSUME IInv, NEW t \in Tasks, NEW on \in Subjects \cup {All}, NEW removing \in BOOLEAN,
           t \in Loops => ~removing, Begins(t, on, removing)
    PROVE  IInv'
<1>0. TypeOK /\ FreshIsFresh /\ PlansHold /\ BatchesArePlans /\ LoopsNeverPrune
    BY DEF IInv
<1>1. TypeOK'
    BY <1>0 DEF TypeOK, Begins, Goes, router, inputs, switches, guard
<1>2. FreshIsFresh' /\ PlansHold'
    BY <1>0 DEF Begins, router, FreshIsFresh, PlansHold, StillAllowed
<1>3. BatchesArePlans'
    BY <1>0 DEF Begins, Goes, BatchesArePlans, TypeOK
<1>4. \A u \in Loops : ~prune'[u]
    BY <1>0 DEF Begins, LoopsNeverPrune, TypeOK, Tasks
<1>5. LoopsNeverPrune'
    BY <1>0, <1>4 DEF Begins, LoopsNeverPrune
<1> QED
    BY <1>1, <1>2, <1>3, <1>5 DEF IInv

\* A loop that starts.
LEMMA LoopStartsKeeps == ASSUME IInv, NEW t \in Tasks, LoopStarts(t) PROVE IInv'
BY BeginsKeeps DEF LoopStarts

\* A gesture that starts.
LEMMA GestureStartsKeeps == ASSUME IInv, NEW t \in Tasks, GestureStarts(t) PROVE IInv'
<1>1. t \notin Loops
    BY ServiceAssumption DEF GestureStarts
<1>2. CASE \E s \in Subs, removing \in BOOLEAN : Begins(t, s, removing)
    BY <1>1, <1>2, BeginsKeeps DEF Subjects
<1>3. CASE \E l \in Links : Begins(t, l, FALSE)
    BY <1>1, <1>3, BeginsKeeps DEF Subjects
<1> QED
    BY <1>2, <1>3 DEF GestureStarts

\* The apply button.
LEMMA ApplyStartsKeeps == ASSUME IInv, NEW t \in Tasks, ApplyStarts(t) PROVE IInv'
<1>1. t \notin Loops
    BY ServiceAssumption DEF ApplyStarts
<1> QED
    BY <1>1, BeginsKeeps DEF ApplyStarts

\* The desired state a task assembles is well formed.
LEMMA BuildTargetsKeeps == ASSUME IInv, NEW t \in Tasks, BuildTargets(t) PROVE IInv'
<1>0. TypeOK
    BY DEF IInv
<1>1. Desired(policy, reach) \in [Subjects -> QueueSpec \cup {Skip}]
    BY <1>0, DesiredType DEF TypeOK
<1>2. want' \in [Tasks -> [Subjects -> QueueSpec \cup {Skip}]]
    BY <1>0, <1>1 DEF TypeOK, BuildTargets
<1>3. TypeOK'
    BY <1>0, <1>2 DEF TypeOK, BuildTargets, Goes, router, inputs, switches, guard
<1>4. \A u \in Tasks : phase'[u] # "exec" => phase[u] # "exec"
    BY <1>0 DEF TypeOK, BuildTargets, Goes
<1> QED
    BY <1>3, <1>4, QuietKeeps DEF BuildTargets, router

\* A plan just computed is about the list of now.
LEMMA AllowedIsStillAllowed ==
    ASSUME TypeOK, FreshIsFresh, NEW v, Allowed(queues, v)
    PROVE  StillAllowed(v)
<1>1. fresh \in Nat /\ queues \in QList
    BY PlannerAssumption DEF TypeOK, QList
<1>2. \A i \in Ids : queues[i] \in Row => i < fresh
    BY <1>1, PlannerAssumption DEF FreshIsFresh, Ids
<1> QED
    BY <1>2 DEF Allowed, StillAllowed

\* The plan a task computes holds on the list it read.
LEMMA InspectKeeps == ASSUME IInv, NEW t \in Tasks, Inspect(t) PROVE IInv'
<1>0. TypeOK /\ FreshIsFresh /\ PlansHold /\ BatchesArePlans /\ LoopsNeverPrune
    BY DEF IInv
<1> DEFINE new == BuildPlan(queues, want[t], prune[t])
<1>1. /\ new \in [Subjects -> Verdict]
      /\ \A n \in Subjects : /\ Allowed(queues, new[n])
                             /\ new[n].verb = "remove" => prune[t]
    <2>1. queues \in QList /\ want[t] \in [Subjects -> QueueSpec \cup {Skip}]
          /\ prune[t] \in BOOLEAN
        BY <1>0 DEF TypeOK, QList
    <2> QED
        BY <2>1, BuildPlanSound
<1>2. \A n \in Subjects : StillAllowed(new[n])
    BY <1>0, <1>1, AllowedIsStillAllowed
<1> HIDE DEF new
<1>3. plan' = [plan EXCEPT ![t] = new] /\ queues' = queues /\ fresh' = fresh
      /\ UNCHANGED <<prune, todo>>
    BY DEF Inspect, new, router
<1>4. plan' \in [Tasks -> [Subjects -> Verdict]]
    BY <1>0, <1>1, <1>3 DEF TypeOK
<1>5. want' \in [Tasks -> [Subjects -> QueueSpec \cup {Skip}]]
    BY <1>0, NothingPlanned DEF TypeOK, Inspect
<1>6. TypeOK'
    BY <1>0, <1>4, <1>5 DEF TypeOK, Inspect, Goes, router, inputs, switches, guard
<1>7. FreshIsFresh' /\ PlansHold'
    BY <1>0, <1>2, <1>3 DEF FreshIsFresh, PlansHold, StillAllowed, TypeOK
<1>8. BatchesArePlans'
    <2>1. phase[t] = "inspect" /\ todo[t] = {}
        BY <1>0 DEF Inspect, BatchesArePlans
    <2>2. \A u \in Tasks \ {t} : plan'[u] = plan[u] /\ phase'[u] = phase[u]
        BY <1>0, <1>3 DEF Inspect, Goes, TypeOK
    <2> QED
        BY <1>0, <1>3, <2>1, <2>2 DEF BatchesArePlans
<1>9. LoopsNeverPrune'
    BY <1>0, <1>1, <1>3 DEF LoopsNeverPrune, TypeOK, Tasks
<1> QED
    BY <1>6, <1>7, <1>8, <1>9 DEF IInv

\* A task that ends leaves well-typed state.
LEMMA EndType ==
    ASSUME TypeOK, NEW t \in Tasks, NEW answer \in Answers, Ends(t, answer),
           UNCHANGED <<router, inputs, switches>>,
           DOMAIN written' = Ids, \A i \in Ids : DOMAIN written'[i] = Watched,
           frozen' = frozen, warned' \subseteq Subjects, moves' \in 0..MaxMoves
    PROVE  TypeOK'
<1>1. All \in Subjects \cup {All} /\ FALSE \in BOOLEAN
    OBVIOUS
<1> QED
    BY <1>1, NothingPlanned DEF TypeOK, Ends, Goes, router, inputs, switches, Answers

\* A router or a database that does not answer.
LEMMA ReadFailsKeeps == ASSUME IInv, NEW t \in Tasks, ReadFails(t) PROVE IInv'
<1>1. TypeOK'
    BY EndType, MoveType DEF IInv, TypeOK, ReadFails, guard, Answers
<1> QED
    BY <1>1, EndKeeps DEF ReadFails

\* Only actions of the plan are offered.
LEMMA OfferedType == ASSUME NEW t \in Tasks PROVE Offered(t) \subseteq Actions(plan[t])
BY DEF Offered

\* What passes the gate is part of the plan.
LEMMA GateKeeps ==
    ASSUME IInv, NEW t \in Tasks, Gate(t)
    PROVE  IInv'
<1>0. TypeOK /\ FreshIsFresh /\ PlansHold /\ BatchesArePlans /\ LoopsNeverPrune
    BY DEF IInv
<1>1. \A n \in Subjects : Oscillates(plan[t][n]) => plan[t][n].id \in Ids
    BY <1>0 DEF Oscillates, PlansHold, StillAllowed
<1>2. frozen' \subseteq Ids
    <2> DEFINE flips == {n \in Offered(t) : ~Frozen(plan[t][n]) /\ Oscillates(plan[t][n])}
    <2>1. frozen' = frozen \cup {plan[t][n].id : n \in flips}
        BY DEF Gate
    <2>2. \A n \in flips : n \in Subjects
        BY OfferedType DEF Actions
    <2> QED
        BY <1>0, <1>1, <2>1, <2>2 DEF TypeOK
<1>3. /\ todo' \in [Tasks -> SUBSET Subjects]
      /\ todo'[t] \subseteq Actions(plan[t])
      /\ \A u \in Tasks \ {t} : todo'[u] = todo[u]
    <2> DEFINE flips == {n \in Offered(t) : ~Frozen(plan[t][n]) /\ Oscillates(plan[t][n])}
               kept  == {n \in Offered(t) : ~Frozen(plan[t][n])} \ flips
               batch == IF Cardinality(kept) <= MaxActions THEN kept ELSE {}
    <2>1. todo' = [todo EXCEPT ![t] = batch]
        BY DEF Gate
    <2>2. batch \subseteq Actions(plan[t]) /\ batch \subseteq Subjects
        BY OfferedType DEF Actions
    <2> HIDE DEF batch
    <2> QED
        BY <1>0, <2>1, <2>2 DEF TypeOK
<1>4. TypeOK'
    BY <1>0, <1>2, <1>3 DEF TypeOK, Gate, Goes, router, inputs, switches
<1>5. FreshIsFresh' /\ PlansHold' /\ LoopsNeverPrune'
    BY <1>0 DEF Gate, router, FreshIsFresh, PlansHold, StillAllowed, LoopsNeverPrune
<1>6. BatchesArePlans'
    <2>1. phase'[t] = "exec" /\ plan' = plan
        BY <1>0 DEF Gate, Goes, TypeOK
    <2>2. \A u \in Tasks \ {t} : phase'[u] = phase[u]
        BY <1>0 DEF Gate, Goes, TypeOK
    <2> QED
        BY <1>0, <1>3, <2>1, <2>2 DEF BatchesArePlans
<1> QED
    BY <1>4, <1>5, <1>6 DEF IInv

\* The decision of a gesture.
LEMMA GestureDecidesKeeps == ASSUME IInv, NEW t \in Tasks, GestureDecides(t) PROVE IInv'
<1>1. CASE Gate(t)
    BY <1>1, GateKeeps
<1>2. ASSUME NEW answer \in Answers, Ends(t, answer),
             UNCHANGED <<router, inputs, switches, warned, guard, moves>>
      PROVE  IInv'
    <2>1. TypeOK'
        BY <1>2, EndType DEF IInv, TypeOK, guard
    <2> QED
        BY <1>2, <2>1, EndKeeps
<1>3. Dismissal(t) \in Answers \cup {"apply"}
    BY DEF Dismissal, Answers
<1>4. "to_set" \in Answers
    BY DEF Answers
<1> QED
    BY <1>1, <1>2, <1>3, <1>4 DEF GestureDecides

\* The decision of a loop or of the apply button.
LEMMA WholePlanDecidesKeeps == ASSUME IInv, NEW t \in Tasks, WholePlanDecides(t) PROVE IInv'
<1>1. CASE Gate(t)
    BY <1>1, GateKeeps
<1>2. ASSUME NEW answer \in Answers, Ends(t, answer),
             UNCHANGED <<router, inputs, switches, guard, moves>>, warned' \subseteq Subjects
      PROVE  IInv'
    <2>1. TypeOK'
        BY <1>2, EndType DEF IInv, TypeOK, guard
    <2> QED
        BY <1>2, <2>1, EndKeeps
<1>3. "error" \in Answers /\ "nothing" \in Answers
    BY DEF Answers
<1>4. warned \subseteq Subjects
    BY DEF IInv, TypeOK
<1> QED
    BY <1>1, <1>2, <1>3, <1>4 DEF WholePlanDecides
-----------------------------------------------------------------------------
(* The commands.                                                            *)

\* What one accepted command does to the list.
LEMMA ReachesKeepsRows ==
    ASSUME IInv, NEW t \in Tasks, NEW n \in todo[t], Reaches(t, n)
    PROVE  /\ queues' \in [Ids -> Row \cup {Absent}]
           /\ fresh' \in 1..(MaxRows + 1)
           /\ RowsKept /\ FreshIsFresh'
<1>0. TypeOK /\ FreshIsFresh /\ PlansHold /\ BatchesArePlans /\ MaxRows \in Nat
    BY PlannerAssumption DEF IInv
<1> DEFINE v == plan[t][n]
<1>1. n \in Subjects /\ v \in Verdict /\ v.verb \in Commands /\ StillAllowed(v)
    BY <1>0 DEF BatchesArePlans, Actions, TypeOK, PlansHold
<1>2. fresh \in Nat /\ fresh \in 1..(MaxRows + 1)
    BY <1>0 DEF TypeOK
<1> HIDE DEF v
<1>3. CASE v.verb = "add"
    <2> DEFINE row == NewRow(n, v.spec)
    <2>1. queues' = [queues EXCEPT ![fresh] = row] /\ fresh' = fresh + 1 /\ fresh <= MaxRows
        BY <1>3 DEF Reaches, Effect, v
    <2>2. row \in Row
        BY <1>1, <1>3, NewRowType DEF StillAllowed
    <2> HIDE DEF row
    <2>3. fresh \in Ids
        BY <1>2, <2>1 DEF Ids
    <2>4. queues' \in [Ids -> Row \cup {Absent}]
        BY <1>0, <2>1, <2>2 DEF TypeOK
    <2>5. fresh' \in 1..(MaxRows + 1)
        BY <1>0, <1>2, <2>1
    <2>6. RowsKept /\ FreshIsFresh'
        BY <1>0, <1>2, <2>1, <2>3 DEF RowsKept, FreshIsFresh, TypeOK, Ids
    <2> QED
        BY <2>4, <2>5, <2>6
<1>4. CASE v.verb = "set"
    <2> DEFINE row == Rewritten(queues[v.id], v)
    <2>1. queues' = [queues EXCEPT ![v.id] = row] /\ fresh' = fresh /\ queues[v.id] # Absent
        BY <1>4 DEF Reaches, Effect, Accepts, v
    <2>2. v.id \in Ids /\ queues[v.id] \in Row /\ v.spec \in QueueSpec
        BY <1>0, <1>1, <1>4, <2>1 DEF StillAllowed, TypeOK
    <2>3. IsOurs(queues[v.id]) => IsOurs(row)
        BY <1>1, <2>2, RewrittenType
    <2>4. row \in Row
        BY <1>1, <2>2, RewrittenType
    <2>5. queues[v.id].owner = "third" => row.owner = "third"
        <3>1. ASSUME queues[v.id].owner = "third" PROVE v.fields = {"rate"}
            BY <1>1, <1>4, <2>1, <3>1 DEF StillAllowed, IsOurs
        <3>2. ASSUME v.fields = {"rate"} PROVE row.owner = queues[v.id].owner
            BY <2>2, <3>2 DEF Rewritten
        <3> QED
            BY <3>1, <3>2
    <2> HIDE DEF row
    <2>6. queues' \in [Ids -> Row \cup {Absent}]
        BY <1>0, <2>1, <2>2, <2>4 DEF TypeOK
    <2>7. RowsKept
        BY <1>0, <1>2, <2>1, <2>2, <2>3, <2>5, <2>6 DEF RowsKept, TypeOK
    <2>8. FreshIsFresh'
        BY <1>0, <2>1, <2>2 DEF FreshIsFresh, TypeOK
    <2> QED
        BY <1>2, <2>1, <2>6, <2>7, <2>8
<1>5. CASE v.verb = "remove"
    <2>1. queues' = [queues EXCEPT ![v.id] = Absent] /\ fresh' = fresh
        BY <1>5 DEF Reaches, Effect, v
    <2>2. v.id \in Ids
        BY <1>1, <1>5 DEF StillAllowed
    <2>3. queues' \in [Ids -> Row \cup {Absent}]
        BY <1>0, <2>1 DEF TypeOK
    <2>4. RowsKept /\ FreshIsFresh'
        BY <1>0, <1>2, <2>1, <2>2 DEF RowsKept, FreshIsFresh, TypeOK
    <2> QED
        BY <1>2, <2>1, <2>3, <2>4
<1> QED
    BY <1>1, <1>3, <1>4, <1>5 DEF Commands

\* The list moved by a command, and the batch that shrank by it.
LEMMA CommandKeeps ==
    ASSUME IInv, NEW t \in Tasks, NEW n \in todo[t], TypeOK', RowsKept, FreshIsFresh',
           NEW rest \in SUBSET todo[t], todo' = [todo EXCEPT ![t] = rest],
           UNCHANGED <<plan, prune, phase>>
    PROVE  IInv'
<1>0. TypeOK /\ PlansHold /\ BatchesArePlans /\ LoopsNeverPrune
    BY DEF IInv
<1>1. PlansHold'
    <2> SUFFICES ASSUME NEW u \in Tasks, NEW m \in Subjects PROVE StillAllowed(plan[u][m])'
        BY DEF PlansHold
    <2>1. StillAllowed(plan[u][m])
        BY <1>0 DEF PlansHold
    <2>2. plan' = plan
        OBVIOUS
    <2> QED
        BY <1>0, <2>1, <2>2, PlansSurvive DEF StillAllowed
<1>2. BatchesArePlans' /\ LoopsNeverPrune'
    BY <1>0 DEF BatchesArePlans, LoopsNeverPrune, TypeOK
<1> QED
    BY <1>1, <1>2 DEF IInv

\* A command the router accepts.
LEMMA SendsKeeps == ASSUME IInv, NEW t \in Tasks, Sends(t) PROVE IInv'
<1>0. TypeOK
    BY DEF IInv
<1>1. PICK n \in todo[t] : /\ Reaches(t, n)
                           /\ todo' = [todo EXCEPT ![t] = @ \ {n}]
                           /\ done' = [done EXCEPT ![t] = @ \cup {n}]
                           /\ UNCHANGED <<inputs, switches, phase, scope, prune, want, plan,
                                          told, warned, guard, moves>>
    BY DEF Sends
<1>2. /\ queues' \in [Ids -> Row \cup {Absent}] /\ fresh' \in 1..(MaxRows + 1)
      /\ RowsKept /\ FreshIsFresh'
    BY <1>1, ReachesKeepsRows
<1>3. /\ todo' \in [Tasks -> SUBSET Subjects] /\ done' \in [Tasks -> SUBSET Subjects]
      /\ todo' = [todo EXCEPT ![t] = todo[t] \ {n}]
    BY <1>0, <1>1 DEF TypeOK
<1>4. TypeOK'
    BY <1>0, <1>1, <1>2, <1>3 DEF TypeOK, inputs, switches, guard
<1> QED
    BY <1>1, <1>2, <1>3, <1>4, CommandKeeps

\* A batch that stops at a failure keeps the types.
LEMMA StopsType ==
    ASSUME TypeOK, NEW t \in Tasks, Stops(t)
    PROVE  /\ todo' \in [Tasks -> SUBSET Subjects]
           /\ told' \in [Tasks -> Answers]
BY DEF TypeOK, Stops, Answers

\* A command the router refuses.
LEMMA RefusedKeeps == ASSUME IInv, NEW t \in Tasks, Refused(t) PROVE IInv'
<1>0. TypeOK
    BY DEF IInv
<1>1. PICK n \in todo[t] : /\ Stops(t)
                           /\ UNCHANGED <<router, inputs, switches, phase, scope, prune,
                                          want, plan, done, warned, guard, moves>>
    BY DEF Refused
<1>2. TypeOK'
    BY <1>0, <1>1, StopsType DEF TypeOK, router, inputs, switches, guard, Answers
<1>3. RowsKept /\ FreshIsFresh'
    BY <1>0, <1>1, PlannerAssumption DEF RowsKept, FreshIsFresh, IInv, TypeOK, router
<1>4. todo' = [todo EXCEPT ![t] = {}]
    BY <1>1 DEF Stops
<1> QED
    BY <1>1, <1>2, <1>3, <1>4, CommandKeeps

\* A command whose reply is lost, executed or not.
LEMMA ConnectionLostKeeps == ASSUME IInv, NEW t \in Tasks, ConnectionLost(t) PROVE IInv'
<1>0. TypeOK
    BY DEF IInv
<1>1. PICK n \in todo[t] : /\ Move("fault")
                           /\ Reaches(t, n) \/ UNCHANGED router
                           /\ Stops(t)
                           /\ UNCHANGED <<inputs, switches, phase, scope, prune,
                                          want, plan, done, warned, guard>>
    BY DEF ConnectionLost
<1>2. /\ queues' \in [Ids -> Row \cup {Absent}] /\ fresh' \in 1..(MaxRows + 1)
      /\ RowsKept /\ FreshIsFresh'
    <2>1. CASE Reaches(t, n)
        BY <2>1, ReachesKeepsRows
    <2>2. CASE UNCHANGED router
        BY <1>0, <2>2, PlannerAssumption DEF RowsKept, FreshIsFresh, IInv, TypeOK, router
    <2> QED
        BY <1>1, <2>1, <2>2
<1>3. TypeOK'
    BY <1>0, <1>1, <1>2, StopsType, MoveType DEF TypeOK, inputs, switches, guard, Answers
<1>4. todo' = [todo EXCEPT ![t] = {}]
    BY <1>1 DEF Stops
<1> QED
    BY <1>1, <1>2, <1>3, <1>4, CommandKeeps

\* The account a task gives at its end.
LEMMA FinishKeeps == ASSUME IInv, NEW t \in Tasks, Finish(t) PROVE IInv'
<1>0. TypeOK
    BY DEF IInv
<1>1. \E answer \in Answers : Ends(t, answer)
    BY DEF Finish, Answers
<1>2. DOMAIN written' = Ids /\ \A i \in Ids : DOMAIN written'[i] = Watched
    BY DEF Finish
<1>3. warned' \subseteq Subjects
    BY <1>0 DEF Finish, TypeOK, Conflicts
<1>4. UNCHANGED <<router, inputs, switches, frozen, moves>>
    BY DEF Finish
<1>5. TypeOK'
    BY <1>0, <1>1, <1>2, <1>3, <1>4, EndType DEF TypeOK
<1> QED
    BY <1>1, <1>4, <1>5, EndKeeps
-----------------------------------------------------------------------------
\* The invariant holds at the start.
LEMMA InitHolds == Init => IInv
<1> SUFFICES ASSUME Init PROVE IInv
    OBVIOUS
<1>1. TypeOK
    BY ServiceAssumption, NothingPlanned DEF Init, TypeOK, NoTrace
<1>2. PlansHold /\ BatchesArePlans /\ LoopsNeverPrune
    BY NothingPlanned DEF Init, PlansHold, BatchesArePlans, LoopsNeverPrune, Tasks
<1>3. FreshIsFresh
    BY DEF Init, FreshIsFresh
<1> QED
    BY <1>1, <1>2, <1>3 DEF IInv

\* No step breaks the invariant.
LEMMA NextKeeps == IInv /\ [Next]_vars => IInv'
<1> SUFFICES ASSUME IInv, [Next]_vars PROVE IInv'
    OBVIOUS
<1>1. CASE Environment
    BY <1>1, PolicyChangesKeeps, SessionChangesKeeps, FlagFlipsKeeps, SwitchFlipsKeeps,
       ThirdPartyAddsKeeps, RowVanishesKeeps, RowToggledKeeps, WindowElapsesKeeps, RestartKeeps
       DEF Environment
<1>2. ASSUME NEW t \in Tasks, Task(t) PROVE IInv'
    BY <1>2, LoopStartsKeeps, GestureStartsKeeps, ApplyStartsKeeps, BuildTargetsKeeps,
       InspectKeeps, ReadFailsKeeps, GestureDecidesKeeps, WholePlanDecidesKeeps,
       SendsKeeps, RefusedKeeps, ConnectionLostKeeps, FinishKeeps
       DEF Task, Proceeds
<1>3. CASE UNCHANGED vars
    <2>1. TypeOK'
        BY <1>3 DEF IInv, TypeOK, vars, router, inputs, switches, work, guard
    <2> QED
        BY <1>3, <2>1, QuietKeeps DEF vars, router, work
<1> QED
    BY <1>1, <1>2, <1>3 DEF Next

\* The invariant of every reachable state.
LEMMA Inductive == Spec => []IInv
BY InitHolds, NextKeeps, PTL DEF Spec

\* Every variable keeps its type, whatever the tasks and the interleaving: in
\* particular every row our commands leave on the router is a well-formed row.
THEOREM TypeCorrect == Spec => []TypeOK
<1>1. IInv => TypeOK
    BY DEF IInv
<1> QED
    BY <1>1, Inductive, PTL

\* A plan in flight never names a row that has become somebody else's: rows
\* named by a pending command are ours, gone, or a third party's to align.
THEOREM PlansInFlightHold == Spec => []PlansHold
<1>1. IInv => PlansHold
    BY DEF IInv
<1> QED
    BY <1>1, Inductive, PTL

-----------------------------------------------------------------------------
(***************************************************************************)
(* ShapingService implements RouterContract, a task's batch of accepted    *)
(* commands being what it has still to send.  Every step maps to a step of *)
(* the contract or leaves its variables alone; the invariant above says    *)
(* which row a pending command may name.                                   *)
(***************************************************************************)

\* The contract's words about rows are the planner's own.
LEMMA SameNotions ==
    /\ Contract!Ids = Ids /\ Contract!Row = Row /\ Contract!Subjects = Subjects
    /\ Contract!Present(queues) = Present(queues)
    /\ Contract!Named(queues) = Named(queues)
    /\ \A row : Contract!IsOurs(row) <=> IsOurs(row)
BY DEF Contract!Ids, Ids, Contract!Row, Row, Contract!Subjects, Subjects, Contract!Names, Names,
       Contract!Owners, Owners, Contract!Present, Present, Contract!Named, Named,
       Contract!IsOurs, IsOurs

\* The batch's size is counted with the same Cardinality on both sides.
LEMMA SameSizes == \A S : Contract!Cardinality(S) = Cardinality(S)
BY Zenon DEF Contract!Cardinality, Cardinality

Shared == <<queues, fresh, enforcement, writable, todo>>

CStep == [Contract!CNext]_Shared

\* The program starts as the contract does.
LEMMA InitMaps == Init => Contract!CInit
<1> SUFFICES ASSUME Init PROVE Contract!CInit
    OBVIOUS
<1>1. queues \in [Ids -> Row \cup {Absent}] /\ fresh \in 1..(MaxRows + 1)
      /\ \A i \in Ids : i >= fresh => queues[i] = Absent
    BY ServiceAssumption DEF Init
<1>2. enforcement \in BOOLEAN /\ writable \in BOOLEAN /\ todo = [t \in Tasks |-> {}]
    BY ServiceAssumption DEF Init
<1> QED
    BY <1>1, <1>2, SameNotions DEF Contract!CInit

\* One command that the router accepted is one of the contract's writes.
LEMMA ReachesIsWrite ==
    ASSUME IInv, NEW t \in Tasks, NEW n \in todo[t], Reaches(t, n)
    PROVE  Contract!Write(t) \/ UNCHANGED <<queues, fresh>>
<1>0. TypeOK /\ FreshIsFresh /\ PlansHold /\ BatchesArePlans /\ LoopsNeverPrune /\ MaxRows \in Nat
    BY PlannerAssumption DEF IInv
<1> DEFINE v == plan[t][n]
<1>1. n \in Subjects /\ v \in Verdict /\ v.verb \in Commands /\ StillAllowed(v)
    BY <1>0 DEF BatchesArePlans, Actions, TypeOK, PlansHold
<1>2. fresh \in Nat /\ fresh \in 1..(MaxRows + 1) /\ queues \in [Ids -> Row \cup {Absent}]
    BY <1>0 DEF TypeOK
<1> HIDE DEF v
<1>3. CASE v.verb = "add"
    <2> DEFINE row == NewRow(n, v.spec)
    <2>1. queues' = [queues EXCEPT ![fresh] = row] /\ fresh' = fresh + 1 /\ fresh <= MaxRows
          /\ n \notin Named(queues)
        BY <1>3 DEF Reaches, Effect, Accepts, v
    <2>2. row \in Row /\ row.owner = "ours" /\ ~row.disabled /\ row.name = n
        BY <1>1, <1>3, NewRowType DEF StillAllowed
    <2> HIDE DEF row
    <2>3. fresh \in Ids /\ queues'[fresh] = row /\ queues[fresh] = Absent
        BY <1>0, <1>2, <2>1 DEF Ids, FreshIsFresh
    <2>4. queues' # queues /\ queues' = [queues EXCEPT ![fresh] = queues'[fresh]]
        BY <2>1, <2>2, <2>3, PlannerAssumption
    <2>5. Contract!OwnAdd
        BY <2>1, <2>2, <2>3, <2>4, SameNotions DEF Contract!OwnAdd, Contract!Changes
    <2> QED
        BY <2>5 DEF Contract!Write
<1>4. CASE v.verb = "set"
    <2> DEFINE row == Rewritten(queues[v.id], v)
    <2>1. queues' = [queues EXCEPT ![v.id] = row] /\ fresh' = fresh /\ queues[v.id] # Absent
        BY <1>4 DEF Reaches, Effect, Accepts, v
    <2>2. v.id \in Ids /\ v.id \in Present(queues) /\ queues[v.id] \in Row /\ v.spec \in QueueSpec
        BY <1>0, <1>1, <1>4, <2>1 DEF StillAllowed, TypeOK, Present
    <2>3. /\ row \in Row /\ row.name = queues[v.id].name
          /\ v.fields = {"rate"} => row = [queues[v.id] EXCEPT !.rate = v.spec.rate]
        BY <1>1, <2>2, RewrittenType
    <2>4. IsOurs(queues[v.id]) => IsOurs(row)
        BY <1>1, <2>2, RewrittenType
    <2> HIDE DEF row
    <2>5. queues'[v.id] = row /\ queues' = [queues EXCEPT ![v.id] = queues'[v.id]]
        BY <1>2, <2>1, <2>2
    <2>6. CASE queues' = queues
        BY <2>1, <2>6
    <2>7. CASE queues' # queues /\ IsOurs(queues[v.id])
        <3>1. v.id \in Contract!Present(queues) /\ Contract!Changes(v.id)
            BY <2>2, <2>5, <2>7, SameNotions DEF Contract!Changes
        <3>2. /\ queues'[v.id] \in Contract!Row
              /\ Contract!IsOurs(queues[v.id]) /\ Contract!IsOurs(queues'[v.id])
              /\ queues'[v.id].name = queues[v.id].name
            BY <2>3, <2>4, <2>5, <2>7, SameNotions
        <3>3. Contract!OwnSet
            BY <2>1, <3>1, <3>2 DEF Contract!OwnSet
        <3> QED
            BY <3>3 DEF Contract!Write
    <2>8. CASE queues' # queues /\ ~IsOurs(queues[v.id])
        <3>1. /\ Adopt /\ queues[v.id].owner = "third"
              /\ v.fields = {"rate"} /\ v.spec.rate \in Rates
            BY <1>1, <1>4, <2>1, <2>8 DEF StillAllowed
        <3>2. v.id \in Contract!Present(queues) /\ Contract!Changes(v.id)
            BY <2>2, <2>5, <2>8, SameNotions DEF Contract!Changes
        <3>3. queues'[v.id] = [queues[v.id] EXCEPT !.rate = v.spec.rate]
            BY <2>3, <2>5, <3>1
        <3>4. Contract!AlignThird
            BY <2>1, <3>1, <3>2, <3>3 DEF Contract!AlignThird
        <3> QED
            BY <3>4 DEF Contract!Write
    <2> QED
        BY <2>6, <2>7, <2>8
<1>5. CASE v.verb = "remove"
    <2>1. queues' = [queues EXCEPT ![v.id] = Absent] /\ fresh' = fresh /\ queues[v.id] # Absent
        BY <1>5 DEF Reaches, Effect, Accepts, v
    <2>2. v.id \in Ids /\ v.id \in Present(queues) /\ IsOurs(queues[v.id])
        BY <1>1, <1>5, <2>1 DEF StillAllowed, Present
    <2>3. t \notin Loops
        BY <1>0, <1>1, <1>5 DEF LoopsNeverPrune, v
    <2>4. queues'[v.id] = Absent /\ queues' = [queues EXCEPT ![v.id] = queues'[v.id]]
          /\ queues' # queues
        BY <1>2, <2>1, <2>2
    <2>5. Contract!OwnRemove(t)
        BY <2>1, <2>2, <2>3, <2>4, SameNotions DEF Contract!OwnRemove, Contract!Changes
    <2> QED
        BY <2>5 DEF Contract!Write
<1> QED
    BY <1>1, <1>3, <1>4, <1>5 DEF Commands
-----------------------------------------------------------------------------
\* What happens outside the tasks is the contract's Outside, Switch or Crash.
LEMMA EnvironmentMaps == ASSUME IInv, Environment PROVE CStep
<1>0. TypeOK /\ FreshIsFresh /\ MaxRows \in Nat
    BY PlannerAssumption DEF IInv
<1>1. CASE PolicyChanges \/ SessionChanges \/ WindowElapses
    <2>1. UNCHANGED Shared
        BY <1>1 DEF PolicyChanges, SessionChanges, WindowElapses, router, switches, work, Shared
    <2> QED
        BY <2>1 DEF CStep
<1>2. CASE FlagFlips \/ SwitchFlips
    <2>1. Contract!Switch
        BY <1>0, <1>2 DEF FlagFlips, SwitchFlips, router, work, TypeOK, Contract!Switch
    <2> QED
        BY <2>1 DEF CStep, Contract!CNext
<1>3. CASE ThirdPartyAdds
    <2>1. PICK row \in ThirdRows : queues' = [queues EXCEPT ![fresh] = row]
        BY <1>3 DEF ThirdPartyAdds
    <2>2. row \in Row /\ ~IsOurs(row)
        BY ServiceAssumption DEF IsOurs
    <2>3. fresh \in Ids /\ fresh' = fresh + 1 /\ UNCHANGED <<enforcement, writable, todo>>
        BY <1>0, <1>3 DEF ThirdPartyAdds, TypeOK, Ids, switches, work
    <2>4. queues'[fresh] = row /\ queues[fresh] = Absent
        BY <1>0, <2>1, <2>3 DEF FreshIsFresh, TypeOK, Ids
    <2>5. Contract!Changes(fresh)
        BY <2>1, <2>2, <2>4, PlannerAssumption DEF Contract!Changes
    <2>6. Contract!Outside
        BY <2>2, <2>3, <2>4, <2>5, SameNotions DEF Contract!Outside
    <2> QED
        BY <2>6 DEF CStep, Contract!CNext
<1>4. CASE RowVanishes
    <2>1. PICK i \in Present(queues) : queues' = [queues EXCEPT ![i] = Absent]
        BY <1>4 DEF RowVanishes
    <2>2. queues'[i] = Absent /\ queues[i] # Absent
        BY <1>0, <2>1 DEF TypeOK, Present
    <2>3. Contract!Changes(i)
        BY <2>1, <2>2 DEF Contract!Changes
    <2>4. UNCHANGED <<fresh, enforcement, writable, todo>>
        BY <1>4 DEF RowVanishes, switches, work
    <2>5. Contract!Outside
        BY <2>2, <2>3, <2>4, SameNotions DEF Contract!Outside
    <2> QED
        BY <2>5 DEF CStep, Contract!CNext
<1>5. CASE RowToggled
    <2>1. PICK i \in Present(queues) : queues' = [queues EXCEPT ![i].disabled = ~@]
        BY <1>5 DEF RowToggled
    <2>2. queues'[i] = [queues[i] EXCEPT !.disabled = ~@] /\ queues[i] \in Row
        BY <1>0, <2>1 DEF TypeOK, Present
    <2>3. queues' = [queues EXCEPT ![i] = queues'[i]]
        BY <1>0, <2>1, <2>2 DEF TypeOK
    <2>4. queues' # queues
        <3>1. queues'[i].disabled = ~queues[i].disabled /\ queues[i].disabled \in BOOLEAN
            BY <2>2 DEF Row
        <3>2. queues'[i].disabled # queues[i].disabled
            BY <3>1
        <3> QED
            BY <3>2
    <2>5. UNCHANGED <<fresh, enforcement, writable, todo>>
        BY <1>5 DEF RowToggled, switches, work
    <2>6. Contract!Outside
        BY <2>2, <2>3, <2>4, <2>5, SameNotions DEF Contract!Outside, Contract!Changes
    <2> QED
        BY <2>6 DEF CStep, Contract!CNext
<1>6. CASE Restart
    <2>1. Contract!Crash
        BY <1>6 DEF Restart, router, switches, Contract!Crash
    <2> QED
        BY <2>1 DEF CStep, Contract!CNext
<1> QED
    BY <1>1, <1>2, <1>3, <1>4, <1>5, <1>6 DEF Environment

\* A task that ends with nothing left to send.
LEMMA EndMaps ==
    ASSUME IInv, NEW t \in Tasks, NEW answer, Ends(t, answer), todo[t] = {},
           UNCHANGED <<router, switches>>
    PROVE  CStep
<1>1. todo' = todo
    BY DEF Ends, IInv, TypeOK
<1> QED
    BY <1>1 DEF CStep, Shared, router, switches

\* A plan that passes the gate is a batch the contract accepts.
LEMMA GateMaps ==
    ASSUME IInv, NEW t \in Tasks, todo[t] = {}, Gate(t)
    PROVE  CStep
<1> DEFINE flips == {n \in Offered(t) : ~Frozen(plan[t][n]) /\ Oscillates(plan[t][n])}
           kept  == {n \in Offered(t) : ~Frozen(plan[t][n])} \ flips
           names == IF Cardinality(kept) <= MaxActions THEN kept ELSE {}
<1>1. todo' = [todo EXCEPT ![t] = names]
    BY DEF Gate
<1>2. names \subseteq Subjects
    BY OfferedType DEF Actions
<1>3. Cardinality(names) <= MaxActions
    BY FS_EmptySet, ServiceAssumption
<1>4. writable /\ (enforcement \/ t \in Humans)
    BY DEF Gate, Authorised
<1>5. UNCHANGED <<queues, fresh, enforcement, writable>>
    BY DEF Gate, router, switches
<1> HIDE DEF names
<1>6. Contract!Accept(t)
    BY <1>1, <1>2, <1>3, <1>4, <1>5, SameNotions, SameSizes DEF Contract!Accept
<1> QED
    BY <1>6 DEF CStep, Contract!CNext

\* A command sent, with its batch reduced or dropped, is the contract's Command.
LEMMA CommandMaps ==
    ASSUME IInv, NEW t \in Tasks, NEW n \in todo[t],
           Reaches(t, n) \/ UNCHANGED router, UNCHANGED switches,
           \/ todo' = [todo EXCEPT ![t] = @ \ {n}]
           \/ todo' = [todo EXCEPT ![t] = {}]
    PROVE  CStep
<1>1. Contract!Write(t) \/ UNCHANGED <<queues, fresh>>
    BY ReachesIsWrite DEF router
<1>2. UNCHANGED <<enforcement, writable>>
    BY DEF switches
<1>3. Contract!Command(t)
    BY <1>1, <1>2 DEF Contract!Command
<1> QED
    BY <1>3 DEF CStep, Contract!CNext

\* Each step of a task is a step of the contract or changes nothing it sees.
LEMMA TaskMaps == ASSUME IInv, NEW t \in Tasks, Task(t) PROVE CStep
<1>0. phase[t] # "exec" => todo[t] = {}
    BY DEF IInv, BatchesArePlans
<1>1. CASE LoopStarts(t) \/ GestureStarts(t) \/ ApplyStarts(t)
    <2>1. UNCHANGED Shared
        BY <1>1 DEF LoopStarts, GestureStarts, ApplyStarts, Begins, router, switches, Shared
    <2> QED
        BY <2>1 DEF CStep
<1>2. CASE BuildTargets(t) \/ Inspect(t)
    <2>1. UNCHANGED Shared
        BY <1>2 DEF BuildTargets, Inspect, router, switches, Shared
    <2> QED
        BY <2>1 DEF CStep
<1>3. CASE ReadFails(t)
    <2>1. todo[t] = {}
        BY <1>0, <1>3 DEF ReadFails
    <2> QED
        BY <1>3, <2>1, EndMaps DEF ReadFails
<1>4. CASE GestureDecides(t) \/ WholePlanDecides(t)
    <2>1. todo[t] = {}
        BY <1>0, <1>4 DEF GestureDecides, WholePlanDecides
    <2>2. CASE Gate(t)
        BY <2>1, <2>2, GateMaps
    <2>3. ASSUME NEW answer, Ends(t, answer), UNCHANGED <<router, switches>> PROVE CStep
        BY <2>1, <2>3, EndMaps
    <2> QED
        BY <1>4, <2>2, <2>3 DEF GestureDecides, WholePlanDecides
<1>5. CASE Sends(t) \/ Refused(t) \/ ConnectionLost(t)
    BY <1>5, CommandMaps DEF Sends, Refused, ConnectionLost, Stops
<1>6. CASE Finish(t)
    <2>1. todo[t] = {} /\ UNCHANGED <<router, switches>> /\ \E answer : Ends(t, answer)
        BY <1>6 DEF Finish
    <2> QED
        BY <2>1, EndMaps
<1> QED
    BY <1>1, <1>2, <1>3, <1>4, <1>5, <1>6 DEF Task, Proceeds

\* Each step of the service is a step of the contract or a stutter.
LEMMA NextMaps == IInv /\ [Next]_vars => CStep
<1> SUFFICES ASSUME IInv, [Next]_vars PROVE CStep
    OBVIOUS
<1>1. CASE Environment
    BY <1>1, EnvironmentMaps
<1>2. ASSUME NEW t \in Tasks, Task(t) PROVE CStep
    BY <1>2, TaskMaps
<1>3. CASE UNCHANGED vars
    BY <1>3 DEF CStep, Shared, vars, router, switches, work
<1> QED
    BY <1>1, <1>2, <1>3 DEF Next

\* The writing path keeps the router's contract, for every network and every
\* number of tasks: no command outside an accepted batch, never a row of another
\* instance, a third party's row only for its rate, no removal by a loop.
THEOREM ContractKept == Spec => KeepsContract
<1>1. IInv /\ [Next]_vars => [Contract!CNext]_Contract!cvars
    BY NextMaps DEF CStep, Shared, Contract!cvars
<1> QED
    BY InitMaps, <1>1, Inductive, PTL DEF Spec, KeepsContract, Contract!CSpec
-----------------------------------------------------------------------------
(***************************************************************************)
(* What a plan says of a client and of its parents, against what the       *)
(* router does, in every reachable state; what a gesture answers, and what *)
(* a loop leaves alone.                                                    *)
(***************************************************************************)

\* A queue that is wanted for a link has its segment, and no parent.
LEMMA WantedLink ==
    ASSUME NEW l \in Links, LinkWanted(policy, l)
    PROVE  /\ Desired(policy, reach)[l] = [target |-> Network[l], rate |-> policy[l],
                                           parent |-> NoParent]
<1>1. l \in Subjects
    BY DEF Subjects
<1> QED
    BY <1>1 DEF Desired

\* A queue that is wanted for a client is on its addresses, at its rate, and its
\* parent is a link with a queue of its own, or none.
LEMMA WantedClient ==
    ASSUME NEW s \in Subs, Desired(policy, reach)[s] # Skip
    PROVE  /\ Desired(policy, reach)[s].target = reach[s]
           /\ Desired(policy, reach)[s].rate = policy[s]
           /\ \/ Desired(policy, reach)[s].parent = NoParent
              \/ /\ Desired(policy, reach)[s].parent \in Links
                 /\ LinkWanted(policy, Desired(policy, reach)[s].parent)
<1> DEFINE up == Carriers(policy, reach[s])
<1>1. s \in Subjects /\ s \notin Links
    BY PlannerAssumption DEF Subjects
<1>2. Desired(policy, reach)[s] = [target |-> reach[s], rate |-> policy[s],
                                   parent |-> ParentOf(policy, s, reach[s])]
    BY <1>1 DEF Desired
<1>3. \A l \in up : l \in Links /\ LinkWanted(policy, l)
    BY DEF Carriers
<1>4. ParentOf(policy, s, reach[s]) \in up \cup {NoParent}
    <2>1. CASE Sector[s] \in up
        BY <2>1 DEF ParentOf
    <2>2. CASE Sector[s] \notin up /\ up = {}
        BY <2>2 DEF ParentOf
    <2>3. CASE Sector[s] \notin up /\ up # {}
        <3>1. \E l \in up : \A m \in up : Network[m] \subseteq Network[l]
                                            => Network[m] = Network[l]
            BY <1>3, <2>3, MostPrecise
        <3> QED
            BY <2>3, <3>1 DEF ParentOf
    <2> QED
        BY <2>1, <2>2, <2>3
<1> QED
    BY <1>2, <1>3, <1>4

\* The state of now, as the planner's lemmas want it.
LEMMA PlannerSees ==
    ASSUME TypeOK
    PROVE  /\ queues \in QList
           /\ Desired(policy, reach) \in [Subjects -> QueueSpec \cup {Skip}]
BY DesiredType DEF TypeOK, QList

-----------------------------------------------------------------------------
(* Parents.                                                                 *)

\* An action that names a parent is about a queue that is wanted, and the parent
\* is the one wanted for it.
LEMMA NamesItsParent ==
    ASSUME NEW list \in QList, NEW n \in Subjects, NEW spec \in QueueSpec \cup {Skip},
           \/ SubjectVerdict(list, n, spec, FALSE).verb = "add"
           \/ "parent" \in SubjectVerdict(list, n, spec, FALSE).fields
    PROVE  spec # Skip /\ SubjectVerdict(list, n, spec, FALSE).spec = spec
<1> DEFINE named == Called(list, n)
<1>1. CASE spec = Skip
    <2>1. SubjectVerdict(list, n, spec, FALSE) = Say("skip", n, 0, {}, Skip)
        BY <1>1 DEF SubjectVerdict, UnwantedVerdict
    <2>2. /\ Say("skip", n, 0, {}, Skip).verb = "skip"
          /\ Say("skip", n, 0, {}, Skip).fields = {}
        BY DEF Say
    <2> QED
        BY <2>1, <2>2
<1>2. CASE spec # Skip /\ named # {}
    <2> DEFINE i == CHOOSE j \in named : TRUE
    <2>1. SubjectVerdict(list, n, spec, FALSE) = NamedVerdict(list, n, i, spec)
        BY <1>2 DEF SubjectVerdict
    <2> HIDE DEF i
    <2>2. NamedVerdict(list, n, i, spec).spec = spec
        BY DEF NamedVerdict, Say
    <2> QED
        BY <1>2, <2>1, <2>2
<1>3. CASE spec # Skip /\ named = {} /\ Foreigners(list, spec.target) = {}
    <2>1. SubjectVerdict(list, n, spec, FALSE) = Say("add", n, 0, {}, spec)
        BY <1>3 DEF SubjectVerdict
    <2>2. Say("add", n, 0, {}, spec).spec = spec
        BY DEF Say
    <2> QED
        BY <1>3, <2>1, <2>2
<1>4. CASE spec # Skip /\ named = {} /\ Foreigners(list, spec.target) # {}
    <2>1. SubjectVerdict(list, n, spec, FALSE) = ThirdVerdict(list, n, spec)
        BY <1>4 DEF SubjectVerdict
    <2>2. ThirdVerdict(list, n, spec).spec = spec
        BY DEF ThirdVerdict, Say
    <2> QED
        BY <1>4, <2>1, <2>2
<1> QED
    BY <1>1, <1>2, <1>3, <1>4

\* A link that has no queue yet gets one, unless another's queue has its segment.
LEMMA MissingLinkIsAdded ==
    ASSUME NEW l \in Links, LinkWanted(policy, l), TypeOK,
           l \notin Named(queues), Foreigners(queues, Network[l]) = {}
    PROVE  BuildPlan(queues, Desired(policy, reach), FALSE)[l].verb = "add"
<1> DEFINE spec == Desired(policy, reach)[l]
<1>1. l \in Subjects
    BY DEF Subjects
<1>2. spec.target = Network[l] /\ spec \in QueueSpec
    <2>1. spec = [target |-> Network[l], rate |-> policy[l], parent |-> NoParent]
        BY WantedLink
    <2>2. spec.rate \in Rates \cup {0} /\ Network[l] \in SUBSET Addrs
        BY <1>1, <2>1, PlannerAssumption DEF TypeOK, LinkWanted, Policies
    <2> QED
        BY <2>1, <2>2 DEF QueueSpec
<1>3. spec # Skip
    BY <1>2, PlannerAssumption
<1>4. Called(queues, l) = {}
    BY DEF Called, Named
<1> HIDE DEF spec
<1>5. SubjectVerdict(queues, l, spec, FALSE) = Say("add", l, 0, {}, spec)
    BY <1>2, <1>3, <1>4 DEF SubjectVerdict
<1>6. BuildPlan(queues, Desired(policy, reach), FALSE)[l] = SubjectVerdict(queues, l, spec, FALSE)
    BY <1>1 DEF BuildPlan, spec
<1>7. Say("add", l, 0, {}, spec).verb = "add"
    BY DEF Say
<1> QED
    BY <1>5, <1>6, <1>7

\* What a plan needs of its parents follows from the types alone.
LEMMA ParentsComeFirst == TypeOK => ParentsFirst
<1> DEFINE wanted == Desired(policy, reach)
           p == BuildPlan(queues, wanted, FALSE)
<1> SUFFICES ASSUME TypeOK, NEW n \in Actions(p), p[n].verb = "add" \/ "parent" \in p[n].fields,
                    p[n].spec.parent \notin Named(queues) \cup {NoParent},
                    Foreigners(queues, Network[p[n].spec.parent]) = {}
             PROVE  /\ p[p[n].spec.parent].verb = "add"
                    /\ Rank[p[n].spec.parent] < Rank[n]
    BY DEF ParentsFirst
<1>1. n \in Subjects /\ wanted[n] \in QueueSpec \cup {Skip} /\ queues \in QList
    BY PlannerSees DEF Actions
<1>2. p[n] = SubjectVerdict(queues, n, wanted[n], FALSE)
    BY <1>1 DEF BuildPlan
<1>3. wanted[n] # Skip /\ p[n].spec = wanted[n]
    <2> DEFINE spec == wanted[n]
    <2>1. \/ SubjectVerdict(queues, n, spec, FALSE).verb = "add"
          \/ "parent" \in SubjectVerdict(queues, n, spec, FALSE).fields
        BY <1>2
    <2>2. spec \in QueueSpec \cup {Skip}
        BY <1>1
    <2> HIDE DEF spec
    <2>3. spec # Skip /\ SubjectVerdict(queues, n, spec, FALSE).spec = spec
        BY <1>1, <2>1, <2>2, NamesItsParent
    <2> QED
        BY <1>2, <2>3 DEF spec
<1> HIDE DEF wanted, p
<1>4. n \in Subs
    <2>1. ASSUME n \in Links PROVE FALSE
        <3>1. LinkWanted(policy, n)
            BY <1>1, <1>3, <2>1 DEF Desired, wanted
        <3>2. wanted[n] = [target |-> Network[n], rate |-> policy[n], parent |-> NoParent]
            BY <2>1, <3>1, WantedLink DEF wanted
        <3> QED
            BY <1>3, <3>2
    <2> QED
        BY <1>1, <2>1 DEF Subjects
<1>5. wanted[n].parent \in Links /\ LinkWanted(policy, wanted[n].parent)
    BY <1>3, <1>4, WantedClient DEF wanted
<1>6. p[wanted[n].parent].verb = "add"
    BY <1>3, <1>5, MissingLinkIsAdded DEF p, wanted
<1> QED
    BY <1>3, <1>4, <1>5, <1>6, ServiceAssumption

\* A plan carried out as computed is never refused for a missing parent.
THEOREM ParentsReady == Spec => []ParentsFirst
BY TypeCorrect, ParentsComeFirst, PTL

-----------------------------------------------------------------------------
(* A client's state in a plan, without adoption.                            *)

\* Without adoption an action bears the name of its subject, and a queue that
\* limits is "unchanged" only as a row of the subject's name.
LEMMA NamesItself ==
    ASSUME ~Adopt, NEW list \in QList, NEW n \in Subjects, NEW spec \in QueueSpec \cup {Skip},
           NEW removing \in BOOLEAN
    PROVE  /\ SubjectVerdict(list, n, spec, removing).name = n
           /\ SubjectVerdict(list, n, spec, removing).verb = "unchanged"
              => /\ spec # Skip
                 /\ \/ spec.rate = 0
                    \/ \E i \in Called(list, n) : /\ ~Masked(list, i) /\ IsOurs(list[i])
                                                  /\ Differing(list[i], spec) = {}
<1> DEFINE named == Called(list, n)
           verdict == SubjectVerdict(list, n, spec, removing)
<1>1. CASE spec = Skip
    <2>1. verdict = UnwantedVerdict(list, n, removing)
        BY <1>1 DEF SubjectVerdict
    <2>2. /\ UnwantedVerdict(list, n, removing).name = n
          /\ UnwantedVerdict(list, n, removing).verb # "unchanged"
        BY DEF UnwantedVerdict, Say
    <2> QED
        BY <2>1, <2>2
<1>2. CASE spec # Skip /\ named # {}
    <2> DEFINE i == CHOOSE j \in named : TRUE
    <2>1. verdict = NamedVerdict(list, n, i, spec) /\ i \in named
        BY <1>2 DEF SubjectVerdict
    <2> HIDE DEF i
    <2>2. NamedVerdict(list, n, i, spec).name = n
        BY DEF NamedVerdict, Say
    <2>3. NamedVerdict(list, n, i, spec).verb = "unchanged"
          => ~Masked(list, i) /\ IsOurs(list[i]) /\ Differing(list[i], spec) = {}
        BY DEF NamedVerdict, Say
    <2> HIDE DEF verdict
    <2> QED
        BY <1>2, <2>1, <2>2, <2>3 DEF verdict
<1>3. CASE spec # Skip /\ named = {} /\ Foreigners(list, spec.target) = {}
    <2>1. verdict = Say("add", n, 0, {}, spec)
        BY <1>3 DEF SubjectVerdict
    <2>2. Say("add", n, 0, {}, spec).name = n /\ Say("add", n, 0, {}, spec).verb = "add"
        BY DEF Say
    <2> QED
        BY <2>1, <2>2
<1>4. CASE spec # Skip /\ named = {} /\ Foreigners(list, spec.target) # {}
    <2>1. verdict = ThirdVerdict(list, n, spec)
        BY <1>4 DEF SubjectVerdict
    <2>2. /\ ThirdVerdict(list, n, spec).name = n
          /\ ThirdVerdict(list, n, spec).verb = "unchanged" => spec.rate = 0
        BY DEF ThirdVerdict, Say
    <2> QED
        BY <1>4, <2>1, <2>2
<1> QED
    BY <1>1, <1>2, <1>3, <1>4

\* The page reads a client's state by the name of its queue: without adoption
\* that is the state the planner gives.
LEMMA PageReadsRight == ASSUME ~Adopt, TypeOK PROVE PageIsExact
<1> DEFINE wanted == Desired(policy, reach)
           p == BuildPlan(queues, wanted, FALSE)
<1> SUFFICES ASSUME NEW s \in Subs, PageSaysHeld(s) PROVE VerdictNow(s).verb = "unchanged"
    BY DEF PageIsExact
<1>1. s \in Subjects /\ wanted[s] \in QueueSpec \cup {Skip} /\ queues \in QList
    BY PlannerSees DEF Subjects
<1>2. p[s] = SubjectVerdict(queues, s, wanted[s], FALSE) /\ VerdictNow(s) = p[s]
    BY <1>1 DEF BuildPlan, VerdictNow
<1>3. SubjectVerdict(queues, s, wanted[s], FALSE) \in Verdict
    BY <1>1, SubjectVerdictSound
<1>4. SubjectVerdict(queues, s, wanted[s], FALSE).name = s
    <2> HIDE DEF wanted
    <2> QED
        BY <1>1, NamesItself
<1>5. p[s].verb \notin {"conflict", "skip"} /\ \A m \in Actions(p) : p[m].name # s
    BY DEF PageSaysHeld
<1> HIDE DEF p, wanted
<1>6. p[s].verb \in Verbs /\ p[s].verb \notin Commands
    BY <1>1, <1>2, <1>3, <1>4, <1>5 DEF Verdict, Actions
<1> QED
    BY <1>2, <1>5, <1>6 DEF Verbs, Commands

\* Nobody hangs a queue of their own under a client's.
ClientsAreLeaves ==
    /\ \A row \in ThirdRows : row.parent \notin Subs
    /\ \A list \in FirstLists, i \in Ids : list[i] # Absent => list[i].parent \notin Subs

NoClientCarries == \A i \in Ids : queues[i] # Absent => queues[i].parent \notin Subs

\* A row of the client, on its addresses, at its rate, enabled and not masked
\* holds the client: what is earlier on these addresses is its parent.
LEMMA AlignedRowHolds ==
    ASSUME TypeOK, NoClientCarries, NEW s \in Subs, NEW i \in Called(queues, s),
           ~Masked(queues, i), ~queues[i].disabled, NEW a \in queues[i].target
    PROVE  Held(queues, a, queues[i].rate)
<1>1. /\ i \in Present(queues) /\ i \in Ids /\ i \in Nat
      /\ queues[i].name = s /\ queues[i] # Absent
    BY DEF Called, Present, Ids
<1>2. i \in Holders(queues, a)
    <2>1. \A j \in Present(queues) : queues[j].parent # s
        BY DEF NoClientCarries, Present
    <2> QED
        BY <1>1, <2>1 DEF Holders
<1>3. ASSUME NEW j \in Holders(queues, a), j < i PROVE FALSE
    <2>1. j \in Present(queues) /\ ~queues[j].disabled /\ a \in queues[j].target
        BY <1>3 DEF Holders
    <2>2. queues[j].name = queues[i].parent
        BY <1>3, <2>1 DEF Masked, Maskers
    <2> QED
        BY <1>1, <1>3, <2>2 DEF Holders
<1>4. \A j \in Holders(queues, a) : i <= j
    <2>1. \A j \in Holders(queues, a) : j \in Nat
        BY DEF Holders, Present, Ids
    <2> QED
        BY <1>1, <1>3, <2>1
<1> QED
    BY <1>2, <1>4 DEF Held

\* A client said "unchanged" is held, without adoption.
LEMMA UnchangedIsHeld == ASSUME ~Adopt, TypeOK, NoClientCarries PROVE GreenPlanIsHeld
<1> DEFINE wanted == Desired(policy, reach)
           spec(s) == wanted[s]
<1> SUFFICES ASSUME NEW s \in Subs, VerdictNow(s).verb = "unchanged", policy[s] # 0,
                    NEW a \in reach[s]
             PROVE  Held(queues, a, policy[s])
    BY DEF GreenPlanIsHeld
<1>1. s \in Subjects /\ wanted[s] \in QueueSpec \cup {Skip} /\ queues \in QList
    BY PlannerSees DEF Subjects
<1>2. SubjectVerdict(queues, s, wanted[s], FALSE).verb = "unchanged"
    BY DEF VerdictNow
<1> HIDE DEF wanted
<1>3. /\ wanted[s] # Skip
      /\ \/ wanted[s].rate = 0
         \/ \E i \in Called(queues, s) : /\ ~Masked(queues, i) /\ IsOurs(queues[i])
                                         /\ Differing(queues[i], wanted[s]) = {}
    BY <1>1, <1>2, NamesItself
<1>4. wanted[s].target = reach[s] /\ wanted[s].rate = policy[s]
    BY <1>3, WantedClient DEF wanted
<1>5. PICK i \in Called(queues, s) : /\ ~Masked(queues, i)
                                     /\ Differing(queues[i], wanted[s]) = {}
    BY <1>3, <1>4
<1>6. /\ queues[i].target = reach[s] /\ queues[i].rate = policy[s]
      /\ ~queues[i].disabled
    BY <1>4, <1>5 DEF Differing
<1> QED
    BY <1>5, <1>6, AlignedRowHolds

\* Our commands hang a queue under a link or under nothing.
LEMMA ReachesKeepsLeaves ==
    ASSUME IInv, NoClientCarries, NEW t \in Tasks, NEW n \in todo[t], Reaches(t, n)
    PROVE  NoClientCarries'
<1>0. TypeOK /\ PlansHold /\ BatchesArePlans
    BY DEF IInv
<1> DEFINE v == plan[t][n]
<1>1. n \in Subjects /\ v.verb \in Commands /\ StillAllowed(v)
    BY <1>0 DEF BatchesArePlans, Actions, PlansHold
<1>2. ASSUME v.verb \in {"add", "set"} PROVE v.spec.parent \notin Subs
    BY <1>1, <1>2, PlannerAssumption DEF StillAllowed, QueueSpec, Names, Subjects
<1>3. queues \in [Ids -> Row \cup {Absent}]
    BY <1>0 DEF TypeOK
<1> HIDE DEF v
<1>4. CASE v.verb = "add"
    <2>1. queues' = [queues EXCEPT ![fresh] = NewRow(n, v.spec)]
        BY <1>4 DEF Reaches, Effect, v
    <2>2. NewRow(n, v.spec).parent = v.spec.parent
        BY DEF NewRow
    <2> QED
        BY <1>2, <1>3, <1>4, <2>1, <2>2 DEF NoClientCarries
<1>5. CASE v.verb = "set"
    <2> DEFINE row == Rewritten(queues[v.id], v)
    <2>1. queues' = [queues EXCEPT ![v.id] = row] /\ queues[v.id] # Absent
        BY <1>5 DEF Reaches, Effect, Accepts, v
    <2>2. v.id \in Ids
        BY <1>1, <1>5 DEF StillAllowed
    <2>3. row.parent = v.spec.parent \/ row.parent = queues[v.id].parent
        BY DEF Rewritten
    <2>4. row.parent \notin Subs
        BY <1>2, <1>5, <2>1, <2>2, <2>3 DEF NoClientCarries
    <2> HIDE DEF row
    <2> QED
        BY <1>3, <2>1, <2>4 DEF NoClientCarries
<1>6. CASE v.verb = "remove"
    <2>1. queues' = [queues EXCEPT ![v.id] = Absent]
        BY <1>6 DEF Reaches, Effect, v
    <2> QED
        BY <1>3, <2>1 DEF NoClientCarries
<1> QED
    BY <1>1, <1>4, <1>5, <1>6 DEF Commands

\* Who moves the list: others on the router, and the commands.
LEMMA ListMovesBy ==
    ASSUME [Next]_vars
    PROVE  \/ ThirdPartyAdds \/ RowVanishes \/ RowToggled
           \/ \E t \in Tasks : Sends(t) \/ ConnectionLost(t)
           \/ UNCHANGED router
<1>1. ASSUME Environment
      PROVE  ThirdPartyAdds \/ RowVanishes \/ RowToggled \/ UNCHANGED router
    BY <1>1 DEF Environment, PolicyChanges, SessionChanges, FlagFlips, SwitchFlips,
                WindowElapses, Restart
<1>2. ASSUME NEW t \in Tasks, Task(t)
      PROVE  Sends(t) \/ ConnectionLost(t) \/ UNCHANGED router
    BY <1>2 DEF Task, Proceeds, LoopStarts, GestureStarts, ApplyStarts, Begins, BuildTargets,
                Inspect, ReadFails, GestureDecides, WholePlanDecides, Gate, Refused, Finish
<1>3. CASE UNCHANGED vars
    BY <1>3 DEF vars
<1> QED
    BY <1>1, <1>2, <1>3 DEF Next

\* No step hangs a queue under a client's.
LEMMA LeavesStay ==
    ASSUME ClientsAreLeaves, IInv, NoClientCarries, [Next]_vars
    PROVE  NoClientCarries'
<1>0. queues \in [Ids -> Row \cup {Absent}]
    BY DEF IInv, TypeOK
<1>1. CASE ThirdPartyAdds
    <2>1. PICK row \in ThirdRows : queues' = [queues EXCEPT ![fresh] = row]
        BY <1>1 DEF ThirdPartyAdds
    <2> QED
        BY <1>0, <2>1 DEF ClientsAreLeaves, NoClientCarries
<1>2. CASE RowVanishes
    BY <1>0, <1>2 DEF RowVanishes, NoClientCarries
<1>3. CASE RowToggled
    <2>1. PICK i \in Present(queues) : queues' = [queues EXCEPT ![i].disabled = ~@]
        BY <1>3 DEF RowToggled
    <2>2. i \in Ids /\ queues[i] \in Row /\ queues[i] # Absent
        BY <1>0 DEF Present
    <2>3. queues'[i].parent = queues[i].parent
        BY <1>0, <2>1, <2>2 DEF Row
    <2>4. \A j \in Ids \ {i} : queues'[j] = queues[j]
        BY <1>0, <2>1
    <2> QED
        BY <2>2, <2>3, <2>4 DEF NoClientCarries
<1>4. ASSUME NEW t \in Tasks, Sends(t) \/ ConnectionLost(t) PROVE NoClientCarries'
    <2>1. PICK n \in todo[t] : Reaches(t, n) \/ UNCHANGED router
        BY <1>4 DEF Sends, ConnectionLost
    <2>2. CASE UNCHANGED router
        BY <2>2 DEF router, NoClientCarries
    <2> QED
        BY <2>1, <2>2, ReachesKeepsLeaves
<1>5. CASE UNCHANGED router
    BY <1>5 DEF router, NoClientCarries
<1> QED
    BY <1>1, <1>2, <1>3, <1>4, <1>5, ListMovesBy
-----------------------------------------------------------------------------
\* Without adoption the inventory page says "held" of a client only when nothing
\* is left to write for it.
THEOREM PageExact == ASSUME ~Adopt PROVE Spec => []PageIsExact
BY TypeCorrect, PageReadsRight, PTL

\* Without adoption, and when nobody hangs a queue under a client's, a client the
\* plan leaves "unchanged" really is held at its rate on each of its addresses:
\* whatever third parties, other instances, tasks in flight and restarts did.
THEOREM GreenIsHeld == ASSUME ~Adopt, ClientsAreLeaves PROVE Spec => []GreenPlanIsHeld
<1>1. Init => NoClientCarries
    BY DEF Init, ClientsAreLeaves, NoClientCarries
<1>2. IInv /\ NoClientCarries /\ [Next]_vars => NoClientCarries'
    BY LeavesStay
<1>3. IInv /\ NoClientCarries => GreenPlanIsHeld
    BY UnchangedIsHeld DEF IInv
<1> QED
    BY <1>1, <1>2, <1>3, Inductive, PTL DEF Spec

-----------------------------------------------------------------------------
(***************************************************************************)
(* What a gesture answers, and what becomes of a frozen line.              *)
(***************************************************************************)

\* Under ~Adopt an action bears its subject's name in every plan in flight.
PlansName == \A t \in Tasks, n \in Subjects : plan[t][n].name = n

\* A gesture whose batch has passed the gate: its own action was dropped for
\* oscillation only, and what was sent was acknowledged or is an error.
Accounted(t) ==
    scope[t] # All /\ phase[t] = "exec" =>
        \/ told[t] = "error"
        \/ plan[t][scope[t]].verb = "unchanged"
        \/ scope[t] \in todo[t] \cup done[t]
        \/ plan[t][scope[t]].id \in frozen

AnswerInv == PlansName /\ \A t \in Tasks : Accounted(t)

Own(t) == <<scope[t], phase[t], told[t], plan[t], todo[t], done[t]>>

\* A step of one task leaves the others as they are, and thaws no line.
LEMMA OthersAlone ==
    ASSUME TypeOK, NEW t \in Tasks, Task(t)
    PROVE  frozen \subseteq frozen' /\ \A u \in Tasks \ {t} : Own(u)' = Own(u)
<1>1. ASSUME NEW answer, Ends(t, answer) PROVE \A u \in Tasks \ {t} : Own(u)' = Own(u)
    BY <1>1 DEF TypeOK, Ends, Goes, Own
<1>2. ASSUME NEW on, NEW removing, Begins(t, on, removing)
      PROVE  frozen' = frozen /\ \A u \in Tasks \ {t} : Own(u)' = Own(u)
    BY <1>2 DEF TypeOK, Begins, Goes, Own, guard
<1>3. ASSUME Gate(t) PROVE frozen \subseteq frozen' /\ \A u \in Tasks \ {t} : Own(u)' = Own(u)
    <2>1. PICK batch : todo' = [todo EXCEPT ![t] = batch]
        BY <1>3 DEF Gate
    <2>2. frozen \subseteq frozen'
        BY <1>3 DEF Gate
    <2>3. /\ phase' = [phase EXCEPT ![t] = "exec"]
          /\ UNCHANGED <<scope, told, plan, done>>
        BY <1>3 DEF Gate, Goes
    <2> QED
        BY <2>1, <2>2, <2>3 DEF TypeOK, Own
<1>4. CASE LoopStarts(t) \/ GestureStarts(t) \/ ApplyStarts(t)
    BY <1>2, <1>4 DEF LoopStarts, GestureStarts, ApplyStarts
<1>5. CASE BuildTargets(t)
    BY <1>5 DEF TypeOK, BuildTargets, Goes, Own, guard
<1>6. CASE Inspect(t)
    <2>1. PICK new : plan' = [plan EXCEPT ![t] = new]
        BY <1>6 DEF Inspect
    <2>2. /\ phase' = [phase EXCEPT ![t] = "decide"]
          /\ UNCHANGED <<scope, told, todo, done, frozen>>
        BY <1>6 DEF Inspect, Goes, guard
    <2> QED
        BY <2>1, <2>2 DEF TypeOK, Own
<1>7. CASE ReadFails(t)
    BY <1>1, <1>7 DEF ReadFails, guard
<1>8. CASE GestureDecides(t) \/ WholePlanDecides(t)
    BY <1>1, <1>3, <1>8 DEF GestureDecides, WholePlanDecides, guard
<1>9. CASE Sends(t)
    <2>1. PICK n \in todo[t] : /\ todo' = [todo EXCEPT ![t] = @ \ {n}]
                               /\ done' = [done EXCEPT ![t] = @ \cup {n}]
                               /\ UNCHANGED <<phase, scope, plan, told, frozen>>
        BY <1>9 DEF Sends, guard
    <2> QED
        BY <2>1 DEF TypeOK, Own
<1>10. CASE Refused(t) \/ ConnectionLost(t)
    <2>1. Stops(t) /\ UNCHANGED <<phase, scope, plan, done, frozen>>
        BY <1>10 DEF Refused, ConnectionLost, guard
    <2> QED
        BY <2>1 DEF TypeOK, Stops, Own
<1>11. CASE Finish(t)
    BY <1>1, <1>11 DEF Finish
<1> QED
    BY <1>4, <1>5, <1>6, <1>7, <1>8, <1>9, <1>10, <1>11 DEF Task, Proceeds

\* The environment leaves the tasks as they are, a restart apart.
LEMMA EnvironmentAlone ==
    ASSUME Environment
    PROVE  Restart \/ UNCHANGED <<scope, phase, told, plan, todo, done, frozen>>
BY DEF Environment, PolicyChanges, SessionChanges, FlagFlips, SwitchFlips, ThirdPartyAdds,
       RowVanishes, RowToggled, WindowElapses, work, guard
-----------------------------------------------------------------------------
(* Answers.                                                                 *)

\* The plans keep naming their subjects.
LEMMA NamesStay ==
    ASSUME ~Adopt, TypeOK, PlansName, [Next]_vars
    PROVE  PlansName'
<1>1. \A n \in Subjects : NoPlan[n].name = n
    BY DEF NoPlan, Say
<1>2. CASE Restart
    BY <1>1, <1>2 DEF Restart, PlansName
<1>3. CASE UNCHANGED plan
    BY <1>3 DEF PlansName
<1>4. ASSUME NEW t \in Tasks, Inspect(t) PROVE PlansName'
    <2> DEFINE wanted == want[t]
               new == BuildPlan(queues, wanted, prune[t])
    <2>1. queues \in QList /\ wanted \in [Subjects -> QueueSpec \cup {Skip}] /\ prune[t] \in BOOLEAN
        BY DEF TypeOK, QList
    <2> HIDE DEF wanted
    <2>2. ASSUME NEW n \in Subjects PROVE new[n].name = n
        <3>1. new[n] = SubjectVerdict(queues, n, wanted[n], prune[t])
            BY DEF BuildPlan
        <3> QED
            BY <2>1, <3>1, NamesItself
    <2> HIDE DEF new
    <2>3. plan' = [plan EXCEPT ![t] = new]
        BY <1>4 DEF Inspect, new, wanted
    <2> QED
        BY <2>2, <2>3 DEF PlansName, TypeOK
<1>5. ASSUME NEW t \in Tasks, plan' = [plan EXCEPT ![t] = NoPlan] PROVE PlansName'
    BY <1>1, <1>5 DEF PlansName, TypeOK
<1>6. ASSUME NEW t \in Tasks, Task(t)
      PROVE  Inspect(t) \/ UNCHANGED plan \/ plan' = [plan EXCEPT ![t] = NoPlan]
    BY <1>6 DEF Task, Proceeds, LoopStarts, GestureStarts, ApplyStarts, Begins, BuildTargets,
                ReadFails, GestureDecides, WholePlanDecides, Gate, Sends, Refused,
                ConnectionLost, Finish, Ends
<1>7. CASE UNCHANGED vars
    BY <1>3, <1>7 DEF vars, work
<1> QED
    BY <1>2, <1>3, <1>4, <1>5, <1>6, <1>7, EnvironmentAlone DEF Next

\* The chain of a queue has two names at most.
LEMMA ChainIsShort ==
    ASSUME NEW p, NEW x, NEW S, S \subseteq ParentChain(p, x)
    PROVE  Cardinality(S) \in Nat /\ Cardinality(S) <= 2
<1> DEFINE up == p[x].spec.parent
           pair == {x} \cup {up}
<1>1. IsFiniteSet(pair) /\ Cardinality(pair) \in Nat /\ Cardinality(pair) <= 2
    <2>1. IsFiniteSet({x}) /\ Cardinality({x}) = 1 /\ IsFiniteSet({up}) /\ Cardinality({up}) = 1
        BY FS_Singleton
    <2>2. /\ IsFiniteSet({x} \cup {up})
          /\ Cardinality({x} \cup {up})
               = Cardinality({x}) + Cardinality({up}) - Cardinality({x} \cap {up})
        BY <2>1, FS_Union
    <2>3. Cardinality({x} \cap {up}) \in Nat
        BY <2>1, FS_Intersection, FS_CardinalityType
    <2>4. Cardinality(pair) \in Nat
        BY <2>2, FS_CardinalityType
    <2>5. Cardinality(pair) = 1 + 1 - Cardinality({x} \cap {up})
        BY <2>1, <2>2
    <2> PICK m \in Nat : m = Cardinality({x} \cap {up})
        BY <2>3
    <2> HIDE DEF up, pair
    <2>6. Cardinality(pair) = 1 + 1 - m
        BY <2>5
    <2>7. Cardinality(pair) <= 2
        BY <2>6
    <2> QED
        BY <2>1, <2>2, <2>4, <2>7 DEF pair
<1>2. S \subseteq pair
    BY DEF ParentChain
<1> HIDE DEF pair
<1>3. IsFiniteSet(S) /\ Cardinality(S) <= Cardinality(pair)
    BY <1>1, <1>2, FS_Subset
<1> QED
    BY <1>1, <1>3, FS_CardinalityType

\* The gate drops the action of a gesture for oscillation only: its batch is
\* never too long.
LEMMA GateAccounts ==
    ASSUME MaxActions >= 2, TypeOK, PlansName, NEW t \in Tasks, GestureDecides(t), Gate(t)
    PROVE  Accounted(t)'
<1> DEFINE p == plan[t]
           x == scope[t]
           offered == Offered(t)
           flips == {n \in offered : ~Frozen(p[n]) /\ Oscillates(p[n])}
           kept == {n \in offered : ~Frozen(p[n])} \ flips
<1>1. x \in Subjects /\ x # All /\ p \in [Subjects -> Verdict]
    BY DEF GestureDecides, TypeOK
<1>2. /\ phase' = [phase EXCEPT ![t] = "exec"] /\ UNCHANGED <<scope, plan>>
      /\ frozen' = frozen \cup {p[n].id : n \in flips}
      /\ todo' = [todo EXCEPT ![t] = IF Cardinality(kept) <= MaxActions THEN kept ELSE {}]
    BY DEF Gate, Goes
<1>3. Dismissal(t) = "apply"
    BY <1>2 DEF GestureDecides, Ends, Goes, TypeOK
<1>4. p[x].verb \notin {"conflict", "skip"} /\ p[x].verb \in Verbs
    BY <1>1, <1>3 DEF Dismissal, Verdict
<1>5. kept \subseteq ParentChain(p, x)
    <2>1. ASSUME NEW n \in offered PROVE p[n].name \in ParentChain(p, x) /\ p[n].name = n
        BY <1>1, <2>1 DEF Offered, PlansName, Actions
    <2> QED
        BY <2>1
<1>6. Cardinality(kept) <= MaxActions
    <2> HIDE DEF kept
    <2>1. Cardinality(kept) \in Nat /\ Cardinality(kept) <= 2
        BY <1>5, ChainIsShort
    <2> QED
        BY <2>1, ServiceAssumption
<1>7. todo'[t] = kept
    BY <1>2, <1>6 DEF TypeOK
<1>8. CASE p[x].verb = "unchanged"
    BY <1>2, <1>8 DEF Accounted
<1>9. CASE p[x].verb # "unchanged"
    <2>1. x \in Actions(p)
        BY <1>1, <1>4, <1>9 DEF Actions, Commands, Verbs
    <2>2. x \in offered
        BY <1>1, <2>1 DEF Offered, PlansName, ParentChain
    <2>3. CASE x \in kept
        BY <1>2, <1>7, <2>3 DEF Accounted
    <2>4. CASE x \in flips
        BY <1>2, <2>4 DEF Accounted
    <2>5. CASE Frozen(p[x])
        BY <1>2, <2>5 DEF Accounted, Frozen
    <2> QED
        BY <2>2, <2>3, <2>4, <2>5
<1> QED
    BY <1>8, <1>9

\* The task that steps stays accounted for.
LEMMA OwnStepAccounts ==
    ASSUME MaxActions >= 2, TypeOK, PlansName, NEW t \in Tasks, Task(t), Accounted(t)
    PROVE  Accounted(t)'
<1>1. ASSUME NEW answer, Ends(t, answer) PROVE Accounted(t)'
    BY <1>1 DEF TypeOK, Ends, Goes, Accounted
<1>2. ASSUME NEW on, NEW removing, Begins(t, on, removing) PROVE Accounted(t)'
    BY <1>2 DEF TypeOK, Begins, Goes, Accounted
<1>3. CASE LoopStarts(t) \/ GestureStarts(t) \/ ApplyStarts(t)
    BY <1>2, <1>3 DEF LoopStarts, GestureStarts, ApplyStarts
<1>4. CASE BuildTargets(t)
    BY <1>4 DEF TypeOK, BuildTargets, Goes, Accounted
<1>5. CASE Inspect(t)
    BY <1>5 DEF TypeOK, Inspect, Goes, Accounted
<1>6. CASE ReadFails(t)
    BY <1>1, <1>6 DEF ReadFails
<1>7. CASE GestureDecides(t)
    BY <1>1, <1>7, GateAccounts DEF GestureDecides
<1>8. CASE WholePlanDecides(t)
    <2>1. CASE Gate(t)
        BY <1>8, <2>1 DEF WholePlanDecides, Gate, Accounted
    <2> QED
        BY <1>1, <1>8, <2>1 DEF WholePlanDecides
<1>9. CASE Sends(t)
    <2>1. PICK n \in todo[t] : /\ todo' = [todo EXCEPT ![t] = @ \ {n}]
                               /\ done' = [done EXCEPT ![t] = @ \cup {n}]
                               /\ UNCHANGED <<phase, scope, plan, told, frozen>>
        BY <1>9 DEF Sends, guard
    <2> QED
        BY <2>1 DEF TypeOK, Accounted
<1>10. CASE Refused(t) \/ ConnectionLost(t)
    BY <1>10 DEF Refused, ConnectionLost, Stops, Accounted, TypeOK
<1>11. CASE Finish(t)
    BY <1>1, <1>11 DEF Finish
<1> QED
    BY <1>3, <1>4, <1>5, <1>6, <1>7, <1>8, <1>9, <1>10, <1>11 DEF Task, Proceeds

\* So do all the others.
LEMMA AccountsStay ==
    ASSUME ~Adopt, MaxActions >= 2, TypeOK, AnswerInv, [Next]_vars
    PROVE  AnswerInv'
<1>1. PlansName'
    BY NamesStay DEF AnswerInv
<1>2. ASSUME NEW u \in Tasks PROVE Accounted(u)'
    <2>1. Accounted(u)
        BY DEF AnswerInv
    <2>2. CASE frozen \subseteq frozen' /\ Own(u)' = Own(u)
        BY <2>1, <2>2 DEF Accounted, Own
    <2>3. CASE Restart
        BY <2>3 DEF Restart, Accounted
    <2>4. CASE UNCHANGED vars
        BY <2>2, <2>4 DEF vars, work, guard, Own
    <2>5. ASSUME NEW t \in Tasks, Task(t) PROVE Accounted(u)'
        <3>1. CASE t = u
            BY <2>1, <2>5, <3>1, OwnStepAccounts DEF AnswerInv
        <3> QED
            BY <2>2, <2>5, <3>1, OthersAlone
    <2>6. CASE UNCHANGED <<scope, phase, told, plan, todo, done, frozen>>
        BY <2>2, <2>6 DEF Own
    <2> QED
        BY <2>3, <2>4, <2>5, <2>6, EnvironmentAlone DEF Next
<1> QED
    BY <1>1, <1>2 DEF AnswerInv

\* A task that answers "held" has its account.
LEMMA HeldIsAccounted ==
    ASSUME TypeOK, AnswerInv, NEW u \in Humans \cup Apis, [Next]_vars, AnswersHeld(u)
    PROVE  WasAligned(u) \/ plan[u][scope[u]].id \in frozen
<1>0. u \in Tasks /\ Accounted(u)
    BY DEF Tasks, AnswerInv
<1>1. ASSUME UNCHANGED told PROVE FALSE
    BY <1>1 DEF AnswersHeld
<1>2. ~Restart
    BY <1>0 DEF Restart, AnswersHeld
<1>3. PICK t \in Tasks : Task(t)
    BY <1>1, <1>2, EnvironmentAlone DEF Next, vars
<1>4. t = u
    <2>1. ASSUME t # u PROVE told'[u] = told[u]
        BY <1>0, <1>3, <2>1, OthersAlone DEF Own
    <2> QED
        BY <2>1 DEF AnswersHeld
<1>5. ASSUME NEW answer, Ends(u, answer) PROVE answer = "held"
    BY <1>0, <1>5 DEF Ends, AnswersHeld, TypeOK
<1>6. CASE GestureDecides(u)
    <2>1. Dismissal(u) = "held"
        BY <1>1, <1>5, <1>6 DEF GestureDecides, Gate
    <2>2. /\ plan[u][scope[u]].verb \notin {"conflict", "skip"} /\ Offered(u) = {}
          /\ scope[u] # All
        BY <1>6, <2>1 DEF Dismissal, GestureDecides
    <2>3. scope[u] \in Subjects /\ plan[u][scope[u]].verb \in Verbs
        BY <1>0, <2>2 DEF TypeOK, Verdict
    <2>4. scope[u] \notin Actions(plan[u])
        BY <1>0, <2>2, <2>3 DEF Offered, AnswerInv, PlansName, ParentChain
    <2> QED
        BY <2>2, <2>3, <2>4 DEF Actions, Commands, Verbs, WasAligned
<1>7. CASE Finish(u)
    <2>1. /\ told[u] # "error" /\ scope[u] # All /\ phase[u] = "exec" /\ todo[u] = {}
        BY <1>5, <1>7 DEF Finish
    <2> QED
        BY <1>0, <2>1 DEF Accounted, WasAligned
<1>8. CASE Begins(u, All, FALSE) \/ Begins(u, All, TRUE)
      \/ \E on \in Subjects, removing \in BOOLEAN : Begins(u, on, removing)
    BY <1>0, <1>8 DEF Begins, AnswersHeld, TypeOK
<1>9. CASE Refused(u) \/ ConnectionLost(u)
    BY <1>0, <1>9 DEF Refused, ConnectionLost, Stops, AnswersHeld, TypeOK
<1>10. CASE ReadFails(u)
    BY <1>5, <1>10 DEF ReadFails
<1>11. CASE WholePlanDecides(u)
    BY <1>1, <1>5, <1>11 DEF WholePlanDecides, Gate
<1>12. CASE BuildTargets(u) \/ Inspect(u) \/ Sends(u)
    BY <1>1, <1>12 DEF BuildTargets, Inspect, Sends
<1> QED
    BY <1>3, <1>4, <1>6, <1>7, <1>8, <1>9, <1>10, <1>11, <1>12
       DEF Task, Proceeds, LoopStarts, GestureStarts, ApplyStarts, Subjects

\* Without adoption, and with room for two commands (a queue and its parent), a
\* gesture answers "held" only of a queue found aligned, a command acknowledged
\* or a line frozen: never of a refusal, a lost reply or a closed gate.
THEOREM HeldIsEarned == ASSUME ~Adopt, MaxActions >= 2 PROVE Spec => HeldOrFrozen
<1>1. Init => AnswerInv
    BY DEF Init, AnswerInv, PlansName, Accounted, NoPlan, Say
<1>2. TypeOK /\ AnswerInv /\ [Next]_vars => AnswerInv'
    BY AccountsStay
<1>3. TypeOK /\ AnswerInv /\ [Next]_vars
      => [\A t \in Humans \cup Apis :
             AnswersHeld(t) => WasAligned(t) \/ plan[t][scope[t]].id \in frozen]_vars
    BY HeldIsAccounted
<1> QED
    BY <1>1, <1>2, <1>3, TypeCorrect, PTL DEF Spec, HeldOrFrozen
-----------------------------------------------------------------------------
(* Frozen lines, with one loop.                                             *)

\* Two actions of a plan on one row are alignments of a third party's rate.
ApartOn(p) ==
    \A m, n \in Subjects :
        m # n /\ p[m].verb = "set" /\ p[n].verb = "set" /\ p[m].id = p[n].id
        => p[m].fields = {"rate"}
RowsApart == \A t \in Tasks : ApartOn(plan[t])
FrozenKnown == \A i \in frozen : i \in Nat /\ i < fresh
FrozenUnsent == \A t \in Tasks : \A n \in todo[t] :
                    plan[t][n].verb = "set" => plan[t][n].id \notin frozen
FrozenInv == RowsApart /\ FrozenKnown /\ FrozenUnsent

\* What a "set" is about: a row of ours of the subject's name, or another's rate.
LEMMA SetNames ==
    ASSUME NEW list \in QList, NEW n \in Subjects, NEW spec \in QueueSpec \cup {Skip},
           NEW removing \in BOOLEAN, SubjectVerdict(list, n, spec, removing).verb = "set"
    PROVE  LET v == SubjectVerdict(list, n, spec, removing)
           IN  \/ IsOurs(list[v.id]) /\ list[v.id].name = n
               \/ ~IsOurs(list[v.id]) /\ v.fields = {"rate"}
<1> DEFINE named == Called(list, n)
           verdict == SubjectVerdict(list, n, spec, removing)
<1>1. CASE spec = Skip
    <2>1. verdict = UnwantedVerdict(list, n, removing)
        BY <1>1 DEF SubjectVerdict
    <2>2. UnwantedVerdict(list, n, removing).verb # "set"
        BY DEF UnwantedVerdict, Say
    <2> QED
        BY <2>1, <2>2
<1>2. CASE spec # Skip /\ named # {}
    <2> DEFINE i == CHOOSE j \in named : TRUE
    <2>1. verdict = NamedVerdict(list, n, i, spec) /\ i \in named
        BY <1>2 DEF SubjectVerdict
    <2> HIDE DEF i
    <2>2. list[i].name = n
        BY <2>1 DEF Called
    <2>3. NamedVerdict(list, n, i, spec).verb = "set"
          => NamedVerdict(list, n, i, spec).id = i /\ IsOurs(list[i])
        BY DEF NamedVerdict, Say
    <2> QED
        BY <2>1, <2>2, <2>3
<1>3. CASE spec # Skip /\ named = {} /\ Foreigners(list, spec.target) = {}
    <2>1. verdict = Say("add", n, 0, {}, spec)
        BY <1>3 DEF SubjectVerdict
    <2>2. Say("add", n, 0, {}, spec).verb = "add"
        BY DEF Say
    <2> QED
        BY <2>1, <2>2
<1>4. CASE spec # Skip /\ named = {} /\ Foreigners(list, spec.target) # {}
    <2> DEFINE i == CHOOSE j \in Foreigners(list, spec.target) : TRUE
    <2>1. verdict = ThirdVerdict(list, n, spec)
        BY <1>4 DEF SubjectVerdict
    <2>2. ~IsOurs(list[i])
        BY <1>4, ForeignersPresent
    <2>3. ThirdVerdict(list, n, spec).verb = "set"
          => /\ ThirdVerdict(list, n, spec).id = i
             /\ ThirdVerdict(list, n, spec).fields = {"rate"}
        BY DEF ThirdVerdict, Say
    <2> QED
        BY <2>1, <2>2, <2>3
<1> QED
    BY <1>1, <1>2, <1>3, <1>4

\* In one plan, two rewritings of one row are of another's rate.
LEMMA PlanIsApart ==
    ASSUME NEW list \in QList, NEW wanted \in [Subjects -> QueueSpec \cup {Skip}],
           NEW removing \in BOOLEAN
    PROVE  ApartOn(BuildPlan(list, wanted, removing))
<1> DEFINE p == BuildPlan(list, wanted, removing)
<1> SUFFICES ASSUME NEW m \in Subjects, NEW n \in Subjects, m # n,
                    p[m].verb = "set", p[n].verb = "set", p[m].id = p[n].id
             PROVE  p[m].fields = {"rate"}
    BY DEF ApartOn
<1>1. ASSUME NEW k \in Subjects, p[k].verb = "set"
      PROVE  \/ IsOurs(list[p[k].id]) /\ list[p[k].id].name = k
             \/ ~IsOurs(list[p[k].id]) /\ p[k].fields = {"rate"}
    <2> DEFINE spec == wanted[k]
               v == SubjectVerdict(list, k, spec, removing)
    <2>1. p[k] = v
        BY DEF BuildPlan
    <2>2. spec \in QueueSpec \cup {Skip}
        OBVIOUS
    <2>3. v.verb = "set"
        BY <1>1, <2>1
    <2> HIDE DEF spec, p
    <2>4. \/ IsOurs(list[v.id]) /\ list[v.id].name = k
          \/ ~IsOurs(list[v.id]) /\ v.fields = {"rate"}
        BY <2>2, <2>3, SetNames
    <2> QED
        BY <2>1, <2>4
<1> HIDE DEF p
<1> QED
    BY <1>1

\* No step mixes the rows of a plan.
LEMMA ApartStays ==
    ASSUME TypeOK, RowsApart, [Next]_vars
    PROVE  RowsApart'
<1>1. ApartOn(NoPlan)
    BY NothingPlanned DEF ApartOn
<1>2. CASE Restart
    BY <1>1, <1>2 DEF Restart, RowsApart, ApartOn
<1>3. CASE UNCHANGED plan
    BY <1>3 DEF RowsApart, ApartOn
<1>4. ASSUME NEW t \in Tasks, NEW new, ApartOn(new), plan' = [plan EXCEPT ![t] = new]
      PROVE  RowsApart'
    <2>1. \A u \in Tasks : plan'[u] = plan[u] \/ plan'[u] = new
        BY <1>4 DEF TypeOK
    <2> QED
        BY <1>4, <2>1 DEF RowsApart, ApartOn
<1>5. ASSUME NEW t \in Tasks, Inspect(t) PROVE RowsApart'
    <2>1. queues \in QList /\ want[t] \in [Subjects -> QueueSpec \cup {Skip}] /\ prune[t] \in BOOLEAN
        BY DEF TypeOK, QList
    <2>2. ApartOn(BuildPlan(queues, want[t], prune[t]))
        BY <2>1, PlanIsApart
    <2> QED
        BY <1>4, <1>5, <2>2 DEF Inspect
<1>6. ASSUME NEW t \in Tasks, Task(t)
      PROVE  Inspect(t) \/ UNCHANGED plan \/ plan' = [plan EXCEPT ![t] = NoPlan]
    BY <1>6 DEF Task, Proceeds, LoopStarts, GestureStarts, ApplyStarts, Begins, BuildTargets,
                ReadFails, GestureDecides, WholePlanDecides, Gate, Sends, Refused,
                ConnectionLost, Finish, Ends
<1>7. CASE UNCHANGED vars
    BY <1>3, <1>7 DEF vars, work
<1> QED
    BY <1>1, <1>2, <1>3, <1>4, <1>5, <1>6, <1>7, EnvironmentAlone DEF Next

\* An .id once given stays given.
LEMMA FreshGrows == ASSUME TypeOK, [Next]_vars PROVE fresh \in Nat /\ fresh' \in Nat /\ fresh <= fresh'
<1>1. fresh \in Nat
    BY PlannerAssumption DEF TypeOK
<1>2. ASSUME NEW t \in Tasks, NEW n, Reaches(t, n) PROVE fresh' \in {fresh, fresh + 1}
    BY <1>2 DEF Reaches
<1>3. fresh' \in {fresh, fresh + 1}
    BY <1>2, ListMovesBy DEF ThirdPartyAdds, RowVanishes, RowToggled, Sends, ConnectionLost, router
<1> QED
    BY <1>1, <1>3

\* Who freezes a line, or fills a batch: the gate alone.
LEMMA OnlyTheGateFreezes ==
    ASSUME TypeOK, NEW t \in Tasks, Task(t)
    PROVE  Gate(t) \/ (frozen' = frozen /\ \A u \in Tasks : todo'[u] \subseteq todo[u])
<1>1. ASSUME NEW answer, Ends(t, answer) PROVE \A u \in Tasks : todo'[u] \subseteq todo[u]
    BY <1>1 DEF TypeOK, Ends
<1>2. CASE LoopStarts(t) \/ GestureStarts(t) \/ ApplyStarts(t)
    BY <1>2 DEF LoopStarts, GestureStarts, ApplyStarts, Begins, guard
<1>3. CASE BuildTargets(t) \/ Inspect(t)
    BY <1>3 DEF BuildTargets, Inspect, guard
<1>4. CASE ReadFails(t)
    BY <1>1, <1>4 DEF ReadFails, guard
<1>5. CASE GestureDecides(t) \/ WholePlanDecides(t)
    BY <1>1, <1>5 DEF GestureDecides, WholePlanDecides, guard
<1>6. CASE Sends(t)
    <2>1. PICK n \in todo[t] : todo' = [todo EXCEPT ![t] = @ \ {n}] /\ frozen' = frozen
        BY <1>6 DEF Sends, guard
    <2> QED
        BY <2>1 DEF TypeOK
<1>7. CASE Refused(t) \/ ConnectionLost(t)
    BY <1>7 DEF TypeOK, Refused, ConnectionLost, Stops, guard
<1>8. CASE Finish(t)
    BY <1>1, <1>8 DEF Finish
<1> QED
    BY <1>2, <1>3, <1>4, <1>5, <1>6, <1>7, <1>8 DEF Task, Proceeds

\* The gate of a task that is alone: what it lets pass is not frozen, not even by it.
LEMMA GateUnsent ==
    ASSUME IInv, FrozenInv, NEW t \in Tasks, Tasks = {t}, Gate(t)
    PROVE  FrozenKnown' /\ FrozenUnsent'
<1> DEFINE p == plan[t]
           flips == {n \in Offered(t) : ~Frozen(p[n]) /\ Oscillates(p[n])}
           kept == {n \in Offered(t) : ~Frozen(p[n])} \ flips
<1>0. TypeOK /\ PlansHold /\ RowsApart /\ FrozenKnown /\ fresh \in Nat
    BY PlannerAssumption DEF IInv, FrozenInv, TypeOK
<1>1. \A n \in Offered(t) : n \in Subjects
    BY OfferedType DEF Actions
<1>2. /\ frozen' = frozen \cup {p[n].id : n \in flips}
      /\ plan' = plan /\ fresh' = fresh
      /\ todo' = [todo EXCEPT ![t] = IF Cardinality(kept) <= MaxActions THEN kept ELSE {}]
    BY DEF Gate, router
<1>3. todo'[t] \subseteq kept
    BY <1>0, <1>2 DEF TypeOK
<1>4. ASSUME NEW n \in flips PROVE p[n].id \in Nat /\ p[n].id < fresh
    BY <1>0, <1>1 DEF Oscillates, PlansHold, StillAllowed, Ids
<1>5. FrozenKnown'
    BY <1>0, <1>2, <1>4 DEF FrozenKnown
<1>6. ASSUME NEW n \in kept, p[n].verb = "set", NEW m \in flips, p[n].id = p[m].id PROVE FALSE
    <2>1. n \in Subjects /\ m \in Subjects /\ n # m /\ Oscillates(p[m]) /\ p[m].verb = "set"
        BY <1>1 DEF Oscillates
    <2>2. p[m].fields = {"rate"}
        BY <1>0, <1>6, <2>1 DEF RowsApart, ApartOn
    <2> QED
        BY <2>1, <2>2 DEF Oscillates, Watched
<1>7. ASSUME NEW n \in kept, p[n].verb = "set" PROVE p[n].id \notin frozen'
    BY <1>2, <1>6, <1>7 DEF Frozen
<1> HIDE DEF kept
<1> QED
    BY <1>2, <1>3, <1>5, <1>7 DEF FrozenUnsent

\* A lone loop never sends again what was frozen.
LEMMA FrozenStays ==
    ASSUME NEW loop, Tasks = {loop}, IInv, FrozenInv, [Next]_vars
    PROVE  FrozenInv'
<1>0. TypeOK /\ loop \in Tasks
    BY DEF IInv
<1>1. RowsApart'
    BY <1>0, ApartStays DEF FrozenInv
<1>2. CASE Restart
    BY <1>1, <1>2 DEF Restart, FrozenInv, FrozenKnown, FrozenUnsent
<1>3. ASSUME frozen' = frozen PROVE FrozenKnown'
    BY <1>0, <1>3, FreshGrows DEF FrozenInv, FrozenKnown
<1>4. CASE UNCHANGED <<frozen, todo, plan>>
    BY <1>1, <1>3, <1>4 DEF FrozenInv, FrozenUnsent
<1>5. CASE Gate(loop)
    BY <1>0, <1>1, <1>5, GateUnsent DEF FrozenInv
<1>6. ASSUME Task(loop), ~Gate(loop) PROVE FrozenInv'
    <2>1. frozen' = frozen /\ \A u \in Tasks : todo'[u] \subseteq todo[u]
        BY <1>0, <1>6, OnlyTheGateFreezes
    <2>2. \A u \in Tasks : \A n \in todo'[u] : plan'[u] = plan[u]
        <3>1. CASE plan' = plan
            BY <3>1
        <3>2. ASSUME NEW answer, Ends(loop, answer) PROVE todo'[loop] = {}
            BY <1>0, <3>2 DEF TypeOK, Ends
        <3>3. CASE Inspect(loop)
            BY <1>0, <3>3 DEF Inspect, IInv, BatchesArePlans
        <3> QED
            BY <1>0, <1>6, <3>1, <3>2, <3>3
               DEF Task, Proceeds, LoopStarts, GestureStarts, ApplyStarts, Begins, BuildTargets,
                   ReadFails, GestureDecides, WholePlanDecides, Sends, Refused,
                   ConnectionLost, Finish
    <2>3. FrozenUnsent'
        BY <2>1, <2>2 DEF FrozenInv, FrozenUnsent
    <2> QED
        BY <1>1, <1>3, <2>1, <2>3 DEF FrozenInv
<1> QED
    BY <1>0, <1>2, <1>4, <1>5, <1>6, EnvironmentAlone DEF Next, vars, work, guard

\* A command of the lone loop touches no frozen row.
LEMMA FrozenUntouched ==
    ASSUME NEW loop, Tasks = {loop}, Loops = {loop}, IInv, FrozenInv, [Next]_vars,
           NEW i \in frozen, todo' # todo
    PROVE  queues'[i] = queues[i]
<1>0. /\ TypeOK /\ PlansHold /\ BatchesArePlans /\ LoopsNeverPrune
      /\ loop \in Tasks /\ i \in Ids /\ queues \in [Ids -> Row \cup {Absent}]
    BY DEF IInv, TypeOK
<1>1. CASE UNCHANGED router
    BY <1>1 DEF router
<1>2. CASE Sends(loop) \/ ConnectionLost(loop)
    <2>1. PICK n \in todo[loop] : Reaches(loop, n) \/ UNCHANGED router
        BY <1>2 DEF Sends, ConnectionLost
    <2> DEFINE v == plan[loop][n]
    <2>2. n \in Subjects /\ v.verb \in Commands /\ StillAllowed(v) /\ v.verb # "remove"
        BY <1>0 DEF BatchesArePlans, Actions, PlansHold, LoopsNeverPrune
    <2>3. v.verb = "set" => v.id # i
        BY DEF FrozenInv, FrozenUnsent
    <2>4. i < fresh /\ fresh \in Nat /\ i \in Nat
        BY <1>0, PlannerAssumption DEF FrozenInv, FrozenKnown, TypeOK
    <2> HIDE DEF v
    <2>5. ASSUME Reaches(loop, n) PROVE queues'[i] = queues[i]
        <3>1. CASE v.verb = "add"
            BY <1>0, <2>4, <2>5, <3>1 DEF Reaches, Effect, v
        <3>2. CASE v.verb = "set"
            BY <1>0, <2>3, <2>5, <3>2 DEF Reaches, Effect, v
        <3> QED
            BY <2>2, <3>1, <3>2 DEF Commands
    <2> QED
        BY <1>1, <2>1, <2>5
<1>3. UNCHANGED todo \/ UNCHANGED router \/ Sends(loop) \/ ConnectionLost(loop)
    BY ListMovesBy DEF ThirdPartyAdds, RowVanishes, RowToggled, work
<1> QED
    BY <1>1, <1>2, <1>3

\* With one loop and no other task, a line frozen for oscillation is written no
\* more, however its target goes on moving, until the process starts again.
THEOREM FrozenStaysFrozen ==
    ASSUME NEW loop, Tasks = {loop}, Loops = {loop}
    PROVE  Spec => FrozenIsLeftAlone
<1>1. Init => FrozenInv
    BY NothingPlanned DEF Init, FrozenInv, RowsApart, ApartOn, FrozenKnown, FrozenUnsent
<1>2. IInv /\ FrozenInv /\ [Next]_vars => FrozenInv'
    BY FrozenStays
<1>3. IInv /\ FrozenInv /\ [Next]_vars
      => [\A i \in frozen : todo' # todo => queues'[i] = queues[i]]_vars
    BY FrozenUntouched
<1> QED
    BY <1>1, <1>2, <1>3, Inductive, PTL DEF Spec, FrozenIsLeftAlone
=============================================================================
