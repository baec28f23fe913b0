------------------------------ MODULE RateSources ------------------------------
(***************************************************************************)
(* The rate each queue is due, and the jobs that bring the routers to it:  *)
(* a client's rate is the highest of a ladder (a running boost, a standing *)
(* override, the time slot of a schedule, the plan); a link's is its       *)
(* capacity, cut by the tightening of the closed QoE loop.  Reconciliation,*)
(* the end of boosts, the change of slot and the QoE loop are jobs beside  *)
(* each other; people edit the same tables and run the same passes.        *)
(*                                                                         *)
(* A pass assembles the rates of a router (build_targets), then sends what *)
(* differs: the reading of the router and the commands are one step here,  *)
(* the finer interleaving of that step being the matter of ShapingService. *)
(* A client's boost is judged when its rate is assembled.  The order in    *)
(* which a pass visits routers and sectors is left open.                   *)
(***************************************************************************)
EXTENDS Naturals, FiniteSets

CONSTANTS
    Clients, Links, Routers,
    RouterOf,     \* [Subjects -> Routers]
    Attached,     \* [Clients -> Links]: the sector a client is attached to
    Plan,         \* [Clients -> Nat]: plan_mbps, 0 when unknown
    BoostRate, OverrideRates,
    Slots,        \* the times of the week that the schedules tell apart
    Profiles,     \* schedules that may be entered, see Profile
    MaxWindow,    \* the windows of a schedule are 1..MaxWindow
    Capacities,   \* capacities a link may be measured at
    Safety,       \* shaping_safety_factor, in tenths
    FloorMbps,    \* shaping_floor_mbps
    MinDegraded, Step, Floor, Recovery, \* qoe_*: step and floor in tenths
    Jobs,         \* [{"reconcile", "boosts", "schedule", "qoe"} -> set of tasks]
    People,
    FirstProfiles, FirstMeasured, FirstSlots, \* what is there at the start
    Scenarios     \* bound: how many moves of each name people and the world make

Subjects == Clients \cup Links
Kinds    == {"reconcile", "boosts", "schedule", "qoe"}
Tasks    == (UNION {Jobs[k] : k \in Kinds}) \cup People
Full     == 10
MoveNames == {"slot", "fade", "score", "flag", "switch", "restart", "fault",
              "boost", "clear", "override", "profile", "loop", "cycle"}
Profile  == [id : Nat, precision : 0..3, clients : SUBSET Clients,
             window : [Slots -> 0..MaxWindow], rate : [1..MaxWindow -> Nat]]
Sector   == [rated : Nat, degraded : Nat, trim : Floor..Full, healthy : Nat]

RatesData ==
    /\ Clients \cap Links = {} /\ IsFiniteSet(Clients)
    /\ RouterOf \in [Subjects -> Routers] /\ Attached \in [Clients -> Links]
    /\ Plan \in [Clients -> Nat] /\ BoostRate \in Nat \ {0} /\ OverrideRates \subseteq Nat
    /\ Profiles \subseteq Profile
    /\ \A p, o \in Profiles : p.id = o.id => p = o
    /\ Capacities \subseteq Nat /\ Safety \in 1..10 /\ FloorMbps \in Nat
    /\ Step \in 1..5 /\ Floor \in 1..Full
    /\ MinDegraded \in Nat \ {0} /\ Recovery \in Nat \ {0}
    /\ DOMAIN Jobs = Kinds
    /\ FirstProfiles \subseteq SUBSET Profiles
    /\ FirstMeasured \subseteq [Links -> Capacities] /\ FirstSlots \subseteq Slots
    /\ Scenarios \subseteq [MoveNames -> Nat]
ASSUME RatesAssumption == RatesData

VARIABLES
    override,    \* shaping_policies: the standing rate of a subject, 0 for none
    boost,       \* shaping_policies: each client's boost, and whether it is over
    profiles,    \* bandwidth_schedules: those enabled
    trim,        \* qoe_link_states: the tightening of each link, in tenths
    healthy,     \* qoe_link_states: its consecutive sound cycles
    slot,        \* the time it is
    measured,    \* the capacity of each link
    score,       \* how each client is rated in the QoE window
    loopOn,      \* qoe_loop_enabled
    book,        \* the schedules in memory
    signature,   \* the slot of each schedule at the last pass: a set of one or none
    enforcement, writable, \* the global flag, each router's switch
    held,        \* the rate of each queue, on its router
    phase, kind, \* what each task is at, and in what sort of pass
    route, at,   \* the routers it has left, the one it writes to
    scope,       \* the queues it may write
    want,        \* the rates it has assembled
    ended,       \* the boosts it found over
    got,         \* the schedules it has read
    states, pending, \* the sectors as it read them, those left to decide
    moves        \* the moves left

tables == <<override, boost, profiles, trim, healthy>>
world  == <<slot, measured, score>>
memory == <<loopOn, book, signature, enforcement>>
router == <<writable, held>>
reads  == <<ended, got, states, pending>>
work   == <<phase, kind, route, at, scope, want, reads>>
vars   == <<tables, world, memory, router, work, moves>>
-----------------------------------------------------------------------------
(* The rate in force.                                                       *)

\* The schedule that governs a client: the most precise, then the most recent.
Governing(known, c) ==
    {p \in known : /\ c \in p.clients
                   /\ \A o \in known : c \in o.clients =>
                         \/ p.precision < o.precision
                         \/ p.precision = o.precision /\ p.id >= o.id}

ScheduledRate(known, c) ==
    LET running == {p \in Governing(known, c) : p.window[slot] # 0}
    IN  IF running = {} THEN 0
        ELSE LET p == CHOOSE p \in running : TRUE IN p.rate[p.window[slot]]

FirstGiven(a, b, c, d) ==
    IF a # 0 THEN a ELSE IF b # 0 THEN b ELSE IF c # 0 THEN c ELSE d

EffectiveRate(known, c) ==
    FirstGiven(IF boost[c] = "running" THEN BoostRate ELSE 0,
               override[c], ScheduledRate(known, c), Plan[c])

Greater(a, b) == IF a > b THEN a ELSE b

ShapedCapacity(l, cut) ==
    LET base == IF override[l] # 0 THEN override[l]
                ELSE IF measured[l] = 0 THEN 0
                ELSE Greater(FloorMbps, (measured[l] * Safety) \div 10)
    IN  IF base = 0 \/ cut >= Full THEN base
        ELSE Greater(FloorMbps, (base * cut) \div 10)

\* What a pass assembles for a queue, with the schedules it knows.
Rate(known, x) ==
    IF x \in Clients THEN EffectiveRate(known, x)
    ELSE ShapedCapacity(x, IF loopOn THEN trim[x] ELSE Full)

\* Which window runs in each schedule.
Signature(known) == {<<p.id, p.window[slot]>> : p \in known}
-----------------------------------------------------------------------------
(* The decision of the closed loop about one sector.                        *)

Rated(l)    == {c \in Clients : Attached[c] = l /\ score[c] # "none"}
Degraded(l) == {c \in Rated(l) : score[c] = "bad"}

Tightened(s) == Greater(Floor, IF s.trim > Step THEN s.trim - Step ELSE 0)
Relaxed(s)   == IF s.trim + Step > Full THEN Full ELSE s.trim + Step

\* Mutant: the sound cycles are not counted from one pass to the next.
CyclesForgotten(s) == 1
Cycles(s)          == s.healthy + 1

\* decide_sector: tightened at once, given back one step after Recovery cycles.
Decide(s) ==
    LET bad     == s.degraded >= MinDegraded
        waiting == ~bad /\ s.trim < Full /\ Cycles(s) < Recovery
    IN  [trim    |-> IF bad THEN Tightened(s) ELSE IF waiting THEN s.trim ELSE Relaxed(s),
         healthy |-> IF waiting THEN Cycles(s) ELSE 0]
-----------------------------------------------------------------------------
Nowhere == CHOOSE r \in Routers : TRUE
Unread  == [l \in Links |-> [rated |-> 0, degraded |-> 0, trim |-> Full, healthy |-> 0]]
On(r)   == {x \in Subjects : RouterOf[x] = r}

AllIdle ==
    /\ phase = [t \in Tasks |-> "idle"] /\ kind = [t \in Tasks |-> "reconcile"]
    /\ route = [t \in Tasks |-> {}] /\ at = [t \in Tasks |-> Nowhere]
    /\ scope = [t \in Tasks |-> Subjects]
    /\ want = [t \in Tasks |-> [x \in Subjects |-> 0]]
    /\ ended = [t \in Tasks |-> {}] /\ got = [t \in Tasks |-> {}]
    /\ states = [t \in Tasks |-> Unread] /\ pending = [t \in Tasks |-> {}]

Init ==
    /\ override = [x \in Subjects |-> 0]
    /\ boost = [c \in Clients |-> "none"]
    /\ profiles \in FirstProfiles
    /\ trim = [l \in Links |-> Full] /\ healthy = [l \in Links |-> 0]
    /\ slot \in FirstSlots
    /\ measured \in FirstMeasured
    /\ score = [c \in Clients |-> "good"]
    /\ loopOn = TRUE /\ enforcement = TRUE
    /\ book = profiles /\ signature = {}
    /\ writable = [r \in Routers |-> TRUE]
    /\ held = [x \in Subjects |-> Rate(profiles, x)]
    /\ AllIdle
    /\ moves \in Scenarios

Move(name) == moves[name] > 0 /\ moves' = [moves EXCEPT ![name] = @ - 1]
-----------------------------------------------------------------------------
(* The world.                                                               *)

Untouched == UNCHANGED <<router, work>>

SlotChanges ==
    /\ Move("slot") /\ slot' \in Slots \ {slot}
    /\ Untouched /\ UNCHANGED <<tables, measured, score, memory>>

CapacityChanges ==
    /\ Move("fade")
    /\ \E l \in Links, mbps \in Capacities : measured' = [measured EXCEPT ![l] = mbps]
    /\ Untouched /\ UNCHANGED <<tables, slot, score, memory>>

ScoreChanges ==
    /\ Move("score")
    /\ \E c \in Clients, s \in {"none", "good", "bad"} : score' = [score EXCEPT ![c] = s]
    /\ Untouched /\ UNCHANGED <<tables, slot, measured, memory>>

\* Time goes by: nobody has to do anything for a boost to be over.
BoostEnds ==
    /\ \E c \in Clients : boost[c] = "running" /\ boost' = [boost EXCEPT ![c] = "over"]
    /\ Untouched /\ UNCHANGED <<override, profiles, trim, healthy, world, memory, moves>>

SwitchFlips ==
    /\ \/ Move("flag") /\ enforcement' = ~enforcement /\ UNCHANGED writable
       \/ /\ Move("switch")
          /\ \E r \in Routers : writable' = [writable EXCEPT ![r] = ~@]
          /\ UNCHANGED enforcement
    /\ UNCHANGED <<tables, world, loopOn, book, signature, held, work>>

\* What was in memory is read again; a pass in flight is lost.
Restart ==
    /\ Move("restart")
    /\ book' = profiles /\ signature' = {}
    /\ phase' = [t \in Tasks |-> "idle"] /\ kind' = [t \in Tasks |-> "reconcile"]
    /\ route' = [t \in Tasks |-> {}] /\ at' = [t \in Tasks |-> Nowhere]
    /\ scope' = [t \in Tasks |-> Subjects]
    /\ want' = [t \in Tasks |-> [x \in Subjects |-> 0]]
    /\ ended' = [t \in Tasks |-> {}] /\ got' = [t \in Tasks |-> {}]
    /\ states' = [t \in Tasks |-> Unread] /\ pending' = [t \in Tasks |-> {}]
    /\ UNCHANGED <<tables, world, loopOn, enforcement, router>>
-----------------------------------------------------------------------------
(* The start of a pass.                                                     *)

Starts(t, name, first) ==
    /\ phase[t] = "idle"
    /\ phase' = [phase EXCEPT ![t] = first]
    /\ kind' = [kind EXCEPT ![t] = name]

\* A pass that is over leaves nothing behind but what it wrote.
Idle(t, f, none) == f' = [f EXCEPT ![t] = none]
Forgets(t) == /\ Idle(t, ended, {}) /\ Idle(t, got, {})
              /\ Idle(t, states, Unread) /\ Idle(t, pending, {})
Ends(t) ==
    /\ Idle(t, phase, "idle") /\ Idle(t, kind, "reconcile")
    /\ Idle(t, route, {}) /\ Idle(t, at, Nowhere) /\ Idle(t, scope, Subjects)
    /\ Idle(t, want, [x \in Subjects |-> 0])
    /\ Forgets(t)

\* Reconcile, with nothing to do while the flag is off.
Reconciles(t) ==
    /\ t \in Jobs["reconcile"] /\ enforcement
    /\ Starts(t, "reconcile", "visit")
    /\ route' = [route EXCEPT ![t] = Routers] /\ scope' = [scope EXCEPT ![t] = Subjects]
    /\ UNCHANGED <<tables, world, memory, router, at, want, reads, moves>>

\* expire_boosts reads which boosts are over.
LooksForEnded(t) ==
    LET over == {c \in Clients : boost[c] = "over"}
    IN  /\ t \in Jobs["boosts"] /\ over # {}
        /\ Starts(t, "boosts", "purge")
        /\ ended' = [ended EXCEPT ![t] = over]
        /\ UNCHANGED <<tables, world, memory, router, route, at, scope, want, got,
                       states, pending, moves>>

\* Mutant: the boosts deleted are those read before, whatever they became.
PurgedAsRead(t) == [c \in Clients |-> IF c \in ended[t] THEN "none" ELSE boost[c]]

\* purge_expired_boosts: those that are over by then.
Purged(t) == [c \in Clients |-> IF boost[c] = "over" THEN "none" ELSE boost[c]]

Purges(t) ==
    /\ phase[t] = "purge"
    /\ boost' = Purged(t)
    /\ phase' = [phase EXCEPT ![t] = "visit"]
    /\ scope' = [scope EXCEPT ![t] = Subjects]
    /\ route' = [route EXCEPT ![t] =
                    IF enforcement THEN {RouterOf[c] : c \in ended[t]} ELSE {}]
    /\ Forgets(t)
    /\ UNCHANGED <<override, profiles, trim, healthy, world, memory, router, kind, at,
                   want, moves>>

\* load_schedules: the query, then the book and the comparison in one go.
Queries(t) ==
    /\ got' = [got EXCEPT ![t] = profiles]
    /\ UNCHANGED <<tables, world, memory, router, route, at, scope, want, ended, states,
                   pending, moves>>
LoadsSchedules(t) ==
    t \in Jobs["schedule"] /\ Starts(t, "schedule", "compare") /\ Queries(t)
ReloadsSchedules(t) ==
    /\ phase[t] = "load" /\ phase' = [phase EXCEPT ![t] = "compare"]
    /\ Queries(t) /\ UNCHANGED kind

\* Mutant: the book of the start is kept.
ReplacesNever(t) == UNCHANGED book
Replaces(t) == book' = got[t]

\* The slot is noted before anything is written, and whatever is written.  A query
\* that fails leaves the book as it is.
Compares(t) ==
    LET forced == kind[t] = "edit"
    IN  /\ phase[t] = "compare"
        /\ \/ Replaces(t) /\ UNCHANGED moves
           \/ Move("fault") /\ UNCHANGED book
        /\ signature' = {Signature(book')}
        /\ phase' = [phase EXCEPT ![t] = "visit"]
        /\ scope' = [scope EXCEPT ![t] = Subjects]
        /\ route' = [route EXCEPT ![t] =
               IF /\ forced \/ signature \notin {{}, signature'}
                  /\ enforcement
               THEN Routers ELSE {}]
        /\ Forgets(t)
        /\ UNCHANGED <<tables, world, loopOn, enforcement, router, kind, at, want>>
-----------------------------------------------------------------------------
(* A pass of the closed loop: scores and states, a decision per sector.     *)

Assess(t) ==
    /\ Starts(t, "qoe", "decide")
    /\ scope' = [scope EXCEPT ![t] = Subjects]
    /\ IF loopOn
       THEN /\ states' = [states EXCEPT ![t] =
                  [l \in Links |-> [rated |-> Cardinality(Rated(l)),
                                    degraded |-> Cardinality(Degraded(l)),
                                    trim |-> trim[l], healthy |-> healthy[l]]]]
            /\ pending' = [pending EXCEPT ![t] = {l \in Links : Rated(l) # {}}]
            /\ UNCHANGED tables
       ELSE /\ trim' = [l \in Links |-> Full]
            /\ healthy' = [l \in Links |-> IF trim[l] < Full THEN 0 ELSE healthy[l]]
            /\ UNCHANGED <<override, boost, profiles, states, pending>>
    /\ UNCHANGED <<world, memory, router, route, at, want, ended, got>>

Assesses(t) == t \in Jobs["qoe"] /\ Assess(t) /\ UNCHANGED moves

\* One sector: save_qoe_link_state.
Saves(t) ==
    /\ phase[t] = "decide"
    /\ \E l \in pending[t] :
           LET verdict == Decide(states[t][l])
           IN  /\ trim' = [trim EXCEPT ![l] = verdict.trim]
               /\ healthy' = [healthy EXCEPT ![l] = verdict.healthy]
               /\ pending' = [pending EXCEPT ![t] = @ \ {l}]
               /\ route' = IF verdict.trim = states[t][l].trim THEN route
                           ELSE [route EXCEPT ![t] = @ \cup {RouterOf[l]}]
    /\ UNCHANGED <<override, boost, profiles, world, memory, router, phase, kind, at,
                   scope, want, ended, got, states, moves>>

Decided(t) ==
    /\ phase[t] = "decide" /\ pending[t] = {}
    /\ phase' = [phase EXCEPT ![t] = "visit"]
    /\ Forgets(t)
    /\ UNCHANGED <<tables, world, memory, router, kind, route, at, scope, want, moves>>
-----------------------------------------------------------------------------
(* People.                                                                  *)

\* A boost, its end before time or a standing rate: saved, then written at once on
\* the queue of its subject, and of the link a client is on, whatever the flag.
Chain(x) == IF x \in Clients THEN {x, Attached[x]} ELSE {x}
Gesture(t, x) ==
    /\ Starts(t, "gesture", "visit")
    /\ route' = [route EXCEPT ![t] = {RouterOf[x]}]
    /\ scope' = [scope EXCEPT ![t] = Chain(x)]
    /\ UNCHANGED <<profiles, trim, healthy, world, memory, router, at, want, reads>>

Boosts(t) ==
    \E c \in Clients : /\ Move("boost") /\ Gesture(t, c)
                       /\ boost' = [boost EXCEPT ![c] = "running"]
                       /\ UNCHANGED override

ClearsBoost(t) ==
    \E c \in Clients : /\ Move("clear") /\ Gesture(t, c)
                       /\ boost[c] # "none" /\ boost' = [boost EXCEPT ![c] = "none"]
                       /\ UNCHANGED override

Overrides(t) ==
    \E x \in Subjects, mbps \in OverrideRates :
        /\ Move("override") /\ Gesture(t, x)
        /\ override' = [override EXCEPT ![x] = mbps]
        /\ UNCHANGED boost

\* Removing an override deletes the row, the boost of the subject with it.
DropsOverride(t) ==
    \E x \in Subjects :
        /\ override[x] # 0 \/ (x \in Clients /\ boost[x] # "none")
        /\ Move("override") /\ Gesture(t, x)
        /\ override' = [override EXCEPT ![x] = 0]
        /\ boost' = [c \in Clients |-> IF c = x THEN "none" ELSE boost[c]]

\* A schedule created, edited or suspended, then applied by force.
EditsSchedules(t) ==
    /\ Move("profile")
    /\ Starts(t, "edit", "load")
    /\ profiles' \in (SUBSET Profiles) \ {profiles}
    /\ UNCHANGED <<override, boost, trim, healthy, world, memory, router, route, at, scope,
                   want, reads>>

\* A pass of the loop on request, beside the job's.
RunsCycle(t) == Move("cycle") /\ Assess(t)

\* qoe_loop_enabled: the setting, then the tightenings are given back.
FlipsLoop(t) ==
    /\ Move("loop")
    /\ Starts(t, "setting", "release")
    /\ loopOn' = ~loopOn
    /\ UNCHANGED <<tables, world, book, signature, enforcement, router, route, at, scope,
                   want, reads>>

Releases(t) ==
    /\ phase[t] = "release"
    /\ trim' = [l \in Links |-> Full]
    /\ healthy' = [l \in Links |-> IF trim[l] < Full THEN 0 ELSE healthy[l]]
    /\ Ends(t)
    /\ UNCHANGED <<override, boost, profiles, world, memory, router, moves>>
-----------------------------------------------------------------------------
(* The routers of a pass, one after the other.                              *)

\* A read-only router is left alone; a gesture and the loop plan for it first.
Considered(t, r) == writable[r] \/ kind[t] \in {"gesture", "qoe"}

PassesOver(t) ==
    /\ phase[t] = "visit"
    /\ \E r \in route[t] : /\ ~Considered(t, r)
                           /\ route' = [route EXCEPT ![t] = @ \ {r}]
    /\ UNCHANGED <<tables, world, memory, router, phase, kind, at, scope, want, reads,
                   moves>>

\* build_targets.
Assembles(t) ==
    /\ phase[t] = "visit"
    /\ \E r \in route[t] :
          /\ Considered(t, r)
          /\ at' = [at EXCEPT ![t] = r]
          /\ want' = [want EXCEPT ![t] = [x \in Subjects |->
                        IF x \in On(r) \cap scope[t] THEN Rate(book, x) ELSE 0]]
          /\ route' = [route EXCEPT ![t] = @ \ {r}]
    /\ phase' = [phase EXCEPT ![t] = "send"]
    /\ UNCHANGED <<tables, world, memory, router, kind, scope, reads, moves>>

Written(t) == On(at[t]) \cap scope[t]
Laid(t, queues) == [x \in Subjects |-> IF x \in queues THEN want[t][x] ELSE held[x]]

\* The gate of apply(): the router's switch, and the flag unless it is a gesture.
Open(t) == writable[at[t]] /\ (enforcement \/ kind[t] = "gesture")

GoesOn(t) == /\ Idle(t, phase, "visit") /\ Idle(t, at, Nowhere)
             /\ Idle(t, want, [x \in Subjects |-> 0])

Sends(t) ==
    /\ phase[t] = "send"
    /\ held' = IF Open(t) THEN Laid(t, Written(t)) ELSE held
    /\ GoesOn(t)
    /\ UNCHANGED <<tables, world, memory, writable, kind, route, scope, reads, moves>>

\* The router does not answer, or no more: the next one all the same.
SendFails(t) ==
    /\ phase[t] = "send" /\ Move("fault")
    /\ \E queues \in SUBSET Written(t) :
           held' = IF Open(t) THEN Laid(t, queues) ELSE held
    /\ GoesOn(t)
    /\ UNCHANGED <<tables, world, memory, writable, kind, route, scope, reads>>

\* The database does not answer: the pass stops there.
TableFails(t) ==
    /\ phase[t] \in {"purge", "decide", "release"} /\ Move("fault")
    /\ Ends(t)
    /\ UNCHANGED <<tables, world, memory, router>>

Finishes(t) ==
    /\ phase[t] = "visit" /\ route[t] = {}
    /\ Ends(t)
    /\ UNCHANGED <<tables, world, memory, router, moves>>
-----------------------------------------------------------------------------
World == \/ SlotChanges \/ CapacityChanges \/ ScoreChanges \/ BoostEnds
         \/ SwitchFlips \/ Restart

Begins(t) ==
    \/ Reconciles(t) \/ LooksForEnded(t) \/ LoadsSchedules(t) \/ Assesses(t)

Proceeds(t) ==
    \/ Purges(t) \/ ReloadsSchedules(t) \/ Compares(t) \/ Saves(t) \/ Decided(t)
    \/ Releases(t) \/ PassesOver(t) \/ Assembles(t) \/ Sends(t) \/ Finishes(t)

Person(t) ==
    /\ t \in People
    /\ \/ Boosts(t) \/ ClearsBoost(t) \/ Overrides(t) \/ DropsOverride(t)
       \/ EditsSchedules(t) \/ FlipsLoop(t) \/ RunsCycle(t)

Next == \/ World
        \/ \E t \in Tasks : \/ Begins(t) \/ Proceeds(t) \/ Person(t)
                            \/ SendFails(t) \/ TableFails(t)

Spec == Init /\ [][Next]_vars

\* The scheduler starts each job again and again, and every await comes back.
Fairness == \A t \in Tasks : WF_vars(Begins(t)) /\ WF_vars(Proceeds(t))

FairSpec == Spec /\ Fairness
-----------------------------------------------------------------------------
(* Properties.                                                              *)

\* Every variable has its type; a tightening is never deeper than the floor, in
\* the table and in what a pass read of it.
TypeOK ==
    /\ override \in [Subjects -> Nat]
    /\ boost \in [Clients -> {"none", "running", "over"}]
    /\ profiles \subseteq Profiles /\ book \subseteq Profiles
    /\ trim \in [Links -> Floor..Full] /\ healthy \in [Links -> 0..(Recovery - 1)]
    /\ slot \in Slots
    /\ measured \in [Links -> Capacities]
    /\ score \in [Clients -> {"none", "good", "bad"}]
    /\ loopOn \in BOOLEAN /\ enforcement \in BOOLEAN
    /\ signature \subseteq SUBSET (Nat \X (0..MaxWindow))
    /\ writable \in [Routers -> BOOLEAN]
    /\ held \in [Subjects -> Nat]
    /\ phase \in [Tasks -> {"idle", "purge", "load", "compare", "decide", "release",
                       "visit", "send"}]
    /\ kind \in [Tasks -> Kinds \cup {"gesture", "edit", "setting"}]
    /\ route \in [Tasks -> SUBSET Routers] /\ at \in [Tasks -> Routers]
    /\ scope \in [Tasks -> SUBSET Subjects]
    /\ want \in [Tasks -> [Subjects -> Nat]]
    /\ ended \in [Tasks -> SUBSET Clients] /\ got \in [Tasks -> SUBSET Profiles]
    /\ states \in [Tasks -> [Links -> Sector]]
    /\ pending \in [Tasks -> SUBSET Links]
    /\ moves \in [MoveNames -> Nat]

\* A running boost is taken away by nobody but a person, who ends it or removes the
\* subject's row: not by the job that purges, which read the boosts that were over
\* before it deletes them.
ByHand == \E n \in {"clear", "override"} : moves'[n] < moves[n]
RunningBoostKept ==
    [][\A c \in Clients : boost[c] = "running" /\ boost'[c] = "none" => ByHand]_vars

\* Once nothing moves any more, with writing allowed, every queue has the rate it
\* is due by the tables: a boost that is over, a slot that changed, a schedule
\* edited and a tightening given back have all reached the routers, whatever pass
\* assembled its rates before and sent them after.
Allowed == enforcement /\ \A r \in Routers : writable[r]
AsDue   == \A x \in Subjects : held[x] = Rate(profiles, x)
Converges == <>[]Allowed => <>[]AsDue

\* What the loop takes it gives back: a sector that is rated and sound for good, or
\* a loop that is off for good, ends with no tightening.
Sound(l) == loopOn /\ Rated(l) # {} /\ Cardinality(Degraded(l)) < MinDegraded
GivenBack ==
    /\ \A l \in Links : <>[]Sound(l) => <>[](trim[l] = Full)
    /\ <>[]~loopOn => <>[](\A l \in Links : trim[l] = Full)
=============================================================================
