# freeQoS: a verification of the controller

freeQoS is a controller beside a wireless provider's network: it reads routers and antennas,
stores what it measures, and writes CAKE queues and firewall rules on MikroTik routers. It is one
Python process, all asyncio: some fifteen periodic jobs (`src/app/scheduler.py`,
`src/app/container.py`) and a FastAPI application share the services, the connections to the
routers and a PostgreSQL database. There is no lock around a router, a table or a cache: whatever
two coroutines read before an `await` may be stale when they write after it. What the program does
under those interleavings, with failures, restarts and an operator who works on the same routers,
is what this project models, checks and proves.

## 1. Inventory

| Part | State it keeps | Operations | What makes it correct |
|---|---|---|---|
| Planner, `enforcement/planner.py`, `models.py` | none (pure) | `desired_state`, `masked_queues`, `build_plan` | a plan with nothing to do means the rates are in force; parents before children; no row of others |
| Writing path, `services/shaping.py`, `enforcement/routeros.py` | flag and switches, write history, frozen lines, reports | `plan_router`, `apply`, `enforce_*`, `reconcile` | every command passed the gate; convergence; answers that match what was done |
| Rates in force, `shaping.py`, `qoe_loop.py`, `enforcement/schedules.py`, `topology_repo.py` | policies, boosts, schedules, tightenings; the schedules in memory, the last slot | `expire_boosts`, `apply_schedules`, `adjust_for_qoe`, `set_boost`, `set_policy` | every change of rate ends on the router; no boost purged while it runs; a tightening is given back |
| Restrictions, `services/restrictions.py`, `enforcement/restrictions.py` | rules, their recorded state | `apply_all`, `lift`, `plan_restrictions`, `plan_lift` | what is said to be restrained is, and nothing else; the operator's lines are untouched |
| Services, plans and audit, `api/model_v1.py`, `model_repo.py`, `api/static_clients.py`, `api/plans.py`, `services/plans.py`, `unplaced.py`, `shaping.py` | records, waiting services, plans, packages, audit reports | push, withdraw, place, enter by hand, page of plans, audit | what is sold is held, what is withdrawn is not; a record entered by hand is not taken over |
| Router inventory, `services/registry.py`, `api/routers_admin.py` | the collectors, marks (hidden, read only), boxes | `reload`, create, change, remove, purge | an older inventory never replaces a newer one; a closed switch stays closed |
| Scheduler and setup, `scheduler.py`, `provisioning.py`, `container.py` | one task per job, the setup in progress | loops, `run_once`, timeouts | a timeout leaves a usable state; every setup ends |
| Collection, `services/collection.py`, `rates.py`, `rtt.py`, `pop_match.py`, `vlan_sites.py`, `db/directory.py`, `db/writer.py` | last counters, identifiers, cursors of the probe | one cycle, the probe, the plans job | no rate across two counters; each client measured in turn; the batch is written |
| NetFlow, `services/netflow_service.py`, `flows.py`, `flows_repo.py` | templates, open window, translations, exporters | decode, aggregate, flush, declare | a volume counted once, for the right client; a hand declaration kept |
| Topology, `collectors/topology.py`, `config_graph.py`, `shaping.discover`, `topology_repo.py` | the graph, what is remembered of each router | discover, save, reconcile, merge, forget | one box per router, links that exist, no cable lost, one parent |
| Client census, `collectors/pop_census.py`, `vlan_clients.py`, `static_clients_repo.py` | sightings, declared clients, the tree | census, candidates, redraw | nobody missed by a clean census; a partial one only adds |
| Accounts and settings, `api/accounts.py`, `api_keys.py`, `settings.py`, `users_repo.py`, `runtime_config.py` | accounts, sessions, keys, settings, and their memory | login, verify, update, delete, set | an editor remains; a right withdrawn is withdrawn at once; a restart changes no setting |
| Destinations and names, radio reading, cryptography, screens, build | tables and caches | | not modelled: lookups, arithmetic, libraries, presentation |

How they interact: the collection, the census and the discovery read the routers of the inventory;
services, plans and boosts give the *rates*, the topology and the census say *where*; a *pass* (a
job, a person's gesture, an API call) assembles the desired state from the database, reads the
router, computes a plan and sends it one command at a time through one gate
(`ShapingService.apply`). Restrictions go through the same gate with their own planner. Jobs and
gestures meet only in the database, in the process's memory and on the routers.

The hard behaviours, each at its line, are the `hazards` of `PROJECT.json`: forty, each with the
properties that would see it go wrong.

## 2. Modules

```
QueuePlanner <- ShapingService <- MCShaping (3 runs)      RouterContract (INSTANCE, batch <- todo)
                                                          ShapingServiceProofs
Restrictions <- RestrictionService <- MCRestrictions      OrdersProofs
RateSources <- MCRates                                    OrdersProofs (INSTANCE)
ServiceTargets <- Services <- MCServices                  OrdersProofs (INSTANCE)
Inventory <- MCInventory                                   InventoryProofs
FlowAggregator <- NetFlow <- MCNetFlow                    NetFlowProofs
Placement <- Collection <- MCCollection                    CollectionProofs
TopologyGraph <- Topology <- MCTopology                   TopologyProofs
CensusTables <- Census <- MCCensus                         CensusProofs
Desk <- MCDesk                                            DeskProofs
```

The convention is the same everywhere: the left module of a pair is the pure part (an operator per
function of the code), the right one the state machine. A task is a coroutine, its `phase` (or `pc`)
is the `await` it is at, and what runs between two awaits is one action. `moves` (or the story of a
behaviour) bounds what the environment and people do; jobs run without bound. A comment
`Mutant:` marks a form of a definition with a plausible error, which its property must refute.

**QueuePlanner** translates `planner.py`. A router's list is a function from `.id` to a row
(`Absent` if none); ids are given in increasing order, so the order of the ids is the order of the
list, as RouterOS appends. `Desired` is `desired_state`; `Maskers`, `Carriers` are `masked_queues`
and the search for third-party queues; `Ambiguous` compares the members of two targets as they are
written (`Members`), so that an address and a network around it (`Blocks`) are no dispute;
`SubjectVerdict`, `ThirdVerdict`, `UnwantedVerdict` are what `build_plan` says of one queue and
`BuildPlan` of them all; `Accepts`, `Effect` and `Held` are RouterOS, from how the code uses it
(duplicate names, missing parents and missing ids are refused; the first enabled queue of the list
on an address is the one that throttles).

**ShapingService** is the writing path on one router: `targets` (the database), `inspect` (the
router), `decide` (no await between the plan and the first command: the whole of
`_enforce_one`/`reconcile`/`apply` up to there, gate and oscillation filter included), `exec` (one
command per action: `Sends`, `Refused`, `ConnectionLost`), then `Finish`. Four kinds of task:
`Loops` (never prune, need the flag), `Humans` (pass without the flag unless it is forced off),
`Apis`, `Appliers` (the whole plan, pruning). **RouterContract** is the abstract specification: what
the controller promises about a router, whatever computed the plan; `ShapingService` implements it.

**Restrictions** and **RestrictionService** are the firewall rules: rows of address lists and of
three tables, `PlanRestrictions`/`PlanLift` with the order of their commands (`Sooner`, `Turn`);
then passes of the job and of people over several routers, the operator's own lines beside them, and
the one state recorded for all the rules at the end (`RecordsPass`, `RecordsLift`).

**RateSources** holds the ladder of rates (`EffectiveRate`: boost, override, schedule, plan;
`ShapedCapacity`: capacity, floor, tightening), the decision of the QoE loop and the jobs
`reconcile`, `expire_boosts`, `apply_schedules`, `adjust_for_qoe` beside people's requests. Here the
reading of a router and the commands to it are one step: their finer interleaving is the matter of
ShapingService, which in turn takes the rates as an input.

**ServiceTargets** is what the routers should hold for a set of records and sessions and what the
audit and the pages say of it; **Services** is who changes it: the PUT and DELETE of the billing
statement by statement, the placing job (which takes the same write path from a listing read
earlier), the records entered by hand, the plans page, the plans job, reconciliation and cleaning of
a router, the two audits (background and on demand, with its cache), and a world in which sessions
open elsewhere, equipment is seen and packages change. Any exchange with a router may fail
(`ReadFails`, `SendFails`, `CleanFails`, `ReconcileFails`), which leaves its rows as they were; an
audit reads the firewall, or does not when the account may not (`hidden`, `Firewall`).

**Inventory** has the merge of file and database (`reload`), its two awaits and its marks, the
requests that create, change and remove routers, the jobs that hold the list across an await
(`subscribers` pairs answers with a list read again; `topology` purges boxes), `run_once` beside a
loop, and the automatic setup with its step timeouts. `overtaken` follows, for each reload under way,
the closings that were answered after its first reading.

**FlowAggregator** counts one record (owner, direction, duplicates, translated returns, uses) and
closes a window; **NetFlow** receives datagrams in any order or never, with templates per exporter,
flushes, declares exporters and reads the declarations again while people edit them. `spoken` and
`heard` are observations: the uploads the table of translations may still remember, and the records
of the open window, each with what was known of its upload when it came (`known`) and its `place`
among those that wait. They are what `ReturnIsItsOwn` compares the volumes with.

**Placement** decides which site a client belongs to and which counter is its own, and derives
rates (`rates.py`); **Collection** is the cycle read by read, its caches of identifiers, the batch
that is written or refused as one, the round-robin probe, the plans, and the deletions that run
beside them. `sent` and `shifts` are observations: what each subscriber has sent, and how often what
counts it changed (a session that ends or opens elsewhere, a queue around it, a record of its VLAN,
the router it is declared on). `RateIsOwn` is about the rows of which the two readings saw no shift.

**TopologyGraph** is one discovery, from what each router answered to the graph: identities, hints,
links by neighbourhood and by subnet, orientation, radios, clients, reciprocal links, and the fold
of the boxes served. **Topology** lets two discoveries overlap, routers stay silent, the process
forget, the operator merge, link and hide, the network be rewired.

**CensusTables** is the verdict on every address of a router's tables; **Census** is the reading
table by table, what is recorded, the candidates shown, declarations and the tree drawn behind them.

**Desk** is what people and applications ask: each query of a request is a step; sessions verified
are kept in memory; accounts, passwords, keys and settings change under them.

## 3. What the runs show

| Run (distinct states) | Instance | Shows |
|---|---|---|
| `ShapingPlan` (953 847) | one loop, a PPPoE client and one with a fixed address, or a network around the first, one link, two addresses, two rates, three changes of policy, session or list | `GreenPlanIsHeld`: "unchanged" only for a client really throttled at its rate, masking included. `ParentsFirst`: a parent is there or created before (a link a third party holds is the named exception). `PageIsExact`: what the inventory page deduces. `FrozenIsLeftAlone`: a frozen line is not rewritten |
| `ShapingContract` (840 836) | loop, API gesture and apply button, adoption on, two moves among switch, flag, restart, lost connection, another's row | `KeepsContract`: the refinement of RouterContract |
| `ShapingConverges` (68 755) | loop and a person, every fault, one move, fairness | `Converges`: once the environment is quiet with writing allowed, nothing is left to write. `HeldOrFrozen`: a gesture answers "held" only for an aligned queue, a command acknowledged, or a frozen line |
| `Restrictions` (412 558) | two routers, the job and a person, a rule to lay or already in place, one change of any kind, fairness | `AimedExactly`: with nothing left to write, the rule restrains what it names and nobody else, four named exceptions apart. `OperatorLinesKept`. `Converges`: nothing left to write, no suspended rule recorded as in place |
| `Rates` (128 905) | four jobs and a person, one client on one sector, two moves at a time, fairness | `RunningBoostKept`, `Converges` (every queue ends at the rate the tables give), `GivenBack` (a sound sector loses its tightening, a loop that is off leaves none) |
| `Services` (44 628) | two routers, one with a VLAN site, two services, one subscriber, three addresses; stories of at most two requests, jobs and moves of the world, an exchange with a router that may fail, a firewall that may be unreadable, fairness | `HandIsKept`: a record entered by hand is not taken over. `Delivered`: what was sold ends on the router of its address at its rate, and pages and report say what binds, the report as far as the firewall could be read. `Gone`: a row nobody answers for was left by a race or by a withdrawal that failed, both named |
| `Inventory` (359 127) | a file router nobody touches, one people act on, one they declare; the database comes and goes; a setup; fairness | `UntouchedKept`. `ShutStaysShut`: only a reload that began before the closing was answered opens the switch again, until the next. `Converges` (memory, collection, switches and boxes end at what file and database say), `SetupEnds` |
| `NetFlow` (102 589) | three exporters, two clients and a stranger behind one public address, two interfaces; fairness | `CountedOnce`, `AppsAddUp`. `ReturnIsItsOwn`: a return is one unit for the subscriber of its upload, as it comes when the upload was heard, and at the closing when it waited. `HandStays`, `Converges` |
| `Collection` (101 569) | two routers, PPPoE and static clients, queues and VLAN interfaces; eleven stories, each of one or two moves of its kinds; fairness | `RateIsOwn`: never more than the subscriber sent between the two readings. `Settles`: the whole batch is written, plans and sites follow. `EveryoneIsProbed` |
| `Topology` (180 052) | nine networks of a core, two PoPs and an undeclared device; two discoveries at once | `OneBoxEach`, `LinksAreCables`, `NoCableLost`, `OneParent` |
| `Census` (36 271) | four routers (bridge with VLAN filtering, VLAN and PPPoE side by side, transit network, declared ranges), tables that fail or change during the reading; fairness | `OkRunMissesNobody`, `RunsOnlyAdd`, `CandidatesSettle`, `TreeFollows` |
| `Desk` (1 603 573) | two accounts, three sessions, one key, one setting, two requests at once, four moves in ten stories | `EditorRemains`, `TakenAtOnce`, `OldPasswordsOut`, `RestartAgrees` |

Every property has a mutant: the definition of the model that translates the code it is about, with
one plausible error (`mutants` of `PROJECT.json`), under which the run refutes it.

**Bounds.** `MaxRows` bounds the rows a router ever held (ids are never reused); it is above what
the moves of a run can create, and an `add` beyond it waits. `MaxMoves` and the stories bound the
environment and people: jobs run without bound. Two addresses and two rates are what masking and
rate changes need: one right value and one wrong one. Two clients are needed for one to take the
other's address; three changes for A, B, A, which is what the oscillation filter is about. Two
routers are enough for a pass to be between them. In MCRates the scenarios are pairs of moves of
which the second disturbs a pass that the first started; `Recovery = 2`, `Floor = 8` tenths and
`Step = 1` make a sector go down twice, wait and come back. In MCServices and MCTopology a story is
the smallest world in which two given writers can meet: the push and the placing job, the withdrawal
and the reconciliation, twins of one image, a cable that moves, a client that changes router. In
MCNetFlow a record is one unit of volume, and a window or a memory ages by the number of flushes it
outlived. In MCCensus time is a number of retentions. In MCDesk two requests are what a race between
a check and a write needs, and one session per account makes the limit bite at the second login.
Deadlock is checked in `ShapingPlan`, `ShapingConverges`, `Inventory` and `Census`; elsewhere the
moves may run out while nothing is left to do.

**Fairness.** Only what asyncio, the timeouts of every call and the scheduler guarantee: a task that
may proceed does, and a periodic job starts again. Two strong fairness conditions: in Census time
passes (`Tick` waits for a run in between), and in Services an audit succeeds in the end although a
router may fail many of them (`AuditReads`); without the latter the report kept is the last good one
for ever, as the code intends. No fairness is asked of people, of faults or of any move of the
environment, so a convergence property means: after the last move, whenever it falls.

**Exceptions are named.** Where the code does not keep a statement in every case the property spells
the case out rather than dropping it: `crossed`, `raced`, `torn`, `broken`, `slow`, `late`, `shifts`
are observations of exactly the race that is excused, `Foreigners`, `OneSubnet`, `Lookalike`,
`Passes`, `NotTold`, `Touched` conditions on the network. Section 5 lists what they stand for.

## 4. What is proved

All proofs are for every value of the constants under the named assumptions of the modules (types of
the parameters, disjointness of names, what the stories start from). No bound of a run is used. A
hypothesis a theorem adds to them is part of its statement, and given here with its reason.

| Theorem | Statement | Hypotheses |
|---|---|---|
| `BuildPlanSound` (ShapingServiceProofs) | for any list and any desired state, `BuildPlan` gives well-formed verdicts; a `set` names a row of ours, or a third party's for its rate alone with adoption on; a `remove` names a row of ours, and there is none without pruning | |
| `TypeCorrect`, `PlansInFlightHold` (same) | the types; each command still to be sent names a row of ours, a third party's for its rate, or a row that is gone, whatever happened since the plan was computed | |
| `ContractKept` (same) | `Spec => KeepsContract`, the refinement of RouterContract | |
| `ParentsReady` (same) | `Spec => []ParentsFirst` | |
| `PageExact` (same) | `Spec => []PageIsExact` | no adoption |
| `GreenIsHeld` (same) | `Spec => []GreenPlanIsHeld` | no adoption; `ClientsAreLeaves` |
| `HeldIsEarned` (same) | `Spec => HeldOrFrozen` | no adoption; `MaxActions >= 2` |
| `FrozenStaysFrozen` (same) | `Spec => FrozenIsLeftAlone` | the only task is one loop |
| `OperatorSafe`, `AimIsExact` (OrdersProofs) | `Spec => OperatorLinesKept`, `Spec => []AimedExactly` | |
| `BoostsAreKept` (OrdersProofs) | `Spec => RunningBoostKept` of RateSources | `RatesData` |
| `UntouchedStays`, `ShutHolds` (InventoryProofs) | `Spec => UntouchedKept`, `Spec => ShutStaysShut` | |
| `HandRecordsKept` (OrdersProofs) | `Spec => HandIsKept` of Services | `ServicesData` |
| `RunsAdd` (CensusProofs) | `Spec => RunsOnlyAdd` | `Retention \in Nat`, `NotAFunction(None)` |
| `NobodyIsMissed` (same) | `Spec => []OkRunMissesNobody` | `Deployment` of Census, `NotAFunction(None)` |
| `RatesAreTheirs` (CollectionProofs) | `Spec => []RateIsOwn` | `Deployment` of Collection, `NotAFunction(None)` |
| `HandsStay`, `UsesAddUp` (NetFlowProofs) | `Spec => HandStays`, `Spec => []AppsAddUp` | |
| `ReturnsAreTheirs` (same) | `Spec => ReturnIsItsOwn` | `EndsAreTold`, `PortsTellApart` |
| `NoneCountedTwice` (same) | `Spec => []CountedOnce` | `EndsAreTold`, `OncePerInterface` |
| `SettingsSurvive`, `EditorStays` (DeskProofs) | `Spec => []RestartAgrees`, `Spec => []EditorRemains` | |
| `CacheIsRight`, `OldSessionsClose` (same) | `Spec => []TakenAtOnce`, `Spec => []OldPasswordsOut` | |
| `CablesStay`, `ParentIsOne` (TopologyProofs) | `Spec => []NoCableLost`, `Spec => []OneParent` | |
| `TreeIsCabled` (same) | `Spec => [](Identified => LinksAreCables)` | `Identified`, of the networks of the story |
| `RoutersHaveOneBox` (same) | `Spec => [](Identified /\ MacsKept => OneBoxEach)` | `Identified`, `MacsKept`, of the same |
| `RoutersKeepTheirBox` (same) | `Spec => []BoxesApart`: a router has its box, no other is folded into it, it is the one shown and no subscriber takes it, or the operator merged one of its boxes | |

*The hypotheses.* Without adoption is the default (`shaping_adopt_foreign_queues`, `config.py:553`);
with it the page and the plan do disagree (section 5). `ClientsAreLeaves`: no third party's row, at
first or later, has a client's queue as parent; under RouterOS such a client's queue would no longer
be the one that throttles. `MaxActions >= 2`: a gesture may have to create a link before its client
(the default, `enforcement_max_actions`, is 500); with room for one command the plan of two is
refused whole, and what the gesture answers is about a plan that was not sent. A line is frozen in
the memory of the loops only, so another task writes it: that a frozen line is left alone is a
statement about a loop alone, as the run has it. Links are ranked before clients, which is the order
of `build_plan`; it is an assumption of ShapingService. The three hypotheses of NetFlow say what a record
tells of the packet it reports, and the instance satisfies them (`MCNetwork`, which TLC evaluates).
`EndsAreTold`: clients alone have the addresses of clients, they talk to servers, and no translation
gives back such an address. `OncePerInterface`: a router reports a packet once on each of its
interfaces and always as the same flow, which is what telling a repeated export by its interface
needs (`netflow_service.py:262-293`). `PortsTellApart`: an upload is reported with the address of
its client and the port its returns come to, and for one server no port, private or translated, is common to two clients. A masking
edge that translates keeps its own ports apart; section 5 says what happens when private ones
coincide with them. `RatesData` and `ServicesData` are the assumptions of RateSources and Services,
which OrdersProofs restates because its theorems are about an instance of each. `NotAFunction(None)`:
the absent value is no record, which TLA+ leaves open; the instances give None a model value.
`Deployment` of Census says that a table of a router is rows, read once by a run, and, the one
condition on the network (`LooksUpAtHome`), that an address looked up in vain on a PPPoE interface
lies in no network of another interface: otherwise a client could be missed (section 5).
`Deployment` of Collection says what makes two subscribers two: sessions have addresses of their own
and a queue on one takes no other's traffic; what lies within a network of a VLAN is that VLAN's;
the queues around an address are nested, as networks are; the clients of a VLAN are declared at one
place. Nothing is asked of what happens, only of how the plant is addressed. Both definitions are in
the modules, and TLC evaluates them on the instances (`MCDeployment` of MCCensus and MCCollection).
The two hypotheses of Topology say what makes two devices two. `Identified`: every port has a MAC;
no device ever has an address of a router of the inventory, nor a name another device is known by,
the names that say nothing aside (`GENERIC_NAMES`); and devices that share a MAC each say a name.
`MacsKept`: the routers keep their MACs from one network of the story to the next. Silences, clones
of one MAC, twins of one serial number, what a process forgets and every gesture are left free.
Without `Identified` the discovery cannot know: a template address that two routers carry, and that
only one of them is read to have, is that one's. `MacsKept` is for the boxes of the hardware a router
no longer has. `MCIdentified` of MCTopology evaluates both: all stories keep their MACs, and all but
one, whose clones share an address and which TLC alone covers, are `Identified`.

*The invariants.* None of these statements is inductive by itself, mostly for the same reason: what
is written was decided on a reading made earlier. Each proof says what a decision in flight still
means.

- *Queues.* `IInv` is `TypeOK`, `FreshIsFresh` (no row beyond the next id), `PlansHold` (commands in
  flight), `BatchesArePlans`, `LoopsNeverPrune`. An id is never given twice and a row never changes
  hands (`RowsKept`), so plans in flight survive every step (`PlansSurvive`); `Inspect` establishes
  `PlansHold` by `BuildPlanSound`, and `ContractKept` maps the actions one by one.
- *What a plan says.* `ParentsFirst`, `PageIsExact` and `GreenPlanIsHeld` are about the plan of the
  list of now, so that their proofs are lemmas about `BuildPlan` for any list: a link that is wanted
  and missing is added; the parent of a client is the most precise link that carries it, or its
  sector (`MostPrecise`, on finite sets); a row not masked and not disabled is the first that sees
  its address (`AlignedRowHolds`), which needs that nothing hangs under a client's queue
  (`NoClientCarries`, kept by every step since our own rows hang under links only).
- *What a gesture answers.* `AnswerInv`: each verdict of a plan is about its subject, and every
  command of the plan of a gesture is still to be sent, acknowledged, or about a frozen line.
- *Frozen lines.* `FrozenInv`: two subjects of a plan never write the same row, a frozen row exists
  or existed, and none of the commands to be sent writes one.
- *Restrictions, the operator's lines.* `CommandInv`: numbers are given once, and commands in flight
  name rows that are ours or gone, also those of a move in two commands (remove, then add again
  elsewhere). The order of each table lists exactly its rows, which is what "before" means.
- *Restrictions, the aim.* `AimIsExact` reads an empty plan row by row: every entry wanted is in its
  list and no other is, every line wanted is there, enabled, with the action wanted, and nothing of
  the operator's decides before it; then the first line that decides for a client and a destination
  is the rule's, and for a client that was not chosen it is not.
- *Services.* `WriteInv`: who is between a check and its write saw a record that was not by hand; a
  record that became one since is the entitlement the property names, so that the theorem excludes a
  write without a check and not the race of the two statements (section 5).
- *Inventory.* `WorldInv` and `RegistryInv`: no mark is on an untouched router, and the registry has
  each of them as the file says, on one connection. `ShutInv`: a closing that was answered is in the
  database, and for a file router in the last marks read, which is what an unreadable database
  leaves. `TasksInv`: what a task carries across its awaits has no mark on an untouched router and
  lists them all, and a reload no answer overtook carries every closing answered. The setup never
  reloads (`SetupInv`).
- *NetFlow, the declarations.* `DeclarationInv` ties a pending automatic declaration to the row its
  reading saw. A recognition whose reading saw the choice leaves it alone; the statement asks for
  that (`Kept`), and names the export job, which declares over whatever is there.
- *NetFlow, the returns.* `PairingInv`: an upload that `spoken` remembers has its entry in the
  translation table under each of its ports, no older than itself, and whoever is entered there is
  the subscriber of an upload of the same conversation. So a return whose remembered uploads are one client's is credited
  to that client as it comes (`ReturnsCreditAtOnce`). `DueInv` keeps count of the open window: every
  return owed to a subscriber has been credited, or holds a place of its own in the waiting list and
  will be named there. The replay then pays them in turn (`ReplaysPay`, `EmptiedPays`), and
  the row of a point is at least what any one of its exporters brought (`RowPays`), which gives
  `PaidAtClosing`.
- *NetFlow, the counts.* `WindowInv`: a window is made of credits given at points of view that exist,
  and each credit counts for its client and for one use alike, which the choice of an exporter and
  the sum over uses in `BatchOf` preserve. `CountedInv`: an exporter is credited for a packet once,
  by the first interface that reports it, so that per exporter and direction what is counted plus the
  returns still waiting is at most the passages heard (`CountInv`), and the batch takes one exporter
  (`BilledInv`). The replay is a recursive function on the waiting list; `ReplaysSteps` shows by a
  least counterexample that it satisfies its equation, and the facts about it follow step by step.
- *Boosts.* Only types are needed: the purge keeps what is running because it tests the expiry again
  in the statement that deletes, not because of what it read before.
- *Settings.* `Sound`: a setting nothing crossed or cut is either what its row gives back, or exactly
  one request has its row to write, and that row says what is in force.
- *Accounts.* `EditorInv`: before the first account nothing on its way can touch accounts
  (`Unborn`); after, somebody may edit and whoever is about to remove an editor leaves another
  (`Safe`). The count was read when that was so; only another removal can make it false, which is
  what `crossed` tells.
- *Sessions.* `SessionInv`: what the memory says of a session, and what a verification is about to
  note there, is what the database says, or a request is about to empty the memory (`Seen`); a
  session has proved the password in force, or the request that changed it is still to close it
  (`Settled`). A token is never given twice, so a note cannot come to speak of another session.
- *Census.* `ReadingInv`: the router's tables, and those read so far, are versions the story gives
  it, and what was not read, or could not be, is empty. The rest is a lemma about the pure verdict
  (`NobodyMissed`): when the tables the code says degrade nothing are missing (`Lacks`), whoever the
  complete reading takes for a client the poorer one does too, trace by trace and subnet by subnet.
- *Rates.* A rate is the difference of two readings, maybe cycles apart, under a key; what counts may
  change between them and come back. `Inv` has four parts. `WorldOk`: counters are numbers, and no
  two sessions have one address. `TrackerOk`: the point of reference of a key is behind its counter
  by no more than the subscriber sent since it was noted, unless its `shifts` moved since, and a
  VLAN's counter speaks for its only client. `CycleOk` says the same of whatever the running cycle
  has read and not yet used (files, records, ports, sessions, in the order in which the code awaits
  them): each is behind its counter by no more than what was sent since the cycle began, when nothing
  shifted since. `ListOk`: the routers being asked are a list. A step of the world (`Steady`)
  either leaves the counters of a subscriber and its traffic alone, or adds one to both, or shifts
  it. That a static client's counter is one key (`Measured`) rests on `Nested` (the nearest queue
  around an address is the same in two readings that hold the same queues) and on `VlansTellApart`
  (the sole client of a VLAN, `SoleVlan`).
- *Topology.* The graph of one discovery is followed operator by operator (`LaidSound` ...
  `MirroredSound`, then `DiscoveredWhole`): every link between two routers starts from the router that
  found it, so a mark always goes from a router to one that comes before in the list, and names the
  link that comes back. `Tree` says the same of the links of the database; it survives a merge because
  a key fixes both ends, and the original of a mark leaves only with one of its two routers
  (`OriginalOfMark`). Two discoveries cannot mark both links: each router would come before the other.
  `OneParent` needs the references of clients to be unique, as the table has them
  (`schema.sql:66`), and that whatever a discovery lays under a client or a VLAN counts as declared,
  so that the next discovery which declares anything clears what it did not lay again. What is a
  router's box is `Labelled`: through every step of a discovery and every save, a managed box is a
  router's and no subscriber's, any other has one MAC and no serial number. So two boxes no hand
  merged are one equipment only when the MAC of the one is a single router's (`NearFamily`), and
  however far `Reach` goes it stays with that router (`MembersFamily`).

- *Topology, the truth of the tree.* `TrueHolds` says that what the process remembers, the graphs to
  be saved, and the boxes and links of the database are true of the networks so far: an address or a
  loopback remembered was the router's (`MemoryIn`), a router's box has its MACs or none and a
  neighbour's has its one MAC (`BoxIn`), a link is a cable in the sense of the property (`CableIn`).
  All of it is monotone in the networks seen and in the routers missed (`Wider`), so that what was
  true stays so when the network moves on, and only a reading has to be followed (`DiscoveredTrue`,
  operator by operator). There, what is seen under one key is one device (`OneDevice`: MACs that two
  names share are not keys), and a neighbour that gives way to a router is that router, or carries a
  MAC of it without having been read (`ResolvedTrue`), which is what `Lookalike` excuses. For
  `OneBoxEach`, a box that stands for a router alone is known by a MAC no other router's box has, and
  folds into it in the first step of `Reach` (`MacFoldsIn`); or by a name, and then the router
  shared a MAC and was missed once, which is `NotTold`.

*Only model-checked:* every liveness property (fairness and `ENABLED` are not in the prover's
reach), and what Topology says where devices are not `Identified`. The `TypeOK` of modules other than
ShapingService is a statement for the reader: neither a run nor a theorem is spent on it. Facts about recursion are proved where a recursive function can be followed by a
least counterexample, as in NetFlow and Topology; the general theorems on induction cannot be used.

## 5. Not modelled, and why

Whole components: the naming of destinations, the radio readings, cryptography, the screens and the
build hold no state that another component decides on, or only call libraries. In the modelled parts:

- *Queues and rates:* CAKE queue types (a plan writes them first, all queues share them), IPv6 and
  per-direction rates (each repeats the case modelled), the calendar of schedules (an instant is a
  slot). The read of the flag and the first command are one step, as no `await` separates them. In
  RateSources the scores and the states of a QoE pass are read as one.
- *Restrictions:* site scopes, pinned routers, protocols and ports, dry runs.
- *Services:* site names are already normalised; access points, the RADIUS provider, networks known
  by VLAN alone, parents and links of sites, usage, renaming of a record; locating an address is one
  step; an upsert and its read-back are one step; writing is enabled (the switches are in
  ShapingService); schedules and boosts.
- *Inventory:* secrets and their key, the test of a connection, the discovery of a role, the period
  changed during a sleep, verdicts of the health page, shutdown.
- *Collection:* the rate a client that no counter counts is given from NetFlow's own window
  (`collection.py:585`; its row here has no step, and `RateIsOwn` is about the rates of counters);
  one direction of counters, ports and backhauls, antennas, the path prober, scores
  (arithmetic without state).
- *NetFlow:* a return named without its port, for the only client known of a server (`flows.py:601`)
  is counted, and outside `ReturnIsItsOwn`; the bytes of a datagram, the commands of the export, the capacity of the translation
  table; a failed write of a window has no effect but its loss.
- *Topology:* capacities, platforms, names, layout, IPv6 link-local addresses, interface stacks
  beyond VLANs, enrolment of antennas; the reading of all routers of one discovery is one step.
- *Census:* one router; interface stacks, comments, counts and remarks, routed prefixes in blocks,
  the limit of 200 candidates; a record is the set of its networks.
- *Desk:* login throttle, journal, same-origin checks, `AUTH_ENABLED=false`, password rules; a key
  that expires is one disabled.

RouterOS, the database and the network are modelled from how the code uses them and marked external.

### Disagreements met while modelling

*Between the code and what it says of itself:*

- a gesture answers "held" though the oscillation filter dropped its only command
  (`shaping.py:2490`, comment at 2480); a plan of conflicts only is never logged (2911, 2918); a
  disconnected client's queue keeps the address of the next (2909, docstring at 2875);
- a link whose segment a third party's queue holds is not created but is still named as parent
  (`planner.py:823`, 805); with adoption on the inventory page says "held" of a client whose rate is
  to be aligned (`shaping.py:2588`), and a nested third-party queue is not looked at (`planner.py:781`);
  a link may be masked by its own children (docstring at 692);
- a rule for clients without known address restrains everybody (`services/restrictions.py:174`,
  `flows_repo.py:388`); a rule widened to everybody keeps lines that name an emptied list
  (`enforcement/restrictions.py:353`, 258); a plan without action is answered "in place" though its
  rule was skipped or in conflict (`services/restrictions.py:395`);
- `scheduler.py:3-5` says executions of a job never overlap, `run_once` (166-171) lets them;
- a boost purged while its router is silent, with the reconciliation disabled, is never taken back
  (`docs/freeqos-documentation.md:1061`); a QoE pass in flight while the loop is switched off and on
  saves an old tightening (1170);
- a stale reload that ends last reopens a write switch just closed (`registry.py:274`, `README.md:720`);
  and if the database is lost between the mark written and the reload that should read it, the closing is
  answered while the memory goes on writing until the next reading that succeeds;
- two clients of whom one has an address in the network of the other both have a queue, and the later
  of the two is masked: members are compared as strings (`planner.py:505`, where 485-487 mean any
  dispute about a member to be seen);
- an unreadable firewall is judged as one without fasttrack: the report says once that it could not
  be read, and yet every queue in it is "en vigueur" and counted as enforced, those that fasttrack
  bypasses included (`limit_audit.py:340`, where 138 and 324 say the verdict does not reassure
  wrongly). `Delivered` therefore asks for the truth about the queues as far as the firewall was read,
  and for `active` to say that it was not;
- a withdrawal whose router does not answer, or refuses, leaves its queue for good: the record is
  gone, the error is only logged (`model_v1.py:387`, `shaping.py:2407-2413`, 2468-2479), and
  reconciliation never prunes. `Gone` names these rows in `missed`;
- "l'API ne touche jamais une fiche saisie a la main" (`model_repo.py:18`) holds of what the check
  read, not of a record entered between the check and the upsert or the erase (342-356, 437-455);
- a core is declared by the export with the view "pop" (`netflow_export.py:731`), where
  recognition takes a core for an edge (`netflow_service.py:684`): its declaration stands until the
  next recognition, which writes over what is automatic;
- a static record disabled is said to be removed from its router (`static_clients_repo.py:231`) and
  is not; a service pushed before its session keeps its own queue beside the session's
  (`shaping.py:1298`, "aucune file en double");
- a census with one more source hides clients: reading routes or peers turns a network into transit
  (`pop_census.py:34`, "les sources s'ajoutent"); and a client whose ARP entry on a PPPoE interface has
  no MAC is missed without an error when the table of PPPoE servers, said to degrade nothing
  (`pop_census.py:140-144`), cannot be read;
- two removals of editors at once may leave none (`api/accounts.py:668`); the limit of sessions never
  empties the memory (comment near 176), which is emptied before sessions are closed elsewhere.

*Races the properties name as exceptions:*

- *services:* a PUT without address beside the placing job, or beside a PUT with one, may leave the
  service in neither table though it was accepted (`model_repo.py:314-433`); the placing job may put
  an older payload back, or re-create a service deleted meanwhile (`unplaced.py:72-106`); a
  reconciliation beside a deletion re-creates the queue; an audit in flight stores its older report
  after the cache was emptied;
- *inventory:* an unreadable database with file routers present erases the boxes of its routers
  (`topology_repo.py:141`); the signature of the purge is recorded before the save (`shaping.py:885`);
  a find by name that fails midway leaves half of the inventory;
- *collection:* the answers are paired with a list read again, strictly (226, 744, 801); an
  identifier noted after its row was deleted makes every batch refused until a restart
  (`directory.py`, comment of `forget_subscriber`); a static client deleted during a cycle is
  re-created; a counter that changes owner under one key;
- *NetFlow:* the declaration of an exporter by the export (720-745) or by a recognition that read
  before overwrites the hand's; a source first heard at the edge then at its PoP is counted at both;
  a failed `write_batch` loses its window (`netflow_service.py:418`); a return of a machine that is
  not declared is credited to the only client that talks to the same server (`flows.py:601`), and
  the translation table has no public address in its key (565-570), so that two clients behind two
  translations with one port for one server take each other's returns;
- *topology:* a template /30 on two unrelated routers makes a false link; a shared address remembers
  its last reader only; a mark is never removed; cleaning by an older discovery erases the box of a
  router just added; a router set aside loses the box the discovery gave it (`shaping.py:889-907`);
- *accounts:* a verification in flight when the memory is emptied is noted afterwards, for thirty
  seconds at most; a login in flight during a change of password opens a session with the old one; a
  setting is in force before its row is written (`api/settings.py:129`);
- *others:* the write locks are read once for a whole plan (`shaping.py:3283`); two passes may lay
  the same restriction twice, an entry disabled by hand is not noticed, a rule that outgrows the
  limit of addresses is removed (`enforcement/restrictions.py:341`, 409); removing an override
  deletes a running boost (`topology_repo.py:632`); a tightening *raises* a link whose override is
  below the floor (`planner.py:312`); a sector that falls silent keeps its cut (`shaping.py:3008`).

## 6. What is left

1. **Proofs:** `LinksAreCables` where two routers share an address (the clones of one configuration),
   `TypeOK` of RateSources with the floor of a tightening.
2. **Larger instances:** two clients on two routers in RateSources; two routers in Census; three
   requests in Services, where a PUT, a DELETE and the placing job meet.
3. **Models:** site scopes and pinned routers of restrictions, renaming and access points of
   services, ownership of queues by two instances on one router (`models.py:32-89`).
