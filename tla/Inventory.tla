----------------------------- MODULE Inventory -----------------------------
(***************************************************************************)
(* The live inventory of routers (services/registry.py), what people do to *)
(* it (api/routers_admin.py, db/routers_repo.py), and the jobs that hold   *)
(* it across an await: the reload, the discovery of the topology, the      *)
(* collection of the subscribers and the automatic setup of a router       *)
(* (scheduler.py, container.py, services/provisioning.py).                 *)
(*                                                                         *)
(* A task is a coroutine; its phase is the await it is at. Everything      *)
(* between two awaits is one action. The loops of the scheduler, the       *)
(* people at the interface and the setup share the registry and the         *)
(* database, with no lock around either.                                   *)
(***************************************************************************)
EXTENDS Naturals, FiniteSets, Sequences, SequencesExt

CONSTANTS
    FileRouters,   \* declared in the file: read only for the interface
    FileHost,      \* their addresses
    FileWrite,     \* what the file allows
    DbRouters,     \* names a person may declare in the database
    NameOrder,     \* the order of the database (ORDER BY name), then of the file
    Hosts,
    Managed,       \* the routers people act on
    Loops,         \* the jobs of the scheduler, a subset of the three below
    People,
    Setup,         \* the automatic setup in the background (bound: one at a time)
    None,
    MaxMoves       \* bound: changes by people and faults

Names == FileRouters \cup DbRouters
Tasks == Loops \cup People \cup {Setup}
NoRow == [host |-> None, enabled |-> FALSE, write |-> FALSE, readable |-> FALSE]

ASSUME InventoryAssumption ==
    /\ IsFiniteSet(FileRouters) /\ IsFiniteSet(DbRouters)
    /\ FileHost \in [FileRouters -> Hosts]
    /\ FileWrite \in [FileRouters -> BOOLEAN]
    /\ NameOrder \in Seq(Names) /\ ToSet(NameOrder) = Names
    /\ Managed \subseteq Names
    /\ Loops \subseteq {"inventory", "topology", "subscribers"}
    /\ None \notin Hosts \cup Names
    /\ Setup \notin Loops \cup People /\ Loops \cap People = {}
    /\ MaxMoves \in Nat

VARIABLES
    \* the database and the network
    table,         \* the routers declared from the interface
    hidden,        \* file routers removed from the interface
    readonly,      \* file routers on which the interface stopped writing
    tree,          \* routers that have a box in the stored topology
    dbUp,          \* the database answers
    deaf,          \* routers that do not answer
    \* the memory of the process
    registry,      \* the collectors, in order: also the list the collection uses
    muted,         \* the read-only marks of the last reading that succeeded
    discovered,    \* signature of the inventory at the last discovery
    credited,      \* last cycle: <<router credited, router that was read>>
    setup,         \* the report of the automatic setup
    task,
    \* observation
    shut,          \* routers whose closing of the write switch was answered
    moves

outside == <<table, hidden, readonly, tree, dbUp, deaf>>
memory == <<registry, muted, discovered, credited, setup>>
vars == <<outside, memory, task, shut, moves>>

Idle == [phase |-> "idle", hid |-> {}, ro |-> {}, rows |-> <<>>, overtaken |-> {},
         held |-> <<>>, closing |-> {}, starts |-> None, purges |-> FALSE,
         ok |-> TRUE, blocked |-> FALSE]

\* The elements of a list that are in S, in its order.
Only(list, S) ==
    LET first[i \in 0..Len(list)] ==
            IF i = 0 THEN <<>>
            ELSE IF list[i] \in S THEN Append(first[i - 1], list[i]) ELSE first[i - 1]
    IN  first[Len(list)]

NamesOf(list) == {list[i].name : i \in DOMAIN list}
Carries(list, n) == n \in NamesOf(list)
Entry(list, n) == list[CHOOSE i \in DOMAIN list : list[i].name = n]
Listed(list) == [i \in DOMAIN list |-> list[i].name]
Signature(list) == {<<list[i].name, list[i].host>> : i \in DOMAIN list}
Writable(list, n) == \E i \in DOMAIN list : list[i].name = n /\ list[i].write

-----------------------------------------------------------------------------
(* Merging the two sources. The file wins over a row of the same name; a   *)
(* hidden name is dropped from both; the interface may stop the writing of *)
(* a file router, never allow what the file refuses.                       *)
Loaded == [n \in {m \in DbRouters : table[m].enabled /\ table[m].readable} |->
              [host |-> table[n].host, write |-> table[n].write]]

Wanted(rows, hid, ro) ==
    LET files == FileRouters \ hid
    IN  [n \in files \cup (DOMAIN rows \ hid) |->
            IF n \in files
            THEN [host |-> FileHost[n], write |-> FileWrite[n] /\ n \notin ro]
            ELSE rows[n]]

WantedOrder(rows, wanted) ==
    Only(NameOrder, DOMAIN rows \cap DOMAIN wanted)
        \o Only(NameOrder, DOMAIN wanted \ DOMAIN rows)

\* A connection stays open while its router stays at the same address.
Opened(wanted, n, id) ==
    [name |-> n, id |-> id, host |-> wanted[n].host, write |-> wanted[n].write]

Staying(wanted) ==
    Only(registry, {o \in ToSet(registry) :
                       o.name \in DOMAIN wanted /\ o.host = wanted[o.name].host})

\* Mutants: every connection is opened again; a kept collector keeps the
\* configuration of its creation.
ReloadedAnew(wanted, order, old) ==
    LET another(n) == IF Carries(registry, n) THEN 3 - Entry(registry, n).id ELSE 1
    IN  [i \in DOMAIN order |-> Opened(wanted, order[i], another(order[i]))]
ReloadedStale(wanted, order, old) ==
    LET new == Only(order, DOMAIN wanted \ NamesOf(old))
    IN  old \o [i \in DOMAIN new |-> Opened(wanted, new[i], 1)]

Reloaded(wanted, order, old) ==
    LET kept == [i \in DOMAIN old |-> [old[i] EXCEPT !.write = wanted[old[i].name].write]]
        another(n) == IF Carries(registry, n) THEN 3 - Entry(registry, n).id ELSE 1
        new == Only(order, DOMAIN wanted \ NamesOf(old))
    IN  kept \o [i \in DOMAIN new |-> Opened(wanted, new[i], another(new[i]))]

-----------------------------------------------------------------------------
(* reload(): two readings of marks, one of the rows, one per row for its   *)
(* number, then the replacement with no await.                             *)
Goes(t, phase) == task' = [task EXCEPT ![t].phase = phase]
Ends(t) == task' = [task EXCEPT ![t] = Idle]
Discovering(frame) == [frame EXCEPT !.phase = "reading", !.held = Listed(registry)]
Collecting(frame) == [frame EXCEPT !.phase = "gather", !.held = Listed(registry)]

\* Mutant: an unreadable table reads as no mark.
AfterMarksForgotten(frame) ==
    [frame EXCEPT !.phase = "rows", !.overtaken = {},
                  !.hid = IF dbUp THEN hidden ELSE {}, !.ro = IF dbUp THEN readonly ELSE {}]

AfterMarks(frame) ==
    [frame EXCEPT !.phase = "rows", !.overtaken = {},
                  !.hid = IF dbUp THEN hidden ELSE {}, !.ro = IF dbUp THEN readonly ELSE muted]

ReadsMarks(t) ==
    /\ \/ task[t].phase = "marks"
       \/ t = "inventory" /\ t \in Loops /\ task[t].phase = "idle"   \* the job starts
    /\ muted' = IF dbUp THEN readonly ELSE muted
    /\ task' = [task EXCEPT ![t] = AfterMarks(@)]
    /\ UNCHANGED <<outside, registry, discovered, credited, setup, shut, moves>>

ReadsRows(t) ==
    /\ task[t].phase = "rows"
    /\ task' = [task EXCEPT ![t].phase = "install",
                            ![t].rows = IF dbUp THEN Loaded ELSE <<>>]
    /\ UNCHANGED <<outside, memory, shut, moves>>

\* A database lost while the numbers are read leaves the rows before it.
RowsInHand(t) ==
    LET rows == task[t].rows
    IN  IF dbUp THEN {rows}
        ELSE {[n \in {m \in DOMAIN rows : m \in ToSet(SubSeq(NameOrder, 1, k))} |-> rows[n]] :
                 k \in 0..Len(NameOrder)}

\* What follows a reload: the job discovers again if the inventory is not the
\* one of the last discovery; a request is answered, starts the setup of its
\* router, and erases what it removed.
AfterReload(t) ==
    IF t = "inventory"
    THEN IF Signature(registry') = discovered THEN Idle ELSE Discovering(Idle)'
    ELSE IF task[t].purges THEN [Idle EXCEPT !.phase = "purge"] ELSE Idle

\* The closings this reload answers, if nobody asked otherwise meanwhile and if
\* the mark was read: the answer says closed even when it could not be.
Answered(t) ==
    {n \in task[t].closing : IF n \in FileRouters THEN n \in readonly \cap muted
                             ELSE ~table[n].write}

Overtakes(u, closed) ==
    IF task[u].phase \in {"rows", "install"}
    THEN [task[u] EXCEPT !.overtaken = @ \cup closed] ELSE task[u]

Installs(t) ==
    /\ task[t].phase = "install"
    /\ \E rows \in RowsInHand(t) : \E wanted \in {Wanted(rows, task[t].hid, task[t].ro)} :
          \E order \in {WantedOrder(rows, wanted)}, old \in {Staying(wanted)} :
             registry' = Reloaded(wanted, order, old)
    /\ shut' = shut \cup Answered(t)
    /\ task' = [u \in Tasks |->
                   CASE u = t -> AfterReload(t)
                     [] u = Setup /\ u # t /\ task[t].starts # None
                            -> [Idle EXCEPT !.phase = "check"]
                     [] OTHER -> Overtakes(u, Answered(t))]
    /\ setup' = IF task[t].starts = None THEN setup
                ELSE [router |-> task[t].starts, state |-> "running"]
    /\ UNCHANGED <<outside, muted, discovered, credited, moves>>

\* purge_removed_routers: a hidden router's row of the same name goes too.
Purges(t) ==
    /\ task[t].phase = "purge"
    /\ table' = IF dbUp THEN [n \in DbRouters |-> IF n \in hidden THEN NoRow ELSE table[n]]
                ELSE table
    /\ Ends(t)
    /\ UNCHANGED <<hidden, readonly, tree, dbUp, deaf, memory, shut, moves>>

-----------------------------------------------------------------------------
(* People. Every request writes the database, then reloads.                *)
Requests(p, closing, starts, purges) ==
    /\ task[p].phase = "idle" /\ dbUp /\ moves < MaxMoves
    /\ starts # None => task[Setup].phase = "idle"
    /\ task' = [task EXCEPT ![p] = [Idle EXCEPT !.phase = "marks", !.closing = closing,
                                                !.starts = starts, !.purges = purges]]
    /\ moves' = moves + 1
    /\ UNCHANGED <<tree, dbUp, deaf, memory>>

CreatesRouter(p, n) ==
    /\ n \in DbRouters \cap Managed /\ table[n] = NoRow
    /\ \E h \in Hosts, w \in BOOLEAN :
          table' = [table EXCEPT ![n] = [host |-> h, enabled |-> TRUE, write |-> w,
                                         readable |-> TRUE]]
    /\ shut' = shut \ {n}
    /\ Requests(p, {}, n, FALSE)
    /\ UNCHANGED <<hidden, readonly>>

UpdatesRouter(p, n) ==
    /\ n \in DbRouters \cap Managed /\ table[n] # NoRow
    /\ \E row \in [host : Hosts, enabled : BOOLEAN, write : BOOLEAN, readable : {TRUE}] :
          LET only == row = [table[n] EXCEPT !.write = FALSE]   \* "seulement coupee"
          IN  /\ row # table[n]
              /\ table' = [table EXCEPT ![n] = row]
              /\ shut' = IF row.write THEN shut \ {n} ELSE shut
              /\ Requests(p, IF row.write \/ n \in FileRouters THEN {} ELSE {n},
                          IF row.enabled /\ ~only THEN n ELSE None, FALSE)
    /\ UNCHANGED <<hidden, readonly>>

DeletesRouter(p, n) ==
    /\ n \in DbRouters \cap Managed /\ table[n] # NoRow
    /\ table' = [table EXCEPT ![n] = NoRow]
    /\ Requests(p, {}, None, FALSE)
    /\ UNCHANGED <<hidden, readonly, shut>>

HidesFileRouter(p, n) ==
    /\ n \in (FileRouters \cap Managed) \ hidden
    /\ hidden' = hidden \cup {n}
    /\ Requests(p, {}, None, TRUE)
    /\ UNCHANGED <<table, readonly, shut>>

RestoresFileRouter(p, n) ==
    /\ n \in hidden \cap Managed
    /\ hidden' = hidden \ {n}
    /\ Requests(p, {}, None, FALSE)
    /\ UNCHANGED <<table, readonly, shut>>

SetsFileWrite(p, n) ==
    /\ n \in FileRouters \cap Managed /\ FileWrite[n]
    /\ readonly' = IF n \in readonly THEN readonly \ {n} ELSE readonly \cup {n}
    /\ shut' = IF n \in readonly THEN shut \ {n} ELSE shut
    /\ Requests(p, readonly' \ readonly, IF n \in readonly THEN n ELSE None, FALSE)
    /\ UNCHANGED <<table, hidden>>

-----------------------------------------------------------------------------
(* The discovery of the topology: it takes the list, reads the routers,    *)
(* notes the signature of the inventory, saves, and forgets the boxes of   *)
(* the routers that are not in its list.                                   *)
Concludes(t, state) ==
    /\ setup' = [setup EXCEPT !.state = state]
    /\ Ends(t)

\* Mutant: a step that fails leaves the report running.
AfterDiscoveryMute(t, good) ==
    IF t = Setup /\ good THEN Concludes(t, IF task[t].blocked THEN "blocked" ELSE "done")
    ELSE Ends(t) /\ UNCHANGED setup

\* The setup reports after its last step.
AfterDiscovery(t, good) ==
    IF t = Setup
    THEN Concludes(t, IF task[t].blocked THEN "blocked"
                      ELSE IF task[t].ok /\ good THEN "done" ELSE "failed")
    ELSE Ends(t) /\ UNCHANGED setup

TopologyStarts ==
    /\ "topology" \in Loops /\ task["topology"].phase = "idle"
    /\ task' = [task EXCEPT !["topology"] = Discovering(@)]
    /\ UNCHANGED <<outside, memory, shut, moves>>

ReadsRouters(t) ==
    /\ task[t].phase = "reading"
    /\ discovered' = Signature(registry)
    /\ Goes(t, "saving")
    /\ UNCHANGED <<outside, registry, muted, credited, setup, shut, moves>>

\* A router that did not answer keeps its box: it is saved as unreachable.
SavesSnapshot(t) ==
    /\ task[t].phase = "saving"
    /\ IF dbUp THEN tree' = tree \cup ToSet(task[t].held) /\ Goes(t, "forgetting")
                                                           /\ UNCHANGED setup
               ELSE tree' = tree /\ AfterDiscovery(t, FALSE)
    /\ UNCHANGED <<table, hidden, readonly, dbUp, deaf, registry, muted, discovered,
                   credited, shut, moves>>

ForgetsRemoved(t) ==
    /\ task[t].phase = "forgetting"
    /\ tree' = IF dbUp /\ task[t].held # <<>> THEN tree \cap ToSet(task[t].held) ELSE tree
    /\ AfterDiscovery(t, TRUE)
    /\ UNCHANGED <<table, hidden, readonly, dbUp, deaf, registry, muted, discovered,
                   credited, shut, moves>>

-----------------------------------------------------------------------------
(* The collection of the subscribers asks the routers of its list and then *)
(* pairs the answers with the list it has by then.                         *)
AfterCollect(t, good) ==
    task' = [task EXCEPT ![t] =
        IF t = Setup THEN Discovering([task[t] EXCEPT !.ok = @ /\ good]) ELSE Idle]

CollectStarts ==
    /\ "subscribers" \in Loops /\ task["subscribers"].phase = "idle"
    /\ task' = [task EXCEPT !["subscribers"] = Collecting(@)]
    /\ UNCHANGED <<outside, memory, shut, moves>>

Paired(held) == {<<registry[i].name, held[i]>> : i \in {j \in DOMAIN held : held[j] \notin deaf}}

PairsAnswers(t) ==
    /\ task[t].phase = "gather"
    /\ LET held == task[t].held IN
       IF Len(held) # Len(registry)             \* zip(strict=True) raises
       THEN credited' = credited /\ AfterCollect(t, FALSE)
       ELSE /\ credited' = Paired(held)
            /\ AfterCollect(t, ToSet(held) \cap deaf = {})
    /\ UNCHANGED <<outside, registry, muted, discovered, setup, shut, moves>>

-----------------------------------------------------------------------------
(* The automatic setup of a router, in the background of a request.        *)
SetupUnchanged == UNCHANGED <<outside, registry, muted, discovered, credited, shut, moves>>

ChecksRouter ==
    /\ task[Setup].phase = "check"
    /\ IF Carries(registry, setup.router) THEN Goes(Setup, "rights") /\ UNCHANGED setup
                                          ELSE Concludes(Setup, "failed")
    /\ SetupUnchanged

\* The rights of the account are read in at most 20 s; a reading that fails
\* does not stop the setup, a router gone meanwhile does.
ChecksRights ==
    /\ task[Setup].phase = "rights"
    /\ IF Carries(registry, setup.router)
       THEN /\ task' = [task EXCEPT ![Setup] =
                  Collecting([@ EXCEPT !.blocked = ~Writable(registry, setup.router)])]
            /\ UNCHANGED setup
       ELSE Concludes(Setup, "failed")
    /\ SetupUnchanged

\* A step that exceeds its time is cancelled wherever it is.
TimesOut ==
    /\ \/ task[Setup].phase = "gather" /\ AfterCollect(Setup, FALSE) /\ UNCHANGED setup
       \/ task[Setup].phase \in {"reading", "saving", "forgetting"}
          /\ AfterDiscovery(Setup, FALSE)
    /\ SetupUnchanged

-----------------------------------------------------------------------------
(* Each loop of the scheduler starts its job again when it has ended.      *)
Proceeds(t) ==
    \/ ReadsMarks(t) \/ ReadsRows(t) \/ Installs(t) \/ Purges(t)
    \/ ReadsRouters(t) \/ SavesSnapshot(t) \/ ForgetsRemoved(t) \/ PairsAnswers(t)
    \/ t = "topology" /\ TopologyStarts
    \/ t = "subscribers" /\ CollectStarts
    \/ t = Setup /\ (ChecksRouter \/ ChecksRights)

Asks(p) == \E n \in Names :
    \/ CreatesRouter(p, n) \/ UpdatesRouter(p, n) \/ DeletesRouter(p, n)
    \/ HidesFileRouter(p, n) \/ RestoresFileRouter(p, n) \/ SetsFileWrite(p, n)

-----------------------------------------------------------------------------
(* The environment: the database and the routers come and go, the key of   *)
(* the secrets is lost, the process restarts. Bounded by MaxMoves, except  *)
(* that what went away may always come back.                               *)
DatabaseComesOrGoes ==
    /\ dbUp' = ~dbUp
    /\ dbUp => moves < MaxMoves
    /\ moves' = IF dbUp THEN moves + 1 ELSE moves
    /\ UNCHANGED <<table, hidden, readonly, tree, deaf, memory, task, shut>>

RouterComesOrGoes(n) ==
    /\ deaf' = IF n \in deaf THEN deaf \ {n} ELSE deaf \cup {n}
    /\ n \notin deaf => moves < MaxMoves
    /\ moves' = IF n \in deaf THEN moves ELSE moves + 1
    /\ UNCHANGED <<table, hidden, readonly, tree, dbUp, memory, task, shut>>

SecretLost(n) ==
    /\ moves < MaxMoves /\ n \in DbRouters \cap Managed /\ table[n].readable
    /\ table' = [table EXCEPT ![n].readable = FALSE]
    /\ moves' = moves + 1
    /\ UNCHANGED <<hidden, readonly, tree, dbUp, deaf, memory, task, shut>>

Boot(rows, hid, ro) ==
    LET wanted == Wanted(rows, hid, ro)
        order == WantedOrder(rows, wanted)
    IN  [i \in DOMAIN order |-> Opened(wanted, order[i], 1)]

\* The start needs the database: it connects, then loads the inventory.
Restarts ==
    /\ moves < MaxMoves /\ dbUp
    /\ registry' = Boot(Loaded, hidden, readonly)
    /\ muted' = readonly
    /\ discovered' = {<<None, None>>}
    /\ credited' = {}
    /\ setup' = [router |-> None, state |-> "none"]
    /\ task' = [t \in Tasks |-> Idle]
    /\ moves' = moves + 1
    /\ UNCHANGED <<outside, shut>>

Init ==
    /\ table \in [DbRouters -> {NoRow} \cup {[host |-> h, enabled |-> TRUE, write |-> w,
                                              readable |-> TRUE] : h \in Hosts, w \in BOOLEAN}]
    /\ hidden \in SUBSET (Managed \cap FileRouters)
    /\ readonly \in SUBSET (Managed \cap FileRouters)
    /\ tree = {} /\ dbUp = TRUE /\ deaf = {}
    /\ registry = Boot(Loaded, hidden, readonly)
    /\ muted = readonly /\ discovered = {<<None, None>>} /\ credited = {}
    /\ setup = [router |-> None, state |-> "none"]
    /\ task = [t \in Tasks |-> Idle]
    /\ shut = readonly /\ moves = 0

Next ==
    \/ \E t \in Tasks : Proceeds(t)
    \/ TimesOut
    \/ \E p \in People : Asks(p)
    \/ DatabaseComesOrGoes
    \/ \E n \in Names : RouterComesOrGoes(n) \/ SecretLost(n)
    \/ Restarts

\* The loops run for ever and every await ends: each call has a timeout.
Fairness ==
    \A t \in Tasks : WF_vars(Proceeds(t))

Spec == Init /\ [][Next]_vars /\ Fairness

-----------------------------------------------------------------------------
Phases == {"idle", "marks", "rows", "install", "purge", "reading", "saving",
           "forgetting", "gather", "check", "rights"}
Collector == [name : Names, id : {1, 2}, host : Hosts, write : BOOLEAN]

\* Types, and one collector per name in the registry.
TypeOK ==
    /\ table \in [DbRouters -> [host : Hosts \cup {None}, enabled : BOOLEAN,
                                write : BOOLEAN, readable : BOOLEAN]]
    /\ hidden \subseteq FileRouters /\ readonly \subseteq FileRouters
    /\ muted \subseteq FileRouters
    /\ tree \subseteq Names /\ deaf \subseteq Names /\ shut \subseteq Names
    /\ dbUp \in BOOLEAN
    /\ registry \in Seq(Collector)
    /\ \A i, j \in DOMAIN registry : i # j => registry[i].name # registry[j].name
    /\ credited \subseteq Names \X Names
    /\ setup.state \in {"none", "running", "done", "blocked", "failed"}
    /\ \A t \in Tasks : task[t].phase \in Phases /\ task[t].held \in Seq(Names)
    /\ moves \in 0..MaxMoves

Untouched == FileRouters \ (Managed \cup DbRouters)
IdOf(n) == IF Carries(registry, n) THEN Entry(registry, n).id ELSE 0

\* A file router nobody acts on is never disturbed, whatever is done to the
\* others, whichever reload installs and wherever the database is lost: it
\* stays in the inventory on the same connection, may be written on as its
\* file says, and keeps its box (registry.py "Les collecteurs inchanges sont
\* REUTILISES", "ne doit pas vider l'inventaire fichier").
UntouchedKept ==
    [][\A f \in Untouched :
          /\ IdOf(f)' = IdOf(f) \/ task' = [t \in Tasks |-> Idle]
          /\ Carries(registry', f) /\ Entry(registry', f).write = FileWrite[f]
          /\ f \in tree => f \in tree']_vars

\* Once the closing of a write switch was answered, no reload that began after
\* the answer opens it in memory or leaves it open, even when the database does
\* not answer any more; one that began before it may, until the next (registry.py
\* _read_only_names "elle ne doit pas non plus rouvrir l'ecriture en silence").
Reloads(t) == task[t].phase = "install" /\ task'[t].phase # "install"
ShutStaysShut ==
    [][\A n \in shut \cap shut' :
          /\ \A t \in Tasks : Reloads(t) /\ n \notin task[t].overtaken => ~Writable(registry', n)
          /\ Writable(registry', n) /\ ~Writable(registry, n)
                => \E t \in Tasks : Reloads(t) /\ n \in task[t].overtaken]_vars

Asked == Wanted(Loaded, hidden, readonly)
Settled ==
    /\ NamesOf(registry) = DOMAIN Asked
    /\ \A n \in DOMAIN Asked : /\ Entry(registry, n).host = Asked[n].host
                               /\ Entry(registry, n).write = Asked[n].write
    /\ DOMAIN Asked # {} => tree = DOMAIN Asked
    /\ credited = {<<n, n>> : n \in DOMAIN Asked \ deaf}

\* Once people are done and the database answers, the inventory in memory, the
\* list of the collection, the write switches, the boxes of the tree and the
\* measures all end at what the file and the database say.
Converges == <>[]dbUp => <>[]Settled

\* Every automatic setup ends in a report (provisioning.py _run).
SetupEnds == setup.state = "running" ~> setup.state # "running"
=============================================================================
