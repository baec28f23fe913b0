----------------------------- MODULE Collection -----------------------------
(***************************************************************************)
(* The measurement of the subscribers (services/collection.py, rates.py,   *)
(* rtt.py, plans.py, db/directory.py, db/writer.py): one cycle reads the   *)
(* sessions and the counters, resolves identifiers, derives rates, writes  *)
(* one batch; the probe and the plans run beside it; people delete         *)
(* subscribers and sites, change plans and routers meanwhile.              *)
(***************************************************************************)
EXTENDS Placement

CONSTANTS
    LoginOrder,    \* the PPPoE subscribers, in the order routers list them
    Clients,       \* static client -> its record [vlan, address, extra, place]
    ClientOrder,   \* the static clients, in the order of the inventory
    RouterOf,      \* login -> router it connects to
    AddressesOf,   \* login -> addresses its sessions may get
    QueueRouter,   \* target of a queue -> router that holds it
    Ports,         \* VLAN interface -> [router, tag, pppoe, networks]
    Plans,
    BatchSize,     \* pings by PoP and by probe
    MaxMoves       \* bound: changes of the world and faults

Logins == ToSet(LoginOrder)
Statics == DOMAIN Clients
Subjects == Logins \cup Statics
Targets == DOMAIN QueueRouter
PopNames == {PopOf[r] : r \in DOMAIN PopOf} \cup {SiteName[i] : i \in DOMAIN SiteName}
NoPlan == "no plan"
ASSUME CollectionAssumption == Logins \cap Statics = {} /\ ToSet(ClientOrder) = Statics

VARIABLES
    \* the network
    session,     \* login -> None or [address, up, count]
    queue,       \* target -> count, or None
    port,        \* VLAN interface -> count
    \* the database
    declared,    \* static client -> plan, or None when not enabled
    bought,      \* login -> plan
    seen,        \* observed VLANs: sequence of [router, tag, interface]
    pops, subs,  \* name -> id or None;  subject -> None or [id, plan, pop]
    nextId,
    \* the memory of the process
    collectors, known,
    popCache, popState, cache, state,
    tracker,     \* key -> snapshot
    targets, cursor, reading,
    \* the tasks
    cycle, outcome, probe, task, desk,
    \* observation
    sent,        \* subject -> units sent
    shifts,      \* subject -> times what counts it changed
    raced,       \* an identifier was noted after its row was deleted
    story, moves

world == <<session, queue, port>>
tables == <<declared, bought, seen, pops, subs, nextId>>
directory == <<popCache, popState, cache, state>>
rtt == <<targets, cursor, reading, probe>>
ghosts == <<sent, shifts, raced, story, moves>>
vars == <<world, tables, collectors, known, directory, tracker, rtt,
          cycle, outcome, task, desk, ghosts>>

External == "external" \in story
NoCycle == [phase |-> "idle", list |-> <<>>, got |-> <<>>, files |-> <<>>, ports |-> <<>>,
            plans |-> <<>>, records |-> <<>>, todo |-> <<>>, flight |-> None, pop |-> None,
            rows |-> {}, active |-> {}, targets |-> <<>>, sent0 |-> <<>>, shifts0 |-> <<>>,
            errors |-> FALSE]
NoTask == [phase |-> "idle", ids |-> <<>>, plans |-> <<>>]
Put(f, k, v) == [x \in DOMAIN f \cup {k} |-> IF x = k THEN v ELSE f[x]]
Get(f, k) == IF k \in DOMAIN f THEN f[k] ELSE None
Ids == {subs[s].id : s \in {t \in Subjects : subs[t] # None}}
PopIds == {pops[p] : p \in {q \in PopNames : pops[q] # None}}
May(kind) == kind \in story /\ moves > 0
Spends == moves' = moves - 1 /\ UNCHANGED story

-----------------------------------------------------------------------------
(* The cycle: the routers are asked at once, and their answers paired with *)
(* the list of routers, read again.                                        *)
Phase(p) == cycle.phase = p
Capped(n) == IF n > MinInterval THEN MinInterval ELSE n

\* Bound: what is not about rates waits for the scheduled time.
Starts(d) ==
    /\ Phase("idle") /\ (d = MinInterval \/ "traffic" \in story)
    /\ cycle' = [NoCycle EXCEPT !.phase = "sessions", !.list = collectors,
                                !.sent0 = sent, !.shifts0 = shifts]
    /\ tracker' = [k \in DOMAIN tracker |-> [tracker[k] EXCEPT !.age = Capped(@ + d)]]
    /\ session' = [l \in Logins |-> IF session[l] = None THEN None
                                    ELSE [session[l] EXCEPT !.up = Capped(@ + d)]]
    /\ UNCHANGED <<queue, port, tables, collectors, known, directory, rtt, outcome, task, desk,
                   ghosts>>

SessionOf(l, r) == [what |-> "session", of |-> l, router |-> r, address |-> session[l].address,
                    up |-> session[l].up, count |-> session[l].count]
SessionsOn(r) ==
    FlattenSeq([i \in 1..Len(LoginOrder) |->
        IF RouterOf[LoginOrder[i]] = r /\ session[LoginOrder[i]] # None
        THEN <<SessionOf(LoginOrder[i], r)>> ELSE <<>>])

ReadsSessions(r, ok) ==
    /\ Phase("sessions") /\ r \in ToSet(cycle.list) \ DOMAIN cycle.got
    /\ cycle' = [cycle EXCEPT !.got = Put(@, r, IF ok THEN SessionsOn(r) ELSE None)]
    /\ IF ok THEN UNCHANGED ghosts
       ELSE May("fault") /\ Spends /\ UNCHANGED <<sent, shifts, raced>>
    /\ UNCHANGED <<world, tables, collectors, known, directory, tracker, rtt, outcome, task, desk>>

\* One group by router that answered: its PoP, the plans of the logins it has
\* never seen, its sessions.
Group(router, answer) ==
    LET own == [i \in 1..Len(answer) |-> [answer[i] EXCEPT !.router = router]]
    IN  <<[what |-> "pop", name |-> PopOf[router], as |-> <<"router", None>>, needs |-> Len(own) + 1],
          [what |-> "plans", of |-> {own[i].of : i \in 1..Len(own)}]>> \o own

\* The i-th answer goes to the i-th router of now: with another length the
\* cycle raises, with another order it takes one router for another.
Pairs ==
    /\ Phase("sessions") /\ ToSet(cycle.list) = DOMAIN cycle.got
    /\ LET answer(i) == cycle.got[cycle.list[i]]
           heard == {i \in 1..Len(collectors) : answer(i) # None}
           groups == [i \in 1..Len(collectors) |->
                        IF answer(i) = None THEN <<>> ELSE Group(collectors[i], answer(i))]
       IN  IF Len(collectors) # Len(cycle.list)
           THEN cycle' = NoCycle /\ outcome' = "raised"
           ELSE /\ cycle' = [cycle EXCEPT
                        !.phase = "queues", !.got = <<>>, !.todo = FlattenSeq(groups),
                        !.list = SelectSeq(collectors, LAMBDA r :
                                    \E i \in heard : collectors[i] = r /\ answer(i) # <<>>),
                        !.errors = heard # 1..Len(collectors)]
                /\ UNCHANGED outcome
    /\ UNCHANGED <<world, tables, collectors, known, directory, tracker, rtt, task, desk, ghosts>>

QueuesOf(r) == [t \in {u \in Targets : QueueRouter[u] = r /\ queue[u] # None} |-> queue[t]]

\* An unreadable router has no queue counters: its subscribers fall back on
\* their interfaces.
ReadsQueues(r, ok) ==
    /\ cycle.phase \in {"queues", "counters"} /\ r \in ToSet(cycle.list) \ DOMAIN cycle.files
    /\ cycle' = [cycle EXCEPT !.files = Put(@, r, IF ok THEN QueuesOf(r) ELSE <<>>)]
    /\ IF ok THEN UNCHANGED ghosts
       ELSE May("fault") /\ Spends /\ UNCHANGED <<sent, shifts, raced>>
    /\ UNCHANGED <<world, tables, collectors, known, directory, tracker, rtt, outcome, task, desk>>

QueuesRead ==
    /\ Phase("queues") /\ ToSet(cycle.list) \subseteq DOMAIN cycle.files
    /\ cycle' = [cycle EXCEPT !.phase = "sessions read", !.list = <<>>]
    /\ UNCHANGED <<world, tables, collectors, known, directory, tracker, rtt, outcome, task, desk,
                   ghosts>>

-----------------------------------------------------------------------------
(* Identifiers.  What the caches say is used without asking; otherwise the *)
(* row is written first, and the identifier noted when the answer comes.   *)
Busy == cycle.phase \in {"sessions read", "records read"} /\ cycle.todo # <<>>
Now == Head(cycle.todo)
Doing(w) == Busy /\ cycle.flight = None /\ Now.what = w
Dropped(n) == SubSeq(cycle.todo, n + 1, Len(cycle.todo))

PopKnown(name, as) == popCache[name] # None /\ popState[name] = as

FindsPop ==
    /\ Doing("pop") /\ PopKnown(Now.name, Now.as)
    /\ cycle' = [cycle EXCEPT !.pop = popCache[Now.name], !.todo = Tail(@)]
    /\ UNCHANGED <<world, tables, collectors, known, directory, tracker, rtt, outcome, task, desk,
                   ghosts>>

UpsertsPop ==
    /\ Doing("pop") /\ ~PopKnown(Now.name, Now.as)
    /\ pops' = [pops EXCEPT ![Now.name] = IF @ = None THEN nextId ELSE @]
    /\ nextId' = IF pops[Now.name] = None THEN nextId + 1 ELSE nextId
    /\ cycle' = [cycle EXCEPT !.flight = [id |-> pops'[Now.name]]]
    /\ UNCHANGED <<world, declared, bought, seen, subs, collectors, known, directory, tracker, rtt,
                   outcome, task, desk, ghosts>>

NotesPop ==
    /\ Busy /\ cycle.flight # None /\ Now.what = "pop"
    /\ popCache' = [popCache EXCEPT ![Now.name] = cycle.flight.id]
    /\ popState' = [popState EXCEPT ![Now.name] = Now.as]
    /\ raced' = (raced \/ cycle.flight.id \notin PopIds)
    /\ cycle' = [cycle EXCEPT !.pop = cycle.flight.id, !.flight = None, !.todo = Tail(@)]
    /\ UNCHANGED <<world, tables, collectors, known, cache, state, tracker, rtt, outcome, task, desk,
                   sent, shifts, story, moves>>

\* A PoP that cannot be resolved costs its sessions.
MissesPop ==
    /\ Doing("pop") /\ ~PopKnown(Now.name, Now.as) /\ May("fault") /\ Spends
    /\ cycle' = [cycle EXCEPT !.errors = TRUE, !.todo = Dropped(1 + Now.needs)]
    /\ UNCHANGED <<world, tables, collectors, known, directory, tracker, rtt, outcome, task, desk,
                   sent, shifts, raced>>

\* Only for logins never seen.
AsksPlans ==
    /\ Doing("plans")
    /\ cycle' = [cycle EXCEPT !.todo = Tail(@),
                              !.plans = [l \in Now.of \ known |->
                                            IF bought[l] = NoPlan THEN None ELSE bought[l]]]
    /\ UNCHANGED <<world, tables, collectors, known, directory, tracker, rtt, outcome, task, desk,
                   ghosts>>

PlanGiven(item) ==
    CASE item.what = "session" -> Get(cycle.plans, item.of)
      [] OTHER -> IF cycle.records[item.of].plan = NoPlan THEN None ELSE cycle.records[item.of].plan

\* Mutant: another plan alone does not write the row again.
SiteOnly(item) == <<cycle.pop, item.what>>
Signature(item) == <<cycle.pop, PlanGiven(item), item.what>>
SubscriberKnown(item) == cache[item.of] # None /\ state[item.of] = Signature(item)

\* The row as the UPSERT leaves it: a static client obeys its record, a
\* session without an answer keeps the plan it had.
Upserted(item) ==
    LET old == subs[item.of]
        plan == PlanGiven(item)
    IN  [id |-> IF old = None THEN nextId ELSE old.id, pop |-> cycle.pop,
         plan |-> CASE plan # None -> plan
                    [] plan = None /\ item.what = "client" -> NoPlan
                    [] OTHER -> IF old = None THEN NoPlan ELSE old.plan]

UpsertsSubscriber ==
    /\ Busy /\ cycle.flight = None /\ Now.what \in {"session", "client"}
    /\ ~SubscriberKnown(Now) /\ cycle.pop \in PopIds
    /\ subs' = [subs EXCEPT ![Now.of] = Upserted(Now)]
    /\ nextId' = IF subs[Now.of] = None THEN nextId + 1 ELSE nextId
    /\ cycle' = [cycle EXCEPT !.flight = [id |-> subs'[Now.of].id]]
    /\ UNCHANGED <<world, declared, bought, seen, pops, collectors, known, directory, tracker, rtt,
                   outcome, task, desk, ghosts>>

\* The database is away, or the site was deleted under the cycle.
MissesSubscriber ==
    /\ Busy /\ cycle.flight = None /\ Now.what \in {"session", "client"} /\ ~SubscriberKnown(Now)
    /\ IF cycle.pop \in PopIds THEN May("fault") /\ Spends ELSE UNCHANGED <<story, moves>>
    /\ cycle' = [cycle EXCEPT !.errors = TRUE, !.todo = Tail(@)]
    /\ UNCHANGED <<world, tables, collectors, known, directory, tracker, rtt, outcome, task, desk,
                   sent, shifts, raced>>

-----------------------------------------------------------------------------
(* The row of a subject.  Each counter has its own key, so that a step is  *)
(* never taken between two counters.                                       *)
FilesOf(r) == IF r \in DOMAIN cycle.files THEN cycle.files[r] ELSE <<>>
HomeOf(s, list) ==
    LET place == ResolvePop(Clients[s].place, list)
    IN  IF place.routers = <<>> THEN None ELSE place.routers[1]
RecordOf(s) == [plan |-> declared[s], pop |-> ResolvePop(Clients[s].place, collectors).pop,
                home |-> HomeOf(s, collectors)]

SoleFor(s) ==
    LET home == cycle.records[s].home
        tag == Clients[s].vlan
        records == {[of |-> c, vlan |-> Clients[c].vlan, router |-> cycle.records[c].home] :
                        c \in DOMAIN cycle.records}
        there == {[interface |-> i, count |-> cycle.ports[i], pppoe |-> Ports[i].pppoe,
                   networks |-> Ports[i].networks] :
                        i \in {j \in DOMAIN cycle.ports : Ports[j].router = home /\ Ports[j].tag = tag}}
    IN  IF home = None \/ tag = None THEN None ELSE SoleVlan(there, Occupancy(records, tag, home))

\* Mutant: one key whatever counts.
KeyOfAll(owner, s, source) == <<owner, s>>
Key(owner, s, source) == <<owner, s, source>>

Reading(item) ==
    IF item.what = "session"
    THEN LET queued == At(FilesOf(item.router), <<item.address>>)
         IN  [key |-> Key(item.router, item.of, IF queued = None THEN "interface" ELSE "queue"),
              count |-> IF queued = None THEN item.count ELSE queued, uptime |-> item.up,
              router |-> item.router, address |-> item.address]
    ELSE LET home == cycle.records[item.of].home
             found == Measured(Clients[item.of], FilesOf(home), SoleFor(item.of))
         IN  [key |-> Key("static", item.of, found.source), count |-> found.count, uptime |-> None,
              router |-> home, address |-> Clients[item.of].address]

\* sent and shifts are observation: what the subject had sent when the cycle
\* of the snapshot began.  The step of a row is the one of its counter: a client
\* with a fixed address no counter counts has none, and what NetFlow may say of
\* it then (collection.py:585) is the rate of NetFlow's own window, of no counter.
Row(item, id) ==
    \E r \in {Reading(item)} :
    LET old == Get(tracker, r.key)
        new == [count |-> r.count, uptime |-> r.uptime, age |-> 0,
                sent |-> cycle.sent0[item.of], shifts |-> cycle.shifts0[item.of]]
    IN  /\ tracker' = Put(tracker, r.key, Kept(old, new))
        /\ known' = IF item.what = "session" THEN known \cup {item.of} ELSE known
        /\ cycle' = [cycle EXCEPT
                !.todo = Tail(@), !.flight = None, !.active = @ \cup {r.key},
                !.rows = @ \cup {[id |-> id, of |-> item.of, step |-> Step(old, new),
                                  sent |-> IF old = None THEN 0 ELSE sent[item.of] - old.sent,
                                  shifted |-> old # None /\ old.shifts # shifts[item.of]]},
                !.targets = IF r.router = None THEN @
                            ELSE Append(@, [id |-> id, of |-> item.of, router |-> r.router])]

FindsSubscriber ==
    /\ Busy /\ cycle.flight = None /\ Now.what \in {"session", "client"} /\ SubscriberKnown(Now)
    /\ Row(Now, cache[Now.of])
    /\ UNCHANGED <<world, tables, collectors, directory, rtt, outcome, task, desk, ghosts>>

NotesSubscriber ==
    /\ Busy /\ cycle.flight # None /\ Now.what \in {"session", "client"}
    /\ cache' = [cache EXCEPT ![Now.of] = cycle.flight.id]
    /\ state' = [state EXCEPT ![Now.of] = Signature(Now)]
    /\ raced' = (raced \/ cycle.flight.id \notin Ids)
    /\ Row(Now, cycle.flight.id)
    /\ UNCHANGED <<world, tables, collectors, popCache, popState, rtt, outcome, task, desk,
                   sent, shifts, story, moves>>

-----------------------------------------------------------------------------
(* The static clients of the same cycle: their records, the queues of the  *)
(* routers not read yet, the interfaces of the VLANs, their sites.         *)
ReadsRecords(ok) ==
    /\ Phase("sessions read") /\ cycle.todo = <<>>
    /\ LET there == {s \in Statics : declared[s] # None}
           homes == SelectSeq(collectors, LAMBDA r : \E s \in there : RecordOf(s).home = r)
       IN  cycle' = IF ok /\ there # {}
                    THEN [cycle EXCEPT !.phase = "counters", !.list = homes,
                                       !.records = [s \in there |-> RecordOf(s)]]
                    ELSE [cycle EXCEPT !.phase = "records read", !.errors = @ \/ ~ok]
    /\ IF ok THEN UNCHANGED ghosts
       ELSE May("fault") /\ Spends /\ UNCHANGED <<sent, shifts, raced>>
    /\ UNCHANGED <<world, tables, collectors, known, directory, tracker, rtt, outcome, task, desk>>

SitesNow(records) ==
    LET tagged == SelectSeq(ClientOrder, LAMBDA s : /\ s \in DOMAIN records
                                                    /\ Clients[s].vlan # None /\ records[s].home # None)
    IN  SitesFrom(seen, [i \in 1..Len(tagged) |->
                            [vlan |-> Clients[tagged[i]].vlan, router |-> records[tagged[i]].home]])

\* Its site when its VLAN is one, else the PoP of its router, else the name of
\* its record.
PopFor(s, records) ==
    LET home == records[s].home
        site == SiteOf(Clients[s], home, SitesNow(records))
    IN  IF site # None THEN [name |-> site.name, as |-> <<"vlan", site.router>>]
        ELSE [name |-> IF records[s].pop = None THEN Clients[s].place ELSE records[s].pop,
              as |-> <<"router", home>>]

ReadsPorts(ok) ==
    /\ Phase("counters") /\ ToSet(cycle.list) \subseteq DOMAIN cycle.files
    /\ LET there == cycle.records
           two(s) == <<[what |-> "pop", name |-> PopFor(s, there).name, as |-> PopFor(s, there).as,
                        needs |-> 1], [what |-> "client", of |-> s]>>
           read == {i \in DOMAIN Ports : ok /\ \E s \in DOMAIN there :
                        Clients[s].vlan # None /\ there[s].home = Ports[i].router}
       IN  cycle' = [cycle EXCEPT !.phase = "records read", !.ports = [i \in read |-> port[i]],
                                  !.todo = FlattenSeq([i \in 1..Len(ClientOrder) |->
                                      IF ClientOrder[i] \in DOMAIN there THEN two(ClientOrder[i])
                                      ELSE <<>>])]
    /\ IF ok THEN UNCHANGED ghosts
       ELSE May("fault") /\ Spends /\ UNCHANGED <<sent, shifts, raced>>
    /\ UNCHANGED <<world, tables, collectors, known, directory, tracker, rtt, outcome, task, desk>>

\* What no longer answers loses its point of reference; a latency is forgotten
\* once it is stale only.
Closes ==
    /\ Phase("records read") /\ cycle.todo = <<>>
    /\ tracker' = [k \in DOMAIN tracker \cap cycle.active |-> tracker[k]]
    /\ targets' = cycle.targets
    /\ LET held == {cycle.targets[i].id : i \in 1..Len(cycle.targets)}
       IN  reading' = [i \in {j \in DOMAIN reading : j \in held \/ reading[j] # "stale"} |-> reading[i]]
    /\ cycle' = [NoCycle EXCEPT !.phase = "write", !.rows = cycle.rows, !.errors = cycle.errors]
    /\ UNCHANGED <<world, tables, collectors, known, directory, cursor, probe, outcome, task, desk,
                   ghosts>>

\* One batch: a row whose subscriber is gone refuses all of them.
Writes(ok) ==
    /\ Phase("write")
    /\ outcome' = CASE ~ok \/ {w.id : w \in cycle.rows} \ Ids # {} -> "refused"
                    [] OTHER -> IF cycle.errors THEN "partial" ELSE "written"
    /\ cycle' = NoCycle
    /\ IF ok THEN UNCHANGED ghosts
       ELSE May("fault") /\ Spends /\ UNCHANGED <<sent, shifts, raced>>
    /\ UNCHANGED <<world, tables, collectors, known, directory, tracker, rtt, task, desk>>

-----------------------------------------------------------------------------
(* The probe: the next batch of each PoP, a cursor by PoP.                 *)
OfRouter(list, r) == SelectSeq(list, LAMBDA t : t.router = r)

\* Mutant: a cursor past the end is never brought back.
CursorNotReset(r) == IF r \in DOMAIN cursor THEN cursor[r] ELSE 0
CursorOf(r) ==
    LET at == IF r \in DOMAIN cursor THEN cursor[r] ELSE 0
    IN  IF at >= Len(OfRouter(targets, r)) THEN 0 ELSE at

NextBatch(r) ==
    LET list == OfRouter(targets, r)
        last == IF CursorOf(r) + BatchSize > Len(list) THEN Len(list) ELSE CursorOf(r) + BatchSize
    IN  SubSeq(list, CursorOf(r) + 1, last)

Probes ==
    /\ probe.phase = "idle" /\ "probe" \in story /\ targets # <<>>
    /\ LET pings == {targets[i].router : i \in 1..Len(targets)}
       IN  /\ probe' = [phase |-> "pinging", batch |-> UNION {ToSet(NextBatch(r)) : r \in pings}]
           /\ cursor' = [r \in pings |-> CursorOf(r) + Len(NextBatch(r))]
    /\ UNCHANGED <<world, tables, collectors, known, directory, tracker, targets, reading,
                   cycle, outcome, task, desk, ghosts>>

Pinged(silent) ==
    /\ probe.phase = "pinging"
    /\ reading' = [i \in DOMAIN reading \cup {t.id : t \in probe.batch} |->
                      IF i \in {t.id : t \in probe.batch}
                      THEN IF i \in silent THEN "silent" ELSE "fresh" ELSE reading[i]]
    /\ probe' = [phase |-> "idle", batch |-> {}]
    /\ UNCHANGED <<world, tables, collectors, known, directory, tracker, targets, cursor,
                   cycle, outcome, task, desk, ghosts>>

GrowsStale(i) ==
    /\ May("age") /\ Spends /\ i \in DOMAIN reading /\ reading[i] # "stale"
    /\ reading' = [reading EXCEPT ![i] = "stale"]
    /\ UNCHANGED <<world, tables, collectors, known, directory, tracker, targets, cursor, probe,
                   cycle, outcome, task, desk, sent, shifts, raced>>
-----------------------------------------------------------------------------
(* Plans: the job that reads them all, and the request that changes one    *)
(* and applies it. Both ask the table for the identifiers.                 *)
Jobs == {"refresh", "apply"}
Frame(t, phase) == task' = [task EXCEPT ![t].phase = phase]

Lists(t) ==
    /\ task[t].phase = "list"
    /\ task' = [task EXCEPT ![t].phase = "note",
                            ![t].ids = [l \in {m \in Logins : subs[m] # None} |-> subs[l].id]]
    /\ UNCHANGED <<world, tables, collectors, known, directory, tracker, rtt, cycle, outcome, desk,
                   ghosts>>

NotesIds(t) ==
    /\ task[t].phase = "note"
    /\ LET ids == task[t].ids
       IN  /\ cache' = [s \in Subjects |-> IF s \in DOMAIN ids THEN ids[s] ELSE cache[s]]
           /\ raced' = (raced \/ \E l \in DOMAIN ids : ids[l] \notin Ids /\ state[l] # None)
           /\ known' = IF t = "refresh" THEN known \cup DOMAIN ids ELSE known
    /\ Frame(t, IF t = "refresh" THEN "plans" ELSE "update")
    /\ UNCHANGED <<world, tables, collectors, popCache, popState, state, tracker, rtt, cycle,
                   outcome, desk, sent, shifts, story, moves>>

\* The provider of the application answers for every login, an external one
\* may be silent: nothing is emptied on its silence.
GetsPlans(t) ==
    /\ task[t].phase = "plans"
    /\ LET asked == IF t = "refresh" THEN DOMAIN task[t].ids ELSE DOMAIN task[t].plans
           told == {l \in asked : t = "apply" \/ ~External \/ bought[l] # NoPlan}
       IN  task' = [task EXCEPT ![t].phase = IF t = "refresh" THEN "update" ELSE "list",
                                ![t].plans = [l \in told |-> bought[l]]]
    /\ UNCHANGED <<world, tables, collectors, known, directory, tracker, rtt, cycle, outcome, desk,
                   ghosts>>

Updates(t) ==
    /\ task[t].phase = "update"
    /\ subs' = [s \in Subjects |->
            IF s \in DOMAIN task[t].plans /\ s \in DOMAIN task[t].ids
               /\ subs[s] # None /\ subs[s].id = task[t].ids[s]
            THEN [subs[s] EXCEPT !.plan = task[t].plans[s]] ELSE subs[s]]
    /\ task' = [task EXCEPT ![t] = NoTask]
    /\ UNCHANGED <<world, declared, bought, seen, pops, nextId, collectors, known, directory, tracker,
                   rtt, cycle, outcome, desk, ghosts>>

RefreshBegins ==
    /\ "plan" \in story /\ task["refresh"].phase = "idle" /\ Frame("refresh", "list")
    /\ UNCHANGED <<world, tables, collectors, known, directory, tracker, rtt, cycle, outcome, desk,
                   ghosts>>

Buys(l, p) ==
    /\ May("plan") /\ Spends /\ task["apply"].phase = "idle" /\ bought[l] # p
    /\ bought' = [bought EXCEPT ![l] = p]
    /\ task' = [task EXCEPT !["apply"] = [phase |-> "plans", ids |-> <<>>, plans |-> [m \in {l} |-> p]]]
    /\ UNCHANGED <<world, declared, seen, pops, subs, nextId, collectors, known, directory, tracker,
                   rtt, cycle, outcome, desk, sent, shifts, raced>>

-----------------------------------------------------------------------------
(* The desk: a subscriber or a site is deleted, then the memory forgets it. *)
\* The interface of a VLAN counts all its clients: what befalls one shifts them all.
ShiftedWith(changed) ==
    [x \in Subjects |-> IF x \in Statics /\ \E s \in changed : Clients[x].vlan = Clients[s].vlan
                        THEN shifts[x] + 1 ELSE shifts[x]]

Removes(s) ==
    /\ May("delete") /\ Spends /\ desk = <<"idle", None>> /\ subs[s] # None
    /\ declared' = IF s \in Statics THEN [declared EXCEPT ![s] = None] ELSE declared
    /\ shifts' = IF s \in Statics THEN ShiftedWith({s}) ELSE shifts
    /\ desk' = <<"row", s>>
    /\ UNCHANGED <<world, bought, seen, pops, subs, nextId, collectors, known, directory, tracker, rtt,
                   cycle, outcome, task, sent, raced>>

DeletesRow ==
    /\ desk[1] = "row"
    /\ subs' = [subs EXCEPT ![desk[2]] = None] /\ desk' = <<"forget", desk[2]>>
    /\ UNCHANGED <<world, declared, bought, seen, pops, nextId, collectors, known, directory, tracker,
                   rtt, cycle, outcome, task, ghosts>>

ForgetsSubscriber == /\ cache' = [cache EXCEPT ![desk[2]] = None]
                     /\ state' = [state EXCEPT ![desk[2]] = None]

Forgets ==
    /\ desk[1] = "forget" /\ ForgetsSubscriber
    /\ known' = known \ {desk[2]} /\ desk' = <<"idle", None>>
    /\ UNCHANGED <<world, tables, collectors, popCache, popState, tracker, rtt, cycle, outcome, task,
                   ghosts>>

DeletesPop(p) ==
    /\ May("site") /\ Spends /\ desk = <<"idle", None>> /\ pops[p] # None
    /\ subs' = [s \in Subjects |-> IF subs[s] # None /\ subs[s].pop = pops[p] THEN None ELSE subs[s]]
    /\ pops' = [pops EXCEPT ![p] = None] /\ desk' = <<"clear", None>>
    /\ UNCHANGED <<world, declared, bought, seen, nextId, collectors, known, directory, tracker, rtt,
                   cycle, outcome, task, sent, shifts, raced>>

ClearsCache ==
    /\ desk[1] = "clear" /\ desk' = <<"idle", None>>
    /\ popCache' = [p \in PopNames |-> None] /\ popState' = [p \in PopNames |-> None]
    /\ cache' = [s \in Subjects |-> None] /\ state' = [s \in Subjects |-> None]
    /\ UNCHANGED <<world, tables, collectors, known, tracker, rtt, cycle, outcome, task, ghosts>>

\* A record is enabled, disabled or given another plan.
Declares(s, p) ==
    /\ May("record") /\ Spends /\ declared[s] # p
    /\ declared' = [declared EXCEPT ![s] = p]
    /\ shifts' = ShiftedWith({s})
    /\ UNCHANGED <<world, bought, seen, pops, subs, nextId, collectors, known, directory, tracker, rtt,
                   cycle, outcome, task, desk, sent, raced>>

SetsCollectors(list) ==
    /\ May("routers") /\ Spends /\ collectors # list /\ collectors' = list
    /\ shifts' = ShiftedWith({s \in Statics : HomeOf(s, list) # HomeOf(s, collectors)})
    /\ UNCHANGED <<world, tables, known, directory, tracker, rtt, cycle, outcome, task, desk,
                   sent, raced>>

\* The detection records the interfaces it heard and forgets the old ones.
Observes(list) ==
    /\ May("vlans") /\ Spends /\ seen # list /\ seen' = list
    /\ UNCHANGED <<world, declared, bought, pops, subs, nextId, collectors, known, directory, tracker,
                   rtt, cycle, outcome, task, desk, sent, shifts, raced>>

-----------------------------------------------------------------------------
(* The network: traffic, sessions that come back elsewhere, queues.        *)
Around(a) == {t \in Targets : queue[t] # None /\ a \in Within[t]}

\* A unit of traffic of a subject: its interface counts it, and the queue that
\* takes it, unless that queue drops it.
Sends(s, q) ==
    /\ May("traffic") /\ Spends
    /\ sent' = [sent EXCEPT ![s] = @ + 1]
    /\ IF s \in Logins
       THEN /\ session[s] # None /\ q \in Around(session[s].address) \cup {None}
            /\ session' = [session EXCEPT ![s].count = @ + 1]
            /\ UNCHANGED port
       ELSE /\ declared[s] # None /\ q \in Around(Clients[s].address) \cup {None}
            /\ port' = [i \in DOMAIN Ports |-> IF Ports[i].tag = Clients[s].vlan THEN port[i] + 1
                                               ELSE port[i]]
            /\ UNCHANGED session
    /\ queue' = IF q = None THEN queue ELSE [queue EXCEPT ![q] = @ + 1]
    /\ UNCHANGED <<tables, collectors, known, directory, tracker, rtt, cycle, outcome, task, desk,
                   shifts, raced>>

Connects(l, a) ==
    /\ May("session") /\ Spends
    /\ a \notin {session[m].address : m \in {x \in Logins \ {l} : session[x] # None}}
    /\ session' = [session EXCEPT ![l] = [address |-> a, up |-> 0, count |-> 0]]
    /\ shifts' = IF session[l] # None /\ session[l].address = a THEN shifts
                 ELSE [shifts EXCEPT ![l] = @ + 1]
    /\ UNCHANGED <<queue, port, tables, collectors, known, directory, tracker, rtt, cycle, outcome,
                   task, desk, sent, raced>>

Disconnects(l) ==
    /\ May("session") /\ Spends /\ session[l] # None
    /\ session' = [session EXCEPT ![l] = None] /\ shifts' = [shifts EXCEPT ![l] = @ + 1]
    /\ UNCHANGED <<queue, port, tables, collectors, known, directory, tracker, rtt, cycle, outcome,
                   task, desk, sent, raced>>

\* The queues that may count for a static client: around it, one of its own, or
\* of a network of its VLAN.
Watched(s) ==
    {t \in Targets : \/ Clients[s].address \in Within[t] \/ t \in ToSet(Clients[s].extra)
                     \/ \E i \in DOMAIN Ports : Ports[i].tag = Clients[s].vlan
                                               /\ t \in ToSet(Ports[i].networks)}

QueueComesOrGoes(t) ==
    /\ May("queue") /\ Spends
    /\ queue' = [queue EXCEPT ![t] = IF @ = None THEN 0 ELSE None]
    /\ shifts' = [s \in Subjects |->
            IF (s \in Statics /\ t \in Watched(s))
               \/ (s \in Logins /\ session[s] # None /\ session[s].address \in Within[t])
            THEN shifts[s] + 1 ELSE shifts[s]]
    /\ UNCHANGED <<session, port, tables, collectors, known, directory, tracker, rtt, cycle, outcome,
                   task, desk, sent, raced>>

-----------------------------------------------------------------------------
CONSTANTS
    FirstAddress,  \* login -> address of its first session
    Queue0, Seen0,
    RouterLists, SeenLists,  \* what collectors and seen may become
    Kinds          \* kinds of changes

Init ==
    /\ \E online \in SUBSET Logins :
          session = [l \in Logins |-> IF l \notin online THEN None
                                     ELSE [address |-> FirstAddress[l], up |-> 0, count |-> 0]]
    /\ queue = Queue0 /\ port = [i \in DOMAIN Ports |-> 0]
    /\ declared \in [Statics -> {NoPlan, None}] /\ bought = [l \in Logins |-> NoPlan]
    /\ seen = Seen0 /\ pops = [p \in PopNames |-> None] /\ subs = [s \in Subjects |-> None]
    /\ nextId = 1 /\ collectors \in RouterLists /\ known = {}
    /\ popCache = pops /\ popState = pops /\ cache = subs /\ state = subs
    /\ tracker = <<>> /\ targets = <<>> /\ cursor = <<>> /\ reading = <<>>
    /\ cycle = NoCycle /\ outcome = "none" /\ probe = [phase |-> "idle", batch |-> {}]
    /\ task = [t \in Jobs |-> NoTask] /\ desk = <<"idle", None>>
    /\ sent = [s \in Subjects |-> 0] /\ shifts = [s \in Subjects |-> 0] /\ raced = FALSE
    /\ story \in SUBSET Kinds /\ moves \in 0..MaxMoves

Cycles ==
    \/ \E d \in 1..MinInterval : Starts(d)
    \/ \E r \in DOMAIN PopOf : ReadsSessions(r, TRUE) \/ ReadsQueues(r, TRUE)
    \/ Pairs \/ QueuesRead \/ FindsPop \/ UpsertsPop \/ NotesPop \/ AsksPlans
    \/ FindsSubscriber \/ UpsertsSubscriber \/ NotesSubscriber
    \/ (cycle.pop \notin PopIds /\ MissesSubscriber)
    \/ ReadsRecords(TRUE) \/ ReadsPorts(TRUE) \/ Closes \/ Writes(TRUE)

Faults ==
    \/ \E r \in DOMAIN PopOf : ReadsSessions(r, FALSE) \/ ReadsQueues(r, FALSE)
    \/ MissesPop \/ MissesSubscriber \/ ReadsRecords(FALSE) \/ ReadsPorts(FALSE) \/ Writes(FALSE)

TaskStep(t) == Lists(t) \/ NotesIds(t) \/ GetsPlans(t) \/ Updates(t)
DeskStep == DeletesRow \/ Forgets \/ ClearsCache
ProbeStep == Probes \/ \E silent \in SUBSET {t.id : t \in probe.batch} : Pinged(silent)

People ==
    \/ \E l \in Logins, p \in Plans : Buys(l, p)
    \/ \E s \in Subjects : Removes(s)
    \/ \E p \in PopNames : DeletesPop(p)
    \/ \E s \in Statics, p \in Plans \cup {None} : Declares(s, p)
    \/ \E list \in RouterLists : SetsCollectors(list)
    \/ \E list \in SeenLists : Observes(list)

Network ==
    \/ \E s \in Subjects, q \in Targets \cup {None} : Sends(s, q)
    \/ \E l \in Logins : Disconnects(l) \/ \E a \in AddressesOf[l] : Connects(l, a)
    \/ \E t \in Targets : QueueComesOrGoes(t)
    \/ \E i \in DOMAIN reading : GrowsStale(i)

Next == Cycles \/ Faults \/ RefreshBegins \/ (\E t \in Jobs : TaskStep(t)) \/ DeskStep \/ ProbeStep
        \/ People \/ Network

\* Every job comes back, and what it awaits is answered.
Fairness ==
    /\ WF_vars(Cycles) /\ WF_vars(RefreshBegins) /\ WF_vars(DeskStep) /\ WF_vars(ProbeStep)
    /\ \A t \in Jobs : WF_vars(TaskStep(t))
Spec == Init /\ [][Next]_vars /\ Fairness

-----------------------------------------------------------------------------
(* What the theorems take of the network, which no code decides.           *)

\* Those whose traffic a queue may take, and the clients of one VLAN.
Holders(t) == {s \in Statics : Clients[s].address \in Within[t]}
              \cup {l \in Logins : AddressesOf[l] \cap Within[t] # {}}
Members(tag) == {s \in Statics : Clients[s].vlan = tag}
List(s) == s \in Seq(ToSet(s))

Typed ==
    /\ None \notin Int /\ None \notin Targets
    /\ DOMAIN Ports \cap {"plain", "queue"} = {}
    /\ Queue0 \in [Targets -> Nat \cup {None}]
    /\ IsFiniteSet(Statics) /\ IsFiniteSet(DOMAIN Ports)
    /\ List(LoginOrder) /\ List(ClientOrder)
    /\ \A s \in Statics : List(Clients[s].extra)
    /\ \A i \in DOMAIN Ports : List(Ports[i].networks) /\ None \notin ToSet(Ports[i].networks)
    /\ MinInterval \in Nat \ {0}
    /\ \A t \in Targets : t \in Within[t]
    /\ \A list \in RouterLists : List(list)

\* An address is one subscriber's at a time, and a queue on it takes no other's.
AddressesTellApart ==
    /\ \A l \in Logins : FirstAddress[l] \in AddressesOf[l]
    /\ \A l, m \in Logins : FirstAddress[l] = FirstAddress[m] => l = m
    /\ \A l, m \in Logins : \A a \in AddressesOf[l] \cap Targets, b \in AddressesOf[m] :
          b \in Within[a] => b = a
    /\ \A l \in Logins, s \in Statics : \A a \in AddressesOf[l] \cap Targets :
          Clients[s].address \notin Within[a]
    /\ \A s \in Statics : \A t \in ({Clients[s].address} \cup ToSet(Clients[s].extra)) \cap Targets :
          Holders(t) \subseteq {s}

\* What lies within a network of a VLAN is that VLAN's; where no network is
\* known, so is every queue around a client of it that is no aggregate.
VlansTellApart ==
    \A i \in DOMAIN Ports : ~Ports[i].pppoe =>
        \A s \in Members(Ports[i].tag), t \in Targets :
            IF Ports[i].networks = <<>>
            THEN t \notin Aggregates /\ Clients[s].address \in Within[t]
                    => Holders(t) \subseteq Members(Ports[i].tag)
            ELSE (\E n \in ToSet(Ports[i].networks) : t = n \/ t \in Within[n])
                    => Holders(t) \subseteq Members(Ports[i].tag)

\* The queues around an address are nested.
Nested ==
    \A s \in Statics : \A F \in SUBSET {t \in Targets : Clients[s].address \in Within[t]} :
        F # {} => \E t \in F : \A u \in F : t \in Within[u]

\* The clients of one VLAN are declared at one place.
OneHome ==
    \A list \in RouterLists, s, x \in Statics :
        Clients[s].vlan = Clients[x].vlan /\ Clients[s].vlan # None
            => HomeOf(s, list) = HomeOf(x, list)

Deployment == Typed /\ AddressesTellApart /\ VlansTellApart /\ Nested /\ OneHome
-----------------------------------------------------------------------------
\* Typing of the memory of the cycle: the batch holds one row by subject, and
\* the points of reference are those of subjects.
TypeOK ==
    /\ nextId \in Nat /\ known \subseteq Logins /\ raced \in BOOLEAN /\ moves \in 0..MaxMoves
    /\ \A s \in Subjects : subs[s] # None => subs[s].id < nextId /\ subs[s].plan \in Plans
    /\ \A k \in DOMAIN tracker : k[2] \in Subjects
    /\ \A v, w \in cycle.rows : v.of = w.of => v = w

\* A rate is never more than what the subscriber sent between the two readings
\* it is taken from, as long as the same things counted it: not another
\* counter's total, not a neighbour's traffic.
RateIsOwn ==
    \A w \in cycle.rows : w.step # None /\ ~w.shifted => w.step <= w.sent

\* Once people and faults leave it alone, every cycle writes its whole batch,
\* and every subscriber has the plan and the site its source gives it; unless
\* an identifier was noted after its row was deleted.
Settled ==
    /\ outcome = "written"
    /\ \A l \in Logins :
          session[l] # None /\ RouterOf[l] \in ToSet(collectors) =>
              /\ subs[l] # None /\ subs[l].pop = pops[PopOf[RouterOf[l]]]
              /\ subs[l].plan = bought[l] \/ External
    /\ \A s \in Statics : declared[s] # None => subs[s] # None /\ subs[s].plan = declared[s]
Settles == <>[](raced \/ Settled)

\* Whoever stays a target is pinged again and again, whatever the list does
\* around it for a while.
IsTarget(s) == \E i \in 1..Len(targets) : targets[i].of = s
EveryoneIsProbed ==
    \A s \in Subjects : <>[]("probe" \in story /\ IsTarget(s))
                            => []<>(\E t \in probe.batch : t.of = s)
=============================================================================
