------------------------------ MODULE Services ------------------------------
(* What is sold, from the billing and the screens to the routers: the public  *)
(* API (api/model_v1.py, db/model_repo.py), the records entered by hand       *)
(* (api/static_clients.py), the plans page (api/plans.py, services/plans.py), *)
(* the job that places services (services/unplaced.py), the plans job, the    *)
(* reconciliation, and the audit of what the routers hold (shaping.py).  A    *)
(* step is what runs between two awaits on the base or on a router.           *)
EXTENDS ServiceTargets, FiniteSetsExt

CONSTANTS
    Requests,   \* requests, each made once
    Packages,
    Macs,
    Stories     \* [fiche, waiting, plan, forced, rows, session, nets, arp,
                \*  package, fasttrack, hidden, asks, jobs, moves]

VARIABLES
    fiche,      \* static_clients: [source, site, addr, rate, on] or None
    waiting,    \* model_services_unplaced: [mac, rate, package, site, on] or None
    plan,       \* client_plans: [rate, service] or None
    forced,     \* subscriber policies: the rate forced by hand
    package,    \* model_packages
    rows,       \* subscribers: [addr, site, plan] or None
    session,    \* the sessions on the routers: [at, addr] or None
    nets,       \* the routers whose connected networks have been read
    arp,        \* the address each MAC shows in a router's tables, or None
    lists,      \* the queues of each router
    fasttrack,  \* the routers whose firewall skips the queues
    hidden,     \* the routers whose firewall the account may fail to read
    task,       \* the requests and the placing job
    told,       \* the plans read by the plans job, or None
    sent,       \* the plan of reconciliation for each router
    asked,      \* the targets an audit works on, for each router
    good,       \* the last audit read of each router
    live,       \* the audit asked by the page: [router, targets, report] or None;
                \* a router not read in time reports <<>>
    jobs,       \* the jobs of this story
    moves,      \* what may still happen around, the failures of a router included
    sold,       \* services the billing was told are accepted, not withdrawn
    crossed,    \* services two writers wrote at the same time
    late,       \* names written from a reading older than their withdrawal
    missed      \* names a withdrawal left on a router: it did not aim at it, or
                \* this router did not answer or refused

tables == <<fiche, waiting, plan, forced, package, rows>>
around == <<session, nets, arp, fasttrack, hidden>>
world  == <<around, moves>>
ghosts == <<sold, crossed, late, missed>>
audit  == <<asked, good, live>>
vars   == <<tables, world, lists, task, told, sent, audit, jobs, ghosts>>

World == [fiche |-> fiche, rows |-> rows, session |-> session, nets |-> nets,
          forced |-> forced]
Actors == Requests \cup {"placing"}
IsHand(f) == f # None /\ f.source = "manual"

Task(ask, pc) ==
    [ask |-> ask, pc |-> pc, todo |-> {}, place |-> None, saw |-> None, was |-> None,
     rate |-> 0, site |-> NoSite, got |-> 0, aim |-> None, cmds |-> {}, next |-> <<>>]

FirstStep == [put |-> "situate", delete |-> "recall", hand |-> "write", page |-> "look",
              clean |-> "sweep"]

ServicesData ==
    /\ None # "manual"
    /\ \A s \in Stories : /\ DOMAIN s.fiche = References
                          /\ \A p \in Requests :
                                s.asks[p] = None \/ s.asks[p].kind \in DOMAIN FirstStep
ASSUME ServicesAssumption == ServicesData

Init ==
    \E s \in Stories :
        /\ fiche = s.fiche /\ waiting = s.waiting /\ plan = s.plan /\ forced = s.forced
        /\ package = s.package /\ rows = s.rows /\ session = s.session /\ nets = s.nets
        /\ arp = s.arp /\ fasttrack = s.fasttrack /\ hidden = s.hidden
        /\ jobs = s.jobs /\ moves = s.moves
        /\ lists = [r \in Routers |-> <<>>]
        /\ task = [p \in Actors |->
                     IF p \in Requests /\ s.asks[p] # None
                     THEN Task(s.asks[p], FirstStep[s.asks[p].kind])
                     ELSE Task(None, "idle")]
        /\ told = None
        /\ sent = [r \in Routers |-> {}]
        /\ asked = [r \in Routers |-> None]
        /\ good = [r \in Routers |-> None]
        /\ live = None
        /\ sold = {c \in References : fiche[c] # None \/ waiting[c] # None}
        /\ crossed = {} /\ late = {} /\ missed = {}

-----------------------------------------------------------------------------
(* Control of a task *)
Does(p, pc) == task[p].pc = pc
Set(p, t)  == task' = [task EXCEPT ![p] = t]
Go(t, pc)  == [t EXCEPT !.pc = pc]

\* The next thing to do, the next service of the placing job, or the end.
Then(p, t) ==
    CASE t.next # <<>> -> [t EXCEPT !.pc = Head(t.next), !.next = Tail(t.next)]
      [] t.next = <<>> /\ p = "placing" /\ t.todo # {} -> Go(t, "pick")
      [] OTHER -> Task(None, "idle")

Static(c, site, a, removing) ==
    [kind |-> "static", name |-> c, site |-> site, addr |-> a, removing |-> removing]
Subscriber(n, removing) ==
    [kind |-> "subscriber", name |-> n, site |-> NoSite, addr |-> None, removing |-> removing]

\* Is a service being written between a check and its last statement?
Writing == {"upsert", "forget", "unplace", "await", "weigh", "erase"}
Busy(c, p) == \E q \in Actors \ {p} : task[q].pc \in Writing /\ task[q].ask.name = c

Holders(n) == {r \in Routers : At(n, lists[r]) # {}}

\* A name somebody still answers for: a record, a plan or a forced rate, or a
\* service on the address of the session.
Declared(n) ==
    IF n \in References THEN fiche[n] # None \/ waiting[n] # None
    ELSE \/ plan[n] # None \/ forced[n] # 0
         \/ session[n] # None /\ \E c \in References : fiche[c] # None
                                   /\ fiche[c].addr = session[n].addr

\* The logins left with a row nobody answers for, by a step that removes none.
Orphans == missed' = missed \cup {n \in Logins : Holders(n) # {} /\ ~Declared(n)}'

-----------------------------------------------------------------------------
(* PUT /model/v1/services/<id>, and the same write by the placing job *)
Situates(p) ==
    /\ Does(p, "situate")
    /\ LET t == task[p]
           place == Located(t.ask.addr, World)
       IN  Set(p, [t EXCEPT !.pc = "check", !.place = place,
                     !.site = IF place # None THEN place.site ELSE t.ask.site])
    /\ UNCHANGED <<tables, world, lists, told, sent, audit, jobs, ghosts>>

Rates(a) == IF a.rate # 0 THEN a.rate ELSE IF a.package # None THEN package[a.package] ELSE 0

\* Mutant: the record entered by hand is not looked for.
RefusedNobody(c) == FALSE

Refused(c) == IsHand(fiche[c])

Checks(p) ==
    /\ Does(p, "check")
    /\ LET t == task[p]
           c == t.ask.name
       IN  /\ IF Refused(c)
              THEN Set(p, Then(p, t)) /\ UNCHANGED crossed
              ELSE /\ Set(p, [t EXCEPT !.pc = IF t.ask.addr = None THEN "unplace" ELSE "upsert",
                                !.saw = IF fiche[c] = None THEN None ELSE fiche[c].source,
                                !.rate = Rates(t.ask)])
                   /\ crossed' = IF Busy(c, p) THEN crossed \cup {c} ELSE crossed
    /\ UNCHANGED <<tables, world, lists, told, sent, audit, jobs, sold, late, missed>>

\* INSERT ... ON CONFLICT: the source of a record that is there does not change.
Upserted(f, t) ==
    [source |-> IF f = None THEN "api" ELSE f.source, site |-> t.site, addr |-> t.ask.addr,
     rate |-> t.rate, on |-> t.ask.on]

Upserts(p) ==
    /\ Does(p, "upsert")
    /\ LET t == task[p]
       IN  /\ fiche' = [fiche EXCEPT ![t.ask.name] = Upserted(@, t)]
           /\ Set(p, Go(t, "forget"))
    /\ UNCHANGED <<waiting, plan, forced, package, rows, world, lists, told, sent, audit, jobs,
                   sold, crossed, late>>
    /\ Orphans

Forgets(p) ==
    /\ Does(p, "forget")
    /\ LET t == task[p]
           c == t.ask.name
           onSession == p # "placing" /\ t.place # None /\ t.place.login # None
       IN  /\ waiting' = [waiting EXCEPT ![c] = None]
           /\ sold' = sold \cup {c}
           /\ Set(p, Go(t, IF onSession THEN "record" ELSE "apply"))
    /\ UNCHANGED <<fiche, plan, forced, package, rows, world, lists, told, sent, audit, jobs,
                   crossed, late, missed>>

\* The service is the plan of the client whose session has its address.
Records(p) ==
    /\ Does(p, "record")
    /\ LET t == task[p]
       IN  /\ plan' = [plan EXCEPT ![t.place.login] = [rate |-> t.rate, service |-> t.ask.name]]
           /\ Set(p, [t EXCEPT !.pc = "fetch", !.was = t.place.login, !.next = <<"apply">>])
    /\ UNCHANGED <<fiche, waiting, forced, package, rows, world, lists, told, sent, audit, jobs,
                   ghosts>>

\* The queue of the record, once its plan is told (_apply_service).
Applies(p) ==
    /\ Does(p, "apply")
    /\ LET t == task[p]
       IN  Set(p, [t EXCEPT !.pc = "aim",
                     !.aim = Static(t.ask.name, t.site, t.ask.addr, FALSE)])
    /\ UNCHANGED <<tables, world, lists, told, sent, audit, jobs, ghosts>>

Unplaces(p) ==
    /\ Does(p, "unplace")
    /\ LET c == task[p].ask.name
       IN  /\ fiche' = [fiche EXCEPT ![c] = IF IsHand(@) THEN @ ELSE None]
           /\ Set(p, Go(task[p], "await"))
    /\ UNCHANGED <<waiting, plan, forced, package, rows, world, lists, told, sent, audit, jobs,
                   sold, crossed, late>>
    /\ Orphans

Awaits(p) ==
    /\ Does(p, "await")
    /\ LET t == task[p]
       IN  /\ waiting' = [waiting EXCEPT ![t.ask.name] =
                            [mac |-> t.ask.mac, rate |-> t.ask.rate, package |-> t.ask.package,
                             site |-> t.ask.site, on |-> t.ask.on]]
           /\ sold' = sold \cup {t.ask.name}
           /\ Set(p, Then(p, t))
    /\ UNCHANGED <<fiche, plan, forced, package, rows, world, lists, told, sent, audit, jobs,
                   crossed, late, missed>>

-----------------------------------------------------------------------------
(* apply_now: the plan of one client, then his queue *)
Given(l) == CASE plan[l] = None -> 0
              [] OTHER -> IF plan[l].rate = 0 THEN DefaultRate ELSE plan[l].rate

Fetches(p) ==
    /\ Does(p, "fetch")
    /\ Set(p, [task[p] EXCEPT !.pc = "note", !.got = Given(task[p].was)])
    /\ UNCHANGED <<tables, world, lists, told, sent, audit, jobs, ghosts>>

Noted(got) == [l \in Logins |->
                 IF rows[l] = None \/ l \notin DOMAIN got THEN rows[l]
                                                           ELSE [rows[l] EXCEPT !.plan = got[l]]]

Notes(p) ==
    /\ Does(p, "note")
    /\ LET t == task[p]
           l == t.was
       IN  /\ rows' = Noted([x \in {l} |-> t.got])
           /\ late' = IF t.got # Given(l) THEN late \cup {l} ELSE late
           /\ Set(p, [t EXCEPT !.pc = "aim", !.aim = Subscriber(l, t.got = 0)])
    /\ UNCHANGED <<fiche, waiting, plan, forced, package, world, lists, told, sent, audit, jobs,
                   sold, crossed, missed>>

-----------------------------------------------------------------------------
(* enforce_static_client, enforce_subscriber: the plan of each router, kept to *)
(* one name, then sent                                                         *)
Aimed(g) == IF g.kind = "static" THEN StaticAim(g.name, g.site, g.addr, g.removing, World)
                                 ELSE SubscriberAim(g.name, World)

Aims(p) ==
    /\ Does(p, "aim")
    /\ LET t == task[p]
           aim == Aimed(t.aim)
       IN  /\ Set(p, [t EXCEPT !.pc = "read",
                        !.aim = [names |-> {aim.name}, left |-> aim.routers,
                                 prune |-> t.aim.removing]])
           /\ missed' = IF t.aim.removing /\ ~(Holders(aim.name) \subseteq aim.routers)
                        THEN missed \cup {aim.name} ELSE missed
    /\ UNCHANGED <<tables, world, lists, told, sent, audit, jobs, sold, crossed, late>>

Reads(p) ==
    /\ Does(p, "read")
    /\ LET t == task[p]
       IN  IF t.aim.left = {} THEN Set(p, Then(p, t))
           ELSE \E r \in t.aim.left :
                  LET cmds == PlanFor(r, World, lists[r], t.aim.names, t.aim.prune)
                  IN  Set(p, [t EXCEPT !.pc = IF cmds = {} THEN "read" ELSE "send",
                                !.aim.left = IF cmds = {} THEN @ \ {r} ELSE @,
                                !.was = IF cmds = {} THEN @ ELSE r,
                                !.cmds = cmds])
    /\ UNCHANGED <<tables, world, lists, told, sent, audit, jobs, ghosts>>

\* A router that may fail does it once, at this exchange.
Fails(r) ==
    LET fault == [what |-> "fault", of |-> r]
    IN  fault \in moves /\ moves' = moves \ {fault}

\* What a withdrawal leaves on a router: no later pass removes it.
Left(names, prune, r, list) ==
    IF prune THEN {n \in names : At(n, list) # {} /\ ~Declared(n)} ELSE {}

\* The plan of a router that does not answer: nothing is sent, the next router.
ReadFails(p) ==
    /\ Does(p, "read")
    /\ LET t == task[p]
       IN  \E r \in t.aim.left :
             /\ Fails(r)
             /\ missed' = missed \cup Left(t.aim.names, t.aim.prune, r, lists[r])
             /\ Set(p, [t EXCEPT !.aim.left = @ \ {r}])
    /\ UNCHANGED <<tables, around, lists, told, sent, audit, jobs, sold, crossed, late>>

Undeclared(cmds) == {n \in {c.row.name : c \in {x \in cmds : x.verb # "remove"}} : ~Declared(n)}

\* What is written makes the report kept for the page forgotten, not the audit
\* being read.
Written(r, cmds) ==
    /\ lists' = [lists EXCEPT ![r] = Applied(cmds, @)]
    /\ late' = late \cup Undeclared(cmds)
    /\ live' = IF live # None /\ live.report # None /\ (\E c \in cmds : Accepted(c, lists[r]))
               THEN None ELSE live

Sends(p) ==
    /\ Does(p, "send")
    /\ LET t == task[p]
           r == t.was
       IN  /\ Written(r, t.cmds)
           /\ Set(p, [t EXCEPT !.pc = "read", !.cmds = {}, !.was = None,
                        !.aim.left = @ \ {r}])
    /\ UNCHANGED <<tables, world, told, sent, asked, good, jobs, sold, crossed, missed>>

\* The connection is lost, or the router refuses: some commands are done.
SendFails(p) ==
    /\ Does(p, "send")
    /\ LET t == task[p]
           r == t.was
       IN  /\ Fails(r)
           /\ \E done \in (SUBSET t.cmds) \ {t.cmds} : Written(r, done)
           /\ missed' = missed \cup Left(t.aim.names, t.aim.prune, r, lists'[r])
           /\ Set(p, [t EXCEPT !.pc = "read", !.cmds = {}, !.was = None,
                        !.aim.left = @ \ {r}])
    /\ UNCHANGED <<tables, around, told, sent, asked, good, jobs, sold, crossed>>

-----------------------------------------------------------------------------
(* DELETE /model/v1/services/<id> *)
Recalls(p) ==
    /\ Does(p, "recall")
    /\ Set(p, [task[p] EXCEPT !.pc = "unwait", !.place = fiche[task[p].ask.name]])
    /\ UNCHANGED <<tables, world, lists, told, sent, audit, jobs, ghosts>>

Unwaits(p) ==
    /\ Does(p, "unwait")
    /\ LET t == task[p]
           c == t.ask.name
       IN  /\ waiting' = [waiting EXCEPT ![c] = None]
           /\ crossed' = IF Busy(c, p) THEN crossed \cup {c} ELSE crossed
           /\ Set(p, [t EXCEPT !.pc = "weigh", !.saw = IF waiting[c] # None THEN "waiting" ELSE None])
    /\ UNCHANGED <<fiche, plan, forced, package, rows, world, lists, told, sent, audit, jobs,
                   sold, late, missed>>

\* Neither a row that waited nor a record: 404.  A record entered by hand: 409.
Weighs(p) ==
    /\ Does(p, "weigh")
    /\ LET t == task[p]
           c == t.ask.name
           forgotten == fiche[c] = None /\ t.saw = "waiting"
       IN  /\ crossed' = IF Busy(c, p) THEN crossed \cup {c} ELSE crossed
           /\ sold' = IF forgotten THEN sold \ {c} ELSE sold
           /\ CASE forgotten -> Set(p, Go(t, "withdraw"))
                [] fiche[c] # None /\ ~Refused(c) ->
                     Set(p, [t EXCEPT !.pc = "erase", !.saw = fiche[c].source])
                [] OTHER -> Set(p, Then(p, t))
    /\ UNCHANGED <<fiche, waiting, plan, forced, package, rows, world, lists, told, sent, audit,
                   jobs, late, missed>>

Erases(p) ==
    /\ Does(p, "erase")
    /\ LET t == task[p]
       IN  /\ fiche' = [fiche EXCEPT ![t.ask.name] = None]
           /\ sold' = sold \ {t.ask.name}
           /\ Set(p, Go(t, "withdraw"))
    /\ UNCHANGED <<waiting, plan, forced, package, rows, world, lists, told, sent, audit, jobs,
                   crossed, late>>
    /\ Orphans

\* Mutant: the queue is looked at again, not removed.
WithdrawalKept(c, was, place) == Static(c, was.site, was.addr, FALSE)

\* The queue of a service that is gone: on a session it falls back to the plan
\* of the session, elsewhere it is removed.
Withdrawal(c, was, place) ==
    IF place # None /\ place.login # None
    THEN Static(c, place.site, was.addr, FALSE)
    ELSE Static(c, IF place # None THEN place.site ELSE was.site, None, TRUE)

Withdraws(p) ==
    /\ Does(p, "withdraw")
    /\ LET t == task[p]
           c == t.ask.name
           place == Located(t.place.addr, World)
           onSession == t.place # None /\ place # None /\ place.login # None
       IN  /\ IF t.place = None
              THEN Set(p, Go(t, "unplan"))
              ELSE Set(p, [t EXCEPT !.pc = "aim", !.aim = Withdrawal(c, t.place, place),
                             !.next = <<"unplan">>])
           /\ missed' = IF (t.place = None \/ onSession) /\ Holders(c) # {}
                        THEN missed \cup {c} ELSE missed
    /\ UNCHANGED <<tables, world, lists, told, sent, audit, jobs, sold, crossed, late>>

\* The clients whose plan came from the service lose it, one after the other.
Unplans(p) ==
    /\ Does(p, "unplan")
    /\ LET t == task[p]
           mine == {l \in Names : plan[l] # None /\ plan[l].service = t.ask.name}
       IN  /\ plan' = [l \in Names |-> IF l \in mine THEN None ELSE plan[l]]
           /\ Set(p, [t EXCEPT !.pc = "release", !.todo = mine])
    /\ UNCHANGED <<fiche, waiting, forced, package, rows, world, lists, told, sent, audit, jobs,
                   ghosts>>

Releases(p) ==
    /\ Does(p, "release")
    /\ LET t == task[p]
       IN  IF t.todo = {} THEN Set(p, Then(p, t))
           ELSE \E l \in t.todo :
                  Set(p, [t EXCEPT !.pc = "fetch", !.was = l, !.todo = @ \ {l},
                            !.next = <<"release">>])
    /\ UNCHANGED <<tables, world, lists, told, sent, audit, jobs, ghosts>>

-----------------------------------------------------------------------------
(* The records entered by hand, and the plans page *)
HandWrites(p) ==
    /\ Does(p, "write")
    /\ LET t == task[p]
           a == t.ask
           f == fiche[a.name]
           new == [source |-> "manual", site |-> a.site, addr |-> a.addr, rate |-> a.rate,
                   on |-> a.on]
           gesture(site, addr, removing) ==
               Set(p, [t EXCEPT !.pc = "aim", !.aim = Static(a.name, site, addr, removing)])
       IN  \/ /\ a.does = "create" /\ f = None
              /\ fiche' = [fiche EXCEPT ![a.name] = new]
              /\ gesture(a.site, a.addr, FALSE) /\ UNCHANGED sold
           \/ /\ a.does = "update" /\ f # None
              /\ fiche' = [fiche EXCEPT ![a.name] = [new EXCEPT !.source = f.source]]
              /\ gesture(a.site, a.addr, FALSE) /\ UNCHANGED sold
           \/ /\ a.does = "remove" /\ f # None
              /\ fiche' = [fiche EXCEPT ![a.name] = None]
              /\ sold' = sold \ {a.name}
              /\ gesture(f.site, None, TRUE)
           \/ /\ (a.does = "create") = (f # None)
              /\ Set(p, Then(p, t)) /\ UNCHANGED <<fiche, sold>>
    /\ UNCHANGED <<waiting, plan, forced, package, rows, world, lists, told, sent, audit, jobs,
                   crossed, late>>
    /\ Orphans

\* PUT and DELETE /plans/<name>: the plan of a record is in the record, that of a
\* subscriber in client_plans, that of a login never seen waits there.
Looks(p) ==
    /\ Does(p, "look")
    /\ LET t == task[p]
           n == t.ask.name
           saw == CASE n \in References /\ fiche[n] # None -> "static"
                    [] n \in Logins /\ rows[n] # None -> "subscriber"
                    [] OTHER -> "pending"
           forgets == saw = "pending" /\ t.ask.rate = 0
       IN  Set(p, IF forgets THEN [t EXCEPT !.pc = "decide", !.saw = saw, !.next = <<"lift">>]
                             ELSE [t EXCEPT !.pc = "lift", !.saw = saw, !.next = <<"decide">>])
    /\ UNCHANGED <<tables, world, lists, told, sent, audit, jobs, ghosts>>

\* The plan becomes the rule: the rate forced elsewhere is lifted.
Lifts(p) ==
    /\ Does(p, "lift")
    /\ forced' = [forced EXCEPT ![task[p].ask.name] = 0]
    /\ Set(p, Then(p, task[p]))
    /\ UNCHANGED <<fiche, waiting, plan, package, rows, world, lists, told, sent, audit, jobs,
                   sold, crossed, late>>
    /\ IF task[p].saw = "pending" THEN Orphans ELSE UNCHANGED missed

Decides(p) ==
    /\ Does(p, "decide")
    /\ LET t == task[p]
           n == t.ask.name
           f == fiche[n]
           written == IF t.ask.rate = 0 THEN None ELSE [rate |-> t.ask.rate, service |-> None]
           place == IF f = None THEN Static(n, NoSite, None, FALSE)
                                ELSE Static(n, f.site, f.addr, FALSE)
       IN  \/ /\ t.saw = "static"
              /\ fiche' = IF f = None THEN fiche ELSE [fiche EXCEPT ![n].rate = t.ask.rate]
              /\ Set(p, [t EXCEPT !.pc = "aim", !.aim = place])
              /\ UNCHANGED plan
           \/ /\ t.saw = "subscriber"
              /\ plan' = [plan EXCEPT ![n] = written]
              /\ Set(p, [t EXCEPT !.pc = "fetch", !.was = n])
              /\ UNCHANGED fiche
           \/ /\ t.saw = "pending"
              /\ plan' = [plan EXCEPT ![n] = written]
              /\ Set(p, IF written = None /\ plan[n] = None THEN Task(None, "idle")
                                                           ELSE Then(p, t))
              /\ UNCHANGED fiche
    /\ UNCHANGED <<waiting, forced, package, rows, world, lists, told, sent, audit, jobs,
                   sold, crossed, late>>
    /\ IF task[p].saw = "pending" THEN Orphans ELSE UNCHANGED missed

-----------------------------------------------------------------------------
(* clean_queues: every row of a router is removed, then its plan is put back   *)
Sweeps(p) ==
    /\ Does(p, "sweep")
    /\ LET t == task[p]
       IN  Set(p, [t EXCEPT !.pc = "clean", !.cmds =
                     {[verb |-> "remove", row |-> q] : q \in Range(lists[t.ask.name])}])
    /\ UNCHANGED <<tables, world, lists, told, sent, audit, jobs, ghosts>>

Cleans(p) ==
    /\ Does(p, "clean")
    /\ LET t == task[p]
       IN  /\ Written(t.ask.name, t.cmds)
           /\ Set(p, [t EXCEPT !.pc = "read", !.cmds = {},
                        !.aim = [names |-> Names, left |-> {t.ask.name}, prune |-> FALSE]])
    /\ UNCHANGED <<tables, world, told, sent, asked, good, jobs, sold, crossed, missed>>

\* The rows that cannot be read end the request; of the removals, some are done,
\* and the rest of the request goes on after a refusal, not after a lost call.
CleanFails(p) ==
    /\ Does(p, "sweep") \/ Does(p, "clean")
    /\ LET t == task[p]
           r == t.ask.name
           end == Task(None, "idle")
       IN  /\ Fails(r)
           /\ \/ Does(p, "sweep") /\ Set(p, end) /\ UNCHANGED <<lists, late, live>>
              \/ /\ Does(p, "clean")
                 /\ \E done \in (SUBSET t.cmds) \ {t.cmds} : Written(r, done)
                 /\ \/ Set(p, end)
                    \/ Set(p, [t EXCEPT !.pc = "read", !.cmds = {},
                                 !.aim = [names |-> Names, left |-> {r}, prune |-> FALSE]])
    /\ UNCHANGED <<tables, around, told, sent, asked, good, jobs, sold, crossed, missed>>

-----------------------------------------------------------------------------
(* place_unplaced: the services without a site, then those without an address, *)
(* as the tables of the routers show their equipment                           *)
Gathers ==
    /\ "placing" \in jobs /\ Does("placing", "idle")
    /\ LET lost == {c \in References : fiche[c] # None /\ fiche[c].source = "api"
                                        /\ fiche[c].site = NoSite}
       IN  /\ lost # {} \/ \E c \in References : waiting[c] # None /\ waiting[c].mac # None
           /\ Set("placing", [Task(None, "roam") EXCEPT !.todo =
                                {[name |-> c, addr |-> fiche[c].addr] : c \in lost}])
    /\ UNCHANGED <<tables, world, lists, told, sent, audit, jobs, ghosts>>

First(todo) == CHOOSE q \in todo : \A x \in todo :
                   \E i, j \in DOMAIN Order : Order[i] = q.name /\ Order[j] = x.name /\ i <= j

Roams ==
    /\ Does("placing", "roam")
    /\ LET t == task["placing"]
           q == First(t.todo)
           place == Located(q.addr, World)
           f == fiche[q.name]
       IN  IF t.todo = {}
           THEN Set("placing", Go(t, "list")) /\ UNCHANGED fiche
           ELSE /\ Set("placing", [t EXCEPT !.todo = @ \ {q}])
                /\ fiche' = IF place # None /\ f # None /\ ~IsHand(f)
                            THEN [fiche EXCEPT ![q.name].site = place.site] ELSE fiche
    /\ UNCHANGED <<waiting, plan, forced, package, rows, world, lists, told, sent, audit, jobs,
                   ghosts>>

Lists ==
    /\ Does("placing", "list")
    /\ LET unplaced == {c \in References : waiting[c] # None /\ waiting[c].mac # None}
       IN  Set("placing", IF unplaced = {} THEN Task(None, "idle")
                          ELSE [task["placing"] EXCEPT !.pc = "scan", !.todo =
                                  {[name |-> c, sold |-> waiting[c]] : c \in unplaced}])
    /\ UNCHANGED <<tables, world, lists, told, sent, audit, jobs, ghosts>>

Scans ==
    /\ Does("placing", "scan")
    /\ LET t == task["placing"]
           seen == {q \in t.todo : arp[q.sold.mac] # None}
       IN  Set("placing", Then("placing", [t EXCEPT !.todo =
               {[name |-> q.name, sold |-> q.sold, addr |-> arp[q.sold.mac]] : q \in seen}]))
    /\ UNCHANGED <<tables, world, lists, told, sent, audit, jobs, ghosts>>

Picks ==
    /\ Does("placing", "pick")
    /\ LET t == task["placing"]
           q == First(t.todo)
       IN  Set("placing", [Task([kind |-> "put", name |-> q.name, addr |-> q.addr,
                                 mac |-> q.sold.mac, rate |-> q.sold.rate,
                                 package |-> q.sold.package, site |-> q.sold.site,
                                 on |-> q.sold.on],
                                "situate") EXCEPT !.todo = t.todo \ {q}])
    /\ UNCHANGED <<tables, world, lists, told, sent, audit, jobs, ghosts>>

-----------------------------------------------------------------------------
(* The jobs, beside the requests *)
Seen == {l \in Logins : rows[l] # None}

PlansRead ==
    /\ "plans" \in jobs /\ told = None
    /\ Seen # {}
    /\ told' = [l \in Seen |-> Given(l)]
    /\ UNCHANGED <<tables, world, lists, task, sent, audit, jobs, ghosts>>

\* A client without a plan is told so: the plan of before does not stay.
PlansWritten ==
    /\ told # None
    /\ rows' = Noted(told)
    /\ late' = late \cup {l \in DOMAIN told : told[l] # Given(l)}
    /\ told' = None
    /\ UNCHANGED <<fiche, waiting, plan, forced, package, world, lists, task, sent, audit, jobs,
                   sold, crossed, missed>>

\* The reconciliation of a router puts back and corrects, and removes nothing.
Reconciles(r) ==
    /\ "reconcile" \in jobs /\ sent[r] = {}
    /\ LET cmds == PlanFor(r, World, lists[r], Names, FALSE)
       IN  cmds # {} /\ sent' = [sent EXCEPT ![r] = cmds]
    /\ UNCHANGED <<tables, world, lists, task, told, audit, jobs, ghosts>>

Reconciled(r) ==
    /\ sent[r] # {}
    /\ Written(r, sent[r])
    /\ sent' = [sent EXCEPT ![r] = {}]
    /\ UNCHANGED <<tables, world, task, told, asked, good, jobs, sold, crossed, missed>>

\* A router that fails does some of its commands; the next pass does the rest.
ReconcileFails(r) ==
    /\ sent[r] # {} /\ Fails(r)
    /\ \E done \in (SUBSET sent[r]) \ {sent[r]} : Written(r, done)
    /\ sent' = [sent EXCEPT ![r] = {}]
    /\ UNCHANGED <<tables, around, task, told, asked, good, jobs, sold, crossed, missed>>

\* What the reading of the firewall says of fasttrack, None when it is refused.
Firewall(r) == {r \in fasttrack} \cup IF r \in hidden THEN {None} ELSE {}

\* An audit works on the targets it built before it reads the router.
AuditStarts(r) ==
    /\ "audit" \in jobs /\ asked[r] = None
    /\ asked' = [asked EXCEPT ![r] = Wanted(r, World)]
    /\ UNCHANGED <<tables, world, lists, task, told, sent, good, live, jobs, ghosts>>

AuditReads(r) ==
    /\ asked[r] # None
    /\ \E active \in Firewall(r) :
          good' = [good EXCEPT ![r] = Audited(asked[r], lists[r], active)]
    /\ asked' = [asked EXCEPT ![r] = None]
    /\ UNCHANGED <<tables, world, lists, task, told, sent, live, jobs, ghosts>>

\* An audit that fails keeps the last one read.
AuditFails(r) ==
    /\ asked[r] # None
    /\ asked' = [asked EXCEPT ![r] = None]
    /\ UNCHANGED <<tables, world, lists, task, told, sent, good, live, jobs, ghosts>>

\* The page asks for an audit now: the report kept is given back as long as it
\* is recent, a router that does not answer in time is reported unread.
Presses(r) ==
    /\ "verify" \in jobs /\ live = None
    /\ live' = [router |-> r, targets |-> Wanted(r, World), report |-> None]
    /\ UNCHANGED <<tables, world, lists, task, told, sent, asked, good, jobs, ghosts>>

Answers ==
    /\ live # None /\ live.report = None
    /\ LET read == {<<Audited(live.targets, lists[live.router], active)>> :
                        active \in Firewall(live.router)}
       IN  \E report \in {<<>>} \cup read : live' = [live EXCEPT !.report = report]
    /\ UNCHANGED <<tables, world, lists, task, told, sent, asked, good, jobs, ghosts>>

Expires ==
    /\ live # None /\ live.report # None
    /\ live' = None
    /\ UNCHANGED <<tables, world, lists, task, told, sent, asked, good, jobs, ghosts>>

\* A cycle of collection: only a login never seen asks for its plan.
Collected(l) ==
    [addr |-> session[l].addr, site |-> OwnSite[session[l].at],
     plan |-> IF rows[l] = None THEN Given(l) ELSE rows[l].plan]

Collects(l) ==
    /\ session[l] # None /\ rows[l] # Collected(l)
    /\ rows' = [rows EXCEPT ![l] = Collected(l)]
    /\ UNCHANGED <<fiche, waiting, plan, forced, package, world, lists, task, told, sent, audit,
                   jobs, ghosts>>

-----------------------------------------------------------------------------
(* The world: sessions, networks, equipment, packages *)
Moves(m) ==
    /\ moves' = moves \ {m}
    /\ \/ /\ m.what = "session"
          /\ session' = [session EXCEPT ![m.of] = m.to]
          /\ UNCHANGED <<nets, arp, package>>
       \/ /\ m.what = "network"
          /\ nets' = nets \cup {m.of}
          /\ UNCHANGED <<session, arp, package>>
       \/ /\ m.what = "equipment"
          /\ arp' = [arp EXCEPT ![m.of] = m.to]
          /\ UNCHANGED <<session, nets, package>>
       \/ /\ m.what = "package"
          /\ package' = [package EXCEPT ![m.of] = m.to]
          /\ UNCHANGED <<session, nets, arp>>
    /\ UNCHANGED <<fiche, waiting, plan, forced, rows, fasttrack, hidden, lists, task, told, sent,
                   audit, jobs, sold, crossed, late>>
    /\ Orphans

-----------------------------------------------------------------------------
PutStep(p) ==
    \/ Situates(p) \/ Checks(p) \/ Upserts(p) \/ Forgets(p) \/ Records(p)
    \/ Applies(p) \/ Unplaces(p) \/ Awaits(p)
GestureStep(p) == Fetches(p) \/ Notes(p) \/ Aims(p) \/ Reads(p) \/ ReadFails(p)
                  \/ Sends(p) \/ SendFails(p)
DeleteStep(p)  ==
    \/ Recalls(p) \/ Unwaits(p) \/ Weighs(p) \/ Erases(p) \/ Withdraws(p) \/ Unplans(p)
    \/ Releases(p)
ScreenStep(p)  == HandWrites(p) \/ Looks(p) \/ Lifts(p) \/ Decides(p)
                  \/ Sweeps(p) \/ Cleans(p) \/ CleanFails(p)
Steps(p)       == PutStep(p) \/ GestureStep(p) \/ DeleteStep(p) \/ ScreenStep(p)
PlacingStep    == Gathers \/ Roams \/ Lists \/ Scans \/ Picks
Audits(r)      == AuditStarts(r) \/ AuditReads(r)

Next ==
    \/ \E p \in Actors : Steps(p)
    \/ PlacingStep
    \/ PlansRead \/ PlansWritten
    \/ \E r \in Routers : Reconciles(r) \/ Reconciled(r) \/ ReconcileFails(r) \/ Audits(r)
                         \/ AuditFails(r) \/ Presses(r)
    \/ Answers \/ Expires
    \/ \E l \in Logins : Collects(l)
    \/ \E m \in moves : Moves(m)

\* The requests finish, the jobs come back, and every router ends an audit in
\* the end.
Fairness ==
    /\ \A p \in Requests : WF_vars(Steps(p))
    /\ WF_vars(Steps("placing") \/ PlacingStep)
    /\ WF_vars(PlansRead \/ PlansWritten)
    /\ \A r \in Routers : /\ WF_vars(Reconciles(r) \/ Reconciled(r))
                          /\ WF_vars(AuditStarts(r)) /\ SF_vars(AuditReads(r))
    /\ \A l \in Logins : WF_vars(Collects(l))
    /\ WF_vars(Answers \/ Expires)

Spec == Init /\ [][Next]_vars /\ Fairness

-----------------------------------------------------------------------------
(* Properties *)
(* A record entered by hand is changed by a request of the screens on this     *)
(* record, or by an upsert or a DELETE of the billing, or an upsert of the     *)
(* placing job, whose check came before the record was one (model_repo.py:341, *)
(* "the API does not overwrite it": the check and the write are two            *)
(* statements).                                                                *)
Entitled(p, c) ==
    /\ \/ task[p].pc \in {"write", "decide"}
       \/ task[p].pc \in {"upsert", "erase"} /\ task[p].saw # "manual"
    /\ task[p].ask.name = c /\ task'[p] # task[p]

HandIsKept ==
    [][\A c \in References : IsHand(fiche[c]) /\ fiche'[c] # fiche[c]
          => \E p \in Actors : Entitled(p, c)]_vars

(* What was sold is held in the end.  A service accepted and not withdrawn is  *)
(* a record or waits, and does not wait for an equipment that is seen, nor for *)
(* a site a router answers for, unless two writers wrote it at once; and its   *)
(* record, if nobody else claims its address, has on the router where this     *)
(* address lives the row that binds, at the rate sold or forced.               *)
OfAddress(a) == {l \in Logins : session[l] # None /\ session[l].addr = a}

Homes(c) ==
    LET a == fiche[c].addr
    IN  IF OfAddress(a) # {} THEN {session[l].at : l \in OfAddress(a)}
        ELSE IF Network[a] \in nets THEN {Network[a]} ELSE RoutersForSite(fiche[c].site)

Shared(c) == \E x \in References \ {c} : fiche[x] # None /\ fiche[x].addr = fiche[c].addr

Due(c) ==
    LET own == {forced[l] : l \in OfAddress(fiche[c].addr)} \ {0}
    IN  IF own # {} THEN own ELSE IF forced[c] # 0 /\ OfAddress(fiche[c].addr) = {}
                                  THEN {forced[c]} ELSE {Sold(c, World)}

\* The first row of the address is one its owner left behind.
Leftover(a, r) ==
    \E i \in DOMAIN lists[r] : /\ lists[r][i].addr = a /\ ~Masked(i, lists[r])
                               /\ \A t \in Wanted(r, World) : t.addr = a => t.name # lists[r][i].name

Holds(c) ==
    \A r \in Homes(c) : Leftover(fiche[c].addr, r) \/
        \E q \in Range(lists[r]), rate \in Due(c) :
            Binds([name |-> q.name, addr |-> fiche[c].addr, rate |-> rate], lists[r])

Placed(c) ==
    /\ fiche[c] # None \/ waiting[c] # None
    /\ waiting[c] # None /\ waiting[c].mac # None /\ "placing" \in jobs
         => arp[waiting[c].mac] = None
    /\ fiche[c] # None /\ fiche[c].source = "api" /\ "placing" \in jobs
         => fiche[c].site # NoSite \/ Located(fiche[c].addr, World) = None

SoldIsHeld ==
    \A c \in sold \ crossed :
        \/ IsHand(fiche[c]) /\ waiting[c] # None
        \/ /\ Placed(c)
           /\ fiche[c] # None /\ fiche[c].on /\ "reconcile" \in jobs /\ ~Shared(c) => Holds(c)

\* What the last audit says of fasttrack is so, or it says that it could not read
\* the firewall of a router that may refuse it; what it says is held is what binds,
\* and nothing else, as far as it could see: fasttrack is not counted when the
\* firewall was not read.
Faithful(report, r) ==
    /\ report.active \in Firewall(r)
    /\ \A v \in report.queues : v.is # "uncapped" =>
          (v.is = "held" <=> /\ report.active # TRUE
                             /\ \E t \in Wanted(r, World) : t.name = v.name /\ Binds(t, lists[r]))

ReportIsTrue ==
    /\ "audit" \in jobs => \A r \in Routers : good[r] # None /\ Faithful(good[r], r)
    /\ live # None /\ live.report # None
         => \A i \in DOMAIN live.report : Faithful(live.report[i], live.router)

\* The map shows in place the rows that bind, and no other; the inventory says
\* of a record its router looks after itself that it is set when it is held.
MapIsTrue ==
    \A r \in Routers : \A t \in Targets(r, World) :
        [name |-> t.name, is |-> "set"] \in Points(r, World, lists[r])
            => Binds(t, lists[r])

InventoryIsTrue ==
    \A c \in On(World) :
        /\ PageOf(c, World, lists) = "set"
        /\ \A r \in ByName(fiche[c].site) : c \in StaticsFor(r, World) \cap Alone(r, World)
        => \A r \in ByName(fiche[c].site) : \E q \in Range(lists[r]) :
               q.name = c /\ q.addr = fiche[c].addr /\ Binds(q, lists[r])

\* The rate the plans page shows of a subscriber.
RateShown(l) == IF forced[l] # 0 THEN forced[l]
                ELSE IF plan[l] # None THEN Given(l) ELSE DefaultRate

\* A connected subscriber without a service on his address has the rate shown.
PlansPageIsTrue ==
    \A l \in {l \in Seen : session[l] # None} :
        /\ {"plans", "reconcile"} \subseteq jobs
        /\ \A c \in On(World) : fiche[c].addr # session[l].addr
        => \/ Leftover(session[l].addr, session[l].at)
           \/ IF RateShown(l) = 0 THEN ~\E t \in Wanted(session[l].at, World) : t.name = l
              ELSE Binds([name |-> l, addr |-> session[l].addr, rate |-> RateShown(l)],
                         lists[session[l].at])

PagesAreTrue == MapIsTrue /\ InventoryIsTrue /\ PlansPageIsTrue

Delivered == <>[](SoldIsHeld /\ ReportIsTrue /\ PagesAreTrue)

(* What is no longer sold is no longer held: a row of a router that nobody     *)
(* answers for any more was written from a reading older than its withdrawal,  *)
(* or its withdrawal did not aim at this router, or did aim at it and the      *)
(* router did not answer or refused (then nothing removes the row, whatever    *)
(* the number of passes: the failure is answered, or only logged, and no job   *)
(* prunes).                                                                    *)
Cleared ==
    \A r \in Routers : \A q \in Range(lists[r]) :
        Declared(q.name) \/ q.name \in late \cup missed

Gone == <>[]Cleared
=============================================================================
