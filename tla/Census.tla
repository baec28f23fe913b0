------------------------------- MODULE Census -------------------------------
(***************************************************************************)
(* The clients nobody declared: the periodic census of a router            *)
(* (services/collection.py, collectors/mikrotik.py), what it records       *)
(* (db/static_clients_repo.py), the candidates that are left once the      *)
(* declared clients are taken away, and the redrawing of the tree that a   *)
(* declaration asks for (api/static_clients.py).                           *)
(*                                                                         *)
(* One table is read after the other while the router lives on, and each   *)
(* reading may fail on its own; the tables read between two moments where  *)
(* something may happen are one step.  The retention is a day and a run a  *)
(* few minutes: time passes between runs, not within one, and never        *)
(* without a run in between.                                               *)
(***************************************************************************)
EXTENDS CensusTables

CONSTANTS
    Addrs,       \* addresses
    Retention,   \* how long a sighting is kept, in units of time
    Starts       \* what the behaviours start from: [router, broken, steps, managed,
                 \* fiches, moves, declares, manages, changes, failures]

VARIABLES
    router,   \* the tables as they are on the router
    reading,  \* the census in progress: [got, at, unread, known], or None
    seen,     \* address -> [interface, mac, tag, age], or None
    fiches,   \* the clients declared: a set of sets of networks
    managed,  \* addresses the inventory reaches its routers at
    ran,      \* has a run ended since time last passed
    redraw,   \* the rediscovery: [task, again, read, tree, failed]
    start     \* what the behaviour started from, with what is left of its bounds

vars == <<router, reading, seen, fiches, managed, ran, redraw, start>>

Age == 0..(Retention + 1)
Unread(t, names) == [name \in Tables |-> IF name \in names THEN <<>> ELSE t[name]]

TypeOK ==
    /\ reading # None => reading.at \in 0..Len(start.steps) /\ reading.unread \subseteq Tables
    /\ \A a \in Addrs : seen[a] # None => seen[a].age \in Age
    /\ managed \subseteq Addrs /\ ran \in BOOLEAN
    /\ redraw.task \in {"idle", "asked", "started", "reading"} /\ redraw.again \in BOOLEAN

Init ==
    /\ start \in Starts
    /\ router = start.router /\ fiches = start.fiches /\ managed = start.managed
    /\ reading = None /\ ran = FALSE
    /\ seen = [a \in Addrs |-> None]
    /\ redraw = [task |-> "idle", again |-> FALSE, read |-> {}, tree |-> start.fiches,
                 failed |-> FALSE]
-----------------------------------------------------------------------------
(* The census of the router.                                               *)

Spend(bound) == start[bound] > 0 /\ start' = [start EXCEPT ![bound] = @ - 1]

\* The hosts of the inventory are read before the tables.
Begin ==
    /\ reading = None
    /\ reading' = [got |-> [name \in Tables |-> <<>>], at |-> 0, unread |-> {}, known |-> managed]
    /\ UNCHANGED <<router, seen, fiches, managed, ran, redraw, start>>

\* A table that cannot be read does not cancel the others.
Read(lost) ==
    /\ reading # None /\ reading.at < Len(start.steps)
    /\ LET step == start.steps[reading.at + 1]
           unread == (start.broken \cup lost) \cap step
       IN  /\ lost \subseteq step
           /\ reading' = [reading EXCEPT
                 !.got = [name \in Tables |-> IF name \in step \ unread THEN router[name] ELSE @[name]],
                 !.unread = @ \cup unread, !.at = @ + 1]
    /\ UNCHANGED <<router, seen, fiches, managed, ran, redraw>>

Reads == Read({}) /\ UNCHANGED start
ReadFails == \E name \in Tables : Read({name}) /\ Spend("failures")

Recent(s) == s # None /\ s.age <= Retention
Pruned(sightings) == [a \in Addrs |-> IF Recent(sightings[a]) THEN sightings[a] ELSE None]

Fresh(host) == [interface |-> host.interface, mac |-> host.mac, tag |-> host.tag, age |-> 0]
Found(found, a) == {Fresh(host) : host \in {h \in found : h.address = a}}

\* Mutant: the table is rewritten with what this run saw.
Rewritten(found) ==
    [a \in Addrs |-> IF Found(found, a) = {} THEN None ELSE CHOOSE s \in Found(found, a) : TRUE]

\* A sighting replaces the one of the same address and leaves the others.
Recorded(found) ==
    [a \in Addrs |-> IF Found(found, a) = {} THEN seen[a] ELSE CHOOSE s \in Found(found, a) : TRUE]

\* A census that lacks a table brings what it saw along with its error.
Record ==
    /\ reading # None /\ reading.at = Len(start.steps)
    /\ seen' = Pruned(Recorded(Sightings(reading.got, reading.known)))
    /\ reading' = None /\ ran' = TRUE
    /\ UNCHANGED <<router, fiches, managed, redraw, start>>

\* Too long a reading brings nothing; what was recorded before stays.
GivesUp ==
    /\ reading # None /\ Spend("failures")
    /\ seen' = Pruned(seen)
    /\ reading' = None /\ ran' = TRUE
    /\ UNCHANGED <<router, fiches, managed, redraw>>

\* The database refuses: nothing is recorded, nothing forgotten.
RecordFails ==
    /\ reading # None /\ reading.at = Len(start.steps) /\ Spend("failures")
    /\ reading' = None /\ ran' = TRUE
    /\ UNCHANGED <<router, seen, fiches, managed, redraw>>

Tick ==
    /\ reading = None /\ ran
    /\ ran' = FALSE
    /\ seen' = [a \in Addrs |->
                   IF seen[a] = None THEN None
                   ELSE [seen[a] EXCEPT !.age = IF @ > Retention THEN @ ELSE @ + 1]]
    /\ UNCHANGED <<router, reading, fiches, managed, redraw, start>>

\* A row comes or goes on the router.
Change ==
    /\ Spend("changes")
    /\ \E m \in start.moves : router[m.table] # m.rows
                              /\ router' = [router EXCEPT ![m.table] = m.rows]
    /\ UNCHANGED <<reading, seen, fiches, managed, ran, redraw>>

\* A router joins the inventory.
Manage ==
    /\ \E a \in start.manages \ managed : managed' = managed \cup {a}
    /\ UNCHANGED <<router, reading, seen, fiches, ran, redraw, start>>
-----------------------------------------------------------------------------
(* A declaration, and the tree drawn again behind it: one discovery at a   *)
(* time, and one more at its end when something was declared meanwhile.    *)

\* Mutant: a declaration made while a discovery runs is left to it.
AskedOnce(r) == IF r.task = "idle" THEN [r EXCEPT !.task = "asked"] ELSE r

Asked(r) == IF r.task = "idle" THEN [r EXCEPT !.task = "asked"]
            ELSE [r EXCEPT !.again = TRUE]

Declare(f) ==
    /\ f \notin fiches /\ Spend("changes")
    /\ fiches' = fiches \cup {f} /\ redraw' = Asked(redraw)
    /\ UNCHANGED <<router, reading, seen, managed, ran>>

Withdraw(f) ==
    /\ f \in fiches /\ Spend("changes")
    /\ fiches' = fiches \ {f} /\ redraw' = Asked(redraw)
    /\ UNCHANGED <<router, reading, seen, managed, ran>>

\* The address or the ranges of a client are corrected in one step.
Edit(f, g) ==
    /\ f \in fiches /\ g \notin fiches /\ Spend("changes")
    /\ fiches' = (fiches \ {f}) \cup {g} /\ redraw' = Asked(redraw)
    /\ UNCHANGED <<router, reading, seen, managed, ran>>

DiscoveryStarts ==
    /\ redraw.task = "asked"
    /\ redraw' = [redraw EXCEPT !.task = "started", !.again = FALSE, !.failed = FALSE]
    /\ UNCHANGED <<router, reading, seen, fiches, managed, ran, start>>

DiscoveryReads ==
    /\ redraw.task = "started"
    /\ redraw' = [redraw EXCEPT !.task = "reading", !.read = fiches]
    /\ UNCHANGED <<router, reading, seen, fiches, managed, ran, start>>

Ended(r) == IF r.again THEN [r EXCEPT !.task = "started", !.again = FALSE, !.failed = FALSE]
            ELSE [r EXCEPT !.task = "idle"]

DiscoveryEnds ==
    /\ redraw.task = "reading"
    /\ redraw' = Ended([redraw EXCEPT !.tree = redraw.read])
    /\ UNCHANGED <<router, reading, seen, fiches, managed, ran, start>>

\* The discovery fails: the next periodic one will do.
DiscoveryFails ==
    /\ redraw.task = "reading" /\ Spend("failures")
    /\ redraw' = Ended([redraw EXCEPT !.failed = TRUE])
    /\ UNCHANGED <<router, reading, seen, fiches, managed, ran>>

\* The process starts again: what was in progress is lost, the tables stay.
Restart ==
    /\ reading # None \/ redraw.task # "idle"
    /\ Spend("failures")
    /\ reading' = None
    /\ redraw' = [redraw EXCEPT !.task = "idle", !.again = FALSE,
                                !.failed = redraw.failed \/ redraw.task # "idle"]
    /\ UNCHANGED <<router, seen, fiches, managed, ran>>
-----------------------------------------------------------------------------
Next ==
    \/ Begin \/ Reads \/ ReadFails \/ Record \/ GivesUp \/ RecordFails \/ Tick
    \/ Change \/ Manage
    \/ \E f \in start.declares : Declare(f) \/ Withdraw(f)
    \/ \E f, g \in start.declares : Edit(f, g)
    \/ DiscoveryStarts \/ DiscoveryReads \/ DiscoveryEnds \/ DiscoveryFails \/ Restart

\* The steps that end a complete reading without a fault are those of Record.
ReadingEnds == /\ reading # None /\ reading.at = Len(start.steps)
               /\ reading' = None /\ UNCHANGED start

\* The scheduler runs the job again and again, a reading in progress ends, and
\* time passes.
Spec ==
    /\ Init /\ [][Next]_vars
    /\ WF_vars(Begin) /\ WF_vars(Reads)
    /\ WF_reading(ReadingEnds) /\ SF_vars(Tick)
    /\ WF_vars(DiscoveryStarts) /\ WF_vars(DiscoveryReads) /\ WF_vars(DiscoveryEnds)
-----------------------------------------------------------------------------
(* What the theorems take of the routers, which no code decides.           *)

\* What a table may hold as the story goes.
Versions(s, name) == {s.router[name]} \cup {m.rows : m \in {x \in s.moves : x.table = name}}

\* An address looked up in vain on a PPPoE interface is in no network of another.
LooksUpAtHome(lookups, servers, networks) ==
    \A row \in lookups, server \in servers, net \in networks :
        row.mac = None /\ ~server.off /\ server.interface = row.interface /\ row.address \in net.net
            => net.interface = row.interface

\* A table is rows, and is read once.
Deployment ==
    \A s \in Starts :
        /\ {"router", "moves", "steps", "changes", "failures"} \subseteq DOMAIN s
        /\ DOMAIN s.router = Tables
        /\ s.steps \in Seq(SUBSET Tables)
        /\ \A i, j \in 1..Len(s.steps) : i # j => s.steps[i] \cap s.steps[j] = {}
        /\ \A name \in Tables : \A rows \in Versions(s, name) : IsRows(rows)
        /\ \A rows \in Versions(s, "queues") : \A q \in Rows(rows) : IsRows(q.targets)
        /\ \A lookups \in Versions(s, "arp"), servers \in Versions(s, "pppoe_servers"),
              networks \in Versions(s, "addresses") :
              LooksUpAtHome(Rows(lookups), Rows(servers), Rows(networks))
-----------------------------------------------------------------------------
Covered(a) == \E f \in fiches : \E net \in f : a \in net

\* What the operator is shown: the recent sightings nobody declared.
Candidates == {a \in Addrs : Recent(seen[a]) /\ ~Covered(a)}

\* What a census without a fault would propose now.
Undeclared == {a \in Clients(Unread(router, start.broken), managed) : ~Covered(a)}

\* What is known not to be a client: the routers and the subscribers in session.
Known == managed \cup {row.address : row \in Rows(router["addresses"])}
                 \cup {row.address : row \in Rows(router["ppp_active"])}

\* Once the network rests, the page lists the clients nobody declared, all of
\* them and nobody else, and no machine of the house: what the census of a
\* fleet whose tables come and go, fail and recover is for (build_census,
\* record, candidates, prune).
CandidatesSettle == <>[](Candidates = Undeclared /\ Candidates \cap Known = {})

\* A census that reports no error proposed every client that a reading of all
\* the tables would have proposed: a table may only be called optional if its
\* absence hides nobody (missing_sources, PartialCensusError).
OkRunMissesNobody ==
    reading # None /\ reading.at = Len(start.steps) /\ Missing(reading.unread) = {} =>
        LET whole == [name \in Tables |-> IF name \in reading.unread THEN router[name]
                                          ELSE reading.got[name]]
        IN  Clients(whole, reading.known) \subseteq Clients(reading.got, reading.known)

\* No run takes back what another run saw less than a retention ago, be it
\* partial, refused or given up: "un recensement partiel" only adds.
RunsOnlyAdd ==
    [][\A a \in Candidates : a \in Candidates' \/ Covered(a)' \/ seen'[a] # None]_vars

\* Whatever is declared, corrected or removed while the tree is being drawn,
\* the tree ends by being that of the declared clients, unless the last
\* drawing failed (_redessiner_l_arbre).
TreeFollows == <>[](redraw.failed \/ redraw.tree = fiches)
=============================================================================
