------------------------------- MODULE NetFlow -------------------------------
(***************************************************************************)
(* The flow collector (services/netflow_service.py, collectors/netflow.py, *)
(* db/flows_repo.py, api/netflow.py): datagrams heard in any order or      *)
(* never, decoded with the templates of their exporter, counted in the     *)
(* window; the job that flushes the window, writes it, and reads again the *)
(* declarations; the people who declare exporters meanwhile.               *)
(***************************************************************************)
EXTENDS FlowAggregator

CONSTANTS
    Passages,      \* [packet, exporter, rec]: a packet as one exporter reports it
    ClientOf,      \* packet -> [address, dir, port]: whose packet it is
    Layout,        \* exporter -> how it lays out its records
    Announced,     \* exporters whose template was heard already
    Block0,        \* address -> subscriber declared at first, or None
    Declared0,     \* exporter -> point of view declared at first, or None
    Role0,         \* exporter -> its role in the inventory, or None
    Movable,       \* addresses that may change hands
    Editable,      \* exporters people act on
    DupTtl,        \* windows an input interface is remembered
    PointTtl,      \* windows a silent point of view counts as active
    MaxMoves       \* bound: changes by people and faults

\* What the inventory says of a router; "exit" is a router of a site whose default
\* route leaves the network.
Roles == {"gateway", "core", "pop", "exit"}

ASSUME NetFlowAssumption ==
    /\ MaxMoves \in Nat /\ Block0 \in [Addresses -> Sids \cup {None}]
    /\ Declared0 \in [Exporters -> Points \cup {None}]
    /\ Role0 \in [Exporters -> Roles \cup {None}]
    /\ \A p \in Passages : /\ p.exporter \in Exporters /\ {p.rec.from, p.rec.to} \subseteq Addresses
                           /\ ClientOf[p.packet].dir \in Dirs

VARIABLES
    \* the network
    left,          \* passages not reported yet
    \* the database
    table, blocks, role, dbUp,
    \* the memory of the process
    templates,     \* key of a template -> layout, or None
    agg, entry,    \* the window; [exporter, flow, input, age]
    exporters,     \* what is known of each exporter, or None
    index,         \* address -> subscriber, or None
    activity,      \* exporters heard since the last record
    fresh,         \* [point, age]: points of view that receive
    setting,       \* NETFLOW_ACCOUNTING_VANTAGE
    task,          \* the flush and the request of a person
    \* observation
    heard,         \* passages counted in the window
    spoken,        \* [passage, sid, age]: the uploads counted lately
    batch,         \* the last window, and what it was made of
    moves

database == <<table, blocks, role, dbUp>>
reception == <<left, templates, agg, entry, activity, fresh, heard, spoken>>
vars == <<database, reception, exporters, index, setting, task, batch, moves>>

Tasks == {"flush", "desk"}
Idle == [phase |-> "idle", rows |-> <<>>, blocks |-> <<>>]
Row0(e) == IF Declared0[e] = None THEN None
           ELSE [vantage |-> Declared0[e], note |-> "", enabled |-> TRUE]
Unknown == [vantage |-> "unknown", note |-> "", enabled |-> TRUE]
Frame(t, phase) == task' = [task EXCEPT ![t].phase = phase]

-----------------------------------------------------------------------------
(* Reception. A data set is unreadable until the template of its exporter  *)
(* was heard; the cache is indexed by exporter, since two routers may use  *)
(* one number for different layouts. Read with a layout that is not its    *)
(* own, a record says something else: here, its ends are exchanged.        *)
TemplateKey(e) == e

Decoded(e, r) ==
    IF templates[TemplateKey(e)] = Layout[e] THEN r ELSE [r EXCEPT !.from = r.to, !.to = r.from]

Info(e) == IF exporters[e] = None THEN Unknown ELSE exporters[e]

HearsTemplate(e) ==
    /\ templates[TemplateKey(e)] # Layout[e]
    /\ templates' = [templates EXCEPT ![TemplateKey(e)] = Layout[e]]
    /\ activity' = IF Info(e).enabled THEN activity \cup {e} ELSE activity
    /\ UNCHANGED <<database, left, agg, entry, fresh, heard, spoken, exporters, index,
                   setting, task, batch, moves>>

Owner(p) == index[ClientOf[p.packet].address]

\* Mutant: every interface counts.
DuplicateAnyInterface(e, r) == FALSE

\* A flow enters a router by one interface: heard by another, it is the same
\* traffic seen twice.
Duplicate(e, r) ==
    \E x \in entry : x.exporter = e /\ x.flow = FlowKey(r) /\ x.input # r.input

Entered(e, r) ==
    {x \in entry : x.exporter # e \/ x.flow # FlowKey(r)}
        \cup {[exporter |-> e, flow |-> FlowKey(r), input |-> r.input, age |-> 0]}

\* Who has talked to whom: the uploads of the conversation of a packet among
\* those of sp, and their subscribers.
IsUpload(p) == ClientOf[p.packet].dir = "up"
OneClient(p, q) ==
    /\ ClientOf[p.packet].address = ClientOf[q.packet].address
    /\ ClientOf[p.packet].port = ClientOf[q.packet].port
UploadsOf(sp, p) ==
    {u \in sp : IsUpload(u.passage) /\ OneClient(u.passage, p) /\ u.passage.rec.to = p.rec.from}
Speakers(sp, p) == {u.sid : u \in UploadsOf(sp, p)}

\* Observation: a passage that counts, the point of view it counts for, whether
\* an upload of its conversation was known, and its place if it has to wait.
Counted(p, point) ==
    [passage |-> p, point |-> point, known |-> UploadsOf(spoken, p) # {},
     place |-> IF Len(agg'.waiting) > Len(agg.waiting) THEN Len(agg'.waiting) ELSE 0]
Said(p) ==
    {u \in {[passage |-> p, sid |-> Owner(p), age |-> 0]} : IsUpload(p) /\ u.sid # None}

Hears(p) ==
    LET e == p.exporter
        r == Decoded(e, p.rec)
        src == [point |-> Info(e).vantage, exporter |-> e]
    IN  /\ p \in left
        /\ left' = left \ {p}
        /\ IF ~Info(e).enabled
           THEN UNCHANGED <<agg, entry, activity, fresh, heard, spoken>>
           ELSE IF templates[TemplateKey(e)] = None
           THEN activity' = activity \cup {e} /\ UNCHANGED <<agg, entry, fresh, heard, spoken>>
           ELSE /\ activity' = activity \cup {e}
                /\ fresh' = {f \in fresh : f.point # src.point} \cup {[point |-> src.point, age |-> 0]}
                /\ IF Duplicate(e, r)
                   THEN UNCHANGED <<agg, entry, heard, spoken>>
                   ELSE /\ agg' = Added(agg, index, r, src)
                        /\ entry' = Entered(e, r)
                        /\ heard' = heard \cup {Counted(p, src.point)}
                        /\ spoken' = spoken \cup Said(p)
        /\ UNCHANGED <<database, templates, exporters, index, setting, task, batch, moves>>

-----------------------------------------------------------------------------
(* The flush: the window is closed at once; then come its writing with the *)
(* activity, the automatic declarations and the two readings, each behind  *)
(* an await, while datagrams arrive and people declare.                    *)
EffectiveVantage ==
    LET active == {f.point : f \in fresh}
    IN  IF setting = "auto" \/ active = {} \/ setting \in active THEN setting
        ELSE IF "edge" \in active THEN "edge" ELSE IF "pop" \in active THEN "pop" ELSE "unknown"

Closed(a) == [batch |-> BatchOf(a, EffectiveVantage), heard |-> heard, spoken |-> spoken]

Flushes ==
    /\ task["flush"].phase = "idle"
    /\ \E a \in {WaitingEmptied(agg)} : batch' = Closed(a) /\ agg' = Flushed(a)
    /\ entry' = Older(entry, DupTtl)
    /\ fresh' = Older(fresh, PointTtl)
    /\ heard' = {} /\ spoken' = Older(spoken, NatTtl)
    /\ Frame("flush", "activity")
    /\ UNCHANGED <<database, left, templates, activity, exporters, index, setting, moves>>

\* The window is written, or lost if it cannot be, and the flush goes on: an
\* exporter nobody declared is entered as unknown.
RecordsActivity ==
    /\ task["flush"].phase = "activity"
    /\ activity' = {}
    /\ table' = IF dbUp THEN [e \in Exporters |-> IF e \in activity /\ table[e] = None
                                                  THEN Unknown ELSE table[e]]
                ELSE table
    /\ Frame("flush", "listing")
    /\ UNCHANGED <<blocks, role, dbUp, left, templates, agg, entry, fresh, heard, spoken, exporters,
                   index, setting, batch, moves>>

Lists(t) ==
    /\ task[t].phase = "listing"
    /\ task' = [task EXCEPT ![t].phase = IF dbUp THEN "declaring" ELSE "exporters",
                            ![t].rows = table]
    /\ UNCHANGED <<database, reception, exporters, index, setting, batch, moves>>

\* The recognition: what talks to the outside is an edge.
Recognised(r) == IF r = "pop" THEN "pop" ELSE "edge"

\* Mutant: any row that differs from the role is declared again.
DueWhateverTheNote(row, e) ==
    row # None /\ role[e] # None /\ row.vantage # Recognised(role[e])

\* Only what nobody chose: the unknown ones, and the automatic ones whose role
\* has changed.
Due(row, e) ==
    /\ row # None /\ role[e] # None
    /\ row.note = "auto" \/ row.vantage = "unknown"
    /\ ~(row.note = "auto" /\ row.vantage = Recognised(role[e]))

\* auto_declare_exporters works on the rows it read: one update per row.
Declares(t) ==
    /\ task[t].phase = "declaring"
    /\ LET due == {e \in Exporters : Due(task[t].rows[e], e)} IN
       IF due = {} THEN Frame(t, "exporters") /\ UNCHANGED table
       ELSE \E e \in due :
               /\ table' = IF dbUp /\ table[e] # None
                           THEN [table EXCEPT ![e].vantage = Recognised(role[e]), ![e].note = "auto"]
                           ELSE table
               /\ task' = [task EXCEPT ![t].rows[e] = None]
    /\ UNCHANGED <<blocks, role, dbUp, reception, exporters, index, setting, batch, moves>>

AfterExporters(t) == IF t = "flush" THEN "blocks" ELSE "idle"

ReadsExporters(t) ==
    /\ task[t].phase = "exporters"
    /\ task' = [task EXCEPT ![t].phase = IF dbUp THEN "assign" ELSE AfterExporters(t),
                            ![t].rows = table]
    /\ UNCHANGED <<database, reception, exporters, index, setting, batch, moves>>

\* Mutant: a row removed from the table stays known.
TakesRowsKeeping(rows) == [e \in Exporters |-> IF rows[e] = None THEN exporters[e] ELSE rows[e]]
TakesRows(rows) == rows

AssignsExporters(t) ==
    /\ task[t].phase = "assign"
    /\ exporters' = TakesRows(task[t].rows)
    /\ task' = [task EXCEPT ![t] = [Idle EXCEPT !.phase = AfterExporters(t)]]
    /\ UNCHANGED <<database, reception, index, setting, batch, moves>>

ReadsBlocks ==
    /\ task["flush"].phase = "blocks"
    /\ task' = [task EXCEPT !["flush"].phase = IF dbUp THEN "install" ELSE "idle",
                            !["flush"].blocks = blocks]
    /\ UNCHANGED <<database, reception, exporters, index, setting, batch, moves>>

InstallsIndex ==
    /\ task["flush"].phase = "install"
    /\ index' = task["flush"].blocks
    /\ task' = [task EXCEPT !["flush"] = Idle]
    /\ UNCHANGED <<database, reception, exporters, setting, batch, moves>>

-----------------------------------------------------------------------------
(* People, and the export job that declares the router it configured.      *)
Edits(e, row, phase) ==
    /\ task["desk"].phase = "idle" /\ dbUp /\ moves < MaxMoves /\ e \in Editable
    /\ table' = [table EXCEPT ![e] = row]
    /\ Frame("desk", phase)
    /\ moves' = moves + 1
    /\ UNCHANGED <<blocks, role, dbUp, reception, exporters, index, setting, batch>>

DeclaresByHand(e) ==
    \E v \in Points, on \in BOOLEAN :
        Edits(e, [vantage |-> v, note |-> "", enabled |-> on], "exporters")

\* A point of view set by hand is marked; "unknown" gives the exporter back to
\* the recognition.
UpdatesByHand(e) ==
    /\ table[e] # None
    /\ \E v \in Points :
          Edits(e, [table[e] EXCEPT !.vantage = v, !.note = IF v = "unknown" THEN "" ELSE "hand"],
                IF v = "unknown" THEN "listing" ELSE "exporters")

DeletesByHand(e) == table[e] # None /\ Edits(e, None, "exporters")

\* The export knows an edge by its role alone.
Exported(r) == IF r = "gateway" THEN "edge" ELSE "pop"

ExportDeclares(e) ==
    /\ dbUp /\ moves < MaxMoves /\ role[e] # None /\ e \in Editable
    /\ table' = [table EXCEPT ![e] = [vantage |-> Exported(role[e]), note |-> "auto", enabled |-> TRUE]]
    /\ moves' = moves + 1
    /\ UNCHANGED <<blocks, role, dbUp, reception, exporters, index, setting, task, batch>>

-----------------------------------------------------------------------------
(* The environment: an address changes hands, a router its role, the       *)
(* database comes and goes, the process restarts (with a last flush when   *)
(* it was asked to stop). Bounded by MaxMoves.                             *)
AddressMoves(a) ==
    /\ moves < MaxMoves /\ a \in Movable
    /\ \E s \in (Sids \cup {None}) \ {blocks[a]} : blocks' = [blocks EXCEPT ![a] = s]
    /\ moves' = moves + 1
    /\ UNCHANGED <<table, role, dbUp, reception, exporters, index, setting, task, batch>>

RoleChanges(e) ==
    /\ moves < MaxMoves /\ role[e] # None /\ e \in Editable
    /\ \E r \in Roles \ {role[e]} : role' = [role EXCEPT ![e] = r]
    /\ moves' = moves + 1
    /\ UNCHANGED <<table, blocks, dbUp, reception, exporters, index, setting, task, batch>>

DatabaseComesOrGoes ==
    /\ dbUp' = ~dbUp
    /\ dbUp => moves < MaxMoves
    /\ moves' = IF dbUp THEN moves + 1 ELSE moves
    /\ UNCHANGED <<table, blocks, role, reception, exporters, index, setting, task, batch>>

\* The start listens first, then reads the exporters and the blocks.
Booting == [Idle EXCEPT !.phase = "exporters"]

Restarts ==
    /\ moves < MaxMoves /\ dbUp
    /\ batch' \in {Closed(WaitingEmptied(agg)), batch}
    /\ templates' = [k \in DOMAIN templates |-> None]
    /\ agg' = EmptyAggregate /\ entry' = {} /\ activity' = {} /\ fresh' = {} /\ heard' = {}
    /\ spoken' = {}
    /\ exporters' = [e \in Exporters |-> None]
    /\ index' = [a \in Addresses |-> None]
    /\ task' = [desk |-> Idle, flush |-> Booting]
    /\ moves' = moves + 1
    /\ UNCHANGED <<database, left, setting>>

Init ==
    /\ left \in SUBSET Passages
    /\ table = [e \in Exporters |-> Row0(e)]
    /\ blocks = Block0 /\ role = Role0 /\ dbUp = TRUE
    /\ templates = [e \in Exporters |-> IF e \in Announced THEN Layout[e] ELSE None]
    /\ agg = EmptyAggregate /\ entry = {} /\ activity = {} /\ fresh = {} /\ heard = {}
    /\ spoken = {}
    /\ exporters = table /\ index = Block0
    /\ setting \in {"auto", "edge"}
    /\ task = [desk |-> Idle, flush |-> Idle]
    /\ batch = [batch |-> EmptyBatch, heard |-> {}, spoken |-> {}]
    /\ moves \in 0..MaxMoves

Works(t) ==
    \/ Lists(t) \/ Declares(t) \/ ReadsExporters(t) \/ AssignsExporters(t)
    \/ t = "flush" /\ (Flushes \/ RecordsActivity \/ ReadsBlocks \/ InstallsIndex)

Next ==
    \/ \E e \in Exporters : HearsTemplate(e)
    \/ \E p \in Passages : Hears(p)
    \/ \E t \in Tasks : Works(t)
    \/ \E e \in Exporters : DeclaresByHand(e) \/ UpdatesByHand(e) \/ DeletesByHand(e)
                            \/ ExportDeclares(e) \/ RoleChanges(e)
    \/ \E a \in Addresses : AddressMoves(a)
    \/ DatabaseComesOrGoes
    \/ Restarts

\* The loop of the flush and the requests go on; every await ends.
Spec == Init /\ [][Next]_vars /\ \A t \in Tasks : WF_vars(Works(t))

-----------------------------------------------------------------------------
Phases == {"idle", "activity", "listing", "declaring", "exporters", "assign",
           "blocks", "install"}
ExporterRow == [vantage : Points, note : {"", "auto", "hand"}, enabled : BOOLEAN] \cup {None}

\* Types; one counted source per conversation and direction; at most one client
\* for a return (flows.py "et l'on ne devine pas").
TypeOK ==
    /\ left \subseteq Passages /\ \A h \in heard : h.passage \in Passages \ left
    /\ \A e \in Exporters : table[e] \in ExporterRow /\ exporters[e] \in ExporterRow
    /\ blocks \in [Addresses -> Sids \cup {None}] /\ index \in [Addresses -> Sids \cup {None}]
    /\ \A t \in Tasks : task[t].phase \in Phases
    /\ \A p, q \in agg.pair :
          p.client = q.client /\ p.remote = q.remote /\ p.dir = q.dir => p = q
    /\ \A p \in Passages : Cardinality(Pairings(agg, p.rec)) <= 1
    /\ moves \in 0..MaxMoves

\* What the network must be for the direction of a packet to be told from its
\* ends: the clients, and they alone, have addresses of the clients' networks,
\* they talk to servers, and no translation gives back such an address.
EndsAreTold ==
    /\ \A a \in Addresses : Block0[a] # None \/ a \in Movable => a \in Customers
    /\ \A p \in Passages :
          /\ p.rec.tsrc \notin Customers /\ p.rec.tdst \notin Customers
          /\ IF IsUpload(p) THEN p.rec.from \in Customers /\ p.rec.to \in Remotes
             ELSE p.rec.from \in Remotes

\* A router reports a packet once by each interface, always as of one flow.
OncePerInterface ==
    \A p, q \in Passages :
        p # q /\ p.packet = q.packet /\ p.exporter = q.exporter =>
            FlowKey(p.rec) = FlowKey(q.rec) /\ p.rec.input # q.rec.input

\* What its masking routers must be for the ports to tell the clients apart: the
\* uploads are reported with the address of the client and the port of the
\* return, and no two clients of one server use the same port, theirs or the
\* translated one.
PortsOf(r) == {r.cport, r.tport} \ {0}
PortsTellApart ==
    /\ \A p \in Passages : IsUpload(p) => p.rec.from = ClientOf[p.packet].address
    /\ \A p, q \in Passages :
          IsUpload(q) =>
              /\ p.rec.to \in Publics /\ p.rec.from = q.rec.to /\ OneClient(p, q)
                     => p.rec.cport \in PortsOf(q.rec)
              /\ IsUpload(p) /\ p.rec.to = q.rec.to /\ PortsOf(p.rec) \cap PortsOf(q.rec) # {}
                     => OneClient(p, q)

\* What the reading in base bills for a window: the best point, each way.
Billed(b, sid, dir) ==
    Max({0} \cup {b.rows[k] : k \in {j \in DOMAIN b.rows : j[1] = sid /\ j[3] = dir}})

\* A packet is exported by the routers it crosses, and twice by one that has
\* two interfaces on its way: whatever arrived, in whatever order, a window
\* never bills more than the packets that passed in it (flows.py "Rien n'est
\* additionne : un flux qui traverse plusieurs PoP ne compte qu'une fois").
CountedOnce ==
    \A sid \in Sids, dir \in Dirs :
        Billed(batch.batch, sid, dir)
            <= Cardinality({k \in {h.passage.packet : h \in batch.heard} : ClientOf[k].dir = dir})

\* The uses of a client add up to what is counted for it, each way, at the
\* point where that way is read (flush "Les applications suivent le meme choix").
AppsAddUp ==
    LET b == batch.batch IN
    \A sid \in {k[1] : k \in DOMAIN b.rows}, dir \in Dirs :
        LET points == {k[2] : k \in {j \in DOMAIN b.rows : j[1] = sid}}
            read == IF b.vantage \in points THEN b.rows[<<sid, b.vantage, dir>>]
                    ELSE IF b.vantage = "auto" THEN Billed(b, sid, dir)
                    ELSE b.rows[<<sid, IF "edge" \in points THEN "edge"
                                       ELSE IF "pop" \in points THEN "pop" ELSE "unknown", dir>>]
        IN  Total([a \in Apps |-> b.apps[<<sid, a, dir>>]]) = read

\* The returns of a window that are due to a subscriber: each came to a public
\* address, and the uploads of its conversation, all of that subscriber, were
\* counted before it or, if it had to wait, before the closing.
Owed(w, sid, point, e) ==
    {h \in w.heard : /\ h.passage.exporter = e /\ h.point = point /\ h.passage.rec.to \in Publics
                     /\ h.known \/ h.place # 0
                     /\ Speakers(w.spoken, h.passage) = {sid}}

\* A return that comes to a public address, when the uploads of its conversation
\* still remembered are of one subscriber, is one unit more for that subscriber
\* and nothing for anybody else.
CreditedAtOnce ==
    \A h \in heard' \ heard, sid \in Sids :
        h.passage.rec.to \in Publics /\ Speakers(spoken, h.passage) = {sid} =>
            agg'.credits = Count(agg.credits, <<sid, h.point, h.passage.exporter,
                                                Classify(h.passage.rec), "down">>)

\* And no window is closed without the returns it owes, those that waited included.
PaidAtClosing ==
    \A sid \in Sids, point \in Points, e \in Exporters :
        Owed(batch, sid, point, e) # {} =>
            /\ <<sid, point, "down">> \in DOMAIN batch.batch.rows
            /\ Cardinality(Owed(batch, sid, point, e)) <= batch.batch.rows[<<sid, point, "down">>]

\* Where the ports tell the clients apart, a return is counted for the subscriber
\* of its upload, whatever the other clients of the same server do: at once when
\* the upload was heard, in this window or in one before, and at the closing when
\* it came first and waited (flows.py: "le flux descendant qui revient de ce meme
\* bout, vers ce meme port, est le sien"). A return that came before its upload
\* and was given to the only client of the server known then is left out.
ReturnIsItsOwn == [][CreditedAtOnce /\ PaidAtClosing']_vars

\* A point of view somebody chose, and that no recognition under way has read as
\* it was before.
Chosen(row) == row # None /\ row.note # "auto" /\ row.vantage # "unknown"
Kept(e) ==
    /\ Chosen(table[e])
    /\ \A t \in Tasks :
          task[t].phase = "declaring" => task[t].rows[e] = None \/ Chosen(task[t].rows[e])

\* Such a declaration is changed by a person, or by the export job that configures
\* that very router, and by nothing else; nor does anything else make it
\* changeable ("plus jamais recalcule"). The two ways out are the code's: the
\* export declares over it, and a recognition that read before it writes over it.
HandStays ==
    [][\A e \in Exporters :
          Kept(e) => \/ table'[e] = table[e] /\ Kept(e)'
                     \/ DeclaresByHand(e) \/ UpdatesByHand(e) \/ DeletesByHand(e)
                     \/ ExportDeclares(e)]_vars

Settled ==
    /\ exporters = table /\ index = blocks
    /\ \A e \in Exporters : ~Due(table[e], e)

\* Once people are done and the database answers, the collector works from the
\* declarations of the database, and every exporter nobody placed has the place
\* its role gives it.
Converges == <>[]dbUp => <>[]Settled
=============================================================================
