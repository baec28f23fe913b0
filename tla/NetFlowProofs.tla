---------------------------- MODULE NetFlowProofs ----------------------------
(* What holds for every set of exporters, clients, records and roles and    *)
(* for every interleaving of the records, the flush, the export job and     *)
(* people: a chosen declaration is left alone by all that read it since     *)
(* (HandsStay), a return is counted for the client it answers               *)
(* (ReturnsAreTheirs), the uses of a batch add up (UsesAddUp) and no window *)
(* bills more than passed (NoneCountedTwice).                               *)
EXTENDS NetFlow, TLAPS, FiniteSetTheorems, WellFoundedInduction

(***************************************************************************)
(* A chosen declaration and the readings of it: the recognition asks for an *)
(* unknown point or an automatic row, so only an older reading can make it  *)
(* write over a chosen one, and no reading taken from now on is older.      *)
(***************************************************************************)
IsRow(row) == row # None => DOMAIN row = {"vantage", "note", "enabled"}
Rows(f) == DOMAIN f = Exporters /\ \A e \in Exporters : IsRow(f[e])
TaskRows == /\ DOMAIN task = Tasks
            /\ \A t \in Tasks : /\ DOMAIN task[t] = {"phase", "rows", "blocks"}
                                /\ task[t].phase = "declaring" => Rows(task[t].rows)
DeclarationInv == Rows(table) /\ TaskRows

Gesture(e) == DeclaresByHand(e) \/ UpdatesByHand(e) \/ DeletesByHand(e) \/ ExportDeclares(e)
Stays(e) == table'[e] = table[e] /\ Kept(e)'
HandStep == \A e \in Exporters : Kept(e) => Stays(e) \/ Gesture(e)

\* No reading but a new one.
Readings ==
    \A t \in Tasks :
        task'[t] = task[t] \/ task'[t].phase # "declaring" \/ task'[t].rows = table

LEMMA Staying ==
    ASSUME NEW e \in Exporters, Kept(e), table'[e] = table[e], Readings
    PROVE  Stays(e)
  BY DEF Kept, Readings, Stays

LEMMA InitRows == Init => DeclarationInv
<1> SUFFICES ASSUME Init PROVE DeclarationInv
  OBVIOUS
<1>1. Rows(table)
  BY DEF Init, Rows, Row0, IsRow
<1>2. TaskRows
  <2>1. task = [desk |-> Idle, flush |-> Idle]
    BY DEF Init
  <2>2. DOMAIN task = Tasks /\ \A t \in Tasks : task[t] = Idle
    BY <2>1 DEF Tasks
  <2> QED BY <2>2 DEF TaskRows, Idle
<1> QED BY <1>1, <1>2 DEF DeclarationInv

\* A step that leaves the table alone.
LEMMA TableKept == table' = table /\ Readings => HandStep /\ (Rows(table) => Rows(table)')
  BY Staying DEF HandStep, Rows

\* A step that leaves the tasks alone.
LEMMA TasksKept == task' = task => Readings /\ (TaskRows => TaskRows')
  BY DEF TaskRows, Readings

\* One task goes to a phase that declares nothing.
LEMMA FrameKeeps ==
    ASSUME TaskRows, NEW t \in Tasks, NEW p, p # "declaring", Frame(t, p)
    PROVE  TaskRows' /\ Readings
<1>1. /\ DOMAIN task' = Tasks
      /\ \A u \in Tasks \ {t} : task'[u] = task[u]
      /\ task'[t] = [task[t] EXCEPT !.phase = p]
  BY DEF Frame, TaskRows
<1>2. DOMAIN task'[t] = {"phase", "rows", "blocks"} /\ task'[t].phase = p
  BY <1>1 DEF TaskRows
<1> QED BY <1>1, <1>2 DEF TaskRows, Readings

\* One task takes the rows of the table to declare, or goes on with none.
LEMMA TaskGoesOn ==
    ASSUME DeclarationInv, NEW t \in Tasks, NEW w, NEW p,
           task' = [task EXCEPT ![t] = w],
           DOMAIN w = {"phase", "rows", "blocks"}, w.phase = p,
           p = "declaring" => Rows(w.rows) /\ w.rows = table
    PROVE  TaskRows' /\ Readings
<1>1. DOMAIN task' = Tasks /\ \A u \in Tasks : task'[u] = IF u = t THEN w ELSE task[u]
  BY DEF DeclarationInv, TaskRows
<1> QED BY <1>1 DEF DeclarationInv, TaskRows, Rows, Readings

LEMMA ListsKeeps ==
    ASSUME DeclarationInv, NEW t \in Tasks, Lists(t)
    PROVE  DeclarationInv' /\ HandStep
<1> DEFINE w == [task[t] EXCEPT !.phase = IF dbUp THEN "declaring" ELSE "exporters", !.rows = table]
<1>1. task' = [task EXCEPT ![t] = w] /\ table' = table
  BY DEF Lists, database, DeclarationInv, TaskRows
<1>2. /\ DOMAIN w = {"phase", "rows", "blocks"} /\ w.rows = table
  BY DEF DeclarationInv, TaskRows
<1> HIDE DEF w
<1>3. TaskRows' /\ Readings
  BY <1>1, <1>2, TaskGoesOn DEF DeclarationInv
<1> QED BY <1>1, <1>3, TableKept DEF DeclarationInv

LEMMA ReadsKeeps ==
    ASSUME DeclarationInv, NEW t \in Tasks,
           \/ ReadsExporters(t) \/ AssignsExporters(t)
           \/ t = "flush" /\ (ReadsBlocks \/ InstallsIndex)
    PROVE  DeclarationInv' /\ HandStep
<1> DEFINE after == AfterExporters(t)
           rows  == [task[t] EXCEPT !.phase = IF dbUp THEN "assign" ELSE after, !.rows = table]
           ended == [Idle EXCEPT !.phase = after]
           taken == [task[t] EXCEPT !.phase = IF dbUp THEN "install" ELSE "idle", !.blocks = blocks]
<1>1. table' = table
  BY DEF ReadsExporters, AssignsExporters, ReadsBlocks, InstallsIndex, database
<1>2. after # "declaring"
  BY DEF AfterExporters
<1>3. CASE ReadsExporters(t)
  <2>1. task' = [task EXCEPT ![t] = rows]
    BY <1>3 DEF ReadsExporters, DeclarationInv, TaskRows
  <2>2. DOMAIN rows = {"phase", "rows", "blocks"} /\ rows.phase # "declaring"
    BY <1>2 DEF DeclarationInv, TaskRows
  <2> HIDE DEF rows
  <2> QED BY <1>1, <2>1, <2>2, TaskGoesOn, TableKept DEF DeclarationInv
<1>4. CASE AssignsExporters(t)
  <2>1. task' = [task EXCEPT ![t] = ended]
    BY <1>4 DEF AssignsExporters
  <2>2. DOMAIN ended = {"phase", "rows", "blocks"} /\ ended.phase # "declaring"
    BY <1>2 DEF Idle
  <2> HIDE DEF ended
  <2> QED BY <1>1, <2>1, <2>2, TaskGoesOn, TableKept DEF DeclarationInv
<1>5. CASE t = "flush" /\ ReadsBlocks
  <2>1. task' = [task EXCEPT ![t] = taken]
    BY <1>5 DEF ReadsBlocks, DeclarationInv, TaskRows
  <2>2. DOMAIN taken = {"phase", "rows", "blocks"} /\ taken.phase # "declaring"
    BY DEF DeclarationInv, TaskRows
  <2> HIDE DEF taken
  <2> QED BY <1>1, <2>1, <2>2, TaskGoesOn, TableKept DEF DeclarationInv
<1>6. CASE t = "flush" /\ InstallsIndex
  <2>1. task' = [task EXCEPT ![t] = Idle]
    BY <1>6 DEF InstallsIndex
  <2>2. DOMAIN Idle = {"phase", "rows", "blocks"} /\ Idle.phase # "declaring"
    BY DEF Idle
  <2> QED BY <1>1, <2>1, <2>2, TaskGoesOn, TableKept DEF DeclarationInv
<1> QED BY <1>3, <1>4, <1>5, <1>6

\* An exporter is entered as unknown only when it is not in the table.
LEMMA RecordsKeeps ==
    ASSUME DeclarationInv, RecordsActivity
    PROVE  DeclarationInv' /\ HandStep
<1>1. "flush" \in Tasks /\ Frame("flush", "listing")
  BY DEF Tasks, RecordsActivity
<1>2. TaskRows' /\ Readings
  BY <1>1, FrameKeeps DEF DeclarationInv
<1>3. /\ DOMAIN table' = Exporters
      /\ \A e \in Exporters : table'[e] = table[e] \/ (table[e] = None /\ table'[e] = Unknown)
  BY DEF RecordsActivity, DeclarationInv, Rows
<1>4. IsRow(Unknown)
  BY DEF IsRow, Unknown
<1>5. ASSUME NEW e \in Exporters PROVE IsRow(table'[e])
  BY <1>3, <1>4 DEF DeclarationInv, Rows
<1>6. Rows(table)'
  BY <1>3, <1>5 DEF Rows
<1>7. ASSUME NEW e \in Exporters, Kept(e) PROVE table'[e] = table[e]
  BY <1>3, <1>7 DEF Kept, Chosen
<1> QED BY <1>2, <1>6, <1>7, Staying DEF DeclarationInv, HandStep

\* The recognition: the row it declares is one it read as unknown or automatic; the
\* row of another exporter is read once less.
LEMMA DeclaresKeeps ==
    ASSUME DeclarationInv, NEW t \in Tasks, Declares(t)
    PROVE  DeclarationInv' /\ HandStep
<1> DEFINE due == {e \in Exporters : Due(task[t].rows[e], e)}
<1>1. Rows(task[t].rows) /\ task[t].phase = "declaring"
  BY DEF Declares, DeclarationInv, TaskRows
<1>2. CASE due = {}
  <2>1. table' = table /\ Frame(t, "exporters")
    BY <1>2 DEF Declares
  <2> QED BY <2>1, FrameKeeps, TableKept DEF DeclarationInv
<1>3. ASSUME NEW e \in due,
             table' = IF dbUp /\ table[e] # None
                      THEN [table EXCEPT ![e].vantage = Recognised(role[e]), ![e].note = "auto"] ELSE table,
             task' = [task EXCEPT ![t].rows[e] = None]
      PROVE  DeclarationInv' /\ HandStep
  <2> DEFINE w == [task[t] EXCEPT !.rows[e] = None]
  <2>1. ~Kept(e)
    BY <1>1, <1>3 DEF Kept, Chosen, Due
  <2>2. /\ DOMAIN table' = Exporters /\ \A x \in Exporters \ {e} : table'[x] = table[x]
        /\ table'[e] = table[e] \/ (table[e] # None /\ table'[e] =
                          [table[e] EXCEPT !.vantage = Recognised(role[e]), !.note = "auto"])
    BY <1>3 DEF DeclarationInv, Rows
  <2>3. Rows(table)'
    BY <2>2 DEF DeclarationInv, Rows, IsRow
  <2>4. /\ DOMAIN task' = Tasks /\ task'[t] = w
        /\ \A u \in Tasks \ {t} : task'[u] = task[u]
    BY <1>3 DEF DeclarationInv, TaskRows
  <2>5. /\ DOMAIN w = {"phase", "rows", "blocks"} /\ Rows(w.rows)
        /\ \A x \in Exporters \ {e} : w.rows[x] = task[t].rows[x]
    BY <1>1 DEF DeclarationInv, TaskRows, Rows, IsRow
  <2> HIDE DEF w
  <2>6. TaskRows'
    BY <2>4, <2>5 DEF DeclarationInv, TaskRows, Rows
  <2>7. ASSUME NEW x \in Exporters, Kept(x) PROVE Stays(x)
    <3>1. x # e /\ table'[x] = table[x]
      BY <2>1, <2>2, <2>7
    <3>2. ASSUME NEW u \in Tasks, task'[u].phase = "declaring"
          PROVE  task'[u].rows[x] = None \/ Chosen(task'[u].rows[x])
      BY <1>1, <2>4, <2>5, <2>7, <3>1, <3>2 DEF Kept
    <3> QED BY <2>7, <3>1, <3>2 DEF Stays, Kept
  <2> QED BY <2>3, <2>6, <2>7 DEF DeclarationInv, HandStep
<1> QED BY <1>2, <1>3 DEF Declares

\* A person changes one row, and reads no other.
LEMMA EditsKeeps ==
    ASSUME DeclarationInv, NEW e \in Exporters, NEW row, NEW p, p # "declaring",
           Edits(e, row, p), IsRow(row)
    PROVE  DeclarationInv' /\ \A x \in Exporters \ {e} : Kept(x) => Stays(x)
<1>1. "desk" \in Tasks /\ Frame("desk", p) /\ table' = [table EXCEPT ![e] = row]
  BY DEF Tasks, Edits
<1>2. TaskRows' /\ Readings
  BY <1>1, FrameKeeps DEF DeclarationInv
<1>3. DOMAIN table' = Exporters /\ \A x \in Exporters : table'[x] = IF x = e THEN row ELSE table[x]
  BY <1>1 DEF DeclarationInv, Rows
<1>4. Rows(table)'
  BY <1>3 DEF DeclarationInv, Rows, IsRow
<1>5. ASSUME NEW x \in Exporters \ {e}, Kept(x) PROVE Stays(x)
  BY <1>2, <1>3, <1>5, Staying
<1> QED BY <1>2, <1>4, <1>5 DEF DeclarationInv

LEMMA PeopleKeep ==
    ASSUME DeclarationInv, NEW e \in Exporters,
           DeclaresByHand(e) \/ UpdatesByHand(e) \/ DeletesByHand(e)
    PROVE  DeclarationInv' /\ HandStep
<1>1. CASE DeclaresByHand(e)
  <2>1. PICK v \in Points, on \in BOOLEAN :
            Edits(e, [vantage |-> v, note |-> "", enabled |-> on], "exporters")
    BY <1>1 DEF DeclaresByHand
  <2> DEFINE row == [vantage |-> v, note |-> "", enabled |-> on]
  <2>2. IsRow(row)
    BY DEF IsRow
  <2> HIDE DEF row
  <2>3. DeclarationInv' /\ \A x \in Exporters \ {e} : Kept(x) => Stays(x)
    BY <2>1, <2>2, EditsKeeps DEF row
  <2> QED BY <1>1, <2>3 DEF HandStep, Gesture
<1>2. CASE UpdatesByHand(e)
  <2>1. PICK v \in Points :
            Edits(e, [table[e] EXCEPT !.vantage = v, !.note = IF v = "unknown" THEN "" ELSE "hand"],
                  IF v = "unknown" THEN "listing" ELSE "exporters")
    BY <1>2 DEF UpdatesByHand
  <2> DEFINE row == [table[e] EXCEPT !.vantage = v, !.note = IF v = "unknown" THEN "" ELSE "hand"]
             p   == IF v = "unknown" THEN "listing" ELSE "exporters"
  <2>2. IsRow(row)
    BY <1>2 DEF UpdatesByHand, DeclarationInv, Rows, IsRow
  <2>3. p # "declaring" /\ Edits(e, row, p)
    BY <2>1
  <2> HIDE DEF row, p
  <2>4. DeclarationInv' /\ \A x \in Exporters \ {e} : Kept(x) => Stays(x)
    BY <2>2, <2>3, EditsKeeps
  <2> QED BY <1>2, <2>4 DEF HandStep, Gesture
<1>3. CASE DeletesByHand(e)
  <2>1. Edits(e, None, "exporters") /\ IsRow(None)
    BY <1>3 DEF DeletesByHand, IsRow
  <2>2. DeclarationInv' /\ \A x \in Exporters \ {e} : Kept(x) => Stays(x)
    BY <2>1, EditsKeeps
  <2> QED BY <1>3, <2>2 DEF HandStep, Gesture
<1> QED BY <1>1, <1>2, <1>3

LEMMA ExportKeeps ==
    ASSUME DeclarationInv, NEW e \in Exporters, ExportDeclares(e)
    PROVE  DeclarationInv' /\ HandStep
<1>1. task' = task
  BY DEF ExportDeclares
<1>2. DOMAIN table' = Exporters
      /\ \A x \in Exporters : table'[x] = IF x = e
             THEN [vantage |-> Exported(role[e]), note |-> "auto", enabled |-> TRUE] ELSE table[x]
  BY DEF ExportDeclares, DeclarationInv, Rows
<1>3. Rows(table)'
  BY <1>2 DEF DeclarationInv, Rows, IsRow
<1>4. ASSUME NEW x \in Exporters, x # e, Kept(x) PROVE Stays(x)
  BY <1>1, <1>2, <1>4, TasksKept, Staying
<1> QED BY <1>1, <1>3, <1>4, TasksKept DEF DeclarationInv, HandStep, Gesture

LEMMA NextRows == DeclarationInv /\ moves \in Nat /\ [Next]_vars
                  => DeclarationInv' /\ moves' \in Nat /\ HandStep
<1> SUFFICES ASSUME DeclarationInv, moves \in Nat, [Next]_vars
             PROVE  DeclarationInv' /\ moves' \in Nat /\ HandStep
  OBVIOUS
<1>1. moves' \in Nat
  <2>1. moves' = moves \/ moves' = moves + 1
    <3>1. ASSUME NEW t \in Tasks, Works(t) PROVE moves' = moves
      BY <3>1 DEF Works, Lists, Declares, ReadsExporters, AssignsExporters, Flushes,
                  RecordsActivity, ReadsBlocks, InstallsIndex
    <3>2. ASSUME NEW e \in Exporters,
                 DeclaresByHand(e) \/ UpdatesByHand(e) \/ DeletesByHand(e)
          PROVE  moves' = moves + 1
      BY <3>2 DEF DeclaresByHand, UpdatesByHand, DeletesByHand, Edits
    <3>3. ASSUME NEW e \in Exporters, ExportDeclares(e) \/ RoleChanges(e)
          PROVE  moves' = moves + 1
      BY <3>3 DEF ExportDeclares, RoleChanges
    <3>4. ASSUME NEW a \in Addresses, AddressMoves(a) PROVE moves' = moves + 1
      BY <3>4 DEF AddressMoves
    <3>5. ASSUME (\E e \in Exporters : HearsTemplate(e)) \/ (\E p \in Passages : Hears(p))
          PROVE  moves' = moves
      BY <3>5 DEF HearsTemplate, Hears
    <3>6. DatabaseComesOrGoes \/ Restarts \/ UNCHANGED vars
          => moves' = moves \/ moves' = moves + 1
      BY DEF DatabaseComesOrGoes, Restarts, vars
    <3> QED BY <3>1, <3>2, <3>3, <3>4, <3>5, <3>6 DEF Next
  <2> QED BY <2>1
<1>2. ASSUME UNCHANGED <<table, task>> PROVE DeclarationInv' /\ HandStep
  BY <1>2, TableKept, TasksKept DEF DeclarationInv
<1>3. CASE UNCHANGED vars
  BY <1>2, <1>3 DEF vars, database
<1>4. ASSUME NEW e \in Exporters, HearsTemplate(e) \/ RoleChanges(e)
      PROVE  DeclarationInv' /\ HandStep
  BY <1>2, <1>4 DEF HearsTemplate, RoleChanges, database
<1>5. ASSUME NEW p \in Passages, Hears(p) PROVE DeclarationInv' /\ HandStep
  BY <1>2, <1>5 DEF Hears, database
<1>6. CASE DatabaseComesOrGoes \/ \E a \in Addresses : AddressMoves(a)
  BY <1>2, <1>6 DEF DatabaseComesOrGoes, AddressMoves
<1>7. ASSUME NEW t \in Tasks, Works(t) PROVE DeclarationInv' /\ HandStep
  <2>1. CASE Flushes
    <3>1. "flush" \in Tasks /\ table' = table /\ Frame("flush", "activity")
      BY <2>1 DEF Flushes, database, Tasks
    <3> QED BY <3>1, TableKept, FrameKeeps DEF DeclarationInv
  <2> QED BY <1>7, <2>1, ListsKeeps, ReadsKeeps, RecordsKeeps, DeclaresKeeps DEF Works
<1>8. CASE Restarts
  <2>1. table' = table
    BY <1>8 DEF Restarts, database
  <2>2. task' = [desk |-> Idle, flush |-> Booting]
    BY <1>8 DEF Restarts
  <2>3. DOMAIN task' = Tasks /\ \A t \in Tasks : task'[t] \in {Idle, Booting}
    BY <2>2 DEF Tasks
  <2>4. TaskRows' /\ Readings
    BY <2>3 DEF TaskRows, Readings, Idle, Booting
  <2>5. Rows(table)' /\ HandStep
    BY <2>1, <2>4, TableKept DEF DeclarationInv
  <2> QED BY <1>1, <2>4, <2>5 DEF DeclarationInv
<1> QED BY <1>1, <1>3, <1>4, <1>5, <1>6, <1>7, <1>8, PeopleKeep, ExportKeeps DEF Next

\* Whatever the flush, the export job and people do beside each other, and through
\* failures, restarts and changes of role: once no recognition under way holds an
\* older reading of it, a chosen declaration is changed by a gesture of a person on
\* that exporter or by the export job that configures that router, and stays out of
\* reach of everything else.
THEOREM HandsStay == Spec => HandStays
<1>1. Init => DeclarationInv /\ moves \in Nat
  BY InitRows, NetFlowAssumption DEF Init
<1>2. DeclarationInv /\ moves \in Nat /\ [Next]_vars => (DeclarationInv /\ moves \in Nat)'
  BY NextRows
<1>3. DeclarationInv /\ moves \in Nat /\ [Next]_vars => HandStep
  BY NextRows
<1>4. HandStep =>
        \A e \in Exporters :
            Kept(e) => \/ table'[e] = table[e] /\ Kept(e)'
                       \/ DeclaresByHand(e) \/ UpdatesByHand(e) \/ DeletesByHand(e)
                       \/ ExportDeclares(e)
  BY DEF HandStep, Stays, Gesture
<1> QED BY <1>1, <1>2, <1>3, <1>4, PTL DEF Spec, HandStays

-----------------------------------------------------------------------------
(* Who a return is counted for. What the window holds of the translations  *)
(* is followed through every operator that touches it.                      *)
Shape(a) ==
    /\ DOMAIN a = {"credits", "hosts", "dests", "owner", "pair", "live", "exact", "large",
                   "publics", "waiting"}
    /\ \A k \in DOMAIN a.credits : a.credits[k] \in Nat

\* One unit for the subscriber sid, and no correspondence learnt.
Paid(a, b, sid, src, r, dir) ==
    /\ Shape(b) /\ b.exact = a.exact /\ b.waiting = a.waiting
    /\ b.credits = Count(a.credits, <<sid, src.point, src.exporter, Classify(r), dir>>)

LEMMA CountAdds ==
    ASSUME NEW bag, \A k \in DOMAIN bag : bag[k] \in Nat, NEW key
    PROVE  /\ \A k \in DOMAIN Count(bag, key) : Count(bag, key)[k] \in Nat
           /\ \A k : k # key => Copies(k, Count(bag, key)) = Copies(k, bag)
<1>1. SetToBag({key}) = [x \in {key} |-> 1]
  BY DEF SetToBag
<1>2. DOMAIN Count(bag, key) = DOMAIN bag \cup {key}
  BY <1>1 DEF Count, (+)
<1>3. \A k \in DOMAIN bag : k # key => Count(bag, key)[k] = bag[k]
  BY <1>1 DEF Count, (+)
<1>4. Count(bag, key)[key] \in Nat
  BY <1>1 DEF Count, (+)
<1> QED BY <1>2, <1>3, <1>4 DEF Copies, BagIn, BagToSet

LEMMA CountDomain ==
    ASSUME NEW bag, NEW key
    PROVE  DOMAIN Count(bag, key) = DOMAIN bag \cup {key}
<1>1. SetToBag({key}) = [x \in {key} |-> 1]
  BY DEF SetToBag
<1> QED BY <1>1 DEF Count, (+)

LEMMA CreditAdds ==
    ASSUME NEW a, Shape(a), NEW sid, NEW src, NEW r, NEW dir
    PROVE  /\ Paid(a, Credit(a, sid, src, r, dir), sid, src, r, dir)
           /\ Shape(Credit(a, sid, src, r, dir))
           /\ Credit(a, sid, src, r, dir).exact = a.exact
           /\ Credit(a, sid, src, r, dir).publics = a.publics
<1> DEFINE key == <<sid, src.point, src.exporter, Classify(r), dir>>
           b == Credit(a, sid, src, r, dir)
<1>1. /\ DOMAIN b = DOMAIN a /\ b.credits = Count(a.credits, key)
      /\ b.exact = a.exact /\ b.publics = a.publics /\ b.waiting = a.waiting
  BY DEF Credit, Shape
<1> HIDE DEF b, key
<1>2. \A k \in DOMAIN b.credits : b.credits[k] \in Nat
  BY <1>1, CountAdds DEF Shape
<1>3. Shape(b)
  BY <1>1, <1>2 DEF Shape
<1> QED BY <1>1, <1>3 DEF Paid, b, key

\* The notes of the conversations and of the hosts credit nobody.
SameCredits(a, b) ==
    Shape(b) /\ b.credits = a.credits /\ b.exact = a.exact /\ b.waiting = a.waiting

LEMMA NoteDestinationCreditsNone ==
    ASSUME NEW a, Shape(a), NEW client, NEW remote, NEW r, NEW dir, NEW sid, NEW src
    PROVE  SameCredits(a, NoteDestination(a, client, remote, r, dir, sid, src))
<1> DEFINE pairs == {p \in a.pair : ~(p.client = client /\ p.remote = remote /\ p.dir = dir)}
                    \cup {[client |-> client, remote |-> remote, dir |-> dir, source |-> src]}
           kept == [a EXCEPT !.pair = pairs]
           owners == IF sid = None THEN kept.owner
                     ELSE {o \in kept.owner : o[1] # client \/ o[2] # remote}
                          \cup {<<client, remote, sid>>}
           lives == {l \in kept.live : ~(l.client = client /\ l.remote = remote /\ l.flow = FlowKey(r))}
                    \cup {[client |-> client, remote |-> remote, flow |-> FlowKey(r),
                           dir |-> dir, age |-> 0]}
           counted == Count(kept.dests, <<client, remote, dir>>)
           noted == [kept EXCEPT !.dests = counted, !.owner = owners, !.live = lives]
<1>1. NoteDestination(a, client, remote, r, dir, sid, src) \in {a, kept, noted}
  BY DEF NoteDestination
<1> HIDE DEF pairs, owners, lives, counted
<1>2. SameCredits(a, kept)
  BY DEF Shape, SameCredits
<1>3. SameCredits(kept, noted)
  <2>1. Shape(kept)
    BY <1>2 DEF SameCredits
  <2> HIDE DEF kept
  <2> QED BY <2>1 DEF Shape, SameCredits
<1> HIDE DEF kept, noted
<1>4. SameCredits(a, noted)
  BY <1>2, <1>3 DEF SameCredits
<1>5. SameCredits(a, a)
  BY DEF SameCredits
<1> QED BY <1>1, <1>2, <1>4, <1>5

LEMMA NoteHostCreditsNone ==
    ASSUME NEW a, Shape(a), NEW r
    PROVE  SameCredits(a, NoteHost(a, r))
<1> DEFINE met(b, address, dir) == [b EXCEPT !.hosts = Count(b.hosts, <<address, dir>>)]
           hears(b, address, dir) ==
               IF ~IsCustomer(address) THEN b
               ELSE LET hosts == {k[1] : k \in BagToSet(b.hosts)}
                    IN  IF address \notin hosts /\ Cardinality(hosts) >= HostLimit THEN b
                        ELSE met(b, address, dir)
<1>1. NoteHost(a, r) = hears(hears(a, r.to, "down"), r.from, "up")
  BY DEF NoteHost
<1>2. ASSUME NEW b, Shape(b), NEW address, NEW dir
      PROVE  SameCredits(b, hears(b, address, dir))
  <2>1. hears(b, address, dir) \in {b, met(b, address, dir)}
    OBVIOUS
  <2>2. SameCredits(b, met(b, address, dir))
    <3> DEFINE now == Count(b.hosts, <<address, dir>>)
    <3> HIDE DEF now
    <3>1. SameCredits(b, [b EXCEPT !.hosts = now])
      BY <1>2 DEF Shape, SameCredits
    <3> QED BY <3>1 DEF now
  <2>3. SameCredits(b, b)
    BY <1>2 DEF SameCredits
  <2> HIDE DEF hears, met
  <2> QED BY <2>1, <2>2, <2>3
<1> HIDE DEF hears
<1>3. SameCredits(a, hears(a, r.to, "down"))
  BY <1>2
<1>4. SameCredits(hears(a, r.to, "down"), hears(hears(a, r.to, "down"), r.from, "up"))
  BY <1>2, <1>3 DEF SameCredits
<1> QED BY <1>1, <1>3, <1>4 DEF SameCredits

LEMMA LearnNatLearns ==
    ASSUME NEW a, Shape(a), NEW r, NEW sid, NEW client,
           ~IsCustomer(r.to), IsRoutable(r.to)
    PROVE  LET b == LearnNat(a, r, sid, client)
               new == {[key |-> ExactKey(r.to, k), sid |-> sid, client |-> client, age |-> 0]
                         : k \in PortsOf(r)}
           IN  /\ Shape(b) /\ b.credits = a.credits /\ b.waiting = a.waiting
               /\ b.exact = {x \in a.exact : \A k \in PortsOf(r) : x.key # ExactKey(r.to, k)}
                            \cup new
<1> DEFINE keys == {ExactKey(r.to, k) : k \in PortsOf(r)}
           learnt == {[key |-> k, sid |-> sid, client |-> client, age |-> 0] : k \in keys}
           new == {[key |-> ExactKey(r.to, k), sid |-> sid, client |-> client, age |-> 0]
                     : k \in PortsOf(r)}
           seen == IF r.tsrc \in {None, r.from} THEN a.publics
                   ELSE {p \in a.publics : p.address # r.tsrc} \cup {[address |-> r.tsrc, age |-> 0]}
           named == {x \in a.exact : x.key \notin keys} \cup learnt
           wide == {x \in a.large : ~(x.remote = r.to /\ x.sid = sid)}
                   \cup {[remote |-> r.to, sid |-> sid, client |-> client, age |-> 0]}
           b == [a EXCEPT !.publics = seen, !.exact = named, !.large = wide]
<1>1. LearnNat(a, r, sid, client) = b
  BY DEF LearnNat, PortsOf
<1>2. learnt = new
  OBVIOUS
<1>3. named = {x \in a.exact : \A k \in PortsOf(r) : x.key # ExactKey(r.to, k)} \cup new
  BY <1>2
<1> HIDE DEF seen, named, wide, new
<1>4. Shape(b) /\ b.credits = a.credits /\ b.waiting = a.waiting /\ b.exact = named
  BY DEF Shape
<1> QED BY <1>1, <1>3, <1>4 DEF new

\* A return is counted for a subscriber its correspondences name.
LEMMA ReplayedCredits ==
    ASSUME NEW a, Shape(a), NEW r, NEW src, Pairings(a, r) # {}
    PROVE  \E x \in Pairings(a, r) : Paid(a, Replayed(a, r, src), x.sid, src, r, "down")
<1>1. PICK x \in Pairings(a, r) : x = CHOOSE y \in Pairings(a, r) : TRUE
  OBVIOUS
<1> DEFINE met == {p \in a.publics : p.address # r.to} \cup {[address |-> r.to, age |-> 0]}
           seen == IF \E y \in a.exact : y.key = ExactKey(r.from, r.cport)
                   THEN [a EXCEPT !.publics = met] ELSE a
           credited == Credit(seen, x.sid, src, r, "down")
<1>2. Replayed(a, r, src) = NoteDestination(credited, x.client, r.from, r, "down", x.sid, src)
  BY <1>1 DEF Replayed
<1>3. Shape(seen) /\ seen.exact = a.exact /\ seen.credits = a.credits /\ seen.waiting = a.waiting
  <2> HIDE DEF met
  <2> QED BY DEF Shape
<1> HIDE DEF seen
<1>4. Paid(seen, credited, x.sid, src, r, "down")
  BY <1>3, CreditAdds
<1> HIDE DEF credited
<1>5. SameCredits(credited, Replayed(a, r, src))
  BY <1>2, <1>4, NoteDestinationCreditsNone DEF Paid
<1>6. Paid(a, Replayed(a, r, src), x.sid, src, r, "down")
  BY <1>3, <1>4, <1>5 DEF Paid, SameCredits
<1> QED BY <1>1, <1>6
-----------------------------------------------------------------------------
\* An upload of a subscriber: its ports name it from now on.
LEMMA AddedUpload ==
    ASSUME NEW a, Shape(a), NEW r, NEW src, index[r.from] # None,
           r.to \in Remotes, ~IsCustomer(r.to), Attach(index, r.to, r.tdst).sid = None
    PROVE  LET b == Added(a, index, r, src)
               new == {[key |-> ExactKey(r.to, k), sid |-> index[r.from], client |-> r.from,
                        age |-> 0] : k \in PortsOf(r)}
           IN  /\ Shape(b)
               /\ b.exact = {x \in a.exact : \A k \in PortsOf(r) : x.key # ExactKey(r.to, k)}
                            \cup new
<1> DEFINE sid == index[r.from]
           credited == Credit(a, sid, src, r, "up")
           learnt == LearnNat(credited, r, sid, r.from)
           noted == NoteDestination(learnt, r.from, r.to, r, "up", sid, src)
           b == Added(a, index, r, src)
<1>1. Attach(index, r.from, r.tsrc) = [sid |-> sid, client |-> r.from]
  BY DEF Attach
<1>2. PICK source : source = Attach(index, r.from, r.tsrc)
  OBVIOUS
<1>3. PICK target : target = Attach(index, r.to, r.tdst)
  OBVIOUS
<1>4. source.sid = sid /\ source.client = r.from /\ target.sid = None /\ sid # None
  BY <1>1, <1>2, <1>3
<1>5. b = noted
  BY <1>2, <1>3, <1>4 DEF Added
<1>6. Shape(credited) /\ credited.exact = a.exact
  BY CreditAdds
<1>7. IsRoutable(r.to)
  BY DEF IsRoutable
<1> HIDE DEF credited, b
<1>8. /\ Shape(learnt)
      /\ learnt.exact = {x \in credited.exact : \A k \in PortsOf(r) : x.key # ExactKey(r.to, k)}
                        \cup {[key |-> ExactKey(r.to, k), sid |-> sid, client |-> r.from,
                               age |-> 0] : k \in PortsOf(r)}
  BY <1>6, <1>7, LearnNatLearns
<1> HIDE DEF learnt
<1>9. SameCredits(learnt, noted)
  BY <1>8, NoteDestinationCreditsNone
<1> HIDE DEF noted
<1> QED BY <1>5, <1>6, <1>8, <1>9 DEF SameCredits, b

\* Anything else teaches no correspondence.
LEMMA AddedOther ==
    ASSUME NEW a, Shape(a), NEW r, NEW src, Attach(index, r.from, r.tsrc).sid = None
    PROVE  Shape(Added(a, index, r, src)) /\ Added(a, index, r, src).exact = a.exact
<1> DEFINE Alike(b) == Shape(b) /\ b.exact = a.exact
<1>1. PICK source : source = Attach(index, r.from, r.tsrc)
  OBVIOUS
<1>2. PICK target : target = Attach(index, r.to, r.tdst)
  OBVIOUS
<1> DEFINE down == IF target.sid = None THEN a ELSE Credit(a, target.sid, src, r, "down")
           named == target.sid # None
           to == IF target.sid # None \/ (~named /\ IsCustomer(r.to))
                 THEN NoteDestination(down, target.client, r.from, r, "down", target.sid, src)
                 ELSE down
           out == IF ~named /\ IsCustomer(r.from)
                  THEN NoteDestination(to, source.client, r.to, r, "up", source.sid, src) ELSE to
           later == [a EXCEPT !.waiting = Append(a.waiting, [rec |-> r, src |-> src])]
<1>3. Added(a, index, r, src) =
        IF named THEN out
        ELSE IF MayBeReturn(r)
        THEN IF Pairings(a, r) # {} THEN Replayed(a, r, src) ELSE later
        ELSE NoteHost(out, r)
  BY <1>1, <1>2 DEF Added
<1>4. Alike(down)
  BY CreditAdds
<1> HIDE DEF down
<1>5. Alike(to)
  BY <1>4, NoteDestinationCreditsNone DEF SameCredits
<1> HIDE DEF to
<1>6. Alike(out)
  BY <1>5, NoteDestinationCreditsNone DEF SameCredits
<1> HIDE DEF out
<1>7. Alike(NoteHost(out, r))
  BY <1>6, NoteHostCreditsNone DEF SameCredits
<1>8. Alike(later)
  BY DEF Shape
<1>9. Pairings(a, r) # {} => Alike(Replayed(a, r, src))
  BY ReplayedCredits DEF Paid
<1> HIDE DEF later
<1> QED BY <1>3, <1>6, <1>7, <1>8, <1>9

\* A return whose correspondences are known is counted for one of their subscribers.
LEMMA AddedReturn ==
    ASSUME NEW a, Shape(a), NEW r, NEW src, Pairings(a, r) # {}, MayBeReturn(r),
           Attach(index, r.from, r.tsrc).sid = None, Attach(index, r.to, r.tdst).sid = None
    PROVE  \E x \in Pairings(a, r) : Paid(a, Added(a, index, r, src), x.sid, src, r, "down")
<1>1. PICK source : source = Attach(index, r.from, r.tsrc)
  OBVIOUS
<1>2. PICK target : target = Attach(index, r.to, r.tdst)
  OBVIOUS
<1>3. Added(a, index, r, src) = Replayed(a, r, src)
  BY <1>1, <1>2 DEF Added
<1> QED BY <1>3, ReplayedCredits
-----------------------------------------------------------------------------
\* The correspondences of an upload still remembered name its own client, each of
\* its ports, and only it; they are no older than the upload, and forgotten with it.
\* The subscriber they carry is the one a remembered upload of that client had,
\* since an address may have changed hands meanwhile.
Named(u, k, exact) == {x \in exact : x.key = ExactKey(u.passage.rec.to, k)}
SameTalk(v, u) ==
    IsUpload(v.passage) /\ OneClient(v.passage, u.passage) /\ v.passage.rec.to = u.passage.rec.to
LearntBy(sp, exact) ==
    \A u \in sp : \A k \in PortsOf(u.passage.rec) :
        /\ \E x \in Named(u, k, exact) : x.age <= u.age
        /\ \A x \in Named(u, k, exact) :
              \E v \in sp : SameTalk(v, u) /\ v.sid = x.sid /\ v.age = x.age
SpokenShape(sp, exact) ==
    /\ \A u \in sp : /\ DOMAIN u = {"passage", "sid", "age"} /\ u.age \in Nat
                     /\ u.passage \in Passages /\ IsUpload(u.passage)
    /\ \A x \in exact : DOMAIN x = {"key", "sid", "client", "age"}
Learnt == LearntBy(spoken, agg.exact) /\ SpokenShape(spoken, agg.exact)

\* Subscribers have addresses of clients, in the table and in what was read of it.
OfClients(f) == DOMAIN f = Addresses /\ \A a \in Addresses : f[a] # None => a \in Customers
BlocksOfClients ==
    /\ OfClients(blocks) /\ OfClients(index)
    /\ task["flush"].phase = "install" => OfClients(task["flush"].blocks)
OwnLayout ==
    /\ DOMAIN templates = Exporters
    /\ \A e \in Exporters : templates[e] \in {None, Layout[e]}
PairingInv == TaskRows /\ BlocksOfClients /\ OwnLayout /\ Shape(agg) /\ Learnt

\* A datagram that is counted.
SourceFor(p) == [point |-> Info(p.exporter).vantage, exporter |-> p.exporter]
Counts(p) ==
    /\ agg' = Added(agg, index, p.rec, SourceFor(p))
    /\ heard' = heard \cup {Counted(p, Info(p.exporter).vantage)}
    /\ spoken' = spoken \cup Said(p)

LEMMA HearsCounted ==
    ASSUME OwnLayout, NEW p \in Passages, Hears(p)
    PROVE  /\ p \in left /\ left' = left \ {p} /\ batch' = batch
           /\ \/ agg' = agg /\ entry' = entry /\ heard' = heard /\ spoken' = spoken
              \/ /\ ~Duplicate(p.exporter, p.rec) /\ entry' = Entered(p.exporter, p.rec)
                 /\ Counts(p)
<1>1. p.exporter \in Exporters
  BY NetFlowAssumption
<1>2. templates[TemplateKey(p.exporter)] # None => Decoded(p.exporter, p.rec) = p.rec
  BY <1>1 DEF Decoded, TemplateKey, OwnLayout
<1>3. CASE Info(p.exporter).enabled /\ templates[TemplateKey(p.exporter)] # None
           /\ ~Duplicate(p.exporter, Decoded(p.exporter, p.rec))
  BY <1>2, <1>3 DEF Hears, Counts, SourceFor
<1>4. CASE ~(Info(p.exporter).enabled /\ templates[TemplateKey(p.exporter)] # None
             /\ ~Duplicate(p.exporter, Decoded(p.exporter, p.rec)))
  BY <1>4 DEF Hears
<1> QED BY <1>3, <1>4

\* Who a passage belongs to, as the collector reads it.
LEMMA PassageEnds ==
    ASSUME EndsAreTold, PortsTellApart, BlocksOfClients, NEW p \in Passages
    PROVE  /\ IsUpload(p) => /\ index[p.rec.from] = Owner(p) /\ p.rec.to \in Remotes
                             /\ ~IsCustomer(p.rec.to)
                             /\ Attach(index, p.rec.to, p.rec.tdst).sid = None
           /\ ~IsUpload(p) \/ Owner(p) = None => Attach(index, p.rec.from, p.rec.tsrc).sid = None
           /\ p.rec.to \in Publics => /\ ~IsUpload(p) /\ MayBeReturn(p.rec)
                                      /\ Attach(index, p.rec.to, p.rec.tdst).sid = None
<1>1. Customers \cap (Remotes \cup Publics) = {} /\ Remotes \cap Publics = {}
  BY AggregatorAssumption
<1>2. p.rec.from \in Addresses /\ p.rec.to \in Addresses
  BY NetFlowAssumption
<1>3. /\ p.rec.tsrc \notin Customers /\ p.rec.tdst \notin Customers
      /\ IsUpload(p) => /\ p.rec.from = ClientOf[p.packet].address /\ p.rec.from \in Customers
                        /\ p.rec.to \in Remotes
      /\ ~IsUpload(p) => p.rec.from \in Remotes
  BY DEF EndsAreTold, PortsTellApart
<1>4. \A a \in Addresses : index[a] # None => a \in Customers
  BY DEF BlocksOfClients, OfClients
<1>5. ASSUME NEW x, x \in Addresses, NEW t, t \notin Customers, index[x] = None
      PROVE  Attach(index, x, t).sid = None
  BY <1>4, <1>5 DEF Attach
<1>6. ASSUME IsUpload(p)
      PROVE  /\ index[p.rec.from] = Owner(p) /\ p.rec.to \in Remotes /\ ~IsCustomer(p.rec.to)
             /\ Attach(index, p.rec.to, p.rec.tdst).sid = None
  <2>1. p.rec.to \notin Customers /\ index[p.rec.to] = None
    BY <1>1, <1>2, <1>3, <1>4, <1>6
  <2> QED BY <1>2, <1>3, <1>5, <1>6, <2>1 DEF Owner, IsCustomer
<1>7. ASSUME ~IsUpload(p) \/ Owner(p) = None
      PROVE  Attach(index, p.rec.from, p.rec.tsrc).sid = None
  <2>1. index[p.rec.from] = None
    BY <1>1, <1>2, <1>3, <1>4, <1>6, <1>7
  <2> QED BY <1>2, <1>3, <1>5, <2>1
<1>8. ASSUME p.rec.to \in Publics
      PROVE  /\ ~IsUpload(p) /\ MayBeReturn(p.rec)
             /\ Attach(index, p.rec.to, p.rec.tdst).sid = None
  <2>1. ~IsUpload(p) /\ p.rec.from \in Remotes /\ p.rec.to \notin Customers
        /\ index[p.rec.to] = None
    BY <1>1, <1>2, <1>3, <1>4, <1>8
  <2> QED BY <1>1, <1>2, <1>3, <1>5, <2>1 DEF MayBeReturn, IsRoutable, IsCustomer
<1> QED BY <1>6, <1>7, <1>8

\* What an upload says: the subscriber of its address.
LEMMA SaidBy ==
    ASSUME NEW p
    PROVE  Said(p) = IF IsUpload(p) /\ Owner(p) # None
                     THEN {[passage |-> p, sid |-> Owner(p), age |-> 0]} ELSE {}
  BY DEF Said

\* An upload of a subscriber: what it replaces is of the same client, since no
\* other one uses its ports towards that server.
LEMMA CountsUpload ==
    ASSUME EndsAreTold, PortsTellApart, PairingInv, NEW p \in Passages, Counts(p),
           IsUpload(p), Owner(p) # None
    PROVE  Shape(agg') /\ Learnt'
<1> DEFINE sid == Owner(p)
           me == [passage |-> p, sid |-> sid, age |-> 0]
           new == {[key |-> ExactKey(p.rec.to, k), sid |-> sid, client |-> p.rec.from,
                    age |-> 0] : k \in PortsOf(p.rec)}
<1>1. /\ Shape(agg')
      /\ agg'.exact = {x \in agg.exact : \A k \in PortsOf(p.rec) : x.key # ExactKey(p.rec.to, k)}
                      \cup new
  BY PassageEnds, AddedUpload DEF PairingInv, Counts
<1>2. PICK exact : exact = agg.exact
  OBVIOUS
<1>3. PICK exact2 : exact2 = agg'.exact
  OBVIOUS
<1>4. spoken' = spoken \cup {me}
  BY SaidBy DEF Counts
<1>5. me.passage = p /\ me.sid = sid /\ me.age = 0 /\ DOMAIN me = {"passage", "sid", "age"}
      /\ SameTalk(me, me)
  BY DEF SameTalk, OneClient
<1>6. \A x \in new : x.sid = sid /\ x.age = 0 /\ DOMAIN x = {"key", "sid", "client", "age"}
  OBVIOUS
<1>7. \A k \in PortsOf(p.rec) : \E x \in new : x.key = ExactKey(p.rec.to, k)
  <2> TAKE k \in PortsOf(p.rec)
  <2> DEFINE mine == [key |-> ExactKey(p.rec.to, k), sid |-> sid, client |-> p.rec.from, age |-> 0]
  <2>1. mine \in new /\ mine.key = ExactKey(p.rec.to, k)
    OBVIOUS
  <2> QED BY <2>1
<1>8. \A x \in new : \E k \in PortsOf(p.rec) : x.key = ExactKey(p.rec.to, k)
  OBVIOUS
<1> HIDE DEF me, new
<1>9. SpokenShape(spoken', exact2)
  BY <1>1, <1>3, <1>4, <1>5, <1>6 DEF PairingInv, Learnt, SpokenShape
<1>10. ASSUME NEW u \in spoken', NEW k \in PortsOf(u.passage.rec)
       PROVE  /\ \E x \in Named(u, k, exact2) : x.age <= u.age
              /\ \A x \in Named(u, k, exact2) :
                    \E v \in spoken' : SameTalk(v, u) /\ v.sid = x.sid /\ v.age = x.age
  <2>1. CASE u.passage.rec.to = p.rec.to /\ k \in PortsOf(p.rec)
    <3>1. SameTalk(me, u)
      <4>1. u.passage \in Passages /\ IsUpload(u.passage)
        BY <1>9 DEF SpokenShape
      <4>2. PortsOf(u.passage.rec) \cap PortsOf(p.rec) # {}
        BY <2>1
      <4>3. OneClient(p, u.passage)
        BY <2>1, <4>1, <4>2 DEF PortsTellApart
      <4> QED BY <1>5, <2>1, <4>3 DEF SameTalk
    <3>2. \A x \in Named(u, k, exact2) : x \in new
      BY <1>1, <1>3, <2>1 DEF Named
    <3>3. PICK x \in new : x.key = ExactKey(u.passage.rec.to, k)
      BY <1>7, <2>1
    <3>4. x \in Named(u, k, exact2) /\ x.age <= u.age
      BY <1>1, <1>3, <1>6, <1>9, <3>3 DEF Named, SpokenShape
    <3> QED BY <1>4, <1>5, <1>6, <3>1, <3>2, <3>4
  <2>2. CASE ~(u.passage.rec.to = p.rec.to /\ k \in PortsOf(p.rec))
    <3>1. u \in spoken
      BY <1>4, <1>5, <2>2
    <3>2. \A j \in PortsOf(p.rec) : ExactKey(u.passage.rec.to, k) # ExactKey(p.rec.to, j)
      BY <2>2 DEF ExactKey
    <3>3. \A x \in new : x.key # ExactKey(u.passage.rec.to, k)
      BY <1>8, <3>2
    <3>4. Named(u, k, exact2) = Named(u, k, exact)
      BY <1>1, <1>2, <1>3, <3>2, <3>3 DEF Named
    <3>5. /\ \E x \in Named(u, k, exact) : x.age <= u.age
          /\ \A x \in Named(u, k, exact) :
                \E v \in spoken : SameTalk(v, u) /\ v.sid = x.sid /\ v.age = x.age
      BY <1>2, <3>1 DEF PairingInv, Learnt, LearntBy
    <3> QED BY <1>4, <3>4, <3>5
  <2> QED BY <2>1, <2>2
<1>11. LearntBy(spoken', exact2)
  BY <1>10 DEF LearntBy
<1>12. Learnt'
  <2>1. PICK sp : sp = spoken'
    OBVIOUS
  <2>2. LearntBy(sp, exact2) /\ SpokenShape(sp, exact2)
    BY <1>9, <1>11, <2>1
  <2> QED BY <1>3, <2>1, <2>2 DEF Learnt, LearntBy, SpokenShape, Named, SameTalk
<1> QED BY <1>1, <1>12

\* Whom the correspondences of a return name, as long as they are the ones learnt.
LEMMA ReturnIsNamed ==
    ASSUME PortsTellApart, Learnt, NEW p \in Passages, p.rec.to \in Publics,
           NEW sid, Speakers(spoken, p) = {sid}, NEW a, a.exact = agg.exact
    PROVE  Pairings(a, p.rec) # {} /\ \A x \in Pairings(a, p.rec) : x.sid = sid
<1>1. PICK u \in spoken : IsUpload(u.passage) /\ OneClient(u.passage, p)
                         /\ u.passage.rec.to = p.rec.from /\ u.passage \in Passages
  BY DEF Speakers, UploadsOf, Learnt, SpokenShape
<1>2. p.rec.cport \in PortsOf(u.passage.rec)
  <2>1. OneClient(p, u.passage)
    BY <1>1 DEF OneClient
  <2> QED BY <1>1, <2>1 DEF PortsTellApart
<1>3. /\ Named(u, p.rec.cport, a.exact) # {}
      /\ \A x \in Named(u, p.rec.cport, a.exact) : \E v \in spoken : SameTalk(v, u) /\ v.sid = x.sid
  BY <1>1, <1>2 DEF Learnt, LearntBy
<1>4. Pairings(a, p.rec) = Named(u, p.rec.cport, a.exact)
  BY <1>1, <1>3 DEF Pairings, Named
<1>5. ASSUME NEW x \in Pairings(a, p.rec) PROVE x.sid = sid
  <2>1. PICK v \in spoken : SameTalk(v, u) /\ v.sid = x.sid
    BY <1>3, <1>4
  <2>2. v \in UploadsOf(spoken, p)
    BY <1>1, <2>1 DEF UploadsOf, SameTalk, OneClient
  <2>3. v.sid \in Speakers(spoken, p)
    BY <2>2 DEF Speakers
  <2> QED BY <2>1, <2>3
<1> QED BY <1>3, <1>4, <1>5

\* A return of a conversation whose upload is remembered.
LEMMA CountsReturn ==
    ASSUME EndsAreTold, PortsTellApart, PairingInv, NEW p \in Passages, Counts(p),
           p.rec.to \in Publics, NEW sid, Speakers(spoken, p) = {sid}
    PROVE  Paid(agg, agg', sid, SourceFor(p), p.rec, "down")
<1>1. Pairings(agg, p.rec) # {} /\ \A x \in Pairings(agg, p.rec) : x.sid = sid
  BY ReturnIsNamed DEF PairingInv
<1>2. /\ MayBeReturn(p.rec) /\ Attach(index, p.rec.to, p.rec.tdst).sid = None
      /\ Attach(index, p.rec.from, p.rec.tsrc).sid = None
  BY PassageEnds DEF PairingInv
<1>3. \E x \in Pairings(agg, p.rec) :
         Paid(agg, Added(agg, index, p.rec, SourceFor(p)), x.sid, SourceFor(p), p.rec, "down")
  BY <1>1, <1>2, AddedReturn DEF PairingInv
<1> QED BY <1>1, <1>3 DEF Counts

LEMMA HearsPairs ==
    ASSUME EndsAreTold, PortsTellApart, PairingInv, NEW p \in Passages, Hears(p)
    PROVE  Shape(agg') /\ Learnt'
<1>1. CASE agg' = agg /\ spoken' = spoken
  BY <1>1 DEF PairingInv, Learnt, LearntBy, SpokenShape, Named, SameTalk
<1>2. CASE Counts(p) /\ IsUpload(p) /\ Owner(p) # None
  BY <1>2, CountsUpload
<1>3. CASE Counts(p) /\ ~(IsUpload(p) /\ Owner(p) # None)
  <2>1. Attach(index, p.rec.from, p.rec.tsrc).sid = None
    BY <1>3, PassageEnds DEF PairingInv
  <2>2. Shape(agg') /\ agg'.exact = agg.exact
    BY <1>3, <2>1, AddedOther DEF Counts, PairingInv
  <2>3. spoken' = spoken
    BY <1>3, SaidBy DEF Counts
  <2>4. Learnt'
    BY <2>2, <2>3 DEF PairingInv, Learnt, LearntBy, SpokenShape, Named, SameTalk
  <2> QED BY <2>2, <2>4
<1> QED BY <1>1, <1>2, <1>3, HearsCounted DEF PairingInv

\* The window is closed: nothing is counted in the next one yet.
LEMMA EmptyShape == Shape(EmptyAggregate) /\ \A a : Shape(Flushed(a))
<1>1. DOMAIN EmptyBag = {}
  BY DEF EmptyBag, SetToBag
<1>2. Shape(EmptyAggregate)
  BY <1>1 DEF Shape, EmptyAggregate
<1>3. ASSUME NEW a PROVE Shape(Flushed(a))
  BY <1>1 DEF Shape, Flushed
<1> QED BY <1>2, <1>3

\* The table of the blocks and what was read of it.
LEMMA BlocksFollow ==
    ASSUME EndsAreTold, TaskRows, BlocksOfClients, [Next]_vars
    PROVE  BlocksOfClients'
<1> USE DEF BlocksOfClients
<1>1. ASSUME UNCHANGED <<blocks, index, task>> PROVE BlocksOfClients'
  BY <1>1 DEF OfClients
<1>2. ASSUME NEW e \in Exporters, HearsTemplate(e) \/ ExportDeclares(e) \/ RoleChanges(e)
      PROVE  BlocksOfClients'
  BY <1>1, <1>2 DEF HearsTemplate, ExportDeclares, RoleChanges, database
<1>3. CASE DatabaseComesOrGoes \/ UNCHANGED vars \/ \E p \in Passages : Hears(p)
  BY <1>1, <1>3 DEF DatabaseComesOrGoes, vars, Hears, database
<1>4. ASSUME UNCHANGED <<blocks, index>>,
             task'["flush"].phase # "install" \/ task'["flush"] = task["flush"]
      PROVE  BlocksOfClients'
  BY <1>4 DEF OfClients
<1>5. ASSUME NEW e \in Exporters, DeclaresByHand(e) \/ UpdatesByHand(e) \/ DeletesByHand(e)
      PROVE  BlocksOfClients'
  <2>1. UNCHANGED <<blocks, index>> /\ \E phase : Frame("desk", phase)
    BY <1>5 DEF DeclaresByHand, UpdatesByHand, DeletesByHand, Edits
  <2>2. task'["flush"] = task["flush"]
    BY <2>1 DEF Frame, TaskRows, Tasks
  <2> QED BY <1>4, <2>1, <2>2
<1>6. ASSUME NEW a \in Addresses, AddressMoves(a) PROVE BlocksOfClients'
  <2>1. UNCHANGED <<index, task>> /\ a \in Movable /\ \E s : blocks' = [blocks EXCEPT ![a] = s]
    BY <1>6 DEF AddressMoves
  <2>2. a \in Customers
    BY <2>1 DEF EndsAreTold
  <2> QED BY <2>1, <2>2 DEF OfClients
<1>7. ASSUME NEW t \in Tasks, Lists(t) \/ Declares(t) \/ ReadsExporters(t) \/ AssignsExporters(t)
      PROVE  BlocksOfClients'
  <2>1. UNCHANGED <<blocks, index>>
    BY <1>7 DEF Lists, Declares, ReadsExporters, AssignsExporters, database
  <2>2. t # "flush" => task'["flush"] = task["flush"]
    BY <1>7 DEF Lists, Declares, ReadsExporters, AssignsExporters, Frame, TaskRows, Tasks
  <2>3. t = "flush" => task'["flush"].phase # "install"
    <3>1. CASE Lists(t) \/ ReadsExporters(t)
      BY <3>1 DEF Lists, ReadsExporters, AfterExporters, TaskRows
    <3>2. CASE AssignsExporters(t)
      BY <3>2 DEF AssignsExporters, AfterExporters, TaskRows, Idle
    <3>3. CASE Declares(t)
      <4>1. Frame(t, "exporters") \/ \E e \in Exporters : task' = [task EXCEPT ![t].rows[e] = None]
        BY <3>3 DEF Declares
      <4>2. task[t].phase = "declaring"
        BY <3>3 DEF Declares
      <4> QED BY <4>1, <4>2 DEF Frame, TaskRows
    <3> QED BY <1>7, <3>1, <3>2, <3>3
  <2> QED BY <1>4, <2>1, <2>2, <2>3
<1>8. CASE Flushes \/ RecordsActivity
  <2>1. UNCHANGED <<blocks, index>>
    BY <1>8 DEF Flushes, RecordsActivity, database
  <2>2. task'["flush"].phase # "install"
    BY <1>8 DEF Flushes, RecordsActivity, Frame, TaskRows, Tasks
  <2> QED BY <1>4, <2>1, <2>2
<1>9. CASE ReadsBlocks
  <2>1. UNCHANGED <<blocks, index>> /\ task'["flush"].blocks = blocks
    BY <1>9 DEF ReadsBlocks, database, TaskRows, Tasks
  <2> QED BY <2>1 DEF OfClients
<1>10. CASE InstallsIndex
  <2>1. blocks' = blocks /\ index' = task["flush"].blocks /\ task'["flush"].phase # "install"
    BY <1>10 DEF InstallsIndex, database, TaskRows, Tasks, Idle
  <2> QED BY <1>10, <2>1 DEF OfClients, InstallsIndex
<1>11. CASE Restarts
  <2>1. blocks' = blocks /\ index' = [a \in Addresses |-> None]
        /\ task'["flush"].phase # "install"
    BY <1>11 DEF Restarts, database, Booting, Idle
  <2> QED BY <2>1 DEF OfClients
<1> QED BY <1>2, <1>3, <1>5, <1>6, <1>7, <1>8, <1>9, <1>10, <1>11 DEF Next, Works
LEMMA LayoutsStay == OwnLayout /\ [Next]_vars => OwnLayout'
<1> SUFFICES ASSUME OwnLayout, [Next]_vars PROVE OwnLayout'
  OBVIOUS
<1>1. ASSUME NEW e \in Exporters, HearsTemplate(e) PROVE OwnLayout'
  BY <1>1 DEF HearsTemplate, TemplateKey, OwnLayout
<1>2. CASE Restarts
  BY <1>2 DEF Restarts, OwnLayout
<1>3. ASSUME templates' = templates PROVE OwnLayout'
  BY <1>3 DEF OwnLayout
<1>4. ASSUME NEW t \in Tasks, Works(t) PROVE templates' = templates
  BY <1>4 DEF Works, Lists, Declares, ReadsExporters, AssignsExporters, Flushes,
              RecordsActivity, ReadsBlocks, InstallsIndex, reception
<1>5. ASSUME NEW e \in Exporters,
             \/ DeclaresByHand(e) \/ UpdatesByHand(e) \/ DeletesByHand(e)
             \/ ExportDeclares(e) \/ RoleChanges(e)
      PROVE  templates' = templates
  BY <1>5 DEF DeclaresByHand, UpdatesByHand, DeletesByHand, Edits, ExportDeclares, RoleChanges,
              reception
<1>6. (\E a \in Addresses : AddressMoves(a)) \/ DatabaseComesOrGoes \/ UNCHANGED vars
        \/ (\E p \in Passages : Hears(p)) => templates' = templates
  BY DEF AddressMoves, DatabaseComesOrGoes, vars, Hears, reception
<1> QED BY <1>1, <1>2, <1>3, <1>4, <1>5, <1>6 DEF Next

LEMMA InitPairs == EndsAreTold /\ Init => PairingInv
<1> SUFFICES ASSUME EndsAreTold, Init PROVE PairingInv
  OBVIOUS
<1>1. TaskRows
  BY InitRows DEF DeclarationInv
<1>2. OfClients(Block0)
  BY NetFlowAssumption DEF OfClients, EndsAreTold
<1>3. blocks = Block0 /\ index = Block0 /\ task = [desk |-> Idle, flush |-> Idle]
  BY DEF Init
<1>4. task["flush"].phase # "install"
  BY <1>3 DEF Idle
<1>5. OwnLayout
  BY DEF Init, OwnLayout
<1>6. Shape(agg) /\ agg.exact = {} /\ spoken = {}
  BY EmptyShape DEF Init, EmptyAggregate
<1>7. Learnt
  BY <1>6 DEF Learnt, LearntBy, SpokenShape
<1> QED BY <1>1, <1>2, <1>3, <1>4, <1>5, <1>6, <1>7 DEF PairingInv, BlocksOfClients
-----------------------------------------------------------------------------
(* Volumes: sums counted unit by unit.                                      *)
Cells(f) == UNION {{k} \X (1..f[k]) : k \in DOMAIN f}
Volumes(f) == IsFiniteSet(DOMAIN f) /\ \A k \in DOMAIN f : f[k] \in Nat

LEMMA TotalIsNat ==
    ASSUME NEW f, Volumes(f)
    PROVE  IsFiniteSet(Cells(f)) /\ Total(f) \in Nat
<1> DEFINE col == [k \in DOMAIN f |-> {k} \X (1..f[k])]
           cols == {{k} \X (1..f[k]) : k \in DOMAIN f}
<1>1. col \in Surjection(DOMAIN f, cols)
  BY DEF Surjection
<1>2. IsFiniteSet(cols)
  BY <1>1, FS_Surjection DEF Volumes
<1>3. ASSUME NEW k \in DOMAIN f PROVE IsFiniteSet({k} \X (1..f[k]))
  <2>1. f[k] \in Int /\ 1 \in Int
    BY DEF Volumes
  <2>2. IsFiniteSet(1..f[k])
    BY <2>1, FS_Interval
  <2>3. IsFiniteSet({k})
    BY FS_Singleton
  <2> QED BY <2>2, <2>3, FS_Product
<1>4. \A T \in cols : IsFiniteSet(T)
  BY <1>3
<1> HIDE DEF cols
<1>5. IsFiniteSet(UNION cols)
  BY <1>2, <1>4, FS_UNION
<1> QED BY <1>5, FS_CardinalityType DEF cols, Cells, Total

LEMMA TotalOfZeros ==
    ASSUME NEW f, \A k \in DOMAIN f : f[k] = 0
    PROVE  Total(f) = 0
<1>1. Cells(f) = {}
  BY DEF Cells
<1> QED BY <1>1, FS_EmptySet DEF Total, Cells

\* One more of one thing is one more.
LEMMA TotalAddsOne ==
    ASSUME NEW f, NEW g, Volumes(f), Volumes(g), DOMAIN g = DOMAIN f, NEW k \in DOMAIN f,
           \A j \in DOMAIN f : j # k => g[j] = f[j], g[k] = f[k] + 1
    PROVE  Total(g) = Total(f) + 1
<1> DEFINE one == <<k, f[k] + 1>>
<1>1. Cells(g) = Cells(f) \cup {one}
  <2>1. ASSUME NEW c \in Cells(g) PROVE c \in Cells(f) \cup {one}
    <3>1. PICK j, i : j \in DOMAIN g /\ i \in 1..g[j] /\ c = <<j, i>>
      BY <2>1 DEF Cells
    <3>2. CASE j = k /\ i = f[k] + 1
      BY <3>1, <3>2
    <3>3. CASE ~(j = k /\ i = f[k] + 1)
      <4>1. i \in 1..f[j]
        BY <3>1, <3>3 DEF Volumes
      <4> QED BY <3>1, <4>1 DEF Cells
    <3> QED BY <3>2, <3>3
  <2>2. one \in Cells(g)
    BY DEF Cells, Volumes
  <2>3. ASSUME NEW c \in Cells(f) PROVE c \in Cells(g)
    <3>1. PICK j, i : j \in DOMAIN f /\ i \in 1..f[j] /\ c = <<j, i>>
      BY <2>3 DEF Cells
    <3>2. i \in 1..g[j]
      BY <3>1 DEF Volumes
    <3> QED BY <3>1, <3>2 DEF Cells
  <2> QED BY <2>1, <2>2, <2>3
<1>2. one \notin Cells(f)
  BY DEF Cells, Volumes
<1>3. IsFiniteSet(Cells(f))
  BY TotalIsNat
<1> HIDE DEF one
<1>4. Cardinality(Cells(g)) = Cardinality(Cells(f)) + 1
  BY <1>1, <1>2, <1>3, FS_AddElement
<1> QED BY <1>4 DEF Total, Cells

LEMMA AppsAreFinite == IsFiniteSet(Apps)
<1> DEFINE app == [r \in Remotes |-> AppOf[r]]
           apps == {AppOf[r] : r \in Remotes}
<1>1. IsFiniteSet(Remotes)
  <2>1. Remotes \subseteq Addresses /\ IsFiniteSet(Addresses)
    BY AggregatorAssumption DEF Addresses
  <2> QED BY <2>1, FS_Subset
<1>2. app \in Surjection(Remotes, apps)
  BY DEF Surjection
<1>3. IsFiniteSet(apps)
  BY <1>1, <1>2, FS_Surjection
<1>4. IsFiniteSet(apps \cup {"other"})
  BY <1>3, FS_AddElement
<1> QED BY <1>4 DEF Apps

LEMMA VolumesOfApps ==
    ASSUME NEW a, Shape(a), NEW sid, NEW point, NEW e, NEW dir
    PROVE  /\ Volumes([x \in Apps |-> Copies(<<sid, point, e, x, dir>>, a.credits)])
           /\ Volume(a, sid, point, e, dir) \in Nat
<1>1. \A k : Copies(k, a.credits) \in Nat
  BY DEF Shape, Copies, BagIn, BagToSet
<1>2. Volumes([x \in Apps |-> Copies(<<sid, point, e, x, dir>>, a.credits)])
  BY <1>1, AppsAreFinite DEF Volumes
<1> QED BY <1>2, TotalIsNat DEF Volume

\* A credit adds one unit where it belongs and nothing elsewhere.
LEMMA CreditVolume ==
    ASSUME NEW a, Shape(a), NEW owner, NEW src, NEW r, NEW way,
           NEW sid, NEW point, NEW e, NEW dir
    PROVE  Volume(Credit(a, owner, src, r, way), sid, point, e, dir)
             = Volume(a, sid, point, e, dir)
               + (IF <<sid, point, e, dir>> = <<owner, src.point, src.exporter, way>> THEN 1 ELSE 0)
<1> DEFINE key == <<owner, src.point, src.exporter, Classify(r), way>>
           b == Credit(a, owner, src, r, way)
           f == [x \in Apps |-> Copies(<<sid, point, e, x, dir>>, a.credits)]
           g == [x \in Apps |-> Copies(<<sid, point, e, x, dir>>, b.credits)]
<1>1. b.credits = Count(a.credits, key) /\ Shape(b)
  BY CreditAdds DEF Credit, Shape, Paid
<1>2. \A k : k # key => Copies(k, b.credits) = Copies(k, a.credits)
  BY <1>1, CountAdds DEF Shape
<1>3. Copies(key, b.credits) = Copies(key, a.credits) + 1
  <2>1. SetToBag({key}) = [x \in {key} |-> 1]
    BY DEF SetToBag
  <2> HIDE DEF key, b
  <2> QED BY <1>1, <2>1 DEF Count, (+), Copies, BagIn, BagToSet, Shape
<1>4. Classify(r) \in Apps
  BY DEF Classify, Apps
<1> HIDE DEF b
<1>5. Volumes(f) /\ Volumes(g)
  BY <1>1, VolumesOfApps
<1>6. Volume(a, sid, point, e, dir) = Total(f) /\ Volume(b, sid, point, e, dir) = Total(g)
  BY DEF Volume
<1>7. Total(f) \in Nat
  BY <1>5, TotalIsNat
<1>8. CASE <<sid, point, e, dir>> = <<owner, src.point, src.exporter, way>>
  <2>1. \A x \in Apps : x # Classify(r) => g[x] = f[x]
    BY <1>2, <1>8
  <2>2. g[Classify(r)] = f[Classify(r)] + 1
    BY <1>3, <1>4, <1>8
  <2> HIDE DEF f, g
  <2>3. Total(g) = Total(f) + 1
    BY <1>4, <1>5, <2>1, <2>2, TotalAddsOne DEF f, g
  <2> QED BY <1>6, <1>7, <1>8, <2>3 DEF b
<1>9. CASE <<sid, point, e, dir>> # <<owner, src.point, src.exporter, way>>
  <2>1. \A x \in Apps : <<sid, point, e, x, dir>> # key
    BY <1>9
  <2>2. g = f
    BY <1>2, <2>1
  <2> HIDE DEF f, g
  <2>3. Total(g) = Total(f) + 0
    BY <1>7, <2>2
  <2> QED BY <1>6, <1>9, <2>3 DEF b
<1> QED BY <1>8, <1>9 DEF b

LEMMA PaidVolume ==
    ASSUME NEW a, Shape(a), NEW b, NEW owner, NEW src, NEW r, NEW way,
           Paid(a, b, owner, src, r, way), NEW sid, NEW point, NEW e, NEW dir
    PROVE  Volume(b, sid, point, e, dir)
             = Volume(a, sid, point, e, dir)
               + (IF <<sid, point, e, dir>> = <<owner, src.point, src.exporter, way>> THEN 1 ELSE 0)
<1>1. b.credits = Credit(a, owner, src, r, way).credits
  BY DEF Paid, Credit, Shape
<1>2. Volume(b, sid, point, e, dir) = Volume(Credit(a, owner, src, r, way), sid, point, e, dir)
  BY <1>1 DEF Volume
<1> QED BY <1>2, CreditVolume
-----------------------------------------------------------------------------
(* What a record adds to the window: one unit each way at most, or one      *)
(* return that waits for its upload.                                        *)
Unit(a, b, src, dir) ==
    /\ Shape(b) /\ b.waiting = a.waiting
    /\ b.credits = a.credits \/ \E sid, r : b.credits = Credit(a, sid, src, r, dir).credits
Still(a, b) == Shape(b) /\ b.credits = a.credits /\ b.waiting = a.waiting

LEMMA CreditIsUnit ==
    ASSUME NEW a, Shape(a), NEW sid, NEW src, NEW r, NEW dir
    PROVE  Unit(a, Credit(a, sid, src, r, dir), src, dir)
<1>1. Paid(a, Credit(a, sid, src, r, dir), sid, src, r, dir)
  BY CreditAdds
<1> QED BY <1>1 DEF Unit, Paid

LEMMA StillUnit ==
    ASSUME NEW a, Shape(a), NEW b, NEW c, NEW src, NEW dir
    PROVE  /\ Still(a, b) /\ Unit(b, c, src, dir) => Unit(a, c, src, dir)
           /\ Unit(a, b, src, dir) /\ Still(b, c) => Unit(a, c, src, dir)
           /\ Unit(a, a, src, dir)
<1>1. ASSUME b.credits = a.credits, Shape(b), NEW sid, NEW r
      PROVE  Credit(b, sid, src, r, dir).credits = Credit(a, sid, src, r, dir).credits
  BY <1>1 DEF Credit, Shape
<1>2. Unit(a, b, src, dir) /\ Still(b, c) => Unit(a, c, src, dir)
  BY DEF Unit, Still
<1>3. ASSUME Still(a, b), Unit(b, c, src, dir) PROVE Unit(a, c, src, dir)
  <2>1. ASSUME NEW sid, NEW r, c.credits = Credit(b, sid, src, r, dir).credits
        PROVE  c.credits = Credit(a, sid, src, r, dir).credits
    BY <1>1, <1>3, <2>1 DEF Still
  <2> QED BY <1>3, <2>1 DEF Unit, Still
<1> QED BY <1>2, <1>3 DEF Unit

LEMMA ReplayedIsUnit ==
    ASSUME NEW a, Shape(a), NEW r, NEW src
    PROVE  Unit(a, Replayed(a, r, src), src, "down")
<1>1. PICK x : x = CHOOSE y \in Pairings(a, r) : TRUE
  OBVIOUS
<1> DEFINE met == {p \in a.publics : p.address # r.to} \cup {[address |-> r.to, age |-> 0]}
           seen == IF \E y \in a.exact : y.key = ExactKey(r.from, r.cport)
                   THEN [a EXCEPT !.publics = met] ELSE a
           credited == Credit(seen, x.sid, src, r, "down")
<1>2. Replayed(a, r, src) = NoteDestination(credited, x.client, r.from, r, "down", x.sid, src)
  BY <1>1 DEF Replayed
<1>3. Still(a, seen)
  <2> HIDE DEF met
  <2> QED BY DEF Shape, Still
<1> HIDE DEF seen
<1>4. Unit(seen, credited, src, "down")
  BY <1>3, CreditIsUnit DEF Still
<1> HIDE DEF credited
<1>5. Still(credited, Replayed(a, r, src))
  BY <1>2, <1>4, NoteDestinationCreditsNone DEF Unit, SameCredits, Still
<1>6. Unit(a, credited, src, "down")
  BY <1>3, <1>4, StillUnit
<1> QED BY <1>5, <1>6, StillUnit

LEMMA LearnNatStill ==
    ASSUME NEW a, Shape(a), NEW r, NEW sid, NEW client
    PROVE  Still(a, LearnNat(a, r, sid, client))
<1>1. CASE IsCustomer(r.to) \/ ~IsRoutable(r.to)
  BY <1>1 DEF LearnNat, Still
<1>2. CASE ~IsCustomer(r.to) /\ IsRoutable(r.to)
  BY <1>2, LearnNatLearns DEF Still
<1> QED BY <1>1, <1>2

LEMMA AddedGrows ==
    ASSUME NEW a, Shape(a), NEW map, NEW r, NEW src,
           NEW source, source = Attach(map, r.from, r.tsrc),
           NEW target, target = Attach(map, r.to, r.tdst),
           NEW b, b = Added(a, map, r, src)
    PROVE  \/ /\ source.sid = None /\ target.sid = None /\ IsRoutable(r.from) /\ Shape(b)
              /\ b.credits = a.credits
              /\ b.waiting = Append(a.waiting, [rec |-> r, src |-> src])
           \/ /\ source.sid = None /\ target.sid = None /\ IsRoutable(r.from)
              /\ Unit(a, b, src, "down")
           \/ \E c : /\ IF target.sid = None THEN Still(a, c) ELSE Unit(a, c, src, "down")
                     /\ IF source.sid = None THEN Still(c, b) ELSE Unit(c, b, src, "up")
<1> DEFINE down == IF target.sid = None THEN a ELSE Credit(a, target.sid, src, r, "down")
           credited == Credit(down, source.sid, src, r, "up")
           up == IF source.sid = None THEN down
                 ELSE IF target.sid = None
                 THEN LearnNat(credited, r, source.sid, source.client) ELSE credited
           named == source.sid # None \/ target.sid # None
           to == IF target.sid # None \/ (~named /\ IsCustomer(r.to))
                 THEN NoteDestination(up, target.client, r.from, r, "down", target.sid, src)
                 ELSE up
           out == IF source.sid # None \/ (~named /\ IsCustomer(r.from))
                  THEN NoteDestination(to, source.client, r.to, r, "up", source.sid, src) ELSE to
           later == [a EXCEPT !.waiting = Append(a.waiting, [rec |-> r, src |-> src])]
<1>1. b = IF named THEN out
          ELSE IF MayBeReturn(r)
          THEN IF Pairings(a, r) # {} THEN Replayed(a, r, src) ELSE later
          ELSE NoteHost(out, r)
  BY DEF Added
<1>2. IF target.sid = None THEN Still(a, down) ELSE Unit(a, down, src, "down")
  BY CreditIsUnit DEF Still
<1>3. Shape(down)
  BY <1>2 DEF Still, Unit
<1> HIDE DEF down
<1>4. Unit(down, credited, src, "up")
  BY <1>3, CreditIsUnit
<1>5. Shape(credited)
  BY <1>4 DEF Unit
<1> HIDE DEF credited
<1>6. IF source.sid = None THEN Still(down, up) ELSE Unit(down, up, src, "up")
  <2>1. Still(credited, LearnNat(credited, r, source.sid, source.client))
    BY <1>5, LearnNatStill
  <2>2. Unit(down, LearnNat(credited, r, source.sid, source.client), src, "up")
    BY <1>3, <1>4, <2>1, StillUnit
  <2>3. Still(down, down)
    BY <1>3 DEF Still
  <2> QED BY <1>4, <2>2, <2>3
<1>7. Shape(up)
  BY <1>6 DEF Still, Unit
<1> HIDE DEF up
<1>8. Still(up, to)
  BY <1>7, NoteDestinationCreditsNone DEF SameCredits, Still
<1> HIDE DEF to
<1>9. Still(to, out)
  BY <1>8, NoteDestinationCreditsNone DEF SameCredits, Still
<1> HIDE DEF out
<1>10. Still(out, NoteHost(out, r))
  BY <1>9, NoteHostCreditsNone DEF SameCredits, Still
<1>11. Still(up, out) /\ Still(up, NoteHost(out, r))
  BY <1>8, <1>9, <1>10 DEF Still
<1>12. ASSUME NEW z, Still(up, z)
       PROVE  IF source.sid = None THEN Still(down, z) ELSE Unit(down, z, src, "up")
  <2>1. Still(down, up) => Still(down, z)
    BY <1>12 DEF Still
  <2> QED BY <1>3, <1>6, <1>12, <2>1, StillUnit
<1>13. CASE b = out \/ b = NoteHost(out, r)
  BY <1>2, <1>3, <1>11, <1>12, <1>13
<1>14. ASSUME ~named, MayBeReturn(r), Pairings(a, r) # {}
       PROVE  /\ source.sid = None /\ target.sid = None /\ IsRoutable(r.from)
              /\ Unit(a, b, src, "down")
  <2>1. b = Replayed(a, r, src)
    BY <1>1, <1>14
  <2> QED BY <1>14, <2>1, ReplayedIsUnit DEF MayBeReturn
<1>15. ASSUME ~named, MayBeReturn(r), Pairings(a, r) = {}
       PROVE  /\ source.sid = None /\ target.sid = None /\ IsRoutable(r.from) /\ Shape(b)
              /\ b.credits = a.credits
              /\ b.waiting = Append(a.waiting, [rec |-> r, src |-> src])
  <2>1. b = later
    BY <1>1, <1>15
  <2>2. Shape(later) /\ later.credits = a.credits
        /\ later.waiting = Append(a.waiting, [rec |-> r, src |-> src])
    BY DEF Shape
  <2> HIDE DEF later
  <2> QED BY <1>15, <2>1, <2>2 DEF MayBeReturn
<1> HIDE DEF named
<1> QED BY <1>1, <1>13, <1>14, <1>15
-----------------------------------------------------------------------------
(* The replay of the waiting returns, step by step.                         *)
LEMMA LeastNatural ==
    ASSUME NEW T, T \subseteq Nat, T # {}
    PROVE  \E x \in T : \A y \in T : x <= y
<1>1. PICK x \in T : \A y \in T : ~ (<<y, x>> \in OpToRel(<, Nat))
  BY NatLessThanWellFounded, WFMin
<1>2. \A y \in T : ~(y < x)
  BY <1>1 DEF OpToRel
<1>3. \A y \in T : x <= y
  BY <1>2
<1> QED BY <1>3

\* What replays does at each step: it is a function, and each value follows from
\* the one before.
LEMMA ReplaysSteps ==
    ASSUME NEW a, Len(a.waiting) \in Nat
    PROVE  /\ Replays(a)[0] = a
           /\ \A n \in 1..Len(a.waiting) :
                 Replays(a)[n] = ReplayedOnce(Replays(a)[n - 1], a.waiting[n])
<1> DEFINE N == Len(a.waiting)
           Step(g, n) == IF n = 0 THEN a ELSE ReplayedOnce(g[n - 1], a.waiting[n])
           Upto(g, n) == g = [m \in 0..n |-> Step(g, m)]
           lacking == {n \in 0..N : ~\E g : Upto(g, n)}
<1>1. lacking = {}
  <2> SUFFICES ASSUME lacking # {} PROVE FALSE
    OBVIOUS
  <2>1. lacking \subseteq Nat
    OBVIOUS
  <2> HIDE DEF lacking
  <2>2. PICK n \in lacking : \A y \in lacking : n <= y
    BY <2>1, LeastNatural
  <2> USE DEF lacking
  <2>3. n # 0
    <3> DEFINE g == [m \in 0..0 |-> a]
    <3>1. Upto(g, 0)
      OBVIOUS
    <3> HIDE DEF Upto, g
    <3> QED BY <3>1
  <2>4. n - 1 \in 0..N /\ n - 1 \notin lacking
    <3>1. n \in 0..N
      OBVIOUS
    <3> HIDE DEF lacking
    <3>2. n - 1 \in 0..N /\ ~(n <= n - 1)
      BY <2>3, <3>1
    <3> QED BY <2>2, <3>2
  <2> HIDE DEF Upto
  <2>5. PICK g : Upto(g, n - 1)
    BY <2>4
  <2> DEFINE h == [m \in 0..n |-> IF m = n THEN ReplayedOnce(g[n - 1], a.waiting[n]) ELSE g[m]]
  <2>6. \A m \in 0..(n - 1) : g[m] = Step(g, m)
    BY <2>5 DEF Upto
  <2>7. \A m \in 0..n : h[m] = Step(h, m)
    <3>1. n \in Nat
      OBVIOUS
    <3>2. h[n] = Step(h, n)
      BY <2>3, <3>1
    <3>3. ASSUME NEW m \in 0..(n - 1) PROVE h[m] = Step(h, m)
      <4>1. h[m] = g[m] /\ (m # 0 => h[m - 1] = g[m - 1])
        BY <3>1, <3>3
      <4> HIDE DEF h
      <4> QED BY <2>6, <4>1
    <3> HIDE DEF h, Step
    <3>4. \A m \in 0..n : m = n \/ m \in 0..(n - 1)
      BY <3>1
    <3> QED BY <3>2, <3>3, <3>4
  <2>8. h = [m \in 0..n |-> Step(h, m)]
    <3> HIDE DEF Step
    <3>1. h = [m \in 0..n |-> h[m]]
      OBVIOUS
    <3> HIDE DEF h
    <3> QED BY <2>7, <3>1
  <2>9. Upto(h, n)
    BY <2>8 DEF Upto
  <2> HIDE DEF h
  <2> QED BY <2>9
<1>2. \E g : Upto(g, N)
  <2> HIDE DEF Upto
  <2> QED BY <1>1
<1>3. Upto(Replays(a), N)
  BY <1>2 DEF Replays
<1>4. \A n \in 0..N : Replays(a)[n] = Step(Replays(a), n)
  BY <1>3
<1>5. 0 \in 0..N /\ \A n \in 1..N : n \in 0..N /\ n # 0
  OBVIOUS
<1> QED BY <1>4, <1>5
-----------------------------------------------------------------------------
(* The uses add up: every credit was given at a known point of view.        *)
Records == {p.rec : p \in Passages}
Sources == [point : Points, exporter : Exporters]
Waiters == [rec : Records, src : Sources]
Credited(a) ==
    /\ Shape(a) /\ \A k \in DOMAIN a.credits : k[2] \in Points /\ k[3] \in Exporters
    /\ a.waiting \in Seq(Waiters)

LEMMA UnitCredited ==
    ASSUME NEW a, Credited(a), NEW b, NEW src, src \in Sources, NEW dir, Unit(a, b, src, dir)
    PROVE  Credited(b)
<1>1. ASSUME NEW sid, NEW r, b.credits = Credit(a, sid, src, r, dir).credits
      PROVE  \A k \in DOMAIN b.credits : k[2] \in Points /\ k[3] \in Exporters
  <2> DEFINE key == <<sid, src.point, src.exporter, Classify(r), dir>>
  <2>1. b.credits = Count(a.credits, key)
    BY <1>1 DEF Credit, Credited, Shape
  <2>2. key[2] \in Points /\ key[3] \in Exporters
    BY DEF Sources
  <2> HIDE DEF key
  <2>3. DOMAIN b.credits = DOMAIN a.credits \cup {key}
    BY <2>1, CountDomain
  <2> QED BY <2>2, <2>3 DEF Credited
<1>2. \A k \in DOMAIN b.credits : k[2] \in Points /\ k[3] \in Exporters
  BY <1>1 DEF Unit, Credited
<1> QED BY <1>2 DEF Unit, Credited

LEMMA AddedCredited ==
    ASSUME NEW a, Credited(a), NEW map, NEW r \in Records, NEW src \in Sources
    PROVE  Credited(Added(a, map, r, src))
<1>1. PICK b : b = Added(a, map, r, src)
  OBVIOUS
<1>2. PICK source : source = Attach(map, r.from, r.tsrc)
  OBVIOUS
<1>3. PICK target : target = Attach(map, r.to, r.tdst)
  OBVIOUS
<1>4. [rec |-> r, src |-> src] \in Waiters
  BY DEF Waiters
<1>5. Shape(a)
  BY DEF Credited
<1>6. ASSUME Shape(b), b.credits = a.credits,
             b.waiting = Append(a.waiting, [rec |-> r, src |-> src])
      PROVE  Credited(b)
  BY <1>4, <1>6 DEF Credited
<1>7. ASSUME NEW x, NEW y, NEW dir, Credited(x), Still(x, y) \/ Unit(x, y, src, dir)
      PROVE  Credited(y)
  BY <1>4, <1>7, UnitCredited DEF Still, Credited
<1>8. ASSUME NEW c, IF target.sid = None THEN Still(a, c) ELSE Unit(a, c, src, "down"),
             IF source.sid = None THEN Still(c, b) ELSE Unit(c, b, src, "up")
      PROVE  Credited(b)
  <2>1. Credited(c)
    BY <1>7, <1>8
  <2> QED BY <1>7, <1>8, <2>1
<1> QED BY <1>1, <1>2, <1>3, <1>5, <1>6, <1>7, <1>8, AddedGrows

LEMMA ReplaysCredited ==
    ASSUME NEW a, Credited(a)
    PROVE  \A n \in 0..Len(a.waiting) : Credited(Replays(a)[n])
<1> DEFINE N == Len(a.waiting)
           wrong == {n \in 0..N : ~Credited(Replays(a)[n])}
<1>1. N \in Nat /\ \A n \in 1..N : a.waiting[n] \in Waiters
  BY DEF Credited
<1>2. /\ Replays(a)[0] = a
      /\ \A n \in 1..N : Replays(a)[n] = ReplayedOnce(Replays(a)[n - 1], a.waiting[n])
  BY <1>1, ReplaysSteps
<1>3. ASSUME NEW b, Credited(b), NEW w \in Waiters PROVE Credited(ReplayedOnce(b, w))
  <2>1. w.src \in Sources
    BY DEF Waiters
  <2>2. Shape(b)
    BY <1>3 DEF Credited
  <2>3. Unit(b, Replayed(b, w.rec, w.src), w.src, "down")
    BY <2>2, ReplayedIsUnit
  <2>4. Credited(Replayed(b, w.rec, w.src))
    BY <1>3, <2>1, <2>3, UnitCredited
  <2> QED BY <1>3, <2>4 DEF ReplayedOnce
<1>4. wrong = {}
  <2> SUFFICES ASSUME wrong # {} PROVE FALSE
    OBVIOUS
  <2>1. wrong \subseteq Nat
    OBVIOUS
  <2> HIDE DEF wrong
  <2>2. PICK n \in wrong : \A m \in wrong : n <= m
    BY <2>1, LeastNatural
  <2> USE DEF wrong
  <2>3. n # 0
    BY <1>2, <2>2
  <2>4. n \in 1..N /\ n - 1 \in 0..N /\ n - 1 \notin wrong
    BY <1>1, <2>2, <2>3
  <2>5. Credited(Replays(a)[n - 1])
    BY <2>4
  <2> QED BY <1>1, <1>2, <1>3, <2>2, <2>4, <2>5
<1> QED BY <1>4

LEMMA EmptiedCredited ==
    ASSUME NEW a, Credited(a)
    PROVE  Credited(WaitingEmptied(a))
<1>1. PICK b : b = Replays(a)[Len(a.waiting)]
  OBVIOUS
<1>2. Len(a.waiting) \in 0..Len(a.waiting)
  BY DEF Credited
<1>3. Credited(b)
  BY <1>1, <1>2, ReplaysCredited
<1> DEFINE exact == Older(b.exact, NatTtl)
           large == Older(b.large, NatTtl)
           publics == Older(b.publics, NatTtl)
           c == [b EXCEPT !.waiting = <<>>, !.exact = exact, !.large = large, !.publics = publics]
<1>4. WaitingEmptied(a) = c
  BY <1>1 DEF WaitingEmptied
<1> HIDE DEF exact, large, publics
<1>5. Shape(c) /\ c.credits = b.credits /\ c.waiting = <<>>
  BY <1>3 DEF Credited, Shape
<1> HIDE DEF c
<1>6. <<>> \in Seq(Waiters)
  OBVIOUS
<1> QED BY <1>3, <1>4, <1>5, <1>6 DEF Credited

LEMMA EmptyCredited ==
    /\ Credited(EmptyAggregate)
    /\ \A a : Credited(a) => Credited(Flushed(a))
<1>1. DOMAIN EmptyBag = {}
  BY DEF EmptyBag, SetToBag
<1>2. <<>> \in Seq(Waiters)
  OBVIOUS
<1>3. EmptyAggregate.credits = EmptyBag /\ EmptyAggregate.waiting = <<>>
  BY DEF EmptyAggregate
<1>4. Credited(EmptyAggregate)
  BY <1>1, <1>2, <1>3, EmptyShape DEF Credited
<1>5. ASSUME NEW a, Credited(a) PROVE Credited(Flushed(a))
  <2>1. PICK b : b = Flushed(a)
    OBVIOUS
  <2>2. b.credits = EmptyBag /\ b.waiting = a.waiting
    BY <2>1 DEF Flushed
  <2>3. Shape(b)
    BY <2>1, EmptyShape
  <2> QED BY <1>1, <1>5, <2>1, <2>2, <2>3 DEF Credited
<1> QED BY <1>4, <1>5
LEMMA RowIsNat ==
    ASSUME NEW a, Shape(a), NEW sid, NEW point, NEW dir
    PROVE  Row(a, sid, point, dir) \in Nat
  BY VolumesOfApps DEF Row

\* The rows of a window that was closed.
LEMMA BatchRows ==
    ASSUME NEW a, Credited(a), NEW v, NEW b, b = BatchOf(a, v)
    PROVE  /\ b.vantage = v
           /\ \A sid \in {k[1] : k \in DOMAIN b.rows} :
                 /\ {k[2] : k \in {j \in DOMAIN b.rows : j[1] = sid}} = PointsOf(a, sid)
                 /\ PointsOf(a, sid) # {} /\ PointsOf(a, sid) \subseteq Points
                 /\ \A p \in PointsOf(a, sid), dir \in Dirs :
                       /\ <<sid, p, dir>> \in DOMAIN b.rows
                       /\ b.rows[<<sid, p, dir>>] = Row(a, sid, p, dir)
                 /\ \A dir \in Dirs : \A x \in Apps :
                       b.apps[<<sid, x, dir>>] = AppVolume(a, sid, PointRead(a, sid, v, dir), x, dir)
<1> DEFINE sids == {k[1] : k \in BagToSet(a.credits)}
           keys == UNION {{<<s, p, d>> : p \in PointsOf(a, s), d \in Dirs} : s \in sids}
           rows == [k \in keys |-> Row(a, k[1], k[2], k[3])]
           apps == [k \in sids \X Apps \X Dirs |->
                      AppVolume(a, k[1], PointRead(a, k[1], v, k[3]), k[2], k[3])]
<1>1. b.rows = rows /\ b.apps = apps /\ b.vantage = v
  BY DEF BatchOf
<1>2. DOMAIN b.rows = keys /\ \A k \in keys : b.rows[k] = Row(a, k[1], k[2], k[3])
  BY <1>1
<1>3. \A k \in sids \X Apps \X Dirs :
         b.apps[k] = AppVolume(a, k[1], PointRead(a, k[1], v, k[3]), k[2], k[3])
  BY <1>1
<1> HIDE DEF rows, apps
<1>4. \A s \in sids : PointsOf(a, s) # {} /\ PointsOf(a, s) \subseteq Points
  BY DEF PointsOf, BagToSet, Credited
<1> HIDE DEF sids
<1>5. \A k \in keys : \E s \in sids : \E p \in PointsOf(a, s), d \in Dirs : k = <<s, p, d>>
  OBVIOUS
<1>6. \A s \in sids : \A p \in PointsOf(a, s), d \in Dirs : <<s, p, d>> \in keys
  OBVIOUS
<1> HIDE DEF keys
<1>7. ASSUME NEW sid, sid \in {k[1] : k \in DOMAIN b.rows}
      PROVE  /\ {k[2] : k \in {j \in DOMAIN b.rows : j[1] = sid}} = PointsOf(a, sid)
             /\ PointsOf(a, sid) # {} /\ PointsOf(a, sid) \subseteq Points
             /\ \A p \in PointsOf(a, sid), dir \in Dirs :
                   /\ <<sid, p, dir>> \in DOMAIN b.rows
                   /\ b.rows[<<sid, p, dir>>] = Row(a, sid, p, dir)
             /\ \A dir \in Dirs : \A x \in Apps :
                   b.apps[<<sid, x, dir>>] = AppVolume(a, sid, PointRead(a, sid, v, dir), x, dir)
  <2>1. sid \in sids
    BY <1>2, <1>5, <1>7
  <2>2. "down" \in Dirs
    BY DEF Dirs
  <2>3. ASSUME NEW p \in PointsOf(a, sid)
        PROVE  p \in {k[2] : k \in {j \in keys : j[1] = sid}}
    <3> DEFINE k == <<sid, p, "down">>
    <3>1. k \in keys /\ k[1] = sid /\ k[2] = p
      BY <1>6, <2>1, <2>2
    <3> HIDE DEF k
    <3> QED BY <3>1
  <2>4. ASSUME NEW p, p \in {k[2] : k \in {j \in keys : j[1] = sid}}
        PROVE  p \in PointsOf(a, sid)
    <3>1. PICK k \in keys : k[1] = sid /\ k[2] = p
      BY <2>4
    <3>2. PICK s, q, d : s \in sids /\ q \in PointsOf(a, s) /\ d \in Dirs /\ k = <<s, q, d>>
      BY <1>5
    <3> QED BY <3>1, <3>2
  <2>5. {k[2] : k \in {j \in DOMAIN b.rows : j[1] = sid}} = PointsOf(a, sid)
    BY <1>2, <2>3, <2>4
  <2>6. \A dir \in Dirs, x \in Apps : <<sid, x, dir>> \in sids \X Apps \X Dirs
    BY <2>1
  <2>7. \A p \in PointsOf(a, sid), dir \in Dirs :
           /\ <<sid, p, dir>> \in DOMAIN b.rows
           /\ b.rows[<<sid, p, dir>>] = Row(a, sid, p, dir)
    BY <1>2, <1>6, <2>1
  <2>8. \A dir \in Dirs : \A x \in Apps :
           b.apps[<<sid, x, dir>>] = AppVolume(a, sid, PointRead(a, sid, v, dir), x, dir)
    BY <1>3, <2>6
  <2> QED BY <1>4, <2>1, <2>5, <2>7, <2>8
<1> QED BY <1>1, <1>7

LEMMA BatchAddsUp ==
    ASSUME NEW a, Credited(a), NEW v, batch.batch = BatchOf(a, v)
    PROVE  AppsAddUp
<1> DEFINE b == batch.batch
<1> SUFFICES ASSUME NEW sid \in {k[1] : k \in DOMAIN b.rows}, NEW dir \in Dirs
             PROVE  LET points == {k[2] : k \in {j \in DOMAIN b.rows : j[1] = sid}}
                        read == IF b.vantage \in points THEN b.rows[<<sid, b.vantage, dir>>]
                                ELSE IF b.vantage = "auto" THEN Billed(b, sid, dir)
                                ELSE b.rows[<<sid, IF "edge" \in points THEN "edge"
                                                   ELSE IF "pop" \in points THEN "pop"
                                                   ELSE "unknown", dir>>]
                    IN  Total([x \in Apps |-> b.apps[<<sid, x, dir>>]]) = read
  BY DEF AppsAddUp
<1>1. b = BatchOf(a, v)
  OBVIOUS
<1> HIDE DEF b
<1> DEFINE points == {k[2] : k \in {j \in DOMAIN b.rows : j[1] = sid}}
           PR == PointRead(a, sid, v, dir)
<1>2. /\ b.vantage = v /\ points = PointsOf(a, sid)
      /\ points # {} /\ points \subseteq Points
      /\ \A p \in points : /\ <<sid, p, dir>> \in DOMAIN b.rows
                           /\ b.rows[<<sid, p, dir>>] = Row(a, sid, p, dir)
      /\ \A x \in Apps : b.apps[<<sid, x, dir>>] = AppVolume(a, sid, PR, x, dir)
  BY <1>1, BatchRows
<1>3. \A p : Row(a, sid, p, dir) \in Nat
  BY RowIsNat DEF Credited
<1>4. Total([x \in Apps |-> b.apps[<<sid, x, dir>>]]) = Row(a, sid, PR, dir)
  <2>1. [x \in Apps |-> b.apps[<<sid, x, dir>>]]
          = [x \in Apps |-> Copies(<<sid, PR, BestExporter(a, sid, PR, dir), x, dir>>, a.credits)]
    BY <1>2 DEF AppVolume
  <2> QED BY <2>1 DEF Row, Volume
<1> HIDE DEF points
<1>5. CASE b.vantage \in points
  <2>1. PR = v
    BY <1>2, <1>5 DEF PointRead
  <2> HIDE DEF PR
  <2> QED BY <1>2, <1>4, <1>5, <2>1 DEF points
<1>6. CASE b.vantage \notin points /\ b.vantage # "auto"
  <2> DEFINE first == IF "edge" \in points THEN "edge" ELSE IF "pop" \in points THEN "pop" ELSE "unknown"
  <2>1. PR = first
    BY <1>2, <1>6 DEF PointRead
  <2>2. first \in points
    BY <1>2 DEF Points
  <2> HIDE DEF PR
  <2> QED BY <1>2, <1>4, <1>6, <2>1, <2>2 DEF points
<1>7. CASE b.vantage \notin points /\ b.vantage = "auto"
  <2> DEFINE R(p) == Row(a, sid, p, dir)
             best == {p \in points : \A q \in points : R(p) >= R(q)}
             here == {j \in DOMAIN b.rows : j[1] = sid /\ j[3] = dir}
             counted == {0} \cup {b.rows[k] : k \in here}
  <2>1. best # {} /\ best \subseteq Points
    <3> HIDE DEF R
    <3>1. \A p : R(p) \in Nat
      BY <1>3 DEF R
    <3>2. \E p \in points : \A q \in points : R(p) >= R(q)
      BY <1>2, <3>1 DEF Points
    <3> QED BY <1>2, <3>2
  <2>2. PR \in best
    <3>1. PR = IF "edge" \in best THEN "edge" ELSE IF "pop" \in best THEN "pop" ELSE "unknown"
      BY <1>2, <1>7 DEF PointRead
    <3> HIDE DEF best, PR
    <3> QED BY <2>1, <3>1 DEF Points
  <2>3. ASSUME NEW k \in here PROVE k[2] \in points /\ b.rows[k] = R(k[2])
    <3>1. k[2] \in points
      BY <2>3 DEF points
    <3>2. PICK s, q, d : k = <<s, q, d>>
      BY <1>1, <2>3 DEF BatchOf
    <3>3. k = <<sid, k[2], dir>>
      BY <2>3, <3>2
    <3> QED BY <1>2, <3>1, <3>3
  <2>4. R(PR) \in counted
    <3> DEFINE k == <<sid, PR, dir>>
    <3>1. k \in here /\ b.rows[k] = R(PR)
      BY <1>2, <2>2
    <3> HIDE DEF k, R, PR
    <3> QED BY <3>1
  <2>5. \A x \in counted : R(PR) >= x
    <3>1. R(PR) >= 0
      BY <1>3
    <3> QED BY <2>2, <2>3, <3>1
  <2>6. counted \subseteq Nat
    BY <1>3, <2>3
  <2> HIDE DEF R, PR, here, counted
  <2>7. Max(counted) = R(PR)
    <3>1. PICK top : top = R(PR)
      OBVIOUS
    <3>2. PICK m : m = CHOOSE x \in counted : \A y \in counted : x >= y
      OBVIOUS
    <3>3. m \in counted /\ m >= top
      BY <2>4, <2>5, <3>1, <3>2
    <3>4. top >= m /\ top \in Nat /\ m \in Nat
      BY <2>4, <2>5, <2>6, <3>1, <3>3
    <3>5. m = top
      BY <3>3, <3>4
    <3> QED BY <3>1, <3>2, <3>5 DEF Max
  <2>8. Billed(b, sid, dir) = R(PR)
    BY <2>7 DEF Billed, counted, here
  <2> QED BY <1>4, <1>7, <2>8 DEF R, points
<1> QED BY <1>5, <1>6, <1>7 DEF points
-----------------------------------------------------------------------------
\* The points of view that are declared, read and known are points of view.
Placed(f) ==
    DOMAIN f = Exporters /\ \A e \in Exporters : f[e] # None => f[e].vantage \in Points
PlacesInv ==
    /\ Placed(table) /\ Placed(exporters)
    /\ role \in [Exporters -> Roles \cup {None}]
    /\ \A t \in Tasks : task[t].phase = "assign" => Placed(task[t].rows)

LEMMA PlacesFollow ==
    ASSUME DeclarationInv, PlacesInv, [Next]_vars
    PROVE  PlacesInv'
<1> USE DEF DeclarationInv, TaskRows, PlacesInv
<1>1. ASSUME UNCHANGED <<table, exporters, role>>,
             \A t \in Tasks : task'[t].phase = "assign" => task'[t] = task[t]
      PROVE  PlacesInv'
  BY <1>1 DEF Placed
<1>2. ASSUME NEW e \in Exporters, NEW row, NEW phase, Edits(e, row, phase),
             row # None => row.vantage \in Points, phase # "assign"
      PROVE  PlacesInv'
  <2>1. UNCHANGED <<exporters, role>> /\ table' = [table EXCEPT ![e] = row]
    BY <1>2 DEF Edits
  <2>2. \A t \in Tasks : task'[t].phase = "assign" => task'[t] = task[t]
    BY <1>2 DEF Edits, Frame, Tasks
  <2>3. Placed(table)'
    BY <1>2, <2>1 DEF Placed
  <2> QED BY <2>1, <2>2, <2>3 DEF Placed
<1>3. ASSUME NEW e \in Exporters, HearsTemplate(e) PROVE PlacesInv'
  BY <1>1, <1>3 DEF HearsTemplate, database
<1>4. ASSUME NEW e \in Exporters, DeclaresByHand(e) PROVE PlacesInv'
  <2>1. PICK v \in Points, on \in BOOLEAN :
            Edits(e, [vantage |-> v, note |-> "", enabled |-> on], "exporters")
    BY <1>4 DEF DeclaresByHand
  <2> QED BY <1>2, <2>1
<1>5. ASSUME NEW e \in Exporters, UpdatesByHand(e) PROVE PlacesInv'
  <2>1. PICK v \in Points :
            Edits(e, [table[e] EXCEPT !.vantage = v, !.note = IF v = "unknown" THEN "" ELSE "hand"],
                  IF v = "unknown" THEN "listing" ELSE "exporters")
    BY <1>5 DEF UpdatesByHand
  <2> DEFINE row == [table[e] EXCEPT !.vantage = v, !.note = IF v = "unknown" THEN "" ELSE "hand"]
             p   == IF v = "unknown" THEN "listing" ELSE "exporters"
  <2>2. row.vantage \in Points /\ p # "assign"
    BY <1>5 DEF UpdatesByHand, Rows, IsRow
  <2> HIDE DEF row, p
  <2>3. Edits(e, row, p)
    BY <2>1 DEF row, p
  <2> QED BY <1>2, <2>2, <2>3
<1>6. ASSUME NEW e \in Exporters, DeletesByHand(e) PROVE PlacesInv'
  BY <1>2, <1>6 DEF DeletesByHand
<1>7. ASSUME NEW e \in Exporters, ExportDeclares(e) PROVE PlacesInv'
  <2>1. /\ UNCHANGED <<exporters, role, task>> /\ Exported(role[e]) \in Points
        /\ table' = [table EXCEPT ![e] = [vantage |-> Exported(role[e]), note |-> "auto",
                                           enabled |-> TRUE]]
    BY <1>7 DEF ExportDeclares, Exported, Points
  <2>2. Placed(table)'
    BY <2>1 DEF Placed
  <2> QED BY <2>1, <2>2 DEF Placed
<1>8. ASSUME NEW e \in Exporters, RoleChanges(e) PROVE PlacesInv'
  BY <1>8 DEF RoleChanges, Placed
<1>9. CASE DatabaseComesOrGoes \/ UNCHANGED vars \/ (\E p \in Passages : Hears(p))
           \/ \E a \in Addresses : AddressMoves(a)
  BY <1>1, <1>9 DEF DatabaseComesOrGoes, vars, Hears, AddressMoves, database
<1>10. ASSUME NEW t \in Tasks, Lists(t) PROVE PlacesInv'
  BY <1>1, <1>10 DEF Lists, database
<1>11. ASSUME NEW t \in Tasks, Declares(t) PROVE PlacesInv'
  <2>1. UNCHANGED <<exporters, role>> /\ task[t].phase = "declaring"
    BY <1>11 DEF Declares
  <2>2. \/ table' = table /\ Frame(t, "exporters")
        \/ \E e \in Exporters :
             /\ Due(task[t].rows[e], e) /\ task' = [task EXCEPT ![t].rows[e] = None]
             /\ table' = IF dbUp /\ table[e] # None
                         THEN [table EXCEPT ![e].vantage = Recognised(role[e]), ![e].note = "auto"]
                         ELSE table
    BY <1>11 DEF Declares
  <2>3. \A u \in Tasks : task'[u].phase = "assign" => task'[u] = task[u]
    BY <2>1, <2>2 DEF Frame
  <2>4. Placed(table)'
    <3>1. CASE table' = table
      BY <3>1 DEF Placed
    <3>2. ASSUME NEW e \in Exporters, Due(task[t].rows[e], e), table[e] # None,
                 table' = [table EXCEPT ![e].vantage = Recognised(role[e]), ![e].note = "auto"]
          PROVE  Placed(table)'
      <4>1. Recognised(role[e]) \in Points
        BY DEF Recognised, Points
      <4>2. DOMAIN table' = Exporters /\ table'[e].vantage = Recognised(role[e])
            /\ \A x \in Exporters : x # e => table'[x] = table[x]
        BY <3>2 DEF Rows, IsRow
      <4> QED BY <4>1, <4>2 DEF Placed
    <3> QED BY <2>2, <3>1, <3>2
  <2> QED BY <2>1, <2>3, <2>4 DEF Placed
<1>12. ASSUME NEW t \in Tasks, ReadsExporters(t) PROVE PlacesInv'
  <2>1. UNCHANGED <<table, exporters, role>> /\ task'[t].rows = table
        /\ \A u \in Tasks : u # t => task'[u] = task[u]
    BY <1>12 DEF ReadsExporters, database
  <2> QED BY <2>1 DEF Placed
<1>13. ASSUME NEW t \in Tasks, AssignsExporters(t) PROVE PlacesInv'
  <2>1. UNCHANGED <<table, role>> /\ exporters' = task[t].rows /\ task[t].phase = "assign"
        /\ task'[t].phase # "assign" /\ \A u \in Tasks : u # t => task'[u] = task[u]
    BY <1>13 DEF AssignsExporters, database, TakesRows, AfterExporters, Idle
  <2> QED BY <2>1 DEF Placed
<1>14. CASE Flushes \/ ReadsBlocks \/ InstallsIndex
  <2>1. UNCHANGED <<table, exporters, role>>
        /\ \A u \in Tasks : task'[u].phase = "assign" => task'[u] = task[u]
    BY <1>14 DEF Flushes, ReadsBlocks, InstallsIndex, database, Frame, Tasks, Idle
  <2> QED BY <1>1, <2>1
<1>15. CASE RecordsActivity
  <2>1. UNCHANGED <<exporters, role>>
        /\ \A u \in Tasks : task'[u].phase = "assign" => task'[u] = task[u]
    BY <1>15 DEF RecordsActivity, Frame, Tasks
  <2>2. DOMAIN table' = Exporters /\ \A e \in Exporters : table'[e] \in {table[e], Unknown}
    BY <1>15 DEF RecordsActivity, Placed
  <2>3. Unknown.vantage \in Points
    BY DEF Unknown, Points
  <2> QED BY <2>1, <2>2, <2>3 DEF Placed
<1>16. CASE Restarts
  <2>1. UNCHANGED <<table, role>> /\ exporters' = [e \in Exporters |-> None]
        /\ task' = [desk |-> Idle, flush |-> Booting]
    BY <1>16 DEF Restarts, database
  <2>2. \A u \in Tasks : task'[u].phase # "assign"
    BY <2>1 DEF Tasks, Idle, Booting
  <2> QED BY <2>1, <2>2 DEF Placed
<1> QED BY <1>3, <1>4, <1>5, <1>6, <1>7, <1>8, <1>9, <1>10, <1>11, <1>12, <1>13, <1>14, <1>15,
           <1>16 DEF Next, Works

\* The window and the one before it are made of placed credits.
WindowInv ==
    /\ OwnLayout /\ Credited(agg)
    /\ \E a, v : Credited(a) /\ batch.batch = BatchOf(a, v)

LEMMA InitPlaces == Init => PlacesInv /\ WindowInv
<1> SUFFICES ASSUME Init PROVE PlacesInv /\ WindowInv
  OBVIOUS
<1>1. Placed(table) /\ exporters = table /\ role = Role0
  <2>1. table = [e \in Exporters |-> Row0(e)] /\ exporters = table /\ role = Role0
    BY DEF Init
  <2>2. \A e \in Exporters : Row0(e) # None => Row0(e).vantage \in Points
    BY NetFlowAssumption DEF Row0
  <2> QED BY <2>1, <2>2 DEF Placed
<1>2. \A t \in Tasks : task[t].phase # "assign"
  BY DEF Init, Tasks, Idle
<1>3. PlacesInv
  BY <1>1, <1>2, NetFlowAssumption DEF PlacesInv
<1>4. OwnLayout
  BY DEF Init, OwnLayout
<1>5. Credited(agg) /\ batch.batch = BatchOf(EmptyAggregate, "auto")
  BY EmptyCredited DEF Init, EmptyBatch
<1> QED BY <1>3, <1>4, <1>5, EmptyCredited DEF WindowInv

LEMMA HearsCredited ==
    ASSUME PlacesInv, WindowInv, NEW p \in Passages, Hears(p)
    PROVE  WindowInv'
<1> DEFINE e == p.exporter
           src == [point |-> Info(e).vantage, exporter |-> e]
<1>1. e \in Exporters
  BY NetFlowAssumption
<1>2. src \in Sources
  BY <1>1 DEF Sources, Info, Unknown, PlacesInv, Placed, Points
<1>3. templates' = templates /\ batch' = batch
  BY DEF Hears
<1>4. agg' = agg \/ (templates[TemplateKey(e)] # None /\ agg' = Added(agg, index, Decoded(e, p.rec), src))
  BY DEF Hears
<1> HIDE DEF src
<1>5. CASE templates[TemplateKey(e)] # None /\ agg' = Added(agg, index, Decoded(e, p.rec), src)
  <2>1. Decoded(e, p.rec) = p.rec
    BY <1>1, <1>5 DEF Decoded, TemplateKey, WindowInv, OwnLayout
  <2>2. p.rec \in Records
    BY DEF Records
  <2>3. PICK next : next = Added(agg, index, p.rec, src)
    OBVIOUS
  <2>4. Credited(next) /\ agg' = next
    BY <1>2, <1>5, <2>1, <2>2, <2>3, AddedCredited DEF WindowInv
  <2>5. Credited(agg)'
    BY <2>4 DEF Credited, Shape
  <2> QED BY <1>3, <2>5 DEF WindowInv, OwnLayout
<1> QED BY <1>3, <1>4, <1>5 DEF WindowInv, OwnLayout

LEMMA NextWindow ==
    ASSUME PlacesInv, WindowInv, [Next]_vars
    PROVE  WindowInv'
<1>1. OwnLayout'
  BY LayoutsStay DEF WindowInv
<1>2. ASSUME agg' = agg, batch' = batch PROVE WindowInv'
  BY <1>1, <1>2 DEF WindowInv
<1>3. ASSUME NEW e \in Exporters,
             \/ DeclaresByHand(e) \/ UpdatesByHand(e) \/ DeletesByHand(e)
             \/ ExportDeclares(e) \/ RoleChanges(e) \/ HearsTemplate(e)
      PROVE  WindowInv'
  BY <1>2, <1>3 DEF DeclaresByHand, UpdatesByHand, DeletesByHand, Edits, ExportDeclares, RoleChanges,
                    HearsTemplate, reception
<1>4. CASE (\E a \in Addresses : AddressMoves(a)) \/ DatabaseComesOrGoes \/ UNCHANGED vars
  BY <1>2, <1>4 DEF AddressMoves, DatabaseComesOrGoes, vars, reception
<1>5. ASSUME NEW t \in Tasks, Works(t), ~Flushes PROVE WindowInv'
  BY <1>2, <1>5 DEF Works, Lists, Declares, ReadsExporters, AssignsExporters, RecordsActivity,
                    ReadsBlocks, InstallsIndex, reception
<1>6. Credited(WaitingEmptied(agg))
  BY EmptiedCredited DEF WindowInv
<1>7. CASE Flushes
  <2>1. PICK a : a = WaitingEmptied(agg)
    OBVIOUS
  <2>2. agg' = Flushed(a) /\ batch' = Closed(a)
    BY <1>7, <2>1 DEF Flushes
  <2>3. PICK b : b = Flushed(a)
    OBVIOUS
  <2>4. Credited(b)
    BY <1>6, <2>1, <2>3, EmptyCredited
  <2>5. batch'.batch = BatchOf(a, EffectiveVantage)
    BY <2>2 DEF Closed
  <2> QED BY <1>1, <1>6, <2>1, <2>2, <2>3, <2>4, <2>5 DEF WindowInv, Credited, Shape
<1>8. CASE Restarts
  <2>1. agg' = EmptyAggregate /\ batch' \in {Closed(WaitingEmptied(agg)), batch}
    BY <1>8 DEF Restarts
  <2>2. PICK a : a = WaitingEmptied(agg)
    OBVIOUS
  <2>3. batch'.batch = batch.batch \/ batch'.batch = BatchOf(a, EffectiveVantage)
    BY <2>1, <2>2 DEF Closed
  <2>4. \E c, v : Credited(c) /\ batch'.batch = BatchOf(c, v)
    BY <1>6, <2>2, <2>3 DEF WindowInv
  <2> QED BY <1>1, <2>1, <2>4, EmptyCredited DEF WindowInv, Credited, Shape
<1> QED BY <1>3, <1>4, <1>5, <1>7, <1>8, HearsCredited DEF Next

\* Whatever was heard, of whatever exporters, and whoever declared them
\* meanwhile, the uses of a client add up to what is counted for it.
THEOREM UsesAddUp == Spec => []AppsAddUp
<1> DEFINE Inv == DeclarationInv /\ moves \in Nat /\ PlacesInv /\ WindowInv
<1>1. Init => Inv
  BY InitRows, InitPlaces, NetFlowAssumption DEF Init
<1>2. Inv /\ [Next]_vars => Inv'
  BY NextRows, PlacesFollow, NextWindow
<1>3. Inv => AppsAddUp
  BY BatchAddsUp DEF WindowInv
<1> HIDE DEF Inv
<1> QED BY <1>1, <1>2, <1>3, PTL DEF Spec
-----------------------------------------------------------------------------
(* A window never bills more than the packets that passed in it. Exporter   *)
(* by exporter and each way, what was credited and what still waits are     *)
(* counted against what was heard; an exporter is heard once per packet,    *)
(* since it takes a flow by one interface.                                  *)
DirOf(p) == ClientOf[p.packet].dir
HeardBy(hs, e, dir) == {h \in hs : h.passage.exporter = e /\ DirOf(h.passage) = dir}
Queued(a, e, dir, n) == {i \in 1..n : dir = "down" /\ a.waiting[i].src.exporter = e}
PacketsOf(hs, dir) == {k \in {h.passage.packet : h \in hs} : ClientOf[k].dir = dir}
Tally(a, sid, point, e, dir) ==
    Volume(a, sid, point, e, dir) + Cardinality(Queued(a, e, dir, Len(a.waiting)))

LEMMA QueuedNext ==
    ASSUME NEW a, NEW e, NEW dir, NEW n \in Nat
    PROVE  /\ IsFiniteSet(Queued(a, e, dir, n)) /\ Cardinality(Queued(a, e, dir, n)) \in Nat
           /\ Cardinality(Queued(a, e, dir, n + 1))
                = Cardinality(Queued(a, e, dir, n))
                  + (IF dir = "down" /\ a.waiting[n + 1].src.exporter = e THEN 1 ELSE 0)
<1>1. IsFiniteSet(1..n)
  BY FS_Interval
<1>2. Queued(a, e, dir, n) \in SUBSET (1..n)
  BY DEF Queued
<1>3. IsFiniteSet(Queued(a, e, dir, n)) /\ Cardinality(Queued(a, e, dir, n)) \in Nat
  BY <1>1, <1>2, FS_Subset, FS_CardinalityType
<1>4. CASE dir = "down" /\ a.waiting[n + 1].src.exporter = e
  <2>1. Queued(a, e, dir, n + 1) = Queued(a, e, dir, n) \cup {n + 1} /\ n + 1 \notin Queued(a, e, dir, n)
    BY <1>4 DEF Queued
  <2> QED BY <1>3, <1>4, <2>1, FS_AddElement
<1>5. CASE ~(dir = "down" /\ a.waiting[n + 1].src.exporter = e)
  <2>1. Queued(a, e, dir, n + 1) = Queued(a, e, dir, n)
    BY <1>5 DEF Queued
  <2> QED BY <1>3, <1>5, <2>1
<1> QED BY <1>3, <1>4, <1>5

LEMMA VolumeIsNat ==
    ASSUME NEW a, Shape(a)
    PROVE  \A s, p, e, d : Volume(a, s, p, e, d) \in Nat
  BY VolumesOfApps

LEMMA StillVolume ==
    ASSUME NEW a, NEW b, b.credits = a.credits
    PROVE  \A s, p, e, d : Volume(b, s, p, e, d) = Volume(a, s, p, e, d)
  BY DEF Volume

LEMMA UnitVolume ==
    ASSUME NEW a, Shape(a), NEW b, NEW src, NEW way, Unit(a, b, src, way),
           NEW s, NEW p, NEW e, NEW d
    PROVE  Volume(b, s, p, e, d)
             <= Volume(a, s, p, e, d) + (IF e = src.exporter /\ d = way THEN 1 ELSE 0)
<1>1. Volume(a, s, p, e, d) \in Nat
  BY VolumeIsNat
<1>2. CASE b.credits = a.credits
  <2>1. Volume(b, s, p, e, d) = Volume(a, s, p, e, d)
    BY <1>2, StillVolume
  <2> QED BY <1>1, <2>1
<1>3. ASSUME NEW sid, NEW r, b.credits = Credit(a, sid, src, r, way).credits
      PROVE  Volume(b, s, p, e, d)
               <= Volume(a, s, p, e, d) + (IF e = src.exporter /\ d = way THEN 1 ELSE 0)
  <2> DEFINE more == IF <<s, p, e, d>> = <<sid, src.point, src.exporter, way>> THEN 1 ELSE 0
  <2>1. Volume(b, s, p, e, d) = Volume(Credit(a, sid, src, r, way), s, p, e, d)
    BY <1>3, StillVolume
  <2>2. Volume(b, s, p, e, d) = Volume(a, s, p, e, d) + more
    BY <2>1, CreditVolume
  <2>3. more = 0 \/ (more = 1 /\ e = src.exporter /\ d = way)
    <3>1. CASE <<s, p, e, d>> = <<sid, src.point, src.exporter, way>>
      BY <3>1
    <3>2. CASE <<s, p, e, d>> # <<sid, src.point, src.exporter, way>>
      BY <3>2
    <3> QED BY <3>1, <3>2
  <2> HIDE DEF more
  <2> QED BY <1>1, <2>2, <2>3
<1> QED BY <1>2, <1>3 DEF Unit

\* Who a record credits, read from its ends.
LEMMA EndsDecide ==
    ASSUME EndsAreTold, BlocksOfClients, NEW p \in Passages
    PROVE  /\ DirOf(p) = "up" => /\ Attach(index, p.rec.to, p.rec.tdst).sid = None
                                 /\ ~IsRoutable(p.rec.from)
           /\ DirOf(p) = "down" => Attach(index, p.rec.from, p.rec.tsrc).sid = None
           /\ DirOf(p) \in Dirs
<1>1. Customers \cap (Remotes \cup Publics) = {}
  BY AggregatorAssumption
<1>2. p.rec.from \in Addresses /\ p.rec.to \in Addresses /\ DirOf(p) \in Dirs
  BY NetFlowAssumption DEF DirOf
<1>3. /\ p.rec.tsrc \notin Customers /\ p.rec.tdst \notin Customers
      /\ DirOf(p) = "up" => p.rec.from \in Customers /\ p.rec.to \in Remotes
      /\ DirOf(p) = "down" => p.rec.from \in Remotes
  BY DEF EndsAreTold, IsUpload, DirOf
<1>4. \A x \in Addresses : index[x] # None => x \in Customers
  BY DEF BlocksOfClients, OfClients
<1>5. ASSUME NEW x, x \in Addresses, NEW t, t \notin Customers, x \notin Customers
      PROVE  Attach(index, x, t).sid = None
  BY <1>4, <1>5 DEF Attach
<1> QED BY <1>1, <1>2, <1>3, <1>5 DEF IsRoutable

\* A record counts once, for its exporter and its way.
LEMMA AddedCounts ==
    ASSUME EndsAreTold, BlocksOfClients, NEW p \in Passages, NEW a, Credited(a), NEW src,
           NEW b, b = Added(a, index, p.rec, src), NEW s, NEW pt, NEW e, NEW d
    PROVE  Tally(b, s, pt, e, d)
             <= Tally(a, s, pt, e, d) + (IF e = src.exporter /\ d = DirOf(p) THEN 1 ELSE 0)
<1> DEFINE more == IF e = src.exporter /\ d = DirOf(p) THEN 1 ELSE 0
           V(x) == Volume(x, s, pt, e, d)
<1>1. PICK source : source = Attach(index, p.rec.from, p.rec.tsrc)
  OBVIOUS
<1>2. PICK target : target = Attach(index, p.rec.to, p.rec.tdst)
  OBVIOUS
<1>3. /\ DirOf(p) \in {"up", "down"}
      /\ DirOf(p) = "up" => target.sid = None /\ ~IsRoutable(p.rec.from)
      /\ DirOf(p) = "down" => source.sid = None
  BY <1>1, <1>2, EndsDecide DEF Dirs
<1>4. Shape(a) /\ Len(a.waiting) \in Nat /\ V(a) \in Nat
  BY VolumeIsNat DEF Credited
<1>5. Cardinality(Queued(a, e, d, Len(a.waiting))) \in Nat
  BY <1>4, QueuedNext
<1>6. ASSUME b.waiting = a.waiting, V(b) <= V(a) + more, V(b) \in Nat
      PROVE  Tally(b, s, pt, e, d) <= Tally(a, s, pt, e, d) + more
  <2>1. Queued(b, e, d, Len(b.waiting)) = Queued(a, e, d, Len(a.waiting))
    BY <1>6 DEF Queued
  <2> QED BY <1>4, <1>5, <1>6, <2>1 DEF Tally
<1>7. ASSUME NEW x, NEW y, Shape(x), Still(x, y) PROVE V(y) = V(x) /\ Shape(y) /\ y.waiting = x.waiting
  BY <1>7, StillVolume DEF Still
<1>8. ASSUME NEW x, NEW y, Shape(x), Unit(x, y, src, DirOf(p))
      PROVE  V(y) <= V(x) + more /\ Shape(y) /\ y.waiting = x.waiting
  BY <1>8, UnitVolume DEF Unit
<1>9. ASSUME source.sid = None, target.sid = None, IsRoutable(p.rec.from), Shape(b),
             b.credits = a.credits, b.waiting = Append(a.waiting, [rec |-> p.rec, src |-> src])
      PROVE  Tally(b, s, pt, e, d) <= Tally(a, s, pt, e, d) + more
  <2> DEFINE n == Len(a.waiting)
  <2>1. DirOf(p) = "down"
    BY <1>3, <1>9
  <2>2. Len(b.waiting) = n + 1 /\ b.waiting[n + 1] = [rec |-> p.rec, src |-> src]
        /\ \A i \in 1..n : b.waiting[i] = a.waiting[i]
    BY <1>9 DEF Credited
  <2>3. Queued(b, e, d, n) = Queued(a, e, d, n)
    BY <2>2 DEF Queued
  <2>4. b.waiting[n + 1].src.exporter = src.exporter
    BY <2>2
  <2>5. Cardinality(Queued(b, e, d, n + 1)) = Cardinality(Queued(a, e, d, n)) + more
    BY <1>4, <2>1, <2>3, <2>4, QueuedNext
  <2>6. V(b) = V(a)
    BY <1>9, StillVolume
  <2> QED BY <1>4, <1>5, <2>2, <2>5, <2>6 DEF Tally
<1>10. ASSUME source.sid = None, target.sid = None, IsRoutable(p.rec.from), Unit(a, b, src, "down")
       PROVE  Tally(b, s, pt, e, d) <= Tally(a, s, pt, e, d) + more
  <2>1. DirOf(p) = "down"
    BY <1>3, <1>10
  <2>2. V(b) <= V(a) + more /\ Shape(b) /\ b.waiting = a.waiting
    BY <1>4, <1>8, <1>10, <2>1
  <2> QED BY <1>6, <2>2, VolumeIsNat
<1>11. ASSUME NEW c, IF target.sid = None THEN Still(a, c) ELSE Unit(a, c, src, "down"),
              IF source.sid = None THEN Still(c, b) ELSE Unit(c, b, src, "up")
       PROVE  Tally(b, s, pt, e, d) <= Tally(a, s, pt, e, d) + more
  <2>1. Shape(c)
    BY <1>11 DEF Still, Unit
  <2>2. V(b) <= V(a) + more /\ Shape(b) /\ b.waiting = a.waiting
    <3>1. CASE DirOf(p) = "up"
      <4>1. V(c) = V(a) /\ c.waiting = a.waiting
        BY <1>3, <1>4, <1>7, <1>11, <3>1
      <4>2. Still(c, b) \/ Unit(c, b, src, DirOf(p))
        BY <1>11, <3>1
      <4>3. V(c) <= V(c) + more
        BY <1>4, <4>1
      <4> HIDE DEF V, more
      <4> QED BY <1>7, <1>8, <2>1, <4>1, <4>2, <4>3
    <3>2. CASE DirOf(p) = "down"
      <4>1. V(b) = V(c) /\ Shape(b) /\ b.waiting = c.waiting
        BY <1>3, <1>7, <1>11, <2>1, <3>2
      <4>2. Still(a, c) \/ Unit(a, c, src, DirOf(p))
        BY <1>11, <3>2
      <4>3. V(a) <= V(a) + more
        BY <1>4
      <4> HIDE DEF V, more
      <4> QED BY <1>4, <1>7, <1>8, <4>1, <4>2, <4>3
    <3> QED BY <1>3, <3>1, <3>2
  <2> QED BY <1>6, <2>2, VolumeIsNat
<1> HIDE DEF more
<1> QED BY <1>1, <1>2, <1>4, <1>9, <1>10, <1>11, AddedGrows DEF more
\* Closing the window credits the waiting returns, and nothing else.
LEMMA ReplaysCount ==
    ASSUME NEW a, Credited(a), NEW s, NEW pt, NEW e, NEW d
    PROVE  \A n \in 0..Len(a.waiting) :
              Volume(Replays(a)[n], s, pt, e, d)
                <= Volume(a, s, pt, e, d) + Cardinality(Queued(a, e, d, n))
<1> DEFINE N == Len(a.waiting)
           V(n) == Volume(Replays(a)[n], s, pt, e, d)
           Q(n) == Cardinality(Queued(a, e, d, n))
           wrong == {n \in 0..N : ~(V(n) <= Volume(a, s, pt, e, d) + Q(n))}
<1>1. N \in Nat /\ \A n \in 0..N : Shape(Replays(a)[n])
  BY ReplaysCredited DEF Credited
<1>2. /\ Replays(a)[0] = a
      /\ \A n \in 1..N : Replays(a)[n] = ReplayedOnce(Replays(a)[n - 1], a.waiting[n])
  BY <1>1, ReplaysSteps
<1>3. Volume(a, s, pt, e, d) \in Nat /\ \A n \in 0..N : V(n) \in Nat
  BY <1>1, VolumeIsNat DEF Credited
<1>4. \A n \in Nat : Q(n) \in Nat
  BY QueuedNext
<1>5. ASSUME NEW n \in 1..N, V(n - 1) <= Volume(a, s, pt, e, d) + Q(n - 1)
      PROVE  V(n) <= Volume(a, s, pt, e, d) + Q(n)
  <2> DEFINE w == a.waiting[n]
             more == IF e = w.src.exporter /\ d = "down" THEN 1 ELSE 0
  <2>1. PICK b : b = Replays(a)[n - 1]
    OBVIOUS
  <2>2. PICK c : c = ReplayedOnce(b, w)
    OBVIOUS
  <2>3. n - 1 \in 0..N /\ n - 1 \in Nat /\ n \in 0..N /\ (n - 1) + 1 = n
    BY <1>1
  <2>4. Shape(b) /\ Replays(a)[n] = c
    BY <1>1, <1>2, <2>1, <2>2, <2>3
  <2>5. Q(n) = Q(n - 1) + more
    <3>1. PICK m \in Nat : m = n - 1 /\ m + 1 = n
      BY <2>3
    <3>2. Cardinality(Queued(a, e, d, m + 1))
            = Cardinality(Queued(a, e, d, m))
              + (IF d = "down" /\ a.waiting[m + 1].src.exporter = e THEN 1 ELSE 0)
      BY QueuedNext
    <3> QED BY <3>1, <3>2
  <2>6. Volume(c, s, pt, e, d) <= Volume(b, s, pt, e, d) + more
    <3>1. CASE c = b
      BY <2>4, <3>1, VolumeIsNat
    <3>2. CASE c = Replayed(b, w.rec, w.src)
      <4>1. Unit(b, c, w.src, "down")
        BY <2>4, <3>2, ReplayedIsUnit
      <4> QED BY <2>4, <4>1, UnitVolume
    <3> QED BY <2>2, <3>1, <3>2 DEF ReplayedOnce
  <2>7. V(n - 1) = Volume(b, s, pt, e, d) /\ V(n) = Volume(c, s, pt, e, d)
    BY <2>1, <2>4
  <2>8. Q(n - 1) \in Nat /\ V(n - 1) \in Nat /\ V(n) \in Nat
    BY <1>3, <1>4, <2>3
  <2> HIDE DEF V, Q
  <2> QED BY <1>3, <1>5, <2>5, <2>6, <2>7, <2>8
<1>6. wrong = {}
  <2> SUFFICES ASSUME wrong # {} PROVE FALSE
    OBVIOUS
  <2>1. wrong \subseteq Nat
    OBVIOUS
  <2> HIDE DEF wrong
  <2>2. PICK n \in wrong : \A m \in wrong : n <= m
    BY <2>1, LeastNatural
  <2> USE DEF wrong
  <2>3. n # 0
    <3>1. V(0) = Volume(a, s, pt, e, d) /\ Q(0) \in Nat
      BY <1>2, <1>4
    <3> HIDE DEF V, Q
    <3> QED BY <1>3, <2>2, <3>1
  <2>4. n \in 1..N /\ n - 1 \in 0..N /\ n - 1 \notin wrong
    BY <1>1, <2>2, <2>3
  <2> HIDE DEF V, Q
  <2> QED BY <1>5, <2>2, <2>4
<1> QED BY <1>6

LEMMA EmptiedCounts ==
    ASSUME NEW a, Credited(a), NEW s, NEW pt, NEW e, NEW d
    PROVE  Volume(WaitingEmptied(a), s, pt, e, d) <= Tally(a, s, pt, e, d)
<1>1. PICK b : b = Replays(a)[Len(a.waiting)]
  OBVIOUS
<1>2. Len(a.waiting) \in 0..Len(a.waiting)
  BY DEF Credited
<1>3. Credited(b)
  BY <1>1, <1>2, ReplaysCredited
<1>4. Volume(b, s, pt, e, d) <= Tally(a, s, pt, e, d)
  BY <1>1, <1>2, ReplaysCount DEF Tally
<1> DEFINE exact == Older(b.exact, NatTtl)
           large == Older(b.large, NatTtl)
           publics == Older(b.publics, NatTtl)
           c == [b EXCEPT !.waiting = <<>>, !.exact = exact, !.large = large, !.publics = publics]
<1>5. WaitingEmptied(a) = c
  BY <1>1 DEF WaitingEmptied
<1> HIDE DEF exact, large, publics
<1>6. c.credits = b.credits
  BY <1>3 DEF Credited, Shape
<1> HIDE DEF c
<1>7. Volume(c, s, pt, e, d) = Volume(b, s, pt, e, d)
  BY <1>6, StillVolume
<1> QED BY <1>4, <1>5, <1>7

LEMMA EmptiedWaits ==
    ASSUME NEW a, Credited(a)
    PROVE  WaitingEmptied(a).waiting = <<>>
<1>1. PICK b : b = Replays(a)[Len(a.waiting)]
  OBVIOUS
<1>2. Len(a.waiting) \in 0..Len(a.waiting)
  BY DEF Credited
<1>3. Credited(b)
  BY <1>1, <1>2, ReplaysCredited
<1> DEFINE exact == Older(b.exact, NatTtl)
           large == Older(b.large, NatTtl)
           publics == Older(b.publics, NatTtl)
           c == [b EXCEPT !.waiting = <<>>, !.exact = exact, !.large = large, !.publics = publics]
<1>4. WaitingEmptied(a) = c
  BY <1>1 DEF WaitingEmptied
<1> HIDE DEF exact, large, publics
<1>5. c.waiting = <<>>
  BY <1>3 DEF Credited, Shape
<1> QED BY <1>4, <1>5

\* A window that starts: nothing is credited, and nothing waits.
LEMMA FreshCounts ==
    ASSUME NEW a, Credited(a), a.credits = EmptyBag, a.waiting = <<>>, NEW s, NEW pt, NEW e, NEW d
    PROVE  Tally(a, s, pt, e, d) = 0 /\ Volume(a, s, pt, e, d) = 0
<1> DEFINE f == [x \in Apps |-> Copies(<<s, pt, e, x, d>>, a.credits)]
<1>1. DOMAIN EmptyBag = {}
  BY DEF EmptyBag, SetToBag
<1>2. \A k \in DOMAIN f : f[k] = 0
  BY <1>1 DEF Copies, BagIn, BagToSet
<1> HIDE DEF f
<1>3. Volume(a, s, pt, e, d) = 0
  BY <1>2, TotalOfZeros DEF Volume, f
<1>4. Queued(a, e, d, Len(a.waiting)) = {}
  BY DEF Queued
<1>5. Cardinality(Queued(a, e, d, Len(a.waiting))) = 0
  BY <1>4, FS_EmptySet
<1> QED BY <1>3, <1>5 DEF Tally

\* The most of a set of bounded naturals is within the bound.
LEMMA MaxBounded ==
    ASSUME NEW S \in SUBSET Nat, S # {}, NEW n \in Nat, \A x \in S : x <= n
    PROVE  Max(S) <= n
<1> DEFINE bounds == {u \in Nat : \A x \in S : x <= u}
<1>1. bounds # {} /\ bounds \subseteq Nat
  OBVIOUS
<1> HIDE DEF bounds
<1>2. PICK m \in bounds : \A u \in bounds : m <= u
  BY <1>1, LeastNatural
<1> USE DEF bounds
<1>3. m \in S
  <2> SUFFICES ASSUME m \notin S PROVE FALSE
    OBVIOUS
  <2>1. \A x \in S : x < m
    BY <1>2
  <2>2. m # 0
    <3>1. PICK x \in S : x \in Nat /\ x < m
      BY <2>1
    <3> QED BY <3>1
  <2>3. m - 1 \in bounds
    BY <1>2, <2>1, <2>2
  <2> QED BY <1>2, <2>3
<1>4. m \in S /\ \A y \in S : m >= y
  BY <1>2, <1>3
<1> HIDE DEF bounds
<1>5. PICK t : t = CHOOSE x \in S : \A y \in S : x >= y
  OBVIOUS
<1>6. t \in S
  BY <1>4, <1>5
<1> QED BY <1>5, <1>6 DEF Max

\* A window that was closed bills within the bound of its credits.
LEMMA BatchBills ==
    ASSUME NEW a, Credited(a), NEW v, NEW b, b = BatchOf(a, v), NEW sid, NEW dir, NEW n \in Nat,
           \A pt, e : Volume(a, sid, pt, e, dir) <= n
    PROVE  Billed(b, sid, dir) <= n
<1> DEFINE sids == {k[1] : k \in BagToSet(a.credits)}
           keys == UNION {{<<s, p, d>> : p \in PointsOf(a, s), d \in Dirs} : s \in sids}
           rows == [k \in keys |-> Row(a, k[1], k[2], k[3])]
           here == {j \in DOMAIN b.rows : j[1] = sid /\ j[3] = dir}
           counted == {0} \cup {b.rows[k] : k \in here}
<1>1. b.rows = rows
  BY DEF BatchOf
<1>2. \A k \in here : b.rows[k] = Row(a, sid, k[2], dir)
  BY <1>1
<1>3. \A pt : Row(a, sid, pt, dir) \in Nat /\ Row(a, sid, pt, dir) <= n
  BY RowIsNat DEF Row, Credited
<1> HIDE DEF here
<1>4. counted \in SUBSET Nat /\ \A x \in counted : x <= n
  BY <1>2, <1>3
<1>5. 0 \in counted
  OBVIOUS
<1> HIDE DEF counted
<1>6. Max(counted) <= n
  BY <1>4, <1>5, MaxBounded
<1> QED BY <1>6 DEF Billed, counted, here
-----------------------------------------------------------------------------
\* What was heard was not heard before, of its exporter; the flow of each packet
\* that was heard still has its interface.
SamePassing(u, v) ==
    u.passage.exporter = v.passage.exporter /\ u.passage.packet = v.passage.packet
HeardInv ==
    /\ IsFiniteSet(heard) /\ \A u \in heard : u.passage \in Passages \ left
    /\ \A u \in heard : \E x \in entry : /\ x.exporter = u.passage.exporter
                                         /\ x.flow = FlowKey(u.passage.rec)
                                         /\ x.input = u.passage.rec.input
    /\ \A u, v \in heard : SamePassing(u, v) => u = v
Within(a, hs) ==
    \A s, p, e : \A d \in Dirs : Tally(a, s, p, e, d) <= Cardinality(HeardBy(hs, e, d))
CountInv == Within(agg, heard)
BilledInv ==
    /\ \A d \in Dirs : Cardinality(PacketsOf(batch.heard, d)) \in Nat
    /\ \E a, v : /\ Credited(a) /\ batch.batch = BatchOf(a, v)
                 /\ \A s, p, e : \A d \in Dirs :
                       Volume(a, s, p, e, d) <= Cardinality(PacketsOf(batch.heard, d))

\* The second passage of a packet at one exporter comes by another interface: it
\* is dropped.
LEMMA HearsOnce ==
    ASSUME OncePerInterface, OwnLayout, HeardInv, NEW p \in Passages, Hears(p)
    PROVE  HeardInv'
<1> DEFINE me == Counted(p, Info(p.exporter).vantage)
           mine == [exporter |-> p.exporter, flow |-> FlowKey(p.rec), input |-> p.rec.input, age |-> 0]
<1>1. p \in left /\ left' = left \ {p}
  BY HearsCounted
<1>2. CASE entry' = entry /\ heard' = heard
  BY <1>1, <1>2 DEF HeardInv
<1>3. ASSUME ~Duplicate(p.exporter, p.rec), entry' = Entered(p.exporter, p.rec),
             heard' = heard \cup {me}
      PROVE  HeardInv'
  <2>1. me.passage = p
    BY DEF Counted
  <2>2. /\ mine \in entry' /\ mine.exporter = p.exporter /\ mine.flow = FlowKey(p.rec)
        /\ mine.input = p.rec.input
        /\ \A x \in entry : x.exporter # p.exporter \/ x.flow # FlowKey(p.rec) => x \in entry'
    BY <1>3 DEF Entered
  <2>3. \A x \in entry : x.exporter = p.exporter /\ x.flow = FlowKey(p.rec) => x.input = p.rec.input
    BY <1>3 DEF Duplicate
  <2> HIDE DEF me, mine
  <2>4. IsFiniteSet(heard')
    BY <1>3, FS_AddElement DEF HeardInv
  <2>5. \A u \in heard' : u.passage \in Passages \ left'
    BY <1>1, <1>3, <2>1 DEF HeardInv
  <2>6. ASSUME NEW u \in heard'
        PROVE  \E x \in entry' : /\ x.exporter = u.passage.exporter
                                 /\ x.flow = FlowKey(u.passage.rec)
                                 /\ x.input = u.passage.rec.input
    <3>1. CASE u = me
      BY <2>1, <2>2, <3>1
    <3>2. CASE u \in heard
      <4>1. PICK x \in entry : /\ x.exporter = u.passage.exporter
                               /\ x.flow = FlowKey(u.passage.rec)
                               /\ x.input = u.passage.rec.input
        BY <3>2 DEF HeardInv
      <4>2. CASE x.exporter = p.exporter /\ x.flow = FlowKey(p.rec)
        BY <2>2, <2>3, <4>1, <4>2
      <4> QED BY <2>2, <4>1, <4>2
    <3> QED BY <1>3, <3>1, <3>2
  <2>7. ASSUME NEW u \in heard, u.passage.exporter = p.exporter, u.passage.packet = p.packet
        PROVE  FALSE
    <3>1. u.passage \in Passages /\ u.passage # p
      BY <1>1 DEF HeardInv
    <3>2. FlowKey(u.passage.rec) = FlowKey(p.rec) /\ u.passage.rec.input # p.rec.input
      BY <2>7, <3>1 DEF OncePerInterface
    <3>3. PICK x \in entry : /\ x.exporter = u.passage.exporter
                             /\ x.flow = FlowKey(u.passage.rec)
                             /\ x.input = u.passage.rec.input
      BY DEF HeardInv
    <3> QED BY <2>3, <2>7, <3>2, <3>3
  <2>8. \A u, v \in heard' : SamePassing(u, v) => u = v
    <3>1. ASSUME NEW u \in heard', NEW v \in heard', SamePassing(u, v)
          PROVE  u = v
      <4>1. CASE u \in heard /\ v \in heard
        BY <3>1, <4>1 DEF HeardInv
      <4>2. CASE u \in heard /\ v = me
        BY <2>1, <2>7, <3>1, <4>2 DEF SamePassing
      <4>3. CASE u = me /\ v \in heard
        BY <2>1, <2>7, <3>1, <4>3 DEF SamePassing
      <4> QED BY <1>3, <4>1, <4>2, <4>3
    <3> QED BY <3>1
  <2> QED BY <2>4, <2>5, <2>6, <2>8 DEF HeardInv, FlowKey
<1> HIDE DEF mine
<1> QED BY <1>2, <1>3, HearsCounted DEF Counts

LEMMA HearsCounts ==
    ASSUME EndsAreTold, BlocksOfClients, OwnLayout, Credited(agg), HeardInv, CountInv,
           NEW p \in Passages, Hears(p)
    PROVE  CountInv'
<1> DEFINE src == SourceFor(p)
           me == Counted(p, Info(p.exporter).vantage)
<1>1. CASE agg' = agg /\ heard' = heard
  BY <1>1 DEF CountInv
<1>2. ASSUME agg' = Added(agg, index, p.rec, src), heard' = heard \cup {me}
      PROVE  CountInv'
  <2>1. PICK b : b = agg'
    OBVIOUS
  <2>2. src.exporter = p.exporter /\ me.passage = p
    BY DEF SourceFor, Counted
  <2> HIDE DEF src, me
  <2>3. me \notin heard
    <3>1. p \in left
      BY HearsCounted
    <3> QED BY <2>2, <3>1 DEF HeardInv
  <2>4. ASSUME NEW s, NEW pt, NEW e, NEW d \in Dirs
        PROVE  Tally(b, s, pt, e, d) <= Cardinality(HeardBy(heard', e, d))
    <3> DEFINE more == IF e = p.exporter /\ d = DirOf(p) THEN 1 ELSE 0
               after == HeardBy(heard', e, d)
    <3>1. Tally(b, s, pt, e, d) <= Tally(agg, s, pt, e, d) + more
      BY <1>2, <2>1, <2>2, AddedCounts
    <3>2. HeardBy(heard, e, d) \in SUBSET heard
      BY DEF HeardBy
    <3>3. IsFiniteSet(HeardBy(heard, e, d)) /\ Cardinality(HeardBy(heard, e, d)) \in Nat
      BY <3>2, FS_Subset, FS_CardinalityType DEF HeardInv
    <3>4. Cardinality(after) = Cardinality(HeardBy(heard, e, d)) + more
      <4>1. CASE e = p.exporter /\ d = DirOf(p)
        <5>1. after = HeardBy(heard, e, d) \cup {me} /\ me \notin HeardBy(heard, e, d)
          BY <1>2, <2>2, <2>3, <4>1 DEF HeardBy
        <5>2. more = 1
          BY <4>1
        <5> HIDE DEF after, more
        <5> QED BY <3>3, <5>1, <5>2, FS_AddElement
      <4>2. CASE ~(e = p.exporter /\ d = DirOf(p))
        <5>1. after = HeardBy(heard, e, d)
          BY <1>2, <2>2, <4>2 DEF HeardBy
        <5>2. more = 0
          BY <4>2
        <5> HIDE DEF after, more
        <5> QED BY <3>3, <5>1, <5>2
      <4> QED BY <4>1, <4>2
    <3>5. Tally(agg, s, pt, e, d) <= Cardinality(HeardBy(heard, e, d))
      BY DEF CountInv, Within
    <3>6. /\ Tally(agg, s, pt, e, d) \in Nat /\ Tally(b, s, pt, e, d) \in Nat
      <4>1. Len(agg.waiting) \in Nat /\ Shape(agg)
        BY DEF Credited
      <4>2. Tally(agg, s, pt, e, d) \in Nat
        BY <4>1, QueuedNext, VolumeIsNat DEF Tally
      <4>3. Shape(b) /\ Len(b.waiting) \in Nat
        <5>1. PICK source : source = Attach(index, p.rec.from, p.rec.tsrc)
          OBVIOUS
        <5>2. PICK target : target = Attach(index, p.rec.to, p.rec.tdst)
          OBVIOUS
        <5>3. Shape(b) /\ (b.waiting = agg.waiting
                           \/ b.waiting = Append(agg.waiting, [rec |-> p.rec, src |-> src]))
          BY <1>2, <2>1, <4>1, <5>1, <5>2, AddedGrows DEF Still, Unit
        <5> QED BY <4>1, <5>3 DEF Credited
      <4>4. Tally(b, s, pt, e, d) \in Nat
        BY <4>3, QueuedNext, VolumeIsNat DEF Tally
      <4> QED BY <4>2, <4>4
    <3> HIDE DEF after, more
    <3>7. more \in Nat
      BY DEF more
    <3>8. Tally(b, s, pt, e, d) <= Cardinality(after)
      BY <3>1, <3>3, <3>4, <3>5, <3>6, <3>7
    <3> QED BY <3>8 DEF after
  <2>5. Within(b, heard')
    BY <2>4 DEF Within
  <2> QED BY <2>1, <2>5 DEF CountInv
<1> QED BY <1>1, <1>2, HearsCounted DEF Counts
\* The packets of an exporter are as many as the passages it was heard of.
LEMMA HeardPackets ==
    ASSUME HeardInv, NEW e, NEW d
    PROVE  /\ Cardinality(HeardBy(heard, e, d)) <= Cardinality(PacketsOf(heard, d))
           /\ Cardinality(HeardBy(heard, e, d)) \in Nat /\ Cardinality(PacketsOf(heard, d)) \in Nat
<1> DEFINE H == HeardBy(heard, e, d)
           P == PacketsOf(heard, d)
           packet == [h \in H |-> h.passage.packet]
           all == {h.passage.packet : h \in heard}
           name == [h \in heard |-> h.passage.packet]
<1>1. name \in Surjection(heard, all)
  BY DEF Surjection
<1>2. IsFiniteSet(all)
  BY <1>1, FS_Surjection DEF HeardInv
<1>3. P \in SUBSET all /\ H \in SUBSET heard
  BY DEF PacketsOf, HeardBy
<1>4. IsFiniteSet(P) /\ IsFiniteSet(H)
  BY <1>2, <1>3, FS_Subset DEF HeardInv
<1>5. packet \in Injection(H, P)
  <2>1. \A h \in H : packet[h] \in P
    BY DEF HeardBy, PacketsOf, DirOf
  <2>2. \A g, h \in H : packet[g] = packet[h] => g = h
    BY DEF HeardBy, HeardInv, SamePassing
  <2> HIDE DEF H, P
  <2> QED BY <2>1, <2>2 DEF Injection, IsInjective
<1> HIDE DEF H, P, packet
<1>6. Cardinality(H) <= Cardinality(P)
  BY <1>4, <1>5, FS_Injection
<1> QED BY <1>4, <1>6, FS_CardinalityType DEF H, P

\* The window that closes is billed within the packets heard in it.
LEMMA ClosedIsBilled ==
    ASSUME Credited(agg), HeardInv, CountInv, batch' = Closed(WaitingEmptied(agg))
    PROVE  BilledInv'
<1>1. PICK a : a = WaitingEmptied(agg)
  OBVIOUS
<1>2. Credited(a)
  BY <1>1, EmptiedCredited
<1>3. PICK hs : hs = heard
  OBVIOUS
<1>4. batch'.batch = BatchOf(a, EffectiveVantage) /\ batch'.heard = hs
  BY <1>1, <1>3 DEF Closed
<1>5. ASSUME NEW s, NEW p, NEW e, NEW d \in Dirs
      PROVE  Volume(a, s, p, e, d) <= Cardinality(PacketsOf(hs, d))
  <2>1. Volume(a, s, p, e, d) <= Tally(agg, s, p, e, d)
    BY <1>1, EmptiedCounts
  <2>2. Tally(agg, s, p, e, d) <= Cardinality(HeardBy(hs, e, d))
    BY <1>3 DEF CountInv, Within
  <2>3. /\ Cardinality(HeardBy(hs, e, d)) <= Cardinality(PacketsOf(hs, d))
        /\ Cardinality(HeardBy(hs, e, d)) \in Nat /\ Cardinality(PacketsOf(hs, d)) \in Nat
    BY <1>3, HeardPackets
  <2>4. Volume(a, s, p, e, d) \in Nat
    BY <1>2, VolumeIsNat DEF Credited
  <2>5. Tally(agg, s, p, e, d) \in Nat
    <3>1. Len(agg.waiting) \in Nat /\ Shape(agg)
      BY DEF Credited
    <3> QED BY <3>1, QueuedNext, VolumeIsNat DEF Tally
  <2> QED BY <2>1, <2>2, <2>3, <2>4, <2>5
<1>6. \A d : Cardinality(PacketsOf(hs, d)) \in Nat
  BY <1>3, HeardPackets
<1>7. \A d : PacketsOf(batch.heard, d)' = PacketsOf(hs, d)
  BY <1>4 DEF PacketsOf
<1> QED BY <1>2, <1>4, <1>5, <1>6, <1>7 DEF BilledInv

\* A window that starts.
LEMMA WindowStarts ==
    ASSUME NEW a, Credited(a), a.credits = EmptyBag, a.waiting = <<>>
    PROVE  Within(a, {})
<1>1. \A e, d : HeardBy({}, e, d) = {}
  BY DEF HeardBy
<1>2. \A s, p, e, d : Tally(a, s, p, e, d) = 0
  BY FreshCounts
<1>3. \A e, d : Cardinality(HeardBy({}, e, d)) = 0
  BY <1>1, FS_EmptySet
<1> QED BY <1>2, <1>3 DEF Within

CountedInv == HeardInv /\ CountInv /\ BilledInv

LEMMA NoneHeard == heard = {} => HeardInv
  BY FS_EmptySet DEF HeardInv

LEMMA InitCounted == Init => CountedInv
<1> SUFFICES ASSUME Init PROVE CountedInv
  OBVIOUS
<1>1. PICK a : a = EmptyAggregate
  OBVIOUS
<1>2. Credited(a) /\ a.credits = EmptyBag /\ a.waiting = <<>>
  BY <1>1, EmptyCredited DEF EmptyAggregate
<1>3. heard = {} /\ agg = a /\ batch.batch = BatchOf(a, "auto") /\ batch.heard = {}
  BY <1>1 DEF Init, EmptyBatch
<1>4. HeardInv /\ CountInv
  BY <1>2, <1>3, NoneHeard, WindowStarts DEF CountInv
<1>5. \A d : PacketsOf(batch.heard, d) = {}
  BY <1>3 DEF PacketsOf
<1>6. \A d : Cardinality(PacketsOf(batch.heard, d)) = 0
  BY <1>5, FS_EmptySet
<1>7. \A s, p, e, d : Volume(a, s, p, e, d) = 0
  BY <1>2, FreshCounts
<1>8. BilledInv
  BY <1>2, <1>3, <1>6, <1>7 DEF BilledInv
<1> QED BY <1>4, <1>8 DEF CountedInv

LEMMA NextCounted ==
    ASSUME EndsAreTold, OncePerInterface, BlocksOfClients, WindowInv, CountedInv, [Next]_vars
    PROVE  CountedInv'
<1> USE DEF CountedInv
<1>1. ASSUME agg' = agg, heard' = heard, entry' = entry, left' = left, batch' = batch
      PROVE  CountedInv'
  BY <1>1 DEF HeardInv, CountInv, BilledInv
<1>2. ASSUME NEW e \in Exporters,
             \/ DeclaresByHand(e) \/ UpdatesByHand(e) \/ DeletesByHand(e)
             \/ ExportDeclares(e) \/ RoleChanges(e) \/ HearsTemplate(e)
      PROVE  CountedInv'
  BY <1>1, <1>2 DEF DeclaresByHand, UpdatesByHand, DeletesByHand, Edits, ExportDeclares, RoleChanges,
                    HearsTemplate, reception
<1>3. CASE (\E a \in Addresses : AddressMoves(a)) \/ DatabaseComesOrGoes \/ UNCHANGED vars
  BY <1>1, <1>3 DEF AddressMoves, DatabaseComesOrGoes, vars, reception
<1>4. ASSUME NEW t \in Tasks, Works(t), ~Flushes PROVE CountedInv'
  BY <1>1, <1>4 DEF Works, Lists, Declares, ReadsExporters, AssignsExporters, RecordsActivity,
                    ReadsBlocks, InstallsIndex, reception
<1>5. ASSUME NEW p \in Passages, Hears(p) PROVE CountedInv'
  <2>1. HeardInv' /\ CountInv'
    BY <1>5, HearsOnce, HearsCounts DEF WindowInv
  <2>2. batch' = batch
    BY <1>5 DEF Hears
  <2>3. BilledInv'
    BY <2>2 DEF BilledInv
  <2> QED BY <2>1, <2>3
<1>6. ASSUME heard' = {}, NEW b, agg' = b, Credited(b), b.credits = EmptyBag, b.waiting = <<>>
      PROVE  HeardInv' /\ CountInv'
  <2>1. HeardInv'
    BY <1>6, FS_EmptySet DEF HeardInv
  <2>2. Within(b, {})
    BY <1>6, WindowStarts
  <2> QED BY <1>6, <2>1, <2>2 DEF CountInv
<1>7. CASE Flushes
  <2>1. PICK a : a = WaitingEmptied(agg)
    OBVIOUS
  <2>2. agg' = Flushed(a) /\ batch' = Closed(a) /\ heard' = {}
    BY <1>7, <2>1 DEF Flushes
  <2>3. PICK b : b = Flushed(a)
    OBVIOUS
  <2>4. Credited(b) /\ b.credits = EmptyBag /\ b.waiting = a.waiting
    <3>1. Credited(b)
      BY <2>1, <2>3, EmptiedCredited, EmptyCredited DEF WindowInv
    <3> QED BY <2>3, <3>1 DEF Flushed
  <2>5. a.waiting = <<>>
    BY <2>1, EmptiedWaits DEF WindowInv
  <2>6. BilledInv'
    BY <2>1, <2>2, ClosedIsBilled DEF WindowInv
  <2> QED BY <1>6, <2>2, <2>3, <2>4, <2>5, <2>6
<1>8. CASE Restarts
  <2>1. /\ agg' = EmptyAggregate /\ heard' = {}
        /\ batch' = batch \/ batch' = Closed(WaitingEmptied(agg))
    BY <1>8 DEF Restarts
  <2>2. PICK b : b = EmptyAggregate
    OBVIOUS
  <2>3. Credited(b) /\ b.credits = EmptyBag /\ b.waiting = <<>>
    BY <2>2, EmptyCredited DEF EmptyAggregate
  <2>4. BilledInv'
    <3>1. CASE batch' = batch
      BY <3>1 DEF BilledInv
    <3>2. CASE batch' = Closed(WaitingEmptied(agg))
      BY <3>2, ClosedIsBilled DEF WindowInv
    <3> QED BY <2>1, <3>1, <3>2
  <2> QED BY <1>6, <2>1, <2>2, <2>3, <2>4
<1> QED BY <1>2, <1>3, <1>4, <1>5, <1>7, <1>8 DEF Next

LEMMA BilledIsCounted == BilledInv => CountedOnce
<1> SUFFICES ASSUME BilledInv, NEW sid \in Sids, NEW dir \in Dirs
             PROVE  Billed(batch.batch, sid, dir)
                      <= Cardinality({k \in {h.passage.packet : h \in batch.heard} : ClientOf[k].dir = dir})
  BY DEF CountedOnce
<1>1. PICK n \in Nat : n = Cardinality(PacketsOf(batch.heard, dir))
  BY DEF BilledInv
<1>2. PICK a, v : /\ Credited(a) /\ batch.batch = BatchOf(a, v)
                  /\ \A pt, e : Volume(a, sid, pt, e, dir) <= n
  BY <1>1 DEF BilledInv
<1>3. Billed(batch.batch, sid, dir) <= n
  BY <1>2, BatchBills
<1> QED BY <1>1, <1>3 DEF PacketsOf

\* Whatever arrived, in whatever order, through however many routers and
\* interfaces, a window never bills a subscriber more than the packets that
\* passed in it, provided a router reports a packet once by each interface and
\* the direction of a packet is told by its ends.
THEOREM NoneCountedTwice ==
    ASSUME EndsAreTold, OncePerInterface
    PROVE  Spec => []CountedOnce
<1> DEFINE Inv == /\ DeclarationInv /\ moves \in Nat /\ PlacesInv /\ WindowInv /\ BlocksOfClients
                  /\ CountedInv
<1>1. Init => Inv
  BY InitRows, InitPlaces, InitPairs, InitCounted, NetFlowAssumption DEF Init, PairingInv
<1>2. Inv /\ [Next]_vars => Inv'
  <2> SUFFICES ASSUME Inv, [Next]_vars PROVE Inv'
    OBVIOUS
  <2>1. DeclarationInv' /\ moves' \in Nat
    BY NextRows
  <2>2. PlacesInv' /\ WindowInv'
    BY PlacesFollow, NextWindow
  <2>3. BlocksOfClients'
    BY BlocksFollow DEF DeclarationInv
  <2>4. CountedInv'
    BY NextCounted
  <2> QED BY <2>1, <2>2, <2>3, <2>4
<1>3. Inv => CountedOnce
  BY BilledIsCounted DEF CountedInv
<1> HIDE DEF Inv
<1> QED BY <1>1, <1>2, <1>3, PTL DEF Spec
-----------------------------------------------------------------------------
(* A window pays what it owes. A return whose upload is remembered is       *)
(* counted as it comes; one that waits keeps its place, and at the closing  *)
(* the correspondences, which no replay changes, name its subscriber.       *)
LEMMA UnitRaises ==
    ASSUME NEW a, Shape(a), NEW b, NEW src, NEW way, Unit(a, b, src, way),
           NEW s, NEW p, NEW e, NEW d
    PROVE  Volume(a, s, p, e, d) <= Volume(b, s, p, e, d)
<1>1. Volume(a, s, p, e, d) \in Nat
  BY VolumeIsNat
<1>2. CASE b.credits = a.credits
  <2>1. Volume(b, s, p, e, d) = Volume(a, s, p, e, d)
    BY <1>2, StillVolume
  <2> QED BY <1>1, <2>1
<1>3. ASSUME NEW sid, NEW r, b.credits = Credit(a, sid, src, r, way).credits
      PROVE  Volume(a, s, p, e, d) <= Volume(b, s, p, e, d)
  <2>1. Volume(b, s, p, e, d) = Volume(Credit(a, sid, src, r, way), s, p, e, d)
    BY <1>3, StillVolume
  <2>2. \/ Volume(b, s, p, e, d) = Volume(a, s, p, e, d) + 1
        \/ Volume(b, s, p, e, d) = Volume(a, s, p, e, d) + 0
    BY <2>1, CreditVolume
  <2> QED BY <1>1, <2>2
<1> QED BY <1>2, <1>3 DEF Unit

\* A record takes nothing away, and at most one return more waits.
LEMMA AddedRaises ==
    ASSUME NEW a, Shape(a), NEW map, NEW r, NEW src, NEW b, b = Added(a, map, r, src)
    PROVE  /\ \A s, p, e, d : Volume(a, s, p, e, d) <= Volume(b, s, p, e, d)
           /\ \/ b.waiting = a.waiting
              \/ b.waiting = Append(a.waiting, [rec |-> r, src |-> src])
<1>1. PICK source : source = Attach(map, r.from, r.tsrc)
  OBVIOUS
<1>2. PICK target : target = Attach(map, r.to, r.tdst)
  OBVIOUS
<1>3. ASSUME NEW x, Shape(x), NEW y, NEW dir, Still(x, y) \/ Unit(x, y, src, dir)
      PROVE  /\ Shape(y) /\ y.waiting = x.waiting
             /\ \A s, p, e, d : Volume(x, s, p, e, d) <= Volume(y, s, p, e, d)
  <2>1. CASE Still(x, y)
    <3>1. \A s, p, e, d : Volume(x, s, p, e, d) \in Nat /\ Volume(y, s, p, e, d) = Volume(x, s, p, e, d)
      BY <1>3, <2>1, VolumeIsNat, StillVolume DEF Still
    <3> QED BY <2>1, <3>1 DEF Still
  <2>2. CASE Unit(x, y, src, dir)
    BY <1>3, <2>2, UnitRaises DEF Unit
  <2> QED BY <1>3, <2>1, <2>2
<1>4. CASE /\ b.credits = a.credits /\ Shape(b)
           /\ b.waiting = Append(a.waiting, [rec |-> r, src |-> src])
  <2>1. \A s, p, e, d : Volume(a, s, p, e, d) \in Nat /\ Volume(b, s, p, e, d) = Volume(a, s, p, e, d)
    BY <1>4, VolumeIsNat, StillVolume
  <2> QED BY <1>4, <2>1
<1>5. CASE Unit(a, b, src, "down")
  BY <1>3, <1>5
<1>6. ASSUME NEW c, IF target.sid = None THEN Still(a, c) ELSE Unit(a, c, src, "down"),
             IF source.sid = None THEN Still(c, b) ELSE Unit(c, b, src, "up")
      PROVE  /\ b.waiting = a.waiting
             /\ \A s, p, e, d : Volume(a, s, p, e, d) <= Volume(b, s, p, e, d)
  <2>1. /\ Shape(c) /\ c.waiting = a.waiting
        /\ \A s, p, e, d : Volume(a, s, p, e, d) <= Volume(c, s, p, e, d)
    BY <1>3, <1>6
  <2>2. /\ Shape(b) /\ b.waiting = c.waiting
        /\ \A s, p, e, d : Volume(c, s, p, e, d) <= Volume(b, s, p, e, d)
    BY <1>3, <1>6, <2>1
  <2>3. \A s, p, e, d : /\ Volume(a, s, p, e, d) \in Nat /\ Volume(b, s, p, e, d) \in Nat
                        /\ Volume(c, s, p, e, d) \in Nat
    BY <2>1, <2>2, VolumeIsNat
  <2> QED BY <2>1, <2>2, <2>3
<1> QED BY <1>1, <1>2, <1>4, <1>5, <1>6, AddedGrows

\* One waiting return, at its turn.
LEMMA ReplayedInTurn ==
    ASSUME NEW b, Shape(b), NEW w, NEW c, c = ReplayedOnce(b, w), NEW sid, NEW pt, NEW e
    PROVE  /\ Shape(c) /\ c.exact = b.exact
           /\ Volume(b, sid, pt, e, "down") <= Volume(c, sid, pt, e, "down")
           /\ /\ Pairings(b, w.rec) # {} /\ \A x \in Pairings(b, w.rec) : x.sid = sid
              /\ w.src.point = pt /\ w.src.exporter = e
              => Volume(c, sid, pt, e, "down") = Volume(b, sid, pt, e, "down") + 1
<1>1. Volume(b, sid, pt, e, "down") \in Nat
  BY VolumeIsNat
<1>2. CASE Pairings(b, w.rec) = {}
  <2>1. c = b
    BY <1>2 DEF ReplayedOnce
  <2> QED BY <1>1, <1>2, <2>1
<1>3. CASE Pairings(b, w.rec) # {}
  <2>1. c = Replayed(b, w.rec, w.src)
    BY <1>3 DEF ReplayedOnce
  <2>2. PICK x \in Pairings(b, w.rec) : Paid(b, c, x.sid, w.src, w.rec, "down")
    BY <1>3, <2>1, ReplayedCredits
  <2>3. Shape(c) /\ c.exact = b.exact
    BY <2>2 DEF Paid
  <2>4. \/ Volume(c, sid, pt, e, "down") = Volume(b, sid, pt, e, "down") + 1
        \/ Volume(c, sid, pt, e, "down") = Volume(b, sid, pt, e, "down") + 0
    BY <2>2, PaidVolume
  <2>5. x.sid = sid /\ w.src.point = pt /\ w.src.exporter = e
        => Volume(c, sid, pt, e, "down") = Volume(b, sid, pt, e, "down") + 1
    BY <2>2, PaidVolume
  <2> QED BY <1>1, <2>3, <2>4, <2>5
<1> QED BY <1>2, <1>3

\* The returns of D, whose correspondences name sid: each is one unit more.
LEMMA ReplaysPay ==
    ASSUME NEW a, Credited(a), NEW sid, NEW pt, NEW e, NEW D \in SUBSET (1..Len(a.waiting)),
           \A i \in D : /\ a.waiting[i].src.point = pt /\ a.waiting[i].src.exporter = e
                        /\ \A b : b.exact = a.exact =>
                              /\ Pairings(b, a.waiting[i].rec) # {}
                              /\ \A x \in Pairings(b, a.waiting[i].rec) : x.sid = sid
    PROVE  \A n \in 0..Len(a.waiting) :
              /\ Replays(a)[n].exact = a.exact
              /\ Volume(a, sid, pt, e, "down") + Cardinality(D \cap (1..n))
                   <= Volume(Replays(a)[n], sid, pt, e, "down")
<1> DEFINE N == Len(a.waiting)
           V(n) == Volume(Replays(a)[n], sid, pt, e, "down")
           Q(n) == Cardinality(D \cap (1..n))
           Fine(n) == Replays(a)[n].exact = a.exact /\ Volume(a, sid, pt, e, "down") + Q(n) <= V(n)
           wrong == {n \in 0..N : ~Fine(n)}
<1>1. N \in Nat /\ \A n \in 0..N : Shape(Replays(a)[n])
  BY ReplaysCredited DEF Credited
<1>2. /\ Replays(a)[0] = a
      /\ \A n \in 1..N : Replays(a)[n] = ReplayedOnce(Replays(a)[n - 1], a.waiting[n])
  BY <1>1, ReplaysSteps
<1>3. Volume(a, sid, pt, e, "down") \in Nat /\ \A n \in 0..N : V(n) \in Nat
  BY <1>1, VolumeIsNat DEF Credited
<1>4. \A n \in Nat : IsFiniteSet(D \cap (1..n)) /\ Q(n) \in Nat
  <2> TAKE n \in Nat
  <2>0. n \in Int /\ 1 \in Int
    OBVIOUS
  <2>1. IsFiniteSet(1..n)
    BY <2>0, FS_Interval
  <2>2. D \cap (1..n) \in SUBSET (1..n)
    OBVIOUS
  <2> QED BY <2>1, <2>2, FS_Subset, FS_CardinalityType
<1>5. ASSUME NEW n \in 1..N, Fine(n - 1) PROVE Fine(n)
  <2>1. PICK m \in Nat : m = n - 1 /\ m + 1 = n /\ m \in 0..N
    BY <1>1
  <2>2. PICK b : b = Replays(a)[m]
    OBVIOUS
  <2>3. PICK c : c = ReplayedOnce(b, a.waiting[n])
    OBVIOUS
  <2>4. Shape(b) /\ b.exact = a.exact /\ Replays(a)[n] = c /\ n \in 0..N
    BY <1>1, <1>2, <1>5, <2>1, <2>2, <2>3
  <2>5. /\ c.exact = a.exact
        /\ Volume(b, sid, pt, e, "down") <= Volume(c, sid, pt, e, "down")
        /\ n \in D => Volume(c, sid, pt, e, "down") = Volume(b, sid, pt, e, "down") + 1
    <3>1. PICK w : w = a.waiting[n]
      OBVIOUS
    <3>2. c = ReplayedOnce(b, w)
      BY <2>3, <3>1
    <3>3. n \in D => /\ Pairings(b, w.rec) # {} /\ \A x \in Pairings(b, w.rec) : x.sid = sid
                     /\ w.src.point = pt /\ w.src.exporter = e
      BY <2>4, <3>1
    <3> QED BY <2>4, <3>2, <3>3, ReplayedInTurn
  <2>6. Q(n) = Q(m) + (IF n \in D THEN 1 ELSE 0)
    <3>1. CASE n \in D
      <4>1. D \cap (1..n) = (D \cap (1..m)) \cup {n} /\ n \notin D \cap (1..m)
        BY <2>1, <3>1
      <4> QED BY <1>4, <3>1, <4>1, FS_AddElement
    <3>2. CASE n \notin D
      <4>1. D \cap (1..n) = D \cap (1..m)
        BY <2>1, <3>2
      <4>2. Q(n) = Q(m) /\ Q(m) \in Nat
        BY <1>4, <2>1, <4>1
      <4> QED BY <3>2, <4>2
    <3> QED BY <3>1, <3>2
  <2>7. V(m) = Volume(b, sid, pt, e, "down") /\ V(n) = Volume(c, sid, pt, e, "down")
    BY <2>2, <2>4
  <2>8. /\ Q(m) \in Nat /\ V(m) \in Nat /\ V(n) \in Nat
        /\ Volume(a, sid, pt, e, "down") + Q(m) <= V(m)
    BY <1>3, <1>4, <1>5, <2>1, <2>4
  <2> HIDE DEF V, Q
  <2>9. Volume(a, sid, pt, e, "down") + Q(n) <= V(n)
    BY <1>3, <2>5, <2>6, <2>7, <2>8
  <2> QED BY <2>4, <2>5, <2>9
<1>6. Fine(0)
  <2>1. D \cap (1..0) = {}
    OBVIOUS
  <2>2. Q(0) = 0
    BY <2>1, FS_EmptySet
  <2>3. V(0) = Volume(a, sid, pt, e, "down") /\ Replays(a)[0].exact = a.exact
    BY <1>2
  <2> HIDE DEF V, Q
  <2> QED BY <1>3, <2>2, <2>3
<1> HIDE DEF Fine
<1>7. wrong = {}
  <2> SUFFICES ASSUME wrong # {} PROVE FALSE
    OBVIOUS
  <2>1. wrong \subseteq Nat
    OBVIOUS
  <2> HIDE DEF wrong
  <2>2. PICK n \in wrong : \A m \in wrong : n <= m
    BY <2>1, LeastNatural
  <2> USE DEF wrong
  <2>3. n # 0
    BY <1>6, <2>2
  <2>4. n \in 1..N /\ n - 1 \in 0..N /\ n - 1 \notin wrong
    BY <1>1, <2>2, <2>3
  <2> QED BY <1>5, <2>2, <2>4
<1> QED BY <1>7 DEF Fine

\* Closing the window forgets the oldest correspondences and pays the returns of D.
LEMMA EmptiedPays ==
    ASSUME NEW a, Credited(a), NEW sid, NEW pt, NEW e, NEW D \in SUBSET (1..Len(a.waiting)),
           \A i \in D : /\ a.waiting[i].src.point = pt /\ a.waiting[i].src.exporter = e
                        /\ \A b : b.exact = a.exact =>
                              /\ Pairings(b, a.waiting[i].rec) # {}
                              /\ \A x \in Pairings(b, a.waiting[i].rec) : x.sid = sid
    PROVE  /\ WaitingEmptied(a).exact = Older(a.exact, NatTtl)
           /\ Volume(a, sid, pt, e, "down") + Cardinality(D)
                <= Volume(WaitingEmptied(a), sid, pt, e, "down")
<1>1. PICK b : b = Replays(a)[Len(a.waiting)]
  OBVIOUS
<1>2. Len(a.waiting) \in 0..Len(a.waiting)
  BY DEF Credited
<1>3. Shape(b)
  BY <1>1, <1>2, ReplaysCredited DEF Credited
<1>0. \A n \in 0..Len(a.waiting) :
         /\ Replays(a)[n].exact = a.exact
         /\ Volume(a, sid, pt, e, "down") + Cardinality(D \cap (1..n))
              <= Volume(Replays(a)[n], sid, pt, e, "down")
  BY ReplaysPay
<1>4. /\ b.exact = a.exact
      /\ Volume(a, sid, pt, e, "down") + Cardinality(D \cap (1..Len(a.waiting)))
           <= Volume(b, sid, pt, e, "down")
  BY <1>0, <1>1, <1>2
<1>5. D \cap (1..Len(a.waiting)) = D
  OBVIOUS
<1> DEFINE exact == Older(b.exact, NatTtl)
           large == Older(b.large, NatTtl)
           publics == Older(b.publics, NatTtl)
           c == [b EXCEPT !.waiting = <<>>, !.exact = exact, !.large = large, !.publics = publics]
<1>6. WaitingEmptied(a) = c
  BY <1>1 DEF WaitingEmptied
<1> HIDE DEF exact, large, publics
<1>7. c.credits = b.credits /\ c.exact = exact
  BY <1>3 DEF Shape
<1> HIDE DEF c
<1>8. Volume(c, sid, pt, e, "down") = Volume(b, sid, pt, e, "down")
  BY <1>7, StillVolume
<1> QED BY <1>4, <1>5, <1>6, <1>7, <1>8 DEF exact


-----------------------------------------------------------------------------
\* A correspondence is forgotten with the upload that taught it.
LEMMA Forgetting ==
    ASSUME NEW sp, NEW ex, LearntBy(sp, ex), SpokenShape(sp, ex)
    PROVE  LearntBy(Older(sp, NatTtl), Older(ex, NatTtl))
           /\ SpokenShape(Older(sp, NatTtl), Older(ex, NatTtl))
<1> DEFINE older(u) == [u EXCEPT !.age = u.age + 1]
<1>1. PICK sp2 : sp2 = Older(sp, NatTtl)
  OBVIOUS
<1>2. PICK ex2 : ex2 = Older(ex, NatTtl)
  OBVIOUS
<1>3. NatTtl \in Nat
  BY AggregatorAssumption
<1>4. \A u \in sp : /\ DOMAIN older(u) = {"passage", "sid", "age"} /\ older(u).passage = u.passage
                    /\ older(u).sid = u.sid /\ older(u).age = u.age + 1
  BY DEF SpokenShape
<1>5. \A x \in ex : /\ DOMAIN older(x) = {"key", "sid", "client", "age"} /\ older(x).key = x.key
                    /\ older(x).sid = x.sid /\ older(x).age = x.age + 1
  BY DEF SpokenShape
<1>6. /\ \A u \in sp2 : \E w \in sp : w.age < NatTtl /\ u = older(w)
      /\ \A w \in sp : w.age < NatTtl => older(w) \in sp2
      /\ \A y \in ex2 : \E x \in ex : x.age < NatTtl /\ y = older(x)
      /\ \A x \in ex : x.age < NatTtl => older(x) \in ex2
  BY <1>1, <1>2 DEF Older
<1> HIDE DEF older
<1>7. SpokenShape(sp2, ex2)
  <2>1. \A u \in sp2 : /\ DOMAIN u = {"passage", "sid", "age"} /\ u.age \in Nat
                       /\ u.passage \in Passages /\ IsUpload(u.passage)
    BY <1>4, <1>6 DEF SpokenShape
  <2>2. \A y \in ex2 : DOMAIN y = {"key", "sid", "client", "age"}
    BY <1>5, <1>6
  <2> QED BY <2>1, <2>2 DEF SpokenShape
<1>8. ASSUME NEW u \in sp2, NEW k \in PortsOf(u.passage.rec)
      PROVE  /\ \E y \in Named(u, k, ex2) : y.age <= u.age
             /\ \A y \in Named(u, k, ex2) :
                   \E v \in sp2 : SameTalk(v, u) /\ v.sid = y.sid /\ v.age = y.age
  <2>1. PICK w \in sp : w.age < NatTtl /\ u = older(w)
    BY <1>6
  <2>2. u.passage = w.passage /\ u.age = w.age + 1 /\ w.age \in Nat /\ k \in PortsOf(w.passage.rec)
    BY <1>4, <1>8, <2>1 DEF SpokenShape
  <2>3. /\ \E x \in Named(w, k, ex) : x.age <= w.age
        /\ \A x \in Named(w, k, ex) :
              \E v \in sp : SameTalk(v, w) /\ v.sid = x.sid /\ v.age = x.age
    BY <2>2 DEF LearntBy
  <2>4. \A x \in Named(w, k, ex) : x.age \in Nat
    BY <2>3 DEF SpokenShape
  <2>5. \E y \in Named(u, k, ex2) : y.age <= u.age
    <3>1. PICK x \in Named(w, k, ex) : x.age <= w.age /\ x.age \in Nat
      BY <2>3, <2>4
    <3>2. x \in ex /\ x.key = ExactKey(w.passage.rec.to, k) /\ x.age < NatTtl
      BY <1>3, <2>1, <2>2, <3>1 DEF Named
    <3>3. older(x) \in ex2 /\ older(x).key = x.key /\ older(x).age = x.age + 1
      BY <1>5, <1>6, <3>2
    <3>4. older(x) \in Named(u, k, ex2)
      BY <2>2, <3>2, <3>3 DEF Named
    <3>5. older(x).age <= u.age
      BY <2>2, <3>1, <3>3
    <3> QED BY <3>4, <3>5
  <2>6. ASSUME NEW y \in Named(u, k, ex2)
        PROVE  \E v \in sp2 : SameTalk(v, u) /\ v.sid = y.sid /\ v.age = y.age
    <3>1. PICK x \in ex : x.age < NatTtl /\ y = older(x)
      BY <1>6 DEF Named
    <3>2. y.key = x.key /\ y.sid = x.sid /\ y.age = x.age + 1
      BY <1>5, <3>1
    <3>3. x \in Named(w, k, ex)
      BY <2>2, <3>1, <3>2 DEF Named
    <3>4. PICK v \in sp : SameTalk(v, w) /\ v.sid = x.sid /\ v.age = x.age
      BY <2>3, <3>3
    <3>5. /\ older(v) \in sp2 /\ older(v).passage = v.passage /\ older(v).sid = v.sid
          /\ older(v).age = v.age + 1
      BY <1>4, <1>6, <3>1, <3>4
    <3>6. SameTalk(older(v), u)
      BY <2>2, <3>4, <3>5 DEF SameTalk
    <3> QED BY <3>2, <3>4, <3>5, <3>6
  <2> QED BY <2>5, <2>6
<1>9. LearntBy(sp2, ex2)
  BY <1>8 DEF LearntBy
<1> QED BY <1>1, <1>2, <1>7, <1>9

\* Nothing but a datagram, the closing and a restart touches the window.
LEMMA WindowKept ==
    ASSUME [Next]_vars
    PROVE  \/ UNCHANGED <<left, agg, heard, spoken, batch>>
           \/ \E p \in Passages : Hears(p)
           \/ Flushes \/ Restarts
<1>1. ASSUME NEW e \in Exporters,
             \/ DeclaresByHand(e) \/ UpdatesByHand(e) \/ DeletesByHand(e)
             \/ ExportDeclares(e) \/ RoleChanges(e) \/ HearsTemplate(e)
      PROVE  UNCHANGED <<left, agg, heard, spoken, batch>>
  BY <1>1 DEF DeclaresByHand, UpdatesByHand, DeletesByHand, Edits, ExportDeclares, RoleChanges,
              HearsTemplate, reception
<1>2. CASE (\E a \in Addresses : AddressMoves(a)) \/ DatabaseComesOrGoes \/ UNCHANGED vars
  BY <1>2 DEF AddressMoves, DatabaseComesOrGoes, vars, reception
<1>3. ASSUME NEW t \in Tasks, Works(t), ~Flushes PROVE UNCHANGED <<left, agg, heard, spoken, batch>>
  BY <1>3 DEF Works, Lists, Declares, ReadsExporters, AssignsExporters, RecordsActivity,
              ReadsBlocks, InstallsIndex, reception
<1> QED BY <1>1, <1>2, <1>3 DEF Next

LEMMA NextPairs ==
    ASSUME EndsAreTold, PortsTellApart, DeclarationInv, moves \in Nat, PairingInv, Credited(agg),
           [Next]_vars
    PROVE  PairingInv'
<1>1. TaskRows' /\ BlocksOfClients' /\ OwnLayout'
  BY NextRows, BlocksFollow, LayoutsStay DEF PairingInv, DeclarationInv
<1>2. CASE UNCHANGED <<left, agg, heard, spoken, batch>>
  BY <1>1, <1>2 DEF PairingInv, Learnt, LearntBy, SpokenShape, Named, SameTalk
<1>3. ASSUME NEW p \in Passages, Hears(p) PROVE PairingInv'
  BY <1>1, <1>3, HearsPairs DEF PairingInv
<1>4. CASE Flushes
  <2>1. PICK a : a = WaitingEmptied(agg)
    OBVIOUS
  <2>2. PICK b : b = Flushed(a)
    OBVIOUS
  <2>3. agg' = b /\ spoken' = Older(spoken, NatTtl)
    BY <1>4, <2>1, <2>2 DEF Flushes
  <2>4. Shape(b) /\ b.exact = a.exact
    BY <2>2, EmptyShape DEF Flushed
  <2>5. a.exact = Older(agg.exact, NatTtl)
    <3>1. {} \in SUBSET (1..Len(agg.waiting))
      OBVIOUS
    <3> QED BY <2>1, <3>1, EmptiedPays
  <2>6. PICK sp : sp = spoken'
    OBVIOUS
  <2>7. LearntBy(sp, b.exact) /\ SpokenShape(sp, b.exact)
    BY <2>3, <2>4, <2>5, <2>6, Forgetting DEF PairingInv, Learnt
  <2>8. Shape(agg)' /\ Learnt'
    BY <2>3, <2>4, <2>6, <2>7 DEF Learnt, LearntBy, SpokenShape, Named, SameTalk, Shape
  <2> QED BY <1>1, <2>8 DEF PairingInv
<1>5. CASE Restarts
  <2>1. agg' = EmptyAggregate /\ spoken' = {}
    BY <1>5 DEF Restarts
  <2>2. PICK b : b = EmptyAggregate
    OBVIOUS
  <2>3. Shape(b) /\ b.exact = {}
    BY <2>2, EmptyShape DEF EmptyAggregate
  <2>4. Shape(agg)' /\ Learnt'
    BY <2>1, <2>2, <2>3 DEF Learnt, LearntBy, SpokenShape, Shape
  <2> QED BY <1>1, <2>4 DEF PairingInv
<1> QED BY <1>2, <1>3, <1>4, <1>5, WindowKept

\* The returns counted as they came, and the places of those that wait.
KnownOf(hs, sp, sid, pt, e) ==
    {h \in hs : /\ h.passage.exporter = e /\ h.point = pt /\ h.passage.rec.to \in Publics
                /\ h.known /\ Speakers(sp, h.passage) = {sid}}
Placing(hs, a) ==
    /\ \A h \in hs : h.place # 0 =>
          /\ h.place \in 1..Len(a.waiting) /\ a.waiting[h.place].rec = h.passage.rec
          /\ a.waiting[h.place].src.point = h.point
          /\ a.waiting[h.place].src.exporter = h.passage.exporter
    /\ \A g, h \in hs : g.place = h.place /\ h.place # 0 => g = h
Answers(hs, sp) ==
    /\ IsFiniteSet(hs)
    /\ \A h \in hs : h.passage \in Passages /\ (h.known => UploadsOf(sp, h.passage) # {})
Paying(hs, sp, a) ==
    \A sid, pt, e : Cardinality(KnownOf(hs, sp, sid, pt, e)) <= Volume(a, sid, pt, e, "down")
DueInv ==
    /\ \A h \in heard : h.passage \notin left
    /\ Answers(heard, spoken) /\ Placing(heard, agg) /\ Paying(heard, spoken, agg)

LEMMA KnownIsFinite ==
    ASSUME NEW hs, IsFiniteSet(hs), NEW sp, NEW sid, NEW pt, NEW e
    PROVE  /\ IsFiniteSet(KnownOf(hs, sp, sid, pt, e))
           /\ Cardinality(KnownOf(hs, sp, sid, pt, e)) \in Nat
<1>1. KnownOf(hs, sp, sid, pt, e) \in SUBSET hs
  BY DEF KnownOf
<1> QED BY <1>1, FS_Subset, FS_CardinalityType

\* What is said later only makes a return more disputed.
LEMMA SpeakersGrow ==
    \A sp, sq, p, sid : /\ sp \subseteq sq /\ UploadsOf(sp, p) # {}
                        /\ Speakers(sq, p) = {sid}
                        => Speakers(sp, p) = {sid}
<1> TAKE sp, sq, p, sid
<1> SUFFICES ASSUME sp \subseteq sq, UploadsOf(sp, p) # {}, Speakers(sq, p) = {sid}
             PROVE  Speakers(sp, p) = {sid}
  OBVIOUS
<1>1. UploadsOf(sp, p) \subseteq UploadsOf(sq, p)
  BY DEF UploadsOf
<1>2. Speakers(sp, p) \subseteq {sid} /\ Speakers(sp, p) # {}
  BY <1>1 DEF Speakers
<1> QED BY <1>2

LEMMA HearsDue ==
    ASSUME EndsAreTold, PortsTellApart, PairingInv, Credited(agg), DueInv,
           NEW p \in Passages, Hears(p)
    PROVE  DueInv'
<1> DEFINE me == Counted(p, Info(p.exporter).vantage)
           src == SourceFor(p)
<1>1. p \in left /\ left' = left \ {p}
  BY HearsCounted DEF PairingInv
<1>2. CASE agg' = agg /\ heard' = heard /\ spoken' = spoken
  BY <1>1, <1>2 DEF DueInv, Answers, Placing, Paying
<1>3. ASSUME Counts(p) PROVE DueInv'
  <2>1. PICK b : b = agg'
    OBVIOUS
  <2>2. PICK hs : hs = heard'
    OBVIOUS
  <2>3. PICK sp : sp = spoken'
    OBVIOUS
  <2>4. Shape(agg) /\ b = Added(agg, index, p.rec, src) /\ hs = heard \cup {me}
        /\ sp = spoken \cup Said(p)
    BY <1>3, <2>1, <2>2, <2>3 DEF Counts, Credited
  <2>5. /\ \A s, pt, e, d : Volume(agg, s, pt, e, d) <= Volume(b, s, pt, e, d)
        /\ \/ b.waiting = agg.waiting
           \/ b.waiting = Append(agg.waiting, [rec |-> p.rec, src |-> src])
    BY <2>4, AddedRaises
  <2>6. /\ me.passage = p /\ me.point = src.point /\ src.exporter = p.exporter
        /\ me.known = (UploadsOf(spoken, p) # {})
        /\ me.place = IF Len(b.waiting) > Len(agg.waiting) THEN Len(b.waiting) ELSE 0
    BY <2>1 DEF Counted, SourceFor
  <2> HIDE DEF me, src
  <2>7. me \notin heard /\ \A h \in heard : h.passage # p
    BY <1>1, <2>6 DEF DueInv
  <2>8. \A h \in hs : h.passage \notin left'
    BY <1>1, <2>4, <2>6 DEF DueInv
  <2>9. Answers(hs, sp)
    <3>1. \A q : UploadsOf(spoken, q) \subseteq UploadsOf(sp, q)
      BY <2>4 DEF UploadsOf
    <3>2. IsFiniteSet(hs)
      BY <2>4, FS_AddElement DEF DueInv, Answers
    <3> QED BY <2>4, <2>6, <3>1, <3>2 DEF DueInv, Answers
  <2>10. Placing(hs, b)
    <3>1. Len(agg.waiting) \in Nat
          /\ \A h \in heard : h.place # 0 =>
                h.place \in 1..Len(agg.waiting) /\ agg.waiting[h.place].rec = h.passage.rec
                /\ agg.waiting[h.place].src.point = h.point
                /\ agg.waiting[h.place].src.exporter = h.passage.exporter
      BY DEF DueInv, Placing, Credited
    <3>2. CASE b.waiting = agg.waiting
      <4>1. me.place = 0
        BY <2>6, <3>1, <3>2
      <4> QED BY <2>4, <3>2, <4>1 DEF DueInv, Placing
    <3>3. CASE b.waiting = Append(agg.waiting, [rec |-> p.rec, src |-> src])
      <4> DEFINE n == Len(agg.waiting)
                 w == [rec |-> p.rec, src |-> src]
      <4>1. /\ Len(b.waiting) = n + 1 /\ b.waiting[n + 1] = w
            /\ \A i \in 1..n : b.waiting[i] = agg.waiting[i]
        <5> HIDE DEF w
        <5> QED BY <3>3 DEF Credited, w
      <4>2. w.rec = p.rec /\ w.src = src
        OBVIOUS
      <4> HIDE DEF w
      <4>3. me.place = n + 1
        BY <2>6, <3>1, <4>1
      <4>4. \A h \in heard : h.place # 0 => h.place # n + 1
        BY <3>1
      <4>5. \A h \in hs : h.place # 0 =>
               h.place \in 1..Len(b.waiting) /\ b.waiting[h.place].rec = h.passage.rec
               /\ b.waiting[h.place].src.point = h.point
               /\ b.waiting[h.place].src.exporter = h.passage.exporter
        <5>1. n + 1 \in 1..Len(b.waiting)
          BY <3>1, <4>1
        <5>2. \A h \in heard : h.place # 0 =>
                 h.place \in 1..Len(b.waiting) /\ b.waiting[h.place] = agg.waiting[h.place]
          BY <3>1, <4>1
        <5> QED BY <2>4, <2>6, <3>1, <4>1, <4>2, <4>3, <5>1, <5>2
      <4>6. \A g, h \in hs : g.place = h.place /\ h.place # 0 => g = h
        BY <2>4, <4>3, <4>4 DEF DueInv, Placing
      <4> QED BY <4>5, <4>6 DEF Placing
    <3> QED BY <2>5, <3>2, <3>3
  <2>11. ASSUME NEW sid, NEW pt, NEW e
         PROVE  Cardinality(KnownOf(hs, sp, sid, pt, e)) <= Volume(b, sid, pt, e, "down")
    <3> DEFINE old == KnownOf(heard, spoken, sid, pt, e)
               new == KnownOf(hs, sp, sid, pt, e)
    <3>1. /\ Cardinality(old) <= Volume(agg, sid, pt, e, "down")
          /\ Volume(agg, sid, pt, e, "down") <= Volume(b, sid, pt, e, "down")
      BY <2>5 DEF DueInv, Paying
    <3>2. IsFiniteSet(old) /\ Cardinality(old) \in Nat /\ IsFiniteSet(new) /\ Cardinality(new) \in Nat
      BY <2>9, KnownIsFinite DEF DueInv, Answers
    <3>3. Volume(agg, sid, pt, e, "down") \in Nat
      BY <2>4, VolumeIsNat
    <3>4. \A h \in new : Speakers(spoken, h.passage) = {sid}
      <4> TAKE h \in new
      <4>1. h \in hs /\ h.known /\ Speakers(sp, h.passage) = {sid} /\ spoken \subseteq sp
        BY <2>4 DEF KnownOf
      <4>2. UploadsOf(spoken, h.passage) # {}
        BY <2>4, <2>6, <4>1 DEF DueInv, Answers
      <4> QED BY <4>1, <4>2, SpeakersGrow
    <3>5. new \subseteq old \cup {me}
      BY <2>4, <3>4 DEF KnownOf
    <3>6. CASE me \in new
      <4>1. p.rec.to \in Publics /\ Speakers(spoken, p) = {sid} /\ pt = src.point
            /\ e = src.exporter
        BY <2>6, <3>4, <3>6 DEF KnownOf
      <4>2. Paid(agg, b, sid, src, p.rec, "down")
        BY <1>3, <2>1, <4>1, CountsReturn DEF src
      <4>3. Volume(b, sid, pt, e, "down") = Volume(agg, sid, pt, e, "down") + 1
        BY <2>4, <4>1, <4>2, PaidVolume
      <4>4. me \notin old
        BY <2>7 DEF KnownOf
      <4> HIDE DEF old, new
      <4>5. IsFiniteSet(old \cup {me}) /\ Cardinality(old \cup {me}) = Cardinality(old) + 1
        BY <3>2, <4>4, FS_AddElement
      <4>6. Cardinality(new) <= Cardinality(old \cup {me})
        BY <3>5, <4>5, FS_Subset
      <4>7. Cardinality(new) <= Volume(b, sid, pt, e, "down")
        BY <3>1, <3>2, <3>3, <4>3, <4>5, <4>6
      <4> QED BY <4>7 DEF new
    <3>7. CASE me \notin new
      <4>1. new \in SUBSET old
        BY <3>5, <3>7
      <4> HIDE DEF old, new
      <4>2. Cardinality(new) <= Cardinality(old)
        BY <3>2, <4>1, FS_Subset
      <4>3. Volume(b, sid, pt, e, "down") \in Nat
        <5>1. Shape(b)
          BY <1>3, <2>1, HearsPairs
        <5> QED BY <5>1, VolumeIsNat
      <4>4. Cardinality(new) <= Volume(b, sid, pt, e, "down")
        BY <3>1, <3>2, <3>3, <4>2, <4>3
      <4> QED BY <4>4 DEF new
    <3> HIDE DEF new
    <3> QED BY <3>6, <3>7 DEF new
  <2>12. Paying(hs, sp, b)
    BY <2>11 DEF Paying
  <2> QED BY <2>1, <2>2, <2>3, <2>8, <2>9, <2>10, <2>12 DEF DueInv
<1> QED BY <1>2, <1>3, HearsCounted DEF PairingInv

\* A window in which nothing was heard yet.
LEMMA NothingDue ==
    ASSUME NEW sp, NEW a, Shape(a)
    PROVE  Answers({}, sp) /\ Placing({}, a) /\ Paying({}, sp, a)
<1>1. \A sid, pt, e : KnownOf({}, sp, sid, pt, e) = {}
  BY DEF KnownOf
<1>2. IsFiniteSet({}) /\ Cardinality({}) = 0
  BY FS_EmptySet
<1>3. \A sid, pt, e : Volume(a, sid, pt, e, "down") \in Nat
  BY VolumeIsNat
<1>4. Paying({}, sp, a)
  BY <1>1, <1>2, <1>3 DEF Paying
<1> QED BY <1>2, <1>4 DEF Answers, Placing

LEMMA NextDue ==
    ASSUME EndsAreTold, PortsTellApart, PairingInv, Credited(agg), DueInv, [Next]_vars
    PROVE  DueInv'
<1>1. ASSUME heard' = {}, NEW b, agg' = b, Shape(b) PROVE DueInv'
  BY <1>1, NothingDue DEF DueInv
<1>2. CASE UNCHANGED <<left, agg, heard, spoken, batch>>
  BY <1>2 DEF DueInv, Answers, Placing, Paying
<1>3. CASE Flushes
  <2>1. PICK b : b = agg'
    OBVIOUS
  <2>2. heard' = {} /\ Shape(b)
    BY <1>3, <2>1, EmptyShape DEF Flushes
  <2> QED BY <1>1, <2>1, <2>2
<1>4. CASE Restarts
  <2>1. PICK b : b = EmptyAggregate
    OBVIOUS
  <2> QED BY <1>1, <1>4, <2>1, EmptyShape DEF Restarts
<1> QED BY <1>2, <1>3, <1>4, WindowKept, HearsDue

-----------------------------------------------------------------------------
\* What the last window owed is in its credits.
OwedWithin(w, a) ==
    \A sid, pt, e : /\ IsFiniteSet(Owed(w, sid, pt, e))
                    /\ Cardinality(Owed(w, sid, pt, e)) <= Volume(a, sid, pt, e, "down")
DebtInv ==
    \E a, v : Credited(a) /\ batch.batch = BatchOf(a, v) /\ OwedWithin(batch, a)

\* The returns that waited are paid too, each at its place.
LEMMA ClosedPays ==
    ASSUME PortsTellApart, PairingInv, Credited(agg), DueInv,
           NEW w, w = Closed(WaitingEmptied(agg))
    PROVE  OwedWithin(w, WaitingEmptied(agg))
<1>1. w.heard = heard /\ w.spoken = spoken
  BY DEF Closed
<1>2. PICK a : a = WaitingEmptied(agg)
  OBVIOUS
<1>3. ASSUME NEW sid, NEW pt, NEW e
      PROVE  /\ IsFiniteSet(Owed(w, sid, pt, e))
             /\ Cardinality(Owed(w, sid, pt, e)) <= Volume(a, sid, pt, e, "down")
  <2> DEFINE all == Owed(w, sid, pt, e)
             known == KnownOf(heard, spoken, sid, pt, e)
             waits == {h \in all : ~h.known}
             place == [h \in waits |-> h.place]
             D == {h.place : h \in waits}
  <2>1. /\ all \in SUBSET heard /\ all = known \cup waits /\ known \cap waits = {}
        /\ \A h \in waits : /\ h \in heard /\ h.place # 0 /\ h.passage.rec.to \in Publics
                            /\ h.passage.exporter = e /\ h.point = pt
                            /\ Speakers(spoken, h.passage) = {sid}
    BY <1>1 DEF Owed, KnownOf
  <2>2. waits \in SUBSET heard /\ IsFiniteSet(heard)
    BY <2>1 DEF DueInv, Answers
  <2>3. IsFiniteSet(all) /\ IsFiniteSet(waits) /\ Cardinality(waits) \in Nat
    BY <2>1, <2>2, FS_Subset, FS_CardinalityType
  <2>4. IsFiniteSet(known) /\ Cardinality(known) \in Nat
    BY <2>2, KnownIsFinite
  <2>5. Cardinality(all) = Cardinality(known) + Cardinality(waits)
    <3> HIDE DEF all, known, waits
    <3>1. Cardinality(known \cup waits)
            = Cardinality(known) + Cardinality(waits) - Cardinality(known \cap waits)
      BY <2>3, <2>4, FS_Union
    <3>2. Cardinality(known \cap waits) = 0
      BY <2>1, FS_EmptySet
    <3> QED BY <2>1, <2>3, <2>4, <3>1, <3>2
  <2>6. place \in Bijection(waits, D)
    <3>1. \A g, h \in waits : g.place = h.place => g = h
      BY <2>1 DEF DueInv, Placing
    <3> HIDE DEF waits
    <3> QED BY <3>1 DEF Bijection, Injection, Surjection, IsInjective
  <2> HIDE DEF place, D
  <2>7. Cardinality(D) = Cardinality(waits)
    <3>1. ExistsBijection(waits, D)
      BY <2>6 DEF ExistsBijection
    <3> QED BY <2>3, <3>1, FS_Bijection
  <2>8. D \in SUBSET (1..Len(agg.waiting))
    BY <2>1 DEF D, DueInv, Placing
  <2>9. \A i \in D : /\ agg.waiting[i].src.point = pt /\ agg.waiting[i].src.exporter = e
                     /\ \A b : b.exact = agg.exact =>
                           /\ Pairings(b, agg.waiting[i].rec) # {}
                           /\ \A x \in Pairings(b, agg.waiting[i].rec) : x.sid = sid
    <3> TAKE i \in D
    <3>1. PICK h \in waits : i = h.place
      BY DEF D
    <3>2. PICK p : p = h.passage
      OBVIOUS
    <3>3. /\ p \in Passages /\ p.rec.to \in Publics /\ Speakers(spoken, p) = {sid}
          /\ agg.waiting[i].rec = p.rec /\ agg.waiting[i].src.point = pt
          /\ agg.waiting[i].src.exporter = e
      BY <2>1, <3>1, <3>2 DEF DueInv, Answers, Placing
    <3> HIDE DEF waits
    <3>4. ASSUME NEW b, b.exact = agg.exact
          PROVE  Pairings(b, p.rec) # {} /\ \A x \in Pairings(b, p.rec) : x.sid = sid
      BY <3>3, <3>4, ReturnIsNamed DEF PairingInv
    <3> QED BY <3>3, <3>4
  <2>10. Volume(agg, sid, pt, e, "down") + Cardinality(D) <= Volume(a, sid, pt, e, "down")
    BY <1>2, <2>8, <2>9, EmptiedPays
  <2>11. Cardinality(known) <= Volume(agg, sid, pt, e, "down")
    BY DEF DueInv, Paying
  <2>12. Volume(agg, sid, pt, e, "down") \in Nat /\ Volume(a, sid, pt, e, "down") \in Nat
    <3>1. Shape(agg) /\ Shape(a)
      BY <1>2, EmptiedCredited DEF Credited
    <3> QED BY <3>1, VolumeIsNat
  <2> HIDE DEF all, known, waits
  <2>13. Cardinality(all) <= Volume(a, sid, pt, e, "down")
    BY <2>3, <2>4, <2>5, <2>7, <2>10, <2>11, <2>12
  <2> QED BY <2>3, <2>13 DEF all
<1> QED BY <1>2, <1>3 DEF OwedWithin

LEMMA InitDebt == Init => DueInv /\ DebtInv
<1> SUFFICES ASSUME Init PROVE DueInv /\ DebtInv
  OBVIOUS
<1>1. PICK a : a = EmptyAggregate
  OBVIOUS
<1>2. Credited(a) /\ Shape(a)
  BY <1>1, EmptyCredited, EmptyShape
<1>3. /\ heard = {} /\ agg = a /\ batch.batch = BatchOf(a, "auto") /\ batch.heard = {}
  BY <1>1 DEF Init, EmptyBatch
<1>4. DueInv
  BY <1>2, <1>3, NothingDue DEF DueInv
<1>5. \A sid, pt, e : Owed(batch, sid, pt, e) = {}
  BY <1>3 DEF Owed
<1>6. IsFiniteSet({}) /\ Cardinality({}) = 0
  BY FS_EmptySet
<1>7. \A sid, pt, e : Volume(a, sid, pt, e, "down") \in Nat
  BY <1>2, VolumeIsNat
<1>8. OwedWithin(batch, a)
  BY <1>5, <1>6, <1>7 DEF OwedWithin
<1> QED BY <1>2, <1>3, <1>4, <1>8 DEF DebtInv

LEMMA NextDebt ==
    ASSUME PortsTellApart, PairingInv, Credited(agg), DueInv, DebtInv, [Next]_vars
    PROVE  DebtInv'
<1>1. CASE batch' = batch
  <2>1. PICK a, v : Credited(a) /\ batch.batch = BatchOf(a, v) /\ OwedWithin(batch, a)
    BY DEF DebtInv
  <2>2. PICK w : w = batch
    OBVIOUS
  <2>3. OwedWithin(batch, a)' = OwedWithin(w, a)
    BY <1>1, <2>2 DEF OwedWithin, Owed
  <2> QED BY <1>1, <2>1, <2>2, <2>3 DEF DebtInv
<1>2. CASE batch' = Closed(WaitingEmptied(agg))
  <2>1. PICK w : w = batch'
    OBVIOUS
  <2>2. PICK a : a = WaitingEmptied(agg)
    OBVIOUS
  <2>3. w.batch = BatchOf(a, EffectiveVantage)
    BY <1>2, <2>1, <2>2 DEF Closed
  <2>4. Credited(a) /\ OwedWithin(w, a)
    BY <1>2, <2>1, <2>2, EmptiedCredited, ClosedPays
  <2>5. OwedWithin(batch, a)' = OwedWithin(w, a)
    BY <2>1 DEF OwedWithin, Owed
  <2> QED BY <2>1, <2>3, <2>4, <2>5 DEF DebtInv
<1>3. CASE Flushes \/ Restarts
  BY <1>1, <1>2, <1>3 DEF Flushes, Restarts
<1>4. ASSUME NEW p \in Passages, Hears(p) PROVE batch' = batch
  BY <1>4 DEF Hears
<1> QED BY <1>1, <1>3, <1>4, WindowKept

\* The exporter a direction is read at sees it no less than another: of those that
\* have the fewest above them, none has any.
LEMMA RowIsMost ==
    ASSUME NEW a, Credited(a), NEW sid, NEW pt, NEW dir, NEW e \in ExportersOf(a, sid, pt)
    PROVE  Volume(a, sid, pt, e, dir) <= Row(a, sid, pt, dir)
<1> DEFINE S == ExportersOf(a, sid, pt)
           seen == [f \in S |-> Volume(a, sid, pt, f, dir)]
           total == [f \in S |-> Volume(a, sid, pt, f, "down") + Volume(a, sid, pt, f, "up")]
           above(f) == {g \in S : seen[g] > seen[f] \/ (seen[g] = seen[f] /\ total[g] > total[f])}
           ranks == {Cardinality(above(f)) : f \in S}
<1>1. IsFiniteSet(S)
  <2>1. S \in SUBSET Exporters
    BY DEF ExportersOf, Credited, BagToSet
  <2> QED BY <2>1, FS_Subset, AggregatorAssumption
<1>2. \A f \in S : seen[f] \in Nat /\ total[f] \in Nat
  BY VolumeIsNat DEF Credited
<1>3. \A f \in S : seen[f] = Volume(a, sid, pt, f, dir)
                  /\ total[f] = Volume(a, sid, pt, f, "down") + Volume(a, sid, pt, f, "up")
  OBVIOUS
<1> HIDE DEF S, seen, total
<1>4. \A f \in S : above(f) \in SUBSET S /\ IsFiniteSet(above(f)) /\ Cardinality(above(f)) \in Nat
  <2> TAKE f \in S
  <2>1. above(f) \in SUBSET S
    OBVIOUS
  <2> HIDE DEF above
  <2> QED BY <1>1, <2>1, FS_Subset, FS_CardinalityType
<1>5. PICK best \in S : \A f \in S : Cardinality(above(best)) <= Cardinality(above(f))
  <2>1. ranks # {} /\ ranks \subseteq Nat
    BY <1>4 DEF S
  <2>2. PICK n \in ranks : \A m \in ranks : n <= m
    <3> HIDE DEF ranks
    <3> QED BY <2>1, LeastNatural
  <2> HIDE DEF above
  <2> QED BY <2>2
<1>6. above(best) = {}
  <2> SUFFICES ASSUME NEW f \in above(best) PROVE FALSE
    OBVIOUS
  <2>1. f \in S /\ above(f) \in SUBSET above(best) /\ f \notin above(f)
    BY <1>2
  <2> HIDE DEF above
  <2>2. Cardinality(above(f)) <= Cardinality(above(best))
        /\ (Cardinality(above(best)) = Cardinality(above(f)) => above(best) = above(f))
    BY <1>4, <1>5, <2>1, FS_Subset
  <2>3. Cardinality(above(best)) = Cardinality(above(f))
    BY <1>4, <1>5, <2>1, <2>2
  <2> QED BY <2>1, <2>2, <2>3
<1>7. \A f \in S : seen[best] > seen[f] \/ (seen[best] = seen[f] /\ total[best] >= total[f])
  BY <1>2, <1>6
<1>8. PICK c : c = BestExporter(a, sid, pt, dir)
  OBVIOUS
<1>9. c \in S /\ \A f \in S : \/ seen[c] > seen[f]
                              \/ seen[c] = seen[f] /\ total[c] >= total[f]
  <2>1. c = CHOOSE g \in S : \A f \in S : seen[g] > seen[f] \/ (seen[g] = seen[f] /\ total[g] >= total[f])
    BY <1>3, <1>8 DEF BestExporter, S
  <2> QED BY <1>7, <2>1
<1>10. e \in S /\ seen[c] >= seen[e]
  BY <1>2, <1>9 DEF S
<1> QED BY <1>3, <1>8, <1>9, <1>10 DEF Row

\* The row of a subscriber at a point of view is there as soon as an exporter of
\* that point credits it, and is no less than what that exporter credits.
LEMMA RowPays ==
    ASSUME NEW a, Credited(a), NEW v, NEW b, b = BatchOf(a, v), NEW sid, NEW pt, NEW e,
           NEW n \in Nat, n # 0, n <= Volume(a, sid, pt, e, "down")
    PROVE  <<sid, pt, "down">> \in DOMAIN b.rows /\ n <= b.rows[<<sid, pt, "down">>]
<1> DEFINE f == [x \in Apps |-> Copies(<<sid, pt, e, x, "down">>, a.credits)]
           sids == {k[1] : k \in BagToSet(a.credits)}
           keys == UNION {{<<s, p, d>> : p \in PointsOf(a, s), d \in Dirs} : s \in sids}
           rows == [k \in keys |-> Row(a, k[1], k[2], k[3])]
           mine == <<sid, pt, "down">>
<1>1. Volume(a, sid, pt, e, "down") = Total(f) /\ Total(f) \in Nat
  BY VolumesOfApps DEF Volume, Credited
<1>2. PICK x \in Apps : f[x] # 0
  <2> SUFFICES ASSUME \A x \in Apps : f[x] = 0 PROVE FALSE
    OBVIOUS
  <2>1. DOMAIN f = Apps
    OBVIOUS
  <2> HIDE DEF f
  <2>2. Total(f) = 0
    BY <2>1, TotalOfZeros
  <2> QED BY <1>1, <2>2
<1>3. PICK k : k = <<sid, pt, e, x, "down">>
  OBVIOUS
<1>4. k \in BagToSet(a.credits) /\ k[1] = sid /\ k[2] = pt /\ k[3] = e
  BY <1>2, <1>3 DEF Copies, BagIn
<1>5. sid \in sids /\ pt \in PointsOf(a, sid) /\ e \in ExportersOf(a, sid, pt)
  BY <1>4 DEF PointsOf, ExportersOf
<1>6. Volume(a, sid, pt, e, "down") <= Row(a, sid, pt, "down")
  BY <1>5, RowIsMost
<1>7. b.rows = rows
  BY DEF BatchOf
<1>8. mine \in keys /\ mine[1] = sid /\ mine[2] = pt /\ mine[3] = "down"
  <2>1. "down" \in Dirs
    BY DEF Dirs
  <2> HIDE DEF sids
  <2> QED BY <1>5, <2>1
<1> HIDE DEF keys, mine
<1>9. mine \in DOMAIN b.rows /\ b.rows[mine] = Row(a, sid, pt, "down")
  BY <1>7, <1>8
<1>10. Row(a, sid, pt, "down") \in Nat
  BY RowIsNat DEF Credited
<1>11. n <= b.rows[mine]
  BY <1>1, <1>6, <1>9, <1>10
<1> QED BY <1>9, <1>11 DEF mine

LEMMA DebtIsPaid == DebtInv => PaidAtClosing
<1> SUFFICES ASSUME DebtInv, NEW sid \in Sids, NEW pt \in Points, NEW e \in Exporters,
                    Owed(batch, sid, pt, e) # {}
             PROVE  /\ <<sid, pt, "down">> \in DOMAIN batch.batch.rows
                    /\ Cardinality(Owed(batch, sid, pt, e)) <= batch.batch.rows[<<sid, pt, "down">>]
  BY DEF PaidAtClosing
<1>1. PICK a, v : Credited(a) /\ batch.batch = BatchOf(a, v) /\ OwedWithin(batch, a)
  BY DEF DebtInv
<1>2. PICK owed : owed = Owed(batch, sid, pt, e)
  OBVIOUS
<1>3. PICK n : n = Cardinality(owed)
  OBVIOUS
<1>4. IsFiniteSet(owed) /\ n <= Volume(a, sid, pt, e, "down")
  BY <1>1, <1>2, <1>3 DEF OwedWithin
<1>5. n \in Nat /\ n # 0
  BY <1>2, <1>3, <1>4, FS_CardinalityType, FS_EmptySet
<1> QED BY <1>1, <1>2, <1>3, <1>4, <1>5, RowPays

\* A return counted as it comes.
LEMMA ReturnsCreditAtOnce ==
    ASSUME EndsAreTold, PortsTellApart, PairingInv, [Next]_vars
    PROVE  CreditedAtOnce
<1> SUFFICES ASSUME NEW h \in heard' \ heard, NEW sid \in Sids, h.passage.rec.to \in Publics,
                    Speakers(spoken, h.passage) = {sid}
             PROVE  agg'.credits = Count(agg.credits, <<sid, h.point, h.passage.exporter,
                                                        Classify(h.passage.rec), "down">>)
  BY DEF CreditedAtOnce
<1>1. PICK p \in Passages : Hears(p)
  BY WindowKept DEF Flushes, Restarts
<1>2. Counts(p) /\ h = Counted(p, Info(p.exporter).vantage)
  BY <1>1, HearsCounted DEF PairingInv, Counts
<1>3. h.passage = p /\ h.point = SourceFor(p).point /\ p.exporter = SourceFor(p).exporter
  BY <1>2 DEF Counted, SourceFor
<1>4. Paid(agg, agg', sid, SourceFor(p), p.rec, "down")
  BY <1>2, <1>3, CountsReturn
<1> QED BY <1>3, <1>4 DEF Paid

\* Where the ports tell the clients apart, a return that answers a remembered
\* upload is one unit for the subscriber of that upload and for nobody else, as it
\* comes; and no window closes without the returns it owes, those included that
\* came before their upload and waited for it.
THEOREM ReturnsAreTheirs ==
    ASSUME EndsAreTold, PortsTellApart
    PROVE  Spec => ReturnIsItsOwn
<1> DEFINE Inv == /\ DeclarationInv /\ moves \in Nat /\ PlacesInv /\ WindowInv /\ PairingInv
                  /\ DueInv /\ DebtInv
<1>1. Init => Inv
  BY InitRows, InitPlaces, InitPairs, InitDebt, NetFlowAssumption DEF Init
<1>2. Inv /\ [Next]_vars => Inv'
  <2> SUFFICES ASSUME Inv, [Next]_vars PROVE Inv'
    OBVIOUS
  <2>1. DeclarationInv' /\ moves' \in Nat
    BY NextRows
  <2>2. PlacesInv' /\ WindowInv'
    BY PlacesFollow, NextWindow
  <2>3. PairingInv'
    BY NextPairs DEF WindowInv
  <2>4. DueInv' /\ DebtInv'
    BY NextDue, NextDebt DEF WindowInv
  <2> QED BY <2>1, <2>2, <2>3, <2>4
<1>3. Inv => PaidAtClosing
  BY DebtIsPaid
<1>4. Inv /\ [Next]_vars => CreditedAtOnce
  BY ReturnsCreditAtOnce
<1> HIDE DEF Inv
<1> QED BY <1>1, <1>2, <1>3, <1>4, PTL DEF Spec, ReturnIsItsOwn
=============================================================================
