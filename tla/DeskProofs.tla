----------------------------- MODULE DeskProofs -----------------------------
(* What holds of the settings and of the accounts for every set of requests, *)
(* settings, values and people.                                             *)
EXTENDS Desk, FiniteSetTheorems, TLAPS

(***************************************************************************)
(* A setting that nothing crossed or cut is either the one the database    *)
(* would give back, or about to be: one request has its row to write, and  *)
(* that row says what is in force.                                         *)
(***************************************************************************)
IsTask(t) == DOMAIN t = {"phase", "op", "cred", "of", "arg", "as", "late"}
Tasked == DOMAIN task = Requests /\ \A q \in Requests : IsTask(task[q])
Tables == /\ DOMAIN memory = Settings /\ DOMAIN stored = Settings
          /\ valid \in [Settings -> SUBSET Acceptable]

WillSay(q, s) == IF task[q].op = "set" THEN task[q].arg ELSE default[s]
Written(s) == Saving(s) = {} /\ memory[s] = Loaded(s)
Underway(s) == \E q \in Requests : /\ Saving(s) = {q}
                                   /\ memory[s] = WillSay(q, s)
                                   /\ task[q].op = "set" => task[q].arg \in valid[s]
Sound == \A s \in Settings \ torn : Written(s) \/ Underway(s)
DeskInv == Tasked /\ Tables /\ Sound

\* A step that writes no setting, and neither begins nor ends the writing of a
\* row.
LEMMA StepElsewhere ==
    ASSUME DeskInv, Tasked', UNCHANGED <<options, torn>>,
           \A q \in Requests : \/ task'[q] = task[q]
                               \/ task[q].phase # "save" /\ task'[q].phase # "save"
    PROVE  DeskInv'
<1>1. \A s \in Settings : Saving(s)' = Saving(s)
  BY DEF Saving
<1>2. \A s \in Settings : \A q \in Saving(s) : task'[q] = task[q]
  BY DEF Saving
<1>3. Tables'
  BY DEF DeskInv, Tables, options
<1>4. ASSUME NEW s \in Settings \ torn
      PROVE  Written(s)' \/ Underway(s)'
  <2>1. CASE Written(s)
    BY <1>1, <2>1 DEF Written, Loaded, options
  <2>2. CASE Underway(s)
    BY <1>1, <1>2, <2>2 DEF Underway, WillSay, options
  <2> QED BY <1>4, <2>1, <2>2 DEF DeskInv, Sound
<1> QED BY <1>3, <1>4 DEF DeskInv, Sound

\* One request goes on, outside the writing of a setting.
LEMMA RequestElsewhere ==
    ASSUME DeskInv, NEW q \in Requests, NEW t, IsTask(t), Becomes(q, t),
           task[q].phase # "save", t.phase # "save", UNCHANGED <<options, torn>>
    PROVE  DeskInv'
<1>1. \A r \in Requests : task'[r] = IF r = q THEN t ELSE task[r]
  BY DEF Becomes, DeskInv, Tasked
<1>2. Tasked'
  BY <1>1 DEF Becomes, DeskInv, Tasked
<1> QED BY <1>1, <1>2, StepElsewhere

LEMMA IdleIsTask == IsTask(Idle) /\ Idle.phase = "idle"
  BY DEF IsTask, Idle

LEMMA GrantedIsTask ==
    ASSUME NEW t, IsTask(t), NEW as
    PROVE  IsTask(Granted(t, as)) /\ Granted(t, as).phase # "save"
<1>1. First(t.op) # "save"
  BY DEF First
<1> QED BY <1>1, IdleIsTask DEF Granted, IsTask

\* A step of one request, outside the writing of a setting.
Elsewhere(q) ==
    \/ \E ask \in asked : Begins(q, ask)
    \/ Verifies(q) \/ Notes(q) \/ VerifiesKey(q)
    \/ Reads(q) \/ CreatesFirst(q) \/ Trims(q) \/ Changes(q) \/ Closes(q) \/ ClosesOwn(q)
    \/ \E k \in Tokens : Opens(q, k)
    \/ Creates(q) \/ Targets(q) \/ Guards(q) \/ Writes(q) \/ ChangesKey(q)

LEMMA ElsewhereKeeps ==
    ASSUME DeskInv, NEW q \in Requests, Elsewhere(q)
    PROVE  DeskInv'
<1> DEFINE t == task[q]
<1>1. IsTask(t)
  BY DEF DeskInv, Tasked
<1>2. ASSUME NEW u, IsTask(u), u.phase # "save", Becomes(q, u), t.phase # "save",
             UNCHANGED <<options, torn>>
      PROVE  DeskInv'
  BY <1>2, RequestElsewhere
<1>3. ASSUME NEW p, p # "save", To(q, p), t.phase # "save", UNCHANGED <<options, torn>>
      PROVE  DeskInv'
  BY <1>1, <1>2, <1>3 DEF To, Becomes, IsTask
<1>4. ASSUME Ends(q), t.phase # "save", UNCHANGED <<options, torn>>
      PROVE  DeskInv'
  BY <1>2, <1>4, IdleIsTask DEF Ends, Becomes
<1>5. ASSUME NEW ask \in asked, Begins(q, ask)
      PROVE  DeskInv'
  <2> DEFINE b == [Idle EXCEPT !.op = ask.op, !.cred = ask.cred, !.of = ask.of, !.arg = ask.arg]
  <2>1. IsTask(b) /\ t.phase = "idle"
    BY <1>5, IdleIsTask DEF Begins, IsTask
  <2>2. First(ask.op) # "save"
    BY DEF First
  <2>3. PICK u : /\ Becomes(q, u)
                 /\ \/ u = [b EXCEPT !.phase = First(ask.op)]
                    \/ u = Granted(b, cache[ask.cred])
                    \/ u = [b EXCEPT !.phase = "verify"]
    BY <1>5 DEF Begins
  <2>4. IsTask(u) /\ u.phase # "save"
    BY <2>1, <2>2, <2>3, GrantedIsTask DEF IsTask
  <2> QED BY <1>2, <1>5, <2>1, <2>3, <2>4 DEF Begins, seen
<1>6. CASE Verifies(q) \/ Notes(q) \/ VerifiesKey(q)
  <2>1. PICK u, as : /\ Becomes(q, u)
                     /\ u \in {Idle, [t EXCEPT !.phase = "note", !.as = as], Granted(t, as)}
    BY <1>6 DEF Verifies, Notes, VerifiesKey
  <2>2. IsTask(u) /\ u.phase # "save"
    BY <1>1, <2>1, IdleIsTask, GrantedIsTask DEF IsTask
  <2> QED BY <1>2, <1>6, <2>1, <2>2 DEF Verifies, Notes, VerifiesKey, seen
<1>7. CASE Reads(q)
  <2> DEFINE user == IF t.op = "login" THEN t.of ELSE t.as.user
             p    == IF t.op = "login" THEN "open" ELSE "change"
             u    == [t EXCEPT !.phase = p, !.as = [user |-> user, role |-> accounts[user].role]]
  <2>1. /\ t.phase = "credentials" /\ UNCHANGED <<options, torn>>
        /\ Becomes(q, Idle) \/ Becomes(q, u)
    BY <1>7 DEF Reads, seen
  <2>2. IsTask(u) /\ u.phase # "save"
    BY <1>1 DEF IsTask
  <2> HIDE DEF u
  <2> QED BY <1>2, <2>1, <2>2, IdleIsTask
<1>12. CASE CreatesFirst(q)
  <2> DEFINE u == [t EXCEPT !.phase = "open", !.as = [user |-> t.of, role |-> "edit"]]
  <2>1. /\ t.phase = "act" /\ UNCHANGED <<options, torn>>
        /\ Becomes(q, Idle) \/ Becomes(q, u)
    BY <1>12 DEF CreatesFirst, seen
  <2>2. IsTask(u) /\ u.phase # "save"
    BY <1>1 DEF IsTask
  <2> HIDE DEF u
  <2> QED BY <1>2, <2>1, <2>2, IdleIsTask
<1>8. CASE Trims(q) \/ Closes(q) \/ Creates(q) \/ ChangesKey(q)
  BY <1>4, <1>8 DEF Trims, Closes, Creates, ChangesKey, seen
<1>9. CASE Changes(q) \/ ClosesOwn(q) \/ Targets(q) \/ Guards(q)
  BY <1>3, <1>4, <1>9 DEF Changes, ClosesOwn, Targets, Guards, seen
<1>10. ASSUME NEW k \in Tokens, Opens(q, k)
       PROVE  DeskInv'
  BY <1>3, <1>4, <1>10 DEF Opens
<1>11. CASE Writes(q)
  BY <1>3, <1>4, <1>11 DEF Writes
<1> QED BY <1>5, <1>6, <1>7, <1>8, <1>9, <1>10, <1>11, <1>12 DEF Elsewhere

\* The memory of the sessions is emptied: the answers on their way are marked.
LEMMA ForgetsKeeps ==
    ASSUME DeskInv, NEW q \in Requests, Forgets(q)
    PROVE  DeskInv'
<1> DEFINE t == task[q]
           closing == IF ClosesSessions(t) THEN [t EXCEPT !.phase = "close"] ELSE Idle
<1>1. \A r \in Requests :
          task'[r] = IF r = q THEN closing
                     ELSE IF task[r].phase = "note" THEN [task[r] EXCEPT !.late = TRUE] ELSE task[r]
  BY DEF Forgets
<1>2. IsTask(closing) /\ closing.phase # "save" /\ t.phase # "save"
  BY IdleIsTask DEF Forgets, DeskInv, Tasked, IsTask
<1>3. \A r \in Requests : IsTask(task'[r])
  BY <1>1, <1>2 DEF DeskInv, Tasked, IsTask
<1>4. \A r \in Requests : \/ task'[r] = task[r]
                          \/ task[r].phase # "save" /\ task'[r].phase # "save"
  BY <1>1, <1>2 DEF DeskInv, Tasked, IsTask
<1>5. Tasked' /\ UNCHANGED <<options, torn>>
  BY <1>3 DEF Tasked, Forgets
<1> QED BY <1>4, <1>5, StepElsewhere

\* A setting in force at once: its row is still to be written.
LEMMA AppliesKeeps ==
    ASSUME DeskInv, NEW q \in Requests, Applies(q)
    PROVE  DeskInv'
<1> DEFINE t == task[q]
<1> PICK s : s = t.of
  OBVIOUS
<1>1. /\ IsTask(t) /\ t.phase = "apply"
      /\ UNCHANGED <<stored, default, valid>>
  BY DEF Applies, DeskInv, Tasked
<1>2. CASE t.op = "set" /\ t.arg \notin valid[s]
  BY <1>1, <1>2, IdleIsTask, RequestElsewhere DEF Applies, Ends, Becomes, options
<1>3. CASE ~(t.op = "set" /\ t.arg \notin valid[s])
  <2>1. /\ memory' = [memory EXCEPT ![s] = IF t.op = "set" THEN t.arg ELSE default[s]]
        /\ torn' = IF Saving(s) = {} THEN torn \ {s} ELSE torn \cup {s}
        /\ task' = [task EXCEPT ![q].phase = "save"]
    BY <1>3 DEF Applies, To
  <2>2. /\ DOMAIN task' = Requests
        /\ \A r \in Requests \ {q} : task'[r] = task[r]
        /\ task'[q] = [t EXCEPT !.phase = "save"]
    BY <2>1 DEF DeskInv, Tasked
  <2>3. Tasked' /\ Tables'
    BY <1>1, <2>1, <2>2 DEF DeskInv, Tasked, Tables, IsTask
  <2>4. /\ task'[q].phase = "save" /\ task'[q].of = s
        /\ task'[q].op = t.op /\ task'[q].arg = t.arg
    BY <1>1, <2>2 DEF IsTask
  <2>5. Saving(s)' = Saving(s) \cup {q} /\ \A o \in Settings \ {s} : Saving(o)' = Saving(o)
    <3>1. \A r \in Requests : \A o : r \in Saving(o)' <=> r \in Saving(o) \/ (r = q /\ o = s)
      BY <1>1, <2>2, <2>4 DEF Saving
    <3>2. \A o : Saving(o) \subseteq Requests /\ Saving(o)' \subseteq Requests
      BY DEF Saving
    <3> QED BY <3>1, <3>2
  <2>6. ASSUME NEW o \in Settings \ torn', o # s
        PROVE  Written(o)' \/ Underway(o)'
    <3>1. o \in Settings \ torn /\ memory'[o] = memory[o] /\ Saving(o)' = Saving(o)
      BY <2>1, <2>5, <2>6 DEF DeskInv, Tables
    <3>2. q \notin Saving(o)
      BY <1>1 DEF Saving
    <3>3. CASE Written(o)
      BY <1>1, <3>1, <3>3 DEF Written, Loaded
    <3>4. CASE Underway(o)
      BY <1>1, <2>2, <3>1, <3>2, <3>4 DEF Underway, WillSay
    <3> QED BY <3>1, <3>3, <3>4 DEF DeskInv, Sound
  <2>7. ASSUME s \in Settings \ torn'
        PROVE  Underway(s)'
    <3>1. Saving(s)' = {q}
      BY <2>1, <2>5, <2>7
    <3>2. memory'[s] = IF t.op = "set" THEN t.arg ELSE default[s]
      BY <2>1, <2>7 DEF DeskInv, Tables
    <3> QED BY <1>1, <1>3, <2>4, <3>1, <3>2 DEF Underway, WillSay
  <2> QED BY <2>3, <2>6, <2>7 DEF DeskInv, Sound
<1> QED BY <1>2, <1>3

\* The row is written.
LEMMA SavesKeeps ==
    ASSUME DeskInv, NEW q \in Requests, Saves(q)
    PROVE  DeskInv'
<1> DEFINE t == task[q]
<1> PICK s : s = t.of
  OBVIOUS
<1>1. /\ IsTask(t) /\ t.phase = "save" /\ task' = [task EXCEPT ![q] = Idle]
      /\ UNCHANGED <<memory, default, valid, torn>>
      /\ stored' = [stored EXCEPT ![s] = IF t.op = "set" THEN t.arg ELSE NoRow]
  BY DEF Saves, Ends, DeskInv, Tasked, seen
<1>2. DOMAIN task' = Requests /\ \A r \in Requests : task'[r] = IF r = q THEN Idle ELSE task[r]
  BY <1>1 DEF DeskInv, Tasked
<1>3. Tasked' /\ Tables'
  BY <1>1, <1>2, IdleIsTask DEF DeskInv, Tasked, Tables
<1>4. \A o \in Settings : Saving(o)' = Saving(o) \ {q}
  BY <1>2, IdleIsTask DEF Saving
<1>5. ASSUME NEW o \in Settings \ torn, o # s
      PROVE  Written(o)' \/ Underway(o)'
  <2>1. q \notin Saving(o) /\ Saving(o)' = Saving(o) /\ stored'[o] = stored[o]
    BY <1>1, <1>4, <1>5 DEF Saving, DeskInv, Tables
  <2>2. CASE Written(o)
    BY <1>1, <2>1, <2>2 DEF Written, Loaded
  <2>3. CASE Underway(o)
    BY <1>1, <1>2, <2>1, <2>3 DEF Underway, WillSay
  <2> QED BY <1>5, <2>2, <2>3 DEF DeskInv, Sound
<1>6. ASSUME s \in Settings \ torn
      PROVE  Written(s)'
  <2>1. q \in Saving(s)
    BY <1>1 DEF Saving
  <2>2. /\ Saving(s) = {q} /\ memory[s] = WillSay(q, s)
        /\ t.op = "set" => t.arg \in valid[s]
    BY <1>6, <2>1 DEF DeskInv, Sound, Written, Underway
  <2>3. stored'[s] = (IF t.op = "set" THEN t.arg ELSE NoRow) /\ NoRow \notin valid[s]
    BY <1>1, <1>6, DeskAssumption DEF DeskInv, Tables
  <2> QED BY <1>1, <1>4, <1>6, <2>2, <2>3 DEF Written, Loaded, WillSay
<1> QED BY <1>1, <1>3, <1>5, <1>6 DEF DeskInv, Sound

\* The database refuses: a setting whose row is lost no longer counts.
LEMMA FailsKeeps ==
    ASSUME DeskInv, NEW q \in Requests, Fails(q)
    PROVE  DeskInv'
<1>1. CASE task[q].phase # "save"
  BY <1>1, IdleIsTask, RequestElsewhere DEF Fails, Ends, Becomes
<1>2. CASE task[q].phase = "save"
  <2> DEFINE t == task[q]
  <2> PICK s : s = t.of
    OBVIOUS
  <2>1. task' = [task EXCEPT ![q] = Idle] /\ torn' = torn \cup {s} /\ UNCHANGED options
    BY <1>2 DEF Fails, Ends
  <2>2. DOMAIN task' = Requests /\ \A r \in Requests : task'[r] = IF r = q THEN Idle ELSE task[r]
    BY <2>1 DEF DeskInv, Tasked
  <2>3. Tasked' /\ Tables'
    BY <2>1, <2>2, IdleIsTask DEF DeskInv, Tasked, Tables, options
  <2>4. ASSUME NEW o \in Settings \ torn'
        PROVE  Written(o)' \/ Underway(o)'
    <3>1. o \in Settings \ torn /\ q \notin Saving(o)
      BY <2>1, <2>4 DEF Saving
    <3>2. Saving(o)' = Saving(o)
      BY <1>2, <2>2, <3>1, IdleIsTask DEF Saving
    <3>3. CASE Written(o)
      BY <2>1, <3>2, <3>3 DEF Written, Loaded, options
    <3>4. CASE Underway(o)
      BY <2>1, <2>2, <3>1, <3>2, <3>4 DEF Underway, WillSay, options
    <3> QED BY <3>1, <3>3, <3>4 DEF DeskInv, Sound
  <2> QED BY <2>3, <2>4 DEF DeskInv, Sound
<1> QED BY <1>1, <1>2

\* The process starts again, maybe with other defaults and other limits.
LEMMA RestartsKeeps ==
    ASSUME DeskInv, Restarts
    PROVE  DeskInv'
<1>1. /\ task' = [q \in Requests |-> Idle] /\ stored' = stored
      /\ valid' \in [Settings -> SUBSET Acceptable]
  BY DEF Restarts
<1>2. PICK readable \in BOOLEAN :
          /\ torn' = (IF readable THEN {} ELSE Settings)
          /\ memory' = [s \in Settings |-> IF readable THEN Loaded(s)' ELSE default'[s]]
  BY DEF Restarts
<1>3. Tasked' /\ Tables'
  BY <1>1, <1>2, IdleIsTask DEF DeskInv, Tasked, Tables
<1>4. \A s \in Settings : Saving(s)' = {}
  BY <1>1, IdleIsTask DEF Saving
<1>5. \A s \in Settings \ torn' : Written(s)'
  BY <1>2, <1>4 DEF Written
<1> QED BY <1>3, <1>5 DEF DeskInv, Sound

LEMMA InitDesk == Init => DeskInv
<1> SUFFICES ASSUME Init PROVE DeskInv
  OBVIOUS
<1>1. PICK s \in Starts : valid = s.valid /\ stored = s.stored
  BY DEF Init
<1>2. /\ memory = [o \in Settings |-> Loaded(o)] /\ task = [q \in Requests |-> Idle]
  BY DEF Init
<1>3. Tasked /\ Tables
  BY <1>1, <1>2, IdleIsTask, DeskAssumption DEF Tasked, Tables
<1>4. \A o \in Settings : Saving(o) = {} /\ memory[o] = Loaded(o)
  BY <1>2, IdleIsTask DEF Saving
<1> QED BY <1>3, <1>4 DEF DeskInv, Sound, Written

LEMMA NextKeeps == DeskInv /\ [Next]_vars => DeskInv'
<1> SUFFICES ASSUME DeskInv, [Next]_vars PROVE DeskInv'
  OBVIOUS
<1>1. CASE UNCHANGED vars
  BY <1>1, StepElsewhere DEF vars, seen, DeskInv, Tasked
<1>2. ASSUME NEW q \in Requests,
             Elsewhere(q) \/ Forgets(q) \/ Applies(q) \/ Saves(q) \/ Fails(q)
      PROVE  DeskInv'
  BY <1>2, ElsewhereKeeps, ForgetsKeeps, AppliesKeeps, SavesKeeps, FailsKeeps
<1>3. ASSUME NEW k \in Tokens, Expires(k) \/ GrowsOld(k)
      PROVE  DeskInv'
  BY <1>3, StepElsewhere DEF Expires, GrowsOld, seen, DeskInv, Tasked
<1>4. CASE Restarts
  BY <1>4, RestartsKeeps
<1> QED BY <1>1, <1>2, <1>3, <1>4 DEF Next, Elsewhere

\* A restart changes no setting that no fault touched, whatever was set, cleared
\* or made empty before, by however many requests at once.
THEOREM SettingsSurvive == Spec => []RestartAgrees
<1>1. DeskInv => RestartAgrees
  BY DEF DeskInv, Sound, Written, Underway, RestartAgrees
<1> QED BY InitDesk, NextKeeps, <1>1, PTL DEF Spec

-----------------------------------------------------------------------------
(***************************************************************************)
(* Accounts.  Before the first one, nothing on its way can touch accounts. *)
(* After, somebody may edit, and whoever is about to remove an editor      *)
(* leaves another: the count was read when that was so, and what could     *)
(* have made it false since is another removal, which is told by crossed.  *)
(***************************************************************************)
Early(t) ==
    /\ t.phase \notin {"note", "target", "guard", "write", "open", "change", "trim"}
    /\ t.phase = "act" => t.op # "create"
    /\ t.phase = "credentials" => t.op = "login"

NoSession == \A k \in Tokens : session[k] = None /\ cache[k] = None
Unborn == /\ \A u \in Users : accounts[u] = None
          /\ NoSession
          /\ \A q \in Requests : Early(task[q])

Spares(t) == t.phase = "write" /\ Loses(t) => Editors \ {t.of} # {}
Safe == Editors # {} /\ \A q \in Requests : Spares(task[q])

Fits(t) == t.phase # "idle" => /\ Typed(t)
                               /\ t.phase = "credentials" => t.op \in {"login", "password"}
                               /\ t.phase = "change" => t.op = "password"
Meant == (\A ask \in asked : Typed(ask)) /\ (\A q \in Requests : Fits(task[q]))

EditorInv ==
    /\ accounts \in [Users -> Optional(Account)]
    /\ Meant
    /\ crossed \/ Unborn \/ Safe

LEMMA TypedKept ==
    ASSUME NEW t, NEW u, u.op = t.op, u.of = t.of, u.arg = t.arg
    PROVE  (Typed(t) => Typed(u)) /\ (Loses(t) <=> Loses(u))
  BY DEF Typed, Loses

LEMMA IdleFits == Early(Idle) /\ Spares(Idle) /\ Fits(Idle)
  BY DEF Early, Spares, Fits, Idle

\* A step of one request that leaves the accounts alone.
LEMMA AccountsAlone ==
    ASSUME DeskInv, EditorInv, NEW q \in Requests, NEW t, Becomes(q, t),
           UNCHANGED <<accounts, asked, crossed>>,
           Fits(t), Safe => Spares(t), Unborn => Early(t) /\ NoSession'
    PROVE  EditorInv'
<1>1. \A r \in Requests : task'[r] = IF r = q THEN t ELSE task[r]
  BY DEF Becomes, DeskInv, Tasked
<1>2. Editors' = Editors
  BY DEF Editors, Active
<1>3. Meant'
  BY <1>1 DEF EditorInv, Meant
<1>4. CASE crossed
  BY <1>3, <1>4 DEF EditorInv
<1>5. CASE Unborn
  <2>1. Unborn'
    BY <1>1, <1>5 DEF Unborn
  <2> QED BY <1>3, <2>1 DEF EditorInv
<1>6. CASE Safe
  <2>1. Safe'
    BY <1>1, <1>2, <1>6 DEF Safe, Spares
  <2> QED BY <1>3, <2>1 DEF EditorInv
<1> QED BY <1>4, <1>5, <1>6 DEF EditorInv

LEMMA EndsAlone ==
    ASSUME DeskInv, EditorInv, NEW q \in Requests, Ends(q),
           UNCHANGED <<accounts, asked, crossed>>, Unborn => NoSession'
    PROVE  EditorInv'
  BY AccountsAlone, IdleFits DEF Ends, Becomes

\* A request that goes on to phase p.
LEMMA GoesOn ==
    ASSUME DeskInv, EditorInv, NEW q \in Requests, NEW p, To(q, p),
           UNCHANGED <<accounts, asked, crossed>>,
           task[q].phase # "idle", p \notin {"credentials", "change", "act"},
           p = "write" => (Safe /\ Loses(task[q]) => Editors \ {task[q].of} # {}),
           Unborn => p \in {"forget", "save"} /\ NoSession'
    PROVE  EditorInv'
<1> DEFINE t == task[q]
           u == [t EXCEPT !.phase = p]
<1>1. IsTask(t) /\ Fits(t)
  BY DEF DeskInv, Tasked, EditorInv, Meant
<1>2. u.phase = p /\ u.op = t.op /\ u.of = t.of /\ u.arg = t.arg
  BY <1>1 DEF IsTask
<1>3. Becomes(q, u)
  BY DEF To, Becomes
<1> HIDE DEF u
<1>4. Fits(u)
  BY <1>1, <1>2, TypedKept DEF Fits
<1>5. Safe => Spares(u)
  BY <1>2, TypedKept DEF Spares
<1>6. Unborn => Early(u)
  BY <1>2 DEF Early
<1> QED BY <1>3, <1>4, <1>5, <1>6, AccountsAlone

LEMMA GrantedFits ==
    ASSUME NEW t, IsTask(t), Typed(t), NEW as
    PROVE  /\ Fits(Granted(t, as)) /\ Spares(Granted(t, as))
           /\ as.user = None => Early(Granted(t, as))
<1> DEFINE g == [t EXCEPT !.phase = First(t.op), !.as = as]
<1>1. g.phase = First(t.op) /\ g.op = t.op /\ g.of = t.of /\ g.arg = t.arg
  BY DEF IsTask
<1>2. Granted(t, as) = IF Allowed(t.op, as) THEN g ELSE Idle
  BY DEF Granted
<1> HIDE DEF g
<1>3. Fits(g) /\ Spares(g)
  BY <1>1, TypedKept DEF Fits, Spares, First
<1>4. ASSUME as.user = None, Allowed(t.op, as) PROVE Early(g)
  BY <1>1, <1>4 DEF Early, First, Allowed, NeedPerson
<1> QED BY <1>2, <1>3, <1>4, IdleFits

\* A request that comes, and what identifies who sends it.
LEMMA EntersAlone ==
    ASSUME DeskInv, EditorInv, NEW q \in Requests,
           (\E ask \in asked : Begins(q, ask)) \/ Verifies(q) \/ Notes(q) \/ VerifiesKey(q)
    PROVE  EditorInv'
<1> DEFINE t == task[q]
<1>1. IsTask(t) /\ Fits(t)
  BY DEF DeskInv, Tasked, EditorInv, Meant
<1>2. ASSUME NEW ask \in asked, Begins(q, ask)
      PROVE  EditorInv'
  <2> DEFINE b == [Idle EXCEPT !.op = ask.op, !.cred = ask.cred, !.of = ask.of, !.arg = ask.arg]
             f == [b EXCEPT !.phase = First(ask.op)]
             v == [b EXCEPT !.phase = "verify"]
  <2>1. IsTask(b) /\ b.op = ask.op /\ b.of = ask.of /\ b.arg = ask.arg
    BY IdleIsTask DEF IsTask
  <2>2. /\ f.phase = First(ask.op) /\ f.op = ask.op /\ f.of = ask.of /\ f.arg = ask.arg
        /\ v.phase = "verify" /\ v.op = ask.op /\ v.of = ask.of /\ v.arg = ask.arg
    BY <2>1 DEF IsTask
  <2>3. /\ UNCHANGED <<accounts, asked, crossed, session, cache>>
        /\ \/ Becomes(q, f) /\ ask.op \in Public
           \/ Becomes(q, Granted(b, cache[ask.cred])) /\ \E k \in Tokens : cache[k] # None
           \/ Becomes(q, v)
    BY <1>2 DEF Begins, people, seen
  <2> HIDE DEF b, f, v
  <2>4. Typed(ask) /\ Typed(b)
    BY <2>1, TypedKept DEF EditorInv, Meant
  <2>5. Fits(f) /\ Spares(f) /\ (ask.op \in Public => Early(f))
    BY <2>2, <2>4, TypedKept DEF Fits, Spares, Early, First, Public
  <2>6. Fits(v) /\ Spares(v) /\ Early(v)
    BY <2>2, <2>4, TypedKept DEF Fits, Spares, Early
  <2>7. Fits(Granted(b, cache[ask.cred])) /\ Spares(Granted(b, cache[ask.cred]))
    BY <2>1, <2>4, GrantedFits
  <2>8. Unborn => NoSession' /\ ~\E k \in Tokens : cache[k] # None
    BY <2>3 DEF Unborn, NoSession
  <2> QED BY <2>3, <2>5, <2>6, <2>7, <2>8, AccountsAlone
<1>3. CASE Verifies(q)
  <2> DEFINE user == session[t.cred].user
             n    == [t EXCEPT !.phase = "note",
                               !.as = [user |-> user, role |-> accounts[user].role]]
  <2>1. n.phase = "note" /\ n.op = t.op /\ n.of = t.of /\ n.arg = t.arg
    BY <1>1 DEF IsTask
  <2>2. /\ UNCHANGED <<accounts, asked, crossed, session, cache>> /\ t.phase = "verify"
        /\ \/ Becomes(q, Idle)
           \/ Becomes(q, n) /\ \E k \in Tokens : session[k] # None
    BY <1>3 DEF Verifies, people, seen
  <2> HIDE DEF n
  <2>3. Fits(n) /\ Spares(n)
    BY <1>1, <2>1, <2>2, TypedKept DEF Fits, Spares
  <2>4. Unborn => NoSession' /\ ~\E k \in Tokens : session[k] # None
    BY <2>2 DEF Unborn, NoSession
  <2> QED BY <2>2, <2>3, <2>4, IdleFits, AccountsAlone
<1>4. CASE Notes(q)
  <2>1. PICK as : Becomes(q, Granted(t, as))
    BY <1>4 DEF Notes
  <2>2. Fits(Granted(t, as)) /\ Spares(Granted(t, as))
    BY <1>1, <1>4, GrantedFits DEF Notes, Fits
  <2>3. ~Unborn
    BY <1>4 DEF Notes, Unborn, Early
  <2> QED BY <1>4, <2>1, <2>2, <2>3, AccountsAlone DEF Notes, people, seen
<1>5. CASE VerifiesKey(q)
  <2> DEFINE as == [user |-> None, role |-> IF keys[t.cred].write THEN "edit" ELSE "read",
                    late |-> FALSE]
  <2>1. /\ UNCHANGED <<accounts, asked, crossed, session, cache>> /\ t.phase = "verify"
        /\ Becomes(q, Idle) \/ Becomes(q, Granted(t, as))
    BY <1>5 DEF VerifiesKey, people, seen
  <2>2. as.user = None
    OBVIOUS
  <2> HIDE DEF as
  <2>3. /\ Fits(Granted(t, as)) /\ Spares(Granted(t, as)) /\ Early(Granted(t, as))
    BY <1>1, <2>1, <2>2, GrantedFits DEF Fits
  <2>4. Unborn => NoSession'
    BY <2>1 DEF Unborn, NoSession
  <2> QED BY <2>1, <2>3, <2>4, IdleFits, AccountsAlone
<1> QED BY <1>2, <1>3, <1>4, <1>5

\* Credentials, sessions, keys, settings: the accounts are read at most.
LEMMA SessionsAlone ==
    ASSUME DeskInv, EditorInv, NEW q \in Requests,
           \/ Reads(q) \/ Trims(q) \/ Closes(q) \/ ClosesOwn(q) \/ ChangesKey(q)
           \/ Applies(q) \/ Saves(q) \/ Fails(q) \/ \E k \in Tokens : Opens(q, k)
    PROVE  EditorInv'
<1> DEFINE t == task[q]
<1>1. IsTask(t) /\ Fits(t)
  BY DEF DeskInv, Tasked, EditorInv, Meant
<1>2. CASE Reads(q)
  <2> DEFINE user == IF t.op = "login" THEN t.of ELSE t.as.user
             p    == IF t.op = "login" THEN "open" ELSE "change"
             u    == [t EXCEPT !.phase = p, !.as = [user |-> user, role |-> accounts[user].role]]
  <2>1. u.phase = p /\ u.op = t.op /\ u.of = t.of /\ u.arg = t.arg
    BY <1>1 DEF IsTask
  <2>2. /\ UNCHANGED <<accounts, asked, crossed, session, cache>> /\ t.phase = "credentials"
        /\ Becomes(q, Idle) \/ (Becomes(q, u) /\ accounts[user] # None)
    BY <1>2 DEF Reads, people, seen
  <2> HIDE DEF u
  <2>3. Fits(u) /\ Spares(u)
    BY <1>1, <2>1, <2>2, TypedKept DEF Fits, Spares
  <2>4. Unborn => NoSession' /\ accounts[user] = None
    BY <1>1, <2>2 DEF Unborn, NoSession, Early, Fits, Typed
  <2> QED BY <2>2, <2>3, <2>4, IdleFits, AccountsAlone
<1>3. CASE Trims(q) \/ Closes(q)
  <2>1. Unborn => NoSession'
    BY <1>3 DEF Trims, Closes, Unborn, NoSession, Early, Without
  <2> QED BY <1>3, <2>1, EndsAlone DEF Trims, Closes
<1>4. CASE ClosesOwn(q)
  <2>1. Unborn => NoSession'
    BY <1>4 DEF ClosesOwn, Unborn, NoSession, Without
  <2> QED BY <1>4, <2>1, EndsAlone, GoesOn DEF ClosesOwn, people, seen
<1>5. CASE ChangesKey(q) \/ Saves(q) \/ Fails(q)
  <2>1. Unborn => NoSession'
    BY <1>5 DEF ChangesKey, Saves, Fails, people, Unborn, NoSession
  <2> QED BY <1>5, <2>1, EndsAlone DEF ChangesKey, Saves, Fails, people, seen
<1>6. CASE Applies(q)
  <2>1. Unborn => NoSession'
    BY <1>6 DEF Applies, people, Unborn, NoSession
  <2> QED BY <1>6, <2>1, EndsAlone, GoesOn DEF Applies, people
<1>7. ASSUME NEW k \in Tokens, Opens(q, k)
      PROVE  EditorInv'
  <2>1. ~Unborn
    BY <1>7 DEF Opens, Unborn, Early
  <2> QED BY <1>7, <2>1, EndsAlone, GoesOn DEF Opens
<1> QED BY <1>2, <1>3, <1>4, <1>5, <1>6, <1>7

\* Whoever goes on to remove an editor has seen another.
LEMMA ChecksAlone ==
    ASSUME DeskInv, EditorInv, NEW q \in Requests, Targets(q) \/ Guards(q)
    PROVE  EditorInv'
<1> DEFINE t == task[q]
<1>1. ~Unborn
  BY DEF Targets, Guards, Unborn, Early
<1>2. CASE Targets(q)
  <2>1. /\ UNCHANGED <<accounts, asked, crossed>> /\ t.phase = "target"
        /\ Ends(q) \/ To(q, "guard") \/ (To(q, "write") /\ ~(Loses(t) /\ t.of \in Editors))
    BY <1>2 DEF Targets, people, seen
  <2>2. ~(Loses(t) /\ t.of \in Editors) => (Safe /\ Loses(t) => Editors \ {t.of} # {})
    BY DEF Safe
  <2> QED BY <1>1, <2>1, <2>2, EndsAlone, GoesOn
<1>3. CASE Guards(q)
  <2>1. /\ UNCHANGED <<accounts, asked, crossed>> /\ t.phase = "guard"
        /\ Ends(q) \/ (To(q, "write") /\ ~(CountEditors <= 1))
    BY <1>3 DEF Guards, people, seen
  <2>2. ASSUME ~(CountEditors <= 1) PROVE Editors \ {t.of} # {}
    <3>1. IsFiniteSet(Editors) /\ Cardinality(Editors) \in Nat
      BY DeskAssumption, FS_Subset, FS_CardinalityType DEF Editors
    <3>2. /\ IsFiniteSet(Editors \ {t.of})
          /\ Cardinality(Editors \ {t.of}) >= Cardinality(Editors) - 1
      BY <3>1, FS_RemoveElement
    <3>3. Cardinality({}) = 0
      BY FS_EmptySet
    <3> QED BY <2>2, <3>1, <3>2, <3>3 DEF CountEditors
  <2> QED BY <1>1, <2>1, <2>2, EndsAlone, GoesOn
<1> QED BY <1>2, <1>3

\* An account more, or one with another password: no editor is lost.
LEMMA NobodyLost ==
    ASSUME DeskInv, EditorInv, NEW q \in Requests, NEW t, Becomes(q, t), UNCHANGED <<asked, crossed>>,
           Fits(t), Spares(t), ~Unborn, Editors \subseteq Editors',
           accounts' \in [Users -> Optional(Account)]
    PROVE  EditorInv'
<1>1. \A r \in Requests : task'[r] = IF r = q THEN t ELSE task[r]
  BY DEF Becomes, DeskInv, Tasked
<1>2. Meant'
  BY <1>1 DEF EditorInv, Meant
<1>3. Safe => Safe'
  BY <1>1 DEF Safe, Spares
<1> QED BY <1>2, <1>3 DEF EditorInv

LEMMA EditorIs ==
    ASSUME NEW a \in [Users -> Optional(Account)], NEW u \in Users
    PROVE  /\ a[u] # None => /\ a[u] \in Account
                             /\ a[u] = [role |-> a[u].role, disabled |-> a[u].disabled, pw |-> a[u].pw]
           /\ \A b \in Account : b # None
  BY DeskAssumption DEF Optional, Account

LEMMA BirthsKeep ==
    ASSUME DeskInv, EditorInv, NEW q \in Requests, CreatesFirst(q) \/ Creates(q) \/ Changes(q)
    PROVE  EditorInv'
<1> DEFINE t == task[q]
<1>1. IsTask(t) /\ Fits(t)
  BY DEF DeskInv, Tasked, EditorInv, Meant
<1>2. CASE CreatesFirst(q)
  <2> DEFINE free == \A u \in Users : accounts[u] = None
             new  == [role |-> "edit", disabled |-> FALSE, pw |-> t.arg.current]
             o    == [t EXCEPT !.phase = "open", !.as = [user |-> t.of, role |-> "edit"]]
  <2>1. t.of \in Users /\ new \in Account
    BY <1>1, <1>2 DEF CreatesFirst, Fits, Typed, Account, Roles
  <2>2. o.phase = "open" /\ o.op = t.op /\ o.of = t.of /\ o.arg = t.arg
    BY <1>1 DEF IsTask
  <2>3. /\ UNCHANGED <<asked, crossed, session, cache>> /\ t.phase = "act"
        /\ \/ free /\ Becomes(q, o) /\ accounts' = [accounts EXCEPT ![t.of] = new]
           \/ ~free /\ Becomes(q, Idle) /\ accounts' = accounts
    BY <1>2 DEF CreatesFirst, seen
  <2> HIDE DEF o
  <2>4. Fits(o) /\ Spares(o) /\ o.phase = "open"
    BY <1>1, <2>2, <2>3, TypedKept DEF Fits, Spares
  <2>5. CASE ~free /\ Becomes(q, Idle) /\ accounts' = accounts
    <3>1. ~Unborn
      BY <2>5 DEF Unborn
    <3> QED BY <2>3, <2>5, <3>1, IdleFits, AccountsAlone
  <2>6. CASE free /\ Becomes(q, o) /\ accounts' = [accounts EXCEPT ![t.of] = new]
    <3>1. \A r \in Requests : task'[r] = IF r = q THEN o ELSE task[r]
      BY <2>6 DEF Becomes, DeskInv, Tasked
    <3>2. accounts' \in [Users -> Optional(Account)] /\ accounts'[t.of] = new
      BY <2>1, <2>6 DEF EditorInv, Optional
    <3>3. t.of \in Editors'
      BY <2>1, <3>2, DeskAssumption DEF Editors, Active
    <3>4. ~Safe
      BY <2>6 DEF Safe, Editors, Active
    <3>5. Meant'
      BY <2>3, <2>4, <3>1 DEF EditorInv, Meant
    <3>6. CASE crossed
      BY <2>3, <3>2, <3>5, <3>6 DEF EditorInv
    <3>7. CASE Unborn
      <4>1. \A r \in Requests : task'[r].phase # "write"
        BY <2>4, <3>1, <3>7 DEF Unborn, Early
      <4> QED BY <3>2, <3>3, <3>5, <4>1 DEF EditorInv, Safe, Spares
    <3> QED BY <3>4, <3>6, <3>7 DEF EditorInv
  <2> QED BY <2>3, <2>5, <2>6
<1>3. CASE Creates(q)
  <2> DEFINE new == [role |-> t.arg.role, disabled |-> FALSE, pw |-> t.arg.pw]
  <2>1. t.of \in Users /\ new \in Account
    BY <1>1, <1>3 DEF Creates, Fits, Typed, Account
  <2>2. /\ UNCHANGED <<asked, crossed>> /\ t.phase = "act" /\ t.op = "create" /\ Becomes(q, Idle)
        /\ \/ accounts' = accounts
           \/ accounts[t.of] = None /\ accounts' = [accounts EXCEPT ![t.of] = new]
    BY <1>3 DEF Creates, seen, Ends, Becomes
  <2> HIDE DEF new
  <2>3. accounts' \in [Users -> Optional(Account)]
    BY <2>1, <2>2 DEF EditorInv, Optional
  <2>4. Editors \subseteq Editors'
    BY <2>1, <2>2 DEF Editors, Active, EditorInv
  <2>5. ~Unborn
    BY <2>2 DEF Unborn, Early
  <2> QED BY <2>2, <2>3, <2>4, <2>5, IdleFits, NobodyLost
<1>4. CASE Changes(q)
  <2> DEFINE u == t.as.user
             x == [t EXCEPT !.phase = "forget"]
             a == [accounts EXCEPT ![u].pw = t.arg.new]
  <2>1. t.arg.new \in Passwords
    BY <1>1, <1>4 DEF Changes, Fits, Typed
  <2>2. x.phase = "forget" /\ x.op = t.op /\ x.of = t.of /\ x.arg = t.arg
    BY <1>1 DEF IsTask
  <2>3. /\ UNCHANGED <<asked, crossed>> /\ t.phase = "change"
        /\ \/ Becomes(q, Idle) /\ accounts' = accounts
           \/ Becomes(q, x) /\ accounts[u] # None /\ accounts' = a
    BY <1>4 DEF Changes, seen, Ends, To, Becomes
  <2> HIDE DEF x
  <2>4. Fits(x) /\ Spares(x)
    BY <1>1, <2>2, <2>3, TypedKept DEF Fits, Spares
  <2>5. ~Unborn
    BY <2>3 DEF Unborn, Early
  <2>6. accounts[u] # None /\ u \in Users =>
          /\ a \in [Users -> Optional(Account)]
          /\ a[u].role = accounts[u].role /\ a[u].disabled = accounts[u].disabled /\ a[u] # None
          /\ \A v \in Users \ {u} : a[v] = accounts[v]
    <3> SUFFICES ASSUME accounts[u] # None, u \in Users
                 PROVE  /\ a \in [Users -> Optional(Account)]
                        /\ a[u].role = accounts[u].role /\ a[u].disabled = accounts[u].disabled
                        /\ a[u] # None
                        /\ \A v \in Users \ {u} : a[v] = accounts[v]
      OBVIOUS
    <3>1. accounts[u] \in Account
      BY EditorIs DEF EditorInv
    <3>2. [accounts[u] EXCEPT !.pw = t.arg.new] \in Account
      BY <2>1, <3>1 DEF Account
    <3>3. a[u] = [accounts[u] EXCEPT !.pw = t.arg.new]
      BY DEF EditorInv
    <3>4. a \in [Users -> Optional(Account)]
      BY <3>2, <3>3 DEF EditorInv, Optional
    <3>5. a[u].role = accounts[u].role /\ a[u].disabled = accounts[u].disabled
      BY <3>1, <3>3 DEF Account
    <3>6. a[u] # None
      BY <3>2, <3>3, DeskAssumption
    <3> QED BY <3>4, <3>5, <3>6 DEF EditorInv
  <2>7. u \notin Users => a = accounts
    BY DEF EditorInv
  <2> HIDE DEF a
  <2>8. accounts' \in [Users -> Optional(Account)] /\ Editors \subseteq Editors'
    BY <2>3, <2>6, <2>7 DEF Editors, Active, EditorInv
  <2> QED BY <2>3, <2>4, <2>5, <2>8, IdleFits, NobodyLost
<1> QED BY <1>2, <1>3, <1>4

\* An account rewritten or deleted.
LEMMA WritesKeep ==
    ASSUME DeskInv, EditorInv, NEW q \in Requests, Writes(q)
    PROVE  EditorInv'
<1> DEFINE t == task[q]
           u == t.of
           x == [t EXCEPT !.phase = "forget"]
           new == IF t.op = "delete" THEN None ELSE Updated(accounts[u], t.arg)
           other == \E r \in Requests \ {q} : task[r].phase = "write" /\ Loses(task[r])
<1>1. IsTask(t) /\ Typed(t) /\ u \in Users /\ t.phase = "write" /\ t.op \in {"update", "delete"}
  BY DEF DeskInv, Tasked, EditorInv, Meant, Writes, Fits, Typed
<1>2. ~Unborn
  BY <1>1 DEF Unborn, Early
<1>3. CASE accounts[u] = None
  BY <1>2, <1>3, EndsAlone DEF Writes
<1>4. CASE accounts[u] # None
  <2>1. /\ accounts' = [accounts EXCEPT ![u] = new] /\ crossed' = (crossed \/ (Loses(t) /\ other))
        /\ asked' = asked /\ Becomes(q, x)
    BY <1>4 DEF Writes, To, Becomes
  <2>2. x.phase = "forget" /\ x.op = t.op /\ x.of = t.of /\ x.arg = t.arg
    BY <1>1 DEF IsTask
  <2> HIDE DEF x
  <2>3. Fits(x) /\ Spares(x)
    BY <1>1, <2>2, TypedKept DEF Fits, Spares
  <2>4. \A r \in Requests : task'[r] = IF r = q THEN x ELSE task[r]
    BY <2>1 DEF Becomes, DeskInv, Tasked
  <2>5. accounts[u] \in Account
    BY <1>1, <1>4, EditorIs DEF EditorInv
  <2>6. new \in Optional(Account)
    BY <1>1, <2>5 DEF Typed, Updated, Account, Optional
  <2>7. accounts' \in [Users -> Optional(Account)] /\ accounts'[u] = new
    BY <1>1, <2>1, <2>6 DEF EditorInv
  <2>8. Editors \ {u} \subseteq Editors'
    BY <2>1 DEF Editors, Active, EditorInv
  <2>9. Meant'
    BY <2>1, <2>3, <2>4 DEF EditorInv, Meant
  <2>10. CASE Safe /\ ~crossed' /\ Loses(t)
    <3>1. \A r \in Requests : task'[r].phase = "write" => ~Loses(task'[r])
      BY <2>1, <2>2, <2>4, <2>10
    <3>2. Editors' # {}
      BY <1>1, <2>8, <2>10 DEF Safe, Spares
    <3> QED BY <2>7, <2>9, <3>1, <3>2 DEF EditorInv, Safe, Spares
  <2>11. CASE Safe /\ ~Loses(t)
    <3>1. t.op = "update" /\ t.arg.role # "read" /\ t.arg.disabled # TRUE
      BY <1>1, <2>11 DEF Loses
    <3>2. t.arg.role \in {"edit", None} /\ t.arg.disabled \in {FALSE, None}
      BY <1>1, <3>1, Zenon DEF Typed, Roles, Optional
    <3>3. u \in Editors => u \in Editors'
      <4> SUFFICES ASSUME u \in Editors PROVE u \in Editors'
        OBVIOUS
      <4>1. accounts[u].role = "edit" /\ ~accounts[u].disabled
        BY DEF Editors, Active
      <4>2. new.role = "edit"
        BY <3>1, <3>2, <4>1 DEF Updated
      <4>3. new.disabled = IF t.arg.disabled = None THEN accounts[u].disabled ELSE t.arg.disabled
        BY <3>1 DEF Updated
      <4>4. ~new.disabled
        BY <3>2, <4>1, <4>3, Zenon
      <4>5. new # None
        BY <2>5, <2>6, <3>1, <1>1, DeskAssumption DEF Typed, Updated, Account, Optional
      <4> QED BY <1>1, <2>7, <4>2, <4>4, <4>5 DEF Editors, Active
    <3>4. Editors \subseteq Editors'
      BY <2>8, <3>3
    <3>5. Safe'
      BY <2>2, <2>4, <2>11, <3>4 DEF Safe, Spares
    <3> QED BY <2>7, <2>9, <3>5 DEF EditorInv
  <2>12. CASE crossed'
    BY <2>7, <2>9, <2>12 DEF EditorInv
  <2> QED BY <1>2, <2>1, <2>10, <2>11, <2>12 DEF EditorInv
<1> QED BY <1>3, <1>4

\* Steps that touch no account: the memory emptied, what expires, a restart.
LEMMA OthersAlone ==
    ASSUME DeskInv, EditorInv,
           \/ \E q \in Requests : Forgets(q)
           \/ \E k \in Tokens : Expires(k) \/ GrowsOld(k)
           \/ Restarts \/ UNCHANGED vars
    PROVE  EditorInv'
<1>1. UNCHANGED <<accounts, asked, crossed>>
  BY DEF Forgets, Expires, GrowsOld, Restarts, vars, people, seen
<1>2. ASSUME NEW r \in Requests
      PROVE  /\ Fits(task'[r]) /\ (Spares(task[r]) => Spares(task'[r]))
             /\ Early(task[r]) => Early(task'[r])
  <2> DEFINE t == task[r]
  <2>1. IsTask(t) /\ Fits(t)
    BY DEF DeskInv, Tasked, EditorInv, Meant
  <2>2. CASE task'[r] = t
    BY <2>1, <2>2
  <2>3. CASE task'[r] = Idle
    BY <2>3, IdleFits
  <2>4. ASSUME NEW q \in Requests, Forgets(q), task'[r] # t, task'[r] # Idle
        PROVE  /\ Fits(task'[r]) /\ (Spares(task[r]) => Spares(task'[r]))
               /\ Early(task[r]) => Early(task'[r])
    <3> DEFINE c == [t EXCEPT !.phase = "close"]
               l == [t EXCEPT !.late = TRUE]
    <3>1. /\ c.phase = "close" /\ c.op = t.op /\ c.of = t.of /\ c.arg = t.arg
          /\ l.phase = t.phase /\ l.op = t.op /\ l.of = t.of /\ l.arg = t.arg
      BY <2>1 DEF IsTask
    <3>2. (task'[r] = c /\ t.phase = "forget") \/ (task'[r] = l /\ t.phase = "note")
      <4>1. /\ task[q].phase = "forget"
            /\ task'[r] = IF r = q THEN IF ClosesSessions(t) THEN c ELSE Idle
                          ELSE IF t.phase = "note" THEN l ELSE t
        BY <2>4 DEF Forgets
      <4> HIDE DEF c, l
      <4> QED BY <2>4, <4>1
    <3> HIDE DEF c, l
    <3>3. Fits(task'[r])
      BY <2>1, <3>1, <3>2, TypedKept DEF Fits
    <3>4. Spares(task'[r]) /\ (Early(task[r]) => Early(task'[r]))
      BY <3>1, <3>2 DEF Spares, Early
    <3> QED BY <3>3, <3>4
  <2>5. (\E k \in Tokens : Expires(k) \/ GrowsOld(k)) \/ UNCHANGED vars => task'[r] = t
    BY DEF Expires, GrowsOld, vars
  <2>6. Restarts => task'[r] = Idle
    BY DEF Restarts
  <2> QED BY <2>2, <2>3, <2>4, <2>5, <2>6
<1>3. NoSession => NoSession'
  BY DEF NoSession, Forgets, Expires, GrowsOld, Restarts, vars, people, Without, Forgotten
<1>4. Editors' = Editors
  BY <1>1 DEF Editors, Active
<1>5. Meant'
  BY <1>1, <1>2 DEF EditorInv, Meant
<1>6. Unborn => Unborn'
  BY <1>1, <1>2, <1>3 DEF Unborn
<1>7. ASSUME NEW r \in Requests, Spares(task[r]) PROVE Spares(task[r])'
  <2>1. Spares(task'[r])
    BY <1>2, <1>7
  <2> QED BY <1>4, <2>1 DEF Spares, Loses
<1>8. Safe => Safe'
  BY <1>4, <1>7 DEF Safe
<1> QED BY <1>1, <1>5, <1>6, <1>8 DEF EditorInv

LEMMA InitEditor == Init => EditorInv
<1> SUFFICES ASSUME Init PROVE EditorInv
  OBVIOUS
<1>1. PICK s \in Starts : accounts = s.accounts /\ session = s.session /\ asked = s.asked
  BY DEF Init
<1>2. cache = [k \in Tokens |-> None] /\ task = [q \in Requests |-> Idle]
  BY DEF Init
<1>3. accounts \in [Users -> Optional(Account)] /\ Meant
  BY <1>1, <1>2, IdleFits, DeskAssumption DEF Meant
<1>4. \A q \in Requests : Early(task[q]) /\ Spares(task[q])
  BY <1>2, IdleFits
<1>5. Editors # {} \/ ((\A u \in Users : accounts[u] = None) /\ NoSession)
  BY <1>1, <1>2, DeskAssumption DEF Editors, Active, NoSession
<1> QED BY <1>3, <1>4, <1>5 DEF EditorInv, Unborn, Safe

LEMMA NextEditor == DeskInv /\ EditorInv /\ [Next]_vars => EditorInv'
<1> SUFFICES ASSUME DeskInv, EditorInv, [Next]_vars PROVE EditorInv'
  OBVIOUS
<1>1. ASSUME NEW q \in Requests,
             \/ \E ask \in asked : Begins(q, ask)
             \/ Verifies(q) \/ Notes(q) \/ VerifiesKey(q)
      PROVE  EditorInv'
  BY <1>1, EntersAlone
<1>2. ASSUME NEW q \in Requests,
             \/ Reads(q) \/ Trims(q) \/ Closes(q) \/ ClosesOwn(q) \/ ChangesKey(q)
             \/ Applies(q) \/ Saves(q) \/ Fails(q) \/ \E k \in Tokens : Opens(q, k)
      PROVE  EditorInv'
  BY <1>2, SessionsAlone
<1>3. ASSUME NEW q \in Requests, Targets(q) \/ Guards(q)
      PROVE  EditorInv'
  BY <1>3, ChecksAlone
<1>4. ASSUME NEW q \in Requests, CreatesFirst(q) \/ Creates(q) \/ Changes(q) \/ Writes(q)
      PROVE  EditorInv'
  BY <1>4, BirthsKeep, WritesKeep
<1>5. CASE \/ \E q \in Requests : Forgets(q)
           \/ \E k \in Tokens : Expires(k) \/ GrowsOld(k)
           \/ Restarts \/ UNCHANGED vars
  BY <1>5, OthersAlone
<1> QED BY <1>1, <1>2, <1>3, <1>4, <1>5 DEF Next

\* Whatever is asked, by however many requests at once, and whatever fails or
\* restarts in between: as long as no two removals of editors were checked
\* before either was written, somebody may edit from the first account on.
THEOREM EditorStays == Spec => []EditorRemains
<1>1. EditorInv => EditorRemains
  BY DEF EditorInv, Unborn, Safe, EditorRemains
<1> QED BY InitDesk, NextKeeps, InitEditor, NextEditor, <1>1, PTL DEF Spec

-----------------------------------------------------------------------------
(***************************************************************************)
(* Sessions.  What is kept in memory, and what was read to be kept, still  *)
(* says what the database says, or the memory is about to be emptied, or   *)
(* the exceptions the property names; every open session has proved the    *)
(* password in force, or a request on its way has it among those it closes.*)
(***************************************************************************)
Tabled ==
    /\ DOMAIN session = Tokens /\ DOMAIN cache = Tokens
    /\ \A k \in Tokens : session[k] # None =>
          /\ DOMAIN session[k] = {"user", "pw", "n"} /\ k \in used
          /\ session[k].user \in Users /\ accounts[session[k].user] # None
    /\ \A q \in Requests : task[q].phase = "open" => task[q].as.user \in Users
    /\ \A q \in Requests : task[q].phase = "note" => task[q].cred \in Tokens

Forgetting == \E q \in Requests : task[q].phase = "forget"
Right(k, user, role) ==
    session[k] # None /\ session[k].user = user /\ Active(user) /\ accounts[user].role = role
Covered(k, user, role) == k \in slow \/ Forgetting \/ Right(k, user, role)
\* A note in memory, and an answer that a request is about to keep there.
Backed(k, note) == note.late \/ Covered(k, note.user, note.role)
Sure(t) == t.late \/ Covered(t.cred, t.as.user, t.as.role)
Seen == /\ \A k \in Tokens : cache[k] # None => Backed(k, cache[k])
        /\ \A q \in Requests : task[q].phase = "note" => Sure(task[q])

\* A request that has changed the password of the account of k, and has still
\* to close k.
Leaves(t, k) ==
    /\ t.phase \in {"forget", "close"}
    /\ \/ t.op = "update" /\ t.of = session[k].user /\ t.arg.pw # None
       \/ t.op = "password" /\ t.as.user = session[k].user /\ k # t.cred
Current(k) ==
    \/ session[k].pw = accounts[session[k].user].pw \/ session[k].user \in broken
    \/ \E q \in Requests : Leaves(task[q], k)
Settled == \A k \in Tokens : session[k] # None => Current(k)

SessionInv == Tabled /\ Seen /\ Settled

\* What covers an answer goes on covering it.
LEMMA SeenKept ==
    ASSUME Tabled, Seen,
           \A k \in Tokens : cache'[k] # None => cache'[k] = cache[k] \/ Backed(k, cache[k])',
           \A q \in Requests : task'[q].phase = "note" => task'[q] = task[q] \/ Sure(task[q])',
           slow \subseteq slow', Forgetting => Forgetting',
           \A k \in Tokens : \A user, role :
               Right(k, user, role) => Right(k, user, role)' \/ k \in slow' \/ Forgetting'
    PROVE  Seen'
<1>1. ASSUME NEW k \in Tokens, NEW user, NEW role, Covered(k, user, role)
      PROVE  Covered(k, user, role)'
  BY <1>1 DEF Covered
<1>2. ASSUME NEW k \in Tokens, NEW note, Backed(k, note)
      PROVE  Backed(k, note)'
  BY <1>1, <1>2, Zenon DEF Backed
<1>3. ASSUME NEW t, t.cred \in Tokens, Sure(t)
      PROVE  Sure(t)'
  BY <1>1, <1>3, Zenon DEF Sure
<1>4. ASSUME NEW k \in Tokens, cache'[k] # None
      PROVE  Backed(k, cache[k])'
  <2>1. CASE cache'[k] = cache[k]
    <3> PICK note : note = cache[k]
      OBVIOUS
    <3>1. Backed(k, note)
      BY <1>4, <2>1 DEF Seen
    <3> QED BY <1>2, <2>1, <3>1
  <2> QED BY <1>4, <2>1
<1>5. ASSUME NEW q \in Requests, task'[q].phase = "note"
      PROVE  Sure(task[q])'
  <2>1. CASE task'[q] = task[q]
    <3> PICK t : t = task[q]
      OBVIOUS
    <3>1. Sure(t) /\ t.cred \in Tokens
      BY <1>5, <2>1 DEF Seen, Tabled
    <3> QED BY <1>3, <2>1, <3>1
  <2> QED BY <1>5, <2>1
<1> QED BY <1>4, <1>5 DEF Seen

\* A session stays settled while it, its account's password and the request
\* that has still to close it stay.
LEMMA SettledKept ==
    ASSUME Settled, broken \subseteq broken',
           \A k \in Tokens : session'[k] # None =>
               \/ Current(k)'
               \/ /\ session[k] # None /\ session'[k].user = session[k].user
                  /\ session'[k].pw = session[k].pw
                  /\ accounts'[session[k].user].pw = accounts[session[k].user].pw
                  /\ \A q \in Requests : Leaves(task[q], k) =>
                        Leaves(task[q], k)' \/ session[k].user \in broken'
    PROVE  Settled'
  BY DEF Settled, Current

\* A request outside the closing of sessions leaves what the others will close.
LEMMA LeavesStay ==
    ASSUME DeskInv, NEW q \in Requests, NEW t, Becomes(q, t), task[q].phase \notin {"forget", "close"},
           NEW r \in Requests, NEW k \in Tokens, Leaves(task[r], k), session'[k].user = session[k].user
    PROVE  Leaves(task[r], k)'
<1>1. task'[r] = task[r]
  BY DEF Becomes, Leaves, DeskInv, Tasked
<1> QED BY <1>1 DEF Leaves

\* One request goes on; accounts and sessions stay.
LEMMA Beside ==
    ASSUME DeskInv, SessionInv, NEW q \in Requests, NEW t, Becomes(q, t),
           UNCHANGED <<accounts, session, used, slow>>, broken \subseteq broken',
           task[q].phase \notin {"forget", "close"},
           t.phase = "open" => t.as.user \in Users,
           t.phase = "note" => t.cred \in Tokens /\ Sure(t),
           DOMAIN cache' = Tokens,
           \A k \in Tokens : cache'[k] # None =>
               \/ cache'[k] = cache[k]
               \/ \E note : cache'[k] = note /\ Backed(k, note)
    PROVE  SessionInv'
<1>1. \A r \in Requests : task'[r] = IF r = q THEN t ELSE task[r]
  BY DEF Becomes, DeskInv, Tasked
<1>2. Forgetting => Forgetting'
  BY <1>1 DEF Forgetting
<1>3. \A k, user, role : Right(k, user, role) <=> Right(k, user, role)'
  BY DEF Right, Active
<1>4. \A k, note : Backed(k, note) => Backed(k, note)'
  BY <1>2, <1>3, Zenon DEF Backed, Covered
<1>8. Sure(t) => Sure(t)'
  BY <1>2, <1>3, Zenon DEF Sure, Covered
<1>5. Tabled'
  BY <1>1 DEF SessionInv, Tabled
<1>6. Seen'
  <2>1. \A k \in Tokens : cache'[k] # None => cache'[k] = cache[k] \/ Backed(k, cache[k])'
    BY <1>4
  <2>2. \A r \in Requests : task'[r].phase = "note" => task'[r] = task[r] \/ Sure(task[r])'
    BY <1>1, <1>8
  <2> QED BY <1>2, <1>3, <2>1, <2>2, SeenKept DEF SessionInv
<1>7. Settled'
  BY LeavesStay, SettledKept DEF SessionInv
<1> QED BY <1>5, <1>6, <1>7 DEF SessionInv

Quiet == UNCHANGED <<accounts, session, used, slow, cache>> /\ broken \subseteq broken'

LEMMA QuietBeside ==
    ASSUME DeskInv, SessionInv, NEW q \in Requests, NEW t, Becomes(q, t), Quiet,
           task[q].phase \notin {"forget", "close"}, t.phase \notin {"open", "note"}
    PROVE  SessionInv'
<1>1. DOMAIN cache' = Tokens
  BY DEF SessionInv, Tabled, Quiet
<1> QED BY <1>1, Beside DEF Quiet

LEMMA ToBeside ==
    ASSUME DeskInv, SessionInv, NEW q \in Requests, Quiet,
           task[q].phase \notin {"forget", "close"},
           Ends(q) \/ \E p : To(q, p) /\ p \notin {"open", "note"}
    PROVE  SessionInv'
<1>1. CASE Ends(q)
  BY <1>1, QuietBeside, IdleIsTask DEF Ends, Becomes
<1>2. ASSUME NEW p, To(q, p), p \notin {"open", "note"}
      PROVE  SessionInv'
  <2> DEFINE t == [task[q] EXCEPT !.phase = p]
  <2>1. Becomes(q, t) /\ t.phase = p
    BY <1>2 DEF To, Becomes, DeskInv, Tasked, IsTask
  <2> HIDE DEF t
  <2> QED BY <1>2, <2>1, QuietBeside
<1> QED BY <1>1, <1>2

\* First never sends a request to open a session, nor to keep an answer.
LEMMA GrantedBeside ==
    ASSUME NEW t, IsTask(t), NEW as
    PROVE  Granted(t, as).phase \notin {"open", "note"}
<1>1. First(t.op) \notin {"open", "note"}
  BY DEF First
<1> QED BY <1>1, IdleIsTask DEF Granted, IsTask

LEMMA BeginsBeside ==
    ASSUME DeskInv, SessionInv, NEW q \in Requests, NEW ask \in asked, Begins(q, ask)
    PROVE  SessionInv'
<1> DEFINE b == [Idle EXCEPT !.op = ask.op, !.cred = ask.cred, !.of = ask.of, !.arg = ask.arg]
<1>1. IsTask(b) /\ task[q].phase = "idle" /\ Quiet
  BY IdleIsTask DEF Begins, IsTask, people, seen, Quiet
<1>2. First(ask.op) \notin {"open", "note"}
  BY DEF First
<1>3. PICK u : /\ Becomes(q, u)
               /\ \/ u = [b EXCEPT !.phase = First(ask.op)]
                  \/ u = Granted(b, cache[ask.cred])
                  \/ u = [b EXCEPT !.phase = "verify"]
  BY DEF Begins
<1>4. u.phase \notin {"open", "note"}
  BY <1>1, <1>2, <1>3, GrantedBeside DEF IsTask
<1> QED BY <1>1, <1>3, <1>4, QuietBeside

\* What the database says at that moment is right.
LEMMA VerifiesBeside ==
    ASSUME DeskInv, SessionInv, NEW q \in Requests, Verifies(q) \/ VerifiesKey(q)
    PROVE  SessionInv'
<1> DEFINE t == task[q]
<1>1. IsTask(t) /\ t.phase = "verify" /\ Quiet
  BY DEF DeskInv, Tasked, Verifies, VerifiesKey, people, seen, Quiet
<1>2. CASE VerifiesKey(q)
  <2>1. PICK as : Becomes(q, Idle) \/ Becomes(q, Granted(t, as))
    BY <1>2 DEF VerifiesKey
  <2> QED BY <1>1, <2>1, GrantedBeside, IdleIsTask, QuietBeside
<1>3. CASE Verifies(q)
  <2> DEFINE user == session[t.cred].user
             as   == [user |-> user, role |-> accounts[user].role]
             n    == [t EXCEPT !.phase = "note", !.as = as]
  <2>1. n.phase = "note" /\ n.cred = t.cred /\ n.as = as
    BY <1>1 DEF IsTask
  <2>2. as.user = user /\ as.role = accounts[user].role
    OBVIOUS
  <2>3. /\ t.cred \in Tokens
        /\ Becomes(q, Idle) \/ (Becomes(q, n) /\ session[t.cred] # None /\ Active(user))
    BY <1>3 DEF Verifies
  <2> HIDE DEF n, as
  <2>4. session[t.cred] # None /\ Active(user) => Sure(n)
    BY <2>1, <2>2 DEF Sure, Covered, Right
  <2>5. DOMAIN cache' = Tokens
    BY <1>1 DEF SessionInv, Tabled, Quiet
  <2>6. CASE Becomes(q, n) /\ session[t.cred] # None /\ Active(user)
    <3>1. n.phase = "note" => n.cred \in Tokens /\ Sure(n)
      BY <2>1, <2>3, <2>4, <2>6
    <3>2. \A k \in Tokens : cache'[k] = cache[k]
      BY <1>1 DEF Quiet
    <3> QED BY <1>1, <2>1, <2>5, <2>6, <3>1, <3>2, Beside DEF Quiet
  <2> QED BY <1>1, <2>3, <2>6, IdleIsTask, QuietBeside
<1> QED BY <1>2, <1>3

\* An answer is kept as it was read.
LEMMA NotesBeside ==
    ASSUME DeskInv, SessionInv, NEW q \in Requests, Notes(q)
    PROVE  SessionInv'
<1> DEFINE t == task[q]
           note == [user |-> t.as.user, role |-> t.as.role, late |-> t.late]
<1>1. /\ IsTask(t) /\ t.phase = "note" /\ cache' = [cache EXCEPT ![t.cred] = note]
      /\ Becomes(q, Granted(t, note))
      /\ UNCHANGED <<accounts, session, used, slow>> /\ broken \subseteq broken'
  BY DEF DeskInv, Tasked, Notes, people, seen
<1>2. Sure(t) /\ DOMAIN cache' = Tokens
  BY <1>1 DEF SessionInv, Tabled, Seen
<1>3. note.late = t.late /\ note.user = t.as.user /\ note.role = t.as.role
  OBVIOUS
<1> HIDE DEF note
<1>4. Backed(t.cred, note)
  BY <1>2, <1>3, Zenon DEF Backed, Sure
<1>5. \A k \in Tokens : cache'[k] = cache[k] \/ \E c : cache'[k] = c /\ Backed(k, c)
  BY <1>1, <1>4 DEF SessionInv, Tabled
<1>6. Granted(t, note).phase \notin {"open", "note"}
  BY <1>1, GrantedBeside
<1> QED BY <1>1, <1>2, <1>5, <1>6, Beside

\* The account a login names is one the controller may have.
LEMMA ReadsBeside ==
    ASSUME DeskInv, EditorInv, SessionInv, NEW q \in Requests, Reads(q)
    PROVE  SessionInv'
<1> DEFINE t == task[q]
           user == IF t.op = "login" THEN t.of ELSE t.as.user
           p    == IF t.op = "login" THEN "open" ELSE "change"
           u    == [t EXCEPT !.phase = p, !.as = [user |-> user, role |-> accounts[user].role]]
<1>1. /\ IsTask(t) /\ Fits(t) /\ t.phase = "credentials" /\ Quiet
      /\ Becomes(q, Idle) \/ Becomes(q, u)
  BY DEF DeskInv, Tasked, EditorInv, Meant, Reads, people, seen, Quiet
<1>2. u.phase = p /\ u.as.user = user
  BY <1>1 DEF IsTask
<1>3. t.op = "login" => user \in Users
  BY <1>1 DEF Fits, Typed
<1> HIDE DEF u
<1>4. DOMAIN cache' = Tokens /\ \A k \in Tokens : cache'[k] = cache[k]
  BY <1>1 DEF SessionInv, Tabled, Quiet
<1>5. CASE Becomes(q, u)
  BY <1>1, <1>2, <1>3, <1>4, <1>5, Beside DEF Quiet
<1> QED BY <1>1, <1>5, IdleIsTask, QuietBeside

\* Checks, keys and settings.
LEMMA OthersBeside ==
    ASSUME DeskInv, SessionInv, NEW q \in Requests,
           \/ Targets(q) \/ Guards(q) \/ ChangesKey(q) \/ Applies(q) \/ Saves(q)
           \/ Fails(q) /\ task[q].phase # "close"
    PROVE  SessionInv'
<1>1. Quiet /\ task[q].phase \notin {"forget", "close"}
  BY DEF Targets, Guards, ChangesKey, Applies, Saves, Fails, Quiet, people, seen
<1>2. Ends(q) \/ \E p : To(q, p) /\ p \notin {"open", "note"}
  BY DEF Targets, Guards, ChangesKey, Applies, Saves, Fails
<1> QED BY <1>1, <1>2, ToBeside

\* A closing cut short is told by broken.
LEMMA CutsBeside ==
    ASSUME DeskInv, SessionInv, NEW q \in Requests, Fails(q), task[q].phase = "close"
    PROVE  SessionInv'
<1> DEFINE t == task[q]
<1>1. /\ UNCHANGED <<accounts, session, used, slow, cache>> /\ broken' = broken \cup Cut({q})
      /\ Becomes(q, Idle)
  BY DEF Fails, people, Ends, Becomes
<1>2. \A r \in Requests : task'[r] = IF r = q THEN Idle ELSE task[r]
  BY <1>1 DEF Becomes, DeskInv, Tasked
<1>3. Tabled'
  BY <1>1, <1>2, IdleIsTask DEF SessionInv, Tabled
<1>4. Forgetting => Forgetting'
  BY <1>2 DEF Forgetting
<1>5. \A k, user, role : Right(k, user, role) <=> Right(k, user, role)'
  BY <1>1 DEF Right, Active
<1>6. Seen'
  BY <1>1, <1>2, <1>4, <1>5, IdleIsTask, SeenKept DEF SessionInv
<1>7. ASSUME NEW k \in Tokens, session[k] # None, NEW r \in Requests, Leaves(task[r], k)
      PROVE  Leaves(task[r], k)' \/ session[k].user \in broken'
  <2>1. CASE r = q
    <3>1. session[k].user \in Users
      BY <1>7 DEF SessionInv, Tabled
    <3>2. session[k].user \in Cut({q})
      BY <1>7, <2>1, <3>1 DEF Leaves, Cut
    <3> QED BY <1>1, <3>2
  <2>2. CASE r # q
    BY <1>1, <1>2, <1>7, <2>2 DEF Leaves
  <2> QED BY <2>1, <2>2
<1>8. Settled'
  BY <1>1, <1>7, SettledKept DEF SessionInv
<1> QED BY <1>3, <1>6, <1>8 DEF SessionInv

\* An entry of the memory grows old; nothing happens.
LEMMA GrowsOldBeside ==
    ASSUME DeskInv, SessionInv, UNCHANGED vars \/ \E k \in Tokens : GrowsOld(k)
    PROVE  SessionInv'
<1>1. /\ UNCHANGED <<accounts, session, used, slow, broken, task>>
      /\ DOMAIN cache' = Tokens
      /\ \A k \in Tokens : cache'[k] # None => cache'[k] = cache[k]
  BY DEF GrowsOld, vars, people, seen, SessionInv, Tabled
<1>2. Tabled'
  BY <1>1 DEF SessionInv, Tabled
<1>3. Forgetting => Forgetting'
  BY <1>1 DEF Forgetting
<1>4. \A k, user, role : Right(k, user, role) <=> Right(k, user, role)'
  BY <1>1 DEF Right, Active
<1>5. Seen'
  BY <1>1, <1>3, <1>4, SeenKept DEF SessionInv
<1>6. Settled'
  BY <1>1, SettledKept DEF SessionInv, Leaves
<1> QED BY <1>2, <1>5, <1>6 DEF SessionInv

\* The memory emptied: what was read before is marked, and what has still to
\* close sessions closes them next.
LEMMA ForgetsBeside ==
    ASSUME DeskInv, SessionInv, NEW q \in Requests, Forgets(q)
    PROVE  SessionInv'
<1> DEFINE t == task[q]
           closing == [t EXCEPT !.phase = "close"]
<1>1. /\ UNCHANGED <<accounts, session, used, broken>> /\ cache' = Forgotten
      /\ t.phase = "forget" /\ IsTask(t)
  BY DEF Forgets, people, DeskInv, Tasked
<1>2. \A r \in Requests :
          /\ task'[r] = IF r = q THEN IF ClosesSessions(t) THEN closing ELSE Idle
                        ELSE IF task[r].phase = "note" THEN [task[r] EXCEPT !.late = TRUE] ELSE task[r]
  BY DEF Forgets
<1>3. /\ closing.phase = "close" /\ closing.op = t.op /\ closing.of = t.of
      /\ closing.arg = t.arg /\ closing.as = t.as /\ closing.cred = t.cred
  BY <1>1 DEF IsTask
<1> HIDE DEF closing
<1>4. ASSUME NEW r \in Requests
      PROVE  /\ task'[r].phase = "open" => task'[r] = task[r]
             /\ task'[r].phase = "note" => /\ task'[r].late /\ task[r].phase = "note"
                                           /\ task'[r].cred = task[r].cred
  <2> DEFINE l == [task[r] EXCEPT !.late = TRUE]
  <2>1. l.phase = task[r].phase /\ l.cred = task[r].cred /\ (l.late <=> TRUE)
    BY DEF DeskInv, Tasked, IsTask
  <2>2. task'[r] \in {closing, Idle} \/ (task'[r] = l /\ task[r].phase = "note")
        \/ (task'[r] = task[r] /\ task[r].phase # "note")
    BY <1>2
  <2> HIDE DEF l
  <2> QED BY <1>3, <2>1, <2>2, IdleIsTask
<1>5. Tabled'
  BY <1>1, <1>4 DEF SessionInv, Tabled, Forgotten
<1>6. Seen'
  BY <1>1, <1>4 DEF Seen, Sure, Forgotten
<1>7. ASSUME NEW k \in Tokens, NEW r \in Requests, Leaves(task[r], k)
      PROVE  Leaves(task[r], k)'
  <2>1. CASE r = q
    <3>1. ClosesSessions(t)
      BY <1>7, <2>1 DEF Leaves, ClosesSessions
    <3>2. task'[r] = closing
      BY <1>2, <2>1, <3>1
    <3> QED BY <1>1, <1>3, <1>7, <2>1, <3>2 DEF Leaves
  <2>2. CASE r # q
    <3>1. task'[r] = task[r]
      BY <1>2, <1>7, <2>2 DEF Leaves
    <3> QED BY <1>1, <1>7, <3>1 DEF Leaves
  <2> QED BY <2>1, <2>2
<1>8. Settled'
  BY <1>1, <1>7, SettledKept DEF SessionInv
<1> QED BY <1>5, <1>6, <1>8 DEF SessionInv

\* Every request is cut, and told by broken.
LEMMA RestartsBeside ==
    ASSUME DeskInv, SessionInv, Restarts
    PROVE  SessionInv'
<1>1. /\ UNCHANGED <<accounts, session, used>> /\ cache' = Forgotten
      /\ task' = [q \in Requests |-> Idle] /\ broken' = broken \cup Cut(Requests)
  BY DEF Restarts, people
<1>2. \A r \in Requests : task'[r] = Idle
  BY <1>1
<1>3. Tabled'
  BY <1>1, <1>2, IdleIsTask DEF SessionInv, Tabled, Forgotten
<1>4. Seen'
  BY <1>1, <1>2, IdleIsTask DEF Seen, Forgotten
<1>5. ASSUME NEW k \in Tokens, session[k] # None, NEW r \in Requests, Leaves(task[r], k)
      PROVE  session[k].user \in broken'
  <2>1. session[k].user \in Users
    BY <1>5 DEF SessionInv, Tabled
  <2>2. session[k].user \in Cut(Requests)
    BY <1>5, <2>1 DEF Leaves, Cut
  <2> QED BY <1>1, <2>2
<1>6. Settled'
  BY <1>1, <1>5, SettledKept DEF SessionInv
<1> QED BY <1>3, <1>4, <1>6 DEF SessionInv

\* Sessions are closed: they are told by slow, or the memory is to be emptied.
LEMMA ClosingBeside ==
    ASSUME DeskInv, SessionInv, UNCHANGED <<accounts, used, cache, broken>>, slow \subseteq slow',
           DOMAIN session' = Tokens,
           \A k \in Tokens : session'[k] # None => session'[k] = session[k],
           Forgetting \/ ~(\A k \in Tokens : session[k] # None /\ session'[k] = None => k \in slow')
               => Forgetting',
           \A r \in Requests : task'[r].phase \in {"open", "note"} => task'[r] = task[r],
           \A r \in Requests : \A k \in Tokens :
               Leaves(task[r], k) /\ session'[k] # None => Leaves(task[r], k)'
    PROVE  SessionInv'
<1>1. Tabled'
  BY DEF SessionInv, Tabled
<1>2. \A k \in Tokens : \A user, role :
          Right(k, user, role) => Right(k, user, role)' \/ k \in slow' \/ Forgetting'
  BY DEF Right, Active
<1>3. Seen'
  BY <1>2, SeenKept DEF SessionInv
<1>4. Settled'
  BY SettledKept DEF SessionInv
<1> QED BY <1>1, <1>3, <1>4 DEF SessionInv

LEMMA ClosesBeside ==
    ASSUME DeskInv, SessionInv, NEW q \in Requests, Trims(q) \/ Closes(q) \/ ClosesOwn(q)
    PROVE  SessionInv'
<1> DEFINE t == task[q]
<1>1. IsTask(t) /\ t.phase \in {"trim", "close", "act"}
  BY DEF DeskInv, Tasked, Trims, Closes, ClosesOwn
<1>2. PICK closed : session' = Without(closed)
  BY DEF Trims, Closes, ClosesOwn
<1>3. /\ UNCHANGED <<accounts, used, cache, broken>> /\ slow \subseteq slow'
      /\ DOMAIN session' = Tokens
      /\ \A k \in Tokens : session'[k] # None => session'[k] = session[k]
  BY <1>2 DEF Trims, Closes, ClosesOwn, people, seen, Without
<1>4. PICK u : Becomes(q, u) /\ (u = Idle \/ (u = [t EXCEPT !.phase = "forget"] /\ ClosesOwn(q)))
  BY DEF Trims, Closes, ClosesOwn, Ends, To, Becomes
<1>5. u.phase \in {"idle", "forget"} /\ (u # Idle => u.phase = "forget")
  BY <1>1, <1>4, IdleIsTask DEF IsTask
<1>6. \A r \in Requests : task'[r] = IF r = q THEN u ELSE task[r]
  BY <1>4 DEF Becomes, DeskInv, Tasked
<1>7. ~(\A k \in Tokens : session[k] # None /\ session'[k] = None => k \in slow') => Forgetting'
  <2>1. CASE Trims(q) \/ Closes(q)
    BY <2>1 DEF Trims, Closes, Without
  <2>2. CASE ClosesOwn(q)
    <3>1. CASE u = Idle
      <4>1. Ends(q) \/ To(q, "forget")
        BY <2>2 DEF ClosesOwn
      <4>2. ~To(q, "forget")
        BY <1>1, <1>4, <3>1, IdleIsTask DEF To, Becomes, IsTask, DeskInv, Tasked
      <4>3. session' = Without({})
        BY <2>2, <4>2 DEF ClosesOwn
      <4> QED BY <4>3 DEF Without
    <3>2. CASE u # Idle
      BY <1>5, <1>6, <3>2 DEF Forgetting
    <3> QED BY <3>1, <3>2
  <2> QED BY <2>1, <2>2
<1>8. Forgetting => Forgetting'
  BY <1>1, <1>6 DEF Forgetting
<1>9. ASSUME NEW r \in Requests, NEW k \in Tokens, Leaves(task[r], k), session'[k] # None
      PROVE  Leaves(task[r], k)'
  <2>1. CASE r = q
    <3>1. t.phase = "close" /\ session[k] # None
      BY <1>1, <1>3, <1>9, <2>1 DEF Leaves
    <3>2. session' = Without(Closing(t))
      BY <3>1 DEF Trims, Closes, ClosesOwn
    <3>3. k \in Closing(t)
      BY <1>9, <2>1, <3>1 DEF Leaves, Closing, SessionsOf
    <3> QED BY <1>9, <3>2, <3>3 DEF Without
  <2>2. CASE r # q
    BY <1>3, <1>6, <1>9, <2>2 DEF Leaves
  <2> QED BY <2>1, <2>2
<1>10. \A r \in Requests : task'[r].phase \in {"open", "note"} => task'[r] = task[r]
  BY <1>5, <1>6
<1> QED BY <1>3, <1>7, <1>8, <1>9, <1>10, ClosingBeside

LEMMA ExpiresBeside ==
    ASSUME DeskInv, SessionInv, NEW x \in Tokens, Expires(x)
    PROVE  SessionInv'
<1>1. /\ UNCHANGED <<accounts, used, cache, broken, task>> /\ slow' = slow \cup {x}
      /\ DOMAIN session' = Tokens
      /\ \A k \in Tokens : session'[k] = IF k = x THEN None ELSE session[k]
  BY DEF Expires, Without
<1>2. Forgetting => Forgetting'
  BY <1>1 DEF Forgetting
<1>3. ASSUME NEW r \in Requests, NEW k \in Tokens, Leaves(task[r], k), session'[k] # None
      PROVE  Leaves(task[r], k)'
  BY <1>1, <1>3 DEF Leaves
<1> QED BY <1>1, <1>2, <1>3, ClosingBeside

\* A session opened: its account is there, and a crossed password is told.
LEMMA OpensBeside ==
    ASSUME DeskInv, SessionInv, NEW q \in Requests, NEW x \in Tokens, Opens(q, x)
    PROVE  SessionInv'
<1> DEFINE t    == task[q]
           user == t.as.user
           row  == [user |-> user, pw |-> t.arg.current, n |-> Cardinality(used)]
<1>0. t.phase = "open" /\ x \notin used /\ UNCHANGED <<accounts, cache, slow>>
  BY DEF Opens
<1>1. user \in Users
  BY <1>0 DEF SessionInv, Tabled
<1>2. CASE accounts[user] = None
  BY <1>0, <1>2, ToBeside DEF Opens, Quiet
<1>3. CASE accounts[user] # None
  <2> DEFINE u == [t EXCEPT !.phase = "trim"]
  <2>1. /\ session' = [session EXCEPT ![x] = row] /\ used' = used \cup {x}
        /\ broken' = broken \cup (IF accounts[user].pw # t.arg.current THEN {user} ELSE {})
        /\ Becomes(q, u)
    BY <1>3 DEF Opens, To, Becomes
  <2>2. u.phase = "trim"
    BY DEF DeskInv, Tasked, IsTask
  <2> HIDE DEF u
  <2>3. \A r \in Requests : task'[r] = IF r = q THEN u ELSE task[r]
    BY <2>1 DEF Becomes, DeskInv, Tasked
  <2>4. row.user = user /\ row.pw = t.arg.current /\ DOMAIN row = {"user", "pw", "n"}
    OBVIOUS
  <2> HIDE DEF row
  <2>5. /\ DOMAIN session' = Tokens /\ session[x] = None /\ session'[x] = row
        /\ \A k \in Tokens \ {x} : session'[k] = session[k]
    BY <1>0, <1>1, <2>1 DEF SessionInv, Tabled
  <2>6. Tabled'
    BY <1>0, <1>1, <1>3, <2>1, <2>2, <2>3, <2>4, <2>5 DEF SessionInv, Tabled
  <2>7. Forgetting => Forgetting'
    BY <1>0, <1>1, <2>3 DEF Forgetting
  <2>8. \A k \in Tokens : \A c, role : Right(k, c, role) => Right(k, c, role)'
    BY <1>0, <1>1, <2>5 DEF Right, Active
  <2>9. Seen'
    BY <1>0, <1>1, <2>2, <2>3, <2>7, <2>8, SeenKept DEF SessionInv
  <2>10. Current(x)'
    BY <1>0, <1>1, <2>1, <2>4, <2>5 DEF Current
  <2>11. ASSUME NEW r \in Requests, NEW k \in Tokens \ {x}, Leaves(task[r], k)
         PROVE  Leaves(task[r], k)'
    BY <1>0, <1>1, <2>1, <2>5, <2>11, LeavesStay
  <2>12. Settled'
    BY <1>0, <1>1, <2>1, <2>5, <2>10, <2>11, SettledKept DEF SessionInv
  <2> QED BY <2>6, <2>9, <2>12 DEF SessionInv
<1> QED BY <1>2, <1>3

\* The accounts change and the sessions of those that change are none, or stay
\* with the answers about them right, or the memory is to be emptied.
LEMMA AccountsBeside ==
    ASSUME DeskInv, SessionInv, NEW q \in Requests, NEW t, Becomes(q, t), t.phase # "note",
           UNCHANGED <<used, cache, slow, broken>>,
           task[q].phase \notin {"forget", "close"}, t.phase = "open" => t.as.user \in Users,
           DOMAIN session' = Tokens,
           \A k \in Tokens : session'[k] # None =>
               /\ session[k] # None /\ DOMAIN session'[k] = DOMAIN session[k]
               /\ session'[k].user = session[k].user
               /\ accounts'[session[k].user] # None
               /\ \/ Current(k)'
                  \/ /\ session'[k].pw = session[k].pw
                     /\ accounts'[session[k].user].pw = accounts[session[k].user].pw,
           \/ t.phase = "forget"
           \/ \A k \in Tokens : \A user, role : Right(k, user, role) => Right(k, user, role)'
    PROVE  SessionInv'
<1>1. \A r \in Requests : task'[r] = IF r = q THEN t ELSE task[r]
  BY DEF Becomes, DeskInv, Tasked
<1>2. Tabled'
  BY <1>1 DEF SessionInv, Tabled
<1>3. Forgetting \/ t.phase = "forget" => Forgetting'
  BY <1>1 DEF Forgetting
<1>4. Seen'
  BY <1>1, <1>3, SeenKept DEF SessionInv
<1>5. Settled'
  BY LeavesStay, SettledKept DEF SessionInv
<1> QED BY <1>2, <1>4, <1>5 DEF SessionInv

\* A new account has no session yet.
LEMMA BirthsBeside ==
    ASSUME DeskInv, EditorInv, SessionInv, NEW q \in Requests, CreatesFirst(q) \/ Creates(q)
    PROVE  SessionInv'
<1> DEFINE t == task[q]
           o == [t EXCEPT !.phase = "open", !.as = [user |-> t.of, role |-> "edit"]]
<1>1. IsTask(t) /\ t.of \in Users /\ t.phase = "act"
  BY DEF DeskInv, Tasked, EditorInv, Meant, Fits, Typed, CreatesFirst, Creates
<1>2. o.phase = "open" /\ o.as.user = t.of
  BY <1>1 DEF IsTask
<1>3. PICK a : /\ accounts' = IF accounts[t.of] = None THEN a ELSE accounts
               /\ accounts[t.of] = None =>
                     a = accounts \/ \E new \in Account : a = [accounts EXCEPT ![t.of] = new]
  <2>1. CASE CreatesFirst(q)
    <3> DEFINE new == [role |-> "edit", disabled |-> FALSE, pw |-> t.arg.current]
    <3>1. new \in Account
      BY <2>1 DEF CreatesFirst, Account, Roles, EditorInv, Meant, Fits, Typed
    <3>2. accounts' = accounts \/ (accounts[t.of] = None /\ accounts' = [accounts EXCEPT ![t.of] = new])
      BY <1>1, <2>1 DEF CreatesFirst
    <3> QED BY <3>1, <3>2
  <2>2. CASE Creates(q)
    <3> DEFINE new == [role |-> t.arg.role, disabled |-> FALSE, pw |-> t.arg.pw]
    <3>1. new \in Account
      BY <2>2 DEF Creates, Account, EditorInv, Meant, Fits, Typed
    <3>2. accounts' = accounts \/ (accounts[t.of] = None /\ accounts' = [accounts EXCEPT ![t.of] = new])
      BY <2>2 DEF Creates
    <3> QED BY <3>1, <3>2
  <2> QED BY <2>1, <2>2
<1>4. UNCHANGED <<session, used, cache, slow, broken>>
  BY DEF CreatesFirst, Creates, people, seen
<1>5. \A u \in Users : accounts[u] # None => accounts'[u] = accounts[u]
  BY <1>1, <1>3 DEF EditorInv
<1>6. Becomes(q, Idle) \/ Becomes(q, o)
  BY DEF CreatesFirst, Creates, Ends, Becomes
<1> HIDE DEF o
<1>7. \A k \in Tokens : session[k] # None =>
          /\ accounts'[session[k].user] = accounts[session[k].user]
          /\ accounts[session[k].user] # None
  BY <1>5 DEF SessionInv, Tabled
<1>8. \A k \in Tokens : \A user, role : Right(k, user, role) => Right(k, user, role)'
  BY <1>4, <1>7 DEF Right, Active
<1>9. DOMAIN session' = Tokens
  BY <1>4 DEF SessionInv, Tabled
<1>10. PICK n : Becomes(q, n) /\ n \in {Idle, o}
  BY <1>6
<1>11. n.phase # "note" /\ (n.phase = "open" => n.as.user \in Users)
  BY <1>1, <1>2, <1>10, IdleIsTask
<1> QED BY <1>1, <1>4, <1>7, <1>8, <1>9, <1>10, <1>11, AccountsBeside

\* A password changed: the session that changed it has proved it, the others of
\* the account are to be closed.
LEMMA ChangesBeside ==
    ASSUME DeskInv, EditorInv, SessionInv, NEW q \in Requests, Changes(q)
    PROVE  SessionInv'
<1> DEFINE t == task[q]
           u == t.as.user
           x == [t EXCEPT !.phase = "forget"]
<1>1. IsTask(t) /\ t.phase = "change" /\ t.op = "password" /\ UNCHANGED <<used, cache, slow, broken>>
  BY DEF DeskInv, Tasked, EditorInv, Meant, Fits, Changes, seen
<1>2. CASE accounts[u] = None
  BY <1>1, <1>2, ToBeside DEF Changes, Quiet
<1>3. CASE accounts[u] # None
  <2>1. /\ x.phase = "forget" /\ x.op = "password" /\ x.as.user = u /\ x.cred = t.cred
    BY <1>1 DEF IsTask
  <2>2. /\ Becomes(q, x) /\ accounts' = [accounts EXCEPT ![u].pw = t.arg.new]
        /\ \A k \in Tokens : session[k] = None => session'[k] = None
        /\ DOMAIN session' = Tokens
    BY <1>3 DEF Changes, To, Becomes
  <2>3. ASSUME NEW k \in Tokens, session[k] # None
        PROVE  /\ DOMAIN session'[k] = DOMAIN session[k] /\ session'[k].user = session[k].user
               /\ session'[k].pw = IF k = t.cred /\ session[k].user = u THEN t.arg.new
                                   ELSE session[k].pw
    BY <1>3, <2>3 DEF Changes, SessionsOf, SessionInv, Tabled
  <2> HIDE DEF x
  <2>4. \A r \in Requests : task'[r] = IF r = q THEN x ELSE task[r]
    BY <2>2 DEF Becomes, DeskInv, Tasked
  <2>5. ASSUME u \in Users
        PROVE  accounts'[u] # None /\ accounts'[u].pw = t.arg.new
    <3>1. accounts[u] \in Account /\ t.arg.new \in Passwords
      BY <1>1, <1>3, <2>5, EditorIs DEF EditorInv, DeskInv, Meant, Fits, Typed
    <3>2. accounts'[u] = [accounts[u] EXCEPT !.pw = t.arg.new]
      BY <2>2, <2>5 DEF EditorInv
    <3>3. accounts'[u] \in Account /\ accounts'[u].pw = t.arg.new
      BY <3>1, <3>2 DEF Account
    <3> QED BY <3>3, DeskAssumption
  <2>6. \A v \in Users \ {u} : accounts'[v] = accounts[v]
    BY <2>2 DEF EditorInv
  <2>7. ASSUME NEW k \in Tokens, session'[k] # None
        PROVE  /\ session[k] # None /\ DOMAIN session'[k] = DOMAIN session[k]
               /\ session'[k].user = session[k].user
               /\ accounts'[session[k].user] # None
               /\ \/ Current(k)'
                  \/ /\ session'[k].pw = session[k].pw
                     /\ accounts'[session[k].user].pw = accounts[session[k].user].pw
    <3>1. session[k] # None /\ session[k].user \in Users /\ accounts[session[k].user] # None
      BY <2>2, <2>7 DEF SessionInv, Tabled
    <3>2. CASE session[k].user # u
      BY <2>3, <2>6, <3>1, <3>2
    <3>3. CASE session[k].user = u /\ k = t.cred
      <4>1. Current(k)'
        BY <2>3, <2>5, <3>1, <3>3 DEF Current
      <4> QED BY <2>3, <2>5, <3>1, <3>3, <4>1
    <3>4. CASE session[k].user = u /\ k # t.cred
      <4>1. Leaves(task[q], k)'
        BY <2>1, <2>3, <2>4, <3>1, <3>4 DEF Leaves
      <4>2. Current(k)'
        BY <4>1 DEF Current
      <4> QED BY <2>3, <2>5, <3>1, <3>4, <4>2
    <3> QED BY <3>2, <3>3, <3>4
  <2> QED BY <1>1, <2>1, <2>2, <2>7, AccountsBeside
<1> QED BY <1>2, <1>3

\* An account rewritten, and its sessions to be closed if its password is
\* another; or deleted, and its sessions with it.
LEMMA WritesBeside ==
    ASSUME DeskInv, EditorInv, SessionInv, NEW q \in Requests, Writes(q)
    PROVE  SessionInv'
<1> DEFINE t == task[q]
           u == t.of
           x == [t EXCEPT !.phase = "forget"]
           new == IF t.op = "delete" THEN None ELSE Updated(accounts[u], t.arg)
<1>1. /\ IsTask(t) /\ Typed(t) /\ u \in Users /\ t.phase = "write" /\ t.op \in {"update", "delete"}
      /\ UNCHANGED <<used, cache, slow, broken>>
  BY DEF DeskInv, Tasked, EditorInv, Meant, Writes, Fits, Typed
<1>2. CASE accounts[u] = None
  BY <1>1, <1>2, ToBeside DEF Writes, Quiet
<1>3. CASE accounts[u] # None
  <2>1. x.phase = "forget" /\ x.op = t.op /\ x.of = u /\ x.arg = t.arg
    BY <1>1 DEF IsTask
  <2>2. /\ Becomes(q, x) /\ accounts' = [accounts EXCEPT ![u] = new]
        /\ session' = IF t.op = "delete" THEN Without(SessionsOf(u)) ELSE session
    BY <1>3 DEF Writes, To, Becomes
  <2> HIDE DEF x
  <2>3. \A r \in Requests : task'[r] = IF r = q THEN x ELSE task[r]
    BY <2>2 DEF Becomes, DeskInv, Tasked
  <2>4. accounts'[u] = new /\ \A v \in Users \ {u} : accounts'[v] = accounts[v]
    BY <1>1, <2>2 DEF EditorInv
  <2>5. ASSUME t.op = "update"
        PROVE  new # None /\ new.pw = IF t.arg.pw = None THEN accounts[u].pw ELSE t.arg.pw
    <3>1. accounts[u] \in Account
      BY <1>1, <1>3, EditorIs DEF EditorInv
    <3>2. new \in Account
      BY <1>1, <2>5, <3>1 DEF Typed, Updated, Account, Optional
    <3> QED BY <2>5, <3>2, DeskAssumption DEF Updated
  <2> HIDE DEF new
  <2>6. /\ DOMAIN session' = Tokens
        /\ \A k \in Tokens : session'[k] # None =>
              session'[k] = session[k] /\ (t.op = "delete" => session[k].user # u)
    BY <2>2 DEF Without, SessionsOf, SessionInv, Tabled
  <2>7. ASSUME NEW k \in Tokens, session'[k] # None
        PROVE  /\ session[k] # None /\ DOMAIN session'[k] = DOMAIN session[k]
               /\ session'[k].user = session[k].user
               /\ accounts'[session[k].user] # None
               /\ \/ Current(k)'
                  \/ /\ session'[k].pw = session[k].pw
                     /\ accounts'[session[k].user].pw = accounts[session[k].user].pw
    <3>1. /\ session[k] # None /\ session'[k] = session[k]
          /\ session[k].user \in Users /\ accounts[session[k].user] # None
      BY <2>6, <2>7 DEF SessionInv, Tabled
    <3>2. CASE session[k].user # u
      BY <2>4, <3>1, <3>2
    <3>3. CASE session[k].user = u /\ t.arg.pw = None
      BY <1>1, <2>4, <2>5, <2>6, <2>7, <3>1, <3>3
    <3>4. CASE session[k].user = u /\ t.arg.pw # None
      <4>1. t.op = "update"
        BY <1>1, <2>6, <2>7, <3>4
      <4>2. Leaves(task[q], k)'
        BY <2>1, <2>3, <3>1, <3>4, <4>1 DEF Leaves
      <4>3. Current(k)'
        BY <4>2 DEF Current
      <4> QED BY <2>4, <2>5, <3>1, <3>4, <4>1, <4>3
    <3> QED BY <3>2, <3>3, <3>4
  <2> QED BY <1>1, <2>1, <2>2, <2>6, <2>7, AccountsBeside
<1> QED BY <1>2, <1>3

LEMMA InitSession == Init => SessionInv
<1> SUFFICES ASSUME Init PROVE SessionInv
  OBVIOUS
<1>1. PICK s \in Starts : /\ accounts = s.accounts /\ session = s.session
                          /\ used = {k \in Tokens : s.session[k] # None}
  BY DEF Init
<1>2. cache = [k \in Tokens |-> None] /\ task = [q \in Requests |-> Idle]
  BY DEF Init
<1>3. \A q \in Requests : task[q].phase = "idle"
  BY <1>2, IdleIsTask
<1>4. /\ session \in [Tokens -> Optional([user : Users, pw : Passwords, n : Nat])]
      /\ \A k \in Tokens : session[k] # None =>
            accounts[session[k].user] # None /\ accounts[session[k].user].pw = session[k].pw
  BY <1>1, DeskAssumption
<1>5. Tabled
  BY <1>1, <1>2, <1>3, <1>4 DEF Tabled, Optional
<1>6. Seen
  BY <1>2, <1>3 DEF Seen
<1>7. Settled
  BY <1>4 DEF Settled, Current
<1> QED BY <1>5, <1>6, <1>7 DEF SessionInv

LEMMA NextSession == DeskInv /\ EditorInv /\ SessionInv /\ [Next]_vars => SessionInv'
<1> SUFFICES ASSUME DeskInv, EditorInv, SessionInv, [Next]_vars PROVE SessionInv'
  OBVIOUS
<1>1. ASSUME NEW q \in Requests,
             \/ \E ask \in asked : Begins(q, ask)
             \/ Verifies(q) \/ VerifiesKey(q) \/ Notes(q) \/ Forgets(q) \/ Reads(q)
      PROVE  SessionInv'
  BY <1>1, BeginsBeside, VerifiesBeside, NotesBeside, ForgetsBeside, ReadsBeside
<1>2. ASSUME NEW q \in Requests,
             Targets(q) \/ Guards(q) \/ ChangesKey(q) \/ Applies(q) \/ Saves(q) \/ Fails(q)
      PROVE  SessionInv'
  BY <1>2, OthersBeside, CutsBeside
<1>3. ASSUME NEW q \in Requests,
             Trims(q) \/ Closes(q) \/ ClosesOwn(q) \/ \E k \in Tokens : Opens(q, k)
      PROVE  SessionInv'
  BY <1>3, ClosesBeside, OpensBeside
<1>4. ASSUME NEW q \in Requests, CreatesFirst(q) \/ Creates(q) \/ Changes(q) \/ Writes(q)
      PROVE  SessionInv'
  BY <1>4, BirthsBeside, ChangesBeside, WritesBeside
<1>5. ASSUME NEW k \in Tokens, Expires(k)
      PROVE  SessionInv'
  BY <1>5, ExpiresBeside
<1>6. CASE UNCHANGED vars \/ \E k \in Tokens : GrowsOld(k)
  BY <1>6, GrowsOldBeside
<1>7. CASE Restarts
  BY <1>7, RestartsBeside
<1> QED BY <1>1, <1>2, <1>3, <1>4, <1>5, <1>6, <1>7 DEF Next

\* However logins, logouts, changes of accounts, restarts and the memory of the
\* sessions interleave, a session taken from the memory is alive and says the
\* account's role, or the memory is about to be emptied, outside the two named
\* exceptions (current_user, forget_cached_sessions).
THEOREM CacheIsRight == Spec => []TakenAtOnce
<1>1. SessionInv => TakenAtOnce
  BY Zenon DEF SessionInv, Seen, Backed, Covered, Right, Forgetting, TakenAtOnce
<1> QED BY InitDesk, NextKeeps, InitEditor, NextEditor, InitSession, NextSession, <1>1, PTL DEF Spec

\* However many changes of passwords, resets and logins interleave, no session
\* outlives the password it proved, but while a request has it to close, and
\* but for the accounts a cut or a crossed login left (change_my_password,
\* update_user).
THEOREM OldSessionsClose == Spec => []OldPasswordsOut
<1>1. SessionInv => OldPasswordsOut
  <2> SUFFICES ASSUME SessionInv, NEW k \in Tokens, session[k] # None
               PROVE  LET u == session[k].user
                      IN  \/ session[k].pw = accounts[u].pw \/ u \in broken
                          \/ \E q \in Requests : /\ task[q].phase \in {"forget", "close"}
                                                 /\ \/ task[q].op = "update" /\ task[q].of = u
                                                    \/ task[q].op = "password" /\ task[q].as.user = u
    BY DEF OldPasswordsOut
  <2> QED BY DEF SessionInv, Settled, Current, Leaves
<1> QED BY InitDesk, NextKeeps, InitEditor, NextEditor, InitSession, NextSession, <1>1, PTL DEF Spec
=============================================================================
