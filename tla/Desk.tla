-------------------------------- MODULE Desk --------------------------------
(***************************************************************************)
(* What people and applications ask of the controller (api/accounts.py,    *)
(* api/api_keys.py, api/settings.py, db/users_repo.py,                     *)
(* services/runtime_config.py): logins, the sessions verified and kept in  *)
(* memory for a while, the accounts, the keys, the settings.  Every await  *)
(* of a request is a step: two requests interleave anywhere between them.  *)
(***************************************************************************)
EXTENDS Integers, Sequences, FiniteSets

CONSTANTS
    Users,        \* emails
    Tokens,       \* sessions that may be opened; bound: a token is used once
    Keys,         \* API keys
    Passwords,
    Settings,
    Values,       \* the values a row may hold; None is the JSON null
    Requests,     \* the requests in flight at once
    MaxSessions,  \* sessions an account keeps (MAX_SESSIONS_PER_USER)
    Starts,       \* what the database holds at first and what is asked after
    MaxMoves,     \* bound: requests that begin, faults, expirations, restarts
    None

Optional(S) == S \cup {None}
Acceptable == Optional(Values)
NoRow == "no row"
Roles == {"read", "edit"}
Account == [role : Roles, disabled : BOOLEAN, pw : Passwords]

\* What the code reads of a request when it comes.
Typed(ask) ==
    /\ ask.op \in {"login", "setup", "update", "delete", "create"} => ask.of \in Users
    /\ ask.op \in {"login", "setup"} => ask.arg.current \in Passwords
    /\ ask.op = "password" => ask.arg.new \in Passwords
    /\ ask.op = "create" => ask.arg.role \in Roles /\ ask.arg.pw \in Passwords
    /\ ask.op = "update" => /\ ask.arg.role \in Optional(Roles)
                            /\ ask.arg.pw \in Optional(Passwords)
                            /\ ask.arg.disabled \in Optional(BOOLEAN)

ASSUME DeskAssumption ==
    /\ MaxSessions \in Nat \ {0} /\ IsFiniteSet(Users)
    /\ None \notin Users \cup Passwords /\ None \notin Account
    /\ None \notin Roles /\ None \notin BOOLEAN
    /\ NoRow \notin Acceptable
    /\ \A s \in Starts :
          /\ s.valid \in [Settings -> SUBSET Acceptable]
          /\ s.stored \in [Settings -> Acceptable \cup {NoRow}]
          /\ s.accounts \in [Users -> Optional(Account)]
          /\ \/ \E u \in Users : s.accounts[u] # None /\ s.accounts[u].role = "edit"
                                 /\ ~s.accounts[u].disabled
             \/ /\ \A u \in Users : s.accounts[u] = None
                /\ \A k \in Tokens : s.session[k] = None
          /\ s.session \in [Tokens -> Optional([user : Users, pw : Passwords, n : Nat])]
          /\ \A k \in Tokens : s.session[k] # None =>
                LET account == s.accounts[s.session[k].user]
                IN  account # None /\ account.pw = s.session[k].pw
          /\ \A ask \in s.asked : Typed(ask)

VARIABLES
    accounts,  \* user -> None or [role, disabled, pw]
    session,   \* token -> None or [user, pw, n]: pw is the last password it proved
    used,      \* the tokens given so far
    keys,      \* key -> None or [enabled, write]
    stored,    \* the settings in the database: setting -> value, or NoRow
    cache,     \* token -> None or [user, role, late]: sessions seen not long ago
    memory,    \* setting -> the value in force
    default,   \* setting -> what the environment and the code propose
    valid,     \* setting -> the values the code accepts
    task,
    asked,     \* the requests that may begin in this behaviour
    slow,      \* observation: sessions ended since the cache was last emptied
    torn,      \* observation: settings whose value and row were crossed or cut
    crossed,   \* observation: an editor was removed while another removal was checked
    broken,    \* observation: accounts whose request was cut, or was crossed by a login
    moves
options == <<stored, memory, default, valid>>
seen == <<slow, torn, crossed, broken>>
people == <<accounts, session, used>>
vars == <<people, keys, options, cache, task, asked, seen, moves>>

Idle == [phase |-> "idle", op |-> None, cred |-> None, of |-> None, arg |-> None, as |-> None,
         late |-> FALSE]
Active(u) == accounts[u] # None /\ ~accounts[u].disabled
SessionsOf(u) == {k \in Tokens : session[k] # None /\ session[k].user = u}

Editors == {u \in Users : Active(u) /\ accounts[u].role = "edit"}
\* Mutant: a disabled account still counts.
CountAnyState == Cardinality({u \in Users : accounts[u] # None /\ accounts[u].role = "edit"})
CountEditors == Cardinality(Editors)

-----------------------------------------------------------------------------
(* A request: who asks, the session verified or taken from memory, the      *)
(* right, then the handler.                                                *)
NeedEdit == {"update", "delete", "create", "set", "clear", "key"}
NeedPerson == {"update", "delete", "create", "key", "password", "close one", "close others"}
Public == {"login", "setup", "logout"}

First(op) ==
    CASE op \in {"update", "delete"} -> "target"
      [] op \in {"login", "password"} -> "credentials"
      [] op \in {"set", "clear"} -> "apply"
      [] op = "logout" -> "forget"
      [] OTHER -> "act"

\* A read only account changes nothing; a key manages neither people nor keys.
Allowed(op, as) ==
    /\ op \in NeedEdit => as.role = "edit"
    /\ op \in NeedPerson => as.user # None

Granted(t, as) == IF Allowed(t.op, as) THEN [t EXCEPT !.phase = First(t.op), !.as = as] ELSE Idle
Becomes(q, t) == task' = [task EXCEPT ![q] = t]
To(q, phase) == task' = [task EXCEPT ![q].phase = phase]
Ends(q) == task' = [task EXCEPT ![q] = Idle]

Begins(q, ask) ==
    LET t == [Idle EXCEPT !.op = ask.op, !.cred = ask.cred, !.of = ask.of, !.arg = ask.arg]
    IN  /\ task[q] = Idle /\ moves > 0 /\ moves' = moves - 1
        /\ Becomes(q, IF ask.op \in Public THEN [t EXCEPT !.phase = First(ask.op)]
                      ELSE IF ask.cred \in {k \in Tokens : cache[k] # None}
                      THEN Granted(t, cache[ask.cred])
                      ELSE [t EXCEPT !.phase = "verify"])
        /\ UNCHANGED <<people, keys, options, cache, asked, seen>>

\* The session in the database, its account neither deleted nor disabled.
Verifies(q) ==
    LET t == task[q]
        user == session[t.cred].user
    IN  /\ t.phase = "verify" /\ t.cred \in Tokens
        /\ Becomes(q, IF session[t.cred] = None \/ ~Active(user) THEN Idle
                      ELSE [t EXCEPT !.phase = "note",
                                     !.as = [user |-> user, role |-> accounts[user].role]])
        /\ UNCHANGED <<people, keys, options, cache, asked, seen, moves>>

\* The answer is kept in memory when it comes; late tells that the memory was
\* emptied, or the session ended, since it was read.
Notes(q) ==
    LET t == task[q]
        note == [user |-> t.as.user, role |-> t.as.role, late |-> t.late]
    IN  /\ t.phase = "note"
        /\ cache' = [cache EXCEPT ![t.cred] = note] /\ Becomes(q, Granted(t, note))
        /\ UNCHANGED <<people, keys, options, asked, seen, moves>>

\* A key is read at each request.
VerifiesKey(q) ==
    LET t == task[q]
        key == keys[t.cred]
    IN  /\ t.phase = "verify" /\ t.cred \in Keys
        /\ Becomes(q, IF key = None \/ ~key.enabled THEN Idle
                      ELSE Granted(t, [user |-> None, role |-> IF key.write THEN "edit" ELSE "read",
                                       late |-> FALSE]))
        /\ UNCHANGED <<people, keys, options, cache, asked, seen, moves>>

\* Mutant: the memory is kept.
NotForgotten == cache
Forgotten == [k \in Tokens |-> None]

\* Who removes an active editor: by another role, disabled or deleted.
Loses(t) ==
    \/ t.op = "delete"
    \/ t.op = "update" /\ (t.arg.role = "read" \/ t.arg.disabled = TRUE)

\* Mutant: a new password leaves the sessions opened with the old one.
ClosesIfLoses(t) == t.op \in {"logout", "password"} \/ (t.op = "update" /\ Loses(t))
ClosesSessions(t) ==
    \/ t.op \in {"logout", "password"}
    \/ t.op = "update" /\ (t.arg.pw # None \/ Loses(t))

\* The memory is emptied, before the sessions are closed when both are done.
Forgets(q) ==
    LET t == task[q]
    IN  /\ t.phase = "forget"
        /\ cache' = Forgotten /\ slow' = {}
        /\ task' = [r \in Requests |->
              IF r = q THEN IF ClosesSessions(t) THEN [t EXCEPT !.phase = "close"] ELSE Idle
              ELSE IF task[r].phase = "note" THEN [task[r] EXCEPT !.late = TRUE] ELSE task[r]]
        /\ UNCHANGED <<people, keys, options, asked, torn, crossed, broken, moves>>

-----------------------------------------------------------------------------
(* Logging in and out, one's own sessions and password.                    *)
Without(closed) == [k \in Tokens |-> IF k \in closed THEN None ELSE session[k]]

Reads(q) ==
    LET t == task[q]
        user == IF t.op = "login" THEN t.of ELSE t.as.user
        right == /\ accounts[user] # None => accounts[user].pw = t.arg.current
                 /\ t.op = "login" => Active(user)
                 /\ t.op = "password" => t.arg.new # t.arg.current
    IN  /\ t.phase = "credentials"
        /\ Becomes(q, IF accounts[user] = None \/ ~right THEN Idle
                      ELSE [t EXCEPT !.phase = IF t.op = "login" THEN "open" ELSE "change",
                                     !.as = [user |-> user, role |-> accounts[user].role]])
        /\ UNCHANGED <<people, keys, options, cache, asked, seen, moves>>

\* The first account, in one transaction.
CreatesFirst(q) ==
    LET t == task[q]
        free == \A u \in Users : accounts[u] = None
    IN  /\ t.op = "setup" /\ t.phase = "act"
        /\ accounts' = IF free THEN [accounts EXCEPT ![t.of] =
                                       [role |-> "edit", disabled |-> FALSE, pw |-> t.arg.current]]
                       ELSE accounts
        /\ Becomes(q, IF free THEN [t EXCEPT !.phase = "open", !.as = [user |-> t.of, role |-> "edit"]]
                      ELSE Idle)
        /\ UNCHANGED <<session, used, keys, options, cache, asked, seen, moves>>

\* The row of the session refers to the account: it must still be there.
Opens(q, k) ==
    LET user == task[q].as.user
        proved == task[q].arg.current
    IN  /\ task[q].phase = "open" /\ k \notin used
        /\ IF accounts[user] = None THEN Ends(q) /\ UNCHANGED <<session, used, broken>>
           ELSE /\ session' = [session EXCEPT ![k] = [user |-> user, pw |-> proved,
                                                      n |-> Cardinality(used)]]
                /\ used' = used \cup {k}
                /\ broken' = broken \cup (IF accounts[user].pw # proved THEN {user} ELSE {})
                /\ To(q, "trim")
        /\ UNCHANGED <<accounts, keys, options, cache, asked, slow, torn, crossed, moves>>

Kept(mine) == {k \in mine : Cardinality({j \in mine : session[j].n > session[k].n}) < MaxSessions}

\* The oldest sessions beyond the limit; the memory is left as it is.
Trims(q) ==
    LET mine == SessionsOf(task[q].as.user)
        closed == mine \ Kept(mine)
    IN  /\ task[q].phase = "trim" /\ Ends(q)
        /\ session' = Without(closed) /\ slow' = slow \cup closed
        /\ UNCHANGED <<accounts, used, keys, options, cache, asked, torn, crossed, broken, moves>>

\* The session that changes its own password has proved both.
Changes(q) ==
    LET t == task[q]
        u == t.as.user
        proved(k) == IF k = t.cred /\ k \in SessionsOf(u) THEN t.arg.new ELSE session[k].pw
    IN  /\ t.phase = "change"
        /\ IF accounts[u] = None THEN Ends(q) /\ UNCHANGED <<accounts, session>>
           ELSE /\ accounts' = [accounts EXCEPT ![u].pw = t.arg.new]
                /\ session' = [k \in Tokens |-> IF session[k] = None THEN None
                                                ELSE [session[k] EXCEPT !.pw = proved(k)]]
                /\ To(q, "forget")
        /\ UNCHANGED <<used, keys, options, cache, asked, seen, moves>>

\* What a request that ends by closing sessions closes.
Closing(t) ==
    CASE t.op = "logout" -> {t.cred}
      [] t.op = "password" -> SessionsOf(t.as.user) \ {t.cred}
      [] OTHER -> SessionsOf(t.of)

Closes(q) ==
    LET t == task[q]
    IN  /\ t.phase = "close" /\ Ends(q)
        /\ session' = Without(Closing(t))
        /\ slow' = slow \cup {k \in Closing(t) : session[k] # None}
        /\ UNCHANGED <<accounts, used, keys, options, cache, asked, torn, crossed, broken, moves>>

\* Its own sessions: one (of), or all the others.
ClosesOwn(q) ==
    LET t == task[q]
        one == t.op = "close one"
        closed == IF one THEN SessionsOf(t.as.user) \cap {t.of} ELSE SessionsOf(t.as.user) \ {t.cred}
    IN  /\ t.op \in {"close one", "close others"} /\ t.phase = "act"
        /\ session' = Without(closed)
        /\ IF one /\ closed = {} THEN Ends(q) ELSE To(q, "forget")
        /\ UNCHANGED <<accounts, used, keys, options, cache, asked, seen, moves>>

-----------------------------------------------------------------------------
(* Accounts and keys.                                                      *)
Creates(q) ==
    LET t == task[q]
    IN  /\ t.op = "create" /\ t.phase = "act" /\ Ends(q)
        /\ accounts' = IF accounts[t.of] # None THEN accounts
                       ELSE [accounts EXCEPT ![t.of] =
                               [role |-> t.arg.role, disabled |-> FALSE, pw |-> t.arg.pw]]
        /\ UNCHANGED <<session, used, keys, options, cache, asked, seen, moves>>

\* The account as it is read: only the removal of an active editor is checked.
Targets(q) ==
    LET t == task[q]
    IN  /\ t.phase = "target"
        /\ IF accounts[t.of] = None THEN Ends(q)
           ELSE To(q, IF Loses(t) /\ t.of \in Editors THEN "guard" ELSE "write")
        /\ UNCHANGED <<people, keys, options, cache, asked, seen, moves>>

\* _garde_un_editeur: the count is read apart from the writing.
Guards(q) ==
    /\ task[q].phase = "guard"
    /\ IF CountEditors <= 1 THEN Ends(q) ELSE To(q, "write")
    /\ UNCHANGED <<people, keys, options, cache, asked, seen, moves>>

Updated(account, arg) ==
    [role |-> IF arg.role = None THEN account.role ELSE arg.role,
     disabled |-> IF arg.disabled = None THEN account.disabled ELSE arg.disabled,
     pw |-> IF arg.pw = None THEN account.pw ELSE arg.pw]

\* Deleting an account deletes its sessions.
Writes(q) ==
    LET t == task[q]
        delete == t.op = "delete"
        other == \E r \in Requests \ {q} : task[r].phase = "write" /\ Loses(task[r])
    IN  /\ t.phase = "write" /\ t.op \in {"update", "delete"}
        /\ IF accounts[t.of] = None THEN Ends(q) /\ UNCHANGED <<accounts, session, crossed>>
           ELSE /\ accounts' = [accounts EXCEPT ![t.of] = IF delete THEN None ELSE Updated(@, t.arg)]
                /\ session' = IF delete THEN Without(SessionsOf(t.of)) ELSE session
                /\ crossed' = (crossed \/ (Loses(t) /\ other))
                /\ To(q, "forget")
        /\ UNCHANGED <<used, keys, options, cache, asked, slow, torn, broken, moves>>

ChangesKey(q) ==
    LET t == task[q]
        key == keys[t.of]
    IN  /\ t.op = "key" /\ t.phase = "act" /\ Ends(q)
        /\ keys' = [keys EXCEPT ![t.of] =
              CASE t.arg = "delete" -> None
                [] t.arg \in {"read", "write"} /\ key = None ->
                     [enabled |-> TRUE, write |-> t.arg = "write"]
                [] t.arg \in {"on", "off"} /\ key # None -> [key EXCEPT !.enabled = t.arg = "on"]
                [] OTHER -> key]
        /\ UNCHANGED <<people, options, cache, asked, seen, moves>>

-----------------------------------------------------------------------------
(* Settings: in force at once, in the database after.                      *)
Saving(s) == {q \in Requests : task[q].phase = "save" /\ task[q].of = s}

Applies(q) ==
    LET t == task[q]
        s == t.of
    IN  /\ t.phase = "apply"
        /\ IF t.op = "set" /\ t.arg \notin valid[s] THEN Ends(q) /\ UNCHANGED <<memory, torn>>
           ELSE /\ memory' = [memory EXCEPT ![s] = IF t.op = "set" THEN t.arg ELSE default[s]]
                /\ torn' = IF Saving(s) = {} THEN torn \ {s} ELSE torn \cup {s}
                /\ To(q, "save")
        /\ UNCHANGED <<people, keys, stored, default, valid, cache, asked, slow, crossed, broken, moves>>

Saves(q) ==
    LET t == task[q]
    IN  /\ t.phase = "save" /\ Ends(q)
        /\ stored' = [stored EXCEPT ![t.of] = IF t.op = "set" THEN t.arg ELSE NoRow]
        /\ UNCHANGED <<people, keys, memory, default, valid, cache, asked, seen, moves>>

\* Mutant: an empty value is read as no value.
LoadedUnlessNull(s) ==
    IF stored[s] \in valid[s] /\ stored[s] # None THEN stored[s] ELSE default[s]
\* load: a row the code no longer accepts is ignored.
Loaded(s) == IF stored[s] \in valid[s] THEN stored[s] ELSE default[s]

-----------------------------------------------------------------------------
(* The database refuses a request, a session expires, the memory of a       *)
(* session grows old, the process restarts, maybe upgraded.                *)
Cut(cutting) ==
    {u \in Users : \E q \in cutting : LET t == task[q] IN
        \/ t.phase \in {"forget", "close"} /\ t.op = "update" /\ t.of = u
        \/ t.phase \in {"forget", "close"} /\ t.op = "password" /\ t.as.user = u
        \/ t.phase = "trim" /\ t.as.user = u}

Fails(q) ==
    /\ task[q].phase \notin {"idle", "note", "forget", "apply"}
    /\ moves > 0 /\ moves' = moves - 1 /\ Ends(q)
    /\ broken' = broken \cup Cut({q})
    /\ torn' = torn \cup (IF task[q].phase = "save" THEN {task[q].of} ELSE {})
    /\ UNCHANGED <<people, keys, options, cache, asked, slow, crossed>>

Expires(k) ==
    /\ session[k] # None /\ moves > 0 /\ moves' = moves - 1
    /\ session' = Without({k}) /\ slow' = slow \cup {k}
    /\ UNCHANGED <<accounts, used, keys, options, cache, task, asked, torn, crossed, broken>>

GrowsOld(k) ==
    /\ cache[k] # None /\ cache' = [cache EXCEPT ![k] = None]
    /\ UNCHANGED <<people, keys, options, task, asked, seen, moves>>

\* The rows are read once; when they cannot be, the defaults stay in force.
Restarts == \E readable \in BOOLEAN :
    /\ moves > 0 /\ moves' = moves - 1
    /\ task' = [q \in Requests |-> Idle]
    /\ cache' = Forgotten /\ slow' = {} /\ torn' = (IF readable THEN {} ELSE Settings)
    /\ broken' = broken \cup Cut(Requests)
    /\ default' \in [Settings -> Values] /\ valid' \in [Settings -> SUBSET Acceptable]
    /\ UNCHANGED <<people, keys, stored, asked, crossed>>
    /\ memory' = [s \in Settings |-> IF readable THEN Loaded(s)' ELSE default'[s]]

Init == \E s \in Starts :
    /\ accounts = s.accounts /\ session = s.session /\ keys = s.keys
    /\ used = {k \in Tokens : s.session[k] # None}
    /\ default = s.default /\ valid = s.valid /\ stored = s.stored
    /\ memory = [o \in Settings |-> Loaded(o)]
    /\ cache = [k \in Tokens |-> None] /\ task = [q \in Requests |-> Idle]
    /\ asked = s.asked /\ moves = MaxMoves
    /\ slow = {} /\ torn = {} /\ crossed = FALSE /\ broken = {}

Next ==
    \/ \E q \in Requests :
        \/ \E ask \in asked : Begins(q, ask)
        \/ Verifies(q) \/ Notes(q) \/ VerifiesKey(q) \/ Forgets(q)
        \/ Reads(q) \/ CreatesFirst(q) \/ Trims(q) \/ Changes(q) \/ Closes(q) \/ ClosesOwn(q)
        \/ \E k \in Tokens : Opens(q, k)
        \/ Creates(q) \/ Targets(q) \/ Guards(q) \/ Writes(q) \/ ChangesKey(q)
        \/ Applies(q) \/ Saves(q) \/ Fails(q)
    \/ \E k \in Tokens : Expires(k) \/ GrowsOld(k)
    \/ Restarts
Spec == Init /\ [][Next]_vars

-----------------------------------------------------------------------------
\* Accounts, sessions, cached sessions and settings have their types, and an
\* account keeps at most MaxSessions sessions, one more being opened by each
\* login that has not trimmed yet (or was cut before it did).
TypeOK ==
    /\ accounts \in [Users -> Optional(Account)]
    /\ session \in [Tokens -> Optional([user : Users, pw : Passwords, n : Nat])]
    /\ cache \in [Tokens -> Optional([user : Users, role : Roles, late : BOOLEAN])]
    /\ keys \in [Keys -> Optional([enabled : BOOLEAN, write : BOOLEAN])]
    /\ stored \in [Settings -> Values \cup {None, NoRow}]
    /\ memory \in [Settings -> Optional(Values)]
    /\ \A u \in Users \ broken : Cardinality(SessionsOf(u)) <= MaxSessions
          + Cardinality({q \in Requests : task[q].phase = "trim" /\ task[q].as.user = u})

\* Once there are accounts, one of them may edit and is not disabled (the
\* docstring of _garde_un_editeur), unless two removals were checked before
\* either was written: the count and the writing are two queries.
EditorRemains == crossed \/ Editors # {} \/ \A u \in Users : accounts[u] = None

\* A session kept in memory says what the database says (alive, of an account
\* still there and not disabled, with its role), or the request that changed it
\* is about to empty the memory.  The exceptions are named: an answer read
\* before the memory was emptied and kept after, and a session ended since
\* (the memory is emptied BEFORE sessions are closed, and not at all by the
\* limit of sessions or by an expiration).
TakenAtOnce ==
    \A k \in Tokens : cache[k] # None =>
        \/ cache[k].late \/ k \in slow
        \/ \E q \in Requests : task[q].phase = "forget"
        \/ /\ session[k] # None /\ session[k].user = cache[k].user
           /\ Active(cache[k].user) /\ accounts[cache[k].user].role = cache[k].role

\* Every open session has proved the password the account has now (it was opened
\* with it, or changed it), or the request that changed it is about to close it; unless that request
\* was cut, or a login had checked the old password before and opened after.
OldPasswordsOut ==
    \A k \in Tokens : session[k] # None =>
        LET u == session[k].user
        IN  \/ session[k].pw = accounts[u].pw \/ u \in broken
            \/ \E q \in Requests : /\ task[q].phase \in {"forget", "close"}
                                   /\ \/ task[q].op = "update" /\ task[q].of = u
                                      \/ task[q].op = "password" /\ task[q].as.user = u

\* A restart changes no setting: the value in force is the one the database
\* would give back, whatever was set, cleared or made empty before, unless the
\* row is still to be written, or two writings of it crossed or one failed.
RestartAgrees ==
    \A s \in Settings \ torn : memory[s] = Loaded(s) \/ Saving(s) # {}
=============================================================================
