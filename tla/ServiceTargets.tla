--------------------------- MODULE ServiceTargets ---------------------------
(* Where a client sold by the billing lives, which router shapes him and what *)
(* that router's list must hold: the desired state of shaping.py read from    *)
(* the tables and the sessions, the plan restricted to some names, what its   *)
(* commands do to the list, and the verdict of the audit (limit_audit.py).    *)
(* A site is named as the routers name it; names differing by case or accents *)
(* are Placement's subject.                                                   *)
EXTENDS Naturals, Sequences, FiniteSets, SequencesExt, Folds

CONSTANTS
    Routers,
    References,   \* records of static_clients, services of the billing
    Logins,       \* PPPoE subscribers
    Addresses,
    Sites,
    NoSite,       \* the site of a service nothing places ("non-affecte")
    None,
    Order,        \* the references in the order of the table
    OwnSite,      \* the PoP name of each router
    VlanRouter,   \* the router that serves each VLAN site
    Network,      \* the router whose connected network holds an address, or None
    DefaultRate   \* DEFAULT_PLAN_DOWN_MBPS: 0 for none

ASSUME ServiceConstants ==
    /\ Range(Order) = References /\ Len(Order) = Cardinality(References)
    /\ OwnSite \in [Routers -> Sites]
    /\ DOMAIN VlanRouter \subseteq Sites /\ Range(VlanRouter) \subseteq Routers
    /\ Network \in [Addresses -> Routers \cup {None}]
    /\ DefaultRate \in Nat

Names == References \cup Logins

(* A world w is the record of what the targets are read from: the records     *)
(* (fiche), the rows of the subscribers (rows), the sessions on the routers   *)
(* (session), the routers whose networks were read (nets), the rates forced   *)
(* by hand (forced); 0 is no rate.                                            *)

ByName(s) == {r \in Routers : OwnSite[r] = s}
RoutersForSite(s) == IF s \in DOMAIN VlanRouter THEN {VlanRouter[s]} ELSE ByName(s)
SitesOf(r) == {OwnSite[r]} \cup {s \in DOMAIN VlanRouter : VlanRouter[s] = r}
\* Mutant: the name of the site is asked before the address.
ServingBySite(a, w) == None

Serving(a, w) == IF a # None /\ Network[a] \in w.nets THEN Network[a] ELSE None

\* The subscriber seen last with this address.
SeenAt(a, w) == {l \in Logins : w.rows[l] # None /\ w.rows[l].addr = a}
Live(l, a, w) == w.session[l] # None /\ w.session[l].addr = a
LatestAt(a, w) == CHOOSE l \in SeenAt(a, w) :
                      (\E k \in SeenAt(a, w) : Live(k, a, w)) => Live(l, a, w)

Located(a, w) ==
    LET l == LatestAt(a, w)
        r == Serving(a, w)
    IN  CASE a # None /\ SeenAt(a, w) # {} /\ RoutersForSite(w.rows[l].site) # {} ->
               [login |-> l, site |-> w.rows[l].site,
                router |-> CHOOSE x \in RoutersForSite(w.rows[l].site) : TRUE]
          [] OTHER ->
               IF r # None THEN [login |-> None, site |-> OwnSite[r], router |-> r] ELSE None

-----------------------------------------------------------------------------
(* The desired state of one router *)
On(w) == {c \in References : w.fiche[c] # None /\ w.fiche[c].on}
SessionsAt(r, w) == {l \in Logins : w.session[l] # None /\ w.session[l].at = r}

\* The records this router shapes: by their address, else by their site.
StaticsFor(r, w) ==
    {c \in On(w) : LET s == Serving(w.fiche[c].addr, w)
                   IN  IF s # None THEN s = r ELSE r \in RoutersForSite(w.fiche[c].site)}

\* A service pushed by the address of a session is that session; of several
\* records on the address, the last read.
Pushed(l, r, w) ==
    LET mine(c)    == c \in On(w) /\ w.fiche[c].addr = w.session[l].addr
        here(c)    == mine(c) /\ c \in StaticsFor(r, w)
        abroad(c)  == mine(c) /\ c \notin StaticsFor(r, w)
        all        == SelectSeq(Order, here) \o SelectSeq(Order, abroad)
    IN  IF l \notin SessionsAt(r, w) \/ all = <<>> THEN None ELSE Last(all)
Merged(r, w) == {Pushed(l, r, w) : l \in SessionsAt(r, w)} \ {None}
Alone(r, w)  ==
    {c \in On(w) : c \in StaticsFor(r, w)
                   \/ \E l \in SessionsAt(r, w) : w.session[l].addr = w.fiche[c].addr}
    \ Merged(r, w)

Sold(c, w) == IF w.fiche[c].rate = 0 THEN DefaultRate ELSE w.fiche[c].rate
Ruling(n, rate, w) == IF w.forced[n] # 0 THEN w.forced[n] ELSE rate

Known(r, w) == {l \in Logins : w.rows[l] # None /\ w.rows[l].site \in SitesOf(r)}
Subscribers(r, w) ==
    Known(r, w) \cup {l \in SessionsAt(r, w) : w.forced[l] # 0 \/ Pushed(l, r, w) # None}
SubscriberRate(l, r, w) ==
    CASE Pushed(l, r, w) # None -> Sold(Pushed(l, r, w), w)
      [] OTHER -> IF l \in Known(r, w) THEN w.rows[l].plan ELSE 0

Row(n, a, rate) == [name |-> n, addr |-> a, rate |-> rate]

Targets(r, w) ==
    {Row(l, IF l \in SessionsAt(r, w) THEN w.session[l].addr ELSE None,
         Ruling(l, SubscriberRate(l, r, w), w)) : l \in Subscribers(r, w)}
    \cup {Row(c, w.fiche[c].addr, Ruling(c, Sold(c, w), w)) : c \in Alone(r, w)}

\* A record without a rate keeps an unlimited queue, a subscriber none; of two
\* that claim one address, neither has a queue.
Claims(t) == t.addr # None /\ (t.rate # 0 \/ t.name \in References)
Wanted(r, w) ==
    LET ts == {t \in Targets(r, w) : Claims(t)}
    IN  {t \in ts : \A u \in ts : u.addr = t.addr => u = t}

\* Where a gesture on a record goes: to the session or the router of its
\* address, and by the name of its site only when no address places it.
StaticAim(c, site, a, removing, w) ==
    LET place == IF removing THEN None ELSE Located(a, w)
    IN  IF place # None
        THEN [name |-> IF place.login # None THEN place.login ELSE c,
              routers |-> {place.router}]
        ELSE [name |-> c, routers |-> ByName(site)]

\* Where a gesture on a subscriber goes.
SubscriberAim(n, w) ==
    [name |-> n,
     routers |-> UNION {RoutersForSite(s) : s \in
                    {w.rows[l].site : l \in {l \in Logins : l = n /\ w.rows[l] # None}}
                    \cup {w.fiche[c].site : c \in On(w) \cap {n}}}]

-----------------------------------------------------------------------------
(* A list of queues, first match first, and the plan restricted to names *)
At(n, list)     == {i \in DOMAIN list : list[i].name = n}
Masked(i, list) == \E j \in 1..(i - 1) : list[j].addr = list[i].addr
Binds(t, list)  == \E i \in DOMAIN list : list[i] = t /\ ~Masked(i, list)

PlanFor(r, w, list, names, prune) ==
    {[verb |-> "add", row |-> t] :
        t \in {t \in Wanted(r, w) : t.name \in names /\ At(t.name, list) = {}}}
    \cup {[verb |-> "set", row |-> t] :
        t \in {t \in Wanted(r, w) : t.name \in names
                 /\ \E i \in At(t.name, list) : list[i] # t /\ ~Masked(i, list)}}
    \cup {[verb |-> "remove", row |-> list[i]] :
        i \in {i \in DOMAIN list : prune /\ list[i].name \in names
                 /\ \A t \in Wanted(r, w) : t.name # list[i].name}}

\* RouterOS refuses a second row of a name and a command on a row that is gone.
Accepted(c, list) == (c.verb = "add") = (At(c.row.name, list) = {})
Obeyed(c, list) ==
    IF ~Accepted(c, list) THEN list
    ELSE IF c.verb = "remove" THEN SelectSeq(list, LAMBDA q : q.name # c.row.name)
    ELSE IF c.verb = "add" THEN Append(list, c.row)
    ELSE [i \in DOMAIN list |-> IF list[i].name = c.row.name THEN c.row ELSE list[i]]
Applied(cmds, list) == FoldLeft(LAMBDA acc, c : Obeyed(c, acc), list, SetToSeq(cmds))

-----------------------------------------------------------------------------
(* The audit of a router, its rows read.  Its firewall says that fasttrack    *)
(* skips the queues, that it does not, or nothing when the account may not    *)
(* read it (None); only the first weighs on the verdict of a queue.           *)
Verdict(t, list, fasttrack) ==
    CASE t.rate = 0 -> "uncapped"
      [] t.rate # 0 /\ At(t.name, list) = {} -> "absent"
      [] OTHER -> LET i == CHOOSE i \in At(t.name, list) : TRUE
                  IN  CASE fasttrack -> "bypassed"
                        [] ~fasttrack /\ Masked(i, list) -> "masked"
                        [] OTHER -> IF list[i].rate # t.rate THEN "differs" ELSE "held"

\* Mutant: a firewall that could not be read is one without fasttrack.
AuditedBlind(ts, list, active) ==
    [active |-> active = TRUE,
     queues |-> {[name |-> t.name, is |-> Verdict(t, list, active = TRUE)] : t \in ts}]

Audited(ts, list, active) ==
    [active |-> active,
     queues |-> {[name |-> t.name, is |-> Verdict(t, list, active = TRUE)] : t \in ts}]

-----------------------------------------------------------------------------
(* What the pages say of a router: the map of the shaping, a point per target, *)
(* and the inventory of the records, read on the routers of their site         *)
\* Mutant: a row behind another one is in place.
StandingBlind(n, r, w, list) ==
    IF \A t \in {t \in Wanted(r, w) : t.name = n} : At(n, list) # {} THEN "set" ELSE "to set"

Standing(n, r, w, list) ==
    LET wanted == {t \in Wanted(r, w) : t.name = n}
    IN  IF \E t \in wanted : \E i \in At(n, list) : Masked(i, list) THEN "conflict"
        ELSE IF \E t \in Targets(r, w) \ Wanted(r, w) : t.name = n THEN "skipped"
        ELSE IF \E t \in wanted : \A i \in At(n, list) : list[i] # t THEN "to set"
        ELSE "set"

Points(r, w, list) == {[name |-> t.name, is |-> Standing(t.name, r, w, list)] : t \in Targets(r, w)}

Urgency == <<"conflict", "skipped", "to set", "set">>
PageOf(c, w, list) ==
    LET states == {Standing(c, r, w, list[r]) : r \in ByName(w.fiche[c].site)}
        i      == CHOOSE i \in DOMAIN Urgency \cup {0} :
                      /\ i # 0 => Urgency[i] \in states
                      /\ \A j \in DOMAIN Urgency : Urgency[j] \in states => i # 0 /\ i <= j
    IN  IF i = 0 THEN "no router" ELSE Urgency[i]
=============================================================================
