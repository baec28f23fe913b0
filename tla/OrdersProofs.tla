---------------------------- MODULE OrdersProofs ----------------------------
(* What holds of what people order of the routers: the traffic restrictions *)
(* (RestrictionService), the rates in force (RateSources) and the services  *)
(* that are sold (Services), for every set of routers, clients, rules and   *)
(* people, whatever the passes, the jobs, the faults and restarts do.  The  *)
(* last two are instances, with constants and variables of their own.       *)
EXTENDS RestrictionService, FiniteSetTheorems, SequenceTheorems, WellFoundedInduction, TLAPS

(***************************************************************************)
(* A command is computed from a reading that may be old when it is sent.   *)
(* It stays ours because a number is given once: a row that was ours when  *)
(* it was read is still ours, or is gone, and never somebody else's.       *)
(***************************************************************************)
\* The rows of a router, and the next number it gives.
Numbered(rows, next) ==
    /\ DOMAIN rows = Ids /\ next \in Nat \ {0}
    /\ \A i \in Ids : rows[i] # Absent => i < next /\ rows[i] \in Row

\* The order of the lines of a router tells each of them once.
LinesOn(rows) == {i \in Present(rows) : rows[i].kind \in Tables}
Lists(ranks, T) ==
    /\ ranks \in Seq(Ids)
    /\ \A j, k \in 1..Len(ranks) : ranks[j] = ranks[k] => j = k
    /\ \A i \in Ids : i \in T <=> \E k \in 1..Len(ranks) : ranks[k] = i

\* A command that adds a row of ours, or names one that is ours if it exists; and
\* the line it is to be put before is one of the tables' lines if it exists.
OurCommand(c, rows, next) ==
    /\ c.verb \in {"add", "set", "remove"}
    /\ c.verb = "add" => c.row \in Row /\ IsOurs(c.row)
    /\ c.verb # "add" => /\ c.id \in Ids /\ c.id < next
                         /\ rows[c.id] # Absent => IsOurs(rows[c.id])
    /\ c.before # 0 => /\ c.before \in Ids /\ c.before < next
                       /\ rows[c.before] # Absent => rows[c.before].kind \in Tables

RowsInv ==
    /\ DOMAIN q = Routers /\ DOMAIN fresh = Routers /\ DOMAIN order = Routers
    /\ \A n \in Routers : Numbered(q[n], fresh[n]) /\ Lists(order[n], LinesOn(q[n]))

TaskInv ==
    /\ DOMAIN phase = Tasks /\ DOMAIN todo = Tasks /\ DOMAIN at = Tasks
    /\ \A t \in Tasks :
           /\ at[t] \in DOMAIN Inventory
           /\ phase[t] \notin {"decide", "exec"} => todo[t] = {}
           /\ \A c \in todo[t] : OurCommand(c, q[Here(t)], fresh[Here(t)])

\* The rules, as they are and as a pass read them.
Table   == [RuleIds -> Rule \cup {Free, Gone}]
Answers == {"posee", "a poser", "erreur"}
RulesInv ==
    /\ rules \in Table
    /\ snap \in [Tasks -> Table]
    /\ found \in [Tasks -> SUBSET Answers]

CommandInv == RowsInv /\ TaskInv

\* What a step keeps of what the commands in flight rely on.
Lasting ==
    \A n \in Routers :
        /\ fresh'[n] >= fresh[n]
        /\ \A i \in Ids : i < fresh[n] /\ (q[n][i] # Absent => IsOurs(q[n][i]))
                          => (q'[n][i] # Absent => IsOurs(q'[n][i]))
        /\ \A i \in Ids : i < fresh[n] /\ (q[n][i] # Absent => q[n][i].kind \in Tables)
                          => (q'[n][i] # Absent => q'[n][i].kind \in Tables)

Untouched ==
    \A n \in Routers : \A i \in Present(q[n]) : ~IsOurs(q[n][i]) => q'[n][i] = q[n][i]

\* What the rules want of a router.
Wanted == [RuleIds -> Target \cup {NoTarget}]

LEMMA TargetsTyped == \A table \in Table : Targets(table) \in Wanted
<1> SUFFICES ASSUME NEW table \in Table, NEW r \in RuleIds
             PROVE  TargetOf(table, r) \in Target \cup {NoTarget}
  BY DEF Targets, Wanted
<1>1. Active(table, r) => table[r] \in Rule
  BY DEF Active, Known, Table
<1> QED BY <1>1 DEF TargetOf, Rule, Shape, Target

\* A line that is wanted has a table and a direction, an entry an address.
LEMMA LinesTyped ==
    ASSUME NEW target \in Target \cup {NoTarget}
    PROVE  /\ \A l \in DesiredLines(target) : l[1] \in Tables /\ l[2] \in Ways
           /\ \A side : DesiredAddrs(target, side) \subseteq Dests \cup Clients
<1>1. Laid(target) => target \in Target
  BY DEF Laid
<1> QED BY <1>1 DEF DesiredLines, DesiredAddrs, Tables, Target

LEMMA HereIsRouter == \A t \in Tasks : at[t] \in DOMAIN Inventory => Here(t) \in Routers
  BY DEF Here, Routers

LEMMA RoutersKept ==
    ASSUME RowsInv, UNCHANGED routers
    PROVE  RowsInv' /\ Lasting /\ Untouched
<1>1. Untouched /\ RowsInv'
  BY DEF Untouched, RowsInv, routers, LinesOn, Present
<1>2. \A n \in Routers : fresh[n] \in Nat
  BY DEF RowsInv, Numbered
<1> QED BY <1>1, <1>2 DEF Lasting, routers

-----------------------------------------------------------------------------
(* The order of the lines.                                                 *)

\* Among numbers there is always a least one.
LEMMA Least ==
    ASSUME NEW S, S \subseteq Nat, S # {}
    PROVE  \E k \in S : \A j \in S : k <= j
<1>1. PICK k \in S : \A j \in S : ~(<<j, k>> \in OpToRel(<, Nat))
  BY NatLessThanWellFounded, WFMin
<1>2. \A j \in S : ~(j < k)
  BY <1>1 DEF OpToRel
<1>3. \A j \in S : k <= j
  BY <1>2
<1> QED BY <1>3

LEMMA RankIs ==
    ASSUME NEW s, NEW T, Lists(s, T), NEW i \in T, i \in Ids
    PROVE  Rank(s, i) \in 1..Len(s) /\ s[Rank(s, i)] = i
<1>1. DOMAIN s = 1..Len(s) /\ \E k \in 1..Len(s) : s[k] = i
  BY LenProperties DEF Lists
<1> QED BY <1>1 DEF Rank

\* Among lines there is a first one, and a last one.
LEMMA FirstAndLast ==
    ASSUME NEW s, NEW T, Lists(s, T), NEW S, S \subseteq T, S \subseteq Ids, S # {}
    PROVE  /\ \E i \in S : \A j \in S : Rank(s, i) <= Rank(s, j)
           /\ \E i \in S : \A j \in S : Rank(s, j) <= Rank(s, i)
<1>1. Len(s) \in Nat
  BY LenProperties DEF Lists
<1>2. \A i \in S : Rank(s, i) \in 1..Len(s)
  BY RankIs
<1>3. \E i \in S : \A j \in S : Rank(s, i) <= Rank(s, j)
  <2> DEFINE K == {Rank(s, i) : i \in S}
  <2>1. K \subseteq Nat /\ K # {}
    BY <1>1, <1>2
  <2>2. PICK k \in K : \A j \in K : k <= j
    BY <2>1, Least
  <2> QED BY <2>2
<1>4. \E i \in S : \A j \in S : Rank(s, j) <= Rank(s, i)
  <2> DEFINE K == {Len(s) - Rank(s, i) : i \in S}
  <2>1. K \subseteq Nat /\ K # {}
    BY <1>1, <1>2
  <2>2. PICK k \in K : \A j \in K : k <= j
    BY <2>1, Least
  <2>3. PICK i \in S : k = Len(s) - Rank(s, i)
    OBVIOUS
  <2>4. ASSUME NEW j \in S PROVE Rank(s, j) <= Rank(s, i)
    <3>1. Len(s) - Rank(s, i) <= Len(s) - Rank(s, j)
      BY <2>2, <2>3
    <3> QED BY <1>1, <1>2, <3>1
  <2> QED BY <2>4
<1> QED BY <1>3, <1>4

\* What stands at j once x has been put at k.
Shifted(s, k, x, j) == IF j < k THEN s[j] ELSE IF j = k THEN x ELSE s[j - 1]

\* A line more.
LEMMA OneMore ==
    ASSUME NEW s, NEW T, Lists(s, T), NEW x \in Ids, x \notin T, NEW k \in 1..(Len(s) + 1),
           NEW w \in Seq(Ids), Len(w) = Len(s) + 1,
           \A j \in 1..(Len(s) + 1) : w[j] = Shifted(s, k, x, j)
    PROVE  Lists(w, T \cup {x})
<1>0. \A j \in 1..(Len(s) + 1) :
          w[j] = IF j < k THEN s[j] ELSE IF j = k THEN x ELSE s[j - 1]
  BY DEF Shifted
<1>1. /\ Len(s) \in Nat /\ \A j \in 1..Len(s) : s[j] # x
      /\ \A j \in 1..(Len(s) + 1) :
            w[j] = IF j < k THEN s[j] ELSE IF j = k THEN x ELSE s[j - 1]
  BY <1>0, LenProperties DEF Lists
<1>2. ASSUME NEW j \in 1..Len(w), NEW l \in 1..Len(w), w[j] = w[l] PROVE j = l
  <2> DEFINE back(m) == IF m < k THEN m ELSE m - 1
  <2>1. \A m \in 1..Len(w) : m # k => back(m) \in 1..Len(s) /\ w[m] = s[back(m)]
    BY <1>1
  <2>2. w[k] = x
    BY <1>1
  <2>3. CASE j = k \/ l = k
    BY <1>1, <1>2, <2>1, <2>2, <2>3
  <2>4. CASE j # k /\ l # k
    <3>1. back(j) = back(l)
      BY <1>2, <2>1, <2>4 DEF Lists
    <3> QED BY <1>1, <2>4, <3>1
  <2> QED BY <2>3, <2>4
<1>3. ASSUME NEW i \in Ids
      PROVE  i \in T \cup {x} <=> \E m \in 1..Len(w) : w[m] = i
  <2>1. ASSUME i \in T PROVE \E m \in 1..Len(w) : w[m] = i
    <3>1. PICK m \in 1..Len(s) : s[m] = i
      BY <2>1 DEF Lists
    <3>2. CASE m < k
      BY <1>1, <3>1, <3>2
    <3>3. CASE ~(m < k)
      <4>1. m + 1 \in 1..Len(w) /\ ~(m + 1 < k) /\ m + 1 # k /\ m + 1 - 1 = m
        BY <1>1, <3>3
      <4>2. w[m + 1] = s[m + 1 - 1]
        BY <1>1, <4>1
      <4> QED BY <3>1, <4>1, <4>2
    <3> QED BY <3>2, <3>3
  <2>2. w[k] = x /\ k \in 1..Len(w)
    BY <1>1
  <2>3. ASSUME NEW m \in 1..Len(w), w[m] = i, i # x PROVE i \in T
    <3>1. CASE m < k
      <4>1. m \in 1..Len(s) /\ w[m] = s[m]
        BY <1>1, <3>1
      <4> QED BY <2>3, <4>1 DEF Lists
    <3>2. CASE ~(m < k)
      <4>1. m # k
        BY <2>2, <2>3
      <4>2. m - 1 \in 1..Len(s) /\ w[m] = s[m - 1]
        BY <1>1, <3>2, <4>1
      <4> QED BY <2>3, <4>2 DEF Lists
    <3> QED BY <3>1, <3>2
  <2> QED BY <2>1, <2>2, <2>3
<1> QED BY <1>2, <1>3 DEF Lists

LEMMA AtEnds ==
    ASSUME NEW s, NEW T, Lists(s, T), NEW x \in Ids, x \notin T
    PROVE  Lists(Append(s, x), T \cup {x}) /\ Lists(<<x>> \o s, T \cup {x})
<1>1. s \in Seq(Ids) /\ Len(s) \in Nat
  BY LenProperties DEF Lists
<1>2. Lists(Append(s, x), T \cup {x})
  <2> DEFINE w == Append(s, x)
  <2>1. /\ w \in Seq(Ids) /\ Len(w) = Len(s) + 1
        /\ \A j \in 1..(Len(s) + 1) : w[j] = IF j <= Len(s) THEN s[j] ELSE x
    BY <1>1, AppendProperties
  <2> HIDE DEF w
  <2>2. \A j \in 1..(Len(s) + 1) : w[j] = Shifted(s, Len(s) + 1, x, j)
    BY <1>1, <2>1 DEF Shifted
  <2>3. Len(s) + 1 \in 1..(Len(s) + 1)
    BY <1>1
  <2>4. Lists(w, T \cup {x})
    BY <2>1, <2>2, <2>3, OneMore
  <2> QED BY <2>4 DEF w
<1>3. Lists(<<x>> \o s, T \cup {x})
  <2> DEFINE w == <<x>> \o s
  <2>1. /\ w \in Seq(Ids) /\ Len(w) = Len(s) + 1
        /\ \A j \in 1..(Len(s) + 1) : w[j] = IF j <= 1 THEN x ELSE s[j - 1]
    BY <1>1, ConcatProperties
  <2> HIDE DEF w
  <2>2. \A j \in 1..(Len(s) + 1) : w[j] = Shifted(s, 1, x, j)
    BY <1>1, <2>1 DEF Shifted
  <2>3. 1 \in 1..(Len(s) + 1)
    BY <1>1
  <2>4. Lists(w, T \cup {x})
    BY <2>1, <2>2, <2>3, OneMore
  <2> QED BY <2>4 DEF w
<1> QED BY <1>2, <1>3

\* What is put at a place of a sequence.
PutAt(s, k, x) == SubSeq(s, 1, k - 1) \o <<x>> \o SubSeq(s, k, Len(s))

LEMMA PutAtIs ==
    ASSUME NEW s \in Seq(Ids), NEW x \in Ids, NEW k \in 1..(Len(s) + 1)
    PROVE  /\ PutAt(s, k, x) \in Seq(Ids) /\ Len(PutAt(s, k, x)) = Len(s) + 1
           /\ \A j \in 1..(Len(s) + 1) : PutAt(s, k, x)[j] = Shifted(s, k, x, j)
<1> DEFINE a == SubSeq(s, 1, k - 1)
           b == SubSeq(s, k, Len(s))
<1>1. /\ Len(s) \in Nat /\ k - 1 \in Int /\ k \in Int
      /\ \A i \in 1..Len(s) : s[i] \in Ids
  BY LenProperties, ElementOfSeq
<1>2. /\ a \in Seq(Ids) /\ Len(a) = k - 1 /\ \A i \in 1..(k - 1) : a[i] = s[i]
  BY <1>1, SubSeqProperties
<1>3. /\ b \in Seq(Ids) /\ Len(b) = Len(s) - k + 1
      /\ \A i \in 1..(Len(s) - k + 1) : b[i] = s[k + i - 1]
  BY <1>1, SubSeqProperties
<1> DEFINE c == a \o <<x>>
<1>4. c \in Seq(Ids) /\ Len(c) = k /\ \A i \in 1..k : c[i] = IF i < k THEN s[i] ELSE x
  BY <1>1, <1>2, ConcatProperties
<1> HIDE DEF a, b, c
<1>5. /\ c \o b \in Seq(Ids) /\ Len(c \o b) = Len(c) + Len(b)
      /\ \A i \in 1..(Len(c) + Len(b)) : (c \o b)[i] = IF i <= Len(c) THEN c[i] ELSE b[i - Len(c)]
  BY <1>3, <1>4, ConcatProperties
<1>6. Len(c) + Len(b) = Len(s) + 1
  BY <1>1, <1>3, <1>4
<1>7. ASSUME NEW j \in 1..(Len(s) + 1)
      PROVE  (c \o b)[j] = IF j < k THEN s[j] ELSE IF j = k THEN x ELSE s[j - 1]
  <2>1. CASE j <= k
    BY <1>1, <1>4, <1>5, <1>6, <2>1
  <2>2. CASE j > k
    BY <1>1, <1>3, <1>4, <1>5, <1>6, <2>2
  <2>3. j <= k \/ j > k
    BY <1>1
  <2> QED BY <2>1, <2>2, <2>3
<1>8. \A j \in 1..(Len(s) + 1) : (c \o b)[j] = Shifted(s, k, x, j)
  BY <1>7 DEF Shifted
<1> QED BY <1>5, <1>6, <1>8 DEF a, b, c, PutAt

LEMMA AheadLists ==
    ASSUME NEW s, NEW T, Lists(s, T), NEW x \in Ids, x \notin T, NEW i \in T, i \in Ids
    PROVE  Lists(Ahead(s, i, x), T \cup {x})
<1> PICK k : k = Rank(s, i)
  OBVIOUS
<1>1. s \in Seq(Ids) /\ Len(s) \in Nat /\ k \in 1..Len(s)
  BY RankIs, LenProperties DEF Lists
<1>2. k \in 1..(Len(s) + 1)
  BY <1>1
<1>3. Ahead(s, i, x) = PutAt(s, k, x)
  BY DEF Ahead, PutAt
<1>4. Lists(PutAt(s, k, x), T \cup {x})
  <2> PICK w : w = PutAt(s, k, x)
    OBVIOUS
  <2>1. /\ w \in Seq(Ids) /\ Len(w) = Len(s) + 1
        /\ \A j \in 1..(Len(s) + 1) : w[j] = Shifted(s, k, x, j)
    BY <1>1, <1>2, PutAtIs
  <2>2. Lists(w, T \cup {x})
    BY <1>2, <2>1, OneMore
  <2> QED BY <2>2
<1> QED BY <1>3, <1>4

\* A line less.
LEMMA UnlistedLists ==
    ASSUME NEW s, NEW T, Lists(s, T), NEW x \in Ids
    PROVE  Lists(Unlisted(s, x), T \ {x})
<1>1. /\ s \in Seq(Ids) /\ Len(s) \in Nat /\ DOMAIN s = 1..Len(s)
      /\ \A j \in 1..Len(s) : s[j] \in Ids
  BY LenProperties, ElementOfSeq DEF Lists
<1>2. CASE x \notin T
  <2>1. ~\E j \in DOMAIN s : s[j] = x
    BY <1>1, <1>2 DEF Lists
  <2>2. Unlisted(s, x) = s /\ T \ {x} = T
    BY <1>2, <2>1 DEF Unlisted
  <2> QED BY <2>2
<1>3. CASE x \in T
  <2> PICK k : k = Rank(s, x)
    OBVIOUS
  <2> DEFINE a == SubSeq(s, 1, k - 1)
             b == SubSeq(s, k + 1, Len(s))
             w == a \o b
  <2>1. k \in 1..Len(s) /\ s[k] = x
    BY <1>3, RankIs
  <2>2. /\ a \in Seq(Ids) /\ Len(a) = k - 1 /\ \A j \in 1..(k - 1) : a[j] = s[j]
    BY <1>1, <2>1, SubSeqProperties
  <2>3. /\ b \in Seq(Ids) /\ Len(b) = Len(s) - k
        /\ \A j \in 1..(Len(s) - k) : b[j] = s[k + j]
    BY <1>1, <2>1, SubSeqProperties
  <2>4. Unlisted(s, x) = w
    BY <1>1, <2>1 DEF Unlisted
  <2>5. /\ w \in Seq(Ids) /\ Len(w) = Len(s) - 1
        /\ \A j \in 1..(Len(s) - 1) : w[j] = IF j < k THEN s[j] ELSE s[j + 1]
    <3> HIDE DEF a, b
    <3>1. /\ w \in Seq(Ids) /\ Len(w) = Len(a) + Len(b)
          /\ \A j \in 1..(Len(a) + Len(b)) : w[j] = IF j <= Len(a) THEN a[j] ELSE b[j - Len(a)]
      BY <2>2, <2>3, ConcatProperties
    <3> HIDE DEF w
    <3>2. Len(a) + Len(b) = Len(s) - 1
      BY <1>1, <2>1, <2>2, <2>3
    <3>3. ASSUME NEW j \in 1..(Len(s) - 1)
          PROVE  w[j] = IF j < k THEN s[j] ELSE s[j + 1]
      <4>1. CASE j < k
        BY <1>1, <2>1, <2>2, <3>1, <3>2, <4>1
      <4>2. CASE ~(j < k)
        <5>1. j - Len(a) \in 1..(Len(s) - k) /\ k + (j - Len(a)) = j + 1
          BY <1>1, <2>1, <2>2, <4>2
        <5>2. w[j] = b[j - Len(a)]
          BY <1>1, <2>1, <2>2, <3>1, <3>2, <4>2
        <5> QED BY <2>3, <4>2, <5>1, <5>2
      <4> QED BY <4>1, <4>2
    <3> QED BY <3>1, <3>2, <3>3
  <2> HIDE DEF w
  <2> DEFINE on(j) == IF j < k THEN j ELSE j + 1
  <2>6. \A j \in 1..Len(w) : on(j) \in 1..Len(s) /\ on(j) # k /\ w[j] = s[on(j)]
    BY <1>1, <2>1, <2>5
  <2>7. ASSUME NEW j \in 1..Len(w), NEW l \in 1..Len(w), w[j] = w[l] PROVE j = l
    <3>1. on(j) = on(l)
      BY <2>6, <2>7 DEF Lists
    <3> QED BY <1>1, <2>1, <2>5, <3>1
  <2>8. ASSUME NEW i \in Ids
        PROVE  i \in T \ {x} <=> \E m \in 1..Len(w) : w[m] = i
    <3>1. ASSUME NEW m \in 1..Len(w), w[m] = i PROVE i \in T \ {x}
      <4>1. s[on(m)] = i /\ i # x
        BY <2>1, <2>6, <3>1 DEF Lists
      <4> QED BY <2>6, <4>1 DEF Lists
    <3>2. ASSUME i \in T, i # x PROVE \E m \in 1..Len(w) : w[m] = i
      <4>1. PICK m \in 1..Len(s) : s[m] = i
        BY <3>2 DEF Lists
      <4>2. m # k
        BY <2>1, <3>2, <4>1
      <4>3. CASE m < k
        BY <1>1, <2>1, <2>5, <4>1, <4>3
      <4>4. CASE m > k
        <5>1. m - 1 \in 1..Len(w) /\ ~(m - 1 < k) /\ m - 1 + 1 = m
          BY <1>1, <2>1, <2>5, <4>4
        <5>2. w[m - 1] = s[m - 1 + 1]
          BY <2>5, <5>1
        <5> QED BY <4>1, <5>1, <5>2
      <4> QED BY <1>1, <2>1, <4>2, <4>3, <4>4
    <3> QED BY <3>1, <3>2
  <2> QED BY <2>4, <2>5, <2>7, <2>8 DEF Lists
<1> QED BY <1>2, <1>3

-----------------------------------------------------------------------------
(* The plans.                                                              *)

LEMMA RemovalIsOurs ==
    ASSUME NEW rows, NEW next, Numbered(rows, next),
           NEW i \in Present(rows), IsOurs(rows[i]), NEW stage, NEW turn
    PROVE  OurCommand(Remove(stage, turn, i), rows, next)
  BY DEF OurCommand, Remove, Present, Numbered

\* The first of the operator's lines of a table.
LEMMA FirstForeignIs ==
    ASSUME NEW rows, NEW ranks, Lists(ranks, LinesOn(rows)), NEW table \in Tables,
           Foreign(rows, table) # {}
    PROVE  /\ FirstForeign(rows, ranks, table) \in Foreign(rows, table)
           /\ \A j \in Foreign(rows, table) :
                  Rank(ranks, FirstForeign(rows, ranks, table)) <= Rank(ranks, j)
<1>1. Foreign(rows, table) \subseteq LinesOn(rows) /\ Foreign(rows, table) \subseteq Ids
  BY DEF Foreign, LinesOn, Present
<1>2. \E i \in Foreign(rows, table) :
          \A j \in Foreign(rows, table) : Rank(ranks, i) <= Rank(ranks, j)
  BY <1>1, FirstAndLast
<1> QED BY <1>2 DEF FirstForeign

LEMMA LineIsOurs ==
    ASSUME NEW rows, NEW next, Numbered(rows, next),
           NEW ranks, Lists(ranks, LinesOn(rows)), NEW target,
           NEW r \in RuleIds, NEW kind \in Tables, NEW way \in Ways,
           NEW c \in LineActions(rows, ranks, target, r, kind, way)
    PROVE  OurCommand(c, rows, next)
<1> DEFINE posed == Lines(rows, r, kind, way)
<1>1. \A i \in LastOf(ranks, posed) : i \in Present(rows) /\ IsOurs(rows[i])
  BY DEF LastOf, Lines, OfRule, IsOurs
<1>2. \/ \E i \in LastOf(ranks, posed) : \E turn : c = Remove(1, turn, i)
      \/ \E turn, ahead : /\ c = Add(1, turn, NewLine(target, r, kind, way), ahead)
                          /\ \/ ahead = 0
                             \/ /\ ahead = FirstForeign(rows, ranks, kind)
                                /\ Foreign(rows, kind) # {}
      \/ \E i \in LastOf(ranks, posed) : \E turn, fields : c = Set(turn, i, fields)
  BY DEF LineActions
<1>3. ASSUME NEW turn, NEW ahead, c = Add(1, turn, NewLine(target, r, kind, way), ahead),
             ahead = 0 \/ (ahead = FirstForeign(rows, ranks, kind) /\ Foreign(rows, kind) # {})
      PROVE  OurCommand(c, rows, next)
  <2>1. ahead # 0 => ahead \in Foreign(rows, kind)
    BY <1>3, FirstForeignIs
  <2>2. ahead # 0 => ahead \in Ids /\ ahead < next /\ rows[ahead].kind \in Tables
    BY <2>1 DEF Foreign, Present, Numbered
  <2>3. /\ c.verb = "add" /\ c.row = NewLine(target, r, kind, way) /\ c.before = ahead
        /\ c.row \in Row /\ c.row.owner = r
    BY <1>3 DEF Add, NewLine, Row, Owners
  <2> QED BY <2>2, <2>3 DEF OurCommand, IsOurs
<1>4. ASSUME NEW i \in LastOf(ranks, posed), NEW turn, NEW fields, c = Set(turn, i, fields)
      PROVE  OurCommand(c, rows, next)
  BY <1>1, <1>4 DEF OurCommand, Set, Present, Numbered
<1> HIDE DEF posed
<1> QED BY <1>1, <1>2, <1>3, <1>4, RemovalIsOurs

LEMMA PlansAreOurs ==
    ASSUME NEW rows, NEW next, Numbered(rows, next),
           NEW ranks, Lists(ranks, LinesOn(rows)), NEW targets \in Wanted,
           NEW c \in PlanRestrictions(rows, ranks, targets)
    PROVE  OurCommand(c, rows, next)
<1> DEFINE wanted(r, side) == DesiredAddrs(targets[r], side)
           adds    == UNION {{Add(0, 0, NewEntry(r, side, a), 0) :
                                 a \in wanted(r, side) \ Listed(rows, r, side)} :
                             r \in RuleIds, side \in Sides}
           aligns  == UNION {UNION {LineActions(rows, ranks, targets[r], r, l[1], l[2]) :
                                       l \in DesiredLines(targets[r])} : r \in RuleIds}
           entries == {i \in Present(rows) :
                          /\ IsOurs(rows[i]) /\ rows[i].kind \in Sides
                          /\ rows[i].addr \notin wanted(rows[i].owner, rows[i].kind)}
           lines   == {i \in Present(rows) :
                          /\ IsOurs(rows[i]) /\ rows[i].kind \in Tables
                          /\ <<rows[i].kind, rows[i].way>>
                                \notin DesiredLines(targets[rows[i].owner])
                          /\ i \in LastOf(ranks, Lines(rows, rows[i].owner, rows[i].kind,
                                                       rows[i].way))}
<1>1. /\ c \in adds \cup aligns \cup {Remove(2, 0, i) : i \in entries}
                  \cup {Remove(3, 0, i) : i \in lines}
      /\ \A i \in entries \cup lines : i \in Present(rows) /\ IsOurs(rows[i])
  <2>1. c \in adds \cup aligns \cup {Remove(2, 0, i) : i \in entries}
                  \cup {Remove(3, 0, i) : i \in lines}
    BY DEF PlanRestrictions
  <2> QED BY <2>1
<1>2. ASSUME NEW r \in RuleIds, NEW side \in Sides, NEW a \in Dests \cup Clients,
             c = Add(0, 0, NewEntry(r, side, a), 0)
      PROVE  OurCommand(c, rows, next)
  <2>1. NewEntry(r, side, a) \in Row /\ NewEntry(r, side, a).owner = r
    BY RestrictionAssumption DEF NewEntry, Row, Owners
  <2> QED BY <1>2, <2>1 DEF OurCommand, Add, IsOurs
<1>3. CASE c \in adds
  <2>1. \A r \in RuleIds, side \in Sides : wanted(r, side) \subseteq Dests \cup Clients
    BY LinesTyped DEF Wanted
  <2> QED BY <1>2, <1>3, <2>1
<1>4. CASE c \in aligns
  <2>1. PICK r \in RuleIds : \E l \in DesiredLines(targets[r]) :
                c \in LineActions(rows, ranks, targets[r], r, l[1], l[2])
    BY <1>4
  <2>2. \A l \in DesiredLines(targets[r]) : l[1] \in Tables /\ l[2] \in Ways
    BY LinesTyped DEF Wanted
  <2> QED BY <2>1, <2>2, LineIsOurs
<1> HIDE DEF adds, aligns, entries, lines
<1> QED BY <1>1, <1>3, <1>4, RemovalIsOurs

LEMMA LiftsAreOurs ==
    ASSUME NEW rows, NEW next, Numbered(rows, next), NEW r \in RuleIds,
           NEW c \in PlanLift(rows, r)
    PROVE  OurCommand(c, rows, next)
<1>1. \E i \in OfRule(rows, r) : \E stage, turn : c = Remove(stage, turn, i)
  BY DEF PlanLift
<1>2. \A i \in OfRule(rows, r) : i \in Present(rows) /\ IsOurs(rows[i])
  BY DEF OfRule, IsOurs
<1> QED BY <1>1, <1>2, RemovalIsOurs

-----------------------------------------------------------------------------
(* What is done to the rows of a router.                                   *)

\* The lines of one router are told in another order.
Reorders(n, ranks) ==
    /\ DOMAIN order' = Routers
    /\ \A m \in Routers : order'[m] = IF m = n THEN ranks ELSE order[m]

\* One row of one router changes, and its order with it: the row stays ours, becomes
\* ours or goes, unless the operator did it to one that was theirs, or to a number
\* never given; and it keeps its kind as long as it stays.
LEMMA OneRowChanges ==
    ASSUME RowsInv, NEW n \in Routers, NEW i \in Ids, NEW row, NEW ranks,
           row # Absent => row \in Row /\ i < fresh'[n],
           q' = [q EXCEPT ![n][i] = row],
           Reorders(n, ranks),
           Lists(ranks, IF row # Absent /\ row.kind \in Tables
                        THEN LinesOn(q[n]) \cup {i} ELSE LinesOn(q[n]) \ {i}),
           fresh' = [fresh EXCEPT ![n] = @ + 1] \/ fresh' = fresh,
           \/ (row # Absent => IsOurs(row))
           \/ ~(i < fresh[n])
           \/ q[n][i] # Absent /\ ~IsOurs(q[n][i]),
           i < fresh[n] /\ row # Absent => q[n][i] # Absent /\ row.kind = q[n][i].kind
    PROVE  RowsInv' /\ Lasting
<1>1. /\ DOMAIN q' = Routers /\ DOMAIN fresh' = Routers /\ DOMAIN order' = Routers
      /\ \A m \in Routers \ {n} : /\ q'[m] = q[m] /\ fresh'[m] = fresh[m]
                                  /\ order'[m] = order[m]
      /\ DOMAIN q'[n] = Ids
      /\ \A j \in Ids : q'[n][j] = IF j = i THEN row ELSE q[n][j]
  BY DEF RowsInv, Numbered, Reorders
<1>2. \A m \in Routers : /\ fresh[m] \in Nat \ {0} /\ fresh'[m] \in Nat \ {0}
                         /\ fresh'[m] >= fresh[m]
  BY DEF RowsInv, Numbered
<1>3. ASSUME NEW m \in Routers PROVE Numbered(q'[m], fresh'[m])
  <2>1. CASE m = n
    <3>1. \A j \in Ids : q[n][j] # Absent => j < fresh[n] /\ q[n][j] \in Row
      BY DEF RowsInv, Numbered
    <3>2. Ids \subseteq Nat
      BY DEF Ids
    <3>3. ASSUME NEW j \in Ids, q'[n][j] # Absent PROVE j < fresh'[n] /\ q'[n][j] \in Row
      <4>1. CASE j = i
        BY <1>1, <3>3, <4>1
      <4>2. CASE j # i
        BY <1>1, <1>2, <3>1, <3>2, <3>3, <4>2
      <4> QED BY <4>1, <4>2
    <3> QED BY <1>1, <1>2, <2>1, <3>3 DEF Numbered
  <2>2. CASE m # n
    BY <1>1, <2>2 DEF RowsInv
  <2> QED BY <2>1, <2>2
<1>4. ASSUME NEW m \in Routers, NEW j \in Ids, j < fresh[m],
             q[m][j] # Absent => IsOurs(q[m][j])
      PROVE  q'[m][j] # Absent => IsOurs(q'[m][j])
  BY <1>1, <1>4
<1>5. ASSUME NEW m \in Routers, NEW j \in Ids, j < fresh[m],
             q[m][j] # Absent => q[m][j].kind \in Tables
      PROVE  q'[m][j] # Absent => q'[m][j].kind \in Tables
  BY <1>1, <1>5
<1>6. ASSUME NEW m \in Routers PROVE Lists(order'[m], LinesOn(q'[m]))
  <2>1. CASE m = n
    <3> DEFINE T == IF row # Absent /\ row.kind \in Tables
                    THEN LinesOn(q[n]) \cup {i} ELSE LinesOn(q[n]) \ {i}
    <3>1. \A j \in Ids : j \in LinesOn(q'[n]) <=> j \in T
      BY <1>1 DEF LinesOn, Present
    <3>2. order'[n] = ranks /\ Lists(ranks, T)
      BY DEF RowsInv, Reorders
    <3> HIDE DEF T
    <3>3. Lists(ranks, LinesOn(q'[n]))
      BY <3>1, <3>2 DEF Lists
    <3> QED BY <2>1, <3>2, <3>3
  <2>2. CASE m # n
    BY <1>1, <2>2 DEF RowsInv
  <2> QED BY <2>1, <2>2
<1>7. RowsInv'
  BY <1>1, <1>3, <1>6 DEF RowsInv
<1> QED BY <1>2, <1>4, <1>5, <1>7 DEF Lasting

\* A number that is free names no line.
LEMMA FreshIsFree ==
    ASSUME RowsInv, NEW n \in Routers, fresh[n] <= MaxRows
    PROVE  /\ fresh[n] \in Ids /\ fresh[n] \notin LinesOn(q[n])
           /\ fresh[n] \in Nat /\ ~(fresh[n] < fresh[n]) /\ fresh[n] < fresh[n] + 1
<1>1. fresh[n] \in Nat \ {0} /\ MaxRows \in Nat
  BY RestrictionAssumption DEF RowsInv, Numbered
<1>2. \A i \in LinesOn(q[n]) : i < fresh[n]
  BY DEF RowsInv, Numbered, LinesOn, Present
<1>3. fresh[n] \in Ids /\ ~(fresh[n] < fresh[n]) /\ fresh[n] < fresh[n] + 1
  BY <1>1 DEF Ids
<1> QED BY <1>1, <1>2, <1>3

\* What a command or the operator may change of a row.
LEMMA RowSwitched ==
    ASSUME NEW row \in Row, NEW a \in BOOLEAN, NEW b \in BOOLEAN
    PROVE  LET new == [row EXCEPT !.scoped = a, !.disabled = b]
           IN  new \in Row /\ new.kind = row.kind /\ (IsOurs(row) => IsOurs(new))
  BY DEF Row, IsOurs

LEMMA ExecutesOurs ==
    ASSUME RowsInv, NEW n \in Routers, NEW c, OurCommand(c, q[n], fresh[n]), Executes(n, c)
    PROVE  RowsInv' /\ Lasting /\ Untouched
<1> DEFINE ranks == Reordered(order[n], c, fresh[n])
<1>0. Reorders(n, ranks) /\ Lists(order[n], LinesOn(q[n]))
  BY DEF Executes, RowsInv, Reorders
<1>1. CASE c.verb = "add"
  <2>1. q' = [q EXCEPT ![n][fresh[n]] = c.row] /\ fresh' = [fresh EXCEPT ![n] = @ + 1]
    BY <1>1 DEF Executes, Effect, RowsInv
  <2>2. c.row \in Row /\ IsOurs(c.row) /\ fresh[n] <= MaxRows /\ fresh'[n] = fresh[n] + 1
    BY <1>1, <2>1 DEF OurCommand, RowsInv, Executes
  <2> PICK x \in Ids : x = fresh[n]
    BY <2>2, FreshIsFree
  <2>3. x \notin LinesOn(q[n]) /\ ~(x < fresh[n]) /\ x < fresh'[n]
    BY <2>2, FreshIsFree
  <2>4. c.before # 0 => c.before \in LinesOn(q[n]) /\ c.before \in Ids
    BY DEF OurCommand, Executes, Accepts, LinesOn, Present
  <2>5. c.row.kind \in Tables => Lists(ranks, LinesOn(q[n]) \cup {x})
    BY <1>0, <1>1, <2>3, <2>4, AtEnds, AheadLists DEF Reordered
  <2>6. c.row.kind \notin Tables => Lists(ranks, LinesOn(q[n]) \ {x})
    <3>1. LinesOn(q[n]) \ {x} = LinesOn(q[n])
      BY <2>3
    <3> QED BY <1>0, <1>1, <3>1 DEF Reordered
  <2> HIDE DEF ranks
  <2>7. RowsInv' /\ Lasting
    <3> PICK row : row = c.row
      OBVIOUS
    <3>1. Lists(ranks, IF row # Absent /\ row.kind \in Tables
                       THEN LinesOn(q[n]) \cup {x} ELSE LinesOn(q[n]) \ {x})
          \/ row = Absent
      BY <2>5, <2>6
    <3>2. c.row # Absent
      BY <2>2, RestrictionAssumption
    <3>3. q' = [q EXCEPT ![n][x] = row] /\ row \in Row /\ IsOurs(row)
      BY <2>1, <2>2
    <3> QED BY <1>0, <2>1, <2>3, <3>1, <3>2, <3>3, OneRowChanges
  <2>8. \A i \in Present(q[n]) : i < fresh[n]
    BY DEF RowsInv, Numbered, Present
  <2>9. \A m \in Routers : \A i \in Present(q[m]) : q'[m][i] = q[m][i]
    BY <2>1, <2>3, <2>8 DEF RowsInv, Numbered, Present
  <2> QED BY <2>7, <2>9 DEF Untouched
<1>2. CASE c.verb = "set"
  <2> DEFINE row == [q[n][c.id] EXCEPT !.scoped = @ \/ "clients" \in c.fields,
                                       !.disabled = @ /\ "disabled" \notin c.fields]
  <2>1. q' = [q EXCEPT ![n][c.id] = row] /\ fresh' = fresh
    BY <1>2 DEF Executes, Effect, RowsInv
  <2>2. c.id \in Ids /\ c.id < fresh[n] /\ q[n][c.id] # Absent /\ IsOurs(q[n][c.id])
    BY <1>2 DEF OurCommand, Executes, Accepts
  <2>3. row \in Row /\ IsOurs(row)
    <3> PICK old \in Row : old = q[n][c.id]
      BY <2>2 DEF RowsInv, Numbered
    <3> PICK a \in BOOLEAN : a = (old.scoped \/ "clients" \in c.fields)
      OBVIOUS
    <3> PICK b \in BOOLEAN : b = (old.disabled /\ "disabled" \notin c.fields)
      OBVIOUS
    <3>1. row = [old EXCEPT !.scoped = a, !.disabled = b]
      OBVIOUS
    <3> HIDE DEF row
    <3> QED BY <2>2, <3>1, RowSwitched
  <2>4. row.kind = q[n][c.id].kind /\ ranks = order[n] /\ row # Absent
    BY <1>2, <2>2, <2>3, RestrictionAssumption DEF RowsInv, Numbered, Row, Reordered
  <2>5. Lists(ranks, IF row # Absent /\ row.kind \in Tables
                     THEN LinesOn(q[n]) \cup {c.id} ELSE LinesOn(q[n]) \ {c.id})
    <3>1. IF row # Absent /\ row.kind \in Tables
          THEN c.id \in LinesOn(q[n]) ELSE c.id \notin LinesOn(q[n])
      BY <2>2, <2>4 DEF LinesOn, Present
    <3> HIDE DEF ranks, row
    <3>2. LinesOn(q[n]) = IF row # Absent /\ row.kind \in Tables
                          THEN LinesOn(q[n]) \cup {c.id} ELSE LinesOn(q[n]) \ {c.id}
      BY <3>1
    <3> QED BY <1>0, <2>4, <3>2
  <2> HIDE DEF row, ranks
  <2>6. RowsInv' /\ Lasting
    BY <1>0, <2>1, <2>2, <2>3, <2>4, <2>5, OneRowChanges
  <2> QED BY <2>1, <2>2, <2>6 DEF Untouched, RowsInv, Numbered, Present
<1>3. CASE c.verb = "remove"
  <2>1. q' = [q EXCEPT ![n][c.id] = Absent] /\ fresh' = fresh
    BY <1>3 DEF Executes, Effect, RowsInv
  <2>2. q[n][c.id] # Absent /\ IsOurs(q[n][c.id])
    BY <1>3 DEF OurCommand, Executes, Accepts
  <2>3. RowsInv' /\ Lasting
    <3>1. c.id \in Ids /\ ranks = Unlisted(order[n], c.id)
      BY <1>3 DEF OurCommand, Reordered
    <3>2. Lists(ranks, LinesOn(q[n]) \ {c.id})
      BY <1>0, <3>1, UnlistedLists
    <3> HIDE DEF ranks
    <3> QED BY <1>0, <2>1, <3>1, <3>2, OneRowChanges
  <2> QED BY <2>1, <2>2, <2>3 DEF Untouched, RowsInv, Numbered, Present
<1> QED BY <1>1, <1>2, <1>3 DEF OurCommand
-----------------------------------------------------------------------------
(* What is done to the tasks.                                              *)

LEMMA StillOurs ==
    ASSUME CommandInv, RowsInv', Lasting, NEW u \in Tasks, at'[u] = at[u], NEW c \in todo[u]
    PROVE  OurCommand(c, q'[Here(u)'], fresh'[Here(u)'])
<1>1. Here(u)' = Here(u) /\ Here(u) \in Routers
  BY HereIsRouter DEF CommandInv, TaskInv, Here
<1> PICK n \in Routers : n = Here(u)
  BY <1>1
<1>2. OurCommand(c, q[n], fresh[n])
  BY DEF CommandInv, TaskInv
<1>3. fresh[n] \in Nat /\ fresh'[n] \in Nat /\ fresh'[n] >= fresh[n] /\ Ids \subseteq Nat
  BY DEF CommandInv, RowsInv, Numbered, Ids, Lasting
<1>4. OurCommand(c, q'[n], fresh'[n])
  <2>1. ASSUME c.verb # "add"
        PROVE  c.id \in Ids /\ c.id < fresh'[n] /\ (q'[n][c.id] # Absent => IsOurs(q'[n][c.id]))
    <3>1. c.id \in Ids /\ c.id < fresh[n] /\ (q[n][c.id] # Absent => IsOurs(q[n][c.id]))
      BY <1>2, <2>1 DEF OurCommand
    <3>2. c.id \in Nat
      BY <1>3, <3>1
    <3>3. c.id < fresh'[n]
      BY <1>3, <3>1, <3>2
    <3> QED BY <3>1, <3>3 DEF Lasting
  <2>2. ASSUME c.before # 0
        PROVE  /\ c.before \in Ids /\ c.before < fresh'[n]
               /\ q'[n][c.before] # Absent => q'[n][c.before].kind \in Tables
    <3>1. /\ c.before \in Ids /\ c.before < fresh[n]
          /\ q[n][c.before] # Absent => q[n][c.before].kind \in Tables
      BY <1>2, <2>2 DEF OurCommand
    <3>2. c.before \in Nat
      BY <1>3, <3>1
    <3>3. c.before < fresh'[n]
      BY <1>3, <3>1, <3>2
    <3> QED BY <3>1, <3>3 DEF Lasting
  <2> QED BY <1>2, <2>1, <2>2 DEF OurCommand
<1> QED BY <1>1, <1>4

\* Only one task moves.
OnlyTask(t) ==
    /\ DOMAIN phase' = Tasks /\ DOMAIN todo' = Tasks /\ DOMAIN at' = Tasks
    /\ \A u \in Tasks \ {t} : phase'[u] = phase[u] /\ at'[u] = at[u] /\ todo'[u] = todo[u]

LEMMA OneTaskMoves ==
    ASSUME CommandInv, RowsInv', Lasting, NEW t \in Tasks, OnlyTask(t),
           at'[t] \in DOMAIN Inventory,
           phase'[t] \notin {"decide", "exec"} => todo'[t] = {},
           \A c \in todo'[t] : OurCommand(c, q'[Here(t)'], fresh'[Here(t)'])
    PROVE  TaskInv'
<1>1. \A u \in Tasks \ {t} : \A c \in todo'[u] : OurCommand(c, q'[Here(u)'], fresh'[Here(u)'])
  BY StillOurs DEF OnlyTask
<1>2. \A u \in Tasks : /\ at'[u] \in DOMAIN Inventory
                       /\ phase'[u] \notin {"decide", "exec"} => todo'[u] = {}
  BY DEF CommandInv, TaskInv, OnlyTask
<1> QED BY <1>1, <1>2 DEF TaskInv, OnlyTask

LEMMA TasksQuiet ==
    ASSUME CommandInv, RowsInv', Lasting, UNCHANGED <<phase, at, todo>>
    PROVE  TaskInv'
<1>1. \A u \in Tasks : \A c \in todo'[u] : OurCommand(c, q'[Here(u)'], fresh'[Here(u)'])
  BY StillOurs
<1> QED BY <1>1 DEF CommandInv, TaskInv

\* The next router, or the account: no command is left.
LEMMA MovesOnKeeps ==
    ASSUME CommandInv, RowsInv', Lasting, NEW t \in Tasks, NEW a, MovesOn(t, a)
    PROVE  TaskInv'
<1>1. /\ OnlyTask(t) /\ phase'[t] \in {"router", "record"} /\ todo'[t] = {}
      /\ at'[t] = at[t] \/ (at[t] < Len(Inventory) /\ at'[t] = at[t] + 1)
  BY DEF MovesOn, Goes, OnlyTask, CommandInv, TaskInv
<1>2. at[t] \in 1..Len(Inventory) /\ DOMAIN Inventory = 1..Len(Inventory) /\ Len(Inventory) \in Nat
  BY ServiceAssumption DEF CommandInv, TaskInv
<1>3. at'[t] \in DOMAIN Inventory
  BY <1>1, <1>2
<1> QED BY <1>1, <1>3, OneTaskMoves

-----------------------------------------------------------------------------
(* The steps.                                                              *)

LEMMA InitKeeps == Init => CommandInv
<1> SUFFICES ASSUME Init PROVE CommandInv
  OBVIOUS
<1>1. RowsInv
  <2>1. Lists(<< >>, {})
    BY EmptySeq DEF Lists
  <2>2. ASSUME NEW n \in Routers PROVE Numbered(q[n], fresh[n]) /\ Lists(order[n], LinesOn(q[n]))
    <3>1. LinesOn(q[n]) = {}
      BY DEF Init, LinesOn, Present
    <3>2. order[n] = << >> /\ fresh[n] = 1 /\ q[n] = [i \in Ids |-> Absent]
      BY DEF Init
    <3> QED BY <2>1, <3>1, <3>2 DEF Numbered
  <2> QED BY <2>2 DEF Init, RowsInv
<1>2. 1 \in DOMAIN Inventory
  BY ServiceAssumption
<1> QED BY <1>1, <1>2 DEF Init, CommandInv, TaskInv

LEMMA QuietKeeps ==
    ASSUME CommandInv, UNCHANGED <<routers, phase, at, todo>>
    PROVE  CommandInv' /\ Untouched
  BY RoutersKept, TasksQuiet DEF CommandInv

\* The operator: a row of theirs, one that goes, one that is disabled.
LEMMA OperatorKeeps ==
    ASSUME CommandInv, OperatorAdds \/ OperatorRemoves \/ OperatorToggles
    PROVE  CommandInv'
<1>1. CASE OperatorAdds
  <2>1. PICK n \in Routers, row \in OperatorRows :
            /\ fresh[n] <= MaxRows
            /\ q' = [q EXCEPT ![n][fresh[n]] = row]
            /\ order' = [order EXCEPT ![n] = <<fresh[n]>> \o @]
            /\ fresh' = [fresh EXCEPT ![n] = @ + 1]
    BY <1>1 DEF OperatorAdds
  <2>2. row \in Row /\ row.kind \in Tables /\ row # Absent
    BY ServiceAssumption, RestrictionAssumption DEF Row
  <2> PICK x \in Ids : x = fresh[n]
    BY <2>1, FreshIsFree DEF CommandInv
  <2>3. x \notin LinesOn(q[n]) /\ ~(x < fresh[n]) /\ x < fresh'[n]
    BY <2>1, FreshIsFree DEF CommandInv, RowsInv
  <2> PICK ranks : ranks = <<x>> \o order[n]
    OBVIOUS
  <2>4. Lists(ranks, IF row # Absent /\ row.kind \in Tables
                     THEN LinesOn(q[n]) \cup {x} ELSE LinesOn(q[n]) \ {x})
    BY <2>2, <2>3, AtEnds DEF CommandInv, RowsInv
  <2>5. q' = [q EXCEPT ![n][x] = row] /\ Reorders(n, ranks)
    BY <2>1 DEF Reorders, CommandInv, RowsInv
  <2>6. RowsInv' /\ Lasting
    <3>1. RowsInv /\ fresh' = [fresh EXCEPT ![n] = @ + 1]
      BY <2>1 DEF CommandInv
    <3> QED BY <2>2, <2>3, <2>4, <2>5, <3>1, OneRowChanges
  <2> QED BY <1>1, <2>6, TasksQuiet DEF OperatorAdds, CommandInv, task
<1>2. CASE OperatorRemoves
  <2> PICK n \in Routers : \E i \in Present(q[n]) :
               /\ q' = [q EXCEPT ![n][i] = Absent]
               /\ order' = [order EXCEPT ![n] = Unlisted(@, i)]
    BY <1>2 DEF OperatorRemoves
  <2>1. PICK i \in Present(q[n]) : /\ q' = [q EXCEPT ![n][i] = Absent] /\ fresh' = fresh
                                   /\ order' = [order EXCEPT ![n] = Unlisted(@, i)]
    BY <1>2 DEF OperatorRemoves
  <2> PICK ranks : ranks = Unlisted(order[n], i)
    OBVIOUS
  <2>2. i \in Ids /\ Lists(ranks, LinesOn(q[n]) \ {i})
    BY UnlistedLists DEF CommandInv, RowsInv, Present
  <2>3. Reorders(n, ranks)
    BY <2>1 DEF Reorders, CommandInv, RowsInv
  <2>4. RowsInv' /\ Lasting
    BY <2>1, <2>2, <2>3, OneRowChanges DEF CommandInv
  <2> QED BY <1>2, <2>4, TasksQuiet DEF OperatorRemoves, CommandInv, task
<1>3. CASE OperatorToggles
  <2> PICK n \in Routers : \E i \in Present(q[n]) : q' = [q EXCEPT ![n][i].disabled = ~@]
    BY <1>3 DEF OperatorToggles
  <2>1. PICK i \in Present(q[n]) : /\ q' = [q EXCEPT ![n][i].disabled = ~@]
                                   /\ fresh' = fresh /\ order' = order
    BY <1>3 DEF OperatorToggles
  <2> DEFINE row == [q[n][i] EXCEPT !.disabled = ~@]
  <2>2. q' = [q EXCEPT ![n][i] = row]
    BY <2>1 DEF CommandInv, RowsInv, Numbered, Present
  <2>3. /\ i \in Ids /\ q[n][i] # Absent /\ i < fresh[n] /\ row \in Row
        /\ IsOurs(q[n][i]) => IsOurs(row)
        /\ row.kind = q[n][i].kind
    BY DEF CommandInv, RowsInv, Numbered, Present, Row, IsOurs
  <2> HIDE DEF row
  <2> PICK ranks : ranks = order[n]
    OBVIOUS
  <2>4. Reorders(n, ranks) /\ Lists(ranks, LinesOn(q[n]))
    BY <2>1 DEF CommandInv, RowsInv, Reorders
  <2>5. \/ row = Absent
        \/ Lists(ranks, IF row # Absent /\ row.kind \in Tables
                        THEN LinesOn(q[n]) \cup {i} ELSE LinesOn(q[n]) \ {i})
    <3>1. IF row.kind \in Tables THEN i \in LinesOn(q[n]) ELSE i \notin LinesOn(q[n])
      BY <2>3 DEF LinesOn, Present
    <3>2. LinesOn(q[n]) = IF row.kind \in Tables
                          THEN LinesOn(q[n]) \cup {i} ELSE LinesOn(q[n]) \ {i}
      BY <3>1
    <3> QED BY <2>4, <3>2
  <2>6. row # Absent
    BY <2>3, RestrictionAssumption DEF Row
  <2>7. RowsInv' /\ Lasting
    <3>1. RowsInv /\ fresh' = fresh
      BY <2>1 DEF CommandInv
    <3>2. IsOurs(row) \/ (q[n][i] # Absent /\ ~IsOurs(q[n][i]))
      BY <2>3
    <3>3. i \in Ids /\ row \in Row /\ i < fresh'[n] /\ q[n][i] # Absent /\ row.kind = q[n][i].kind
      BY <2>3, <3>1
    <3>4. Lists(ranks, IF row # Absent /\ row.kind \in Tables
                       THEN LinesOn(q[n]) \cup {i} ELSE LinesOn(q[n]) \ {i})
      BY <2>5, <2>6
    <3> QED BY ONLY <2>2, <2>4, <3>1, <3>2, <3>3, <3>4, n \in Routers, OneRowChanges
  <2> QED BY <1>3, <2>7, TasksQuiet DEF OperatorToggles, CommandInv, task
<1> QED BY <1>1, <1>2, <1>3

\* A task that touches no router and has nothing to send.
LEMMA IdleKeeps ==
    ASSUME CommandInv, NEW t \in Tasks, UNCHANGED <<routers, todo>>,
           phase[t] \notin {"decide", "exec"}, NEW p, phase' = [phase EXCEPT ![t] = p],
           at' = at \/ \E k \in DOMAIN Inventory : at' = [at EXCEPT ![t] = k]
    PROVE  CommandInv'
<1>1. RowsInv' /\ Lasting
  BY RoutersKept DEF CommandInv
<1>2. OnlyTask(t) /\ at'[t] \in DOMAIN Inventory /\ todo'[t] = {}
  BY DEF OnlyTask, CommandInv, TaskInv
<1>3. TaskInv'
  BY <1>1, <1>2, OneTaskMoves
<1> QED BY <1>1, <1>3 DEF CommandInv

LEMMA RequestsKeep ==
    ASSUME CommandInv, NEW t \in Tasks,
           \/ Reconciles(t) \/ Saves(t) \/ Suspends(t) \/ Deletes(t) \/ Applies(t)
           \/ ReadsRules(t) \/ Records(t)
    PROVE  CommandInv' /\ Untouched
<1>1. UNCHANGED <<routers, todo>> /\ phase[t] \notin {"decide", "exec"}
  BY DEF Reconciles, Saves, Suspends, Deletes, Applies, ReadsRules, Records, Begins
<1>2. \E p : phase' = [phase EXCEPT ![t] = p]
  BY DEF Reconciles, Saves, Suspends, Deletes, Applies, ReadsRules, Records, Begins, Goes
<1>3. at' = at \/ \E k \in DOMAIN Inventory : at' = [at EXCEPT ![t] = k]
  BY ServiceAssumption
     DEF Reconciles, Saves, Suspends, Deletes, Applies, ReadsRules, Records
<1> QED BY <1>1, <1>2, <1>3, IdleKeeps, RoutersKept DEF CommandInv

LEMMA InspectsKeeps ==
    ASSUME CommandInv, RulesInv, NEW t \in Tasks, Inspects(t)
    PROVE  CommandInv' /\ Untouched
<1> PICK n \in Routers : n = Here(t)
  BY HereIsRouter DEF CommandInv, TaskInv
<1> DEFINE plan == IF goal[t] \in RuleIds THEN PlanLift(q[n], goal[t])
                   ELSE PlanRestrictions(q[n], order[n], Targets(snap[t]))
<1>1. \A c \in plan : OurCommand(c, q[n], fresh[n])
  <2>1. Targets(snap[t]) \in Wanted
    BY TargetsTyped DEF RulesInv
  <2> QED BY <2>1, PlansAreOurs, LiftsAreOurs DEF CommandInv, RowsInv
<1>2. UNCHANGED routers
  BY DEF Inspects
<1>3. RowsInv' /\ Lasting /\ Untouched
  BY <1>2, RoutersKept DEF CommandInv
<1>4. \/ MovesOn(t, "posee")
      \/ /\ todo' = [todo EXCEPT ![t] = plan] /\ at' = at
         /\ phase' = [phase EXCEPT ![t] = "decide"]
  BY DEF Inspects, Goes
<1> HIDE DEF plan
<1>5. CASE MovesOn(t, "posee")
  BY <1>3, <1>5, MovesOnKeeps DEF CommandInv
<1>6. CASE /\ todo' = [todo EXCEPT ![t] = plan] /\ at' = at
           /\ phase' = [phase EXCEPT ![t] = "decide"]
  <2>1. OnlyTask(t) /\ at'[t] \in DOMAIN Inventory /\ phase'[t] = "decide" /\ todo'[t] = plan
    BY <1>6 DEF OnlyTask, CommandInv, TaskInv
  <2>2. Here(t)' = n
    BY <1>6 DEF Here
  <2>3. TaskInv'
    BY <1>1, <1>2, <1>3, <2>1, <2>2, OneTaskMoves DEF routers
  <2> QED BY <1>3, <2>3 DEF CommandInv
<1> QED BY <1>4, <1>5, <1>6

\* A task that touches no router, and keeps some of its commands or none.
LEMMA DecidesKeeps ==
    ASSUME CommandInv, NEW t \in Tasks,
           Decides(t) \/ Refused(t) \/ ReadFails(t)
    PROVE  CommandInv' /\ Untouched
<1>1. UNCHANGED routers
  BY DEF Decides, Refused, ReadFails
<1>2. RowsInv' /\ Lasting /\ Untouched
  BY <1>1, RoutersKept DEF CommandInv
<1>3. (\E a : MovesOn(t, a)) \/ (phase' = [phase EXCEPT ![t] = "exec"] /\ UNCHANGED <<at, todo>>)
  BY DEF Decides, Refused, ReadFails, Goes
<1>4. ASSUME NEW a, MovesOn(t, a) PROVE TaskInv'
  BY <1>2, <1>4, MovesOnKeeps
<1>5. CASE phase' = [phase EXCEPT ![t] = "exec"] /\ UNCHANGED <<at, todo>>
  <2>1. OnlyTask(t) /\ at'[t] = at[t] /\ at'[t] \in DOMAIN Inventory /\ phase'[t] = "exec"
    BY <1>5 DEF OnlyTask, CommandInv, TaskInv
  <2>2. \A c \in todo'[t] : OurCommand(c, q'[Here(t)'], fresh'[Here(t)'])
    BY <1>2, <1>5, <2>1, StillOurs
  <2>3. TaskInv'
    BY <1>2, <2>1, <2>2, OneTaskMoves
  <2> QED BY <1>2, <2>3 DEF CommandInv
<1> QED BY <1>2, <1>3, <1>4, <1>5 DEF CommandInv

LEMMA SendsKeeps ==
    ASSUME CommandInv, NEW t \in Tasks, Sends(t) \/ ConnectionLost(t)
    PROVE  CommandInv' /\ Untouched
<1> PICK n \in Routers : n = Here(t)
  BY HereIsRouter DEF CommandInv, TaskInv
<1>1. UNCHANGED routers \/ \E c \in todo[t] : Executes(n, c)
  BY DEF Sends, ConnectionLost
<1>2. RowsInv' /\ Lasting /\ Untouched
  <2>1. CASE UNCHANGED routers
    BY <2>1, RoutersKept DEF CommandInv, routers
  <2>2. ASSUME NEW c \in todo[t], Executes(n, c) PROVE RowsInv' /\ Lasting /\ Untouched
    <3>1. OurCommand(c, q[n], fresh[n])
      BY DEF CommandInv, TaskInv
    <3> QED BY <2>2, <3>1, ExecutesOurs DEF CommandInv
  <2> QED BY <1>1, <2>1, <2>2
<1>3. \/ \E a : MovesOn(t, a)
      \/ \E c \in todo[t] : /\ phase[t] = "exec" /\ UNCHANGED <<phase, at>>
                            /\ todo' = [todo EXCEPT ![t] = @ \ {c}]
  BY DEF Sends, ConnectionLost, NextUp
<1>4. ASSUME NEW a, MovesOn(t, a) PROVE TaskInv'
  BY <1>2, <1>4, MovesOnKeeps
<1>5. ASSUME NEW c, phase[t] = "exec", UNCHANGED <<phase, at>>,
             todo' = [todo EXCEPT ![t] = @ \ {c}]
      PROVE  TaskInv'
  <2>1. /\ OnlyTask(t) /\ at'[t] = at[t] /\ at'[t] \in DOMAIN Inventory /\ phase'[t] = "exec"
        /\ todo'[t] \subseteq todo[t]
    BY <1>5 DEF OnlyTask, CommandInv, TaskInv
  <2>2. \A d \in todo'[t] : OurCommand(d, q'[Here(t)'], fresh'[Here(t)'])
    BY <1>2, <2>1, StillOurs
  <2> QED BY <1>2, <2>1, <2>2, OneTaskMoves
<1> QED BY <1>2, <1>3, <1>4, <1>5 DEF CommandInv

LEMMA EnvironmentKeeps ==
    ASSUME CommandInv, Environment
    PROVE  CommandInv' /\ (todo' # todo => Untouched)
<1>1. CASE Discovers \/ ClientMoves \/ FlagFlips \/ SwitchFlips
  BY <1>1, QuietKeeps
     DEF Discovers, ClientMoves, FlagFlips, SwitchFlips, ResolvesTo, task
<1>2. CASE OperatorAdds \/ OperatorRemoves \/ OperatorToggles
  BY <1>2, OperatorKeeps DEF OperatorAdds, OperatorRemoves, OperatorToggles, task
<1>3. CASE Restart
  <2>1. RowsInv' /\ Lasting /\ Untouched
    BY <1>3, RoutersKept DEF Restart, routers, CommandInv
  <2>2. 1 \in DOMAIN Inventory
    BY ServiceAssumption
  <2>3. TaskInv'
    BY <1>3, <2>2 DEF Restart, TaskInv
  <2> QED BY <2>1, <2>3 DEF CommandInv
<1> QED BY <1>1, <1>2, <1>3 DEF Environment

LEMMA NextKeeps ==
    ASSUME CommandInv, RulesInv, [Next]_vars
    PROVE  CommandInv' /\ (todo' # todo => Untouched)
<1>1. CASE UNCHANGED vars
  BY <1>1, QuietKeeps DEF vars, task
<1>2. ASSUME NEW t \in Tasks, Task(t) PROVE CommandInv' /\ Untouched
  BY <1>2, RequestsKeep, InspectsKeeps, DecidesKeeps, SendsKeeps DEF Task, Proceeds
<1> QED BY <1>1, <1>2, EnvironmentKeeps DEF Next

-----------------------------------------------------------------------------
(* The rules.                                                              *)

LEMMA RulesInit == Init => RulesInv
  BY ServiceAssumption DEF Init, RulesInv, NoRules, Table

\* A pass has one of three answers at each router.
LEMMA MovesOnTells ==
    ASSUME RulesInv, NEW t \in Tasks, NEW a \in Answers, MovesOn(t, a)
    PROVE  found' \in [Tasks -> SUBSET Answers]
  BY DEF RulesInv, MovesOn

LEMMA RecordsTyped ==
    ASSUME RulesInv, NEW t \in Tasks, Records(t)
    PROVE  RulesInv'
<1> PICK etat : etat = Overall(found[t])
  OBVIOUS
<1>1. etat \in Answers
  BY DEF Overall, RulesInv, Answers
<1>2. \A r \in RuleIds, s \in States : Known(rules, r) => [rules[r] EXCEPT !.state = s] \in Rule
  BY DEF RulesInv, Table, Known, Rule
<1>3. RecordsPass(rules, snap[t], etat, goal[t] = Pass) \in Table
  BY <1>1, <1>2 DEF RecordsPass, RulesInv, Table, Answers, States
<1>4. goal[t] \in RuleIds => RecordsLift(rules, goal[t], etat) \in Table
  BY <1>1, <1>2 DEF RecordsLift, RulesInv, Table, Answers, States
<1>5. rules' \in Table
  BY <1>3, <1>4 DEF Records
<1> QED BY <1>5 DEF Records, RulesInv, NoRules, Table

LEMMA RulesKept ==
    ASSUME RulesInv, [Next]_vars
    PROVE  RulesInv'
<1>1. CASE UNCHANGED <<rules, snap, found>>
  BY <1>1 DEF RulesInv
<1>2. CASE Discovers \/ ClientMoves
  <2>1. \E r \in RuleIds, shape \in Shape : ResolvesTo(r, shape)
    <3>1. CASE Discovers
      <4>1. PICK r \in RuleIds, d \in Dests :
                ResolvesTo(r, [rules[r].shape EXCEPT !.dests =
                                  IF d \in @ THEN @ \ {d} ELSE @ \cup {d}])
        BY <3>1 DEF Discovers
      <4>2. rules[r].shape \in Shape
        BY <4>1 DEF ResolvesTo, RulesInv, Table, Known, Rule
      <4>3. [rules[r].shape EXCEPT !.dests = IF d \in @ THEN @ \ {d} ELSE @ \cup {d}] \in Shape
        BY <4>2 DEF Shape
      <4> QED BY <4>1, <4>3
    <3>2. CASE ClientMoves
      <4>1. PICK r \in RuleIds, cs \in SUBSET Clients :
                ResolvesTo(r, [rules[r].shape EXCEPT !.clients = cs])
        BY <3>2 DEF ClientMoves
      <4>2. rules[r].shape \in Shape
        BY <4>1 DEF ResolvesTo, RulesInv, Table, Known, Rule
      <4>3. [rules[r].shape EXCEPT !.clients = cs] \in Shape
        BY <4>2 DEF Shape
      <4> QED BY <4>1, <4>3
    <3> QED BY <1>2, <3>1, <3>2
  <2> QED BY <1>2, <2>1
             DEF Discovers, ClientMoves, ResolvesTo, task, RulesInv, Table, Known, Rule
<1>3. CASE Restart
  BY <1>3 DEF Restart, RulesInv, NoRules, Table
<1>4. ASSUME NEW t \in Tasks, Saves(t) \/ Suspends(t) \/ Deletes(t) PROVE RulesInv'
  <2>1. UNCHANGED <<snap, found>>
    BY <1>4 DEF Saves, Suspends, Deletes, Begins
  <2>2. CASE Saves(t)
    <3>1. PICK r \in RuleIds, shape \in Shapes, on \in BOOLEAN :
              /\ rules[r] # Gone
              /\ rules' = [rules EXCEPT ![r] =
                     [enabled |-> on, shape |-> shape,
                      state |-> IF @ = Free THEN "new" ELSE @.state]]
      BY <2>2 DEF Saves
    <3> PICK s : s = IF rules[r] = Free THEN "new" ELSE rules[r].state
      OBVIOUS
    <3>2. s \in States /\ shape \in Shape
      BY <3>1, ServiceAssumption DEF RulesInv, Table, Rule, States
    <3> PICK new : new = [enabled |-> on, shape |-> shape, state |-> s]
      OBVIOUS
    <3>3. new \in Rule
      BY <3>2 DEF Rule
    <3>4. rules' = [rules EXCEPT ![r] = new]
      BY <3>1
    <3> QED BY <2>1, <3>3, <3>4 DEF RulesInv, Table
  <2>3. CASE Suspends(t)
    <3>1. PICK r \in RuleIds : /\ Active(rules, r)
                               /\ rules' = [rules EXCEPT ![r].enabled = FALSE]
      BY <2>3 DEF Suspends
    <3> PICK new : new = [rules[r] EXCEPT !.enabled = FALSE]
      OBVIOUS
    <3>2. new \in Rule
      BY <3>1 DEF Active, Known, RulesInv, Table, Rule
    <3>3. rules' = [rules EXCEPT ![r] = new]
      BY <3>1
    <3> QED BY <2>1, <3>2, <3>3 DEF RulesInv, Table
  <2>4. CASE Deletes(t)
    BY <2>1, <2>4 DEF Deletes, RulesInv, Table
  <2> QED BY <1>4, <2>2, <2>3, <2>4
<1>5. ASSUME NEW t \in Tasks, ReadsRules(t) PROVE RulesInv'
  BY <1>5 DEF ReadsRules, RulesInv
<1>6. ASSUME NEW t \in Tasks,
             Inspects(t) \/ Decides(t) \/ Sends(t) \/ Refused(t) \/ ReadFails(t)
                \/ ConnectionLost(t)
      PROVE  RulesInv'
  <2>1. UNCHANGED <<rules, snap>>
    BY <1>6 DEF Inspects, Decides, Sends, Refused, ReadFails, ConnectionLost
  <2>2. (\E a \in Answers : MovesOn(t, a)) \/ found' = found
    BY <1>6 DEF Inspects, Decides, Sends, Refused, ReadFails, ConnectionLost, Answers
  <2> QED BY <2>1, <2>2, MovesOnTells DEF RulesInv
<1>7. \/ UNCHANGED <<rules, snap, found>> \/ Discovers \/ ClientMoves \/ Restart
      \/ \E t \in Tasks : \/ Saves(t) \/ Suspends(t) \/ Deletes(t) \/ ReadsRules(t)
                          \/ Inspects(t) \/ Decides(t) \/ Sends(t) \/ Refused(t)
                          \/ ReadFails(t) \/ ConnectionLost(t) \/ Records(t)
  BY DEF Next, vars, task, Environment, FlagFlips, SwitchFlips, OperatorAdds,
         OperatorRemoves, OperatorToggles, Task, Proceeds, Reconciles, Applies, Begins
<1> QED BY <1>1, <1>2, <1>3, <1>4, <1>5, <1>6, <1>7, RecordsTyped

\* Whatever the passes, people, faults and restarts do beside each other and beside
\* the operator, no command of ours touches a line of the operator, however old the
\* reading it was computed from (plan_restrictions and plan_lift name only rows that
\* carry our tag, and RouterOS gives a number once).
THEOREM OperatorSafe == Spec => OperatorLinesKept
<1>1. Init => CommandInv /\ RulesInv
  BY InitKeeps, RulesInit
<1>2. CommandInv /\ RulesInv /\ [Next]_vars => CommandInv' /\ RulesInv'
  BY NextKeeps, RulesKept
<1>3. CommandInv /\ RulesInv /\ [Next]_vars
      => \A n \in Routers : todo' # todo
            => \A i \in Present(q[n]) : ~IsOurs(q[n][i]) => q'[n][i] = q[n][i]
  BY NextKeeps DEF Untouched
<1> QED BY <1>1, <1>2, <1>3, PTL DEF Spec, OperatorLinesKept
-----------------------------------------------------------------------------
(* What an empty plan says of the rows.                                    *)

LEMMA NothingToWrite ==
    ASSUME NEW rows, NEW ranks, NEW targets, PlanRestrictions(rows, ranks, targets) = {}
    PROVE  /\ \A r \in RuleIds, side \in Sides :
                  DesiredAddrs(targets[r], side) \subseteq Listed(rows, r, side)
           /\ \A r \in RuleIds : \A l \in DesiredLines(targets[r]) :
                  LineActions(rows, ranks, targets[r], r, l[1], l[2]) = {}
           /\ \A i \in Present(rows) :
                  IsOurs(rows[i]) /\ rows[i].kind \in Sides
                  => rows[i].addr \in DesiredAddrs(targets[rows[i].owner], rows[i].kind)
           /\ \A i \in Present(rows) :
                  /\ IsOurs(rows[i]) /\ rows[i].kind \in Tables
                  /\ i \in LastOf(ranks, Lines(rows, rows[i].owner, rows[i].kind, rows[i].way))
                  => <<rows[i].kind, rows[i].way>> \in DesiredLines(targets[rows[i].owner])
<1> DEFINE wanted(r, side) == DesiredAddrs(targets[r], side)
           new(r, side) == {Add(0, 0, NewEntry(r, side, a), 0) :
                                a \in wanted(r, side) \ Listed(rows, r, side)}
           adds    == UNION {new(r, side) : r \in RuleIds, side \in Sides}
           aligns  == UNION {UNION {LineActions(rows, ranks, targets[r], r, l[1], l[2]) :
                                       l \in DesiredLines(targets[r])} : r \in RuleIds}
           entries == {i \in Present(rows) :
                          /\ IsOurs(rows[i]) /\ rows[i].kind \in Sides
                          /\ rows[i].addr \notin wanted(rows[i].owner, rows[i].kind)}
           lines   == {i \in Present(rows) :
                          /\ IsOurs(rows[i]) /\ rows[i].kind \in Tables
                          /\ <<rows[i].kind, rows[i].way>>
                                \notin DesiredLines(targets[rows[i].owner])
                          /\ i \in LastOf(ranks, Lines(rows, rows[i].owner, rows[i].kind,
                                                       rows[i].way))}
<1>1. adds \cup aligns \cup {Remove(2, 0, i) : i \in entries}
           \cup {Remove(3, 0, i) : i \in lines} = {}
  <2>1. ASSUME NEW c \in adds \cup aligns \cup {Remove(2, 0, i) : i \in entries}
                             \cup {Remove(3, 0, i) : i \in lines}
        PROVE  c \in PlanRestrictions(rows, ranks, targets)
    BY DEF PlanRestrictions
  <2> HIDE DEF adds, aligns, entries, lines
  <2> QED BY <2>1
<1>2. adds = {} /\ aligns = {} /\ entries = {} /\ lines = {}
  <2> HIDE DEF adds, aligns, entries, lines
  <2> QED BY <1>1
<1>3. ASSUME NEW r \in RuleIds, NEW side \in Sides
      PROVE  wanted(r, side) \subseteq Listed(rows, r, side)
  <2>1. new(r, side) \subseteq adds
    <3> HIDE DEF new
    <3> QED OBVIOUS
  <2>2. new(r, side) = {}
    <3> HIDE DEF new, adds
    <3> QED BY <1>2, <2>1
  <2> HIDE DEF wanted
  <2>3. ASSUME NEW a \in wanted(r, side) \ Listed(rows, r, side) PROVE FALSE
    <3>1. Add(0, 0, NewEntry(r, side, a), 0) \in new(r, side)
      OBVIOUS
    <3> HIDE DEF new
    <3> QED BY <2>2, <3>1
  <2> QED BY <2>3
<1>4. ASSUME NEW r \in RuleIds, NEW l \in DesiredLines(targets[r])
      PROVE  LineActions(rows, ranks, targets[r], r, l[1], l[2]) = {}
  <2>1. LineActions(rows, ranks, targets[r], r, l[1], l[2]) \subseteq aligns
    OBVIOUS
  <2> QED BY <1>2, <2>1
<1> QED BY <1>2, <1>3, <1>4

\* A line that asks for no command is there, in its place, enabled, and names the
\* clients when it has to.
LEMMA LineInPlace ==
    ASSUME NEW rows, NEW ranks, NEW target, NEW r \in RuleIds, NEW kind, NEW way,
           LineActions(rows, ranks, target, r, kind, way) = {}
    PROVE  \E i \in Lines(rows, r, kind, way) :
               /\ ~Misplaced(rows, ranks, kind, i)
               /\ ~rows[i].disabled
               /\ kind # "tree" /\ target.clients # {} => rows[i].scoped
<1> DEFINE posed == Lines(rows, r, kind, way)
           kept   == {i \in LastOf(ranks, posed) : ~Misplaced(rows, ranks, kind, i)}
           line   == NewLine(target, r, kind, way)
<1>1. kept # {}
  BY DEF LineActions
<1>2. \A i \in kept : Differing(rows[i], line) = {}
  BY DEF LineActions
<1>3. line.scoped = (kind # "tree" /\ target.clients # {})
  BY DEF NewLine
<1>4. PICK i \in kept : TRUE
  BY <1>1
<1>5. i \in posed /\ ~Misplaced(rows, ranks, kind, i)
  BY <1>4 DEF LastOf
<1>6. ~rows[i].disabled /\ (line.scoped => rows[i].scoped)
  BY <1>2, <1>4 DEF Differing
<1> QED BY <1>3, <1>5, <1>6

\* Of the lines with one tag there is a last one.
LEMMA LastOfThere ==
    ASSUME NEW rows, NEW ranks, Lists(ranks, LinesOn(rows)), NEW r \in RuleIds,
           NEW kind \in Tables, NEW way, Lines(rows, r, kind, way) # {}
    PROVE  LastOf(ranks, Lines(rows, r, kind, way)) # {}
<1>1. Lines(rows, r, kind, way) \subseteq LinesOn(rows) /\ Lines(rows, r, kind, way) \subseteq Ids
  BY DEF Lines, LinesOn, OfRule, Present
<1> QED BY <1>1, FirstAndLast DEF LastOf
-----------------------------------------------------------------------------
(* A restriction with nothing left to write.                               *)

\* Two lines do not stand at the same place.
LEMMA RanksDiffer ==
    ASSUME NEW s, NEW T, Lists(s, T), NEW i \in T, NEW j \in T, i \in Ids, j \in Ids,
           Rank(s, i) = Rank(s, j)
    PROVE  i = j
<1>1. s[Rank(s, i)] = i /\ s[Rank(s, j)] = j
  BY RankIs
<1> QED BY <1>1

\* Where a line of ours that is not behind the operator's meets some traffic, the
\* line that decides is one of ours.
LEMMA OursDecides ==
    ASSUME NEW rows, NEW ranks, Lists(ranks, LinesOn(rows)), NEW kind \in Tables, kind # "tree",
           NEW i \in Present(rows), rows[i].kind = kind, IsOurs(rows[i]),
           ~Misplaced(rows, ranks, kind, i),
           NEW c, NEW d, NEW way, Meets(rows, i, c, d, way)
    PROVE  \E k \in Decider(rows, ranks, kind, c, d, way) : IsOurs(rows[k])
<1> DEFINE S == {j \in Present(rows) : rows[j].kind = kind /\ Meets(rows, j, c, d, way)}
<1>1. i \in S /\ S \subseteq LinesOn(rows) /\ S \subseteq Ids
  BY DEF LinesOn, Present
<1>2. PICK k \in S : \A j \in S : Rank(ranks, k) <= Rank(ranks, j)
  <2> HIDE DEF S
  <2> QED BY <1>1, FirstAndLast
<1>3. k \in Decider(rows, ranks, kind, c, d, way)
  BY <1>2 DEF Decider
<1>4. ASSUME ~IsOurs(rows[k]) PROVE FALSE
  <2> DEFINE f == FirstForeign(rows, ranks, kind)
  <2>1. k \in Foreign(rows, kind)
    BY <1>2, <1>4 DEF Foreign, Meets
  <2>2. f \in Foreign(rows, kind) /\ Rank(ranks, f) <= Rank(ranks, k)
    BY <2>1, FirstForeignIs
  <2>3. f \in LinesOn(rows) /\ f \in Ids
    BY <2>2 DEF Foreign, LinesOn, Present
  <2>4. ~(Rank(ranks, i) > Rank(ranks, f))
    BY <2>1 DEF Misplaced
  <2>5. /\ Rank(ranks, i) \in 1..Len(ranks) /\ Rank(ranks, k) \in 1..Len(ranks)
        /\ Rank(ranks, f) \in 1..Len(ranks) /\ Len(ranks) \in Nat
    <3>1. Len(ranks) \in Nat
      BY LenProperties DEF Lists
    <3> HIDE DEF f, S
    <3> QED BY <1>1, <1>2, <2>3, <3>1, RankIs
  <2>6. Rank(ranks, k) <= Rank(ranks, i)
    BY <1>1, <1>2
  <2> HIDE DEF f, S
  <2>7. Rank(ranks, i) = Rank(ranks, k)
    BY <2>2, <2>4, <2>5, <2>6
  <2>8. i = k
    BY <1>1, <1>2, <2>7, RanksDiffer
  <2> QED BY <1>4, <2>8
<1> QED BY <1>3, <1>4

\* A mark that decides has its queue.
LEMMA MarkHasQueue ==
    ASSUME NEW rows, NEW ranks, Lists(ranks, LinesOn(rows)), NEW targets,
           PlanRestrictions(rows, ranks, targets) = {},
           NEW k \in Present(rows), rows[k].kind = "mangle", IsOurs(rows[k]),
           NEW way, rows[k].way = way
    PROVE  \E j \in Lines(rows, rows[k].owner, "tree", way) : ~rows[j].disabled
<1> PICK o \in RuleIds : o = rows[k].owner
  BY DEF IsOurs
<1> DEFINE marks == Lines(rows, o, "mangle", way)
<1>1. k \in marks
  BY DEF Lines, OfRule
<1>2. PICK m \in LastOf(ranks, marks) : TRUE
  BY <1>1, LastOfThere DEF Tables
<1>3. /\ m \in Present(rows) /\ IsOurs(rows[m]) /\ rows[m].kind = "mangle" /\ rows[m].way = way
      /\ rows[m].owner = o
  BY <1>2 DEF LastOf, Lines, OfRule, IsOurs
<1>4. <<"mangle", way>> \in DesiredLines(targets[o])
  BY <1>2, <1>3, NothingToWrite DEF Tables
<1>5. <<"tree", way>> \in DesiredLines(targets[o])
  BY <1>4 DEF DesiredLines
<1>6. LineActions(rows, ranks, targets[o], o, "tree", way) = {}
  <2>1. \A l \in DesiredLines(targets[o]) :
            LineActions(rows, ranks, targets[o], o, l[1], l[2]) = {}
    BY NothingToWrite
  <2> QED BY <1>5, <2>1
<1> QED BY <1>6, LineInPlace

\* The target of a rule that is enabled, spelt out.
LEMMA TargetIs ==
    ASSUME RulesInv, NEW r \in RuleIds, Laid(TargetOf(rules, r))
    PROVE  LET target == TargetOf(rules, r)
               shape  == rules[r].shape
           IN  /\ target \in Target /\ rules[r] \in Rule
               /\ target.dests = shape.dests /\ target.action = shape.action
               /\ target.clients = IF shape.chosen THEN shape.clients ELSE {}
               /\ target = Targets(rules)[r]
<1>1. Active(rules, r)
  BY DEF Laid, TargetOf
<1>2. rules[r] \in Rule
  BY <1>1 DEF Active, Known, RulesInv, Table
<1> QED BY <1>1, <1>2 DEF TargetOf, Rule, Shape, Target, Targets

LEMMA AddressesInForce ==
    ASSUME NEW n, NEW r \in RuleIds, ~Muted(n, r), NEW side \in Sides
    PROVE  Listed(q[n], r, side) \subseteq InForce(q[n], r, side)
  BY DEF Muted, Listed, InForce

\* What the rule names is restrained.
LEMMA NamedIsRestrained ==
    ASSUME CommandInv, RulesInv, NEW n \in Routers, NEW r \in RuleIds,
           Laid(TargetOf(rules, r)), ~Widened(n, r), ~Muted(n, r), Nothing(n)
    PROVE  Restrains(n, rules, r)
<1> PICK rows, ranks : rows = q[n] /\ ranks = order[n]
  OBVIOUS
<1> PICK targets : targets = Targets(rules)
  OBVIOUS
<1> PICK target \in Target : target = TargetOf(rules, r)
  BY TargetIs
<1> PICK shape : shape = rules[r].shape
  OBVIOUS
<1>1. /\ target = targets[r] /\ Laid(target)
      /\ target.clients = IF shape.chosen THEN shape.clients ELSE {}
  BY TargetIs
<1>2. Lists(ranks, LinesOn(rows)) /\ PlanRestrictions(rows, ranks, targets) = {}
  BY DEF CommandInv, RowsInv, Nothing, PlanNow
<1>3. /\ target.dests \subseteq InForce(rows, r, "dst")
      /\ target.clients \subseteq InForce(rows, r, "src")
  <2>1. \A side \in Sides : DesiredAddrs(target, side) \subseteq Listed(rows, r, side)
    BY <1>1, <1>2, NothingToWrite
  <2>2. /\ DesiredAddrs(target, "dst") = target.dests /\ DesiredAddrs(target, "src") = target.clients
        /\ "dst" \in Sides /\ "src" \in Sides
    BY <1>1 DEF DesiredAddrs, Sides
  <2> QED BY <2>1, <2>2, AddressesInForce
<1>4. ASSUME NEW c, shape.chosen => c \in target.clients, NEW d \in target.dests,
             NEW kind \in {"filter", "mangle"}, NEW way, <<kind, way>> \in DesiredLines(target)
      PROVE  \E k \in Decider(rows, ranks, kind, c, d, way) : IsOurs(rows[k])
  <2>1. LineActions(rows, ranks, target, r, kind, way) = {}
    <3>1. \A l \in DesiredLines(target) :
              LineActions(rows, ranks, target, r, l[1], l[2]) = {}
      BY <1>1, <1>2, NothingToWrite
    <3> QED BY <1>4, <3>1
  <2>2. PICK i \in Lines(rows, r, kind, way) :
            ~Misplaced(rows, ranks, kind, i) /\ ~rows[i].disabled
    BY <2>1, LineInPlace
  <2>3. /\ i \in Present(rows) /\ rows[i].kind = kind /\ rows[i].way = way
        /\ rows[i].owner = r /\ IsOurs(rows[i]) /\ i \in OfRule(rows, r)
    BY <2>2 DEF Lines, OfRule, IsOurs
  <2>4. rows[i].scoped => shape.chosen
    BY <2>3 DEF Widened
  <2>5. Meets(rows, i, c, d, way)
    BY <1>3, <1>4, <2>2, <2>3, <2>4 DEF Meets
  <2>6. kind \in Tables /\ kind # "tree"
    BY DEF Tables
  <2> QED BY <1>2, <2>2, <2>3, <2>5, <2>6, OursDecides
<1>5. ASSUME NEW c, shape.chosen => c \in target.clients, NEW d \in target.dests,
             NEW l \in DesiredLines(target)
      PROVE  Restrained(rows, ranks, target.action, c, d, l[2])
  <2>1. CASE target.action = "block"
    <3>1. <<"filter", l[2]>> \in DesiredLines(target)
      BY <1>1, <1>5, <2>1 DEF DesiredLines
    <3> QED BY <1>4, <1>5, <2>1, <3>1 DEF Restrained, Dropped
  <2>2. CASE target.action # "block"
    <3>1. <<"mangle", l[2]>> \in DesiredLines(target)
      BY <1>1, <1>5, <2>2 DEF DesiredLines
    <3>2. PICK k \in Decider(rows, ranks, "mangle", c, d, l[2]) : IsOurs(rows[k])
      BY <1>4, <1>5, <3>1
    <3>3. k \in Present(rows) /\ rows[k].kind = "mangle" /\ rows[k].way = l[2]
      BY <3>2 DEF Decider, Meets
    <3>4. \E j \in Lines(rows, rows[k].owner, "tree", l[2]) : ~rows[j].disabled
      BY <1>2, <3>2, <3>3, MarkHasQueue
    <3> QED BY <2>2, <3>2, <3>4 DEF Restrained, Capped
  <2> QED BY <2>1, <2>2
<1> QED BY <1>5 DEF Restrains

\* A client that the rule does not name is not met by its lines.
LEMMA OthersAreFree ==
    ASSUME CommandInv, RulesInv, NEW n \in Routers, NEW r \in RuleIds,
           Laid(TargetOf(rules, r)), rules[r].shape.chosen,
           ~Doubled(n, r), ~Nobody(r), Nothing(n)
    PROVE  ~Strays(n, r)
<1> PICK rows, ranks : rows = q[n] /\ ranks = order[n]
  OBVIOUS
<1> PICK targets : targets = Targets(rules)
  OBVIOUS
<1> PICK target \in Target : target = TargetOf(rules, r)
  BY TargetIs
<1>1. /\ target = targets[r] /\ Laid(target)
      /\ target.clients = rules[r].shape.clients /\ target.clients # {}
  BY TargetIs DEF Nobody
<1>2. Lists(ranks, LinesOn(rows)) /\ PlanRestrictions(rows, ranks, targets) = {}
  BY DEF CommandInv, RowsInv, Nothing, PlanNow
<1> SUFFICES ASSUME NEW c \in Clients \ target.clients, NEW d \in Dests, NEW way \in Ways,
                    NEW kind \in {"filter", "mangle"},
                    NEW i \in Decider(rows, ranks, kind, c, d, way), rows[i].owner = r
             PROVE  FALSE
  BY <1>1 DEF Strays
<1> DEFINE posed == Lines(rows, r, kind, way)
<1>3. /\ i \in Present(rows) /\ rows[i].kind = kind /\ rows[i].way = way
      /\ Meets(rows, i, c, d, way) /\ IsOurs(rows[i]) /\ kind \in Tables /\ kind # "tree"
  BY DEF Decider, Meets, IsOurs, Tables
<1>4. i \in posed /\ posed \subseteq Ids
  BY <1>3 DEF Lines, OfRule, Present
<1>5. posed = {i}
  <2>1. IsFiniteSet(posed)
    <3>1. IsFiniteSet(Ids)
      BY RestrictionAssumption, FS_Interval DEF Ids
    <3> HIDE DEF posed
    <3> QED BY <1>4, <3>1, FS_Subset
  <2>2. ~(Cardinality(posed) > 1)
    BY <1>3 DEF Doubled
  <2> HIDE DEF posed
  <2>3. Cardinality(posed) \in Nat /\ Cardinality(posed) # 0
    BY <1>4, <2>1, FS_CardinalityType, FS_EmptySet
  <2>4. Cardinality(posed) = 1
    BY <2>2, <2>3
  <2> QED BY <1>4, <2>1, <2>4, FS_Singleton
<1>6. LastOf(ranks, posed) = {i}
  BY <1>2, <1>3, <1>4, <1>5, LastOfThere DEF LastOf
<1>7. <<kind, way>> \in DesiredLines(target)
  BY <1>1, <1>2, <1>3, <1>6, NothingToWrite
<1>8. LineActions(rows, ranks, target, r, kind, way) = {}
  <2>1. \A l \in DesiredLines(target) : LineActions(rows, ranks, target, r, l[1], l[2]) = {}
    BY <1>1, <1>2, NothingToWrite
  <2> QED BY <1>7, <2>1
<1>9. rows[i].scoped
  <2>1. PICK j \in posed : kind # "tree" /\ target.clients # {} => rows[j].scoped
    BY <1>8, LineInPlace
  <2> HIDE DEF posed
  <2> QED BY <1>1, <1>3, <1>5, <2>1
<1>10. c \in InForce(rows, r, "src")
  BY <1>3, <1>9 DEF Meets
<1>11. PICK j \in OfRule(rows, r) : rows[j].kind = "src" /\ c = rows[j].addr
  BY <1>10 DEF InForce
<1>12. c \in DesiredAddrs(target, "src")
  <2>1. j \in Present(rows) /\ IsOurs(rows[j]) /\ rows[j].owner = r /\ "src" \in Sides
    BY <1>11 DEF OfRule, IsOurs, Sides
  <2> QED BY <1>1, <1>2, <1>11, <2>1, NothingToWrite
<1> QED BY <1>1, <1>12 DEF DesiredAddrs

\* Whatever happened before, where reading a router again would find nothing to write,
\* a restriction restrains what it names and no other client, apart from the four
\* cases above (plan_restrictions, desired_lines): the line that decides is ours even
\* where the operator's own lines stand, and a mark always has its queue.
THEOREM AimIsExact == Spec => []AimedExactly
<1>1. Init => CommandInv /\ RulesInv
  BY InitKeeps, RulesInit
<1>2. CommandInv /\ RulesInv /\ [Next]_vars => CommandInv' /\ RulesInv'
  BY NextKeeps, RulesKept
<1>3. CommandInv /\ RulesInv => AimedExactly
  BY NamedIsRestrained, OthersAreFree DEF AimedExactly
<1> QED BY <1>1, <1>2, <1>3, PTL DEF Spec

-----------------------------------------------------------------------------
(* The rates in force. *)
CONSTANTS
    RatedClients, Links, RatedRouters, RouterOf, Attached, Plan, BoostRate,
    OverrideRates, Slots, Profiles, MaxWindow, Capacities, Safety, FloorMbps,
    MinDegraded, Step, Floor, Recovery, Jobs, RatePeople, FirstProfiles, FirstMeasured,
    FirstSlots, Scenarios

VARIABLES
    override, boost, profiles, trim, healthy, slot, measured, score, loopOn, book,
    signature, rateEnforcement, rateWritable, held, ratePhase, rateKind, route, rateAt,
    scope, want, ended, got, states, pending, rateMoves

Rates == INSTANCE RateSources
    WITH Clients <- RatedClients, Routers <- RatedRouters, People <- RatePeople,
         enforcement <- rateEnforcement, writable <- rateWritable, phase <- ratePhase,
         kind <- rateKind, at <- rateAt, moves <- rateMoves

(***************************************************************************)
(* A running boost: only the types of the boosts and of the moves left are *)
(* needed, the rest is in what each action does to the boosts.             *)
(***************************************************************************)
BoostTypes == /\ boost \in [RatedClients -> {"none", "running", "over"}]
              /\ rateMoves \in [Rates!MoveNames -> Nat]

\* The actions that leave the boosts alone.
Others(t) ==
    \/ Rates!Reconciles(t) \/ Rates!LooksForEnded(t) \/ Rates!LoadsSchedules(t) \/
          Rates!Assesses(t)
    \/ Rates!ReloadsSchedules(t) \/ Rates!Compares(t) \/ Rates!Saves(t) \/ Rates!Decided(t)
    \/ Rates!Releases(t) \/ Rates!PassesOver(t) \/ Rates!Assembles(t) \/ Rates!Sends(t) \/
          Rates!Finishes(t)
    \/ Rates!Overrides(t) \/ Rates!EditsSchedules(t) \/ Rates!FlipsLoop(t) \/ Rates!RunsCycle(t)
    \/ Rates!SendFails(t) \/ Rates!TableFails(t)

\* A move uses one of the moves of its name.
LEMMA MoveCounts ==
    ASSUME rateMoves \in [Rates!MoveNames -> Nat], NEW n \in Rates!MoveNames, Rates!Move(n)
    PROVE  rateMoves' \in [Rates!MoveNames -> Nat] /\ rateMoves'[n] < rateMoves[n]
  BY DEF Rates!Move

\* Most actions write no boost.
LEMMA OthersKeepBoosts ==
    ASSUME BoostTypes, NEW t \in Rates!Tasks, Others(t)
    PROVE  boost' = boost /\ rateMoves' \in [Rates!MoveNames -> Nat]
<1>1. /\ "profile" \in Rates!MoveNames /\ "loop" \in Rates!MoveNames /\ "cycle" \in Rates!MoveNames
      /\ "override" \in Rates!MoveNames /\ "fault" \in Rates!MoveNames
  BY DEF Rates!MoveNames
<1>2. CASE Rates!Reconciles(t) \/ Rates!LooksForEnded(t) \/ Rates!LoadsSchedules(t) \/
      Rates!Assesses(t)
  BY <1>2
     DEF BoostTypes, Rates!Reconciles, Rates!LooksForEnded, Rates!LoadsSchedules, Rates!Queries,
         Rates!Assesses, Rates!Assess,
              Rates!tables
<1>3. CASE Rates!ReloadsSchedules(t) \/ Rates!Saves(t) \/ Rates!Decided(t) \/
      Rates!Releases(t) \/ Rates!PassesOver(t)
  BY <1>3
     DEF BoostTypes, Rates!ReloadsSchedules, Rates!Queries, Rates!Saves, Rates!Decided,
         Rates!Releases, Rates!PassesOver, Rates!tables
<1>4. CASE Rates!Assembles(t) \/ Rates!Sends(t) \/ Rates!Finishes(t)
  BY <1>4 DEF BoostTypes, Rates!Assembles, Rates!Sends, Rates!Finishes, Rates!tables
<1>5. CASE Rates!Compares(t)
  BY <1>1, <1>5, MoveCounts DEF BoostTypes, Rates!Compares, Rates!tables
<1>6. CASE Rates!Overrides(t) \/ Rates!EditsSchedules(t) \/ Rates!FlipsLoop(t)
  BY <1>1, <1>6, MoveCounts
     DEF BoostTypes, Rates!Overrides, Rates!EditsSchedules, Rates!FlipsLoop, Rates!tables
<1>7. CASE Rates!RunsCycle(t)
  BY <1>1, <1>7, MoveCounts DEF BoostTypes, Rates!RunsCycle, Rates!Assess, Rates!tables
<1>8. CASE Rates!SendFails(t) \/ Rates!TableFails(t)
  BY <1>1, <1>8, MoveCounts DEF BoostTypes, Rates!SendFails, Rates!TableFails, Rates!tables
<1> QED BY <1>2, <1>3, <1>4, <1>5, <1>6, <1>7, <1>8 DEF Others

\* What a step does to the boosts and to the moves left.
LEMMA StepOnBoosts ==
    ASSUME BoostTypes, [Rates!Next]_Rates!vars
    PROVE  /\ BoostTypes'
           /\ \A c \in RatedClients : boost[c] = "running" /\ boost'[c] = "none" => Rates!ByHand
<1>1. \A n \in {"slot", "fade", "score", "flag", "switch", "restart", "boost", "clear",
                "override"} : n \in Rates!MoveNames
  BY DEF Rates!MoveNames
<1>2. ASSUME boost' = boost, rateMoves' \in [Rates!MoveNames -> Nat]
      PROVE  /\ BoostTypes'
             /\ \A c \in RatedClients : boost[c] = "running" /\ boost'[c] = "none" => Rates!ByHand
  BY <1>2 DEF BoostTypes
<1>3. CASE UNCHANGED Rates!vars
  BY <1>2, <1>3 DEF Rates!vars, Rates!tables, BoostTypes
<1>4. CASE Rates!SlotChanges \/ Rates!CapacityChanges \/ Rates!ScoreChanges
  BY <1>1, <1>2, <1>4, MoveCounts
     DEF BoostTypes, Rates!SlotChanges, Rates!CapacityChanges, Rates!ScoreChanges, Rates!tables
<1>5. CASE Rates!SwitchFlips \/ Rates!Restart
  BY <1>1, <1>2, <1>5, MoveCounts DEF BoostTypes, Rates!SwitchFlips, Rates!Restart, Rates!tables
<1>6. CASE Rates!BoostEnds
  BY <1>6 DEF Rates!BoostEnds, BoostTypes
<1>7. ASSUME NEW t \in Rates!Tasks, Rates!Purges(t)
      PROVE  /\ BoostTypes'
             /\ \A c \in RatedClients : boost[c] = "running" /\ boost'[c] = "none" => Rates!ByHand
  BY <1>7 DEF Rates!Purges, Rates!Purged, BoostTypes
<1>8. ASSUME NEW t \in Rates!Tasks, Rates!Boosts(t)
      PROVE  /\ BoostTypes'
             /\ \A c \in RatedClients : boost[c] = "running" /\ boost'[c] = "none" => Rates!ByHand
  BY <1>1, <1>8, MoveCounts DEF Rates!Boosts, BoostTypes
<1>9. ASSUME NEW t \in Rates!Tasks, Rates!ClearsBoost(t)
      PROVE  /\ BoostTypes'
             /\ \A c \in RatedClients : boost[c] = "running" /\ boost'[c] = "none" => Rates!ByHand
  BY <1>1, <1>9, MoveCounts DEF Rates!ClearsBoost, BoostTypes, Rates!ByHand
<1>10. ASSUME NEW t \in Rates!Tasks, Rates!DropsOverride(t)
       PROVE  /\ BoostTypes'
              /\ \A c \in RatedClients : boost[c] = "running" /\ boost'[c] = "none" =>
                    Rates!ByHand
  BY <1>1, <1>10, MoveCounts DEF Rates!DropsOverride, BoostTypes, Rates!ByHand
<1>11. ASSUME NEW t \in Rates!Tasks, Others(t)
       PROVE  /\ BoostTypes'
              /\ \A c \in RatedClients : boost[c] = "running" /\ boost'[c] = "none" =>
                    Rates!ByHand
  BY <1>2, <1>11, OthersKeepBoosts
<1> QED
  BY <1>3, <1>4, <1>5, <1>6, <1>7, <1>8, <1>9, <1>10, <1>11
     DEF Rates!Next, Rates!World, Rates!Begins, Rates!Proceeds, Rates!Person, Others

\* Whatever the jobs and people do beside each other, a running boost is ended by a
\* person or by its own time, never by the job that purges.
THEOREM BoostsAreKept == ASSUME Rates!RatesData PROVE Rates!Spec => Rates!RunningBoostKept
<1>1. Rates!Init => BoostTypes
  BY DEF Rates!RatesData, Rates!Init, BoostTypes
<1>2. BoostTypes /\ [Rates!Next]_Rates!vars => BoostTypes'
  BY StepOnBoosts
<1>3. BoostTypes /\ [Rates!Next]_Rates!vars
        => [\A c \in RatedClients : boost[c] = "running" /\ boost'[c] = "none" =>
              Rates!ByHand]_Rates!vars
  BY StepOnBoosts
<1> QED BY <1>1, <1>2, <1>3, PTL DEF Rates!Spec, Rates!RunningBoostKept

-----------------------------------------------------------------------------
(* The services that are sold, and the records entered by hand. *)
CONSTANTS
    Requests, Packages, Macs, Stories, SoldRouters, References, Logins, Addresses,
    Sites, NoSite, None, Order, OwnSite, VlanRouter, Network, DefaultRate

VARIABLES
    fiche, waiting, soldPlan, forced, package, soldRows, session, nets, arp, lists,
    fasttrack, hidden, soldTask, told, sent, asked, good, live, jobs, soldMoves, sold, crossed,
    soldLate, missed

Sold == INSTANCE Services
    WITH Routers <- SoldRouters, plan <- soldPlan, rows <- soldRows, task <- soldTask,
         moves <- soldMoves, late <- soldLate

(***************************************************************************)
(* A task about to write or to erase a record went by the check, and what  *)
(* the check saw was not a record entered by hand.                         *)
(***************************************************************************)
Fields == {"ask", "pc", "todo", "place", "saw", "was", "rate", "site", "got", "aim", "cmds",
           "next"}
Later  == {"apply", "unplan", "release", "lift", "decide"}
Nexts  == Seq(Later)

Checked(t) ==
    /\ DOMAIN t = Fields /\ t.next \in Nexts
    /\ t.pc \in {"upsert", "erase"} => t.saw # "manual"

WriteInv ==
    /\ DOMAIN fiche = References /\ DOMAIN soldTask = Sold!Actors
    /\ \A p \in Sold!Actors : Checked(soldTask[p])

\* One task moves.
Moved(p) ==
    /\ DOMAIN soldTask' = Sold!Actors /\ Checked(soldTask'[p])
    /\ \A u \in Sold!Actors \ {p} : soldTask'[u] = soldTask[u]

HandKept ==
    \A c \in References : Sold!IsHand(fiche[c]) /\ fiche'[c] # fiche[c]
        => \E p \in Sold!Actors : Sold!Entitled(p, c)

LEMMA NewTask == \A ask, pc : pc \notin {"upsert", "erase"} => Checked(Sold!Task(ask, pc))
  BY DEF Checked, Sold!Task, Fields, Nexts

LEMMA InitChecked == ASSUME Sold!ServicesData PROVE Sold!Init => WriteInv
<1> SUFFICES ASSUME Sold!Init PROVE WriteInv
  OBVIOUS
<1> PICK s \in Stories :
        /\ fiche = s.fiche
        /\ soldTask = [p \in Sold!Actors |->
                     IF p \in Requests /\ s.asks[p] # None
                     THEN Sold!Task(s.asks[p], Sold!FirstStep[s.asks[p].kind])
                     ELSE Sold!Task(None, "idle")]
  BY DEF Sold!Init
<1>1. \A k \in DOMAIN Sold!FirstStep : Sold!FirstStep[k] \notin {"upsert", "erase"}
  BY DEF Sold!FirstStep
<1>2. ASSUME NEW p \in Sold!Actors PROVE Checked(soldTask[p])
  <2>1. CASE p \in Requests /\ s.asks[p] # None
    BY <1>1, <2>1, NewTask DEF Sold!ServicesData
  <2>2. CASE ~(p \in Requests /\ s.asks[p] # None)
    BY <2>2, NewTask
  <2> QED BY <2>1, <2>2
<1> QED BY <1>2 DEF WriteInv, Sold!ServicesData

\* The next thing to do is never to write.
LEMMA ThenChecked ==
    ASSUME NEW p, NEW t, Checked(t)
    PROVE  Checked(Sold!Then(p, t))
<1>1. CASE t.next # <<>>
  <2>1. Sold!Then(p, t) = [t EXCEPT !.pc = Head(t.next), !.next = Tail(t.next)]
    BY <1>1 DEF Sold!Then
  <2>2. Head(t.next) \in Later /\ Tail(t.next) \in Nexts
    BY <1>1, HeadTailProperties DEF Checked, Nexts
  <2> QED BY <2>1, <2>2 DEF Checked, Later, Fields
<1>2. CASE t.next = <<>> /\ p = "placing" /\ t.todo # {}
  <2>1. Sold!Then(p, t) = Sold!Go(t, "pick")
    BY <1>2 DEF Sold!Then
  <2> QED BY <2>1 DEF Checked, Fields, Sold!Go
<1>3. CASE t.next = <<>> /\ ~(p = "placing" /\ t.todo # {})
  <2>1. Sold!Then(p, t) = Sold!Task(None, "idle")
    BY <1>3 DEF Sold!Then
  <2> QED BY <2>1, NewTask
<1> QED BY <1>1, <1>2, <1>3

LEMMA SetMoves ==
    ASSUME WriteInv, NEW p \in Sold!Actors, NEW w, Sold!Set(p, w), Checked(w)
    PROVE  Moved(p)
  BY DEF Moved, Sold!Set, WriteInv

LEMMA MovedKeeps ==
    ASSUME WriteInv, NEW p \in Sold!Actors, Moved(p), DOMAIN fiche' = References
    PROVE  WriteInv'
  BY DEF Moved, WriteInv

-----------------------------------------------------------------------------
(* The steps that touch no record.                                         *)

LEMMA PutsMove ==
    ASSUME Sold!ServicesData, WriteInv, NEW p \in Sold!Actors,
           Sold!Situates(p) \/ Sold!Checks(p) \/ Sold!Forgets(p) \/ Sold!Records(p) \/
                 Sold!Applies(p) \/ Sold!Awaits(p)
    PROVE  Moved(p) /\ fiche' = fiche
<1> DEFINE t == soldTask[p]
<1>1. Checked(t) /\ fiche' = fiche
  BY DEF WriteInv, Sold!Situates, Sold!Checks, Sold!Forgets, Sold!Records, Sold!Applies,
        Sold!Awaits, Sold!tables
<1>2. DOMAIN soldTask = Sold!Actors /\ p \in Sold!Actors /\ DOMAIN soldTask[p] = Fields /\ soldTask[p].next \in Nexts
  BY DEF WriteInv, Checked
<1>a. \A u \in Sold!Actors : Checked(soldTask[u])
  BY DEF WriteInv
<1>3. CASE Sold!Situates(p)
  <2> DEFINE place == Sold!Located(t.ask.addr, Sold!World)
             w     == [t EXCEPT !.pc = "check", !.place = place,
                                !.site = IF place # None THEN place.site ELSE t.ask.site]
  <2>1. Sold!Set(p, w)
    BY <1>3 DEF Sold!Situates
  <2>2. Checked(w)
    BY <1>1 DEF Checked, Fields
  <2> HIDE DEF w
  <2> QED BY <1>1, <2>1, <2>2, SetMoves
<1>4. CASE Sold!Forgets(p)
  BY <1>2, <1>a, <1>4 DEF Sold!Forgets, Sold!Set, Sold!Go, Moved, Checked, Fields
<1>5. CASE Sold!Records(p)
  BY <1>2, <1>a, <1>5 DEF Sold!Records, Sold!Set, Moved, Checked, Fields, Nexts, Later
<1>6. CASE Sold!Applies(p)
  <2> DEFINE w == [t EXCEPT !.pc = "aim", !.aim = Sold!Static(t.ask.name, t.site, t.ask.addr,
        FALSE)]
  <2>1. Sold!Set(p, w)
    BY <1>6 DEF Sold!Applies
  <2>2. Checked(w)
    BY <1>1 DEF Checked, Fields
  <2> HIDE DEF w
  <2> QED BY <1>1, <2>1, <2>2, SetMoves
<1>7. CASE Sold!Awaits(p)
  BY <1>1, <1>7, ThenChecked, SetMoves DEF Sold!Awaits
<1>8. CASE Sold!Checks(p)
  <2>1. CASE Sold!Refused(t.ask.name)
    BY <1>1, <1>8, <2>1, ThenChecked, SetMoves DEF Sold!Checks
  <2>2. CASE ~Sold!Refused(t.ask.name)
    <3> DEFINE saw == IF fiche[t.ask.name] = None THEN None ELSE fiche[t.ask.name].source
               w   == [t EXCEPT !.pc = IF t.ask.addr = None THEN "unplace" ELSE "upsert",
                                !.saw = saw, !.rate = Sold!Rates(t.ask)]
    <3>1. Sold!Set(p, w)
      BY <1>8, <2>2 DEF Sold!Checks
    <3>2. saw # "manual"
      BY <2>2 DEF Sold!ServicesData, Sold!Refused, Sold!IsHand
    <3> HIDE DEF saw
    <3>3. Checked(w)
      BY <1>1, <3>2 DEF Checked, Fields
    <3> HIDE DEF w
    <3> QED BY <1>1, <3>1, <3>3, SetMoves
  <2> QED BY <2>1, <2>2
<1> QED BY <1>1, <1>3, <1>4, <1>5, <1>6, <1>7, <1>8

LEMMA GesturesMove ==
    ASSUME WriteInv, NEW p \in Sold!Actors,
           Sold!Fetches(p) \/ Sold!Notes(p) \/ Sold!Aims(p) \/ Sold!Reads(p) \/ Sold!Sends(p)
           \/ Sold!ReadFails(p) \/ Sold!SendFails(p)
    PROVE  Moved(p) /\ fiche' = fiche
<1> DEFINE t == soldTask[p]
<1>1. Checked(t) /\ fiche' = fiche
  BY DEF WriteInv, Sold!Fetches, Sold!Notes, Sold!Aims, Sold!Reads, Sold!Sends, Sold!ReadFails,
        Sold!SendFails, Sold!tables
<1>2. CASE Sold!Fetches(p)
  <2> DEFINE w == [t EXCEPT !.pc = "note", !.got = Sold!Given(t.was)]
  <2>1. Sold!Set(p, w)
    BY <1>2 DEF Sold!Fetches
  <2>2. Checked(w)
    BY <1>1 DEF Checked, Fields
  <2> HIDE DEF w
  <2> QED BY <1>1, <2>1, <2>2, SetMoves
<1>3. CASE Sold!Notes(p)
  <2> DEFINE w == [t EXCEPT !.pc = "aim", !.aim = Sold!Subscriber(t.was, t.got = 0)]
  <2>1. Sold!Set(p, w)
    BY <1>3 DEF Sold!Notes
  <2>2. Checked(w)
    BY <1>1 DEF Checked, Fields
  <2> HIDE DEF w
  <2> QED BY <1>1, <2>1, <2>2, SetMoves
<1>4. CASE Sold!Aims(p)
  <2> DEFINE aim == Sold!Aimed(t.aim)
             w   == [t EXCEPT !.pc = "read", !.aim = [names |-> {aim.name}, left |-> aim.routers,
                                                      prune |-> t.aim.removing]]
  <2>1. Sold!Set(p, w)
    BY <1>4 DEF Sold!Aims
  <2>2. Checked(w)
    BY <1>1 DEF Checked, Fields
  <2> HIDE DEF w
  <2> QED BY <1>1, <2>1, <2>2, SetMoves
<1>5. CASE Sold!Reads(p)
  <2>1. CASE t.aim.left = {}
    BY <1>1, <1>5, <2>1, ThenChecked, SetMoves DEF Sold!Reads
  <2>2. CASE t.aim.left # {}
    <3> PICK r \in t.aim.left :
          LET cmds == Sold!PlanFor(r, Sold!World, lists[r], t.aim.names, t.aim.prune)
          IN  Sold!Set(p, [t EXCEPT !.pc = IF cmds = {} THEN "read" ELSE "send",
                               !.aim.left = IF cmds = {} THEN @ \ {r} ELSE @,
                               !.was = IF cmds = {} THEN @ ELSE r,
                               !.cmds = cmds])
      BY <1>5, <2>2 DEF Sold!Reads
    <3> DEFINE cmds == Sold!PlanFor(r, Sold!World, lists[r], t.aim.names, t.aim.prune)
               w    == [t EXCEPT !.pc = IF cmds = {} THEN "read" ELSE "send",
                                 !.aim.left = IF cmds = {} THEN @ \ {r} ELSE @,
                                 !.was = IF cmds = {} THEN @ ELSE r,
                                 !.cmds = cmds]
    <3>1. Sold!Set(p, w)
      OBVIOUS
    <3> HIDE DEF cmds
    <3>2. Checked(w)
      BY <1>1 DEF Checked, Fields
    <3> HIDE DEF w
    <3> QED BY <1>1, <3>1, <3>2, SetMoves
  <2> QED BY <2>1, <2>2
<1>7. CASE Sold!ReadFails(p)
  <2>1. PICK r \in t.aim.left : Sold!Set(p, [t EXCEPT !.aim.left = @ \ {r}])
    BY <1>7 DEF Sold!ReadFails
  <2> DEFINE w == [t EXCEPT !.aim.left = @ \ {r}]
  <2>2. Checked(w)
    BY <1>1 DEF Checked, Fields
  <2>3. Sold!Set(p, w)
    BY <2>1
  <2> HIDE DEF w
  <2> QED BY <1>1, <2>2, <2>3, SetMoves
<1>6. CASE Sold!Sends(p) \/ Sold!SendFails(p)
  <2> DEFINE w == [t EXCEPT !.pc = "read", !.cmds = {}, !.was = None, !.aim.left = @ \ {t.was}]
  <2>1. Sold!Set(p, w)
    BY <1>6 DEF Sold!Sends, Sold!SendFails
  <2>2. Checked(w)
    BY <1>1 DEF Checked, Fields
  <2> HIDE DEF w
  <2> QED BY <1>1, <2>1, <2>2, SetMoves
<1> QED BY <1>1, <1>2, <1>3, <1>4, <1>5, <1>6, <1>7

LEMMA DeletesMove ==
    ASSUME WriteInv, NEW p \in Sold!Actors,
           Sold!Recalls(p) \/ Sold!Unwaits(p) \/ Sold!Weighs(p) \/ Sold!Withdraws(p) \/
                 Sold!Unplans(p) \/ Sold!Releases(p)
    PROVE  Moved(p) /\ fiche' = fiche
<1> DEFINE t == soldTask[p]
<1>1. Checked(t) /\ fiche' = fiche
  BY DEF WriteInv, Sold!Recalls, Sold!Unwaits, Sold!Weighs, Sold!Withdraws, Sold!Unplans,
        Sold!Releases, Sold!tables
<1>2. CASE Sold!Recalls(p)
  <2> DEFINE w == [t EXCEPT !.pc = "unwait", !.place = fiche[t.ask.name]]
  <2>1. Sold!Set(p, w)
    BY <1>2 DEF Sold!Recalls
  <2>2. Checked(w)
    BY <1>1 DEF Checked, Fields
  <2> HIDE DEF w
  <2> QED BY <1>1, <2>1, <2>2, SetMoves
<1>7. CASE Sold!Unwaits(p)
  <2>1. PICK saw : Sold!Set(p, [t EXCEPT !.pc = "weigh", !.saw = saw])
    BY <1>7 DEF Sold!Unwaits
  <2> DEFINE w == [t EXCEPT !.pc = "weigh", !.saw = saw]
  <2>2. Checked(w)
    BY <1>1 DEF Checked, Fields
  <2>3. Sold!Set(p, w)
    BY <2>1
  <2> HIDE DEF w
  <2> QED BY <1>1, <2>2, <2>3, SetMoves
<1>3. CASE Sold!Weighs(p)
  <2>1. CASE Sold!Set(p, Sold!Then(p, t))
    BY <1>1, <2>1, ThenChecked, SetMoves
  <2>2. CASE Sold!Set(p, Sold!Go(t, "withdraw"))
    <3>1. Checked(Sold!Go(t, "withdraw"))
      BY <1>1 DEF Checked, Fields, Sold!Go
    <3> QED BY <1>1, <2>2, <3>1, SetMoves
  <2>3. CASE /\ fiche[t.ask.name] # None /\ ~Sold!Refused(t.ask.name)
             /\ Sold!Set(p, [t EXCEPT !.pc = "erase", !.saw = fiche[t.ask.name].source])
    <3> DEFINE w == [t EXCEPT !.pc = "erase", !.saw = fiche[t.ask.name].source]
    <3>1. Checked(w)
      BY <1>1, <2>3 DEF Checked, Fields, Sold!Refused, Sold!IsHand
    <3> HIDE DEF w
    <3>2. Sold!Set(p, w)
      BY <2>3 DEF w
    <3> QED BY <1>1, <3>1, <3>2, SetMoves
  <2> QED BY <1>3, <2>1, <2>2, <2>3 DEF Sold!Weighs
<1>4. CASE Sold!Withdraws(p)
  <2> DEFINE place == Sold!Located(t.place.addr, Sold!World)
             w     == [t EXCEPT !.pc = "aim", !.aim = Sold!Withdrawal(t.ask.name, t.place, place),
                                !.next = <<"unplan">>]
  <2>1. Sold!Set(p, Sold!Go(t, "unplan")) \/ Sold!Set(p, w)
    BY <1>4 DEF Sold!Withdraws
  <2>2. Checked(w)
    BY <1>1 DEF Checked, Fields, Nexts, Later
  <2>3. Checked(Sold!Go(t, "unplan"))
    BY <1>1 DEF Checked, Fields, Sold!Go
  <2> HIDE DEF w
  <2> QED BY <1>1, <2>1, <2>2, <2>3, SetMoves
<1>5. CASE Sold!Unplans(p)
  <2> DEFINE mine == {l \in Sold!Names : soldPlan[l] # None /\ soldPlan[l].service = t.ask.name}
             w    == [t EXCEPT !.pc = "release", !.todo = mine]
  <2>1. Sold!Set(p, w)
    BY <1>5 DEF Sold!Unplans
  <2>2. Checked(w)
    BY <1>1 DEF Checked, Fields
  <2> HIDE DEF w
  <2> QED BY <1>1, <2>1, <2>2, SetMoves
<1>6. CASE Sold!Releases(p)
  <2>1. CASE t.todo = {}
    BY <1>1, <1>6, <2>1, ThenChecked, SetMoves DEF Sold!Releases
  <2>2. CASE t.todo # {}
    <3> PICK l \in t.todo : Sold!Set(p, [t EXCEPT !.pc = "fetch", !.was = l, !.todo = @ \ {l},
                                             !.next = <<"release">>])
      BY <1>6, <2>2 DEF Sold!Releases
    <3> DEFINE w == [t EXCEPT !.pc = "fetch", !.was = l, !.todo = @ \ {l},
                              !.next = <<"release">>]
    <3>1. Sold!Set(p, w)
      OBVIOUS
    <3>2. Checked(w)
      BY <1>1 DEF Checked, Fields, Nexts, Later
    <3> HIDE DEF w
    <3> QED BY <1>1, <3>1, <3>2, SetMoves
  <2> QED BY <2>1, <2>2
<1> QED BY <1>1, <1>2, <1>3, <1>4, <1>5, <1>6, <1>7

LEMMA ScreensMove ==
    ASSUME WriteInv, NEW p \in Sold!Actors,
           Sold!Looks(p) \/ Sold!Lifts(p) \/ Sold!Sweeps(p) \/ Sold!Cleans(p) \/
                 Sold!CleanFails(p)
    PROVE  Moved(p) /\ fiche' = fiche
<1> DEFINE t == soldTask[p]
<1>1. Checked(t) /\ fiche' = fiche
  BY DEF WriteInv, Sold!Looks, Sold!Lifts, Sold!Sweeps, Sold!Cleans, Sold!CleanFails, Sold!tables
<1>2. CASE Sold!Looks(p)
  <2>1. PICK saw : \/ Sold!Set(p, [t EXCEPT !.pc = "decide", !.saw = saw, !.next = <<"lift">>])
                   \/ Sold!Set(p, [t EXCEPT !.pc = "lift", !.saw = saw, !.next = <<"decide">>])
    BY <1>2 DEF Sold!Looks
  <2> DEFINE w == [t EXCEPT !.pc = "decide", !.saw = saw, !.next = <<"lift">>]
             v == [t EXCEPT !.pc = "lift", !.saw = saw, !.next = <<"decide">>]
  <2>2. Checked(w) /\ Checked(v)
    BY <1>1 DEF Checked, Fields, Nexts, Later
  <2>3. Sold!Set(p, w) \/ Sold!Set(p, v)
    BY <2>1
  <2> HIDE DEF w, v
  <2> QED BY <1>1, <2>2, <2>3, SetMoves
<1>3. CASE Sold!Lifts(p)
  BY <1>1, <1>3, ThenChecked, SetMoves DEF Sold!Lifts
<1>4. CASE Sold!Sweeps(p)
  <2>1. PICK cmds : Sold!Set(p, [t EXCEPT !.pc = "clean", !.cmds = cmds])
    BY <1>4 DEF Sold!Sweeps
  <2> DEFINE w == [t EXCEPT !.pc = "clean", !.cmds = cmds]
  <2>3. Sold!Set(p, w)
    BY <2>1
  <2>2. Checked(w)
    BY <1>1 DEF Checked, Fields
  <2> HIDE DEF w
  <2> QED BY <1>1, <2>2, <2>3, SetMoves
<1>5. CASE Sold!Cleans(p) \/ Sold!CleanFails(p)
  <2> DEFINE w == [t EXCEPT !.pc = "read", !.cmds = {},
                             !.aim = [names |-> Sold!Names, left |-> {t.ask.name},
                                   prune |-> FALSE]]
  <2>1. Sold!Set(p, w) \/ Sold!Set(p, Sold!Task(None, "idle"))
    BY <1>5 DEF Sold!Cleans, Sold!CleanFails
  <2>2. Checked(w)
    BY <1>1 DEF Checked, Fields
  <2> HIDE DEF w
  <2> QED BY <1>1, <2>1, <2>2, NewTask, SetMoves
<1> QED BY <1>1, <1>2, <1>3, <1>4, <1>5

LEMMA PlacingMoves ==
    ASSUME WriteInv, Sold!Gathers \/ Sold!Lists \/ Sold!Scans \/ Sold!Picks
    PROVE  Moved("placing") /\ fiche' = fiche
<1> DEFINE t == soldTask["placing"]
<1>1. "placing" \in Sold!Actors /\ Checked(t) /\ fiche' = fiche
  BY DEF WriteInv, Sold!Actors, Sold!Gathers, Sold!Lists, Sold!Scans, Sold!Picks, Sold!tables
<1>2. CASE Sold!Gathers
  <2> DEFINE lost == {c \in References : fiche[c] # None /\ fiche[c].source = "api"
                                         /\ fiche[c].site = NoSite}
             w    == [Sold!Task(None, "roam") EXCEPT !.todo =
                        {[name |-> c, addr |-> fiche[c].addr] : c \in lost}]
  <2>1. Sold!Set("placing", w)
    BY <1>2 DEF Sold!Gathers
  <2>2. Checked(w)
    BY NewTask DEF Checked, Fields, Sold!Task
  <2> HIDE DEF w
  <2> QED BY <1>1, <2>1, <2>2, SetMoves
<1>3. CASE Sold!Lists
  <2> DEFINE unplaced == {c \in References : waiting[c] # None /\ waiting[c].mac # None}
             w        == [t EXCEPT !.pc = "scan", !.todo =
                            {[name |-> c, sold |-> waiting[c]] : c \in unplaced}]
  <2>1. Sold!Set("placing", Sold!Task(None, "idle")) \/ Sold!Set("placing", w)
    BY <1>3 DEF Sold!Lists
  <2>2. Checked(w)
    BY <1>1 DEF Checked, Fields
  <2> HIDE DEF w
  <2> QED BY <1>1, <2>1, <2>2, NewTask, SetMoves
<1>4. CASE Sold!Scans
  <2> DEFINE seen == {u \in t.todo : arp[u.sold.mac] # None}
             w    == [t EXCEPT !.todo =
                        {[name |-> u.name, sold |-> u.sold, addr |-> arp[u.sold.mac]] : u \in seen}]
  <2>1. Sold!Set("placing", Sold!Then("placing", w))
    BY <1>4 DEF Sold!Scans
  <2>2. Checked(w)
    BY <1>1 DEF Checked, Fields
  <2> HIDE DEF w
  <2> QED BY <1>1, <2>1, <2>2, ThenChecked, SetMoves
<1>5. CASE Sold!Picks
  <2> DEFINE u   == Sold!First(t.todo)
             ask == [kind |-> "put", name |-> u.name, addr |-> u.addr, mac |-> u.sold.mac,
                     rate |-> u.sold.rate, package |-> u.sold.package, site |-> u.sold.site,
                     on |-> u.sold.on]
             w   == [Sold!Task(ask, "situate") EXCEPT !.todo = t.todo \ {u}]
  <2>1. Sold!Set("placing", w)
    BY <1>5 DEF Sold!Picks
  <2> HIDE DEF ask, u
  <2>2. Checked(w)
    BY DEF Checked, Fields, Nexts, Sold!Task
  <2> HIDE DEF w
  <2> QED BY <1>1, <2>1, <2>2, SetMoves
<1> QED BY <1>1, <1>2, <1>3, <1>4, <1>5

-----------------------------------------------------------------------------
(* The steps that write the records.                                       *)

\* A task that leaves a place where it may write leaves it for good.
LEMMA WriterEntitled ==
    ASSUME WriteInv, NEW p \in Sold!Actors, Moved(p), DOMAIN fiche' = References,
           \/ soldTask[p].pc \in {"write", "decide"}
           \/ soldTask[p].pc \in {"upsert", "erase"} /\ soldTask[p].saw # "manual",
           soldTask'[p].pc # soldTask[p].pc,
           \A c \in References : fiche'[c] # fiche[c] => c = soldTask[p].ask.name
    PROVE  WriteInv' /\ HandKept
<1>1. \A c \in References : fiche'[c] # fiche[c] => Sold!Entitled(p, c)
  BY DEF Sold!Entitled
<1> QED BY <1>1, MovedKeeps DEF HandKept

LEMMA ApiWrites ==
    ASSUME WriteInv, NEW p \in Sold!Actors, Sold!Upserts(p) \/ Sold!Erases(p)
    PROVE  WriteInv' /\ HandKept
<1> DEFINE t == soldTask[p]
           w == Sold!Go(t, IF t.pc = "upsert" THEN "forget" ELSE "withdraw")
<1>1. Checked(t) /\ t.pc \in {"upsert", "erase"} /\ t.saw # "manual"
  BY DEF WriteInv, Checked, Sold!Upserts, Sold!Erases, Sold!Does
<1>2. Sold!Set(p, w)
  BY DEF Sold!Upserts, Sold!Erases, Sold!Does
<1>3. Checked(w) /\ w.pc # t.pc
  BY <1>1 DEF Checked, Fields, Sold!Go
<1>4. \E f : fiche' = [fiche EXCEPT ![t.ask.name] = f]
  BY DEF Sold!Upserts, Sold!Erases
<1>5. DOMAIN fiche' = References /\ \A c \in References : fiche'[c] # fiche[c] => c = t.ask.name
  BY <1>4 DEF WriteInv
<1> HIDE DEF w
<1>6. Moved(p) /\ soldTask'[p] = w
  BY <1>2, <1>3, SetMoves DEF Sold!Set, WriteInv
<1> QED BY <1>1, <1>3, <1>5, <1>6, WriterEntitled

LEMMA UnplacesKeeps ==
    ASSUME WriteInv, NEW p \in Sold!Actors, Sold!Unplaces(p)
    PROVE  WriteInv' /\ HandKept
<1> DEFINE c == soldTask[p].ask.name
           w == Sold!Go(soldTask[p], "await")
<1>1. fiche' = [fiche EXCEPT ![c] = IF Sold!IsHand(@) THEN @ ELSE None]
  BY DEF Sold!Unplaces
<1>2. DOMAIN fiche' = References /\ \A x \in References : Sold!IsHand(fiche[x]) =>
      fiche'[x] = fiche[x]
  BY <1>1 DEF WriteInv
<1>3. Sold!Set(p, w)
  BY DEF Sold!Unplaces
<1>4. Checked(w)
  BY DEF WriteInv, Checked, Fields, Sold!Go
<1> HIDE DEF w
<1> QED BY <1>2, <1>3, <1>4, SetMoves, MovedKeeps DEF HandKept

LEMMA RoamsKeeps ==
    ASSUME WriteInv, Sold!Roams
    PROVE  WriteInv' /\ HandKept
<1> DEFINE t == soldTask["placing"]
           u == Sold!First(t.todo)
           w == [t EXCEPT !.todo = @ \ {u}]
<1>1. "placing" \in Sold!Actors /\ Checked(t)
  BY DEF Sold!Actors, WriteInv
<1>2. Checked(w) /\ Checked(Sold!Go(t, "list"))
  BY <1>1 DEF Checked, Fields, Sold!Go
<1>3. Sold!Set("placing", w) \/ Sold!Set("placing", Sold!Go(t, "list"))
  BY DEF Sold!Roams
<1>4. \/ fiche' = fiche
      \/ \E x, s : ~Sold!IsHand(fiche[x]) /\ fiche' = [fiche EXCEPT ![x].site = s]
  BY DEF Sold!Roams
<1>5. DOMAIN fiche' = References /\ \A x \in References : Sold!IsHand(fiche[x]) =>
      fiche'[x] = fiche[x]
  BY <1>4 DEF WriteInv
<1> HIDE DEF w
<1> QED BY <1>1, <1>2, <1>3, <1>5, SetMoves, MovedKeeps DEF HandKept

LEMMA HandWritesKeeps ==
    ASSUME WriteInv, NEW p \in Sold!Actors, Sold!HandWrites(p)
    PROVE  WriteInv' /\ HandKept
<1> DEFINE t == soldTask[p]
<1>1. Checked(t) /\ t.pc = "write"
  BY DEF WriteInv, Sold!HandWrites, Sold!Does
<1>2. \/ fiche' = fiche /\ Sold!Set(p, Sold!Then(p, t))
      \/ /\ \E f : fiche' = [fiche EXCEPT ![t.ask.name] = f]
         /\ \E site, addr, removing :
               Sold!Set(p, [t EXCEPT !.pc = "aim",
                                !.aim = Sold!Static(t.ask.name, site, addr, removing)])
  BY DEF Sold!HandWrites
<1>3. CASE fiche' = fiche /\ Sold!Set(p, Sold!Then(p, t))
  BY <1>1, <1>3, ThenChecked, SetMoves, MovedKeeps DEF HandKept, WriteInv
<1>4. ASSUME NEW site, NEW addr, NEW removing,
             Sold!Set(p, [t EXCEPT !.pc = "aim", !.aim = Sold!Static(t.ask.name, site, addr,
                   removing)]),
             \E f : fiche' = [fiche EXCEPT ![t.ask.name] = f]
      PROVE  WriteInv' /\ HandKept
  <2> DEFINE w == [t EXCEPT !.pc = "aim", !.aim = Sold!Static(t.ask.name, site, addr, removing)]
  <2>1. Sold!Set(p, w)
    BY <1>4
  <2>2. Checked(w) /\ w.pc = "aim"
    BY <1>1 DEF Checked, Fields
  <2>3. DOMAIN fiche' = References /\ \A c \in References : fiche'[c] # fiche[c] => c = t.ask.name
    BY <1>4 DEF WriteInv
  <2> HIDE DEF w
  <2>4. Moved(p) /\ soldTask'[p] = w
    BY <2>1, <2>2, SetMoves DEF Sold!Set, WriteInv
  <2> QED BY <1>1, <2>2, <2>3, <2>4, WriterEntitled
<1> QED BY <1>2, <1>3, <1>4

LEMMA DecidesKeepsHand ==
    ASSUME WriteInv, NEW p \in Sold!Actors, Sold!Decides(p)
    PROVE  WriteInv' /\ HandKept
<1> DEFINE t     == soldTask[p]
           place == IF fiche[t.ask.name] = None
                    THEN Sold!Static(t.ask.name, NoSite, None, FALSE)
                    ELSE Sold!Static(t.ask.name, fiche[t.ask.name].site, fiche[t.ask.name].addr,
                          FALSE)
           aimed == [t EXCEPT !.pc = "aim", !.aim = place]
           fetch == [t EXCEPT !.pc = "fetch", !.was = t.ask.name]
<1>1. Checked(t) /\ t.pc = "decide"
  BY DEF WriteInv, Sold!Decides, Sold!Does
<1>2. Checked(aimed) /\ aimed.pc = "aim" /\ Checked(fetch)
  BY <1>1 DEF Checked, Fields
<1>3. \/ /\ fiche' = fiche
         /\ Sold!Set(p, fetch) \/ Sold!Set(p, Sold!Task(None, "idle")) \/
               Sold!Set(p, Sold!Then(p, t))
      \/ /\ fiche' = fiche \/ fiche' = [fiche EXCEPT ![t.ask.name].rate = t.ask.rate]
         /\ Sold!Set(p, aimed)
  BY DEF Sold!Decides
<1> HIDE DEF aimed, fetch
<1>4. CASE /\ fiche' = fiche
           /\ Sold!Set(p, fetch) \/ Sold!Set(p, Sold!Task(None, "idle")) \/
                 Sold!Set(p, Sold!Then(p, t))
  <2>1. Moved(p)
    BY <1>1, <1>2, <1>4, NewTask, ThenChecked, SetMoves
  <2> QED BY <1>4, <2>1, MovedKeeps DEF HandKept, WriteInv
<1>5. CASE /\ fiche' = fiche \/ fiche' = [fiche EXCEPT ![t.ask.name].rate = t.ask.rate]
           /\ Sold!Set(p, aimed)
  <2>1. DOMAIN fiche' = References /\ \A c \in References : fiche'[c] # fiche[c] => c = t.ask.name
    BY <1>5 DEF WriteInv
  <2>2. Moved(p) /\ soldTask'[p] = aimed
    BY <1>2, <1>5, SetMoves DEF Sold!Set, WriteInv
  <2> QED BY <1>1, <1>2, <2>1, <2>2, WriterEntitled
<1> QED BY <1>3, <1>4, <1>5

-----------------------------------------------------------------------------
LEMMA BesideKeeps ==
    ASSUME WriteInv, UNCHANGED <<fiche, soldTask>>
    PROVE  WriteInv' /\ HandKept
  BY DEF WriteInv, HandKept

LEMMA NextChecked ==
    ASSUME Sold!ServicesData, WriteInv, [Sold!Next]_Sold!vars
    PROVE  WriteInv' /\ HandKept
<1>1. ASSUME NEW p \in Sold!Actors, Moved(p), fiche' = fiche PROVE WriteInv' /\ HandKept
  BY <1>1, MovedKeeps DEF WriteInv, HandKept
<1>2. ASSUME NEW p \in Sold!Actors, Sold!Steps(p) PROVE WriteInv' /\ HandKept
  <2>1. CASE Sold!Upserts(p) \/ Sold!Erases(p) \/ Sold!Unplaces(p) \/ Sold!HandWrites(p) \/
        Sold!Decides(p)
    BY <2>1, ApiWrites, UnplacesKeeps, HandWritesKeeps, DecidesKeepsHand
  <2>2. CASE ~(Sold!Upserts(p) \/ Sold!Erases(p) \/ Sold!Unplaces(p) \/ Sold!HandWrites(p) \/
        Sold!Decides(p))
    BY <1>1, <1>2, <2>2, PutsMove, GesturesMove, DeletesMove, ScreensMove
       DEF Sold!Steps, Sold!PutStep, Sold!GestureStep, Sold!DeleteStep, Sold!ScreenStep
  <2> QED BY <2>1, <2>2
<1>3. CASE Sold!PlacingStep
  <2>1. "placing" \in Sold!Actors
    BY DEF Sold!Actors
  <2> QED BY <1>1, <1>3, <2>1, PlacingMoves, RoamsKeeps DEF Sold!PlacingStep
<1>4. CASE Sold!PlansRead \/ Sold!PlansWritten
  BY <1>4, BesideKeeps DEF Sold!PlansRead, Sold!PlansWritten, Sold!tables
<1>5. ASSUME NEW r \in SoldRouters,
             \/ Sold!Reconciles(r) \/ Sold!Reconciled(r) \/ Sold!ReconcileFails(r) \/
                   Sold!Audits(r) \/ Sold!AuditFails(r) \/ Sold!Presses(r)
      PROVE  WriteInv' /\ HandKept
  BY <1>5, BesideKeeps
     DEF Sold!Reconciles, Sold!Reconciled, Sold!ReconcileFails, Sold!Audits, Sold!AuditStarts, Sold!AuditReads,
         Sold!AuditFails, Sold!Presses, Sold!tables
<1>6. CASE Sold!Answers \/ Sold!Expires \/ (\E l \in Logins : Sold!Collects(l)) \/
      (\E m \in soldMoves : Sold!Moves(m))
  BY <1>6, BesideKeeps DEF Sold!Answers, Sold!Expires, Sold!Collects, Sold!Moves, Sold!tables
<1>7. CASE UNCHANGED Sold!vars
  BY <1>7, BesideKeeps DEF Sold!vars, Sold!tables
<1> QED BY <1>2, <1>3, <1>4, <1>5, <1>6, <1>7 DEF Sold!Next

\* Whatever the billing, the screens and the jobs do beside each other, a step that
\* changes a record entered by hand is a request of the screens about it, or an
\* upsert or an erase of the billing or of the placing job whose check did not see
\* it entered by hand: a write is never done by a task that saw that it was.
THEOREM HandRecordsKept == ASSUME Sold!ServicesData PROVE Sold!Spec => Sold!HandIsKept
<1>1. Sold!Init => WriteInv
  BY InitChecked
<1>2. WriteInv /\ [Sold!Next]_Sold!vars => WriteInv'
  BY NextChecked
<1>3. WriteInv /\ [Sold!Next]_Sold!vars
      => \A c \in References : Sold!IsHand(fiche[c]) /\ fiche'[c] # fiche[c]
            => \E p \in Sold!Actors : Sold!Entitled(p, c)
  BY NextChecked DEF HandKept
<1> QED BY <1>1, <1>2, <1>3, PTL DEF Sold!Spec, Sold!HandIsKept
=============================================================================
