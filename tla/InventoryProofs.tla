-------------------------- MODULE InventoryProofs --------------------------
(***************************************************************************)
(* What the reload of the inventory leaves alone, for any routers, people, *)
(* loops and faults: the file routers nobody acts on, and the write        *)
(* switches whose closing was answered. Both rest on one invariant, which  *)
(* says what the registry holds, what the database and the last marks say  *)
(* of the closings, and what every task carries across its awaits.         *)
(***************************************************************************)
EXTENDS Inventory, WellFoundedInduction, TLAPS

-----------------------------------------------------------------------------
(* What Only makes of a list.                                              *)

\* A set of numbers that is not empty has a least one.
LEMMA LeastNumber ==
    ASSUME NEW S, S \subseteq Nat, S # {}
    PROVE  \E k \in S : \A j \in S : k <= j
<1>1. PICK k \in S : \A j \in S : ~ (<<j, k>> \in OpToRel(<, Nat))
  BY NatLessThanWellFounded, WFMin
<1>2. \A j \in S : ~(j < k)
  BY <1>1 DEF OpToRel
<1>3. \A j \in S : k <= j
  BY <1>2
<1> QED BY <1>3

\* The successive lists Only builds, up to the k-th element.
Selects(f, k, list, S) ==
    f = [i \in 0..k |-> IF i = 0 THEN <<>>
                        ELSE IF list[i] \in S THEN Append(f[i - 1], list[i]) ELSE f[i - 1]]

LEMMA SelectsExists ==
    ASSUME NEW X, NEW list \in Seq(X), NEW S, NEW k \in Nat
    PROVE  \E f : Selects(f, k, list, S)
<1> DEFINE T == {n \in Nat : ~\E f : Selects(f, n, list, S)}
<1> SUFFICES ASSUME T # {} PROVE FALSE
  OBVIOUS
<1>1. PICK n \in T : \A m \in T : n <= m
  BY LeastNumber
<1>2. CASE n = 0
  <2>1. Selects([i \in 0..0 |-> <<>>], 0, list, S)
    BY DEF Selects
  <2> QED BY <1>1, <1>2, <2>1
<1>3. CASE n # 0
  <2>1. n - 1 \in Nat /\ n - 1 \notin T
    BY <1>1, <1>3
  <2>2. PICK f : Selects(f, n - 1, list, S)
    BY <2>1
  <2> DEFINE last == IF list[n] \in S THEN Append(f[n - 1], list[n]) ELSE f[n - 1]
             g    == [i \in 0..n |-> IF i = n THEN last ELSE f[i]]
  <2>3. \A i \in 0..(n - 1) : f[i] = IF i = 0 THEN <<>>
                                     ELSE IF list[i] \in S THEN Append(f[i - 1], list[i]) ELSE f[i - 1]
    BY <2>2 DEF Selects
  <2>4. \A i \in 0..n : g[i] = IF i = 0 THEN <<>>
                               ELSE IF list[i] \in S THEN Append(g[i - 1], list[i]) ELSE g[i - 1]
    BY <1>3, <2>3
  <2>5. g = [i \in 0..n |-> g[i]]
    OBVIOUS
  <2> HIDE DEF g
  <2>6. Selects(g, n, list, S)
    BY <2>4, <2>5 DEF Selects
  <2> QED BY <1>1, <2>6
<1> QED BY <1>2, <1>3

LEMMA OnlySelects ==
    ASSUME NEW X, NEW list \in Seq(X), NEW S
    PROVE  \E f : Selects(f, Len(list), list, S) /\ Only(list, S) = f[Len(list)]
<1> DEFINE first == CHOOSE f : Selects(f, Len(list), list, S)
<1>1. Selects(first, Len(list), list, S)
  BY SelectsExists
<1>2. Only(list, S) = first[Len(list)]
  BY DEF Only, Selects
<1> QED BY <1>1, <1>2

\* What Only keeps: the elements of the list that are in S, and all of them.
LEMMA OnlyKeeps ==
    ASSUME NEW X, NEW list \in Seq(X), NEW S
    PROVE  /\ Only(list, S) \in Seq(X \cap S)
           /\ \A i \in 1..Len(list) :
                  list[i] \in S => \E j \in 1..Len(Only(list, S)) : Only(list, S)[j] = list[i]
<1>1. PICK f : Selects(f, Len(list), list, S) /\ Only(list, S) = f[Len(list)]
  BY OnlySelects
<1> DEFINE Good(k) == /\ f[k] \in Seq(X \cap S)
                      /\ \A i \in 1..k : list[i] \in S => \E j \in 1..Len(f[k]) : f[k][j] = list[i]
           T == {k \in 0..Len(list) : ~Good(k)}
<1>2. /\ Len(list) \in Nat /\ f[0] = <<>>
      /\ \A i \in 1..Len(list) :
             /\ list[i] \in S => f[i] = Append(f[i - 1], list[i])
             /\ list[i] \notin S => f[i] = f[i - 1]
  <2>1. Len(list) \in Nat /\ 0 \in 0..Len(list) /\ \A i \in 1..Len(list) : i \in 0..Len(list) /\ i # 0
    OBVIOUS
  <2>2. \A i \in 0..Len(list) :
            f[i] = IF i = 0 THEN <<>>
                   ELSE IF list[i] \in S THEN Append(f[i - 1], list[i]) ELSE f[i - 1]
    BY <1>1, Zenon DEF Selects
  <2>3. f[0] = <<>>
    BY <2>1, <2>2, Zenon
  <2> QED BY <2>1, <2>2, <2>3
<1>3. Good(0)
  BY <1>2
<1>4. ASSUME NEW k \in 1..Len(list), Good(k - 1) PROVE Good(k)
  <2>1. CASE list[k] \notin S
    <3>1. f[k] = f[k - 1]
      BY <1>2, <2>1
    <3>2. \A i \in 1..k : list[i] \in S => i \in 1..(k - 1)
      BY <1>2, <2>1
    <3> QED BY <1>4, <3>1, <3>2
  <2>2. CASE list[k] \in S
    <3> DEFINE before == f[k - 1]
    <3>1. before \in Seq(X \cap S) /\ list[k] \in X \cap S /\ f[k] = Append(before, list[k])
      BY <1>2, <1>4, <2>2
    <3>2. \A i \in 1..(k - 1) : list[i] \in S => \E j \in 1..Len(before) : before[j] = list[i]
      BY <1>4
    <3> HIDE DEF before
    <3>3. /\ f[k] \in Seq(X \cap S) /\ Len(f[k]) = Len(before) + 1 /\ Len(before) \in Nat
          /\ f[k][Len(f[k])] = list[k]
          /\ \A j \in 1..Len(before) : f[k][j] = before[j]
      BY <3>1
    <3>4. ASSUME NEW i \in 1..k, list[i] \in S
          PROVE  \E j \in 1..Len(f[k]) : f[k][j] = list[i]
      <4>1. CASE i = k
        BY <3>3, <4>1
      <4>2. CASE i # k
        <5>1. i \in 1..(k - 1)
          BY <1>2, <4>2
        <5>2. PICK j \in 1..Len(before) : before[j] = list[i]
          BY <3>2, <3>4, <5>1
        <5> QED BY <3>3, <5>2
      <4> QED BY <4>1, <4>2
    <3> QED BY <3>3, <3>4
  <2> QED BY <2>1, <2>2
<1> HIDE DEF Good
<1>5. T = {}
  <2> SUFFICES ASSUME T # {} PROVE FALSE
    OBVIOUS
  <2>1. T \subseteq Nat
    BY <1>2
  <2>2. PICK k \in T : \A m \in T : k <= m
    BY <2>1, LeastNumber
  <2>3. k \in 1..Len(list) /\ k - 1 \in 0..Len(list) /\ k - 1 \notin T
    BY <1>2, <1>3, <2>2
  <2> QED BY <1>4, <2>2, <2>3
<1>6. Good(Len(list))
  BY <1>2, <1>5
<1> QED BY <1>1, <1>6 DEF Good

LEMMA OnlyFacts ==
    ASSUME NEW X, NEW list \in Seq(X), NEW S
    PROVE  Only(list, S) \in Seq(X \cap S) /\ ToSet(Only(list, S)) = ToSet(list) \cap S
<1>1. /\ Only(list, S) \in Seq(X \cap S)
      /\ \A i \in 1..Len(list) :
            list[i] \in S => \E j \in 1..Len(Only(list, S)) : Only(list, S)[j] = list[i]
  BY OnlyKeeps
<1>2. PICK kept : kept = Only(list, S)
  OBVIOUS
<1>3. /\ kept \in Seq(X \cap S) /\ DOMAIN kept = 1..Len(kept) /\ DOMAIN list = 1..Len(list)
      /\ \A i \in 1..Len(list) : list[i] \in S => \E j \in 1..Len(kept) : kept[j] = list[i]
  BY <1>1, <1>2
<1>4. ToSet(list) \cap S \subseteq ToSet(kept)
  BY <1>3 DEF ToSet
<1>5. ToSet(kept) \subseteq ToSet(list) \cap S
  <2>1. list \in Seq(ToSet(list))
    BY DEF ToSet
  <2>2. kept \in Seq(ToSet(list) \cap S)
    BY <2>1, <1>2, OnlyKeeps
  <2> QED BY <2>2 DEF ToSet
<1> QED BY <1>2, <1>3, <1>4, <1>5

\* One list after the other.
LEMMA Joined ==
    ASSUME NEW X, NEW s \in Seq(X), NEW t \in Seq(X)
    PROVE  s \o t \in Seq(X) /\ ToSet(s \o t) = ToSet(s) \cup ToSet(t)
<1>1. PICK u : u = s \o t
  OBVIOUS
<1>2. /\ u \in Seq(X) /\ Len(u) = Len(s) + Len(t) /\ Len(s) \in Nat /\ Len(t) \in Nat
      /\ DOMAIN u = 1..Len(u) /\ DOMAIN s = 1..Len(s) /\ DOMAIN t = 1..Len(t)
      /\ \A i \in 1..Len(s) : u[i] = s[i]
      /\ \A i \in 1..Len(t) : u[Len(s) + i] = t[i]
  BY <1>1
<1>3. ASSUME NEW i \in DOMAIN u PROVE u[i] \in ToSet(s) \cup ToSet(t)
  <2>1. CASE i <= Len(s)
    <3>1. i \in 1..Len(s)
      BY <1>2, <2>1
    <3> QED BY <1>2, <3>1 DEF ToSet
  <2>2. CASE ~(i <= Len(s))
    <3>1. i - Len(s) \in 1..Len(t) /\ i = Len(s) + (i - Len(s))
      BY <1>2, <2>2
    <3> QED BY <1>2, <3>1 DEF ToSet
  <2> QED BY <2>1, <2>2
<1>4. ASSUME NEW j \in DOMAIN s PROVE s[j] \in ToSet(u)
  <2>1. j \in 1..Len(u)
    BY <1>2
  <2> QED BY <1>2, <2>1 DEF ToSet
<1>5. ASSUME NEW j \in DOMAIN t PROVE t[j] \in ToSet(u)
  <2>1. Len(s) + j \in 1..Len(u)
    BY <1>2
  <2> QED BY <1>2, <2>1 DEF ToSet
<1>6. ToSet(u) = ToSet(s) \cup ToSet(t)
  <2>1. ToSet(u) \subseteq ToSet(s) \cup ToSet(t)
    BY <1>3 DEF ToSet
  <2>2. ToSet(s) \subseteq ToSet(u)
    BY <1>4 DEF ToSet
  <2>3. ToSet(t) \subseteq ToSet(u)
    BY <1>5 DEF ToSet
  <2> QED BY <2>1, <2>2, <2>3
<1> QED BY <1>1, <1>2, <1>6

-----------------------------------------------------------------------------
(* The merge of the file and the database, and what a reload makes of it.  *)

\* A list of collectors that are wanted, set as they are wanted.
Fields == {"name", "id", "host", "write"}
Fits(list, wanted) ==
    /\ list \in Seq(ToSet(list))
    /\ \A o \in ToSet(list) : /\ DOMAIN o = Fields
                              /\ o.name \in DOMAIN wanted
                              /\ o.host = wanted[o.name].host
                              /\ o.write = wanted[o.name].write

LEMMA WantedFacts ==
    ASSUME NEW rows, NEW hid, NEW ro
    PROVE  /\ DOMAIN Wanted(rows, hid, ro) = (FileRouters \ hid) \cup (DOMAIN rows \ hid)
           /\ \A n \in FileRouters \ hid :
                  /\ Wanted(rows, hid, ro)[n].host = FileHost[n]
                  /\ Wanted(rows, hid, ro)[n].write = (FileWrite[n] /\ n \notin ro)
           /\ \A n \in (DOMAIN rows \ hid) \ FileRouters : Wanted(rows, hid, ro)[n] = rows[n]
  BY DEF Wanted

LEMMA OrderFacts ==
    ASSUME NEW rows, NEW wanted, DOMAIN wanted \subseteq Names
    PROVE  /\ WantedOrder(rows, wanted) \in Seq(DOMAIN wanted)
           /\ ToSet(WantedOrder(rows, wanted)) = DOMAIN wanted
<1>1. PICK A : A = DOMAIN rows \cap DOMAIN wanted
  OBVIOUS
<1>2. PICK B : B = DOMAIN wanted \ DOMAIN rows
  OBVIOUS
<1>3. NameOrder \in Seq(Names) /\ ToSet(NameOrder) = Names
  BY InventoryAssumption DEF InventoryAssumption
<1>4. Only(NameOrder, A) \in Seq(Names \cap A) /\ ToSet(Only(NameOrder, A)) = Names \cap A
  BY <1>3, OnlyFacts
<1>5. Only(NameOrder, B) \in Seq(Names \cap B) /\ ToSet(Only(NameOrder, B)) = Names \cap B
  BY <1>3, OnlyFacts
<1>6. Names \cap A \subseteq DOMAIN wanted /\ Names \cap B \subseteq DOMAIN wanted
      /\ (Names \cap A) \cup (Names \cap B) = DOMAIN wanted
  BY <1>1, <1>2
<1>7. Only(NameOrder, A) \in Seq(DOMAIN wanted) /\ Only(NameOrder, B) \in Seq(DOMAIN wanted)
  BY <1>4, <1>5, <1>6
<1>8. WantedOrder(rows, wanted) = Only(NameOrder, A) \o Only(NameOrder, B)
  BY <1>1, <1>2 DEF WantedOrder
<1>9. /\ Only(NameOrder, A) \o Only(NameOrder, B) \in Seq(DOMAIN wanted)
      /\ ToSet(Only(NameOrder, A) \o Only(NameOrder, B))
             = ToSet(Only(NameOrder, A)) \cup ToSet(Only(NameOrder, B))
  BY <1>7, Joined
<1> QED BY <1>4, <1>5, <1>6, <1>8, <1>9

LEMMA NamesAre == ASSUME NEW list PROVE NamesOf(list) = {o.name : o \in ToSet(list)}
  BY DEF NamesOf, ToSet

LEMMA FitsJoined ==
    ASSUME NEW wanted, NEW s, NEW t, Fits(s, wanted), Fits(t, wanted)
    PROVE  /\ Fits(s \o t, wanted) /\ ToSet(s \o t) = ToSet(s) \cup ToSet(t)
           /\ NamesOf(s \o t) = NamesOf(s) \cup NamesOf(t)
<1>1. PICK X : X = ToSet(s) \cup ToSet(t)
  OBVIOUS
<1>2. s \in Seq(X) /\ t \in Seq(X)
  BY <1>1 DEF Fits
<1>3. s \o t \in Seq(X) /\ ToSet(s \o t) = X
  BY <1>1, <1>2, Joined
<1>4. PICK u : u = s \o t
  OBVIOUS
<1>5. Fits(u, wanted)
  BY <1>1, <1>3, <1>4 DEF Fits
<1>6. NamesOf(u) = NamesOf(s) \cup NamesOf(t)
  BY <1>1, <1>3, <1>4, NamesAre
<1> QED BY <1>1, <1>3, <1>4, <1>5, <1>6

\* Connections opened on the routers of a list, whatever their numbers.
LEMMA OpenedFits ==
    ASSUME NEW wanted, NEW order \in Seq(DOMAIN wanted), NEW list,
           list = [i \in DOMAIN order |-> list[i]],
           \A i \in DOMAIN order : /\ DOMAIN list[i] = Fields
                                   /\ list[i].name = order[i]
                                   /\ list[i].host = wanted[order[i]].host
                                   /\ list[i].write = wanted[order[i]].write
    PROVE  Fits(list, wanted) /\ NamesOf(list) = ToSet(order)
<1>1. DOMAIN list = DOMAIN order /\ DOMAIN order = 1..Len(order) /\ Len(order) \in Nat
  OBVIOUS
<1>2. list \in [1..Len(order) -> ToSet(list)]
  BY <1>1 DEF ToSet
<1>3. list \in Seq(ToSet(list))
  BY <1>1, <1>2
<1>4. \A i \in DOMAIN order : order[i] \in DOMAIN wanted
  OBVIOUS
<1>5. \A o \in ToSet(list) : /\ DOMAIN o = Fields
                             /\ o.name \in DOMAIN wanted
                             /\ o.host = wanted[o.name].host
                             /\ o.write = wanted[o.name].write
  BY <1>1, <1>4 DEF ToSet
<1>6. NamesOf(list) = ToSet(order)
  BY <1>1 DEF NamesOf, ToSet
<1> QED BY <1>3, <1>5, <1>6 DEF Fits

\* What a reload makes of a registry: the routers wanted, set as they are wanted,
\* and on the same connection those that stay where they were.
SameConnection(list, wanted) ==
    \A o \in ToSet(registry), p \in ToSet(list) :
        o.name \in DOMAIN wanted /\ o.host = wanted[o.name].host /\ p.name = o.name
            => \E q \in ToSet(registry) : q.name = p.name /\ q.id = p.id

LEMMA BootFits ==
    ASSUME NEW rows, NEW hid, NEW ro, DOMAIN rows \subseteq Names
    PROVE  /\ Fits(Boot(rows, hid, ro), Wanted(rows, hid, ro))
           /\ NamesOf(Boot(rows, hid, ro)) = DOMAIN Wanted(rows, hid, ro)
<1>1. PICK wanted : wanted = Wanted(rows, hid, ro)
  OBVIOUS
<1>2. DOMAIN wanted \subseteq Names
  <2>1. DOMAIN wanted = (FileRouters \ hid) \cup (DOMAIN rows \ hid)
    BY <1>1, WantedFacts
  <2>2. FileRouters \subseteq Names
    BY DEF Names
  <2> QED BY <2>1, <2>2
<1>3. PICK order : order = WantedOrder(rows, wanted)
  OBVIOUS
<1>4. order \in Seq(DOMAIN wanted) /\ ToSet(order) = DOMAIN wanted
  BY <1>2, <1>3, OrderFacts
<1>5. PICK list : list = Boot(rows, hid, ro)
  OBVIOUS
<1>6. list = [i \in DOMAIN order |-> [name |-> order[i], id |-> 1, host |-> wanted[order[i]].host,
                                      write |-> wanted[order[i]].write]]
  BY <1>1, <1>3, <1>5 DEF Boot, Opened
<1>7. list = [i \in DOMAIN order |-> list[i]]
      /\ \A i \in DOMAIN order : /\ DOMAIN list[i] = Fields
                                 /\ list[i].name = order[i]
                                 /\ list[i].host = wanted[order[i]].host
                                 /\ list[i].write = wanted[order[i]].write
  BY <1>6 DEF Fields
<1>8. Fits(list, wanted) /\ NamesOf(list) = ToSet(order)
  BY <1>4, <1>7, OpenedFits
<1> QED BY <1>1, <1>4, <1>5, <1>8

LEMMA ReloadedFits ==
    ASSUME registry \in Seq(ToSet(registry)), \A o \in ToSet(registry) : DOMAIN o = Fields,
           NEW rows, NEW wanted, DOMAIN wanted \subseteq Names,
           NEW list, list = Reloaded(wanted, WantedOrder(rows, wanted), Staying(wanted))
    PROVE  Fits(list, wanted) /\ NamesOf(list) = DOMAIN wanted /\ SameConnection(list, wanted)
<1>1. PICK S : S = {o \in ToSet(registry) : o.name \in DOMAIN wanted /\ o.host = wanted[o.name].host}
  OBVIOUS
<1>2. PICK old : old = Staying(wanted)
  OBVIOUS
<1>3. old \in Seq(ToSet(registry) \cap S) /\ ToSet(old) = S
  BY <1>1, <1>2, OnlyFacts DEF Staying
<1>4. PICK order : order = WantedOrder(rows, wanted)
  OBVIOUS
<1>5. order \in Seq(DOMAIN wanted) /\ ToSet(order) = DOMAIN wanted
  BY <1>4, OrderFacts
<1>6. PICK names : names = Only(order, DOMAIN wanted \ NamesOf(old))
  OBVIOUS
<1>7. names \in Seq(DOMAIN wanted) /\ ToSet(names) = DOMAIN wanted \ NamesOf(old)
  <2>1. /\ names \in Seq(DOMAIN wanted \cap (DOMAIN wanted \ NamesOf(old)))
        /\ ToSet(names) = ToSet(order) \cap (DOMAIN wanted \ NamesOf(old))
    BY <1>5, <1>6, OnlyFacts
  <2> QED BY <1>5, <2>1
<1>8. PICK kept : kept = [i \in DOMAIN old |-> [old[i] EXCEPT !.write = wanted[old[i].name].write]]
  OBVIOUS
<1>9. \E added :
         /\ added = [i \in DOMAIN names |-> added[i]]
         /\ \A i \in DOMAIN names : /\ DOMAIN added[i] = Fields
                                   /\ added[i].name = names[i]
                                   /\ added[i].host = wanted[names[i]].host
                                   /\ added[i].write = wanted[names[i]].write
         /\ list = kept \o added
  BY <1>2, <1>4, <1>6, <1>8 DEF Reloaded, Opened, Fields
<1>10. PICK added :
         /\ added = [i \in DOMAIN names |-> added[i]]
         /\ \A i \in DOMAIN names : /\ DOMAIN added[i] = Fields
                                   /\ added[i].name = names[i]
                                   /\ added[i].host = wanted[names[i]].host
                                   /\ added[i].write = wanted[names[i]].write
         /\ list = kept \o added
  BY <1>9
<1>11. Fits(added, wanted) /\ NamesOf(added) = DOMAIN wanted \ NamesOf(old)
  <2>1. Fits(added, wanted) /\ NamesOf(added) = ToSet(names)
    <3>1. /\ names \in Seq(DOMAIN wanted)
          /\ added = [i \in DOMAIN names |-> added[i]]
          /\ \A i \in DOMAIN names : /\ DOMAIN added[i] = Fields
                                    /\ added[i].name = names[i]
                                    /\ added[i].host = wanted[names[i]].host
                                    /\ added[i].write = wanted[names[i]].write
      BY <1>7, <1>10
    <3> QED BY ONLY <3>1, OpenedFits
  <2> QED BY <1>7, <2>1
<1>12. /\ DOMAIN old = 1..Len(old) /\ Len(old) \in Nat /\ DOMAIN kept = DOMAIN old
       /\ \A i \in DOMAIN old : /\ old[i] \in S /\ old[i] \in ToSet(old)
                                /\ DOMAIN kept[i] = Fields
                                /\ kept[i].name = old[i].name /\ kept[i].id = old[i].id
                                /\ kept[i].host = old[i].host
                                /\ kept[i].write = wanted[old[i].name].write
  <2>1. DOMAIN old = 1..Len(old) /\ Len(old) \in Nat /\ DOMAIN kept = DOMAIN old
    BY <1>3, <1>8
  <2>2. ASSUME NEW i \in DOMAIN old
        PROVE  /\ old[i] \in S /\ old[i] \in ToSet(old) /\ DOMAIN old[i] = Fields
               /\ kept[i] = [old[i] EXCEPT !.write = wanted[old[i].name].write]
    BY <1>1, <1>3, <1>8, <2>1 DEF ToSet
  <2> QED BY <2>1, <2>2 DEF Fields
<1>13. Fits(kept, wanted) /\ NamesOf(kept) = NamesOf(old)
  <2>1. kept \in [1..Len(old) -> ToSet(kept)]
    BY <1>8, <1>12 DEF ToSet
  <2>2. kept \in Seq(ToSet(kept))
    BY <1>12, <2>1
  <2>3. \A o \in ToSet(kept) : /\ DOMAIN o = Fields
                               /\ o.name \in DOMAIN wanted
                               /\ o.host = wanted[o.name].host
                               /\ o.write = wanted[o.name].write
    <3> SUFFICES ASSUME NEW o \in ToSet(kept)
                 PROVE  /\ DOMAIN o = Fields
                        /\ o.name \in DOMAIN wanted
                        /\ o.host = wanted[o.name].host
                        /\ o.write = wanted[o.name].write
      OBVIOUS
    <3>1. PICK i \in DOMAIN old : o = kept[i]
      BY <1>12 DEF ToSet
    <3>2. old[i].name \in DOMAIN wanted /\ old[i].host = wanted[old[i].name].host
      BY <1>1, <1>12
    <3> QED BY <1>12, <3>1, <3>2
  <2>4. NamesOf(kept) = NamesOf(old)
    BY <1>12 DEF NamesOf
  <2> QED BY <2>2, <2>3, <2>4 DEF Fits
<1>14. /\ Fits(list, wanted) /\ ToSet(list) = ToSet(kept) \cup ToSet(added)
       /\ NamesOf(list) = NamesOf(kept) \cup NamesOf(added)
  <2>1. /\ Fits(kept \o added, wanted) /\ ToSet(kept \o added) = ToSet(kept) \cup ToSet(added)
        /\ NamesOf(kept \o added) = NamesOf(kept) \cup NamesOf(added)
    <3>1. Fits(kept, wanted) /\ Fits(added, wanted)
      BY <1>11, <1>13
    <3> QED BY ONLY <3>1, FitsJoined
  <2>2. list = kept \o added
    BY <1>10, Zenon
  <2> QED BY <2>1, <2>2
<1>15. NamesOf(list) = DOMAIN wanted
  <2>1. NamesOf(kept) \subseteq DOMAIN wanted
    BY <1>13, NamesAre DEF Fits
  <2> QED BY <1>11, <1>13, <1>14, <2>1
<1>16. ASSUME NEW o \in ToSet(registry), NEW p \in ToSet(list),
              o.name \in DOMAIN wanted, o.host = wanted[o.name].host, p.name = o.name
       PROVE  \E q \in ToSet(registry) : q.name = p.name /\ q.id = p.id
  <2>1. o \in ToSet(old)
    BY <1>1, <1>3, <1>16
  <2>2. p.name \in NamesOf(old)
    BY <1>16, <2>1, NamesAre
  <2>3. p \notin ToSet(added)
    BY <1>11, <2>2, NamesAre
  <2>4. PICK i \in DOMAIN kept : p = kept[i]
    BY <1>14, <2>3 DEF ToSet
  <2> QED BY <1>1, <1>12, <2>4
<1> QED BY <1>14, <1>15, <1>16 DEF SameConnection

-----------------------------------------------------------------------------
(* What holds at every moment.                                             *)

\* The names the database and the process hold are never those of a router
\* nobody touches; the rows are those of the table.
RowFields == {"host", "enabled", "write", "readable"}
WorldInv ==
    /\ DOMAIN table = DbRouters /\ \A n \in DbRouters : DOMAIN table[n] = RowFields
    /\ hidden \cap Untouched = {} /\ readonly \cap Untouched = {} /\ muted \cap Untouched = {}

\* The registry holds every untouched router, as the file says, on one connection.
RegistryInv ==
    /\ registry \in Seq(ToSet(registry))
    /\ \A o \in ToSet(registry) : DOMAIN o = Fields
    /\ Untouched \subseteq NamesOf(registry)
    /\ \A o \in ToSet(registry) : o.name \in Untouched =>
          /\ o.host = FileHost[o.name] /\ o.write = FileWrite[o.name]
          /\ \A p \in ToSet(registry) : p.name = o.name => p.id = o.id

\* A switch whose closing was answered is closed in the database, and for a file
\* router in the last marks read.
ShutInv ==
    \A n \in shut : IF n \in FileRouters THEN n \in readonly \cap muted
                    ELSE n \in DbRouters => ~table[n].write

\* What a task carries across its awaits: no mark on an untouched router, no
\* row of one, a list that has them all; and a reload that no answer overtook
\* carries every closing answered.
FrameFields == {"phase", "hid", "ro", "rows", "overtaken", "held", "closing", "starts",
                "purges", "ok", "blocked"}
Carried(w) ==
    /\ DOMAIN w = FrameFields
    /\ w.hid \cap Untouched = {} /\ w.ro \cap Untouched = {}
    /\ DOMAIN w.rows \subseteq DbRouters
    /\ w.held = <<>> \/ Untouched \subseteq ToSet(w.held)
Closes(w, n) ==
    /\ w.phase \in {"rows", "install"} /\ n \in FileRouters => n \in w.ro
    /\ w.phase = "install" /\ n \notin FileRouters /\ n \in DOMAIN w.rows => ~w.rows[n].write
Sound(w, closed) == Carried(w) /\ \A n \in closed \ w.overtaken : Closes(w, n)
TasksInv == DOMAIN task = Tasks /\ \A t \in Tasks : Sound(task[t], shut)

Inv == WorldInv /\ RegistryInv /\ ShutInv /\ TasksInv

\* What a step does of the two properties.
UntouchedStep ==
    \A f \in Untouched :
        /\ IdOf(f)' = IdOf(f) \/ task' = [t \in Tasks |-> Idle]
        /\ Carries(registry', f) /\ Entry(registry', f).write = FileWrite[f]
        /\ f \in tree => f \in tree'
ShutStep ==
    \A n \in shut \cap shut' :
        /\ \A t \in Tasks : Reloads(t) /\ n \notin task[t].overtaken => ~Writable(registry', n)
        /\ Writable(registry', n) /\ ~Writable(registry, n)
              => \E t \in Tasks : Reloads(t) /\ n \in task[t].overtaken

-----------------------------------------------------------------------------
(* The parts of a step that are common to many.                            *)

LEMMA EntryIs ==
    ASSUME NEW list, NEW n, n \in NamesOf(list)
    PROVE  Entry(list, n) \in ToSet(list) /\ Entry(list, n).name = n
<1>1. \E i \in DOMAIN list : list[i].name = n
  BY DEF NamesOf
<1>2. PICK i \in DOMAIN list : i = CHOOSE j \in DOMAIN list : list[j].name = n
  BY <1>1
<1>3. list[i].name = n
  BY <1>1, <1>2
<1> QED BY <1>2, <1>3 DEF Entry, ToSet

\* The registry as it is answers for the untouched routers.
LEMMA RegistryAnswers ==
    ASSUME RegistryInv, NEW f \in Untouched
    PROVE  /\ Carries(registry, f) /\ Entry(registry, f).write = FileWrite[f]
           /\ \A o \in ToSet(registry) : o.name = f => o.id = IdOf(f)
<1>1. f \in NamesOf(registry)
  BY DEF RegistryInv
<1>2. Entry(registry, f) \in ToSet(registry) /\ Entry(registry, f).name = f
  BY <1>1, EntryIs
<1> QED BY <1>1, <1>2 DEF RegistryInv, Carries, IdOf

\* A step that neither changes the registry nor ends a reload.
LEMMA QuietStep ==
    ASSUME RegistryInv, registry' = registry, \A t \in Tasks : ~Reloads(t),
           \A f \in Untouched : f \in tree => f \in tree'
    PROVE  RegistryInv' /\ UntouchedStep /\ ShutStep
<1>1. RegistryInv'
  BY DEF RegistryInv
<1>2. UntouchedStep
  <2> SUFFICES ASSUME NEW f \in Untouched
               PROVE  /\ IdOf(f)' = IdOf(f)
                      /\ Carries(registry', f) /\ Entry(registry', f).write = FileWrite[f]
    BY DEF UntouchedStep
  <2>1. IdOf(f)' = IdOf(f)
    BY DEF IdOf
  <2> QED BY <2>1, RegistryAnswers
<1>3. ShutStep
  BY DEF ShutStep
<1> QED BY <1>1, <1>2, <1>3

\* One task goes on, from another await than the last of a reload.
LEMMA OneGoesOn ==
    ASSUME TasksInv, shut' \subseteq shut, NEW t \in Tasks, NEW w, Sound(w, shut),
           task' = [task EXCEPT ![t] = w], task[t].phase # "install"
    PROVE  TasksInv' /\ \A u \in Tasks : ~Reloads(u)
<1>1. DOMAIN task' = Tasks /\ task'[t] = w /\ \A u \in Tasks \ {t} : task'[u] = task[u]
  BY DEF TasksInv
<1>2. \A u \in Tasks : Sound(task'[u], shut)
  BY <1>1 DEF TasksInv
<1>3. \A u \in Tasks : Sound(task'[u], shut')
  BY <1>2 DEF Sound
<1> QED BY <1>1, <1>3 DEF TasksInv, Reloads

\* A frame that only changes phase, to one where nothing is reloaded.
LEMMA Moved ==
    ASSUME NEW closed, NEW v, Carried(v), NEW p, p \notin {"rows", "install"}
    PROVE  /\ Sound([v EXCEPT !.phase = p], closed)
           /\ [v EXCEPT !.phase = p].phase = p
<1>1. PICK w : w = [v EXCEPT !.phase = p]
  OBVIOUS
<1>2. /\ DOMAIN w = FrameFields /\ w.phase = p /\ w.hid = v.hid /\ w.ro = v.ro
      /\ w.rows = v.rows /\ w.held = v.held
  BY <1>1 DEF Carried, FrameFields
<1> QED BY <1>1, <1>2 DEF Sound, Carried, Closes

LEMMA IdleCarried == Carried(Idle) /\ Idle.phase = "idle" /\ \A closed : Sound(Idle, closed)
<1>1. DOMAIN Idle = FrameFields
  BY DEF Idle, FrameFields
<1>2. Carried(Idle)
  BY <1>1 DEF Idle, Carried
<1> QED BY <1>2 DEF Sound, Closes, Idle

LEMMA ListedAll ==
    ASSUME NEW list
    PROVE  ToSet(Listed(list)) = NamesOf(list)
  BY DEF Listed, NamesOf, ToSet

\* A task that takes the list of the registry.
LEMMA ListTaken ==
    ASSUME RegistryInv, NEW v, Carried(v), NEW closed
    PROVE  Sound(Discovering(v), closed) /\ Sound(Collecting(v), closed)
<1>1. ASSUME NEW p, p \notin {"rows", "install"}, NEW w,
             w = [v EXCEPT !.phase = p, !.held = Listed(registry)]
      PROVE  Sound(w, closed)
  <2>1. /\ DOMAIN w = FrameFields /\ w.phase = p /\ w.hid = v.hid /\ w.ro = v.ro
        /\ w.rows = v.rows /\ w.held = Listed(registry)
    BY <1>1 DEF Carried, FrameFields
  <2>2. Untouched \subseteq ToSet(w.held)
    BY <2>1, ListedAll DEF RegistryInv
  <2> QED BY <1>1, <2>1, <2>2 DEF Sound, Carried, Closes
<1>2. Sound(Discovering(v), closed)
  BY <1>1 DEF Discovering
<1>3. Sound(Collecting(v), closed)
  BY <1>1 DEF Collecting
<1> QED BY <1>2, <1>3

\* The database, the marks and the closings are left alone.
LEMMA WorldKept ==
    ASSUME WorldInv, ShutInv, shut' \subseteq shut,
           UNCHANGED <<table, hidden, readonly, muted>>
    PROVE  WorldInv' /\ ShutInv'
  BY DEF WorldInv, ShutInv

\* A task that goes on beside the registry, the database and the marks.
LEMMA Beside ==
    ASSUME Inv, NEW t \in Tasks, NEW w, Sound(w, shut),
           task' = [task EXCEPT ![t] = w], task[t].phase # "install",
           UNCHANGED <<table, hidden, readonly, muted, registry, shut>>,
           \A f \in Untouched : f \in tree => f \in tree'
    PROVE  Inv' /\ UntouchedStep /\ ShutStep
<1>1. WorldInv' /\ ShutInv'
  BY WorldKept DEF Inv
<1>2. TasksInv' /\ \A u \in Tasks : ~Reloads(u)
  BY OneGoesOn DEF Inv
<1>3. RegistryInv' /\ UntouchedStep /\ ShutStep
  BY <1>2, QuietStep DEF Inv
<1> QED BY <1>1, <1>2, <1>3 DEF Inv

\* A task ends, or goes to a phase where nothing is reloaded.
LEMMA TaskCarried ==
    ASSUME TasksInv, NEW t \in Tasks
    PROVE  Carried(task[t])
  BY DEF TasksInv, Sound

LEMMA GoesKeeps ==
    ASSUME Inv, NEW t \in Tasks, NEW p, p \notin {"rows", "install"}, Goes(t, p) \/ Ends(t),
           task[t].phase # "install",
           UNCHANGED <<table, hidden, readonly, muted, registry, shut>>,
           \A f \in Untouched : f \in tree => f \in tree'
    PROVE  Inv' /\ UntouchedStep /\ ShutStep
<1>1. Carried(task[t])
  BY TaskCarried DEF Inv
<1>2. CASE Goes(t, p)
  <2>1. PICK w : w = [task[t] EXCEPT !.phase = p]
    OBVIOUS
  <2>2. Sound(w, shut)
    BY <1>1, <2>1, Moved
  <2>3. task' = [task EXCEPT ![t] = w]
    BY <1>2, <2>1 DEF Goes
  <2> QED BY <2>2, <2>3, Beside
<1>3. CASE Ends(t)
  <2>1. task' = [task EXCEPT ![t] = Idle] /\ Sound(Idle, shut)
    BY <1>3, IdleCarried DEF Ends
  <2> QED BY <2>1, Beside
<1> QED BY <1>2, <1>3

-----------------------------------------------------------------------------
(* The discovery, the collection and the setup.                            *)

LEMMA DiscoverySteps ==
    ASSUME Inv, NEW t \in Tasks, ReadsRouters(t) \/ SavesSnapshot(t) \/ ForgetsRemoved(t)
    PROVE  Inv' /\ UntouchedStep /\ ShutStep
<1>1. CASE ReadsRouters(t)
  <2>1. Goes(t, "saving") /\ task[t].phase # "install"
        /\ UNCHANGED <<table, hidden, readonly, tree, muted, registry, shut>>
    BY <1>1 DEF ReadsRouters, outside
  <2> QED BY <2>1, GoesKeeps
<1>2. CASE SavesSnapshot(t)
  <2>1. /\ Goes(t, "forgetting") \/ Ends(t)
        /\ task[t].phase # "install" /\ tree \subseteq tree'
        /\ UNCHANGED <<table, hidden, readonly, muted, registry, shut>>
    BY <1>2 DEF SavesSnapshot, AfterDiscovery, Concludes
  <2> QED BY <2>1, GoesKeeps
<1>3. CASE ForgetsRemoved(t)
  <2>1. /\ Ends(t) /\ task[t].phase # "install"
        /\ UNCHANGED <<table, hidden, readonly, muted, registry, shut>>
    BY <1>3 DEF ForgetsRemoved, AfterDiscovery, Concludes
  <2>2. task[t].held = <<>> \/ Untouched \subseteq ToSet(task[t].held)
    BY TaskCarried DEF Inv, Carried
  <2>3. \A f \in Untouched : f \in tree => f \in tree'
    BY <1>3, <2>2 DEF ForgetsRemoved
  <2> QED BY <2>1, <2>3, GoesKeeps
<1> QED BY <1>1, <1>2, <1>3

LEMMA StartSteps ==
    ASSUME Inv, TopologyStarts \/ CollectStarts
    PROVE  Inv' /\ UntouchedStep /\ ShutStep
<1>1. CASE TopologyStarts
  <2>1. "topology" \in Tasks
    BY <1>1 DEF TopologyStarts, Tasks
  <2>2. PICK w : w = Discovering(task["topology"])
    OBVIOUS
  <2>3. Sound(w, shut)
    BY <2>1, <2>2, TaskCarried, ListTaken DEF Inv
  <2>4. task' = [task EXCEPT !["topology"] = w] /\ task["topology"].phase # "install"
        /\ UNCHANGED <<table, hidden, readonly, tree, muted, registry, shut>>
    BY <1>1, <2>1, <2>2 DEF TopologyStarts, outside, memory, Inv, TasksInv
  <2> QED BY <2>1, <2>3, <2>4, Beside
<1>2. CASE CollectStarts
  <2>1. "subscribers" \in Tasks
    BY <1>2 DEF CollectStarts, Tasks
  <2>2. PICK w : w = Collecting(task["subscribers"])
    OBVIOUS
  <2>3. Sound(w, shut)
    BY <2>1, <2>2, TaskCarried, ListTaken DEF Inv
  <2>4. task' = [task EXCEPT !["subscribers"] = w] /\ task["subscribers"].phase # "install"
        /\ UNCHANGED <<table, hidden, readonly, tree, muted, registry, shut>>
    BY <1>2, <2>1, <2>2 DEF CollectStarts, outside, memory, Inv, TasksInv
  <2> QED BY <2>1, <2>3, <2>4, Beside
<1> QED BY <1>1, <1>2

LEMMA AfterCollectKeeps ==
    ASSUME Inv, NEW t \in Tasks, NEW good, AfterCollect(t, good), task[t].phase # "install",
           UNCHANGED <<table, hidden, readonly, tree, muted, registry, shut>>
    PROVE  Inv' /\ UntouchedStep /\ ShutStep
<1>1. PICK v : v = [task[t] EXCEPT !.ok = @ /\ good]
  OBVIOUS
<1>2. Carried(task[t])
  BY TaskCarried DEF Inv
<1>3. Carried(v)
  BY <1>1, <1>2 DEF Carried, FrameFields
<1>4. Sound(Discovering(v), shut) /\ Sound(Idle, shut)
  BY <1>3, ListTaken, IdleCarried DEF Inv
<1>5. PICK w : w = IF t = Setup THEN Discovering(v) ELSE Idle
  OBVIOUS
<1>6. task' = [task EXCEPT ![t] = w] /\ Sound(w, shut)
  <2>1. CASE t = Setup
    <3>1. w = Discovering([task[t] EXCEPT !.ok = @ /\ good])
      BY <1>1, <1>5, <2>1
    <3>2. task' = [task EXCEPT ![t] = w]
      BY <2>1, <3>1 DEF AfterCollect
    <3> QED BY <1>4, <1>5, <2>1, <3>2
  <2>2. CASE t # Setup
    BY <1>4, <1>5, <2>2 DEF AfterCollect
  <2> QED BY <2>1, <2>2
<1> QED BY <1>6, Beside

LEMMA CollectSteps ==
    ASSUME Inv, NEW t \in Tasks, PairsAnswers(t)
    PROVE  Inv' /\ UntouchedStep /\ ShutStep
<1>1. /\ \E good : AfterCollect(t, good)
      /\ task[t].phase # "install" /\ UNCHANGED <<table, hidden, readonly, tree, muted, registry, shut>>
  BY DEF PairsAnswers, outside
<1> QED BY <1>1, AfterCollectKeeps

LEMMA SetupSteps ==
    ASSUME Inv, ChecksRouter \/ ChecksRights \/ TimesOut
    PROVE  Inv' /\ UntouchedStep /\ ShutStep
<1>1. /\ Setup \in Tasks /\ task[Setup].phase # "install"
      /\ UNCHANGED <<table, hidden, readonly, tree, muted, registry, shut>>
  BY DEF Tasks, ChecksRouter, ChecksRights, TimesOut, SetupUnchanged, outside
<1>2. CASE ChecksRouter
  <2>1. Goes(Setup, "rights") \/ Ends(Setup)
    BY <1>2 DEF ChecksRouter, Concludes
  <2> QED BY <1>1, <2>1, GoesKeeps
<1>3. CASE ChecksRights /\ Carries(registry, setup.router)
  <2>1. PICK v : v = [task[Setup] EXCEPT !.blocked = ~Writable(registry, setup.router)]
    OBVIOUS
  <2>2. Carried(task[Setup])
    BY <1>1, TaskCarried DEF Inv
  <2>3. Carried(v)
    BY <2>1, <2>2 DEF Carried, FrameFields
  <2>4. PICK w : w = Collecting(v)
    OBVIOUS
  <2>5. Sound(w, shut)
    BY <2>3, <2>4, ListTaken DEF Inv
  <2>6. task' = [task EXCEPT ![Setup] = w]
    BY <1>3, <2>1, <2>4 DEF ChecksRights
  <2> QED BY <1>1, <2>5, <2>6, Beside
<1>4. CASE ChecksRights /\ ~Carries(registry, setup.router)
  <2>1. Ends(Setup)
    BY <1>4 DEF ChecksRights, Concludes
  <2> QED BY <1>1, <2>1, GoesKeeps
<1>5. CASE TimesOut
  <2>1. (\E good : AfterCollect(Setup, good)) \/ Ends(Setup)
    BY <1>5 DEF TimesOut, AfterDiscovery, Concludes
  <2>2. CASE \E good : AfterCollect(Setup, good)
    BY <1>1, <2>2, AfterCollectKeeps
  <2>3. CASE Ends(Setup)
    BY <1>1, <2>3, GoesKeeps
  <2> QED BY <2>1, <2>2, <2>3
<1> QED BY <1>2, <1>3, <1>4, <1>5

-----------------------------------------------------------------------------
(* What people ask.                                                        *)

\* A request enters the database, with its task at the first reading.
LEMMA RequestKeeps ==
    ASSUME Inv, NEW p \in People, NEW closing, NEW starts, NEW purges,
           Requests(p, closing, starts, purges), shut' \subseteq shut,
           WorldInv', ShutInv'
    PROVE  Inv' /\ UntouchedStep /\ ShutStep
<1>1. PICK w : w = [Idle EXCEPT !.phase = "marks", !.closing = closing,
                                !.starts = starts, !.purges = purges]
  OBVIOUS
<1>2. /\ DOMAIN w = FrameFields /\ w.phase = "marks" /\ w.hid = Idle.hid /\ w.ro = Idle.ro
      /\ w.rows = Idle.rows /\ w.held = Idle.held
  BY <1>1, IdleCarried DEF Carried, FrameFields
<1>3. Sound(w, shut)
  BY <1>2, IdleCarried DEF Carried, Sound, Closes
<1>4. /\ p \in Tasks /\ task[p].phase # "install" /\ task' = [task EXCEPT ![p] = w]
      /\ registry' = registry /\ tree' = tree
  BY <1>1 DEF Requests, Tasks, memory
<1>5. TasksInv' /\ \A u \in Tasks : ~Reloads(u)
  BY <1>3, <1>4, OneGoesOn DEF Inv
<1>6. RegistryInv' /\ UntouchedStep /\ ShutStep
  BY <1>4, <1>5, QuietStep DEF Inv
<1> QED BY <1>5, <1>6 DEF Inv

LEMMA RowRequests ==
    ASSUME Inv, NEW p \in People, NEW n \in Names,
           CreatesRouter(p, n) \/ UpdatesRouter(p, n) \/ DeletesRouter(p, n)
    PROVE  Inv' /\ UntouchedStep /\ ShutStep
<1>1. \E closing, starts, purges : Requests(p, closing, starts, purges)
  BY DEF CreatesRouter, UpdatesRouter, DeletesRouter
<1>2. \E row : /\ table' = [table EXCEPT ![n] = row] /\ DOMAIN row = RowFields
               /\ row.write => n \notin shut'
  <2>1. CASE CreatesRouter(p, n)
    BY <2>1 DEF CreatesRouter, RowFields
  <2>2. CASE UpdatesRouter(p, n)
    <3>1. PICK row \in [host : Hosts, enabled : BOOLEAN, write : BOOLEAN, readable : {TRUE}] :
             /\ table' = [table EXCEPT ![n] = row]
             /\ shut' = IF row.write THEN shut \ {n} ELSE shut
      BY <2>2 DEF UpdatesRouter
    <3> QED BY <3>1 DEF RowFields
  <2>3. CASE DeletesRouter(p, n)
    <3>1. table' = [table EXCEPT ![n] = NoRow]
      BY <2>3 DEF DeletesRouter
    <3>2. DOMAIN NoRow = RowFields /\ ~NoRow.write
      BY DEF NoRow, RowFields
    <3> QED BY <3>1, <3>2
  <2> QED BY <2>1, <2>2, <2>3
<1>3. /\ shut' \subseteq shut /\ UNCHANGED <<hidden, readonly>>
  BY DEF CreatesRouter, UpdatesRouter, DeletesRouter
<1>4. muted' = muted
  BY <1>1 DEF Requests, memory
<1>5. PICK row : /\ table' = [table EXCEPT ![n] = row] /\ DOMAIN row = RowFields
                 /\ row.write => n \notin shut'
  BY <1>2
<1>6. /\ DOMAIN table' = DbRouters
      /\ \A m \in DbRouters : table'[m] = IF m = n THEN row ELSE table[m]
  BY <1>5 DEF Inv, WorldInv
<1>7. WorldInv'
  BY <1>3, <1>4, <1>5, <1>6 DEF Inv, WorldInv
<1>8. ShutInv'
  BY <1>3, <1>4, <1>5, <1>6 DEF Inv, ShutInv
<1> QED BY <1>1, <1>3, <1>7, <1>8, RequestKeeps

\* The marks of an untouched router do not move: nobody manages it.
LEMMA Unmanaged == Untouched \cap Managed = {} /\ Untouched \cap DbRouters = {}
                   /\ Untouched \subseteq FileRouters
  BY DEF Untouched

LEMMA MarkRequests ==
    ASSUME Inv, NEW p \in People, NEW n \in Names,
           HidesFileRouter(p, n) \/ RestoresFileRouter(p, n) \/ SetsFileWrite(p, n)
    PROVE  Inv' /\ UntouchedStep /\ ShutStep
<1>1. \E closing, starts, purges : Requests(p, closing, starts, purges)
  BY DEF HidesFileRouter, RestoresFileRouter, SetsFileWrite
<1>2. /\ table' = table /\ muted' = muted
  BY <1>1 DEF Requests, memory, HidesFileRouter, RestoresFileRouter, SetsFileWrite
<1>3. /\ n \in Managed
      /\ hidden' \subseteq hidden \cup {n} /\ readonly' \subseteq readonly \cup {n}
      /\ shut' \subseteq shut /\ readonly \ {n} \subseteq readonly'
      /\ n \notin readonly' => n \notin readonly \/ n \notin shut'
  BY DEF HidesFileRouter, RestoresFileRouter, SetsFileWrite
<1>4. WorldInv'
  BY <1>2, <1>3, Unmanaged DEF Inv, WorldInv
<1>5. ShutInv'
  BY <1>2, <1>3 DEF Inv, ShutInv
<1> QED BY <1>1, <1>3, <1>4, <1>5, RequestKeeps

-----------------------------------------------------------------------------
(* The environment.                                                        *)

LEMMA EnvironmentSteps ==
    ASSUME Inv, DatabaseComesOrGoes \/ \E n \in Names : RouterComesOrGoes(n) \/ SecretLost(n)
    PROVE  Inv' /\ UntouchedStep /\ ShutStep
<1>1. UNCHANGED <<hidden, readonly, tree, registry, muted, task, shut>>
  BY DEF DatabaseComesOrGoes, RouterComesOrGoes, SecretLost, memory
<1>2. \/ table' = table
      \/ \E n \in DbRouters : table' = [table EXCEPT ![n].readable = FALSE]
  BY DEF DatabaseComesOrGoes, RouterComesOrGoes, SecretLost
<1>3. /\ DOMAIN table' = DbRouters
      /\ \A m \in DbRouters : DOMAIN table'[m] = RowFields /\ table'[m].write = table[m].write
  BY <1>2 DEF Inv, WorldInv, RowFields
<1>4. WorldInv' /\ ShutInv'
  BY <1>1, <1>3 DEF Inv, WorldInv, ShutInv
<1>5. TasksInv' /\ \A u \in Tasks : ~Reloads(u)
  BY <1>1 DEF Inv, TasksInv, Reloads
<1>6. RegistryInv' /\ UntouchedStep /\ ShutStep
  BY <1>1, <1>5, QuietStep DEF Inv
<1> QED BY <1>4, <1>5, <1>6 DEF Inv

-----------------------------------------------------------------------------
(* The reload.                                                             *)

LEMMA ReadsMarksKeeps ==
    ASSUME Inv, NEW t \in Tasks, ReadsMarks(t)
    PROVE  Inv' /\ UntouchedStep /\ ShutStep
<1>1. /\ task[t].phase # "install"
      /\ muted' = IF dbUp THEN readonly ELSE muted
      /\ task' = [task EXCEPT ![t] = AfterMarks(task[t])]
      /\ UNCHANGED <<table, hidden, readonly, tree, registry, shut>>
  BY DEF ReadsMarks, outside, Inv, TasksInv
<1>2. WorldInv' /\ ShutInv'
  BY <1>1 DEF Inv, WorldInv, ShutInv
<1>3. PICK w : w = AfterMarks(task[t])
  OBVIOUS
<1>4. Carried(task[t])
  BY TaskCarried DEF Inv
<1>5. /\ DOMAIN w = FrameFields /\ w.phase = "rows" /\ w.rows = task[t].rows /\ w.held = task[t].held
      /\ w.hid = IF dbUp THEN hidden ELSE {}
      /\ w.ro = IF dbUp THEN readonly ELSE muted
  BY <1>3, <1>4 DEF AfterMarks, Carried, FrameFields
<1>6. Sound(w, shut)
  <2>1. Carried(w)
    BY <1>4, <1>5 DEF Inv, WorldInv, Carried
  <2>2. \A n \in shut : Closes(w, n)
    BY <1>5 DEF Inv, ShutInv, Closes
  <2> QED BY <2>1, <2>2 DEF Sound
<1>7. TasksInv' /\ \A u \in Tasks : ~Reloads(u)
  BY <1>1, <1>3, <1>6, OneGoesOn DEF Inv
<1>8. RegistryInv' /\ UntouchedStep /\ ShutStep
  BY <1>1, <1>7, QuietStep DEF Inv
<1> QED BY <1>2, <1>7, <1>8 DEF Inv

LEMMA ReadsRowsKeeps ==
    ASSUME Inv, NEW t \in Tasks, ReadsRows(t)
    PROVE  Inv' /\ UntouchedStep /\ ShutStep
<1>1. PICK rows : rows = IF dbUp THEN Loaded ELSE <<>>
  OBVIOUS
<1>2. PICK w : w = [task[t] EXCEPT !.phase = "install", !.rows = rows]
  OBVIOUS
<1>3. /\ task[t].phase = "rows"
      /\ task' = [task EXCEPT ![t] = w]
      /\ UNCHANGED <<table, hidden, readonly, tree, muted, registry, shut>>
  BY <1>1, <1>2 DEF ReadsRows, outside, memory, Inv, TasksInv
<1>4. Sound(task[t], shut)
  BY DEF Inv, TasksInv
<1>5. /\ DOMAIN w = FrameFields /\ w.phase = "install" /\ w.rows = rows /\ w.held = task[t].held
      /\ w.hid = task[t].hid /\ w.ro = task[t].ro /\ w.overtaken = task[t].overtaken
  BY <1>2, <1>4 DEF Sound, Carried, FrameFields
<1>6. DOMAIN rows \subseteq DbRouters /\ \A n \in DOMAIN rows : rows[n].write = table[n].write
  <2>1. CASE dbUp
    BY <1>1, <2>1 DEF Loaded
  <2>2. CASE ~dbUp
    BY <1>1, <2>2
  <2> QED BY <2>1, <2>2
<1>7. Carried(w)
  BY <1>4, <1>5, <1>6 DEF Sound, Carried
<1>8. ASSUME NEW n \in shut \ w.overtaken PROVE Closes(w, n)
  <2>1. Closes(task[t], n)
    BY <1>4, <1>5, <1>8 DEF Sound
  <2>2. n \in FileRouters => n \in w.ro
    BY <1>3, <1>5, <2>1 DEF Closes
  <2>3. n \notin FileRouters /\ n \in DOMAIN rows => ~rows[n].write
    BY <1>6, <1>8 DEF Inv, ShutInv
  <2> QED BY <1>5, <2>2, <2>3 DEF Closes
<1>9. Sound(w, shut)
  BY <1>7, <1>8 DEF Sound
<1> QED BY <1>3, <1>9, Beside

\* The rows a reload installs are among those its task read.
LEMMA RowsAre ==
    ASSUME NEW t \in Tasks, NEW rows \in RowsInHand(t)
    PROVE  /\ DOMAIN rows \subseteq DOMAIN task[t].rows
           /\ \A n \in DOMAIN rows : rows[n] = task[t].rows[n]
<1>1. CASE dbUp
  BY <1>1 DEF RowsInHand
<1>2. CASE ~dbUp
  <2>1. PICK k \in 0..Len(NameOrder) :
           rows = [n \in {m \in DOMAIN task[t].rows : m \in ToSet(SubSeq(NameOrder, 1, k))}
                      |-> task[t].rows[n]]
    BY <1>2 DEF RowsInHand
  <2> QED BY <2>1
<1> QED BY <1>1, <1>2

\* A list of collectors that fits what is wanted, where the untouched routers are
\* wanted as the file says, on the connections they have.
LEMMA UntouchedFit ==
    ASSUME NEW list, NEW wanted, Fits(list, wanted), NamesOf(list) = DOMAIN wanted,
           Untouched \subseteq DOMAIN wanted,
           \A f \in Untouched : /\ wanted[f].host = FileHost[f]
                                /\ wanted[f].write = FileWrite[f],
           NEW number,
           \A p \in ToSet(list) : p.name \in Untouched => p.id = number[p.name],
           registry' = list
    PROVE  /\ RegistryInv'
           /\ \A f \in Untouched : /\ Carries(registry', f)
                                   /\ Entry(registry', f).write = FileWrite[f]
                                   /\ IdOf(f)' = number[f]
<1>1. /\ list \in Seq(ToSet(list))
      /\ \A o \in ToSet(list) : /\ DOMAIN o = Fields
                                /\ o.name \in Untouched =>
                                      /\ o.host = FileHost[o.name] /\ o.write = FileWrite[o.name]
                                      /\ \A p \in ToSet(list) : p.name = o.name => p.id = o.id
  BY DEF Fits
<1>2. RegistryInv'
  <2>1. PICK S : S = ToSet(list)
    OBVIOUS
  <2>2. Untouched \subseteq NamesOf(list) /\ ToSet(registry)' = S /\ NamesOf(registry)' = NamesOf(list)
    BY <2>1
  <2> QED BY <1>1, <2>1, <2>2 DEF RegistryInv
<1>3. ASSUME NEW f \in Untouched
      PROVE  /\ Carries(list, f) /\ Entry(list, f).write = FileWrite[f]
             /\ Entry(list, f).id = number[f]
  <2>1. f \in NamesOf(list)
    OBVIOUS
  <2>2. PICK e : e = Entry(list, f)
    OBVIOUS
  <2>3. e \in ToSet(list) /\ e.name = f
    BY <2>1, <2>2, EntryIs
  <2>4. e.write = FileWrite[f]
    BY <1>1, <2>3
  <2>5. e.id = number[f]
    BY <2>3
  <2> QED BY <2>1, <2>2, <2>4, <2>5 DEF Carries
<1>4. \A f \in Untouched : IdOf(f)' = number[f]
  BY <1>3 DEF IdOf
<1> QED BY <1>2, <1>3, <1>4

\* The setup never reloads: it is started by the end of a reload.
SetupInv == task[Setup].phase \notin {"marks", "rows", "install", "purge"}

\* The reload installs what it read: an untouched router is wanted as the file
\* says, and a router whose closing was answered is not, or without writing.
LEMMA InstalledWants ==
    ASSUME Inv, NEW t \in Tasks, task[t].phase = "install", NEW rows \in RowsInHand(t),
           NEW wanted, wanted = Wanted(rows, task[t].hid, task[t].ro)
    PROVE  /\ DOMAIN wanted \subseteq Names
           /\ Untouched \subseteq DOMAIN wanted
           /\ \A f \in Untouched : wanted[f].host = FileHost[f] /\ wanted[f].write = FileWrite[f]
           /\ \A n \in (shut \ task[t].overtaken) \cap DOMAIN wanted : ~wanted[n].write
<1>1. Sound(task[t], shut)
  BY DEF Inv, TasksInv
<1>2. /\ DOMAIN wanted = (FileRouters \ task[t].hid) \cup (DOMAIN rows \ task[t].hid)
      /\ \A n \in FileRouters \ task[t].hid :
             /\ wanted[n].host = FileHost[n]
             /\ wanted[n].write = (FileWrite[n] /\ n \notin task[t].ro)
      /\ \A n \in (DOMAIN rows \ task[t].hid) \ FileRouters : wanted[n] = rows[n]
  BY DEF Wanted
<1>3. /\ DOMAIN rows \subseteq DOMAIN task[t].rows
      /\ \A n \in DOMAIN rows : rows[n] = task[t].rows[n]
  BY RowsAre
<1>4. /\ DOMAIN task[t].rows \subseteq DbRouters
      /\ task[t].hid \cap Untouched = {} /\ task[t].ro \cap Untouched = {}
  BY <1>1 DEF Sound, Carried
<1>5. DOMAIN wanted \subseteq Names
  BY <1>2, <1>3, <1>4 DEF Names
<1>6. Untouched \subseteq FileRouters \ task[t].hid
  BY <1>4, Unmanaged
<1>7. \A f \in Untouched : FileWrite[f] \in BOOLEAN
  BY Unmanaged, InventoryAssumption DEF InventoryAssumption
<1>8. ASSUME NEW f \in Untouched
      PROVE  wanted[f].host = FileHost[f] /\ wanted[f].write = FileWrite[f]
  <2>1. f \in FileRouters \ task[t].hid /\ f \notin task[t].ro
    BY <1>4, <1>6
  <2>2. wanted[f].host = FileHost[f] /\ wanted[f].write = (FileWrite[f] /\ TRUE)
    BY <1>2, <2>1
  <2> QED BY <1>7, <2>2
<1>9. ASSUME NEW n \in shut \ task[t].overtaken, n \in DOMAIN wanted PROVE ~wanted[n].write
  <2>1. Closes(task[t], n)
    BY <1>1 DEF Sound
  <2>2. CASE n \in FileRouters
    <3>1. n \in task[t].ro /\ n \in FileRouters \ task[t].hid
      BY <1>2, <1>9, <2>1, <2>2 DEF Closes
    <3>2. wanted[n].write = (FileWrite[n] /\ FALSE)
      BY <1>2, <3>1
    <3> QED BY <3>2
  <2>3. CASE n \notin FileRouters
    <3>1. n \in DOMAIN rows /\ wanted[n] = rows[n]
      BY <1>2, <1>9, <2>3
    <3>2. ~rows[n].write
      BY <1>3, <2>1, <2>3, <3>1 DEF Closes
    <3> QED BY <3>1, <3>2
  <2> QED BY <2>2, <2>3
<1> QED BY <1>2, <1>5, <1>6, <1>8, <1>9

\* What a task carries once another's reload has answered its closings.
LEMMA OvertakesKeeps ==
    ASSUME TasksInv, NEW u \in Tasks, NEW closed
    PROVE  /\ Sound(Overtakes(u, closed), shut \cup closed)
           /\ Overtakes(u, closed).phase = task[u].phase
<1>1. Sound(task[u], shut)
  BY DEF TasksInv
<1>2. CASE task[u].phase \in {"rows", "install"}
  <2>1. PICK w : w = [task[u] EXCEPT !.overtaken = @ \cup closed]
    OBVIOUS
  <2>2. /\ DOMAIN w = FrameFields /\ w.phase = task[u].phase /\ w.hid = task[u].hid
        /\ w.ro = task[u].ro /\ w.rows = task[u].rows /\ w.held = task[u].held
        /\ w.overtaken = task[u].overtaken \cup closed
    BY <1>1, <2>1 DEF Sound, Carried, FrameFields
  <2>3. Carried(w)
    BY <1>1, <2>2 DEF Sound, Carried
  <2>4. \A n \in (shut \cup closed) \ w.overtaken : Closes(w, n)
    BY <1>1, <2>2 DEF Sound, Closes
  <2>5. Overtakes(u, closed) = w
    BY <1>2, <2>1 DEF Overtakes
  <2> QED BY <2>2, <2>3, <2>4, <2>5 DEF Sound
<1>3. CASE task[u].phase \notin {"rows", "install"}
  <2>1. Overtakes(u, closed) = task[u]
    BY <1>3 DEF Overtakes
  <2> QED BY <1>1, <1>3, <2>1 DEF Sound, Closes
<1> QED BY <1>2, <1>3

\* The task of a reload, once it has installed.
LEMMA AfterReloadKeeps ==
    ASSUME RegistryInv', NEW t \in Tasks, NEW closed
    PROVE  Sound(AfterReload(t), closed) /\ AfterReload(t).phase # "install"
<1>1. PICK v : v = [Idle EXCEPT !.phase = "reading", !.held = Listed(registry')]
  OBVIOUS
<1>2. /\ DOMAIN v = FrameFields /\ v.phase = "reading" /\ v.hid = Idle.hid /\ v.ro = Idle.ro
      /\ v.rows = Idle.rows /\ v.held = Listed(registry')
  BY <1>1, IdleCarried DEF Carried, FrameFields
<1>3. Untouched \subseteq ToSet(v.held)
  <2>1. PICK list : list = registry'
    OBVIOUS
  <2>2. Untouched \subseteq NamesOf(list)
    BY <2>1 DEF RegistryInv
  <2> QED BY <1>2, <2>1, <2>2, ListedAll
<1>4. Sound(v, closed)
  BY <1>2, <1>3, IdleCarried DEF Sound, Carried, Closes
<1>5. Discovering(Idle)' = v
  BY <1>1 DEF Discovering, Idle
<1>6. /\ Sound([Idle EXCEPT !.phase = "purge"], closed)
      /\ [Idle EXCEPT !.phase = "purge"].phase = "purge"
  BY IdleCarried, Moved
<1>7. AfterReload(t) = v \/ AfterReload(t) = Idle \/ AfterReload(t) = [Idle EXCEPT !.phase = "purge"]
  BY <1>5 DEF AfterReload
<1> QED BY <1>2, <1>4, <1>6, <1>7, IdleCarried

LEMMA InstallsKeeps ==
    ASSUME Inv, SetupInv, NEW t \in Tasks, Installs(t)
    PROVE  Inv' /\ UntouchedStep /\ ShutStep
<1>1. /\ task[t].phase = "install" /\ shut' = shut \cup Answered(t)
      /\ UNCHANGED <<table, hidden, readonly, muted, tree>>
  BY DEF Installs, outside
<1>2. PICK rows, wanted :
         /\ rows \in RowsInHand(t)
         /\ wanted = Wanted(rows, task[t].hid, task[t].ro)
         /\ registry' = Reloaded(wanted, WantedOrder(rows, wanted), Staying(wanted))
  BY DEF Installs
<1>3. /\ DOMAIN wanted \subseteq Names
      /\ Untouched \subseteq DOMAIN wanted
      /\ \A f \in Untouched : wanted[f].host = FileHost[f] /\ wanted[f].write = FileWrite[f]
      /\ \A n \in (shut \ task[t].overtaken) \cap DOMAIN wanted : ~wanted[n].write
  BY <1>1, <1>2, InstalledWants
<1>4. PICK list : list = registry'
  OBVIOUS
<1>5. Fits(list, wanted) /\ NamesOf(list) = DOMAIN wanted /\ SameConnection(list, wanted)
  BY <1>2, <1>3, <1>4, ReloadedFits DEF Inv, RegistryInv
<1> PICK number : number = [f \in Untouched |-> IdOf(f)]
  OBVIOUS
<1>6. \A p \in ToSet(list) : p.name \in Untouched => p.id = number[p.name]
  <2> SUFFICES ASSUME NEW p \in ToSet(list), p.name \in Untouched PROVE p.id = IdOf(p.name)
    OBVIOUS
  <2>1. PICK f : f = p.name
    OBVIOUS
  <2>2. f \in NamesOf(registry)
    BY <2>1 DEF Inv, RegistryInv
  <2>3. PICK o \in ToSet(registry) : o.name = f
    BY <2>2, EntryIs
  <2>4. o.host = FileHost[f]
    BY <2>1, <2>3 DEF Inv, RegistryInv
  <2>5. PICK q \in ToSet(registry) : q.name = p.name /\ q.id = p.id
    BY <1>3, <1>5, <2>1, <2>3, <2>4 DEF SameConnection
  <2> QED BY <2>1, <2>5, RegistryAnswers DEF Inv
<1>7. /\ RegistryInv'
      /\ \A f \in Untouched : /\ Carries(registry', f)
                              /\ Entry(registry', f).write = FileWrite[f]
                              /\ IdOf(f)' = number[f]
  BY <1>3, <1>4, <1>5, <1>6, UntouchedFit
<1>8. UntouchedStep
  BY <1>1, <1>7 DEF UntouchedStep
<1>9. /\ DOMAIN task' = Tasks /\ task'[t] = AfterReload(t)
      /\ \A u \in Tasks \ {t} : \/ task'[u] = [Idle EXCEPT !.phase = "check"] /\ u = Setup
                                \/ task'[u] = Overtakes(u, Answered(t))
  <2>1. task' = [u \in Tasks |->
                   CASE u = t -> AfterReload(t)
                     [] u = Setup /\ u # t /\ task[t].starts # None
                            -> [Idle EXCEPT !.phase = "check"]
                     [] OTHER -> Overtakes(u, Answered(t))]
    BY DEF Installs
  <2>2. task'[t] = AfterReload(t)
    BY <2>1
  <2>3. ASSUME NEW u \in Tasks, u # t
        PROVE  \/ task'[u] = [Idle EXCEPT !.phase = "check"] /\ u = Setup
               \/ task'[u] = Overtakes(u, Answered(t))
    BY <2>1, <2>3
  <2> QED BY <2>1, <2>2, <2>3
<1>10. /\ Sound([Idle EXCEPT !.phase = "check"], shut')
       /\ [Idle EXCEPT !.phase = "check"].phase = "check"
  <2>1. PICK closed : closed = shut'
    OBVIOUS
  <2>2. Carried(Idle) /\ "check" \notin {"rows", "install"}
    BY IdleCarried
  <2>3. /\ Sound([Idle EXCEPT !.phase = "check"], closed)
        /\ [Idle EXCEPT !.phase = "check"].phase = "check"
    BY ONLY <2>2, Moved
  <2> QED BY <2>1, <2>3
<1>11. Sound(AfterReload(t), shut') /\ AfterReload(t).phase # "install"
  BY <1>7, AfterReloadKeeps
<1>12. \A u \in Tasks : /\ Sound(Overtakes(u, Answered(t)), shut')
                        /\ Overtakes(u, Answered(t)).phase = task[u].phase
  BY <1>1, OvertakesKeeps DEF Inv
<1>13. TasksInv'
  <2>1. \A u \in Tasks : Sound(task'[u], shut')
    BY <1>9, <1>10, <1>11, <1>12
  <2> QED BY <1>9, <2>1 DEF TasksInv
<1>14. \A u \in Tasks : Reloads(u) <=> u = t
  <2>1. Reloads(t)
    BY <1>1, <1>9, <1>10, <1>11 DEF Reloads
  <2>2. ASSUME NEW u \in Tasks, u # t PROVE ~Reloads(u)
    BY <1>9, <1>12, <2>2 DEF Reloads, SetupInv
  <2> QED BY <2>1, <2>2
<1>15. ShutStep
  <2>1. ASSUME NEW n \in shut, n \notin task[t].overtaken PROVE ~Writable(registry', n)
    <3>1. ASSUME NEW o \in ToSet(list), o.name = n PROVE ~o.write
      <4>1. o.name \in DOMAIN wanted /\ o.write = wanted[o.name].write
        BY <1>5 DEF Fits
      <4> QED BY <1>3, <2>1, <3>1, <4>1
    <3> QED BY <1>4, <3>1 DEF Writable, ToSet
  <2> QED BY <1>14, <2>1 DEF ShutStep
<1>16. WorldInv' /\ ShutInv'
  <2>1. \A n \in Answered(t) : IF n \in FileRouters THEN n \in readonly \cap muted
                               ELSE ~table[n].write
    BY DEF Answered
  <2> QED BY <1>1, <2>1 DEF Inv, WorldInv, ShutInv
<1> QED BY <1>7, <1>8, <1>13, <1>15, <1>16 DEF Inv

LEMMA PurgesKeeps ==
    ASSUME Inv, NEW t \in Tasks, Purges(t)
    PROVE  Inv' /\ UntouchedStep /\ ShutStep
<1>1. /\ task' = [task EXCEPT ![t] = Idle] /\ task[t].phase # "install"
      /\ UNCHANGED <<hidden, readonly, tree, muted, registry, shut>>
  BY DEF Purges, Ends, memory
<1>2. /\ DOMAIN table' = DbRouters
      /\ \A n \in DbRouters : table'[n] = NoRow \/ table'[n] = table[n]
  <2>1. CASE dbUp
    <3>1. table' = [n \in DbRouters |-> IF n \in hidden THEN NoRow ELSE table[n]]
      BY <2>1 DEF Purges
    <3> QED BY <3>1
  <2>2. CASE ~dbUp
    BY <2>2 DEF Purges, Inv, WorldInv
  <2> QED BY <2>1, <2>2
<1>3. DOMAIN NoRow = RowFields /\ ~NoRow.write
  BY DEF NoRow, RowFields
<1>4. WorldInv' /\ ShutInv'
  BY <1>1, <1>2, <1>3 DEF Inv, WorldInv, ShutInv
<1>5. TasksInv' /\ \A u \in Tasks : ~Reloads(u)
  BY <1>1, IdleCarried, OneGoesOn DEF Inv
<1>6. RegistryInv' /\ UntouchedStep /\ ShutStep
  BY <1>1, <1>5, QuietStep DEF Inv
<1> QED BY <1>4, <1>5, <1>6 DEF Inv

-----------------------------------------------------------------------------
(* The start.                                                              *)

\* The registry of a start: the untouched routers as the file says, each on its
\* first connection, and no router whose switch the database holds closed.
LEMMA BootWants ==
    ASSUME NEW list, list = Boot(Loaded, hidden, readonly), WorldInv
    PROVE  \E wanted :
              /\ Fits(list, wanted) /\ NamesOf(list) = DOMAIN wanted
              /\ Untouched \subseteq DOMAIN wanted
              /\ \A f \in Untouched : /\ wanted[f].host = FileHost[f]
                                      /\ wanted[f].write = FileWrite[f]
              /\ \A o \in ToSet(list) : o.id = 1
              /\ \A n \in DOMAIN wanted :
                    wanted[n].write => IF n \in FileRouters THEN n \notin readonly
                                       ELSE n \in DbRouters /\ table[n].write
<1>1. PICK rows : rows = Loaded
  OBVIOUS
<1>2. DOMAIN rows \subseteq DbRouters /\ \A n \in DOMAIN rows : rows[n].write = table[n].write
  BY <1>1 DEF Loaded
<1>3. PICK wanted : wanted = Wanted(rows, hidden, readonly)
  OBVIOUS
<1>4. /\ DOMAIN wanted = (FileRouters \ hidden) \cup (DOMAIN rows \ hidden)
      /\ \A n \in FileRouters \ hidden :
             /\ wanted[n].host = FileHost[n]
             /\ wanted[n].write = (FileWrite[n] /\ n \notin readonly)
      /\ \A n \in (DOMAIN rows \ hidden) \ FileRouters : wanted[n] = rows[n]
  BY <1>3 DEF Wanted
<1>5. Fits(list, wanted) /\ NamesOf(list) = DOMAIN wanted
  BY <1>1, <1>2, <1>3, BootFits DEF Names
<1>6. Untouched \subseteq FileRouters \ hidden
  BY Unmanaged DEF WorldInv
<1>7. ASSUME NEW f \in Untouched
      PROVE  wanted[f].host = FileHost[f] /\ wanted[f].write = FileWrite[f]
  <2>1. f \in FileRouters \ hidden /\ f \notin readonly
    BY <1>6 DEF WorldInv
  <2>2. FileWrite[f] \in BOOLEAN
    BY <2>1, InventoryAssumption DEF InventoryAssumption
  <2>3. wanted[f].host = FileHost[f] /\ wanted[f].write = (FileWrite[f] /\ TRUE)
    BY <1>4, <2>1
  <2> QED BY <2>2, <2>3
<1>8. \A o \in ToSet(list) : o.id = 1
  <2>1. PICK order : order = WantedOrder(rows, wanted)
    OBVIOUS
  <2>2. list = [i \in DOMAIN order |-> [name |-> order[i], id |-> 1, host |-> wanted[order[i]].host,
                                        write |-> wanted[order[i]].write]]
    BY <1>1, <1>3, <2>1 DEF Boot, Opened
  <2> QED BY <2>2 DEF ToSet
<1>9. ASSUME NEW n \in DOMAIN wanted, wanted[n].write
      PROVE  IF n \in FileRouters THEN n \notin readonly ELSE n \in DbRouters /\ table[n].write
  <2>1. CASE n \in FileRouters
    <3>1. n \in FileRouters \ hidden
      BY <1>4, <2>1
    <3>2. wanted[n].write = (FileWrite[n] /\ n \notin readonly)
      BY <1>4, <3>1
    <3> QED BY <1>9, <2>1, <3>2
  <2>2. CASE n \notin FileRouters
    BY <1>2, <1>4, <1>9, <2>2
  <2> QED BY <2>1, <2>2
<1> QED BY <1>4, <1>5, <1>6, <1>7, <1>8, <1>9

LEMMA RestartsKeeps ==
    ASSUME Inv, Restarts
    PROVE  Inv' /\ UntouchedStep /\ ShutStep
<1>1. /\ muted' = readonly /\ task' = [t \in Tasks |-> Idle]
      /\ UNCHANGED <<table, hidden, readonly, tree, shut>>
      /\ registry' = Boot(Loaded, hidden, readonly)
  BY DEF Restarts, outside
<1>2. PICK list : list = registry'
  OBVIOUS
<1>3. PICK wanted :
              /\ Fits(list, wanted) /\ NamesOf(list) = DOMAIN wanted
              /\ Untouched \subseteq DOMAIN wanted
              /\ \A f \in Untouched : /\ wanted[f].host = FileHost[f]
                                      /\ wanted[f].write = FileWrite[f]
              /\ \A o \in ToSet(list) : o.id = 1
              /\ \A n \in DOMAIN wanted :
                    wanted[n].write => IF n \in FileRouters THEN n \notin readonly
                                       ELSE n \in DbRouters /\ table[n].write
  BY <1>1, <1>2, BootWants DEF Inv
<1>4. \A p \in ToSet(list) : p.name \in Untouched => p.id = [f \in Untouched |-> 1][p.name]
  BY <1>3
<1>5. /\ RegistryInv'
      /\ \A f \in Untouched : Carries(registry', f) /\ Entry(registry', f).write = FileWrite[f]
  BY <1>2, <1>3, <1>4, UntouchedFit
<1>6. UntouchedStep
  BY <1>1, <1>5 DEF UntouchedStep
<1>7. WorldInv' /\ ShutInv'
  BY <1>1 DEF Inv, WorldInv, ShutInv
<1>8. TasksInv'
  BY <1>1, IdleCarried DEF TasksInv
<1>9. \A n \in shut : ~Writable(registry', n)
  <2> SUFFICES ASSUME NEW n \in shut, NEW o \in ToSet(list), o.name = n PROVE ~o.write
    BY <1>2 DEF Writable, ToSet
  <2>1. n \in DOMAIN wanted /\ o.write = wanted[n].write
    BY <1>3 DEF Fits
  <2>2. IF n \in FileRouters THEN n \in readonly ELSE n \in DbRouters => ~table[n].write
    BY DEF Inv, ShutInv
  <2> QED BY <1>3, <2>1, <2>2
<1>10. ShutStep
  BY <1>9 DEF ShutStep
<1> QED BY <1>5, <1>6, <1>7, <1>8, <1>10 DEF Inv

LEMMA InitHolds == ASSUME Init PROVE Inv
<1>1. /\ hidden \subseteq Managed \cap FileRouters /\ readonly \subseteq Managed \cap FileRouters
      /\ muted = readonly /\ shut = readonly /\ task = [t \in Tasks |-> Idle]
      /\ registry = Boot(Loaded, hidden, readonly)
      /\ table \in [DbRouters -> {NoRow} \cup {[host |-> h, enabled |-> TRUE, write |-> w,
                                               readable |-> TRUE] : h \in Hosts, w \in BOOLEAN}]
  BY DEF Init
<1>2. WorldInv
  <2>1. \A n \in DbRouters : DOMAIN table[n] = RowFields
    BY <1>1 DEF NoRow, RowFields
  <2> QED BY <1>1, <2>1, Unmanaged DEF WorldInv
<1>3. ShutInv
  BY <1>1 DEF ShutInv
<1>4. TasksInv
  BY <1>1, IdleCarried DEF TasksInv
<1>5. PICK wanted :
              /\ Fits(registry, wanted) /\ NamesOf(registry) = DOMAIN wanted
              /\ Untouched \subseteq DOMAIN wanted
              /\ \A f \in Untouched : /\ wanted[f].host = FileHost[f]
                                      /\ wanted[f].write = FileWrite[f]
              /\ \A o \in ToSet(registry) : o.id = 1
  BY <1>1, <1>2, BootWants
<1>6. RegistryInv
  BY <1>5 DEF RegistryInv, Fits
<1> QED BY <1>2, <1>3, <1>4, <1>6 DEF Inv

-----------------------------------------------------------------------------
(* The theorems.                                                           *)

\* The phase of a task that takes the list of the registry.
LEMMA Phased ==
    ASSUME NEW v, Carried(v)
    PROVE  Discovering(v).phase = "reading" /\ Collecting(v).phase = "gather"
  BY DEF Discovering, Collecting, Carried, FrameFields

LEMMA SetupKeeps == ASSUME TasksInv, SetupInv, [Next]_vars PROVE SetupInv'
<1>1. Setup \in Tasks /\ DOMAIN task = Tasks /\ Setup \notin People
  BY InventoryAssumption DEF Tasks, TasksInv, InventoryAssumption
<1>2. CASE UNCHANGED vars
  BY <1>2 DEF vars, SetupInv
<1>3. ASSUME NEW t \in Tasks, ReadsMarks(t) \/ ReadsRows(t) PROVE SetupInv'
  <2>1. t # Setup
    BY <1>3, InventoryAssumption DEF ReadsMarks, ReadsRows, SetupInv, InventoryAssumption
  <2>2. task'[Setup] = task[Setup]
    BY <1>1, <1>3, <2>1 DEF ReadsMarks, ReadsRows
  <2> QED BY <2>2 DEF SetupInv
<1>4. ASSUME NEW t \in Tasks, Installs(t) PROVE SetupInv'
  <2>1. t # Setup
    BY <1>4 DEF Installs, SetupInv
  <2>2. task'[Setup] = [Idle EXCEPT !.phase = "check"] \/ task'[Setup] = Overtakes(Setup, Answered(t))
    BY <1>1, <1>4, <2>1 DEF Installs
  <2>3. [Idle EXCEPT !.phase = "check"].phase = "check"
    BY DEF Idle
  <2>4. Overtakes(Setup, Answered(t)) = task[Setup]
    BY DEF Overtakes, SetupInv
  <2> QED BY <2>2, <2>3, <2>4 DEF SetupInv
<1>5. ASSUME NEW t \in Tasks, NEW w, task' = [task EXCEPT ![t] = w],
             t = Setup => w.phase \notin {"marks", "rows", "install", "purge"}
      PROVE  SetupInv'
  <2>1. task'[Setup] = IF t = Setup THEN w ELSE task[Setup]
    BY <1>1, <1>5
  <2> QED BY <1>5, <2>1 DEF SetupInv
<1>6. ASSUME NEW t \in Tasks, Ends(t) PROVE SetupInv'
  BY <1>5, <1>6, IdleCarried DEF Ends
<1>7. ASSUME NEW t \in Tasks, NEW p, p \notin {"marks", "rows", "install", "purge"}, Goes(t, p)
      PROVE  SetupInv'
  <2>1. PICK w : w = [task[t] EXCEPT !.phase = p]
    OBVIOUS
  <2>2. w.phase = p
    BY <2>1, TaskCarried DEF Carried, FrameFields
  <2>3. task' = [task EXCEPT ![t] = w]
    BY <1>7, <2>1 DEF Goes
  <2> QED BY <1>5, <1>7, <2>2, <2>3
<1>8. ASSUME NEW t \in Tasks, NEW good, AfterCollect(t, good) PROVE SetupInv'
  <2>1. PICK v : v = [task[t] EXCEPT !.ok = task[t].ok /\ good]
    OBVIOUS
  <2>2. Carried(v)
    BY <2>1, TaskCarried DEF Carried, FrameFields
  <2>3. PICK w : w = IF t = Setup THEN Discovering(v) ELSE Idle
    OBVIOUS
  <2>4. w.phase \notin {"marks", "rows", "install", "purge"}
    BY <2>2, <2>3, Phased, IdleCarried
  <2>5. task' = [task EXCEPT ![t] = w]
    BY <1>8, <2>1, <2>3 DEF AfterCollect
  <2> QED BY <1>5, <2>4, <2>5
<1>9. ASSUME NEW t \in Tasks,
             Purges(t) \/ ReadsRouters(t) \/ SavesSnapshot(t) \/ ForgetsRemoved(t) \/ PairsAnswers(t)
      PROVE  SetupInv'
  <2>1. \/ Ends(t) \/ Goes(t, "saving") \/ Goes(t, "forgetting")
        \/ \E good : AfterCollect(t, good)
    BY <1>9 DEF Purges, ReadsRouters, SavesSnapshot, ForgetsRemoved, PairsAnswers,
                AfterDiscovery, Concludes
  <2> QED BY <1>6, <1>7, <1>8, <2>1
<1>10. ASSUME TopologyStarts \/ CollectStarts PROVE SetupInv'
  <2>1. CASE TopologyStarts
    <3>1. /\ "topology" \in Tasks
          /\ task' = [task EXCEPT !["topology"] = Discovering(task["topology"])]
      BY <2>1 DEF TopologyStarts, Tasks
    <3>2. Discovering(task["topology"]).phase = "reading"
      BY <3>1, TaskCarried, Phased
    <3> QED BY <1>5, <3>1, <3>2
  <2>2. CASE CollectStarts
    <3>1. /\ "subscribers" \in Tasks
          /\ task' = [task EXCEPT !["subscribers"] = Collecting(task["subscribers"])]
      BY <2>2 DEF CollectStarts, Tasks
    <3>2. Collecting(task["subscribers"]).phase = "gather"
      BY <3>1, TaskCarried, Phased
    <3> QED BY <1>5, <3>1, <3>2
  <2> QED BY <1>10, <2>1, <2>2
<1>11. ASSUME ChecksRouter \/ ChecksRights \/ TimesOut PROVE SetupInv'
  <2>1. PICK v : v = [task[Setup] EXCEPT !.blocked = ~Writable(registry, setup.router)]
    OBVIOUS
  <2>2. Carried(v)
    BY <1>1, <2>1, TaskCarried DEF Carried, FrameFields
  <2>3. Collecting(v).phase = "gather"
    BY <2>2, Phased
  <2>4. \/ Ends(Setup) \/ Goes(Setup, "rights") \/ \E good : AfterCollect(Setup, good)
        \/ task' = [task EXCEPT ![Setup] = Collecting(v)]
    BY <1>11, <2>1 DEF ChecksRouter, ChecksRights, TimesOut, Concludes, AfterDiscovery
  <2> QED BY <1>1, <1>5, <1>6, <1>7, <1>8, <2>3, <2>4
<1>12. ASSUME NEW p \in People, Asks(p) PROVE SetupInv'
  <2>1. PICK closing, starts, purges : Requests(p, closing, starts, purges)
    BY <1>12 DEF Asks, CreatesRouter, UpdatesRouter, DeletesRouter, HidesFileRouter,
                 RestoresFileRouter, SetsFileWrite
  <2>2. /\ p \in Tasks /\ p # Setup
        /\ task' = [task EXCEPT ![p] = [Idle EXCEPT !.phase = "marks", !.closing = closing,
                                                    !.starts = starts, !.purges = purges]]
    BY <1>1, <2>1, InventoryAssumption DEF Requests, Tasks, InventoryAssumption
  <2> QED BY <1>5, <2>2
<1>13. ASSUME DatabaseComesOrGoes \/ \E n \in Names : RouterComesOrGoes(n) \/ SecretLost(n)
       PROVE  SetupInv'
  BY <1>13 DEF DatabaseComesOrGoes, RouterComesOrGoes, SecretLost, SetupInv
<1>14. ASSUME Restarts PROVE SetupInv'
  BY <1>1, <1>14, IdleCarried DEF Restarts, SetupInv
<1>15. ASSUME NEW t \in Tasks, Proceeds(t) PROVE SetupInv'
  BY <1>3, <1>4, <1>9, <1>10, <1>11, <1>15 DEF Proceeds
<1> QED BY <1>2, <1>11, <1>12, <1>13, <1>14, <1>15 DEF Next

\* Every step keeps the invariant and does of the two properties what they say.
LEMMA NextX ==
    ASSUME Inv, SetupInv, [Next]_vars
    PROVE  Inv' /\ UntouchedStep /\ ShutStep
<1>1. CASE UNCHANGED vars
  <2>1. UNCHANGED <<table, hidden, readonly, tree, muted, registry, task, shut>>
    BY <1>1 DEF vars, outside, memory
  <2>2. WorldInv' /\ ShutInv'
    BY <2>1, WorldKept DEF Inv
  <2>3. TasksInv' /\ \A u \in Tasks : ~Reloads(u)
    BY <2>1 DEF Inv, TasksInv, Reloads
  <2>4. RegistryInv' /\ UntouchedStep /\ ShutStep
    BY <2>1, <2>3, QuietStep DEF Inv
  <2> QED BY <2>2, <2>3, <2>4 DEF Inv
<1>2. ASSUME NEW t \in Tasks, Proceeds(t) PROVE Inv' /\ UntouchedStep /\ ShutStep
  BY <1>2, ReadsMarksKeeps, ReadsRowsKeeps, InstallsKeeps, PurgesKeeps, DiscoverySteps,
     CollectSteps, StartSteps, SetupSteps DEF Proceeds
<1>3. ASSUME NEW p \in People, Asks(p) PROVE Inv' /\ UntouchedStep /\ ShutStep
  BY <1>3, RowRequests, MarkRequests DEF Asks
<1> QED BY <1>1, <1>2, <1>3, SetupSteps, EnvironmentSteps, RestartsKeeps DEF Next

LEMMA InvHolds == Spec => [](Inv /\ SetupInv)
<1>1. Init => Inv /\ SetupInv
  <2>1. Init => SetupInv
    BY IdleCarried DEF Init, SetupInv, Tasks
  <2> QED BY <2>1, InitHolds
<1>2. (Inv /\ SetupInv) /\ [Next]_vars => (Inv /\ SetupInv)'
  BY NextX, SetupKeeps DEF Inv
<1> QED BY <1>1, <1>2, PTL DEF Spec

\* Whatever people do to the other routers, whichever reload ends last and at
\* whichever await the database is lost, a file router nobody acts on stays in
\* the inventory, on its connection, written as its file says, with its box
\* (registry.py reload, topology.py forget_removed).
THEOREM UntouchedStays == Spec => UntouchedKept
<1>1. Inv /\ SetupInv /\ [Next]_vars =>
        [\A f \in Untouched :
          /\ IdOf(f)' = IdOf(f) \/ task' = [t \in Tasks |-> Idle]
          /\ Carries(registry', f) /\ Entry(registry', f).write = FileWrite[f]
          /\ f \in tree => f \in tree']_vars
  BY NextX DEF UntouchedStep
<1> QED BY <1>1, InvHolds, PTL DEF Spec, UntouchedKept

\* Once the closing of a write switch was answered and its mark was read, only a
\* reload that began before that answer opens the switch in memory again
\* (registry.py _read_only_names, routers_admin.py set_file_router_write).
THEOREM ShutHolds == Spec => ShutStaysShut
<1>1. Inv /\ SetupInv /\ [Next]_vars =>
        [\A n \in shut \cap shut' :
          /\ \A t \in Tasks : Reloads(t) /\ n \notin task[t].overtaken => ~Writable(registry', n)
          /\ Writable(registry', n) /\ ~Writable(registry, n)
                => \E t \in Tasks : Reloads(t) /\ n \in task[t].overtaken]_vars
  BY NextX DEF ShutStep
<1> QED BY <1>1, InvHolds, PTL DEF Spec, ShutStaysShut
=============================================================================
