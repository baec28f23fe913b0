-------------------------- MODULE CollectionProofs --------------------------
(* What holds of the rates for every network, every subscriber and every     *)
(* story: a counter is told from its neighbours', and two readings of it are *)
(* never further apart than what was sent between them.                      *)
EXTENDS Collection, FiniteSetTheorems, SequenceTheorems, WellFoundedInduction, TLAPS

(* Sequences: laid end to end (FlattenSeq), cut, and what they hold.        *)
\* A set of numbers that is not empty has a least one.
LEMMA LeastNumber ==
    ASSUME NEW S, S \subseteq Nat, S # {}
    PROVE  \E k \in S : \A j \in S : k <= j
<1>1. PICK k \in S : \A j \in S : ~(<<j, k>> \in OpToRel(<, Nat))
    BY NatLessThanWellFounded, WFMin
<1>2. \A j \in S : ~(j < k)
    BY <1>1 DEF OpToRel
<1>3. \A j \in S : k <= j
    BY <1>2
<1> QED
    BY <1>3

\* Sequences laid end to end: the result is the last of a chain, each link of
\* which adds one sequence to the link before.
LEMMA FlattenSteps ==
    ASSUME NEW ss, Len(ss) \in Nat, Len(ss) # 0
    PROVE  \E f : /\ f[1] = ss[1]
                  /\ \A n \in 2..Len(ss) : f[n] = f[n - 1] \o ss[n]
                  /\ FlattenSeq(ss) = f[Len(ss)]
<1>1. PICK N : N = Len(ss) /\ N \in Nat /\ N # 0
    OBVIOUS
<1> DEFINE Chain(g, n) == g = [i \in 1..n |-> IF i = 1 THEN ss[i] ELSE g[i - 1] \o ss[i]]
           lacking == {n \in 1..N : ~\E g : Chain(g, n)}
<1> HIDE DEF Chain
<1>2. lacking = {}
    <2> SUFFICES ASSUME lacking # {} PROVE FALSE
        OBVIOUS
    <2>1. lacking \subseteq Nat
        BY <1>1
    <2> HIDE DEF lacking
    <2>2. PICK n \in lacking : \A j \in lacking : n <= j
        BY <2>1, LeastNumber
    <2> USE DEF lacking
    <2>3. n # 1
        <3> DEFINE g == [i \in 1..1 |-> ss[i]]
        <3>1. Chain(g, 1)
            BY DEF Chain
        <3> HIDE DEF g
        <3> QED
            BY <3>1
    <2>4. n \in 2..N /\ n - 1 \notin lacking /\ n - 1 \in 1..N
        <3>1. n \in 1..N
            OBVIOUS
        <3> HIDE DEF lacking
        <3> QED
            BY <1>1, <2>2, <2>3, <3>1
    <2>5. PICK g : Chain(g, n - 1)
        BY <2>4
    <2> DEFINE h == [i \in 1..n |-> IF i = n THEN g[n - 1] \o ss[n] ELSE g[i]]
    <2>6. \A i \in 1..(n - 1) : g[i] = IF i = 1 THEN ss[i] ELSE g[i - 1] \o ss[i]
        <3> HIDE DEF lacking
        <3>1. g = [i \in 1..(n - 1) |-> IF i = 1 THEN ss[i] ELSE g[i - 1] \o ss[i]]
            BY <2>5 DEF Chain
        <3> QED
            BY <3>1
    <2>7. \A i \in 1..n : h[i] = IF i = 1 THEN ss[i] ELSE h[i - 1] \o ss[i]
        <3> HIDE DEF lacking
        <3>1. n \in Nat /\ n > 1 /\ n \in 1..n /\ n - 1 \in 1..n /\ n - 1 # n
            BY <1>1, <2>4
        <3>2. h[n] = g[n - 1] \o ss[n] /\ h[n - 1] = g[n - 1]
            BY <3>1
        <3>3. ASSUME NEW i \in 1..(n - 1)
              PROVE  h[i] = IF i = 1 THEN ss[i] ELSE h[i - 1] \o ss[i]
            <4>1. h[i] = g[i] /\ (i # 1 => h[i - 1] = g[i - 1])
                BY <3>1, <3>3
            <4> HIDE DEF h
            <4> QED
                BY <2>6, <4>1
        <3> HIDE DEF h
        <3>4. \A i \in 1..n : i = n \/ i \in 1..(n - 1)
            BY <3>1
        <3>5. n # 1
            BY <3>1
        <3> QED
            BY <3>2, <3>3, <3>4, <3>5
    <2>8. h = [i \in 1..n |-> h[i]]
        OBVIOUS
    <2>9. h = [i \in 1..n |-> IF i = 1 THEN ss[i] ELSE h[i - 1] \o ss[i]]
        <3> HIDE DEF h, lacking
        <3> QED
            BY <2>7, <2>8
    <2>10. Chain(h, n)
        BY <2>9 DEF Chain
    <2> HIDE DEF h
    <2> QED
        BY <2>10
<1> DEFINE f == CHOOSE g : Chain(g, N)
<1>3. Chain(f, N)
    <2>1. \E g : Chain(g, N)
        BY <1>1, <1>2
    <2> QED
        BY <2>1
<1>4. FlattenSeq(ss) = f[N]
    BY <1>1 DEF FlattenSeq, Chain
<1> HIDE DEF f
<1>5. \A i \in 1..N : f[i] = IF i = 1 THEN ss[i] ELSE f[i - 1] \o ss[i]
    <2>1. f = [i \in 1..N |-> IF i = 1 THEN ss[i] ELSE f[i - 1] \o ss[i]]
        BY <1>3 DEF Chain
    <2> QED
        BY <2>1
<1>6. 1 \in 1..N /\ \A n \in 2..N : n \in 1..N /\ n # 1
    BY <1>1
<1>7. f[1] = ss[1] /\ \A n \in 2..N : f[n] = f[n - 1] \o ss[n]
    BY <1>5, <1>6
<1> QED
    BY <1>1, <1>4, <1>7

LEMMA ConcatParts ==
    ASSUME NEW T, NEW s \in Seq(T), NEW u \in Seq(T)
    PROVE  s \o u \in Seq(T) /\ ToSet(s \o u) = ToSet(s) \cup ToSet(u)
<1>1. /\ s \o u \in Seq(T) /\ Len(s \o u) = Len(s) + Len(u)
      /\ \A i \in 1..Len(s) + Len(u) : (s \o u)[i] = IF i <= Len(s) THEN s[i] ELSE u[i - Len(s)]
    BY ConcatProperties
<1>2. ToSet(s \o u) \subseteq ToSet(s) \cup ToSet(u)
    BY <1>1 DEF ToSet
<1>3. ASSUME NEW i \in 1..Len(s) PROVE s[i] \in ToSet(s \o u)
    <2>1. i \in 1..Len(s \o u) /\ (s \o u)[i] = s[i]
        BY <1>1
    <2> QED
        BY <1>1, <2>1 DEF ToSet
<1>4. ASSUME NEW i \in 1..Len(u) PROVE u[i] \in ToSet(s \o u)
    <2>1. i + Len(s) \in 1..Len(s \o u) /\ (s \o u)[i + Len(s)] = u[i]
        BY <1>1
    <2>2. DOMAIN (s \o u) = 1..Len(s \o u)
        BY <1>1
    <2> QED
        BY <2>1, <2>2 DEF ToSet
<1>5. ToSet(s) \subseteq ToSet(s \o u) /\ ToSet(u) \subseteq ToSet(s \o u)
    <2>1. DOMAIN s = 1..Len(s) /\ DOMAIN u = 1..Len(u)
        OBVIOUS
    <2>2. ToSet(s) = {s[i] : i \in 1..Len(s)} /\ ToSet(u) = {u[i] : i \in 1..Len(u)}
        BY <2>1 DEF ToSet
    <2> QED
        BY <1>3, <1>4, <2>2
<1> QED
    BY <1>1, <1>2, <1>5

\* Sequences laid end to end hold what each of them holds.
LEMMA Flattened ==
    ASSUME NEW T, NEW ss \in Seq(Seq(T))
    PROVE  /\ FlattenSeq(ss) \in Seq(T)
           /\ ToSet(FlattenSeq(ss)) = UNION {ToSet(ss[i]) : i \in DOMAIN ss}
<1>1. CASE Len(ss) = 0
    <2>1. ss = <<>>
        BY <1>1, EmptySeq
    <2>2. FlattenSeq(ss) = <<>>
        BY <1>1, <2>1 DEF FlattenSeq
    <2>3. <<>> \in Seq(T) /\ DOMAIN ss = {} /\ ToSet(<<>>) = {}
        BY <2>1 DEF ToSet
    <2> QED
        BY <2>2, <2>3
<1>2. CASE Len(ss) # 0
    <2>1. PICK N : N = Len(ss) /\ N \in Nat /\ N # 0 /\ DOMAIN ss = 1..N
        BY <1>2
    <2>2. PICK f : /\ f[1] = ss[1]
                   /\ \A n \in 2..N : f[n] = f[n - 1] \o ss[n]
                   /\ FlattenSeq(ss) = f[N]
        BY <2>1, FlattenSteps
    <2> DEFINE Good(n) == f[n] \in Seq(T) /\ ToSet(f[n]) = UNION {ToSet(ss[i]) : i \in 1..n}
               lacking == {n \in 1..N : ~Good(n)}
    <2>3. lacking = {}
        <3> SUFFICES ASSUME lacking # {} PROVE FALSE
            OBVIOUS
        <3>1. lacking \subseteq Nat
            BY <2>1
        <3> HIDE DEF lacking
        <3>2. PICK n \in lacking : \A j \in lacking : n <= j
            BY <3>1, LeastNumber
        <3>3. n \in 1..N /\ ~Good(n) /\ (n - 1 \in 1..N => Good(n - 1))
            <4> HIDE DEF Good
            <4>1. n \in 1..N /\ ~Good(n)
                BY DEF lacking
            <4>2. ASSUME n - 1 \in 1..N, ~Good(n - 1) PROVE FALSE
                <5>1. n - 1 \in lacking
                    BY <4>2 DEF lacking
                <5>2. n <= n - 1
                    BY <3>2, <5>1
                <5> QED
                    BY <2>1, <4>1, <5>2
            <4> QED
                BY <4>1, <4>2
        <3>4. Good(1)
            <4>1. ss[1] \in Seq(T) /\ 1..1 = {1}
                BY <2>1
            <4> QED
                BY <2>2, <4>1
        <3>5. CASE n # 1
            <4> HIDE DEF Good
            <4>5. n \in 2..N /\ n - 1 \in 1..N
                BY <2>1, <3>3, <3>5
            <4>6. ss[n] \in Seq(T)
                BY <2>1, <3>3
            <4>1. n \in 2..N /\ Good(n - 1) /\ ss[n] \in Seq(T) /\ f[n] = f[n - 1] \o ss[n]
                BY <2>2, <3>3, <4>5, <4>6
            <4> USE DEF Good
            <4>2. 1..n = (1..(n - 1)) \cup {n}
                BY <2>1, <4>1
            <4>3. f[n] \in Seq(T) /\ ToSet(f[n]) = ToSet(f[n - 1]) \cup ToSet(ss[n])
                BY <4>1, ConcatParts
            <4>4. UNION {ToSet(ss[i]) : i \in 1..n}
                  = (UNION {ToSet(ss[i]) : i \in 1..(n - 1)}) \cup ToSet(ss[n])
                BY <4>2
            <4> QED
                BY <3>3, <4>1, <4>3, <4>4
        <3> HIDE DEF Good
        <3> QED
            BY <3>3, <3>4, <3>5
    <2>4. Good(N)
        <3> HIDE DEF Good
        <3> QED
            BY <2>1, <2>3
    <2> QED
        BY <2>1, <2>2, <2>4
<1> QED
    BY <1>1, <1>2


LEMMA SomeRows == ASSUME NEW T, NEW s \in Seq(T) PROVE List(s)
<1>1. Len(s) \in Nat /\ DOMAIN s = 1..Len(s) /\ s = [i \in 1..Len(s) |-> s[i]]
    OBVIOUS
<1>2. \A i \in 1..Len(s) : s[i] \in ToSet(s)
    BY <1>1 DEF ToSet
<1>3. s \in [1..Len(s) -> ToSet(s)]
    BY <1>1, <1>2
<1> QED
    BY <1>1, <1>3, SeqDef DEF List

\* What a selection brings: the image of what passes the test.
Picks(ss, n, I, f) == n \in Nat /\ ss = [i \in 1..n |-> IF i \in I THEN <<f[i]>> ELSE <<>>]

LEMMA Picked ==
    ASSUME NEW n, NEW I, NEW f, NEW ss, Picks(ss, n, I, f)
    PROVE  /\ List(FlattenSeq(ss))
           /\ ToSet(FlattenSeq(ss)) = {f[i] : i \in I \cap 1..n}
<1> DEFINE T == {f[i] : i \in I \cap 1..n}
<1>0. /\ n \in Nat /\ ss = [i \in 1..n |-> ss[i]]
      /\ \A i \in 1..n : ss[i] = IF i \in I THEN <<f[i]>> ELSE <<>>
    BY DEF Picks
<1>1. \A i \in 1..n : ss[i] \in Seq(T) /\ ToSet(ss[i]) = IF i \in I THEN {f[i]} ELSE {}
    <2> SUFFICES ASSUME NEW i \in 1..n
                 PROVE  ss[i] \in Seq(T) /\ ToSet(ss[i]) = IF i \in I THEN {f[i]} ELSE {}
        OBVIOUS
    <2>1. CASE i \in I
        <3>1. f[i] \in T /\ ss[i] = <<f[i]>>
            BY <1>0, <2>1
        <3> HIDE DEF T
        <3>2. Len(<<f[i]>>) = 1 /\ <<f[i]>>[1] = f[i] /\ DOMAIN <<f[i]>> = {1}
            OBVIOUS
        <3>3. <<f[i]>> \in Seq(T)
            BY <3>1
        <3>4. ToSet(<<f[i]>>) = {f[i]}
            BY <3>2 DEF ToSet
        <3> QED
            BY <2>1, <3>1, <3>3, <3>4
    <2>2. CASE i \notin I
        <3>1. ss[i] = <<>>
            BY <1>0, <2>2
        <3> HIDE DEF T
        <3> QED
            BY <2>2, <3>1 DEF ToSet
    <2> QED
        BY <2>1, <2>2
<1> HIDE DEF T
<1>2. ss \in Seq(Seq(T)) /\ DOMAIN ss = 1..n
    <2>1. ss \in [1..n -> Seq(T)]
        BY <1>0, <1>1
    <2> QED
        BY <1>0, <2>1, SeqDef
<1>3. FlattenSeq(ss) \in Seq(T)
      /\ ToSet(FlattenSeq(ss)) = UNION {ToSet(ss[i]) : i \in 1..n}
    BY <1>2, Flattened
<1>4. UNION {ToSet(ss[i]) : i \in 1..n} = T
    BY <1>1 DEF T
<1> QED
    BY <1>3, <1>4, SomeRows DEF T

-----------------------------------------------------------------------------
(* Which counter counts a subscriber, as the code chooses it among the      *)
(* queues D that a file shows (counters_for, measured, vlan_counters).      *)
\* What no record, function or sequence is.
NotAFunction(x) == x # [e \in DOMAIN x |-> x[e]]

\* Where the client is declared, and the queues there are on a router.
Home(s) == HomeOf(s, collectors)
Present(r) == {t \in Targets : QueueRouter[t] = r /\ queue[t] # None}
\* The client's own queues in the order they are tried, the first that is there.
Own(s) == <<Clients[s].address>> \o Clients[s].extra
Hit(list, D) == {j \in 1..Len(list) : list[j] \in D}
Pick(list, D) == list[Earliest(Hit(list, D))]
\* The queues around the address, below the network of the interface i, and the
\* one taken for a client that has i alone: a network's, its own, the narrowest.
Fit(s, i, D) ==
    {t \in D : /\ Clients[s].address \in Within[t]
               /\ IF NetworkFor(Ports[i], Clients[s]) = None THEN t \notin Aggregates
                  ELSE t \in Within[NetworkFor(Ports[i], Clients[s])]}
Narrowest(s, i, D) == CHOOSE t \in Fit(s, i, D) : \A u \in Fit(s, i, D) : t \in Within[u]
Some(s, i, D) == Hit(Ports[i].networks, D) # {} \/ Hit(Own(s), D) # {} \/ Fit(s, i, D) # {}
Choice(s, i, D) ==
    IF Hit(Ports[i].networks, D) # {} THEN Pick(Ports[i].networks, D)
    ELSE IF Hit(Own(s), D) # {} THEN Pick(Own(s), D) ELSE Narrowest(s, i, D)

\* Nobody else is declared on its VLAN; nobody else's traffic goes to the queue;
\* i is the only interface of its VLAN on the router.
Alone(s) == \A x \in Members(Clients[s].vlan) : x = s \/ declared[x] = None
Owns(s, t) ==
    \A x \in Holders(t) : x = s \/ (x \in Members(Clients[s].vlan) /\ declared[x] = None)
Sole(s, r, i) ==
    i \in DOMAIN Ports /\ {j \in DOMAIN Ports : Ports[j].router = r /\ Ports[j].tag = Clients[s].vlan} = {i}

LEMMA Hits ==
    ASSUME NEW list, List(list), NEW D, Hit(list, D) # {}
    PROVE  /\ Earliest(Hit(list, D)) \in 1..Len(list)
           /\ Pick(list, D) \in D \cap ToSet(list)
<1>1. Hit(list, D) \subseteq Nat /\ DOMAIN list = 1..Len(list)
  BY DEF Hit, List
<1>2. \E k \in Hit(list, D) : \A j \in Hit(list, D) : k <= j
  BY <1>1, LeastNumber
<1>3. Earliest(Hit(list, D)) \in Hit(list, D)
  BY <1>2 DEF Earliest
<1> QED BY <1>1, <1>3 DEF Pick, ToSet, Hit

LEMMA AtIs ==
    ASSUME NEW list, NEW files
    PROVE  At(files, list) = IF Hit(list, DOMAIN files) = {} THEN None
                             ELSE files[Pick(list, DOMAIN files)]
  BY DEF At, Hit, Pick

LEMMA HitLocal ==
    ASSUME NEW list, List(list), NEW D, NEW W, ToSet(list) \cap D \subseteq W
    PROVE  Hit(list, D) = Hit(list, D \cap W) /\ Pick(list, D) = Pick(list, D \cap W)
<1>1. \A j \in 1..Len(list) : list[j] \in ToSet(list)
  BY DEF List, ToSet
<1>2. Hit(list, D) = Hit(list, D \cap W)
  BY <1>1 DEF Hit
<1> QED BY <1>2 DEF Pick

LEMMA OwnList ==
    ASSUME Deployment, NEW s \in Statics
    PROVE  List(Own(s)) /\ ToSet(Own(s)) = {Clients[s].address} \cup ToSet(Clients[s].extra)
<1> DEFINE T == {Clients[s].address} \cup ToSet(Clients[s].extra)
<1>1. Clients[s].extra \in Seq(T)
  BY SeqMonotonic DEF Deployment, Typed, List
<1>2. <<Clients[s].address>> \in Seq(T) /\ ToSet(<<Clients[s].address>>) = {Clients[s].address}
  BY DEF ToSet
<1> HIDE DEF T
<1>3. PICK u : u = <<Clients[s].address>> /\ u \in Seq(T) /\ ToSet(u) = {Clients[s].address}
  BY <1>2
<1>4. PICK v : v = Clients[s].extra /\ v \in Seq(T)
  BY <1>1
<1>5. u \o v \in Seq(T) /\ ToSet(u \o v) = ToSet(u) \cup ToSet(v)
  BY <1>3, <1>4, ConcatParts
<1>6. Own(s) = u \o v
  BY <1>3, <1>4 DEF Own
<1>7. List(Own(s))
  BY <1>5, <1>6, SomeRows
<1> QED BY <1>3, <1>4, <1>5, <1>6, <1>7 DEF T

LEMMA OwnWatched ==
    ASSUME Deployment, NEW s \in Statics
    PROVE  ToSet(Own(s)) \cap Targets \subseteq Watched(s)
<1> SUFFICES ASSUME NEW t \in ToSet(Own(s)), t \in Targets PROVE t \in Watched(s)
  OBVIOUS
<1>1. t = Clients[s].address \/ t \in ToSet(Clients[s].extra)
  BY OwnList
<1>2. t \in Within[t]
  BY DEF Deployment, Typed
<1> QED BY <1>1, <1>2 DEF Watched

LEMMA FitWatched ==
    ASSUME NEW s \in Statics, NEW i, NEW D, D \subseteq Targets
    PROVE  Fit(s, i, D) = Fit(s, i, D \cap Watched(s)) /\ Fit(s, i, D) \subseteq Watched(s)
  BY DEF Fit, Watched

\* What is chosen is among the queues watched, and depends on no other.
LEMMA ChoiceLocal ==
    ASSUME Deployment, NEW s \in Statics, NEW i \in DOMAIN Ports, Ports[i].tag = Clients[s].vlan,
           NEW D, D \subseteq Targets
    PROVE  /\ Some(s, i, D) <=> Some(s, i, D \cap Watched(s))
           /\ Choice(s, i, D) = Choice(s, i, D \cap Watched(s))
           /\ Some(s, i, D) => Choice(s, i, D) \in D \cap Watched(s)
<1> DEFINE N == Ports[i].networks
           W == Watched(s)
<1>1. List(N) /\ List(Own(s))
  BY OwnList DEF Deployment, Typed
<1>2. ToSet(N) \cap D \subseteq W /\ ToSet(Own(s)) \cap D \subseteq W
  BY OwnWatched DEF Watched
<1>3. /\ Hit(N, D) = Hit(N, D \cap W) /\ Pick(N, D) = Pick(N, D \cap W)
      /\ Hit(Own(s), D) = Hit(Own(s), D \cap W) /\ Pick(Own(s), D) = Pick(Own(s), D \cap W)
  BY <1>1, <1>2, HitLocal
<1>4. Fit(s, i, D) = Fit(s, i, D \cap W) /\ Fit(s, i, D) \subseteq W
  BY FitWatched
<1>5. Narrowest(s, i, D) = Narrowest(s, i, D \cap W)
  BY <1>4 DEF Narrowest
<1>6. Fit(s, i, D) # {} => Narrowest(s, i, D) \in Fit(s, i, D)
  <2>1. Fit(s, i, D) \subseteq {t \in Targets : Clients[s].address \in Within[t]}
    BY DEF Fit
  <2>2. Fit(s, i, D) # {} => \E t \in Fit(s, i, D) : \A u \in Fit(s, i, D) : t \in Within[u]
    BY <2>1 DEF Deployment, Nested
  <2> QED BY <2>2 DEF Narrowest
<1>7. /\ Hit(N, D) # {} => Pick(N, D) \in D \cap ToSet(N)
      /\ Hit(Own(s), D) # {} => Pick(Own(s), D) \in D \cap ToSet(Own(s))
  BY <1>1, Hits
<1>8. Fit(s, i, D) \subseteq D
  BY DEF Fit
<1> HIDE DEF N, W
<1>9. Some(s, i, D) <=> Some(s, i, D \cap W)
  BY <1>3, <1>4 DEF Some, N
<1>10. Choice(s, i, D) = Choice(s, i, D \cap W)
  BY <1>3, <1>5 DEF Choice, N
<1>11. Some(s, i, D) => Choice(s, i, D) \in D \cap W
  BY <1>2, <1>4, <1>6, <1>7, <1>8 DEF Some, Choice, N
<1> QED BY <1>9, <1>10, <1>11 DEF W

LEMMA PlainLocal ==
    ASSUME Deployment, NEW s \in Statics, NEW D, D \subseteq Targets
    PROVE  /\ Hit(Own(s), D) = Hit(Own(s), D \cap Watched(s))
           /\ Pick(Own(s), D) = Pick(Own(s), D \cap Watched(s))
           /\ Hit(Own(s), D) # {} => Pick(Own(s), D) \in D \cap Watched(s) \cap ToSet(Own(s))
<1>1. List(Own(s)) /\ ToSet(Own(s)) \cap D \subseteq Watched(s)
  BY OwnList, OwnWatched
<1>2. /\ Hit(Own(s), D) = Hit(Own(s), D \cap Watched(s))
      /\ Pick(Own(s), D) = Pick(Own(s), D \cap Watched(s))
  BY <1>1, HitLocal
<1>3. Hit(Own(s), D) # {} => Pick(Own(s), D) \in D \cap ToSet(Own(s))
  BY <1>1, Hits
<1> QED BY <1>1, <1>2, <1>3

LEMMA OwnsPlain ==
    ASSUME Deployment, NEW s \in Statics, NEW t \in Targets, t \in ToSet(Own(s))
    PROVE  Owns(s, t)
<1>1. Holders(t) \subseteq {s}
  BY OwnList DEF Deployment, AddressesTellApart
<1> QED BY <1>1 DEF Owns

LEMMA OwnsChoice ==
    ASSUME Deployment, NEW s \in Statics, NEW i \in DOMAIN Ports, Ports[i].tag = Clients[s].vlan,
           ~Ports[i].pppoe, Alone(s), NEW D, D \subseteq Targets, Some(s, i, D)
    PROVE  Owns(s, Choice(s, i, D))
<1> DEFINE N == Ports[i].networks
           t == Choice(s, i, D)
           net == NetworkFor(Ports[i], Clients[s])
<1>0. s \in Members(Ports[i].tag) /\ Members(Ports[i].tag) = Members(Clients[s].vlan)
  BY DEF Members
<1>1. ASSUME Holders(t) \subseteq Members(Clients[s].vlan) PROVE Owns(s, t)
  BY <1>1 DEF Owns, Alone
<1>2. t \in Targets
  BY ChoiceLocal
<1>3. List(N) /\ List(Own(s)) /\ None \notin ToSet(N)
  BY OwnList DEF Deployment, Typed
<1>4. CASE Hit(N, D) # {}
  <2>1. t \in ToSet(N)
    BY <1>3, <1>4, Hits DEF Choice
  <2>2. N # <<>>
    BY <2>1 DEF ToSet
  <2> HIDE DEF t, N
  <2>3. \E n \in ToSet(N) : t = n \/ t \in Within[n]
    BY <2>1
  <2>4. Holders(t) \subseteq Members(Ports[i].tag)
    BY <1>0, <1>2, <2>2, <2>3 DEF Deployment, VlansTellApart, N
  <2> QED BY <1>0, <1>1, <2>4 DEF t
<1>5. CASE Hit(N, D) = {} /\ Hit(Own(s), D) # {}
  <2>1. t \in ToSet(Own(s))
    BY <1>3, <1>5, Hits DEF Choice
  <2> QED BY <1>2, <2>1, OwnsPlain
<1>6. CASE Hit(N, D) = {} /\ Hit(Own(s), D) = {}
  <2>1. t = Narrowest(s, i, D) /\ Fit(s, i, D) # {}
    BY <1>6 DEF Choice, Some
  <2>2. Fit(s, i, D) \subseteq {u \in Targets : Clients[s].address \in Within[u]}
    BY DEF Fit
  <2>3. \E u \in Fit(s, i, D) : \A v \in Fit(s, i, D) : u \in Within[v]
    BY <2>1, <2>2 DEF Deployment, Nested
  <2>4. t \in Fit(s, i, D)
    BY <2>1, <2>3 DEF Narrowest
  <2>5. CASE N = <<>>
    <3>1. net = None
      <4>1. {j \in 1..Len(N) : Clients[s].address \in Within[N[j]]} = {}
        BY <2>5
      <4> QED BY <2>5, <4>1 DEF NetworkFor
    <3>2. t \notin Aggregates /\ Clients[s].address \in Within[t]
      BY <2>4, <3>1 DEF Fit
    <3> HIDE DEF t, N
    <3>3. Holders(t) \subseteq Members(Ports[i].tag)
      BY <1>0, <1>2, <2>5, <3>2 DEF Deployment, VlansTellApart, N
    <3> QED BY <1>0, <1>1, <3>3 DEF t
  <2>6. CASE N # <<>>
    <3>1. net \in ToSet(N)
      <4> DEFINE I == {j \in 1..Len(N) : Clients[s].address \in Within[N[j]]}
      <4>1. net = IF I # {} THEN N[Earliest(I)] ELSE IF N = <<>> THEN None ELSE N[1]
        BY DEF NetworkFor
      <4>2. DOMAIN N = 1..Len(N) /\ Len(N) \in Nat /\ (N # <<>> => 1 \in 1..Len(N))
        BY <1>3, EmptySeq DEF List
      <4>3. I # {} => Earliest(I) \in I
        <5>1. I \subseteq Nat
          OBVIOUS
        <5> HIDE DEF I
        <5>2. I # {} => \E k \in I : \A j \in I : k <= j
          BY <5>1, LeastNumber
        <5> QED BY <5>2 DEF Earliest
      <4>4. I \subseteq DOMAIN N
        BY <4>2
      <4> HIDE DEF I, N, net
      <4> QED BY <2>6, <4>1, <4>2, <4>3, <4>4 DEF ToSet
    <3>2. net # None
      BY <1>3, <3>1
    <3>3. t \in Within[net]
      BY <2>4, <3>2 DEF Fit
    <3> HIDE DEF t, N, net
    <3>4. Holders(t) \subseteq Members(Ports[i].tag)
      BY <1>0, <1>2, <2>6, <3>1, <3>3 DEF Deployment, VlansTellApart, N
    <3> QED BY <1>0, <1>1, <3>4 DEF t
  <2> QED BY <2>5, <2>6
<1> QED BY <1>4, <1>5, <1>6

-----------------------------------------------------------------------------
(* The network and the inventory: what any step may do to what counts a     *)
(* subscriber that nothing befalls, that is, whose shifts stay.             *)
Sess(a, u, n) == [address |-> a, up |-> u, count |-> n]

\* A session has its own address; what counts is numbers.
WorldOk ==
    /\ DOMAIN session = Logins
    /\ \A l \in Logins : session[l] # None =>
          \E a \in AddressesOf[l], n \in Nat : \E u : session[l] = Sess(a, u, n)
    /\ \A l, m \in Logins :
          session[l] # None /\ session[m] # None /\ session[l].address = session[m].address => l = m
    /\ queue \in [Targets -> Nat \cup {None}] /\ port \in [DOMAIN Ports -> Nat]
    /\ DOMAIN declared = Statics /\ collectors \in RouterLists
    /\ sent \in [Subjects -> Nat] /\ shifts \in [Subjects -> Nat]

\* What counts a client stays, and counts for it no more than it sends.
Steady(s) ==
    /\ Home(s)' = Home(s)
    /\ \A t \in Watched(s) : queue'[t] = None <=> queue[t] = None
    /\ \A x \in Members(Clients[s].vlan) : declared'[x] = None <=> declared[x] = None
    /\ \A t \in Watched(s) : queue[t] # None =>
          queue[t] <= queue'[t] /\ (Owns(s, t) => queue'[t] - queue[t] <= sent'[s] - sent[s])
    /\ \A i \in DOMAIN Ports :
          /\ port[i] <= port'[i]
          /\ Alone(s) /\ Ports[i].tag = Clients[s].vlan => port'[i] - port[i] <= sent'[s] - sent[s]

SteadyLogin(l) ==
    /\ session'[l] # None /\ session'[l].address = session[l].address
    /\ session'[l].count - session[l].count <= sent'[l] - sent[l]
    /\ session[l].address \in Targets /\ queue[session[l].address] # None =>
          /\ queue'[session[l].address] # None
          /\ queue[session[l].address] <= queue'[session[l].address]
          /\ queue'[session[l].address] - queue[session[l].address] <= sent'[l] - sent[l]

\* What every step is.
WorldStep ==
    /\ WorldOk'
    /\ \A x \in Subjects : shifts[x] <= shifts'[x] /\ sent[x] <= sent'[x]
    /\ \A s \in Statics : shifts'[s] = shifts[s] => Steady(s)
    /\ \A l \in Logins : shifts'[l] = shifts[l] =>
          IF session[l] = None THEN session'[l] = None ELSE SteadyLogin(l)
    /\ \A i \in DOMAIN Ports : port[i] <= port'[i]

LEMMA SubjectsSplit == Logins \subseteq Subjects /\ Statics \subseteq Subjects /\ Logins \cap Statics = {}
  BY CollectionAssumption DEF Subjects

LEMMA SessionFields ==
    ASSUME WorldOk, NEW l \in Logins, session[l] # None
    PROVE  /\ session[l].address \in AddressesOf[l] /\ session[l].count \in Nat
           /\ DOMAIN session[l] = {"address", "up", "count"}
           /\ session[l] = Sess(session[l].address, session[l].up, session[l].count)
<1>0. PICK a \in AddressesOf[l], n \in Nat : \E u : session[l] = Sess(a, u, n)
  BY DEF WorldOk
<1>1. PICK u : session[l] = Sess(a, u, n)
  BY <1>0
<1>2. session[l].address = a /\ session[l].up = u /\ session[l].count = n
  BY <1>1 DEF Sess
<1> QED BY <1>1, <1>2 DEF Sess

LEMMA SessThere == ASSUME NotAFunction(None), NEW a, NEW u, NEW n PROVE Sess(a, u, n) # None
  BY DEF NotAFunction, Sess

\* A step that moves nothing of the network.
LEMMA SteadyStays ==
    ASSUME Deployment, WorldOk, queue' = queue, port' = port, declared' = declared,
           collectors' = collectors, sent' = sent, shifts' = shifts, session' = session
    PROVE  WorldStep
<1>1. WorldOk'
  BY DEF WorldOk
<1>2. \A s \in Statics : Steady(s)
  <2> SUFFICES ASSUME NEW s \in Statics PROVE Steady(s)
    OBVIOUS
  <2>1. Home(s)' = Home(s)
    BY DEF Home
  <2>2. \A t \in Watched(s) : queue[t] # None => queue[t] \in Nat
    BY DEF WorldOk, Watched
  <2>3. sent[s] \in Nat /\ \A i \in DOMAIN Ports : port[i] \in Nat
    BY SubjectsSplit DEF WorldOk
  <2> QED BY <2>1, <2>2, <2>3 DEF Steady
<1>3. \A l \in Logins : session[l] # None => SteadyLogin(l)
  <2> SUFFICES ASSUME NEW l \in Logins, session[l] # None PROVE SteadyLogin(l)
    OBVIOUS
  <2>1. session[l].count \in Nat /\ sent[l] \in Nat
    BY SessionFields, SubjectsSplit DEF WorldOk
  <2>2. session[l].address \in Targets /\ queue[session[l].address] # None
        => queue[session[l].address] \in Nat
    BY DEF WorldOk
  <2> QED BY <2>1, <2>2 DEF SteadyLogin
<1>4. \A x \in Subjects : shifts[x] <= shifts'[x] /\ sent[x] <= sent'[x]
  BY DEF WorldOk
<1>5. \A i \in DOMAIN Ports : port[i] <= port'[i]
  BY DEF WorldOk
<1> QED BY <1>1, <1>2, <1>3, <1>4, <1>5 DEF WorldStep

LEMMA SteadyStarts ==
    ASSUME Deployment, NotAFunction(None), WorldOk, NEW d, Starts(d)
    PROVE  WorldStep
<1>0. /\ queue' = queue /\ port' = port /\ declared' = declared
      /\ collectors' = collectors /\ sent' = sent /\ shifts' = shifts
  BY DEF Starts, tables, ghosts
<1>1. session' = [l \in Logins |-> IF session[l] = None THEN None
                                   ELSE [session[l] EXCEPT !.up = Capped(session[l].up + d)]]
  BY DEF Starts
<1>2. ASSUME NEW l \in Logins, session[l] # None
      PROVE  session'[l] = Sess(session[l].address, Capped(session[l].up + d), session[l].count)
  <2>1. session[l] = Sess(session[l].address, session[l].up, session[l].count)
    BY <1>2, SessionFields
  <2>2. session'[l] = [session[l] EXCEPT !.up = Capped(session[l].up + d)]
    BY <1>1, <1>2
  <2> DEFINE a == session[l].address
             u == session[l].up
             n == session[l].count
             w == Capped(u + d)
  <2>3. session[l] = Sess(a, u, n) /\ session'[l] = [session[l] EXCEPT !.up = w]
    BY <2>1, <2>2
  <2> HIDE DEF a, u, n, w
  <2>4. session'[l] = Sess(a, w, n)
    BY <2>3 DEF Sess
  <2> QED BY <2>4 DEF a, u, n, w
<1>3. \A l \in Logins : session[l] = None => session'[l] = None
  BY <1>1
<1>4. ASSUME NEW l \in Logins, session[l] # None
      PROVE  /\ session'[l] # None /\ session'[l].address = session[l].address
             /\ session'[l].count = session[l].count
  <2>1. PICK a, w, n : a = session[l].address /\ n = session[l].count /\ session'[l] = Sess(a, w, n)
    BY <1>2, <1>4
  <2>2. Sess(a, w, n) # None
    BY SessThere
  <2>3. Sess(a, w, n).address = a /\ Sess(a, w, n).count = n
    BY DEF Sess
  <2> QED BY <2>1, <2>2, <2>3
<1>5. WorldOk'
  <2>1. \A l \in Logins : session'[l] # None =>
            \E a \in AddressesOf[l], n \in Nat : \E u : session'[l] = Sess(a, u, n)
    BY <1>2, <1>3, SessionFields
  <2>2. \A l, m \in Logins : session'[l] # None /\ session'[m] # None
            /\ session'[l].address = session'[m].address => l = m
    BY <1>3, <1>4 DEF WorldOk
  <2>3. DOMAIN session' = Logins
    BY <1>1
  <2> QED BY <1>0, <2>1, <2>2, <2>3 DEF WorldOk
<1>6. \A s \in Statics : Steady(s)
  <2> SUFFICES ASSUME NEW s \in Statics PROVE Steady(s)
    OBVIOUS
  <2>1. Home(s)' = Home(s)
    BY <1>0 DEF Home
  <2>2. \A t \in Watched(s) : queue[t] # None => queue[t] \in Nat
    BY DEF WorldOk, Watched
  <2>3. sent[s] \in Nat /\ \A i \in DOMAIN Ports : port[i] \in Nat
    BY SubjectsSplit DEF WorldOk
  <2> QED BY <1>0, <2>1, <2>2, <2>3 DEF Steady
<1>7. \A l \in Logins : session[l] # None => SteadyLogin(l)
  <2> SUFFICES ASSUME NEW l \in Logins, session[l] # None PROVE SteadyLogin(l)
    OBVIOUS
  <2>1. session[l].count \in Nat /\ sent[l] \in Nat
    BY SessionFields, SubjectsSplit DEF WorldOk
  <2>2. session[l].address \in Targets /\ queue[session[l].address] # None
        => queue[session[l].address] \in Nat
    BY DEF WorldOk
  <2> QED BY <1>0, <1>4, <2>1, <2>2 DEF SteadyLogin
<1>8. \A x \in Subjects : shifts[x] <= shifts'[x] /\ sent[x] <= sent'[x]
  BY <1>0 DEF WorldOk
<1>9. \A i \in DOMAIN Ports : port[i] <= port'[i]
  BY <1>0 DEF WorldOk
<1> QED BY <1>3, <1>5, <1>6, <1>7, <1>8, <1>9 DEF WorldStep

\* Those whose traffic a queue takes are its holders.
LEMMA SenderHolds ==
    ASSUME WorldOk, NEW x \in Subjects, NEW t \in Targets,
           \/ x \in Logins /\ session[x] # None /\ session[x].address \in Within[t]
           \/ x \in Statics /\ Clients[x].address \in Within[t]
    PROVE  x \in Holders(t)
  BY SessionFields DEF Holders

LEMMA SteadySends ==
    ASSUME Deployment, NotAFunction(None), WorldOk, NEW x \in Subjects, NEW q, Sends(x, q)
    PROVE  WorldStep
<1>0. /\ declared' = declared /\ collectors' = collectors /\ shifts' = shifts
      /\ sent' = [sent EXCEPT ![x] = sent[x] + 1]
      /\ q # None => q \in Targets /\ queue[q] # None
      /\ queue' = IF q = None THEN queue ELSE [queue EXCEPT ![q] = queue[q] + 1]
      /\ q # None => \/ x \in Logins /\ session[x] # None /\ session[x].address \in Within[q]
                     \/ x \in Statics /\ declared[x] # None /\ Clients[x].address \in Within[q]
  BY SubjectsSplit DEF Sends, tables, Around, Subjects
<1>1. sent[x] \in Nat /\ sent'[x] = sent[x] + 1 /\ \A y \in Subjects \ {x} : sent'[y] = sent[y]
  BY <1>0 DEF WorldOk
<1>2. sent' \in [Subjects -> Nat] /\ \A y \in Subjects : sent[y] \in Nat /\ sent[y] <= sent'[y]
  BY <1>0, <1>1 DEF WorldOk
<1>3. q # None => queue[q] \in Nat /\ x \in Holders(q)
  BY <1>0, SenderHolds DEF WorldOk
<1>4. /\ queue' \in [Targets -> Nat \cup {None}]
      /\ \A t \in Targets : queue'[t] = None <=> queue[t] = None
      /\ \A t \in Targets : queue[t] # None =>
            queue[t] \in Nat /\ queue'[t] = IF t = q THEN queue[t] + 1 ELSE queue[t]
  <2>1. None \notin Nat
    BY DEF Deployment, Typed
  <2> QED BY <1>0, <1>3, <2>1 DEF WorldOk, Deployment, Typed
<1>5. CASE x \in Logins
  <2>0. x \notin Statics
    BY <1>5, SubjectsSplit
  <2>1. /\ session[x] # None /\ session' = [session EXCEPT ![x].count = session[x].count + 1]
        /\ port' = port
    BY <1>5 DEF Sends
  <2> DEFINE a == session[x].address
             u == session[x].up
             n == session[x].count
  <2>2. session[x] = Sess(a, u, n) /\ n \in Nat /\ a \in AddressesOf[x]
    BY <1>5, <2>1, SessionFields
  <2>3. session' = [session EXCEPT ![x] = [session[x] EXCEPT !.count = n + 1]]
    BY <2>1
  <2>4. DOMAIN session = Logins
    BY DEF WorldOk
  <2>5. session'[x] = [session[x] EXCEPT !.count = n + 1]
        /\ \A l \in Logins \ {x} : session'[l] = session[l]
    BY <1>5, <2>3, <2>4
  <2>7. DOMAIN session' = Logins
    BY <2>3, <2>4
  <2> HIDE DEF a, u, n
  <2>6. session'[x] = Sess(a, u, n + 1) /\ n + 1 \in Nat
    BY <2>2, <2>5 DEF Sess
  <2>8. /\ session'[x] # None /\ session'[x].address = session[x].address
        /\ session'[x].count = session[x].count + 1
    BY <2>2, <2>6, SessThere DEF Sess
  <2>9. WorldOk'
    <3>1. \A l \in Logins : session'[l] # None =>
              \E b \in AddressesOf[l], m \in Nat : \E v : session'[l] = Sess(b, v, m)
      BY <2>2, <2>5, <2>6 DEF WorldOk
    <3>2. \A l, m \in Logins : session'[l] # None /\ session'[m] # None
              /\ session'[l].address = session'[m].address => l = m
      BY <2>1, <2>5, <2>8 DEF WorldOk
    <3> QED BY <1>0, <1>2, <1>4, <2>1, <2>7, <3>1, <3>2 DEF WorldOk
  <2>10. ASSUME NEW s \in Statics PROVE Steady(s)
    <3>1. Home(s)' = Home(s)
      BY <1>0 DEF Home
    <3>2. Watched(s) \subseteq Targets
      BY DEF Watched
    <3>3. s # x /\ sent'[s] = sent[s] /\ sent[s] \in Nat
      BY <1>1, <1>2, <2>0, SubjectsSplit
    <3>4. \A t \in Watched(s) : Owns(s, t) => t # q
      BY <1>3, <2>0, <3>2, <3>3 DEF Owns, Members, Deployment, Typed
    <3>5. \A i \in DOMAIN Ports : port[i] \in Nat
      BY DEF WorldOk
    <3> QED BY <1>0, <1>4, <2>1, <3>1, <3>2, <3>3, <3>4, <3>5 DEF Steady
  <2>11. ASSUME NEW l \in Logins, session[l] # None PROVE SteadyLogin(l)
    <3> DEFINE b == session[l].address
    <3>1. l \in Subjects /\ b \in AddressesOf[l] /\ session[l].count \in Nat
      BY <2>11, SessionFields, SubjectsSplit
    <3>2. l # x /\ b \in Targets => b # q
      <4>1. l # x => b # a
        BY <1>5, <2>1, <2>11 DEF WorldOk, a
      <4>2. ASSUME l # x, b \in Targets, b = q PROVE FALSE
        <5>1. a \in Within[b]
          BY <1>0, <1>5, <2>0, <4>2 DEF a, Deployment, Typed
        <5>2. b \in AddressesOf[l] \cap Targets
          BY <3>1, <4>2
        <5> HIDE DEF b
        <5>3. a = b
          BY <1>5, <2>2, <5>1, <5>2 DEF Deployment, AddressesTellApart
        <5> QED BY <4>1, <4>2, <5>3
      <4> QED BY <4>2
    <3>3. session'[l] # None /\ session'[l].address = b
          /\ session'[l].count - session[l].count <= sent'[l] - sent[l]
      <4>1. CASE l = x
        BY <1>1, <2>8, <3>1, <4>1
      <4>2. CASE l # x
        <5>1. session'[l] = session[l] /\ sent'[l] = sent[l] /\ sent[l] \in Nat
          BY <1>1, <1>2, <2>5, <3>1, <4>2
        <5> QED BY <2>11, <3>1, <5>1
      <4> QED BY <4>1, <4>2
    <3>4. b \in Targets /\ queue[b] # None =>
             queue'[b] # None /\ queue[b] <= queue'[b] /\ queue'[b] - queue[b] <= sent'[l] - sent[l]
      BY <1>1, <1>2, <1>4, <3>1, <3>2
    <3> QED BY <3>3, <3>4 DEF SteadyLogin
  <2>12. \A l \in Logins : session[l] = None => session'[l] = None
    BY <2>1, <2>5
  <2>13. \A i \in DOMAIN Ports : port[i] <= port'[i]
    BY <2>1 DEF WorldOk
  <2>14. \A y \in Subjects : shifts[y] <= shifts'[y] /\ sent[y] <= sent'[y]
    BY <1>0, <1>2 DEF WorldOk
  <2> QED BY <2>9, <2>10, <2>11, <2>12, <2>13, <2>14 DEF WorldStep
<1>6. CASE x \notin Logins
  <2>1. /\ x \in Statics /\ declared[x] # None /\ session' = session
        /\ port' = [i \in DOMAIN Ports |-> IF Ports[i].tag = Clients[x].vlan THEN port[i] + 1
                                           ELSE port[i]]
    BY <1>6 DEF Sends, Subjects
  <2>2. port' \in [DOMAIN Ports -> Nat] /\ \A i \in DOMAIN Ports : port[i] \in Nat /\ port[i] <= port'[i]
    BY <2>1 DEF WorldOk
  <2>3. WorldOk'
    BY <1>0, <1>2, <1>4, <2>1, <2>2 DEF WorldOk
  <2>4. ASSUME NEW s \in Statics PROVE Steady(s)
    <3>1. Home(s)' = Home(s)
      BY <1>0 DEF Home
    <3>2. Watched(s) \subseteq Targets
      BY DEF Watched
    <3>3. s \in Subjects /\ sent[s] \in Nat /\ sent'[s] \in Nat /\ sent[s] <= sent'[s]
      BY <1>2, SubjectsSplit
    <3>4. \A t \in Watched(s) : Owns(s, t) /\ t = q => s = x
      BY <1>3, <2>1, <3>2 DEF Owns, Deployment, Typed
    <3>5. Alone(s) /\ Clients[x].vlan = Clients[s].vlan => s = x
      BY <2>1 DEF Alone, Members
    <3>6. \A i \in DOMAIN Ports : Alone(s) /\ Ports[i].tag = Clients[s].vlan
                                    => port'[i] - port[i] <= sent'[s] - sent[s]
      BY <1>1, <2>1, <2>2, <3>3, <3>5
    <3>7. \A t \in Watched(s) : queue[t] # None =>
             queue[t] <= queue'[t] /\ (Owns(s, t) => queue'[t] - queue[t] <= sent'[s] - sent[s])
      BY <1>1, <1>4, <3>2, <3>3, <3>4
    <3> QED BY <1>0, <1>4, <2>2, <3>1, <3>2, <3>6, <3>7 DEF Steady
  <2>5. ASSUME NEW l \in Logins, session[l] # None PROVE SteadyLogin(l)
    <3> DEFINE b == session[l].address
    <3>1. l \in Subjects /\ b \in AddressesOf[l] /\ session[l].count \in Nat /\ l # x
      BY <1>6, <2>5, SessionFields, SubjectsSplit
    <3>2. b \in Targets => b # q
      BY <1>0, <1>6, <3>1, <2>1 DEF Deployment, Typed, AddressesTellApart
    <3>3. sent'[l] = sent[l] /\ sent[l] \in Nat
      BY <1>1, <1>2, <3>1
    <3>4. b \in Targets /\ queue[b] # None =>
             queue'[b] # None /\ queue[b] <= queue'[b] /\ queue'[b] - queue[b] <= sent'[l] - sent[l]
      BY <1>4, <3>2, <3>3
    <3> QED BY <2>1, <2>5, <3>1, <3>3, <3>4 DEF SteadyLogin
  <2>14. \A y \in Subjects : shifts[y] <= shifts'[y] /\ sent[y] <= sent'[y]
    BY <1>0, <1>2 DEF WorldOk
  <2> QED BY <2>1, <2>2, <2>3, <2>4, <2>5, <2>14 DEF WorldStep
<1> QED BY <1>5, <1>6

-----------------------------------------------------------------------------
(* The steps of the network and of people, one by one.                      *)
LEMMA StillSteady ==
    ASSUME WorldOk, NEW s \in Statics, Home(s)' = Home(s), \A t \in Watched(s) : queue'[t] = queue[t],
           port' = port, sent' = sent,
           \A x \in Members(Clients[s].vlan) : declared'[x] = None <=> declared[x] = None
    PROVE  Steady(s)
<1>1. \A t \in Watched(s) : queue[t] # None => queue[t] \in Nat
  BY DEF WorldOk, Watched
<1>2. sent[s] \in Nat /\ \A i \in DOMAIN Ports : port[i] \in Nat
  BY SubjectsSplit DEF WorldOk
<1> QED BY <1>1, <1>2 DEF Steady

LEMMA StillLogin ==
    ASSUME WorldOk, NEW l \in Logins, session[l] # None, session'[l] = session[l], sent' = sent,
           session[l].address \in Targets => queue'[session[l].address] = queue[session[l].address]
    PROVE  SteadyLogin(l)
<1>1. session[l].count \in Nat /\ sent[l] \in Nat
  BY SessionFields, SubjectsSplit DEF WorldOk
<1>2. session[l].address \in Targets /\ queue[session[l].address] # None
      => queue[session[l].address] \in Nat
  BY DEF WorldOk
<1> QED BY <1>1, <1>2 DEF SteadyLogin

LEMMA SteadyConnects ==
    ASSUME Deployment, NotAFunction(None), WorldOk, NEW l \in Logins, NEW a \in AddressesOf[l],
           Connects(l, a)
    PROVE  WorldStep
<1>0. /\ queue' = queue /\ port' = port /\ declared' = declared /\ collectors' = collectors
      /\ sent' = sent /\ session' = [session EXCEPT ![l] = [address |-> a, up |-> 0, count |-> 0]]
      /\ shifts' = IF session[l] # None /\ session[l].address = a THEN shifts
                   ELSE [shifts EXCEPT ![l] = shifts[l] + 1]
      /\ a \notin {session[m].address : m \in {x \in Logins \ {l} : session[x] # None}}
  BY DEF Connects, tables
<1>1. /\ DOMAIN session' = Logins /\ \A m \in Logins \ {l} : session'[m] = session[m]
      /\ session'[l] = Sess(a, 0, 0)
  BY <1>0 DEF WorldOk, Sess
<1>2. session'[l] # None /\ session'[l].address = a /\ session'[l].count = 0
  <2>1. Sess(a, 0, 0) # None
    BY SessThere
  <2> QED BY <1>1, <2>1 DEF Sess
<1>3. l \in Subjects /\ shifts[l] \in Nat /\ shifts[l] + 1 # shifts[l]
  BY SubjectsSplit DEF WorldOk
<1>4. shifts' \in [Subjects -> Nat] /\ \A x \in Subjects : shifts[x] \in Nat /\ shifts[x] <= shifts'[x]
  BY <1>0, <1>3 DEF WorldOk
<1>5. WorldOk'
  <2>1. \A m \in Logins : session'[m] # None =>
            \E b \in AddressesOf[m], n \in Nat : \E v : session'[m] = Sess(b, v, n)
    <3>1. 0 \in Nat /\ session'[l] = Sess(a, 0, 0)
      BY <1>1
    <3> QED BY <1>1, <3>1 DEF WorldOk
  <2>2. \A k, m \in Logins : session'[k] # None /\ session'[m] # None
            /\ session'[k].address = session'[m].address => k = m
    BY <1>0, <1>1, <1>2 DEF WorldOk
  <2> QED BY <1>0, <1>1, <1>4, <2>1, <2>2 DEF WorldOk
<1>6. ASSUME NEW s \in Statics PROVE Steady(s)
  <2>1. Home(s)' = Home(s)
    BY <1>0 DEF Home
  <2> QED BY <1>0, <2>1, StillSteady
<1>7. ASSUME NEW m \in Logins, shifts'[m] = shifts[m], session[m] # None PROVE SteadyLogin(m)
  <2>1. CASE m # l
    BY <1>0, <1>1, <1>7, <2>1, StillLogin
  <2>2. CASE m = l
    <3>1. session[l].address = a
      BY <1>0, <1>3, <1>7, <2>2 DEF WorldOk
    <3>2. session[l].count \in Nat /\ sent[l] \in Nat
      BY <1>7, <2>2, SessionFields, SubjectsSplit DEF WorldOk
    <3>3. a \in Targets /\ queue[a] # None => queue[a] \in Nat
      BY DEF WorldOk
    <3> QED BY <1>0, <1>2, <2>2, <3>1, <3>2, <3>3 DEF SteadyLogin
  <2> QED BY <2>1, <2>2
<1>8. \A x \in Subjects : shifts[x] <= shifts'[x] /\ sent[x] <= sent'[x]
  BY <1>0, <1>4 DEF WorldOk
<1>9. \A i \in DOMAIN Ports : port[i] <= port'[i]
  BY <1>0 DEF WorldOk
<1>10. \A m \in Logins : shifts'[m] = shifts[m] /\ session[m] = None => session'[m] = None
  <2> SUFFICES ASSUME NEW m \in Logins, shifts'[m] = shifts[m], session[m] = None
               PROVE  session'[m] = None
    OBVIOUS
  <2>1. m # l
    BY <1>0, <1>3 DEF WorldOk
  <2> QED BY <1>1, <2>1
<1> QED BY <1>5, <1>6, <1>7, <1>8, <1>9, <1>10 DEF WorldStep

LEMMA SteadyDisconnects ==
    ASSUME Deployment, WorldOk, NEW l \in Logins, Disconnects(l)
    PROVE  WorldStep
<1>0. /\ queue' = queue /\ port' = port /\ declared' = declared /\ collectors' = collectors
      /\ sent' = sent /\ session' = [session EXCEPT ![l] = None]
      /\ shifts' = [shifts EXCEPT ![l] = shifts[l] + 1]
  BY DEF Disconnects, tables
<1>1. DOMAIN session' = Logins /\ session'[l] = None /\ \A m \in Logins \ {l} : session'[m] = session[m]
  BY <1>0 DEF WorldOk
<1>3. l \in Subjects /\ shifts[l] \in Nat /\ shifts'[l] = shifts[l] + 1
  BY <1>0, SubjectsSplit DEF WorldOk
<1>4. shifts' \in [Subjects -> Nat] /\ \A x \in Subjects : shifts[x] \in Nat /\ shifts[x] <= shifts'[x]
  BY <1>0, <1>3 DEF WorldOk
<1>5. WorldOk'
  <2>1. \A m \in Logins : session'[m] # None =>
            \E b \in AddressesOf[m], n \in Nat : \E v : session'[m] = Sess(b, v, n)
    BY <1>1 DEF WorldOk
  <2>2. \A k, m \in Logins : session'[k] # None /\ session'[m] # None
            /\ session'[k].address = session'[m].address => k = m
    BY <1>1 DEF WorldOk
  <2> QED BY <1>0, <1>1, <1>4, <2>1, <2>2 DEF WorldOk
<1>6. ASSUME NEW s \in Statics PROVE Steady(s)
  <2>1. Home(s)' = Home(s)
    BY <1>0 DEF Home
  <2> QED BY <1>0, <2>1, StillSteady
<1>7. ASSUME NEW m \in Logins, shifts'[m] = shifts[m], session[m] # None PROVE SteadyLogin(m)
  <2>1. m # l
    BY <1>3, <1>7
  <2> QED BY <1>0, <1>1, <1>7, <2>1, StillLogin
<1>8. \A x \in Subjects : shifts[x] <= shifts'[x] /\ sent[x] <= sent'[x]
  BY <1>0, <1>4 DEF WorldOk
<1>9. \A i \in DOMAIN Ports : port[i] <= port'[i]
  BY <1>0 DEF WorldOk
<1>10. \A m \in Logins : shifts'[m] = shifts[m] /\ session[m] = None => session'[m] = None
  <2> SUFFICES ASSUME NEW m \in Logins, shifts'[m] = shifts[m], session[m] = None
               PROVE  session'[m] = None
    OBVIOUS
  <2>1. m # l
    BY <1>3
  <2> QED BY <1>1, <2>1
<1> QED BY <1>5, <1>6, <1>7, <1>8, <1>9, <1>10 DEF WorldStep

LEMMA SteadyQueues ==
    ASSUME Deployment, WorldOk, NEW t \in Targets, QueueComesOrGoes(t)
    PROVE  WorldStep
<1>0. /\ session' = session /\ port' = port /\ declared' = declared /\ collectors' = collectors
      /\ sent' = sent /\ queue' = [queue EXCEPT ![t] = IF queue[t] = None THEN 0 ELSE None]
      /\ shifts' = [s \in Subjects |->
            IF (s \in Statics /\ t \in Watched(s))
               \/ (s \in Logins /\ session[s] # None /\ session[s].address \in Within[t])
            THEN shifts[s] + 1 ELSE shifts[s]]
  BY DEF QueueComesOrGoes, tables
<1>1. queue' \in [Targets -> Nat \cup {None}] /\ \A u \in Targets \ {t} : queue'[u] = queue[u]
  BY <1>0 DEF WorldOk
<1>4. shifts' \in [Subjects -> Nat] /\ \A x \in Subjects : shifts[x] \in Nat /\ shifts[x] <= shifts'[x]
  BY <1>0 DEF WorldOk
<1>5. WorldOk'
  BY <1>0, <1>1, <1>4 DEF WorldOk
<1>6. ASSUME NEW s \in Statics, shifts'[s] = shifts[s] PROVE Steady(s)
  <2>1. Home(s)' = Home(s)
    BY <1>0 DEF Home
  <2>2. s \in Subjects /\ shifts[s] \in Nat
    BY SubjectsSplit DEF WorldOk
  <2>3. t \notin Watched(s)
    BY <1>0, <1>6, <2>2
  <2>4. \A u \in Watched(s) : queue'[u] = queue[u]
    BY <1>1, <2>3 DEF Watched
  <2> QED BY <1>0, <2>1, <2>4, StillSteady
<1>7. ASSUME NEW m \in Logins, shifts'[m] = shifts[m], session[m] # None PROVE SteadyLogin(m)
  <2>2. m \in Subjects /\ shifts[m] \in Nat
    BY SubjectsSplit DEF WorldOk
  <2>3. session[m].address \notin Within[t]
    BY <1>0, <1>7, <2>2
  <2>4. session[m].address # t
    BY <2>3 DEF Deployment, Typed
  <2>5. session[m].address \in Targets => queue'[session[m].address] = queue[session[m].address]
    BY <1>1, <2>4
  <2> QED BY <1>0, <1>7, <2>5, StillLogin
<1>8. \A x \in Subjects : shifts[x] <= shifts'[x] /\ sent[x] <= sent'[x]
  BY <1>0, <1>4 DEF WorldOk
<1>9. \A i \in DOMAIN Ports : port[i] <= port'[i]
  BY <1>0 DEF WorldOk
<1>10. \A m \in Logins : shifts'[m] = shifts[m] /\ session[m] = None => session'[m] = None
  BY <1>0
<1> QED BY <1>5, <1>6, <1>7, <1>8, <1>9, <1>10 DEF WorldStep

LEMMA Shifting ==
    ASSUME WorldOk, NEW D, shifts' = ShiftedWith(D)
    PROVE  /\ shifts' \in [Subjects -> Nat] /\ \A x \in Subjects : shifts[x] <= shifts'[x]
           /\ \A x \in Statics : shifts'[x] = shifts[x]
                 => \A s \in D : Clients[s].vlan # Clients[x].vlan
<1>1. \A x \in Subjects : shifts[x] \in Nat /\ shifts[x] + 1 # shifts[x]
  BY DEF WorldOk
<1>2. shifts' = [x \in Subjects |->
          IF x \in Statics /\ \E s \in D : Clients[x].vlan = Clients[s].vlan
          THEN shifts[x] + 1 ELSE shifts[x]]
  BY DEF ShiftedWith
<1>3. shifts' \in [Subjects -> Nat] /\ \A x \in Subjects : shifts[x] <= shifts'[x]
  BY <1>1, <1>2
<1>4. \A x \in Statics : shifts'[x] = shifts[x] => \A s \in D : Clients[s].vlan # Clients[x].vlan
  BY <1>1, <1>2, SubjectsSplit
<1> QED BY <1>3, <1>4

\* What a step of people leaves alone of the network.
LEMMA PeopleStep ==
    ASSUME WorldOk, session' = session, queue' = queue, port' = port, sent' = sent,
           shifts' \in [Subjects -> Nat], \A x \in Subjects : shifts[x] <= shifts'[x],
           DOMAIN declared' = Statics, collectors' \in RouterLists,
           \A s \in Statics : shifts'[s] = shifts[s] =>
              /\ Home(s)' = Home(s)
              /\ \A x \in Members(Clients[s].vlan) : declared'[x] = None <=> declared[x] = None
    PROVE  WorldStep
<1>1. WorldOk'
  BY DEF WorldOk
<1>2. \A s \in Statics : shifts'[s] = shifts[s] => Steady(s)
  BY StillSteady
<1>3. \A l \in Logins : session[l] # None => SteadyLogin(l)
  BY StillLogin
<1>4. \A x \in Subjects : sent[x] <= sent'[x]
  BY DEF WorldOk
<1>5. \A i \in DOMAIN Ports : port[i] <= port'[i]
  BY DEF WorldOk
<1> QED BY <1>1, <1>2, <1>3, <1>4, <1>5 DEF WorldStep

LEMMA SteadyDeclares ==
    ASSUME Deployment, WorldOk, NEW c \in Statics, NEW p, Declares(c, p)
    PROVE  WorldStep
<1>0. /\ session' = session /\ queue' = queue /\ port' = port /\ collectors' = collectors
      /\ sent' = sent /\ declared' = [declared EXCEPT ![c] = p] /\ shifts' = ShiftedWith({c})
  BY DEF Declares, world
<1>1. \A s \in Statics : shifts'[s] = shifts[s] => Clients[c].vlan # Clients[s].vlan
  BY <1>0, Shifting
<1>2. DOMAIN declared' = Statics /\ \A x \in Statics \ {c} : declared'[x] = declared[x]
  BY <1>0 DEF WorldOk
<1>3. ASSUME NEW s \in Statics, shifts'[s] = shifts[s]
      PROVE  /\ Home(s)' = Home(s)
             /\ \A x \in Members(Clients[s].vlan) : declared'[x] = None <=> declared[x] = None
  <2>1. Home(s)' = Home(s)
    BY <1>0 DEF Home
  <2>2. \A x \in Members(Clients[s].vlan) : x \in Statics \ {c}
    BY <1>1, <1>3 DEF Members
  <2> QED BY <1>2, <2>1, <2>2
<1>4. shifts' \in [Subjects -> Nat] /\ \A x \in Subjects : shifts[x] <= shifts'[x]
  BY <1>0, Shifting
<1>5. collectors' \in RouterLists
  BY <1>0 DEF WorldOk
<1> QED BY <1>0, <1>2, <1>3, <1>4, <1>5, PeopleStep

LEMMA SteadyRemoves ==
    ASSUME Deployment, WorldOk, NEW c \in Subjects, Removes(c)
    PROVE  WorldStep
<1>0. /\ session' = session /\ queue' = queue /\ port' = port /\ collectors' = collectors
      /\ sent' = sent
      /\ declared' = IF c \in Statics THEN [declared EXCEPT ![c] = None] ELSE declared
      /\ shifts' = IF c \in Statics THEN ShiftedWith({c}) ELSE shifts
  BY DEF Removes, world
<1>1. CASE c \notin Statics
  BY <1>0, <1>1, SteadyStays
<1>2. CASE c \in Statics
  <2>1. \A s \in Statics : shifts'[s] = shifts[s] => Clients[c].vlan # Clients[s].vlan
    BY <1>0, <1>2, Shifting
  <2>2. DOMAIN declared' = Statics /\ \A x \in Statics \ {c} : declared'[x] = declared[x]
    BY <1>0, <1>2 DEF WorldOk
  <2>3. ASSUME NEW s \in Statics, shifts'[s] = shifts[s]
        PROVE  /\ Home(s)' = Home(s)
               /\ \A x \in Members(Clients[s].vlan) : declared'[x] = None <=> declared[x] = None
    <3>1. Home(s)' = Home(s)
      BY <1>0 DEF Home
    <3>2. \A x \in Members(Clients[s].vlan) : x \in Statics \ {c}
      BY <2>1, <2>3 DEF Members
    <3> QED BY <2>2, <3>1, <3>2
  <2>4. shifts' \in [Subjects -> Nat] /\ \A x \in Subjects : shifts[x] <= shifts'[x]
    BY <1>0, <1>2, Shifting
  <2>5. collectors' \in RouterLists
    BY <1>0 DEF WorldOk
  <2> QED BY <1>0, <2>2, <2>3, <2>4, <2>5, PeopleStep
<1> QED BY <1>1, <1>2

LEMMA SteadyRouters ==
    ASSUME Deployment, WorldOk, NEW list \in RouterLists, SetsCollectors(list)
    PROVE  WorldStep
<1> DEFINE D == {s \in Statics : HomeOf(s, list) # HomeOf(s, collectors)}
<1>0. /\ session' = session /\ queue' = queue /\ port' = port /\ collectors' = list
      /\ sent' = sent /\ declared' = declared /\ shifts' = ShiftedWith(D)
  BY DEF SetsCollectors, world, tables
<1>1. ASSUME NEW s \in Statics, shifts'[s] = shifts[s] PROVE Home(s)' = Home(s)
  <2>1. \A x \in D : Clients[x].vlan # Clients[s].vlan
    <3> HIDE DEF D
    <3> QED BY <1>0, <1>1, Shifting
  <2>2. HomeOf(s, list) = HomeOf(s, collectors)
    BY <2>1
  <2> QED BY <1>0, <2>2 DEF Home
<1> HIDE DEF D
<1>2. shifts' \in [Subjects -> Nat] /\ \A x \in Subjects : shifts[x] <= shifts'[x]
  BY <1>0, Shifting
<1>3. DOMAIN declared' = Statics /\ collectors' \in RouterLists
  BY <1>0 DEF WorldOk
<1>4. \A s \in Statics : shifts'[s] = shifts[s] =>
              /\ Home(s)' = Home(s)
              /\ \A x \in Members(Clients[s].vlan) : declared'[x] = None <=> declared[x] = None
  BY <1>0, <1>1
<1> QED BY <1>0, <1>2, <1>3, <1>4, PeopleStep

-----------------------------------------------------------------------------
(* The counter behind a source: whether it counts the subscriber alone, and *)
(* what it shows now.                                                      *)
PortOf(s) == CHOOSE i : Sole(s, Home(s), i)
Taken(s, source) ==
    IF source = "plain" THEN Pick(Own(s), Present(Home(s)))
    ELSE Choice(s, PortOf(s), Present(Home(s)))

ValidLogin(l, source) ==
    /\ session[l] # None
    /\ source = "queue" => session[l].address \in Targets /\ queue[session[l].address] # None
GaugeLogin(l, source) == IF source = "queue" THEN queue[session[l].address] ELSE session[l].count

ValidClient(s, source) ==
    CASE source = "plain" -> Hit(Own(s), Present(Home(s))) # {}
      [] source = "queue" -> /\ Sole(s, Home(s), PortOf(s)) /\ ~Ports[PortOf(s)].pppoe /\ Alone(s)
                             /\ Some(s, PortOf(s), Present(Home(s)))
      [] OTHER -> source \in DOMAIN Ports /\ Ports[source].tag = Clients[s].vlan /\ Alone(s)
GaugeClient(s, source) ==
    IF source \in {"plain", "queue"} THEN queue[Taken(s, source)] ELSE port[source]

Valid(x, source) == IF x \in Logins THEN ValidLogin(x, source) ELSE ValidClient(x, source)
Gauge(x, source) == IF x \in Logins THEN GaugeLogin(x, source) ELSE GaugeClient(x, source)

LEMMA TakenIs ==
    ASSUME Deployment, NEW s \in Statics, NEW source \in {"plain", "queue"}, ValidClient(s, source)
    PROVE  Taken(s, source) \in Present(Home(s)) \cap Watched(s) /\ Owns(s, Taken(s, source))
<1>1. PICK D : D = Present(Home(s)) /\ D \subseteq Targets
  BY DEF Present
<1>2. CASE source = "plain"
  <2>1. Hit(Own(s), D) # {} /\ Taken(s, source) = Pick(Own(s), D)
    BY <1>1, <1>2 DEF ValidClient, Taken
  <2>2. Pick(Own(s), D) \in D \cap Watched(s) \cap ToSet(Own(s))
    BY <1>1, <2>1, PlainLocal
  <2>3. Owns(s, Pick(Own(s), D))
    BY <1>1, <2>2, OwnsPlain
  <2> QED BY <1>1, <2>1, <2>2, <2>3
<1>3. CASE source = "queue"
  <2>1. PICK i : i = PortOf(s)
    OBVIOUS
  <2>2. /\ Sole(s, Home(s), i) /\ ~Ports[i].pppoe /\ Alone(s) /\ Some(s, i, D)
        /\ Taken(s, source) = Choice(s, i, D)
    BY <1>1, <1>3, <2>1 DEF ValidClient, Taken
  <2>3. i \in DOMAIN Ports /\ Ports[i].tag = Clients[s].vlan
    BY <2>2 DEF Sole
  <2>4. Choice(s, i, D) \in D \cap Watched(s)
    BY <1>1, <2>2, <2>3, ChoiceLocal
  <2>5. Owns(s, Choice(s, i, D))
    BY <1>1, <2>2, <2>3, OwnsChoice
  <2> QED BY <1>1, <2>2, <2>4, <2>5
<1> QED BY <1>2, <1>3

LEMMA GaugeNat ==
    ASSUME Deployment, WorldOk, NEW x \in Subjects, NEW source, Valid(x, source)
    PROVE  Gauge(x, source) \in Nat
<1>1. CASE x \in Logins
  <2>1. ValidLogin(x, source) /\ Gauge(x, source) = GaugeLogin(x, source)
    BY <1>1 DEF Valid, Gauge
  <2>2. session[x].count \in Nat
    BY <1>1, <2>1, SessionFields DEF ValidLogin
  <2>3. source = "queue" => queue[session[x].address] \in Nat
    BY <2>1 DEF ValidLogin, WorldOk
  <2> QED BY <2>1, <2>2, <2>3 DEF GaugeLogin
<1>2. CASE x \notin Logins
  <2>1. x \in Statics /\ ValidClient(x, source) /\ Gauge(x, source) = GaugeClient(x, source)
    BY <1>2 DEF Valid, Gauge, Subjects
  <2>2. CASE source \in {"plain", "queue"}
    <3>1. Taken(x, source) \in Present(Home(x))
      BY <2>1, <2>2, TakenIs
    <3>2. Taken(x, source) \in Targets /\ queue[Taken(x, source)] # None
      BY <3>1 DEF Present
    <3> QED BY <2>1, <2>2, <3>2 DEF GaugeClient, WorldOk
  <2>3. CASE source \notin {"plain", "queue"}
    <3>1. source \in DOMAIN Ports
      BY <2>1, <2>3 DEF ValidClient
    <3> QED BY <2>1, <2>3, <3>1 DEF GaugeClient, WorldOk
  <2> QED BY <2>2, <2>3
<1> QED BY <1>1, <1>2

LEMMA AloneStays ==
    ASSUME NEW s \in Statics, Steady(s)
    PROVE  Alone(s)' <=> Alone(s)
<1>1. \A x \in Members(Clients[s].vlan) : declared'[x] = None <=> declared[x] = None
  BY DEF Steady
<1> QED BY <1>1 DEF Alone

LEMMA PresentStays ==
    ASSUME NEW s \in Statics, Steady(s), NEW r
    PROVE  Present(r)' \cap Watched(s) = Present(r) \cap Watched(s)
<1>1. \A t \in Watched(s) : queue'[t] = None <=> queue[t] = None
  BY DEF Steady
<1> QED BY <1>1 DEF Present

LEMMA TakenStays ==
    ASSUME Deployment, NEW s \in Statics, Steady(s), NEW source, ValidClient(s, source)
    PROVE  /\ ValidClient(s, source)'
           /\ source \in {"plain", "queue"} => Taken(s, source)' = Taken(s, source)
<1>1. PICK h : h = Home(s) /\ h = Home(s)'
  BY DEF Steady
<1>2. PICK P : P = Present(h) /\ P \subseteq Targets
  BY DEF Present
<1>3. PICK Q : Q = Present(h)' /\ Q \subseteq Targets
  BY DEF Present
<1>4. P \cap Watched(s) = Q \cap Watched(s)
  BY <1>2, <1>3, PresentStays
<1>5. Present(Home(s)) = P /\ Present(Home(s))' = Q
  BY <1>1, <1>2, <1>3
<1>6. CASE source = "plain"
  <2>1. Hit(Own(s), P) = Hit(Own(s), Q) /\ Pick(Own(s), P) = Pick(Own(s), Q)
    <3>1. /\ Hit(Own(s), P) = Hit(Own(s), P \cap Watched(s))
          /\ Pick(Own(s), P) = Pick(Own(s), P \cap Watched(s))
      BY <1>2, PlainLocal
    <3>2. /\ Hit(Own(s), Q) = Hit(Own(s), Q \cap Watched(s))
          /\ Pick(Own(s), Q) = Pick(Own(s), Q \cap Watched(s))
      BY <1>3, PlainLocal
    <3> QED BY <1>4, <3>1, <3>2
  <2>2. Hit(Own(s), P) # {}
    BY <1>5, <1>6 DEF ValidClient
  <2> QED BY <1>5, <1>6, <2>1, <2>2 DEF ValidClient, Taken
<1>7. CASE source = "queue"
  <2>1. PICK i : i = PortOf(s) /\ i = PortOf(s)'
    <3>1. PortOf(s) = CHOOSE i : Sole(s, h, i)
      BY <1>1 DEF PortOf
    <3>2. PortOf(s)' = CHOOSE i : Sole(s, h, i)
      BY <1>1 DEF PortOf
    <3> QED BY <3>1, <3>2
  <2>2. Sole(s, h, i) /\ ~Ports[i].pppoe /\ Alone(s) /\ Some(s, i, P)
    BY <1>1, <1>5, <1>7, <2>1 DEF ValidClient
  <2>3. i \in DOMAIN Ports /\ Ports[i].tag = Clients[s].vlan
    BY <2>2 DEF Sole
  <2>4. (Some(s, i, P) <=> Some(s, i, Q)) /\ Choice(s, i, P) = Choice(s, i, Q)
    <3>1. /\ Some(s, i, P) <=> Some(s, i, P \cap Watched(s))
          /\ Choice(s, i, P) = Choice(s, i, P \cap Watched(s))
      BY <1>2, <2>3, ChoiceLocal
    <3>2. /\ Some(s, i, Q) <=> Some(s, i, Q \cap Watched(s))
          /\ Choice(s, i, Q) = Choice(s, i, Q \cap Watched(s))
      BY <1>3, <2>3, ChoiceLocal
    <3> QED BY <1>4, <3>1, <3>2
  <2>5. Alone(s)'
    BY <2>2, AloneStays
  <2>6. ValidClient(s, source)'
    BY <1>1, <1>5, <1>7, <2>1, <2>2, <2>4, <2>5 DEF ValidClient
  <2>7. Taken(s, source)' = Taken(s, source)
    BY <1>5, <1>7, <2>1, <2>4 DEF Taken
  <2> QED BY <2>6, <2>7
<1>8. CASE source \notin {"plain", "queue"}
  BY <1>8, AloneStays DEF ValidClient
<1> QED BY <1>6, <1>7, <1>8

\* As long as nothing befalls a subject, its counter stays, and grows no more
\* than the subject sends.
LEMMA GaugeSteady ==
    ASSUME Deployment, WorldOk, WorldStep, NEW x \in Subjects, shifts'[x] = shifts[x],
           NEW source, Valid(x, source)
    PROVE  /\ Valid(x, source)' /\ Gauge(x, source) \in Nat /\ Gauge(x, source)' \in Nat
           /\ Gauge(x, source)' - Gauge(x, source) <= sent'[x] - sent[x]
           /\ x \notin Logins \/ source = "queue" => Gauge(x, source) <= Gauge(x, source)'
<1>0. Gauge(x, source) \in Nat /\ WorldOk'
  BY GaugeNat DEF WorldStep
<1>1. CASE x \in Logins
  <2>1. ValidLogin(x, source) /\ Gauge(x, source) = GaugeLogin(x, source)
        /\ Gauge(x, source)' = GaugeLogin(x, source)' /\ (Valid(x, source)' <=> ValidLogin(x, source)')
    BY <1>1 DEF Valid, Gauge
  <2>2. SteadyLogin(x) /\ session[x] # None
    BY <1>1, <2>1 DEF WorldStep, ValidLogin
  <2>3. CASE source = "queue"
    <3>1. session[x].address \in Targets /\ queue[session[x].address] # None
      BY <2>1, <2>3 DEF ValidLogin
    <3>2. queue'[session[x].address] \in Nat
      BY <1>0, <2>2, <3>1 DEF SteadyLogin, WorldOk
    <3> QED BY <1>0, <1>1, <2>1, <2>2, <2>3, <3>1, <3>2 DEF ValidLogin, GaugeLogin, SteadyLogin
  <2>4. CASE source # "queue"
    <3>1. PICK a, u, n : n \in Nat /\ session'[x] = Sess(a, u, n)
      BY <1>0, <1>1, <2>2 DEF SteadyLogin, WorldOk
    <3>2. session'[x].count \in Nat
      BY <3>1 DEF Sess
    <3> QED BY <1>0, <1>1, <2>1, <2>2, <2>4, <3>2 DEF ValidLogin, GaugeLogin, SteadyLogin
  <2> QED BY <2>3, <2>4
<1>2. CASE x \notin Logins
  <2>1. /\ x \in Statics /\ ValidClient(x, source) /\ Gauge(x, source) = GaugeClient(x, source)
        /\ Gauge(x, source)' = GaugeClient(x, source)' /\ (Valid(x, source)' <=> ValidClient(x, source)')
    BY <1>2 DEF Valid, Gauge, Subjects
  <2>2. Steady(x)
    BY <2>1 DEF WorldStep
  <2>3. /\ ValidClient(x, source)'
        /\ source \in {"plain", "queue"} => Taken(x, source)' = Taken(x, source)
    BY <2>1, <2>2, TakenStays
  <2>4. CASE source \in {"plain", "queue"}
    <3>1. PICK t : t = Taken(x, source) /\ t = Taken(x, source)'
      BY <2>3, <2>4
    <3>2. t \in Watched(x) /\ queue[t] # None /\ Owns(x, t)
      BY <2>1, <2>4, <3>1, TakenIs DEF Present
    <3>3. queue[t] <= queue'[t] /\ queue'[t] - queue[t] <= sent'[x] - sent[x]
      BY <2>2, <3>2 DEF Steady
    <3>4. GaugeClient(x, source) = queue[t] /\ GaugeClient(x, source)' = queue'[t]
      BY <2>4, <3>1 DEF GaugeClient
    <3>5. queue'[t] \in Nat
      BY <1>0, <2>2, <3>2 DEF Steady, WorldOk, Watched
    <3> QED BY <1>0, <1>2, <2>1, <2>3, <3>3, <3>4, <3>5
  <2>5. CASE source \notin {"plain", "queue"}
    <3>1. source \in DOMAIN Ports /\ Ports[source].tag = Clients[x].vlan /\ Alone(x)
      BY <2>1, <2>5 DEF ValidClient
    <3>2. port[source] <= port'[source] /\ port'[source] - port[source] <= sent'[x] - sent[x]
      BY <2>2, <3>1 DEF Steady
    <3>3. GaugeClient(x, source) = port[source] /\ GaugeClient(x, source)' = port'[source]
      BY <2>5 DEF GaugeClient
    <3>4. port'[source] \in Nat
      BY <1>0, <3>1 DEF WorldOk
    <3> QED BY <1>0, <1>2, <2>1, <2>3, <3>2, <3>3, <3>4
  <2> QED BY <2>4, <2>5
<1> QED BY <1>1, <1>2

-----------------------------------------------------------------------------
(***************************************************************************)
(* The invariant.  A point of reference is never more than its counter     *)
(* behind what the subject has sent since; and what the cycle has read so  *)
(* far is never more than the counters show now.                           *)
(***************************************************************************)
Running == cycle.phase \notin {"idle", "write"}
Unmoved(x) == cycle.shifts0[x] = shifts[x]
Since(x) == sent[x] - cycle.sent0[x]

\* A point of reference: behind its counter by no more than what the subject has
\* sent since, as long as nothing befell it.
SnapOk(k, S) ==
    /\ k[2] \in Subjects
    /\ DOMAIN S = {"count", "uptime", "age", "sent", "shifts"}
    /\ S.count \in Nat \cup {None} /\ S.age \in Nat /\ S.sent \in Nat /\ S.shifts \in Nat
    /\ S.shifts <= shifts[k[2]] /\ S.sent <= sent[k[2]]
    /\ S.shifts = shifts[k[2]] /\ S.count # None
         => Valid(k[2], k[3]) /\ Gauge(k[2], k[3]) - S.count <= sent[k[2]] - S.sent
TrackerOk == \A k \in DOMAIN tracker : SnapOk(k, tracker[k])

\* A session starts its count again without another address: what was read
\* then is compared with the point of reference itself.
Follows(k, n) ==
    /\ tracker[k].age >= MinInterval /\ tracker[k].count # None
    /\ tracker[k].shifts = shifts[k[2]]
    => n - tracker[k].count <= sent[k[2]] - tracker[k].sent

SessionOk(it) ==
    /\ it.of \in Logins /\ it.count \in Nat
    /\ Unmoved(it.of) => /\ session[it.of] # None /\ session[it.of].address = it.address
                         /\ session[it.of].count - it.count <= Since(it.of)
    /\ \A k \in DOMAIN tracker : k[2] = it.of /\ k[3] = "interface" => Follows(k, it.count)
\* What is left to do, and what a router answered.
ItemOk(it) ==
    /\ it.what = "session" => SessionOk(it)
    /\ it.what = "client" => it.of \in DOMAIN cycle.records
    /\ it.what = "pop" => it.needs \in Nat
Heard(it) == /\ it.what = "session" /\ SessionOk(it)
             /\ DOMAIN it = {"what", "of", "router", "address", "up", "count"}

\* The queues read of a router: those there are now, of what is watched.
FileOk(F, r) ==
    /\ DOMAIN F \subseteq Targets /\ \A t \in DOMAIN F : F[t] \in Nat
    /\ \A l \in Logins :
          Unmoved(l) /\ session[l] # None /\ session[l].address \in DOMAIN F =>
              /\ queue[session[l].address] # None
              /\ F[session[l].address] <= queue[session[l].address]
              /\ queue[session[l].address] - F[session[l].address] <= Since(l)
    /\ \A s \in Statics : Unmoved(s) =>
          /\ DOMAIN F = {} \/ DOMAIN F \cap Watched(s) = Present(r) \cap Watched(s)
          /\ \A t \in DOMAIN F \cap Watched(s) :
                /\ queue[t] # None /\ F[t] <= queue[t]
                /\ Owns(s, t) => queue[t] - F[t] <= Since(s)

\* The records read: their homes, and nobody declared on the VLAN left out.
RecordsOk(R) ==
    /\ DOMAIN R \subseteq Statics
    /\ \A s, x \in DOMAIN R : Clients[s].vlan = Clients[x].vlan /\ Clients[s].vlan # None
                                => R[s].home = R[x].home
    /\ \A s \in DOMAIN R : Unmoved(s) =>
          /\ R[s].home = Home(s)
          /\ \A x \in Members(Clients[s].vlan) : declared[x] # None => x \in DOMAIN R

\* The interfaces read: all those of a router, or none.
PortsOk(P) ==
    /\ DOMAIN P \subseteq DOMAIN Ports /\ \A i \in DOMAIN P : P[i] \in Nat /\ P[i] <= port[i]
    /\ \A i \in DOMAIN P, j \in DOMAIN Ports : Ports[i].router = Ports[j].router => j \in DOMAIN P
    /\ \A i \in DOMAIN P, s \in Statics : Unmoved(s) /\ Alone(s) /\ Ports[i].tag = Clients[s].vlan
          => port[i] - P[i] <= Since(s)

\* The cycle began after every point of reference it compares with.
Begun == /\ cycle.sent0 \in [Subjects -> Nat] /\ cycle.shifts0 \in [Subjects -> Nat]
         /\ \A x \in Subjects : cycle.sent0[x] <= sent[x] /\ cycle.shifts0[x] <= shifts[x]
         /\ \A k \in DOMAIN tracker : tracker[k].shifts <= cycle.shifts0[k[2]]
FilesOk == \A r \in DOMAIN cycle.files : FileOk(cycle.files[r], r)
ItemsOk == List(cycle.todo) /\ \A it \in ToSet(cycle.todo) : ItemOk(it)
GotOk == \A r \in DOMAIN cycle.got : cycle.got[r] # None =>
            List(cycle.got[r]) /\ \A it \in ToSet(cycle.got[r]) : Heard(it)

Fields == {"phase", "list", "got", "files", "ports", "plans", "records", "todo", "flight", "pop",
           "rows", "active", "targets", "sent0", "shifts0", "errors"}
CycleOk ==
    /\ DOMAIN cycle = Fields
    /\ Running => /\ Begun /\ FilesOk /\ RecordsOk(cycle.records) /\ PortsOk(cycle.ports)
                  /\ ItemsOk /\ GotOk

-----------------------------------------------------------------------------
(* What was read stays true while the network moves.                        *)
\* A point of reference stays good, whatever grows or is moved.
LEMMA KeepSnap ==
    ASSUME Deployment, WorldOk, WorldStep, NEW k, NEW S, SnapOk(k, S)
    PROVE  SnapOk(k, S)'
<1>1. PICK x : x = k[2] /\ x \in Subjects
  BY DEF SnapOk
<1>2. /\ shifts[x] \in Nat /\ shifts'[x] \in Nat /\ sent[x] \in Nat /\ sent'[x] \in Nat
      /\ shifts[x] <= shifts'[x] /\ sent[x] <= sent'[x]
  BY <1>1 DEF WorldStep, WorldOk
<1>3. /\ S.shifts \in Nat /\ S.sent \in Nat /\ S.shifts <= shifts[x] /\ S.sent <= sent[x]
      /\ S.count \in Nat \cup {None}
      /\ S.shifts = shifts[x] /\ S.count # None
           => Valid(x, k[3]) /\ Gauge(x, k[3]) - S.count <= sent[x] - S.sent
  BY <1>1 DEF SnapOk
<1>4. ASSUME S.shifts = shifts'[x], S.count # None
      PROVE  Valid(x, k[3])' /\ Gauge(x, k[3])' - S.count <= sent'[x] - S.sent
  <2>1. shifts'[x] = shifts[x] /\ S.shifts = shifts[x]
    BY <1>2, <1>3, <1>4
  <2>2. Valid(x, k[3]) /\ Gauge(x, k[3]) - S.count <= sent[x] - S.sent
    BY <1>3, <1>4, <2>1
  <2>3. /\ Valid(x, k[3])' /\ Gauge(x, k[3]) \in Nat /\ Gauge(x, k[3])' \in Nat
        /\ Gauge(x, k[3])' - Gauge(x, k[3]) <= sent'[x] - sent[x]
    BY <1>1, <2>1, <2>2, GaugeSteady
  <2> QED BY <1>2, <1>3, <1>4, <2>2, <2>3
<1>5. S.shifts <= shifts'[x] /\ S.sent <= sent'[x]
  BY <1>2, <1>3
<1>6. Valid(k[2], k[3])' = Valid(x, k[3])' /\ Gauge(k[2], k[3])' = Gauge(x, k[3])'
  BY <1>1
<1> QED BY <1>1, <1>4, <1>5, <1>6 DEF SnapOk

LEMMA KeepTracker ==
    ASSUME Deployment, WorldOk, WorldStep, TrackerOk, tracker' = tracker
    PROVE  TrackerOk'
<1> SUFFICES ASSUME NEW k \in DOMAIN tracker PROVE SnapOk(k, tracker[k])'
  BY DEF TrackerOk
<1>1. PICK S : S = tracker[k]
  OBVIOUS
<1>2. SnapOk(k, S)
  BY <1>1 DEF TrackerOk
<1>3. SnapOk(k, S)'
  BY <1>2, KeepSnap
<1> QED BY <1>1, <1>3

\* What the cycle compares with stays.
SameStart == cycle'.sent0 = cycle.sent0 /\ cycle'.shifts0 = cycle.shifts0

LEMMA StillUnmoved ==
    ASSUME WorldOk, WorldStep, Begun, SameStart, NEW x \in Subjects, Unmoved(x)'
    PROVE  Unmoved(x) /\ shifts'[x] = shifts[x]
<1>1. /\ shifts[x] \in Nat /\ shifts'[x] \in Nat /\ cycle.shifts0[x] \in Nat
      /\ cycle.shifts0[x] <= shifts[x] /\ shifts[x] <= shifts'[x]
  BY DEF WorldOk, WorldStep, Begun
<1>2. cycle.shifts0[x] = shifts'[x]
  BY DEF SameStart, Unmoved
<1> QED BY <1>1, <1>2 DEF Unmoved

LEMMA SinceGrows ==
    ASSUME WorldOk, WorldStep, Begun, SameStart, NEW x \in Subjects
    PROVE  /\ Since(x) \in Nat /\ Since(x)' = Since(x) + (sent'[x] - sent[x])
           /\ sent'[x] - sent[x] \in Nat
<1>1. /\ sent[x] \in Nat /\ sent'[x] \in Nat /\ cycle.sent0[x] \in Nat
      /\ cycle.sent0[x] <= sent[x] /\ sent[x] <= sent'[x] /\ cycle'.sent0[x] = cycle.sent0[x]
  BY DEF WorldOk, WorldStep, Begun, SameStart
<1>2. Since(x)' = sent'[x] - cycle.sent0[x]
  BY <1>1 DEF Since
<1> QED BY <1>1, <1>2 DEF Since

LEMMA KeepBegun ==
    ASSUME WorldOk, WorldStep, Begun, SameStart, tracker' = tracker
    PROVE  Begun'
<1>1. \A x \in Subjects : cycle.sent0[x] \in Nat /\ cycle.shifts0[x] \in Nat
         /\ sent[x] \in Nat /\ sent'[x] \in Nat /\ shifts[x] \in Nat /\ shifts'[x] \in Nat
         /\ sent[x] <= sent'[x] /\ shifts[x] <= shifts'[x]
         /\ cycle.sent0[x] <= sent[x] /\ cycle.shifts0[x] <= shifts[x]
  BY DEF WorldOk, WorldStep, Begun
<1>2. \A x \in Subjects : cycle.sent0[x] <= sent'[x] /\ cycle.shifts0[x] <= shifts'[x]
  BY <1>1
<1> QED BY <1>2 DEF Begun, SameStart

LEMMA KeepFile ==
    ASSUME Deployment, WorldOk, WorldStep, Begun, SameStart, NEW F, NEW r, FileOk(F, r)
    PROVE  FileOk(F, r)'
<1>1. DOMAIN F \subseteq Targets /\ \A t \in DOMAIN F : F[t] \in Nat
  BY DEF FileOk
<1>2. \A t \in Targets : queue[t] # None => queue[t] \in Nat
  BY DEF WorldOk
<1>3. \A t \in Targets : queue'[t] # None => queue'[t] \in Nat
  BY DEF WorldStep, WorldOk
<1>4. ASSUME NEW l \in Logins, Unmoved(l)', session'[l] # None, session'[l].address \in DOMAIN F
      PROVE  /\ queue'[session'[l].address] # None
             /\ F[session'[l].address] <= queue'[session'[l].address]
             /\ queue'[session'[l].address] - F[session'[l].address] <= Since(l)'
  <2>1. l \in Subjects /\ Unmoved(l) /\ shifts'[l] = shifts[l]
    BY <1>4, SubjectsSplit, StillUnmoved
  <2>2. CASE session[l] = None
    BY <1>4, <2>1, <2>2 DEF WorldStep
  <2>3. CASE session[l] # None
    <3>1. SteadyLogin(l)
      BY <2>1, <2>3 DEF WorldStep
    <3>2. PICK a : a = session[l].address /\ a = session'[l].address
      BY <3>1 DEF SteadyLogin
    <3>3. queue[a] # None /\ F[a] <= queue[a] /\ queue[a] - F[a] <= Since(l)
      BY <1>4, <2>1, <2>3, <3>2 DEF FileOk
    <3>4. a \in Targets /\ queue'[a] # None /\ queue[a] <= queue'[a] /\ queue'[a] - queue[a] <= sent'[l] - sent[l]
      BY <1>1, <1>4, <3>1, <3>2, <3>3 DEF SteadyLogin
    <3>5. F[a] \in Nat /\ queue[a] \in Nat /\ queue'[a] \in Nat
      BY <1>1, <1>2, <1>3, <1>4, <3>2, <3>3, <3>4
    <3>6. /\ Since(l) \in Nat /\ Since(l)' = Since(l) + (sent'[l] - sent[l])
          /\ sent'[l] - sent[l] \in Nat
      BY <2>1, SinceGrows
    <3> QED BY <3>2, <3>3, <3>4, <3>5, <3>6
  <2> QED BY <2>2, <2>3
<1>5. ASSUME NEW s \in Statics, Unmoved(s)'
      PROVE  /\ DOMAIN F = {} \/ DOMAIN F \cap Watched(s) = Present(r)' \cap Watched(s)
             /\ \A t \in DOMAIN F \cap Watched(s) :
                   /\ queue'[t] # None /\ F[t] <= queue'[t]
                   /\ Owns(s, t)' => queue'[t] - F[t] <= Since(s)'
  <2>1. s \in Subjects /\ Unmoved(s) /\ shifts'[s] = shifts[s]
    BY <1>5, SubjectsSplit, StillUnmoved
  <2>2. Steady(s)
    BY <2>1 DEF WorldStep
  <2>3. Present(r)' \cap Watched(s) = Present(r) \cap Watched(s)
    BY <2>2, PresentStays
  <2>4. DOMAIN F = {} \/ DOMAIN F \cap Watched(s) = Present(r)' \cap Watched(s)
    BY <2>1, <2>3 DEF FileOk
  <2>5. /\ Since(s) \in Nat /\ Since(s)' = Since(s) + (sent'[s] - sent[s])
        /\ sent'[s] - sent[s] \in Nat
    BY <2>1, SinceGrows
  <2>6. ASSUME NEW t \in DOMAIN F \cap Watched(s)
        PROVE  /\ queue'[t] # None /\ F[t] <= queue'[t]
               /\ Owns(s, t)' => queue'[t] - F[t] <= Since(s)'
    <3>1. queue[t] # None /\ F[t] <= queue[t] /\ (Owns(s, t) => queue[t] - F[t] <= Since(s))
      BY <2>1 DEF FileOk
    <3>2. /\ queue'[t] # None /\ queue[t] <= queue'[t]
          /\ Owns(s, t) => queue'[t] - queue[t] <= sent'[s] - sent[s]
      BY <2>2, <3>1 DEF Steady
    <3>3. F[t] \in Nat /\ queue[t] \in Nat /\ queue'[t] \in Nat
      BY <1>1, <1>2, <1>3, <3>1, <3>2
    <3>4. Owns(s, t)' <=> Owns(s, t)
      <4>1. \A x \in Members(Clients[s].vlan) : declared'[x] = None <=> declared[x] = None
        BY <2>2 DEF Steady
      <4> QED BY <4>1 DEF Owns
    <3> QED BY <2>5, <3>1, <3>2, <3>3, <3>4
  <2> QED BY <2>4, <2>6
<1> QED BY <1>1, <1>4, <1>5 DEF FileOk

LEMMA KeepFiles ==
    ASSUME Deployment, WorldOk, WorldStep, Begun, SameStart, FilesOk, cycle'.files = cycle.files
    PROVE  FilesOk'
<1> SUFFICES ASSUME NEW r \in DOMAIN cycle.files PROVE FileOk(cycle.files[r], r)'
  BY DEF FilesOk
<1>1. PICK F : F = cycle.files[r] /\ F = cycle.files[r]'
  OBVIOUS
<1>2. FileOk(F, r)
  BY <1>1 DEF FilesOk
<1>3. FileOk(F, r)'
  BY <1>2, KeepFile
<1> QED BY <1>1, <1>3

LEMMA KeepRecords ==
    ASSUME WorldOk, WorldStep, Begun, SameStart, RecordsOk(cycle.records),
           cycle'.records = cycle.records
    PROVE  RecordsOk(cycle.records)'
<1>1. PICK R : R = cycle.records /\ R = cycle.records'
  OBVIOUS
<1>2. RecordsOk(R)
  BY <1>1
<1>3. ASSUME NEW s \in DOMAIN R, Unmoved(s)'
      PROVE  /\ R[s].home = Home(s)'
             /\ \A x \in Members(Clients[s].vlan) : declared'[x] # None => x \in DOMAIN R
  <2>1. s \in Statics
    BY <1>2 DEF RecordsOk
  <2>2. Unmoved(s) /\ shifts'[s] = shifts[s]
    BY <1>3, <2>1, SubjectsSplit, StillUnmoved
  <2>3. Steady(s)
    BY <2>1, <2>2 DEF WorldStep
  <2>4. Home(s)' = Home(s) /\ \A x \in Members(Clients[s].vlan) : declared'[x] = None <=> declared[x] = None
    BY <2>3 DEF Steady
  <2> QED BY <1>2, <2>2, <2>4 DEF RecordsOk
<1>4. RecordsOk(R)'
  BY <1>2, <1>3 DEF RecordsOk
<1> QED BY <1>1, <1>4

LEMMA KeepPorts ==
    ASSUME WorldOk, WorldStep, Begun, SameStart, PortsOk(cycle.ports), cycle'.ports = cycle.ports
    PROVE  PortsOk(cycle.ports)'
<1>1. PICK P : P = cycle.ports /\ P = cycle.ports'
  OBVIOUS
<1>2. PortsOk(P)
  BY <1>1
<1>3. \A i \in DOMAIN Ports : port[i] \in Nat /\ port'[i] \in Nat
  BY DEF WorldOk, WorldStep
<1>4. ASSUME NEW i \in DOMAIN P, NEW s \in Statics, Unmoved(s)', Alone(s)', Ports[i].tag = Clients[s].vlan
      PROVE  port'[i] - P[i] <= Since(s)'
  <2>1. s \in Subjects /\ Unmoved(s) /\ shifts'[s] = shifts[s]
    BY <1>4, SubjectsSplit, StillUnmoved
  <2>2. Steady(s)
    BY <2>1 DEF WorldStep
  <2>3. Alone(s)
    BY <1>4, <2>2, AloneStays
  <2>4. i \in DOMAIN Ports /\ P[i] \in Nat /\ port[i] - P[i] <= Since(s)
    BY <1>2, <1>4, <2>1, <2>3 DEF PortsOk
  <2>5. port'[i] - port[i] <= sent'[s] - sent[s]
    BY <1>4, <2>2, <2>3, <2>4 DEF Steady
  <2>6. /\ Since(s) \in Nat /\ Since(s)' = Since(s) + (sent'[s] - sent[s])
        /\ sent'[s] - sent[s] \in Nat
    BY <2>1, SinceGrows
  <2> QED BY <1>3, <2>4, <2>5, <2>6
<1>5. ASSUME NEW i \in DOMAIN P PROVE P[i] <= port'[i]
  <2>1. i \in DOMAIN Ports /\ P[i] \in Nat /\ P[i] <= port[i]
    BY <1>2 DEF PortsOk
  <2>2. port[i] <= port'[i]
    BY <2>1 DEF WorldStep
  <2> QED BY <1>3, <2>1, <2>2
<1>6. PortsOk(P)'
  BY <1>2, <1>4, <1>5 DEF PortsOk
<1> QED BY <1>1, <1>6

-----------------------------------------------------------------------------
\* What was read of a session stays as near its point of reference.
LEMMA KeepFollows ==
    ASSUME WorldOk, WorldStep, TrackerOk, tracker' = tracker, NEW k \in DOMAIN tracker, NEW n \in Nat,
           Follows(k, n)
    PROVE  Follows(k, n)'
<1> SUFFICES ASSUME tracker[k].age >= MinInterval, tracker[k].count # None,
                    tracker[k].shifts = shifts'[k[2]]
             PROVE  n - tracker[k].count <= sent'[k[2]] - tracker[k].sent
  BY DEF Follows
<1>1. PICK S, x : S = tracker[k] /\ x = k[2]
  OBVIOUS
<1>2. /\ x \in Subjects /\ S.count \in Nat /\ S.shifts \in Nat /\ S.sent \in Nat /\ S.shifts <= shifts[x]
  <2>1. SnapOk(k, S)
    BY <1>1 DEF TrackerOk
  <2> QED BY <1>1, <2>1 DEF SnapOk
<1>3. /\ shifts[x] \in Nat /\ shifts'[x] \in Nat /\ sent[x] \in Nat /\ sent'[x] \in Nat
      /\ shifts[x] <= shifts'[x] /\ sent[x] <= sent'[x]
  BY <1>2 DEF WorldOk, WorldStep
<1>4. S.shifts = shifts[x]
  BY <1>1, <1>2, <1>3
<1>5. n - S.count <= sent[x] - S.sent
  BY <1>1, <1>4 DEF Follows
<1> QED BY <1>1, <1>2, <1>3, <1>5

LEMMA KeepSession ==
    ASSUME WorldOk, WorldStep, Begun, SameStart, TrackerOk, tracker' = tracker, NEW it, SessionOk(it)
    PROVE  SessionOk(it)'
<1>1. it.of \in Logins /\ it.of \in Subjects /\ it.count \in Nat
  BY SubjectsSplit DEF SessionOk
<1>2. ASSUME Unmoved(it.of)'
      PROVE  /\ session'[it.of] # None /\ session'[it.of].address = it.address
             /\ session'[it.of].count - it.count <= Since(it.of)'
  <2>1. PICK l : l = it.of /\ l \in Logins /\ l \in Subjects
    BY <1>1
  <2>2. Unmoved(l) /\ shifts'[l] = shifts[l]
    BY <1>2, <2>1, StillUnmoved
  <2>3. session[l] # None /\ session[l].address = it.address /\ session[l].count - it.count <= Since(l)
    BY <2>1, <2>2 DEF SessionOk
  <2>4. SteadyLogin(l)
    BY <2>1, <2>2, <2>3 DEF WorldStep
  <2>5. session[l].count \in Nat
    BY <2>1, <2>3, SessionFields
  <2>6. PICK a, u, n : n \in Nat /\ session'[l] = Sess(a, u, n)
    BY <2>1, <2>4 DEF WorldStep, WorldOk, SteadyLogin
  <2>7. session'[l].count \in Nat
    BY <2>6 DEF Sess
  <2>8. /\ Since(l) \in Nat /\ Since(l)' = Since(l) + (sent'[l] - sent[l])
        /\ sent'[l] - sent[l] \in Nat
    BY <2>1, SinceGrows
  <2>9. Since(it.of)' = Since(l)'
    BY <2>1
  <2> QED BY <1>1, <2>1, <2>3, <2>4, <2>5, <2>7, <2>8, <2>9 DEF SteadyLogin
<1>3. ASSUME NEW k \in DOMAIN tracker, k[2] = it.of /\ k[3] = "interface"
      PROVE  Follows(k, it.count)'
  <2>1. PICK n \in Nat : n = it.count
    BY <1>1
  <2>2. Follows(k, n)
    BY <1>3, <2>1 DEF SessionOk
  <2>3. Follows(k, n)'
    BY <2>2, KeepFollows
  <2> QED BY <2>1, <2>3
<1> QED BY <1>1, <1>2, <1>3 DEF SessionOk

LEMMA KeepItem ==
    ASSUME WorldOk, WorldStep, Begun, SameStart, TrackerOk, tracker' = tracker,
           cycle'.records = cycle.records, NEW it, ItemOk(it)
    PROVE  ItemOk(it)'
<1>1. it.what = "session" => SessionOk(it)'
  BY KeepSession DEF ItemOk
<1> QED BY <1>1 DEF ItemOk

LEMMA KeepItems ==
    ASSUME WorldOk, WorldStep, Begun, SameStart, TrackerOk, tracker' = tracker,
           cycle'.records = cycle.records, ItemsOk, List(cycle'.todo),
           ToSet(cycle'.todo) \subseteq ToSet(cycle.todo)
    PROVE  ItemsOk'
<1> SUFFICES ASSUME NEW it \in ToSet(cycle'.todo) PROVE ItemOk(it)'
  BY DEF ItemsOk
<1>1. ItemOk(it)
  BY DEF ItemsOk
<1> QED BY <1>1, KeepItem

LEMMA KeepGot ==
    ASSUME WorldOk, WorldStep, Begun, SameStart, TrackerOk, tracker' = tracker,
           GotOk, cycle'.got = cycle.got
    PROVE  GotOk'
<1> SUFFICES ASSUME NEW r \in DOMAIN cycle.got, cycle.got[r] # None
             PROVE  List(cycle.got[r]) /\ \A it \in ToSet(cycle.got[r]) : Heard(it)'
  BY DEF GotOk
<1> SUFFICES ASSUME NEW it \in ToSet(cycle.got[r]) PROVE Heard(it)'
  BY DEF GotOk
<1>1. Heard(it)
  BY DEF GotOk
<1> QED BY <1>1, KeepSession DEF Heard

\* What a running cycle has read stays true while the rest of the system moves,
\* and while the cycle itself only drops what it has done.
LEMMA Advances ==
    ASSUME Deployment, WorldOk, WorldStep, TrackerOk, CycleOk, Running, SameStart,
           DOMAIN cycle' = Fields, cycle'.files = cycle.files, cycle'.records = cycle.records,
           cycle'.ports = cycle.ports, List(cycle'.todo),
           ToSet(cycle'.todo) \subseteq ToSet(cycle.todo), cycle'.got = cycle.got, tracker' = tracker
    PROVE  CycleOk'
<1>1. Begun /\ FilesOk /\ RecordsOk(cycle.records) /\ PortsOk(cycle.ports) /\ ItemsOk /\ GotOk
  BY DEF CycleOk
<1>2. Begun'
  BY <1>1, KeepBegun
<1>3. FilesOk'
  BY <1>1, KeepFiles
<1>4. RecordsOk(cycle.records)'
  BY <1>1, KeepRecords
<1>5. PortsOk(cycle.ports)'
  BY <1>1, KeepPorts
<1>6. ItemsOk'
  BY <1>1, KeepItems
<1>7. GotOk'
  BY <1>1, KeepGot
<1> QED BY <1>2, <1>3, <1>4, <1>5, <1>6, <1>7 DEF CycleOk

LEMMA OthersStep ==
    ASSUME Deployment, WorldOk, WorldStep, TrackerOk, CycleOk, cycle' = cycle, tracker' = tracker
    PROVE  CycleOk'
<1>1. CASE Running
  <2>1. List(cycle.todo) /\ DOMAIN cycle = Fields
    BY <1>1 DEF CycleOk, ItemsOk
  <2>2. SameStart
    BY DEF SameStart
  <2> QED BY <1>1, <2>1, <2>2, Advances
<1>2. CASE ~Running
  BY <1>2 DEF CycleOk, Running
<1> QED BY <1>1, <1>2

-----------------------------------------------------------------------------
(* The steps of the cycle that only drop what is done.                      *)
LEMMA TailParts ==
    ASSUME NEW s, List(s), s # <<>>
    PROVE  List(Tail(s)) /\ ToSet(Tail(s)) \subseteq ToSet(s) /\ Head(s) \in ToSet(s)
<1>1. PICK T : T = ToSet(s) /\ s \in Seq(T)
  BY DEF List
<1>2. Head(s) \in T /\ Tail(s) \in Seq(T)
  BY <1>1, HeadTailProperties
<1>3. ToSet(Tail(s)) \subseteq T
  BY <1>2 DEF ToSet
<1> QED BY <1>1, <1>2, <1>3, SomeRows

LEMMA DropParts ==
    ASSUME NEW s, List(s), NEW n \in Nat
    PROVE  List(SubSeq(s, n + 1, Len(s))) /\ ToSet(SubSeq(s, n + 1, Len(s))) \subseteq ToSet(s)
<1>1. PICK T : T = ToSet(s) /\ s \in Seq(T)
  BY DEF List
<1>2. PICK m \in Int, e \in Int : m = n + 1 /\ m >= 1 /\ e = Len(s)
  BY <1>1
<1>3. \A i \in m..e : s[i] \in T
  BY <1>1, <1>2
<1>4. SubSeq(s, m, e) \in Seq(T)
  BY <1>2, <1>3, SubSeqProperties
<1>5. ToSet(SubSeq(s, m, e)) \subseteq T
  BY <1>4 DEF ToSet
<1> QED BY <1>1, <1>2, <1>4, <1>5, SomeRows

\* A step of the cycle moves nothing of the network.
Calm == /\ queue' = queue /\ port' = port /\ session' = session /\ declared' = declared
        /\ collectors' = collectors /\ sent' = sent /\ shifts' = shifts

LEMMA CalmSteady ==
    ASSUME Deployment, WorldOk, Calm
    PROVE  WorldStep
  BY SteadyStays DEF Calm

\* A step that only drops what is done.
SameReadings == /\ SameStart /\ DOMAIN cycle' = Fields /\ cycle'.files = cycle.files
                /\ cycle'.records = cycle.records /\ cycle'.ports = cycle.ports
                /\ cycle'.got = cycle.got

LEMMA DropsStep ==
    ASSUME Deployment, WorldOk, TrackerOk, CycleOk, Running, Calm, SameReadings,
           List(cycle'.todo), ToSet(cycle'.todo) \subseteq ToSet(cycle.todo), tracker' = tracker
    PROVE  CycleOk'
<1>1. WorldStep
  BY CalmSteady
<1> QED BY <1>1, Advances DEF SameReadings

LEMMA BusyRuns ==
    ASSUME CycleOk, Busy
    PROVE  /\ Running /\ cycle.todo # <<>> /\ List(cycle.todo) /\ DOMAIN cycle = Fields
           /\ List(Tail(cycle.todo)) /\ ToSet(Tail(cycle.todo)) \subseteq ToSet(cycle.todo)
           /\ ItemOk(Now)
<1>1. Running /\ cycle.todo # <<>>
  BY DEF Busy, Running
<1>2. ItemsOk /\ DOMAIN cycle = Fields
  BY <1>1 DEF CycleOk
<1>3. List(cycle.todo)
  BY <1>2 DEF ItemsOk
<1>4. /\ List(Tail(cycle.todo)) /\ ToSet(Tail(cycle.todo)) \subseteq ToSet(cycle.todo)
      /\ Head(cycle.todo) \in ToSet(cycle.todo)
  BY <1>1, <1>3, TailParts
<1> QED BY <1>1, <1>2, <1>3, <1>4 DEF ItemsOk, Now

LEMMA CycleQueuesRead ==
    ASSUME Deployment, WorldOk, TrackerOk, CycleOk, QueuesRead
    PROVE  CycleOk'
<1>1. Running /\ Calm /\ tracker' = tracker
      /\ cycle' = [cycle EXCEPT !.phase = "sessions read", !.list = <<>>]
  BY DEF QueuesRead, Running, Phase, Calm, world, tables, ghosts
<1>2. DOMAIN cycle = Fields /\ List(cycle.todo)
  BY <1>1 DEF CycleOk, ItemsOk
<1>3. SameReadings /\ cycle'.todo = cycle.todo
  BY <1>1, <1>2 DEF SameReadings, SameStart, Fields
<1> QED BY <1>1, <1>2, <1>3, DropsStep

LEMMA CycleFindsPop ==
    ASSUME Deployment, WorldOk, TrackerOk, CycleOk, FindsPop
    PROVE  CycleOk'
<1>1. Busy /\ Calm /\ tracker' = tracker
      /\ cycle' = [cycle EXCEPT !.pop = popCache[Now.name], !.todo = Tail(cycle.todo)]
  BY DEF FindsPop, Doing, Calm, world, tables, ghosts
<1>2. /\ Running /\ DOMAIN cycle = Fields
      /\ List(Tail(cycle.todo)) /\ ToSet(Tail(cycle.todo)) \subseteq ToSet(cycle.todo)
  BY <1>1, BusyRuns
<1>3. SameReadings /\ cycle'.todo = Tail(cycle.todo)
  BY <1>1, <1>2 DEF SameReadings, SameStart, Fields
<1> QED BY <1>1, <1>2, <1>3, DropsStep

LEMMA CycleUpsertsPop ==
    ASSUME Deployment, WorldOk, TrackerOk, CycleOk, UpsertsPop
    PROVE  CycleOk'
<1>1. Busy /\ Calm /\ tracker' = tracker
      /\ cycle' = [cycle EXCEPT !.flight = [id |-> pops'[Now.name]]]
  BY DEF UpsertsPop, Doing, Calm, world, ghosts
<1>2. Running /\ DOMAIN cycle = Fields /\ List(cycle.todo)
  BY <1>1, BusyRuns
<1>3. SameReadings /\ cycle'.todo = cycle.todo
  BY <1>1, <1>2 DEF SameReadings, SameStart, Fields
<1> QED BY <1>1, <1>2, <1>3, DropsStep

LEMMA CycleNotesPop ==
    ASSUME Deployment, WorldOk, TrackerOk, CycleOk, NotesPop
    PROVE  CycleOk'
<1>1. Busy /\ Calm /\ tracker' = tracker
      /\ cycle' = [cycle EXCEPT !.pop = cycle.flight.id, !.flight = None, !.todo = Tail(cycle.todo)]
  BY DEF NotesPop, Calm, world, tables
<1>2. /\ Running /\ DOMAIN cycle = Fields
      /\ List(Tail(cycle.todo)) /\ ToSet(Tail(cycle.todo)) \subseteq ToSet(cycle.todo)
  BY <1>1, BusyRuns
<1>3. SameReadings /\ cycle'.todo = Tail(cycle.todo)
  BY <1>1, <1>2 DEF SameReadings, SameStart, Fields
<1> QED BY <1>1, <1>2, <1>3, DropsStep

LEMMA CycleMissesPop ==
    ASSUME Deployment, WorldOk, TrackerOk, CycleOk, MissesPop
    PROVE  CycleOk'
<1>1. Busy /\ Now.what = "pop" /\ Calm /\ tracker' = tracker
      /\ cycle' = [cycle EXCEPT !.errors = TRUE, !.todo = Dropped(1 + Now.needs)]
  BY DEF MissesPop, Doing, Calm, world, tables
<1>2. Running /\ DOMAIN cycle = Fields /\ List(cycle.todo) /\ ItemOk(Now)
  BY <1>1, BusyRuns
<1>3. PICK n \in Nat : n = 1 + Now.needs
  BY <1>1, <1>2 DEF ItemOk
<1>4. List(Dropped(n)) /\ ToSet(Dropped(n)) \subseteq ToSet(cycle.todo)
  BY <1>2, DropParts DEF Dropped
<1>5. SameReadings /\ cycle'.todo = Dropped(n)
  BY <1>1, <1>2, <1>3 DEF SameReadings, SameStart, Fields
<1> QED BY <1>1, <1>2, <1>4, <1>5, DropsStep

LEMMA CycleAsksPlans ==
    ASSUME Deployment, WorldOk, TrackerOk, CycleOk, AsksPlans
    PROVE  CycleOk'
<1>1. Busy /\ Calm /\ tracker' = tracker
      /\ \E p : cycle' = [cycle EXCEPT !.todo = Tail(cycle.todo), !.plans = p]
  BY DEF AsksPlans, Doing, Calm, world, tables, ghosts
<1>2. /\ Running /\ DOMAIN cycle = Fields
      /\ List(Tail(cycle.todo)) /\ ToSet(Tail(cycle.todo)) \subseteq ToSet(cycle.todo)
  BY <1>1, BusyRuns
<1>3. SameReadings /\ cycle'.todo = Tail(cycle.todo)
  BY <1>1, <1>2 DEF SameReadings, SameStart, Fields
<1> QED BY <1>1, <1>2, <1>3, DropsStep

LEMMA CycleUpsertsSubscriber ==
    ASSUME Deployment, WorldOk, TrackerOk, CycleOk, UpsertsSubscriber
    PROVE  CycleOk'
<1>1. Busy /\ Calm /\ tracker' = tracker
      /\ cycle' = [cycle EXCEPT !.flight = [id |-> subs'[Now.of].id]]
  BY DEF UpsertsSubscriber, Calm, world, ghosts
<1>2. Running /\ DOMAIN cycle = Fields /\ List(cycle.todo)
  BY <1>1, BusyRuns
<1>3. SameReadings /\ cycle'.todo = cycle.todo
  BY <1>1, <1>2 DEF SameReadings, SameStart, Fields
<1> QED BY <1>1, <1>2, <1>3, DropsStep

LEMMA CycleMissesSubscriber ==
    ASSUME Deployment, WorldOk, TrackerOk, CycleOk, MissesSubscriber
    PROVE  CycleOk'
<1>1. Busy /\ Calm /\ tracker' = tracker
      /\ cycle' = [cycle EXCEPT !.errors = TRUE, !.todo = Tail(cycle.todo)]
  BY DEF MissesSubscriber, Calm, world, tables
<1>2. /\ Running /\ DOMAIN cycle = Fields
      /\ List(Tail(cycle.todo)) /\ ToSet(Tail(cycle.todo)) \subseteq ToSet(cycle.todo)
  BY <1>1, BusyRuns
<1>3. SameReadings /\ cycle'.todo = Tail(cycle.todo)
  BY <1>1, <1>2 DEF SameReadings, SameStart, Fields
<1> QED BY <1>1, <1>2, <1>3, DropsStep

-----------------------------------------------------------------------------
(* What the cycle reads.                                                   *)
LEMMA SincePositive ==
    ASSUME WorldOk, Begun, NEW x \in Subjects
    PROVE  Since(x) \in Nat
<1>1. sent[x] \in Nat /\ cycle.sent0[x] \in Nat /\ cycle.sent0[x] <= sent[x]
  BY DEF WorldOk, Begun
<1> QED BY <1>1 DEF Since

LEMMA SessionHeard ==
    ASSUME Deployment, WorldOk, TrackerOk, Begun, NEW l \in Logins, session[l] # None, NEW r
    PROVE  Heard(SessionOf(l, r))
<1>1. PICK it : it = SessionOf(l, r)
  OBVIOUS
<1>2. /\ it.what = "session" /\ it.of = l /\ it.address = session[l].address /\ it.count = session[l].count
      /\ DOMAIN it = {"what", "of", "router", "address", "up", "count"}
  BY <1>1 DEF SessionOf
<1>3. l \in Subjects /\ session[l].count \in Nat
  BY SubjectsSplit, SessionFields
<1>4. Since(l) \in Nat
  BY <1>3, SincePositive
<1>5. ASSUME NEW k \in DOMAIN tracker, k[2] = l, k[3] = "interface" PROVE Follows(k, it.count)
  <2>1. PICK S : S = tracker[k]
    OBVIOUS
  <2>2. SnapOk(k, S)
    BY <2>1 DEF TrackerOk
  <2>3. S.shifts = shifts[l] /\ S.count # None
          => Valid(l, "interface") /\ Gauge(l, "interface") - S.count <= sent[l] - S.sent
    BY <1>5, <2>2 DEF SnapOk
  <2>4. Gauge(l, "interface") = session[l].count
    BY DEF Gauge, GaugeLogin
  <2> QED BY <1>2, <1>5, <2>1, <2>3, <2>4 DEF Follows
<1>6. SessionOk(it)
  BY <1>2, <1>3, <1>4, <1>5 DEF SessionOk
<1> QED BY <1>1, <1>2, <1>6 DEF Heard

LEMMA SessionsHeard ==
    ASSUME Deployment, WorldOk, TrackerOk, Begun, NEW r
    PROVE  List(SessionsOn(r)) /\ \A it \in ToSet(SessionsOn(r)) : Heard(it)
<1> DEFINE n == Len(LoginOrder)
           I == {i \in 1..n : RouterOf[LoginOrder[i]] = r /\ session[LoginOrder[i]] # None}
           f == [i \in 1..n |-> SessionOf(LoginOrder[i], r)]
           ss == [i \in 1..n |-> IF RouterOf[LoginOrder[i]] = r /\ session[LoginOrder[i]] # None
                                 THEN <<SessionOf(LoginOrder[i], r)>> ELSE <<>>]
<1>1. n \in Nat /\ \A i \in 1..n : LoginOrder[i] \in Logins
  BY DEF Deployment, Typed, List, Logins, ToSet
<1>2. Picks(ss, n, I, f)
  BY <1>1 DEF Picks
<1>3. SessionsOn(r) = FlattenSeq(ss)
  BY DEF SessionsOn
<1>4. ASSUME NEW i \in I PROVE Heard(f[i])
  BY <1>1, <1>4, SessionHeard
<1> HIDE DEF n, I, f, ss
<1>5. List(FlattenSeq(ss)) /\ ToSet(FlattenSeq(ss)) = {f[i] : i \in I \cap 1..n}
  BY <1>1, <1>2, Picked
<1> QED BY <1>3, <1>4, <1>5

LEMMA CycleReadsSessions ==
    ASSUME Deployment, WorldOk, TrackerOk, CycleOk, NEW r, NEW ok, ReadsSessions(r, ok)
    PROVE  CycleOk'
<1>1. /\ Running /\ Calm /\ tracker' = tracker
      /\ cycle' = [cycle EXCEPT !.got = Put(cycle.got, r, IF ok THEN SessionsOn(r) ELSE None)]
  BY DEF ReadsSessions, Phase, Running, Calm, world, tables, ghosts
<1>2. PICK X : X = (IF ok THEN SessionsOn(r) ELSE None) /\ cycle' = [cycle EXCEPT !.got = Put(cycle.got, r, X)]
  BY <1>1
<1>3. /\ DOMAIN cycle = Fields /\ Begun /\ FilesOk /\ RecordsOk(cycle.records) /\ PortsOk(cycle.ports)
      /\ ItemsOk /\ GotOk
  BY <1>1 DEF CycleOk
<1>4. /\ SameStart /\ DOMAIN cycle' = Fields /\ cycle'.files = cycle.files /\ cycle'.ports = cycle.ports
      /\ cycle'.records = cycle.records /\ cycle'.todo = cycle.todo
      /\ cycle'.got = Put(cycle.got, r, X)
  BY <1>2, <1>3 DEF SameStart, Fields
<1>5. WorldStep
  BY <1>1, CalmSteady
<1>6. Begun' /\ FilesOk' /\ RecordsOk(cycle.records)' /\ PortsOk(cycle.ports)'
  BY <1>1, <1>3, <1>4, <1>5, KeepBegun, KeepFiles, KeepRecords, KeepPorts
<1>7. ItemsOk'
  <2>1. List(cycle'.todo)
    BY <1>3, <1>4 DEF ItemsOk
  <2> QED BY <1>1, <1>3, <1>4, <1>5, <2>1, KeepItems
<1>8. ASSUME NEW q \in DOMAIN cycle'.got, cycle'.got[q] # None
      PROVE  List(cycle'.got[q]) /\ \A it \in ToSet(cycle'.got[q]) : Heard(it)'
  <2>1. List(cycle'.got[q]) /\ \A it \in ToSet(cycle'.got[q]) : Heard(it)
    <3>1. CASE q = r
      <4>1. cycle'.got[q] = X
        BY <1>4, <3>1 DEF Put
      <4>2. X = SessionsOn(r)
        BY <1>2, <1>8, <4>1
      <4> QED BY <1>3, <4>1, <4>2, SessionsHeard
    <3>2. CASE q # r
      <4>1. q \in DOMAIN cycle.got /\ cycle'.got[q] = cycle.got[q]
        BY <1>4, <1>8, <3>2 DEF Put
      <4> QED BY <1>3, <1>8, <4>1 DEF GotOk
    <3> QED BY <3>1, <3>2
  <2>2. ASSUME NEW it \in ToSet(cycle'.got[q]) PROVE Heard(it)'
    BY <1>1, <1>3, <1>4, <1>5, <2>1, <2>2, KeepSession DEF Heard
  <2> QED BY <2>1, <2>2
<1>9. GotOk'
  BY <1>8 DEF GotOk
<1> QED BY <1>4, <1>6, <1>7, <1>9 DEF CycleOk

LEMMA QueuesRight ==
    ASSUME Deployment, WorldOk, Begun, NEW r
    PROVE  FileOk(QueuesOf(r), r) /\ FileOk(<<>>, r)
<1>1. PICK F : F = QueuesOf(r) /\ F = [t \in Present(r) |-> queue[t]]
  BY DEF QueuesOf, Present
<1>2. \A t \in DOMAIN F : t \in Targets /\ t \in Present(r) /\ queue[t] \in Nat /\ queue[t] # None /\ F[t] = queue[t]
  BY <1>1 DEF Present, WorldOk
<1>3. \A x \in Subjects : Since(x) \in Nat
  BY SincePositive
<1>4. FileOk(F, r)
  <2>1. \A t \in DOMAIN F, x \in Subjects : queue[t] # None /\ F[t] <= queue[t] /\ queue[t] - F[t] <= Since(x)
    BY <1>2, <1>3
  <2>2. DOMAIN F = Present(r) /\ DOMAIN F \subseteq Targets /\ \A t \in DOMAIN F : F[t] \in Nat
    BY <1>1, <1>2
  <2> HIDE DEF FileOk
  <2> QED BY <2>1, <2>2, SubjectsSplit DEF FileOk
<1>5. FileOk(<<>>, r)
  BY DEF FileOk
<1> QED BY <1>1, <1>4, <1>5

LEMMA CycleReadsQueues ==
    ASSUME Deployment, WorldOk, TrackerOk, CycleOk, NEW r, NEW ok, ReadsQueues(r, ok)
    PROVE  CycleOk'
<1>1. /\ Running /\ Calm /\ tracker' = tracker
      /\ cycle' = [cycle EXCEPT !.files = Put(cycle.files, r, IF ok THEN QueuesOf(r) ELSE <<>>)]
  BY DEF ReadsQueues, Phase, Running, Calm, world, tables, ghosts
<1>2. PICK X : X = (IF ok THEN QueuesOf(r) ELSE <<>>)
               /\ cycle' = [cycle EXCEPT !.files = Put(cycle.files, r, X)]
  BY <1>1
<1>3. /\ DOMAIN cycle = Fields /\ Begun /\ FilesOk /\ RecordsOk(cycle.records) /\ PortsOk(cycle.ports)
      /\ ItemsOk /\ GotOk
  BY <1>1 DEF CycleOk
<1>4. /\ SameStart /\ DOMAIN cycle' = Fields /\ cycle'.got = cycle.got /\ cycle'.ports = cycle.ports
      /\ cycle'.records = cycle.records /\ cycle'.todo = cycle.todo
      /\ cycle'.files = Put(cycle.files, r, X)
  BY <1>2, <1>3 DEF SameStart, Fields
<1>5. WorldStep
  BY <1>1, CalmSteady
<1>6. Begun' /\ GotOk' /\ RecordsOk(cycle.records)' /\ PortsOk(cycle.ports)'
  BY <1>1, <1>3, <1>4, <1>5, KeepBegun, KeepGot, KeepRecords, KeepPorts
<1>7. ItemsOk'
  <2>1. List(cycle'.todo)
    BY <1>3, <1>4 DEF ItemsOk
  <2> QED BY <1>1, <1>3, <1>4, <1>5, <2>1, KeepItems
<1>8. ASSUME NEW q \in DOMAIN cycle'.files PROVE FileOk(cycle.files[q], q)'
  <2>1. PICK F : F = cycle'.files[q]
    OBVIOUS
  <2>2. FileOk(F, q)
    <3>1. CASE q = r
      <4>1. F = X
        BY <1>4, <2>1, <3>1 DEF Put
      <4> QED BY <1>2, <1>3, <3>1, <4>1, QueuesRight
    <3>2. CASE q # r
      <4>1. q \in DOMAIN cycle.files /\ F = cycle.files[q]
        BY <1>4, <1>8, <2>1, <3>2 DEF Put
      <4> QED BY <1>3, <4>1 DEF FilesOk
    <3> QED BY <3>1, <3>2
  <2>3. FileOk(F, q)'
    BY <1>3, <1>4, <1>5, <2>2, KeepFile
  <2> QED BY <2>1, <2>3
<1>9. FilesOk'
  BY <1>8 DEF FilesOk
<1> QED BY <1>4, <1>6, <1>7, <1>9 DEF CycleOk

-----------------------------------------------------------------------------
(* What the cycle prepares: the groups by router, the static clients.       *)
Made(ss, n) == n \in Nat /\ ss = [i \in 1..n |-> ss[i]] /\ \A i \in 1..n : List(ss[i])

LEMMA FlattenedLists ==
    ASSUME NEW n, NEW ss, Made(ss, n)
    PROVE  List(FlattenSeq(ss)) /\ ToSet(FlattenSeq(ss)) = UNION {ToSet(ss[i]) : i \in 1..n}
<1> DEFINE T == UNION {ToSet(ss[i]) : i \in 1..n}
<1>1. \A i \in 1..n : ss[i] \in Seq(T)
  <2> SUFFICES ASSUME NEW i \in 1..n PROVE ss[i] \in Seq(T)
    OBVIOUS
  <2>1. ss[i] \in Seq(ToSet(ss[i])) /\ ToSet(ss[i]) \subseteq T
    BY DEF Made, List
  <2> HIDE DEF T
  <2> QED BY <2>1, SeqMonotonic
<1> HIDE DEF T
<1>2. ss \in Seq(Seq(T)) /\ DOMAIN ss = 1..n
  <2>1. ss \in [1..n -> Seq(T)]
    BY <1>1 DEF Made
  <2> QED BY <2>1, SeqDef DEF Made
<1>3. FlattenSeq(ss) \in Seq(T) /\ ToSet(FlattenSeq(ss)) = UNION {ToSet(ss[i]) : i \in 1..n}
  BY <1>2, Flattened
<1> QED BY <1>3, SomeRows

LEMMA TwoLists ==
    ASSUME NEW s, NEW u, List(s), List(u)
    PROVE  List(s \o u) /\ ToSet(s \o u) = ToSet(s) \cup ToSet(u)
<1>1. PICK T : T = ToSet(s) \cup ToSet(u)
  OBVIOUS
<1>2. s \in Seq(T) /\ u \in Seq(T)
  BY <1>1, SeqMonotonic DEF List
<1>3. s \o u \in Seq(T) /\ ToSet(s \o u) = ToSet(s) \cup ToSet(u)
  BY <1>2, ConcatParts
<1> QED BY <1>3, SomeRows

LEMMA PairList ==
    ASSUME NEW p, NEW q
    PROVE  List(<<p, q>>) /\ ToSet(<<p, q>>) = {p, q} /\ List(<<>>) /\ ToSet(<<>>) = {}
<1>1. <<p, q>> \in Seq({p, q}) /\ <<>> \in Seq({p, q})
  OBVIOUS
<1>2. DOMAIN <<p, q>> = 1..2 /\ 1..2 = {1, 2} /\ <<p, q>>[1] = p /\ <<p, q>>[2] = q
  OBVIOUS
<1>3. ToSet(<<p, q>>) = {p, q}
  BY <1>2 DEF ToSet
<1>4. ToSet(<<>>) = {}
  BY DEF ToSet
<1> QED BY <1>1, <1>3, <1>4, SomeRows

\* One group: a site, the plans it asks, the sessions under the router's name.
LEMMA GroupOk ==
    ASSUME NEW A, List(A), \A it \in ToSet(A) : Heard(it), NEW router
    PROVE  List(Group(router, A)) /\ \A it \in ToSet(Group(router, A)) : ItemOk(it)
<1>1. PICK n \in Nat : n = Len(A) /\ DOMAIN A = 1..n /\ \A i \in 1..n : A[i] \in ToSet(A)
  BY DEF List, ToSet
<1>2. PICK own : own = [i \in 1..n |-> [A[i] EXCEPT !.router = router]]
  OBVIOUS
<1>3. PICK p, q : /\ p = [what |-> "pop", name |-> PopOf[router], as |-> <<"router", None>>,
                          needs |-> Len(own) + 1]
                  /\ q = [what |-> "plans", of |-> {own[i].of : i \in 1..Len(own)}]
  OBVIOUS
<1>4. Group(router, A) = <<p, q>> \o own
  BY <1>1, <1>2, <1>3 DEF Group
<1>5. Len(own) = n /\ DOMAIN own = 1..n /\ List(own)
  <2>1. own \in Seq({own[i] : i \in 1..n}) /\ Len(own) = n /\ DOMAIN own = 1..n
    BY <1>2
  <2> QED BY <2>1, SomeRows
<1>6. ItemOk(p) /\ ItemOk(q)
  BY <1>1, <1>3, <1>5 DEF ItemOk
<1>7. ASSUME NEW jt \in ToSet(own) PROVE ItemOk(jt)
  <2>1. PICK i \in 1..n : jt = [A[i] EXCEPT !.router = router]
    BY <1>2, <1>5 DEF ToSet
  <2>2. PICK it : it = A[i] /\ Heard(it)
    BY <1>1
  <2>3. jt.what = "session" /\ jt.of = it.of /\ jt.count = it.count /\ jt.address = it.address
    BY <2>1, <2>2 DEF Heard
  <2>4. SessionOk(jt)
    BY <2>2, <2>3 DEF Heard, SessionOk
  <2> QED BY <2>3, <2>4 DEF ItemOk
<1>8. List(<<p, q>> \o own) /\ ToSet(<<p, q>> \o own) = {p, q} \cup ToSet(own)
  BY <1>5, PairList, TwoLists
<1> QED BY <1>4, <1>6, <1>7, <1>8

\* What the cycle is about to do, read at once.
LEMMA NewItems ==
    ASSUME WorldOk, WorldStep, Begun, SameStart, TrackerOk, tracker' = tracker,
           cycle'.records = cycle.records, List(cycle'.todo),
           \A it \in ToSet(cycle'.todo) : ItemOk(it)
    PROVE  ItemsOk'
<1> SUFFICES ASSUME NEW it \in ToSet(cycle'.todo) PROVE ItemOk(it)'
  BY DEF ItemsOk
<1> QED BY KeepItem

\* The routers asked are those of a list.
ListOk == Phase("sessions") => List(cycle.list)

LEMMA CyclePairs ==
    ASSUME Deployment, WorldOk, TrackerOk, CycleOk, ListOk, Pairs
    PROVE  CycleOk'
<1> DEFINE answer(i) == cycle.got[cycle.list[i]]
           n == Len(collectors)
           groups == [i \in 1..n |-> IF answer(i) = None THEN <<>> ELSE Group(collectors[i], answer(i))]
<1>1. /\ Running /\ Calm /\ tracker' = tracker /\ Phase("sessions") /\ ToSet(cycle.list) = DOMAIN cycle.got
  BY DEF Pairs, Phase, Running, Calm, world, tables, ghosts
<1>2. CASE n # Len(cycle.list)
  <2>1. cycle' = NoCycle
    BY <1>2 DEF Pairs
  <2> QED BY <2>1 DEF CycleOk, Running, NoCycle, Fields
<1>3. CASE n = Len(cycle.list)
  <2>1. \E L, E : cycle' = [cycle EXCEPT !.phase = "queues", !.got = <<>>, !.todo = FlattenSeq(groups),
                                        !.list = L, !.errors = E]
    BY <1>3 DEF Pairs
  <2>2. n \in Nat /\ \A i \in 1..n : cycle.list[i] \in DOMAIN cycle.got
    BY <1>1, <1>3 DEF ListOk, List, ToSet
  <2>3. /\ DOMAIN cycle = Fields /\ Begun /\ FilesOk /\ RecordsOk(cycle.records) /\ PortsOk(cycle.ports)
        /\ ItemsOk /\ GotOk
    BY <1>1 DEF CycleOk
  <2>4. ASSUME NEW i \in 1..n
        PROVE  List(groups[i]) /\ \A it \in ToSet(groups[i]) : ItemOk(it)
    <3>1. CASE answer(i) = None
      <4>1. groups[i] = <<>>
        BY <3>1
      <4> QED BY <4>1, PairList
    <3>2. CASE answer(i) # None
      <4>1. PICK A : A = answer(i)
        OBVIOUS
      <4>2. List(A) /\ \A it \in ToSet(A) : Heard(it)
        BY <2>2, <2>3, <3>2, <4>1 DEF GotOk
      <4>3. groups[i] = Group(collectors[i], A)
        BY <3>2, <4>1
      <4> HIDE DEF groups, answer
      <4> QED BY <4>2, <4>3, GroupOk
    <3> QED BY <3>1, <3>2
  <2>5. groups = [i \in 1..n |-> groups[i]]
    OBVIOUS
  <2> HIDE DEF groups, answer, n
  <2>6. List(FlattenSeq(groups)) /\ ToSet(FlattenSeq(groups)) = UNION {ToSet(groups[i]) : i \in 1..n}
    BY <2>2, <2>4, <2>5, FlattenedLists DEF Made
  <2>7. /\ SameStart /\ DOMAIN cycle' = Fields /\ cycle'.files = cycle.files /\ cycle'.ports = cycle.ports
        /\ cycle'.records = cycle.records /\ cycle'.todo = FlattenSeq(groups) /\ cycle'.got = <<>>
    BY <2>1, <2>3 DEF SameStart, Fields
  <2>8. WorldStep
    BY <1>1, CalmSteady
  <2>9. Begun' /\ FilesOk' /\ RecordsOk(cycle.records)' /\ PortsOk(cycle.ports)'
    BY <1>1, <2>3, <2>7, <2>8, KeepBegun, KeepFiles, KeepRecords, KeepPorts
  <2>10. \A it \in ToSet(cycle'.todo) : ItemOk(it)
    BY <2>4, <2>6, <2>7
  <2>11. ItemsOk'
    BY <1>1, <2>3, <2>6, <2>7, <2>8, <2>10, NewItems
  <2>12. GotOk'
    BY <2>7 DEF GotOk
  <2> QED BY <2>7, <2>9, <2>11, <2>12 DEF CycleOk
<1> QED BY <1>2, <1>3

LEMMA RecordsRight ==
    ASSUME Deployment, WorldOk, NEW there, there = {s \in Statics : declared[s] # None}
    PROVE  RecordsOk([s \in there |-> RecordOf(s)])
<1>1. PICK R : R = [s \in there |-> RecordOf(s)]
  OBVIOUS
<1>2. DOMAIN R = there /\ \A s \in there : R[s].home = Home(s)
  BY <1>1 DEF RecordOf, Home
<1>3. ASSUME NEW s \in there, NEW x \in there, Clients[s].vlan = Clients[x].vlan, Clients[s].vlan # None
      PROVE  R[s].home = R[x].home
  <2>1. collectors \in RouterLists
    BY DEF WorldOk
  <2>2. Home(s) = Home(x)
    BY <1>3, <2>1 DEF Deployment, OneHome, Home
  <2> QED BY <1>2, <2>2
<1>4. RecordsOk(R)
  BY <1>2, <1>3 DEF RecordsOk, Members
<1> QED BY <1>1, <1>4

LEMMA CycleReadsRecords ==
    ASSUME Deployment, WorldOk, TrackerOk, CycleOk, NEW ok, ReadsRecords(ok)
    PROVE  CycleOk'
<1> DEFINE there == {s \in Statics : declared[s] # None}
<1>1. /\ Running /\ Calm /\ tracker' = tracker /\ cycle.todo = <<>>
  BY DEF ReadsRecords, Phase, Running, Calm, world, tables, ghosts
<1>2. CASE ok /\ there # {}
  <2>1. \E L : cycle' = [cycle EXCEPT !.phase = "counters", !.list = L,
                                     !.records = [s \in there |-> RecordOf(s)]]
    BY <1>2 DEF ReadsRecords
  <2>2. PICK R : R = [s \in there |-> RecordOf(s)] /\ RecordsOk(R)
    BY RecordsRight
  <2> HIDE DEF there
  <2>3. /\ DOMAIN cycle = Fields /\ Begun /\ FilesOk /\ PortsOk(cycle.ports) /\ ItemsOk /\ GotOk
    BY <1>1 DEF CycleOk
  <2>4. \E L : cycle' = [cycle EXCEPT !.phase = "counters", !.list = L, !.records = R]
    BY <2>1, <2>2
  <2>5. /\ SameStart /\ DOMAIN cycle' = Fields /\ cycle'.files = cycle.files /\ cycle'.ports = cycle.ports
        /\ cycle'.records = R /\ cycle'.todo = <<>> /\ cycle'.got = cycle.got
    BY <1>1, <2>3, <2>4 DEF SameStart, Fields
  <2>6. WorldStep
    BY <1>1, CalmSteady
  <2>7. Begun' /\ FilesOk' /\ GotOk' /\ PortsOk(cycle.ports)'
    BY <1>1, <2>3, <2>5, <2>6, KeepBegun, KeepFiles, KeepGot, KeepPorts
  <2>8. ItemsOk'
    BY <2>5, PairList DEF ItemsOk
  <2>9. RecordsOk(R)'
    <3>1. \A s \in Statics : Home(s)' = Home(s) /\ (Unmoved(s)' <=> Unmoved(s))
      BY <1>1, <2>5 DEF Calm, Home, Unmoved, SameStart
    <3> QED BY <1>1, <2>2, <3>1 DEF RecordsOk, Calm
  <2>10. RecordsOk(cycle.records)'
    BY <2>5, <2>9
  <2> QED BY <2>5, <2>7, <2>8, <2>10 DEF CycleOk
<1>3. CASE ~(ok /\ there # {})
  <2>1. \E E : cycle' = [cycle EXCEPT !.phase = "records read", !.errors = E]
    BY <1>3 DEF ReadsRecords
  <2>2. DOMAIN cycle = Fields /\ List(cycle.todo)
    BY <1>1 DEF CycleOk, ItemsOk
  <2>3. SameReadings /\ cycle'.todo = cycle.todo
    BY <2>1, <2>2 DEF SameReadings, SameStart, Fields
  <2> QED BY <1>1, <2>2, <2>3, DropsStep
<1> QED BY <1>2, <1>3

LEMMA PortsRight ==
    ASSUME Deployment, WorldOk, Begun, NEW read, read \subseteq DOMAIN Ports,
           \A i \in read, j \in DOMAIN Ports : Ports[i].router = Ports[j].router => j \in read
    PROVE  PortsOk([i \in read |-> port[i]])
<1>1. PICK P : P = [i \in read |-> port[i]]
  OBVIOUS
<1>2. DOMAIN P = read /\ \A i \in read : P[i] = port[i] /\ port[i] \in Nat
  BY <1>1 DEF WorldOk
<1>3. \A s \in Statics : Since(s) \in Nat
  BY SincePositive, SubjectsSplit
<1>4. PortsOk(P)
  BY <1>2, <1>3 DEF PortsOk
<1> QED BY <1>1, <1>4

LEMMA CycleReadsPorts ==
    ASSUME Deployment, WorldOk, TrackerOk, CycleOk, NEW ok, ReadsPorts(ok)
    PROVE  CycleOk'
<1> DEFINE R == cycle.records
           n == Len(ClientOrder)
           two(s) == <<[what |-> "pop", name |-> PopFor(s, R).name, as |-> PopFor(s, R).as, needs |-> 1],
                       [what |-> "client", of |-> s]>>
           read == {i \in DOMAIN Ports : ok /\ \E s \in DOMAIN R :
                        Clients[s].vlan # None /\ R[s].home = Ports[i].router}
           ss == [i \in 1..n |-> IF ClientOrder[i] \in DOMAIN R THEN two(ClientOrder[i]) ELSE <<>>]
<1>1. /\ Running /\ Calm /\ tracker' = tracker
      /\ cycle' = [cycle EXCEPT !.phase = "records read", !.ports = [i \in read |-> port[i]],
                                !.todo = FlattenSeq(ss)]
  BY DEF ReadsPorts, Phase, Running, Calm, world, tables, ghosts
<1>2. /\ DOMAIN cycle = Fields /\ Begun /\ FilesOk /\ RecordsOk(cycle.records) /\ ItemsOk /\ GotOk
  BY <1>1 DEF CycleOk
<1>3. PICK P : P = [i \in read |-> port[i]] /\ PortsOk(P)
  <2>1. /\ read \subseteq DOMAIN Ports
        /\ \A i \in read, j \in DOMAIN Ports : Ports[i].router = Ports[j].router => j \in read
    OBVIOUS
  <2> HIDE DEF read
  <2> QED BY <1>2, <2>1, PortsRight
<1>4. ASSUME NEW i \in 1..n PROVE List(ss[i]) /\ \A it \in ToSet(ss[i]) : ItemOk(it)
  <2>1. CASE ClientOrder[i] \in DOMAIN R
    <3>1. PICK s, p, q : /\ s = ClientOrder[i] /\ s \in DOMAIN cycle.records
                         /\ p = [what |-> "pop", name |-> PopFor(s, R).name, as |-> PopFor(s, R).as,
                                 needs |-> 1]
                         /\ q = [what |-> "client", of |-> s]
      BY <2>1
    <3>2. ss[i] = <<p, q>>
      BY <2>1, <3>1
    <3>3. ItemOk(p) /\ ItemOk(q)
      BY <3>1 DEF ItemOk
    <3> HIDE DEF ss
    <3> QED BY <3>2, <3>3, PairList
  <2>2. CASE ClientOrder[i] \notin DOMAIN R
    <3>1. ss[i] = <<>>
      BY <2>2
    <3> HIDE DEF ss
    <3> QED BY <3>1, PairList
  <2> QED BY <2>1, <2>2
<1>5. n \in Nat /\ ss = [i \in 1..n |-> ss[i]]
  BY DEF Deployment, Typed, List
<1> HIDE DEF R, n, two, read, ss
<1>6. List(FlattenSeq(ss)) /\ ToSet(FlattenSeq(ss)) = UNION {ToSet(ss[i]) : i \in 1..n}
  BY <1>4, <1>5, FlattenedLists DEF Made
<1>7. /\ SameStart /\ DOMAIN cycle' = Fields /\ cycle'.files = cycle.files /\ cycle'.ports = P
      /\ cycle'.records = cycle.records /\ cycle'.todo = FlattenSeq(ss) /\ cycle'.got = cycle.got
  BY <1>1, <1>2, <1>3 DEF SameStart, Fields
<1>8. WorldStep
  BY <1>1, CalmSteady
<1>9. Begun' /\ FilesOk' /\ RecordsOk(cycle.records)' /\ GotOk'
  BY <1>1, <1>2, <1>7, <1>8, KeepBegun, KeepFiles, KeepRecords, KeepGot
<1>10. \A it \in ToSet(cycle'.todo) : ItemOk(it)
  BY <1>4, <1>6, <1>7
<1>11. ItemsOk'
  BY <1>1, <1>2, <1>6, <1>7, <1>8, <1>10, NewItems
<1>12. PortsOk(P)'
  <2>1. \A s \in Statics : (Unmoved(s)' <=> Unmoved(s)) /\ (Alone(s)' <=> Alone(s)) /\ Since(s)' = Since(s)
    BY <1>1, <1>7 DEF Calm, Alone, Unmoved, Since, SameStart
  <2> QED BY <1>1, <1>3, <2>1 DEF PortsOk, Calm
<1>13. PortsOk(cycle.ports)'
  BY <1>7, <1>12
<1> QED BY <1>7, <1>9, <1>11, <1>13 DEF CycleOk

-----------------------------------------------------------------------------
(* The ends of the cycle.                                                   *)
LEMMA StartsInv ==
    ASSUME Deployment, NotAFunction(None), WorldOk, TrackerOk, CycleOk,
           NEW d \in Nat, Starts(d)
    PROVE  TrackerOk' /\ CycleOk' /\ ListOk'
<1>1. WorldStep
  BY SteadyStarts
<1>2. /\ sent' = sent /\ shifts' = shifts
      /\ cycle' = [NoCycle EXCEPT !.phase = "sessions", !.list = collectors, !.sent0 = sent, !.shifts0 = shifts]
      /\ tracker' = [k \in DOMAIN tracker |-> [tracker[k] EXCEPT !.age = Capped(tracker[k].age + d)]]
  BY DEF Starts, ghosts
<1>3. ASSUME NEW k \in DOMAIN tracker
      PROVE  SnapOk(k, tracker[k])' /\ tracker'[k].shifts = tracker[k].shifts
  <2>1. PICK S, a : S = tracker[k] /\ a = Capped(S.age + d)
    OBVIOUS
  <2>2. SnapOk(k, S)
    BY <2>1 DEF TrackerOk
  <2>3. SnapOk(k, S)'
    BY <1>1, <2>2, KeepSnap
  <2>4. a \in Nat
    BY <2>1, <2>2 DEF SnapOk, Capped, Deployment, Typed
  <2>5. PICK V : V = [S EXCEPT !.age = a] /\ V = tracker'[k]
    BY <1>2, <2>1
  <2>6. /\ DOMAIN V = {"count", "uptime", "age", "sent", "shifts"} /\ V.age = a /\ V.count = S.count
        /\ V.sent = S.sent /\ V.shifts = S.shifts
    BY <2>2, <2>5 DEF SnapOk
  <2>7. SnapOk(k, V)'
    BY <2>3, <2>4, <2>6 DEF SnapOk
  <2> QED BY <2>1, <2>5, <2>6, <2>7
<1>4. DOMAIN tracker' = DOMAIN tracker
  BY <1>2
<1>5. TrackerOk'
  BY <1>3, <1>4 DEF TrackerOk
<1>6. /\ DOMAIN cycle' = Fields /\ cycle'.phase = "sessions" /\ cycle'.list = collectors
      /\ cycle'.sent0 = sent /\ cycle'.shifts0 = shifts /\ cycle'.files = <<>> /\ cycle'.ports = <<>>
      /\ cycle'.records = <<>> /\ cycle'.todo = <<>> /\ cycle'.got = <<>>
  BY <1>2 DEF NoCycle, Fields
<1>7. Begun'
  <2>1. \A x \in Subjects : sent[x] \in Nat /\ shifts[x] \in Nat
    BY DEF WorldOk
  <2>2. \A k \in DOMAIN tracker : tracker[k].shifts <= shifts[k[2]]
    BY DEF TrackerOk, SnapOk
  <2>3. sent \in [Subjects -> Nat] /\ shifts \in [Subjects -> Nat]
    BY DEF WorldOk
  <2>4. \A x \in Subjects : cycle'.sent0[x] <= sent'[x] /\ cycle'.shifts0[x] <= shifts'[x]
    BY <1>2, <1>6, <2>1
  <2>5. \A k \in DOMAIN tracker' : tracker'[k].shifts <= cycle'.shifts0[k[2]]
    BY <1>3, <1>4, <1>6, <2>2
  <2>6. cycle'.sent0 \in [Subjects -> Nat] /\ cycle'.shifts0 \in [Subjects -> Nat]
    BY <1>6, <2>3
  <2> QED BY <2>4, <2>5, <2>6 DEF Begun
<1>8. FilesOk' /\ GotOk'
  BY <1>6 DEF FilesOk, GotOk
<1>9. RecordsOk(cycle.records)' /\ PortsOk(cycle.ports)'
  <2>1. RecordsOk(<<>>)' /\ PortsOk(<<>>)'
    BY DEF RecordsOk, PortsOk
  <2> QED BY <1>6, <2>1
<1>10. ItemsOk'
  BY <1>6, PairList DEF ItemsOk
<1>11. ListOk'
  <2>1. List(collectors)
    BY DEF WorldOk, Deployment, Typed
  <2> QED BY <1>6, <2>1 DEF ListOk
<1> QED BY <1>5, <1>6, <1>7, <1>8, <1>9, <1>10, <1>11 DEF CycleOk

LEMMA ClosesInv ==
    ASSUME Deployment, WorldOk, TrackerOk, CycleOk, Closes
    PROVE  TrackerOk' /\ CycleOk'
<1>1. /\ Calm /\ tracker' = [k \in DOMAIN tracker \cap cycle.active |-> tracker[k]]
      /\ cycle' = [NoCycle EXCEPT !.phase = "write", !.rows = cycle.rows, !.errors = cycle.errors]
  BY DEF Closes, Calm, world, tables, ghosts
<1>2. WorldStep
  BY <1>1, CalmSteady
<1>3. ASSUME NEW k \in DOMAIN tracker' PROVE SnapOk(k, tracker[k])'
  <2>1. PICK S : S = tracker[k] /\ S = tracker'[k] /\ k \in DOMAIN tracker
    BY <1>1
  <2>2. SnapOk(k, S)
    BY <2>1 DEF TrackerOk
  <2>3. SnapOk(k, S)'
    BY <1>2, <2>2, KeepSnap
  <2> QED BY <2>1, <2>3
<1>4. DOMAIN cycle' = Fields /\ cycle'.phase = "write"
  BY <1>1 DEF NoCycle, Fields
<1> QED BY <1>3, <1>4 DEF TrackerOk, CycleOk, Running

LEMMA WritesInv ==
    ASSUME Deployment, WorldOk, TrackerOk, NEW ok, Writes(ok)
    PROVE  TrackerOk' /\ CycleOk'
<1>1. Calm /\ tracker' = tracker /\ cycle' = NoCycle
  BY DEF Writes, Calm, world, tables, ghosts
<1>2. WorldStep
  BY <1>1, CalmSteady
<1>3. TrackerOk'
  BY <1>1, <1>2, KeepTracker
<1>4. CycleOk'
  BY <1>1 DEF CycleOk, Running, NoCycle, Fields
<1> QED BY <1>3, <1>4

-----------------------------------------------------------------------------
(* The reading of a subject: a counter that is valid, behind it by no more *)
(* than what the subject has sent since the cycle began.                   *)
ReadingOk(x, source, c) ==
    /\ c \in Nat \cup {None}
    /\ c # None /\ Unmoved(x) =>
          /\ Valid(x, source) /\ Gauge(x, source) - c <= Since(x)
          /\ x \notin Logins \/ source = "queue" => c <= Gauge(x, source)

LEMMA AtOne ==
    ASSUME NEW F, NEW a
    PROVE  At(F, <<a>>) = IF a \in DOMAIN F THEN F[a] ELSE None
<1>1. Len(<<a>>) = 1 /\ 1..1 = {1} /\ <<a>>[1] = a
  OBVIOUS
<1>2. CASE a \in DOMAIN F
  <2>1. {i \in 1..Len(<<a>>) : <<a>>[i] \in DOMAIN F} = {1}
    BY <1>1, <1>2
  <2>2. Earliest({1}) = 1
    BY DEF Earliest
  <2> QED BY <1>1, <1>2, <2>1, <2>2 DEF At
<1>3. CASE a \notin DOMAIN F
  <2>1. {i \in 1..Len(<<a>>) : <<a>>[i] \in DOMAIN F} = {}
    BY <1>1, <1>3
  <2> QED BY <1>3, <2>1 DEF At
<1> QED BY <1>2, <1>3

LEMMA FilesOfOk == ASSUME FilesOk, NEW r PROVE FileOk(FilesOf(r), r)
<1>1. CASE r \in DOMAIN cycle.files
  BY <1>1 DEF FilesOk, FilesOf
<1>2. CASE r \notin DOMAIN cycle.files
  <2>1. FileOk(<<>>, r)
    BY DEF FileOk
  <2> QED BY <1>2, <2>1 DEF FilesOf
<1> QED BY <1>1, <1>2

LEMMA SessionReading ==
    ASSUME Deployment, WorldOk, Begun, FilesOk, NEW it, it.what = "session", SessionOk(it)
    PROVE  \E source \in {"queue", "interface"} :
              /\ Reading(it).key = <<it.router, it.of, source>>
              /\ ReadingOk(it.of, source, Reading(it).count)
              /\ source = "interface" => Reading(it).count = it.count
<1>1. PICK l, a : /\ l = it.of /\ a = it.address /\ l \in Logins /\ l \in Subjects /\ it.count \in Nat
                  /\ Unmoved(l) => /\ session[l] # None /\ session[l].address = a
                                   /\ session[l].count - it.count <= Since(l)
  BY SubjectsSplit DEF SessionOk
<1>2. PICK F : F = FilesOf(it.router) /\ FileOk(F, it.router)
  BY FilesOfOk
<1>3. None \notin Int
  BY DEF Deployment, Typed
<1>4. CASE a \in DOMAIN F
  <2>1. At(F, <<a>>) = F[a] /\ F[a] \in Nat /\ F[a] # None /\ a \in Targets
    BY <1>2, <1>3, <1>4, AtOne DEF FileOk
  <2>2. Reading(it).key = <<it.router, l, "queue">> /\ Reading(it).count = F[a]
    BY <1>1, <1>2, <2>1 DEF Reading, Key
  <2>3. ASSUME Unmoved(l)
        PROVE  /\ Valid(l, "queue") /\ Gauge(l, "queue") - F[a] <= Since(l)
               /\ F[a] <= Gauge(l, "queue")
    <3>1. session[l] # None /\ session[l].address = a
      BY <1>1, <2>3
    <3>2. queue[a] # None /\ F[a] <= queue[a] /\ queue[a] - F[a] <= Since(l)
      BY <1>1, <1>2, <1>4, <2>3, <3>1 DEF FileOk
    <3> QED BY <1>1, <2>1, <3>1, <3>2 DEF Valid, ValidLogin, Gauge, GaugeLogin
  <2>4. ReadingOk(l, "queue", F[a])
    BY <2>1, <2>3 DEF ReadingOk
  <2> QED BY <1>1, <2>2, <2>4
<1>5. CASE a \notin DOMAIN F
  <2>1. At(F, <<a>>) = None
    BY <1>5, AtOne
  <2>2. Reading(it).key = <<it.router, l, "interface">> /\ Reading(it).count = it.count
    BY <1>1, <1>2, <2>1 DEF Reading, Key
  <2>3. ASSUME Unmoved(l) PROVE Valid(l, "interface") /\ Gauge(l, "interface") - it.count <= Since(l)
    BY <1>1, <2>3 DEF Valid, ValidLogin, Gauge, GaugeLogin
  <2>4. ReadingOk(l, "interface", it.count)
    BY <1>1, <2>3 DEF ReadingOk
  <2> QED BY <1>1, <2>2, <2>4
<1> QED BY <1>4, <1>5

LEMMA AtNat ==
    ASSUME Deployment, NEW F, \A t \in DOMAIN F : F[t] \in Nat, NEW list, List(list)
    PROVE  /\ At(F, list) # None <=> Hit(list, DOMAIN F) # {}
           /\ At(F, list) # None => At(F, list) = F[Pick(list, DOMAIN F)] /\ At(F, list) \in Nat
<1>1. None \notin Int
  BY DEF Deployment, Typed
<1>2. Hit(list, DOMAIN F) # {} => Pick(list, DOMAIN F) \in DOMAIN F
  BY Hits
<1> QED BY <1>1, <1>2, AtIs

\* The interface taken for a client is the only one of its VLAN at its home, and
\* the client is alone on it.
LEMMA SoleIs ==
    ASSUME Deployment, WorldOk, Begun, RecordsOk(cycle.records), PortsOk(cycle.ports),
           NEW s \in DOMAIN cycle.records, SoleFor(s) # None
    PROVE  \E i \in DOMAIN cycle.ports :
              /\ SoleFor(s) = [interface |-> i, count |-> cycle.ports[i], pppoe |-> Ports[i].pppoe,
                               networks |-> Ports[i].networks]
              /\ ~Ports[i].pppoe /\ Sole(s, cycle.records[s].home, i)
              /\ Unmoved(s) => Alone(s)
<1>1. PICK R, P, home, tag : /\ R = cycle.records /\ P = cycle.ports /\ home = R[s].home
                             /\ tag = Clients[s].vlan /\ s \in DOMAIN R
  OBVIOUS
<1> DEFINE rec(c) == [of |-> c, vlan |-> Clients[c].vlan, router |-> R[c].home]
           there(i) == [interface |-> i, count |-> P[i], pppoe |-> Ports[i].pppoe,
                        networks |-> Ports[i].networks]
           records == {rec(c) : c \in DOMAIN R}
           J == {j \in DOMAIN P : Ports[j].router = home /\ Ports[j].tag = tag}
           vlans == {there(i) : i \in J}
           O == {c \in records : c.vlan = tag /\ c.vlan # None /\ c.router = home}
<1>2. /\ home # None /\ tag # None
      /\ SoleFor(s) = SoleVlan(vlans, Occupancy(records, tag, home))
  BY <1>1 DEF SoleFor
<1>3. /\ Cardinality(O) = 1 /\ Cardinality(vlans) = 1
      /\ \A v \in vlans : ~v.pppoe /\ v.count # None
      /\ SoleFor(s) = CHOOSE v \in vlans : TRUE
  BY <1>2 DEF SoleVlan, Occupancy
<1>4. DOMAIN R \subseteq Statics /\ DOMAIN P \subseteq DOMAIN Ports
  BY <1>1 DEF RecordsOk, PortsOk
<1>5. IsFiniteSet(DOMAIN R) /\ IsFiniteSet(J)
  <2>1. J \subseteq DOMAIN Ports
    BY <1>4
  <2> HIDE DEF J
  <2> QED BY <1>4, <2>1, FS_Subset DEF Deployment, Typed
<1>6. IsFiniteSet(records) /\ IsFiniteSet(vlans)
  <2>1. [c \in DOMAIN R |-> rec(c)] \in Surjection(DOMAIN R, records)
    BY DEF Surjection
  <2>2. [j \in J |-> there(j)] \in Surjection(J, vlans)
    BY DEF Surjection
  <2> HIDE DEF J, rec, there, records, vlans
  <2> QED BY <1>5, <2>1, <2>2, FS_Surjection
<1>7. PICK o : O = {o}
  <2>1. O \subseteq records
    OBVIOUS
  <2> HIDE DEF O, records
  <2> QED BY <1>3, <1>6, <2>1, FS_Subset, FS_Singleton
<1>8. PICK v : vlans = {v}
  <2> HIDE DEF vlans
  <2> QED BY <1>3, <1>6, FS_Singleton
<1>9. PICK i \in J : v = there(i)
  <2>1. v \in vlans
    BY <1>8
  <2> QED BY <2>1
<1>10. J = {i}
  <2> SUFFICES ASSUME NEW j \in J PROVE j = i
    OBVIOUS
  <2>1. there(j) = v
    BY <1>8
  <2> HIDE DEF J
  <2> QED BY <1>9, <2>1
<1>11. SoleFor(s) = there(i) /\ ~Ports[i].pppoe
  <2>1. SoleFor(s) = v /\ ~v.pppoe
    <3> HIDE DEF vlans
    <3> QED BY <1>3, <1>8
  <2> QED BY <1>9, <2>1
<1>12. Sole(s, home, i)
  <2>1. {j \in DOMAIN Ports : Ports[j].router = home /\ Ports[j].tag = tag} = J
    <3> SUFFICES ASSUME NEW j \in DOMAIN Ports, Ports[j].router = home, Ports[j].tag = tag
                 PROVE  j \in DOMAIN P
      BY <1>4
    <3>1. i \in DOMAIN P /\ Ports[i].router = Ports[j].router
      OBVIOUS
    <3> QED BY <1>1, <3>1 DEF PortsOk
  <2>2. i \in DOMAIN Ports
    BY <1>4
  <2> HIDE DEF J
  <2> QED BY <1>1, <1>10, <2>1, <2>2 DEF Sole
<1>13. ASSUME Unmoved(s), NEW x \in Members(tag), declared[x] # None PROVE x = s
  <2>1. x \in DOMAIN R /\ R[x].home = home /\ Clients[x].vlan = tag
    BY <1>1, <1>2, <1>13 DEF RecordsOk, Members
  <2>2. rec(x) \in O /\ rec(s) \in O
    BY <1>1, <1>2, <2>1
  <2>3. rec(x) = rec(s)
    <3> HIDE DEF O, rec
    <3> QED BY <1>7, <2>2
  <2>4. rec(x).of = x /\ rec(s).of = s
    OBVIOUS
  <2> HIDE DEF rec
  <2> QED BY <2>3, <2>4
<1>14. Unmoved(s) => Alone(s)
  BY <1>1, <1>13 DEF Alone
<1>15. i \in DOMAIN P
  OBVIOUS
<1> QED BY <1>1, <1>11, <1>12, <1>14, <1>15

\* The counter chosen from the queues of a file, when an interface is given.
LEMMA MeasuredBy ==
    ASSUME Deployment, NEW F, \A t \in DOMAIN F : F[t] \in Nat, DOMAIN F \subseteq Targets,
           NEW s \in Statics, NEW i \in DOMAIN Ports, NEW n, Ports[i].tag = Clients[s].vlan,
           NEW sole, sole # None,
           sole = [interface |-> i, count |-> n, pppoe |-> Ports[i].pppoe, networks |-> Ports[i].networks]
    PROVE  IF Some(s, i, DOMAIN F)
           THEN /\ Measured(Clients[s], F, sole) = [source |-> "queue", count |-> F[Choice(s, i, DOMAIN F)]]
                /\ Choice(s, i, DOMAIN F) \in DOMAIN F
           ELSE Measured(Clients[s], F, sole) = [source |-> i, count |-> n]
<1> DEFINE D == DOMAIN F
           N == Ports[i].networks
           net == NetworkFor(Ports[i], Clients[s])
<1>0. sole.networks = N /\ sole.interface = i /\ sole.count = n /\ None \notin Int
  BY DEF Deployment, Typed
<1>1. List(N) /\ List(Own(s))
  BY OwnList DEF Deployment, Typed
<1>2. NetworkFor(sole, Clients[s]) = net
  BY <1>0 DEF NetworkFor
<1>3. CountersFor(F, Clients[s]) = At(F, Own(s))
  BY DEF CountersFor, Own
<1>4. CountersCovering(F, Clients[s], net) = IF Fit(s, i, D) = {} THEN None ELSE F[Narrowest(s, i, D)]
  BY DEF CountersCovering, Fit, Narrowest
<1>5. /\ At(F, N) # None <=> Hit(N, D) # {}
      /\ At(F, N) # None => At(F, N) = F[Pick(N, D)]
      /\ At(F, Own(s)) # None <=> Hit(Own(s), D) # {}
      /\ At(F, Own(s)) # None => At(F, Own(s)) = F[Pick(Own(s), D)]
  BY <1>1, AtNat
<1>6. Some(s, i, D) => Choice(s, i, D) \in D /\ F[Choice(s, i, D)] # None
  <2>1. Some(s, i, D) => Choice(s, i, D) \in D \cap Watched(s)
    BY ChoiceLocal
  <2> HIDE DEF N, net
  <2> QED BY <1>0, <2>1
<1>7. PICK q : q = IF At(F, N) # None THEN At(F, N)
                   ELSE IF At(F, Own(s)) # None THEN At(F, Own(s))
                   ELSE IF Fit(s, i, D) = {} THEN None ELSE F[Narrowest(s, i, D)]
  OBVIOUS
<1>8. Measured(Clients[s], F, sole) = IF q # None THEN [source |-> "queue", count |-> q]
                                      ELSE [source |-> i, count |-> n]
  <2> HIDE DEF N, net, D
  <2>1. sole.networks = N
    BY <1>0
  <2> QED BY <1>0, <1>2, <1>3, <1>4, <1>7, <2>1 DEF Measured
<1>9. IF Some(s, i, D) THEN q = F[Choice(s, i, D)] /\ q # None ELSE q = None
  <2> HIDE DEF net, D
  <2> QED BY <1>5, <1>6, <1>7 DEF Some, Choice, N
<1> HIDE DEF D, N, net
<1>10. CASE Some(s, i, D)
  BY <1>6, <1>8, <1>9, <1>10 DEF D
<1>11. CASE ~Some(s, i, D)
  BY <1>8, <1>9, <1>11 DEF D
<1> QED BY <1>10, <1>11 DEF D

-----------------------------------------------------------------------------
(* A static client: its own queues, a queue of its VLAN, its interface.     *)
\* A file read of a home shows, of what is watched, what is there now.
LEMMA FileShows ==
    ASSUME Deployment, WorldOk, NEW s \in Statics, Unmoved(s), NEW F, NEW r, FileOk(F, r), r = Home(s),
           NEW t \in DOMAIN F, t \in Watched(s)
    PROVE  /\ Present(Home(s)) \cap Watched(s) = DOMAIN F \cap Watched(s)
           /\ queue[t] # None /\ queue[t] \in Nat /\ F[t] \in Nat /\ F[t] <= queue[t]
           /\ Owns(s, t) => queue[t] - F[t] <= Since(s)
<1>1. t \in Targets /\ F[t] \in Nat
  BY DEF FileOk
<1>2. DOMAIN F \cap Watched(s) = Present(r) \cap Watched(s)
  BY DEF FileOk
<1>3. queue[t] # None /\ F[t] <= queue[t] /\ (Owns(s, t) => queue[t] - F[t] <= Since(s))
  BY DEF FileOk
<1> QED BY <1>1, <1>2, <1>3 DEF WorldOk

LEMMA PlainReading ==
    ASSUME Deployment, WorldOk, NEW s \in Statics, Unmoved(s), NEW F, NEW r, FileOk(F, r), r = Home(s),
           Hit(Own(s), DOMAIN F) # {}
    PROVE  /\ Valid(s, "plain") /\ F[Pick(Own(s), DOMAIN F)] <= Gauge(s, "plain")
           /\ Gauge(s, "plain") - F[Pick(Own(s), DOMAIN F)] <= Since(s)
<1>1. PICK D, P, t : D = DOMAIN F /\ P = Present(Home(s)) /\ t = Pick(Own(s), D)
  OBVIOUS
<1>2. D \subseteq Targets /\ P \subseteq Targets
  BY <1>1 DEF Present, FileOk
<1>3. /\ Hit(Own(s), D) = Hit(Own(s), D \cap Watched(s)) /\ t = Pick(Own(s), D \cap Watched(s))
      /\ t \in D \cap Watched(s) \cap ToSet(Own(s))
  BY <1>1, <1>2, PlainLocal
<1>4. Hit(Own(s), P) = Hit(Own(s), P \cap Watched(s)) /\ Pick(Own(s), P) = Pick(Own(s), P \cap Watched(s))
  BY <1>2, PlainLocal
<1>5. /\ P \cap Watched(s) = D \cap Watched(s) /\ F[t] <= queue[t]
      /\ Owns(s, t) => queue[t] - F[t] <= Since(s)
  BY <1>1, <1>3, FileShows
<1>6. Owns(s, t)
  BY <1>2, <1>3, OwnsPlain
<1>7. Hit(Own(s), P) # {} /\ Pick(Own(s), P) = t
  BY <1>1, <1>3, <1>4, <1>5
<1>8. s \notin Logins
  BY SubjectsSplit
<1>9. Valid(s, "plain") /\ Gauge(s, "plain") = queue[t]
  BY <1>1, <1>7, <1>8 DEF Valid, ValidClient, Gauge, GaugeClient, Taken
<1> QED BY <1>1, <1>5, <1>6, <1>9

LEMMA QueueReading ==
    ASSUME Deployment, WorldOk, NEW s \in Statics, Unmoved(s), NEW F, NEW r, FileOk(F, r), r = Home(s),
           NEW i \in DOMAIN Ports, Sole(s, r, i), ~Ports[i].pppoe, Alone(s), Some(s, i, DOMAIN F)
    PROVE  /\ Valid(s, "queue") /\ F[Choice(s, i, DOMAIN F)] <= Gauge(s, "queue")
           /\ Gauge(s, "queue") - F[Choice(s, i, DOMAIN F)] <= Since(s)
<1>1. PICK D, P, t : D = DOMAIN F /\ P = Present(Home(s)) /\ t = Choice(s, i, D)
  OBVIOUS
<1>2. D \subseteq Targets /\ P \subseteq Targets
  BY <1>1 DEF Present, FileOk
<1>0. Ports[i].tag = Clients[s].vlan
  BY DEF Sole
<1>3. /\ Some(s, i, D \cap Watched(s)) /\ t = Choice(s, i, D \cap Watched(s)) /\ t \in D \cap Watched(s)
  BY <1>0, <1>1, <1>2, ChoiceLocal
<1>4. /\ Some(s, i, P) <=> Some(s, i, P \cap Watched(s))
      /\ Choice(s, i, P) = Choice(s, i, P \cap Watched(s))
  BY <1>0, <1>2, ChoiceLocal
<1>5. /\ P \cap Watched(s) = D \cap Watched(s) /\ F[t] <= queue[t]
      /\ Owns(s, t) => queue[t] - F[t] <= Since(s)
  BY <1>1, <1>3, FileShows
<1>6. Owns(s, t)
  BY <1>0, <1>1, <1>2, OwnsChoice
<1>7. Some(s, i, P) /\ Choice(s, i, P) = t
  BY <1>3, <1>4, <1>5
<1>8. s \notin Logins
  BY SubjectsSplit
<1>10. PortOf(s) = i
  <2>1. \A j : Sole(s, Home(s), j) => j = i
    BY DEF Sole
  <2> QED BY <2>1 DEF PortOf
<1>9. Valid(s, "queue") /\ Gauge(s, "queue") = queue[t]
  BY <1>1, <1>7, <1>8, <1>10 DEF Valid, ValidClient, Gauge, GaugeClient, Taken
<1> QED BY <1>1, <1>5, <1>6, <1>9

LEMMA ClientReading ==
    ASSUME Deployment, WorldOk, Begun, FilesOk, RecordsOk(cycle.records), PortsOk(cycle.ports),
           NEW it, it.what # "session", it.of \in DOMAIN cycle.records
    PROVE  \E source : /\ Reading(it).key = <<"static", it.of, source>>
                       /\ ReadingOk(it.of, source, Reading(it).count)
<1>1. PICK s, R, home, F : /\ s = it.of /\ R = cycle.records /\ home = R[s].home
                           /\ F = FilesOf(home) /\ FileOk(F, home)
  BY FilesOfOk
<1>2. /\ s \in Statics /\ s \in DOMAIN R /\ s \notin Logins
      /\ Unmoved(s) => home = Home(s)
  BY <1>1, SubjectsSplit DEF RecordsOk
<1>3. DOMAIN F \subseteq Targets /\ \A t \in DOMAIN F : F[t] \in Nat
  BY <1>1 DEF FileOk
<1>4. PICK m : m = Measured(Clients[s], F, SoleFor(s))
  OBVIOUS
<1>5. Reading(it).key = <<"static", s, m.source>> /\ Reading(it).count = m.count
  BY <1>1, <1>4 DEF Reading, Key
<1>6. CASE SoleFor(s) = None
  <2>1. PICK c : c = At(F, Own(s)) /\ m = [source |-> "plain", count |-> c]
    BY <1>4, <1>6 DEF Measured, CountersFor, Own
  <2>2. List(Own(s))
    BY <1>2, OwnList
  <2>3. /\ c # None <=> Hit(Own(s), DOMAIN F) # {}
        /\ c # None => c = F[Pick(Own(s), DOMAIN F)] /\ c \in Nat
    BY <1>3, <2>1, <2>2, AtNat
  <2>4. ASSUME c # None, Unmoved(s)
        PROVE  Valid(s, "plain") /\ c <= Gauge(s, "plain") /\ Gauge(s, "plain") - c <= Since(s)
    BY <1>1, <1>2, <2>3, <2>4, PlainReading
  <2>5. ReadingOk(s, "plain", c)
    BY <2>3, <2>4 DEF ReadingOk
  <2> QED BY <1>1, <1>5, <2>1, <2>5
<1>7. CASE SoleFor(s) # None
  <2>1. PICK i \in DOMAIN cycle.ports :
              /\ SoleFor(s) = [interface |-> i, count |-> cycle.ports[i], pppoe |-> Ports[i].pppoe,
                               networks |-> Ports[i].networks]
              /\ ~Ports[i].pppoe /\ Sole(s, home, i)
              /\ Unmoved(s) => Alone(s)
    BY <1>1, <1>2, <1>7, SoleIs
  <2>2. PICK n, sole : n = cycle.ports[i] /\ sole = SoleFor(s)
    OBVIOUS
  <2>3. i \in DOMAIN Ports /\ Ports[i].tag = Clients[s].vlan /\ n \in Nat
    BY <2>1, <2>2 DEF Sole, PortsOk
  <2>4. IF Some(s, i, DOMAIN F)
        THEN m = [source |-> "queue", count |-> F[Choice(s, i, DOMAIN F)]] /\ Choice(s, i, DOMAIN F) \in DOMAIN F
        ELSE m = [source |-> i, count |-> n]
    <3>1. sole # None /\ sole = [interface |-> i, count |-> n, pppoe |-> Ports[i].pppoe,
                                 networks |-> Ports[i].networks]
      BY <1>7, <2>1, <2>2
    <3> QED BY <1>2, <1>3, <1>4, <2>2, <2>3, <3>1, MeasuredBy
  <2>5. CASE Some(s, i, DOMAIN F)
    <3>1. PICK c : /\ c = F[Choice(s, i, DOMAIN F)] /\ c \in Nat
                   /\ m.source = "queue" /\ m.count = c
      BY <1>3, <2>4, <2>5
    <3>2. ASSUME Unmoved(s)
          PROVE  Valid(s, "queue") /\ c <= Gauge(s, "queue") /\ Gauge(s, "queue") - c <= Since(s)
      BY <1>1, <1>2, <2>1, <2>3, <2>5, <3>1, <3>2, QueueReading
    <3>3. ReadingOk(s, "queue", c)
      BY <3>1, <3>2 DEF ReadingOk
    <3> QED BY <1>1, <1>5, <3>1, <3>3
  <2>6. CASE ~Some(s, i, DOMAIN F)
    <3>1. m.source = i /\ m.count = n
      BY <2>4, <2>6
    <3>2. i \notin {"plain", "queue"}
      BY <2>3 DEF Deployment, Typed
    <3>3. ASSUME Unmoved(s) PROVE Valid(s, i) /\ n <= Gauge(s, i) /\ Gauge(s, i) - n <= Since(s)
      <4>1. Alone(s)
        BY <2>1, <3>3
      <4>2. Valid(s, i) /\ Gauge(s, i) = port[i]
        BY <1>2, <2>3, <3>2, <4>1 DEF Valid, ValidClient, Gauge, GaugeClient
      <4>3. n <= port[i] /\ port[i] - n <= Since(s)
        BY <1>2, <2>1, <2>2, <2>3, <3>3, <4>1 DEF PortsOk
      <4> QED BY <4>2, <4>3
    <3>4. ReadingOk(s, i, n)
      BY <2>3, <3>3 DEF ReadingOk
    <3> QED BY <1>1, <1>5, <3>1, <3>4
  <2> QED BY <2>5, <2>6
<1> QED BY <1>6, <1>7

\* A reading is never ahead of the point of reference by more than was sent.
LEMMA FollowsReading ==
    ASSUME Deployment, WorldOk, TrackerOk, Begun, NEW k \in DOMAIN tracker, NEW c,
           ReadingOk(k[2], k[3], c), c # None, k[2] \notin Logins \/ k[3] = "queue"
    PROVE  Follows(k, c)
<1>1. PICK S, x, y : S = tracker[k] /\ x = k[2] /\ y = k[3]
  OBVIOUS
<1> SUFFICES ASSUME S.count # None, S.shifts = shifts[x]
             PROVE  c - S.count <= sent[x] - S.sent
  BY <1>1 DEF Follows
<1>2. SnapOk(k, S)
  BY <1>1 DEF TrackerOk
<1>3. /\ x \in Subjects /\ S.count \in Nat /\ S.sent \in Nat /\ S.shifts \in Nat
      /\ Valid(x, y) /\ Gauge(x, y) - S.count <= sent[x] - S.sent
  BY <1>1, <1>2 DEF SnapOk
<1>4. Unmoved(x)
  <2>1. S.shifts <= cycle.shifts0[x] /\ cycle.shifts0[x] <= shifts[x] /\ cycle.shifts0[x] \in Nat /\ shifts[x] \in Nat
    BY <1>1, <1>3 DEF Begun, WorldOk
  <2> QED BY <1>3, <2>1 DEF Unmoved
<1>5. c \in Nat /\ c <= Gauge(x, y)
  BY <1>1, <1>4 DEF ReadingOk
<1>6. Gauge(x, y) \in Nat /\ sent[x] \in Nat
  BY <1>3, GaugeNat DEF WorldOk
<1> QED BY <1>3, <1>5, <1>6

\* The subscriber whose turn it is: its reading, its key.
LEMMA NowReading ==
    ASSUME Deployment, WorldOk, TrackerOk, CycleOk, Busy, Now.what \in {"session", "client"}
    PROVE  \E k, c : /\ k = Reading(Now).key /\ c = Reading(Now).count /\ k[2] = Now.of
                     /\ Now.of \in Subjects /\ ReadingOk(k[2], k[3], c)
                     /\ k \in DOMAIN tracker /\ c # None => Follows(k, c)
<1>1. ItemOk(Now) /\ Running
  BY BusyRuns
<1>2. Begun /\ FilesOk /\ RecordsOk(cycle.records) /\ PortsOk(cycle.ports)
  BY <1>1 DEF CycleOk
<1>3. CASE Now.what = "session"
  <2>1. SessionOk(Now) /\ Now.of \in Logins /\ Now.of \in Subjects
    BY <1>1, <1>3, SubjectsSplit DEF ItemOk, SessionOk
  <2>2. PICK source \in {"queue", "interface"} :
              /\ Reading(Now).key = <<Now.router, Now.of, source>>
              /\ ReadingOk(Now.of, source, Reading(Now).count)
              /\ source = "interface" => Reading(Now).count = Now.count
    BY <1>2, <1>3, <2>1, SessionReading
  <2>3. PICK k, c : /\ k = Reading(Now).key /\ c = Reading(Now).count /\ k[2] = Now.of
                    /\ k[3] = source
    BY <2>2
  <2>4. ASSUME k \in DOMAIN tracker, c # None PROVE Follows(k, c)
    <3>1. CASE source = "queue"
      BY <1>2, <2>2, <2>3, <2>4, <3>1, FollowsReading
    <3>2. CASE source = "interface"
      BY <2>1, <2>2, <2>3, <2>4, <3>2 DEF SessionOk
    <3> QED BY <3>1, <3>2
  <2> QED BY <2>1, <2>2, <2>3, <2>4
<1>4. CASE Now.what = "client"
  <2>1. Now.of \in DOMAIN cycle.records
    BY <1>1, <1>4 DEF ItemOk
  <2>2. Now.of \in Subjects /\ Now.of \notin Logins
    BY <1>2, <2>1, SubjectsSplit DEF RecordsOk
  <2>3. PICK source : /\ Reading(Now).key = <<"static", Now.of, source>>
                      /\ ReadingOk(Now.of, source, Reading(Now).count)
    BY <1>2, <1>4, <2>1, ClientReading
  <2>4. PICK k, c : /\ k = Reading(Now).key /\ c = Reading(Now).count /\ k[2] = Now.of
                    /\ k[3] = source
    BY <2>3
  <2>5. k \in DOMAIN tracker /\ c # None => Follows(k, c)
    BY <1>2, <2>2, <2>3, <2>4, FollowsReading
  <2> QED BY <2>2, <2>3, <2>4, <2>5
<1> QED BY <1>3, <1>4

-----------------------------------------------------------------------------
(* The row of a subject: the point of reference moves, or stays.           *)

\* A new point of reference is of no age: nothing is compared with it yet.
Renewed == \A k \in DOMAIN tracker' : \/ k \in DOMAIN tracker /\ tracker'[k] = tracker[k]
                                      \/ tracker'[k].age = 0

LEMMA SessionStill ==
    ASSUME Deployment, Calm, SameStart, Renewed, NEW it, SessionOk(it)
    PROVE  SessionOk(it)'
<1>1. ASSUME NEW k \in DOMAIN tracker', k[2] = it.of, k[3] = "interface"
      PROVE  Follows(k, it.count)'
  <2>1. CASE k \in DOMAIN tracker /\ tracker'[k] = tracker[k]
    <3>1. Follows(k, it.count)
      BY <1>1, <2>1 DEF SessionOk
    <3> QED BY <2>1, <3>1 DEF Follows, Calm
  <2>2. CASE tracker'[k].age = 0
    BY <2>2 DEF Follows, Deployment, Typed
  <2> QED BY <2>1, <2>2 DEF Renewed
<1>2. Unmoved(it.of)' <=> Unmoved(it.of)
  BY DEF Unmoved, Calm, SameStart
<1>3. Since(it.of)' = Since(it.of)
  BY DEF Since, Calm, SameStart
<1> QED BY <1>1, <1>2, <1>3 DEF SessionOk, Calm

LEMMA RowCycle ==
    ASSUME Deployment, WorldOk, TrackerOk, CycleOk, Running, Calm, SameReadings, Renewed, Begun',
           List(cycle'.todo), ToSet(cycle'.todo) \subseteq ToSet(cycle.todo)
    PROVE  CycleOk'
<1>1. /\ Begun /\ FilesOk /\ RecordsOk(cycle.records) /\ PortsOk(cycle.ports) /\ ItemsOk /\ GotOk
      /\ WorldStep
  BY CalmSteady DEF CycleOk
<1>2. FilesOk' /\ RecordsOk(cycle.records)' /\ PortsOk(cycle.ports)'
  BY <1>1, KeepFiles, KeepRecords, KeepPorts DEF SameReadings
<1>3. SameStart
  BY DEF SameReadings
<1>4. ItemsOk'
  <2> SUFFICES ASSUME NEW it \in ToSet(cycle'.todo) PROVE ItemOk(it)'
    BY DEF ItemsOk
  <2>1. ItemOk(it)
    BY <1>1 DEF ItemsOk
  <2>2. it.what = "session" => SessionOk(it)'
    BY <1>3, <2>1, SessionStill DEF ItemOk
  <2>3. cycle'.records = cycle.records
    BY DEF SameReadings
  <2> QED BY <2>1, <2>2, <2>3 DEF ItemOk
<1>5. GotOk'
  <2>1. cycle'.got = cycle.got
    BY DEF SameReadings
  <2> SUFFICES ASSUME NEW r \in DOMAIN cycle.got, cycle.got[r] # None
               PROVE  List(cycle.got[r]) /\ \A it \in ToSet(cycle.got[r]) : Heard(it)'
    BY <2>1 DEF GotOk
  <2> SUFFICES ASSUME NEW it \in ToSet(cycle.got[r]) PROVE Heard(it)'
    BY <1>1 DEF GotOk
  <2>2. Heard(it)
    BY <1>1 DEF GotOk
  <2> QED BY <1>3, <2>2, SessionStill DEF Heard
<1> QED BY <1>2, <1>4, <1>5 DEF CycleOk, SameReadings

LEMMA RowInv ==
    ASSUME Deployment, WorldOk, TrackerOk, CycleOk, RateIsOwn, Calm, Busy,
           Now.what \in {"session", "client"}, NEW id, Row(Now, id)
    PROVE  TrackerOk' /\ CycleOk' /\ RateIsOwn' /\ cycle'.phase = cycle.phase
<1>1. /\ Running /\ DOMAIN cycle = Fields
      /\ List(Tail(cycle.todo)) /\ ToSet(Tail(cycle.todo)) \subseteq ToSet(cycle.todo)
  BY BusyRuns
<1>2. Begun /\ WorldStep
  BY <1>1, CalmSteady DEF CycleOk
<1>3. PICK k, c, x : /\ k = Reading(Now).key /\ c = Reading(Now).count /\ k[2] = x /\ x = Now.of
                     /\ x \in Subjects /\ ReadingOk(x, k[3], c)
                     /\ k \in DOMAIN tracker /\ c # None => Follows(k, c)
  BY NowReading
<1>0. PICK u, old, new : /\ u = Reading(Now).uptime /\ old = Get(tracker, k)
                          /\ new = [count |-> c, uptime |-> u, age |-> 0,
                                    sent |-> cycle.sent0[x], shifts |-> cycle.shifts0[x]]
  OBVIOUS
<1>4. PICK T, row : /\ T = Kept(old, new)
                    /\ row = [id |-> id, of |-> x, step |-> Step(old, new),
                              sent |-> IF old = None THEN 0 ELSE sent[x] - old.sent,
                              shifted |-> old # None /\ old.shifts # shifts[x]]
  OBVIOUS
<1>21. \E r : /\ r = Reading(Now)
              /\ tracker' = Put(tracker, r.key, Kept(Get(tracker, r.key),
                                [count |-> r.count, uptime |-> r.uptime, age |-> 0,
                                 sent |-> cycle.sent0[Now.of], shifts |-> cycle.shifts0[Now.of]]))
  BY DEF Row
<1>16. tracker' = Put(tracker, k, T)
  BY <1>0, <1>3, <1>4, <1>21
<1>17. \E A, G : cycle' = [cycle EXCEPT !.todo = Tail(cycle.todo), !.flight = None, !.active = A,
                                        !.rows = cycle.rows \cup {row}, !.targets = G]
  <2>1. cycle' = [cycle EXCEPT !.todo = Tail(cycle.todo), !.flight = None,
                               !.active = cycle.active \cup {k}, !.rows = cycle.rows \cup {row},
                               !.targets = IF Reading(Now).router = None THEN cycle.targets
                                           ELSE Append(cycle.targets, [id |-> id, of |-> x,
                                                                       router |-> Reading(Now).router])]
    <3> DEFINE Old(r) == Get(tracker, r.key)
               New(r) == [count |-> r.count, uptime |-> r.uptime, age |-> 0,
                          sent |-> cycle.sent0[Now.of], shifts |-> cycle.shifts0[Now.of]]
               Read(r) == cycle' = [cycle EXCEPT
                   !.todo = Tail(@), !.flight = None, !.active = @ \cup {r.key},
                   !.rows = @ \cup {[id |-> id, of |-> Now.of, step |-> Step(Old(r), New(r)),
                                     sent |-> IF Old(r) = None THEN 0 ELSE sent[Now.of] - Old(r).sent,
                                     shifted |-> Old(r) # None /\ Old(r).shifts # shifts[Now.of]]},
                   !.targets = IF r.router = None THEN @
                               ELSE Append(@, [id |-> id, of |-> Now.of, router |-> r.router])]
    <3>1. \E r \in {Reading(Now)} : Read(r)
      BY Zenon DEF Row
    <3>2. Read(Reading(Now))
      <4> HIDE DEF Read
      <4> QED BY <3>1
    <3> QED BY <1>0, <1>3, <1>4, <3>2, Zenon
  <2> QED BY <2>1
<1>5. /\ SameReadings /\ SameStart /\ cycle'.todo = Tail(cycle.todo) /\ cycle'.rows = cycle.rows \cup {row}
      /\ cycle'.phase = cycle.phase
  BY <1>1, <1>17 DEF SameReadings, SameStart, Fields
<1>6. /\ new.count = c /\ new.age = 0 /\ new.sent = cycle.sent0[x] /\ new.shifts = cycle.shifts0[x]
      /\ DOMAIN new = {"count", "uptime", "age", "sent", "shifts"}
  BY <1>0
<1>7. \/ T = new
      \/ k \in DOMAIN tracker /\ T = tracker[k]
  BY <1>0, <1>4 DEF Kept, Get
<1>8. SnapOk(k, T) /\ T.shifts <= cycle.shifts0[x]
  <2>1. CASE k \in DOMAIN tracker /\ T = tracker[k]
    BY <1>2, <1>3, <2>1 DEF TrackerOk, Begun
  <2>2. CASE T = new
    <3>1. /\ cycle.sent0[x] \in Nat /\ cycle.shifts0[x] \in Nat /\ sent[x] \in Nat /\ shifts[x] \in Nat
          /\ cycle.sent0[x] <= sent[x] /\ cycle.shifts0[x] <= shifts[x]
      BY <1>2, <1>3 DEF Begun, WorldOk
    <3>2. c \in Nat \cup {None}
      BY <1>3 DEF ReadingOk
    <3>3. ASSUME new.shifts = shifts[x], c # None
          PROVE  Valid(x, k[3]) /\ Gauge(x, k[3]) - c <= sent[x] - new.sent
      BY <1>3, <1>6, <3>3 DEF ReadingOk, Unmoved, Since
    <3> QED BY <1>3, <1>6, <2>2, <3>1, <3>2, <3>3 DEF SnapOk
  <2> QED BY <1>7, <2>1, <2>2
<1>9. /\ DOMAIN tracker' = DOMAIN tracker \cup {k} /\ tracker'[k] = T
      /\ \A q \in DOMAIN tracker : q # k => tracker'[q] = tracker[q]
  BY <1>16 DEF Put
<1>10. TrackerOk'
  <2> SUFFICES ASSUME NEW q \in DOMAIN tracker' PROVE SnapOk(q, tracker[q])'
    BY DEF TrackerOk
  <2>1. PICK S : S = tracker'[q] /\ SnapOk(q, S)
    BY <1>8, <1>9 DEF TrackerOk
  <2>2. SnapOk(q, S)'
    BY <1>2, <2>1, KeepSnap
  <2> QED BY <2>1, <2>2
<1>11. Renewed
  BY <1>6, <1>7, <1>9 DEF Renewed
<1>12. Begun'
  <2>1. /\ cycle'.sent0 = cycle.sent0 /\ cycle'.shifts0 = cycle.shifts0
        /\ sent' = sent /\ shifts' = shifts
    BY <1>5 DEF SameStart, Calm
  <2>2. \A q \in DOMAIN tracker' : tracker'[q].shifts <= cycle.shifts0[q[2]]
    BY <1>2, <1>3, <1>8, <1>9 DEF Begun
  <2> QED BY <1>2, <2>1, <2>2 DEF Begun
<1>13. CycleOk'
  BY <1>1, <1>5, <1>11, <1>12, RowCycle
<1>14. row.step # None /\ ~row.shifted => row.step <= row.sent
  <2> SUFFICES ASSUME row.step # None, ~row.shifted PROVE row.step <= row.sent
    OBVIOUS
  <2>1. /\ row.step = Step(old, new) /\ row.sent = IF old = None THEN 0 ELSE sent[x] - old.sent
        /\ row.shifted <=> (old # None /\ old.shifts # shifts[x])
    BY <1>4
  <2>2. /\ c # None /\ old # None /\ old.count # None /\ ~(old.age < MinInterval)
        /\ row.step = c - old.count
    BY <1>6, <2>1 DEF Step
  <2>3. k \in DOMAIN tracker /\ old = tracker[k]
    BY <1>0, <2>2 DEF Get
  <2>4. old.age \in Nat
    BY <2>3 DEF TrackerOk, SnapOk
  <2>5. old.age >= MinInterval
    BY <2>2, <2>4 DEF Deployment, Typed
  <2>6. Follows(k, c)
    BY <1>3, <2>2, <2>3
  <2>7. c - old.count <= sent[x] - old.sent
    BY <1>3, <2>1, <2>2, <2>3, <2>5, <2>6 DEF Follows
  <2> QED BY <2>1, <2>2, <2>7
<1>15. RateIsOwn'
  BY <1>5, <1>14 DEF RateIsOwn
<1> QED BY <1>5, <1>10, <1>13, <1>15

-----------------------------------------------------------------------------
(* The invariant, step by step.                                            *)
Inv == WorldOk /\ TrackerOk /\ CycleOk /\ ListOk /\ RateIsOwn

\* A step that adds no row.
Quiet == /\ cycle'.rows \subseteq cycle.rows
         /\ cycle'.phase = "sessions" => cycle.phase = "sessions" /\ cycle'.list = cycle.list

LEMMA QuietKeeps ==
    ASSUME ListOk, RateIsOwn, Quiet
    PROVE  ListOk' /\ RateIsOwn'
<1>1. RateIsOwn'
  BY DEF Quiet, RateIsOwn
<1>2. ListOk'
  BY DEF Quiet, ListOk, Phase
<1> QED BY <1>1, <1>2

\* What moves beside the cycle.
LEMMA BesideInv ==
    ASSUME Deployment, Inv, WorldStep, cycle' = cycle, tracker' = tracker
    PROVE  Inv'
<1>1. WorldOk /\ TrackerOk /\ CycleOk /\ ListOk /\ RateIsOwn /\ WorldOk'
  BY DEF Inv, WorldStep
<1>2. TrackerOk' /\ CycleOk'
  BY <1>1, KeepTracker, OthersStep
<1>3. ListOk' /\ RateIsOwn'
  BY <1>1, QuietKeeps DEF Quiet
<1> QED BY <1>1, <1>2, <1>3 DEF Inv

\* A step of the cycle that moves no point of reference and adds no row.
LEMMA QuietInv ==
    ASSUME Deployment, Inv, Calm, tracker' = tracker, CycleOk', Quiet
    PROVE  Inv'
<1>1. WorldOk /\ TrackerOk /\ ListOk /\ RateIsOwn
  BY DEF Inv
<1>2. WorldStep
  BY <1>1, CalmSteady
<1>3. WorldOk' /\ TrackerOk'
  BY <1>1, <1>2, KeepTracker DEF WorldStep
<1> QED BY <1>1, <1>3, QuietKeeps DEF Inv

LEMMA ReadingInv ==
    ASSUME Deployment, Inv, NEW ok,
           \/ \E r \in DOMAIN PopOf : ReadsSessions(r, ok) \/ ReadsQueues(r, ok)
           \/ ReadsRecords(ok) \/ ReadsPorts(ok)
    PROVE  Inv'
<1>1. WorldOk /\ TrackerOk /\ CycleOk /\ DOMAIN cycle = Fields
  BY DEF Inv, CycleOk
<1>2. ASSUME NEW r, ReadsSessions(r, ok) PROVE Inv'
  <2>1. CycleOk'
    BY <1>1, <1>2, CycleReadsSessions
  <2>2. Calm /\ tracker' = tracker /\ Quiet
    BY <1>1, <1>2 DEF ReadsSessions, Calm, Quiet, Fields, Phase, world, tables, ghosts
  <2> QED BY <2>1, <2>2, QuietInv
<1>3. ASSUME NEW r, ReadsQueues(r, ok) PROVE Inv'
  <2>1. CycleOk'
    BY <1>1, <1>3, CycleReadsQueues
  <2>2. Calm /\ tracker' = tracker /\ Quiet
    BY <1>1, <1>3 DEF ReadsQueues, Calm, Quiet, Fields, world, tables, ghosts
  <2> QED BY <2>1, <2>2, QuietInv
<1>4. CASE ReadsRecords(ok)
  <2>1. CycleOk'
    BY <1>1, <1>4, CycleReadsRecords
  <2>2. Calm /\ tracker' = tracker
    BY <1>4 DEF ReadsRecords, Calm, world, tables, ghosts
  <2>3. Quiet
    BY <1>1, <1>4 DEF ReadsRecords, Quiet, Fields
  <2> QED BY <2>1, <2>2, <2>3, QuietInv
<1>5. CASE ReadsPorts(ok)
  <2>1. CycleOk'
    BY <1>1, <1>5, CycleReadsPorts
  <2>2. Calm /\ tracker' = tracker
    BY <1>5 DEF ReadsPorts, Calm, world, tables, ghosts
  <2>3. Quiet
    BY <1>1, <1>5 DEF ReadsPorts, Quiet, Fields
  <2> QED BY <2>1, <2>2, <2>3, QuietInv
<1> QED BY <1>2, <1>3, <1>4, <1>5

LEMMA ResolvingInv ==
    ASSUME Deployment, Inv,
           \/ QueuesRead \/ FindsPop \/ UpsertsPop \/ NotesPop \/ MissesPop \/ AsksPlans
           \/ UpsertsSubscriber \/ MissesSubscriber
    PROVE  Inv'
<1>1. WorldOk /\ TrackerOk /\ CycleOk /\ DOMAIN cycle = Fields
  BY DEF Inv, CycleOk
<1>2. CycleOk'
  BY <1>1, CycleQueuesRead, CycleFindsPop, CycleUpsertsPop, CycleNotesPop, CycleMissesPop,
     CycleAsksPlans, CycleUpsertsSubscriber, CycleMissesSubscriber
<1>3. Calm /\ tracker' = tracker
  BY DEF QueuesRead, FindsPop, UpsertsPop, NotesPop, MissesPop, AsksPlans, UpsertsSubscriber,
         MissesSubscriber, Calm, world, tables, ghosts
<1>4. Quiet
  <2>1. CASE QueuesRead
    BY <1>1, <2>1 DEF QueuesRead, Quiet, Fields
  <2>2. CASE ~QueuesRead
    <3>1. cycle.phase # "sessions"
      BY <2>2 DEF FindsPop, UpsertsPop, NotesPop, MissesPop, AsksPlans, UpsertsSubscriber,
                  MissesSubscriber, Doing, Busy
    <3>2. cycle'.phase = cycle.phase /\ cycle'.rows = cycle.rows
      BY <1>1, <2>2 DEF FindsPop, UpsertsPop, NotesPop, MissesPop, AsksPlans, UpsertsSubscriber,
                        MissesSubscriber, Fields
    <3> QED BY <3>1, <3>2 DEF Quiet
  <2> QED BY <2>1, <2>2
<1> QED BY <1>2, <1>3, <1>4, QuietInv

LEMMA RowsInv ==
    ASSUME Deployment, Inv, FindsSubscriber \/ NotesSubscriber
    PROVE  Inv'
<1>1. WorldOk /\ TrackerOk /\ CycleOk /\ ListOk /\ RateIsOwn
  BY DEF Inv
<1>2. PICK id : Row(Now, id) /\ Busy /\ Now.what \in {"session", "client"}
  BY DEF FindsSubscriber, NotesSubscriber
<1>3. Calm
  BY DEF FindsSubscriber, NotesSubscriber, Calm, world, tables, ghosts
<1>4. TrackerOk' /\ CycleOk' /\ RateIsOwn' /\ cycle'.phase = cycle.phase
  BY <1>1, <1>2, <1>3, RowInv
<1>5. WorldOk'
  BY <1>1, <1>3, CalmSteady DEF WorldStep
<1>6. ListOk'
  BY <1>2, <1>4 DEF ListOk, Phase, Busy
<1> QED BY <1>4, <1>5, <1>6 DEF Inv

LEMMA PairsInv ==
    ASSUME Deployment, Inv, Pairs
    PROVE  Inv'
<1>1. WorldOk /\ TrackerOk /\ CycleOk /\ ListOk /\ DOMAIN cycle = Fields
  BY DEF Inv, CycleOk
<1>2. CycleOk'
  BY <1>1, CyclePairs
<1>3. Calm /\ tracker' = tracker
  BY DEF Pairs, Calm, world, tables, ghosts
<1>4. Quiet
  <2>1. \/ cycle' = NoCycle
        \/ \E todo, list, errors : cycle' = [cycle EXCEPT !.phase = "queues", !.got = <<>>,
                                                !.todo = todo, !.list = list, !.errors = errors]
    BY DEF Pairs
  <2>2. CASE cycle' = NoCycle
    BY <2>2 DEF Quiet, NoCycle
  <2>3. CASE cycle' # NoCycle
    <3>1. PICK todo, list, errors : cycle' = [cycle EXCEPT !.phase = "queues", !.got = <<>>,
                                                !.todo = todo, !.list = list, !.errors = errors]
      BY <2>1, <2>3
    <3>2. cycle'.phase = "queues" /\ cycle'.rows = cycle.rows
      BY <1>1, <3>1 DEF Fields
    <3> QED BY <3>2 DEF Quiet
  <2> QED BY <2>2, <2>3
<1> QED BY <1>2, <1>3, <1>4, QuietInv

LEMMA StartsEnds ==
    ASSUME Deployment, NotAFunction(None), Inv,
           \/ \E d \in 1..MinInterval : Starts(d)
           \/ Closes
           \/ \E ok \in BOOLEAN : Writes(ok)
    PROVE  Inv'
<1>1. WorldOk /\ TrackerOk /\ CycleOk /\ RateIsOwn /\ ListOk
  BY DEF Inv
<1>2. ASSUME NEW d \in 1..MinInterval, Starts(d) PROVE Inv'
  <2>1. d \in Nat
    BY DEF Deployment, Typed
  <2>2. TrackerOk' /\ CycleOk' /\ ListOk'
    BY <1>1, <1>2, <2>1, StartsInv
  <2>3. WorldOk'
    BY <1>1, <1>2, SteadyStarts DEF WorldStep
  <2>4. cycle'.rows = {}
    BY <1>2 DEF Starts, NoCycle
  <2> QED BY <2>2, <2>3, <2>4 DEF Inv, RateIsOwn
<1>3. CASE Closes
  <2>1. TrackerOk' /\ CycleOk'
    BY <1>1, <1>3, ClosesInv
  <2>2. Calm /\ cycle'.rows = cycle.rows /\ cycle'.phase = "write"
    BY <1>3 DEF Closes, Calm, NoCycle, world, tables, ghosts
  <2>3. WorldOk'
    BY <1>1, <2>2, CalmSteady DEF WorldStep
  <2> QED BY <1>1, <2>1, <2>2, <2>3, QuietKeeps DEF Inv, Quiet
<1>4. ASSUME NEW ok, Writes(ok) PROVE Inv'
  <2>1. TrackerOk' /\ CycleOk'
    BY <1>1, <1>4, WritesInv
  <2>2. Calm /\ tracker' = tracker /\ Quiet
    BY <1>4 DEF Writes, Calm, Quiet, NoCycle, world, tables, ghosts
  <2> QED BY <2>1, <2>2, QuietInv
<1> QED BY <1>2, <1>3, <1>4

LEMMA TasksInv ==
    ASSUME Deployment, Inv,
           \/ RefreshBegins \/ (\E t \in Jobs : TaskStep(t)) \/ DeskStep \/ ProbeStep
    PROVE  Inv'
<1>1. Calm /\ cycle' = cycle /\ tracker' = tracker
  <2>1. CASE RefreshBegins
    BY <2>1 DEF RefreshBegins, Calm, world, tables, ghosts
  <2>2. ASSUME NEW t, TaskStep(t) PROVE Calm /\ cycle' = cycle /\ tracker' = tracker
    BY <2>2 DEF TaskStep, Lists, NotesIds, GetsPlans, Updates, Calm, world, tables, ghosts
  <2>3. CASE DeskStep
    BY <2>3 DEF DeskStep, DeletesRow, Forgets, ClearsCache, Calm, world, tables, ghosts
  <2>4. CASE ProbeStep
    BY <2>4 DEF ProbeStep, Probes, Pinged, Calm, world, tables, ghosts
  <2> QED BY <2>1, <2>2, <2>3, <2>4
<1>2. WorldStep
  BY <1>1, CalmSteady DEF Inv
<1> QED BY <1>1, <1>2, BesideInv

LEMMA PeopleInv ==
    ASSUME Deployment, Inv, People
    PROVE  Inv'
<1>1. WorldOk
  BY DEF Inv
<1>2. cycle' = cycle /\ tracker' = tracker
  BY DEF People, Buys, Removes, DeletesPop, Declares, SetsCollectors, Observes
<1>3. WorldStep
  <2>1. ASSUME NEW s \in Subjects, Removes(s) PROVE WorldStep
    BY <1>1, <2>1, SteadyRemoves
  <2>2. ASSUME NEW s \in Statics, NEW p, Declares(s, p) PROVE WorldStep
    BY <1>1, <2>2, SteadyDeclares
  <2>3. ASSUME NEW list \in RouterLists, SetsCollectors(list) PROVE WorldStep
    BY <1>1, <2>3, SteadyRouters
  <2>4. ASSUME (\E l \in Logins, p \in Plans : Buys(l, p)) \/ (\E p \in PopNames : DeletesPop(p))
               \/ \E list \in SeenLists : Observes(list)
        PROVE  WorldStep
    <3>1. Calm
      BY <2>4 DEF Buys, DeletesPop, Observes, Calm, world
    <3> QED BY <1>1, <3>1, CalmSteady
  <2> QED BY <2>1, <2>2, <2>3, <2>4 DEF People
<1> QED BY <1>2, <1>3, BesideInv

LEMMA NetworkInv ==
    ASSUME Deployment, NotAFunction(None), Inv, Network
    PROVE  Inv'
<1>1. WorldOk
  BY DEF Inv
<1>2. cycle' = cycle /\ tracker' = tracker
  BY DEF Network, Sends, Disconnects, Connects, QueueComesOrGoes, GrowsStale
<1>3. WorldStep
  <2>1. ASSUME NEW s \in Subjects, NEW q, Sends(s, q) PROVE WorldStep
    BY <1>1, <2>1, SteadySends
  <2>2. ASSUME NEW l \in Logins, Disconnects(l) PROVE WorldStep
    BY <1>1, <2>2, SteadyDisconnects
  <2>3. ASSUME NEW l \in Logins, NEW a \in AddressesOf[l], Connects(l, a) PROVE WorldStep
    BY <1>1, <2>3, SteadyConnects
  <2>4. ASSUME NEW t \in Targets, QueueComesOrGoes(t) PROVE WorldStep
    BY <1>1, <2>4, SteadyQueues
  <2>5. ASSUME NEW i, GrowsStale(i) PROVE WorldStep
    <3>1. Calm
      BY <2>5 DEF GrowsStale, Calm, world, tables
    <3> QED BY <1>1, <3>1, CalmSteady
  <2> QED BY <2>1, <2>2, <2>3, <2>4, <2>5 DEF Network
<1> QED BY <1>2, <1>3, BesideInv

LEMMA RatesNext ==
    ASSUME Deployment, NotAFunction(None), Inv, [Next]_vars
    PROVE  Inv'
<1>1. CASE Cycles
  <2>1. \/ \E d \in 1..MinInterval : Starts(d)
        \/ Closes
        \/ \E ok \in BOOLEAN : Writes(ok)
        \/ (\E r \in DOMAIN PopOf : ReadsSessions(r, TRUE) \/ ReadsQueues(r, TRUE))
             \/ ReadsRecords(TRUE) \/ ReadsPorts(TRUE)
        \/ QueuesRead \/ FindsPop \/ UpsertsPop \/ NotesPop \/ MissesPop \/ AsksPlans
             \/ UpsertsSubscriber \/ MissesSubscriber
        \/ FindsSubscriber \/ NotesSubscriber
        \/ Pairs
    BY <1>1 DEF Cycles
  <2> QED BY <2>1, ReadingInv, ResolvingInv, RowsInv, PairsInv, StartsEnds
<1>2. CASE Faults
  <2>1. \/ (\E r \in DOMAIN PopOf : ReadsSessions(r, FALSE) \/ ReadsQueues(r, FALSE))
             \/ ReadsRecords(FALSE) \/ ReadsPorts(FALSE)
        \/ QueuesRead \/ FindsPop \/ UpsertsPop \/ NotesPop \/ MissesPop \/ AsksPlans
             \/ UpsertsSubscriber \/ MissesSubscriber
        \/ \E ok \in BOOLEAN : Writes(ok)
    BY <1>2 DEF Faults
  <2> QED BY <2>1, ReadingInv, ResolvingInv, StartsEnds
<1>3. CASE RefreshBegins \/ (\E t \in Jobs : TaskStep(t)) \/ DeskStep \/ ProbeStep
  BY <1>3, TasksInv
<1>4. CASE People
  BY <1>4, PeopleInv
<1>5. CASE Network
  BY <1>5, NetworkInv
<1>6. CASE UNCHANGED vars
  <2>1. Calm /\ cycle' = cycle /\ tracker' = tracker
    BY <1>6 DEF vars, Calm, world, tables, ghosts
  <2>2. WorldStep
    BY <2>1, CalmSteady DEF Inv
  <2> QED BY <2>1, <2>2, BesideInv
<1> QED BY <1>1, <1>2, <1>3, <1>4, <1>5, <1>6 DEF Next

LEMMA RatesInit ==
    ASSUME Deployment, NotAFunction(None), Init
    PROVE  Inv
<1>1. WorldOk
  <2>1. PICK online \in SUBSET Logins :
          session = [l \in Logins |-> IF l \notin online THEN None
                                     ELSE [address |-> FirstAddress[l], up |-> 0, count |-> 0]]
    BY DEF Init
  <2>2. \A l \in Logins : session[l] # None =>
          /\ session[l] = Sess(FirstAddress[l], 0, 0) /\ FirstAddress[l] \in AddressesOf[l]
          /\ session[l].address = FirstAddress[l]
    BY <2>1 DEF Sess, Deployment, AddressesTellApart
  <2>3. \A l \in Logins : session[l] # None =>
          \E a \in AddressesOf[l], n \in Nat : \E u : session[l] = Sess(a, u, n)
    <3>1. 0 \in Nat
      OBVIOUS
    <3> QED BY <2>2, <3>1
  <2>4. \A l, m \in Logins :
          session[l] # None /\ session[m] # None /\ session[l].address = session[m].address => l = m
    BY <2>2 DEF Deployment, AddressesTellApart
  <2>5. /\ queue \in [Targets -> Nat \cup {None}] /\ port \in [DOMAIN Ports -> Nat]
        /\ DOMAIN declared = Statics /\ collectors \in RouterLists
        /\ sent \in [Subjects -> Nat] /\ shifts \in [Subjects -> Nat]
    BY DEF Init, Deployment, Typed
  <2> QED BY <2>1, <2>3, <2>4, <2>5 DEF WorldOk
<1>2. tracker = <<>> /\ cycle = NoCycle
  BY DEF Init
<1>3. TrackerOk
  BY <1>2 DEF TrackerOk
<1>4. CycleOk /\ ListOk /\ RateIsOwn
  BY <1>2 DEF CycleOk, ListOk, RateIsOwn, NoCycle, Fields, Running, Phase
<1> QED BY <1>1, <1>3, <1>4 DEF Inv

\* Whatever queues come and go, sessions come back, records and routers change and
\* answers fail while the cycle runs (collection.py, rates.py): a rate is never
\* more than what its subscriber sent between the two readings it is taken from,
\* as long as what counts it stayed the same.
THEOREM RatesAreTheirs ==
    ASSUME Deployment, NotAFunction(None)
    PROVE  Spec => []RateIsOwn
<1>1. Init => Inv
  BY RatesInit
<1>2. Inv /\ [Next]_vars => Inv'
  BY RatesNext
<1>3. Inv => RateIsOwn
  BY DEF Inv
<1> QED BY <1>1, <1>2, <1>3, PTL DEF Spec
=============================================================================
