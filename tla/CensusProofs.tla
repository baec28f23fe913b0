---------------------------- MODULE CensusProofs ----------------------------
(* What holds of the census of the clients for every network, every router  *)
(* that may fail to answer and every story: what a run records, and what a  *)
(* run that lacks some tables still shows.                                  *)
EXTENDS Census, Integers, SequenceTheorems, WellFoundedInduction, TLAPS

(* Lists of rows: sequences laid end to end, and what a selection brings.   *)
\* A set of numbers that is not empty has a least one.
LEMMA LeastNumber ==
    ASSUME NEW S, S \subseteq Nat, S # {}
    PROVE  \E k \in S : \A j \in S : k <= j
<1>1. PICK k \in S : \A j \in S : ~(<<j, k>> \in OpToRel(<, Nat))
    BY NatLessThanWellFounded, WFMin
<1>2. \A j \in S : ~(j < k)
    BY <1>1 DEF OpToRel
<1>3. \A j \in S : k <= j
    BY <1>2
<1> QED
    BY <1>3

\* Sequences laid end to end: the result is the last of a chain, each link of
\* which adds one sequence to the link before.
LEMMA FlattenSteps ==
    ASSUME NEW ss, Len(ss) \in Nat, Len(ss) # 0
    PROVE  \E f : /\ f[1] = ss[1]
                  /\ \A n \in 2..Len(ss) : f[n] = f[n - 1] \o ss[n]
                  /\ FlattenSeq(ss) = f[Len(ss)]
<1>1. PICK N : N = Len(ss) /\ N \in Nat /\ N # 0
    OBVIOUS
<1> DEFINE Chain(g, n) == g = [i \in 1..n |-> IF i = 1 THEN ss[i] ELSE g[i - 1] \o ss[i]]
           lacking == {n \in 1..N : ~\E g : Chain(g, n)}
<1> HIDE DEF Chain
<1>2. lacking = {}
    <2> SUFFICES ASSUME lacking # {} PROVE FALSE
        OBVIOUS
    <2>1. lacking \subseteq Nat
        BY <1>1
    <2> HIDE DEF lacking
    <2>2. PICK n \in lacking : \A j \in lacking : n <= j
        BY <2>1, LeastNumber
    <2> USE DEF lacking
    <2>3. n # 1
        <3> DEFINE g == [i \in 1..1 |-> ss[i]]
        <3>1. Chain(g, 1)
            BY DEF Chain
        <3> HIDE DEF g
        <3> QED
            BY <3>1
    <2>4. n \in 2..N /\ n - 1 \notin lacking /\ n - 1 \in 1..N
        <3>1. n \in 1..N
            OBVIOUS
        <3> HIDE DEF lacking
        <3> QED
            BY <1>1, <2>2, <2>3, <3>1
    <2>5. PICK g : Chain(g, n - 1)
        BY <2>4
    <2> DEFINE h == [i \in 1..n |-> IF i = n THEN g[n - 1] \o ss[n] ELSE g[i]]
    <2>6. \A i \in 1..(n - 1) : g[i] = IF i = 1 THEN ss[i] ELSE g[i - 1] \o ss[i]
        <3> HIDE DEF lacking
        <3>1. g = [i \in 1..(n - 1) |-> IF i = 1 THEN ss[i] ELSE g[i - 1] \o ss[i]]
            BY <2>5 DEF Chain
        <3> QED
            BY <3>1
    <2>7. \A i \in 1..n : h[i] = IF i = 1 THEN ss[i] ELSE h[i - 1] \o ss[i]
        <3> HIDE DEF lacking
        <3>1. n \in Nat /\ n > 1 /\ n \in 1..n /\ n - 1 \in 1..n /\ n - 1 # n
            BY <1>1, <2>4
        <3>2. h[n] = g[n - 1] \o ss[n] /\ h[n - 1] = g[n - 1]
            BY <3>1
        <3>3. ASSUME NEW i \in 1..(n - 1)
              PROVE  h[i] = IF i = 1 THEN ss[i] ELSE h[i - 1] \o ss[i]
            <4>1. h[i] = g[i] /\ (i # 1 => h[i - 1] = g[i - 1])
                BY <3>1, <3>3
            <4> HIDE DEF h
            <4> QED
                BY <2>6, <4>1
        <3> HIDE DEF h
        <3>4. \A i \in 1..n : i = n \/ i \in 1..(n - 1)
            BY <3>1
        <3>5. n # 1
            BY <3>1
        <3> QED
            BY <3>2, <3>3, <3>4, <3>5
    <2>8. h = [i \in 1..n |-> h[i]]
        OBVIOUS
    <2>9. h = [i \in 1..n |-> IF i = 1 THEN ss[i] ELSE h[i - 1] \o ss[i]]
        <3> HIDE DEF h, lacking
        <3> QED
            BY <2>7, <2>8
    <2>10. Chain(h, n)
        BY <2>9 DEF Chain
    <2> HIDE DEF h
    <2> QED
        BY <2>10
<1> DEFINE f == CHOOSE g : Chain(g, N)
<1>3. Chain(f, N)
    <2>1. \E g : Chain(g, N)
        BY <1>1, <1>2
    <2> QED
        BY <2>1
<1>4. FlattenSeq(ss) = f[N]
    BY <1>1 DEF FlattenSeq, Chain
<1> HIDE DEF f
<1>5. \A i \in 1..N : f[i] = IF i = 1 THEN ss[i] ELSE f[i - 1] \o ss[i]
    <2>1. f = [i \in 1..N |-> IF i = 1 THEN ss[i] ELSE f[i - 1] \o ss[i]]
        BY <1>3 DEF Chain
    <2> QED
        BY <2>1
<1>6. 1 \in 1..N /\ \A n \in 2..N : n \in 1..N /\ n # 1
    BY <1>1
<1>7. f[1] = ss[1] /\ \A n \in 2..N : f[n] = f[n - 1] \o ss[n]
    BY <1>5, <1>6
<1> QED
    BY <1>1, <1>4, <1>7

\* Two sequences laid end to end hold what both hold.
LEMMA ConcatParts ==
    ASSUME NEW T, NEW s \in Seq(T), NEW u \in Seq(T)
    PROVE  s \o u \in Seq(T) /\ ToSet(s \o u) = ToSet(s) \cup ToSet(u)
<1>1. /\ s \o u \in Seq(T) /\ Len(s \o u) = Len(s) + Len(u)
      /\ \A i \in 1..Len(s) + Len(u) : (s \o u)[i] = IF i <= Len(s) THEN s[i] ELSE u[i - Len(s)]
    BY ConcatProperties
<1>2. ToSet(s \o u) \subseteq ToSet(s) \cup ToSet(u)
    BY <1>1 DEF ToSet
<1>3. ASSUME NEW i \in 1..Len(s) PROVE s[i] \in ToSet(s \o u)
    <2>1. i \in 1..Len(s \o u) /\ (s \o u)[i] = s[i]
        BY <1>1
    <2> QED
        BY <1>1, <2>1 DEF ToSet
<1>4. ASSUME NEW i \in 1..Len(u) PROVE u[i] \in ToSet(s \o u)
    <2>1. i + Len(s) \in 1..Len(s \o u) /\ (s \o u)[i + Len(s)] = u[i]
        BY <1>1
    <2>2. DOMAIN (s \o u) = 1..Len(s \o u)
        BY <1>1
    <2> QED
        BY <2>1, <2>2 DEF ToSet
<1>5. ToSet(s) \subseteq ToSet(s \o u) /\ ToSet(u) \subseteq ToSet(s \o u)
    <2>1. DOMAIN s = 1..Len(s) /\ DOMAIN u = 1..Len(u)
        OBVIOUS
    <2>2. ToSet(s) = {s[i] : i \in 1..Len(s)} /\ ToSet(u) = {u[i] : i \in 1..Len(u)}
        BY <2>1 DEF ToSet
    <2> QED
        BY <1>3, <1>4, <2>2
<1> QED
    BY <1>1, <1>2, <1>5

\* Sequences laid end to end hold what each of them holds.
LEMMA Flattened ==
    ASSUME NEW T, NEW ss \in Seq(Seq(T))
    PROVE  /\ FlattenSeq(ss) \in Seq(T)
           /\ ToSet(FlattenSeq(ss)) = UNION {ToSet(ss[i]) : i \in DOMAIN ss}
<1>1. CASE Len(ss) = 0
    <2>1. ss = <<>>
        BY <1>1, EmptySeq
    <2>2. FlattenSeq(ss) = <<>>
        BY <1>1, <2>1 DEF FlattenSeq
    <2>3. <<>> \in Seq(T) /\ DOMAIN ss = {} /\ ToSet(<<>>) = {}
        BY <2>1 DEF ToSet
    <2> QED
        BY <2>2, <2>3
<1>2. CASE Len(ss) # 0
    <2>1. PICK N : N = Len(ss) /\ N \in Nat /\ N # 0 /\ DOMAIN ss = 1..N
        BY <1>2
    <2>2. PICK f : /\ f[1] = ss[1]
                   /\ \A n \in 2..N : f[n] = f[n - 1] \o ss[n]
                   /\ FlattenSeq(ss) = f[N]
        BY <2>1, FlattenSteps
    <2> DEFINE Good(n) == f[n] \in Seq(T) /\ ToSet(f[n]) = UNION {ToSet(ss[i]) : i \in 1..n}
               lacking == {n \in 1..N : ~Good(n)}
    <2>3. lacking = {}
        <3> SUFFICES ASSUME lacking # {} PROVE FALSE
            OBVIOUS
        <3>1. lacking \subseteq Nat
            BY <2>1
        <3> HIDE DEF lacking
        <3>2. PICK n \in lacking : \A j \in lacking : n <= j
            BY <3>1, LeastNumber
        <3>3. n \in 1..N /\ ~Good(n) /\ (n - 1 \in 1..N => Good(n - 1))
            <4> HIDE DEF Good
            <4>1. n \in 1..N /\ ~Good(n)
                BY DEF lacking
            <4>2. ASSUME n - 1 \in 1..N, ~Good(n - 1) PROVE FALSE
                <5>1. n - 1 \in lacking
                    BY <4>2 DEF lacking
                <5>2. n <= n - 1
                    BY <3>2, <5>1
                <5> QED
                    BY <2>1, <4>1, <5>2
            <4> QED
                BY <4>1, <4>2
        <3>4. Good(1)
            <4>1. ss[1] \in Seq(T) /\ 1..1 = {1}
                BY <2>1
            <4> QED
                BY <2>2, <4>1
        <3>5. CASE n # 1
            <4> HIDE DEF Good
            <4>5. n \in 2..N /\ n - 1 \in 1..N
                BY <2>1, <3>3, <3>5
            <4>6. ss[n] \in Seq(T)
                BY <2>1, <3>3
            <4>1. n \in 2..N /\ Good(n - 1) /\ ss[n] \in Seq(T) /\ f[n] = f[n - 1] \o ss[n]
                BY <2>2, <3>3, <4>5, <4>6
            <4> USE DEF Good
            <4>2. 1..n = (1..(n - 1)) \cup {n}
                BY <2>1, <4>1
            <4>3. f[n] \in Seq(T) /\ ToSet(f[n]) = ToSet(f[n - 1]) \cup ToSet(ss[n])
                BY <4>1, ConcatParts
            <4>4. UNION {ToSet(ss[i]) : i \in 1..n}
                  = (UNION {ToSet(ss[i]) : i \in 1..(n - 1)}) \cup ToSet(ss[n])
                BY <4>2
            <4> QED
                BY <3>3, <4>1, <4>3, <4>4
        <3> HIDE DEF Good
        <3> QED
            BY <3>3, <3>4, <3>5
    <2>4. Good(N)
        <3> HIDE DEF Good
        <3> QED
            BY <2>1, <2>3
    <2> QED
        BY <2>1, <2>2, <2>4
<1> QED
    BY <1>1, <1>2

\* A sequence of anything is a list of rows.
LEMMA SomeRows == ASSUME NEW T, NEW s \in Seq(T) PROVE IsRows(s)
<1>1. Len(s) \in Nat /\ DOMAIN s = 1..Len(s) /\ s = [i \in 1..Len(s) |-> s[i]]
    OBVIOUS
<1>2. \A i \in 1..Len(s) : s[i] \in ToSet(s)
    BY <1>1 DEF ToSet
<1>3. s \in [1..Len(s) -> ToSet(s)]
    BY <1>1, <1>2
<1> QED
    BY <1>1, <1>3, SeqDef DEF IsRows

\* What a selection brings: the image of what passes the test.
Picks(ss, n, I, f) == n \in Nat /\ ss = [i \in 1..n |-> IF i \in I THEN <<f[i]>> ELSE <<>>]

\* What a choice of positions brings is what is at those positions.
LEMMA Picked ==
    ASSUME NEW n, NEW I, NEW f, NEW ss, Picks(ss, n, I, f)
    PROVE  /\ IsRows(FlattenSeq(ss))
           /\ ToSet(FlattenSeq(ss)) = {f[i] : i \in I \cap 1..n}
<1> DEFINE T == {f[i] : i \in I \cap 1..n}
<1>0. /\ n \in Nat /\ ss = [i \in 1..n |-> ss[i]]
      /\ \A i \in 1..n : ss[i] = IF i \in I THEN <<f[i]>> ELSE <<>>
    BY DEF Picks
<1>1. \A i \in 1..n : ss[i] \in Seq(T) /\ ToSet(ss[i]) = IF i \in I THEN {f[i]} ELSE {}
    <2> SUFFICES ASSUME NEW i \in 1..n
                 PROVE  ss[i] \in Seq(T) /\ ToSet(ss[i]) = IF i \in I THEN {f[i]} ELSE {}
        OBVIOUS
    <2>1. CASE i \in I
        <3>1. f[i] \in T /\ ss[i] = <<f[i]>>
            BY <1>0, <2>1
        <3> HIDE DEF T
        <3>2. Len(<<f[i]>>) = 1 /\ <<f[i]>>[1] = f[i] /\ DOMAIN <<f[i]>> = {1}
            OBVIOUS
        <3>3. <<f[i]>> \in Seq(T)
            BY <3>1
        <3>4. ToSet(<<f[i]>>) = {f[i]}
            BY <3>2 DEF ToSet
        <3> QED
            BY <2>1, <3>1, <3>3, <3>4
    <2>2. CASE i \notin I
        <3>1. ss[i] = <<>>
            BY <1>0, <2>2
        <3> HIDE DEF T
        <3> QED
            BY <2>2, <3>1 DEF ToSet
    <2> QED
        BY <2>1, <2>2
<1> HIDE DEF T
<1>2. ss \in Seq(Seq(T)) /\ DOMAIN ss = 1..n
    <2>1. ss \in [1..n -> Seq(T)]
        BY <1>0, <1>1
    <2> QED
        BY <1>0, <2>1, SeqDef
<1>3. FlattenSeq(ss) \in Seq(T)
      /\ ToSet(FlattenSeq(ss)) = UNION {ToSet(ss[i]) : i \in 1..n}
    BY <1>2, Flattened
<1>4. UNION {ToSet(ss[i]) : i \in 1..n} = T
    BY <1>1 DEF T
<1> QED
    BY <1>3, <1>4, SomeRows DEF T

-----------------------------------------------------------------------------
(* What the tables of a router show.                                       *)
\* What a selection brings, said of the rows.
Selects(ss, s, T, f) ==
    IsRows(s) /\ ss = [i \in 1..Len(s) |-> IF s[i] \in T THEN <<f[s[i]]>> ELSE <<>>]

\* A selection brings the image of the rows that pass its test, and no other.
LEMMA Chosen ==
    ASSUME NEW s, NEW T, NEW f, NEW ss, Selects(ss, s, T, f)
    PROVE  /\ IsRows(FlattenSeq(ss))
           /\ ToSet(FlattenSeq(ss)) = {f[r] : r \in T \cap ToSet(s)}
<1>1. PICK n : n = Len(s) /\ n \in Nat /\ DOMAIN s = 1..n
  BY DEF Selects, IsRows
<1> DEFINE I == {i \in 1..n : s[i] \in T}
           g == [i \in 1..n |-> f[s[i]]]
<1>2. \A i \in 1..n : (IF s[i] \in T THEN <<f[s[i]]>> ELSE <<>>)
                      = IF i \in I THEN <<g[i]>> ELSE <<>>
  OBVIOUS
<1>3. {g[i] : i \in I \cap 1..n} = {f[r] : r \in T \cap ToSet(s)}
  <2>1. ToSet(s) = {s[i] : i \in 1..n}
    BY <1>1 DEF ToSet
  <2> QED BY <2>1
<1> HIDE DEF I, g
<1>4. Picks(ss, n, I, g)
  BY <1>1, <1>2 DEF Selects, Picks
<1>6. IsRows(FlattenSeq(ss)) /\ ToSet(FlattenSeq(ss)) = {g[i] : i \in I \cap 1..n}
  BY <1>4, Picked
<1> QED BY <1>3, <1>6

\* The tables the derivation depends on are not optional.
LEMMA TableNames ==
    /\ {"addresses", "arp", "vlans", "ppp_active", "dhcp_leases", "dhcp_servers", "routes",
        "queues", "neighbors"} \subseteq Tables \ Optional
    /\ Optional \subseteq Tables
<1>1. /\ Order[1] = "addresses" /\ Order[2] = "arp" /\ Order[3] = "vlans"
      /\ Order[4] = "pppoe_servers" /\ Order[5] = "ppp_active" /\ Order[6] = "dhcp_leases"
      /\ Order[7] = "dhcp_servers" /\ Order[10] = "routes" /\ Order[11] = "queues"
      /\ Order[12] = "neighbors" /\ Order[13] = "ospf_neighbors" /\ Order[14] = "bgp_sessions"
      /\ DOMAIN Order = 1..14
  BY DEF Order
<1> QED BY <1>1 DEF Tables, ToSet, Optional

\* None is a value of its own: no record, no sequence.
NotAFunction(x) == x # [e \in DOMAIN x |-> x[e]]

\* The first value that is known, if one is.
LEMMA FirstKnown ==
    ASSUME NEW v, Len(v) \in Nat
    PROVE  /\ First(v) = None <=> \A i \in 1..Len(v) : v[i] = None
           /\ Len(v) # 0 /\ v[1] # None => First(v) = v[1]
<1> DEFINE known == {i \in 1..Len(v) : v[i] # None}
           least == CHOOSE i \in known : \A j \in known : i <= j
<1>1. First(v) = IF known = {} THEN None ELSE v[least]
  BY DEF First
<1>2. CASE known = {}
  BY <1>1, <1>2
<1>3. CASE known # {}
  <2>1. \E i \in known : \A j \in known : i <= j
    <3>1. known \subseteq Nat
      OBVIOUS
    <3> HIDE DEF known
    <3> QED BY <1>3, <3>1, LeastNumber
  <2>2. least \in known /\ \A j \in known : least <= j
    <3> HIDE DEF known
    <3> QED BY <2>1
  <2>3. \E i \in 1..Len(v) : v[i] # None
    BY <1>3
  <2> HIDE DEF least
  <2>4. least \in 1..Len(v) /\ v[least] # None
    BY <2>2
  <2>5. Len(v) # 0 /\ v[1] # None => least = 1
    BY <2>2, <2>4
  <2> QED BY <1>1, <1>3, <2>3, <2>4, <2>5
<1> QED BY <1>2, <1>3

\* What each selection of the derivation shows, said as a set of rows.
LEMMA SubnetsShown ==
    ASSUME NEW t, IsRows(t["addresses"])
    PROVE  /\ IsRows(Subnets(t))
           /\ ToSet(Subnets(t)) =
                {[net |-> row.net, interface |-> row.interface, role |-> Role(t, row)]
                    : row \in ToSet(t["addresses"])}
<1> DEFINE s == t["addresses"]
           T == ToSet(s)
           f == [row \in ToSet(s) |-> [net |-> row.net, interface |-> row.interface, role |-> Role(t, row)]]
           ss == [i \in 1..Len(s) |-> IF s[i] \in T THEN <<f[s[i]]>> ELSE <<>>]
<1>1. Subnets(t) = FlattenSeq(ss)
  <2>1. DOMAIN s = 1..Len(s)
    BY DEF IsRows
  <2>2. \A i \in 1..Len(s) : s[i] \in ToSet(s)
    BY <2>1 DEF ToSet
  <2>3. \A i \in 1..Len(s) :
          (IF TRUE
           THEN <<[net |-> s[i].net, interface |-> s[i].interface, role |-> Role(t, s[i])]>> ELSE <<>>) = ss[i]
    BY <2>2
  <2> HIDE DEF ss
  <2>4. ss = [i \in 1..Len(s) |-> ss[i]]
    BY DEF ss
  <2> QED BY <2>3, <2>4 DEF Subnets, Select
<1>2. Selects(ss, s, T, f)
  BY DEF Selects
<1>3. {f[r] : r \in T \cap ToSet(s)}
      = {[net |-> row.net, interface |-> row.interface, role |-> Role(t, row)]
          : row \in T}
  OBVIOUS
<1> HIDE DEF s, f, ss
<1>4. IsRows(FlattenSeq(ss)) /\ ToSet(FlattenSeq(ss)) = {f[r] : r \in T \cap ToSet(s)}
  BY <1>2, Chosen
<1> QED BY <1>1, <1>3, <1>4 DEF s

\* What one row of each table tells.
ArpTrace(t, subnets, row) ==
    [Trace(row.address, "arp") EXCEPT !.mac = row.mac, !.interface = row.interface,
                                      !.perimeter = Judged(t, subnets, row) = "kept"]
Silent == {"off", "invalid", "no mac"}

LEMMA ArpShown ==
    ASSUME NEW t, NEW subnets, IsRows(t["arp"])
    PROVE  /\ IsRows(ArpTraces(t, subnets))
           /\ ToSet(ArpTraces(t, subnets)) =
                {ArpTrace(t, subnets, row)
                    : row \in {r \in ToSet(t["arp"]) : Judged(t, subnets, r) \notin Silent}}
<1> DEFINE s == t["arp"]
           T == {r \in ToSet(s) : Judged(t, subnets, r) \notin Silent}
           f == [row \in ToSet(s) |-> ArpTrace(t, subnets, row)]
           ss == [i \in 1..Len(s) |-> IF s[i] \in T THEN <<f[s[i]]>> ELSE <<>>]
<1>1. ArpTraces(t, subnets) = FlattenSeq(ss)
  <2>1. DOMAIN s = 1..Len(s)
    BY DEF IsRows
  <2>2. \A i \in 1..Len(s) : s[i] \in ToSet(s)
    BY <2>1 DEF ToSet
  <2>3. \A i \in 1..Len(s) :
          (IF Judged(t, subnets, s[i]) \notin Silent
           THEN <<ArpTrace(t, subnets, s[i])>> ELSE <<>>) = ss[i]
    BY <2>2
  <2> HIDE DEF ss
  <2>4. ss = [i \in 1..Len(s) |-> ss[i]]
    BY DEF ss
  <2> QED BY <2>3, <2>4 DEF ArpTraces, Select, ArpTrace, Silent
<1>2. Selects(ss, s, T, f)
  BY DEF Selects
<1>3. {f[r] : r \in T \cap ToSet(s)} = {ArpTrace(t, subnets, row) : row \in T}
  OBVIOUS
<1> HIDE DEF s, f, ss
<1>4. IsRows(FlattenSeq(ss)) /\ ToSet(FlattenSeq(ss)) = {f[r] : r \in T \cap ToSet(s)}
  BY <1>2, Chosen
<1> QED BY <1>1, <1>3, <1>4 DEF s

LEMMA LeasesShown ==
    ASSUME NEW t, IsRows(t["dhcp_leases"])
    PROVE  /\ IsRows(LeaseTraces(t))
           /\ ToSet(LeaseTraces(t)) =
                {[Trace(First(<<row.active, row.address>>), "lease") EXCEPT
                    !.mac = row.mac, !.interface = ServedOn(t, row.server), !.perimeter = TRUE]
                        : row \in {r \in ToSet(t["dhcp_leases"]) : ~r.off /\ First(<<r.active, r.address>>) # None}}
<1> DEFINE s == t["dhcp_leases"]
           T == {r \in ToSet(s) : ~r.off /\ First(<<r.active, r.address>>) # None}
           f == [row \in ToSet(s) |-> [Trace(First(<<row.active, row.address>>), "lease") EXCEPT
                    !.mac = row.mac, !.interface = ServedOn(t, row.server), !.perimeter = TRUE]]
           ss == [i \in 1..Len(s) |-> IF s[i] \in T THEN <<f[s[i]]>> ELSE <<>>]
<1>1. LeaseTraces(t) = FlattenSeq(ss)
  <2>1. DOMAIN s = 1..Len(s)
    BY DEF IsRows
  <2>2. \A i \in 1..Len(s) : s[i] \in ToSet(s)
    BY <2>1 DEF ToSet
  <2>3. \A i \in 1..Len(s) :
          (IF ~s[i].off /\ First(<<s[i].active, s[i].address>>) # None
           THEN <<[Trace(First(<<s[i].active, s[i].address>>), "lease") EXCEPT
                    !.mac = s[i].mac, !.interface = ServedOn(t, s[i].server), !.perimeter = TRUE]>> ELSE <<>>) = ss[i]
    BY <2>2
  <2> HIDE DEF ss
  <2>4. ss = [i \in 1..Len(s) |-> ss[i]]
    BY DEF ss
  <2> QED BY <2>3, <2>4 DEF LeaseTraces, Select
<1>2. Selects(ss, s, T, f)
  BY DEF Selects
<1>3. {f[r] : r \in T \cap ToSet(s)} = {[Trace(First(<<row.active, row.address>>), "lease") EXCEPT
                    !.mac = row.mac, !.interface = ServedOn(t, row.server), !.perimeter = TRUE]
                        : row \in T}
  OBVIOUS
<1> HIDE DEF s, f, ss
<1>4. IsRows(FlattenSeq(ss)) /\ ToSet(FlattenSeq(ss)) = {f[r] : r \in T \cap ToSet(s)}
  BY <1>2, Chosen
<1> QED BY <1>1, <1>3, <1>4 DEF s

LEMMA SessionsShown ==
    ASSUME NEW t, IsRows(t["ppp_active"])
    PROVE  /\ IsRows(SessionTraces(t))
           /\ ToSet(SessionTraces(t)) =
                {[Trace(row.address, "session") EXCEPT !.mac = row.mac, !.login = row.login]
                    : row \in {r \in ToSet(t["ppp_active"]) : r.address # None}}
<1> DEFINE s == t["ppp_active"]
           T == {r \in ToSet(s) : r.address # None}
           f == [row \in ToSet(s) |-> [Trace(row.address, "session") EXCEPT !.mac = row.mac, !.login = row.login]]
           ss == [i \in 1..Len(s) |-> IF s[i] \in T THEN <<f[s[i]]>> ELSE <<>>]
<1>1. SessionTraces(t) = FlattenSeq(ss)
  <2>1. DOMAIN s = 1..Len(s)
    BY DEF IsRows
  <2>2. \A i \in 1..Len(s) : s[i] \in ToSet(s)
    BY <2>1 DEF ToSet
  <2>3. \A i \in 1..Len(s) :
          (IF s[i].address # None
           THEN <<[Trace(s[i].address, "session") EXCEPT !.mac = s[i].mac, !.login = s[i].login]>> ELSE <<>>) = ss[i]
    BY <2>2
  <2> HIDE DEF ss
  <2>4. ss = [i \in 1..Len(s) |-> ss[i]]
    BY DEF ss
  <2> QED BY <2>3, <2>4 DEF SessionTraces, Select
<1>2. Selects(ss, s, T, f)
  BY DEF Selects
<1>3. {f[r] : r \in T \cap ToSet(s)}
      = {[Trace(row.address, "session") EXCEPT !.mac = row.mac, !.login = row.login]
          : row \in T}
  OBVIOUS
<1> HIDE DEF s, f, ss
<1>4. IsRows(FlattenSeq(ss)) /\ ToSet(FlattenSeq(ss)) = {f[r] : r \in T \cap ToSet(s)}
  BY <1>2, Chosen
<1> QED BY <1>1, <1>3, <1>4 DEF s

LEMMA NeighboursShown ==
    ASSUME NEW t, IsRows(t["neighbors"])
    PROVE  /\ IsRows(NeighbourTraces(t))
           /\ ToSet(NeighbourTraces(t)) =
                {[Trace(row.address, "neighbour") EXCEPT !.mac = row.mac, !.interface = row.interface]
                    : row \in {r \in ToSet(t["neighbors"]) : r.address # None}}
<1> DEFINE s == t["neighbors"]
           T == {r \in ToSet(s) : r.address # None}
           f == [row \in ToSet(s) |-> [Trace(row.address, "neighbour") EXCEPT !.mac = row.mac, !.interface = row.interface]]
           ss == [i \in 1..Len(s) |-> IF s[i] \in T THEN <<f[s[i]]>> ELSE <<>>]
<1>1. NeighbourTraces(t) = FlattenSeq(ss)
  <2>1. DOMAIN s = 1..Len(s)
    BY DEF IsRows
  <2>2. \A i \in 1..Len(s) : s[i] \in ToSet(s)
    BY <2>1 DEF ToSet
  <2>3. \A i \in 1..Len(s) :
          (IF s[i].address # None
           THEN <<[Trace(s[i].address, "neighbour") EXCEPT !.mac = s[i].mac, !.interface = s[i].interface]>> ELSE <<>>) = ss[i]
    BY <2>2
  <2> HIDE DEF ss
  <2>4. ss = [i \in 1..Len(s) |-> ss[i]]
    BY DEF ss
  <2> QED BY <2>3, <2>4 DEF NeighbourTraces, Select
<1>2. Selects(ss, s, T, f)
  BY DEF Selects
<1>3. {f[r] : r \in T \cap ToSet(s)}
      = {[Trace(row.address, "neighbour") EXCEPT !.mac = row.mac, !.interface = row.interface]
          : row \in T}
  OBVIOUS
<1> HIDE DEF s, f, ss
<1>4. IsRows(FlattenSeq(ss)) /\ ToSet(FlattenSeq(ss)) = {f[r] : r \in T \cap ToSet(s)}
  BY <1>2, Chosen
<1> QED BY <1>1, <1>3, <1>4 DEF s

LEMMA RoutesShown ==
    ASSUME NEW t, NEW subnets, IsRows(t["routes"])
    PROVE  /\ IsRows(ClientRoutes(t, subnets))
           /\ ToSet(ClientRoutes(t, subnets)) =
                {r \in ToSet(t["routes"]) : ~r.off /\ ~r.dynamic /\ r.dst # Default /\ r.gateway # None
                 /\ InClientNet(subnets, r.gateway)}
<1> DEFINE s == t["routes"]
           T == {r \in ToSet(s) : ~r.off /\ ~r.dynamic /\ r.dst # Default /\ r.gateway # None
                 /\ InClientNet(subnets, r.gateway)}
           f == [row \in ToSet(s) |-> row]
           ss == [i \in 1..Len(s) |-> IF s[i] \in T THEN <<f[s[i]]>> ELSE <<>>]
<1>1. ClientRoutes(t, subnets) = FlattenSeq(ss)
  <2>1. DOMAIN s = 1..Len(s)
    BY DEF IsRows
  <2>2. \A i \in 1..Len(s) : s[i] \in ToSet(s)
    BY <2>1 DEF ToSet
  <2>3. \A i \in 1..Len(s) :
          (IF ~s[i].off /\ ~s[i].dynamic /\ s[i].dst # Default /\ s[i].gateway # None
                 /\ InClientNet(subnets, s[i].gateway)
           THEN <<s[i]>> ELSE <<>>) = ss[i]
    BY <2>2
  <2> HIDE DEF ss
  <2>4. ss = [i \in 1..Len(s) |-> ss[i]]
    BY DEF ss
  <2> QED BY <2>3, <2>4 DEF ClientRoutes, Where, Select
<1>2. Selects(ss, s, T, f)
  BY DEF Selects
<1>3. {f[r] : r \in T \cap ToSet(s)} = T
  OBVIOUS
<1> HIDE DEF s, f, ss
<1>4. IsRows(FlattenSeq(ss)) /\ ToSet(FlattenSeq(ss)) = {f[r] : r \in T \cap ToSet(s)}
  BY <1>2, Chosen
<1> QED BY <1>1, <1>3, <1>4 DEF s

LEMMA QueuesShown ==
    ASSUME NEW t, IsRows(t["queues"])
    PROVE  /\ IsRows(Select(t["queues"], LAMBDA q : ~q.off, LAMBDA q : q.targets))
           /\ ToSet(Select(t["queues"], LAMBDA q : ~q.off, LAMBDA q : q.targets)) =
                {row.targets : row \in {r \in ToSet(t["queues"]) : ~r.off}}
<1> DEFINE s == t["queues"]
           T == {r \in ToSet(s) : ~r.off}
           f == [row \in ToSet(s) |-> row.targets]
           ss == [i \in 1..Len(s) |-> IF s[i] \in T THEN <<f[s[i]]>> ELSE <<>>]
<1>1. Select(t["queues"], LAMBDA q : ~q.off, LAMBDA q : q.targets) = FlattenSeq(ss)
  <2>1. DOMAIN s = 1..Len(s)
    BY DEF IsRows
  <2>2. \A i \in 1..Len(s) : s[i] \in ToSet(s)
    BY <2>1 DEF ToSet
  <2>3. \A i \in 1..Len(s) :
          (IF ~s[i].off
           THEN <<s[i].targets>> ELSE <<>>) = ss[i]
    BY <2>2
  <2> HIDE DEF ss
  <2>4. ss = [i \in 1..Len(s) |-> ss[i]]
    BY DEF ss
  <2> QED BY <2>3, <2>4 DEF Select
<1>2. Selects(ss, s, T, f)
  BY DEF Selects
<1>3. {f[r] : r \in T \cap ToSet(s)} = {row.targets : row \in T}
  OBVIOUS
<1> HIDE DEF s, f, ss
<1>4. IsRows(FlattenSeq(ss)) /\ ToSet(FlattenSeq(ss)) = {f[r] : r \in T \cap ToSet(s)}
  BY <1>2, Chosen
<1> QED BY <1>1, <1>3, <1>4 DEF s

LEMMA TargetsShown ==
    ASSUME NEW t, NEW subnets, IsRows(QueueTargets(t))
    PROVE  /\ IsRows(ClientTargets(t, subnets))
           /\ ToSet(ClientTargets(t, subnets)) =
                {r \in ToSet(QueueTargets(t)) : \E n \in ClientNets(subnets) : r \subseteq n}
<1> DEFINE s == QueueTargets(t)
           T == {r \in ToSet(s) : \E n \in ClientNets(subnets) : r \subseteq n}
           f == [row \in ToSet(s) |-> row]
           ss == [i \in 1..Len(s) |-> IF s[i] \in T THEN <<f[s[i]]>> ELSE <<>>]
<1>1. ClientTargets(t, subnets) = FlattenSeq(ss)
  <2>1. DOMAIN s = 1..Len(s)
    BY DEF IsRows
  <2>2. \A i \in 1..Len(s) : s[i] \in ToSet(s)
    BY <2>1 DEF ToSet
  <2>3. \A i \in 1..Len(s) :
          (IF \E n \in ClientNets(subnets) : s[i] \subseteq n
           THEN <<s[i]>> ELSE <<>>) = ss[i]
    BY <2>2
  <2> HIDE DEF ss
  <2>4. ss = [i \in 1..Len(s) |-> ss[i]]
    BY DEF ss
  <2> QED BY <2>3, <2>4 DEF ClientTargets, Where, Select
<1>2. Selects(ss, s, T, f)
  BY DEF Selects
<1>3. {f[r] : r \in T \cap ToSet(s)} = T
  OBVIOUS
<1> HIDE DEF s, f, ss
<1>4. IsRows(FlattenSeq(ss)) /\ ToSet(FlattenSeq(ss)) = {f[r] : r \in T \cap ToSet(s)}
  BY <1>2, Chosen
<1> QED BY <1>1, <1>3, <1>4 DEF s

LEMMA HostsShown ==
    ASSUME NEW t, NEW subnets, IsRows(ClientTargets(t, subnets))
    PROVE  /\ IsRows(QueueTraces(t, subnets))
           /\ ToSet(QueueTraces(t, subnets)) =
                {Trace(CHOOSE a \in row : TRUE, "queue")
                    : row \in {r \in ToSet(ClientTargets(t, subnets)) : Cardinality(r) = 1}}
<1> DEFINE s == ClientTargets(t, subnets)
           T == {r \in ToSet(s) : Cardinality(r) = 1}
           f == [row \in ToSet(s) |-> Trace(CHOOSE a \in row : TRUE, "queue")]
           ss == [i \in 1..Len(s) |-> IF s[i] \in T THEN <<f[s[i]]>> ELSE <<>>]
<1>1. QueueTraces(t, subnets) = FlattenSeq(ss)
  <2>1. DOMAIN s = 1..Len(s)
    BY DEF IsRows
  <2>2. \A i \in 1..Len(s) : s[i] \in ToSet(s)
    BY <2>1 DEF ToSet
  <2>3. \A i \in 1..Len(s) :
          (IF Cardinality(s[i]) = 1
           THEN <<Trace(CHOOSE a \in s[i] : TRUE, "queue")>> ELSE <<>>) = ss[i]
    BY <2>2
  <2> HIDE DEF ss
  <2>4. ss = [i \in 1..Len(s) |-> ss[i]]
    BY DEF ss
  <2> QED BY <2>3, <2>4 DEF QueueTraces, Select
<1>2. Selects(ss, s, T, f)
  BY DEF Selects
<1>3. {f[r] : r \in T \cap ToSet(s)} = {Trace(CHOOSE a \in row : TRUE, "queue") : row \in T}
  OBVIOUS
<1> HIDE DEF s, f, ss
<1>4. IsRows(FlattenSeq(ss)) /\ ToSet(FlattenSeq(ss)) = {f[r] : r \in T \cap ToSet(s)}
  BY <1>2, Chosen
<1> QED BY <1>1, <1>3, <1>4 DEF s

LEMMA AroundShown ==
    ASSUME NEW subnets, NEW a, IsRows(subnets)
    PROVE  /\ IsRows(Where(subnets, LAMBDA r : a \in r.net))
           /\ ToSet(Where(subnets, LAMBDA r : a \in r.net)) =
                {r \in ToSet(subnets) : a \in r.net}
<1> DEFINE s == subnets
           T == {r \in ToSet(s) : a \in r.net}
           f == [row \in ToSet(s) |-> row]
           ss == [i \in 1..Len(s) |-> IF s[i] \in T THEN <<f[s[i]]>> ELSE <<>>]
<1>1. Where(subnets, LAMBDA r : a \in r.net) = FlattenSeq(ss)
  <2>1. DOMAIN s = 1..Len(s)
    BY DEF IsRows
  <2>2. \A i \in 1..Len(s) : s[i] \in ToSet(s)
    BY <2>1 DEF ToSet
  <2>3. \A i \in 1..Len(s) :
          (IF a \in s[i].net
           THEN <<s[i]>> ELSE <<>>) = ss[i]
    BY <2>2
  <2> HIDE DEF ss
  <2>4. ss = [i \in 1..Len(s) |-> ss[i]]
    BY DEF ss
  <2> QED BY <2>3, <2>4 DEF Where, Select
<1>2. Selects(ss, s, T, f)
  BY DEF Selects
<1>3. {f[r] : r \in T \cap ToSet(s)} = T
  OBVIOUS
<1> HIDE DEF s, f, ss
<1>4. IsRows(FlattenSeq(ss)) /\ ToSet(FlattenSeq(ss)) = {f[r] : r \in T \cap ToSet(s)}
  BY <1>2, Chosen
<1> QED BY <1>1, <1>3, <1>4 DEF s

LEMMA BestShown ==
    ASSUME NEW around, IsRows(around)
    PROVE  /\ IsRows(Where(around, LAMBDA r : \A x \in Rows(around) : r.net \subseteq x.net))
           /\ ToSet(Where(around, LAMBDA r : \A x \in Rows(around) : r.net \subseteq x.net)) =
                {r \in ToSet(around) : \A x \in Rows(around) : r.net \subseteq x.net}
<1> DEFINE s == around
           T == {r \in ToSet(s) : \A x \in Rows(around) : r.net \subseteq x.net}
           f == [row \in ToSet(s) |-> row]
           ss == [i \in 1..Len(s) |-> IF s[i] \in T THEN <<f[s[i]]>> ELSE <<>>]
<1>1. Where(around, LAMBDA r : \A x \in Rows(around) : r.net \subseteq x.net) = FlattenSeq(ss)
  <2>1. DOMAIN s = 1..Len(s)
    BY DEF IsRows
  <2>2. \A i \in 1..Len(s) : s[i] \in ToSet(s)
    BY <2>1 DEF ToSet
  <2>3. \A i \in 1..Len(s) :
          (IF \A x \in Rows(around) : s[i].net \subseteq x.net
           THEN <<s[i]>> ELSE <<>>) = ss[i]
    BY <2>2
  <2> HIDE DEF ss
  <2>4. ss = [i \in 1..Len(s) |-> ss[i]]
    BY DEF ss
  <2> QED BY <2>3, <2>4 DEF Where, Select
<1>2. Selects(ss, s, T, f)
  BY DEF Selects
<1>3. {f[r] : r \in T \cap ToSet(s)} = T
  OBVIOUS
<1> HIDE DEF s, f, ss
<1>4. IsRows(FlattenSeq(ss)) /\ ToSet(FlattenSeq(ss)) = {f[r] : r \in T \cap ToSet(s)}
  BY <1>2, Chosen
<1> QED BY <1>1, <1>3, <1>4 DEF s

LEMMA ServingShown ==
    ASSUME NEW best, IsRows(best)
    PROVE  /\ IsRows(Where(best, LAMBDA r : r.role = "client"))
           /\ ToSet(Where(best, LAMBDA r : r.role = "client")) =
                {r \in ToSet(best) : r.role = "client"}
<1> DEFINE s == best
           T == {r \in ToSet(s) : r.role = "client"}
           f == [row \in ToSet(s) |-> row]
           ss == [i \in 1..Len(s) |-> IF s[i] \in T THEN <<f[s[i]]>> ELSE <<>>]
<1>1. Where(best, LAMBDA r : r.role = "client") = FlattenSeq(ss)
  <2>1. DOMAIN s = 1..Len(s)
    BY DEF IsRows
  <2>2. \A i \in 1..Len(s) : s[i] \in ToSet(s)
    BY <2>1 DEF ToSet
  <2>3. \A i \in 1..Len(s) :
          (IF s[i].role = "client"
           THEN <<s[i]>> ELSE <<>>) = ss[i]
    BY <2>2
  <2> HIDE DEF ss
  <2>4. ss = [i \in 1..Len(s) |-> ss[i]]
    BY DEF ss
  <2> QED BY <2>3, <2>4 DEF Where, Select
<1>2. Selects(ss, s, T, f)
  BY DEF Selects
<1>3. {f[r] : r \in T \cap ToSet(s)} = T
  OBVIOUS
<1> HIDE DEF s, f, ss
<1>4. IsRows(FlattenSeq(ss)) /\ ToSet(FlattenSeq(ss)) = {f[r] : r \in T \cap ToSet(s)}
  BY <1>2, Chosen
<1> QED BY <1>1, <1>3, <1>4 DEF s

LEMMA OwnShown ==
    ASSUME NEW traces, NEW a, IsRows(traces)
    PROVE  /\ IsRows(Where(traces, LAMBDA trace : trace.address = a))
           /\ ToSet(Where(traces, LAMBDA trace : trace.address = a)) =
                {r \in ToSet(traces) : r.address = a}
<1> DEFINE s == traces
           T == {r \in ToSet(s) : r.address = a}
           f == [row \in ToSet(s) |-> row]
           ss == [i \in 1..Len(s) |-> IF s[i] \in T THEN <<f[s[i]]>> ELSE <<>>]
<1>1. Where(traces, LAMBDA trace : trace.address = a) = FlattenSeq(ss)
  <2>1. DOMAIN s = 1..Len(s)
    BY DEF IsRows
  <2>2. \A i \in 1..Len(s) : s[i] \in ToSet(s)
    BY <2>1 DEF ToSet
  <2>3. \A i \in 1..Len(s) :
          (IF s[i].address = a
           THEN <<s[i]>> ELSE <<>>) = ss[i]
    BY <2>2
  <2> HIDE DEF ss
  <2>4. ss = [i \in 1..Len(s) |-> ss[i]]
    BY DEF ss
  <2> QED BY <2>3, <2>4 DEF Where, Select
<1>2. Selects(ss, s, T, f)
  BY DEF Selects
<1>3. {f[r] : r \in T \cap ToSet(s)} = T
  OBVIOUS
<1> HIDE DEF s, f, ss
<1>4. IsRows(FlattenSeq(ss)) /\ ToSet(FlattenSeq(ss)) = {f[r] : r \in T \cap ToSet(s)}
  BY <1>2, Chosen
<1> QED BY <1>1, <1>3, <1>4 DEF s

\* Several lists of rows laid end to end.
LEMMA RowsLaid ==
    ASSUME NEW s, NEW u, IsRows(s), IsRows(u)
    PROVE  /\ IsRows(s \o u) /\ ToSet(s \o u) = ToSet(s) \cup ToSet(u)
           /\ Len(s \o u) = Len(s) + Len(u) /\ Len(s) \in Nat /\ Len(u) \in Nat
           /\ \A i \in 1..Len(s) + Len(u) : (s \o u)[i] = IF i <= Len(s) THEN s[i] ELSE u[i - Len(s)]
           /\ DOMAIN s = 1..Len(s) /\ DOMAIN u = 1..Len(u)
<1> DEFINE T == ToSet(s) \cup ToSet(u)
<1>1. s \in Seq(ToSet(s)) /\ u \in Seq(ToSet(u)) /\ ToSet(s) \subseteq T /\ ToSet(u) \subseteq T
  BY DEF IsRows
<1> HIDE DEF T
<1>2. s \in Seq(T) /\ u \in Seq(T)
  BY <1>1, SeqMonotonic
<1>3. s \o u \in Seq(T) /\ ToSet(s \o u) = ToSet(s) \cup ToSet(u)
  BY <1>2, ConcatParts
<1>4. /\ Len(s \o u) = Len(s) + Len(u) /\ Len(s) \in Nat /\ Len(u) \in Nat
      /\ \A i \in 1..Len(s) + Len(u) : (s \o u)[i] = IF i <= Len(s) THEN s[i] ELSE u[i - Len(s)]
      /\ DOMAIN s = 1..Len(s) /\ DOMAIN u = 1..Len(u)
  BY <1>2, ConcatProperties
<1> QED BY <1>3, <1>4, SomeRows

\* The first row of a list is one of its rows.
LEMMA FirstRow ==
    ASSUME NEW s, NEW u, IsRows(s), IsRows(u), \A r \in ToSet(s) \cup ToSet(u) : r # None
    PROVE  /\ ToSet(s) # {} => First(s \o u) \in ToSet(s)
           /\ ToSet(s) = {} /\ ToSet(u) # {} => First(s \o u) \in ToSet(u)
           /\ ToSet(s) = {} /\ ToSet(u) = {} => First(s \o u) = None
<1> DEFINE v == s \o u
<1>1. /\ Len(v) = Len(s) + Len(u) /\ Len(s) \in Nat /\ Len(u) \in Nat
      /\ \A i \in 1..Len(s) + Len(u) : v[i] = IF i <= Len(s) THEN s[i] ELSE u[i - Len(s)]
      /\ DOMAIN s = 1..Len(s) /\ DOMAIN u = 1..Len(u)
  BY RowsLaid
<1> HIDE DEF v
<1>2. /\ First(v) = None <=> \A i \in 1..Len(v) : v[i] = None
      /\ Len(v) # 0 /\ v[1] # None => First(v) = v[1]
  BY <1>1, FirstKnown
<1>3. ToSet(s) = {s[i] : i \in 1..Len(s)} /\ ToSet(u) = {u[i] : i \in 1..Len(u)}
  BY <1>1 DEF ToSet
<1>4. CASE Len(s) # 0
  <2>1. v[1] = s[1] /\ Len(v) # 0 /\ 1 \in 1..Len(s)
    BY <1>1, <1>4
  <2>2. s[1] \in ToSet(s)
    BY <1>3, <2>1
  <2> QED BY <1>2, <2>1, <2>2 DEF v
<1>5. CASE Len(s) = 0 /\ Len(u) # 0
  <2>1. v[1] = u[1] /\ Len(v) # 0 /\ 1 \in 1..Len(u) /\ 1..Len(s) = {}
    BY <1>1, <1>5
  <2>2. u[1] \in ToSet(u) /\ ToSet(s) = {}
    BY <1>3, <2>1
  <2> QED BY <1>2, <2>1, <2>2 DEF v
<1>6. CASE Len(s) = 0 /\ Len(u) = 0
  <2>1. 1..Len(v) = {} /\ 1..Len(s) = {} /\ 1..Len(u) = {}
    BY <1>1, <1>6
  <2> QED BY <1>2, <1>3, <2>1 DEF v
<1> QED BY <1>1, <1>4, <1>5, <1>6

Around(subnets, a) == {r \in ToSet(subnets) : a \in r.net}
Closest(subnets, a) == {r \in Around(subnets, a) : \A x \in Around(subnets, a) : r.net \subseteq x.net}
Serving(subnets, a) == {r \in Closest(subnets, a) : r.role = "client"}

\* The side an address is on depends on the set of the subnets only.
LEMMA SubnetIs ==
    ASSUME NEW subnets, NEW a, IsRows(subnets), \A r \in ToSet(subnets) : r # None
    PROVE  /\ Closest(subnets, a) = {} => SubnetOf(subnets, a) = None
           /\ Closest(subnets, a) # {} => SubnetOf(subnets, a) \in Closest(subnets, a)
           /\ Serving(subnets, a) # {} => SubnetOf(subnets, a) \in Serving(subnets, a)
<1> DEFINE around == Where(subnets, LAMBDA r : a \in r.net)
           best == Where(around, LAMBDA r : \A s \in Rows(around) : r.net \subseteq s.net)
           serving == Where(best, LAMBDA r : r.role = "client")
<1>1. IsRows(around) /\ ToSet(around) = Around(subnets, a)
  BY AroundShown DEF Around
<1>0. SubnetOf(subnets, a) = First(serving \o best)
  BY DEF SubnetOf
<1> HIDE DEF around
<1>2. IsRows(best) /\ ToSet(best) = Closest(subnets, a)
  <2>1. /\ IsRows(best)
        /\ ToSet(best) = {r \in ToSet(around) : \A x \in Rows(around) : r.net \subseteq x.net}
    BY <1>1, BestShown
  <2> HIDE DEF best
  <2> QED BY <1>1, <2>1 DEF Closest, Rows
<1> HIDE DEF best
<1>3. IsRows(serving) /\ ToSet(serving) = Serving(subnets, a)
  BY <1>2, ServingShown DEF Serving
<1> HIDE DEF serving
<1>4. \A r \in ToSet(serving) \cup ToSet(best) : r # None
  BY <1>1, <1>2, <1>3 DEF Serving, Closest, Around
<1>5. /\ ToSet(serving) # {} => First(serving \o best) \in ToSet(serving)
      /\ ToSet(serving) = {} /\ ToSet(best) # {} => First(serving \o best) \in ToSet(best)
      /\ ToSet(serving) = {} /\ ToSet(best) = {} => First(serving \o best) = None
  BY <1>2, <1>3, <1>4, FirstRow
<1>6. Serving(subnets, a) \subseteq Closest(subnets, a)
  BY DEF Serving
<1> QED BY <1>0, <1>2, <1>3, <1>5, <1>6

Readable(t) ==
    /\ IsRows(t["addresses"]) /\ IsRows(t["arp"]) /\ IsRows(t["dhcp_leases"])
    /\ IsRows(t["ppp_active"]) /\ IsRows(t["neighbors"]) /\ IsRows(t["routes"])
    /\ IsRows(t["queues"]) /\ \A q \in ToSet(t["queues"]) : IsRows(q.targets)

\* Every table that can be read makes lists of rows.
LEMMA TargetsAreRows == ASSUME NEW t, Readable(t) PROVE IsRows(QueueTargets(t))
<1> DEFINE all == Select(t["queues"], LAMBDA q : ~q.off, LAMBDA q : q.targets)
           T == UNION {ToSet(q.targets) : q \in ToSet(t["queues"])}
<1>1. IsRows(all) /\ ToSet(all) = {row.targets : row \in {r \in ToSet(t["queues"]) : ~r.off}}
  BY QueuesShown DEF Readable
<1>2. QueueTargets(t) = FlattenSeq(all)
  BY DEF QueueTargets
<1> HIDE DEF all
<1>3. \A q \in ToSet(t["queues"]) : q.targets \in Seq(T)
  <2> SUFFICES ASSUME NEW q \in ToSet(t["queues"]) PROVE q.targets \in Seq(T)
    OBVIOUS
  <2>1. q.targets \in Seq(ToSet(q.targets)) /\ ToSet(q.targets) \subseteq T
    BY DEF Readable, IsRows
  <2> HIDE DEF T
  <2> QED BY <2>1, SeqMonotonic
<1> HIDE DEF T
<1>4. ToSet(all) \subseteq Seq(T) /\ all \in Seq(ToSet(all))
  BY <1>1, <1>3 DEF IsRows
<1>5. all \in Seq(Seq(T))
  BY <1>4, SeqMonotonic
<1> QED BY <1>2, <1>5, Flattened, SomeRows

LEMMA RoutesTold ==
    ASSUME NEW t, NEW subnets, Readable(t)
    PROVE  /\ IsRows(RouteTraces(t, subnets))
           /\ ToSet(RouteTraces(t, subnets)) =
                {Trace(r.gateway, "route") : r \in ToSet(ClientRoutes(t, subnets))}
<1> DEFINE s == ClientRoutes(t, subnets)
           T == {Trace(r.gateway, "route") : r \in ToSet(s)}
           q == [i \in 1..Len(s) |-> Trace(s[i].gateway, "route")]
<1>1. IsRows(s)
  BY RoutesShown DEF Readable
<1>2. Len(s) \in Nat /\ DOMAIN s = 1..Len(s)
  BY <1>1 DEF IsRows
<1>3. q = RouteTraces(t, subnets)
  BY DEF RouteTraces
<1> HIDE DEF s
<1>4. \A i \in 1..Len(s) : q[i] \in T
  BY <1>2 DEF ToSet
<1>5. ToSet(s) = {s[i] : i \in 1..Len(s)}
  BY <1>2 DEF ToSet
<1>6. DOMAIN q = 1..Len(s) /\ \A i \in 1..Len(s) : q[i] = Trace(s[i].gateway, "route")
  OBVIOUS
<1> HIDE DEF q
<1>7. ToSet(q) = T
  BY <1>5, <1>6 DEF ToSet
<1>8. q \in [1..Len(s) -> T]
  BY <1>4 DEF q
<1> HIDE DEF T
<1>9. IsRows(q)
  BY <1>2, <1>8, SeqDef, SomeRows
<1> QED BY <1>3, <1>7, <1>9 DEF T, s

\* The traces of a router are those of each of its tables, and no other.
LEMMA TracesShown ==
    ASSUME NEW t, NEW subnets, Readable(t)
    PROVE  /\ IsRows(Traces(t, subnets))
           /\ ToSet(Traces(t, subnets)) =
                ToSet(ArpTraces(t, subnets)) \cup ToSet(LeaseTraces(t)) \cup ToSet(SessionTraces(t))
                \cup ToSet(NeighbourTraces(t)) \cup ToSet(RouteTraces(t, subnets))
                \cup ToSet(QueueTraces(t, subnets))
<1>1. IsRows(ArpTraces(t, subnets)) /\ IsRows(LeaseTraces(t)) /\ IsRows(SessionTraces(t))
      /\ IsRows(NeighbourTraces(t))
  BY ArpShown, LeasesShown, SessionsShown, NeighboursShown DEF Readable
<1>2. IsRows(RouteTraces(t, subnets))
  BY RoutesTold
<1>3. IsRows(QueueTraces(t, subnets))
  BY TargetsAreRows, TargetsShown, HostsShown
<1> QED BY <1>1, <1>2, <1>3, RowsLaid DEF Traces

LEMMA LocatedIs ==
    ASSUME NEW subnets, NEW traces, NEW a, IsRows(traces)
    PROVE  LET host == Located(subnets, traces, a)
           IN  /\ host.subnet = SubnetOf(subnets, a)
               /\ host.login = None <=> \A trace \in ToSet(traces) : trace.address = a => trace.login = None
               /\ host.perimeter <=> \E trace \in ToSet(traces) : trace.address = a /\ trace.perimeter
<1> DEFINE own == Where(traces, LAMBDA trace : trace.address = a)
           logins == [i \in 1..Len(own) |-> own[i]["login"]]
           host == Located(subnets, traces, a)
<1>1. IsRows(own) /\ ToSet(own) = {trace \in ToSet(traces) : trace.address = a}
  BY OwnShown
<1>2. /\ host.subnet = SubnetOf(subnets, a) /\ host.login = First(logins)
      /\ host.perimeter = \E trace \in Rows(own) : trace.perimeter
  BY DEF Located
<1> HIDE DEF own, host
<1>3. Len(own) \in Nat /\ DOMAIN own = 1..Len(own)
  BY <1>1 DEF IsRows
<1>4. Len(logins) = Len(own) /\ \A i \in 1..Len(own) : logins[i] = own[i].login
  BY <1>3
<1> HIDE DEF logins
<1>5. First(logins) = None <=> \A i \in 1..Len(own) : own[i].login = None
  BY <1>3, <1>4, FirstKnown
<1>6. ToSet(own) = {own[i] : i \in 1..Len(own)}
  BY <1>3 DEF ToSet
<1>7. First(logins) = None <=> \A trace \in ToSet(own) : trace.login = None
  BY <1>5, <1>6
<1>8. host.perimeter <=> \E trace \in ToSet(traces) : trace.address = a /\ trace.perimeter
  BY <1>1, <1>2, Zenon DEF Rows
<1>9. host.login = None <=> \A trace \in ToSet(traces) : trace.address = a => trace.login = None
  BY <1>1, <1>2, <1>7
<1> QED BY <1>2, <1>8, <1>9 DEF host

\* When an address is a client: it is met in some trace, it is on a client side or
\* behind no side, and it is neither the router nor one of its networks.
LEMMA ClientIs ==
    ASSUME NEW t, NEW known, NEW a, Readable(t), NotAFunction(None)
    PROVE  LET subnets == Subnets(t)
               seen_ == ToSet(Traces(t, subnets))
               subnet == SubnetOf(subnets, a)
           IN  a \in Clients(t, known) <=>
                 /\ \E trace \in seen_ : trace.address = a
                 /\ a \notin {row.address : row \in ToSet(t["addresses"])}
                 /\ \A trace \in seen_ : trace.address = a => trace.login = None
                 /\ a \notin known \cup Peers(t)
                 /\ IF subnet = None THEN \E trace \in seen_ : trace.address = a /\ trace.perimeter
                                     ELSE subnet.role = "client"
<1> DEFINE subnets == Subnets(t)
           traces == Traces(t, subnets)
           host == Located(subnets, traces, a)
           own == {row.address : row \in ToSet(t["addresses"])}
<1>1. IsRows(traces)
  BY TracesShown
<1>2. /\ host.subnet = SubnetOf(subnets, a)
      /\ host.login = None <=> \A trace \in ToSet(traces) : trace.address = a => trace.login = None
      /\ host.perimeter <=> \E trace \in ToSet(traces) : trace.address = a /\ trace.perimeter
  BY <1>1, LocatedIs
<1>3. a \in Clients(t, known) <=>
          (\E trace \in ToSet(traces) : trace.address = a) /\ Nature(t, known, a, host) = "client"
  <2>1. \A x : HostAt(t, known, subnets, traces, x).address = x
               /\ HostAt(t, known, subnets, traces, x).nature
                  = Nature(t, known, x, Located(subnets, traces, x))
    BY DEF HostAt
  <2>2. Clients(t, known) = {h.address : h \in {x \in Hosts(t, known) : x.nature = "client"}}
    BY DEF Clients, Sightings
  <2>3. Hosts(t, known) = {HostAt(t, known, subnets, traces, x) :
                             x \in {trace.address : trace \in ToSet(traces)}}
    BY DEF Hosts, Rows
  <2> HIDE DEF subnets, traces
  <2> QED BY <2>1, <2>2, <2>3
<1>4. Nature(t, known, a, host) =
        IF a \in own THEN "equipment"
        ELSE IF host.login # None THEN "subscriber"
        ELSE IF a \in known \cup Peers(t) THEN "equipment"
        ELSE Placed(host)
  BY DEF Nature, Rows
<1>5. Placed(host) = IF host.subnet = None THEN IF host.perimeter THEN "client" ELSE "outside"
                     ELSE IF host.subnet.role = "client" THEN "client" ELSE "outside"
  BY DEF Placed
<1> HIDE DEF subnets, traces, host, own
<1>6. Nature(t, known, a, host) = "client" <=>
        /\ a \notin own
        /\ host.login = None
        /\ a \notin known \cup Peers(t)
        /\ Placed(host) = "client"
  BY <1>4
<1>7. Placed(host) = "client" <=>
        IF host.subnet = None THEN host.perimeter ELSE host.subnet.role = "client"
  BY <1>5
<1>8. a \in Clients(t, known) <=>
                 /\ \E trace \in ToSet(traces) : trace.address = a
                 /\ a \notin own
                 /\ \A trace \in ToSet(traces) : trace.address = a => trace.login = None
                 /\ a \notin known \cup Peers(t)
                 /\ IF SubnetOf(subnets, a) = None
                    THEN \E trace \in ToSet(traces) : trace.address = a /\ trace.perimeter
                    ELSE SubnetOf(subnets, a).role = "client"
  BY <1>2, <1>3, <1>6, <1>7
<1> QED BY <1>8 DEF subnets, traces, own

\* A reading that failed leaves a table empty, and only one whose absence is normal.
Lacks(u, t) ==
    \A name \in Tables : u[name] = t[name] \/ (name \in Optional /\ u[name] = <<>>)

\* What a table tells is told by the same rows when the others are empty.
LEMMA LessIsRead ==
    ASSUME NEW u, NEW t, Lacks(u, t)
    PROVE  /\ \A name \in {"addresses", "arp", "vlans", "ppp_active", "dhcp_leases", "dhcp_servers",
                           "routes", "queues", "neighbors"} : u[name] = t[name]
           /\ Peers(u) \subseteq Peers(t)
           /\ PppoeInterfaces(u) \subseteq PppoeInterfaces(t)
           /\ Gateways(u) = Gateways(t)
           /\ DeadVlans(u) = DeadVlans(t) /\ LiveVlans(u) = LiveVlans(t)
<1>1. \A name \in {"addresses", "arp", "vlans", "ppp_active", "dhcp_leases", "dhcp_servers",
                   "routes", "queues", "neighbors"} : u[name] = t[name]
  BY TableNames DEF Lacks
<1>2. \A name \in Optional : Rows(u[name]) \subseteq Rows(t[name])
  <2>1. ToSet(<<>>) = {}
    BY DEF ToSet
  <2> QED BY <2>1, TableNames DEF Lacks, Rows
<1>3. Rows(u["ospf_neighbors"]) \subseteq Rows(t["ospf_neighbors"])
      /\ Rows(u["bgp_sessions"]) \subseteq Rows(t["bgp_sessions"])
      /\ Rows(u["pppoe_servers"]) \subseteq Rows(t["pppoe_servers"])
  BY <1>2 DEF Optional
<1> QED BY <1>1, <1>3 DEF Peers, PppoeInterfaces, Gateways, DeadVlans, LiveVlans

\* The role of an interface is the same in a reading where only optional tables lack.
LEMMA RoleStays ==
    ASSUME NEW u, NEW t, Lacks(u, t), NEW row, Role(t, row) = "client"
    PROVE  Role(u, row) = "client"
<1>1. /\ ~(row.off \/ row.interface \in DeadVlans(t)) /\ ~Narrow(row.net)
      /\ row.interface \notin PppoeInterfaces(t)
      /\ (Peers(t) \cup Gateways(t)) \cap row.net = {}
  BY DEF Role
<1>2. /\ ~(row.off \/ row.interface \in DeadVlans(u))
      /\ row.interface \notin PppoeInterfaces(u)
      /\ (Peers(u) \cup Gateways(u)) \cap row.net = {}
  BY <1>1, LessIsRead
<1> QED BY <1>1, <1>2 DEF Role

Side(t, row) == [net |-> row.net, interface |-> row.interface, role |-> Role(t, row)]

LEMMA SidesAre ==
    ASSUME NEW t, IsRows(t["addresses"]), NotAFunction(None)
    PROVE  /\ IsRows(Subnets(t))
           /\ ToSet(Subnets(t)) = {Side(t, row) : row \in ToSet(t["addresses"])}
           /\ \A r \in ToSet(Subnets(t)) : r # None
<1>1. \A row : Side(t, row) # None
  <2> SUFFICES ASSUME NEW row, None = Side(t, row) PROVE FALSE
    OBVIOUS
  <2>1. Side(t, row) = [e \in DOMAIN Side(t, row) |-> Side(t, row)[e]]
    BY DEF Side
  <2> QED BY <2>1 DEF NotAFunction
<1>2. /\ IsRows(Subnets(t))
      /\ ToSet(Subnets(t)) = {Side(t, row) : row \in ToSet(t["addresses"])}
  BY SubnetsShown DEF Side
<1> QED BY <1>1, <1>2

LEMMA SideFields ==
    ASSUME NEW t, NEW row
    PROVE  /\ Side(t, row).net = row.net /\ Side(t, row).interface = row.interface
           /\ Side(t, row).role = Role(t, row)
  BY DEF Side

\* So is the place of an address.
LEMMA PlaceStays ==
    ASSUME NEW u, NEW t, Lacks(u, t), IsRows(t["addresses"]), NotAFunction(None), NEW a
    PROVE  /\ ClientNets(Subnets(t)) \subseteq ClientNets(Subnets(u))
           /\ SubnetOf(Subnets(t), a) = None => SubnetOf(Subnets(u), a) = None
           /\ SubnetOf(Subnets(t), a) # None /\ SubnetOf(Subnets(t), a).role = "client"
                => /\ SubnetOf(Subnets(u), a) # None /\ SubnetOf(Subnets(u), a).role = "client"
                   /\ \E row \in ToSet(t["addresses"]) : a \in row.net /\ Role(t, row) = "client"
<1> DEFINE S == Subnets(t)
           V == Subnets(u)
           rows == ToSet(t["addresses"])
<1>1. /\ IsRows(S) /\ ToSet(S) = {Side(t, row) : row \in rows} /\ \A r \in ToSet(S) : r # None
  BY SidesAre
<1>2. /\ IsRows(V) /\ ToSet(V) = {Side(u, row) : row \in rows} /\ \A r \in ToSet(V) : r # None
  <2>1. u["addresses"] = t["addresses"]
    BY LessIsRead
  <2> QED BY <2>1, SidesAre
<1> HIDE DEF S, V, rows
<1>3. ClientNets(S) \subseteq ClientNets(V)
  <2> SUFFICES ASSUME NEW row \in rows, Role(t, row) = "client" PROVE row.net \in ClientNets(V)
    BY <1>1, SideFields DEF ClientNets, Rows
  <2>1. Side(u, row) \in ToSet(V) /\ Side(u, row).role = "client" /\ Side(u, row).net = row.net
    BY <1>2, SideFields, RoleStays
  <2> QED BY <2>1 DEF ClientNets, Rows
<1> DEFINE near == {row \in rows : a \in row.net}
           least == {row \in near : \A x \in near : row.net \subseteq x.net}
<1>4. Closest(S, a) = {Side(t, row) : row \in least}
  <2>1. Around(S, a) = {Side(t, row) : row \in near}
    BY <1>1, SideFields DEF Around
  <2> HIDE DEF near
  <2> QED BY <2>1, SideFields DEF Closest
<1>5. Closest(V, a) = {Side(u, row) : row \in least}
  <2>1. Around(V, a) = {Side(u, row) : row \in near}
    BY <1>2, SideFields DEF Around
  <2> HIDE DEF near
  <2> QED BY <2>1, SideFields DEF Closest
<1>6. least \subseteq rows /\ \A row \in least : a \in row.net
  OBVIOUS
<1> HIDE DEF least
<1>7. /\ Closest(S, a) = {} => SubnetOf(S, a) = None
      /\ Closest(S, a) # {} => SubnetOf(S, a) \in Closest(S, a)
  BY <1>1, SubnetIs
<1>8. /\ Closest(V, a) = {} => SubnetOf(V, a) = None
      /\ Serving(V, a) # {} => SubnetOf(V, a) \in Serving(V, a)
  BY <1>2, SubnetIs
<1>9. Closest(S, a) \subseteq ToSet(S) /\ Serving(V, a) \subseteq ToSet(V)
      /\ \A r \in Serving(V, a) : r.role = "client"
  BY DEF Closest, Around, Serving
<1>10. SubnetOf(S, a) = None => SubnetOf(V, a) = None
  <2>1. SubnetOf(S, a) = None => Closest(S, a) = {}
    BY <1>1, <1>7, <1>9
  <2>2. Closest(S, a) = {} => Closest(V, a) = {}
    BY <1>4, <1>5
  <2> QED BY <1>8, <2>1, <2>2
<1>11. ASSUME SubnetOf(S, a) # None, SubnetOf(S, a).role = "client"
       PROVE  /\ SubnetOf(V, a) # None /\ SubnetOf(V, a).role = "client"
              /\ \E row \in rows : a \in row.net /\ Role(t, row) = "client"
  <2>1. SubnetOf(S, a) \in Closest(S, a)
    BY <1>7, <1>11
  <2>2. PICK row \in least : SubnetOf(S, a) = Side(t, row)
    BY <1>4, <2>1
  <2>3. Role(t, row) = "client"
    BY <1>11, <2>2, SideFields
  <2>4. Side(u, row) \in Closest(V, a) /\ Side(u, row).role = "client"
    BY <1>5, <2>3, RoleStays, SideFields
  <2>5. Serving(V, a) # {}
    BY <2>4 DEF Serving
  <2> QED BY <1>2, <1>6, <1>8, <1>9, <2>2, <2>3, <2>5
<1> QED BY <1>3, <1>10, <1>11 DEF S, V, rows

\* So are the rows of the tables that are read in both.
LEMMA SameAnswers ==
    ASSUME NEW u, NEW t, Lacks(u, t), Readable(t)
    PROVE  /\ Readable(u)
           /\ ToSet(LeaseTraces(u)) = ToSet(LeaseTraces(t))
           /\ ToSet(SessionTraces(u)) = ToSet(SessionTraces(t))
           /\ ToSet(NeighbourTraces(u)) = ToSet(NeighbourTraces(t))
           /\ QueueTargets(u) = QueueTargets(t)
<1>1. \A name \in {"addresses", "arp", "vlans", "ppp_active", "dhcp_leases", "dhcp_servers",
                   "routes", "queues", "neighbors"} : u[name] = t[name]
  BY LessIsRead
<1>2. Readable(u)
  BY <1>1 DEF Readable
<1>3. \A server : ServedOn(u, server) = ServedOn(t, server)
  <2>1. u["dhcp_servers"] = t["dhcp_servers"]
    BY <1>1
  <2> QED BY <2>1, Zenon DEF ServedOn
<1>4. u["dhcp_leases"] = t["dhcp_leases"] /\ u["ppp_active"] = t["ppp_active"]
      /\ u["neighbors"] = t["neighbors"] /\ u["queues"] = t["queues"]
  BY <1>1
<1>5. IsRows(t["dhcp_leases"]) /\ IsRows(t["ppp_active"]) /\ IsRows(t["neighbors"])
  BY DEF Readable
<1>6. ToSet(LeaseTraces(u)) = ToSet(LeaseTraces(t))
  <2> DEFINE Of(v, row) == [Trace(First(<<row.active, row.address>>), "lease") EXCEPT
                             !.mac = row.mac, !.interface = ServedOn(v, row.server), !.perimeter = TRUE]
             T == {r \in ToSet(t["dhcp_leases"]) : ~r.off /\ First(<<r.active, r.address>>) # None}
  <2>1. ToSet(LeaseTraces(t)) = {Of(t, row) : row \in T}
    BY <1>5, LeasesShown
  <2>2. IsRows(u["dhcp_leases"])
    BY <1>4, <1>5
  <2>3. ToSet(LeaseTraces(u)) =
          {Of(u, row) : row \in {r \in ToSet(u["dhcp_leases"]) :
                                   ~r.off /\ First(<<r.active, r.address>>) # None}}
    BY <2>2, LeasesShown
  <2>4. ToSet(LeaseTraces(u)) = {Of(u, row) : row \in T}
    BY <1>4, <2>3
  <2>5. \A row : Of(u, row) = Of(t, row)
    BY <1>3
  <2> HIDE DEF Of, T
  <2> QED BY <2>1, <2>4, <2>5
<1>7. SessionTraces(u) = SessionTraces(t) /\ NeighbourTraces(u) = NeighbourTraces(t)
  BY <1>4, Zenon DEF SessionTraces, NeighbourTraces
<1>8. QueueTargets(u) = QueueTargets(t)
  BY <1>4, Zenon DEF QueueTargets
<1> QED BY <1>2, <1>6, <1>7, <1>8

LEMMA TraceFields ==
    ASSUME NEW a, NEW source
    PROVE  /\ Trace(a, source).address = a /\ Trace(a, source).login = None
           /\ ~Trace(a, source).perimeter
  BY DEF Trace

LEMMA ArpFields ==
    ASSUME NEW t, NEW subnets, NEW row
    PROVE  LET trace == ArpTrace(t, subnets, row)
           IN  /\ trace.address = row.address /\ trace.login = None
               /\ trace.perimeter <=> Judged(t, subnets, row) = "kept"
  BY DEF Trace, ArpTrace

LEMMA ArpKept ==
    ASSUME NEW u, NEW t, Lacks(u, t), NEW subnets, NEW fewer, NEW row,
           Judged(t, subnets, row) = "kept"
    PROVE  Judged(u, fewer, row) = "kept"
<1>1. /\ ~row.off /\ ~row.invalid /\ row.interface \notin PppoeInterfaces(t)
      /\ row.interface \notin DeadVlans(t) /\ row.mac # None /\ row.interface \in LiveVlans(t)
  BY DEF Judged
<1>2. /\ row.interface \notin PppoeInterfaces(u)
      /\ row.interface \notin DeadVlans(u) /\ row.interface \in LiveVlans(u)
  BY <1>1, LessIsRead
<1> QED BY <1>1, <1>2 DEF Judged

\* Whether the ARP rows of a reading are looked up at home.
AtHome(t) == LooksUpAtHome(Rows(t["arp"]), Rows(t["pppoe_servers"]), Rows(t["addresses"]))

\* An ARP row that is kept in the full reading is kept in the other, as long as the
\* lookups that the PPPoE servers would have set aside are those of their own clients.
LEMMA ArpStays ==
    ASSUME NEW u, NEW t, Lacks(u, t), AtHome(t), NEW subnets, NEW fewer,
           NEW row \in ToSet(t["arp"]), Judged(t, subnets, row) \notin Silent,
           InClientNet(subnets, row.address),
           NEW net \in ToSet(t["addresses"]), row.address \in net.net, Role(t, net) = "client"
    PROVE  Judged(u, fewer, row) \notin Silent
<1>1. ~row.off /\ ~row.invalid
  BY DEF Judged, Silent
<1>2. CASE row.mac # None
  BY <1>1, <1>2 DEF Judged, Silent
<1>3. CASE row.mac = None
  <2>1. row.interface \notin PppoeInterfaces(t)
    <3> SUFFICES ASSUME row.interface \in PppoeInterfaces(t) PROVE FALSE
      OBVIOUS
    <3>1. PICK server \in ToSet(t["pppoe_servers"]) : ~server.off /\ server.interface = row.interface
      BY DEF PppoeInterfaces, Rows
    <3>2. net.interface = row.interface
      BY <1>3, <3>1 DEF AtHome, LooksUpAtHome, Rows
    <3> QED BY <3>2 DEF Role
  <2>2. row.interface \in DeadVlans(t)
    BY <1>1, <1>3, <2>1 DEF Judged, Silent
  <2> QED BY <1>1, <2>2, LessIsRead DEF Judged, Silent
<1> QED BY <1>2, <1>3

\* A client of the full reading is a client of the one that lacks optional tables.
LEMMA NobodyMissed ==
    ASSUME NEW u, NEW t, Lacks(u, t), Readable(t), AtHome(t), NotAFunction(None), NEW known
    PROVE  Clients(t, known) \subseteq Clients(u, known)
<1> SUFFICES ASSUME NEW a \in Clients(t, known) PROVE a \in Clients(u, known)
  OBVIOUS
<1> DEFINE S == Subnets(t)
           V == Subnets(u)
           before == ToSet(Traces(t, S))
           after == ToSet(Traces(u, V))
           same == ToSet(LeaseTraces(t)) \cup ToSet(SessionTraces(t)) \cup ToSet(NeighbourTraces(t))
<1>1. /\ Readable(u) /\ QueueTargets(u) = QueueTargets(t)
      /\ same = ToSet(LeaseTraces(u)) \cup ToSet(SessionTraces(u)) \cup ToSet(NeighbourTraces(u))
      /\ u["arp"] = t["arp"] /\ u["routes"] = t["routes"] /\ u["addresses"] = t["addresses"]
  BY SameAnswers, LessIsRead
<1>2. before = ToSet(ArpTraces(t, S)) \cup same \cup ToSet(RouteTraces(t, S)) \cup ToSet(QueueTraces(t, S))
  BY TracesShown
<1>3. after = ToSet(ArpTraces(u, V)) \cup same \cup ToSet(RouteTraces(u, V)) \cup ToSet(QueueTraces(u, V))
  BY <1>1, TracesShown
<1>4. /\ \E trace \in before : trace.address = a
      /\ a \notin {row.address : row \in ToSet(t["addresses"])}
      /\ \A trace \in before : trace.address = a => trace.login = None
      /\ a \notin known \cup Peers(t)
      /\ IF SubnetOf(S, a) = None
         THEN \E trace \in before : trace.address = a /\ trace.perimeter
         ELSE SubnetOf(S, a).role = "client"
  BY ClientIs
<1>5. /\ ClientNets(S) \subseteq ClientNets(V)
      /\ SubnetOf(S, a) = None => SubnetOf(V, a) = None
      /\ SubnetOf(S, a) # None /\ SubnetOf(S, a).role = "client"
           => /\ SubnetOf(V, a) # None /\ SubnetOf(V, a).role = "client"
              /\ \E row \in ToSet(t["addresses"]) : a \in row.net /\ Role(t, row) = "client"
  BY PlaceStays DEF Readable
<1> HIDE DEF S, V, before, after, same
<1>6. /\ \A trace \in ToSet(ArpTraces(t, S)) :
             \E row \in ToSet(t["arp"]) : trace = ArpTrace(t, S, row) /\ Judged(t, S, row) \notin Silent
      /\ \A row \in ToSet(t["arp"]) : Judged(u, V, row) \notin Silent
             => ArpTrace(u, V, row) \in ToSet(ArpTraces(u, V))
      /\ \A trace \in ToSet(ArpTraces(u, V)) : \E row : trace = ArpTrace(u, V, row)
  <2>1. IsRows(t["arp"]) /\ IsRows(u["arp"])
    BY <1>1 DEF Readable
  <2>2. ToSet(ArpTraces(t, S)) =
             {ArpTrace(t, S, row) : row \in {r \in ToSet(t["arp"]) : Judged(t, S, r) \notin Silent}}
    BY <2>1, ArpShown
  <2>3. ToSet(ArpTraces(u, V)) =
             {ArpTrace(u, V, row) : row \in {r \in ToSet(u["arp"]) : Judged(u, V, r) \notin Silent}}
    BY <2>1, ArpShown
  <2> QED BY <1>1, <2>2, <2>3
\* What the routes and the queues tell.
<1>7. /\ \A trace \in ToSet(RouteTraces(t, S)) : trace \in ToSet(RouteTraces(u, V))
      /\ \A v, nets : Readable(v) => \A trace \in ToSet(RouteTraces(v, nets)) :
             trace.login = None /\ ~trace.perimeter
  <2>1. ToSet(ClientRoutes(t, S)) \subseteq ToSet(ClientRoutes(u, V))
    <3>1. \A x : InClientNet(S, x) => InClientNet(V, x)
      BY <1>5 DEF InClientNet
    <3> QED BY <1>1, <3>1, RoutesShown DEF Readable
  <2>2. /\ ToSet(RouteTraces(t, S)) = {Trace(r.gateway, "route") : r \in ToSet(ClientRoutes(t, S))}
        /\ ToSet(RouteTraces(u, V)) = {Trace(r.gateway, "route") : r \in ToSet(ClientRoutes(u, V))}
    BY <1>1, RoutesTold
  <2>3. \A v, nets : Readable(v) => \A trace \in ToSet(RouteTraces(v, nets)) :
             \E r : trace = Trace(r.gateway, "route")
    BY RoutesTold
  <2> QED BY <2>1, <2>2, <2>3, TraceFields
<1>8. /\ \A trace \in ToSet(QueueTraces(t, S)) : trace \in ToSet(QueueTraces(u, V))
      /\ \A v, nets : Readable(v) => \A trace \in ToSet(QueueTraces(v, nets)) :
             trace.login = None /\ ~trace.perimeter
  <2>1. \A v, nets : Readable(v) =>
            /\ IsRows(ClientTargets(v, nets))
            /\ ToSet(ClientTargets(v, nets)) =
                 {r \in ToSet(QueueTargets(v)) : \E n \in ClientNets(nets) : r \subseteq n}
    BY TargetsAreRows, TargetsShown
  <2>2. \A v, nets : Readable(v) => ToSet(QueueTraces(v, nets)) =
            {Trace(CHOOSE x \in net : TRUE, "queue") :
               net \in {r \in ToSet(ClientTargets(v, nets)) : Cardinality(r) = 1}}
    BY <2>1, HostsShown
  <2>3. ToSet(ClientTargets(t, S)) \subseteq ToSet(ClientTargets(u, V))
    BY <1>1, <1>5, <2>1
  <2>4. /\ ToSet(QueueTraces(t, S)) =
             {Trace(CHOOSE x \in net : TRUE, "queue") :
               net \in {r \in ToSet(ClientTargets(t, S)) : Cardinality(r) = 1}}
        /\ ToSet(QueueTraces(u, V)) =
             {Trace(CHOOSE x \in net : TRUE, "queue") :
               net \in {r \in ToSet(ClientTargets(u, V)) : Cardinality(r) = 1}}
    BY <1>1, <2>2
  <2>5. ToSet(QueueTraces(t, S)) \subseteq ToSet(QueueTraces(u, V))
    BY <2>3, <2>4
  <2>6. \A v, nets : Readable(v) => \A trace \in ToSet(QueueTraces(v, nets)) :
            \E x : trace = Trace(x, "queue")
    BY <2>2
  <2> QED BY <2>5, <2>6, TraceFields
\* Nobody logs in who did not.
<1>9. \A trace \in after : trace.address = a => trace.login = None
  BY <1>1, <1>2, <1>3, <1>4, <1>6, <1>7, <1>8, ArpFields
\* A trace within the perimeter stays one.
<1>10. ASSUME NEW trace \in before, trace.address = a, trace.perimeter
       PROVE  \E x \in after : x.address = a /\ x.perimeter
  <2>1. CASE trace \in ToSet(ArpTraces(t, S))
    <3>1. PICK row \in ToSet(t["arp"]) : trace = ArpTrace(t, S, row)
      BY <1>6, <2>1
    <3>2. row.address = a /\ Judged(u, V, row) = "kept"
      BY <1>10, <3>1, ArpFields, ArpKept
    <3>3. ArpTrace(u, V, row) \in after
      BY <1>3, <1>6, <3>2 DEF Silent
    <3> QED BY <3>2, <3>3, ArpFields
  <2>2. CASE trace \in same
    BY <1>3, <1>10, <2>2
  <2> QED BY <1>2, <1>7, <1>8, <1>10, <2>1, <2>2
\* Somebody in a client network is still seen there.
<1>11. ASSUME SubnetOf(S, a) # None
       PROVE  \E x \in after : x.address = a
  <2>1. PICK net \in ToSet(t["addresses"]) : a \in net.net /\ Role(t, net) = "client"
    BY <1>4, <1>5, <1>11
  <2>2. InClientNet(S, a)
    <3>1. Side(t, net) \in ToSet(S) /\ Side(t, net).role = "client" /\ Side(t, net).net = net.net
      BY <2>1, SidesAre, SideFields DEF S, Readable
    <3> QED BY <2>1, <3>1 DEF InClientNet, ClientNets, Rows
  <2>3. PICK trace \in before : trace.address = a
    BY <1>4
  <2>4. CASE trace \in ToSet(ArpTraces(t, S))
    <3>1. PICK row \in ToSet(t["arp"]) : trace = ArpTrace(t, S, row) /\ Judged(t, S, row) \notin Silent
      BY <1>6, <2>4
    <3>2. row.address = a
      BY <2>3, <3>1, ArpFields
    <3>3. Judged(u, V, row) \notin Silent
      BY <2>1, <2>2, <3>1, <3>2, ArpStays
    <3> QED BY <1>3, <1>6, <3>2, <3>3, ArpFields
  <2> QED BY <1>2, <1>3, <1>7, <1>8, <2>3, <2>4
<1>12. /\ \E trace \in after : trace.address = a
       /\ IF SubnetOf(V, a) = None
          THEN \E trace \in after : trace.address = a /\ trace.perimeter
          ELSE SubnetOf(V, a).role = "client"
  BY <1>4, <1>5, <1>10, <1>11
<1>13. Peers(u) \subseteq Peers(t)
  BY LessIsRead
<1> QED BY <1>1, <1>4, <1>9, <1>12, <1>13, ClientIs DEF after, V

-----------------------------------------------------------------------------
(* The inductive invariant: the tables of the router and those read so far  *)
(* are versions of what the story gives it, and what is not read is empty.  *)
Same(s) == /\ s \in Starts /\ DOMAIN start = DOMAIN s
           /\ start.router = s.router /\ start.moves = s.moves /\ start.steps = s.steps
ReadBy(s, n) == UNION {s.steps[i] : i \in 1..n}
Rests(s, tables) ==
    DOMAIN tables = Tables /\ \A name \in Tables : tables[name] \in Versions(s, name)
Progress(s, r) ==
    /\ DOMAIN r = {"got", "at", "unread", "known"}
    /\ r.at \in 0..Len(s.steps)
    /\ r.unread \subseteq ReadBy(s, r.at)
    /\ \A name \in Tables :
         /\ r.got[name] \in Versions(s, name) \cup {<<>>}
         /\ name \in r.unread \/ name \notin ReadBy(s, r.at) => r.got[name] = <<>>
ReadingInv == \E s : Same(s) /\ Rests(s, router) /\ (reading # None => Progress(s, reading))

\* A change of the network goes from one version of a table to the next.
LEMMA SpendKeeps ==
    ASSUME Deployment, NEW s, Same(s), NEW bound \in {"changes", "failures"}, Spend(bound)
    PROVE  Same(s)'
  BY DEF Deployment, Same, Spend

\* A table that is read is at one of its versions.
LEMMA ReadProgress ==
    ASSUME Deployment, NEW s, Same(s), Rests(s, router), Progress(s, reading), NEW lost, Read(lost)
    PROVE  Rests(s, router') /\ Progress(s, reading')
<1> DEFINE n == reading.at
           step == s.steps[n + 1]
           unread == (start.broken \cup lost) \cap step
           got == [name \in Tables |-> IF name \in step \ unread THEN router[name] ELSE reading.got[name]]
<1>0. start.steps = s.steps
  BY DEF Same
<1>1. /\ n < Len(s.steps) /\ lost \subseteq step /\ router' = router
      /\ reading' = [reading EXCEPT !.got = got, !.unread = @ \cup unread, !.at = @ + 1]
  BY <1>0 DEF Read
<1>2. Len(s.steps) \in Nat /\ n \in 0..Len(s.steps) /\ n + 1 \in 1..Len(s.steps)
  BY <1>1 DEF Deployment, Same, Progress
<1>3. DOMAIN reading = {"got", "at", "unread", "known"}
  BY DEF Progress
<1>4. /\ DOMAIN reading' = {"got", "at", "unread", "known"} /\ reading'.got = got
      /\ reading'.unread = reading.unread \cup unread /\ reading'.at = n + 1
  BY <1>1, <1>3
<1>5. ReadBy(s, n + 1) = ReadBy(s, n) \cup step
  <2>1. 1..(n + 1) = (1..n) \cup {n + 1}
    BY <1>2
  <2> QED BY <2>1 DEF ReadBy
<1>6. ReadBy(s, n) \cap step = {}
  <2>1. \A i \in 1..n : i \in 1..Len(s.steps) /\ i # n + 1
    BY <1>2
  <2>2. \A i \in 1..n : s.steps[i] \cap step = {}
    BY <1>2, <2>1 DEF Deployment, Same
  <2> QED BY <2>2 DEF ReadBy
<1> HIDE DEF n, step
<1>7. unread \subseteq step
  OBVIOUS
<1>8. \A name \in Tables : got[name] = IF name \in step \ unread THEN router[name] ELSE reading.got[name]
  OBVIOUS
<1> HIDE DEF unread, got
<1>9. /\ reading.unread \subseteq ReadBy(s, n)
      /\ \A name \in Tables :
            /\ reading.got[name] \in Versions(s, name) \cup {<<>>}
            /\ name \in reading.unread \/ name \notin ReadBy(s, n) => reading.got[name] = <<>>
  BY DEF Progress, n
<1>10. \A name \in Tables : got[name] \in Versions(s, name) \cup {<<>>}
  BY <1>8, <1>9 DEF Rests
<1>11. ASSUME NEW name \in Tables,
              name \in reading.unread \cup unread \/ name \notin ReadBy(s, n) \cup step
       PROVE  got[name] = <<>>
  BY <1>6, <1>7, <1>8, <1>9, <1>11
<1>12. n + 1 \in 0..Len(s.steps)
  BY <1>2
<1>13. Progress(s, reading')
  BY <1>4, <1>5, <1>7, <1>9, <1>10, <1>11, <1>12 DEF Progress
<1> QED BY <1>1, <1>13

LEMMA InitReading == ASSUME Deployment, Init PROVE ReadingInv
<1>1. Same(start)
  BY DEF Init, Same
<1>2. Rests(start, router)
  BY DEF Init, Deployment, Rests, Versions
<1> QED BY <1>1, <1>2 DEF Init, ReadingInv

LEMMA NextReading == ASSUME Deployment, ReadingInv, [Next]_vars PROVE ReadingInv'
<1>1. PICK s : Same(s) /\ Rests(s, router) /\ (reading # None => Progress(s, reading))
  BY DEF ReadingInv
<1>2. ASSUME Same(s)', Rests(s, router'), reading' # None => Progress(s, reading')
      PROVE  ReadingInv'
  BY <1>2 DEF ReadingInv, Rests, Progress, ReadBy, Versions
<1>3. ASSUME start' = start PROVE Same(s)'
  BY <1>1, <1>3 DEF Same
<1>4. CASE Begin
  <2>1. Progress(s, reading')
    <3>1. reading' = [got |-> [name \in Tables |-> <<>>], at |-> 0, unread |-> {}, known |-> managed]
      BY <1>4 DEF Begin
    <3>2. Len(s.steps) \in Nat
      BY <1>1 DEF Deployment, Same
    <3> QED BY <3>1, <3>2 DEF Progress
  <2> QED BY <1>1, <1>2, <1>3, <1>4, <2>1 DEF Begin
<1>5. CASE Reads
  <2>1. Read({}) /\ start' = start /\ reading # None
    BY <1>5 DEF Reads, Read
  <2> QED BY <1>1, <1>2, <1>3, <2>1, ReadProgress
<1>6. CASE ReadFails
  <2>1. PICK name \in Tables : Read({name}) /\ Spend("failures")
    BY <1>6 DEF ReadFails
  <2>2. reading # None
    BY <2>1 DEF Read
  <2> QED BY <1>1, <1>2, <2>1, <2>2, ReadProgress, SpendKeeps
<1>7. CASE Change
  <2>1. PICK m \in start.moves : router' = [router EXCEPT ![m.table] = m.rows]
    BY <1>7 DEF Change
  <2>2. Rests(s, router')
    BY <1>1, <2>1 DEF Rests, Versions, Same
  <2> QED BY <1>1, <1>2, <1>7, <2>2, SpendKeeps DEF Change
<1>8. CASE GivesUp \/ RecordFails \/ Restart
  BY <1>1, <1>2, <1>8, SpendKeeps DEF GivesUp, RecordFails, Restart
<1>9. CASE Record
  BY <1>1, <1>2, <1>3, <1>9 DEF Record
<1>10. CASE UNCHANGED <<router, reading, start>>
  BY <1>1, <1>2, <1>3, <1>10
<1>11. CASE UNCHANGED <<router, reading>> /\ (Spend("changes") \/ Spend("failures"))
  BY <1>1, <1>2, <1>11, SpendKeeps
<1> QED
  BY <1>4, <1>5, <1>6, <1>7, <1>8, <1>9, <1>10, <1>11
     DEF Next, vars, Tick, Manage, Declare, Withdraw, Edit, DiscoveryStarts, DiscoveryReads,
         DiscoveryEnds, DiscoveryFails

\* What the run has read when it is right misses nobody.
LEMMA ReadingMissesNobody ==
    ASSUME Deployment, NotAFunction(None), ReadingInv
    PROVE  OkRunMissesNobody
<1> DEFINE whole == [name \in Tables |-> IF name \in reading.unread THEN router[name]
                                         ELSE reading.got[name]]
<1> SUFFICES ASSUME reading # None, Missing(reading.unread) = {}
             PROVE  Clients(whole, reading.known) \subseteq Clients(reading.got, reading.known)
  BY DEF OkRunMissesNobody
<1>1. PICK s : Same(s) /\ Rests(s, router) /\ Progress(s, reading)
  BY DEF ReadingInv
<1>2. \A name \in Tables : whole[name] = IF name \in reading.unread THEN router[name] ELSE reading.got[name]
  OBVIOUS
<1> HIDE DEF whole
<1>3. Lacks(reading.got, whole)
  BY <1>1, <1>2 DEF Lacks, Missing, Progress
<1>4. \A name \in Tables : whole[name] \in Versions(s, name) \cup {<<>>}
  BY <1>1, <1>2 DEF Rests, Progress
<1>5. IsRows(<<>>) /\ Rows(<<>>) = {}
  <2>1. <<>> \in Seq(ToSet(<<>>))
    BY EmptySeq
  <2>2. ToSet(<<>>) = {}
    BY DEF ToSet
  <2> QED BY <2>1, <2>2 DEF IsRows, Rows
<1>6. Readable(whole)
  <2>1. \A name \in Tables : IsRows(whole[name])
    BY <1>1, <1>4, <1>5 DEF Deployment, Same
  <2>2. \A q \in Rows(whole["queues"]) : IsRows(q.targets)
    BY <1>1, <1>4, <1>5, TableNames DEF Deployment, Same
  <2> QED BY <2>1, <2>2, TableNames DEF Readable, Rows
<1>7. AtHome(whole)
  <2>1. /\ whole["arp"] \in Versions(s, "arp") \cup {<<>>}
        /\ whole["pppoe_servers"] \in Versions(s, "pppoe_servers") \cup {<<>>}
        /\ whole["addresses"] \in Versions(s, "addresses") \cup {<<>>}
    BY <1>4, TableNames DEF Optional
  <2> QED BY <1>1, <1>5, <2>1 DEF AtHome, LooksUpAtHome, Deployment, Same
<1> QED BY <1>3, <1>6, <1>7, NobodyMissed

\* Whatever the routers answer and whatever fails meanwhile, a run that says it is ok
\* lacks only tables a router may not have (read_network), and then derives every
\* client a full reading of the same tables would have shown: nobody is pruned later
\* for a table that could not be read.
THEOREM NobodyIsMissed ==
    ASSUME Deployment, NotAFunction(None)
    PROVE  Spec => []OkRunMissesNobody
<1>1. Init => ReadingInv
  BY InitReading
<1>2. ReadingInv /\ [Next]_vars => ReadingInv'
  BY NextReading
<1>3. ReadingInv => OkRunMissesNobody
  BY ReadingMissesNobody
<1> QED BY <1>1, <1>2, <1>3, PTL DEF Spec

-----------------------------------------------------------------------------
(***************************************************************************)
(* What is recorded of a client.                                           *)
(***************************************************************************)
Sighted(i, m, t, n) == [interface |-> i, mac |-> m, tag |-> t, age |-> n]
IsSighting(s) == \E i, m, t : \E n \in Nat : s = Sighted(i, m, t, n)
NoneIsNothing == \A i, m, t, n : None # Sighted(i, m, t, n)

Ages(now) == DOMAIN now = Addrs /\ \A a \in Addrs : now[a] # None => IsSighting(now[a])

LEMMA FreshIsRecent ==
    ASSUME Retention \in Nat, NoneIsNothing, NEW found, NEW s, NEW a, s \in Found(found, a)
    PROVE  IsSighting(s) /\ Recent(s)
<1>1. PICK host : s = Fresh(host)
  BY DEF Found
<1>2. s = Sighted(host.interface, host.mac, host.tag, 0)
  BY <1>1 DEF Fresh, Sighted
<1>3. s.age = 0 /\ s # None
  BY <1>2 DEF Sighted, NoneIsNothing
<1> QED BY <1>2, <1>3 DEF IsSighting, Recent

LEMMA PrunedKeeps ==
    ASSUME NEW now, Ages(now)
    PROVE  /\ Ages(Pruned(now))
           /\ \A a \in Addrs : Recent(now[a]) => Pruned(now)[a] = now[a]
  BY DEF Ages, Pruned, Recent

LEMMA RecordedKeeps ==
    ASSUME Retention \in Nat, NoneIsNothing, Ages(seen), NEW found
    PROVE  /\ Ages(Recorded(found))
           /\ \A a \in Addrs : Recent(seen[a]) => Recent(Recorded(found)[a])
<1>1. \A a \in Addrs : Found(found, a) # {} =>
          IsSighting(Recorded(found)[a]) /\ Recent(Recorded(found)[a])
  <2> SUFFICES ASSUME NEW a \in Addrs, Found(found, a) # {}
               PROVE  IsSighting(Recorded(found)[a]) /\ Recent(Recorded(found)[a])
    OBVIOUS
  <2>1. Recorded(found)[a] \in Found(found, a)
    BY DEF Recorded
  <2> QED BY <2>1, FreshIsRecent
<1>2. \A a \in Addrs : Found(found, a) = {} => Recorded(found)[a] = seen[a]
  BY DEF Recorded
<1>3. DOMAIN Recorded(found) = Addrs
  BY DEF Recorded
<1> QED BY <1>1, <1>2, <1>3 DEF Ages

LEMMA SeenOlder ==
    ASSUME Retention \in Nat, NoneIsNothing, Ages(seen), Tick
    PROVE  Ages(seen') /\ \A a \in Addrs : seen[a] # None => seen'[a] # None
<1>1. ASSUME NEW a \in Addrs, seen[a] # None
      PROVE  IsSighting(seen'[a]) /\ seen'[a] # None
  <2>1. PICK i, m, t, n : n \in Nat /\ seen[a] = Sighted(i, m, t, n)
    BY <1>1 DEF Ages, IsSighting
  <2>2. /\ seen[a].age = n
        /\ seen'[a] = [seen[a] EXCEPT !.age = IF seen[a].age > Retention THEN seen[a].age
                                             ELSE seen[a].age + 1]
    BY <1>1, <2>1 DEF Tick, Sighted
  <2> DEFINE k == IF n > Retention THEN n ELSE n + 1
  <2>4. k \in Nat
    BY <2>1
  <2>3. seen'[a] = Sighted(i, m, t, k)
    BY <2>1, <2>2 DEF Sighted
  <2> QED BY <2>4, <2>3 DEF IsSighting, NoneIsNothing
<1>2. DOMAIN seen' = Addrs /\ \A a \in Addrs : seen[a] = None => seen'[a] = None
  BY DEF Tick
<1> QED BY <1>1, <1>2 DEF Ages

OnlyAdds == \A a \in Candidates : a \in Candidates' \/ Covered(a)' \/ seen'[a] # None

LEMMA StepOnlyAdds ==
    ASSUME Retention \in Nat, NoneIsNothing, Ages(seen), [Next]_vars
    PROVE  Ages(seen') /\ OnlyAdds
<1>1. ASSUME Ages(seen'), \A a \in Addrs : Recent(seen[a]) => seen'[a] # None
      PROVE  Ages(seen') /\ OnlyAdds
  BY <1>1 DEF OnlyAdds, Candidates
<1>2. CASE seen' = seen
  BY <1>1, <1>2 DEF Ages, Recent
<1>3. CASE Tick
  BY <1>1, <1>3, SeenOlder DEF Recent
<1>4. CASE GivesUp
  BY <1>1, <1>4, PrunedKeeps DEF GivesUp, Recent
<1>5. CASE Record
  <2> DEFINE now == Recorded(Sightings(reading.got, reading.known))
  <2>1. /\ Ages(now) /\ \A a \in Addrs : Recent(seen[a]) => Recent(now[a])
    BY RecordedKeeps
  <2>2. seen' = Pruned(now)
    BY <1>5 DEF Record
  <2> HIDE DEF now
  <2> QED BY <1>1, <2>1, <2>2, PrunedKeeps DEF Recent
<1> QED
  BY <1>2, <1>3, <1>4, <1>5
     DEF Next, vars, Begin, Reads, ReadFails, Read, RecordFails, Change, Manage, Declare,
         Withdraw, Edit, DiscoveryStarts, DiscoveryReads, DiscoveryEnds, DiscoveryFails, Restart

(***************************************************************************)
(* No run takes back what another saw less than a retention ago (record,    *)
(* prune), whatever the routers answer and whatever fails.                 *)
(***************************************************************************)
THEOREM RunsAdd ==
    ASSUME Retention \in Nat, NotAFunction(None)
    PROVE  Spec => RunsOnlyAdd
<1>0. NoneIsNothing
  <2>1. ASSUME NEW i, NEW m, NEW t, NEW n PROVE NotAFunction(None) => None # Sighted(i, m, t, n)
    BY DEF NotAFunction, Sighted
  <2> QED BY <2>1 DEF NoneIsNothing
<1>1. Init => Ages(seen)
  BY DEF Init, Ages
<1>2. Ages(seen) /\ [Next]_vars => Ages(seen)' /\ OnlyAdds
  BY <1>0, StepOnlyAdds DEF Ages
<1>3. Ages(seen) /\ [Next]_vars
      => [\A a \in Candidates : a \in Candidates' \/ Covered(a)' \/ seen'[a] # None]_vars
  BY <1>2 DEF OnlyAdds
<1>4. Ages(seen) /\ [Next]_vars => Ages(seen)'
  BY <1>2
<1> QED BY <1>1, <1>3, <1>4, PTL DEF Spec, RunsOnlyAdd
=============================================================================
