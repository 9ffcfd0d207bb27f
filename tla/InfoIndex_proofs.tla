-------------------------- MODULE InfoIndex_proofs --------------------------
(* Machine-checked facts about the incremental index, for every number of  *)
(* files, texts, rulesets, types, names, symbols and indexing tasks: the   *)
(* reference counts of InfoService, the positions of TypeIndex, and that   *)
(* the answers are those of a table of what each file contributes.         *)
EXTENDS InfoIndex, FiniteSetTheorems, WellFoundedInduction, TLAPS

-----------------------------------------------------------------------------
(* Sequences                                                               *)

\* What is left of a vector when its last element moves into the hole at p.
LEMMA SwapShrinks ==
  ASSUME NEW V, NEW v \in Seq(V), NEW p \in 1..Len(v)
  PROVE  LET w == Front([v EXCEPT ![p] = v[Len(v)]])
         IN /\ w \in Seq(V)
            /\ Len(w) = Len(v) - 1
            /\ \A i \in 1..(Len(v) - 1) : w[i] = IF i = p THEN v[Len(v)] ELSE v[i]
<1> DEFINE full == [v EXCEPT ![p] = v[Len(v)]]
<1>1. Len(v) \in Nat /\ v[Len(v)] \in V
  OBVIOUS
<1>2. full \in Seq(V) /\ Len(full) = Len(v)
  BY <1>1
<1>3. \A i \in 1..Len(v) : full[i] = IF i = p THEN v[Len(v)] ELSE v[i]
  OBVIOUS
<1> HIDE DEF full
<1>4. Front(full) \in Seq(V) /\ Len(Front(full)) = Len(v) - 1
  BY <1>1, <1>2 DEF Front
<1>5. \A i \in 1..(Len(v) - 1) : Front(full)[i] = full[i]
  BY <1>1, <1>2 DEF Front
<1>6. \A i \in 1..(Len(v) - 1) : Front(full)[i] = IF i = p THEN v[Len(v)] ELSE v[i]
  BY <1>1, <1>3, <1>5
<1> QED
  BY <1>4, <1>6 DEF full

\* A value that stands once in a sequence has one place.
LEMMA OnlyPlace ==
  ASSUME NEW q \in Seq(Nat), NEW k \in DOMAIN q, \A j \in DOMAIN q : q[j] = q[k] => j = k, NEW n, n = q[k]
  PROVE  {i \in 1..Len(q) : q[i] = n} = {k} /\ Min({k}) = k
<1>1. {i \in 1..Len(q) : q[i] = n} = {k}
  OBVIOUS
<1>2. k \in Nat
  OBVIOUS
<1> QED
  BY <1>1, <1>2 DEF Min

-----------------------------------------------------------------------------
(* A finite set of numbers in order                                        *)

\* How many elements of S there are up to i.
UpTo(S, i) == {j \in S : j <= i}

\* Elements have ranks of their own, from 1 to the number of elements.
LEMMA RanksDiffer ==
  ASSUME NEW S \in SUBSET Nat, IsFiniteSet(S)
  PROVE  /\ \A i \in S : IsFiniteSet(UpTo(S, i)) /\ Cardinality(UpTo(S, i)) \in 1..Cardinality(S)
         /\ \A i, j \in S : i < j => Cardinality(UpTo(S, i)) < Cardinality(UpTo(S, j))
<1>1. ASSUME NEW i \in S PROVE IsFiniteSet(UpTo(S, i)) /\ Cardinality(UpTo(S, i)) \in 1..Cardinality(S)
  <2>1. UpTo(S, i) \in SUBSET S /\ UpTo(S, i) # {}
    BY DEF UpTo
  <2>2. IsFiniteSet(UpTo(S, i)) /\ Cardinality(UpTo(S, i)) <= Cardinality(S)
    BY <2>1, FS_Subset
  <2>3. Cardinality(UpTo(S, i)) \in Nat /\ Cardinality(S) \in Nat /\ Cardinality(UpTo(S, i)) # 0
    BY <2>1, <2>2, FS_CardinalityType, FS_EmptySet
  <2> QED
    BY <2>2, <2>3
<1>2. ASSUME NEW i \in S, NEW j \in S, i < j PROVE Cardinality(UpTo(S, i)) < Cardinality(UpTo(S, j))
  <2>0. i \in Nat /\ j \in Nat /\ \A k \in S : k \in Nat
    OBVIOUS
  <2>1. UpTo(S, i) \in SUBSET UpTo(S, j) /\ j \in UpTo(S, j) /\ j \notin UpTo(S, i)
    <3>1. \A k \in S : (k <= i => k <= j) /\ j <= j /\ ~(j <= i)
      BY <1>2, <2>0
    <3> QED
      BY <3>1 DEF UpTo
  <2>2. /\ Cardinality(UpTo(S, i)) <= Cardinality(UpTo(S, j))
        /\ (Cardinality(UpTo(S, i)) = Cardinality(UpTo(S, j)) => UpTo(S, i) = UpTo(S, j))
    <3>1. IsFiniteSet(UpTo(S, j))
      BY <1>1
    <3> QED
      BY <2>1, <3>1, FS_Subset
  <2>3. Cardinality(UpTo(S, i)) \in Nat /\ Cardinality(UpTo(S, j)) \in Nat
    BY <1>1
  <2> QED
    BY <2>1, <2>2, <2>3
<1> QED
  BY <1>1, <1>2

\* A finite set of numbers in order lists each of them once, and nothing else.
LEMMA InOrderLists ==
  ASSUME NEW S \in SUBSET Nat, IsFiniteSet(S)
  PROVE  /\ InOrder(S) \in Seq(Nat)
         /\ Len(InOrder(S)) = Cardinality(S)
         /\ DOMAIN InOrder(S) = 1..Cardinality(S)
         /\ \A k \in 1..Cardinality(S) : InOrder(S)[k] \in S
         /\ \A j, k \in 1..Cardinality(S) : InOrder(S)[j] = InOrder(S)[k] => j = k
         /\ \A i \in S : \E k \in 1..Cardinality(S) : InOrder(S)[k] = i
<1> DEFINE n == Cardinality(S)
           rank == [i \in S |-> Cardinality(UpTo(S, i))]
<1>0. n \in Nat
  BY FS_CardinalityType
<1>1. rank \in Injection(S, 1..n)
  <2>1. rank \in [S -> 1..n]
    BY RanksDiffer
  <2>2. ASSUME NEW i \in S, NEW j \in S, rank[i] = rank[j] PROVE i = j
    <3>1. i \in Nat /\ j \in Nat /\ rank[i] \in Nat
      BY <1>0, <2>1
    <3>2. (i < j => rank[i] < rank[j]) /\ (j < i => rank[j] < rank[i])
      BY RanksDiffer
    <3> QED
      BY <2>2, <3>1, <3>2
  <2> QED
    BY <2>1, <2>2 DEF Injection, IsInjective
<1>2. IsFiniteSet(1..n) /\ Cardinality(1..n) = n
  <2>1. IsFiniteSet(1..n) /\ Cardinality(1..n) = IF 1 > n THEN 0 ELSE n - 1 + 1
    BY <1>0, FS_Interval
  <2> QED
    BY <1>0, <2>1
<1>3. rank \in Surjection(S, 1..n)
  <2> HIDE DEF rank
  <2> QED
    BY <1>0, <1>1, <1>2, FS_Injection
<1>4. \A k \in 1..n : \E i \in S : Cardinality(UpTo(S, i)) = k
  BY <1>3 DEF Surjection
<1>5. \A k \in 1..n : InOrder(S)[k] \in S /\ Cardinality(UpTo(S, InOrder(S)[k])) = k
  BY <1>4 DEF InOrder, UpTo
<1>6. InOrder(S) = [k \in 1..n |-> InOrder(S)[k]]
  <2> DEFINE e(k) == CHOOSE i \in S : Cardinality({j \in S : j <= i}) = k
  <2>1. InOrder(S) = [k \in 1..n |-> e(k)]
    BY DEF InOrder
  <2> HIDE DEF e, n
  <2> QED
    BY <2>1
<1> HIDE DEF InOrder
<1>7. InOrder(S) \in Seq(Nat) /\ Len(InOrder(S)) = n /\ DOMAIN InOrder(S) = 1..n
  BY <1>0, <1>5, <1>6
<1>8. \A j, k \in 1..n : InOrder(S)[j] = InOrder(S)[k] => j = k
  BY <1>5
<1>9. \A i \in S : \E k \in 1..n : InOrder(S)[k] = i
  <2> TAKE i \in S
  <2> DEFINE k == Cardinality(UpTo(S, i))
  <2>1. k \in 1..n
    BY RanksDiffer
  <2>2. InOrder(S)[k] \in S /\ rank[InOrder(S)[k]] = rank[i]
    BY <1>5, <2>1
  <2>3. InOrder(S)[k] = i
    BY <1>1, <2>2 DEF Injection, IsInjective
  <2> QED
    BY <2>1, <2>3
<1> QED
  BY <1>5, <1>7, <1>8, <1>9

-----------------------------------------------------------------------------
(* The vectors and the positions recorded in them                          *)

IndexFields == {"map", "positions", "nameCounts", "refs", "baseUris"}

IndexTyped(x) ==
  /\ x = [f \in IndexFields |-> x[f]]
  /\ x.map \in [Types -> Seq(Instances)]
  /\ x.positions \in [Files -> [Types -> Seq(Nat)]]

\* The positions recorded for a file in a type are those where its instances stand.
Placed(x, u, t) ==
  /\ \A a, b \in DOMAIN x.positions[u][t] : x.positions[u][t][a] = x.positions[u][t][b] => a = b
  /\ \A k \in DOMAIN x.positions[u][t] :
       x.positions[u][t][k] \in DOMAIN x.map[t] /\ x.map[t][x.positions[u][t][k]].uri = u
  /\ \A i \in DOMAIN x.map[t] : x.map[t][i].uri = u => \E k \in DOMAIN x.positions[u][t] : x.positions[u][t][k] = i

\* The names a file's instances are found to have.
Reads(x, u, t) == [k \in DOMAIN x.positions[u][t] |-> x.map[t][x.positions[u][t][k]].name]

\* Where the instances of a file stand.
Stands(x, u, t) == {i \in DOMAIN x.map[t] : x.map[t][i].uri = u}

\* Releasing a name leaves the vectors and the positions alone.
LEMMA ReleaseMovesNothing ==
  ASSUME NEW x, IndexTyped(x), NEW t, NEW p, NEW own, NEW y, y = ReleaseAt(x, t, p, own)
  PROVE  IndexTyped(y) /\ y.map = x.map /\ y.positions = x.positions /\ y.baseUris = x.baseUris
<1> DEFINE n == Lower[x.map[t][p].name]
           a == IF t \in Subtypes THEN x.nameCounts[n] ELSE Dec(x.nameCounts[n])
           b == ReleaseName(x.refs[t][n], own)
<1>1. y = [x EXCEPT !.nameCounts[n] = IF t \in Subtypes THEN @ ELSE Dec(@), !.refs[t][n] = ReleaseName(@, own)]
  BY DEF ReleaseAt
<1> HIDE DEF n
<1>2. /\ y = [f \in IndexFields |-> y[f]]
      /\ y.map = x.map /\ y.positions = x.positions /\ y.baseUris = x.baseUris
  BY <1>1, Zenon DEF IndexTyped, IndexFields
<1> QED
  BY <1>2 DEF IndexTyped

\* Where vectors and positions are the same, so is what is found there.
LEMMA SamePlaces ==
  ASSUME NEW x, NEW y, NEW u, NEW t, y.map[t] = x.map[t], y.positions[u][t] = x.positions[u][t]
  PROVE  (Placed(y, u, t) <=> Placed(x, u, t)) /\ Reads(y, u, t) = Reads(x, u, t)
BY DEF Placed, Reads

\* What taking p, an instance of u, out of type t makes of x.
Moved(x, t, p, u, y) ==
  /\ IndexTyped(y) /\ y.baseUris = x.baseUris
  /\ y.positions[u] = x.positions[u]
  /\ \A w \in Files \ {u}, r \in Types : Placed(y, w, r) /\ Reads(y, w, r) = Reads(x, w, r)
  /\ Stands(y, u, t) = Stands(x, u, t) \ {p}
  /\ \A r \in Types \ {t} : y.map[r] = x.map[r]

\* Taking the last-standing instance of a file out of a type moves an instance
\* of another file at most, whose recorded position moves with it.
LEMMA SwapRemoveMoves ==
  ASSUME NEW x, IndexTyped(x), NEW t \in Types, NEW p \in DOMAIN x.map[t], NEW u \in Files,
         x.map[t][p].uri = u, \A i \in Stands(x, u, t) : i <= p,
         \A w \in Files \ {u}, r \in Types : Placed(x, w, r), NEW y, y = SwapRemove(x, t, p)
  PROVE  Moved(x, t, p, u, y)
<1> DEFINE v == x.map[t]
           last == Len(v)
           less == Front([v EXCEPT ![p] = v[last]])
           shrunk == [x EXCEPT !.map[t] = less]
<1>0. v \in Seq(Instances) /\ p \in 1..last /\ last \in Nat /\ last \in DOMAIN v /\ DOMAIN v = 1..last
  BY DEF IndexTyped
<1>1. /\ less \in Seq(Instances) /\ Len(less) = last - 1 /\ DOMAIN less = 1..(last - 1)
      /\ \A i \in 1..(last - 1) : less[i] = IF i = p THEN v[last] ELSE v[i]
  <2> HIDE DEF v
  <2>1. /\ less \in Seq(Instances) /\ Len(less) = last - 1
        /\ \A i \in 1..(last - 1) : less[i] = IF i = p THEN v[last] ELSE v[i]
    BY <1>0, SwapShrinks, Zenon
  <2> HIDE DEF less
  <2> QED
    BY <2>1
<1> HIDE DEF less
<1>2. /\ shrunk = [f \in IndexFields |-> shrunk[f]]
      /\ shrunk.map = [x.map EXCEPT ![t] = less] /\ shrunk.positions = x.positions
      /\ shrunk.baseUris = x.baseUris
  BY DEF IndexTyped, IndexFields
<1>3. shrunk.map \in [Types -> Seq(Instances)] /\ shrunk.map[t] = less
      /\ \A r \in Types \ {t} : shrunk.map[r] = x.map[r]
  BY <1>1, <1>2 DEF IndexTyped
<1>4. \A i \in Stands(x, u, t) : i \in 1..last /\ i <= p
  BY <1>0 DEF Stands
<1>5. CASE p = last
  <2>1. y = shrunk
    BY <1>5 DEF SwapRemove, less
  <2>2. IndexTyped(y) /\ y.positions = x.positions /\ y.baseUris = x.baseUris /\ y.map[t] = less
        /\ \A r \in Types \ {t} : y.map[r] = x.map[r]
    <3> HIDE DEF shrunk
    <3> QED
      BY <1>2, <1>3, <2>1 DEF IndexTyped
  <2>3. \A i \in 1..(last - 1) : less[i] = v[i]
    BY <1>0, <1>1, <1>5
  <2>4. Stands(y, u, t) = Stands(x, u, t) \ {p}
    <3>1. \A i \in Nat : i \in 1..(last - 1) <=> i \in 1..last /\ i # p
      BY <1>0, <1>5
    <3> HIDE DEF v, last
    <3>2. \A i : i \in Stands(y, u, t) <=> i \in 1..(last - 1) /\ v[i].uri = u
      BY <1>1, <2>2, <2>3 DEF Stands
    <3>3. \A i : i \in Stands(x, u, t) <=> i \in 1..last /\ v[i].uri = u
      BY <1>0 DEF Stands, v
    <3> QED
      BY <1>0, <3>1, <3>2, <3>3
  <2>5. ASSUME NEW w \in Files \ {u}, NEW r \in Types PROVE Placed(y, w, r) /\ Reads(y, w, r) = Reads(x, w, r)
    <3>0. Placed(x, w, r)
      OBVIOUS
    <3>1. CASE r # t
      BY <2>2, <3>0, <3>1 DEF Placed, Reads
    <3>2. CASE r = t
      <4> DEFINE q == x.positions[w][t]
      <4>1. y.positions[w][t] = q
        BY <2>2
      <4>2. \A k \in DOMAIN q : q[k] \in 1..last /\ v[q[k]].uri = w
        BY <3>0, <3>2, <1>0 DEF Placed
      <4>3. \A k \in DOMAIN q : q[k] \in 1..(last - 1) /\ less[q[k]] = v[q[k]]
        <5>1. TAKE k \in DOMAIN q
        <5>2. q[k] # last
          BY <1>5, <4>2
        <5> QED
          BY <1>0, <2>3, <4>2, <5>2
      <4>4. Reads(y, w, t) = Reads(x, w, t)
        <5>1. Reads(y, w, t) = [k \in DOMAIN q |-> less[q[k]].name]
          BY <2>2, <4>1 DEF Reads
        <5>2. Reads(x, w, t) = [k \in DOMAIN q |-> v[q[k]].name]
          BY DEF Reads
        <5> HIDE DEF q, v
        <5> QED
          BY <4>3, <5>1, <5>2
      <4>5. Placed(y, w, t)
        <5>1. \A a, b \in DOMAIN q : q[a] = q[b] => a = b
          BY <3>0, <3>2 DEF Placed
        <5>2. \A i \in 1..last : v[i].uri = w => \E k \in DOMAIN q : q[k] = i
          BY <1>0, <3>0, <3>2 DEF Placed
        <5>3. \A i \in 1..(last - 1) : less[i].uri = w => \E k \in DOMAIN q : q[k] = i
          BY <1>0, <2>3, <5>2
        <5>4. \A k \in DOMAIN q : q[k] \in 1..(last - 1) /\ less[q[k]].uri = w
          BY <4>2, <4>3, SMTT(40)
        <5> HIDE DEF q, v
        <5> QED
          BY <1>1, <2>2, <4>1, <5>1, <5>3, <5>4 DEF Placed
      <4> QED
        BY <3>2, <4>4, <4>5
    <3> QED
      BY <3>1, <3>2
  <2> QED
    BY <1>1, <2>2, <2>4, <2>5 DEF Moved
<1>6. CASE p # last
  <2> DEFINE o == v[last].uri
             q == x.positions[o][t]
  <2>1. last > p /\ o # u
    <3>1. last > p
      BY <1>0, <1>6
    <3>2. last \notin Stands(x, u, t)
      BY <1>0, <1>4, <3>1
    <3> QED
      BY <1>0, <3>1, <3>2 DEF Stands
  <2>2. o \in Files /\ Placed(x, o, t)
    <3>1. v[last] \in Instances
      BY <1>0
    <3>2. o \in Files
      BY <3>1, SMTT(40) DEF Instances
    <3> QED
      BY <2>1, <3>2
  <2>3. q \in Seq(Nat)
    BY <2>2, SMTT(40) DEF IndexTyped
  <2>4. PICK at \in DOMAIN q : q[at] = last
    BY <1>0, <2>2, ZenonT(60) DEF Placed
  <2>5. \A j \in DOMAIN q : q[j] = q[at] => j = at
    BY <2>2, <2>4, Zenon DEF Placed
  <2>6. SelectInSeq(q, LAMBDA z : z = last) = at
    <3> HIDE DEF q, last
    <3>1. {i \in 1..Len(q) : q[i] = last} = {at} /\ Min({at}) = at
      BY <2>3, <2>4, <2>5, OnlyPlace
    <3> QED
      BY <3>1 DEF SelectInSeq
  <2> DEFINE repaired == [q EXCEPT ![at] = p]
  <2>7. y = [shrunk EXCEPT !.positions[o][t] = repaired]
    <3>1. y = [shrunk EXCEPT !.positions[o][t] = [@ EXCEPT ![SelectInSeq(@, LAMBDA z : z = last)] = p]]
      BY <1>6 DEF SwapRemove, less
    <3>2. shrunk.positions[o][t] = q
      BY <1>2
    <3> HIDE DEF q, last, shrunk, o
    <3> QED
      BY <2>6, <3>1, <3>2
  <2>8. repaired \in Seq(Nat) /\ DOMAIN repaired = DOMAIN q /\ repaired[at] = p
        /\ \A j \in DOMAIN q : j # at => repaired[j] = q[j]
    <3> HIDE DEF q, last
    <3> QED
      BY <1>0, <2>3, <2>4
  <2>9. /\ y = [f \in IndexFields |-> y[f]]
        /\ y.map = shrunk.map /\ y.positions = [x.positions EXCEPT ![o][t] = repaired]
        /\ y.baseUris = x.baseUris
    <3> HIDE DEF shrunk, repaired, o
    <3> QED
      BY <1>2, <2>7 DEF IndexFields
  <2>10. /\ y.positions \in [Files -> [Types -> Seq(Nat)]]
         /\ y.positions[o][t] = repaired
         /\ \A w \in Files, r \in Types : ~(w = o /\ r = t) => y.positions[w][r] = x.positions[w][r]
         /\ y.positions[u] = x.positions[u]
    <3>1. x.positions \in [Files -> [Types -> Seq(Nat)]]
      BY SMTT(40) DEF IndexTyped
    <3> DEFINE P == x.positions
    <3>2. P \in [Files -> [Types -> Seq(Nat)]] /\ y.positions = [P EXCEPT ![o][t] = repaired]
      BY <2>9, <3>1
    <3> HIDE DEF repaired, o, P
    <3>3. y.positions \in [Files -> [Types -> Seq(Nat)]]
      BY <2>2, <2>8, <3>2
    <3>4. /\ y.positions[o][t] = repaired
          /\ \A w \in Files, r \in Types : ~(w = o /\ r = t) => y.positions[w][r] = P[w][r]
          /\ y.positions[u] = P[u]
      BY <2>1, <2>2, <3>2, SMTT(40)
    <3> QED
      BY <3>3, <3>4 DEF P
  <2>11. IndexTyped(y) /\ y.map[t] = less /\ \A r \in Types \ {t} : y.map[r] = x.map[r]
    <3> HIDE DEF shrunk
    <3> QED
      BY <1>3, <2>9, <2>10, Zenon DEF IndexTyped
  <2> HIDE DEF shrunk, repaired
  <2>12. Stands(y, u, t) = Stands(x, u, t) \ {p}
    <3>1. \A i \in 1..(last - 1) : less[i].uri = u <=> v[i].uri = u /\ i # p
      BY <1>1, <2>1
    <3>2. \A i : i \in Stands(y, u, t) <=> i \in 1..(last - 1) /\ less[i].uri = u
      BY <1>1, <2>11 DEF Stands
    <3>3. \A i : i \in Stands(x, u, t) <=> i \in 1..last /\ v[i].uri = u
      BY <1>0 DEF Stands
    <3>4. \A i \in 1..last : i # last => i \in 1..(last - 1)
      BY <1>0
    <3>5. \A i \in 1..(last - 1) : i \in 1..last
      BY <1>0
    <3>6. v[last].uri # u /\ p \in 1..last
      BY <1>0, <2>1
    <3> HIDE DEF v, last
    <3>7. \A i : i \in Stands(y, u, t) <=> i \in Stands(x, u, t) /\ i # p
      BY <3>1, <3>2, <3>3, <3>4, <3>5, <3>6
    <3> QED
      BY <3>7
  <2>13. ASSUME NEW w \in Files \ {u}, NEW r \in Types PROVE Placed(y, w, r) /\ Reads(y, w, r) = Reads(x, w, r)
    <3>0. Placed(x, w, r)
      OBVIOUS
    <3>1. CASE r # t
      <4>1. y.positions[w][r] = x.positions[w][r] /\ y.map[r] = x.map[r]
        BY <2>10, <2>11, <3>1
      <4> QED
        BY <3>0, <4>1 DEF Placed, Reads
    <3>2. CASE r = t /\ w # o
      <4> DEFINE s == x.positions[w][t]
      <4>1. y.positions[w][t] = s
        BY <2>10, <3>2
      <4>2. \A k \in DOMAIN s : s[k] \in 1..last /\ v[s[k]].uri = w
        BY <3>0, <3>2, <1>0 DEF Placed
      <4>3. \A k \in DOMAIN s : s[k] \in 1..(last - 1) /\ less[s[k]] = v[s[k]]
        <5>1. TAKE k \in DOMAIN s
        <5>2. s[k] # last /\ s[k] # p
          BY <3>2, <4>2
        <5> QED
          BY <1>0, <1>1, <4>2, <5>2, SMTT(40)
      <4>4. Reads(y, w, t) = Reads(x, w, t)
        <5>1. Reads(y, w, t) = [k \in DOMAIN s |-> less[s[k]].name]
          BY <2>11, <4>1 DEF Reads
        <5>2. Reads(x, w, t) = [k \in DOMAIN s |-> v[s[k]].name]
          BY DEF Reads
        <5> HIDE DEF s, v
        <5> QED
          BY <4>3, <5>1, <5>2
      <4>5. Placed(y, w, t)
        <5>1. \A a, b \in DOMAIN s : s[a] = s[b] => a = b
          BY <3>0, <3>2 DEF Placed
        <5>2. \A i \in 1..last : v[i].uri = w => \E k \in DOMAIN s : s[k] = i
          BY <1>0, <3>0, <3>2 DEF Placed
        <5>3. \A i \in 1..(last - 1) : less[i].uri = w => \E k \in DOMAIN s : s[k] = i
          BY <1>0, <1>1, <3>2, <5>2
        <5>4. \A k \in DOMAIN s : s[k] \in 1..(last - 1) /\ less[s[k]].uri = w
          BY <4>2, <4>3
        <5> HIDE DEF s, v
        <5> QED
          BY <1>1, <2>11, <4>1, <5>1, <5>3, <5>4 DEF Placed
      <4> QED
        BY <3>2, <4>4, <4>5
    <3>3. CASE r = t /\ w = o
      <4> DEFINE s == y.positions[w][t]
      <4>1. s = repaired /\ q = x.positions[w][t] /\ DOMAIN s = DOMAIN q
        BY <2>8, <2>10, <3>3, ZenonT(60)
      <4>2. \A k \in DOMAIN q : q[k] \in 1..last /\ v[q[k]].uri = w
        BY <3>0, <3>3, <1>0, ZenonT(60) DEF Placed
      <4>3. \A k \in DOMAIN q : s[k] \in 1..(last - 1) /\ less[s[k]] = v[q[k]]
        <5>1. TAKE k \in DOMAIN q
        <5>2. CASE k = at
          <6>1. s[k] = p /\ p \in 1..(last - 1)
            BY <1>0, <2>1, <2>8, <4>1, <5>2, SMTT(40)
          <6> QED
            BY <1>1, <2>4, <5>2, <6>1
        <5>3. CASE k # at
          <6>1. s[k] = q[k] /\ q[k] # last /\ q[k] # p
            BY <2>4, <2>5, <2>8, <3>3, <4>1, <4>2, <5>3, ZenonT(60)
          <6>2. q[k] \in 1..(last - 1)
            <7>1. last \in Nat /\ q[k] \in 1..last
              BY <1>0, <4>2, Zenon
            <7> HIDE DEF q, last
            <7> QED
              BY <6>1, <7>1
          <6> QED
            BY <1>1, <6>1, <6>2, ZenonT(60)
        <5> QED
          BY <5>2, <5>3, Zenon
      <4>4. Reads(y, w, t) = Reads(x, w, t)
        <5>1. Reads(y, w, t) = [k \in DOMAIN q |-> less[s[k]].name]
          BY <2>11, <4>1 DEF Reads
        <5>2. Reads(x, w, t) = [k \in DOMAIN q |-> v[q[k]].name]
          BY <4>1 DEF Reads
        <5> HIDE DEF s, v, q
        <5> QED
          BY <4>3, <5>1, <5>2
      <4>5. Placed(y, w, t)
        <5>1. \A a, b \in DOMAIN q : q[a] = q[b] => a = b
          BY <3>0, <3>3, <4>1, ZenonT(60) DEF Placed
        <5>2. \A i \in 1..last : v[i].uri = w => \E k \in DOMAIN q : q[k] = i
          <6>1. \A i \in DOMAIN v : v[i].uri = w => \E k \in DOMAIN x.positions[w][t] : x.positions[w][t][k] = i
            BY <3>0, <3>3, ZenonT(60) DEF Placed
          <6> HIDE DEF q, v
          <6> QED
            BY <1>0, <4>1, <6>1
        <5>3. \A k \in DOMAIN q : q[k] # p
          BY <4>2, <3>3, Zenon
        <5>4. \A a, b \in DOMAIN s : s[a] = s[b] => a = b
          BY <2>8, <4>1, <5>1, <5>3
        <5>5. \A i \in 1..(last - 1) : less[i].uri = w => \E k \in DOMAIN s : s[k] = i
          <6>1. TAKE i \in 1..(last - 1)
          <6>2. CASE i = p
            BY <2>8, <4>1, <6>2
          <6>3. CASE i # p
            <7>1. less[i] = v[i] /\ i \in 1..last /\ i # last
              BY <1>0, <1>1, <6>3
            <7> QED
              BY <2>4, <2>8, <4>1, <5>2, <7>1
          <6> QED
            BY <6>2, <6>3
        <5>6. \A k \in DOMAIN s : s[k] \in 1..(last - 1) /\ less[s[k]].uri = w
          BY <4>1, <4>2, <4>3
        <5> HIDE DEF q, v
        <5> QED
          BY <1>1, <2>11, <5>4, <5>5, <5>6, SMTT(40) DEF Placed
      <4> QED
        BY <3>3, <4>4, <4>5, SMTT(40)
    <3> QED
      BY <3>1, <3>2, <3>3
  <2> QED
    BY <1>1, <2>9, <2>10, <2>11, <2>12, <2>13 DEF Moved
<1> QED
  BY <1>5, <1>6

-----------------------------------------------------------------------------
(* Removing slot by slot: a walk over a finite set                         *)

\* A set of subsets that is not all of them leaves out a least one.
LEMMA LeastSubset ==
  ASSUME NEW S, IsFiniteSet(S), NEW G, G # SUBSET S, G \subseteq SUBSET S
  PROVE  \E T \in SUBSET S : T \notin G /\ \A U \in SUBSET T : U # T => U \in G
<1>1. IsWellFoundedOn(StrictSubsetOrdering(S), SUBSET S)
  BY FS_StrictSubsetOrderingWellFounded, FS_FiniteSubsetsOfFinite, Zenon
<1> DEFINE Bad == (SUBSET S) \ G
<1>2. \E T \in Bad : \A U \in Bad : ~(<<U, T>> \in StrictSubsetOrdering(S))
  <2>1. Bad \subseteq SUBSET S /\ Bad # {}
    OBVIOUS
  <2> HIDE DEF Bad
  <2> QED
    BY <1>1, <2>1, WFMin, Zenon
<1>3. PICK T \in Bad : \A U \in Bad : ~(<<U, T>> \in StrictSubsetOrdering(S))
  BY <1>2
<1>4. \A U \in SUBSET T : U # T => U \in G
  BY <1>3 DEF StrictSubsetOrdering
<1> QED
  BY <1>3, <1>4

\* The slot the two removals give up last, and what they do to the index: the
\* removal of one file drops its instances, that of many releases their names.
TakenLast(how, s) == IF how.bulk THEN CHOOSE x \in s : TRUE ELSE GoesLast(how.own, s)
Step(how, s, x) ==
  IF how.bulk THEN ReleaseAt(x, s[1], s[2], how.map[s[1]][s[2]].uri \in how.baseUris)
  ELSE DropAt(x, s[1], how.own[s[1]][s[2]], how.base)
IsWalk(S, how, start, f) ==
  f = [s \in SUBSET S |-> IF s = {} THEN start ELSE Step(how, TakenLast(how, s), f[s \ {TakenLast(how, s)}])]
Picks(S, how) == \A s \in SUBSET S : s # {} => TakenLast(how, s) \in s

\* Two walks agree where both go.
LEMMA WalkIsUnique ==
  ASSUME NEW S, IsFiniteSet(S), NEW how, Picks(S, how), NEW start,
         NEW T \in SUBSET S, NEW f, IsWalk(T, how, start, f),
         NEW U \in SUBSET S, NEW g, IsWalk(U, how, start, g)
  PROVE  \A s \in SUBSET S : s \subseteq T /\ s \subseteq U => f[s] = g[s]
<1> DEFINE G == {s \in SUBSET S : s \subseteq T /\ s \subseteq U => f[s] = g[s]}
<1>1. ASSUME NEW s \in SUBSET S, s \notin G, \A r \in SUBSET s : r # s => r \in G PROVE FALSE
  <2> DEFINE k == TakenLast(how, s)
             r == s \ {k}
  <2>1. s \subseteq T /\ s \subseteq U /\ f[s] # g[s]
    BY <1>1
  <2>2. /\ f[s] = IF s = {} THEN start ELSE Step(how, k, f[r])
        /\ g[s] = IF s = {} THEN start ELSE Step(how, k, g[r])
    BY <2>1 DEF IsWalk
  <2>3. CASE s = {}
    BY <2>1, <2>2, <2>3
  <2>4. CASE s # {}
    <3>1. k \in s
      BY <2>4 DEF Picks
    <3>2. r \in G
      BY <1>1, <3>1
    <3>3. f[r] = g[r]
      BY <2>1, <3>2
    <3> HIDE DEF k, r
    <3> QED
      BY <2>1, <2>2, <2>4, <3>3
  <2> QED
    BY <2>3, <2>4
<1>2. G = SUBSET S
  <2>1. G \subseteq SUBSET S
    OBVIOUS
  <2> HIDE DEF G
  <2> QED
    BY <1>1, <2>1, LeastSubset
<1> QED
  BY <1>2

\* There is one over every finite set.
LEMMA WalkExists ==
  ASSUME NEW S, IsFiniteSet(S), NEW how, Picks(S, how), NEW start
  PROVE  \E f : IsWalk(S, how, start, f)
<1> DEFINE G == {T \in SUBSET S : \E f : IsWalk(T, how, start, f)}
           Walk(T) == CHOOSE f : IsWalk(T, how, start, f)
<1>1. ASSUME NEW T \in SUBSET S, \A r \in SUBSET T : r # T => r \in G
      PROVE  T \in G
  <2>1. \A r \in SUBSET T : r # T => IsWalk(r, how, start, Walk(r))
    BY <1>1
  <2> DEFINE top == IF T = {} THEN start ELSE Step(how, TakenLast(how, T), Walk(T \ {TakenLast(how, T)})[T \ {TakenLast(how, T)}])
             f == [s \in SUBSET T |-> IF s = T THEN top ELSE Walk(s)[s]]
             Rest(s) == IF s = {} THEN start ELSE Step(how, TakenLast(how, s), f[s \ {TakenLast(how, s)}])
  <2> HIDE DEF Walk
  <2>2. ASSUME NEW s \in SUBSET T PROVE f[s] = Rest(s)
    <3>1. CASE s = {}
      <4>1. CASE s = T
        BY <3>1, <4>1
      <4>2. CASE s # T
        BY <2>1, <3>1, <4>2 DEF IsWalk
      <4> QED
        BY <4>1, <4>2
    <3>2. CASE s # {}
      <4> DEFINE k == TakenLast(how, s)
                 r == s \ {k}
      <4>1. k \in s
        BY <3>2 DEF Picks
      <4>2. r \in SUBSET s /\ r \in SUBSET T /\ r # T /\ r # s
        BY <4>1
      <4>3. f[r] = Walk(r)[r] /\ IsWalk(r, how, start, Walk(r))
        BY <2>1, <4>2
      <4>4. CASE s = T
        BY <3>2, <4>3, <4>4
      <4>5. CASE s # T
        <5>1. IsWalk(s, how, start, Walk(s)) /\ f[s] = Walk(s)[s]
          BY <2>1, <4>5
        <5>2. Walk(s)[s] = Step(how, k, Walk(s)[r])
          BY <3>2, <5>1 DEF IsWalk
        <5>3. r \in SUBSET S /\ s \in SUBSET S
          BY <4>2
        <5> HIDE DEF r, k, f
        <5>4. \A t \in SUBSET S : t \subseteq s /\ t \subseteq r => Walk(s)[t] = Walk(r)[t]
          BY <4>3, <5>1, <5>3, WalkIsUnique
        <5> QED
          BY <3>2, <4>2, <4>3, <5>1, <5>2, <5>3, <5>4 DEF r, k
      <4> QED
        BY <4>4, <4>5
    <3> QED
      BY <3>1, <3>2
  <2>3. f = [s \in SUBSET T |-> Rest(s)]
    <3>1. f = [s \in SUBSET T |-> f[s]]
      OBVIOUS
    <3> HIDE DEF f
    <3> QED
      BY <2>2, <3>1
  <2>4. IsWalk(T, how, start, f)
    <3> HIDE DEF f
    <3> QED
      BY <2>3 DEF IsWalk
  <2> QED
    BY <2>4
<1>2. G = SUBSET S
  <2>1. G \subseteq SUBSET S
    OBVIOUS
  <2> HIDE DEF G
  <2> QED
    BY <1>1, <2>1, LeastSubset
<1>3. S \in G
  BY <1>2
<1> QED
  BY <1>3

\* The walk that a removal is the end of.
WalkOver(S, how, start) == CHOOSE f : IsWalk(S, how, start, f)

\* What starts true and is kept by every step of it is true at its end: a walk
\* is at its start on the empty set, and steps on any other.
LEMMA WalkUnfolds ==
  ASSUME NEW S, IsFiniteSet(S), NEW how, Picks(S, how), NEW start, NEW f, f = WalkOver(S, how, start)
  PROVE  /\ f[{}] = start
         /\ \A s \in SUBSET S : s # {} => f[s] = Step(how, TakenLast(how, s), f[s \ {TakenLast(how, s)}])
<1>1. IsWalk(S, how, start, f)
  BY WalkExists DEF WalkOver
<1> QED
  BY <1>1 DEF IsWalk

\* The slots of a file are finitely many, and of any of them one goes last.
LEMMA SlotsAreFinite ==
  ASSUME NEW own \in [Types -> Seq(Nat)]
  PROVE  IsFiniteSet(Slots(own))
<1>1. ASSUME NEW t \in Types PROVE IsFiniteSet({t} \X DOMAIN own[t])
  <2>1. DOMAIN own[t] = 1..Len(own[t]) /\ Len(own[t]) \in Nat
    OBVIOUS
  <2>2. IsFiniteSet(DOMAIN own[t])
    BY <2>1, FS_Interval
  <2> QED
    BY <2>2, FS_Singleton, FS_Product
<1> DEFINE parts == {{t} \X DOMAIN own[t] : t \in Types}
<1>2. IsFiniteSet(parts)
  <2> DEFINE part(t) == {t} \X DOMAIN own[t]
  <2>1. IsFiniteSet(Types)
    BY TypeIndexAssumption
  <2>2. [t \in Types |-> part(t)] \in Surjection(Types, parts)
    <3>1. [t \in Types |-> part(t)] \in [Types -> parts]
      OBVIOUS
    <3> QED
      BY <3>1, Zenon DEF Surjection
  <2> HIDE DEF parts
  <2> QED
    BY <2>1, <2>2, FS_Surjection
<1>3. \A T \in parts : IsFiniteSet(T)
  BY <1>1
<1> HIDE DEF parts
<1>4. IsFiniteSet(UNION parts)
  BY <1>2, <1>3, FS_UNION
<1> QED
  BY <1>4 DEF Slots, parts

LEMMA SomeSlotGoesLast ==
  ASSUME NEW own \in [Types -> Seq(Nat)], NEW slots \in SUBSET Slots(own), slots # {}
  PROVE  /\ GoesLast(own, slots) \in slots
         /\ \A r \in slots : r[1] = GoesLast(own, slots)[1] =>
              own[GoesLast(own, slots)[1]][GoesLast(own, slots)[2]] <= own[GoesLast(own, slots)[1]][r[2]]
<1>1. PICK any \in slots : TRUE
  OBVIOUS
<1>2. \A s \in slots : s[1] \in Types /\ s[2] \in DOMAIN own[s[1]] /\ own[s[1]][s[2]] \in Nat
  <2>1. \A s \in slots : \E t \in Types : s \in {t} \X DOMAIN own[t]
    BY DEF Slots
  <2> QED
    BY <2>1
<1> DEFINE here == {own[s[1]][s[2]] : s \in {r \in slots : r[1] = any[1]}}
<1>3. here \subseteq Nat /\ here # {}
  BY <1>1, <1>2
<1>4. PICK m \in here : \A n \in here : m <= n
  <2> HIDE DEF here
  <2>1. \E m \in here : \A n \in here : ~(<<n, m>> \in OpToRel(<, Nat))
    BY <1>3, NatLessThanWellFounded, WFMin, Zenon
  <2>2. PICK m \in here : \A n \in here : ~(<<n, m>> \in OpToRel(<, Nat))
    BY <2>1, Zenon
  <2>3. \A n \in here : m \in Nat /\ n \in Nat /\ ~(n < m)
    BY <1>3, <2>2, Zenon DEF OpToRel
  <2> QED
    BY <2>3
<1>5. PICK s \in slots : s[1] = any[1] /\ own[s[1]][s[2]] = m
  BY <1>4
<1>6. \A r \in slots : r[1] = s[1] => own[s[1]][s[2]] <= own[s[1]][r[2]]
  BY <1>4, <1>5
<1> QED
  BY <1>6, Zenon DEF GoesLast

-----------------------------------------------------------------------------
(* Removing one file                                                       *)

AllPlaced(x) == \A w \in Files, r \in Types : Placed(x, w, r)

\* Nothing a larger position would be given up for is still there.
Upper(own, s) ==
  \A a \in s, b \in Slots(own) : b[1] = a[1] /\ own[b[1]][b[2]] > own[a[1]][a[2]] => b \in s
\* The positions not given up yet.
Left(own, s, t) == {own[t][k] : k \in {j \in DOMAIN own[t] : <<t, j>> \notin s}}

\* What the removal of u has made of x when the slots s are given up.
Reached(x, u, own, s, y) ==
  /\ IndexTyped(y) /\ y.baseUris = x.baseUris \ {u}
  /\ y.positions[u] = [t \in Types |-> <<>>]
  /\ \A w \in Files \ {u}, r \in Types : Placed(y, w, r) /\ Reads(y, w, r) = Reads(x, w, r)
  /\ \A t \in Types : Stands(y, u, t) = Left(own, s, t)

\* A slot is a type and the number of a position recorded in it.
LEMMA SlotType ==
  ASSUME NEW own \in [Types -> Seq(Nat)]
  PROVE  \A s : s \in Slots(own) <=> s = <<s[1], s[2]>> /\ s[1] \in Types /\ s[2] \in DOMAIN own[s[1]]
<1>1. \A s : s \in Slots(own) <=> \E t \in Types : s \in {t} \X DOMAIN own[t]
  BY DEF Slots
<1> QED
  BY <1>1

\* Giving up the slot that goes last of some.
LEMMA DropStep ==
  ASSUME NEW x, NEW u \in Files, NEW own \in [Types -> Seq(Nat)],
         \A t \in Types : \A a, b \in DOMAIN own[t] : own[t][a] = own[t][b] => a = b,
         NEW s \in SUBSET Slots(own), Upper(own, s), s # {}, NEW g, g = GoesLast(own, s),
         NEW y, Reached(x, u, own, s \ {g}, y), NEW b, NEW z, z = DropAt(y, g[1], own[g[1]][g[2]], b)
  PROVE  Reached(x, u, own, s, z)
<1> DEFINE t == g[1]
           p == own[t][g[2]]
           m == ReleaseAt(y, t, p, b)
           s0 == s \ {g}
<1>1. g \in s /\ t \in Types /\ g[2] \in DOMAIN own[t] /\ g = <<t, g[2]>> /\ p \in Nat
  BY SomeSlotGoesLast, SlotType
<1>2. \A k \in DOMAIN own[t] : <<t, k>> \notin s => own[t][k] <= p
  <2>1. TAKE k \in DOMAIN own[t]
  <2>2. HAVE <<t, k>> \notin s
  <2>3. <<t, k>> \in Slots(own) /\ own[t][k] \in Nat
    BY <1>1, SlotType
  <2>4. ~(own[t][k] > p)
    BY <1>1, <2>2, <2>3 DEF Upper
  <2> QED
    BY <1>1, <2>3, <2>4
<1>3. \A r \in Types : \A i : i \in Left(own, s0, r) <=> \E k \in DOMAIN own[r] : <<r, k>> \notin s0 /\ i = own[r][k]
  BY DEF Left
<1>4. p \in Left(own, s0, t) /\ \A i \in Left(own, s0, t) : i <= p
  <2>1. p \in Left(own, s0, t)
    BY <1>1, <1>3
  <2>2. ASSUME NEW i \in Left(own, s0, t) PROVE i <= p
    <3>1. PICK k \in DOMAIN own[t] : <<t, k>> \notin s0 /\ i = own[t][k]
      BY <1>1, <1>3, <2>2
    <3>2. CASE <<t, k>> = g
      <4>1. k = g[2]
        BY <1>1, <3>2
      <4> QED
        BY <1>1, <3>1, <4>1
    <3>3. CASE <<t, k>> # g
      BY <1>2, <3>1, <3>3
    <3> QED
      BY <3>2, <3>3
  <2> QED
    BY <2>1, <2>2
<1>5. p \in Stands(y, u, t) /\ \A i \in Stands(y, u, t) : i <= p
  <2> HIDE DEF p, t, s0
  <2> QED
    BY <1>1, <1>4 DEF Reached, s0
<1> HIDE DEF p, t, m, s0
<1>6. IndexTyped(m) /\ m.map = y.map /\ m.positions = y.positions /\ m.baseUris = y.baseUris
  <2>1. IndexTyped(y)
    BY DEF Reached
  <2> QED
    BY <2>1, ReleaseMovesNothing DEF m
<1>7. /\ \A w \in Files \ {u}, r \in Types : Placed(m, w, r) /\ Reads(m, w, r) = Reads(y, w, r)
      /\ \A r \in Types : Stands(m, u, r) = Stands(y, u, r)
  <2>1. ASSUME NEW w \in Files \ {u}, NEW r \in Types PROVE Placed(m, w, r) /\ Reads(m, w, r) = Reads(y, w, r)
    <3>1. m.map[r] = y.map[r] /\ m.positions[w][r] = y.positions[w][r] /\ Placed(y, w, r)
      BY <1>6 DEF Reached
    <3> QED
      BY <3>1, SamePlaces
  <2>2. ASSUME NEW r \in Types PROVE Stands(m, u, r) = Stands(y, u, r)
    BY <1>6 DEF Stands
  <2> QED
    BY <2>1, <2>2
<1>8. z = SwapRemove(m, t, p)
  BY DEF DropAt, m, t, p
<1>9. p \in DOMAIN m.map[t] /\ m.map[t][p].uri = u /\ \A i \in Stands(m, u, t) : i <= p
  BY <1>1, <1>5, <1>6, <1>7 DEF Stands
<1>10. Moved(m, t, p, u, z)
  <2>1. \A w \in Files \ {u}, r \in Types : Placed(m, w, r)
    BY <1>7
  <2> QED
    BY <1>1, <1>6, <1>8, <1>9, <2>1, SwapRemoveMoves
<1>11. ASSUME NEW r \in Types PROVE Stands(z, u, r) = Left(own, s, r)
  <2>1. \A i : i \in Left(own, s, r) <=> \E k \in DOMAIN own[r] : <<r, k>> \notin s /\ i = own[r][k]
    BY DEF Left
  <2>2. Stands(m, u, r) = Left(own, s0, r)
    BY <1>7 DEF Reached, s0
  <2>3. CASE r = t
    <3>1. \A k \in DOMAIN own[t] : own[t][k] = p => k = g[2]
      BY <1>1 DEF p
    <3>2. \A k : <<t, k>> \notin s0 <=> (<<t, k>> \notin s \/ k = g[2])
      BY <1>1 DEF s0
    <3>3. g[2] \in DOMAIN own[t] /\ own[t][g[2]] = p
      BY <1>1 DEF p
    <3>4. <<t, g[2]>> \in s
      BY <1>1
    <3>5. Stands(z, u, t) = Left(own, s0, t) \ {p}
      BY <1>10, <2>2, <2>3 DEF Moved
    <3>6. ASSUME NEW i PROVE i \in Left(own, s0, t) /\ i # p <=> i \in Left(own, s, t)
      <4>1. ASSUME i \in Left(own, s0, t), i # p PROVE i \in Left(own, s, t)
        <5>1. PICK k \in DOMAIN own[t] : <<t, k>> \notin s0 /\ i = own[t][k]
          BY <1>1, <1>3, <4>1
        <5>2. <<t, k>> \notin s
          BY <3>2, <3>3, <4>1, <5>1
        <5> QED
          BY <2>1, <2>3, <5>1, <5>2
      <4>2. ASSUME i \in Left(own, s, t) PROVE i \in Left(own, s0, t) /\ i # p
        <5>1. PICK k \in DOMAIN own[t] : <<t, k>> \notin s /\ i = own[t][k]
          BY <2>1, <2>3, <4>2
        <5>2. <<t, k>> \notin s0 /\ i # p
          BY <3>1, <3>2, <3>4, <5>1
        <5> QED
          BY <1>1, <1>3, <5>1, <5>2
      <4> QED
        BY <4>1, <4>2
    <3> QED
      BY <2>3, <3>5, <3>6
  <2>4. CASE r # t
    <3>1. \A k : <<r, k>> \notin s0 <=> <<r, k>> \notin s
      <4>1. \A k : <<r, k>> # g
        BY <1>1, <2>4
      <4> QED
        BY <4>1 DEF s0
    <3>2. Stands(z, u, r) = Stands(m, u, r)
      BY <1>10, <2>4, Zenon DEF Stands, Moved
    <3>3. ASSUME NEW i PROVE i \in Left(own, s0, r) <=> i \in Left(own, s, r)
      <4>1. i \in Left(own, s0, r) <=> \E k \in DOMAIN own[r] : <<r, k>> \notin s0 /\ i = own[r][k]
        BY <1>3
      <4>2. i \in Left(own, s, r) <=> \E k \in DOMAIN own[r] : <<r, k>> \notin s /\ i = own[r][k]
        BY <2>1
      <4> QED
        BY <3>1, <4>1, <4>2
    <3> QED
      BY <2>2, <3>2, <3>3, Zenon
  <2> QED
    BY <2>3, <2>4
<1> QED
  BY <1>6, <1>7, <1>10, <1>11 DEF Reached, Moved

\* Nothing a larger position would be given up for is left out by giving up the last.
LEMMA UpperRest ==
  ASSUME NEW own \in [Types -> Seq(Nat)], NEW s \in SUBSET Slots(own), s # {}, Upper(own, s)
  PROVE  Upper(own, s \ {GoesLast(own, s)})
<1> DEFINE g == GoesLast(own, s)
<1>1. g \in s /\ \A r \in s : r[1] = g[1] => own[g[1]][g[2]] <= own[g[1]][r[2]]
  BY SomeSlotGoesLast
<1>2. ASSUME NEW a \in s \ {g}, NEW b \in Slots(own), b[1] = a[1], own[b[1]][b[2]] > own[a[1]][a[2]]
      PROVE  b \in s \ {g}
  <2>1. b \in s
    BY <1>2 DEF Upper
  <2>2. own[b[1]][b[2]] \in Nat /\ own[a[1]][a[2]] \in Nat
    BY <1>2, <2>1, SlotType
  <2>3. b # g
    <3>1. SUFFICES ASSUME b = g PROVE FALSE
      OBVIOUS
    <3>2. own[g[1]][g[2]] <= own[g[1]][a[2]]
      BY <1>1, <1>2, <3>1
    <3> QED
      BY <1>2, <2>2, <3>1, <3>2
  <2> QED
    BY <2>1, <2>3
<1> HIDE DEF g
<1>3. Upper(own, s \ {g})
  BY <1>2, SMTT(40) DEF Upper
<1> QED
  BY <1>3 DEF g

\* The removal of u from x as a walk: how it goes, from where, and what it
\* has made of the index when the slots s are given up.
FileWalk(x, u, own, f) ==
  /\ own = x.positions[u] /\ own \in [Types -> Seq(Nat)] /\ IsFiniteSet(Slots(own))
  /\ f = WalkOver(Slots(own), [bulk |-> FALSE, own |-> own, base |-> u \in x.baseUris],
                  [x EXCEPT !.positions[u] = [t \in Types |-> <<>>], !.baseUris = @ \ {u}])
  /\ f[{}] = [x EXCEPT !.positions[u] = [t \in Types |-> <<>>], !.baseUris = @ \ {u}]
  /\ \A s \in SUBSET Slots(own) : s # {} =>
       /\ GoesLast(own, s) \in s
       /\ f[s] = DropAt(f[s \ {GoesLast(own, s)}], GoesLast(own, s)[1], own[GoesLast(own, s)[1]][GoesLast(own, s)[2]],
                        u \in x.baseUris)
       /\ Upper(own, s) => Upper(own, s \ {GoesLast(own, s)})
  /\ \A s \in SUBSET Slots(own) : Upper(own, s) => Reached(x, u, own, s, f[s])

LEMMA FileWalks ==
  ASSUME NEW x, IndexTyped(x), AllPlaced(x), NEW u \in Files
  PROVE  \E own, f : FileWalk(x, u, own, f)
<1> DEFINE own == x.positions[u]
           how == [bulk |-> FALSE, own |-> own, base |-> u \in x.baseUris]
           start == [x EXCEPT !.positions[u] = [t \in Types |-> <<>>], !.baseUris = @ \ {u}]
           S == Slots(own)
           f == WalkOver(S, how, start)
<1>0. own \in [Types -> Seq(Nat)] /\ \A t \in Types : \A a, b \in DOMAIN own[t] : own[t][a] = own[t][b] => a = b
  BY DEF IndexTyped, AllPlaced, Placed
<1>1. IsFiniteSet(S) /\ Picks(S, how)
  <2> HIDE DEF own
  <2>1. IsFiniteSet(S)
    BY <1>0, SlotsAreFinite
  <2>2. \A s \in SUBSET S : s # {} => GoesLast(own, s) \in s
    BY <1>0, SomeSlotGoesLast
  <2> QED
    BY <2>1, <2>2 DEF Picks, TakenLast
<1>2. /\ f[{}] = start
      /\ \A s \in SUBSET S : s # {} => f[s] = Step(how, TakenLast(how, s), f[s \ {TakenLast(how, s)}])
  <2> HIDE DEF S, how, start
  <2> QED
    BY <1>1, WalkUnfolds
<1>3. Reached(x, u, own, {}, start)
  <2>1. /\ start = [g \in IndexFields |-> start[g]]
        /\ start.map = x.map /\ start.baseUris = x.baseUris \ {u}
        /\ start.positions = [x.positions EXCEPT ![u] = [t \in Types |-> <<>>]]
    BY DEF IndexTyped, IndexFields
  <2>0. x.positions \in [Files -> [Types -> Seq(Nat)]] /\ x.map \in [Types -> Seq(Instances)]
    BY DEF IndexTyped
  <2> DEFINE none == [t \in Types |-> <<>>]
             P == x.positions
  <2>6. none \in [Types -> Seq(Nat)] /\ start.positions = [P EXCEPT ![u] = none] /\ P \in [Files -> [Types -> Seq(Nat)]]
    BY <2>0, <2>1
  <2> HIDE DEF start, own, how, S, f, none, P
  <2>2. /\ start.positions \in [Files -> [Types -> Seq(Nat)]]
        /\ start.positions[u] = [t \in Types |-> <<>>]
        /\ \A w \in Files \ {u} : start.positions[w] = x.positions[w]
    <3>1. /\ start.positions \in [Files -> [Types -> Seq(Nat)]] /\ start.positions[u] = none
          /\ \A w \in Files \ {u} : start.positions[w] = P[w]
      BY <2>6
    <3> QED
      BY <3>1 DEF P, none
  <2>3. IndexTyped(start)
    BY <2>0, <2>1, <2>2 DEF IndexTyped
  <2>4. ASSUME NEW w \in Files \ {u}, NEW r \in Types
        PROVE  Placed(start, w, r) /\ Reads(start, w, r) = Reads(x, w, r)
    <3>1. start.map[r] = x.map[r] /\ start.positions[w][r] = x.positions[w][r] /\ Placed(x, w, r)
      BY <2>1, <2>2 DEF AllPlaced
    <3> QED
      BY <3>1, SamePlaces
  <2>5. ASSUME NEW t \in Types PROVE Stands(start, u, t) = Left(own, {}, t)
    <3>1. Placed(x, u, t) /\ Stands(start, u, t) = Stands(x, u, t)
      BY <2>1 DEF AllPlaced, Stands
    <3>2. \A i : i \in Left(own, {}, t) <=> \E k \in DOMAIN own[t] : i = own[t][k]
      BY DEF Left
    <3>3. \A i : i \in Stands(x, u, t) <=> \E k \in DOMAIN own[t] : i = own[t][k]
      BY <3>1 DEF Placed, Stands, own
    <3> QED
      BY <3>1, <3>2, <3>3
  <2> QED
    BY <2>1, <2>2, <2>3, <2>4, <2>5 DEF Reached
<1> DEFINE G == {s \in SUBSET S : Upper(own, s) => Reached(x, u, own, s, f[s])}
<1>4. ASSUME NEW s \in SUBSET S, s \notin G, \A r \in SUBSET s : r # s => r \in G PROVE FALSE
  <2> DEFINE g == GoesLast(own, s)
  <2>1. Upper(own, s) /\ ~Reached(x, u, own, s, f[s])
    BY <1>4
  <2>2. s # {}
    BY <1>2, <1>3, <2>1
  <2>3. g \in s /\ \A r \in s : r[1] = g[1] => own[g[1]][g[2]] <= own[g[1]][r[2]]
    BY <1>0, <2>2, SomeSlotGoesLast
  <2>4. Upper(own, s \ {g})
    BY <1>0, <2>1, <2>2, UpperRest
  <2>5. s \ {g} \in G
    BY <1>4, <2>3
  <2>6. Reached(x, u, own, s \ {g}, f[s \ {g}])
    BY <2>4, <2>5
  <2>7. f[s] = DropAt(f[s \ {g}], g[1], own[g[1]][g[2]], u \in x.baseUris)
    BY <1>2, <2>2 DEF TakenLast, Step
  <2> HIDE DEF own, f, g
  <2>8. Reached(x, u, own, s, f[s])
    BY <1>0, <2>1, <2>2, <2>6, <2>7, DropStep DEF g
  <2> QED
    BY <2>1, <2>8
<1>5. G = SUBSET S
  <2>1. G \subseteq SUBSET S
    OBVIOUS
  <2> HIDE DEF G
  <2> QED
    BY <1>1, <1>4, <2>1, LeastSubset
<1>6. ASSUME NEW s \in SUBSET S, s # {}
      PROVE  /\ GoesLast(own, s) \in s
             /\ f[s] = DropAt(f[s \ {GoesLast(own, s)}], GoesLast(own, s)[1], own[GoesLast(own, s)[1]][GoesLast(own, s)[2]],
                              u \in x.baseUris)
             /\ Upper(own, s) => Upper(own, s \ {GoesLast(own, s)})
  <2>1. GoesLast(own, s) \in s
    BY <1>0, <1>6, SomeSlotGoesLast
  <2>2. f[s] = DropAt(f[s \ {GoesLast(own, s)}], GoesLast(own, s)[1], own[GoesLast(own, s)[1]][GoesLast(own, s)[2]],
                      u \in x.baseUris)
    <3> HIDE DEF f, S
    <3> QED
      BY <1>2, <1>6 DEF TakenLast, Step
  <2> HIDE DEF f, own
  <2>3. Upper(own, s) => Upper(own, s \ {GoesLast(own, s)})
    BY <1>0, <1>6, UpperRest
  <2> QED
    BY <2>1, <2>2, <2>3
<1>7. \A s \in SUBSET S : Upper(own, s) => Reached(x, u, own, s, f[s])
  <2> HIDE DEF S, f, own
  <2> QED
    BY <1>5
<1>8. own = x.positions[u] /\ f = WalkOver(S, how, start)
  OBVIOUS
<1> HIDE DEF f, own
<1>9. FileWalk(x, u, own, f)
  BY <1>0, <1>1, <1>2, <1>6, <1>7, <1>8 DEF FileWalk
<1> QED
  BY <1>9

\* What the removal makes of the index when the walk is over.
Emptied(own, left) == {t \in Types : own[t] # <<>> /\ left.map[t] = <<>>}
LEMMA FileRemoved ==
  ASSUME NEW x, NEW u \in Files, NEW own, NEW f, FileWalk(x, u, own, f), NEW y, y = RemoveFile(x, u),
         NEW left, left = f[Slots(own)]
  PROVE  /\ Slots(own) = {} => y = x
         /\ Slots(own) # {} =>
              y = [left EXCEPT !.refs = [t \in Types |-> IF t \in Emptied(own, left) THEN [n \in Names |-> NoRefs] ELSE @[t]]]
<1>1. own = x.positions[u]
  BY DEF FileWalk
<1>2. CASE Slots(own) = {}
  BY <1>1, <1>2 DEF RemoveFile
<1>3. CASE Slots(own) # {}
  <2> DEFINE at == x.positions[u]
             start == [x EXCEPT !.positions[u] = [t \in Types |-> <<>>], !.baseUris = @ \ {u}]
             how == [bulk |-> FALSE, own |-> at, base |-> u \in x.baseUris]
  <2>1. left = WalkOver(Slots(at), how, start)[Slots(at)]
    BY <1>1 DEF FileWalk
  <2>2. left = MapThenFoldSet(LAMBDA s, i : DropAt(i, s[1], at[s[1]][s[2]], u \in x.baseUris), start,
                              LAMBDA s : s, LAMBDA slots : GoesLast(at, slots), Slots(at))
    <3>1. WalkOver(Slots(at), how, start)[Slots(at)]
            = MapThenFoldSet(LAMBDA s, i : DropAt(i, s[1], at[s[1]][s[2]], u \in x.baseUris), start,
                             LAMBDA s : s, LAMBDA slots : GoesLast(at, slots), Slots(at))
      BY DEF MapThenFoldSet, WalkOver, IsWalk, TakenLast, Step
    <3> HIDE DEF how, start, at
    <3> QED
      BY <2>1, <3>1
  <2>3. y = [left EXCEPT !.refs = [t \in Types |-> IF t \in Emptied(at, left) THEN [n \in Names |-> NoRefs] ELSE @[t]]]
    <3>1. Slots(at) # {}
      BY <1>1, <1>3
    <3> QED
      BY <2>2, <3>1, Zenon DEF RemoveFile, Emptied
  <2>4. at = own
    BY <1>1
  <2> HIDE DEF at, start
  <2>5. y = [left EXCEPT !.refs = [t \in Types |-> IF t \in Emptied(own, left) THEN [n \in Names |-> NoRefs] ELSE @[t]]]
    BY <2>3, <2>4
  <2> QED
    BY <1>3, <2>5
<1> QED
  BY <1>2, <1>3

\* Removing a file takes its instances out of every type and leaves those of
\* the other files where they are recorded, under the names they had.
LEMMA RemoveFilePlaces ==
  ASSUME NEW x, IndexTyped(x), AllPlaced(x), NEW u \in Files, NEW y, y = RemoveFile(x, u)
  PROVE  /\ IndexTyped(y) /\ AllPlaced(y)
         /\ \A w \in Files \ {u}, r \in Types : Reads(y, w, r) = Reads(x, w, r)
         /\ \A r \in Types : Reads(y, u, r) = <<>> /\ Stands(y, u, r) = {}
         /\ (u \notin x.baseUris => y.baseUris = x.baseUris)
<1>0. PICK own, f : FileWalk(x, u, own, f)
  BY FileWalks
<1> DEFINE S == Slots(own)
<1>3. own = x.positions[u] /\ own \in [Types -> Seq(Nat)]
  BY <1>0 DEF FileWalk
<1>1. CASE S = {}
  <2>1. y = x
    BY <1>0, <1>1, FileRemoved
  <2>2. \A t \in Types : DOMAIN own[t] = {} /\ own[t] = <<>>
    <3> TAKE t \in Types
    <3>1. \A k \in DOMAIN own[t] : <<t, k>> \in S
      BY <1>3, SlotType
    <3> HIDE DEF S
    <3>2. DOMAIN own[t] = {}
      BY <1>1, <3>1
    <3>3. own[t] \in Seq(Nat)
      BY <1>3
    <3> DEFINE q == own[t]
    <3>4. q \in Seq(Nat) /\ DOMAIN q = {}
      BY <3>2, <3>3
    <3> HIDE DEF q
    <3>5. q = <<>>
      <4>1. Len(q) = 0
        BY <3>4
      <4> QED
        BY <3>4, <4>1
    <3> QED
      BY <3>2, <3>5 DEF q
  <2>3. \A r \in Types : Reads(x, u, r) = <<>> /\ Stands(x, u, r) = {}
    BY <1>3, <2>2 DEF Reads, Stands, AllPlaced, Placed
  <2> QED
    BY <2>1, <2>3
<1>2. CASE S # {}
  <2> DEFINE left == f[S]
  <2>6. Reached(x, u, own, S, left)
    <3>1. Upper(own, S)
      BY DEF Upper
    <3> QED
      BY <1>0, <3>1 DEF FileWalk
  <2>8. y = [left EXCEPT !.refs = [t \in Types |-> IF t \in Emptied(own, left) THEN [n \in Names |-> NoRefs] ELSE @[t]]]
    BY <1>0, <1>2, FileRemoved
  <2> HIDE DEF left
  <2>9. IndexTyped(y) /\ y.map = left.map /\ y.positions = left.positions /\ y.baseUris = left.baseUris
    <3>1. IndexTyped(left)
      BY <2>6 DEF Reached
    <3>2. /\ y = [g \in IndexFields |-> y[g]]
          /\ y.map = left.map /\ y.positions = left.positions /\ y.baseUris = left.baseUris
      BY <2>8, <3>1 DEF IndexTyped, IndexFields
    <3> QED
      BY <3>1, <3>2 DEF IndexTyped
  <2>10. ASSUME NEW w \in Files \ {u}, NEW r \in Types PROVE Placed(y, w, r) /\ Reads(y, w, r) = Reads(x, w, r)
    BY <2>6, <2>9, SamePlaces DEF Reached
  <2>11. ASSUME NEW r \in Types PROVE Placed(y, u, r) /\ Reads(y, u, r) = <<>> /\ Stands(y, u, r) = {}
    <3>1. Left(own, S, r) = {}
      <4>1. \A k \in DOMAIN own[r] : <<r, k>> \in S
        BY <1>3, SlotType
      <4> QED
        BY <4>1 DEF Left
    <3>2. Stands(y, u, r) = {} /\ y.positions[u][r] = <<>>
      BY <2>6, <2>9, <3>1 DEF Reached, Stands
    <3> QED
      BY <3>2 DEF Placed, Reads, Stands
  <2>12. u \notin x.baseUris => y.baseUris = x.baseUris
    BY <2>6, <2>9 DEF Reached
  <2> QED
    BY <2>9, <2>10, <2>11, <2>12 DEF AllPlaced
<1> QED
  BY <1>1, <1>2

-----------------------------------------------------------------------------
(* Adding instances                                                        *)

\* Entries of a sequence at some of its places.
LEMMA EntriesType ==
  ASSUME NEW V, NEW v \in Seq(V), NEW K \in SUBSET DOMAIN v
  PROVE  /\ IsFiniteSet(K) /\ K \in SUBSET Nat
         /\ EntriesAt(v, K) \in Seq(V) /\ Len(EntriesAt(v, K)) = Cardinality(K)
         /\ DOMAIN EntriesAt(v, K) = 1..Cardinality(K)
         /\ \A k \in 1..Cardinality(K) : EntriesAt(v, K)[k] = v[InOrder(K)[k]]
<1>1. DOMAIN v = 1..Len(v) /\ Len(v) \in Nat
  OBVIOUS
<1>2. IsFiniteSet(K) /\ K \in SUBSET Nat
  <2>1. IsFiniteSet(DOMAIN v)
    BY <1>1, FS_Interval
  <2> QED
    BY <1>1, <2>1, FS_Subset
<1>3. /\ \A k \in 1..Cardinality(K) : InOrder(K)[k] \in K
      /\ Cardinality(K) \in Nat
  BY <1>2, InOrderLists, FS_CardinalityType
<1>4. \A k \in 1..Cardinality(K) : v[InOrder(K)[k]] \in V
  BY <1>3
<1> DEFINE n == Cardinality(K)
           at(k) == v[InOrder(K)[k]]
<1>5. EntriesAt(v, K) = [k \in 1..n |-> at(k)]
  BY DEF EntriesAt
<1>6. n \in Nat /\ \A k \in 1..n : at(k) \in V
  BY <1>3, <1>4
<1> HIDE DEF n, at
<1>7. EntriesAt(v, K) \in Seq(V) /\ Len(EntriesAt(v, K)) = n /\ DOMAIN EntriesAt(v, K) = 1..n
      /\ \A k \in 1..n : EntriesAt(v, K)[k] = at(k)
  BY <1>5, <1>6
<1> QED
  BY <1>2, <1>7 DEF n, at

\* What instances added at the end of the vectors make of the index: those of
\* file u in type t stand at the places `places` lists.
Extended(x, per, places, y) ==
  /\ IndexTyped(y)
  /\ \A t \in Types : y.map[t] = x.map[t] \o per[t]
  /\ \A u \in Files, t \in Types :
       y.positions[u][t] = x.positions[u][t] \o [k \in DOMAIN places[u][t] |-> Len(x.map[t]) + places[u][t][k]]
Listed(per, places) ==
  \A u \in Files, t \in Types :
    /\ places[u][t] \in Seq(Nat)
    /\ \A a, b \in DOMAIN places[u][t] : places[u][t][a] = places[u][t][b] => a = b
    /\ \A k \in DOMAIN places[u][t] : places[u][t][k] \in DOMAIN per[t] /\ per[t][places[u][t][k]].uri = u
    /\ \A i \in DOMAIN per[t] : per[t][i].uri = u => \E k \in DOMAIN places[u][t] : places[u][t][k] = i

\* z is v and behind it w.
Joined(v, w, z) ==
  /\ Len(v) \in Nat /\ Len(w) \in Nat
  /\ DOMAIN v = 1..Len(v) /\ DOMAIN w = 1..Len(w) /\ DOMAIN z = 1..(Len(v) + Len(w))
  /\ \A i \in 1..Len(v) : z[i] = v[i] /\ i \in 1..(Len(v) + Len(w))
  /\ \A i \in 1..Len(w) : z[Len(v) + i] = w[i] /\ Len(v) + i \in 1..(Len(v) + Len(w))
  /\ \A i \in 1..(Len(v) + Len(w)) : i \in 1..Len(v) \/ \E j \in 1..Len(w) : i = Len(v) + j
LEMMA Behind ==
  ASSUME NEW V, NEW v \in Seq(V), NEW w \in Seq(V)
  PROVE  v \o w \in Seq(V) /\ Joined(v, w, v \o w)
<1>1. \A i \in 1..(Len(v) + Len(w)) : i \in 1..Len(v) \/ \E j \in 1..Len(w) : i = Len(v) + j
  <2>1. Len(v) \in Nat /\ Len(w) \in Nat
    OBVIOUS
  <2>2. TAKE i \in 1..(Len(v) + Len(w))
  <2>3. CASE i > Len(v)
    <3>1. i - Len(v) \in 1..Len(w) /\ i = Len(v) + (i - Len(v))
      BY <2>1, <2>3
    <3> QED
      BY <3>1
  <2> QED
    BY <2>1, <2>3
<1>2. /\ v \o w \in Seq(V) /\ Len(v \o w) = Len(v) + Len(w)
      /\ Len(v) \in Nat /\ Len(w) \in Nat
      /\ DOMAIN v = 1..Len(v) /\ DOMAIN w = 1..Len(w) /\ DOMAIN (v \o w) = 1..(Len(v) + Len(w))
  OBVIOUS
<1>3. \A i \in 1..Len(v) : (v \o w)[i] = v[i] /\ i \in 1..(Len(v) + Len(w))
  OBVIOUS
<1>4. \A i \in 1..Len(w) : (v \o w)[Len(v) + i] = w[i] /\ Len(v) + i \in 1..(Len(v) + Len(w))
  OBVIOUS
<1> QED
  BY <1>1, <1>2, <1>3, <1>4 DEF Joined

\* Numbers counted from n on.
LEMMA Shifted ==
  ASSUME NEW q \in Seq(Nat), NEW n \in Nat, NEW s, s = [k \in DOMAIN q |-> n + q[k]]
  PROVE  /\ s \in Seq(Nat) /\ Len(s) = Len(q) /\ DOMAIN s = 1..Len(q) /\ Len(q) \in Nat /\ DOMAIN q = 1..Len(q)
         /\ \A k \in 1..Len(q) : s[k] = n + q[k] /\ q[k] \in Nat
BY SMTT(40)

LEMMA ExtendedPlaces ==
  ASSUME NEW x, IndexTyped(x), AllPlaced(x), NEW per \in [Types -> Seq(Instances)],
         NEW places, Listed(per, places), NEW y, Extended(x, per, places, y),
         NEW u \in Files, NEW t \in Types
  PROVE  Placed(y, u, t)
<1> DEFINE v == x.map[t]
           w == per[t]
           n == Len(v)
           old == x.positions[u][t]
           q == places[u][t]
           shifted == [k \in DOMAIN q |-> n + q[k]]
           new == old \o shifted
<1>1. v \in Seq(Instances) /\ w \in Seq(Instances) /\ old \in Seq(Nat) /\ q \in Seq(Nat)
  BY DEF IndexTyped, Listed
<1>2. y.map[t] = v \o w /\ y.positions[u][t] = new
  BY DEF Extended
<1>3. /\ n \in Nat /\ DOMAIN v = 1..n /\ DOMAIN w = 1..Len(w) /\ DOMAIN (v \o w) = 1..(n + Len(w)) /\ Len(w) \in Nat
      /\ \A i \in 1..n : (v \o w)[i] = v[i] /\ i \in 1..(n + Len(w))
      /\ \A i \in 1..Len(w) : (v \o w)[n + i] = w[i] /\ n + i \in 1..(n + Len(w))
      /\ \A i \in 1..(n + Len(w)) : i \in 1..n \/ \E j \in 1..Len(w) : i = n + j
  <2>1. Joined(v, w, v \o w)
    <3> HIDE DEF v, w
    <3> QED
      BY <1>1, Behind
  <2> HIDE DEF v, w
  <2> QED
    BY <2>1 DEF Joined
<1>4. /\ shifted \in Seq(Nat) /\ Len(shifted) = Len(q) /\ DOMAIN shifted = 1..Len(q) /\ Len(q) \in Nat /\ DOMAIN q = 1..Len(q)
      /\ \A k \in 1..Len(q) : shifted[k] = n + q[k] /\ q[k] \in Nat
  <2> HIDE DEF q, n
  <2> QED
    BY <1>1, <1>3, Shifted
<1> HIDE DEF shifted
<1>5. /\ Len(old) \in Nat /\ DOMAIN old = 1..Len(old) /\ DOMAIN new = 1..(Len(old) + Len(q))
      /\ \A k \in 1..Len(old) : new[k] = old[k]
      /\ \A k \in 1..Len(q) : new[Len(old) + k] = n + q[k] /\ Len(old) + k \in 1..(Len(old) + Len(q))
      /\ \A k \in 1..(Len(old) + Len(q)) : k \in 1..Len(old) \/ \E j \in 1..Len(q) : k = Len(old) + j
      /\ \A k \in 1..Len(old) : k \in 1..(Len(old) + Len(q))
  <2>1. Joined(old, shifted, new)
    <3> HIDE DEF old
    <3> QED
      BY <1>1, <1>4, Behind
  <2> HIDE DEF old, q, n, new
  <2> QED
    BY <1>4, <2>1 DEF Joined
<1>6. /\ \A a, b \in 1..Len(old) : old[a] = old[b] => a = b
      /\ \A k \in 1..Len(old) : old[k] \in 1..n /\ v[old[k]].uri = u
      /\ \A i \in 1..n : v[i].uri = u => \E k \in 1..Len(old) : old[k] = i
  <2>1. Placed(x, u, t)
    BY DEF AllPlaced
  <2> HIDE DEF n
  <2> QED
    BY <1>3, <1>5, <2>1 DEF Placed
<1>7. /\ \A a, b \in 1..Len(q) : q[a] = q[b] => a = b
      /\ \A k \in 1..Len(q) : q[k] \in 1..Len(w) /\ w[q[k]].uri = u
      /\ \A i \in 1..Len(w) : w[i].uri = u => \E k \in 1..Len(q) : q[k] = i
  <2>1. /\ \A a, b \in DOMAIN q : q[a] = q[b] => a = b
        /\ \A k \in DOMAIN q : q[k] \in DOMAIN w /\ w[q[k]].uri = u
        /\ \A i \in DOMAIN w : w[i].uri = u => \E k \in DOMAIN q : q[k] = i
    BY DEF Listed
  <2> HIDE DEF q, w
  <2> QED
    BY <1>3, <1>4, <2>1
<1> DEFINE whole == v \o w
           m == Len(old)
           l == Len(q)
           lw == Len(w)
<1>20. y.map[t] = whole /\ DOMAIN whole = 1..(n + lw)
  BY <1>2, <1>3
<1>21. m \in Nat /\ l \in Nat /\ n \in Nat /\ lw \in Nat
  BY <1>3, <1>4, <1>5
<1> HIDE DEF v, w, n, old, q, new, whole, m, l, lw
<1>11. ASSUME NEW k \in 1..(m + l)
       PROVE  \/ k \in 1..m /\ new[k] = old[k] /\ whole[new[k]] = v[old[k]] /\ new[k] \in 1..n
              \/ \E j \in 1..l : k = m + j /\ new[k] = n + q[j] /\ whole[new[k]] = w[q[j]] /\ new[k] \notin 1..n
  <2>1. CASE k \in 1..m
    BY <1>3, <1>5, <1>6, <2>1 DEF whole, m
  <2>2. ASSUME NEW j \in 1..l, k = m + j
        PROVE  new[k] = n + q[j] /\ whole[new[k]] = w[q[j]] /\ new[k] \notin 1..n
    <3>1. new[k] = n + q[j] /\ q[j] \in 1..Len(w)
      BY <1>5, <1>7, <2>2 DEF m, l
    <3>2. whole[n + q[j]] = w[q[j]]
      BY <1>3, <3>1 DEF whole
    <3> QED
      BY <1>21, <3>1, <3>2 DEF lw
  <2> QED
    BY <1>5, <2>1, <2>2 DEF m, l
<1>12. ASSUME NEW k \in 1..(m + l) PROVE new[k] \in 1..(n + lw) /\ whole[new[k]].uri = u
  <2>1. CASE k \in 1..m /\ new[k] = old[k] /\ whole[new[k]] = v[old[k]] /\ new[k] \in 1..n
    BY <1>3, <1>6, <2>1 DEF m, lw
  <2>2. ASSUME NEW j \in 1..l, new[k] = n + q[j], whole[new[k]] = w[q[j]] PROVE new[k] \in 1..(n + lw) /\ whole[new[k]].uri = u
    BY <1>3, <1>7, <2>2 DEF l, lw
  <2> QED
    BY <1>11, <2>1, <2>2
<1>13. ASSUME NEW a \in 1..(m + l), NEW b \in 1..(m + l), new[a] = new[b] PROVE a = b
  <2>1. CASE a \in 1..m /\ new[a] = old[a] /\ new[a] \in 1..n
    <3>1. b \in 1..m /\ new[b] = old[b]
      BY <1>11, <1>13, <2>1
    <3> QED
      BY <1>6, <1>13, <2>1, <3>1 DEF m
  <2>2. ASSUME NEW j \in 1..l, a = m + j, new[a] = n + q[j], new[a] \notin 1..n PROVE a = b
    <3>1. PICK i \in 1..l : b = m + i /\ new[b] = n + q[i]
      BY <1>11, <1>13, <2>2
    <3>2. q[i] = q[j]
      <4>1. q[i] \in Nat /\ q[j] \in Nat
        BY <1>4 DEF l
      <4> QED
        BY <1>13, <1>21, <2>2, <3>1, <4>1
    <3> QED
      BY <1>7, <2>2, <3>1, <3>2 DEF l
  <2> QED
    BY <1>11, <2>1, <2>2
<1>14. ASSUME NEW i \in 1..(n + lw), whole[i].uri = u PROVE \E k \in 1..(m + l) : new[k] = i
  <2>1. CASE i \in 1..n
    <3>1. v[i].uri = u
      BY <1>3, <1>14, <2>1 DEF whole
    <3>2. PICK k \in 1..m : old[k] = i
      BY <1>6, <2>1, <3>1 DEF m
    <3> QED
      BY <1>5, <3>2 DEF m, l
  <2>2. ASSUME NEW j \in 1..lw, i = n + j PROVE \E k \in 1..(m + l) : new[k] = i
    <3>1. w[j].uri = u
      BY <1>3, <1>14, <2>2 DEF whole, lw
    <3>2. PICK k \in 1..l : q[k] = j
      BY <1>7, <3>1 DEF l, lw
    <3>3. new[m + k] = n + j /\ m + k \in 1..(m + l)
      BY <1>5, <3>2 DEF m, l
    <3> QED
      BY <2>2, <3>3
  <2> QED
    BY <1>3, <2>1, <2>2 DEF lw
<1>15. DOMAIN y.positions[u][t] = 1..(m + l) /\ y.positions[u][t] = new
  BY <1>2, <1>5 DEF m, l
<1> QED
  BY <1>12, <1>13, <1>14, <1>15, <1>20 DEF Placed

\* Only the counts change when definitions are added to them.
LEMMA CountedMovesNothing ==
  ASSUME NEW x, IndexTyped(x), NEW per, NEW b \in BOOLEAN, NEW y, y = Counted(x, per, b)
  PROVE  /\ y = [f \in IndexFields |-> y[f]]
         /\ y.map = x.map /\ y.positions = x.positions /\ y.baseUris = x.baseUris
<1> DEFINE counts == [n \in Names |-> x.nameCounts[n] + Cardinality(
            UNION {{<<t, i>> : i \in {j \in DOMAIN per[t] : Lower[per[t][j]] = n}} : t \in Types \ Subtypes})]
           refs == [t \in Types |-> [n \in Names |-> AddRefs(x.refs[t][n], Spelled(per[t], n), b)]]
<1>1. y = [x EXCEPT !.nameCounts = counts, !.refs = refs]
  BY DEF Counted
<1> HIDE DEF counts, refs
<1> QED
  BY <1>1 DEF IndexTyped, IndexFields

\* A file's names as instances, and the instances a file contributes, merged.
VectorsOf(u, per) == [t \in Types |-> [i \in DOMAIN per[t] |-> [uri |-> u, name |-> per[t][i]]]]
Merged(x, own, y) ==
  /\ IndexTyped(y) /\ AllPlaced(y) /\ y.baseUris = x.baseUris
  /\ \A t \in Types : y.map[t] = x.map[t] \o own[t]
LEMMA MergePlaces ==
  ASSUME NEW x, IndexTyped(x), AllPlaced(x), NEW u \in Files, NEW per \in [Types -> Seq(Names)],
         NEW y, y = Merge(x, u, per)
  PROVE  Merged(x, VectorsOf(u, per), y)
<1> DEFINE c == Counted(x, per, FALSE)
           added(t) == [i \in DOMAIN per[t] |-> [uri |-> u, name |-> per[t][i]]]
           entries == [t \in Types |-> added(t)]
           shifts(t) == [i \in DOMAIN per[t] |-> Len(x.map[t]) + i]
           places == [w \in Files |-> [t \in Types |-> IF w = u THEN [i \in DOMAIN per[t] |-> i] ELSE <<>>]]
           map == [t \in Types |-> x.map[t] \o added(t)]
           own == [t \in Types |-> x.positions[u][t] \o shifts(t)]
<1>1. /\ c = [f \in IndexFields |-> c[f]]
      /\ c.map = x.map /\ c.positions = x.positions /\ c.baseUris = x.baseUris
  <2>1. PICK b \in BOOLEAN : b = FALSE
    OBVIOUS
  <2>2. PICK d : d = Counted(x, per, b)
    OBVIOUS
  <2>3. d = c
    BY <2>1, <2>2
  <2> HIDE DEF c
  <2>4. /\ d = [f \in IndexFields |-> d[f]]
        /\ d.map = x.map /\ d.positions = x.positions /\ d.baseUris = x.baseUris
    BY <2>2, CountedMovesNothing
  <2> QED
    BY <2>3, <2>4
<1>2. y = [c EXCEPT !.map = [t \in Types |-> @[t] \o added(t)],
                    !.positions[u] = [t \in Types |-> @[t] \o shifts(t)], !.baseUris = @]
  BY DEF Merge, MergeFrom
<1> HIDE DEF c, added, shifts
<1>3. /\ y = [f \in IndexFields |-> y[f]]
      /\ y.map = [t \in Types |-> c.map[t] \o added(t)]
      /\ y.positions = [c.positions EXCEPT ![u] = [t \in Types |-> c.positions[u][t] \o shifts(t)]]
      /\ y.baseUris = c.baseUris
  <2> DEFINE m2 == [t \in Types |-> c.map[t] \o added(t)]
             o2 == [t \in Types |-> c.positions[u][t] \o shifts(t)]
  <2>1. y = [c EXCEPT !.map = m2, !.positions = [@ EXCEPT ![u] = o2]]
    BY <1>2
  <2> HIDE DEF m2, o2
  <2>2. /\ y = [f \in IndexFields |-> y[f]]
        /\ y.map = m2 /\ y.positions = [c.positions EXCEPT ![u] = o2] /\ y.baseUris = c.baseUris
    BY <1>1, <2>1 DEF IndexFields
  <2> QED
    BY <2>2 DEF m2, o2
<1>4. x.map \in [Types -> Seq(Instances)] /\ x.positions \in [Files -> [Types -> Seq(Nat)]]
  BY DEF IndexTyped
<1>5. ASSUME NEW t \in Types
      PROVE  /\ per[t] \in Seq(Names) /\ Len(per[t]) \in Nat /\ DOMAIN per[t] = 1..Len(per[t])
             /\ added(t) \in Seq(Instances) /\ DOMAIN added(t) = 1..Len(per[t])
             /\ \A i \in 1..Len(per[t]) : added(t)[i].uri = u /\ added(t)[i].name = per[t][i]
             /\ shifts(t) \in Seq(Nat)
  <2> DEFINE p == per[t]
             n == Len(x.map[t])
  <2>1. p \in Seq(Names) /\ n \in Nat
    BY <1>4
  <2>2. added(t) = [i \in DOMAIN p |-> [uri |-> u, name |-> p[i]]] /\ shifts(t) = [i \in DOMAIN p |-> n + i]
    BY DEF added, shifts
  <2> HIDE DEF p, n
  <2>3. \A i \in DOMAIN p : [uri |-> u, name |-> p[i]] \in Instances
    BY <2>1 DEF Instances
  <2>4. Len(p) \in Nat /\ DOMAIN p = 1..Len(p)
    BY <2>1
  <2>5. /\ added(t) \in Seq(Instances) /\ DOMAIN added(t) = 1..Len(p)
        /\ \A i \in 1..Len(p) : added(t)[i].uri = u /\ added(t)[i].name = p[i]
    BY <2>2, <2>3, <2>4
  <2>6. shifts(t) \in Seq(Nat)
    BY <2>1, <2>2, <2>4
  <2> QED
    BY <2>1, <2>4, <2>5, <2>6 DEF p
<1>6. y.map = map /\ y.positions = [x.positions EXCEPT ![u] = own] /\ y.baseUris = x.baseUris
  <2>1. y.positions = [x.positions EXCEPT ![u] = own]
    BY <1>1, <1>3
  <2>2. [t \in Types |-> c.map[t] \o added(t)] = map
    BY <1>1
  <2> HIDE DEF map
  <2> QED
    BY <1>1, <1>3, <2>1, <2>2
<1>7. map \in [Types -> Seq(Instances)] /\ own \in [Types -> Seq(Nat)]
  <2>1. \A t \in Types : x.map[t] \o added(t) \in Seq(Instances)
    BY <1>4, <1>5
  <2>2. \A t \in Types : x.positions[u][t] \o shifts(t) \in Seq(Nat)
    BY <1>4, <1>5
  <2> QED
    BY <2>1, <2>2
<1>8. /\ y.positions \in [Files -> [Types -> Seq(Nat)]] /\ y.positions[u] = own
      /\ \A w \in Files \ {u} : y.positions[w] = x.positions[w]
  <2> DEFINE P == x.positions
  <2>1. P \in [Files -> [Types -> Seq(Nat)]] /\ y.positions = [P EXCEPT ![u] = own]
    BY <1>4, <1>6
  <2> HIDE DEF P, own
  <2>2. /\ y.positions \in [Files -> [Types -> Seq(Nat)]] /\ y.positions[u] = own
        /\ \A w \in Files \ {u} : y.positions[w] = P[w]
    BY <1>7, <2>1
  <2> QED
    BY <2>2 DEF P
<1>9. IndexTyped(y)
  BY <1>3, <1>6, <1>7, <1>8 DEF IndexTyped
<1>10. entries \in [Types -> Seq(Instances)]
  BY <1>5
<1>11. Listed(entries, places)
  <2>1. ASSUME NEW w \in Files, NEW t \in Types
        PROVE  /\ places[w][t] \in Seq(Nat)
               /\ \A a, b \in DOMAIN places[w][t] : places[w][t][a] = places[w][t][b] => a = b
               /\ \A k \in DOMAIN places[w][t] : places[w][t][k] \in DOMAIN entries[t] /\ entries[t][places[w][t][k]].uri = w
               /\ \A i \in DOMAIN entries[t] : entries[t][i].uri = w => \E k \in DOMAIN places[w][t] : places[w][t][k] = i
    <3>1. entries[t] = added(t)
      OBVIOUS
    <3>2. CASE w = u
      <4> DEFINE same == [i \in DOMAIN per[t] |-> i]
      <4>1. places[w][t] = same
        BY <3>2
      <4>2. /\ same \in Seq(Nat) /\ DOMAIN same = 1..Len(per[t]) /\ \A k \in 1..Len(per[t]) : same[k] = k
        BY <1>5
      <4>3. DOMAIN added(t) = 1..Len(per[t]) /\ \A i \in 1..Len(per[t]) : added(t)[i].uri = u
        BY <1>5
      <4> HIDE DEF same, places, entries
      <4> QED
        BY <3>1, <3>2, <4>1, <4>2, <4>3
    <3>3. CASE w # u
      <4>1. places[w][t] = <<>>
        BY <3>3
      <4>2. DOMAIN added(t) = 1..Len(per[t]) /\ \A i \in 1..Len(per[t]) : added(t)[i].uri = u
        BY <1>5
      <4>3. <<>> \in Seq(Nat) /\ DOMAIN <<>> = {}
        OBVIOUS
      <4> HIDE DEF places, entries
      <4> QED
        BY <3>1, <3>3, <4>1, <4>2, <4>3
    <3> QED
      BY <3>2, <3>3
  <2> HIDE DEF places, entries
  <2> QED
    BY <2>1 DEF Listed
<1>12. Extended(x, entries, places, y)
  <2>1. ASSUME NEW t \in Types PROVE y.map[t] = x.map[t] \o entries[t]
    BY <1>6
  <2>2. ASSUME NEW w \in Files, NEW t \in Types
        PROVE  y.positions[w][t] = x.positions[w][t] \o [k \in DOMAIN places[w][t] |-> Len(x.map[t]) + places[w][t][k]]
    <3>1. CASE w = u
      <4>1. places[w][t] = [i \in DOMAIN per[t] |-> i]
        BY <3>1
      <4>2. [k \in DOMAIN places[w][t] |-> Len(x.map[t]) + places[w][t][k]] = shifts(t)
        <5> DEFINE q == places[w][t]
                   n == Len(x.map[t])
                   p == per[t]
        <5>1. q = [i \in DOMAIN p |-> i]
          BY <4>1
        <5> HIDE DEF q, n, p
        <5>2. [k \in DOMAIN q |-> n + q[k]] = [i \in DOMAIN p |-> n + i]
          BY <5>1
        <5> QED
          BY <5>2 DEF q, n, p, shifts
      <4>3. y.positions[w][t] = x.positions[u][t] \o shifts(t)
        BY <1>8, <3>1
      <4> QED
        BY <3>1, <4>2, <4>3
    <3>2. CASE w # u
      <4>1. places[w][t] = <<>>
        BY <3>2
      <4>2. [k \in DOMAIN places[w][t] |-> Len(x.map[t]) + places[w][t][k]] = <<>>
        <5> DEFINE q == places[w][t]
                   n == Len(x.map[t])
        <5>1. q = <<>>
          BY <4>1
        <5> HIDE DEF q, n
        <5>2. [k \in DOMAIN q |-> n + q[k]] = <<>>
          BY <5>1
        <5> QED
          BY <5>2 DEF q, n
      <4> DEFINE q == x.positions[w][t]
      <4>3. q \in Seq(Nat) /\ y.positions[w][t] = q
        BY <1>4, <1>8, <3>2
      <4> HIDE DEF q, places
      <4>4. q \o <<>> = q
        BY <4>3
      <4> QED
        BY <4>2, <4>3, <4>4 DEF q
    <3> QED
      BY <3>1, <3>2
  <2> HIDE DEF places, entries
  <2> QED
    BY <1>9, <2>1, <2>2 DEF Extended
<1>13. ASSUME NEW w \in Files, NEW t \in Types
       PROVE  Placed(y, w, t)
  <2> HIDE DEF places, entries
  <2>1. IndexTyped(x) /\ AllPlaced(x)
    OBVIOUS
  <2> QED
    BY <1>10, <1>11, <1>12, <2>1, ExtendedPlaces, SMTT(60)
<1>14. \A t \in Types : y.map[t] = x.map[t] \o VectorsOf(u, per)[t]
  BY <1>6 DEF added, VectorsOf
<1> QED
  BY <1>6, <1>9, <1>13, <1>14 DEF AllPlaced, Merged

\* The places of a file's instances in a vector.
PlacesIn(per) == [u \in Files |-> [t \in Types |-> InOrder(PlacesOf(per[t], {u}))]]

\* A sequence of places names once each the entries of a vector under some uris.
Lists(q, v, us) ==
  /\ q \in Seq(Nat)
  /\ \A a, b \in DOMAIN q : q[a] = q[b] => a = b
  /\ \A k \in DOMAIN q : q[k] \in DOMAIN v /\ v[q[k]].uri \in us
  /\ \A i \in DOMAIN v : v[i].uri \in us => \E k \in DOMAIN q : q[k] = i

LEMMA PlacesListed ==
  ASSUME NEW V, NEW v \in Seq(V), NEW us
  PROVE  /\ PlacesOf(v, us) \in SUBSET DOMAIN v /\ PlacesOf(v, us) \in SUBSET Nat /\ IsFiniteSet(PlacesOf(v, us))
         /\ Lists(InOrder(PlacesOf(v, us)), v, us)
<1> DEFINE P == PlacesOf(v, us)
<1>1. P \in SUBSET DOMAIN v
  BY DEF PlacesOf
<1>2. IsFiniteSet(P) /\ P \in SUBSET Nat
  BY <1>1, EntriesType
<1>3. \A i : i \in P <=> i \in DOMAIN v /\ v[i].uri \in us
  BY DEF PlacesOf
<1> HIDE DEF P
<1>4. /\ InOrder(P) \in Seq(Nat) /\ DOMAIN InOrder(P) = 1..Cardinality(P)
      /\ \A k \in 1..Cardinality(P) : InOrder(P)[k] \in P
      /\ \A j, k \in 1..Cardinality(P) : InOrder(P)[j] = InOrder(P)[k] => j = k
      /\ \A i \in P : \E k \in 1..Cardinality(P) : InOrder(P)[k] = i
  BY <1>2, InOrderLists
<1>5. /\ \A a, b \in DOMAIN InOrder(P) : InOrder(P)[a] = InOrder(P)[b] => a = b
      /\ \A k \in DOMAIN InOrder(P) : InOrder(P)[k] \in DOMAIN v /\ v[InOrder(P)[k]].uri \in us
      /\ \A i \in DOMAIN v : v[i].uri \in us => \E k \in DOMAIN InOrder(P) : InOrder(P)[k] = i
  BY <1>3, <1>4
<1> QED
  BY <1>1, <1>2, <1>4, <1>5 DEF P, Lists

LEMMA PlacesInListed ==
  ASSUME NEW per \in [Types -> Seq(Instances)]
  PROVE  Listed(per, PlacesIn(per))
<1> DEFINE Q == PlacesIn(per)
<1>1. ASSUME NEW u \in Files, NEW t \in Types
      PROVE  /\ Q[u][t] \in Seq(Nat)
             /\ \A a, b \in DOMAIN Q[u][t] : Q[u][t][a] = Q[u][t][b] => a = b
             /\ \A k \in DOMAIN Q[u][t] : Q[u][t][k] \in DOMAIN per[t] /\ per[t][Q[u][t][k]].uri = u
             /\ \A i \in DOMAIN per[t] : per[t][i].uri = u => \E k \in DOMAIN Q[u][t] : Q[u][t][k] = i
  <2> DEFINE v == per[t]
             q == InOrder(PlacesOf(v, {u}))
  <2>1. v \in Seq(Instances)
    OBVIOUS
  <2>2. Q[u][t] = q
    BY DEF PlacesIn
  <2> HIDE DEF v, Q
  <2>3. Lists(q, v, {u})
    BY <2>1, PlacesListed
  <2> HIDE DEF q
  <2>4. /\ q \in Seq(Nat)
        /\ \A a, b \in DOMAIN q : q[a] = q[b] => a = b
        /\ \A k \in DOMAIN q : q[k] \in DOMAIN v /\ v[q[k]].uri = u
        /\ \A i \in DOMAIN v : v[i].uri = u => \E k \in DOMAIN q : q[k] = i
    BY <2>3 DEF Lists
  <2> QED
    BY <2>2, <2>4 DEF v
<1> HIDE DEF Q
<1>2. Listed(per, Q)
  BY <1>1 DEF Listed
<1> QED
  BY <1>2 DEF Q

\* The instances of the base game, merged.
BaseMerged(x, per, y) ==
  /\ IndexTyped(y) /\ AllPlaced(y)
  /\ y.baseUris = x.baseUris \cup UNION {{e.uri : e \in ToSet(per[t])} : t \in Types}
  /\ \A t \in Types : y.map[t] = x.map[t] \o per[t]
LEMMA MergeBaseGamePlaces ==
  ASSUME NEW x, IndexTyped(x), AllPlaced(x), NEW per \in [Types -> Seq(Instances)], NEW y, y = MergeBaseGame(x, per)
  PROVE  BaseMerged(x, per, y)
<1> DEFINE names == [t \in Types |-> [i \in DOMAIN per[t] |-> per[t][i].name]]
           c == Counted(x, names, TRUE)
           places == PlacesIn(per)
           shifts(u, t) == [k \in DOMAIN places[u][t] |-> Len(x.map[t]) + places[u][t][k]]
           map == [t \in Types |-> x.map[t] \o per[t]]
           positions == [u \in Files |-> [t \in Types |-> x.positions[u][t] \o shifts(u, t)]]
           uris == x.baseUris \cup UNION {{e.uri : e \in ToSet(per[t])} : t \in Types}
<1>1. /\ c = [f \in IndexFields |-> c[f]]
      /\ c.map = x.map /\ c.positions = x.positions /\ c.baseUris = x.baseUris
  <2>1. PICK b \in BOOLEAN : b = TRUE
    OBVIOUS
  <2>2. PICK d : d = Counted(x, names, b)
    OBVIOUS
  <2>3. d = c
    BY <2>1, <2>2
  <2> HIDE DEF c, names
  <2>4. /\ d = [f \in IndexFields |-> d[f]]
        /\ d.map = x.map /\ d.positions = x.positions /\ d.baseUris = x.baseUris
    BY <2>2, CountedMovesNothing
  <2> QED
    BY <2>3, <2>4
<1>2. y = [c EXCEPT !.map = map, !.positions = positions, !.baseUris = uris]
  <2> DEFINE placed(u, t) == [k \in DOMAIN InOrder(PlacesOf(per[t], {u})) |-> Len(x.map[t]) + InOrder(PlacesOf(per[t], {u}))[k]]
  <2>1. y = [c EXCEPT !.map = [t \in Types |-> c.map[t] \o per[t]],
                      !.positions = [u \in Files |-> [t \in Types |-> c.positions[u][t] \o placed(u, t)]],
                      !.baseUris = c.baseUris \cup UNION {{e.uri : e \in ToSet(per[t])} : t \in Types}]
    BY DEF MergeBaseGame
  <2>2. \A u \in Files, t \in Types : placed(u, t) = shifts(u, t)
    BY DEF PlacesIn
  <2> HIDE DEF placed, shifts, c
  <2>3. [t \in Types |-> c.map[t] \o per[t]] = map
    BY <1>1
  <2>4. [u \in Files |-> [t \in Types |-> c.positions[u][t] \o placed(u, t)]] = positions
    BY <1>1, <2>2
  <2> HIDE DEF map, positions
  <2> QED
    BY <1>1, <2>1, <2>3, <2>4
<1>3. /\ y = [f \in IndexFields |-> y[f]] /\ y.map = map /\ y.positions = positions /\ y.baseUris = uris
  <2> HIDE DEF c, map, positions, uris
  <2> QED
    BY <1>1, <1>2 DEF IndexFields
<1>4. x.map \in [Types -> Seq(Instances)] /\ x.positions \in [Files -> [Types -> Seq(Nat)]]
  BY DEF IndexTyped
<1>5. Listed(per, places)
  BY PlacesInListed
<1> HIDE DEF places, c, names
<1>6. ASSUME NEW u \in Files, NEW t \in Types PROVE x.positions[u][t] \o shifts(u, t) \in Seq(Nat)
  <2> DEFINE q == places[u][t]
             n == Len(x.map[t])
             p == x.positions[u][t]
             s == [k \in DOMAIN q |-> n + q[k]]
  <2>1. q \in Seq(Nat) /\ n \in Nat /\ p \in Seq(Nat)
    BY <1>4, <1>5 DEF Listed
  <2> HIDE DEF q, n, p
  <2>2. s \in Seq(Nat)
    BY <2>1, Shifted
  <2> HIDE DEF s
  <2>3. p \o s \in Seq(Nat)
    BY <2>1, <2>2
  <2> QED
    BY <2>3 DEF p, s, q, n
<1>7. map \in [Types -> Seq(Instances)] /\ positions \in [Files -> [Types -> Seq(Nat)]]
  <2>1. \A t \in Types : x.map[t] \o per[t] \in Seq(Instances)
    BY <1>4
  <2> HIDE DEF shifts
  <2> QED
    BY <1>6, <2>1
<1>8. IndexTyped(y)
  <2> HIDE DEF map, positions
  <2> QED
    BY <1>3, <1>7 DEF IndexTyped
<1>9. Extended(x, per, places, y)
  <2>1. ASSUME NEW t \in Types PROVE y.map[t] = x.map[t] \o per[t]
    BY <1>3
  <2>2. ASSUME NEW u \in Files, NEW t \in Types
        PROVE  y.positions[u][t] = x.positions[u][t] \o [k \in DOMAIN places[u][t] |-> Len(x.map[t]) + places[u][t][k]]
    <3>1. y.positions[u][t] = positions[u][t]
      BY <1>3
    <3> HIDE DEF shifts
    <3>2. positions[u][t] = x.positions[u][t] \o shifts(u, t)
      OBVIOUS
    <3> QED
      BY <3>1, <3>2 DEF shifts
  <2> HIDE DEF map, positions, shifts
  <2> QED
    BY <1>8, <2>1, <2>2 DEF Extended
<1>10. ASSUME NEW u \in Files, NEW t \in Types
       PROVE Placed(y, u, t)
  <2>1. IndexTyped(x) /\ AllPlaced(x)
    OBVIOUS
  <2> QED
    BY <1>5, <1>9, <2>1, ExtendedPlaces, SMTT(60)
<1> QED
  BY <1>3, <1>8, <1>10 DEF AllPlaced, BaseMerged

-----------------------------------------------------------------------------
(* Removing many files                                                     *)

\* Releasing the names of some instances leaves the vectors and the positions alone.
LEMMA ReleasesMoveNothing ==
  ASSUME NEW x, IndexTyped(x), NEW S, IsFiniteSet(S), NEW how, how.bulk, NEW y, y = WalkOver(S, how, x)[S]
  PROVE  IndexTyped(y) /\ y.map = x.map /\ y.positions = x.positions /\ y.baseUris = x.baseUris
<1> DEFINE f == WalkOver(S, how, x)
           Same(z) == IndexTyped(z) /\ z.map = x.map /\ z.positions = x.positions /\ z.baseUris = x.baseUris
           G == {s \in SUBSET S : Same(f[s])}
<1>1. Picks(S, how)
  BY DEF Picks, TakenLast
<1>2. /\ f[{}] = x
      /\ \A s \in SUBSET S : s # {} => f[s] = Step(how, TakenLast(how, s), f[s \ {TakenLast(how, s)}])
  BY <1>1, WalkUnfolds
<1> HIDE DEF f
<1>3. ASSUME NEW s \in SUBSET S, s \notin G, \A r \in SUBSET s : r # s => r \in G PROVE FALSE
  <2>1. ~Same(f[s])
    BY <1>3
  <2>2. s # {}
    BY <1>2, <2>1
  <2> DEFINE k == TakenLast(how, s)
             r == s \ {k}
             z == f[r]
  <2>3. k \in s /\ r \in G
    BY <1>1, <1>3, <2>2 DEF Picks
  <2>4. f[s] = ReleaseAt(z, k[1], k[2], how.map[k[1]][k[2]].uri \in how.baseUris)
    BY <1>2, <2>2 DEF Step
  <2>5. Same(z)
    BY <2>3
  <2> HIDE DEF z, k, r
  <2>6. IndexTyped(f[s]) /\ f[s].map = z.map /\ f[s].positions = z.positions /\ f[s].baseUris = z.baseUris
    BY <2>4, <2>5, ReleaseMovesNothing
  <2> QED
    BY <2>1, <2>5, <2>6
<1>4. G = SUBSET S
  <2>1. G \subseteq SUBSET S
    OBVIOUS
  <2> HIDE DEF G
  <2> QED
    BY <1>3, <2>1, LeastSubset
<1>5. Same(f[S])
  BY <1>4
<1> QED
  BY <1>5 DEF f

\* The entries at given places, and where a file stands among them.
LEMMA KeptPlaces ==
  ASSUME NEW v \in Seq(Instances), NEW uris, NEW z, z = EntriesAt(v, PlacesOf(v, Files \ uris)),
         NEW u \in Files, NEW q, q = InOrder(PlacesOf(z, {u}))
  PROVE  z \in Seq(Instances) /\ Lists(q, z, {u})
<1>1. PlacesOf(v, Files \ uris) \in SUBSET DOMAIN v
  BY PlacesListed
<1>2. z \in Seq(Instances)
  BY <1>1, EntriesType
<1> QED
  BY <1>2, PlacesListed

\* What removing files in one pass does: the slots of their instances, what
\* releasing them one after the other comes to, and the vectors that are left.
SlotsUnder(x, uris) == UNION {{t} \X PlacesOf(x.map[t], uris) : t \in Types}
Bulk(x) == [bulk |-> TRUE, map |-> x.map, baseUris |-> x.baseUris]
KeptOf(x, uris) == [t \in Types |-> EntriesAt(x.map[t], PlacesOf(x.map[t], Files \ uris))]
BulkRemoved(x, uris, released, y) ==
  /\ IsFiniteSet(SlotsUnder(x, uris))
  /\ released = WalkOver(SlotsUnder(x, uris), Bulk(x), x)[SlotsUnder(x, uris)]
  /\ y = [f \in IndexFields |-> y[f]]
  /\ y.map = KeptOf(x, uris)
  /\ y.positions = [u \in Files |-> [t \in Types |-> InOrder(PlacesOf(KeptOf(x, uris)[t], {u}))]]
  /\ y.baseUris = x.baseUris \ uris
  /\ y.refs = released.refs /\ y.nameCounts = released.nameCounts
LEMMA FilesRemoved ==
  ASSUME NEW x, IndexTyped(x), NEW uris, uris # {}, NEW y, y = RemoveFiles(x, uris)
  PROVE  \E released : BulkRemoved(x, uris, released, y)
<1> DEFINE how == [bulk |-> TRUE, map |-> x.map, baseUris |-> x.baseUris]
           gone == UNION {{t} \X PlacesOf(x.map[t], uris) : t \in Types}
           released == WalkOver(gone, how, x)[gone]
           kept == [t \in Types |-> EntriesAt(x.map[t], PlacesOf(x.map[t], Files \ uris))]
           positions == [u \in Files |-> [t \in Types |-> InOrder(PlacesOf(kept[t], {u}))]]
<1>1. released = MapThenFoldSet(LAMBDA s, i : ReleaseAt(i, s[1], s[2], x.map[s[1]][s[2]].uri \in x.baseUris),
                                x, LAMBDA s : s, LAMBDA slots : CHOOSE s \in slots : TRUE, gone)
  BY DEF MapThenFoldSet, WalkOver, IsWalk, TakenLast, Step
<1>2. y = [released EXCEPT !.map = [t \in Types |-> EntriesAt(x.map[t], PlacesOf(x.map[t], Files \ uris))],
                           !.positions = [u \in Files |-> [t \in Types |-> InOrder(PlacesOf(kept[t], {u}))]],
                           !.baseUris = @ \ uris]
  <2> HIDE DEF released, gone
  <2> QED
    BY <1>1, Zenon DEF RemoveFiles, gone
<1>3. IsFiniteSet(gone)
  <2>0. x.map \in [Types -> Seq(Instances)]
    BY DEF IndexTyped
  <2>1. ASSUME NEW t \in Types PROVE IsFiniteSet({t} \X PlacesOf(x.map[t], uris))
    <3> DEFINE P == PlacesOf(x.map[t], uris)
    <3>1. IsFiniteSet(P)
      BY <2>0, PlacesListed
    <3> HIDE DEF P
    <3>2. IsFiniteSet({t}) /\ IsFiniteSet({t} \X P)
      BY <3>1, FS_Singleton, FS_Product
    <3> QED
      BY <3>2 DEF P
  <2>2. IsFiniteSet(Types)
    BY TypeIndexAssumption
  <2> DEFINE F == [t \in Types |-> {t} \X PlacesOf(x.map[t], uris)]
             A == {F[t] : t \in Types}
  <2>3. A = {{t} \X PlacesOf(x.map[t], uris) : t \in Types}
    OBVIOUS
  <2>4. F \in Surjection(Types, A)
    BY DEF Surjection
  <2>5. IsFiniteSet(A)
    <3> HIDE DEF F, A
    <3> QED
      BY <2>2, <2>4, FS_Surjection
  <2>6. \A a \in A : IsFiniteSet(a)
    BY <2>1
  <2>7. IsFiniteSet(UNION A)
    <3> HIDE DEF A
    <3> QED
      BY <2>5, <2>6, FS_UNION
  <2> QED
    BY <2>3, <2>7
<1> HIDE DEF gone
<1>4. IndexTyped(released) /\ released.baseUris = x.baseUris
  <2>1. how.bulk
    OBVIOUS
  <2> HIDE DEF how
  <2> QED
    BY <1>3, <2>1, ReleasesMoveNothing
<1>5. /\ y = [f \in IndexFields |-> y[f]]
      /\ y.map = kept /\ y.positions = positions /\ y.baseUris = x.baseUris \ uris
      /\ y.refs = released.refs /\ y.nameCounts = released.nameCounts
  <2>1. y = [released EXCEPT !.map = kept, !.positions = positions, !.baseUris = @ \ uris]
    BY <1>2
  <2> HIDE DEF released, kept, positions
  <2> QED
    BY <1>4, <2>1 DEF IndexTyped, IndexFields
<1>6. gone = SlotsUnder(x, uris) /\ how = Bulk(x) /\ kept = KeptOf(x, uris)
      /\ positions = [u \in Files |-> [t \in Types |-> InOrder(PlacesOf(kept[t], {u}))]]
      /\ released = WalkOver(gone, how, x)[gone]
  BY DEF gone, SlotsUnder, Bulk, KeptOf
<1> HIDE DEF released, kept, positions, how
<1> QED
  BY <1>3, <1>5, <1>6 DEF BulkRemoved

\* Removing files in one pass leaves no instance of theirs, and every other
\* instance is recorded where it stands.
LEMMA RemoveFilesPlaces ==
  ASSUME NEW x, IndexTyped(x), AllPlaced(x), NEW uris, NEW y, y = RemoveFiles(x, uris)
  PROVE  IndexTyped(y) /\ AllPlaced(y) /\ y.baseUris = x.baseUris \ uris
<1>1. CASE uris = {}
  <2>1. y = x
    BY <1>1 DEF RemoveFiles
  <2> QED
    BY <1>1, <2>1
<1>2. CASE uris # {}
  <2>1. PICK released : BulkRemoved(x, uris, released, y)
    BY <1>2, FilesRemoved
  <2> DEFINE kept == KeptOf(x, uris)
             positions == [u \in Files |-> [t \in Types |-> InOrder(PlacesOf(kept[t], {u}))]]
  <2>2. /\ y = [f \in IndexFields |-> y[f]]
        /\ y.map = kept /\ y.positions = positions /\ y.baseUris = x.baseUris \ uris
    BY <2>1 DEF BulkRemoved
  <2>3. x.map \in [Types -> Seq(Instances)]
    BY DEF IndexTyped
  <2>4. ASSUME NEW u \in Files, NEW t \in Types
        PROVE  kept[t] \in Seq(Instances) /\ Lists(positions[u][t], kept[t], {u})
    <3> DEFINE v == x.map[t]
               z == EntriesAt(v, PlacesOf(v, Files \ uris))
               q == InOrder(PlacesOf(z, {u}))
    <3>1. v \in Seq(Instances)
      BY <2>3
    <3>2. kept[t] = z
      BY DEF KeptOf
    <3>3. positions[u][t] = q
      <4> HIDE DEF kept, z
      <4> QED
        BY <3>2
    <3> HIDE DEF v, kept, positions
    <3>4. z \in Seq(Instances) /\ Lists(q, z, {u})
      BY <3>1, KeptPlaces
    <3> HIDE DEF z, q
    <3> QED
      BY <3>2, <3>3, <3>4
  <2>5. positions \in [Files -> [Types -> Seq(Nat)]]
    <3>1. \A u \in Files, t \in Types : InOrder(PlacesOf(kept[t], {u})) \in Seq(Nat)
      <4> TAKE u \in Files, t \in Types
      <4> HIDE DEF kept
      <4> QED
        BY <2>4 DEF Lists
    <3> HIDE DEF kept
    <3> QED
      BY <3>1
  <2>6. kept \in [Types -> Seq(Instances)]
    <3>1. \A t \in Types : EntriesAt(x.map[t], PlacesOf(x.map[t], Files \ uris)) \in Seq(Instances)
      <4> TAKE t \in Types
      <4>1. PlacesOf(x.map[t], Files \ uris) \in SUBSET DOMAIN x.map[t]
        BY DEF PlacesOf
      <4> QED
        BY <2>3, <4>1, EntriesType
    <3> QED
      BY <3>1 DEF KeptOf
  <2> HIDE DEF kept, positions
  <2>7. IndexTyped(y)
    BY <2>2, <2>5, <2>6 DEF IndexTyped
  <2>8. ASSUME NEW u \in Files, NEW t \in Types PROVE Placed(y, u, t)
    <3> DEFINE z == kept[t]
               q == positions[u][t]
    <3>1. y.map[t] = z /\ y.positions[u][t] = q
      BY <2>2
    <3>2. Lists(q, z, {u})
      BY <2>4
    <3> HIDE DEF z, q
    <3> QED
      BY <3>1, <3>2 DEF Placed, Lists
  <2> QED
    BY <2>2, <2>7, <2>8 DEF AllPlaced
<1> QED
  BY <1>1, <1>2

-----------------------------------------------------------------------------
(* Counting                                                                *)

\* What stands in a sequence over a set is in the set.
LEMMA MemberOfSeq ==
  ASSUME NEW S, NEW s \in Seq(S), NEW e \in ToSet(s)
  PROVE  e \in S
<1>1. PICK k \in DOMAIN s : s[k] = e
  BY DEF ToSet
<1>2. k \in 1..Len(s)
  OBVIOUS
<1>3. s[k] \in S
  BY <1>2
<1> QED
  BY <1>1, <1>3

\* A set that differs from a finite one in one element at most.
LEMMA OneElement ==
  ASSUME NEW S, IsFiniteSet(S), NEW u, u \notin S, NEW T, T \ {u} = S
  PROVE  /\ Cardinality(S) \in Nat
         /\ IsFiniteSet(T)
         /\ Cardinality(T) = Cardinality(S) + IF u \in T THEN 1 ELSE 0
<1>1. Cardinality(S) \in Nat
  BY FS_CardinalityType
<1>2. IsFiniteSet(S \cup {u}) /\ Cardinality(S \cup {u}) = Cardinality(S) + 1
  BY FS_AddElement
<1>3. CASE u \in T
  <2>1. T = S \cup {u}
    BY <1>3
  <2> QED
    BY <1>1, <1>2, <1>3, <2>1
<1>4. CASE u \notin T
  <2>1. T = S
    BY <1>4
  <2> QED
    BY <1>1, <1>4, <2>1
<1> QED
  BY <1>3, <1>4

\* Indices paired with a file are as many as the indices.
LEMMA PairWithFile ==
  ASSUME NEW u, NEW I, IsFiniteSet(I)
  PROVE  IsFiniteSet({u} \X I) /\ Cardinality({u} \X I) = Cardinality(I)
<1> DEFINE f == [k \in I |-> <<u, k>>]
<1>1. f \in Bijection(I, {u} \X I)
  BY DEF Bijection, Injection, Surjection, IsInjective
<1>2. ExistsBijection(I, {u} \X I)
  BY <1>1 DEF ExistsBijection
<1> QED
  BY <1>2, FS_Bijection

\* The occurrences of a value in a sequence are finitely many.
LEMMA OccurrencesType ==
  ASSUME NEW V, NEW s \in Seq(V), NEW x
  PROVE  /\ IsFiniteSet({k \in DOMAIN s : s[k] = x})
         /\ Occurrences(s, x) \in Nat
<1>1. DOMAIN s = 1..Len(s) /\ Len(s) \in Nat
  OBVIOUS
<1>2. IsFiniteSet(DOMAIN s)
  BY <1>1, FS_Interval
<1>3. {k \in DOMAIN s : s[k] = x} \in SUBSET DOMAIN s
  OBVIOUS
<1>4. IsFiniteSet({k \in DOMAIN s : s[k] = x})
  BY <1>2, <1>3, FS_Subset
<1> QED
  BY <1>4, FS_CardinalityType DEF Occurrences

\* What one file more makes of the counts of x.
PlacesDiffer(g, h, s, x) ==
  /\ IsFiniteSet(Places(g, x)) /\ IsFiniteSet(Places(h, x))
  /\ Cardinality(Places(g, x)) \in Nat /\ Occurrences(s, x) \in Nat
  /\ Cardinality(Places(h, x)) = Cardinality(Places(g, x)) + Occurrences(s, x)
HoldersDiffer(g, h, names, x) ==
  /\ Cardinality(Holders(g, x)) \in Nat
  /\ Cardinality(Holders(h, x)) = Cardinality(Holders(g, x)) + IF x \in names THEN 1 ELSE 0

\* Between a state where a file defines nothing and one where it defines a
\* sequence, every symbol gains the places it has in the sequence.
LEMMA PlacesChange ==
  ASSUME NEW V, NEW g \in [Files -> Seq(V)], NEW h \in [Files -> Seq(V)], NEW u \in Files, NEW x,
         g[u] = <<>>, \A w \in Files \ {u} : g[w] = h[w], NEW s, h[u] = s,
         IsFiniteSet(Places(g, x)) \/ IsFiniteSet(Places(h, x))
  PROVE  PlacesDiffer(g, h, s, x)
<1> DEFINE I == {k \in DOMAIN h[u] : h[u][k] = x}
           P == {u} \X I
<1>0. h[u] \in Seq(V)
  OBVIOUS
<1>1. IsFiniteSet(I) /\ Occurrences(h[u], x) = Cardinality(I) /\ Cardinality(I) \in Nat
  BY <1>0, OccurrencesType DEF Occurrences
<1>2. IsFiniteSet(P) /\ Cardinality(P) = Cardinality(I)
  BY <1>1, PairWithFile
<1>3. Places(h, x) = Places(g, x) \cup P /\ Places(g, x) \cap P = {}
  <2>1. \A p : p \in Places(h, x) <=> \E w \in Files : p \in {w} \X {k \in DOMAIN h[w] : h[w][k] = x}
    BY DEF Places
  <2>2. \A p : p \in Places(g, x) <=> \E w \in Files : p \in {w} \X {k \in DOMAIN g[w] : g[w][k] = x}
    BY DEF Places
  <2>3. {k \in DOMAIN g[u] : g[u][k] = x} = {}
    OBVIOUS
  <2>4. ASSUME NEW p \in Places(h, x) PROVE p \in Places(g, x) \cup P
    <3>1. PICK w \in Files : p \in {w} \X {k \in DOMAIN h[w] : h[w][k] = x}
      BY <2>1, <2>4
    <3>2. CASE w = u
      BY <3>1, <3>2
    <3>3. CASE w # u
      BY <3>1, <3>3, <2>2
    <3> QED
      BY <3>2, <3>3
  <2>5. ASSUME NEW p \in Places(g, x) PROVE p \in Places(h, x) /\ p \notin P
    <3>1. PICK w \in Files : p \in {w} \X {k \in DOMAIN g[w] : g[w][k] = x}
      BY <2>2, <2>5
    <3>2. w # u
      BY <3>1, <2>3
    <3> QED
      BY <3>1, <3>2, <2>1
  <2>6. ASSUME NEW p \in P PROVE p \in Places(h, x)
    BY <2>6, <2>1
  <2> QED
    BY <2>4, <2>5, <2>6
<1> HIDE DEF P, I
<1>4. IsFiniteSet(Places(g, x))
  <2>1. Places(g, x) \in SUBSET Places(h, x)
    BY <1>3
  <2> QED
    BY <2>1, FS_Subset
<1>5. /\ IsFiniteSet(Places(g, x) \cup P)
      /\ Cardinality(Places(g, x) \cup P) =
           Cardinality(Places(g, x)) + Cardinality(P) - Cardinality(Places(g, x) \cap P)
  BY <1>2, <1>4, FS_Union
<1>6. Cardinality(Places(g, x) \cap P) = 0
  BY <1>3, FS_EmptySet
<1>7. Cardinality(Places(g, x)) \in Nat
  BY <1>4, FS_CardinalityType
<1> QED
  BY <1>1, <1>2, <1>3, <1>4, <1>5, <1>6, <1>7 DEF PlacesDiffer

\* The same for symbols a file holds once.
LEMMA HoldersChange ==
  ASSUME NEW g, NEW h, NEW u \in Files, NEW x,
         \A w \in Files \ {u} : g[w] = h[w], g[u] = {}, NEW names, h[u] = names
  PROVE  HoldersDiffer(g, h, names, x)
<1>1. IsFiniteSet(Holders(g, x))
  BY TypeIndexAssumption, FS_Subset DEF Holders
<1>2. u \notin Holders(g, x) /\ Holders(h, x) \ {u} = Holders(g, x)
  BY DEF Holders
<1>3. u \in Holders(h, x) <=> x \in h[u]
  BY DEF Holders
<1> HIDE DEF Holders
<1> QED
  BY <1>1, <1>2, <1>3, OneElement DEF HoldersDiffer

-----------------------------------------------------------------------------
(* The inductive invariant: the service is a record of its fields, each of *)
(* its shape, every count is exact and counts finitely many places.        *)

Fields == {"files", "types", "variables", "canonical", "baseVariables", "targets", "scripts",
           "values", "valuesOf", "refs", "refTypes", "effects", "keys"}
FileInfo == {NoFile} \cup [text : Texts, rules : Rulesets, effects : Rulesets, keys : Rulesets]

ShapeOf(i) ==
  /\ i = [f \in Fields |-> i[f]]
  /\ i.files \in [Files -> FileInfo]
  /\ i.variables \in [Symbols -> Nat] /\ i.canonical \in [Symbols -> Nat]
  /\ i.targets \in [Symbols -> Nat] /\ i.scripts \in [Symbols -> Nat]
  /\ i.values \in [Symbols -> Nat]
  /\ i.effects \in Rulesets /\ i.keys \in Rulesets \cup {NoKeys}

FiniteIn(i) == \A x \in Symbols :
  /\ IsFiniteSet(Places(VariablesIn(i), x))
  /\ IsFiniteSet(Places(CanonicalIn(i), x))
  /\ IsFiniteSet(Places(ValuesIn(i), x))

Good(i) ==
  /\ ShapeOf(i)
  /\ i.valuesOf = ValuesIn(i)
  /\ FiniteIn(i)
  /\ CountsExactIn(i)

\* What a file defines is a sequence, whichever kind is asked.
LEMMA ContributionType ==
  ASSUME NEW file \in FileInfo
  PROVE  /\ VariableNames(ContributionOf(file)) \in Seq(Symbols)
         /\ CanonicalNames(ContributionOf(file)) \in Seq(Symbols \cup {NoName})
         /\ ContributionOf(file).values \in Seq(Symbols)
<1> DEFINE V == [ns : STRING, name : Symbols]
<1>1. ContributionOf(file).variables \in Seq(V) /\ ContributionOf(file).values \in Seq(Symbols)
  <2>1. CASE file = NoFile
    BY <2>1 DEF ContributionOf, Nothing
  <2>2. CASE file # NoFile
    <3>1. file.text \in Texts /\ file.rules \in Rulesets /\ file.effects \in Rulesets
      BY <2>2 DEF FileInfo
    <3>2. /\ Content[file.text][file.rules].variables \in Seq(V)
          /\ EffectVars[file.text][file.effects] \in Seq(V)
          /\ Content[file.text][file.rules].values \in Seq(Symbols)
      BY <3>1, InfoIndexAssumption
    <3> HIDE DEF V
    <3>3. Content[file.text][file.rules].variables \o EffectVars[file.text][file.effects] \in Seq(V)
      BY <3>2
    <3> QED
      BY <2>2, <3>2, <3>3 DEF ContributionOf
  <2> QED
    BY <2>1, <2>2
<1> DEFINE c == ContributionOf(file)
<1>2. /\ Len(c.variables) \in Nat /\ DOMAIN c.variables = 1..Len(c.variables)
      /\ \A k \in DOMAIN c.variables : c.variables[k] \in V
  <2> HIDE DEF V, c
  <2>1. c.variables \in Seq(V)
    BY <1>1 DEF c
  <2> QED
    BY <2>1
<1>3. \A k \in DOMAIN c.variables : c.variables[k].name \in Symbols
  <2> HIDE DEF c
  <2> QED
    BY <1>2
<1>4. Normal \in [Symbols -> Symbols \cup {NoName}]
  BY InfoIndexAssumption
<1> HIDE DEF c, V
<1>5. VariableNames(c) \in [1..Len(c.variables) -> Symbols]
  BY <1>2, <1>3 DEF VariableNames
<1>6. CanonicalNames(c) \in [1..Len(c.variables) -> Symbols \cup {NoName}]
  BY <1>2, <1>3, <1>4 DEF CanonicalNames
<1>7. VariableNames(c) \in Seq(Symbols) /\ CanonicalNames(c) \in Seq(Symbols \cup {NoName})
  BY <1>2, <1>5, <1>6
<1> QED
  BY <1>1, <1>7 DEF c

\* The maps of what the files define have the shapes the counting lemmas need.
LEMMA DefinedType ==
  ASSUME NEW i, i.files \in [Files -> FileInfo]
  PROVE  /\ VariablesIn(i) \in [Files -> Seq(Symbols)]
         /\ CanonicalIn(i) \in [Files -> Seq(Symbols \cup {NoName})]
         /\ ValuesIn(i) \in [Files -> Seq(Symbols)]
BY ContributionType DEF VariablesIn, CanonicalIn, ValuesIn

\* A file that is not indexed defines nothing.
LEMMA NothingDefined ==
  /\ VariableNames(ContributionOf(NoFile)) = <<>>
  /\ CanonicalNames(ContributionOf(NoFile)) = <<>>
  /\ ContributionOf(NoFile).values = <<>>
  /\ ContributionOf(NoFile).targets = {}
  /\ ContributionOf(NoFile).scripts = {}
BY DEF ContributionOf, Nothing, VariableNames, CanonicalNames

CountsDiffer(e, f, c, x) ==
  /\ HoldersDiffer(TargetsIn(e), TargetsIn(f), c.targets, x)
  /\ HoldersDiffer(ScriptsIn(e), ScriptsIn(f), c.scripts, x)
  /\ PlacesDiffer(VariablesIn(e), VariablesIn(f), VariableNames(c), x)
  /\ PlacesDiffer(CanonicalIn(e), CanonicalIn(f), CanonicalNames(c), x)
  /\ PlacesDiffer(ValuesIn(e), ValuesIn(f), c.values, x)

\* Two states of the service that differ in one file, which only the second
\* has indexed, differ in the counts by what that file defines.
LEMMA OneFileCounts ==
  ASSUME NEW e, NEW f, NEW u \in Files, NEW x \in Symbols,
         e.files \in [Files -> FileInfo], f.files \in [Files -> FileInfo],
         e.files[u] = NoFile, \A w \in Files \ {u} : e.files[w] = f.files[w],
         FiniteIn(e) \/ FiniteIn(f)
  PROVE  CountsDiffer(e, f, ContributionOf(f.files[u]), x)
<1>Targets. HoldersDiffer(TargetsIn(e), TargetsIn(f), ContributionOf(f.files[u]).targets, x)
  <2>1. TargetsIn(e)[u] = {} /\ TargetsIn(f)[u] = ContributionOf(f.files[u]).targets
    BY NothingDefined DEF TargetsIn
  <2>2. \A w \in Files \ {u} : TargetsIn(e)[w] = TargetsIn(f)[w]
    BY DEF TargetsIn
  <2> QED
    BY <2>1, <2>2, HoldersChange, Zenon
<1>Scripts. HoldersDiffer(ScriptsIn(e), ScriptsIn(f), ContributionOf(f.files[u]).scripts, x)
  <2>1. ScriptsIn(e)[u] = {} /\ ScriptsIn(f)[u] = ContributionOf(f.files[u]).scripts
    BY NothingDefined DEF ScriptsIn
  <2>2. \A w \in Files \ {u} : ScriptsIn(e)[w] = ScriptsIn(f)[w]
    BY DEF ScriptsIn
  <2> QED
    BY <2>1, <2>2, HoldersChange, Zenon
<1>Variables. ASSUME IsFiniteSet(Places(VariablesIn(e), x)) \/ IsFiniteSet(Places(VariablesIn(f), x))
      PROVE  PlacesDiffer(VariablesIn(e), VariablesIn(f), VariableNames(ContributionOf(f.files[u])), x)
  <2>1. VariablesIn(e) \in [Files -> Seq(Symbols)] /\ VariablesIn(f) \in [Files -> Seq(Symbols)]
    BY DefinedType
  <2>2. VariablesIn(e)[u] = <<>> /\ VariablesIn(f)[u] = VariableNames(ContributionOf(f.files[u]))
    BY NothingDefined DEF VariablesIn
  <2>3. \A w \in Files \ {u} : VariablesIn(e)[w] = VariablesIn(f)[w]
    BY DEF VariablesIn
  <2> QED
    BY <1>Variables, <2>1, <2>2, <2>3, PlacesChange, Zenon
<1>Canonical. ASSUME IsFiniteSet(Places(CanonicalIn(e), x)) \/ IsFiniteSet(Places(CanonicalIn(f), x))
      PROVE  PlacesDiffer(CanonicalIn(e), CanonicalIn(f), CanonicalNames(ContributionOf(f.files[u])), x)
  <2>1. CanonicalIn(e) \in [Files -> Seq(Symbols \cup {NoName})] /\ CanonicalIn(f) \in [Files -> Seq(Symbols \cup {NoName})]
    BY DefinedType
  <2>2. CanonicalIn(e)[u] = <<>> /\ CanonicalIn(f)[u] = CanonicalNames(ContributionOf(f.files[u]))
    BY NothingDefined DEF CanonicalIn
  <2>3. \A w \in Files \ {u} : CanonicalIn(e)[w] = CanonicalIn(f)[w]
    BY DEF CanonicalIn
  <2> QED
    BY <1>Canonical, <2>1, <2>2, <2>3, PlacesChange, Zenon
<1>Values. ASSUME IsFiniteSet(Places(ValuesIn(e), x)) \/ IsFiniteSet(Places(ValuesIn(f), x))
      PROVE  PlacesDiffer(ValuesIn(e), ValuesIn(f), ContributionOf(f.files[u]).values, x)
  <2>1. ValuesIn(e) \in [Files -> Seq(Symbols)] /\ ValuesIn(f) \in [Files -> Seq(Symbols)]
    BY DefinedType
  <2>2. ValuesIn(e)[u] = <<>> /\ ValuesIn(f)[u] = ContributionOf(f.files[u]).values
    BY NothingDefined DEF ValuesIn
  <2>3. \A w \in Files \ {u} : ValuesIn(e)[w] = ValuesIn(f)[w]
    BY DEF ValuesIn
  <2> QED
    BY <1>Values, <2>1, <2>2, <2>3, PlacesChange, Zenon
<1> QED
  BY <1>Targets, <1>Scripts, <1>Variables, <1>Canonical, <1>Values DEF CountsDiffer, FiniteIn

\* The fields that clearing an indexed file changes, and those it keeps.
LEMMA ClearedFields ==
  ASSUME NEW i, ShapeOf(i), NEW u \in Files, i.files[u] # NoFile
  PROVE  LET j == ClearFile(i, u)
             c == ContributionOf(i.files[u])
         IN /\ j = [f \in Fields |-> j[f]]
            /\ j.files = [i.files EXCEPT ![u] = NoFile]
            /\ j.targets = DropOnce(i.targets, c.targets)
            /\ j.scripts = DropOnce(i.scripts, c.scripts)
            /\ j.variables = Drop(i.variables, VariableNames(c))
            /\ j.canonical = Drop(i.canonical, CanonicalNames(c))
            /\ j.values = Drop(i.values, i.valuesOf[u])
            /\ j.valuesOf = [i.valuesOf EXCEPT ![u] = <<>>]
            /\ j.effects = i.effects /\ j.keys = i.keys
<1> DEFINE a == RemoveValues(i, u)
           b == [a EXCEPT !.types = RemoveFile(@, u)]
           d == RemoveRefs(b, u)
<1>1. /\ a = [f \in Fields |-> a[f]]
      /\ a.values = Drop(i.values, i.valuesOf[u]) /\ a.valuesOf = [i.valuesOf EXCEPT ![u] = <<>>]
      /\ \A f \in Fields \ {"values", "valuesOf"} : a[f] = i[f]
  BY Zenon DEF RemoveValues, ShapeOf, Fields
<1> HIDE DEF a
<1>2. /\ b = [f \in Fields |-> b[f]]
      /\ \A f \in Fields \ {"types"} : b[f] = a[f]
  BY <1>1 DEF Fields
<1> HIDE DEF b
<1>3. /\ d = [f \in Fields |-> d[f]]
      /\ \A f \in Fields \ {"refs", "refTypes"} : d[f] = b[f]
  BY <1>2, Zenon DEF RemoveRefs, Fields
<1> HIDE DEF d
<1> DEFINE c == ContributionOf(i.files[u])
<1>4. ClearFile(i, u) = [d EXCEPT
                !.files[u] = NoFile,
                !.targets = DropOnce(@, c.targets),
                !.variables = Drop(@, VariableNames(c)),
                !.canonical = Drop(@, CanonicalNames(c)),
                !.scripts = DropOnce(@, c.scripts)]
  BY DEF ClearFile, a, b, d
<1> HIDE DEF c
<1> DEFINE j == ClearFile(i, u)
<1>5. /\ j = [f \in Fields |-> j[f]]
      /\ j.files = [d.files EXCEPT ![u] = NoFile]
      /\ j.targets = DropOnce(d.targets, c.targets)
      /\ j.scripts = DropOnce(d.scripts, c.scripts)
      /\ j.variables = Drop(d.variables, VariableNames(c))
      /\ j.canonical = Drop(d.canonical, CanonicalNames(c))
      /\ \A f \in {"values", "valuesOf", "effects", "keys"} : j[f] = d[f]
  BY <1>3, <1>4 DEF Fields
<1> HIDE DEF j
<1>6. /\ d.files = i.files /\ d.targets = i.targets /\ d.scripts = i.scripts
      /\ d.variables = i.variables /\ d.canonical = i.canonical
      /\ d.effects = i.effects /\ d.keys = i.keys
      /\ d.values = a.values /\ d.valuesOf = a.valuesOf
  BY <1>1, <1>2, <1>3 DEF Fields
<1> QED
  BY <1>1, <1>5, <1>6 DEF c, j

-----------------------------------------------------------------------------
\* The counts of a record of counts and the finiteness of what they count.
ExactAt(i, x) ==
  /\ i.targets[x] = Cardinality(Holders(TargetsIn(i), x)) /\ i.targets[x] \in Nat
  /\ i.scripts[x] = Cardinality(Holders(ScriptsIn(i), x)) /\ i.scripts[x] \in Nat
  /\ i.variables[x] = Cardinality(Places(VariablesIn(i), x)) /\ i.variables[x] \in Nat
  /\ i.canonical[x] = Cardinality(Places(CanonicalIn(i), x)) /\ i.canonical[x] \in Nat
  /\ i.values[x] = Cardinality(Places(ValuesIn(i), x)) /\ i.values[x] \in Nat

\* The step from f to e takes c back, or the step from e to f adds it.
Taken(e, f, c, x) ==
  /\ e.targets[x] = f.targets[x] - IF x \in c.targets THEN 1 ELSE 0
  /\ e.scripts[x] = f.scripts[x] - IF x \in c.scripts THEN 1 ELSE 0
  /\ e.variables[x] = f.variables[x] - Occurrences(VariableNames(c), x)
  /\ e.canonical[x] = f.canonical[x] - Occurrences(CanonicalNames(c), x)
  /\ e.values[x] = f.values[x] - Occurrences(c.values, x)
Added(e, f, c, x) ==
  /\ f.targets[x] = e.targets[x] + IF x \in c.targets THEN 1 ELSE 0
  /\ f.scripts[x] = e.scripts[x] + IF x \in c.scripts THEN 1 ELSE 0
  /\ f.variables[x] = e.variables[x] + Occurrences(VariableNames(c), x)
  /\ f.canonical[x] = e.canonical[x] + Occurrences(CanonicalNames(c), x)
  /\ f.values[x] = e.values[x] + Occurrences(c.values, x)

\* Taking back from exact counts what a file contributed leaves exact counts.
LEMMA TakenExact ==
  ASSUME NEW e, NEW f, NEW c, NEW x, CountsDiffer(e, f, c, x), ExactAt(f, x), Taken(e, f, c, x)
  PROVE  ExactAt(e, x)
BY DEF CountsDiffer, HoldersDiffer, PlacesDiffer, ExactAt, Taken

\* Adding to exact counts what a file contributes leaves exact counts.
LEMMA AddedExact ==
  ASSUME NEW e, NEW f, NEW c, NEW x, CountsDiffer(e, f, c, x), ExactAt(e, x), Added(e, f, c, x)
  PROVE  ExactAt(f, x)
BY DEF CountsDiffer, HoldersDiffer, PlacesDiffer, ExactAt, Added

\* The invariant, count by count.
LEMMA GoodParts ==
  ASSUME NEW i
  PROVE  /\ Good(i) => /\ ShapeOf(i) /\ i.valuesOf = ValuesIn(i) /\ FiniteIn(i)
                       /\ \A x \in Symbols : ExactAt(i, x)
         /\ /\ ShapeOf(i) /\ i.valuesOf = ValuesIn(i) /\ FiniteIn(i)
            /\ \A x \in Symbols : ExactAt(i, x)
            => Good(i)
BY DEF Good, ExactAt, CountsExactIn, ShapeOf

\* Clearing a file keeps the invariant and leaves the file unindexed.
LEMMA ClearKeeps ==
  ASSUME NEW i, Good(i), NEW u \in Files, NEW j, j = ClearFile(i, u)
  PROVE  Good(j) /\ j.files[u] = NoFile
<1>1. CASE i.files[u] = NoFile
  BY <1>1 DEF ClearFile
<1>2. CASE i.files[u] # NoFile
  <2> DEFINE c == ContributionOf(i.files[u])
  <2>0. ShapeOf(i) /\ i.valuesOf = ValuesIn(i) /\ FiniteIn(i) /\ \A x \in Symbols : ExactAt(i, x)
    BY GoodParts
  <2>1. /\ j = [f \in Fields |-> j[f]]
        /\ j.files = [i.files EXCEPT ![u] = NoFile]
        /\ j.targets = DropOnce(i.targets, c.targets)
        /\ j.scripts = DropOnce(i.scripts, c.scripts)
        /\ j.variables = Drop(i.variables, VariableNames(c))
        /\ j.canonical = Drop(i.canonical, CanonicalNames(c))
        /\ j.values = Drop(i.values, i.valuesOf[u])
        /\ j.valuesOf = [i.valuesOf EXCEPT ![u] = <<>>]
        /\ j.effects = i.effects /\ j.keys = i.keys
    BY <1>2, <2>0, ClearedFields
  <2>2. /\ i.files \in [Files -> FileInfo] /\ j.files \in [Files -> FileInfo] /\ j.files[u] = NoFile
        /\ \A w \in Files \ {u} : j.files[w] = i.files[w]
    BY <2>0, <2>1 DEF ShapeOf, FileInfo
  <2>3. i.valuesOf[u] = c.values
    BY <2>0 DEF ValuesIn
  <2> HIDE DEF c
  <2>4. /\ i.targets \in [Symbols -> Nat] /\ i.scripts \in [Symbols -> Nat]
        /\ i.variables \in [Symbols -> Nat] /\ i.canonical \in [Symbols -> Nat]
        /\ i.values \in [Symbols -> Nat]
    BY <2>0 DEF ShapeOf
  <2>5. ASSUME NEW x \in Symbols
        PROVE  CountsDiffer(j, i, c, x) /\ ExactAt(j, x)
    <3>1. CountsDiffer(j, i, c, x)
      BY <2>0, <2>2, OneFileCounts DEF c
    <3>2. Taken(j, i, c, x)
      BY <2>1, <2>3, <2>4 DEF Taken, Drop, DropOnce
    <3>3. ExactAt(i, x)
      BY <2>0
    <3> QED
      BY <3>1, <3>2, <3>3, TakenExact
  <2>6. FiniteIn(j)
    BY <2>5 DEF FiniteIn, CountsDiffer, PlacesDiffer
  <2>7. j.valuesOf = ValuesIn(j)
    <3>1. ValuesIn(j) = [ValuesIn(i) EXCEPT ![u] = <<>>]
      BY <2>2, NothingDefined DEF ValuesIn
    <3> QED
      BY <2>0, <2>1, <3>1
  <2>8. ShapeOf(j)
    <3>1. /\ DOMAIN j.targets = Symbols /\ j.targets = [x \in Symbols |-> j.targets[x]]
          /\ j.scripts = [x \in Symbols |-> j.scripts[x]]
          /\ j.variables = [x \in Symbols |-> j.variables[x]]
          /\ j.canonical = [x \in Symbols |-> j.canonical[x]]
          /\ j.values = [x \in Symbols |-> j.values[x]]
      BY <2>1, <2>4 DEF Drop, DropOnce
    <3>2. \A x \in Symbols : /\ j.targets[x] \in Nat /\ j.scripts[x] \in Nat /\ j.variables[x] \in Nat
                             /\ j.canonical[x] \in Nat /\ j.values[x] \in Nat
      BY <2>5 DEF ExactAt
    <3>3. /\ j.targets \in [Symbols -> Nat] /\ j.scripts \in [Symbols -> Nat]
          /\ j.variables \in [Symbols -> Nat] /\ j.canonical \in [Symbols -> Nat]
          /\ j.values \in [Symbols -> Nat]
      BY <3>1, <3>2
    <3> QED
      BY <2>0, <2>1, <2>2, <3>3 DEF ShapeOf
  <2>9. \A x \in Symbols : ExactAt(j, x)
    BY <2>5
  <2> QED
    BY <2>2, <2>6, <2>7, <2>8, <2>9, GoodParts
<1> QED
  BY <1>1, <1>2

\* What indexing a file that is not in the index changes.
IndexedAs(i, u, j, c) ==
  /\ j = [f \in Fields |-> j[f]]
  /\ j.files[u] \in FileInfo \ {NoFile}
  /\ j.files = [i.files EXCEPT ![u] = j.files[u]]
  /\ j.targets = AddOnce(i.targets, c.targets)
  /\ j.scripts = AddOnce(i.scripts, c.scripts)
  /\ j.variables = Add(i.variables, VariableNames(c))
  /\ j.canonical = Add(i.canonical, CanonicalNames(c))
  /\ j.values = Add(Drop(i.values, <<>>), c.values)
  /\ j.valuesOf = [i.valuesOf EXCEPT ![u] = c.values]
  /\ j.effects = i.effects /\ j.keys \in Rulesets

\* The fields that indexing an unindexed file changes.
LEMMA IndexedFields ==
  ASSUME NEW i, ShapeOf(i), NEW u \in Files, i.valuesOf \in [Files -> Seq(Symbols)], i.valuesOf[u] = <<>>,
         NEW text \in Texts, NEW r \in Rulesets, NEW j, j = IndexFile(i, u, text, r),
         NEW contribution, contribution = ContributionOf(j.files[u])
  PROVE  IndexedAs(i, u, j, contribution)
<1> DEFINE keys == IF i.keys = NoKeys THEN r ELSE i.keys
           file == [text |-> text, rules |-> r, effects |-> i.effects, keys |-> keys]
           c == ContributionOf(file)
           z == RemoveValues(i, u)
           a == MergeValues(i, u, c.values)
           b == [a EXCEPT !.types = Merge(@, u, c.instances)]
           d == MergeRefs(b, u, c.uses)
<1>0. keys \in Rulesets /\ i.effects \in Rulesets
  BY DEF ShapeOf
<1>1. file \in FileInfo \ {NoFile}
  BY <1>0, InfoIndexAssumption DEF FileInfo
<1> HIDE DEF keys
<1>2. /\ z = [f \in Fields |-> z[f]]
      /\ z.values = Drop(i.values, <<>>) /\ z.valuesOf = [i.valuesOf EXCEPT ![u] = <<>>]
      /\ \A f \in Fields \ {"values", "valuesOf"} : z[f] = i[f]
  BY Zenon DEF RemoveValues, ShapeOf, Fields
<1>3. a = [z EXCEPT !.values = Add(@, c.values), !.valuesOf[u] = c.values]
  BY DEF MergeValues
<1> HIDE DEF z
<1> HIDE DEF c
<1> HIDE DEF a
<1>4. /\ a = [f \in Fields |-> a[f]]
      /\ a.values = Add(z.values, c.values) /\ a.valuesOf = [z.valuesOf EXCEPT ![u] = c.values]
      /\ \A f \in Fields \ {"values", "valuesOf"} : a[f] = z[f]
  BY <1>2, <1>3, Zenon DEF Fields
<1>5. /\ b = [f \in Fields |-> b[f]]
      /\ \A f \in Fields \ {"types"} : b[f] = a[f]
  BY <1>4, Zenon DEF Fields
<1> HIDE DEF b
<1>6. /\ d = [f \in Fields |-> d[f]]
      /\ \A f \in Fields \ {"refs", "refTypes"} : d[f] = b[f]
  BY <1>5, ZenonT(60) DEF MergeRefs, Fields
<1> HIDE DEF d, file
<1>7. j = [d EXCEPT
            !.files[u] = file,
            !.keys = keys,
            !.targets = AddOnce(@, c.targets),
            !.variables = Add(@, VariableNames(c)),
            !.canonical = Add(@, CanonicalNames(c)),
            !.scripts = AddOnce(@, c.scripts)]
  BY DEF IndexFile, a, b, c, d, file, keys
<1>8. /\ j = [f \in Fields |-> j[f]]
      /\ j.files = [d.files EXCEPT ![u] = file]
      /\ j.keys = keys
      /\ j.targets = AddOnce(d.targets, c.targets)
      /\ j.scripts = AddOnce(d.scripts, c.scripts)
      /\ j.variables = Add(d.variables, VariableNames(c))
      /\ j.canonical = Add(d.canonical, CanonicalNames(c))
      /\ \A f \in {"values", "valuesOf", "effects"} : j[f] = d[f]
  BY <1>6, <1>7 DEF Fields
<1>9. /\ d.files = i.files /\ d.targets = i.targets /\ d.scripts = i.scripts
      /\ d.variables = i.variables /\ d.canonical = i.canonical /\ d.effects = i.effects
      /\ d.values = Add(z.values, c.values) /\ d.valuesOf = [z.valuesOf EXCEPT ![u] = c.values]
  <2> DEFINE kept == {"files", "targets", "scripts", "variables", "canonical", "effects"}
  <2>1. kept \subseteq Fields \ {"types", "values", "valuesOf", "refs", "refTypes"}
    BY DEF Fields
  <2>2. {"values", "valuesOf"} \subseteq Fields \ {"types", "refs", "refTypes"}
    BY DEF Fields
  <2>3. ASSUME NEW f \in kept PROVE d[f] = i[f]
    <3>1. f \in Fields \ {"types", "values", "valuesOf", "refs", "refTypes"}
      BY <2>1
    <3>2. d[f] = b[f] /\ b[f] = a[f] /\ a[f] = z[f] /\ z[f] = i[f]
      BY <1>2, <1>4, <1>5, <1>6, <3>1
    <3> QED
      BY <3>2
  <2>4. ASSUME NEW f \in {"values", "valuesOf"} PROVE d[f] = a[f]
    <3>1. d[f] = b[f] /\ b[f] = a[f]
      BY <1>5, <1>6, <2>2
    <3> QED
      BY <3>1
  <2>5. d.values = a.values /\ d.valuesOf = a.valuesOf
    BY <2>4
  <2>6. /\ d.files = i.files /\ d.targets = i.targets /\ d.scripts = i.scripts
        /\ d.variables = i.variables /\ d.canonical = i.canonical /\ d.effects = i.effects
    BY <2>3
  <2> QED
    BY <1>4, <2>5, <2>6
<1>10. j.files[u] = file /\ j.files = [i.files EXCEPT ![u] = j.files[u]]
  BY <1>8, <1>9 DEF ShapeOf
<1>11. j.valuesOf = [i.valuesOf EXCEPT ![u] = c.values] /\ j.values = Add(Drop(i.values, <<>>), c.values)
  BY <1>2, <1>8, <1>9
<1>12. c = contribution
  BY <1>10 DEF c
<1> QED
  BY <1>0, <1>1, <1>8, <1>9, <1>10, <1>11, <1>12 DEF IndexedAs

\* Indexing a file that is not in the index keeps the invariant.
LEMMA IndexKeeps ==
  ASSUME NEW i, Good(i), NEW u \in Files, i.files[u] = NoFile,
         NEW text \in Texts, NEW r \in Rulesets, NEW j, j = IndexFile(i, u, text, r)
  PROVE  Good(j)
<1> DEFINE c == ContributionOf(j.files[u])
<1>0. ShapeOf(i) /\ i.valuesOf = ValuesIn(i) /\ FiniteIn(i) /\ \A x \in Symbols : ExactAt(i, x)
  BY GoodParts
<1>1. i.files \in [Files -> FileInfo]
  BY <1>0 DEF ShapeOf
<1>2. i.valuesOf \in [Files -> Seq(Symbols)] /\ i.valuesOf[u] = <<>>
  <2>1. i.valuesOf[u] = <<>>
    BY <1>0, NothingDefined DEF ValuesIn
  <2> QED
    BY <1>0, <1>1, <2>1, DefinedType
<1>3. /\ j = [f \in Fields |-> j[f]]
      /\ j.files[u] \in FileInfo \ {NoFile}
      /\ j.files = [i.files EXCEPT ![u] = j.files[u]]
      /\ j.targets = AddOnce(i.targets, c.targets)
      /\ j.scripts = AddOnce(i.scripts, c.scripts)
      /\ j.variables = Add(i.variables, VariableNames(c))
      /\ j.canonical = Add(i.canonical, CanonicalNames(c))
      /\ j.values = Add(Drop(i.values, <<>>), c.values)
      /\ j.valuesOf = [i.valuesOf EXCEPT ![u] = c.values]
      /\ j.effects = i.effects /\ j.keys \in Rulesets
  <2>1. c = ContributionOf(j.files[u])
    BY DEF c
  <2> HIDE DEF c
  <2>2. IndexedAs(i, u, j, c)
    BY <1>0, <1>2, <2>1, IndexedFields
  <2> QED
    BY <2>2 DEF IndexedAs
<1>4. /\ j.files \in [Files -> FileInfo]
      /\ \A w \in Files \ {u} : i.files[w] = j.files[w]
  BY <1>1, <1>3
<1> HIDE DEF c
<1>5. /\ i.targets \in [Symbols -> Nat] /\ i.scripts \in [Symbols -> Nat]
      /\ i.variables \in [Symbols -> Nat] /\ i.canonical \in [Symbols -> Nat]
      /\ i.values \in [Symbols -> Nat]
  BY <1>0 DEF ShapeOf
<1>6. ASSUME NEW x \in Symbols
      PROVE  CountsDiffer(i, j, c, x) /\ ExactAt(j, x)
  <2>1. CountsDiffer(i, j, c, x)
    BY <1>0, <1>1, <1>4, OneFileCounts DEF c
  <2>2. Occurrences(<<>>, x) = 0
    <3>1. {k \in DOMAIN <<>> : <<>>[k] = x} = {}
      OBVIOUS
    <3> QED
      BY <3>1, FS_EmptySet DEF Occurrences
  <2>3. Added(i, j, c, x)
    <3>1. /\ j.targets[x] = i.targets[x] + IF x \in c.targets THEN 1 ELSE 0
          /\ j.scripts[x] = i.scripts[x] + IF x \in c.scripts THEN 1 ELSE 0
      BY <1>3, <1>5 DEF AddOnce
    <3>2. /\ j.variables[x] = i.variables[x] + Occurrences(VariableNames(c), x)
          /\ j.canonical[x] = i.canonical[x] + Occurrences(CanonicalNames(c), x)
      BY <1>3, <1>5 DEF Add
    <3>3. /\ DOMAIN Drop(i.values, <<>>) = Symbols
          /\ Drop(i.values, <<>>)[x] = i.values[x]
      BY <1>5, <2>2 DEF Drop
    <3>4. j.values[x] = i.values[x] + Occurrences(c.values, x)
      BY <1>3, <3>3 DEF Add
    <3> QED
      BY <3>1, <3>2, <3>4 DEF Added
  <2>4. ExactAt(i, x)
    BY <1>0
  <2> QED
    BY <2>1, <2>3, <2>4, AddedExact
<1>7. FiniteIn(j)
  BY <1>6 DEF FiniteIn, CountsDiffer, PlacesDiffer
<1>8. j.valuesOf = ValuesIn(j)
  <2>1. ValuesIn(j) = [ValuesIn(i) EXCEPT ![u] = c.values]
    BY <1>4 DEF ValuesIn, c
  <2> QED
    BY <1>0, <1>3, <2>1
<1>9. ShapeOf(j)
  <2>1. /\ j.targets = [x \in Symbols |-> j.targets[x]]
        /\ j.scripts = [x \in Symbols |-> j.scripts[x]]
        /\ j.variables = [x \in Symbols |-> j.variables[x]]
        /\ j.canonical = [x \in Symbols |-> j.canonical[x]]
        /\ j.values = [x \in Symbols |-> j.values[x]]
    BY <1>3, <1>5 DEF Drop, Add, AddOnce
  <2>2. \A x \in Symbols : /\ j.targets[x] \in Nat /\ j.scripts[x] \in Nat /\ j.variables[x] \in Nat
                           /\ j.canonical[x] \in Nat /\ j.values[x] \in Nat
    BY <1>6 DEF ExactAt
  <2>3. /\ j.targets \in [Symbols -> Nat] /\ j.scripts \in [Symbols -> Nat]
        /\ j.variables \in [Symbols -> Nat] /\ j.canonical \in [Symbols -> Nat]
        /\ j.values \in [Symbols -> Nat]
    BY <2>1, <2>2
  <2> QED
    BY <1>0, <1>3, <1>4, <2>3 DEF ShapeOf
<1>10. \A x \in Symbols : ExactAt(j, x)
  BY <1>6
<1> QED
  BY <1>7, <1>8, <1>9, <1>10, GoodParts

\* Replacing fields that no count depends on keeps the invariant.
LEMMA OtherFieldsKeep ==
  ASSUME NEW i, Good(i), NEW j,
         j = [f \in Fields |-> j[f]],
         \A f \in Fields \ {"types", "baseVariables", "effects", "keys"} : j[f] = i[f],
         j.effects \in Rulesets, j.keys \in Rulesets \cup {NoKeys}
  PROVE  Good(j)
<1>1. /\ j.files = i.files /\ j.variables = i.variables /\ j.canonical = i.canonical
      /\ j.targets = i.targets /\ j.scripts = i.scripts /\ j.values = i.values
      /\ j.valuesOf = i.valuesOf
  BY DEF Fields
<1>2. /\ VariablesIn(j) = VariablesIn(i) /\ CanonicalIn(j) = CanonicalIn(i) /\ ValuesIn(j) = ValuesIn(i)
      /\ TargetsIn(j) = TargetsIn(i) /\ ScriptsIn(j) = ScriptsIn(i)
  BY <1>1 DEF VariablesIn, CanonicalIn, ValuesIn, TargetsIn, ScriptsIn
<1>3. ShapeOf(j)
  BY <1>1 DEF Good, ShapeOf
<1> QED
  BY <1>1, <1>2, <1>3 DEF Good, FiniteIn, CountsExactIn

-----------------------------------------------------------------------------
(* The invariant of the specification                                      *)

IInv ==
  /\ Good(info)
  /\ rules \in Rulesets /\ reloads \in 0..MaxReloads
  /\ baseUris \subseteq BaseFiles
  /\ job \in [Indexers -> {Idle} \cup [uri : Workspace, text : Texts, rules : Rulesets]]

\* An empty service counts nothing.
LEMMA EmptyGood ==
  ASSUME NEW r \in Rulesets, NEW i, i = UpdateRulesetData(EmptyInfo, r)
  PROVE  Good(i)
<1>1. /\ i = [f \in Fields |-> i[f]]
      /\ i.files = [u \in Files |-> NoFile] /\ i.valuesOf = [u \in Files |-> <<>>]
      /\ i.targets = ZeroCounts /\ i.scripts = ZeroCounts /\ i.variables = ZeroCounts
      /\ i.canonical = ZeroCounts /\ i.values = ZeroCounts
      /\ i.effects = r /\ i.keys = NoKeys
  BY DEF UpdateRulesetData, EmptyInfo, Fields
<1>2. ShapeOf(i)
  BY <1>1 DEF ShapeOf, ZeroCounts, FileInfo
<1>3. /\ VariablesIn(i) = [u \in Files |-> <<>>] /\ CanonicalIn(i) = [u \in Files |-> <<>>]
      /\ ValuesIn(i) = [u \in Files |-> <<>>]
      /\ TargetsIn(i) = [u \in Files |-> {}] /\ ScriptsIn(i) = [u \in Files |-> {}]
  BY <1>1, NothingDefined DEF VariablesIn, CanonicalIn, ValuesIn, TargetsIn, ScriptsIn
<1>4. \A x : Places([u \in Files |-> <<>>], x) = {} /\ Holders([u \in Files |-> {}], x) = {}
  BY DEF Places, Holders
<1>5. IsFiniteSet({}) /\ Cardinality({}) = 0
  BY FS_EmptySet
<1>6. FiniteIn(i)
  <2>1. ASSUME NEW x \in Symbols
        PROVE  Places(VariablesIn(i), x) = {} /\ Places(CanonicalIn(i), x) = {} /\ Places(ValuesIn(i), x) = {}
    BY <1>3, <1>4
  <2> QED
    BY <1>5, <2>1 DEF FiniteIn
<1>7. CountsExactIn(i)
  <2>1. ASSUME NEW x \in Symbols
        PROVE  /\ Holders(TargetsIn(i), x) = {} /\ Holders(ScriptsIn(i), x) = {}
               /\ Places(VariablesIn(i), x) = {} /\ Places(CanonicalIn(i), x) = {} /\ Places(ValuesIn(i), x) = {}
    BY <1>3, <1>4
  <2>2. ASSUME NEW x \in Symbols PROVE ZeroCounts[x] = 0
    BY DEF ZeroCounts
  <2> QED
    BY <1>1, <1>5, <2>1, <2>2 DEF CountsExactIn
<1> QED
  BY <1>1, <1>2, <1>3, <1>6, <1>7 DEF Good

\* The invariant holds at the start.
LEMMA InitInv == Init => IInv
<1> SUFFICES ASSUME Init PROVE IInv
  OBVIOUS
<1>1. Good(info)
  BY EmptyGood DEF Init
<1> QED
  BY <1>1, InfoIndexAssumption DEF Init, IInv

\* Every step keeps it.
LEMMA StepInv == IInv /\ [Next]_vars => IInv'
<1> SUFFICES ASSUME IInv, [Next]_vars PROVE IInv'
  OBVIOUS
<1>0. Good(info) /\ ShapeOf(info)
  BY DEF IInv, Good
<1>1. ASSUME NEW p \in Indexers, Install(p) PROVE IInv'
  <2> DEFINE u == job[p].uri
             cleared == ClearFile(info, u)
  <2>1. u \in Files /\ job[p].text \in Texts /\ job[p].rules \in Rulesets
    BY <1>1 DEF IInv, Install, Workspace
  <2>2. Good(cleared) /\ cleared.files[u] = NoFile
    BY <1>0, <2>1, ClearKeeps
  <2>3. info' = IndexFile(cleared, u, job[p].text, job[p].rules)
    BY <1>1 DEF Install
  <2> HIDE DEF cleared, u
  <2>4. Good(info')
    BY <2>1, <2>2, <2>3, IndexKeeps
  <2> QED
    BY <1>1, <2>4 DEF IInv, Install
<1>2. ASSUME NEW p \in Indexers, Overtaken(p) PROVE IInv'
  BY <1>2 DEF IInv, Overtaken
<1>3. ASSUME NEW p \in Indexers, NEW u \in Workspace, NEW text \in Texts, Collect(p, u, text) PROVE IInv'
  BY <1>3 DEF IInv, Collect
<1>4. ASSUME NEW u \in Workspace, Forget(u) PROVE IInv'
  <2>1. Good(info')
    BY <1>0, <1>4, ClearKeeps DEF Forget, Workspace
  <2> QED
    BY <1>4, <2>1 DEF IInv, Forget
<1>5. ASSUME NEW r \in Rulesets, SetRuleset(r) PROVE IInv'
  <2>1. info' = [info EXCEPT !.effects = r, !.keys = NoKeys]
    BY <1>5 DEF SetRuleset, UpdateRulesetData
  <2>2. /\ info' = [f \in Fields |-> info'[f]]
        /\ \A f \in Fields \ {"types", "baseVariables", "effects", "keys"} : info'[f] = info[f]
        /\ info'.effects = r /\ info'.keys = NoKeys
    BY <1>0, <2>1, Zenon DEF ShapeOf, Fields
  <2>3. Good(info')
    BY <1>0, <2>2, OtherFieldsKeep
  <2> QED
    BY <1>5, <2>3, InfoIndexAssumption DEF IInv, SetRuleset
<1>6. ASSUME NEW game \in BaseGame, MergeVanilla(game) PROVE IInv'
  <2>1. info' = [info EXCEPT !.types = MergeBaseGame(RemoveFiles(@, baseUris), game.instances)]
    BY <1>6 DEF MergeVanilla
  <2>2. /\ info' = [f \in Fields |-> info'[f]]
        /\ \A f \in Fields \ {"types", "baseVariables", "effects", "keys"} : info'[f] = info[f]
        /\ info'.effects = info.effects /\ info'.keys = info.keys
    BY <1>0, <2>1 DEF ShapeOf, Fields
  <2>3. Good(info')
    BY <1>0, <2>2, OtherFieldsKeep DEF ShapeOf
  <2>4. baseUris' \subseteq BaseFiles
    <3>1. \A t \in Types : game.instances[t] \in Seq([uri : BaseFiles, name : Names])
      BY InfoIndexAssumption
    <3>2. ASSUME NEW t \in Types, NEW e \in ToSet(game.instances[t]) PROVE e.uri \in BaseFiles
      <4>1. game.instances[t] \in Seq([uri : BaseFiles, name : Names])
        BY <3>1
      <4>2. e \in [uri : BaseFiles, name : Names]
        <5> DEFINE entries == game.instances[t]
        <5>1. e \in ToSet(entries) /\ entries \in Seq([uri : BaseFiles, name : Names])
          BY <3>2, <4>1
        <5> HIDE DEF entries
        <5> QED
          BY <5>1, MemberOfSeq
      <4> QED
        BY <4>2
    <3>3. baseUris' = UNION {{e.uri : e \in ToSet(game.instances[t])} : t \in Types}
      BY <1>6 DEF MergeVanilla
    <3> QED
      BY <3>2, <3>3
  <2> QED
    BY <1>6, <2>3, <2>4 DEF IInv, MergeVanilla
<1>7. ASSUME NEW S, info' = [info EXCEPT !.baseVariables = S], UNCHANGED <<rules, reloads, base, baseUris, job>>
      PROVE  IInv'
  <2>1. /\ info' = [f \in Fields |-> info'[f]]
        /\ \A f \in Fields \ {"types", "baseVariables", "effects", "keys"} : info'[f] = info[f]
        /\ info'.effects = info.effects /\ info'.keys = info.keys
    BY <1>0, <1>7 DEF ShapeOf, Fields
  <2>2. Good(info')
    BY <1>0, <2>1, OtherFieldsKeep DEF ShapeOf
  <2> QED
    BY <1>7, <2>2 DEF IInv
<1>8. ASSUME NEW game \in BaseGame, SetVanillaNames(game) PROVE IInv'
  BY <1>7, <1>8 DEF SetVanillaNames
<1>9. CASE ClearVanillaState
  BY <1>7, <1>9 DEF ClearVanillaState
<1>10. CASE UNCHANGED vars
  BY <1>10 DEF vars, IInv
<1> QED
  BY <1>1, <1>2, <1>3, <1>4, <1>5, <1>6, <1>8, <1>9, <1>10 DEF Next

\* In every reachable state the invariant holds.
LEMMA Invariance == Spec => []IInv
BY InitInv, StepInv, PTL DEF Spec

\* TypeOK: the service, its file records and its counts keep their shapes,
\* and no count of clear_file goes below zero.
THEOREM TypeCorrect == Spec => []TypeOK
<1>1. IInv => TypeOK
  <2> SUFFICES ASSUME IInv PROVE TypeOK
    OBVIOUS
  <2>1. ShapeOf(info) /\ info.valuesOf = ValuesIn(info)
    BY DEF IInv, Good
  <2>2. info.valuesOf \in [Files -> Seq(Symbols)]
    BY <2>1, DefinedType DEF ShapeOf
  <2> QED
    BY <2>1, <2>2 DEF IInv, TypeOK, ShapeOf, FileInfo
<1> QED
  BY <1>1, Invariance, PTL

\* CountsExact: whatever is indexed, forgotten and reloaded in whatever
\* order, the count of every shared name is the number of its definitions.
THEOREM CountsAreExact == Spec => []CountsExact
<1>1. IInv => CountsExact
  BY DEF IInv, Good, CountsExact
<1> QED
  BY <1>1, Invariance, PTL

-----------------------------------------------------------------------------
(* The index of the service                                                *)

\* What clearing an indexed file does to the parts no count is kept in.
ClearedTo(i, u, j) ==
  /\ j.types = RemoveFile(i.types, u) /\ j.baseVariables = i.baseVariables
  /\ j.refs = [t \in Types |-> IF t \in i.refTypes[u]
                               THEN EntriesAt(i.refs[t], PlacesOf(i.refs[t], Files \ {u})) ELSE i.refs[t]]
  /\ j.refTypes = [i.refTypes EXCEPT ![u] = {}]
LEMMA ClearedIndexes ==
  ASSUME NEW i, ShapeOf(i), NEW u \in Files, i.files[u] # NoFile, NEW j, j = ClearFile(i, u)
  PROVE  ClearedTo(i, u, j)
<1> DEFINE a == RemoveValues(i, u)
           b == [a EXCEPT !.types = RemoveFile(@, u)]
           d == RemoveRefs(b, u)
           c == ContributionOf(i.files[u])
           kept == {"types", "refs", "refTypes", "baseVariables"}
<1>1. /\ a = [f \in Fields |-> a[f]]
      /\ \A f \in kept : a[f] = i[f]
  BY DEF RemoveValues, ShapeOf, Fields
<1> HIDE DEF a
<1>2. /\ b = [f \in Fields |-> b[f]]
      /\ b.types = RemoveFile(a.types, u) /\ b.refs = a.refs /\ b.refTypes = a.refTypes
      /\ b.baseVariables = a.baseVariables
  BY <1>1 DEF Fields
<1> HIDE DEF b
<1>3. d = [b EXCEPT
        !.refs = [t \in Types |->
            IF t \in b.refTypes[u] THEN EntriesAt(@[t], PlacesOf(@[t], Files \ {u})) ELSE @[t]],
        !.refTypes[u] = {}]
  BY DEF RemoveRefs
<1> HIDE DEF d
<1>4. /\ d = [f \in Fields |-> d[f]]
      /\ d.types = b.types /\ d.baseVariables = b.baseVariables
      /\ d.refs = [t \in Types |-> IF t \in b.refTypes[u]
                                   THEN EntriesAt(b.refs[t], PlacesOf(b.refs[t], Files \ {u})) ELSE b.refs[t]]
      /\ d.refTypes = [b.refTypes EXCEPT ![u] = {}]
  BY <1>2, <1>3 DEF Fields
<1> HIDE DEF c
<1>5. j = [d EXCEPT
                !.files[u] = NoFile,
                !.targets = DropOnce(@, c.targets),
                !.variables = Drop(@, VariableNames(c)),
                !.canonical = Drop(@, CanonicalNames(c)),
                !.scripts = DropOnce(@, c.scripts)]
  BY DEF ClearFile, a, b, c, d
<1>6. j.types = d.types /\ j.refs = d.refs /\ j.refTypes = d.refTypes /\ j.baseVariables = d.baseVariables
  BY <1>4, <1>5 DEF Fields
<1>7. /\ a.types = i.types /\ a.refs = i.refs /\ a.refTypes = i.refTypes /\ a.baseVariables = i.baseVariables
  BY <1>1
<1> QED
  BY <1>2, <1>4, <1>6, <1>7 DEF ClearedTo

\* What a bucket of references gains from a file.
UsesOf(uses, t) == EntriesAt(uses, {k \in DOMAIN uses : uses[k].type = t})
SitesOf(u, uses, t) == [k \in DOMAIN UsesOf(uses, t) |-> [uri |-> u, name |-> UsesOf(uses, t)[k].name]]

\* What indexing a file adds to them.
IndexedTo(i, u, j, c) ==
  /\ j.types = Merge(i.types, u, c.instances) /\ j.baseVariables = i.baseVariables
  /\ j.refs = [t \in Types |-> i.refs[t] \o SitesOf(u, c.uses, t)]
  /\ j.refTypes = [i.refTypes EXCEPT ![u] = @ \cup {c.uses[k].type : k \in DOMAIN c.uses}]
LEMMA IndexedIndexes ==
  ASSUME NEW i, ShapeOf(i), NEW u \in Files, NEW text \in Texts, NEW r \in Rulesets,
         NEW j, j = IndexFile(i, u, text, r), NEW c, c = ContributionOf(j.files[u])
  PROVE  IndexedTo(i, u, j, c)
<1> DEFINE keys == IF i.keys = NoKeys THEN r ELSE i.keys
           file == [text |-> text, rules |-> r, effects |-> i.effects, keys |-> keys]
           e == ContributionOf(file)
           z == RemoveValues(i, u)
           a == MergeValues(i, u, e.values)
           b == [a EXCEPT !.types = Merge(@, u, e.instances)]
           d == MergeRefs(b, u, e.uses)
           kept == {"types", "refs", "refTypes", "baseVariables"}
<1> HIDE DEF file, keys
<1>1. /\ z = [f \in Fields |-> z[f]]
      /\ \A f \in kept : z[f] = i[f]
      /\ z.files = i.files
  BY DEF RemoveValues, ShapeOf, Fields
<1>2. a = [z EXCEPT !.values = Add(@, e.values), !.valuesOf[u] = e.values]
  BY DEF MergeValues
<1> HIDE DEF z, e, a
<1>3. /\ a = [f \in Fields |-> a[f]]
      /\ \A f \in kept : a[f] = z[f]
      /\ a.files = z.files
  BY <1>1, <1>2 DEF Fields
<1>4. /\ b = [f \in Fields |-> b[f]]
      /\ b.types = Merge(a.types, u, e.instances) /\ b.refs = a.refs /\ b.refTypes = a.refTypes
      /\ b.baseVariables = a.baseVariables /\ b.files = a.files
  BY <1>3 DEF Fields
<1> HIDE DEF b
<1>5. d = [b EXCEPT !.refs = [t \in Types |-> @[t] \o SitesOf(u, e.uses, t)],
                    !.refTypes[u] = @ \cup {e.uses[k].type : k \in DOMAIN e.uses}]
  BY DEF MergeRefs, SitesOf, UsesOf
<1> HIDE DEF d
<1>6. /\ d = [f \in Fields |-> d[f]]
      /\ d.types = b.types /\ d.baseVariables = b.baseVariables /\ d.files = b.files
      /\ d.refs = [t \in Types |-> b.refs[t] \o SitesOf(u, e.uses, t)]
      /\ d.refTypes = [b.refTypes EXCEPT ![u] = @ \cup {e.uses[k].type : k \in DOMAIN e.uses}]
  BY <1>4, <1>5 DEF Fields
<1>7. j = [d EXCEPT
            !.files[u] = file,
            !.keys = keys,
            !.targets = AddOnce(@, e.targets),
            !.variables = Add(@, VariableNames(e)),
            !.canonical = Add(@, CanonicalNames(e)),
            !.scripts = AddOnce(@, e.scripts)]
  BY DEF IndexFile, a, b, d, e, file, keys
<1>8. /\ j.types = d.types /\ j.refs = d.refs /\ j.refTypes = d.refTypes /\ j.baseVariables = d.baseVariables
      /\ j.files = [d.files EXCEPT ![u] = file]
  BY <1>6, <1>7 DEF Fields
<1>9. a.types = i.types /\ a.refs = i.refs /\ a.refTypes = i.refTypes /\ a.baseVariables = i.baseVariables
  BY <1>1, <1>3
<1>10. j.files[u] = file
  <2>1. d.files = i.files
    BY <1>1, <1>3, <1>4, <1>6
  <2>2. u \in DOMAIN i.files
    BY DEF ShapeOf
  <2> QED
    BY <1>8, <2>1, <2>2
<1>11. e = c
  BY <1>10 DEF e
<1>12. j.types = Merge(i.types, u, e.instances) /\ j.baseVariables = i.baseVariables
  BY <1>4, <1>6, <1>8, <1>9
<1>13. j.refs = [t \in Types |-> i.refs[t] \o SitesOf(u, e.uses, t)]
  BY <1>4, <1>6, <1>8, <1>9
<1>14. j.refTypes = [i.refTypes EXCEPT ![u] = @ \cup {e.uses[k].type : k \in DOMAIN e.uses}]
  BY <1>4, <1>6, <1>8, <1>9
<1> HIDE DEF file, d, b, a, z
<1> QED
  BY <1>11, <1>12, <1>13, <1>14 DEF IndexedTo

-----------------------------------------------------------------------------
(* The recorded positions                                                  *)

\* The index of a service has its shape and records every instance where it stands.
PlacedIn(i) == IndexTyped(i.types) /\ AllPlaced(i.types)

\* What a file contributes, kind by kind.
LEMMA ContributionFields ==
  ASSUME NEW file \in FileInfo, NEW c, c = ContributionOf(file)
  PROVE  /\ c.instances \in [Types -> Seq(Names)] /\ c.targets \subseteq Symbols /\ c.scripts \subseteq Symbols
         /\ c.uses \in Seq([type : Types, name : Names])
<1>1. CASE file = NoFile
  <2>1. c = Nothing
    BY <1>1 DEF ContributionOf
  <2>2. \A S : <<>> \in Seq(S)
    OBVIOUS
  <2>3. [t \in Types |-> <<>>] \in [Types -> Seq(Names)]
    BY <2>2
  <2> QED
    BY <2>1, <2>2, <2>3 DEF Nothing
<1>2. CASE file # NoFile
  <2>1. file.text \in Texts /\ file.rules \in Rulesets /\ file.keys \in Rulesets
    BY <1>2 DEF FileInfo
  <2>2. /\ c.instances = Content[file.text][file.rules].instances /\ c.targets = Content[file.text][file.rules].targets
        /\ c.scripts = Content[file.text][file.rules].scripts /\ c.uses = Uses[file.text][file.keys]
    BY <1>2 DEF ContributionOf
  <2> QED
    BY <2>1, <2>2, InfoIndexAssumption
<1> QED
  BY <1>1, <1>2

\* An instance of the base game is one of a file.
LEMMA BaseInstances ==
  ASSUME NEW game \in BaseGame
  PROVE  game.instances \in [Types -> Seq(Instances)]
<1> DEFINE V == [uri : BaseFiles, name : Names]
<1>1. game.instances \in [Types -> Seq(V)]
  BY InfoIndexAssumption
<1>2. \A e \in V : e \in Instances
  BY InfoIndexAssumption DEF Instances
<1> HIDE DEF V
<1>3. \A s \in Seq(V) : s \in Seq(Instances)
  BY <1>2
<1> QED
  BY <1>1, <1>3

\* The operations of the service keep the positions.
LEMMA ClearPlaced ==
  ASSUME NEW i, ShapeOf(i), PlacedIn(i), NEW u \in Files, NEW j, j = ClearFile(i, u)
  PROVE  PlacedIn(j)
<1>1. CASE i.files[u] = NoFile
  BY <1>1 DEF ClearFile
<1>2. CASE i.files[u] # NoFile
  <2>1. j.types = RemoveFile(i.types, u)
    <3>1. ClearedTo(i, u, j)
      BY <1>2, ClearedIndexes
    <3> QED
      BY <3>1 DEF ClearedTo
  <2>2. IndexTyped(i.types) /\ AllPlaced(i.types)
    BY DEF PlacedIn
  <2> QED
    BY <2>1, <2>2, RemoveFilePlaces DEF PlacedIn
<1> QED
  BY <1>1, <1>2

LEMMA IndexPlaced ==
  ASSUME NEW i, ShapeOf(i), PlacedIn(i), NEW u \in Files, NEW text \in Texts, NEW r \in Rulesets,
         NEW j, j = IndexFile(i, u, text, r), ShapeOf(j)
  PROVE  PlacedIn(j)
<1> DEFINE c == ContributionOf(j.files[u])
           x == i.types
           per == c.instances
<1>1. j.files[u] \in FileInfo
  BY DEF ShapeOf
<1>2. per \in [Types -> Seq(Names)]
  BY <1>1, ContributionFields
<1>3. j.types = Merge(x, u, per)
  <2>1. c = ContributionOf(j.files[u])
    OBVIOUS
  <2> HIDE DEF c
  <2>2. IndexedTo(i, u, j, c)
    BY <2>1, IndexedIndexes
  <2> QED
    BY <2>2 DEF IndexedTo
<1>4. IndexTyped(x) /\ AllPlaced(x)
  BY DEF PlacedIn
<1> HIDE DEF x, per, c
<1>5. IndexTyped(j.types) /\ AllPlaced(j.types)
  BY <1>2, <1>3, <1>4, MergePlaces DEF Merged
<1> QED
  BY <1>5 DEF PlacedIn

LEMMA EmptyPlaced == IndexTyped(EmptyIndex) /\ AllPlaced(EmptyIndex)
<1> DEFINE x == EmptyIndex
<1>1. /\ x = [f \in IndexFields |-> x[f]]
      /\ x.map = [t \in Types |-> <<>>] /\ x.positions = [u \in Files |-> [t \in Types |-> <<>>]]
  BY DEF EmptyIndex, IndexFields
<1>2. \A S : <<>> \in Seq(S)
  OBVIOUS
<1> HIDE DEF x
<1>3. x.map \in [Types -> Seq(Instances)] /\ x.positions \in [Files -> [Types -> Seq(Nat)]]
  <2>1. [t \in Types |-> <<>>] \in [Types -> Seq(Instances)] /\ [t \in Types |-> <<>>] \in [Types -> Seq(Nat)]
    BY <1>2
  <2> QED
    BY <1>1, <2>1
<1>4. ASSUME NEW u \in Files, NEW t \in Types PROVE Placed(x, u, t)
  BY <1>1 DEF Placed
<1>5. IndexTyped(x)
  BY <1>1, <1>3 DEF IndexTyped
<1> QED
  BY <1>4, <1>5 DEF AllPlaced, x

PlacesInv == PlacedIn(info)

LEMMA PlacesInit == Init => PlacesInv
<1> SUFFICES ASSUME Init PROVE PlacesInv
  OBVIOUS
<1>1. info.types = EmptyIndex
  BY DEF Init, UpdateRulesetData, EmptyInfo
<1> QED
  BY <1>1, EmptyPlaced DEF PlacedIn, PlacesInv

LEMMA PlacesStep == IInv /\ IInv' /\ PlacesInv /\ [Next]_vars => PlacesInv'
<1> SUFFICES ASSUME IInv, IInv', PlacedIn(info), [Next]_vars PROVE PlacedIn(info')
  BY DEF PlacesInv
<1>0. Good(info) /\ ShapeOf(info) /\ ShapeOf(info')
  BY DEF IInv, Good
<1>1. ASSUME NEW p \in Indexers, Install(p) PROVE PlacedIn(info')
  <2> DEFINE u == job[p].uri
             cleared == ClearFile(info, u)
  <2>1. u \in Files /\ job[p].text \in Texts /\ job[p].rules \in Rulesets
    BY <1>1 DEF IInv, Install, Workspace
  <2>2. Good(cleared)
    BY <1>0, <2>1, ClearKeeps
  <2>3. PlacedIn(cleared)
    BY <1>0, <2>1, ClearPlaced
  <2>4. info' = IndexFile(cleared, u, job[p].text, job[p].rules)
    BY <1>1 DEF Install
  <2> HIDE DEF cleared, u
  <2>5. ShapeOf(cleared)
    BY <2>2 DEF Good
  <2> QED
    BY <1>0, <2>1, <2>3, <2>4, <2>5, IndexPlaced
<1>2. ASSUME NEW u \in Workspace, Forget(u) PROVE PlacedIn(info')
  BY <1>0, <1>2, ClearPlaced DEF Forget, Workspace
<1>3. ASSUME NEW game \in BaseGame, MergeVanilla(game) PROVE PlacedIn(info')
  <2> DEFINE x == info.types
             y == RemoveFiles(x, baseUris)
             z == MergeBaseGame(y, game.instances)
  <2>1. info' = [info EXCEPT !.types = MergeBaseGame(RemoveFiles(@, baseUris), game.instances)]
    BY <1>3 DEF MergeVanilla
  <2>2. info'.types = z
    BY <1>0, <2>1 DEF ShapeOf, Fields
  <2>3. IndexTyped(x) /\ AllPlaced(x)
    BY DEF PlacedIn
  <2> HIDE DEF x
  <2>4. IndexTyped(y) /\ AllPlaced(y)
    BY <2>3, RemoveFilesPlaces
  <2>5. game.instances \in [Types -> Seq(Instances)]
    BY BaseInstances
  <2> HIDE DEF y
  <2>6. IndexTyped(z) /\ AllPlaced(z)
    BY <2>4, <2>5, MergeBaseGamePlaces DEF BaseMerged
  <2> QED
    BY <2>2, <2>6 DEF PlacedIn
<1>4. ASSUME info'.types = info.types PROVE PlacedIn(info')
  BY <1>4 DEF PlacedIn
<1>5. ASSUME NEW r \in Rulesets, SetRuleset(r) PROVE PlacedIn(info')
  <2>1. info' = [info EXCEPT !.effects = r, !.keys = NoKeys]
    BY <1>5 DEF SetRuleset, UpdateRulesetData
  <2> QED
    BY <1>0, <1>4, <2>1 DEF ShapeOf, Fields
<1>6. ASSUME NEW S, info' = [info EXCEPT !.baseVariables = S] PROVE PlacedIn(info')
  BY <1>0, <1>4, <1>6 DEF ShapeOf, Fields
<1>7. CASE (\E p \in Indexers : Overtaken(p)) \/ (\E p \in Indexers, u \in Workspace, text \in Texts : Collect(p, u, text))
           \/ UNCHANGED vars
  BY <1>4, <1>7 DEF Overtaken, Collect, vars
<1>8. ASSUME NEW game \in BaseGame, SetVanillaNames(game) PROVE PlacedIn(info')
  BY <1>6, <1>8 DEF SetVanillaNames
<1>9. CASE ClearVanillaState
  BY <1>6, <1>9 DEF ClearVanillaState
<1> QED
  BY <1>1, <1>2, <1>3, <1>5, <1>7, <1>8, <1>9 DEF Next

\* PositionsFaithful: after any order of swap removals, bulk removals and
\* additions, the positions recorded for a file in a type are those where its
\* instances stand, each once.
THEOREM PositionsFaithfulHolds == Spec => []PositionsFaithful
<1>1. PlacesInv => PositionsFaithful
  <2> SUFFICES ASSUME PlacedIn(info), NEW u \in Files, NEW t \in Types
               PROVE  LET recorded == info.types.positions[u][t]
                      IN /\ IsInjective(recorded)
                         /\ {recorded[k] : k \in DOMAIN recorded}
                              = {i \in DOMAIN info.types.map[t] : info.types.map[t][i].uri = u}
    BY SMTT(40) DEF PositionsFaithful, PlacesInv
  <2> DEFINE q == info.types.positions[u][t]
             v == info.types.map[t]
  <2>1. /\ \A a, b \in DOMAIN q : q[a] = q[b] => a = b
        /\ \A k \in DOMAIN q : q[k] \in DOMAIN v /\ v[q[k]].uri = u
        /\ \A i \in DOMAIN v : v[i].uri = u => \E k \in DOMAIN q : q[k] = i
    BY DEF PlacedIn, AllPlaced, Placed
  <2> HIDE DEF q, v
  <2>2. IsInjective(q) /\ {q[k] : k \in DOMAIN q} = {i \in DOMAIN v : v[i].uri = u}
    BY <2>1 DEF IsInjective
  <2> QED
    BY <2>2 DEF q, v
<1> QED
  BY <1>1, Invariance, PlacesInit, PlacesStep, PTL DEF Spec

-----------------------------------------------------------------------------
(* Counting the instances of a vector                                      *)

\* What an instance is known by: the type it stands in, its file and its name;
\* and the slots of the vectors whose instance is of some kind.
Tag(map, s) == <<s[1], map[s[1]][s[2]].uri, map[s[1]][s[2]].name>>
Carrying(map, kind) == {s \in Slots(map) : Tag(map, s) \in kind}

\* The kinds the counters count.
Tags == Types \X Files \X Names
Named(t, n) == {g \in Tags : g[1] = t /\ Lower[g[3]] = n}
Ours(t, n) == {g \in Named(t, n) : g[2] \notin BaseFiles}
Anywhere(n) == {g \in Tags : g[1] \notin Subtypes /\ Lower[g[3]] = n}

Vectors == [Types -> Seq(Instances)]
RefCounts == [total : Nat, workspace : Nat]

\* The counters of x are those of the vectors but for the slots S.
CountsBut(x, map, S) ==
  /\ x.refs \in [Types -> [Names -> RefCounts]] /\ x.nameCounts \in [Names -> Nat]
  /\ \A t \in Types, n \in Names :
       /\ x.refs[t][n].total = Cardinality(Carrying(map, Named(t, n)) \ S)
       /\ x.refs[t][n].workspace = Cardinality(Carrying(map, Ours(t, n)) \ S)
  /\ \A n \in Names : x.nameCounts[n] = Cardinality(Carrying(map, Anywhere(n)) \ S)

LEMMA SlotOf ==
  ASSUME NEW map
  PROVE  \A s : s \in Slots(map) <=> s = <<s[1], s[2]>> /\ s[1] \in Types /\ s[2] \in DOMAIN map[s[1]]
<1>1. \A s : s \in Slots(map) <=> \E t \in Types : s \in {t} \X DOMAIN map[t]
  BY DEF Slots
<1> QED
  BY <1>1

LEMMA SlotInstance ==
  ASSUME NEW map \in Vectors, NEW s \in Slots(map)
  PROVE  /\ s = <<s[1], s[2]>> /\ s[1] \in Types /\ s[2] \in DOMAIN map[s[1]] /\ s[2] \in Nat
         /\ map[s[1]][s[2]] \in Instances /\ Tag(map, s) \in Tags
         /\ map[s[1]][s[2]].uri \in Files /\ map[s[1]][s[2]].name \in Names
<1> DEFINE t == s[1]
           v == map[t]
<1>1. s = <<t, s[2]>> /\ t \in Types /\ s[2] \in DOMAIN v
  BY SlotOf
<1>2. v \in Seq(Instances)
  BY <1>1 DEF Vectors
<1>3. v[s[2]] \in Instances /\ s[2] \in Nat
  <2> HIDE DEF v
  <2> QED
    BY <1>1, <1>2
<1>4. v[s[2]].uri \in Files /\ v[s[2]].name \in Names
  BY <1>3 DEF Instances
<1> QED
  BY <1>1, <1>3, <1>4 DEF Tag, Tags

LEMMA SlotsFinite ==
  ASSUME NEW map \in Vectors
  PROVE  IsFiniteSet(Slots(map))
<1>1. ASSUME NEW t \in Types PROVE IsFiniteSet({t} \X DOMAIN map[t])
  <2>1. map[t] \in Seq(Instances)
    BY DEF Vectors
  <2>2. DOMAIN map[t] = 1..Len(map[t]) /\ Len(map[t]) \in Nat
    BY <2>1
  <2>3. IsFiniteSet(DOMAIN map[t])
    BY <2>2, FS_Interval
  <2> QED
    BY <2>3, FS_Singleton, FS_Product
<1> DEFINE F == [t \in Types |-> {t} \X DOMAIN map[t]]
           A == {F[t] : t \in Types}
<1>2. F \in Surjection(Types, A)
  BY DEF Surjection
<1>3. \A a \in A : IsFiniteSet(a)
  BY <1>1
<1>4. Slots(map) = UNION A
  BY DEF Slots
<1> HIDE DEF F, A
<1>5. IsFiniteSet(A)
  BY <1>2, TypeIndexAssumption, FS_Surjection
<1> QED
  BY <1>3, <1>4, <1>5, FS_UNION

\* Which slots are of which kind, and that there are finitely many.
LEMMA CarryingSlots ==
  ASSUME NEW map \in Vectors
  PROVE  /\ \A kind : IsFiniteSet(Carrying(map, kind)) /\ Carrying(map, kind) \subseteq Slots(map)
         /\ \A s \in Slots(map), t \in Types, n \in Names :
              /\ s \in Carrying(map, Named(t, n)) <=> s[1] = t /\ Lower[map[t][s[2]].name] = n
              /\ s \in Carrying(map, Ours(t, n)) <=>
                   s[1] = t /\ Lower[map[t][s[2]].name] = n /\ map[t][s[2]].uri \notin BaseFiles
              /\ s \in Carrying(map, Anywhere(n)) <=> s[1] \notin Subtypes /\ Lower[map[s[1]][s[2]].name] = n
<1>1. ASSUME NEW kind PROVE IsFiniteSet(Carrying(map, kind)) /\ Carrying(map, kind) \subseteq Slots(map)
  <2>1. Carrying(map, kind) \in SUBSET Slots(map)
    BY DEF Carrying
  <2> QED
    BY <2>1, SlotsFinite, FS_Subset
<1>2. ASSUME NEW s \in Slots(map), NEW t \in Types, NEW n \in Names
      PROVE  /\ s \in Carrying(map, Named(t, n)) <=> s[1] = t /\ Lower[map[t][s[2]].name] = n
             /\ s \in Carrying(map, Ours(t, n)) <=>
                  s[1] = t /\ Lower[map[t][s[2]].name] = n /\ map[t][s[2]].uri \notin BaseFiles
             /\ s \in Carrying(map, Anywhere(n)) <=> s[1] \notin Subtypes /\ Lower[map[s[1]][s[2]].name] = n
  <2> DEFINE g == Tag(map, s)
  <2>1. g \in Tags /\ g[1] = s[1] /\ g[2] = map[s[1]][s[2]].uri /\ g[3] = map[s[1]][s[2]].name
    BY SlotInstance DEF Tag
  <2>2. \A kind : s \in Carrying(map, kind) <=> g \in kind
    BY DEF Carrying
  <2> HIDE DEF g
  <2>3. /\ g \in Named(t, n) <=> g[1] = t /\ Lower[g[3]] = n
        /\ g \in Ours(t, n) <=> g[1] = t /\ Lower[g[3]] = n /\ g[2] \notin BaseFiles
        /\ g \in Anywhere(n) <=> g[1] \notin Subtypes /\ Lower[g[3]] = n
    BY <2>1 DEF Named, Ours, Anywhere
  <2> QED
    BY <2>1, <2>2, <2>3
<1> QED
  BY <1>1, <1>2

\* One element fewer to count.
LEMMA OneLess ==
  ASSUME NEW C, IsFiniteSet(C), NEW S, NEW s, s \notin S
  PROVE  /\ Cardinality(C \ S) \in Nat /\ Cardinality(C \ (S \cup {s})) \in Nat
         /\ s \in C => Cardinality(C \ S) = Cardinality(C \ (S \cup {s})) + 1
         /\ s \notin C => Cardinality(C \ S) = Cardinality(C \ (S \cup {s}))
<1> DEFINE D == C \ S
<1>1. D \in SUBSET C /\ C \ (S \cup {s}) = D \ {s} /\ (s \in D <=> s \in C)
  OBVIOUS
<1>2. IsFiniteSet(D)
  BY <1>1, FS_Subset
<1> HIDE DEF D
<1>3. /\ IsFiniteSet(D \ {s})
      /\ Cardinality(D \ {s}) = IF s \in D THEN Cardinality(D) - 1 ELSE Cardinality(D)
  BY <1>2, FS_RemoveElement
<1>4. Cardinality(D) \in Nat /\ Cardinality(D \ {s}) \in Nat
  BY <1>2, <1>3, FS_CardinalityType
<1> QED
  BY <1>1, <1>3, <1>4 DEF D

\* The counters of one name, with one definition of it less.
LEMMA ReleasedCounts ==
  ASSUME NEW r \in RefCounts, NEW a \in Nat, NEW b \in Nat, r.total = a + 1, b <= a, NEW isBase \in BOOLEAN,
         r.workspace = IF isBase THEN b ELSE b + 1
  PROVE  /\ ReleaseName(r, isBase) \in RefCounts
         /\ ReleaseName(r, isBase).total = a /\ ReleaseName(r, isBase).workspace = b
<1>1. CASE a = 0
  BY <1>1 DEF ReleaseName, Dec, NoRefs, RefCounts
<1>2. CASE a # 0
  <2>1. Dec(r.total) = a
    BY DEF Dec
  <2>2. ReleaseName(r, isBase) = [total |-> a, workspace |-> IF isBase THEN r.workspace ELSE Dec(r.workspace)]
    BY <1>2, <2>1 DEF ReleaseName
  <2>3. (IF isBase THEN r.workspace ELSE Dec(r.workspace)) = b
    BY DEF Dec
  <2> QED
    BY <2>2, <2>3 DEF RefCounts
<1> QED
  BY <1>1, <1>2

\* Releasing the name of an instance takes its slot from what is counted.
LEMMA Releasing ==
  ASSUME NEW x, IndexTyped(x), NEW map \in Vectors, x.map = map, NEW S, CountsBut(x, map, S),
         NEW t \in Types, NEW p \in DOMAIN map[t], <<t, p>> \notin S,
         NEW isBase \in BOOLEAN, isBase <=> map[t][p].uri \in BaseFiles,
         NEW y, y = ReleaseAt(x, t, p, isBase)
  PROVE  CountsBut(y, map, S \cup {<<t, p>>})
<1> DEFINE s == <<t, p>>
           n0 == Lower[map[t][p].name]
           S1 == S \cup {s}
           N(r, n) == Carrying(map, Named(r, n))
           O(r, n) == Carrying(map, Ours(r, n))
           A(n) == Carrying(map, Anywhere(n))
<1>1. s \in Slots(map) /\ s[1] = t /\ s[2] = p
  BY SlotOf
<1>2. n0 \in Names
  BY <1>1, SlotInstance, TypeIndexAssumption
<1> HIDE DEF n0
<1>3. y = [x EXCEPT !.nameCounts[n0] = IF t \in Subtypes THEN @ ELSE Dec(@), !.refs[t][n0] = ReleaseName(@, isBase)]
  BY DEF ReleaseAt, n0
<1> DEFINE q0 == ReleaseName(x.refs[t][n0], isBase)
           row == [x.refs[t] EXCEPT ![n0] = q0]
           less == IF t \in Subtypes THEN x.nameCounts[n0] ELSE Dec(x.nameCounts[n0])
           counts == [x.nameCounts EXCEPT ![n0] = less]
           rows == [x.refs EXCEPT ![t] = row]
<1>4. y.nameCounts = counts /\ y.refs = rows
  <2>1. y = [x EXCEPT !.nameCounts = counts, !.refs = rows]
    BY <1>3
  <2> HIDE DEF counts, rows
  <2> QED
    BY <2>1 DEF IndexTyped, IndexFields
<1>5. /\ x.refs \in [Types -> [Names -> RefCounts]] /\ x.nameCounts \in [Names -> Nat]
      /\ \A r \in Types, n \in Names :
           x.refs[r][n].total = Cardinality(N(r, n) \ S) /\ x.refs[r][n].workspace = Cardinality(O(r, n) \ S)
      /\ \A n \in Names : x.nameCounts[n] = Cardinality(A(n) \ S)
  BY DEF CountsBut
<1>6. \A r \in Types, n \in Names :
        /\ s \in N(r, n) <=> r = t /\ n = n0
        /\ s \in O(r, n) <=> r = t /\ n = n0 /\ ~isBase
        /\ s \in A(n) <=> t \notin Subtypes /\ n = n0
        /\ IsFiniteSet(N(r, n)) /\ IsFiniteSet(O(r, n)) /\ IsFiniteSet(A(n))
  BY <1>1, CarryingSlots DEF n0
<1>7. \A r \in Types, n \in Names : O(r, n) \subseteq N(r, n)
  BY DEF Carrying, Ours
<1> HIDE DEF s, N, O, A
<1>8. ASSUME NEW r \in Types, NEW n \in Names
      PROVE  /\ y.refs[r][n] \in RefCounts
             /\ y.refs[r][n].total = Cardinality(N(r, n) \ S1)
             /\ y.refs[r][n].workspace = Cardinality(O(r, n) \ S1)
  <2> DEFINE a == Cardinality(N(r, n) \ S1)
             b == Cardinality(O(r, n) \ S1)
  <2>0. s \notin S
    BY DEF s
  <2>1. /\ a \in Nat
        /\ s \in N(r, n) => Cardinality(N(r, n) \ S) = a + 1
        /\ s \notin N(r, n) => Cardinality(N(r, n) \ S) = a
    BY <1>6, <2>0, OneLess
  <2>2. /\ b \in Nat
        /\ s \in O(r, n) => Cardinality(O(r, n) \ S) = b + 1
        /\ s \notin O(r, n) => Cardinality(O(r, n) \ S) = b
    BY <1>6, <2>0, OneLess
  <2>3. b <= a
    <3>1. IsFiniteSet(N(r, n) \ S1)
      BY <1>6, FS_Difference
    <3>2. O(r, n) \ S1 \in SUBSET (N(r, n) \ S1)
      BY <1>7
    <3> QED
      BY <3>1, <3>2, FS_Subset
  <2> HIDE DEF a, b, S1
  <2>4. CASE r = t /\ n = n0
    <3> DEFINE q == x.refs[t][n0]
    <3>1. y.refs[r][n] = ReleaseName(q, isBase)
      <4>1. x.refs[t] \in [Names -> RefCounts] /\ x.refs \in [Types -> [Names -> RefCounts]]
        BY <1>5
      <4>2. rows[t] = row /\ row[n0] = q0
        BY <1>2, <4>1
      <4> HIDE DEF rows, row, q0
      <4> QED
        BY <1>4, <2>4, <4>2 DEF q0
    <3>2. q \in RefCounts /\ q.total = a + 1
      BY <1>2, <1>5, <1>6, <2>1, <2>4
    <3>3. q.workspace = IF isBase THEN b ELSE b + 1
      BY <1>2, <1>5, <1>6, <2>2, <2>4
    <3> HIDE DEF q
    <3>4. ReleaseName(q, isBase) \in RefCounts /\ ReleaseName(q, isBase).total = a /\ ReleaseName(q, isBase).workspace = b
      BY <2>1, <2>2, <2>3, <3>2, <3>3, ReleasedCounts
    <3> QED
      BY <3>1, <3>4 DEF a, b
  <2>5. CASE ~(r = t /\ n = n0)
    <3>1. y.refs[r][n] = x.refs[r][n]
      BY <1>2, <1>4, <1>5, <2>5
    <3>2. s \notin N(r, n) /\ s \notin O(r, n)
      BY <1>6, <2>5
    <3>3. x.refs[r][n] \in RefCounts
      BY <1>5
    <3> QED
      BY <1>5, <2>1, <2>2, <3>1, <3>2, <3>3 DEF a, b
  <2> QED
    BY <2>4, <2>5
<1>9. ASSUME NEW n \in Names PROVE y.nameCounts[n] \in Nat /\ y.nameCounts[n] = Cardinality(A(n) \ S1)
  <2> DEFINE a == Cardinality(A(n) \ S1)
  <2>0. s \notin S
    BY DEF s
  <2>1. /\ a \in Nat
        /\ s \in A(n) => Cardinality(A(n) \ S) = a + 1
        /\ s \notin A(n) => Cardinality(A(n) \ S) = a
    BY <1>6, <2>0, OneLess
  <2> HIDE DEF a, S1
  <2>2. CASE t \notin Subtypes /\ n = n0
    <3>1. x.nameCounts[n0] = a + 1
      BY <1>5, <1>6, <2>1, <2>2
    <3>2. y.nameCounts[n] = Dec(x.nameCounts[n0])
      BY <1>2, <1>4, <1>5, <2>2
    <3>3. Dec(x.nameCounts[n0]) = a
      BY <2>1, <3>1 DEF Dec
    <3> QED
      BY <2>1, <3>2, <3>3 DEF a
  <2>3. CASE ~(t \notin Subtypes /\ n = n0)
    <3>1. y.nameCounts[n] = x.nameCounts[n]
      BY <1>2, <1>4, <1>5, <2>3
    <3> QED
      BY <1>5, <1>6, <2>1, <2>3, <3>1 DEF a
  <2> QED
    BY <2>2, <2>3
<1>10. y.refs \in [Types -> [Names -> RefCounts]] /\ y.nameCounts \in [Names -> Nat]
  <2>1. q0 \in RefCounts /\ less \in Nat
    <3>1. x.refs[t] \in [Names -> RefCounts] /\ x.refs \in [Types -> [Names -> RefCounts]]
      BY <1>5
    <3>2. rows[t] = row /\ row[n0] = q0
      BY <1>2, <3>1
    <3>3. counts[n0] = less
      BY <1>2, <1>5
    <3> HIDE DEF rows, row, q0, counts, less
    <3> QED
      BY <1>2, <1>4, <1>8, <1>9, <3>2, <3>3
  <2> HIDE DEF q0, less
  <2>2. row \in [Names -> RefCounts]
    BY <1>5, <2>1
  <2> HIDE DEF row
  <2>3. rows \in [Types -> [Names -> RefCounts]] /\ counts \in [Names -> Nat]
    BY <1>5, <2>1, <2>2
  <2> QED
    BY <1>4, <2>3
<1> HIDE DEF S1
<1>11. CountsBut(y, map, S1)
  BY <1>8, <1>9, <1>10 DEF CountsBut, N, O, A
<1> QED
  BY <1>11 DEF S1, s

-----------------------------------------------------------------------------
(* What is counted when instances move                                     *)

\* The slots of one map of vectors are those of another but for S, in another
\* arrangement.
Rearranges(f, new, old, S) ==
  /\ f \in [Slots(new) -> Slots(old)]
  /\ \A a, b \in Slots(new) : f[a] = f[b] => a = b
  /\ \A s \in Slots(new) : f[s] \notin S /\ Tag(old, f[s]) = Tag(new, s)
  /\ \A s \in Slots(old) : s \notin S => \E a \in Slots(new) : f[a] = s

LEMMA SameNumber ==
  ASSUME NEW new \in Vectors, NEW old \in Vectors, NEW S, NEW f, Rearranges(f, new, old, S), NEW kind
  PROVE  Cardinality(Carrying(new, kind)) = Cardinality(Carrying(old, kind) \ S)
<1> DEFINE A == Carrying(new, kind)
           B == Carrying(old, kind) \ S
           h == [s \in A |-> f[s]]
<1>1. /\ \A s : s \in A <=> s \in Slots(new) /\ Tag(new, s) \in kind
      /\ \A s : s \in B <=> s \in Slots(old) /\ Tag(old, s) \in kind /\ s \notin S
  BY DEF Carrying
<1>2. IsFiniteSet(A)
  BY CarryingSlots
<1> HIDE DEF A, B
<1>3. h \in [A -> B]
  BY <1>1 DEF Rearranges
<1>4. \A a, b \in A : h[a] = h[b] => a = b
  BY <1>1 DEF Rearranges
<1>5. \A s \in B : \E a \in A : h[a] = s
  BY <1>1 DEF Rearranges
<1> HIDE DEF h
<1>6. h \in Bijection(A, B)
  BY <1>3, <1>4, <1>5 DEF Bijection, Injection, Surjection, IsInjective
<1>7. ExistsBijection(A, B)
  BY <1>6 DEF ExistsBijection
<1>8. Cardinality(B) = Cardinality(A)
  BY <1>2, <1>7, FS_Bijection
<1> QED
  BY <1>8 DEF A, B

LEMMA RearrangedCounts ==
  ASSUME NEW new \in Vectors, NEW old \in Vectors, NEW S, NEW f, Rearranges(f, new, old, S),
         NEW x, CountsBut(x, old, S), NEW y, y.refs = x.refs, y.nameCounts = x.nameCounts
  PROVE  CountsBut(y, new, {})
<1>1. \A kind : Cardinality(Carrying(new, kind) \ {}) = Cardinality(Carrying(old, kind) \ S)
  <2> TAKE kind
  <2>1. Carrying(new, kind) \ {} = Carrying(new, kind)
    OBVIOUS
  <2> QED
    BY <2>1, SameNumber
<1> QED
  BY <1>1 DEF CountsBut

\* Taking a released instance out of its vector.
LEMMA SwapCounts ==
  ASSUME NEW x, IndexTyped(x), NEW t \in Types, NEW p \in DOMAIN x.map[t],
         CountsBut(x, x.map, {<<t, p>>}), NEW y, y = SwapRemove(x, t, p)
  PROVE  CountsBut(y, y.map, {})
<1> DEFINE v == x.map[t]
           last == Len(v)
           less == Front([v EXCEPT ![p] = v[last]])
           shrunk == [x EXCEPT !.map[t] = less]
<1>0. x.map \in Vectors /\ v \in Seq(Instances) /\ last \in Nat /\ DOMAIN v = 1..last /\ p \in 1..last
  BY DEF IndexTyped, Vectors
<1>1. /\ less \in Seq(Instances) /\ DOMAIN less = 1..(last - 1)
      /\ \A i \in 1..(last - 1) : less[i] = IF i = p THEN v[last] ELSE v[i]
  <2> HIDE DEF v
  <2>1. /\ less \in Seq(Instances) /\ Len(less) = last - 1
        /\ \A i \in 1..(last - 1) : less[i] = IF i = p THEN v[last] ELSE v[i]
    BY <1>0, SwapShrinks, Zenon
  <2> HIDE DEF less
  <2> QED
    BY <2>1, SMTT(40)
<1> HIDE DEF less
<1>2. /\ shrunk = [f \in IndexFields |-> shrunk[f]]
      /\ shrunk.map = [x.map EXCEPT ![t] = less] /\ shrunk.refs = x.refs /\ shrunk.nameCounts = x.nameCounts
  BY DEF IndexTyped, IndexFields
<1>3. y.map = shrunk.map /\ y.refs = shrunk.refs /\ y.nameCounts = shrunk.nameCounts
  <2> DEFINE w == v[last].uri
  <2>1. CASE p = last
    <3>1. y = shrunk
      BY <2>1 DEF SwapRemove, less
    <3> QED
      BY <3>1
  <2>2. CASE p # last
    <3>1. y = [shrunk EXCEPT !.positions[w][t] = [@ EXCEPT ![SelectInSeq(@, LAMBDA q : q = last)] = p]]
      BY <2>2, SMTT(40) DEF SwapRemove, less
    <3> HIDE DEF shrunk
    <3>2. \E q : y = [shrunk EXCEPT !.positions = q]
      BY <1>2, <3>1, Zenon DEF IndexFields
    <3> QED
      BY <1>2, <3>2 DEF IndexFields
  <2> QED
    BY <2>1, <2>2
<1> HIDE DEF shrunk
<1>4. y.map = [x.map EXCEPT ![t] = less] /\ y.refs = x.refs /\ y.nameCounts = x.nameCounts
  BY <1>2, <1>3
<1> DEFINE new == y.map
           old == x.map
<1>5. new \in Vectors
  BY <1>0, <1>1, <1>4 DEF Vectors
<1>6. /\ new[t] = less /\ old[t] = v /\ \A r \in Types \ {t} : new[r] = old[r]
  BY <1>0, <1>4 DEF Vectors
<1> HIDE DEF new, old, v, last
<1> DEFINE f == [s \in Slots(new) |-> IF s = <<t, p>> THEN <<t, last>> ELSE s]
<1>7. ASSUME NEW s \in Slots(new)
      PROVE  f[s] \in Slots(old) /\ f[s] # <<t, p>> /\ Tag(old, f[s]) = Tag(new, s)
  <2>1. s = <<s[1], s[2]>> /\ s[1] \in Types /\ s[2] \in DOMAIN new[s[1]]
    BY SlotOf
  <2>2. CASE s = <<t, p>>
    <3>1. p \in 1..(last - 1) /\ f[s] = <<t, last>>
      BY <1>1, <1>6, <2>1, <2>2
    <3>2. p # last /\ last \in 1..last /\ less[p] = v[last]
      BY <1>0, <1>1, <3>1
    <3>3. <<t, last>> \in Slots(old)
      BY <1>0, <1>6, <3>2, SlotOf
    <3>4. Tag(old, <<t, last>>) = Tag(new, s)
      BY <1>6, <2>2, <3>2 DEF Tag
    <3> QED
      BY <2>2, <3>1, <3>2, <3>3, <3>4
  <2>3. CASE s # <<t, p>>
    <3>1. f[s] = s
      BY <2>3
    <3>2. s[2] \in DOMAIN old[s[1]] /\ Tag(old, s) = Tag(new, s)
      <4>1. CASE s[1] = t
        <5>1. s[2] \in 1..(last - 1) /\ s[2] # p
          BY <1>1, <1>6, <2>1, <2>3, <4>1
        <5>2. s[2] \in 1..last /\ less[s[2]] = v[s[2]]
          BY <1>0, <1>1, <5>1
        <5> QED
          BY <1>0, <1>6, <4>1, <5>2 DEF Tag
      <4>2. CASE s[1] # t
        BY <1>6, <2>1, <4>2 DEF Tag
      <4> QED
        BY <4>1, <4>2
    <3>3. s \in Slots(old)
      BY <2>1, <3>2, SlotOf
    <3> QED
      BY <2>3, <3>1, <3>2, <3>3
  <2> QED
    BY <2>2, <2>3
<1>8. \A a, b \in Slots(new) : f[a] = f[b] => a = b
  <2>1. ~(<<t, last>> \in Slots(new))
    <3>1. ASSUME <<t, last>> \in Slots(new) PROVE FALSE
      <4>1. last \in DOMAIN new[t]
        BY <3>1, SlotOf
      <4> QED
        BY <1>0, <1>1, <1>6, <4>1
    <3> QED
      BY <3>1
  <2> QED
    BY <2>1
<1>9. ASSUME NEW s \in Slots(old), s \notin {<<t, p>>} PROVE \E a \in Slots(new) : f[a] = s
  <2>1. s = <<s[1], s[2]>> /\ s[1] \in Types /\ s[2] \in DOMAIN old[s[1]]
    BY SlotOf
  <2>2. CASE s = <<t, last>>
    <3>1. p \in 1..(last - 1)
      BY <1>0, <1>9, <2>2
    <3>2. <<t, p>> \in Slots(new)
      BY <1>1, <1>6, <3>1, SlotOf
    <3> QED
      BY <2>2, <3>2
  <2>3. CASE s # <<t, last>>
    <3>1. s[2] \in DOMAIN new[s[1]]
      <4>1. CASE s[1] = t
        <5>1. s[2] \in 1..last /\ s[2] # last
          BY <1>0, <1>6, <2>1, <2>3, <4>1
        <5> QED
          BY <1>0, <1>1, <1>6, <4>1, <5>1
      <4>2. CASE s[1] # t
        BY <1>6, <2>1, <4>2
      <4> QED
        BY <4>1, <4>2
    <3>2. s \in Slots(new)
      BY <2>1, <3>1, SlotOf
    <3> QED
      BY <1>9, <3>2
  <2> QED
    BY <2>2, <2>3
<1>10. Rearranges(f, new, old, {<<t, p>>})
  <2>1. f \in [Slots(new) -> Slots(old)]
    <3> DEFINE g(s) == IF s = <<t, p>> THEN <<t, last>> ELSE s
               F == [s \in Slots(new) |-> g(s)]
    <3>1. \A s \in Slots(new) : f[s] = g(s)
      OBVIOUS
    <3>2. \A s \in Slots(new) : g(s) \in Slots(old)
      <4> TAKE s \in Slots(new)
      <4>1. f[s] \in Slots(old)
        BY <1>7
      <4> QED
        BY <3>1, <4>1
    <3>3. f = F
      OBVIOUS
    <3> HIDE DEF g
    <3>4. F \in [Slots(new) -> Slots(old)]
      BY <3>2
    <3> HIDE DEF F, f
    <3> QED
      BY <3>3, <3>4
  <2> HIDE DEF f
  <2> QED
    BY <1>7, <1>8, <1>9, <2>1 DEF Rearranges
<1> HIDE DEF f
<1>11. CountsBut(y, new, {})
  <2>1. old \in Vectors /\ CountsBut(x, old, {<<t, p>>})
    BY <1>0 DEF old
  <2> QED
    BY <1>4, <1>5, <1>10, <2>1, RearrangedCounts
<1> QED
  BY <1>11 DEF new

\* Removing a file of the workspace keeps the counters right.
LEMMA RemoveFileCounts ==
  ASSUME NEW x, IndexTyped(x), AllPlaced(x), CountsBut(x, x.map, {}),
         NEW u \in Files, u \notin BaseFiles, u \notin x.baseUris, NEW y, y = RemoveFile(x, u)
  PROVE  CountsBut(y, y.map, {})
<1>1. PICK own, f : FileWalk(x, u, own, f)
  BY FileWalks
<1> DEFINE S == Slots(own)
           G == {s \in SUBSET S : Upper(own, s) => CountsBut(f[s], f[s].map, {})}
<1>2. CountsBut(f[{}], f[{}].map, {})
  <2>1. f[{}] = [x EXCEPT !.positions[u] = [t \in Types |-> <<>>], !.baseUris = @ \ {u}]
    BY <1>1 DEF FileWalk
  <2>2. f[{}].map = x.map /\ f[{}].refs = x.refs /\ f[{}].nameCounts = x.nameCounts
    BY <2>1 DEF IndexTyped, IndexFields
  <2> QED
    BY <2>2 DEF CountsBut
<1>3. ASSUME NEW s \in SUBSET S, s \notin G, \A r \in SUBSET s : r # s => r \in G PROVE FALSE
  <2> DEFINE g == GoesLast(own, s)
             r == s \ {g}
             z == f[r]
             t == g[1]
             p == own[t][g[2]]
             m == ReleaseAt(z, t, p, FALSE)
  <2>1. Upper(own, s) /\ ~CountsBut(f[s], f[s].map, {})
    BY <1>3
  <2>2. s # {}
    BY <1>2, <2>1
  <2>3. g \in s /\ f[s] = DropAt(z, t, p, u \in x.baseUris) /\ Upper(own, r)
    BY <1>1, <2>1, <2>2 DEF FileWalk
  <2>4. CountsBut(z, z.map, {}) /\ Reached(x, u, own, r, z)
    <3>1. r \in G /\ r \in SUBSET Slots(own)
      BY <1>3, <2>3
    <3> QED
      BY <1>1, <2>3, <3>1 DEF FileWalk
  <2>5. t \in Types /\ g[2] \in DOMAIN own[t] /\ g = <<t, g[2]>>
    <3>1. g \in Slots(own)
      BY <2>3, SMTT(40)
    <3> HIDE DEF g
    <3> QED
      BY <3>1, SlotType, <1>1 DEF FileWalk
  <2>6. p \in DOMAIN z.map[t] /\ z.map[t][p].uri = u
    <3>1. g \notin r
      OBVIOUS
    <3>2. p \in Left(own, r, t)
      <4> HIDE DEF g, r
      <4> QED
        BY <2>5, <3>1 DEF Left
    <3>3. p \in Stands(z, u, t)
      <4> HIDE DEF p, g, r, z
      <4> QED
        BY <2>4, <2>5, <3>2 DEF Reached
    <3> QED
      BY <3>3 DEF Stands
  <2>7. f[s] = SwapRemove(m, t, p)
    <3>1. PICK b \in BOOLEAN : b = FALSE /\ (u \in x.baseUris <=> b)
      OBVIOUS
    <3>2. (u \in x.baseUris) = b
      BY <3>1
    <3> QED
      BY <2>3, <3>1, <3>2 DEF DropAt
  <2>8. IndexTyped(z)
    BY <2>4 DEF Reached
  <2> HIDE DEF z, t, p, g, r
  <2>9. PICK b \in BOOLEAN : b = FALSE
    OBVIOUS
  <2>10. m = ReleaseAt(z, t, p, b)
    BY <2>9
  <2> HIDE DEF m
  <2>11. CountsBut(m, z.map, {<<t, p>>})
    <3> DEFINE map == z.map
    <3>1. map \in Vectors /\ z.map = map /\ CountsBut(z, map, {})
      BY <2>4, <2>8 DEF IndexTyped, Vectors
    <3>2. p \in DOMAIN map[t] /\ (b <=> map[t][p].uri \in BaseFiles)
      BY <2>6, <2>9
    <3> HIDE DEF map
    <3>3. CountsBut(m, map, {} \cup {<<t, p>>})
      BY <2>5, <2>8, <2>10, <3>1, <3>2, Releasing
    <3>4. {} \cup {<<t, p>>} = {<<t, p>>}
      OBVIOUS
    <3> QED
      BY <3>3, <3>4 DEF map
  <2>12. IndexTyped(m) /\ m.map = z.map
    BY <2>8, <2>10, ReleaseMovesNothing
  <2>13. CountsBut(f[s], f[s].map, {})
    <3>1. CountsBut(m, m.map, {<<t, p>>}) /\ p \in DOMAIN m.map[t]
      BY <2>6, <2>11, <2>12
    <3> QED
      BY <2>5, <2>7, <2>12, <3>1, SwapCounts
  <2> QED
    BY <2>1, <2>13
<1>4. IsFiniteSet(S)
  BY <1>1 DEF FileWalk
<1>5. G = SUBSET S
  <2>1. G \subseteq SUBSET S
    OBVIOUS
  <2> HIDE DEF G, S
  <2> QED
    BY <1>3, <1>4, <2>1, LeastSubset
<1> DEFINE left == f[S]
<1>6. CountsBut(left, left.map, {}) /\ Reached(x, u, own, S, left)
  <2>1. Upper(own, S)
    BY DEF Upper
  <2>2. S \in G
    BY <1>5
  <2> QED
    BY <1>1, <2>1, <2>2 DEF FileWalk
<1>7. CASE S = {}
  <2>1. y = x
    BY <1>1, <1>7, FileRemoved
  <2> QED
    BY <2>1
<1>8. CASE S # {}
  <2>1. y = [left EXCEPT !.refs = [t \in Types |-> IF t \in Emptied(own, left) THEN [n \in Names |-> NoRefs] ELSE @[t]]]
    BY <1>1, <1>8, FileRemoved
  <2> HIDE DEF left
  <2>2. IndexTyped(left)
    BY <1>6 DEF Reached
  <2>3. /\ y.map = left.map /\ y.nameCounts = left.nameCounts
        /\ y.refs = [t \in Types |-> IF t \in Emptied(own, left) THEN [n \in Names |-> NoRefs] ELSE left.refs[t]]
    BY <2>1, <2>2 DEF IndexTyped, IndexFields
  <2>4. left.refs \in [Types -> [Names -> RefCounts]]
    BY <1>6 DEF CountsBut
  <2>5. ASSUME NEW t \in Types, NEW n \in Names, t \in Emptied(own, left)
        PROVE  left.refs[t][n] = NoRefs
    <3>1. left.map[t] = <<>>
      BY <2>5 DEF Emptied
    <3>2. Carrying(left.map, Named(t, n)) = {}
      <4>1. ASSUME NEW s \in Carrying(left.map, Named(t, n)) PROVE FALSE
        <5>1. s \in Slots(left.map) /\ Tag(left.map, s) \in Named(t, n)
          BY DEF Carrying
        <5>2. s[1] = t /\ s[2] \in DOMAIN left.map[s[1]]
          BY <5>1, SlotOf DEF Named, Tag
        <5> QED
          BY <3>1, <5>2
      <4> QED
        BY <4>1
    <3>3. Carrying(left.map, Named(t, n)) \ {} = {} /\ Carrying(left.map, Ours(t, n)) \ {} = {}
      BY <3>2 DEF Carrying, Ours
    <3>4. left.refs[t][n].total = 0 /\ left.refs[t][n].workspace = 0
      <4>1. Cardinality({}) = 0
        BY FS_EmptySet
      <4>2. /\ left.refs[t][n].total = Cardinality(Carrying(left.map, Named(t, n)) \ {})
            /\ left.refs[t][n].workspace = Cardinality(Carrying(left.map, Ours(t, n)) \ {})
        BY <1>6 DEF CountsBut
      <4> QED
        BY <3>3, <4>1, <4>2
    <3>5. left.refs[t][n] \in RefCounts
      BY <2>4
    <3> QED
      BY <3>4, <3>5 DEF NoRefs, RefCounts
  <2>6. y.refs = left.refs
    <3>1. ASSUME NEW t \in Types PROVE y.refs[t] = left.refs[t]
      <4>1. CASE t \in Emptied(own, left)
        <5>1. y.refs[t] = [n \in Names |-> NoRefs]
          BY <2>3, <4>1
        <5>2. left.refs[t] = [n \in Names |-> left.refs[t][n]]
          BY <2>4
        <5>3. \A n \in Names : left.refs[t][n] = NoRefs
          BY <2>5, <4>1
        <5> QED
          BY <5>1, <5>2, <5>3
      <4>2. CASE t \notin Emptied(own, left)
        BY <2>3, <4>2
      <4> QED
        BY <4>1, <4>2
    <3>2. y.refs = [t \in Types |-> y.refs[t]] /\ left.refs = [t \in Types |-> left.refs[t]]
      BY <2>3, <2>4
    <3> QED
      BY <3>1, <3>2
  <2> QED
    BY <1>6, <2>3, <2>6 DEF CountsBut
<1> QED
  BY <1>7, <1>8

-----------------------------------------------------------------------------
(* What is counted when instances are added or dropped in bulk             *)

LEMMA TogetherCount ==
  ASSUME NEW A, IsFiniteSet(A), NEW B, IsFiniteSet(B), A \cap B = {}
  PROVE  IsFiniteSet(A \cup B) /\ Cardinality(A \cup B) = Cardinality(A) + Cardinality(B)
         /\ Cardinality(A) \in Nat /\ Cardinality(B) \in Nat
<1>1. /\ IsFiniteSet(A \cup B)
      /\ Cardinality(A \cup B) = Cardinality(A) + Cardinality(B) - Cardinality(A \cap B)
  BY FS_Union
<1>2. Cardinality(A \cap B) = 0
  BY FS_EmptySet
<1>3. Cardinality(A) \in Nat /\ Cardinality(B) \in Nat
  BY FS_CardinalityType
<1> QED
  BY <1>1, <1>2, <1>3

\* Sets a one-to-one map relates have equally many elements.
LEMMA OneToOne ==
  ASSUME NEW A, IsFiniteSet(A), NEW B, NEW h \in [A -> B], \A a, b \in A : h[a] = h[b] => a = b,
         \A b \in B : \E a \in A : h[a] = b
  PROVE  IsFiniteSet(B) /\ Cardinality(B) = Cardinality(A)
<1>1. h \in Bijection(A, B)
  BY DEF Bijection, Injection, Surjection, IsInjective
<1>2. ExistsBijection(A, B)
  BY <1>1 DEF ExistsBijection
<1> QED
  BY <1>2, FS_Bijection

\* Instances added behind those of the vectors.
LEMMA BehindCounts ==
  ASSUME NEW old \in Vectors, NEW per \in Vectors, NEW new \in Vectors,
         \A t \in Types : new[t] = old[t] \o per[t], NEW kind
  PROVE  Cardinality(Carrying(new, kind)) = Cardinality(Carrying(old, kind)) + Cardinality(Carrying(per, kind))
<1> DEFINE A == Carrying(old, kind)
           P == Carrying(per, kind)
           W == Carrying(new, kind)
           B == {s \in W : s \notin A}
           n(t) == Len(old[t])
           h == [s \in P |-> <<s[1], n(s[1]) + s[2]>>]
<1>1. /\ \A s : s \in A <=> s \in Slots(old) /\ Tag(old, s) \in kind
      /\ \A s : s \in P <=> s \in Slots(per) /\ Tag(per, s) \in kind
      /\ \A s : s \in W <=> s \in Slots(new) /\ Tag(new, s) \in kind
  BY DEF Carrying
<1>2. IsFiniteSet(A) /\ IsFiniteSet(P)
  BY CarryingSlots
<1>3. ASSUME NEW t \in Types
      PROVE  /\ n(t) \in Nat /\ DOMAIN old[t] = 1..n(t) /\ DOMAIN per[t] = 1..Len(per[t]) /\ Len(per[t]) \in Nat
             /\ DOMAIN new[t] = 1..(n(t) + Len(per[t]))
             /\ \A i \in 1..n(t) : new[t][i] = old[t][i] /\ i \in DOMAIN new[t]
             /\ \A i \in DOMAIN per[t] : new[t][n(t) + i] = per[t][i] /\ n(t) + i \in DOMAIN new[t] /\ n(t) + i \notin 1..n(t)
             /\ \A i \in DOMAIN new[t] : i \in 1..n(t) \/ \E j \in DOMAIN per[t] : i = n(t) + j
  <2> DEFINE v == old[t]
             w == per[t]
             z == new[t]
             l == Len(v)
             m == Len(w)
  <2>1. v \in Seq(Instances) /\ w \in Seq(Instances) /\ z = v \o w
    BY DEF Vectors
  <2>2. l = n(t)
    OBVIOUS
  <2> HIDE DEF v, w, z, n
  <2>3. Joined(v, w, z)
    BY <2>1, Behind
  <2>4. /\ l \in Nat /\ m \in Nat /\ DOMAIN v = 1..l /\ DOMAIN w = 1..m /\ DOMAIN z = 1..(l + m)
        /\ \A i \in 1..l : z[i] = v[i] /\ i \in 1..(l + m)
        /\ \A i \in 1..m : z[l + i] = w[i] /\ l + i \in 1..(l + m)
        /\ \A i \in 1..(l + m) : i \in 1..l \/ \E j \in 1..m : i = l + j
    BY <2>3 DEF Joined
  <2> HIDE DEF l, m
  <2>5. \A i \in 1..m : l + i \notin 1..l
    BY <2>4
  <2> QED
    BY <2>2, <2>4, <2>5 DEF v, w, z, m
<1> HIDE DEF A, P, W, n
<1>4. ASSUME NEW s \in A PROVE s \in W
  <2>1. s = <<s[1], s[2]>> /\ s[1] \in Types /\ s[2] \in DOMAIN old[s[1]] /\ Tag(old, s) \in kind
    BY <1>1, SlotOf
  <2>2. s[2] \in DOMAIN new[s[1]] /\ new[s[1]][s[2]] = old[s[1]][s[2]]
    BY <1>3, <2>1
  <2>3. s \in Slots(new)
    BY <2>1, <2>2, SlotOf
  <2>4. Tag(new, s) = Tag(old, s)
    BY <2>2 DEF Tag
  <2> QED
    BY <1>1, <2>1, <2>3, <2>4
<1>5. ASSUME NEW s \in P
      PROVE  /\ <<s[1], n(s[1]) + s[2]>> \in B
             /\ s = <<s[1], s[2]>> /\ s[1] \in Types /\ s[2] \in Nat
  <2> DEFINE t == s[1]
             i == s[2]
             r == <<t, n(t) + i>>
  <2>1. s = <<t, i>> /\ t \in Types /\ i \in DOMAIN per[t] /\ Tag(per, s) \in kind
    BY <1>1, SlotOf
  <2>2. /\ new[t][n(t) + i] = per[t][i] /\ n(t) + i \in DOMAIN new[t] /\ n(t) + i \notin DOMAIN old[t] /\ i \in Nat
    BY <1>3, <2>1
  <2>3. r[1] = t /\ r[2] = n(t) + i
    OBVIOUS
  <2>4. Tag(new, r) = Tag(per, s)
    BY <2>2, <2>3 DEF Tag
  <2> HIDE DEF t, i
  <2>5. r \in Slots(new) /\ r \notin Slots(old)
    BY <2>1, <2>2, <2>3, SlotOf
  <2>6. r \in W /\ r \notin A
    BY <1>1, <2>1, <2>4, <2>5
  <2> QED
    BY <2>1, <2>2, <2>6 DEF t, i
<1>6. h \in [P -> B]
  <2>1. \A s \in P : <<s[1], n(s[1]) + s[2]>> \in B
    BY <1>5
  <2> HIDE DEF B
  <2> QED
    BY <2>1
<1>7. \A a, b \in P : h[a] = h[b] => a = b
  <2> TAKE a \in P, b \in P
  <2> HAVE h[a] = h[b]
  <2>1. a[1] = b[1] /\ n(a[1]) + a[2] = n(a[1]) + b[2]
    OBVIOUS
  <2>2. a = <<a[1], a[2]>> /\ b = <<b[1], b[2]>> /\ a[2] \in Nat /\ b[2] \in Nat /\ a[1] \in Types
    BY <1>5
  <2>3. n(a[1]) \in Nat
    BY <1>3, <2>2
  <2>4. a[2] = b[2]
    BY <2>1, <2>2, <2>3
  <2> QED
    BY <2>1, <2>2, <2>4
<1>8. ASSUME NEW r \in B PROVE \E s \in P : h[s] = r
  <2> DEFINE t == r[1]
             i == r[2]
  <2>1. r \in Slots(new) /\ Tag(new, r) \in kind /\ r \notin A
    BY <1>1
  <2>2. r = <<t, i>> /\ t \in Types /\ i \in DOMAIN new[t]
    BY <2>1, SlotOf
  <2>3. i \notin DOMAIN old[t]
    <3>1. SUFFICES ASSUME i \in DOMAIN old[t] PROVE FALSE
      OBVIOUS
    <3>2. new[t][i] = old[t][i]
      BY <1>3, <2>2, <3>1
    <3>3. r \in Slots(old) /\ Tag(old, r) = Tag(new, r)
      BY <2>2, <3>1, <3>2, SlotOf DEF Tag
    <3> QED
      BY <1>1, <2>1, <3>3
  <2>4. PICK j \in DOMAIN per[t] : i = n(t) + j
    BY <1>3, <2>2, <2>3
  <2> DEFINE s == <<t, j>>
  <2>5. new[t][i] = per[t][j]
    BY <1>3, <2>2, <2>4
  <2>6. s[1] = t /\ s[2] = j
    OBVIOUS
  <2>7. s \in Slots(per) /\ Tag(per, s) = Tag(new, r)
    <3> HIDE DEF s
    <3>1. s = <<s[1], s[2]>>
      BY <2>6 DEF s
    <3>2. s \in Slots(per)
      BY <2>2, <2>6, <3>1, SlotOf
    <3> QED
      BY <2>2, <2>5, <2>6, <3>2 DEF Tag
  <2>8. s \in P
    BY <1>1, <2>1, <2>7
  <2>9. h[s] = r
    BY <2>2, <2>4, <2>8
  <2> QED
    BY <2>8, <2>9
<1>9. IsFiniteSet(B) /\ Cardinality(B) = Cardinality(P)
  <2> HIDE DEF h, B
  <2> QED
    BY <1>2, <1>6, <1>7, <1>8, OneToOne
<1>10. W = A \cup B /\ A \cap B = {}
  BY <1>4
<1> HIDE DEF B
<1>11. Cardinality(W) = Cardinality(A) + Cardinality(B)
  BY <1>2, <1>9, <1>10, TogetherCount
<1> QED
  BY <1>9, <1>11 DEF A, P, W

\* The names in vectors of instances.
NamesOf(per) == [t \in Types |-> [i \in DOMAIN per[t] |-> per[t][i].name]]

\* Adding the names of vectors to the counters adds their slots to what is counted.
LEMMA CountedCounts ==
  ASSUME NEW x, IndexTyped(x), NEW old \in Vectors, CountsBut(x, old, {}), NEW per \in Vectors, NEW new \in Vectors,
         \A t \in Types : new[t] = old[t] \o per[t],
         NEW isBase \in BOOLEAN, \A t \in Types : \A i \in DOMAIN per[t] : isBase <=> per[t][i].uri \in BaseFiles,
         NEW y, y = Counted(x, NamesOf(per), isBase)
  PROVE  CountsBut(y, new, {})
<1> DEFINE names == NamesOf(per)
           spelled(t, n) == Spelled(names[t], n)
           more(n) == Cardinality(UNION {{<<t, i>> : i \in {j \in DOMAIN names[t] : Lower[names[t][j]] = n}} : t \in Types \ Subtypes})
           N(map, t, n) == Cardinality(Carrying(map, Named(t, n)))
           O(map, t, n) == Cardinality(Carrying(map, Ours(t, n)))
           A(map, n) == Cardinality(Carrying(map, Anywhere(n)))
<1>1. /\ y.nameCounts = [n \in Names |-> x.nameCounts[n] + more(n)]
      /\ y.refs = [t \in Types |-> [n \in Names |-> AddRefs(x.refs[t][n], spelled(t, n), isBase)]]
  <2> DEFINE counts == [n \in Names |-> x.nameCounts[n] + more(n)]
             refs == [t \in Types |-> [n \in Names |-> AddRefs(x.refs[t][n], spelled(t, n), isBase)]]
  <2>1. y = [x EXCEPT !.nameCounts = counts, !.refs = refs]
    BY DEF Counted
  <2> HIDE DEF counts, refs
  <2>2. y.nameCounts = counts /\ y.refs = refs
    BY <2>1 DEF IndexTyped, IndexFields
  <2> QED
    BY <2>2 DEF counts, refs
<1>2. /\ x.refs \in [Types -> [Names -> RefCounts]] /\ x.nameCounts \in [Names -> Nat]
      /\ \A t \in Types, n \in Names : x.refs[t][n].total = N(old, t, n) /\ x.refs[t][n].workspace = O(old, t, n)
      /\ \A n \in Names : x.nameCounts[n] = A(old, n)
  <2>1. \A C : C \ {} = C
    OBVIOUS
  <2> QED
    BY <2>1 DEF CountsBut
<1>3. ASSUME NEW t \in Types PROVE DOMAIN names[t] = DOMAIN per[t] /\ \A i \in DOMAIN per[t] : names[t][i] = per[t][i].name
  BY DEF NamesOf
<1> HIDE DEF names
<1>4. \A s : s \in Slots(per) <=> s = <<s[1], s[2]>> /\ s[1] \in Types /\ s[2] \in DOMAIN per[s[1]]
  BY SlotOf
<1>5. /\ \A kind : IsFiniteSet(Carrying(per, kind)) /\ Carrying(per, kind) \subseteq Slots(per)
      /\ \A s \in Slots(per), t \in Types, n \in Names :
              /\ s \in Carrying(per, Named(t, n)) <=> s[1] = t /\ Lower[per[t][s[2]].name] = n
              /\ s \in Carrying(per, Ours(t, n)) <=>
                   s[1] = t /\ Lower[per[t][s[2]].name] = n /\ per[t][s[2]].uri \notin BaseFiles
              /\ s \in Carrying(per, Anywhere(n)) <=> s[1] \notin Subtypes /\ Lower[per[s[1]][s[2]].name] = n
  BY CarryingSlots
<1>6. ASSUME NEW t \in Types, NEW n \in Names
      PROVE  /\ spelled(t, n) = N(per, t, n) /\ N(per, t, n) \in Nat
             /\ O(per, t, n) = IF isBase THEN 0 ELSE N(per, t, n)
  <2> DEFINE I == {i \in DOMAIN names[t] : Lower[names[t][i]] = n}
             C == Carrying(per, Named(t, n))
             D == Carrying(per, Ours(t, n))
  <2>1. \A i : i \in I <=> i \in DOMAIN per[t] /\ Lower[per[t][i].name] = n
    BY <1>3
  <2>2. IsFiniteSet(C) /\ IsFiniteSet(D)
    BY <1>5
  <2>3. ASSUME NEW s PROVE s \in C <=> s \in {t} \X I
    <3>1. ASSUME s \in C PROVE s \in {t} \X I
      <4>1. s \in Slots(per)
        BY <1>5, <3>1
      <4>2. s = <<s[1], s[2]>> /\ s[2] \in DOMAIN per[s[1]] /\ s[1] = t /\ Lower[per[t][s[2]].name] = n
        BY <1>4, <1>5, <3>1, <4>1
      <4>3. s[2] \in I
        BY <2>1, <4>2
      <4> HIDE DEF I
      <4> QED
        BY <4>2, <4>3
    <3>2. ASSUME s \in {t} \X I PROVE s \in C
      <4>1. s = <<s[1], s[2]>> /\ s[1] = t /\ s[2] \in I
        <5> HIDE DEF I
        <5> QED
          BY <3>2
      <4>2. s[2] \in DOMAIN per[t] /\ Lower[per[t][s[2]].name] = n
        BY <2>1, <4>1
      <4>3. s \in Slots(per)
        BY <1>4, <4>1, <4>2
      <4> QED
        BY <1>5, <4>1, <4>2, <4>3
    <3> QED
      BY <3>1, <3>2
  <2>4. D = IF isBase THEN {} ELSE C
    <3>1. ASSUME NEW s PROVE s \in D <=> s \in C /\ ~isBase
      <4>1. s \in C \/ s \in D => s \in Slots(per)
        BY <1>5
      <4>2. ASSUME s \in Slots(per), s[1] = t PROVE isBase <=> per[t][s[2]].uri \in BaseFiles
        <5>1. s[2] \in DOMAIN per[t]
          BY <1>4, <4>2
        <5> QED
          BY <5>1
      <4> HIDE DEF C, D
      <4> QED
        BY <1>5, <4>1, <4>2 DEF C, D
    <3> HIDE DEF C, D
    <3> QED
      BY <3>1
  <2>5. C = {t} \X I
    <3> HIDE DEF C, I
    <3> QED
      BY <2>3
  <2>6. IsFiniteSet(I)
    <3>1. per[t] \in Seq(Instances)
      BY DEF Vectors
    <3>2. DOMAIN per[t] = 1..Len(per[t]) /\ Len(per[t]) \in Nat
      BY <3>1
    <3>3. IsFiniteSet(DOMAIN per[t])
      BY <3>2, FS_Interval
    <3>4. I \in SUBSET DOMAIN per[t]
      BY <2>1
    <3> HIDE DEF I
    <3> QED
      BY <3>3, <3>4, FS_Subset
  <2>7. Cardinality(I) = spelled(t, n)
    BY DEF Spelled
  <2> HIDE DEF I, C, D
  <2>8. Cardinality(C) = Cardinality(I) /\ Cardinality(C) \in Nat
    BY <2>2, <2>5, <2>6, PairWithFile, FS_CardinalityType
  <2>9. Cardinality({}) = 0
    BY FS_EmptySet
  <2> QED
    BY <2>4, <2>7, <2>8, <2>9 DEF C, D
<1>7. ASSUME NEW n \in Names PROVE more(n) = A(per, n) /\ A(per, n) \in Nat
  <2> DEFINE U == UNION {{<<t, i>> : i \in {j \in DOMAIN names[t] : Lower[names[t][j]] = n}} : t \in Types \ Subtypes}
             C == Carrying(per, Anywhere(n))
  <2>1. \A s : s \in U <=> \E t \in Types \ Subtypes : \E i \in DOMAIN names[t] : s = <<t, i>> /\ Lower[names[t][i]] = n
    OBVIOUS
  <2> HIDE DEF U
  <2>2. ASSUME NEW s \in U PROVE s \in C
    <3>1. PICK t \in Types \ Subtypes : \E i \in DOMAIN names[t] : s = <<t, i>> /\ Lower[names[t][i]] = n
      BY <2>1
    <3>2. PICK i \in DOMAIN names[t] : s = <<t, i>> /\ Lower[names[t][i]] = n
      BY <3>1
    <3>3. s[1] = t /\ s[2] = i /\ i \in DOMAIN per[t] /\ Lower[per[t][i].name] = n /\ s = <<s[1], s[2]>>
      BY <1>3, <3>2
    <3>4. s \in Slots(per)
      BY <1>4, <3>3
    <3> QED
      BY <1>5, <3>3, <3>4
  <2>3. ASSUME NEW s \in C PROVE s \in U
    <3>1. s \in Slots(per) /\ s[1] \notin Subtypes /\ Lower[per[s[1]][s[2]].name] = n
      <4>1. s \in Slots(per)
        BY <1>5
      <4>2. s[1] \in Types
        BY <1>4, <4>1
      <4> QED
        BY <1>5, <4>1, <4>2
    <3>2. s = <<s[1], s[2]>> /\ s[1] \in Types /\ s[2] \in DOMAIN per[s[1]]
      BY <1>4, <3>1
    <3>3. s[2] \in DOMAIN names[s[1]] /\ Lower[names[s[1]][s[2]]] = n
      BY <1>3, <3>1, <3>2
    <3> QED
      BY <2>1, <3>1, <3>2, <3>3
  <2>4. U = C
    <3> HIDE DEF C
    <3> QED
      BY <2>2, <2>3
  <2>5. Cardinality(C) \in Nat
    BY <1>5, FS_CardinalityType
  <2>6. more(n) = Cardinality(U)
    BY DEF U
  <2> QED
    BY <2>4, <2>5, <2>6
<1> HIDE DEF spelled, more
<1>8. \A kind : Cardinality(Carrying(new, kind)) = Cardinality(Carrying(old, kind)) + Cardinality(Carrying(per, kind))
  BY BehindCounts
<1>9. ASSUME NEW t \in Types, NEW n \in Names
      PROVE  /\ y.refs[t][n] \in RefCounts
             /\ y.refs[t][n].total = N(new, t, n) /\ y.refs[t][n].workspace = O(new, t, n)
  <2> DEFINE r == x.refs[t][n]
             a == N(per, t, n)
             b == O(per, t, n)
  <2>1. y.refs[t][n] = AddRefs(r, a, isBase)
    BY <1>1, <1>6
  <2>2. r \in RefCounts /\ r.total = N(old, t, n) /\ r.workspace = O(old, t, n)
    BY <1>2
  <2>3. a \in Nat /\ b = IF isBase THEN 0 ELSE a
    BY <1>6
  <2>4. N(new, t, n) = N(old, t, n) + a /\ O(new, t, n) = O(old, t, n) + b
    BY <1>8
  <2> HIDE DEF r, a, b, N, O
  <2>5. r.total \in Nat /\ r.workspace \in Nat
    BY <2>2 DEF RefCounts
  <2>6. AddRefs(r, a, isBase) \in RefCounts /\ AddRefs(r, a, isBase).total = r.total + a
        /\ AddRefs(r, a, isBase).workspace = r.workspace + b
    BY <2>3, <2>5 DEF AddRefs, RefCounts
  <2> QED
    BY <2>1, <2>2, <2>4, <2>6
<1>10. ASSUME NEW n \in Names PROVE y.nameCounts[n] \in Nat /\ y.nameCounts[n] = A(new, n)
  <2>1. y.nameCounts[n] = x.nameCounts[n] + A(per, n)
    BY <1>1, <1>7
  <2>2. A(new, n) = A(old, n) + A(per, n)
    BY <1>8
  <2>3. x.nameCounts[n] \in Nat /\ A(per, n) \in Nat
    BY <1>2, <1>7
  <2> HIDE DEF A
  <2> QED
    BY <1>2, <2>1, <2>2, <2>3
<1>11. y.refs \in [Types -> [Names -> RefCounts]] /\ y.nameCounts \in [Names -> Nat]
  <2>1. y.refs = [t \in Types |-> [n \in Names |-> y.refs[t][n]]] /\ y.nameCounts = [n \in Names |-> y.nameCounts[n]]
    <3> DEFINE c(t, n) == AddRefs(x.refs[t][n], spelled(t, n), isBase)
               d(n) == x.nameCounts[n] + more(n)
    <3>1. y.refs = [t \in Types |-> [n \in Names |-> c(t, n)]] /\ y.nameCounts = [n \in Names |-> d(n)]
      BY <1>1
    <3> HIDE DEF c, d
    <3> QED
      BY <3>1
  <2> QED
    BY <1>9, <1>10, <2>1
<1>12. \A C : C \ {} = C
  OBVIOUS
<1> QED
  BY <1>9, <1>10, <1>11, <1>12 DEF CountsBut

-----------------------------------------------------------------------------
(* How many instances a file has under a name                              *)

Amount(map, t, u, n) == Cardinality(Carrying(map, {<<t, u, n>>}))

\* Counted in the vector of the type,
LEMMA AmountStands ==
  ASSUME NEW map \in Vectors, NEW t \in Types, NEW u, NEW n
  PROVE  /\ Amount(map, t, u, n) \in Nat
         /\ Amount(map, t, u, n) = Cardinality({i \in DOMAIN map[t] : map[t][i].uri = u /\ map[t][i].name = n})
         /\ IsFiniteSet({i \in DOMAIN map[t] : map[t][i].uri = u /\ map[t][i].name = n})
<1> DEFINE v == map[t]
           I == {i \in DOMAIN v : v[i].uri = u /\ v[i].name = n}
           C == Carrying(map, {<<t, u, n>>})
<1>1. IsFiniteSet(I)
  <2>1. v \in Seq(Instances)
    BY DEF Vectors
  <2> HIDE DEF v
  <2>2. DOMAIN v = 1..Len(v) /\ Len(v) \in Nat
    BY <2>1
  <2>3. IsFiniteSet(DOMAIN v) /\ I \in SUBSET DOMAIN v
    BY <2>2, FS_Interval
  <2> QED
    BY <2>3, FS_Subset
<1>2. ASSUME NEW s PROVE s \in C <=> s \in {t} \X I
  <2>1. s \in C <=> s \in Slots(map) /\ s[1] = t /\ map[s[1]][s[2]].uri = u /\ map[s[1]][s[2]].name = n
    BY DEF Carrying, Tag
  <2>2. s \in Slots(map) <=> s = <<s[1], s[2]>> /\ s[1] \in Types /\ s[2] \in DOMAIN map[s[1]]
    BY SlotOf
  <2> HIDE DEF C
  <2>3. s \in {t} \X I <=> s = <<s[1], s[2]>> /\ s[1] = t /\ s[2] \in I
    <3> HIDE DEF I
    <3> QED
      OBVIOUS
  <2> QED
    BY <2>1, <2>2, <2>3
<1>3. C = {t} \X I
  <2> HIDE DEF C, I
  <2> QED
    BY <1>2
<1> HIDE DEF I, C
<1>4. Cardinality(C) = Cardinality(I) /\ Cardinality(I) \in Nat
  BY <1>1, <1>3, PairWithFile, FS_CardinalityType
<1> QED
  BY <1>1, <1>4 DEF Amount, I, C, v

\* and where the file's positions lead.
LEMMA AmountRead ==
  ASSUME NEW x, IndexTyped(x), NEW t \in Types, NEW u \in Files, Placed(x, u, t), NEW n
  PROVE  Amount(x.map, t, u, n) = Occurrences(Reads(x, u, t), n)
<1> DEFINE map == x.map
           v == map[t]
           q == x.positions[u][t]
           I == {i \in DOMAIN v : v[i].uri = u /\ v[i].name = n}
           r == Reads(x, u, t)
           K == {k \in DOMAIN r : r[k] = n}
           h == [k \in K |-> q[k]]
<1>1. map \in Vectors
  BY DEF IndexTyped, Vectors
<1>2. Amount(map, t, u, n) = Cardinality(I)
  <2> HIDE DEF map
  <2> QED
    BY <1>1, AmountStands
<1>3. r = [k \in DOMAIN q |-> v[q[k]].name]
  BY DEF Reads
<1>4. /\ \A a, b \in DOMAIN q : q[a] = q[b] => a = b
      /\ \A k \in DOMAIN q : q[k] \in DOMAIN v /\ v[q[k]].uri = u
      /\ \A i \in DOMAIN v : v[i].uri = u => \E k \in DOMAIN q : q[k] = i
  BY DEF Placed
<1>5. q \in Seq(Nat)
  BY DEF IndexTyped
<1> HIDE DEF map, v, q, r
<1>6. \A k : k \in K <=> k \in DOMAIN q /\ v[q[k]].name = n
  BY <1>3
<1> HIDE DEF K
<1>7. IsFiniteSet(K)
  <2>1. DOMAIN q = 1..Len(q) /\ Len(q) \in Nat
    BY <1>5
  <2>2. IsFiniteSet(DOMAIN q) /\ K \in SUBSET DOMAIN q
    BY <1>6, <2>1, FS_Interval
  <2> QED
    BY <2>2, FS_Subset
<1>8. h \in [K -> I] /\ (\A a, b \in K : h[a] = h[b] => a = b) /\ \A i \in I : \E k \in K : h[k] = i
  BY <1>4, <1>6
<1> HIDE DEF h, I
<1>9. Cardinality(I) = Cardinality(K)
  BY <1>7, <1>8, OneToOne
<1> QED
  BY <1>2, <1>9 DEF map, K, r, Occurrences

-----------------------------------------------------------------------------
(* What the operations on the vectors count to                             *)

LEMMA AmountOwn ==
  ASSUME NEW u \in Files, NEW per \in [Types -> Seq(Names)], NEW own, own = VectorsOf(u, per)
  PROVE  /\ own \in Vectors /\ NamesOf(own) = per
         /\ \A t \in Types : \A i \in DOMAIN own[t] : own[t][i].uri = u
         /\ \A t \in Types : \A w, n : Amount(own, t, w, n) = IF w = u THEN Occurrences(per[t], n) ELSE 0
<1>1. ASSUME NEW t \in Types
      PROVE  /\ own[t] \in Seq(Instances) /\ DOMAIN own[t] = DOMAIN per[t] /\ per[t] \in Seq(Names)
             /\ \A i \in DOMAIN per[t] : own[t][i].uri = u /\ own[t][i].name = per[t][i]
  <2> DEFINE p == per[t]
             v == own[t]
  <2>1. p \in Seq(Names) /\ v = [i \in DOMAIN p |-> [uri |-> u, name |-> p[i]]]
    BY DEF VectorsOf
  <2> HIDE DEF p, v
  <2>2. \A i \in DOMAIN p : [uri |-> u, name |-> p[i]] \in Instances
    BY <2>1 DEF Instances
  <2>3. DOMAIN p = 1..Len(p) /\ Len(p) \in Nat
    BY <2>1
  <2>4. v \in Seq(Instances) /\ DOMAIN v = DOMAIN p /\ \A i \in DOMAIN p : v[i].uri = u /\ v[i].name = p[i]
    BY <2>1, <2>2, <2>3
  <2> QED
    BY <2>1, <2>4 DEF p, v
<1>2. own \in Vectors
  <2>1. own = [t \in Types |-> own[t]]
    <3> DEFINE e(t) == [i \in DOMAIN per[t] |-> [uri |-> u, name |-> per[t][i]]]
    <3>1. own = [t \in Types |-> e(t)]
      BY DEF VectorsOf
    <3> HIDE DEF e
    <3> QED
      BY <3>1
  <2> QED
    BY <1>1, <2>1 DEF Vectors
<1>3. NamesOf(own) = per
  <2> DEFINE e(t) == [i \in DOMAIN own[t] |-> own[t][i].name]
  <2>1. ASSUME NEW t \in Types PROVE e(t) = per[t]
    <3> DEFINE p == per[t]
               v == own[t]
    <3>1. p \in Seq(Names) /\ DOMAIN v = DOMAIN p /\ \A i \in DOMAIN p : v[i].name = p[i]
      BY <1>1
    <3> HIDE DEF p, v
    <3>2. [i \in DOMAIN v |-> v[i].name] = p
      BY <3>1
    <3> QED
      BY <3>2 DEF p, v
  <2>2. NamesOf(own) = [t \in Types |-> e(t)]
    BY DEF NamesOf
  <2>3. per = [t \in Types |-> per[t]]
    OBVIOUS
  <2> HIDE DEF e
  <2> QED
    BY <2>1, <2>2, <2>3
<1>4. ASSUME NEW t \in Types, NEW w, NEW n
      PROVE  Amount(own, t, w, n) = IF w = u THEN Occurrences(per[t], n) ELSE 0
  <2> DEFINE p == per[t]
             v == own[t]
             I == {i \in DOMAIN v : v[i].uri = w /\ v[i].name = n}
  <2>1. Amount(own, t, w, n) = Cardinality(I)
    BY <1>2, AmountStands
  <2>2. DOMAIN v = DOMAIN p /\ \A i \in DOMAIN p : v[i].uri = u /\ v[i].name = p[i]
    BY <1>1
  <2> HIDE DEF p, v
  <2>3. CASE w = u
    <3>1. I = {i \in DOMAIN p : p[i] = n}
      BY <2>2, <2>3
    <3> HIDE DEF I
    <3> QED
      BY <2>1, <2>3, <3>1 DEF Occurrences, p
  <2>4. CASE w # u
    <3>1. I = {}
      BY <2>2, <2>4
    <3>2. Cardinality({}) = 0
      BY FS_EmptySet
    <3> HIDE DEF I
    <3> QED
      BY <2>1, <2>4, <3>1, <3>2
  <2> QED
    BY <2>3, <2>4
<1> QED
  BY <1>1, <1>2, <1>3, <1>4

\* The counters and the amounts after a file of the workspace is merged.
LEMMA MergeCounts ==
  ASSUME NEW x, IndexTyped(x), AllPlaced(x), CountsBut(x, x.map, {}),
         NEW u \in Files, u \notin BaseFiles, NEW per \in [Types -> Seq(Names)], NEW y, y = Merge(x, u, per)
  PROVE  /\ CountsBut(y, y.map, {})
         /\ \A t \in Types, w \in Files, n \in Names :
              Amount(y.map, t, w, n) = Amount(x.map, t, w, n) + IF w = u THEN Occurrences(per[t], n) ELSE 0
<1> DEFINE own == VectorsOf(u, per)
           old == x.map
           new == y.map
<1>1. /\ own \in Vectors /\ NamesOf(own) = per
      /\ \A t \in Types : \A i \in DOMAIN own[t] : own[t][i].uri = u
      /\ \A t \in Types : \A w, n : Amount(own, t, w, n) = IF w = u THEN Occurrences(per[t], n) ELSE 0
  BY AmountOwn
<1>2. Merged(x, own, y)
  <2>1. IndexTyped(x) /\ AllPlaced(x)
    OBVIOUS
  <2> HIDE DEF old, new
  <2> QED
    BY <2>1, MergePlaces
<1> HIDE DEF own
<1>3. IndexTyped(y) /\ \A t \in Types : y.map[t] = x.map[t] \o own[t]
  BY <1>2 DEF Merged
<1>4. \A t \in Types : new[t] = old[t] \o own[t]
  BY <1>3
<1>5. old \in Vectors /\ new \in Vectors
  BY <1>3 DEF IndexTyped, Vectors
<1>6. PICK b \in BOOLEAN : b = FALSE
  OBVIOUS
<1> DEFINE c == Counted(x, NamesOf(own), b)
<1>7. y.refs = c.refs /\ y.nameCounts = c.nameCounts
  <2> DEFINE d == Counted(x, per, FALSE)
  <2>1. c = d
    BY <1>1, <1>6
  <2>2. d = [f \in IndexFields |-> d[f]]
    <3>1. PICK e \in BOOLEAN : e = FALSE
      OBVIOUS
    <3>2. PICK z : z = Counted(x, per, e)
      OBVIOUS
    <3>3. z = d
      BY <3>1, <3>2
    <3> HIDE DEF d
    <3>4. z = [f \in IndexFields |-> z[f]]
      BY <3>2, CountedMovesNothing
    <3> QED
      BY <3>3, <3>4
  <2>3. \E m, p, s : y = [d EXCEPT !.map = m, !.positions = p, !.baseUris = s]
    <3> DEFINE m == [t \in Types |-> d.map[t] \o [i \in DOMAIN per[t] |-> [uri |-> u, name |-> per[t][i]]]]
               p == [d.positions EXCEPT ![u] = [t \in Types |-> @[t] \o [i \in DOMAIN per[t] |-> Len(x.map[t]) + i]]]
    <3>1. y = [d EXCEPT !.map = m, !.positions = p, !.baseUris = d.baseUris]
      BY DEF Merge, MergeFrom
    <3> QED
      BY <3>1, Zenon
  <2> HIDE DEF c, d
  <2> QED
    BY <2>1, <2>2, <2>3 DEF IndexFields
<1> HIDE DEF c
<1>8. CountsBut(c, new, {})
  <2>1. \A t \in Types : \A i \in DOMAIN own[t] : b <=> own[t][i].uri \in BaseFiles
    BY <1>1, <1>6
  <2>2. CountsBut(x, old, {})
    OBVIOUS
  <2> HIDE DEF old, new
  <2> QED
    BY <1>1, <1>4, <1>5, <2>1, <2>2, CountedCounts DEF c
<1>9. CountsBut(y, new, {})
  <2> HIDE DEF new
  <2> QED
    BY <1>7, <1>8 DEF CountsBut
<1>10. ASSUME NEW t \in Types, NEW w \in Files, NEW n \in Names
       PROVE  Amount(new, t, w, n) = Amount(old, t, w, n) + Amount(own, t, w, n)
  <2> DEFINE kind == {<<t, w, n>>}
  <2> HIDE DEF old, new, kind
  <2>1. \A k : Cardinality(Carrying(new, k)) = Cardinality(Carrying(old, k)) + Cardinality(Carrying(own, k))
    BY <1>1, <1>4, <1>5, BehindCounts
  <2> QED
    BY <2>1 DEF Amount, kind
<1> QED
  BY <1>1, <1>9, <1>10

\* The counters and the amounts after instances of the base game are merged.
LEMMA MergeBaseGameCounts ==
  ASSUME NEW x, IndexTyped(x), AllPlaced(x), CountsBut(x, x.map, {}),
         NEW per \in Vectors, \A t \in Types : \A i \in DOMAIN per[t] : per[t][i].uri \in BaseFiles,
         NEW y, y = MergeBaseGame(x, per)
  PROVE  /\ CountsBut(y, y.map, {})
         /\ \A t \in Types, w \in Files, n \in Names :
              Amount(y.map, t, w, n) = Amount(x.map, t, w, n) + Amount(per, t, w, n)
<1> DEFINE old == x.map
           new == y.map
<1>1. IndexTyped(y) /\ \A t \in Types : y.map[t] = x.map[t] \o per[t]
  <2>1. IndexTyped(x) /\ AllPlaced(x) /\ per \in [Types -> Seq(Instances)]
    BY DEF Vectors
  <2> HIDE DEF old, new
  <2>2. BaseMerged(x, per, y)
    BY <2>1, MergeBaseGamePlaces
  <2> QED
    BY <2>2 DEF BaseMerged
<1>2. old \in Vectors /\ new \in Vectors /\ \A t \in Types : new[t] = old[t] \o per[t]
  BY <1>1 DEF IndexTyped, Vectors
<1>3. PICK b \in BOOLEAN : b = TRUE
  OBVIOUS
<1> DEFINE c == Counted(x, NamesOf(per), b)
<1>4. c = Counted(x, NamesOf(per), TRUE)
  BY <1>3
<1>5. c = [f \in IndexFields |-> c[f]]
  <2> HIDE DEF c
  <2> QED
    BY CountedMovesNothing DEF c
<1>6. \E m, p, s : y = [c EXCEPT !.map = m, !.positions = p, !.baseUris = s]
  <2> DEFINE d == Counted(x, NamesOf(per), TRUE)
             places(u, t) == InOrder(PlacesOf(per[t], {u}))
             placed(u, t) == [k \in DOMAIN places(u, t) |-> Len(x.map[t]) + places(u, t)[k]]
             m == [t \in Types |-> d.map[t] \o per[t]]
             p == [u \in Files |-> [t \in Types |-> d.positions[u][t] \o placed(u, t)]]
             s == d.baseUris \cup UNION {{e.uri : e \in ToSet(per[t])} : t \in Types}
  <2>1. y = [d EXCEPT !.map = m, !.positions = p, !.baseUris = s]
    BY DEF MergeBaseGame, NamesOf
  <2>2. c = d
    BY <1>4
  <2> HIDE DEF c, d, m, p, s
  <2> QED
    BY <2>1, <2>2, Zenon
<1> HIDE DEF c
<1>7. y.refs = c.refs /\ y.nameCounts = c.nameCounts
  BY <1>5, <1>6 DEF IndexFields
<1>8. CountsBut(c, new, {})
  <2>1. \A t \in Types : \A i \in DOMAIN per[t] : b <=> per[t][i].uri \in BaseFiles
    BY <1>3
  <2>2. CountsBut(x, old, {})
    OBVIOUS
  <2> HIDE DEF old, new
  <2> QED
    BY <1>2, <2>1, <2>2, CountedCounts DEF c
<1>9. CountsBut(y, new, {})
  <2> HIDE DEF new
  <2> QED
    BY <1>7, <1>8 DEF CountsBut
<1>10. ASSUME NEW t \in Types, NEW w \in Files, NEW n \in Names
       PROVE  Amount(new, t, w, n) = Amount(old, t, w, n) + Amount(per, t, w, n)
  <2> DEFINE kind == {<<t, w, n>>}
  <2> HIDE DEF old, new, kind
  <2>1. \A k : Cardinality(Carrying(new, k)) = Cardinality(Carrying(old, k)) + Cardinality(Carrying(per, k))
    BY <1>2, BehindCounts
  <2> QED
    BY <2>1 DEF Amount, kind
<1> QED
  BY <1>9, <1>10

-----------------------------------------------------------------------------
(* What the removals count to                                              *)

\* Removing one file takes its instances and nobody else's.
LEMMA RemoveFileAmounts ==
  ASSUME NEW x, IndexTyped(x), AllPlaced(x), NEW u \in Files, NEW y, y = RemoveFile(x, u)
  PROVE  \A t \in Types, w \in Files, n \in Names :
           Amount(y.map, t, w, n) = IF w = u THEN 0 ELSE Amount(x.map, t, w, n)
<1>1. /\ IndexTyped(y) /\ AllPlaced(y)
      /\ \A w \in Files \ {u}, t \in Types : Reads(y, w, t) = Reads(x, w, t)
      /\ \A t \in Types : Stands(y, u, t) = {}
  BY RemoveFilePlaces
<1>2. ASSUME NEW t \in Types, NEW w \in Files, NEW n \in Names, w # u
      PROVE  Amount(y.map, t, w, n) = Amount(x.map, t, w, n)
  <2>1. Amount(y.map, t, w, n) = Occurrences(Reads(y, w, t), n)
    BY <1>1, AmountRead DEF AllPlaced
  <2>2. Amount(x.map, t, w, n) = Occurrences(Reads(x, w, t), n)
    BY AmountRead DEF AllPlaced
  <2> QED
    BY <1>1, <1>2, <2>1, <2>2
<1>3. ASSUME NEW t \in Types, NEW n \in Names PROVE Amount(y.map, t, u, n) = 0
  <2> DEFINE map == y.map
             I == {i \in DOMAIN map[t] : map[t][i].uri = u /\ map[t][i].name = n}
  <2>1. I = {}
    BY <1>1 DEF Stands
  <2>2. map \in Vectors
    BY <1>1 DEF IndexTyped, Vectors
  <2>3. Amount(map, t, u, n) = Cardinality(I)
    <3> HIDE DEF map
    <3> QED
      BY <2>2, AmountStands
  <2>4. Cardinality({}) = 0
    BY FS_EmptySet
  <2> HIDE DEF I
  <2> QED
    BY <2>1, <2>3, <2>4
<1> QED
  BY <1>2, <1>3

\* The vectors a bulk removal leaves are those there were without the slots of
\* the files removed.
LEMMA KeptRearranged ==
  ASSUME NEW x, IndexTyped(x), NEW uris, NEW old, old = x.map, NEW new, new = KeptOf(x, uris),
         NEW gone, gone = SlotsUnder(x, uris)
  PROVE  /\ new \in Vectors /\ \E f : Rearranges(f, new, old, gone)
         /\ \A s : s \in gone <=> s \in Slots(old) /\ old[s[1]][s[2]].uri \in uris
<1> DEFINE P(t) == PlacesOf(old[t], Files \ uris)
           at(t) == InOrder(P(t))
           f == [s \in Slots(new) |-> <<s[1], at(s[1])[s[2]]>>]
<1>1. old \in Vectors
  BY DEF IndexTyped, Vectors
<1>2. ASSUME NEW t \in Types
      PROVE  /\ new[t] \in Seq(Instances) /\ DOMAIN new[t] = 1..Cardinality(P(t))
             /\ \A k \in DOMAIN new[t] : at(t)[k] \in P(t) /\ new[t][k] = old[t][at(t)[k]]
             /\ \A j, k \in DOMAIN new[t] : at(t)[j] = at(t)[k] => j = k
             /\ \A i \in P(t) : \E k \in DOMAIN new[t] : at(t)[k] = i
             /\ \A i : i \in P(t) <=> i \in DOMAIN old[t] /\ old[t][i].uri \in Files \ uris
  <2> DEFINE v == old[t]
             K == PlacesOf(v, Files \ uris)
  <2>1. v \in Seq(Instances)
    BY <1>1 DEF Vectors
  <2>2. new[t] = EntriesAt(v, K)
    BY DEF KeptOf
  <2>3. \A i : i \in K <=> i \in DOMAIN v /\ v[i].uri \in Files \ uris
    BY DEF PlacesOf
  <2>4. K \in SUBSET DOMAIN v
    BY <2>3
  <2>5. K = P(t)
    OBVIOUS
  <2> HIDE DEF v, K, P
  <2>6. /\ IsFiniteSet(K) /\ K \in SUBSET Nat
        /\ EntriesAt(v, K) \in Seq(Instances)
        /\ DOMAIN EntriesAt(v, K) = 1..Cardinality(K)
        /\ \A k \in 1..Cardinality(K) : EntriesAt(v, K)[k] = v[InOrder(K)[k]]
    BY <2>1, <2>4, EntriesType
  <2>7. /\ \A k \in 1..Cardinality(K) : InOrder(K)[k] \in K
        /\ \A j, k \in 1..Cardinality(K) : InOrder(K)[j] = InOrder(K)[k] => j = k
        /\ \A i \in K : \E k \in 1..Cardinality(K) : InOrder(K)[k] = i
    BY <2>6, InOrderLists
  <2> DEFINE ord == InOrder(K)
  <2>8. ord = at(t)
    BY <2>5
  <2>9. /\ \A k \in 1..Cardinality(K) : ord[k] \in K /\ EntriesAt(v, K)[k] = v[ord[k]]
        /\ \A j, k \in 1..Cardinality(K) : ord[j] = ord[k] => j = k
        /\ \A i \in K : \E k \in 1..Cardinality(K) : ord[k] = i
    BY <2>6, <2>7
  <2> HIDE DEF ord, at
  <2> QED
    BY <2>2, <2>3, <2>5, <2>6, <2>8, <2>9 DEF v
<1> HIDE DEF P, at
<1>3. new \in Vectors
  <2>1. new = [t \in Types |-> new[t]]
    <3> DEFINE e(t) == EntriesAt(x.map[t], PlacesOf(x.map[t], Files \ uris))
    <3>1. new = [t \in Types |-> e(t)]
      BY DEF KeptOf
    <3> HIDE DEF e
    <3> QED
      BY <3>1
  <2> QED
    BY <1>2, <2>1 DEF Vectors
<1>4. ASSUME NEW s PROVE s \in gone <=> s \in Slots(old) /\ old[s[1]][s[2]].uri \in uris
  <2>1. s \in gone <=> \E t \in Types : s \in {t} \X PlacesOf(old[t], uris)
    BY DEF SlotsUnder
  <2>2. \A t, i : i \in PlacesOf(old[t], uris) <=> i \in DOMAIN old[t] /\ old[t][i].uri \in uris
    BY DEF PlacesOf
  <2>3. \A t, I : s \in {t} \X I <=> s = <<s[1], s[2]>> /\ s[1] = t /\ s[2] \in I
    OBVIOUS
  <2>4. s \in Slots(old) <=> s = <<s[1], s[2]>> /\ s[1] \in Types /\ s[2] \in DOMAIN old[s[1]]
    BY SlotOf
  <2> QED
    BY <2>1, <2>2, <2>3, <2>4
<1>5. ASSUME NEW s \in Slots(new)
      PROVE  /\ s = <<s[1], s[2]>> /\ s[1] \in Types /\ s[2] \in DOMAIN new[s[1]]
             /\ <<s[1], at(s[1])[s[2]]>> \in Slots(old) /\ <<s[1], at(s[1])[s[2]]>> \notin gone
             /\ Tag(old, <<s[1], at(s[1])[s[2]]>>) = Tag(new, s)
  <2> DEFINE t == s[1]
             k == s[2]
             i == at(t)[k]
             r == <<t, i>>
  <2>1. s = <<t, k>> /\ t \in Types /\ k \in DOMAIN new[t]
    BY SlotOf
  <2>2. i \in DOMAIN old[t] /\ old[t][i].uri \in Files \ uris /\ new[t][k] = old[t][i]
    BY <1>2, <2>1
  <2>3. r[1] = t /\ r[2] = i /\ r = <<r[1], r[2]>>
    OBVIOUS
  <2> HIDE DEF t, k, i, r
  <2>4. r \in Slots(old) /\ r \notin gone
    BY <1>4, <2>1, <2>2, <2>3, SlotOf
  <2>5. Tag(old, r) = Tag(new, s)
    BY <2>2, <2>3 DEF Tag, t, k
  <2> QED
    BY <2>1, <2>4, <2>5 DEF t, k, i, r
<1>6. f \in [Slots(new) -> Slots(old)]
  <2>1. \A s \in Slots(new) : <<s[1], at(s[1])[s[2]]>> \in Slots(old)
    BY <1>5
  <2> QED
    BY <2>1
<1>7. ASSUME NEW a \in Slots(new), NEW b \in Slots(new), f[a] = f[b] PROVE a = b
  <2>1. a[1] = b[1] /\ at(a[1])[a[2]] = at(a[1])[b[2]]
    BY <1>7
  <2>2. a = <<a[1], a[2]>> /\ b = <<b[1], b[2]>> /\ a[1] \in Types /\ a[2] \in DOMAIN new[a[1]] /\ b[2] \in DOMAIN new[b[1]]
    BY <1>5
  <2> QED
    BY <1>2, <2>1, <2>2
<1>8. ASSUME NEW s \in Slots(old), s \notin gone PROVE \E a \in Slots(new) : f[a] = s
  <2> DEFINE t == s[1]
             i == s[2]
  <2>1. s = <<t, i>> /\ t \in Types /\ i \in DOMAIN old[t] /\ old[t][i].uri \in Files
    BY <1>1, SlotInstance
  <2>2. old[t][i].uri \notin uris
    BY <1>4, <1>8
  <2>3. PICK k \in DOMAIN new[t] : at(t)[k] = i
    BY <1>2, <2>1, <2>2
  <2> DEFINE a == <<t, k>>
  <2>4. a[1] = t /\ a[2] = k /\ a = <<a[1], a[2]>>
    OBVIOUS
  <2>5. a \in Slots(new)
    <3> HIDE DEF a
    <3> QED
      BY <2>1, <2>4, SlotOf
  <2>6. f[a] = s
    BY <2>1, <2>3, <2>5
  <2> QED
    BY <2>5, <2>6
<1>9. Rearranges(f, new, old, gone)
  <2>1. \A s \in Slots(new) : f[s] \notin gone /\ Tag(old, f[s]) = Tag(new, s)
    BY <1>5
  <2> HIDE DEF f
  <2> QED
    BY <1>6, <1>7, <1>8, <2>1 DEF Rearranges
<1> QED
  BY <1>3, <1>4, <1>9

\* Releasing the slots of base-game files takes them from what is counted.
LEMMA ReleasedCountsBut ==
  ASSUME NEW x, IndexTyped(x), CountsBut(x, x.map, {}), NEW S, IsFiniteSet(S), S \subseteq Slots(x.map),
         \A s \in S : x.map[s[1]][s[2]].uri \in BaseFiles /\ x.map[s[1]][s[2]].uri \in x.baseUris,
         NEW y, y = WalkOver(S, Bulk(x), x)[S]
  PROVE  CountsBut(y, x.map, S)
<1> DEFINE how == Bulk(x)
           map == x.map
           f == WalkOver(S, how, x)
           Same(z, s) == IndexTyped(z) /\ z.map = map /\ CountsBut(z, map, s)
           G == {s \in SUBSET S : Same(f[s], s)}
<1>0. how.bulk /\ how.map = map /\ how.baseUris = x.baseUris
  BY DEF Bulk
<1>1. map \in Vectors
  BY DEF IndexTyped, Vectors
<1> HIDE DEF how
<1>2. Picks(S, how)
  BY <1>0 DEF Picks, TakenLast
<1>3. /\ f[{}] = x
      /\ \A s \in SUBSET S : s # {} => f[s] = Step(how, TakenLast(how, s), f[s \ {TakenLast(how, s)}])
  BY <1>2, WalkUnfolds
<1> HIDE DEF f
<1>4. Same(f[{}], {})
  BY <1>3
<1>5. ASSUME NEW s \in SUBSET S, s \notin G, \A r \in SUBSET s : r # s => r \in G PROVE FALSE
  <2>1. ~Same(f[s], s)
    BY <1>5
  <2>2. s # {}
    BY <1>4, <2>1
  <2> DEFINE k == TakenLast(how, s)
             r == s \ {k}
             z == f[r]
             t == k[1]
             p == k[2]
             b == map[t][p].uri \in x.baseUris
  <2>3. k \in s /\ r \in G
    BY <1>2, <1>5, <2>2 DEF Picks
  <2>4. f[s] = ReleaseAt(z, t, p, b)
    BY <1>0, <1>3, <2>2 DEF Step
  <2>5. Same(z, r)
    BY <2>3
  <2>6. k \in Slots(map) /\ map[t][p].uri \in BaseFiles /\ map[t][p].uri \in x.baseUris
    BY <2>3
  <2>7. k = <<t, p>> /\ t \in Types /\ p \in DOMAIN map[t]
    BY <2>6, SlotOf
  <2>8. k \notin r /\ s = r \cup {k}
    BY <2>3
  <2> HIDE DEF z, k, r, map
  <2>9. PICK d \in BOOLEAN : d = TRUE /\ (map[t][p].uri \in x.baseUris <=> d)
    BY <2>6
  <2>10. d <=> map[t][p].uri \in BaseFiles
    BY <2>6, <2>9
  <2>11. f[s] = ReleaseAt(z, t, p, d)
    <3>1. (map[t][p].uri \in x.baseUris) = d
      BY <2>9
    <3> QED
      BY <2>4, <3>1
  <2> HIDE DEF t, p, b
  <2>12. IndexTyped(z) /\ z.map = map /\ CountsBut(z, map, r) /\ <<t, p>> \notin r
    BY <2>5, <2>7, <2>8
  <2>13. CountsBut(f[s], map, r \cup {<<t, p>>})
    BY <1>1, <2>7, <2>10, <2>11, <2>12, Releasing
  <2>14. IndexTyped(f[s]) /\ f[s].map = map
    BY <2>11, <2>12, ReleaseMovesNothing
  <2> QED
    BY <2>1, <2>7, <2>8, <2>13, <2>14
<1>6. G = SUBSET S
  <2>1. G \subseteq SUBSET S
    OBVIOUS
  <2> HIDE DEF G
  <2> QED
    BY <1>5, <2>1, LeastSubset
<1>7. Same(f[S], S)
  BY <1>6
<1> QED
  BY <1>7 DEF f, how

\* Removing base-game files in one pass keeps the counters right and takes
\* their instances and nobody else's.
LEMMA RemoveFilesCounts ==
  ASSUME NEW x, IndexTyped(x), AllPlaced(x), CountsBut(x, x.map, {}),
         NEW uris, uris \subseteq BaseFiles, uris \subseteq x.baseUris, NEW y, y = RemoveFiles(x, uris)
  PROVE  /\ CountsBut(y, y.map, {})
         /\ \A t \in Types, w \in Files, n \in Names :
              Amount(y.map, t, w, n) = IF w \in uris THEN 0 ELSE Amount(x.map, t, w, n)
<1>1. CASE uris = {}
  <2>1. y = x
    BY <1>1 DEF RemoveFiles
  <2> QED
    BY <1>1, <2>1
<1>2. CASE uris # {}
  <2>1. PICK released : BulkRemoved(x, uris, released, y)
    BY <1>2, FilesRemoved
  <2> DEFINE old == x.map
             new == KeptOf(x, uris)
             gone == SlotsUnder(x, uris)
  <2>2. /\ IsFiniteSet(gone) /\ released = WalkOver(gone, Bulk(x), x)[gone]
        /\ y.map = new /\ y.refs = released.refs /\ y.nameCounts = released.nameCounts
    BY <2>1 DEF BulkRemoved
  <2>3. /\ new \in Vectors /\ \E f : Rearranges(f, new, old, gone)
        /\ \A s : s \in gone <=> s \in Slots(old) /\ old[s[1]][s[2]].uri \in uris
    BY KeptRearranged
  <2>4. PICK f : Rearranges(f, new, old, gone)
    BY <2>3
  <2>5. old \in Vectors
    BY DEF IndexTyped, Vectors
  <2>6. CountsBut(released, old, gone)
    <3>1. gone \subseteq Slots(old)
      BY <2>3
    <3>2. \A s \in gone : old[s[1]][s[2]].uri \in BaseFiles /\ old[s[1]][s[2]].uri \in x.baseUris
      BY <2>3
    <3> HIDE DEF gone
    <3> QED
      BY <2>2, <3>1, <3>2, ReleasedCountsBut
  <2> HIDE DEF old, new, gone
  <2>7. CountsBut(y, new, {})
    BY <2>2, <2>3, <2>4, <2>5, <2>6, RearrangedCounts
  <2>8. ASSUME NEW t \in Types, NEW w \in Files, NEW n \in Names
        PROVE  Amount(new, t, w, n) = IF w \in uris THEN 0 ELSE Amount(old, t, w, n)
    <3> DEFINE kind == {<<t, w, n>>}
               C == Carrying(old, kind)
    <3>0. \A k : Cardinality(Carrying(new, k)) = Cardinality(Carrying(old, k) \ gone)
      BY <2>3, <2>4, <2>5, SameNumber
    <3>1. Amount(new, t, w, n) = Cardinality(C \ gone)
      BY <3>0 DEF Amount
    <3>2. \A s \in C : s \in Slots(old) /\ old[s[1]][s[2]].uri = w
      BY DEF Carrying, Tag
    <3>3. Amount(old, t, w, n) = Cardinality(C)
      BY DEF Amount
    <3> HIDE DEF C
    <3>4. C \ gone = IF w \in uris THEN {} ELSE C
      BY <2>3, <3>2
    <3>5. Cardinality({}) = 0
      BY FS_EmptySet
    <3> QED
      BY <3>1, <3>3, <3>4, <3>5
  <2> QED
    BY <2>2, <2>7, <2>8 DEF old
<1> QED
  BY <1>1, <1>2

-----------------------------------------------------------------------------
(* The references in their buckets                                         *)

\* A bucket has an entry of a file under a name; a file's uses have one of a
\* type and a name.
Holds(v, w, n) == \E k \in DOMAIN v : v[k].uri = w /\ v[k].name = n
Used(uses, t, n) == \E k \in DOMAIN uses : uses[k].type = t /\ uses[k].name = n

\* Taking the entries of a file out of a bucket.
HeldWithout(v, u, z) == z \in Seq(Instances) /\ \A w, n : Holds(z, w, n) <=> w # u /\ Holds(v, w, n)
LEMMA HoldsKept ==
  ASSUME NEW v \in Seq(Instances), NEW u, NEW z, z = EntriesAt(v, PlacesOf(v, Files \ {u}))
  PROVE  HeldWithout(v, u, z)
<1> DEFINE K == PlacesOf(v, Files \ {u})
           ord == InOrder(K)
<1>1. \A i : i \in K <=> i \in DOMAIN v /\ v[i].uri \in Files \ {u}
  BY DEF PlacesOf
<1>2. K \in SUBSET DOMAIN v
  BY <1>1
<1> HIDE DEF K
<1>3. /\ IsFiniteSet(K) /\ K \in SUBSET Nat
      /\ EntriesAt(v, K) \in Seq(Instances)
      /\ DOMAIN EntriesAt(v, K) = 1..Cardinality(K)
      /\ \A k \in 1..Cardinality(K) : EntriesAt(v, K)[k] = v[InOrder(K)[k]]
  BY <1>2, EntriesType
<1>4. /\ \A k \in 1..Cardinality(K) : InOrder(K)[k] \in K
      /\ \A i \in K : \E k \in 1..Cardinality(K) : InOrder(K)[k] = i
  BY <1>3, InOrderLists
<1>5. z = EntriesAt(v, K)
  BY DEF K
<1>6. /\ DOMAIN z = 1..Cardinality(K) /\ z \in Seq(Instances)
      /\ \A k \in DOMAIN z : ord[k] \in K /\ z[k] = v[ord[k]]
      /\ \A i \in K : \E k \in DOMAIN z : ord[k] = i
  BY <1>3, <1>4, <1>5
<1> HIDE DEF ord
<1>7. \A i \in DOMAIN v : v[i].uri \in Files
  <2>1. \A i \in DOMAIN v : v[i] \in Instances
    OBVIOUS
  <2> QED
    BY <2>1 DEF Instances
<1>8. ASSUME NEW w, NEW n PROVE Holds(z, w, n) <=> w # u /\ Holds(v, w, n)
  <2>1. ASSUME NEW k \in DOMAIN z, z[k].uri = w, z[k].name = n PROVE w # u /\ Holds(v, w, n)
    <3>1. ord[k] \in DOMAIN v /\ v[ord[k]].uri \in Files \ {u} /\ v[ord[k]] = z[k]
      BY <1>1, <1>6
    <3> QED
      BY <2>1, <3>1 DEF Holds
  <2>2. ASSUME NEW i \in DOMAIN v, v[i].uri = w, v[i].name = n, w # u PROVE Holds(z, w, n)
    <3>1. i \in K
      BY <1>1, <1>7, <2>2
    <3>2. PICK k \in DOMAIN z : ord[k] = i
      BY <1>6, <3>1
    <3>3. z[k] = v[i]
      BY <1>6, <3>2
    <3> QED
      BY <2>2, <3>3 DEF Holds
  <2> QED
    BY <2>1, <2>2 DEF Holds
<1> QED
  BY <1>6, <1>8 DEF HeldWithout

\* The entries a file adds to a bucket.
HeldWith(v, u, t, uses, z) ==
  z \in Seq(Instances) /\ \A w, n : Holds(z, w, n) <=> Holds(v, w, n) \/ (w = u /\ Used(uses, t, n))
LEMMA HoldsAdded ==
  ASSUME NEW v \in Seq(Instances), NEW u \in Files, NEW t \in Types, NEW uses \in Seq([type : Types, name : Names]),
         NEW z, z = v \o SitesOf(u, uses, t)
  PROVE  HeldWith(v, u, t, uses, z)
<1> DEFINE V == [type : Types, name : Names]
           K == {k \in DOMAIN uses : uses[k].type = t}
           ord == InOrder(K)
           here == UsesOf(uses, t)
           a == SitesOf(u, uses, t)
<1>1. \A i : i \in K <=> i \in DOMAIN uses /\ uses[i].type = t
  OBVIOUS
<1>2. K \in SUBSET DOMAIN uses
  BY <1>1
<1>3. here = EntriesAt(uses, K)
  BY DEF UsesOf
<1> HIDE DEF K, V
<1>4. /\ IsFiniteSet(K) /\ K \in SUBSET Nat
      /\ EntriesAt(uses, K) \in Seq(V)
      /\ DOMAIN EntriesAt(uses, K) = 1..Cardinality(K)
      /\ \A k \in 1..Cardinality(K) : EntriesAt(uses, K)[k] = uses[InOrder(K)[k]]
  <2>1. uses \in Seq(V)
    BY DEF V
  <2> QED
    BY <1>2, <2>1, EntriesType
<1>5. /\ \A k \in 1..Cardinality(K) : InOrder(K)[k] \in K
      /\ \A i \in K : \E k \in 1..Cardinality(K) : InOrder(K)[k] = i
  BY <1>4, InOrderLists
<1>6. /\ DOMAIN here = 1..Cardinality(K) /\ here \in Seq(V)
      /\ \A k \in DOMAIN here : ord[k] \in K /\ here[k] = uses[ord[k]]
      /\ \A i \in K : \E k \in DOMAIN here : ord[k] = i
  BY <1>3, <1>4, <1>5
<1>7. a = [k \in DOMAIN here |-> [uri |-> u, name |-> here[k].name]]
  BY DEF SitesOf
<1> HIDE DEF ord, here, a
<1>8. DOMAIN here = 1..Len(here) /\ Len(here) \in Nat /\ \A k \in DOMAIN here : here[k].name \in Names
  <2>0. here \in Seq(V)
    BY <1>6
  <2>1. DOMAIN here = 1..Len(here) /\ Len(here) \in Nat /\ \A k \in DOMAIN here : here[k] \in V
    BY <2>0
  <2> QED
    BY <2>1 DEF V
<1>9. \A k \in DOMAIN here : [uri |-> u, name |-> here[k].name] \in Instances
  BY <1>8 DEF Instances
<1>10. /\ a \in Seq(Instances) /\ DOMAIN a = DOMAIN here
       /\ \A k \in DOMAIN here : a[k].uri = u /\ a[k].name = here[k].name
  BY <1>7, <1>8, <1>9
<1>11. ASSUME NEW w, NEW n PROVE Holds(a, w, n) <=> w = u /\ Used(uses, t, n)
  <2>1. ASSUME NEW k \in DOMAIN a, a[k].uri = w, a[k].name = n PROVE w = u /\ Used(uses, t, n)
    BY <1>1, <1>6, <1>10, <2>1, SMTT(40) DEF Used
  <2>2. ASSUME NEW i \in DOMAIN uses, uses[i].type = t, uses[i].name = n, w = u PROVE Holds(a, w, n)
    <3>1. i \in K
      BY <1>1, <2>2
    <3>2. PICK k \in DOMAIN here : ord[k] = i
      BY <1>6, <3>1
    <3>3. here[k] = uses[i]
      BY <1>6, <3>2
    <3> QED
      BY <1>10, <2>2, <3>3 DEF Holds
  <2> QED
    BY <2>1, <2>2 DEF Holds, Used
<1>12. z \in Seq(Instances) /\ Joined(v, a, z)
  <2>1. z = v \o a
    BY DEF a
  <2> QED
    BY <1>10, <2>1, Behind
<1>13. ASSUME NEW w, NEW n PROVE Holds(z, w, n) <=> Holds(v, w, n) \/ Holds(a, w, n)
  <2>1. /\ DOMAIN v = 1..Len(v) /\ DOMAIN a = 1..Len(a) /\ DOMAIN z = 1..(Len(v) + Len(a))
        /\ \A i \in 1..Len(v) : z[i] = v[i] /\ i \in 1..(Len(v) + Len(a))
        /\ \A i \in 1..Len(a) : z[Len(v) + i] = a[i] /\ Len(v) + i \in 1..(Len(v) + Len(a))
        /\ \A i \in 1..(Len(v) + Len(a)) : i \in 1..Len(v) \/ \E j \in 1..Len(a) : i = Len(v) + j
    BY <1>12 DEF Joined
  <2>2. ASSUME NEW i \in DOMAIN z, z[i].uri = w, z[i].name = n PROVE Holds(v, w, n) \/ Holds(a, w, n)
    <3>1. CASE i \in 1..Len(v)
      BY <2>1, <2>2, <3>1 DEF Holds
    <3>2. ASSUME NEW j \in 1..Len(a), i = Len(v) + j PROVE Holds(a, w, n)
      BY <2>1, <2>2, <3>2 DEF Holds
    <3> QED
      BY <2>1, <3>1, <3>2
  <2>3. ASSUME NEW i \in DOMAIN v, v[i].uri = w, v[i].name = n PROVE Holds(z, w, n)
    BY <2>1, <2>3 DEF Holds
  <2>4. ASSUME NEW i \in DOMAIN a, a[i].uri = w, a[i].name = n PROVE Holds(z, w, n)
    <3>1. Len(v) + i \in DOMAIN z /\ z[Len(v) + i] = a[i]
      BY <2>1
    <3> QED
      BY <2>4, <3>1 DEF Holds
  <2> QED
    BY <2>2, <2>3, <2>4 DEF Holds
<1> QED
  BY <1>11, <1>12, <1>13 DEF HeldWith

\* A file that is not indexed uses nothing.
LEMMA NothingUsed == \A t, n : ~Used(ContributionOf(NoFile).uses, t, n)
BY DEF Used, ContributionOf, Nothing

\* The buckets hold what the files use, and a file is recorded under the
\* types it is in the buckets of.
RefsIn(i) ==
  /\ i.refs \in Vectors /\ i.refTypes \in [Files -> SUBSET Types]
  /\ \A u \in Files, t \in Types : \A n :
       /\ Holds(i.refs[t], u, n) <=> Used(ContributionOf(i.files[u]).uses, t, n)
       /\ Holds(i.refs[t], u, n) => t \in i.refTypes[u]

LEMMA ClearRefs ==
  ASSUME NEW i, ShapeOf(i), RefsIn(i), NEW u \in Files, NEW j, ClearedTo(i, u, j),
         j.files = [i.files EXCEPT ![u] = NoFile]
  PROVE  RefsIn(j)
<1>1. /\ i.refs \in Vectors /\ i.refTypes \in [Files -> SUBSET Types]
      /\ \A w \in Files, t \in Types : \A n :
           /\ Holds(i.refs[t], w, n) <=> Used(ContributionOf(i.files[w]).uses, t, n)
           /\ Holds(i.refs[t], w, n) => t \in i.refTypes[w]
  BY DEF RefsIn
<1>2. /\ j.refs = [t \in Types |-> IF t \in i.refTypes[u]
                                   THEN EntriesAt(i.refs[t], PlacesOf(i.refs[t], Files \ {u})) ELSE i.refs[t]]
      /\ j.refTypes = [i.refTypes EXCEPT ![u] = {}]
  BY DEF ClearedTo
<1>3. ASSUME NEW t \in Types
      PROVE  j.refs[t] \in Seq(Instances) /\ \A w \in Files : \A n : Holds(j.refs[t], w, n) <=> w # u /\ Holds(i.refs[t], w, n)
  <2> DEFINE v == i.refs[t]
             z == EntriesAt(v, PlacesOf(v, Files \ {u}))
  <2>1. v \in Seq(Instances)
    BY <1>1 DEF Vectors
  <2>2. j.refs[t] = IF t \in i.refTypes[u] THEN z ELSE v
    BY <1>2
  <2>3. z \in Seq(Instances) /\ \A w, n : Holds(z, w, n) <=> w # u /\ Holds(v, w, n)
    <3>1. HeldWithout(v, u, z)
      <4> HIDE DEF v
      <4> QED
        BY <2>1, HoldsKept
    <3> QED
      BY <3>1 DEF HeldWithout
  <2>4. t \notin i.refTypes[u] => \A n : ~Holds(v, u, n)
    BY <1>1
  <2> HIDE DEF v, z
  <2> QED
    BY <2>1, <2>2, <2>3, <2>4 DEF v
<1>4. j.refs \in Vectors
  <2>1. j.refs = [t \in Types |-> j.refs[t]]
    <3> DEFINE e(t) == IF t \in i.refTypes[u] THEN EntriesAt(i.refs[t], PlacesOf(i.refs[t], Files \ {u})) ELSE i.refs[t]
    <3>1. j.refs = [t \in Types |-> e(t)]
      BY <1>2
    <3> HIDE DEF e
    <3> QED
      BY <3>1
  <2> QED
    BY <1>3, <2>1 DEF Vectors
<1>5. j.refTypes \in [Files -> SUBSET Types]
  BY <1>1, <1>2
<1>6. \A t, n : ~Used(ContributionOf(NoFile).uses, t, n)
  BY NothingUsed
<1>7. ASSUME NEW w \in Files, NEW t \in Types, NEW n
      PROVE  /\ Holds(j.refs[t], w, n) <=> Used(ContributionOf(j.files[w]).uses, t, n)
             /\ Holds(j.refs[t], w, n) => t \in j.refTypes[w]
  <2>1. i.files \in [Files -> FileInfo]
    BY DEF ShapeOf
  <2>2. CASE w = u
    <3>1. j.files[w] = NoFile
      BY <2>1, <2>2
    <3> QED
      BY <1>3, <1>6, <2>2, <3>1
  <2>3. CASE w # u
    <3>1. j.files[w] = i.files[w]
      BY <2>1, <2>3
    <3>2. j.refTypes[w] = i.refTypes[w]
      BY <1>1, <1>2, <2>3
    <3> QED
      BY <1>1, <1>3, <2>3, <3>1, <3>2
  <2> QED
    BY <2>2, <2>3
<1> QED
  BY <1>4, <1>5, <1>7 DEF RefsIn

LEMMA IndexRefs ==
  ASSUME NEW i, ShapeOf(i), RefsIn(i), NEW u \in Files, i.files[u] = NoFile,
         NEW file \in FileInfo, NEW c, c = ContributionOf(file), NEW j, IndexedTo(i, u, j, c),
         j.files = [i.files EXCEPT ![u] = file]
  PROVE  RefsIn(j)
<1>1. /\ i.refs \in Vectors /\ i.refTypes \in [Files -> SUBSET Types]
      /\ \A w \in Files, t \in Types : \A n :
           /\ Holds(i.refs[t], w, n) <=> Used(ContributionOf(i.files[w]).uses, t, n)
           /\ Holds(i.refs[t], w, n) => t \in i.refTypes[w]
  BY DEF RefsIn
<1>2. /\ j.refs = [t \in Types |-> i.refs[t] \o SitesOf(u, c.uses, t)]
      /\ j.refTypes = [i.refTypes EXCEPT ![u] = @ \cup {c.uses[k].type : k \in DOMAIN c.uses}]
  BY DEF IndexedTo
<1> DEFINE uses == c.uses
<1>3. uses \in Seq([type : Types, name : Names])
  BY ContributionFields
<1>4. \A k \in DOMAIN uses : uses[k].type \in Types
  <2> DEFINE V == [type : Types, name : Names]
  <2>1. uses \in Seq(V)
    BY <1>3
  <2> HIDE DEF uses, V
  <2>2. \A k \in DOMAIN uses : uses[k] \in V
    BY <2>1
  <2> QED
    BY <2>2 DEF V
<1>5. ASSUME NEW t \in Types
      PROVE  /\ j.refs[t] \in Seq(Instances)
             /\ \A w \in Files : \A n : Holds(j.refs[t], w, n) <=> Holds(i.refs[t], w, n) \/ (w = u /\ Used(uses, t, n))
  <2> DEFINE v == i.refs[t]
             z == j.refs[t]
  <2>1. v \in Seq(Instances)
    BY <1>1 DEF Vectors
  <2>2. z = v \o SitesOf(u, uses, t)
    BY <1>2
  <2>3. HeldWith(v, u, t, uses, z)
    <3> HIDE DEF v, z, uses
    <3> QED
      BY <1>3, <2>1, <2>2, HoldsAdded
  <2> QED
    BY <2>3 DEF HeldWith
<1>6. j.refs \in Vectors
  <2>1. j.refs = [t \in Types |-> j.refs[t]]
    <3> DEFINE e(t) == i.refs[t] \o SitesOf(u, c.uses, t)
    <3>1. j.refs = [t \in Types |-> e(t)]
      BY <1>2
    <3> HIDE DEF e
    <3> QED
      BY <3>1
  <2> QED
    BY <1>5, <2>1 DEF Vectors
<1> DEFINE types == {uses[k].type : k \in DOMAIN uses}
<1>7. /\ j.refTypes \in [Files -> SUBSET Types] /\ j.refTypes[u] = i.refTypes[u] \cup types
      /\ \A w \in Files \ {u} : j.refTypes[w] = i.refTypes[w]
  <2>1. types \in SUBSET Types
    BY <1>4
  <2>2. j.refTypes = [i.refTypes EXCEPT ![u] = @ \cup types]
    BY <1>2
  <2> DEFINE old == i.refTypes
             row == old[u] \cup types
  <2>3. old \in [Files -> SUBSET Types] /\ j.refTypes = [old EXCEPT ![u] = row]
    BY <1>1, <2>2
  <2>4. row \in SUBSET Types
    <3>1. old[u] \in SUBSET Types
      BY <1>1
    <3> HIDE DEF types, old
    <3> QED
      BY <2>1, <3>1
  <2> HIDE DEF old, row
  <2>5. j.refTypes \in [Files -> SUBSET Types] /\ j.refTypes[u] = row /\ \A w \in Files \ {u} : j.refTypes[w] = old[w]
    BY <2>3, <2>4
  <2> QED
    BY <2>5 DEF old, row
<1>8. \A t, n : ~Used(ContributionOf(NoFile).uses, t, n)
  BY NothingUsed
<1>9. \A t, n : Used(uses, t, n) => t \in types
  BY DEF Used
<1> HIDE DEF types
<1>10. ASSUME NEW w \in Files, NEW t \in Types, NEW n
      PROVE  /\ Holds(j.refs[t], w, n) <=> Used(ContributionOf(j.files[w]).uses, t, n)
             /\ Holds(j.refs[t], w, n) => t \in j.refTypes[w]
  <2>1. i.files \in [Files -> FileInfo]
    BY DEF ShapeOf
  <2>2. CASE w = u
    <3>1. j.files[w] = file
      BY <2>1, <2>2
    <3>2. ~Holds(i.refs[t], w, n)
      BY <1>1, <1>8, <2>2
    <3>3. Holds(j.refs[t], w, n) <=> Used(uses, t, n)
      BY <1>5, <2>2, <3>2
    <3>4. ContributionOf(j.files[w]).uses = uses
      BY <3>1
    <3> HIDE DEF uses
    <3> QED
      BY <1>7, <1>9, <2>2, <3>3, <3>4
  <2>3. CASE w # u
    <3>1. j.files[w] = i.files[w]
      BY <2>1, <2>3
    <3>2. j.refTypes[w] = i.refTypes[w]
      BY <1>7, <2>3
    <3> QED
      BY <1>1, <1>5, <2>3, <3>1, <3>2
  <2> QED
    BY <2>2, <2>3
<1> QED
  BY <1>6, <1>7, <1>10 DEF RefsIn

-----------------------------------------------------------------------------
(* The index follows the files and the base game                           *)

\* The vectors hold what the files and the base game contribute, the counters
\* count the vectors, and the buckets hold what the files use.
AmountsFollow(i, b) == \A t \in Types, u \in Files, n \in Names :
  Amount(i.types.map, t, u, n) = Occurrences(ContributionOf(i.files[u]).instances[t], n) + Amount(b, t, u, n)
UrisOf(b) == UNION {{e.uri : e \in ToSet(b[t])} : t \in Types}
Follows(i, b, us) ==
  /\ CountsBut(i.types, i.types.map, {})
  /\ i.types.baseUris = us
  /\ b \in Vectors /\ UrisOf(b) = us
  /\ AmountsFollow(i, b)
  /\ \A u \in BaseFiles : i.files[u] = NoFile
  /\ RefsIn(i)
  /\ NoName \notin i.baseVariables

LEMMA NothingCounted == \A t \in Types : \A n : Occurrences(ContributionOf(NoFile).instances[t], n) = 0
<1> TAKE t \in Types
<1> TAKE n
<1> DEFINE s == ContributionOf(NoFile).instances[t]
<1>1. s = <<>>
  BY DEF ContributionOf, Nothing
<1> HIDE DEF s
<1>2. {k \in DOMAIN s : s[k] = n} = {}
  BY <1>1
<1>3. Cardinality({}) = 0
  BY FS_EmptySet
<1> QED
  BY <1>2, <1>3 DEF Occurrences, s

LEMMA UriOf ==
  ASSUME NEW b
  PROVE  \A t \in Types : \A k \in DOMAIN b[t] : b[t][k].uri \in UrisOf(b)
<1> TAKE t \in Types
<1> TAKE k \in DOMAIN b[t]
<1>1. b[t][k] \in ToSet(b[t])
  BY DEF ToSet
<1> QED
  BY <1>1 DEF UrisOf

LEMMA AmountElsewhere ==
  ASSUME NEW b \in Vectors, NEW t \in Types, NEW u, u \notin UrisOf(b), NEW n
  PROVE  Amount(b, t, u, n) = 0
<1> DEFINE I == {k \in DOMAIN b[t] : b[t][k].uri = u /\ b[t][k].name = n}
<1>1. Amount(b, t, u, n) = Cardinality(I)
  BY AmountStands
<1>2. I = {}
  BY UriOf
<1>3. Cardinality({}) = 0
  BY FS_EmptySet
<1> HIDE DEF I
<1> QED
  BY <1>1, <1>2, <1>3

\* Clearing or indexing a file touches no other file and no base-game variable.
Touches(i, u, j) ==
  j.files = [i.files EXCEPT ![u] = j.files[u]] /\ j.baseVariables = i.baseVariables
LEMMA ClearTouches ==
  ASSUME NEW i, ShapeOf(i), NEW u \in Files, NEW j, j = ClearFile(i, u)
  PROVE  Touches(i, u, j)
<1>0. i.files \in [Files -> FileInfo]
  BY DEF ShapeOf
<1>1. CASE i.files[u] = NoFile
  <2>1. j = i
    BY <1>1 DEF ClearFile
  <2> QED
    BY <1>0, <2>1 DEF Touches
<1>2. CASE i.files[u] # NoFile
  <2>1. j.files = [i.files EXCEPT ![u] = NoFile]
    BY <1>2, ClearedFields
  <2>2. j.files[u] = NoFile
    BY <1>0, <2>1
  <2>3. j.baseVariables = i.baseVariables
    BY <1>2, ClearedIndexes, ZenonT(60) DEF ClearedTo
  <2> QED
    BY <2>1, <2>2, <2>3 DEF Touches
<1> QED
  BY <1>1, <1>2
LEMMA IndexTouches ==
  ASSUME NEW i, Good(i), NEW u \in Files, i.files[u] = NoFile, NEW text \in Texts, NEW r \in Rulesets,
         NEW j, j = IndexFile(i, u, text, r)
  PROVE  Touches(i, u, j)
<1>1. i.valuesOf = ValuesIn(i) /\ i.files \in [Files -> FileInfo] /\ ShapeOf(i)
  BY DEF Good, ShapeOf
<1>2. i.valuesOf \in [Files -> Seq(Symbols)]
  BY <1>1, DefinedType
<1>3. i.valuesOf[u] = <<>>
  BY <1>1, NothingDefined DEF ValuesIn
<1>4. PICK c : c = ContributionOf(j.files[u])
  OBVIOUS
<1>5. IndexedAs(i, u, j, c)
  BY <1>1, <1>2, <1>3, <1>4, IndexedFields
<1>6. IndexedTo(i, u, j, c)
  BY <1>1, <1>4, IndexedIndexes
<1> QED
  BY <1>5, <1>6 DEF IndexedAs, IndexedTo, Touches

\* Clearing a file of the workspace,
LEMMA ClearFollows ==
  ASSUME NEW i, Good(i), PlacedIn(i), NEW b, NEW us \in SUBSET BaseFiles, Follows(i, b, us),
         NEW u \in Workspace, NEW j, j = ClearFile(i, u)
  PROVE  Follows(j, b, us)
<1>1. CASE i.files[u] = NoFile
  BY <1>1 DEF ClearFile
<1>2. CASE i.files[u] # NoFile
  <2>0. ShapeOf(i) /\ u \in Files /\ u \notin BaseFiles
    BY DEF Good, Workspace
  <2>1. ClearedTo(i, u, j)
    BY <1>2, <2>0, ClearedIndexes
  <2>2. j.files = [i.files EXCEPT ![u] = NoFile]
    BY <1>2, <2>0, ClearedFields
  <2>3. /\ CountsBut(i.types, i.types.map, {}) /\ i.types.baseUris = us
        /\ b \in Vectors /\ UrisOf(b) = us /\ AmountsFollow(i, b)
        /\ \A w \in BaseFiles : i.files[w] = NoFile
        /\ RefsIn(i) /\ NoName \notin i.baseVariables
    BY DEF Follows
  <2>4. IndexTyped(i.types) /\ AllPlaced(i.types)
    BY DEF PlacedIn
  <2> DEFINE x == i.types
             y == j.types
  <2>5. y = RemoveFile(x, u) /\ j.baseVariables = i.baseVariables
    BY <2>1 DEF ClearedTo
  <2>6. u \notin x.baseUris
    BY <2>0, <2>3
  <2>7. CountsBut(y, y.map, {})
    <3>1. IndexTyped(x) /\ AllPlaced(x) /\ CountsBut(x, x.map, {})
      BY <2>3, <2>4
    <3> HIDE DEF x, y
    <3> QED
      BY <2>0, <2>5, <2>6, <3>1, RemoveFileCounts
  <2>8. y.baseUris = us
    <3>1. y.baseUris = x.baseUris
      BY <2>0, <2>4, <2>5, <2>6, RemoveFilePlaces
    <3> QED
      BY <2>3, <3>1
  <2>9. i.files \in [Files -> FileInfo]
    BY <2>0 DEF ShapeOf
  <2>10. AmountsFollow(j, b)
    <3>1. \A t \in Types, w \in Files, n \in Names :
             Amount(y.map, t, w, n) = IF w = u THEN 0 ELSE Amount(x.map, t, w, n)
      <4>1. IndexTyped(x) /\ AllPlaced(x)
        BY <2>4
      <4> HIDE DEF x, y
      <4> QED
        BY <2>0, <2>5, <4>1, RemoveFileAmounts
    <3>2. ASSUME NEW t \in Types, NEW w \in Files, NEW n \in Names
          PROVE  Amount(y.map, t, w, n) = Occurrences(ContributionOf(j.files[w]).instances[t], n) + Amount(b, t, w, n)
      <4>1. CASE w = u
        <5>1. j.files[w] = NoFile
          BY <2>2, <2>9, <4>1
        <5>2. Amount(b, t, w, n) = 0
          BY <2>0, <2>3, <4>1, AmountElsewhere
        <5>3. Occurrences(ContributionOf(j.files[w]).instances[t], n) = 0
          BY <5>1, NothingCounted
        <5>4. Amount(y.map, t, w, n) = 0
          BY <3>1, <4>1
        <5> QED
          BY <5>2, <5>3, <5>4
      <4>2. CASE w # u
        <5>1. j.files[w] = i.files[w]
          BY <2>2, <2>9, <4>2
        <5>2. Amount(y.map, t, w, n) = Amount(x.map, t, w, n)
          BY <3>1, <4>2
        <5>3. Amount(x.map, t, w, n) = Occurrences(ContributionOf(i.files[w]).instances[t], n) + Amount(b, t, w, n)
          BY <2>3 DEF AmountsFollow
        <5> QED
          BY <5>1, <5>2, <5>3
      <4> QED
        BY <4>1, <4>2
    <3> QED
      BY <3>2 DEF AmountsFollow
  <2>11. \A w \in BaseFiles : j.files[w] = NoFile
    BY <2>2, <2>3, <2>9
  <2>12. RefsIn(j)
    BY <2>0, <2>1, <2>2, <2>3, ClearRefs
  <2> QED
    BY <2>3, <2>5, <2>7, <2>8, <2>10, <2>11, <2>12 DEF Follows
<1> QED
  BY <1>1, <1>2

\* indexing one that is not in the index,
LEMMA IndexFollows ==
  ASSUME NEW i, Good(i), PlacedIn(i), NEW b, NEW us \in SUBSET BaseFiles, Follows(i, b, us),
         NEW u \in Workspace, i.files[u] = NoFile, NEW text \in Texts, NEW r \in Rulesets,
         NEW j, j = IndexFile(i, u, text, r), Good(j)
  PROVE  Follows(j, b, us)
<1> DEFINE file == j.files[u]
           c == ContributionOf(file)
           x == i.types
           y == j.types
           per == c.instances
<1>0. ShapeOf(i) /\ ShapeOf(j) /\ u \in Files /\ u \notin BaseFiles
  BY DEF Good, Workspace
<1>1. IndexedTo(i, u, j, c)
  <2>1. c = ContributionOf(j.files[u])
    OBVIOUS
  <2> HIDE DEF c
  <2> QED
    BY <1>0, <2>1, IndexedIndexes
<1>2. j.files = [i.files EXCEPT ![u] = file]
  BY <1>0, IndexTouches DEF Touches
<1>3. /\ CountsBut(i.types, i.types.map, {}) /\ i.types.baseUris = us
      /\ b \in Vectors /\ UrisOf(b) = us /\ AmountsFollow(i, b)
      /\ \A w \in BaseFiles : i.files[w] = NoFile
      /\ RefsIn(i) /\ NoName \notin i.baseVariables
  BY DEF Follows
<1>4. IndexTyped(x) /\ AllPlaced(x) /\ CountsBut(x, x.map, {})
  BY <1>3 DEF PlacedIn
<1>5. file \in FileInfo /\ i.files \in [Files -> FileInfo]
  BY <1>0 DEF ShapeOf
<1>6. per \in [Types -> Seq(Names)]
  BY <1>5, ContributionFields
<1>7. y = Merge(x, u, per) /\ j.baseVariables = i.baseVariables
  BY <1>1 DEF IndexedTo
<1> HIDE DEF x, y, per, c, file
<1>8. /\ CountsBut(y, y.map, {})
      /\ \A t \in Types, w \in Files, n \in Names :
           Amount(y.map, t, w, n) = Amount(x.map, t, w, n) + IF w = u THEN Occurrences(per[t], n) ELSE 0
  BY <1>0, <1>4, <1>6, <1>7, MergeCounts
<1>9. y.baseUris = us
  <2>1. Merged(x, VectorsOf(u, per), y)
    BY <1>0, <1>4, <1>6, <1>7, MergePlaces
  <2> QED
    BY <1>3, <2>1 DEF Merged, x
<1>10. ASSUME NEW t \in Types, NEW w \in Files, NEW n \in Names
       PROVE  Amount(y.map, t, w, n) = Occurrences(ContributionOf(j.files[w]).instances[t], n) + Amount(b, t, w, n)
  <2>1. Amount(x.map, t, w, n) = Occurrences(ContributionOf(i.files[w]).instances[t], n) + Amount(b, t, w, n)
    BY <1>3 DEF AmountsFollow, x
  <2>2. Amount(b, t, w, n) \in Nat
    BY <1>3, AmountStands
  <2>3. CASE w = u
    <3>1. Occurrences(ContributionOf(i.files[w]).instances[t], n) = 0
      BY <2>3, NothingCounted
    <3>2. j.files[w] = file
      BY <1>2, <1>5, <2>3
    <3>3. ContributionOf(j.files[w]).instances = per
      BY <3>2 DEF per, c
    <3>4. Occurrences(per[t], n) \in Nat
      BY <1>6, OccurrencesType
    <3>5. Amount(y.map, t, w, n) = Amount(x.map, t, w, n) + Occurrences(per[t], n)
      BY <1>8, <2>3
    <3> QED
      BY <2>1, <2>2, <3>1, <3>3, <3>4, <3>5
  <2>4. CASE w # u
    <3>1. j.files[w] = i.files[w]
      BY <1>2, <1>5, <2>4
    <3>2. Amount(y.map, t, w, n) = Amount(x.map, t, w, n) + 0
      BY <1>8, <2>4
    <3>3. Amount(x.map, t, w, n) \in Nat
      <4>1. x.map \in Vectors
        BY <1>4 DEF IndexTyped, Vectors
      <4> QED
        BY <4>1, AmountStands
    <3> QED
      BY <2>1, <3>1, <3>2, <3>3
  <2> QED
    BY <2>3, <2>4
<1>11. AmountsFollow(j, b)
  BY <1>10 DEF AmountsFollow, y
<1>12. \A w \in BaseFiles : j.files[w] = NoFile
  BY <1>0, <1>2, <1>3, <1>5
<1>13. RefsIn(j)
  BY <1>0, <1>1, <1>2, <1>3, <1>5, IndexRefs DEF c
<1> QED
  BY <1>3, <1>7, <1>8, <1>9, <1>11, <1>12, <1>13 DEF Follows, y

\* and indexing the base game again.
LEMMA RebaseFollows ==
  ASSUME NEW i, Good(i), PlacedIn(i), NEW b, NEW us \in SUBSET BaseFiles, Follows(i, b, us),
         NEW game \in BaseGame, NEW j, j.files = i.files, j.refs = i.refs, j.refTypes = i.refTypes,
         j.baseVariables = i.baseVariables,
         j.types = MergeBaseGame(RemoveFiles(i.types, us), game.instances)
  PROVE  Follows(j, game.instances, UrisOf(game.instances)) /\ UrisOf(game.instances) \subseteq BaseFiles
<1> DEFINE x == i.types
           y == RemoveFiles(x, us)
           per == game.instances
           z == MergeBaseGame(y, per)
<1>1. /\ CountsBut(i.types, i.types.map, {}) /\ i.types.baseUris = us
      /\ b \in Vectors /\ UrisOf(b) = us /\ AmountsFollow(i, b)
      /\ \A w \in BaseFiles : i.files[w] = NoFile
      /\ RefsIn(i) /\ NoName \notin i.baseVariables
  BY DEF Follows
<1>2. IndexTyped(x) /\ AllPlaced(x) /\ CountsBut(x, x.map, {}) /\ x.baseUris = us
  BY <1>1 DEF PlacedIn
<1>3. j.types = z
  OBVIOUS
<1> HIDE DEF x
<1>4. IndexTyped(y) /\ AllPlaced(y) /\ y.baseUris = x.baseUris \ us
  BY <1>2, RemoveFilesPlaces
<1>5. /\ CountsBut(y, y.map, {})
      /\ \A t \in Types, w \in Files, n \in Names :
           Amount(y.map, t, w, n) = IF w \in us THEN 0 ELSE Amount(x.map, t, w, n)
  <2>1. us \subseteq BaseFiles /\ us \subseteq x.baseUris
    BY <1>2
  <2> QED
    BY <1>2, <2>1, RemoveFilesCounts
<1> HIDE DEF y
<1>6. per \in Vectors
  BY BaseInstances DEF Vectors
<1>7. ASSUME NEW t \in Types, NEW e \in ToSet(per[t]) PROVE e.uri \in BaseFiles
  <2> DEFINE V == [uri : BaseFiles, name : Names]
             v == per[t]
  <2>1. v \in Seq(V)
    BY InfoIndexAssumption
  <2> HIDE DEF V, v
  <2>2. e \in V
    BY <1>7, <2>1, MemberOfSeq DEF v
  <2> QED
    BY <2>2 DEF V
<1>8. UrisOf(per) \subseteq BaseFiles
  BY <1>7 DEF UrisOf
<1>9. \A t \in Types : \A k \in DOMAIN per[t] : per[t][k].uri \in BaseFiles
  BY <1>8, UriOf
<1> HIDE DEF per
<1>10. BaseMerged(y, per, z)
  BY <1>4, <1>6, MergeBaseGamePlaces DEF Vectors
<1>11. /\ CountsBut(z, z.map, {})
       /\ \A t \in Types, w \in Files, n \in Names :
            Amount(z.map, t, w, n) = Amount(y.map, t, w, n) + Amount(per, t, w, n)
  <2> HIDE DEF z
  <2>1. z = MergeBaseGame(y, per)
    BY DEF z
  <2> QED
    BY <1>4, <1>5, <1>6, <1>9, <2>1, MergeBaseGameCounts
<1> HIDE DEF z
<1>12. z.baseUris = UrisOf(per)
  <2>1. z.baseUris = y.baseUris \cup UrisOf(per)
    BY <1>10 DEF BaseMerged, UrisOf
  <2> QED
    BY <1>2, <1>4, <2>1
<1>13. ASSUME NEW t \in Types, NEW w \in Files, NEW n \in Names
       PROVE  Amount(z.map, t, w, n) = Occurrences(ContributionOf(j.files[w]).instances[t], n) + Amount(per, t, w, n)
  <2>1. Amount(x.map, t, w, n) = Occurrences(ContributionOf(i.files[w]).instances[t], n) + Amount(b, t, w, n)
    BY <1>1 DEF AmountsFollow, x
  <2>2. Amount(y.map, t, w, n) = Occurrences(ContributionOf(i.files[w]).instances[t], n)
    <3>1. CASE w \in us
      <4>1. i.files[w] = NoFile
        BY <1>1, <3>1
      <4>2. Amount(y.map, t, w, n) = 0
        BY <1>5, <3>1
      <4> QED
        BY <4>1, <4>2, NothingCounted
    <3>2. CASE w \notin us
      <4>1. Amount(b, t, w, n) = 0
        BY <1>1, <3>2, AmountElsewhere
      <4>2. i.files[w] \in FileInfo
        BY DEF Good, ShapeOf
      <4>3. Occurrences(ContributionOf(i.files[w]).instances[t], n) \in Nat
        <5>1. ContributionOf(i.files[w]).instances \in [Types -> Seq(Names)]
          BY <4>2, ContributionFields
        <5> QED
          BY <5>1, OccurrencesType
      <4>4. Amount(y.map, t, w, n) = Amount(x.map, t, w, n)
        BY <1>5, <3>2
      <4> QED
        BY <2>1, <4>1, <4>3, <4>4
    <3> QED
      BY <3>1, <3>2
  <2> QED
    BY <1>11, <2>2
<1>14. AmountsFollow(j, per)
  BY <1>3, <1>13 DEF AmountsFollow
<1>15. RefsIn(j)
  BY <1>1 DEF RefsIn
<1>16. Follows(j, per, UrisOf(per))
  BY <1>1, <1>3, <1>6, <1>11, <1>12, <1>14, <1>15 DEF Follows
<1> QED
  BY <1>8, <1>16 DEF per

-----------------------------------------------------------------------------
(* The index follows them in every state                                   *)

TableInv == Follows(info, base, baseUris)

\* An empty service follows no files and no base game.
LEMMA EmptyFollows ==
  ASSUME NEW r \in Rulesets, NEW i, i = UpdateRulesetData(EmptyInfo, r), NEW b, b = [t \in Types |-> <<>>]
  PROVE  Follows(i, b, {})
<1>1. /\ i.files = [u \in Files |-> NoFile] /\ i.types = EmptyIndex /\ i.baseVariables = {}
      /\ i.refs = b /\ i.refTypes = [u \in Files |-> {}]
  BY DEF UpdateRulesetData, EmptyInfo
<1> DEFINE x == EmptyIndex
<1>2. /\ x.map = b /\ x.baseUris = {} /\ x.nameCounts = [n \in Names |-> 0]
      /\ x.refs = [t \in Types |-> [n \in Names |-> [total |-> 0, workspace |-> 0]]]
  BY DEF EmptyIndex, NoRefs
<1> HIDE DEF x
<1>3. b \in Vectors
  <2>1. \A S : <<>> \in Seq(S)
    OBVIOUS
  <2> QED
    BY <2>1 DEF Vectors
<1>4. \A kind : Carrying(b, kind) = {}
  <2>1. Slots(b) = {}
    BY SlotOf
  <2> QED
    BY <2>1 DEF Carrying
<1>5. Cardinality({}) = 0
  BY FS_EmptySet
<1>6. CountsBut(x, b, {})
  <2>1. \A kind : Cardinality(Carrying(b, kind) \ {}) = 0
    BY <1>4, <1>5
  <2>2. x.nameCounts \in [Names -> Nat] /\ \A n \in Names : x.nameCounts[n] = 0
    BY <1>2
  <2>3. x.refs \in [Types -> [Names -> RefCounts]]
    BY <1>2 DEF RefCounts
  <2>4. \A t \in Types, n \in Names : x.refs[t][n].total = 0 /\ x.refs[t][n].workspace = 0
    BY <1>2
  <2> QED
    BY <2>1, <2>2, <2>3, <2>4 DEF CountsBut
<1>7. UrisOf(b) = {}
  BY DEF UrisOf, ToSet
<1>8. AmountsFollow(i, b)
  <2>1. ASSUME NEW t \in Types, NEW u \in Files, NEW n \in Names
        PROVE  Amount(b, t, u, n) = Occurrences(ContributionOf(i.files[u]).instances[t], n) + Amount(b, t, u, n)
    <3>1. i.files[u] = NoFile
      BY <1>1
    <3>2. Amount(b, t, u, n) = 0
      BY <1>4, <1>5 DEF Amount
    <3>3. Occurrences(ContributionOf(i.files[u]).instances[t], n) = 0
      BY <3>1, NothingCounted
    <3> QED
      BY <3>2, <3>3
  <2>2. i.types.map = b
    BY <1>1, <1>2 DEF x
  <2> QED
    BY <2>1, <2>2 DEF AmountsFollow
<1>9. RefsIn(i)
  <2>1. i.refTypes \in [Files -> SUBSET Types]
    BY <1>1
  <2>2. ASSUME NEW u \in Files, NEW t \in Types, NEW n
        PROVE  ~Holds(i.refs[t], u, n) /\ ~Used(ContributionOf(i.files[u]).uses, t, n)
    BY <1>1, NothingUsed DEF Holds
  <2> QED
    BY <1>1, <1>3, <2>1, <2>2 DEF RefsIn
<1>10. \A u \in BaseFiles : i.files[u] = NoFile
  BY <1>1, InfoIndexAssumption
<1> QED
  BY <1>1, <1>2, <1>3, <1>6, <1>7, <1>8, <1>9, <1>10 DEF Follows, x

\* What is kept beside the files, the vectors and the buckets does not matter.
LEMMA FollowsBeside ==
  ASSUME NEW i, NEW b, NEW us, Follows(i, b, us), NEW j, j.files = i.files, j.types = i.types,
         j.refs = i.refs, j.refTypes = i.refTypes, NoName \notin j.baseVariables
  PROVE  Follows(j, b, us)
BY DEF Follows, AmountsFollow, RefsIn

LEMMA TableInit == Init => TableInv
<1> SUFFICES ASSUME Init PROVE TableInv
  OBVIOUS
<1>1. rules \in Rulesets /\ info = UpdateRulesetData(EmptyInfo, rules) /\ base = [t \in Types |-> <<>>] /\ baseUris = {}
  BY DEF Init
<1> QED
  BY <1>1, EmptyFollows DEF TableInv

LEMMA TableStep == IInv /\ IInv' /\ PlacesInv /\ TableInv /\ [Next]_vars => TableInv'
<1> SUFFICES ASSUME IInv, IInv', PlacedIn(info), Follows(info, base, baseUris), [Next]_vars
             PROVE  Follows(info', base', baseUris')
  BY DEF PlacesInv, TableInv
<1>0. Good(info) /\ Good(info') /\ ShapeOf(info) /\ baseUris \in SUBSET BaseFiles /\ NoName \notin info.baseVariables
  BY DEF IInv, Good, Follows
<1>1. ASSUME NEW p \in Indexers, Install(p) PROVE Follows(info', base', baseUris')
  <2> DEFINE u == job[p].uri
             cleared == ClearFile(info, u)
  <2>1. u \in Workspace /\ u \in Files /\ job[p].text \in Texts /\ job[p].rules \in Rulesets
    BY <1>1 DEF IInv, Install, Workspace
  <2>2. Good(cleared) /\ cleared.files[u] = NoFile
    BY <1>0, <2>1, ClearKeeps
  <2>3. PlacedIn(cleared)
    BY <1>0, <2>1, ClearPlaced
  <2>4. Follows(cleared, base, baseUris)
    <3> HIDE DEF u
    <3> QED
      BY <1>0, <2>1, ClearFollows
  <2>5. info' = IndexFile(cleared, u, job[p].text, job[p].rules) /\ base' = base /\ baseUris' = baseUris
    BY <1>1 DEF Install
  <2> HIDE DEF cleared, u
  <2>6. Follows(info', base, baseUris)
    BY <1>0, <2>1, <2>2, <2>3, <2>4, <2>5, IndexFollows
  <2> QED
    BY <2>5, <2>6
<1>2. ASSUME NEW u \in Workspace, Forget(u) PROVE Follows(info', base', baseUris')
  <2>1. info' = ClearFile(info, u) /\ base' = base /\ baseUris' = baseUris
    BY <1>2 DEF Forget
  <2>2. Follows(info', base, baseUris)
    BY <1>0, <2>1, ClearFollows
  <2> QED
    BY <2>1, <2>2
<1>3. ASSUME NEW game \in BaseGame, MergeVanilla(game) PROVE Follows(info', base', baseUris')
  <2>1. /\ info' = [info EXCEPT !.types = MergeBaseGame(RemoveFiles(@, baseUris), game.instances)]
        /\ base' = game.instances /\ baseUris' = UrisOf(base')
    BY <1>3 DEF MergeVanilla, UrisOf
  <2>2. /\ info'.types = MergeBaseGame(RemoveFiles(info.types, baseUris), game.instances)
        /\ info'.files = info.files /\ info'.refs = info.refs /\ info'.refTypes = info.refTypes
        /\ info'.baseVariables = info.baseVariables
    BY <1>0, <2>1 DEF ShapeOf, Fields
  <2>3. Follows(info', game.instances, UrisOf(game.instances))
    BY <1>0, <2>2, RebaseFollows
  <2> QED
    BY <2>1, <2>3
<1>4. ASSUME NEW r \in Rulesets, SetRuleset(r) PROVE Follows(info', base', baseUris')
  <2>1. info' = [info EXCEPT !.effects = r, !.keys = NoKeys] /\ base' = base /\ baseUris' = baseUris
    BY <1>4 DEF SetRuleset, UpdateRulesetData
  <2>2. /\ info'.files = info.files /\ info'.types = info.types /\ info'.refs = info.refs
        /\ info'.refTypes = info.refTypes /\ info'.baseVariables = info.baseVariables
    BY <1>0, <2>1 DEF ShapeOf, Fields
  <2>3. Follows(info', base, baseUris)
    BY <1>0, <2>2, FollowsBeside
  <2> QED
    BY <2>1, <2>3
<1>5. ASSUME NEW S, NoName \notin S, info' = [info EXCEPT !.baseVariables = S], UNCHANGED <<base, baseUris>>
      PROVE  Follows(info', base', baseUris')
  <2>1. /\ info'.files = info.files /\ info'.types = info.types /\ info'.refs = info.refs
        /\ info'.refTypes = info.refTypes /\ info'.baseVariables = S
    BY <1>0, <1>5 DEF ShapeOf, Fields
  <2>2. Follows(info', base, baseUris)
    BY <1>5, <2>1, FollowsBeside
  <2> QED
    BY <1>5, <2>2
<1>6. CASE (\E p \in Indexers : Overtaken(p)) \/ (\E p \in Indexers, u \in Workspace, text \in Texts : Collect(p, u, text))
           \/ UNCHANGED vars
  <2>1. info' = info /\ base' = base /\ baseUris' = baseUris
    BY <1>6 DEF Overtaken, Collect, vars
  <2> QED
    BY <2>1
<1>7. ASSUME NEW game \in BaseGame, SetVanillaNames(game) PROVE Follows(info', base', baseUris')
  BY <1>5, <1>7 DEF SetVanillaNames
<1>8. CASE ClearVanillaState
  BY <1>5, <1>8 DEF ClearVanillaState
<1> QED
  BY <1>1, <1>2, <1>3, <1>4, <1>6, <1>7, <1>8 DEF Next

\* In every reachable state the index follows the files and the base game.
LEMMA TableInvariance == Spec => [](IInv /\ PlacesInv /\ TableInv)
BY InitInv, StepInv, PlacesInit, PlacesStep, TableInit, TableStep, PTL DEF Spec

-----------------------------------------------------------------------------
(* The answers are those of the table                                      *)

\* Two sets that map to a finite one with as many elements over each of its
\* elements are as large as each other.
SameParts(W, A, f, B, h) == \A w \in W :
  /\ IsFiniteSet({a \in A : f[a] = w}) /\ IsFiniteSet({b \in B : h[b] = w})
  /\ Cardinality({a \in A : f[a] = w}) = Cardinality({b \in B : h[b] = w})
LEMMA PartsCount ==
  ASSUME NEW W, IsFiniteSet(W), NEW A, NEW B, NEW f \in [A -> W], NEW h \in [B -> W], SameParts(W, A, f, B, h)
  PROVE  Cardinality(A) = Cardinality(B)
<1> DEFINE over(C, g, V) == {c \in C : g[c] \in V}
           part(C, g, w) == {c \in C : g[c] = w}
           G == {V \in SUBSET W : /\ IsFiniteSet(over(A, f, V)) /\ IsFiniteSet(over(B, h, V))
                                  /\ Cardinality(over(A, f, V)) = Cardinality(over(B, h, V))}
<1>1. \A V : V \in G <=> /\ V \in SUBSET W
                         /\ IsFiniteSet(over(A, f, V)) /\ IsFiniteSet(over(B, h, V))
                         /\ Cardinality(over(A, f, V)) = Cardinality(over(B, h, V))
  OBVIOUS
<1>2. G \subseteq SUBSET W
  BY <1>1
<1> HIDE DEF G
<1>3. G = SUBSET W
  <2> SUFFICES ASSUME G # SUBSET W PROVE FALSE
    OBVIOUS
  <2>1. PICK V \in SUBSET W : V \notin G /\ \A U \in SUBSET V : U # V => U \in G
    BY <1>2, LeastSubset
  <2>2. CASE V = {}
    <3>1. over(A, f, V) = {} /\ over(B, h, V) = {}
      BY <2>2
    <3>2. IsFiniteSet({})
      BY FS_EmptySet
    <3> QED
      BY <1>1, <2>1, <3>1, <3>2
  <2>3. CASE V # {}
    <3>1. PICK w \in V : TRUE
      BY <2>3
    <3> DEFINE U == V \ {w}
    <3>2. U \in G
      BY <2>1
    <3> DEFINE a == over(A, f, U)
               b == over(B, h, U)
               c == part(A, f, w)
               d == part(B, h, w)
    <3>3. IsFiniteSet(a) /\ IsFiniteSet(b) /\ Cardinality(a) = Cardinality(b)
      BY <1>1, <3>2
    <3>4. IsFiniteSet(c) /\ IsFiniteSet(d) /\ Cardinality(c) = Cardinality(d)
      BY DEF SameParts
    <3>5. /\ over(A, f, V) = a \cup c /\ over(B, h, V) = b \cup d
          /\ a \cap c = {} /\ b \cap d = {}
      OBVIOUS
    <3> HIDE DEF a, b, c, d
    <3>6. /\ IsFiniteSet(a \cup c) /\ Cardinality(a \cup c) = Cardinality(a) + Cardinality(c)
          /\ IsFiniteSet(b \cup d) /\ Cardinality(b \cup d) = Cardinality(b) + Cardinality(d)
      BY <3>3, <3>4, <3>5, TogetherCount
    <3> QED
      BY <1>1, <2>1, <3>3, <3>4, <3>5, <3>6
  <2> QED
    BY <2>2, <2>3
<1>4. over(A, f, W) = A /\ over(B, h, W) = B
  OBVIOUS
<1> QED
  BY <1>1, <1>3, <1>4

\* A count is positive when there is something to count.
LEMMA Positive ==
  ASSUME NEW S, IsFiniteSet(S)
  PROVE  Cardinality(S) \in Nat /\ (Cardinality(S) > 0 <=> S # {})
<1>1. Cardinality(S) \in Nat
  BY FS_CardinalityType
<1>2. Cardinality(S) = 0 <=> S = {}
  BY FS_EmptySet
<1> QED
  BY <1>1, <1>2

\* An instance stands in a vector because a file contributes it or the base
\* game does.
Contributed(i, t, u, n) == \E k \in DOMAIN ContributionOf(i.files[u]).instances[t] :
                              ContributionOf(i.files[u]).instances[t][k] = n
LEMMA StandsFrom ==
  ASSUME NEW i, ShapeOf(i), i.types.map \in Vectors, NEW b \in Vectors, AmountsFollow(i, b),
         NEW t \in Types, NEW u \in Files, NEW n \in Names
  PROVE  Holds(i.types.map[t], u, n) <=> Contributed(i, t, u, n) \/ Holds(b[t], u, n)
<1> DEFINE map == i.types.map
           s == ContributionOf(i.files[u]).instances[t]
           K == {k \in DOMAIN s : s[k] = n}
           I == {k \in DOMAIN map[t] : map[t][k].uri = u /\ map[t][k].name = n}
           J == {k \in DOMAIN b[t] : b[t][k].uri = u /\ b[t][k].name = n}
<1>1. Amount(map, t, u, n) = Occurrences(s, n) + Amount(b, t, u, n)
  BY DEF AmountsFollow
<1>2. IsFiniteSet(I) /\ Amount(map, t, u, n) = Cardinality(I)
  <2> HIDE DEF map
  <2> QED
    BY AmountStands DEF map
<1>3. IsFiniteSet(J) /\ Amount(b, t, u, n) = Cardinality(J)
  BY AmountStands
<1>4. IsFiniteSet(K) /\ Occurrences(s, n) = Cardinality(K)
  <2>1. i.files[u] \in FileInfo
    BY DEF ShapeOf
  <2>2. s \in Seq(Names)
    BY <2>1, ContributionFields
  <2> HIDE DEF s
  <2> QED
    BY <2>2, OccurrencesType DEF Occurrences
<1>5. /\ Holds(map[t], u, n) <=> I # {}
      /\ Contributed(i, t, u, n) <=> K # {}
      /\ Holds(b[t], u, n) <=> J # {}
  BY DEF Holds, Contributed
<1> HIDE DEF I, J, K, s, map
<1>6. /\ Cardinality(I) \in Nat /\ (Cardinality(I) > 0 <=> I # {})
      /\ Cardinality(J) \in Nat /\ (Cardinality(J) > 0 <=> J # {})
      /\ Cardinality(K) \in Nat /\ (Cardinality(K) > 0 <=> K # {})
  BY <1>2, <1>3, <1>4, Positive
<1>7. Cardinality(I) = Cardinality(K) + Cardinality(J)
  BY <1>1, <1>2, <1>3, <1>4
<1>8. I # {} <=> K # {} \/ J # {}
  BY <1>6, <1>7
<1> QED
  BY <1>5, <1>8 DEF map

-----------------------------------------------------------------------------
(* The names: known, of any type, duplicated, listed in the outline        *)

Mods(i) == [u \in Files |-> ContributionOf(i.files[u])]

\* A vector has an instance whose name folds to n.
Spells(v, n) == \E k \in DOMAIN v : Lower[v[k].name] = n
LEMMA SpelledBy ==
  ASSUME NEW v \in Seq(Instances), NEW n
  PROVE  Spells(v, n) <=> \E u \in Files, x \in Names : Lower[x] = n /\ Holds(v, u, x)
<1>1. \A k \in DOMAIN v : v[k].uri \in Files /\ v[k].name \in Names
  <2>1. \A k \in DOMAIN v : v[k] \in Instances
    OBVIOUS
  <2> QED
    BY <2>1 DEF Instances
<1> QED
  BY <1>1 DEF Spells, Holds

\* The counters tell which names there are.
LEMMA CountersTell ==
  ASSUME NEW x, NEW map \in Vectors, CountsBut(x, map, {}), NEW n \in Names
  PROVE  /\ \A t \in Types : x.refs[t][n].total > 0 <=> Spells(map[t], n)
         /\ x.nameCounts[n] > 0 <=> \E t \in Types \ Subtypes : Spells(map[t], n)
<1>1. \A kind : Carrying(map, kind) \ {} = Carrying(map, kind)
  OBVIOUS
<1>2. /\ \A t \in Types : x.refs[t][n].total = Cardinality(Carrying(map, Named(t, n)))
      /\ x.nameCounts[n] = Cardinality(Carrying(map, Anywhere(n)))
  BY <1>1 DEF CountsBut
<1>3. ASSUME NEW kind
      PROVE  /\ IsFiniteSet(Carrying(map, kind)) /\ Carrying(map, kind) \subseteq Slots(map)
             /\ Cardinality(Carrying(map, kind)) > 0 <=> Carrying(map, kind) # {}
  <2>1. IsFiniteSet(Carrying(map, kind)) /\ Carrying(map, kind) \subseteq Slots(map)
    BY CarryingSlots
  <2> QED
    BY <2>1, Positive
<1>4. ASSUME NEW t \in Types, NEW k \in DOMAIN map[t] PROVE <<t, k>> \in Slots(map)
  BY SlotOf
<1>5. ASSUME NEW t \in Types PROVE x.refs[t][n].total > 0 <=> Spells(map[t], n)
  <2>1. \A s \in Slots(map) : s \in Carrying(map, Named(t, n)) <=> s[1] = t /\ Lower[map[t][s[2]].name] = n
    BY CarryingSlots
  <2>2. ASSUME Carrying(map, Named(t, n)) # {} PROVE Spells(map[t], n)
    <3>1. PICK s \in Carrying(map, Named(t, n)) : TRUE
      BY <2>2
    <3>2. s \in Slots(map) /\ s[1] = t /\ Lower[map[t][s[2]].name] = n
      BY <1>3, <2>1
    <3>3. s[2] \in DOMAIN map[t]
      BY <3>2, SlotOf
    <3> QED
      BY <3>2, <3>3 DEF Spells
  <2>3. ASSUME Spells(map[t], n) PROVE Carrying(map, Named(t, n)) # {}
    <3>1. PICK k \in DOMAIN map[t] : Lower[map[t][k].name] = n
      BY <2>3 DEF Spells
    <3> DEFINE s == <<t, k>>
    <3>2. s \in Slots(map) /\ s[1] = t /\ s[2] = k
      BY <1>4
    <3> HIDE DEF s
    <3> QED
      BY <2>1, <3>1, <3>2
  <2> QED
    BY <1>2, <1>3, <2>2, <2>3
<1>6. x.nameCounts[n] > 0 <=> \E t \in Types \ Subtypes : Spells(map[t], n)
  <2>1. \A s \in Slots(map) : s \in Carrying(map, Anywhere(n)) <=> s[1] \notin Subtypes /\ Lower[map[s[1]][s[2]].name] = n
    <3> TAKE s \in Slots(map)
    <3>1. s[1] \in Types
      BY SlotOf
    <3> QED
      BY <3>1, CarryingSlots
  <2>2. ASSUME Carrying(map, Anywhere(n)) # {} PROVE \E t \in Types \ Subtypes : Spells(map[t], n)
    <3>1. PICK s \in Carrying(map, Anywhere(n)) : TRUE
      BY <2>2
    <3>2. s \in Slots(map) /\ s[1] \notin Subtypes /\ Lower[map[s[1]][s[2]].name] = n
      BY <1>3, <2>1
    <3>3. s[1] \in Types /\ s[2] \in DOMAIN map[s[1]]
      BY <3>2, SlotOf
    <3>4. Spells(map[s[1]], n)
      BY <3>2, <3>3 DEF Spells
    <3> QED
      BY <3>2, <3>3, <3>4
  <2>3. ASSUME NEW t \in Types \ Subtypes, Spells(map[t], n) PROVE Carrying(map, Anywhere(n)) # {}
    <3>1. PICK k \in DOMAIN map[t] : Lower[map[t][k].name] = n
      BY <2>3 DEF Spells
    <3> DEFINE s == <<t, k>>
    <3>2. s \in Slots(map) /\ s[1] = t /\ s[2] = k
      BY <1>4
    <3> HIDE DEF s
    <3> QED
      BY <2>1, <3>1, <3>2
  <2> QED
    BY <1>2, <1>3, <2>2, <2>3
<1> QED
  BY <1>5, <1>6

\* Where the table has a definition of a name.
LEMMA DefinedPlaces ==
  ASSUME NEW i, NEW t \in Types, NEW n
  PROVE  \A p : p \in Table!DefinedBy(Mods(i), t, n) <=>
           /\ p = <<p[1], p[2]>> /\ p[1] \in Files
           /\ p[2] \in DOMAIN ContributionOf(i.files[p[1]]).instances[t]
           /\ Lower[ContributionOf(i.files[p[1]]).instances[t][p[2]]] = n
<1> DEFINE own(u) == ContributionOf(i.files[u]).instances[t]
           at(u) == {k \in DOMAIN own(u) : Lower[own(u)[k]] = n}
<1>1. \A u \in Files : Mods(i)[u].instances[t] = own(u)
  BY DEF Mods
<1>2. Table!DefinedBy(Mods(i), t, n) = UNION {{u} \X at(u) : u \in Files}
  BY <1>1 DEF Table!DefinedBy, Table!Fold
<1>3. \A u : \A k : k \in at(u) <=> k \in DOMAIN own(u) /\ Lower[own(u)[k]] = n
  OBVIOUS
<1> HIDE DEF at
<1>4. \A p : p \in UNION {{u} \X at(u) : u \in Files} <=> p = <<p[1], p[2]>> /\ p[1] \in Files /\ p[2] \in at(p[1])
  OBVIOUS
<1> QED
  BY <1>2, <1>3, <1>4

\* A name stands in the vector of a type when the table has it.
LEMMA TableKnows ==
  ASSUME NEW i, ShapeOf(i), i.types.map \in Vectors, NEW b \in Vectors, AmountsFollow(i, b),
         NEW t \in Types, NEW n \in Names
  PROVE  Spells(i.types.map[t], n) <=> Table!DefinedBy(Mods(i), t, n) # {} \/ Table!InBase(b, t, n)
<1> DEFINE map == i.types.map
           own(u) == ContributionOf(i.files[u]).instances[t]
<1>1. map[t] \in Seq(Instances) /\ b[t] \in Seq(Instances)
  BY DEF Vectors
<1> HIDE DEF map
<1>2. Spells(map[t], n) <=> \E u \in Files, x \in Names : Lower[x] = n /\ Holds(map[t], u, x)
  BY <1>1, SpelledBy
<1>3. Spells(b[t], n) <=> \E u \in Files, x \in Names : Lower[x] = n /\ Holds(b[t], u, x)
  BY <1>1, SpelledBy
<1>4. \A u \in Files, x \in Names : Holds(map[t], u, x) <=> Contributed(i, t, u, x) \/ Holds(b[t], u, x)
  BY StandsFrom DEF map
<1>5. \A u \in Files : own(u) \in Seq(Names)
  <2> TAKE u \in Files
  <2>1. i.files[u] \in FileInfo
    BY DEF ShapeOf
  <2> QED
    BY <2>1, ContributionFields
<1>6. \A u \in Files : \A k \in DOMAIN own(u) : own(u)[k] \in Names
  <2> TAKE u \in Files
  <2> DEFINE s == own(u)
  <2>1. s \in Seq(Names)
    BY <1>5
  <2> HIDE DEF s
  <2>2. \A k \in DOMAIN s : s[k] \in Names
    BY <2>1
  <2> QED
    BY <2>2 DEF s
<1>7. \A u \in Files : \A x : Contributed(i, t, u, x) <=> \E k \in DOMAIN own(u) : own(u)[k] = x
  BY DEF Contributed
<1>8. Table!DefinedBy(Mods(i), t, n) # {} <=> \E u \in Files : \E k \in DOMAIN own(u) : Lower[own(u)[k]] = n
  <2> DEFINE D == Table!DefinedBy(Mods(i), t, n)
  <2>1. \A p : p \in D <=> p = <<p[1], p[2]>> /\ p[1] \in Files /\ p[2] \in DOMAIN own(p[1]) /\ Lower[own(p[1])[p[2]]] = n
    BY DefinedPlaces
  <2> HIDE DEF D, own
  <2>2. ASSUME NEW u \in Files, NEW k \in DOMAIN own(u), Lower[own(u)[k]] = n PROVE D # {}
    <3> DEFINE p == <<u, k>>
    <3>1. p = <<p[1], p[2]>> /\ p[1] = u /\ p[2] = k
      OBVIOUS
    <3> HIDE DEF p
    <3>2. p \in D
      BY <2>1, <2>2, <3>1
    <3> QED
      BY <3>2
  <2>3. ASSUME NEW p \in D PROVE \E u \in Files : \E k \in DOMAIN own(u) : Lower[own(u)[k]] = n
    BY <2>1
  <2> QED
    BY <2>2, <2>3 DEF D
<1> HIDE DEF own
<1>9. Table!DefinedBy(Mods(i), t, n) # {} <=> \E u \in Files, x \in Names : Lower[x] = n /\ Contributed(i, t, u, x)
  BY <1>6, <1>7, <1>8
<1>10. Table!InBase(b, t, n) <=> Spells(b[t], n)
  BY DEF Table!InBase, Table!Fold, Spells
<1> QED
  BY <1>2, <1>3, <1>4, <1>9, <1>10 DEF map

-----------------------------------------------------------------------------
(* Duplicates and outlines                                                 *)

\* The workspace count of a name is the number of places where files define it.
LEMMA DuplicatesCount ==
  ASSUME NEW i, ShapeOf(i), PlacedIn(i), NEW b, NEW us \in SUBSET BaseFiles, Follows(i, b, us),
         NEW t \in Types, NEW n \in Names
  PROVE  i.types.refs[t][n].workspace = Cardinality(Table!DefinedBy(Mods(i), t, n))
<1> DEFINE map == i.types.map
           own(u) == ContributionOf(i.files[u]).instances[t]
           W == {w \in Files \X Names : w[1] \notin BaseFiles /\ Lower[w[2]] = n}
           A == Carrying(map, Ours(t, n))
           B == Table!DefinedBy(Mods(i), t, n)
           f == [s \in A |-> <<map[s[1]][s[2]].uri, map[s[1]][s[2]].name>>]
           h == [p \in B |-> <<p[1], own(p[1])[p[2]]>>]
<1>1. /\ CountsBut(i.types, map, {}) /\ b \in Vectors /\ UrisOf(b) \subseteq BaseFiles /\ AmountsFollow(i, b)
      /\ \A u \in BaseFiles : i.files[u] = NoFile
  BY DEF Follows
<1>2. map \in Vectors
  BY DEF PlacedIn, IndexTyped, Vectors
<1>3. i.types.refs[t][n].workspace = Cardinality(A)
  <2>1. i.types.refs[t][n].workspace = Cardinality(A \ {})
    BY <1>1 DEF CountsBut
  <2>2. A \ {} = A
    OBVIOUS
  <2> QED
    BY <2>1, <2>2
<1>4. IsFiniteSet(W)
  <2>1. IsFiniteSet(Files \X Names)
    BY TypeIndexAssumption, FS_Product
  <2>2. W \in SUBSET (Files \X Names)
    OBVIOUS
  <2> HIDE DEF W
  <2> QED
    BY <2>1, <2>2, FS_Subset
<1>5. \A w : w \in W <=> w = <<w[1], w[2]>> /\ w[1] \in Files /\ w[1] \notin BaseFiles /\ w[2] \in Names /\ Lower[w[2]] = n
  OBVIOUS
<1> HIDE DEF W
<1>6. \A u \in Files : own(u) \in Seq(Names)
  <2> TAKE u \in Files
  <2>1. i.files[u] \in FileInfo
    BY DEF ShapeOf
  <2> QED
    BY <2>1, ContributionFields
<1>7. \A u \in Files : \A k \in DOMAIN own(u) : own(u)[k] \in Names
  <2> TAKE u \in Files
  <2> DEFINE s == own(u)
  <2>1. s \in Seq(Names)
    BY <1>6
  <2> HIDE DEF s
  <2>2. \A k \in DOMAIN s : s[k] \in Names
    BY <2>1
  <2> QED
    BY <2>2 DEF s
<1>8. \A u \in BaseFiles : DOMAIN own(u) = {}
  BY <1>1 DEF ContributionOf, Nothing
<1>9. \A p : p \in B <=> p = <<p[1], p[2]>> /\ p[1] \in Files /\ p[2] \in DOMAIN own(p[1]) /\ Lower[own(p[1])[p[2]]] = n
  BY DefinedPlaces
<1>10. \A u \in Files, x \in Names : u \notin BaseFiles => Amount(map, t, u, x) = Occurrences(own(u), x)
  <2> TAKE u \in Files, x \in Names
  <2>1. Amount(map, t, u, x) = Occurrences(own(u), x) + Amount(b, t, u, x)
    BY <1>1 DEF AmountsFollow
  <2>2. Occurrences(own(u), x) \in Nat
    <3>1. own(u) \in Seq(Names)
      BY <1>6
    <3> HIDE DEF own
    <3> QED
      BY <3>1, OccurrencesType
  <2>3. ASSUME u \notin BaseFiles PROVE Amount(b, t, u, x) = 0
    BY <1>1, <2>3, AmountElsewhere
  <2> QED
    BY <2>1, <2>2, <2>3
<1> HIDE DEF map, own, B
<1>11. \A s \in A : /\ s \in Slots(map) /\ s[1] = t /\ Lower[map[t][s[2]].name] = n /\ map[t][s[2]].uri \notin BaseFiles
                    /\ map[t][s[2]].uri \in Files /\ map[t][s[2]].name \in Names
  <2> TAKE s \in A
  <2>1. s \in Slots(map) /\ s[1] = t /\ Lower[map[t][s[2]].name] = n /\ map[t][s[2]].uri \notin BaseFiles
    BY <1>2, CarryingSlots
  <2> QED
    BY <1>2, <2>1, SlotInstance
<1>12. \A s : s \in A <=> s \in Slots(map) /\ s[1] = t /\ Lower[map[t][s[2]].name] = n /\ map[t][s[2]].uri \notin BaseFiles
  BY <1>2, <1>11, CarryingSlots
<1> HIDE DEF A
<1>13. f \in [A -> W]
  <2>1. ASSUME NEW s \in A PROVE <<map[s[1]][s[2]].uri, map[s[1]][s[2]].name>> \in W
    <3> DEFINE w == <<map[s[1]][s[2]].uri, map[s[1]][s[2]].name>>
    <3>1. w = <<w[1], w[2]>> /\ w[1] = map[t][s[2]].uri /\ w[2] = map[t][s[2]].name
      BY <1>11
    <3> HIDE DEF w
    <3>2. w \in W
      BY <1>5, <1>11, <3>1
    <3> QED
      BY <3>2 DEF w
  <2> QED
    BY <2>1
<1>14. h \in [B -> W]
  <2>1. ASSUME NEW p \in B PROVE <<p[1], own(p[1])[p[2]]>> \in W
    <3> DEFINE w == <<p[1], own(p[1])[p[2]]>>
    <3>1. w = <<w[1], w[2]>> /\ w[1] = p[1] /\ w[2] = own(p[1])[p[2]]
      OBVIOUS
    <3> HIDE DEF w
    <3>2. p[1] \in Files /\ p[2] \in DOMAIN own(p[1]) /\ Lower[own(p[1])[p[2]]] = n
      BY <1>9
    <3>3. p[1] \notin BaseFiles /\ own(p[1])[p[2]] \in Names
      BY <1>7, <1>8, <3>2
    <3>4. w \in W
      BY <1>5, <3>1, <3>2, <3>3
    <3> QED
      BY <3>4 DEF w
  <2> QED
    BY <2>1
<1>15. ASSUME NEW w \in W
       PROVE  /\ IsFiniteSet({s \in A : f[s] = w}) /\ IsFiniteSet({p \in B : h[p] = w})
              /\ Cardinality({s \in A : f[s] = w}) = Cardinality({p \in B : h[p] = w})
  <2> DEFINE u == w[1]
             x == w[2]
             C == Carrying(map, {<<t, u, x>>})
             K == {k \in DOMAIN own(u) : own(u)[k] = x}
  <2>1. w = <<u, x>> /\ u \in Files /\ u \notin BaseFiles /\ x \in Names /\ Lower[x] = n
    BY <1>5
  <2> HIDE DEF u, x
  <2>2. \A s : s \in C <=> s \in Slots(map) /\ s[1] = t /\ map[s[1]][s[2]].uri = u /\ map[s[1]][s[2]].name = x
    BY DEF Carrying, Tag
  <2>3. \A s : s \in {z \in A : f[z] = w} <=> s \in A /\ map[s[1]][s[2]].uri = u /\ map[s[1]][s[2]].name = x
    BY <2>1
  <2> HIDE DEF C
  <2>4. {s \in A : f[s] = w} = C
    <3> DEFINE F == {s \in A : f[s] = w}
    <3>1. \A s : s \in F <=> s \in A /\ map[s[1]][s[2]].uri = u /\ map[s[1]][s[2]].name = x
      BY <2>3
    <3> HIDE DEF F, f
    <3>2. \A s : s \in F <=> s \in C
      BY <1>12, <2>1, <2>2, <3>1
    <3>3. F = C
      BY <3>2
    <3> QED
      BY <3>3 DEF F
  <2>5. \A p : p \in {z \in B : h[z] = w} <=> p \in B /\ p[1] = u /\ own(p[1])[p[2]] = x
    BY <2>1
  <2>6. {p \in B : h[p] = w} = {u} \X K
    <3> DEFINE F == {p \in B : h[p] = w}
    <3>1. \A p : p \in F <=> p \in B /\ p[1] = u /\ own(p[1])[p[2]] = x
      BY <2>5
    <3>2. \A k : k \in K <=> k \in DOMAIN own(u) /\ own(u)[k] = x
      OBVIOUS
    <3> HIDE DEF F, h, K
    <3>3. \A p : p \in {u} \X K <=> p = <<p[1], p[2]>> /\ p[1] = u /\ p[2] \in K
      OBVIOUS
    <3>4. \A p : p \in F <=> p \in {u} \X K
      BY <1>9, <2>1, <3>1, <3>2, <3>3
    <3>5. F = {u} \X K
      BY <3>4
    <3> QED
      BY <3>5 DEF F
  <2>7. IsFiniteSet(C)
    BY <1>2, CarryingSlots DEF C
  <2>8. IsFiniteSet(K) /\ Occurrences(own(u), x) = Cardinality(K)
    <3>1. own(u) \in Seq(Names)
      BY <1>6, <2>1
    <3> QED
      BY <3>1, OccurrencesType DEF Occurrences
  <2>9. Cardinality(C) = Occurrences(own(u), x)
    BY <1>10, <2>1 DEF Amount, C
  <2> HIDE DEF K
  <2>10. IsFiniteSet({u} \X K) /\ Cardinality({u} \X K) = Cardinality(K)
    BY <2>8, PairWithFile
  <2> QED
    BY <2>4, <2>6, <2>7, <2>8, <2>9, <2>10
<1> HIDE DEF f, h
<1>16. SameParts(W, A, f, B, h)
  BY <1>15 DEF SameParts
<1>17. Cardinality(A) = Cardinality(B)
  BY <1>4, <1>13, <1>14, <1>16, PartsCount
<1> QED
  BY <1>3, <1>17 DEF B

\* The outline of a file lists what it contributes and what of the base game
\* is in it.
LEMMA OutlineLists ==
  ASSUME NEW i, ShapeOf(i), PlacedIn(i), NEW b \in Vectors, AmountsFollow(i, b),
         NEW u \in Files, NEW t \in Types \ Subtypes, NEW n \in Names
  PROVE  Occurrences(InstancesInFile(i.types, u)[t], n)
           = Cardinality({k \in DOMAIN Mods(i)[u].instances[t] : Mods(i)[u].instances[t][k] = n})
               + Cardinality({k \in DOMAIN b[t] : b[t][k].uri = u /\ b[t][k].name = n})
<1> DEFINE x == i.types
<1>1. IndexTyped(x) /\ Placed(x, u, t)
  BY DEF PlacedIn, AllPlaced
<1>2. InstancesInFile(x, u)[t] = Reads(x, u, t)
  BY DEF InstancesInFile, Reads
<1>3. Amount(x.map, t, u, n) = Occurrences(ContributionOf(i.files[u]).instances[t], n) + Amount(b, t, u, n)
  BY DEF AmountsFollow
<1> HIDE DEF x
<1>4. Amount(x.map, t, u, n) = Occurrences(Reads(x, u, t), n)
  BY <1>1, AmountRead
<1>5. Amount(b, t, u, n) = Cardinality({k \in DOMAIN b[t] : b[t][k].uri = u /\ b[t][k].name = n})
  BY AmountStands
<1>6. Mods(i)[u] = ContributionOf(i.files[u])
  BY DEF Mods
<1> QED
  BY <1>2, <1>3, <1>4, <1>5, <1>6 DEF Occurrences, x

-----------------------------------------------------------------------------
(* The symbols, and the uses of a file                                     *)

\* A symbol has a place where a file defines it, or a file that holds it.
LEMMA SomePlace ==
  ASSUME NEW defined, NEW x
  PROVE  /\ Places(defined, x) # {} <=> \E u \in Files : \E k \in DOMAIN defined[u] : defined[u][k] = x
         /\ Holders(defined, x) # {} <=> \E u \in Files : x \in defined[u]
<1>1. \A p : p \in Places(defined, x) <=> \E u \in Files : p \in {u} \X {k \in DOMAIN defined[u] : defined[u][k] = x}
  BY DEF Places
<1>2. ASSUME NEW u \in Files, NEW k \in DOMAIN defined[u], defined[u][k] = x PROVE Places(defined, x) # {}
  <2>1. <<u, k>> \in {u} \X {l \in DOMAIN defined[u] : defined[u][l] = x}
    BY <1>2
  <2> QED
    BY <1>1, <2>1
<1>3. ASSUME NEW p \in Places(defined, x) PROVE \E u \in Files : \E k \in DOMAIN defined[u] : defined[u][k] = x
  <2>1. PICK u \in Files : p \in {u} \X {k \in DOMAIN defined[u] : defined[u][k] = x}
    BY <1>1, <1>3
  <2> QED
    BY <2>1
<1> QED
  BY <1>2, <1>3 DEF Holders

\* What each count says of the contributions.
LEMMA CountsTell ==
  ASSUME NEW i, Good(i), NEW x \in Symbols
  PROVE  /\ i.targets[x] > 0 <=> \E u \in Files : x \in Mods(i)[u].targets
         /\ i.values[x] > 0 <=> \E u \in Files : \E k \in DOMAIN Mods(i)[u].values : Mods(i)[u].values[k] = x
         /\ i.variables[x] > 0 <=> \E u \in Files : \E k \in DOMAIN Mods(i)[u].variables : Mods(i)[u].variables[k].name = x
         /\ i.canonical[x] > 0 <=> \E u \in Files : \E k \in DOMAIN Mods(i)[u].variables :
                                      /\ Mods(i)[u].variables[k].ns # "@"
                                      /\ Normal[Mods(i)[u].variables[k].name] = x
<1>1. /\ i.targets[x] = Cardinality(Holders(TargetsIn(i), x))
      /\ i.variables[x] = Cardinality(Places(VariablesIn(i), x))
      /\ i.canonical[x] = Cardinality(Places(CanonicalIn(i), x))
      /\ i.values[x] = Cardinality(Places(ValuesIn(i), x))
  BY DEF Good, CountsExactIn
<1>2. /\ IsFiniteSet(Places(VariablesIn(i), x)) /\ IsFiniteSet(Places(CanonicalIn(i), x))
      /\ IsFiniteSet(Places(ValuesIn(i), x))
  BY DEF Good, FiniteIn
<1>3. IsFiniteSet(Holders(TargetsIn(i), x))
  BY TypeIndexAssumption, FS_Subset DEF Holders
<1>4. /\ i.targets[x] > 0 <=> Holders(TargetsIn(i), x) # {}
      /\ i.variables[x] > 0 <=> Places(VariablesIn(i), x) # {}
      /\ i.canonical[x] > 0 <=> Places(CanonicalIn(i), x) # {}
      /\ i.values[x] > 0 <=> Places(ValuesIn(i), x) # {}
  BY <1>1, <1>2, <1>3, Positive
<1>5. ASSUME NEW u \in Files
      PROVE  /\ Mods(i)[u] = ContributionOf(i.files[u])
             /\ TargetsIn(i)[u] = Mods(i)[u].targets /\ ValuesIn(i)[u] = Mods(i)[u].values
             /\ VariablesIn(i)[u] = VariableNames(Mods(i)[u]) /\ CanonicalIn(i)[u] = CanonicalNames(Mods(i)[u])
  BY DEF Mods, TargetsIn, ValuesIn, VariablesIn, CanonicalIn
<1>6. i.targets[x] > 0 <=> \E u \in Files : x \in Mods(i)[u].targets
  BY <1>4, <1>5, SomePlace
<1>7. i.values[x] > 0 <=> \E u \in Files : \E k \in DOMAIN Mods(i)[u].values : Mods(i)[u].values[k] = x
  BY <1>4, <1>5, SomePlace
<1>8. i.variables[x] > 0 <=> \E u \in Files : \E k \in DOMAIN Mods(i)[u].variables : Mods(i)[u].variables[k].name = x
  <2>1. ASSUME NEW u \in Files
        PROVE  (\E k \in DOMAIN VariablesIn(i)[u] : VariablesIn(i)[u][k] = x)
                 <=> (\E k \in DOMAIN Mods(i)[u].variables : Mods(i)[u].variables[k].name = x)
    <3> DEFINE q == Mods(i)[u].variables
    <3>1. VariablesIn(i)[u] = [k \in DOMAIN q |-> q[k].name]
      BY <1>5 DEF VariableNames
    <3> HIDE DEF q
    <3>2. (\E k \in DOMAIN VariablesIn(i)[u] : VariablesIn(i)[u][k] = x) <=> \E k \in DOMAIN q : q[k].name = x
      BY <3>1
    <3> QED
      BY <3>2 DEF q
  <2> QED
    BY <1>4, <2>1, SomePlace, SMTT(40)
<1>9. i.canonical[x] > 0 <=> \E u \in Files : \E k \in DOMAIN Mods(i)[u].variables :
                                /\ Mods(i)[u].variables[k].ns # "@" /\ Normal[Mods(i)[u].variables[k].name] = x
  <2>1. ASSUME NEW u \in Files
        PROVE  (\E k \in DOMAIN CanonicalIn(i)[u] : CanonicalIn(i)[u][k] = x)
                 <=> (\E k \in DOMAIN Mods(i)[u].variables :
                        /\ Mods(i)[u].variables[k].ns # "@" /\ Normal[Mods(i)[u].variables[k].name] = x)
    <3> DEFINE q == Mods(i)[u].variables
    <3>1. CanonicalIn(i)[u] = [k \in DOMAIN q |-> IF q[k].ns = "@" THEN NoName ELSE Normal[q[k].name]]
      BY <1>5 DEF CanonicalNames
    <3>2. x # NoName
      BY InfoIndexAssumption
    <3> HIDE DEF q
    <3>3. (\E k \in DOMAIN CanonicalIn(i)[u] : CanonicalIn(i)[u][k] = x)
            <=> \E k \in DOMAIN q : q[k].ns # "@" /\ Normal[q[k].name] = x
      BY <3>1, <3>2
    <3> QED
      BY <3>3 DEF q
  <2> QED
    BY <1>4, <2>1, SomePlace
<1> QED
  BY <1>6, <1>7, <1>8, <1>9

\* What a file contributes is made of symbols and types.
LEMMA ModsType ==
  ASSUME NEW i, ShapeOf(i), NEW u \in Files
  PROVE  /\ Mods(i)[u].targets \subseteq Symbols
         /\ \A k \in DOMAIN Mods(i)[u].values : Mods(i)[u].values[k] \in Symbols
         /\ \A k \in DOMAIN Mods(i)[u].variables : /\ Mods(i)[u].variables[k].name \in Symbols
                                                   /\ Normal[Mods(i)[u].variables[k].name] \in Symbols \cup {NoName}
         /\ \A k \in DOMAIN Mods(i)[u].uses : Mods(i)[u].uses[k].type \in Types
<1> DEFINE c == ContributionOf(i.files[u])
<1>1. i.files[u] \in FileInfo
  BY DEF ShapeOf
<1>2. Mods(i)[u] = c
  BY DEF Mods
<1>3. c.targets \subseteq Symbols /\ c.uses \in Seq([type : Types, name : Names])
  BY <1>1, ContributionFields
<1>4. VariableNames(c) \in Seq(Symbols) /\ c.values \in Seq(Symbols)
  BY <1>1, ContributionType
<1> DEFINE names == VariableNames(c)
<1>5. DOMAIN names = DOMAIN c.variables /\ \A k \in DOMAIN c.variables : names[k] = c.variables[k].name
  BY DEF VariableNames
<1> HIDE DEF c, names
<1>6. \A k \in DOMAIN names : names[k] \in Symbols
  <2>1. names \in Seq(Symbols)
    BY <1>4 DEF names
  <2> QED
    BY <2>1
<1>7. \A k \in DOMAIN c.values : c.values[k] \in Symbols
  BY <1>4
<1>8. \A k \in DOMAIN c.uses : c.uses[k].type \in Types
  <2> DEFINE V == [type : Types, name : Names]
  <2>1. c.uses \in Seq(V)
    BY <1>3
  <2>2. \A e \in V : e.type \in Types
    OBVIOUS
  <2> HIDE DEF V
  <2>3. \A k \in DOMAIN c.uses : c.uses[k] \in V
    BY <2>1
  <2> QED
    BY <2>2, <2>3
<1>9. \A x \in Symbols : Normal[x] \in Symbols \cup {NoName}
  BY InfoIndexAssumption
<1> QED
  BY <1>2, <1>3, <1>5, <1>6, <1>7, <1>8, <1>9

-----------------------------------------------------------------------------
(* The index implements the table                                          *)

TableAnswered == AnswersOf = Table!Answers(Mods(info), base, info.baseVariables)

LEMMA FoldedTwice == \A x \in Names : Lower[x] \in Names /\ Lower[Lower[x]] = Lower[x]
BY TypeIndexAssumption

\* A name the table knows is a folded one.
LEMMA KnownFolded ==
  ASSUME NEW v \in Seq(Instances), NEW n, Spells(v, n)
  PROVE  Lower[n] = n
<1>1. PICK u \in Files, x \in Names : Lower[x] = n
  BY SpelledBy
<1> QED
  BY <1>1, FoldedTwice

LEMMA NamesAnswered ==
  ASSUME NEW i, Good(i), PlacedIn(i), NEW b, NEW us \in SUBSET BaseFiles, Follows(i, b, us), NEW t \in Types, NEW n \in Names
  PROVE  /\ HasInstance(i.types, t, n) /\ Lower[n] = n
              <=> Table!DefinedBy(Mods(i), t, n) # {} \/ Table!InBase(b, t, n)
         /\ WorkspaceDefinitionCount(i.types, t, n) > 1 /\ Lower[n] = n
              <=> Cardinality(Table!DefinedBy(Mods(i), t, n)) > 1
         /\ IsAnyInstance(i.types, n) /\ Lower[n] = n
              <=> \E k \in Types \ Subtypes : Table!DefinedBy(Mods(i), k, n) # {} \/ Table!InBase(b, k, n)
<1> DEFINE map == i.types.map
<1>1. /\ CountsBut(i.types, map, {}) /\ b \in Vectors /\ AmountsFollow(i, b)
      /\ ShapeOf(i) /\ map \in Vectors
  BY DEF Follows, Good, PlacedIn, IndexTyped, Vectors
<1>2. ASSUME NEW k \in Types
      PROVE  Spells(map[k], n) <=> Table!DefinedBy(Mods(i), k, n) # {} \/ Table!InBase(b, k, n)
  BY <1>1, TableKnows
<1> HIDE DEF map
<1>3. /\ \A k \in Types : i.types.refs[k][n].total > 0 <=> Spells(map[k], n)
      /\ i.types.nameCounts[n] > 0 <=> \E k \in Types \ Subtypes : Spells(map[k], n)
  BY <1>1, CountersTell
<1>4. ASSUME NEW k \in Types, Spells(map[k], n) PROVE Lower[n] = n
  <2>1. map[k] \in Seq(Instances)
    BY <1>1 DEF Vectors
  <2> QED
    BY <1>4, <2>1, KnownFolded
<1>5. HasInstance(i.types, t, n) /\ Lower[n] = n <=> Table!DefinedBy(Mods(i), t, n) # {} \/ Table!InBase(b, t, n)
  BY <1>2, <1>3, <1>4 DEF HasInstance
<1>6. IsAnyInstance(i.types, n) /\ Lower[n] = n
        <=> \E k \in Types \ Subtypes : Table!DefinedBy(Mods(i), k, n) # {} \/ Table!InBase(b, k, n)
  BY <1>2, <1>3, <1>4 DEF IsAnyInstance
<1>7. i.types.refs[t][n].workspace = Cardinality(Table!DefinedBy(Mods(i), t, n))
  BY <1>1, DuplicatesCount
<1>8. ASSUME Cardinality(Table!DefinedBy(Mods(i), t, n)) > 1 PROVE Lower[n] = n
  <2>1. Table!DefinedBy(Mods(i), t, n) # {}
    <3>1. Cardinality({}) = 0
      BY FS_EmptySet
    <3>2. ~(0 > 1)
      OBVIOUS
    <3> QED
      BY <1>8, <3>1, <3>2
  <2> QED
    BY <1>2, <1>4, <2>1
<1>9. WorkspaceDefinitionCount(i.types, t, n) > 1 /\ Lower[n] = n <=> Cardinality(Table!DefinedBy(Mods(i), t, n)) > 1
  BY <1>7, <1>8 DEF WorkspaceDefinitionCount
<1> QED
  BY <1>5, <1>6, <1>9

\* What a file uses.
LEMMA UsesAnswered ==
  ASSUME NEW i, ShapeOf(i), RefsIn(i), NEW u \in Files
  PROVE  UNION {{<<t, i.refs[t][k].name>> : k \in {j \in DOMAIN i.refs[t] : i.refs[t][j].uri = u}} : t \in Types}
           = {<<Mods(i)[u].uses[k].type, Mods(i)[u].uses[k].name>> : k \in DOMAIN Mods(i)[u].uses}
<1> DEFINE uses == Mods(i)[u].uses
           L == UNION {{<<t, i.refs[t][k].name>> : k \in {j \in DOMAIN i.refs[t] : i.refs[t][j].uri = u}} : t \in Types}
           R == {<<uses[k].type, uses[k].name>> : k \in DOMAIN uses}
<1>1. uses = ContributionOf(i.files[u]).uses
  BY DEF Mods
<1>2. \A t \in Types : \A n : Holds(i.refs[t], u, n) <=> Used(uses, t, n)
  BY <1>1 DEF RefsIn
<1>3. \A k \in DOMAIN uses : uses[k].type \in Types
  BY ModsType
<1> HIDE DEF uses
<1>4. \A p : p \in L <=> \E t \in Types : \E k \in DOMAIN i.refs[t] : i.refs[t][k].uri = u /\ p = <<t, i.refs[t][k].name>>
  OBVIOUS
<1>5. \A p : p \in R <=> \E k \in DOMAIN uses : p = <<uses[k].type, uses[k].name>>
  OBVIOUS
<1> HIDE DEF L, R
<1>6. ASSUME NEW p \in L PROVE p \in R
  <2>1. PICK t \in Types : \E k \in DOMAIN i.refs[t] : i.refs[t][k].uri = u /\ p = <<t, i.refs[t][k].name>>
    BY <1>4, <1>6
  <2>2. PICK k \in DOMAIN i.refs[t] : i.refs[t][k].uri = u /\ p = <<t, i.refs[t][k].name>>
    BY <2>1
  <2>3. Holds(i.refs[t], u, i.refs[t][k].name)
    BY <2>2 DEF Holds
  <2>4. PICK l \in DOMAIN uses : uses[l].type = t /\ uses[l].name = i.refs[t][k].name
    BY <1>2, <2>3 DEF Used
  <2> QED
    BY <1>5, <2>2, <2>4
<1>7. ASSUME NEW p \in R PROVE p \in L
  <2>1. PICK l \in DOMAIN uses : p = <<uses[l].type, uses[l].name>>
    BY <1>5, <1>7
  <2> DEFINE t == uses[l].type
             n == uses[l].name
  <2>2. t \in Types /\ Used(uses, t, n)
    BY <1>3 DEF Used
  <2>3. PICK k \in DOMAIN i.refs[t] : i.refs[t][k].uri = u /\ i.refs[t][k].name = n
    BY <1>2, <2>2 DEF Holds
  <2> QED
    BY <1>4, <2>1, <2>2, <2>3
<1>8. L = R
  BY <1>6, <1>7
<1> QED
  BY <1>8 DEF L, R, uses

\* The four sets of symbols.
LEMMA SymbolsAnswered ==
  ASSUME NEW i, Good(i), NoName \notin i.baseVariables, NEW m, m = Mods(i)
  PROVE  /\ {x \in Symbols : i.targets[x] > 0} = UNION {m[u].targets : u \in Files}
         /\ {x \in Symbols : i.values[x] > 0} = UNION {{m[u].values[k] : k \in DOMAIN m[u].values} : u \in Files}
         /\ {x \in Symbols : i.variables[x] > 0} = UNION {{m[u].variables[k].name : k \in DOMAIN m[u].variables} : u \in Files}
         /\ {x \in Symbols : i.canonical[x] > 0} \cup i.baseVariables
              = (i.baseVariables \cup UNION {{Normal[m[u].variables[k].name] :
                    k \in {j \in DOMAIN m[u].variables : m[u].variables[j].ns # "@"}} : u \in Files}) \ {NoName}
<1>0. ShapeOf(i) /\ NoName \notin Symbols
  BY InfoIndexAssumption DEF Good
<1>1. \A u \in Files : m[u].targets \subseteq Symbols
  BY <1>0, ModsType
<1>2. \A u \in Files : \A k \in DOMAIN m[u].values : m[u].values[k] \in Symbols
  BY <1>0, ModsType
<1>3. \A u \in Files : \A k \in DOMAIN m[u].variables :
        m[u].variables[k].name \in Symbols /\ Normal[m[u].variables[k].name] \in Symbols \cup {NoName}
  BY <1>0, ModsType
<1>4. {x \in Symbols : i.targets[x] > 0} = UNION {m[u].targets : u \in Files}
  <2>1. \A x \in Symbols : i.targets[x] > 0 <=> \E u \in Files : x \in m[u].targets
    BY CountsTell
  <2> QED
    BY <1>1, <2>1
<1>5. {x \in Symbols : i.values[x] > 0} = UNION {{m[u].values[k] : k \in DOMAIN m[u].values} : u \in Files}
  <2>1. \A x \in Symbols : i.values[x] > 0 <=> \E u \in Files : \E k \in DOMAIN m[u].values : m[u].values[k] = x
    BY CountsTell
  <2> QED
    BY <1>2, <2>1
<1>6. {x \in Symbols : i.variables[x] > 0} = UNION {{m[u].variables[k].name : k \in DOMAIN m[u].variables} : u \in Files}
  <2>1. \A x \in Symbols : i.variables[x] > 0 <=> \E u \in Files : \E k \in DOMAIN m[u].variables : m[u].variables[k].name = x
    BY CountsTell
  <2> QED
    BY <1>3, <2>1
<1>7. {x \in Symbols : i.canonical[x] > 0} \cup i.baseVariables
        = (i.baseVariables \cup UNION {{Normal[m[u].variables[k].name] :
              k \in {j \in DOMAIN m[u].variables : m[u].variables[j].ns # "@"}} : u \in Files}) \ {NoName}
  <2> DEFINE V == UNION {{Normal[m[u].variables[k].name] :
                      k \in {j \in DOMAIN m[u].variables : m[u].variables[j].ns # "@"}} : u \in Files}
             C == {x \in Symbols : i.canonical[x] > 0}
  <2>1. \A x \in Symbols : i.canonical[x] > 0 <=> \E u \in Files : \E k \in DOMAIN m[u].variables :
                              m[u].variables[k].ns # "@" /\ Normal[m[u].variables[k].name] = x
    BY CountsTell
  <2>2. \A x : x \in V <=> \E u \in Files : \E k \in DOMAIN m[u].variables :
                              m[u].variables[k].ns # "@" /\ Normal[m[u].variables[k].name] = x
    OBVIOUS
  <2>3. V \subseteq Symbols \cup {NoName}
    BY <1>3, <2>2
  <2>4. \A x \in Symbols : x \in C <=> x \in V
    BY <2>1, <2>2
  <2>5. C \subseteq Symbols
    OBVIOUS
  <2> HIDE DEF C, V
  <2>6. C \cup i.baseVariables = (i.baseVariables \cup V) \ {NoName}
    BY <1>0, <2>3, <2>4, <2>5
  <2> QED
    BY <2>6 DEF C, V
<1> QED
  BY <1>4, <1>5, <1>6, <1>7

\* The table counts as the index does.
LEMMA SameCardinality == \A S : Table!Cardinality(S) = Cardinality(S)
BY SMTT(40) DEF Table!Cardinality, Cardinality

AnswerFields == {"known", "duplicated", "anyType", "variables", "offered", "targets", "values", "uses", "outline"}

\* Question by question, the answers of the index,
LEMMA IndexGives ==
  /\ AnswersOf = [f \in AnswerFields |-> AnswersOf[f]]
  /\ AnswersOf.known = [t \in Types |-> {n \in Names : HasInstance(info.types, t, n) /\ Lower[n] = n}]
  /\ AnswersOf.duplicated = [t \in Types |-> {n \in Names : WorkspaceDefinitionCount(info.types, t, n) > 1 /\ Lower[n] = n}]
  /\ AnswersOf.anyType = {n \in Names : IsAnyInstance(info.types, n) /\ Lower[n] = n}
  /\ AnswersOf.variables = {x \in Symbols : info.canonical[x] > 0} \cup info.baseVariables
  /\ AnswersOf.offered = {x \in Symbols : info.variables[x] > 0}
  /\ AnswersOf.targets = {x \in Symbols : info.targets[x] > 0}
  /\ AnswersOf.values = {x \in Symbols : info.values[x] > 0}
  /\ AnswersOf.uses = [u \in Files |-> UNION {{<<t, info.refs[t][k].name>> :
                        k \in {j \in DOMAIN info.refs[t] : info.refs[t][j].uri = u}} : t \in Types}]
  /\ AnswersOf.outline = [u \in Files |-> [t \in Types \ Subtypes |-> [n \in Names |->
                        Occurrences(InstancesInFile(info.types, u)[t], n)]]]
BY DEF AnswersOf, AnswerFields

\* and those a table gives.
TableGives(a, m, b, names) ==
  /\ a = [f \in AnswerFields |-> a[f]]
  /\ a.known = [t \in Types |-> {n \in Names : Table!DefinedBy(m, t, n) # {} \/ Table!InBase(b, t, n)}]
  /\ a.duplicated = [t \in Types |-> {n \in Names : Table!Cardinality(Table!DefinedBy(m, t, n)) > 1}]
  /\ a.anyType = {n \in Names : \E t \in Types \ Subtypes : Table!DefinedBy(m, t, n) # {} \/ Table!InBase(b, t, n)}
  /\ a.variables = (names \cup UNION {{Normal[m[u].variables[k].name] :
                     k \in {j \in DOMAIN m[u].variables : m[u].variables[j].ns # "@"}} : u \in Files}) \ {NoName}
  /\ a.offered = UNION {{m[u].variables[k].name : k \in DOMAIN m[u].variables} : u \in Files}
  /\ a.targets = UNION {m[u].targets : u \in Files}
  /\ a.values = UNION {{m[u].values[k] : k \in DOMAIN m[u].values} : u \in Files}
  /\ a.uses = [u \in Files |-> {<<m[u].uses[k].type, m[u].uses[k].name>> : k \in DOMAIN m[u].uses}]
  /\ a.outline = [u \in Files |-> [t \in Types \ Subtypes |-> [n \in Names |->
                     Table!Cardinality({k \in DOMAIN m[u].instances[t] : m[u].instances[t][k] = n})
                       + Table!Cardinality({k \in DOMAIN b[t] : b[t][k].uri = u /\ b[t][k].name = n})]]]
LEMMA TableFields ==
  ASSUME NEW m, NEW b, NEW names, NEW a, a = Table!Answers(m, b, names)
  PROVE  TableGives(a, m, b, names)
<1>1. a = [f \in AnswerFields |-> a[f]]
  BY Zenon DEF Table!Answers, Table!Count, AnswerFields
<1>2. a.known = [t \in Types |-> {n \in Names : Table!DefinedBy(m, t, n) # {} \/ Table!InBase(b, t, n)}]
  BY DEF Table!Answers, Table!Count, AnswerFields
<1>3. a.duplicated = [t \in Types |-> {n \in Names : Table!Cardinality(Table!DefinedBy(m, t, n)) > 1}]
  BY DEF Table!Answers, Table!Count, AnswerFields
<1>4. a.anyType = {n \in Names : \E t \in Types \ Subtypes : Table!DefinedBy(m, t, n) # {} \/ Table!InBase(b, t, n)}
  BY DEF Table!Answers, Table!Count, AnswerFields
<1>5. a.variables = (names \cup UNION {{Normal[m[u].variables[k].name] :
                            k \in {j \in DOMAIN m[u].variables : m[u].variables[j].ns # "@"}} : u \in Files}) \ {NoName}
  BY DEF Table!Answers, Table!Count, AnswerFields
<1>6. a.offered = UNION {{m[u].variables[k].name : k \in DOMAIN m[u].variables} : u \in Files}
  BY DEF Table!Answers, Table!Count, AnswerFields
<1>7. a.targets = UNION {m[u].targets : u \in Files}
  BY DEF Table!Answers, Table!Count, AnswerFields
<1>8. a.values = UNION {{m[u].values[k] : k \in DOMAIN m[u].values} : u \in Files}
  BY DEF Table!Answers, Table!Count, AnswerFields
<1>9. a.uses = [u \in Files |-> {<<m[u].uses[k].type, m[u].uses[k].name>> : k \in DOMAIN m[u].uses}]
  BY DEF Table!Answers, Table!Count, AnswerFields
<1>10. a.outline = [u \in Files |-> [t \in Types \ Subtypes |-> [n \in Names |->
                            Table!Cardinality({k \in DOMAIN m[u].instances[t] : m[u].instances[t][k] = n})
                              + Table!Cardinality({k \in DOMAIN b[t] : b[t][k].uri = u /\ b[t][k].name = n})]]]
  BY DEF Table!Answers, Table!Count, AnswerFields
<1> QED
  BY <1>1, <1>2, <1>3, <1>4, <1>5, <1>6, <1>7, <1>8, <1>9, <1>10, Zenon DEF TableGives

-----------------------------------------------------------------------------
(* An index of own instances and of a base game                            *)

\* Vectors with as many instances of every file under every name have as many
\* of every kind.
LEMMA SameAmounts ==
  ASSUME NEW v \in Vectors, NEW w \in Vectors, NEW kind,
         \A t \in Types, u \in Files, n \in Names : Amount(v, t, u, n) = Amount(w, t, u, n)
  PROVE  Cardinality(Carrying(v, kind)) = Cardinality(Carrying(w, kind))
<1> DEFINE A == Carrying(v, kind)
           B == Carrying(w, kind)
           f == [s \in A |-> Tag(v, s)]
           h == [s \in B |-> Tag(w, s)]
<1>1. IsFiniteSet(Tags)
  <2>1. IsFiniteSet(Files \X Names)
    BY TypeIndexAssumption, FS_Product
  <2>2. IsFiniteSet(Types \X (Files \X Names))
    BY <2>1, TypeIndexAssumption, FS_Product
  <2> DEFINE flat == [g \in Types \X (Files \X Names) |-> <<g[1], g[2][1], g[2][2]>>]
  <2>3. flat \in Surjection(Types \X (Files \X Names), Tags)
    <3>1. flat \in [Types \X (Files \X Names) -> Tags]
      BY DEF Tags
    <3>2. ASSUME NEW g \in Tags PROVE \E e \in Types \X (Files \X Names) : flat[e] = g
      <4>1. g = <<g[1], g[2], g[3]>> /\ g[1] \in Types /\ g[2] \in Files /\ g[3] \in Names
        BY DEF Tags
      <4>2. <<g[1], <<g[2], g[3]>>>> \in Types \X (Files \X Names) /\ flat[<<g[1], <<g[2], g[3]>>>>] = g
        BY <4>1
      <4> QED
        BY <4>2
    <3> HIDE DEF flat
    <3> QED
      BY <3>1, <3>2 DEF Surjection
  <2> HIDE DEF flat
  <2> QED
    BY <2>2, <2>3, FS_Surjection
<1>2. \A s \in A : Tag(v, s) \in Tags
  BY SlotInstance DEF Carrying
<1>3. \A s \in B : Tag(w, s) \in Tags
  BY SlotInstance DEF Carrying
<1>4. f \in [A -> Tags] /\ h \in [B -> Tags]
  BY <1>2, <1>3
<1>5. ASSUME NEW g \in Tags
      PROVE  /\ IsFiniteSet({a \in A : f[a] = g}) /\ IsFiniteSet({b \in B : h[b] = g})
             /\ Cardinality({a \in A : f[a] = g}) = Cardinality({b \in B : h[b] = g})
  <2>1. g = <<g[1], g[2], g[3]>> /\ g[1] \in Types /\ g[2] \in Files /\ g[3] \in Names
    BY DEF Tags
  <2>2. Amount(v, g[1], g[2], g[3]) = Amount(w, g[1], g[2], g[3])
    BY <2>1
  <2>3. Cardinality(Carrying(v, {g})) = Cardinality(Carrying(w, {g}))
    BY <2>1, <2>2 DEF Amount
  <2>4. CASE g \in kind
    <3>1. {a \in A : f[a] = g} = Carrying(v, {g}) /\ {b \in B : h[b] = g} = Carrying(w, {g})
      BY <2>4 DEF Carrying
    <3>2. IsFiniteSet(Carrying(v, {g})) /\ IsFiniteSet(Carrying(w, {g}))
      BY CarryingSlots
    <3> HIDE DEF f, h, A, B
    <3> QED
      BY <2>3, <3>1, <3>2
  <2>5. CASE g \notin kind
    <3>1. {a \in A : f[a] = g} = {} /\ {b \in B : h[b] = g} = {}
      BY <2>5 DEF Carrying
    <3> QED
      BY <3>1, FS_EmptySet
  <2> QED
    BY <2>4, <2>5
<1> HIDE DEF f, h, A, B
<1>6. SameParts(Tags, A, f, B, h)
  BY <1>5 DEF SameParts
<1>7. Cardinality(A) = Cardinality(B)
  BY <1>1, <1>4, <1>6, PartsCount
<1> QED
  BY <1>7 DEF A, B

\* How many instances of a type fold to a name, whoever's they are.
SpelledIn(v, t, n) == Cardinality({i \in DOMAIN v[t] : Lower[v[t][i].name] = n})

LEMMA NamedSlots ==
  ASSUME NEW v \in Vectors, NEW t \in Types, NEW n \in Names
  PROVE  /\ SpelledIn(v, t, n) \in Nat
         /\ Cardinality(Carrying(v, Named(t, n))) = SpelledIn(v, t, n)
         /\ (\A i \in DOMAIN v[t] : v[t][i].uri \notin BaseFiles) => Cardinality(Carrying(v, Ours(t, n))) = SpelledIn(v, t, n)
         /\ (\A i \in DOMAIN v[t] : v[t][i].uri \in BaseFiles) => Cardinality(Carrying(v, Ours(t, n))) = 0
<1> DEFINE I == {i \in DOMAIN v[t] : Lower[v[t][i].name] = n}
           C == Carrying(v, Named(t, n))
           D == Carrying(v, Ours(t, n))
<1>1. \A s : s \in Slots(v) <=> s = <<s[1], s[2]>> /\ s[1] \in Types /\ s[2] \in DOMAIN v[s[1]]
  BY SlotOf
<1>2. C \subseteq Slots(v) /\ D \subseteq Slots(v) /\ IsFiniteSet(C)
  BY CarryingSlots
<1>3. \A s \in Slots(v) : /\ s \in C <=> s[1] = t /\ Lower[v[t][s[2]].name] = n
                          /\ s \in D <=> s[1] = t /\ Lower[v[t][s[2]].name] = n /\ v[t][s[2]].uri \notin BaseFiles
  BY CarryingSlots
<1> HIDE DEF C, D
<1>4. C = {t} \X I
  <2>1. ASSUME NEW s \in C PROVE s \in {t} \X I
    <3>1. s \in Slots(v) /\ s[1] = t /\ Lower[v[t][s[2]].name] = n
      BY <1>2, <1>3, <2>1
    <3>2. s = <<t, s[2]>> /\ s[2] \in DOMAIN v[t]
      BY <1>1, <3>1
    <3> QED
      BY <3>1, <3>2
  <2>2. ASSUME NEW i \in I PROVE <<t, i>> \in C
    <3>1. <<t, i>> \in Slots(v)
      BY <1>1
    <3> QED
      BY <1>3, <3>1
  <2> QED
    BY <2>1, <2>2
<1>5. IsFiniteSet(I)
  <2> DEFINE q == v[t]
  <2>1. q \in Seq(Instances)
    BY DEF Vectors
  <2> HIDE DEF q
  <2>2. DOMAIN q = 1..Len(q) /\ Len(q) \in Nat
    BY <2>1
  <2>3. IsFiniteSet(DOMAIN q)
    BY <2>2, FS_Interval
  <2>4. I \in SUBSET DOMAIN q
    BY DEF q
  <2> HIDE DEF I
  <2> QED
    BY <2>3, <2>4, FS_Subset
<1>6. Cardinality(C) = Cardinality(I) /\ Cardinality(I) \in Nat
  <2> HIDE DEF I
  <2> QED
    BY <1>4, <1>5, PairWithFile, FS_CardinalityType
<1>7. (\A i \in DOMAIN v[t] : v[t][i].uri \notin BaseFiles) => D = C
  BY <1>1, <1>2, <1>3
<1>8. (\A i \in DOMAIN v[t] : v[t][i].uri \in BaseFiles) => D = {}
  BY <1>1, <1>2, <1>3
<1>9. Cardinality({}) = 0
  BY FS_EmptySet
<1>10. SpelledIn(v, t, n) = Cardinality(I)
  BY DEF SpelledIn
<1> HIDE DEF I
<1> QED
  BY <1>6, <1>7, <1>8, <1>9, <1>10 DEF C, D

\* The vectors hold own instances and those of a base game, in whatever order.
OfBase(b) == b \in Vectors /\ \A t \in Types : \A k \in DOMAIN b[t] : b[t][k].uri \in BaseFiles
NotOfBase(own) == own \in Vectors /\ \A t \in Types : \A k \in DOMAIN own[t] : own[t][k].uri \notin BaseFiles
Together(map, own, b) ==
  /\ map \in Vectors /\ NotOfBase(own) /\ OfBase(b)
  /\ \A t \in Types, u \in Files, n \in Names : Amount(map, t, u, n) = Amount(own, t, u, n) + Amount(b, t, u, n)
\* What an index then says of a name.
Tells(x, own, b, n) ==
  /\ \A t \in Types : x.refs[t][n] = [total |-> SpelledIn(own, t, n) + SpelledIn(b, t, n), workspace |-> SpelledIn(own, t, n)]
  /\ IsAnyInstance(x, n) <=> \E t \in Types \ Subtypes : x.refs[t][Lower[n]].total > 0

LEMMA Concatenated ==
  ASSUME NEW v \in Vectors, NEW w \in Vectors, NEW z, z = [t \in Types |-> v[t] \o w[t]]
  PROVE  z \in Vectors
<1>1. ASSUME NEW t \in Types PROVE z[t] \in Seq(Instances)
  <2> DEFINE p == v[t]
             q == w[t]
  <2>1. p \in Seq(Instances) /\ q \in Seq(Instances) /\ z[t] = p \o q
    BY DEF Vectors
  <2> HIDE DEF p, q
  <2>2. p \o q \in Seq(Instances)
    BY <2>1, Behind
  <2> QED
    BY <2>1, <2>2
<1>2. z = [t \in Types |-> z[t]]
  OBVIOUS
<1> QED
  BY <1>1, <1>2 DEF Vectors

LEMMA TogetherTells ==
  ASSUME NEW x, NEW map, CountsBut(x, map, {}), NEW own, NEW b, Together(map, own, b), NEW n \in Names
  PROVE  Tells(x, own, b, n)
<1>1. map \in Vectors /\ own \in Vectors /\ b \in Vectors
  BY DEF Together, OfBase, NotOfBase
<1> DEFINE both == [t \in Types |-> own[t] \o b[t]]
<1>2. both \in Vectors /\ \A t \in Types : both[t] = own[t] \o b[t]
  <2>1. \A t \in Types : both[t] = own[t] \o b[t]
    OBVIOUS
  <2>2. both \in Vectors
    BY <1>1, Concatenated
  <2> QED
    BY <2>1, <2>2
<1> HIDE DEF both
<1>3. \A kind : Cardinality(Carrying(both, kind)) = Cardinality(Carrying(own, kind)) + Cardinality(Carrying(b, kind))
  BY <1>1, <1>2, BehindCounts
<1>4. \A t \in Types, u \in Files, m \in Names : Amount(map, t, u, m) = Amount(both, t, u, m)
  <2> TAKE t \in Types, u \in Files, m \in Names
  <2>1. Amount(map, t, u, m) = Amount(own, t, u, m) + Amount(b, t, u, m)
    BY DEF Together
  <2>2. Amount(both, t, u, m) = Amount(own, t, u, m) + Amount(b, t, u, m)
    BY <1>3 DEF Amount
  <2> QED
    BY <2>1, <2>2
<1>5. \A kind : Cardinality(Carrying(map, kind)) = Cardinality(Carrying(own, kind)) + Cardinality(Carrying(b, kind))
  <2> TAKE kind
  <2>1. Cardinality(Carrying(map, kind)) = Cardinality(Carrying(both, kind))
    BY <1>1, <1>2, <1>4, SameAmounts
  <2> QED
    BY <1>3, <2>1
<1>6. ASSUME NEW t \in Types
      PROVE  x.refs[t][n] = [total |-> SpelledIn(own, t, n) + SpelledIn(b, t, n), workspace |-> SpelledIn(own, t, n)]
  <2>1. /\ SpelledIn(own, t, n) \in Nat /\ Cardinality(Carrying(own, Named(t, n))) = SpelledIn(own, t, n)
        /\ Cardinality(Carrying(own, Ours(t, n))) = SpelledIn(own, t, n)
    BY <1>1, NamedSlots DEF Together, NotOfBase
  <2>2. /\ SpelledIn(b, t, n) \in Nat /\ Cardinality(Carrying(b, Named(t, n))) = SpelledIn(b, t, n)
        /\ Cardinality(Carrying(b, Ours(t, n))) = 0
    BY <1>1, NamedSlots DEF Together, OfBase
  <2>3. \A C : C \ {} = C
    OBVIOUS
  <2>4. /\ x.refs[t][n] \in RefCounts
        /\ x.refs[t][n].total = Cardinality(Carrying(map, Named(t, n)) \ {})
        /\ x.refs[t][n].workspace = Cardinality(Carrying(map, Ours(t, n)) \ {})
    BY DEF CountsBut
  <2>5. x.refs[t][n].total = SpelledIn(own, t, n) + SpelledIn(b, t, n)
    BY <1>5, <2>1, <2>2, <2>3, <2>4
  <2>6. x.refs[t][n].workspace = SpelledIn(own, t, n)
    BY <1>5, <2>1, <2>2, <2>3, <2>4
  <2> QED
    BY <2>4, <2>5, <2>6 DEF RefCounts
<1>7. Lower[n] \in Names
  BY FoldedTwice
<1>8. IsAnyInstance(x, n) <=> \E t \in Types \ Subtypes : x.refs[t][Lower[n]].total > 0
  <2>1. /\ \A t \in Types : x.refs[t][Lower[n]].total > 0 <=> Spells(map[t], Lower[n])
        /\ x.nameCounts[Lower[n]] > 0 <=> \E t \in Types \ Subtypes : Spells(map[t], Lower[n])
    BY <1>1, <1>7, CountersTell
  <2> QED
    BY <2>1 DEF IsAnyInstance
<1> QED
  BY <1>6, <1>8 DEF Tells

\* An index that can be worked on further.
Holding(x, own, b) ==
  /\ IndexTyped(x) /\ AllPlaced(x) /\ CountsBut(x, x.map, {}) /\ x.baseUris = UrisOf(b)
  /\ Together(x.map, own, b)
NoVectors == [t \in Types |-> <<>>]

LEMMA NothingAmounts ==
  /\ OfBase(NoVectors) /\ UrisOf(NoVectors) = {}
  /\ \A t \in Types : \A u, n : Amount(NoVectors, t, u, n) = 0
<1> DEFINE b == NoVectors
<1>1. \A t \in Types : b[t] = <<>> /\ DOMAIN b[t] = {}
  BY DEF NoVectors
<1>2. b \in Vectors
  BY DEF NoVectors, Vectors
<1>3. UrisOf(b) = {}
  BY <1>1 DEF UrisOf, ToSet
<1>4. OfBase(b)
  BY <1>1, <1>2 DEF OfBase
<1> QED
  BY <1>2, <1>3, <1>4, AmountElsewhere

\* The empty index has nothing, merging a file that is not of the base game
\* into it makes it hold that file,
LEMMA OwnHeld ==
  ASSUME NEW u \in Files, u \notin BaseFiles, NEW per \in [Types -> Seq(Names)], NEW y, y = Merge(EmptyIndex, u, per)
  PROVE  Holding(y, VectorsOf(u, per), NoVectors)
<1> DEFINE own == VectorsOf(u, per)
           x == EmptyIndex
<1>1. IndexTyped(x) /\ AllPlaced(x)
  BY EmptyPlaced
<1>2. x.map = NoVectors /\ x.baseUris = {}
  BY DEF EmptyIndex, NoVectors
<1>3. CountsBut(x, x.map, {})
  <2>1. NoVectors \in Vectors
    BY NothingAmounts DEF OfBase
  <2>2. \A kind : Carrying(NoVectors, kind) \ {} = {}
    <3>1. Slots(NoVectors) = {}
      BY DEF Slots, NoVectors
    <3> QED
      BY <3>1 DEF Carrying
  <2>3. Cardinality({}) = 0
    BY FS_EmptySet
  <2>4. x.refs = [t \in Types |-> [n \in Names |-> NoRefs]] /\ x.nameCounts = [n \in Names |-> 0]
    BY DEF EmptyIndex
  <2>5. NoRefs \in RefCounts /\ NoRefs.total = 0 /\ NoRefs.workspace = 0
    BY DEF NoRefs, RefCounts
  <2> HIDE DEF x
  <2>6. \A kind : Cardinality(Carrying(x.map, kind) \ {}) = 0
    BY <1>2, <2>2, <2>3
  <2>7. /\ x.refs \in [Types -> [Names -> RefCounts]] /\ x.nameCounts \in [Names -> Nat]
        /\ \A t \in Types, n \in Names : x.refs[t][n] = NoRefs
        /\ \A n \in Names : x.nameCounts[n] = 0
    BY <2>4, <2>5
  <2> QED
    BY <2>5, <2>6, <2>7 DEF CountsBut
<1>4. /\ own \in Vectors /\ \A t \in Types : \A i \in DOMAIN own[t] : own[t][i].uri = u
      /\ \A t \in Types : \A w, n : Amount(own, t, w, n) = IF w = u THEN Occurrences(per[t], n) ELSE 0
  BY AmountOwn
<1> HIDE DEF x
<1>y. y = Merge(x, u, per)
  BY DEF x
<1>5. Merged(x, own, y)
  BY <1>1, <1>y, MergePlaces
<1>6. /\ CountsBut(y, y.map, {})
      /\ \A t \in Types, w \in Files, n \in Names :
           Amount(y.map, t, w, n) = Amount(x.map, t, w, n) + IF w = u THEN Occurrences(per[t], n) ELSE 0
  BY <1>1, <1>3, <1>y, MergeCounts
<1>7. IndexTyped(y) /\ AllPlaced(y) /\ y.baseUris = UrisOf(NoVectors) /\ y.map \in Vectors
  BY <1>2, <1>5, NothingAmounts DEF Merged, IndexTyped, Vectors
<1>8. NotOfBase(own)
  BY <1>4 DEF NotOfBase
<1> HIDE DEF own
<1>9. ASSUME NEW t \in Types, NEW w \in Files, NEW n \in Names
      PROVE  Amount(y.map, t, w, n) = Amount(own, t, w, n) + Amount(NoVectors, t, w, n)
  <2>1. Amount(x.map, t, w, n) = 0 /\ Amount(NoVectors, t, w, n) = 0
    BY <1>2, NothingAmounts
  <2>2. Amount(own, t, w, n) \in Nat
    BY <1>4, AmountStands
  <2>3. Amount(y.map, t, w, n) = 0 + Amount(own, t, w, n)
    BY <1>4, <1>6, <2>1
  <2> QED
    BY <2>1, <2>2, <2>3
<1>10. Together(y.map, own, NoVectors)
  BY <1>7, <1>8, <1>9, NothingAmounts DEF Together
<1> QED
  BY <1>6, <1>7, <1>10 DEF Holding, own

\* taking the base game out leaves it holding its own,
LEMMA OwnKept ==
  ASSUME NEW x, NEW own, NEW b, Holding(x, own, b), NEW y, y = RemoveFiles(x, UrisOf(b))
  PROVE  Holding(y, own, NoVectors)
<1> DEFINE us == UrisOf(b)
<1>1. /\ IndexTyped(x) /\ AllPlaced(x) /\ CountsBut(x, x.map, {}) /\ x.baseUris = us
      /\ Together(x.map, own, b) /\ NotOfBase(own) /\ own \in Vectors /\ b \in Vectors
  BY DEF Holding, Together, NotOfBase, OfBase
<1>2. us \subseteq BaseFiles
  <2>1. ASSUME NEW t \in Types, NEW e \in ToSet(b[t]) PROVE e.uri \in BaseFiles
    <3>1. PICK k \in DOMAIN b[t] : b[t][k] = e
      BY <2>1 DEF ToSet
    <3> QED
      BY <1>1, <3>1 DEF Together, OfBase
  <2> QED
    BY <2>1 DEF UrisOf
<1>3. y = RemoveFiles(x, us)
  OBVIOUS
<1> HIDE DEF us
<1>4. IndexTyped(y) /\ AllPlaced(y) /\ y.baseUris = x.baseUris \ us
  BY <1>1, <1>3, RemoveFilesPlaces
<1>5. /\ CountsBut(y, y.map, {})
      /\ \A t \in Types, w \in Files, n \in Names :
           Amount(y.map, t, w, n) = IF w \in us THEN 0 ELSE Amount(x.map, t, w, n)
  <2>1. us \subseteq x.baseUris
    BY <1>1
  <2> QED
    BY <1>1, <1>2, <1>3, <2>1, RemoveFilesCounts
<1>6. ASSUME NEW t \in Types, NEW w \in Files, NEW n \in Names
      PROVE  Amount(y.map, t, w, n) = Amount(own, t, w, n) + Amount(NoVectors, t, w, n)
  <2>0. Amount(NoVectors, t, w, n) = 0 /\ Amount(own, t, w, n) \in Nat
    BY <1>1, AmountStands, NothingAmounts
  <2>1. CASE w \in us
    <3>1. {i \in DOMAIN own[t] : own[t][i].uri = w /\ own[t][i].name = n} = {}
      BY <1>1, <1>2, <2>1 DEF NotOfBase
    <3>2. Amount(own, t, w, n) = Cardinality({i \in DOMAIN own[t] : own[t][i].uri = w /\ own[t][i].name = n})
      BY <1>1, AmountStands
    <3>3. Amount(own, t, w, n) = 0
      BY <3>1, <3>2, FS_EmptySet
    <3> QED
      BY <1>5, <2>0, <2>1, <3>3
  <2>2. CASE w \notin us
    <3>1. Amount(b, t, w, n) = 0
      BY <1>1, <2>2, AmountElsewhere DEF us
    <3>2. Amount(x.map, t, w, n) = Amount(own, t, w, n) + Amount(b, t, w, n)
      BY <1>1 DEF Together
    <3>3. Amount(y.map, t, w, n) = Amount(x.map, t, w, n)
      BY <1>5, <2>2
    <3> QED
      BY <2>0, <3>1, <3>2, <3>3
  <2> QED
    BY <2>1, <2>2
<1>7. y.baseUris = UrisOf(NoVectors) /\ y.map \in Vectors /\ OfBase(NoVectors)
  BY <1>1, <1>4, NothingAmounts DEF IndexTyped, Vectors
<1>8. Together(y.map, own, NoVectors)
  BY <1>1, <1>6, <1>7 DEF Together
<1> QED
  BY <1>4, <1>5, <1>7, <1>8 DEF Holding

\* adding one makes it hold that,
LEMMA BaseHeld ==
  ASSUME NEW y, NEW own, Holding(y, own, NoVectors), NEW per, OfBase(per), NEW z, z = MergeBaseGame(y, per)
  PROVE  Holding(z, own, per)
<1>1. /\ IndexTyped(y) /\ AllPlaced(y) /\ CountsBut(y, y.map, {}) /\ y.baseUris = {}
      /\ Together(y.map, own, NoVectors) /\ NotOfBase(own) /\ own \in Vectors /\ per \in Vectors
  BY NothingAmounts DEF Holding, Together, NotOfBase, OfBase
<1>2. BaseMerged(y, per, z)
  BY <1>1, MergeBaseGamePlaces DEF Vectors
<1>3. \A t \in Types : \A i \in DOMAIN per[t] : per[t][i].uri \in BaseFiles
  BY DEF OfBase
<1>4. /\ CountsBut(z, z.map, {})
      /\ \A t \in Types, w \in Files, n \in Names :
           Amount(z.map, t, w, n) = Amount(y.map, t, w, n) + Amount(per, t, w, n)
  BY <1>1, <1>3, MergeBaseGameCounts
<1>5. IndexTyped(z) /\ AllPlaced(z) /\ z.map \in Vectors /\ z.baseUris = UrisOf(per)
  <2>1. IndexTyped(z) /\ AllPlaced(z) /\ z.baseUris = y.baseUris \cup UrisOf(per)
    BY <1>2 DEF BaseMerged, UrisOf
  <2>2. z.map \in Vectors
    BY <2>1 DEF IndexTyped, Vectors
  <2> QED
    BY <1>1, <2>1, <2>2
<1>6. ASSUME NEW t \in Types, NEW w \in Files, NEW n \in Names
      PROVE  Amount(z.map, t, w, n) = Amount(own, t, w, n) + Amount(per, t, w, n)
  <2>1. Amount(y.map, t, w, n) = Amount(own, t, w, n) + Amount(NoVectors, t, w, n)
    BY <1>1 DEF Together
  <2>2. Amount(NoVectors, t, w, n) = 0 /\ Amount(own, t, w, n) \in Nat
    BY <1>1, AmountStands, NothingAmounts
  <2> QED
    BY <1>4, <2>1, <2>2
<1>7. Together(z.map, own, per)
  BY <1>1, <1>5, <1>6 DEF Together
<1> QED
  BY <1>4, <1>5, <1>7 DEF Holding

\* and so a base game takes the place of the one before.
LEMMA BaseReplaced ==
  ASSUME NEW x, NEW own, NEW b, Holding(x, own, b), NEW per, OfBase(per),
         NEW z, z = MergeBaseGame(RemoveFiles(x, UrisOf(b)), per)
  PROVE  Holding(z, own, per)
<1> DEFINE y == RemoveFiles(x, UrisOf(b))
<1>1. Holding(y, own, NoVectors)
  BY OwnKept
<1> HIDE DEF y
<1> QED
  BY <1>1, BaseHeld DEF y

\* A base game that is added as one file tells as much.
LEMMA FolderTold ==
  ASSUME NEW x, NEW own, Holding(x, own, NoVectors), NEW u \in BaseFiles, NEW per \in [Types -> Seq(Names)],
         NEW y, y = MergeFrom(x, u, per, TRUE), NEW n \in Names
  PROVE  Tells(y, own, VectorsOf(u, per), n)
<1> DEFINE b == VectorsOf(u, per)
           c == Counted(x, per, TRUE)
           new == [t \in Types |-> x.map[t] \o b[t]]
<1>1. IndexTyped(x) /\ CountsBut(x, x.map, {}) /\ x.map \in Vectors /\ Together(x.map, own, NoVectors)
  BY DEF Holding, Together
<1>2. u \in Files
  BY InfoIndexAssumption
<1>3. b \in Vectors /\ NamesOf(b) = per /\ \A t \in Types : \A i \in DOMAIN b[t] : b[t][i].uri = u
  BY <1>2, AmountOwn
<1>4. new \in Vectors /\ \A t \in Types : new[t] = x.map[t] \o b[t]
  <2>1. \A t \in Types : new[t] = x.map[t] \o b[t]
    OBVIOUS
  <2>2. new \in Vectors
    <3> HIDE DEF b
    <3> QED
      BY <1>1, <1>3, Concatenated
  <2> QED
    BY <2>1, <2>2
<1>5. y.refs = c.refs /\ y.nameCounts = c.nameCounts
  <2>1. c = [f \in IndexFields |-> c[f]]
    BY <1>1, CountedMovesNothing
  <2> HIDE DEF c
  <2>2. c = Counted(x, per, TRUE)
    BY DEF c
  <2> QED
    BY <2>1, <2>2 DEF MergeFrom, IndexFields
<1> HIDE DEF b, c, new
<1>6. \A t \in Types : \A i \in DOMAIN b[t] : TRUE <=> b[t][i].uri \in BaseFiles
  BY <1>3
<1>7. c = Counted(x, NamesOf(b), TRUE)
  BY <1>3 DEF c
<1>8. CountsBut(c, new, {})
  <2>1. PICK isBase \in BOOLEAN : isBase = TRUE
    OBVIOUS
  <2>2. \A t \in Types : \A i \in DOMAIN b[t] : isBase <=> b[t][i].uri \in BaseFiles
    BY <1>6, <2>1
  <2>3. c = Counted(x, NamesOf(b), isBase)
    BY <1>7, <2>1
  <2> QED
    BY <1>1, <1>3, <1>4, <2>2, <2>3, CountedCounts
<1>9. CountsBut(y, new, {})
  BY <1>5, <1>8 DEF CountsBut
<1>10. ASSUME NEW t \in Types, NEW w \in Files, NEW m \in Names
       PROVE  Amount(new, t, w, m) = Amount(own, t, w, m) + Amount(b, t, w, m)
  <2>1. Amount(new, t, w, m) = Amount(x.map, t, w, m) + Amount(b, t, w, m)
    <3>1. \A kind : Cardinality(Carrying(new, kind)) = Cardinality(Carrying(x.map, kind)) + Cardinality(Carrying(b, kind))
      <4>1. x.map \in Vectors /\ new \in Vectors /\ b \in Vectors
        BY <1>1, <1>3, <1>4
      <4>2. \A r \in Types : new[r] = x.map[r] \o b[r]
        BY <1>4
      <4> QED
        BY <4>1, <4>2, BehindCounts
    <3> QED
      BY <3>1 DEF Amount
  <2>2. Amount(x.map, t, w, m) = Amount(own, t, w, m) + Amount(NoVectors, t, w, m)
    BY <1>1 DEF Together
  <2>3. Amount(NoVectors, t, w, m) = 0
    BY NothingAmounts
  <2>4. Amount(own, t, w, m) \in Nat
    BY <1>1, AmountStands DEF Together, NotOfBase
  <2> QED
    BY <2>1, <2>2, <2>3, <2>4
<1>11. OfBase(b)
  BY <1>3 DEF OfBase
<1>12. Together(new, own, b)
  BY <1>1, <1>4, <1>10, <1>11 DEF Together
<1> QED
  BY <1>9, <1>12, TogetherTells DEF b

-----------------------------------------------------------------------------
(* The refinement                                                          *)

\* In every state the invariants make the answers those of the table.
LEMMA Answering == IInv /\ PlacesInv /\ TableInv => TableAnswered
<1> SUFFICES ASSUME IInv, PlacedIn(info), Follows(info, base, baseUris) PROVE TableAnswered
  BY DEF PlacesInv, TableInv
<1> DEFINE m == Mods(info)
           names == info.baseVariables
           a == AnswersOf
           b == Table!Answers(m, base, names)
<1>1. Good(info) /\ ShapeOf(info) /\ baseUris \in SUBSET BaseFiles
  BY DEF IInv, Good
<1>2. base \in Vectors /\ AmountsFollow(info, base) /\ RefsIn(info) /\ NoName \notin names
  BY DEF Follows
<1> HIDE DEF b
<1>3. b = Table!Answers(m, base, names)
  BY DEF b
<1> HIDE DEF m, names
<1>gives. TableGives(b, m, base, names)
  BY <1>3, TableFields
<1>known. a.known = b.known
  <2>1. ASSUME NEW t \in Types, NEW n \in Names
        PROVE  HasInstance(info.types, t, n) /\ Lower[n] = n <=> Table!DefinedBy(m, t, n) # {} \/ Table!InBase(base, t, n)
    BY <1>1, NamesAnswered DEF m
  <2>2. /\ a.known = [t \in Types |-> {n \in Names : HasInstance(info.types, t, n) /\ Lower[n] = n}]
        /\ b.known = [t \in Types |-> {n \in Names : Table!DefinedBy(m, t, n) # {} \/ Table!InBase(base, t, n)}]
    BY <1>gives, IndexGives DEF TableGives
  <2>3. ASSUME NEW t \in Types
        PROVE  {n \in Names : HasInstance(info.types, t, n) /\ Lower[n] = n}
                 = {n \in Names : Table!DefinedBy(m, t, n) # {} \/ Table!InBase(base, t, n)}
    BY <2>1
  <2> QED
    BY <2>2, <2>3
<1>duplicated. a.duplicated = b.duplicated
  <2>1. ASSUME NEW t \in Types, NEW n \in Names
        PROVE  WorkspaceDefinitionCount(info.types, t, n) > 1 /\ Lower[n] = n <=> Table!Cardinality(Table!DefinedBy(m, t, n)) > 1
    <3>1. WorkspaceDefinitionCount(info.types, t, n) > 1 /\ Lower[n] = n <=> Cardinality(Table!DefinedBy(m, t, n)) > 1
      BY <1>1, NamesAnswered DEF m
    <3> QED
      BY <3>1, SameCardinality
  <2>2. /\ a.duplicated = [t \in Types |-> {n \in Names : WorkspaceDefinitionCount(info.types, t, n) > 1 /\ Lower[n] = n}]
        /\ b.duplicated = [t \in Types |-> {n \in Names : Table!Cardinality(Table!DefinedBy(m, t, n)) > 1}]
    BY <1>gives, IndexGives DEF TableGives
  <2>3. ASSUME NEW t \in Types
        PROVE  {n \in Names : WorkspaceDefinitionCount(info.types, t, n) > 1 /\ Lower[n] = n}
                 = {n \in Names : Table!Cardinality(Table!DefinedBy(m, t, n)) > 1}
    BY <2>1
  <2> QED
    BY <2>2, <2>3
<1>anyType. a.anyType = b.anyType
  <2>1. ASSUME NEW n \in Names
        PROVE  IsAnyInstance(info.types, n) /\ Lower[n] = n
                 <=> \E k \in Types \ Subtypes : Table!DefinedBy(m, k, n) # {} \/ Table!InBase(base, k, n)
    <3>1. CASE Types = {}
      <4>1. ASSUME Lower[n] = n PROVE ~IsAnyInstance(info.types, n)
        <5>1. CountsBut(info.types, info.types.map, {}) /\ info.types.map \in Vectors
          BY DEF Follows, PlacedIn, IndexTyped, Vectors
        <5>2. info.types.nameCounts[n] > 0 => \E k \in Types \ Subtypes : Spells(info.types.map[k], n)
          BY <5>1, CountersTell
        <5> QED
          BY <3>1, <4>1, <5>2 DEF IsAnyInstance
      <4> QED
        BY <3>1, <4>1
    <3>2. CASE Types # {}
      <4>1. PICK t \in Types : TRUE
        BY <3>2
      <4> QED
        BY <1>1, <4>1, NamesAnswered DEF m
    <3> QED
      BY <3>1, <3>2
  <2>2. /\ a.anyType = {n \in Names : IsAnyInstance(info.types, n) /\ Lower[n] = n}
        /\ b.anyType = {n \in Names : \E t \in Types \ Subtypes : Table!DefinedBy(m, t, n) # {} \/ Table!InBase(base, t, n)}
    BY <1>gives, IndexGives DEF TableGives
  <2> QED
    BY <2>1, <2>2
<1>symbols. a.variables = b.variables /\ a.offered = b.offered /\ a.targets = b.targets /\ a.values = b.values
  <2>1. /\ a.targets = {x \in Symbols : info.targets[x] > 0}
        /\ a.values = {x \in Symbols : info.values[x] > 0}
        /\ a.offered = {x \in Symbols : info.variables[x] > 0}
        /\ a.variables = {x \in Symbols : info.canonical[x] > 0} \cup names
    BY IndexGives DEF names
  <2>2. /\ b.targets = UNION {m[u].targets : u \in Files}
        /\ b.values = UNION {{m[u].values[k] : k \in DOMAIN m[u].values} : u \in Files}
        /\ b.offered = UNION {{m[u].variables[k].name : k \in DOMAIN m[u].variables} : u \in Files}
        /\ b.variables = (names \cup UNION {{Normal[m[u].variables[k].name] :
                             k \in {j \in DOMAIN m[u].variables : m[u].variables[j].ns # "@"}} : u \in Files}) \ {NoName}
    BY <1>gives DEF TableGives
  <2>3. /\ {x \in Symbols : info.targets[x] > 0} = UNION {m[u].targets : u \in Files}
        /\ {x \in Symbols : info.values[x] > 0} = UNION {{m[u].values[k] : k \in DOMAIN m[u].values} : u \in Files}
        /\ {x \in Symbols : info.variables[x] > 0} = UNION {{m[u].variables[k].name : k \in DOMAIN m[u].variables} : u \in Files}
        /\ {x \in Symbols : info.canonical[x] > 0} \cup names
             = (names \cup UNION {{Normal[m[u].variables[k].name] :
                  k \in {j \in DOMAIN m[u].variables : m[u].variables[j].ns # "@"}} : u \in Files}) \ {NoName}
    BY <1>1, <1>2, SymbolsAnswered DEF m, names
  <2> QED
    BY <2>1, <2>2, <2>3
<1>uses. a.uses = b.uses
  <2>1. ASSUME NEW u \in Files
        PROVE  UNION {{<<t, info.refs[t][k].name>> : k \in {j \in DOMAIN info.refs[t] : info.refs[t][j].uri = u}} : t \in Types}
                 = {<<m[u].uses[k].type, m[u].uses[k].name>> : k \in DOMAIN m[u].uses}
    BY <1>1, <1>2, UsesAnswered DEF m
  <2>2. /\ a.uses = [u \in Files |-> UNION {{<<t, info.refs[t][k].name>> :
                        k \in {j \in DOMAIN info.refs[t] : info.refs[t][j].uri = u}} : t \in Types}]
        /\ b.uses = [u \in Files |-> {<<m[u].uses[k].type, m[u].uses[k].name>> : k \in DOMAIN m[u].uses}]
    BY <1>gives, IndexGives DEF TableGives
  <2> QED
    BY <2>1, <2>2
<1>outline. a.outline = b.outline
  <2>1. ASSUME NEW u \in Files, NEW t \in Types \ Subtypes, NEW n \in Names
        PROVE  Occurrences(InstancesInFile(info.types, u)[t], n)
                 = Table!Cardinality({k \in DOMAIN m[u].instances[t] : m[u].instances[t][k] = n})
                     + Table!Cardinality({k \in DOMAIN base[t] : base[t][k].uri = u /\ base[t][k].name = n})
    <3>1. Occurrences(InstancesInFile(info.types, u)[t], n)
            = Cardinality({k \in DOMAIN m[u].instances[t] : m[u].instances[t][k] = n})
                + Cardinality({k \in DOMAIN base[t] : base[t][k].uri = u /\ base[t][k].name = n})
      BY <1>1, <1>2, OutlineLists DEF m
    <3> QED
      BY <3>1, SameCardinality
  <2>2. /\ a.outline = [u \in Files |-> [t \in Types \ Subtypes |-> [n \in Names |->
                          Occurrences(InstancesInFile(info.types, u)[t], n)]]]
        /\ b.outline = [u \in Files |-> [t \in Types \ Subtypes |-> [n \in Names |->
                          Table!Cardinality({k \in DOMAIN m[u].instances[t] : m[u].instances[t][k] = n})
                            + Table!Cardinality({k \in DOMAIN base[t] : base[t][k].uri = u /\ base[t][k].name = n})]]]
    BY <1>gives, IndexGives DEF TableGives
  <2> QED
    BY <2>1, <2>2
<1>4. a = [f \in AnswerFields |-> a[f]] /\ b = [f \in AnswerFields |-> b[f]]
  BY <1>gives, IndexGives DEF TableGives
<1> HIDE DEF a
<1>5. \A f \in AnswerFields : a[f] = b[f]
  BY <1>known, <1>duplicated, <1>anyType, <1>symbols, <1>uses, <1>outline DEF AnswerFields
<1>6. a = b
  BY <1>4, <1>5
<1> QED
  BY <1>3, <1>6 DEF TableAnswered, a, m, names

\* One file's contribution, or the base game's, or neither, changes in a step.
LEMMA TableSteps ==
  IInv /\ TableAnswered' /\ [Next]_vars
    => [Table!Next]_(Table!vars)
<1> SUFFICES ASSUME IInv, TableAnswered', [Next]_vars PROVE [Table!Next]_(Table!vars)
  OBVIOUS
<1>0. Good(info) /\ ShapeOf(info) /\ info.files \in [Files -> FileInfo]
  BY DEF IInv, Good, ShapeOf
<1>1. Table!Answered
  BY DEF TableAnswered, Table!Answered, Mods
<1>2. ASSUME NEW u \in Files, info'.files = [info.files EXCEPT ![u] = info'.files[u]],
             info'.baseVariables = info.baseVariables, base' = base
      PROVE  Table!Next
  <2>1. \A v \in Files \ {u} : info'.files[v] = info.files[v]
    BY <1>0, <1>2
  <2>2. Table!Replace
    BY <1>2, <2>1 DEF Table!Replace
  <2> QED
    BY <1>1, <2>2 DEF Table!Next
<1>3. ASSUME info'.files = info.files, info'.baseVariables = info.baseVariables PROVE Table!Next
  BY <1>1, <1>3 DEF Table!Next, Table!Rebase
<1>4. ASSUME info'.files = info.files, base' = base PROVE Table!Next
  BY <1>1, <1>4 DEF Table!Next, Table!Rename
<1>5. ASSUME NEW p \in Indexers, Install(p) PROVE Table!Next
  <2> DEFINE u == job[p].uri
             cleared == ClearFile(info, u)
  <2>1. u \in Files /\ job[p].text \in Texts /\ job[p].rules \in Rulesets
    BY <1>5 DEF IInv, Install, Workspace
  <2>2. Good(cleared) /\ cleared.files[u] = NoFile
    BY <1>0, <2>1, ClearKeeps
  <2>3. Touches(info, u, cleared)
    BY <1>0, <2>1, ClearTouches
  <2>4. info' = IndexFile(cleared, u, job[p].text, job[p].rules) /\ base' = base
    BY <1>5 DEF Install
  <2> HIDE DEF cleared, u
  <2>5. Touches(cleared, u, info')
    BY <2>1, <2>2, <2>4, IndexTouches
  <2>6. info'.files = [info.files EXCEPT ![u] = info'.files[u]] /\ info'.baseVariables = info.baseVariables
    BY <1>0, <2>1, <2>3, <2>5 DEF Touches
  <2> QED
    BY <1>2, <2>1, <2>4, <2>6
<1>6. ASSUME NEW u \in Workspace, Forget(u) PROVE Table!Next
  <2>1. u \in Files /\ Touches(info, u, info') /\ base' = base
    BY <1>0, <1>6, ClearTouches DEF Forget, Workspace
  <2> QED
    BY <1>2, <2>1 DEF Touches
<1>7. ASSUME NEW game \in BaseGame, MergeVanilla(game) PROVE Table!Next
  <2>1. info' = [info EXCEPT !.types = MergeBaseGame(RemoveFiles(@, baseUris), game.instances)]
    BY <1>7 DEF MergeVanilla
  <2>2. info'.files = info.files /\ info'.baseVariables = info.baseVariables
    BY <1>0, <2>1 DEF ShapeOf, Fields
  <2> QED
    BY <1>3, <2>2
<1>8. ASSUME NEW r \in Rulesets, SetRuleset(r) PROVE Table!Next
  <2>1. info' = [info EXCEPT !.effects = r, !.keys = NoKeys]
    BY <1>8 DEF SetRuleset, UpdateRulesetData
  <2>2. info'.files = info.files /\ info'.baseVariables = info.baseVariables
    BY <1>0, <2>1 DEF ShapeOf, Fields
  <2> QED
    BY <1>3, <2>2
<1>9. ASSUME NEW S, info' = [info EXCEPT !.baseVariables = S], base' = base PROVE Table!Next
  <2>1. info'.files = info.files
    BY <1>0, <1>9 DEF ShapeOf, Fields
  <2> QED
    BY <1>4, <1>9, <2>1
<1>10. CASE (\E p \in Indexers : Overtaken(p)) \/ (\E p \in Indexers, u \in Workspace, text \in Texts : Collect(p, u, text))
           \/ UNCHANGED vars
  <2>1. info' = info
    BY <1>10 DEF Overtaken, Collect, vars
  <2> QED
    BY <1>3, <2>1
<1>11. ASSUME NEW game \in BaseGame, SetVanillaNames(game) PROVE Table!Next
  BY <1>9, <1>11 DEF SetVanillaNames
<1>12. CASE ClearVanillaState
  BY <1>9, <1>12 DEF ClearVanillaState
<1> QED
  BY <1>5, <1>6, <1>7, <1>8, <1>10, <1>11, <1>12 DEF Next

\* AnswersFollowContents: whatever is indexed, forgotten, reloaded and merged
\* again in whatever order, the index answers every question as a table of
\* what each file contributes now and what the base game contributed last.
THEOREM AnswersFollowContentsHolds == Spec => AnswersFollowContents
<1>1. TableAnswered => Table!Init
  BY DEF TableAnswered, Table!Init, Mods
<1>2. Init => IInv /\ PlacesInv /\ TableInv
  BY InitInv, PlacesInit, TableInit
<1> QED
  BY <1>1, <1>2, TableInvariance, Answering, TableSteps, PTL DEF Spec, AnswersFollowContents, Table!Spec
=============================================================================
