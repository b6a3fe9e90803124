--------------------------- MODULE ManifestsProofs --------------------------
(***************************************************************************)
(* Theorems about Manifests: for any files, manifests and run threads, and *)
(* any number of edits, what the daemon holds follows its list, and what   *)
(* it knows of a job lives through edits, requests and crashes.            *)
(***************************************************************************)
EXTENDS Manifests, FiniteSetTheorems, WellFoundedInduction, TLAPS

-----------------------------------------------------------------------------
\* Lemmas about the operators of the model.

LEMMA LeastOf ==
  ASSUME NEW T, T \subseteq Nat, T # {} PROVE \E i \in T : \A j \in T : i <= j
<1>1. PICK i \in T : \A j \in T : ~ (<<j, i>> \in OpToRel(<, Nat))
  BY NatLessThanWellFounded, WFMin, Zenon
<1>2. \A j \in T : ~ (j < i)
  BY <1>1 DEF OpToRel
<1> QED BY <1>2

\* A position has more positions before it than an earlier one.
LEMMA RankGrows ==
  ASSUME NEW kept, IsFiniteSet(kept), \A x \in kept : x \in Nat, NEW i \in kept, NEW j \in kept, i < j
  PROVE  Cardinality({x \in kept : x < i}) < Cardinality({x \in kept : x < j})
<1> DEFINE A == {x \in kept : x < i}
           B == {x \in kept : x < j}
<1>0. i \in Nat /\ j \in Nat
  OBVIOUS
<1>1. \A x \in kept : x < i => x < j
  BY <1>0
<1>2. A \subseteq B /\ i \in B /\ i \notin A /\ B \subseteq kept
  <2>1. A \subseteq B
    BY <1>1
  <2>2. i \in B /\ i \notin A
    BY <1>0
  <2>3. B \subseteq kept
    OBVIOUS
  <2> QED BY <2>1, <2>2, <2>3
<1> HIDE DEF A, B
<1>3. IsFiniteSet(B) /\ A # B
  BY <1>2, FS_Subset
<1>4. Cardinality(A) < Cardinality(B)
  <2>1. /\ IsFiniteSet(A) /\ Cardinality(A) \in Nat /\ Cardinality(B) \in Nat
        /\ Cardinality(A) <= Cardinality(B) /\ (Cardinality(A) = Cardinality(B) => A = B)
    BY <1>2, <1>3, FS_Subset, FS_CardinalityType
  <2> QED BY <1>3, <2>1
<1> QED BY <1>4 DEF A, B

\* Every place of the list that is kept holds one of the positions, and each
\* position is held by one place.
LEMMA RetainPlaces ==
  ASSUME NEW n \in Nat, NEW kept \in SUBSET (1..n)
  PROVE  /\ Cardinality(kept) \in Nat
         /\ \E place \in [1..Cardinality(kept) -> kept] :
              /\ \A k \in 1..Cardinality(kept) :
                   place[k] = CHOOSE i \in kept : Cardinality({j \in kept : j < i}) = k - 1
              /\ \A k, m \in 1..Cardinality(kept) : place[k] = place[m] => k = m
              /\ \A i \in kept : \E k \in 1..Cardinality(kept) : place[k] = i
<1> DEFINE before(i) == {j \in kept : j < i}
           rank == [i \in kept |-> Cardinality(before(i)) + 1]
           size == Cardinality(kept)
<1>0. kept \subseteq 1..n /\ \A i \in kept : i \in Nat
  OBVIOUS
<1>1. IsFiniteSet(kept) /\ size \in Nat
  <2>1. IsFiniteSet(1..n)
    BY FS_Interval
  <2>2. IsFiniteSet(kept)
    BY <1>0, <2>1, FS_Subset
  <2> QED BY <2>2, FS_CardinalityType
<1>2. ASSUME NEW i \in kept
      PROVE  /\ IsFiniteSet(before(i)) /\ Cardinality(before(i)) \in Nat /\ Cardinality(before(i)) < size
             /\ Cardinality(before(i)) + 1 \in 1..size
  <2>1. before(i) \subseteq kept /\ before(i) # kept
    OBVIOUS
  <2>2. IsFiniteSet(before(i)) /\ Cardinality(before(i)) \in Nat /\ Cardinality(before(i)) < size
    <3> HIDE DEF before
    <3> QED BY <1>1, <2>1, FS_Subset, FS_CardinalityType
  <2> HIDE DEF before
  <2> QED BY <1>1, <2>2
<1>3. \A i, j \in kept : i < j => Cardinality(before(i)) < Cardinality(before(j))
  BY <1>0, <1>1, RankGrows
<1>10. ASSUME NEW i \in kept, NEW j \in kept, Cardinality(before(i)) = Cardinality(before(j)) PROVE i = j
  <2>1. Cardinality(before(i)) \in Nat /\ i \in Nat /\ j \in Nat
    BY <1>0, <1>2
  <2>2. ~(i < j) /\ ~(j < i)
    <3>1. PICK c : c = Cardinality(before(i))
      OBVIOUS
    <3>2. c \in Nat /\ c = Cardinality(before(j))
      BY <1>10, <2>1, <3>1
    <3>3. (i < j => c < c) /\ (j < i => c < c)
      BY <1>3, <3>1, <3>2
    <3> QED BY <3>2, <3>3
  <2> QED BY <2>1, <2>2
<1>4. rank \in Injection(kept, 1..size)
  <2>1. rank \in [kept -> 1..size]
    BY <1>2
  <2>2. ASSUME NEW i \in kept, NEW j \in kept, rank[i] = rank[j] PROVE i = j
    <3>1. Cardinality(before(i)) = Cardinality(before(j))
      BY <1>2, <2>2
    <3> QED BY <1>10, <3>1
  <2>3. \A i, j \in DOMAIN rank : rank[i] = rank[j] => i = j
    BY <2>2
  <2> HIDE DEF rank
  <2> QED BY <2>1, <2>3 DEF Injection, IsInjective
<1>5. rank \in Surjection(kept, 1..size)
  <2>1. IsFiniteSet(1..size) /\ Cardinality(1..size) = size
    BY <1>1, FS_Interval
  <2> HIDE DEF rank, size
  <2>2. Cardinality(kept) = Cardinality(1..size)
    BY <2>1 DEF size
  <2> QED BY <1>4, <2>1, <2>2, FS_Injection
<1> DEFINE pick(k) == CHOOSE i \in kept : Cardinality(before(i)) = k - 1
           place == [k \in 1..size |-> pick(k)]
<1>6. ASSUME NEW k \in 1..size PROVE pick(k) \in kept /\ Cardinality(before(pick(k))) = k - 1
  <2>1. PICK i \in kept : rank[i] = k
    BY <1>5 DEF Surjection
  <2>2. Cardinality(before(i)) = k - 1
    BY <1>2, <2>1
  <2> HIDE DEF before
  <2> QED BY <2>1, <2>2
<1>7. place \in [1..size -> kept] /\ \A k \in 1..size : place[k] = pick(k)
  BY <1>6
<1>8. ASSUME NEW k \in 1..size, NEW m \in 1..size, place[k] = place[m] PROVE k = m
  <2>1. k - 1 = m - 1
    BY <1>6, <1>7, <1>8
  <2> QED BY <1>1, <2>1
<1>9. ASSUME NEW i \in kept PROVE \E k \in 1..size : place[k] = i
  <2> DEFINE k == Cardinality(before(i)) + 1
  <2>1. k \in 1..size /\ k - 1 = Cardinality(before(i))
    BY <1>2
  <2>2. pick(k) \in kept /\ Cardinality(before(pick(k))) = Cardinality(before(i))
    BY <1>6, <2>1
  <2>3. pick(k) = i
    <3>1. PICK c \in kept : c = pick(k) /\ Cardinality(before(c)) = Cardinality(before(i))
      BY <2>2
    <3> QED BY <1>10, <3>1
  <2> QED BY <1>7, <2>1, <2>3
<1> HIDE DEF place
<1> QED BY <1>1, <1>7, <1>8, <1>9

\* Vec::retain keeps the elements at the positions, each at a place of its own.
LEMMA Retained ==
  ASSUME NEW S, NEW list \in Seq(S), NEW kept \in SUBSET (DOMAIN list)
  PROVE  /\ retain(list, kept) \in Seq(S)
         /\ \E place \in [DOMAIN retain(list, kept) -> kept] :
              /\ \A k \in DOMAIN retain(list, kept) : retain(list, kept)[k] = list[place[k]]
              /\ \A k, m \in DOMAIN retain(list, kept) : place[k] = place[m] => k = m
              /\ \A i \in kept : \E k \in DOMAIN retain(list, kept) : place[k] = i
<1> DEFINE n == Cardinality(kept)
           result == retain(list, kept)
<1>1. Len(list) \in Nat /\ DOMAIN list = 1..Len(list) /\ \A i \in 1..Len(list) : list[i] \in S
  OBVIOUS
<1>2. kept \in SUBSET (1..Len(list))
  BY <1>1
<1>3. n \in Nat
  BY <1>1, <1>2, RetainPlaces
<1> DEFINE choice(k) == CHOOSE i \in kept : Cardinality({j \in kept : j < i}) = k - 1
<1>4. PICK place \in [1..n -> kept] :
         /\ \A k \in 1..n : place[k] = choice(k)
         /\ \A k, m \in 1..n : place[k] = place[m] => k = m
         /\ \A i \in kept : \E k \in 1..n : place[k] = i
  BY <1>1, <1>2, RetainPlaces
<1>5. result = [k \in 1..n |-> list[choice(k)]]
  BY DEF retain
<1> HIDE DEF choice, result
<1>6. DOMAIN result = 1..n /\ \A k \in 1..n : result[k] = list[place[k]]
  BY <1>4, <1>5
<1>7. result \in [1..n -> S]
  <2>1. \A k \in 1..n : list[choice(k)] \in S
    BY <1>1, <1>2, <1>4
  <2> QED BY <1>5, <2>1
<1>8. result \in Seq(S)
  BY <1>3, <1>7
<1> HIDE DEF n
<1>9. \E p \in [DOMAIN result -> kept] :
         /\ \A k \in DOMAIN result : result[k] = list[p[k]]
         /\ \A k, m \in DOMAIN result : p[k] = p[m] => k = m
         /\ \A i \in kept : \E k \in DOMAIN result : p[k] = i
  <2>1. place \in [DOMAIN result -> kept]
    BY <1>6
  <2> WITNESS place \in [DOMAIN result -> kept]
  <2> QED BY <1>4, <1>6, Zenon
<1> QED BY <1>8, <1>9, Zenon DEF result

\* What FlattenSeq does, by its equations.
LEMMA FlattenEquations ==
  ASSUME NEW S, NEW lists \in Seq(Seq(S)), lists # <<>>
  PROVE  \E flat \in [1..Len(lists) -> Seq(S)] :
           /\ FlattenSeq(lists) = flat[Len(lists)] /\ flat[1] = lists[1]
           /\ \A i \in 1..Len(lists) : i # 1 => flat[i] = flat[i - 1] \o lists[i]
<1> DEFINE n == Len(lists)
           Right(m, f) == /\ f[1] = lists[1]
                          /\ \A i \in 1..m : i # 1 => f[i] = f[i - 1] \o lists[i]
           Wrong == {m \in 1..n : ~ \E f \in [1..m -> Seq(S)] : Right(m, f)}
<1>1. n \in Nat \ {0} /\ \A i \in 1..n : lists[i] \in Seq(S)
  OBVIOUS
<1>2. Wrong = {}
  <2> SUFFICES ASSUME Wrong # {} PROVE FALSE
    OBVIOUS
  <2>1. Wrong \subseteq Nat
    <3> HIDE DEF Right
    <3>1. Wrong \subseteq 1..n
      OBVIOUS
    <3> QED BY <1>1, <3>1
  <2>2. PICK m \in Wrong : \A k \in Wrong : m <= k
    <3> HIDE DEF Wrong
    <3> QED BY <2>1, LeastOf
  <2>3. m \in 1..n /\ ~ \E f \in [1..m -> Seq(S)] : Right(m, f)
    OBVIOUS
  <2>4. CASE m = 1
    <3> DEFINE f == [i \in 1..1 |-> lists[1]]
    <3>1. f \in [1..m -> Seq(S)] /\ Right(m, f)
      BY <1>1, <2>4
    <3> QED BY <2>3, <3>1
  <2>5. CASE m # 1
    <3>1. m - 1 \in 1..n /\ m - 1 \notin Wrong
      <4>1. m - 1 \in 1..n /\ m \in Nat /\ ~(m <= m - 1)
        BY <1>1, <2>3, <2>5
      <4> HIDE DEF Wrong
      <4> QED BY <2>2, <4>1
    <3>2. PICK g \in [1..(m - 1) -> Seq(S)] : Right(m - 1, g)
      BY <3>1
    <3> DEFINE f == [i \in 1..m |-> IF i = m THEN g[m - 1] \o lists[m] ELSE g[i]]
    <3>3. g[m - 1] \o lists[m] \in Seq(S)
      BY <1>1, <2>3, <3>1, <3>2
    <3>4. f \in [1..m -> Seq(S)]
      BY <1>1, <2>3, <3>1, <3>2, <3>3
    <3>5. f[1] = lists[1]
      BY <2>3, <2>5, <3>1, <3>2
    <3>6. ASSUME NEW i \in 1..m, i # 1 PROVE f[i] = f[i - 1] \o lists[i]
      <4>1. i - 1 \in 1..m /\ i - 1 # m /\ f[i - 1] = g[i - 1]
        BY <2>3, <3>6
      <4>2. CASE i = m
        BY <4>1, <4>2
      <4>3. CASE i # m
        <5>1. i \in 1..(m - 1)
          BY <2>3, <4>3
        <5> QED BY <3>2, <3>6, <4>1, <4>3, <5>1
      <4> QED BY <4>2, <4>3
    <3>7. Right(m, f)
      BY <3>5, <3>6
    <3> QED BY <2>3, <3>4, <3>7
  <2> QED BY <2>4, <2>5
<1>3. PICK f \in [1..n -> Seq(S)] : Right(n, f)
  <2>1. n \in 1..n /\ n \notin Wrong
    <3> HIDE DEF Wrong
    <3> QED BY <1>1, <1>2
  <2> HIDE DEF Right
  <2> QED BY <2>1
<1> DEFINE flatten == CHOOSE g : g = [i \in 1..Len(lists) |-> IF i = 1 THEN lists[i] ELSE g[i - 1] \o lists[i]]
<1>4. FlattenSeq(lists) = flatten[Len(lists)]
  BY <1>1 DEF FlattenSeq
<1>5. f = [i \in 1..n |-> IF i = 1 THEN lists[i] ELSE f[i - 1] \o lists[i]]
  BY <1>3
<1>6. flatten = [i \in 1..n |-> IF i = 1 THEN lists[i] ELSE flatten[i - 1] \o lists[i]]
  BY <1>5
<1> HIDE DEF flatten
<1>7. flatten = f
  <2> DEFINE Differ == {i \in 1..n : flatten[i] # f[i]}
  <2>1. Differ = {}
    <3> SUFFICES ASSUME Differ # {} PROVE FALSE
      OBVIOUS
    <3>1. Differ \subseteq Nat
      OBVIOUS
    <3>2. PICK i \in Differ : \A j \in Differ : i <= j
      <4> HIDE DEF Differ
      <4> QED BY <3>1, LeastOf
    <3>3. i \in 1..n /\ flatten[i] # f[i]
      OBVIOUS
    <3>4. i # 1
      BY <1>3, <1>6, <3>3
    <3>5. i - 1 \in 1..n /\ i - 1 \notin Differ
      BY <3>1, <3>2, <3>3, <3>4
    <3>6. flatten[i - 1] = f[i - 1]
      BY <3>5
    <3>7. flatten[i] = flatten[i - 1] \o lists[i] /\ f[i] = f[i - 1] \o lists[i]
      BY <1>3, <1>6, <3>3, <3>4
    <3> QED BY <3>3, <3>6, <3>7
  <2>2. DOMAIN flatten = 1..n /\ flatten = [i \in 1..n |-> flatten[i]]
    BY <1>6
  <2> QED BY <1>3, <2>1, <2>2
<1> QED BY <1>3, <1>4, <1>7

\* Every element of the flat list is one of one of the lists, each at a place of
\* its own.
SpreadBy(row, col, lists, m, flat) ==
  /\ \A k \in DOMAIN flat : row[k] \in 1..m /\ col[k] \in DOMAIN lists[row[k]] /\ flat[k] = lists[row[k]][col[k]]
  /\ \A k, l \in DOMAIN flat : row[k] = row[l] /\ col[k] = col[l] => k = l
  /\ \A a \in 1..m : \A b \in DOMAIN lists[a] : \E k \in DOMAIN flat : row[k] = a /\ col[k] = b
Spread(lists, m, flat) == \E row, col \in [DOMAIN flat -> Nat] : SpreadBy(row, col, lists, m, flat)

LEMMA SpreadOne ==
  ASSUME NEW S, NEW lists, lists[1] \in Seq(S) PROVE Spread(lists, 1, lists[1])
<1> DEFINE flat == lists[1]
           row == [k \in DOMAIN flat |-> 1]
           col == [k \in DOMAIN flat |-> k]
<1>1. row \in [DOMAIN flat -> Nat] /\ col \in [DOMAIN flat -> Nat]
  OBVIOUS
<1>2. \A k \in DOMAIN flat : row[k] \in 1..1 /\ col[k] \in DOMAIN lists[row[k]] /\ flat[k] = lists[row[k]][col[k]]
  OBVIOUS
<1>3. \A k, l \in DOMAIN flat : row[k] = row[l] /\ col[k] = col[l] => k = l
  OBVIOUS
<1>4. \A a \in 1..1 : \A b \in DOMAIN lists[a] : \E k \in DOMAIN flat : row[k] = a /\ col[k] = b
  OBVIOUS
<1> HIDE DEF row, col, flat
<1>5. SpreadBy(row, col, lists, 1, flat)
  BY <1>2, <1>3, <1>4 DEF SpreadBy
<1>6. Spread(lists, 1, flat)
  BY <1>1, <1>5 DEF Spread
<1> QED BY <1>6 DEF flat

LEMMA SpreadNext ==
  ASSUME NEW S, NEW lists, NEW m \in Nat, NEW s \in Seq(S), Spread(lists, m, s), NEW t, t = lists[m + 1], t \in Seq(S)
  PROVE  Spread(lists, m + 1, s \o t)
<1>1. PICK row, col \in [DOMAIN s -> Nat] :
    /\ \A k \in DOMAIN s : row[k] \in 1..m /\ col[k] \in DOMAIN lists[row[k]] /\ s[k] = lists[row[k]][col[k]]
    /\ \A k, l \in DOMAIN s : row[k] = row[l] /\ col[k] = col[l] => k = l
    /\ \A a \in 1..m : \A b \in DOMAIN lists[a] : \E k \in DOMAIN s : row[k] = a /\ col[k] = b
  BY DEF Spread, SpreadBy
<1>2. PICK n \in Nat, l \in Nat : n = Len(s) /\ l = Len(t) /\ DOMAIN s = 1..n /\ DOMAIN t = 1..l
  OBVIOUS
<1>3. PICK flat : flat = s \o t
  OBVIOUS
<1>4. /\ DOMAIN flat = 1..(n + l)
      /\ \A k \in 1..n : flat[k] = s[k]
      /\ \A k \in (n + 1)..(n + l) : flat[k] = t[k - n] /\ k - n \in 1..l
  BY <1>2, <1>3
<1> DEFINE r == [k \in 1..(n + l) |-> IF k <= n THEN row[k] ELSE m + 1]
           c == [k \in 1..(n + l) |-> IF k <= n THEN col[k] ELSE k - n]
<1>5. \A k \in 1..(n + l) : k \in 1..n \/ k \in (n + 1)..(n + l)
  BY <1>2
<1>6. \A k \in 1..n : /\ k \in 1..(n + l) /\ r[k] = row[k] /\ c[k] = col[k]
  BY <1>2
<1>7. \A k \in (n + 1)..(n + l) : k \in 1..(n + l) /\ r[k] = m + 1 /\ c[k] = k - n
  BY <1>2
<1>8. r \in [1..(n + l) -> Nat] /\ c \in [1..(n + l) -> Nat]
  <2>1. \A k \in 1..(n + l) : r[k] \in Nat /\ c[k] \in Nat
    <3> SUFFICES ASSUME NEW k \in 1..(n + l) PROVE r[k] \in Nat /\ c[k] \in Nat
      OBVIOUS
    <3>1. CASE k \in 1..n
      <4>1. row[k] \in Nat /\ col[k] \in Nat
        BY <1>1, <1>2, <3>1
      <4> QED BY <1>6, <3>1, <4>1
    <3>2. CASE k \in (n + 1)..(n + l)
      BY <1>2, <1>7, <3>2
    <3> QED BY <1>5, <3>1, <3>2
  <2> QED BY <2>1
<1> HIDE DEF r, c
<1>9. ASSUME NEW k \in DOMAIN flat
      PROVE  r[k] \in 1..(m + 1) /\ c[k] \in DOMAIN lists[r[k]] /\ flat[k] = lists[r[k]][c[k]]
  <2>1. CASE k \in 1..n
    <3>1. row[k] \in 1..m /\ col[k] \in DOMAIN lists[row[k]] /\ s[k] = lists[row[k]][col[k]]
      BY <1>1, <1>2, <2>1
    <3>2. row[k] \in 1..(m + 1)
      BY <3>1
    <3> QED BY <1>4, <1>6, <2>1, <3>1, <3>2
  <2>2. CASE k \in (n + 1)..(n + l)
    <3>1. r[k] = m + 1 /\ m + 1 \in 1..(m + 1) /\ c[k] = k - n /\ k - n \in DOMAIN t /\ flat[k] = t[k - n]
      BY <1>2, <1>4, <1>7, <2>2
    <3> QED BY <3>1
  <2> QED BY <1>4, <1>5, <2>1, <2>2
<1>10. ASSUME NEW k \in DOMAIN flat, NEW j \in DOMAIN flat, r[k] = r[j], c[k] = c[j] PROVE k = j
  <2>1. \A i \in 1..n : row[i] # m + 1
    BY <1>1, <1>2
  <2>2. CASE k \in 1..n
    <3>1. j \in 1..n
      BY <1>4, <1>5, <1>6, <1>7, <1>10, <2>1, <2>2
    <3> QED BY <1>1, <1>2, <1>6, <1>10, <2>2, <3>1
  <2>3. CASE k \in (n + 1)..(n + l)
    <3>1. j \in (n + 1)..(n + l)
      BY <1>4, <1>5, <1>6, <1>7, <1>10, <2>1, <2>3
    <3>2. k - n = j - n
      BY <1>7, <1>10, <2>3, <3>1
    <3> QED BY <1>2, <2>3, <3>1, <3>2
  <2> QED BY <1>4, <1>5, <2>2, <2>3
<1>11. ASSUME NEW a \in 1..(m + 1), NEW b \in DOMAIN lists[a] PROVE \E k \in DOMAIN flat : r[k] = a /\ c[k] = b
  <2>1. CASE a \in 1..m
    <3>1. PICK k \in DOMAIN s : row[k] = a /\ col[k] = b
      BY <1>1, <2>1
    <3>2. k \in DOMAIN flat /\ r[k] = a /\ c[k] = b
      BY <1>2, <1>4, <1>6, <3>1
    <3> QED BY <3>2
  <2>2. CASE a = m + 1
    <3>1. b \in 1..l
      BY <1>2, <2>2
    <3>2. n + b \in (n + 1)..(n + l) /\ (n + b) - n = b
      BY <1>2, <3>1
    <3>3. n + b \in DOMAIN flat /\ r[n + b] = a /\ c[n + b] = b
      BY <1>4, <1>7, <2>2, <3>2
    <3> QED BY <3>3
  <2> QED BY <2>1, <2>2
<1>12. r \in [DOMAIN flat -> Nat] /\ c \in [DOMAIN flat -> Nat]
  BY <1>4, <1>8
<1>13. Spread(lists, m + 1, flat)
  <2>1. SpreadBy(r, c, lists, m + 1, flat)
    BY <1>9, <1>10, <1>11 DEF SpreadBy
  <2> QED BY <1>12, <2>1 DEF Spread
<1> QED BY <1>3, <1>13

LEMMA Flattened ==
  ASSUME NEW S, NEW lists \in Seq(Seq(S))
  PROVE  FlattenSeq(lists) \in Seq(S) /\ Spread(lists, Len(lists), FlattenSeq(lists))
<1>1. CASE lists = <<>>
  <2>1. FlattenSeq(lists) = <<>> /\ Len(lists) = 0
    BY <1>1 DEF FlattenSeq
  <2>2. Spread(lists, 0, <<>>)
    <3> DEFINE f == [k \in {} |-> 0]
    <3>1. f \in [DOMAIN <<>> -> Nat]
      OBVIOUS
    <3> HIDE DEF f
    <3>2. SpreadBy(f, f, lists, 0, <<>>)
      BY DEF SpreadBy
    <3> QED BY <3>1, <3>2 DEF Spread
  <2> QED BY <2>1, <2>2
<1>2. CASE lists # <<>>
  <2>1. PICK flat \in [1..Len(lists) -> Seq(S)] :
           /\ FlattenSeq(lists) = flat[Len(lists)] /\ flat[1] = lists[1]
           /\ \A i \in 1..Len(lists) : i # 1 => flat[i] = flat[i - 1] \o lists[i]
    BY <1>2, FlattenEquations
  <2>2. PICK n \in Nat \ {0} : n = Len(lists) /\ \A i \in 1..n : lists[i] \in Seq(S) /\ flat[i] \in Seq(S)
    <3>1. Len(lists) \in Nat \ {0} /\ \A i \in 1..Len(lists) : lists[i] \in Seq(S)
      BY <1>2
    <3> QED BY <2>1, <3>1
  <2> DEFINE Wrong == {i \in 1..n : ~Spread(lists, i, flat[i])}
  <2>3. Wrong = {}
    <3> SUFFICES ASSUME Wrong # {} PROVE FALSE
      OBVIOUS
    <3>1. Wrong \subseteq Nat
      OBVIOUS
    <3>2. PICK i \in Wrong : \A j \in Wrong : i <= j
      <4> HIDE DEF Wrong
      <4> QED BY <3>1, LeastOf
    <3>3. i \in 1..n /\ ~Spread(lists, i, flat[i])
      OBVIOUS
    <3>4. i # 1
      BY <2>1, <2>2, <3>3, SpreadOne
    <3>5. i - 1 \in 1..n /\ i - 1 \in Nat /\ (i - 1) + 1 = i /\ ~(i <= i - 1)
      BY <2>2, <3>3, <3>4
    <3>6. Spread(lists, i - 1, flat[i - 1])
      BY <3>2, <3>5
    <3>7. flat[i] = flat[i - 1] \o lists[i]
      BY <2>1, <2>2, <3>3, <3>4
    <3>8. flat[i - 1] \in Seq(S) /\ lists[i] \in Seq(S)
      BY <2>2, <3>3, <3>5
    <3>9. Spread(lists, (i - 1) + 1, flat[i - 1] \o lists[i])
      BY <3>5, <3>6, <3>8, SpreadNext
    <3> QED BY <3>3, <3>5, <3>7, <3>9
  <2>4. Spread(lists, n, flat[n]) /\ flat[n] \in Seq(S)
    BY <2>2, <2>3
  <2> QED BY <2>1, <2>2, <2>4
<1> QED BY <1>1, <1>2

-----------------------------------------------------------------------------
\* Types. The bounds that only the model has are left out.

Entry == [path : Paths, modified : Nat]
TypeInv ==
  /\ files \in [Paths -> Contents] /\ modified \in [Paths -> Nat]
  /\ pc \in Points /\ back \in {"fire", "scan"}
  /\ disk_registry \in Seq(Paths) /\ registry \in Seq(Paths) /\ todo \in Seq(Paths)
  /\ states \in [Ids -> JobState] /\ disk_states \in [Ids -> JobState]
  /\ manifests \in Seq(Entry) /\ jobs \in Seq(Job)
  /\ runs \in [RunIds -> Ids \cup {NoJob}] /\ fresh \in Contents
  /\ pc = "install" => todo # <<>>

LEMMA ContentParts ==
  ASSUME NEW c \in Contents
  PROVE  /\ c.names \in Seq(STRING) /\ c.schedule \in Nat \ {0} /\ c.sandboxed \in BOOLEAN
         /\ \A i \in DOMAIN c.names : c.names[i] \in Names
<1>1. c \in Content
  BY ManifestsAssumption
<1>2. c.names \in Seq(STRING) /\ c.schedule \in Nat \ {0} /\ c.sandboxed \in BOOLEAN
  BY <1>1 DEF Content
<1>3. ASSUME NEW i \in DOMAIN c.names PROVE c.names[i] \in Names
  <2> DEFINE ranges == {Range(d.names) : d \in Contents}
  <2>1. c.names[i] \in Range(c.names)
    BY DEF Range
  <2>2. Range(c.names) \in ranges
    OBVIOUS
  <2>3. c.names[i] \in UNION ranges
    <3> HIDE DEF ranges
    <3> QED BY <2>1, <2>2
  <2> QED BY <2>3 DEF Names
<1> QED BY <1>2, <1>3

LEMMA IdOf ==
  ASSUME NEW p \in Paths, NEW name \in Names
  PROVE  <<Stem[p], name>> \in Ids /\ <<Stem[p], name>>[1] = Stem[p] /\ <<Stem[p], name>>[2] = name
BY DEF Ids

\* The fields of a job.
LEMMA JobFields ==
  ASSUME NEW job \in Job
  PROVE  /\ job.id \in Ids /\ job.manifest \in Paths /\ job.schedule \in Nat /\ job.error \in BOOLEAN
         /\ job.planned \in {"none", "ahead", "due", "missed"}
         /\ job.running \in BOOLEAN /\ job.queued \in BOOLEAN
         /\ job.state \in JobState /\ job.state.paused \in BOOLEAN /\ job.state.fired \in BOOLEAN
BY DEF Job, JobState

\* A planned fire is ahead, of a job that may run.
Planned(job) == job.planned # "none" => job.planned = "ahead" /\ is_ready(job)

\* The job goes on as it was: what a change of its state or its plan leaves.
Same(job, old) ==
  /\ job \in Job /\ job.id = old.id /\ job.manifest = old.manifest
  /\ job.schedule = old.schedule /\ job.error = old.error

\* plan_job changes the planned fire only.
LEMMA PlannedJob ==
  ASSUME NEW job \in Job, NEW result, result = plan_job(job)
  PROVE  /\ Same(result, job) /\ result.running = job.running /\ result.queued = job.queued
         /\ result.state = job.state /\ Planned(result)
<1>1. /\ Same(result, job) /\ result.running = job.running /\ result.queued = job.queued
      /\ result.state = job.state /\ result.planned = IF is_ready(job) THEN "ahead" ELSE "none"
  BY DEF plan_job, Job, Same
<1>2. is_ready(result) <=> is_ready(job)
  BY <1>1 DEF is_ready, Same
<1>3. Planned(result)
  BY <1>1, <1>2 DEF Planned
<1> QED BY <1>1, <1>3

\* `paused` or the last fire changes in the state of a job.
LEMMA PausedJob ==
  ASSUME NEW job \in Job, NEW paused \in BOOLEAN, NEW result, result = [job EXCEPT !.state.paused = paused]
  PROVE  /\ Same(result, job) /\ result.running = job.running /\ result.queued = job.queued
         /\ result.state \in JobState /\ result.state.fired = job.state.fired
BY DEF Job, JobState, Same

LEMMA FiredJob ==
  ASSUME NEW job \in Job, NEW result, result = [job EXCEPT !.state.fired = TRUE]
  PROVE  /\ Same(result, job) /\ result.running = job.running /\ result.queued = job.queued
         /\ result.state \in JobState /\ result.state.fired = TRUE
BY DEF Job, JobState, Same

\* A run of the job starts.
LEMMA StartedJob ==
  ASSUME NEW job \in Job, NEW result, result = [job EXCEPT !.running = TRUE, !.queued = FALSE]
  PROVE  /\ Same(result, job) /\ result.running = TRUE /\ result.queued = FALSE
         /\ result.state = job.state /\ result.planned = job.planned
BY DEF Job, Same

\* What jobs_of says of a job of a manifest.
Fresh(job, p, c) ==
  /\ job \in Job /\ job.manifest = p /\ job.id[1] = Stem[p] /\ job.state = states[job.id]
  /\ job.planned = "none" /\ job.running = FALSE /\ job.queued = FALSE
  /\ job.schedule # NoSchedule => job.error = ~c.sandboxed
  /\ job.schedule = NoSchedule => c.names = <<>>

\* jobs_of makes at least one job, of that manifest and under its name.
LEMMA JobsOf ==
  ASSUME TypeInv, NEW p \in Paths, NEW c \in Contents, NEW read, read = jobs_of(p, c)
  PROVE  /\ read \in Seq(Job) /\ Len(read) \in Nat \ {0}
         /\ \A i \in DOMAIN read : Fresh(read[i], p, c)
         /\ c.names = <<>> => DOMAIN read = {1}
         /\ c.names # <<>> => /\ DOMAIN read = DOMAIN c.names
                              /\ \A i \in DOMAIN c.names : read[i].id = <<Stem[p], c.names[i]>>
<1>1. CASE c.names = <<>>
  <2>1. <<Stem[p], "">> \in Ids /\ <<Stem[p], "">>[1] = Stem[p]
    BY IdOf DEF Names
  <2>2. NoSchedule \in Nat
    BY DEF NoSchedule
  <2>3. PICK job : job = new(<<Stem[p], "">>, p, NoSchedule, TRUE)
    OBVIOUS
  <2>4. PICK id \in Ids : id = <<Stem[p], "">> /\ id[1] = Stem[p]
    BY <2>1
  <2>5. /\ job \in Job /\ job.id = id /\ job.manifest = p /\ job.schedule = NoSchedule
        /\ job.planned = "none" /\ job.running = FALSE /\ job.queued = FALSE /\ job.state = states[id]
    <3>1. job = new(id, p, NoSchedule, TRUE)
      BY <2>3, <2>4
    <3>2. states[id] \in JobState
      BY DEF TypeInv
    <3> QED BY <2>2, <3>1, <3>2 DEF new, Job
  <2>6. Fresh(job, p, c)
    BY <1>1, <2>4, <2>5 DEF Fresh
  <2>7. read = <<job>>
    BY <1>1, <2>3 DEF jobs_of
  <2>8. Len(read) = 1 /\ DOMAIN read = {1} /\ read[1] = job /\ read \in Seq(Job)
    <3>1. \A S : \A x \in S : <<x>> \in Seq(S) /\ Len(<<x>>) = 1 /\ DOMAIN <<x>> = {1} /\ <<x>>[1] = x
      OBVIOUS
    <3> QED BY <2>5, <2>7, <3>1
  <2> QED BY <1>1, <2>6, <2>8
<1>2. CASE c.names # <<>>
  <2>1. /\ c.names \in Seq(STRING) /\ c.schedule \in Nat \ {0} /\ (~c.sandboxed) \in BOOLEAN
        /\ \A i \in DOMAIN c.names : c.names[i] \in Names
    BY ContentParts
  <2>2. read = [i \in DOMAIN c.names |-> new(<<Stem[p], c.names[i]>>, p, c.schedule, ~c.sandboxed)]
    BY <1>2 DEF jobs_of
  <2>3. ASSUME NEW i \in DOMAIN c.names
        PROVE  read[i].id = <<Stem[p], c.names[i]>> /\ Fresh(read[i], p, c) /\ read[i] \in Job
    <3>1. PICK id \in Ids : id = <<Stem[p], c.names[i]>> /\ id[1] = Stem[p]
      BY <2>1, IdOf
    <3>2. PICK job : job = new(id, p, c.schedule, ~c.sandboxed)
      OBVIOUS
    <3>3. PICK schedule \in Nat \ {0} : schedule = c.schedule
      BY <2>1
    <3>4. PICK error \in BOOLEAN : error = ~c.sandboxed
      BY <2>1
    <3>5. /\ job \in Job /\ job.id = id /\ job.manifest = p /\ job.schedule = schedule
          /\ job.error = error
          /\ job.planned = "none" /\ job.running = FALSE /\ job.queued = FALSE /\ job.state = states[id]
      <4>1. job = new(id, p, schedule, error) /\ schedule \in Nat
        BY <3>2, <3>3, <3>4
      <4>2. states[id] \in JobState
        BY DEF TypeInv
      <4> QED BY <4>1, <4>2 DEF new, Job
    <3>6. Fresh(job, p, c)
      BY <3>1, <3>3, <3>4, <3>5 DEF Fresh, NoSchedule
    <3>7. read[i] = job
      BY <2>2, <3>1, <3>2
    <3> QED BY <3>1, <3>5, <3>6, <3>7
  <2>4. PICK n \in Nat \ {0} : n = Len(c.names) /\ DOMAIN c.names = 1..n
    BY <1>2, <2>1
  <2>5. DOMAIN read = 1..n
    BY <2>2, <2>4
  <2>6. read \in Seq(Job) /\ Len(read) = n
    <3>1. read = [i \in 1..n |-> read[i]]
      BY <2>2, <2>4
    <3>2. \A i \in 1..n : read[i] \in Job
      BY <2>3, <2>4
    <3>3. read \in [1..n -> Job]
      BY <3>1, <3>2
    <3> QED BY <2>4, <3>3
  <2> QED BY <1>2, <2>3, <2>4, <2>5, <2>6
<1> QED BY <1>1, <1>2

-----------------------------------------------------------------------------
\* What the steps do to the jobs.

\* Keeping some elements: nothing else is in the result, and nothing is lost.
LEMMA RetainEach ==
  ASSUME NEW S, NEW list \in Seq(S), NEW kept \in SUBSET (DOMAIN list), NEW result, result = retain(list, kept)
  PROVE  /\ result \in Seq(S)
         /\ \A k \in DOMAIN result : \E i \in kept : result[k] = list[i]
         /\ \A i \in kept : \E k \in DOMAIN result : result[k] = list[i]
<1>1. PICK place \in [DOMAIN result -> kept] :
        /\ \A k \in DOMAIN result : result[k] = list[place[k]]
        /\ \A i \in kept : \E k \in DOMAIN result : place[k] = i
  BY Retained
<1>2. result \in Seq(S)
  BY Retained
<1>3. ASSUME NEW k \in DOMAIN result PROVE \E i \in kept : result[k] = list[i]
  BY <1>1
<1>4. ASSUME NEW i \in kept PROVE \E k \in DOMAIN result : result[k] = list[i]
  BY <1>1
<1> QED BY <1>2, <1>3, <1>4

LEMMA Joined ==
  ASSUME NEW S, NEW s \in Seq(S), NEW t \in Seq(S), NEW result, result = s \o t
  PROVE  /\ result \in Seq(S)
         /\ \A k \in DOMAIN result : \/ k \in DOMAIN s /\ result[k] = s[k]
                                     \/ k - Len(s) \in DOMAIN t /\ result[k] = t[k - Len(s)]
         /\ \A k \in DOMAIN s : k \in DOMAIN result /\ result[k] = s[k]
         /\ \A k \in DOMAIN t : k + Len(s) \in DOMAIN result /\ result[k + Len(s)] = t[k]
<1>1. PICK n \in Nat, l \in Nat : n = Len(s) /\ l = Len(t) /\ DOMAIN s = 1..n /\ DOMAIN t = 1..l
  OBVIOUS
<1>2. result \in Seq(S) /\ DOMAIN result = 1..(n + l)
  BY <1>1
<1>3. \A k \in 1..n : result[k] = s[k]
  BY <1>1
<1>4. \A k \in (n + 1)..(n + l) : result[k] = t[k - n] /\ k - n \in 1..l
  BY <1>1
<1>5. \A k \in 1..(n + l) : k \in 1..n \/ k \in (n + 1)..(n + l)
  BY <1>1
<1>6. \A k \in 1..l : k + n \in (n + 1)..(n + l) /\ (k + n) - n = k /\ k + n \in 1..(n + l)
  BY <1>1
<1>7. \A k \in 1..n : k \in 1..(n + l)
  BY <1>1
<1>8. \A k \in DOMAIN result : \/ k \in DOMAIN s /\ result[k] = s[k]
                               \/ k - Len(s) \in DOMAIN t /\ result[k] = t[k - Len(s)]
  BY <1>1, <1>2, <1>3, <1>4, <1>5
<1>9. \A k \in DOMAIN t : k + Len(s) \in DOMAIN result /\ result[k + Len(s)] = t[k]
  BY <1>1, <1>2, <1>4, <1>6
<1> QED BY <1>1, <1>2, <1>3, <1>7, <1>8, <1>9

UniqueIn(list) == \A i, k \in DOMAIN list : list[i].id = list[k].id => i = k

LEMMA RetainUnique ==
  ASSUME NEW S, NEW list \in Seq(S), NEW kept \in SUBSET (DOMAIN list), NEW result, result = retain(list, kept),
         UniqueIn(list)
  PROVE  UniqueIn(result)
<1>1. PICK place \in [DOMAIN result -> kept] :
        /\ \A k \in DOMAIN result : result[k] = list[place[k]]
        /\ \A k, m \in DOMAIN result : place[k] = place[m] => k = m
  BY Retained
<1>2. \A k \in DOMAIN result : place[k] \in DOMAIN list
  BY <1>1
<1> QED BY <1>1, <1>2 DEF UniqueIn

\* Two lists with no ID in common.
LEMMA JoinedUnique ==
  ASSUME NEW S, NEW s \in Seq(S), NEW t \in Seq(S), NEW result, result = s \o t,
         UniqueIn(s), UniqueIn(t), \A i \in DOMAIN s : \A k \in DOMAIN t : s[i].id # t[k].id
  PROVE  UniqueIn(result)
<1>1. \A k \in DOMAIN result : \/ k \in DOMAIN s /\ result[k] = s[k]
                               \/ k - Len(s) \in DOMAIN t /\ result[k] = t[k - Len(s)]
  BY Joined
<1>2. \A k \in DOMAIN result : k \in Nat
  <2>1. result \in Seq(S)
    BY Joined
  <2> QED BY <2>1
<1>3. Len(s) \in Nat
  OBVIOUS
<1> SUFFICES ASSUME NEW i \in DOMAIN result, NEW k \in DOMAIN result, result[i].id = result[k].id
             PROVE  i = k
  BY DEF UniqueIn
<1>4. CASE i \in DOMAIN s /\ result[i] = s[i] /\ k \in DOMAIN s /\ result[k] = s[k]
  BY <1>4 DEF UniqueIn
<1>5. CASE k - Len(s) \in DOMAIN t /\ result[k] = t[k - Len(s)] /\ i - Len(s) \in DOMAIN t /\ result[i] = t[i - Len(s)]
  <2>1. k - Len(s) = i - Len(s)
    BY <1>5 DEF UniqueIn
  <2> QED BY <1>2, <1>3, <2>1
<1> QED BY <1>1, <1>4, <1>5

\* One job changes, and stays the job of the same manifest under the same ID.
Modifies(i) ==
  /\ i \in DOMAIN jobs /\ jobs' \in Seq(Job) /\ DOMAIN jobs' = DOMAIN jobs
  /\ \A k \in DOMAIN jobs : jobs'[k].id = jobs[k].id /\ jobs'[k].manifest = jobs[k].manifest
  /\ \A k \in DOMAIN jobs : k # i => jobs'[k] = jobs[k]

LEMMA OneChanges ==
  ASSUME jobs \in Seq(Job), NEW i \in DOMAIN jobs, NEW job \in Job,
         job.id = jobs[i].id, job.manifest = jobs[i].manifest, jobs' = [jobs EXCEPT ![i] = job]
  PROVE  Modifies(i) /\ jobs'[i] = job
<1>1. PICK n \in Nat : n = Len(jobs) /\ DOMAIN jobs = 1..n /\ \A k \in 1..n : jobs[k] \in Job
  OBVIOUS
<1>2. DOMAIN jobs' = 1..n /\ jobs'[i] = job /\ \A k \in 1..n : k # i => jobs'[k] = jobs[k]
  BY <1>1
<1>3. jobs' \in Seq(Job)
  BY <1>1
<1>4. \A k \in 1..n : jobs'[k].id = jobs[k].id /\ jobs'[k].manifest = jobs[k].manifest
  BY <1>2
<1> QED BY <1>1, <1>2, <1>3, <1>4 DEF Modifies

\* The job a request means is the first with its ID.
LEMMA IndexOf ==
  ASSUME jobs \in Seq(Job), NEW id, holds(id)
  PROVE  index(id) \in DOMAIN jobs /\ jobs[index(id)].id = id
<1> DEFINE T == {i \in DOMAIN jobs : jobs[i].id = id}
<1>1. PICK n \in Nat : DOMAIN jobs = 1..n
  OBVIOUS
<1>2. T \subseteq Nat /\ T # {}
  BY <1>1 DEF holds
<1>3. PICK i \in T : \A j \in T : i <= j
  <2> HIDE DEF T
  <2> QED BY <1>2, LeastOf
<1>4. i \in DOMAIN jobs /\ jobs[i].id = id
  OBVIOUS
<1>5. \A k \in 1..(i - 1) : jobs[k].id # id
  <2> SUFFICES ASSUME NEW k \in 1..(i - 1), jobs[k].id = id PROVE FALSE
    OBVIOUS
  <2>1. k \in DOMAIN jobs /\ ~(i <= k)
    BY <1>1, <1>4
  <2> QED BY <1>3, <2>1
<1> HIDE DEF T
<1> QED BY <1>4, <1>5 DEF index

LEMMA IndexUnique ==
  ASSUME jobs \in Seq(Job), UniqueIds, NEW i \in DOMAIN jobs
  PROVE  holds(jobs[i].id) /\ index(jobs[i].id) = i
<1>1. holds(jobs[i].id)
  BY DEF holds
<1>2. index(jobs[i].id) \in DOMAIN jobs /\ jobs[index(jobs[i].id)].id = jobs[i].id
  BY <1>1, IndexOf
<1> QED BY <1>1, <1>2 DEF UniqueIds

\* What is known of the job after the step goes into the map and to disk.
Saves(i) ==
  /\ states' = [states EXCEPT ![jobs[i].id] = jobs'[i].state]
  /\ disk_states' = states'

LEMMA HoldJobs ==
  ASSUME TypeInv, NEW id, NEW paused \in BOOLEAN, hold(id, paused)
  PROVE  \E i \in DOMAIN jobs :
           /\ Modifies(i) /\ Saves(i) /\ Same(jobs'[i], jobs[i]) /\ Planned(jobs'[i])
           /\ jobs'[i].running = jobs[i].running /\ jobs'[i].queued = jobs[i].queued
           /\ jobs'[i].state.fired = jobs[i].state.fired
<1>0. jobs \in Seq(Job)
  BY DEF TypeInv
<1>1. holds(id)
  BY DEF hold
<1>2. PICK i \in DOMAIN jobs : i = index(id) /\ jobs[i].id = id
  BY <1>0, <1>1, IndexOf
<1>3. jobs[i] \in Job
  BY <1>0, <1>2
<1>4. PICK held : held = [jobs[i] EXCEPT !.state.paused = paused]
  OBVIOUS
<1>5. /\ Same(held, jobs[i]) /\ held.running = jobs[i].running /\ held.queued = jobs[i].queued
      /\ held.state \in JobState /\ held.state.fired = jobs[i].state.fired
  BY <1>3, <1>4, PausedJob
<1>6. PICK job : job = plan_job(held)
  OBVIOUS
<1>7. /\ Same(job, held) /\ job.running = held.running /\ job.queued = held.queued
      /\ job.state = held.state /\ Planned(job)
  BY <1>5, <1>6, PlannedJob DEF Same
<1>8. jobs' = [jobs EXCEPT ![i] = job] /\ save_state(held)
  BY <1>2, <1>4, <1>6 DEF hold
<1>9. Modifies(i) /\ jobs'[i] = job
  BY <1>0, <1>5, <1>7, <1>8, OneChanges DEF Same
<1>10. Saves(i)
  BY <1>5, <1>7, <1>8, <1>9 DEF Saves, save_state, Same
<1>11. Same(jobs'[i], jobs[i])
  BY <1>5, <1>7, <1>9 DEF Same
<1> QED BY <1>5, <1>7, <1>9, <1>10, <1>11

LEMMA FireJobs ==
  ASSUME TypeInv, NEW i, fire(i)
  PROVE  /\ Modifies(i) /\ Saves(i) /\ Same(jobs'[i], jobs[i]) /\ Planned(jobs'[i])
         /\ jobs'[i].state.fired = TRUE
         /\ \/ /\ jobs[i].running = FALSE /\ jobs'[i].running = TRUE
               /\ start(jobs[i].id)
            \/ jobs'[i].running = jobs[i].running /\ jobs'[i].queued = TRUE /\ runs' = runs
<1>0. jobs \in Seq(Job)
  BY DEF TypeInv
<1>1. i \in DOMAIN jobs
  BY DEF fire
<1>3. jobs[i] \in Job /\ jobs[i].running \in BOOLEAN
  BY <1>0, <1>1, JobFields
<1>4. PICK fired : fired = [jobs[i] EXCEPT !.state.fired = TRUE]
  OBVIOUS
<1>5. /\ Same(fired, jobs[i]) /\ fired.running = jobs[i].running /\ fired.queued = jobs[i].queued
      /\ fired.state \in JobState /\ fired.state.fired = TRUE
  BY <1>3, <1>4, FiredJob
<1>6. fired \in Job /\ fired.running \in BOOLEAN
  BY <1>3, <1>5 DEF Same
<1>7. save_state(fired)
  BY <1>4 DEF fire
<1>8. \/ /\ ~fired.running /\ start(fired.id)
         /\ jobs' = [jobs EXCEPT ![i] = plan_job([fired EXCEPT !.running = TRUE, !.queued = FALSE])]
      \/ jobs' = [jobs EXCEPT ![i] = plan_job([fired EXCEPT !.queued = TRUE])] /\ runs' = runs
  BY <1>4, Zenon DEF fire
<1>9. ASSUME NEW run \in Job, Same(run, fired), run.state = fired.state, jobs' = [jobs EXCEPT ![i] = plan_job(run)]
      PROVE  /\ Modifies(i) /\ Saves(i) /\ Same(jobs'[i], jobs[i]) /\ Planned(jobs'[i])
             /\ jobs'[i].state.fired = TRUE /\ jobs'[i].running = run.running /\ jobs'[i].queued = run.queued
  <2>1. PICK job : job = plan_job(run)
    OBVIOUS
  <2>2. /\ Same(job, run) /\ job.running = run.running /\ job.queued = run.queued
        /\ job.state = run.state /\ Planned(job)
    BY <2>1, PlannedJob
  <2>3. Modifies(i) /\ jobs'[i] = job
    BY <1>0, <1>1, <1>5, <1>9, <2>1, <2>2, OneChanges DEF Same
  <2>4. Saves(i)
    BY <1>5, <1>7, <1>9, <2>2, <2>3 DEF Saves, save_state, Same
  <2>5. Same(jobs'[i], jobs[i])
    BY <1>5, <1>9, <2>2, <2>3 DEF Same
  <2> QED BY <1>5, <1>9, <2>2, <2>3, <2>4, <2>5
<1>10. CASE /\ ~fired.running /\ start(fired.id)
            /\ jobs' = [jobs EXCEPT ![i] = plan_job([fired EXCEPT !.running = TRUE, !.queued = FALSE])]
  <2>1. PICK run : run = [fired EXCEPT !.running = TRUE, !.queued = FALSE]
    OBVIOUS
  <2>2. Same(run, fired) /\ run.running = TRUE /\ run.state = fired.state
    BY <1>6, <2>1, StartedJob
  <2>3. /\ Modifies(i) /\ Saves(i) /\ Same(jobs'[i], jobs[i]) /\ Planned(jobs'[i])
        /\ jobs'[i].state.fired = TRUE /\ jobs'[i].running = run.running
    BY <1>9, <1>10, <2>1, <2>2 DEF Same
  <2>4. jobs[i].running = FALSE /\ start(jobs[i].id)
    BY <1>3, <1>5, <1>10 DEF Same
  <2> QED BY <2>2, <2>3, <2>4
<1>11. CASE jobs' = [jobs EXCEPT ![i] = plan_job([fired EXCEPT !.queued = TRUE])] /\ runs' = runs
  <2>1. PICK run : run = [fired EXCEPT !.queued = TRUE]
    OBVIOUS
  <2>2. Same(run, fired) /\ run.running = fired.running /\ run.queued = TRUE /\ run.state = fired.state
    BY <1>6, <2>1 DEF Job, Same
  <2>3. /\ Modifies(i) /\ Saves(i) /\ Same(jobs'[i], jobs[i]) /\ Planned(jobs'[i])
        /\ jobs'[i].state.fired = TRUE /\ jobs'[i].running = run.running /\ jobs'[i].queued = run.queued
    BY <1>9, <1>11, <2>1, <2>2 DEF Same
  <2> QED BY <1>5, <1>11, <2>2, <2>3
<1> QED BY <1>8, <1>10, <1>11

LEMMA FinishedJobs ==
  ASSUME TypeInv, NEW r \in RunIds, finished(r)
  PROVE  /\ runs[r] # NoJob /\ runs' = [runs EXCEPT ![r] = NoJob]
         /\ \/ ~holds(runs[r]) /\ UNCHANGED <<jobs, states, disk_states>>
            \/ \E i \in DOMAIN jobs :
                 /\ jobs[i].id = runs[r] /\ i = index(runs[r]) /\ Modifies(i) /\ Saves(i) /\ Same(jobs'[i], jobs[i])
                 /\ jobs'[i].running = FALSE /\ jobs'[i].queued = jobs[i].queued
                 /\ jobs'[i].state = jobs[i].state /\ jobs'[i].planned = jobs[i].planned
<1>0. jobs \in Seq(Job)
  BY DEF TypeInv
<1>1. runs[r] # NoJob /\ runs' = [runs EXCEPT ![r] = NoJob]
  BY DEF finished
<1>2. \/ ~holds(runs[r]) /\ UNCHANGED <<jobs, states, disk_states>>
      \/ /\ holds(runs[r]) /\ jobs' = [jobs EXCEPT ![index(runs[r])].running = FALSE]
         /\ save_state(jobs[index(runs[r])])
  BY Zenon DEF finished
<1>3. CASE /\ holds(runs[r]) /\ jobs' = [jobs EXCEPT ![index(runs[r])].running = FALSE]
           /\ save_state(jobs[index(runs[r])])
  <2>1. PICK i \in DOMAIN jobs : i = index(runs[r]) /\ jobs[i].id = runs[r]
    BY <1>0, <1>3, IndexOf
  <2>2. jobs[i] \in Job
    BY <1>0, <2>1
  <2>3. PICK job : job = [jobs[i] EXCEPT !.running = FALSE]
    OBVIOUS
  <2>4. /\ Same(job, jobs[i]) /\ job.running = FALSE /\ job.queued = jobs[i].queued
        /\ job.state = jobs[i].state /\ job.planned = jobs[i].planned
    BY <2>2, <2>3 DEF Job, Same
  <2>5. jobs' = [jobs EXCEPT ![i] = job]
    BY <1>3, <2>1, <2>3
  <2>6. Modifies(i) /\ jobs'[i] = job
    BY <1>0, <2>1, <2>4, <2>5, OneChanges DEF Same
  <2>7. Saves(i)
    BY <1>3, <2>1, <2>4, <2>6 DEF Saves, save_state
  <2>8. /\ jobs[i].id = runs[r] /\ i = index(runs[r]) /\ Modifies(i) /\ Saves(i) /\ Same(jobs'[i], jobs[i])
        /\ jobs'[i].running = FALSE /\ jobs'[i].queued = jobs[i].queued
        /\ jobs'[i].state = jobs[i].state /\ jobs'[i].planned = jobs[i].planned
    BY <2>1, <2>4, <2>6, <2>7
  <2> QED BY <1>1, <2>8
<1> QED BY <1>1, <1>2, <1>3

LEMMA StartQueuedJobs ==
  ASSUME TypeInv, NEW i, start_queued(i)
  PROVE  /\ Modifies(i) /\ Same(jobs'[i], jobs[i]) /\ start(jobs[i].id)
         /\ jobs[i].running = FALSE /\ jobs'[i].running = TRUE
         /\ jobs'[i].state = jobs[i].state /\ jobs'[i].planned = jobs[i].planned
<1>0. jobs \in Seq(Job)
  BY DEF TypeInv
<1>1. i \in DOMAIN jobs /\ ~jobs[i].running /\ start(jobs[i].id)
  BY Zenon DEF start_queued, can_start_queued
<1>2. jobs[i] \in Job /\ jobs[i].running \in BOOLEAN
  BY <1>0, <1>1, JobFields
<1>3. jobs[i].running = FALSE
  BY <1>1, <1>2
<1>4. PICK job : job = [jobs[i] EXCEPT !.running = TRUE, !.queued = FALSE]
  OBVIOUS
<1>5. Same(job, jobs[i]) /\ job.running = TRUE /\ job.state = jobs[i].state /\ job.planned = jobs[i].planned
  BY <1>2, <1>4, StartedJob
<1>6. jobs' = [jobs EXCEPT ![i] = job]
  <2>1. jobs' = [jobs EXCEPT ![i].running = TRUE, ![i].queued = FALSE]
    BY DEF start_queued
  <2> QED BY <1>0, <1>1, <1>2, <1>4, <2>1
<1>7. Modifies(i) /\ jobs'[i] = job
  BY <1>0, <1>1, <1>5, <1>6, OneChanges DEF Same
<1> QED BY <1>1, <1>3, <1>5, <1>7

LEMMA ComesJobs ==
  ASSUME TypeInv, NEW i, comes(i)
  PROVE  /\ Modifies(i) /\ Same(jobs'[i], jobs[i]) /\ jobs[i].planned = "ahead"
         /\ jobs'[i].planned = IF is_ready(jobs[i]) THEN "due" ELSE "missed"
         /\ jobs'[i].running = jobs[i].running /\ jobs'[i].queued = jobs[i].queued
         /\ jobs'[i].state = jobs[i].state
<1>0. jobs \in Seq(Job)
  BY DEF TypeInv
<1>1. i \in DOMAIN jobs /\ jobs[i].planned = "ahead"
  BY DEF comes
<1>2. jobs[i] \in Job
  BY <1>0, <1>1
<1>3. PICK planned \in {"due", "missed"} : planned = IF is_ready(jobs[i]) THEN "due" ELSE "missed"
  OBVIOUS
<1>4. PICK job : job = [jobs[i] EXCEPT !.planned = planned]
  OBVIOUS
<1>5. /\ Same(job, jobs[i]) /\ job.running = jobs[i].running /\ job.queued = jobs[i].queued
      /\ job.state = jobs[i].state /\ job.planned = planned
  BY <1>2, <1>3, <1>4 DEF Job, Same
<1>6. jobs' = [jobs EXCEPT ![i] = job]
  BY <1>3, <1>4 DEF comes
<1>7. Modifies(i) /\ jobs'[i] = job
  BY <1>0, <1>1, <1>5, <1>6, OneChanges DEF Same
<1> QED BY <1>1, <1>3, <1>5, <1>7

\* What `install` makes of a job that it read from manifest p.
Replaced(job, p, c) ==
  /\ job \in Job /\ job.manifest = p /\ job.id[1] = Stem[p] /\ job.state = states[job.id]
  /\ job.schedule # NoSchedule => job.error = ~c.sandboxed
  /\ holds(job.id) => LET old == jobs[index(job.id)]
                      IN  job.running = old.running /\ job.queued = old.queued
  /\ \/ Planned(job)
     \/ /\ holds(job.id)
        /\ LET old == jobs[index(job.id)]
           IN  job.schedule = old.schedule /\ job.planned = old.planned

LEMMA CarriedJob ==
  ASSUME TypeInv, NEW p \in Paths, NEW c \in Contents, NEW read, Fresh(read, p, c), NEW job, job = carried(read),
         NEW result, result = IF job.planned = "none" THEN plan_job(job) ELSE job
  PROVE  Replaced(result, p, c) /\ result.id = read.id
<1>0. read \in Job
  BY DEF Fresh
<1>1. /\ Same(job, read) /\ job.state = read.state
      /\ holds(read.id) => LET old == jobs[index(read.id)]
                           IN  job.running = old.running /\ job.queued = old.queued
      /\ \/ job.planned = "none"
         \/ /\ holds(read.id)
            /\ LET old == jobs[index(read.id)] IN read.schedule = old.schedule /\ job.planned = old.planned
  <2>1. CASE ~holds(read.id)
    <3>1. job = read
      BY <2>1 DEF carried
    <3> QED BY <1>0, <2>1, <3>1 DEF Same, Fresh
  <2>2. CASE holds(read.id)
    <3>1. jobs \in Seq(Job)
      BY DEF TypeInv
    <3>2. PICK old \in Job : old = jobs[index(read.id)]
      BY <2>2, <3>1, IndexOf
    <3>3. PICK planned \in {"none", "ahead", "due", "missed"} :
            planned = IF old.schedule = read.schedule THEN old.planned ELSE "none"
      BY <3>2, JobFields
    <3>4. job = [read EXCEPT !.running = old.running, !.queued = old.queued, !.planned = planned]
      BY <2>2, <3>2, <3>3 DEF carried
    <3>5. old.running \in BOOLEAN /\ old.queued \in BOOLEAN
      BY <3>2, JobFields
    <3>6. PICK running \in BOOLEAN, queued \in BOOLEAN : running = old.running /\ queued = old.queued
      BY <3>5
    <3>7. job = [read EXCEPT !.running = running, !.queued = queued, !.planned = planned]
      BY <3>4, <3>6
    <3>8. /\ Same(job, read) /\ job.state = read.state /\ job.running = running /\ job.queued = queued
          /\ job.planned = planned
      BY <1>0, <3>7 DEF Same, Job
    <3> QED BY <2>2, <3>2, <3>3, <3>6, <3>8
  <2> QED BY <2>1, <2>2
<1>2. /\ Same(result, read) /\ result.state = read.state
      /\ result.running = job.running /\ result.queued = job.queued
  <2>1. CASE job.planned = "none"
    <3>1. result = plan_job(job) /\ job \in Job
      BY <1>1, <2>1 DEF Same
    <3>2. Same(result, job) /\ result.running = job.running /\ result.queued = job.queued /\ result.state = job.state
      BY <3>1, PlannedJob
    <3> QED BY <1>1, <3>2 DEF Same
  <2>2. CASE job.planned # "none"
    BY <1>1, <2>2
  <2> QED BY <2>1, <2>2
<1>3. \/ Planned(result)
      \/ /\ holds(read.id)
         /\ LET old == jobs[index(read.id)] IN read.schedule = old.schedule /\ result.planned = old.planned
  <2>1. CASE job.planned = "none"
    <3>1. result = plan_job(job) /\ job \in Job
      BY <1>1, <2>1 DEF Same
    <3> QED BY <3>1, PlannedJob
  <2>2. CASE job.planned # "none"
    BY <1>1, <2>2
  <2> QED BY <2>1, <2>2
<1>4. result.id = read.id /\ result.schedule = read.schedule
  BY <1>2 DEF Same
<1>5. /\ result \in Job /\ result.manifest = p /\ result.id[1] = Stem[p] /\ result.state = states[result.id]
      /\ result.schedule # NoSchedule => result.error = ~c.sandboxed
  BY <1>2 DEF Fresh, Same
<1>6. holds(result.id) => LET old == jobs[index(result.id)]
                          IN  result.running = old.running /\ result.queued = old.queued
  BY <1>1, <1>2, <1>4
<1>7. \/ Planned(result)
      \/ /\ holds(result.id)
         /\ LET old == jobs[index(result.id)] IN result.schedule = old.schedule /\ result.planned = old.planned
  BY <1>3, <1>4
<1> QED BY <1>4, <1>5, <1>6, <1>7 DEF Replaced

\* The jobs that `install` keeps, and the ones it brings.
Installs(p, kept, come) ==
  /\ kept \in Seq(Job) /\ come \in Seq(Job) /\ jobs' = kept \o come /\ come # <<>>
  /\ \A k \in DOMAIN kept : \E i \in DOMAIN jobs : jobs[i].manifest # p /\ kept[k] = jobs[i]
  /\ \A i \in DOMAIN jobs : jobs[i].manifest # p => \E k \in DOMAIN kept : kept[k] = jobs[i]
  /\ UniqueIn(jobs) => UniqueIn(kept)
  /\ \A k \in DOMAIN come : Replaced(come[k], p, fresh)
  /\ fresh.names = <<>> => DOMAIN come = {1}
  /\ fresh.names # <<>> =>
       DOMAIN come = DOMAIN fresh.names /\ \A k \in DOMAIN come : come[k].id = <<Stem[p], fresh.names[k]>>

LEMMA InstallJobs ==
  ASSUME TypeInv, install
  PROVE  Head(todo) \in Paths /\ \E kept, come : Installs(Head(todo), kept, come)
<1>0. jobs \in Seq(Job) /\ todo \in Seq(Paths) /\ todo # <<>> /\ fresh \in Contents
  BY DEF TypeInv, install
<1>1. PICK p \in Paths : p = Head(todo)
  BY <1>0
<1>2. PICK read : read = jobs_of(p, fresh)
  OBVIOUS
<1>3. /\ read \in Seq(Job) /\ Len(read) \in Nat \ {0} /\ \A i \in DOMAIN read : Fresh(read[i], p, fresh)
      /\ fresh.names = <<>> => DOMAIN read = {1}
      /\ fresh.names # <<>> => /\ DOMAIN read = DOMAIN fresh.names
                               /\ \A i \in DOMAIN fresh.names : read[i].id = <<Stem[p], fresh.names[i]>>
  BY <1>0, <1>2, JobsOf
<1>4. PICK places : places = {i \in DOMAIN jobs : jobs[i].manifest # p}
  OBVIOUS
<1>5. PICK kept : kept = retain(jobs, places)
  OBVIOUS
<1>6. places \in SUBSET (DOMAIN jobs)
  BY <1>4
<1>7. /\ kept \in Seq(Job)
      /\ \A k \in DOMAIN kept : \E i \in places : kept[k] = jobs[i]
      /\ \A i \in places : \E k \in DOMAIN kept : kept[k] = jobs[i]
  BY <1>0, <1>5, <1>6, RetainEach
<1>8. UniqueIn(jobs) => UniqueIn(kept)
  BY <1>0, <1>5, <1>6, RetainUnique
<1>9. PICK come : come = [i \in DOMAIN read |->
                  LET job == carried(read[i])
                  IN  IF job.planned = "none" THEN plan_job(job) ELSE job]
  OBVIOUS
<1>10. jobs' = kept \o come
  BY <1>1, <1>2, <1>4, <1>5, <1>9 DEF install
<1>11. ASSUME NEW k \in DOMAIN read PROVE Replaced(come[k], p, fresh) /\ come[k].id = read[k].id
  <2>1. PICK job : job = carried(read[k])
    OBVIOUS
  <2>2. PICK result : result = IF job.planned = "none" THEN plan_job(job) ELSE job
    OBVIOUS
  <2>3. Fresh(read[k], p, fresh)
    BY <1>3
  <2>4. Replaced(result, p, fresh) /\ result.id = read[k].id
    BY <1>0, <2>1, <2>2, <2>3, CarriedJob
  <2>5. come[k] = result
    BY <1>9, <2>1, <2>2
  <2> QED BY <2>4, <2>5
<1>12. DOMAIN come = DOMAIN read
  BY <1>9
<1>13. come \in Seq(Job) /\ come # <<>>
  <2>1. PICK n \in Nat \ {0} : DOMAIN read = 1..n
    BY <1>3
  <2>2. \A k \in 1..n : come[k] \in Job
    BY <1>11, <2>1 DEF Replaced
  <2>3. come = [k \in 1..n |-> come[k]]
    BY <1>9, <2>1
  <2>4. come \in [1..n -> Job]
    BY <2>2, <2>3
  <2> QED BY <1>12, <2>1, <2>4
<1>14. \A k \in DOMAIN kept : \E i \in DOMAIN jobs : jobs[i].manifest # p /\ kept[k] = jobs[i]
  BY <1>4, <1>7
<1>15. \A i \in DOMAIN jobs : jobs[i].manifest # p => \E k \in DOMAIN kept : kept[k] = jobs[i]
  BY <1>4, <1>7
<1>16. Installs(p, kept, come)
  BY <1>3, <1>7, <1>8, <1>10, <1>11, <1>12, <1>13, <1>14, <1>15 DEF Installs
<1> QED BY <1>1, <1>16

\* No two files give their jobs the same name, and no manifest names two of
\* its schedules the same. Loading a manifest sees to the second; the first is
\* up to the user, since only `add` refuses an ID that is taken.
StemsApart == \A p, q \in Paths : Stem[p] = Stem[q] => p = q
NamesApart == \A c \in Contents : IsInjective(c.names)
PathsApart(list) == \A i, k \in DOMAIN list : list[i].path = list[k].path => i = k

\* The jobs of one manifest have IDs of their own.
LEMMA NamedApart ==
  ASSUME NamesApart, NEW p, NEW c \in Contents, NEW list,
         c.names = <<>> => DOMAIN list = {1},
         c.names # <<>> =>
           DOMAIN list = DOMAIN c.names /\ \A k \in DOMAIN list : list[k].id = <<Stem[p], c.names[k]>>
  PROVE  UniqueIn(list)
<1> SUFFICES ASSUME NEW i \in DOMAIN list, NEW k \in DOMAIN list, list[i].id = list[k].id PROVE i = k
  BY DEF UniqueIn
<1>1. CASE c.names = <<>>
  BY <1>1
<1>2. CASE c.names # <<>>
  <2>1. <<Stem[p], c.names[i]>> = <<Stem[p], c.names[k]>> /\ i \in DOMAIN c.names /\ k \in DOMAIN c.names
    BY <1>2
  <2>2. c.names[i] = c.names[k]
    BY <2>1
  <2> QED BY <2>1, <2>2 DEF NamesApart, IsInjective
<1> QED BY <1>1, <1>2

\* retain_manifests.
Retains(keep) ==
  /\ jobs' \in Seq(Job) /\ manifests' \in Seq(Entry)
  /\ \A k \in DOMAIN jobs' : \E i \in DOMAIN jobs : jobs[i].manifest \in keep /\ jobs'[k] = jobs[i]
  /\ \A i \in DOMAIN jobs : jobs[i].manifest \in keep => \E k \in DOMAIN jobs' : jobs'[k] = jobs[i]
  /\ \A k \in DOMAIN manifests' : \E i \in DOMAIN manifests :
       manifests[i].path \in keep /\ manifests'[k] = manifests[i]
  /\ \A i \in DOMAIN manifests : manifests[i].path \in keep =>
       \E k \in DOMAIN manifests' : manifests'[k] = manifests[i]
  /\ UniqueIn(jobs) => UniqueIn(jobs')
  /\ PathsApart(manifests) => PathsApart(manifests')

LEMMA RetainPaths ==
  ASSUME NEW S, NEW list \in Seq(S), NEW kept \in SUBSET (DOMAIN list), NEW result, result = retain(list, kept),
         PathsApart(list)
  PROVE  PathsApart(result)
<1>1. PICK place \in [DOMAIN result -> kept] :
        /\ \A k \in DOMAIN result : result[k] = list[place[k]]
        /\ \A k, m \in DOMAIN result : place[k] = place[m] => k = m
  BY Retained
<1>2. \A k \in DOMAIN result : place[k] \in DOMAIN list
  BY <1>1
<1> QED BY <1>1, <1>2 DEF PathsApart

LEMMA RetainsBoth ==
  ASSUME TypeInv, NEW keep, retain_manifests(keep)
  PROVE  Retains(keep)
<1>0. jobs \in Seq(Job) /\ manifests \in Seq(Entry)
  BY DEF TypeInv
<1>1. PICK kept : kept = {i \in DOMAIN jobs : jobs[i].manifest \in keep}
  OBVIOUS
<1>2. kept \in SUBSET (DOMAIN jobs) /\ jobs' = retain(jobs, kept)
  BY <1>1 DEF retain_manifests
<1>3. /\ jobs' \in Seq(Job)
      /\ \A k \in DOMAIN jobs' : \E i \in kept : jobs'[k] = jobs[i]
      /\ \A i \in kept : \E k \in DOMAIN jobs' : jobs'[k] = jobs[i]
      /\ UniqueIn(jobs) => UniqueIn(jobs')
  <2>1. PICK result : result = retain(jobs, kept)
    OBVIOUS
  <2>2. /\ result \in Seq(Job)
        /\ \A k \in DOMAIN result : \E i \in kept : result[k] = jobs[i]
        /\ \A i \in kept : \E k \in DOMAIN result : result[k] = jobs[i]
    BY <1>0, <1>2, <2>1, RetainEach
  <2>3. UniqueIn(jobs) => UniqueIn(result)
    BY <1>0, <1>2, <2>1, RetainUnique
  <2>4. jobs' = result
    BY <1>2, <2>1
  <2> QED BY <2>2, <2>3, <2>4
<1>4. PICK there : there = {i \in DOMAIN manifests : manifests[i].path \in keep}
  OBVIOUS
<1>5. there \in SUBSET (DOMAIN manifests) /\ manifests' = retain(manifests, there)
  BY <1>4 DEF retain_manifests
<1>6. /\ manifests' \in Seq(Entry)
      /\ \A k \in DOMAIN manifests' : \E i \in there : manifests'[k] = manifests[i]
      /\ \A i \in there : \E k \in DOMAIN manifests' : manifests'[k] = manifests[i]
      /\ PathsApart(manifests) => PathsApart(manifests')
  <2>1. PICK result : result = retain(manifests, there)
    OBVIOUS
  <2>2. /\ result \in Seq(Entry)
        /\ \A k \in DOMAIN result : \E i \in there : result[k] = manifests[i]
        /\ \A i \in there : \E k \in DOMAIN result : result[k] = manifests[i]
    BY <1>0, <1>5, <2>1, RetainEach
  <2>3. PathsApart(manifests) => PathsApart(result)
    BY <1>0, <1>5, <2>1, RetainPaths
  <2>4. manifests' = result
    BY <1>5, <2>1
  <2> QED BY <2>2, <2>3, <2>4
<1>7. /\ \A k \in DOMAIN jobs' : \E i \in DOMAIN jobs : jobs[i].manifest \in keep /\ jobs'[k] = jobs[i]
      /\ \A i \in DOMAIN jobs : jobs[i].manifest \in keep => \E k \in DOMAIN jobs' : jobs'[k] = jobs[i]
  BY <1>1, <1>3
<1>8. /\ \A k \in DOMAIN manifests' : \E i \in DOMAIN manifests :
           manifests[i].path \in keep /\ manifests'[k] = manifests[i]
      /\ \A i \in DOMAIN manifests : manifests[i].path \in keep =>
           \E k \in DOMAIN manifests' : manifests'[k] = manifests[i]
  BY <1>4, <1>6
<1> QED BY <1>3, <1>6, <1>7, <1>8 DEF Retains

\* Daemon::open.
Opened(job) ==
  /\ job \in Job /\ job.id[1] = Stem[job.manifest] /\ job.manifest \in Range(disk_registry)
  /\ job.state = disk_states[job.id] /\ Planned(job)

LEMMA OpenJobs ==
  ASSUME TypeInv, open
  PROVE  /\ jobs' \in Seq(Job) /\ \A k \in DOMAIN jobs' : Opened(jobs'[k])
         /\ \A p \in Range(disk_registry) : \E k \in DOMAIN jobs' : jobs'[k].manifest = p
         /\ StemsApart /\ NamesApart /\ IsInjective(disk_registry) => UniqueIn(jobs')
<1>0. disk_registry \in Seq(Paths) /\ files \in [Paths -> Contents] /\ disk_states \in [Ids -> JobState]
  BY DEF TypeInv
<1>1. PICK n \in Nat : /\ n = Len(disk_registry) /\ DOMAIN disk_registry = 1..n
                       /\ \A a \in 1..n : disk_registry[a] \in Paths /\ files[disk_registry[a]] \in Contents
  BY <1>0
<1>2. PICK lists : lists = [i \in DOMAIN disk_registry |-> jobs_of(disk_registry[i], files[disk_registry[i]])]
  OBVIOUS
<1>3. ASSUME NEW a \in 1..n
      PROVE  /\ lists[a] \in Seq(Job) /\ Len(lists[a]) \in Nat \ {0}
             /\ \A b \in DOMAIN lists[a] : Fresh(lists[a][b], disk_registry[a], files[disk_registry[a]])
             /\ NamesApart => UniqueIn(lists[a])
  <2>1. PICK p \in Paths, c \in Contents : p = disk_registry[a] /\ c = files[disk_registry[a]]
    BY <1>1
  <2>2. PICK read : read = jobs_of(p, c)
    OBVIOUS
  <2>3. /\ read \in Seq(Job) /\ Len(read) \in Nat \ {0}
        /\ \A i \in DOMAIN read : Fresh(read[i], p, c)
        /\ c.names = <<>> => DOMAIN read = {1}
        /\ c.names # <<>> => /\ DOMAIN read = DOMAIN c.names
                             /\ \A i \in DOMAIN c.names : read[i].id = <<Stem[p], c.names[i]>>
    BY <2>2, JobsOf
  <2>4. NamesApart => UniqueIn(read)
    BY <2>3, NamedApart
  <2>5. lists[a] = read
    BY <1>1, <1>2, <2>1, <2>2
  <2> QED BY <2>1, <2>3, <2>4, <2>5
<1>4. lists \in Seq(Seq(Job)) /\ Len(lists) = n
  <2>1. lists = [a \in 1..n |-> lists[a]]
    BY <1>1, <1>2
  <2>2. lists \in [1..n -> Seq(Job)]
    BY <1>3, <2>1
  <2> QED BY <1>1, <2>2
<1>5. PICK read : read = FlattenSeq(lists)
  OBVIOUS
<1>6. read \in Seq(Job) /\ Spread(lists, n, read)
  BY <1>4, <1>5, Flattened
<1>7. PICK row, col \in [DOMAIN read -> Nat] : SpreadBy(row, col, lists, n, read)
  BY <1>6 DEF Spread
<1>8. PICK result : result = [i \in DOMAIN read |-> plan_job([read[i] EXCEPT !.state = disk_states[read[i].id]])]
  OBVIOUS
<1>9. jobs' = result
  BY <1>2, <1>5, <1>8 DEF open
<1>10. ASSUME NEW k \in DOMAIN read
       PROVE  /\ row[k] \in 1..n /\ col[k] \in DOMAIN lists[row[k]] /\ read[k] = lists[row[k]][col[k]]
              /\ Opened(result[k]) /\ result[k].id = read[k].id /\ result[k].manifest = disk_registry[row[k]]
  <2>1. row[k] \in 1..n /\ col[k] \in DOMAIN lists[row[k]] /\ read[k] = lists[row[k]][col[k]]
    BY <1>7 DEF SpreadBy
  <2>2. PICK p \in Paths : p = disk_registry[row[k]] /\ p \in Range(disk_registry)
    BY <1>1, <2>1 DEF Range
  <2>3. Fresh(read[k], p, files[p])
    BY <1>3, <2>1, <2>2
  <2>4. PICK old \in Job : old = read[k] /\ old.manifest = p /\ old.id[1] = Stem[p]
    BY <2>3 DEF Fresh
  <2>5. PICK state \in JobState : state = disk_states[old.id]
    BY <1>0, <2>4, JobFields
  <2>6. PICK job : job = [old EXCEPT !.state = state]
    OBVIOUS
  <2>7. Same(job, old) /\ job.state = state
    BY <2>4, <2>5, <2>6 DEF Same, Job
  <2>8. result[k] = plan_job(job)
    BY <1>8, <2>4, <2>5, <2>6
  <2>9. PICK done : done = plan_job(job)
    OBVIOUS
  <2>10. Same(done, job) /\ done.state = job.state /\ Planned(done)
    BY <2>7, <2>9, PlannedJob DEF Same
  <2>11. /\ done \in Job /\ done.id = old.id /\ done.manifest = p /\ done.state = disk_states[done.id]
    BY <2>4, <2>5, <2>7, <2>10 DEF Same
  <2>12. Opened(done)
    BY <2>2, <2>4, <2>10, <2>11 DEF Opened
  <2> QED BY <2>1, <2>2, <2>4, <2>8, <2>9, <2>11, <2>12
<1>11. DOMAIN result = DOMAIN read
  BY <1>8
<1>12. result \in Seq(Job)
  <2>1. PICK m \in Nat : DOMAIN read = 1..m
    BY <1>6
  <2>2. result = [k \in 1..m |-> result[k]]
    BY <1>8, <2>1
  <2>3. \A k \in 1..m : result[k] \in Job
    BY <1>10, <2>1 DEF Opened
  <2>4. result \in [1..m -> Job]
    BY <2>2, <2>3
  <2> QED BY <2>1, <2>4
<1>13. ASSUME NEW p \in Range(disk_registry) PROVE \E k \in DOMAIN result : result[k].manifest = p
  <2>1. PICK a \in 1..n : p = disk_registry[a]
    BY <1>1 DEF Range
  <2>2. 1 \in DOMAIN lists[a]
    BY <1>3, <2>1
  <2>3. PICK k \in DOMAIN read : row[k] = a
    BY <1>7, <2>1, <2>2 DEF SpreadBy
  <2>4. k \in DOMAIN result /\ result[k].manifest = p
    BY <1>10, <1>11, <2>1, <2>3
  <2> QED BY <2>4
<1>14. ASSUME StemsApart, NamesApart, IsInjective(disk_registry) PROVE UniqueIn(result)
  <2> SUFFICES ASSUME NEW k \in DOMAIN read, NEW l \in DOMAIN read, result[k].id = result[l].id PROVE k = l
    BY <1>11 DEF UniqueIn
  <2>1. PICK a \in 1..n, b \in 1..n : a = row[k] /\ b = row[l]
    BY <1>10
  <2>2. /\ disk_registry[a] \in Paths /\ disk_registry[b] \in Paths
        /\ read[k].id = read[l].id /\ read[k].id[1] = Stem[disk_registry[a]] /\ read[l].id[1] = Stem[disk_registry[b]]
    <3>1. read[k].id = read[l].id
      BY <1>10
    <3>2. /\ result[k].id[1] = Stem[result[k].manifest] /\ result[l].id[1] = Stem[result[l].manifest]
      BY <1>10 DEF Opened
    <3>3. result[k].manifest = disk_registry[a] /\ result[l].manifest = disk_registry[b]
      BY <1>10, <2>1
    <3>4. result[k].id = read[k].id /\ result[l].id = read[l].id
      BY <1>10
    <3> QED BY <1>1, <2>1, <3>1, <3>2, <3>3, <3>4
  <2>3. a = b
    <3>1. disk_registry[a] = disk_registry[b]
      BY <1>14, <2>2 DEF StemsApart
    <3> QED BY <1>1, <1>14, <2>1, <3>1 DEF IsInjective
  <2>4. /\ col[k] \in DOMAIN lists[a] /\ col[l] \in DOMAIN lists[a]
        /\ lists[a][col[k]].id = lists[a][col[l]].id
    BY <1>10, <2>1, <2>2, <2>3
  <2>5. col[k] = col[l]
    BY <1>3, <1>14, <2>1, <2>4 DEF UniqueIn
  <2> QED BY <1>7, <2>1, <2>3, <2>5 DEF SpreadBy
<1>15. \A k \in DOMAIN result : Opened(result[k])
  BY <1>10, <1>11
<1> QED BY <1>9, <1>12, <1>13, <1>14, <1>15

-----------------------------------------------------------------------------
\* Lists of manifests.

Seen == {manifests[i].path : i \in DOMAIN manifests}
Watched == {jobs[i].manifest : i \in DOMAIN jobs}

LEMMA WithoutOne ==
  ASSUME NEW S, NEW list \in Seq(S), NEW p, NEW result, result = without(list, p)
  PROVE  /\ result \in Seq(S) /\ Range(result) = Range(list) \ {p}
         /\ IsInjective(list) => IsInjective(result)
<1>1. PICK kept : kept = {i \in DOMAIN list : list[i] # p}
  OBVIOUS
<1>2. kept \in SUBSET (DOMAIN list) /\ result = retain(list, kept)
  BY <1>1 DEF without
<1>3. PICK place \in [DOMAIN result -> kept] :
        /\ \A k \in DOMAIN result : result[k] = list[place[k]]
        /\ \A k, m \in DOMAIN result : place[k] = place[m] => k = m
        /\ \A i \in kept : \E k \in DOMAIN result : place[k] = i
  BY <1>2, Retained
<1>4. result \in Seq(S)
  BY <1>2, Retained
<1>5. \A k \in DOMAIN result : place[k] \in DOMAIN list /\ result[k] # p /\ result[k] = list[place[k]]
  BY <1>1, <1>3
<1>6. ASSUME NEW x \in Range(list), x # p PROVE x \in Range(result)
  <2>1. PICK i \in DOMAIN list : x = list[i]
    BY DEF Range
  <2>2. i \in kept
    BY <1>1, <1>6, <2>1
  <2>3. PICK k \in DOMAIN result : place[k] = i
    BY <1>3, <2>2
  <2> QED BY <1>3, <2>1, <2>3 DEF Range
<1>7. ASSUME NEW x \in Range(result) PROVE x \in Range(list) /\ x # p
  BY <1>5 DEF Range
<1>8. IsInjective(list) => IsInjective(result)
  BY <1>3, <1>5 DEF IsInjective
<1> QED BY <1>4, <1>6, <1>7, <1>8

LEMMA WithOne ==
  ASSUME NEW S, NEW list \in Seq(S), NEW p \in S, NEW result, result = Append(list, p)
  PROVE  /\ result \in Seq(S) /\ Range(result) = Range(list) \cup {p}
         /\ IsInjective(list) /\ p \notin Range(list) => IsInjective(result)
<1>1. PICK n \in Nat : n = Len(list) /\ DOMAIN list = 1..n
  OBVIOUS
<1>2. /\ result \in Seq(S) /\ DOMAIN result = 1..(n + 1) /\ result[n + 1] = p
      /\ \A k \in 1..n : result[k] = list[k]
  BY <1>1
<1>3. \A k \in 1..(n + 1) : k \in 1..n \/ k = n + 1
  BY <1>1
<1>4. n + 1 \in 1..(n + 1) /\ \A k \in 1..n : k \in 1..(n + 1)
  BY <1>1
<1>5. Range(result) = Range(list) \cup {p}
  <2>1. ASSUME NEW x \in Range(result) PROVE x \in Range(list) \cup {p}
    BY <1>1, <1>2, <1>3 DEF Range
  <2>2. ASSUME NEW x \in Range(list) PROVE x \in Range(result)
    BY <1>1, <1>2, <1>4 DEF Range
  <2>3. p \in Range(result)
    BY <1>2, <1>4 DEF Range
  <2> QED BY <2>1, <2>2, <2>3
<1>6. ASSUME IsInjective(list), p \notin Range(list) PROVE IsInjective(result)
  <2> SUFFICES ASSUME NEW a \in DOMAIN result, NEW b \in DOMAIN result, result[a] = result[b] PROVE a = b
    BY DEF IsInjective
  <2>1. \A k \in 1..n : list[k] # p
    BY <1>1, <1>6 DEF Range
  <2>2. CASE a \in 1..n /\ b \in 1..n
    BY <1>1, <1>2, <1>6, <2>2 DEF IsInjective
  <2> QED BY <1>2, <1>3, <2>1, <2>2
<1> QED BY <1>2, <1>5, <1>6

\* A manifest that is added again moves to the end of the list.
moved(list, p) == Append(without(list, p), p)
LEMMA MovedToEnd ==
  ASSUME NEW S, NEW list \in Seq(S), NEW p \in S, IsInjective(list), NEW result, result = moved(list, p)
  PROVE  result \in Seq(S) /\ IsInjective(result) /\ Range(result) = Range(list) \cup {p}
<1>1. PICK rest : rest = without(list, p)
  OBVIOUS
<1>2. rest \in Seq(S) /\ Range(rest) = Range(list) \ {p} /\ IsInjective(rest)
  BY <1>1, WithoutOne
<1>3. p \notin Range(rest) /\ Range(rest) \cup {p} = Range(list) \cup {p}
  BY <1>2
<1>4. result = Append(rest, p)
  BY <1>1 DEF moved
<1>5. /\ result \in Seq(S) /\ Range(result) = Range(rest) \cup {p}
      /\ IsInjective(rest) /\ p \notin Range(rest) => IsInjective(result)
  BY <1>2, <1>4, WithOne
<1> QED BY <1>2, <1>3, <1>5

\* `rescan` reads manifests that the daemon watches.
LEMMA ChangedPaths ==
  ASSUME TypeInv PROVE changed \in Seq(Paths) /\ Range(changed) \subseteq Seen
<1>0. manifests \in Seq(Entry)
  BY DEF TypeInv
<1>1. PICK kept : kept = {i \in DOMAIN manifests : modified[manifests[i].path] # manifests[i].modified}
  OBVIOUS
<1>2. PICK entries : entries = retain(manifests, kept)
  OBVIOUS
<1>3. kept \in SUBSET (DOMAIN manifests)
  BY <1>1
<1>4. entries \in Seq(Entry) /\ \A k \in DOMAIN entries : \E i \in kept : entries[k] = manifests[i]
  BY <1>0, <1>2, <1>3, RetainEach
<1>5. PICK result : result = [i \in DOMAIN entries |-> entries[i].path]
  OBVIOUS
<1>6. changed = result
  BY <1>1, <1>2, <1>5 DEF changed
<1>7. ASSUME NEW k \in DOMAIN entries PROVE result[k] \in Seen /\ result[k] \in Paths
  <2>1. PICK i \in DOMAIN manifests : entries[k] = manifests[i]
    BY <1>3, <1>4
  <2>2. manifests[i] \in Entry
    BY <1>0, <2>1
  <2> QED BY <1>5, <2>1, <2>2 DEF Seen, Entry
<1>8. result \in Seq(Paths)
  <2>1. PICK n \in Nat : DOMAIN entries = 1..n
    BY <1>4
  <2>2. result = [k \in 1..n |-> result[k]]
    BY <1>5, <2>1
  <2>3. result \in [1..n -> Paths]
    BY <1>7, <2>1, <2>2
  <2> QED BY <2>1, <2>3
<1>9. Range(result) \subseteq Seen
  BY <1>5, <1>7 DEF Range
<1> QED BY <1>6, <1>8, <1>9

LEMMA Remembered ==
  ASSUME TypeInv, NEW p \in Paths, remember_modified(p)
  PROVE  /\ manifests' \in Seq(Entry) /\ Seen' = Seen \cup {p}
         /\ PathsApart(manifests) => PathsApart(manifests')
<1>0. manifests \in Seq(Entry) /\ modified[p] \in Nat
  BY DEF TypeInv
<1>1. PICK entry \in Entry : entry = [path |-> p, modified |-> modified[p]] /\ entry.path = p
  <2>1. PICK entry : entry = [path |-> p, modified |-> modified[p]]
    OBVIOUS
  <2>2. entry \in Entry /\ entry.path = p
    BY <1>0, <2>1 DEF Entry
  <2> QED BY <2>1, <2>2
<1>2. PICK n \in Nat : n = Len(manifests) /\ DOMAIN manifests = 1..n /\ \A i \in 1..n : manifests[i] \in Entry
  BY <1>0
<1>3. CASE \E i \in DOMAIN manifests : manifests[i].path = p
  <2>1. manifests' = [i \in DOMAIN manifests |-> IF manifests[i].path = p THEN entry ELSE manifests[i]]
    BY <1>1, <1>3 DEF remember_modified
  <2>2. DOMAIN manifests' = 1..n
    BY <1>2, <2>1
  <2>3. \A i \in 1..n : manifests'[i] \in Entry /\ manifests'[i].path = manifests[i].path
    BY <1>1, <1>2, <2>1
  <2>4. manifests' \in Seq(Entry)
    <3>1. manifests' = [i \in 1..n |-> manifests'[i]]
      BY <1>2, <2>1
    <3>2. manifests' \in [1..n -> Entry]
      BY <2>3, <3>1
    <3> QED BY <1>2, <3>2
  <2>5. Seen' = Seen
    BY <1>2, <2>2, <2>3 DEF Seen
  <2>6. p \in Seen
    BY <1>3 DEF Seen
  <2>7. PathsApart(manifests) => PathsApart(manifests')
    BY <1>2, <2>2, <2>3 DEF PathsApart
  <2> QED BY <2>4, <2>5, <2>6, <2>7
<1>4. CASE ~ \E i \in DOMAIN manifests : manifests[i].path = p
  <2>1. manifests' = Append(manifests, entry)
    BY <1>1, <1>4 DEF remember_modified
  <2>2. /\ manifests' \in Seq(Entry) /\ DOMAIN manifests' = 1..(n + 1) /\ manifests'[n + 1] = entry
        /\ \A i \in 1..n : manifests'[i] = manifests[i]
    BY <1>0, <1>2, <2>1
  <2>3. \A i \in 1..(n + 1) : i \in 1..n \/ i = n + 1
    BY <1>2
  <2>4. n + 1 \in 1..(n + 1) /\ \A i \in 1..n : i \in 1..(n + 1)
    BY <1>2
  <2>5. Seen' = Seen \cup {p}
    <3>1. ASSUME NEW x \in Seen' PROVE x \in Seen \cup {p}
      BY <1>1, <1>2, <2>2, <2>3 DEF Seen
    <3>2. ASSUME NEW x \in Seen PROVE x \in Seen'
      BY <1>2, <2>2, <2>4 DEF Seen
    <3>3. p \in Seen'
      BY <1>1, <2>2, <2>4 DEF Seen
    <3> QED BY <3>1, <3>2, <3>3
  <2>6. ASSUME PathsApart(manifests), NEW i \in DOMAIN manifests', NEW k \in DOMAIN manifests',
               manifests'[i].path = manifests'[k].path
        PROVE  i = k
    <3>1. \A j \in 1..n : manifests[j].path # p
      BY <1>2, <1>4
    <3>2. CASE i \in 1..n /\ k \in 1..n
      BY <1>2, <2>2, <2>6, <3>2 DEF PathsApart
    <3>3. CASE ~(i \in 1..n /\ k \in 1..n)
      BY <1>1, <2>2, <2>3, <2>6, <3>1, <3>3
    <3> QED BY <3>2, <3>3
  <2>7. PathsApart(manifests) => PathsApart(manifests')
    BY <2>6 DEF PathsApart
  <2> QED BY <2>2, <2>5, <2>7
<1> QED BY <1>3, <1>4

-----------------------------------------------------------------------------
\* The types, in every state.

LEMMA SavedStates ==
  ASSUME TypeInv, NEW i, Modifies(i), Saves(i)
  PROVE  states' \in [Ids -> JobState] /\ disk_states' \in [Ids -> JobState]
<1>1. jobs'[i] \in Job /\ states \in [Ids -> JobState] /\ i \in DOMAIN jobs /\ jobs \in Seq(Job)
  BY DEF Modifies, TypeInv
<1>2. jobs'[i].state \in JobState
  BY <1>1 DEF Job
<1> QED BY <1>1, <1>2 DEF Saves

LEMMA StartTyped ==
  ASSUME TypeInv, NEW id \in Ids, start(id)
  PROVE  runs' \in [RunIds -> Ids \cup {NoJob}]
BY DEF start, TypeInv

LEMMA TypeInit == ASSUME Init PROVE TypeInv
<1>1. NoState \in JobState
  BY DEF NoState, JobState
<1>2. files \in [Paths -> Contents] /\ modified \in [Paths -> Nat] /\ fresh \in Contents
  BY ManifestsAssumption DEF Init
<1>3. states \in [Ids -> JobState] /\ disk_states \in [Ids -> JobState]
  BY <1>1 DEF Init
<1>4. disk_registry \in Seq(Paths)
  BY ManifestsAssumption DEF Init
<1>5. registry = <<>> /\ todo = <<>> /\ manifests = <<>> /\ jobs = <<>> /\ pc = "down" /\ back = "scan"
  BY DEF Init
<1>6. runs \in [RunIds -> Ids \cup {NoJob}]
  BY DEF Init
<1>7. \A S : <<>> \in Seq(S)
  OBVIOUS
<1> QED BY <1>2, <1>3, <1>4, <1>5, <1>6, <1>7 DEF TypeInv, Points

\* The parts of the types that the steps touch together.
Disk == files \in [Paths -> Contents] /\ modified \in [Paths -> Nat]
Lists == disk_registry \in Seq(Paths) /\ registry \in Seq(Paths)
Known == states \in [Ids -> JobState] /\ disk_states \in [Ids -> JobState]
Held == manifests \in Seq(Entry) /\ jobs \in Seq(Job)
Runs == runs \in [RunIds -> Ids \cup {NoJob}]
Control == /\ pc \in Points /\ back \in {"fire", "scan"} /\ todo \in Seq(Paths) /\ fresh \in Contents
           /\ pc = "install" => todo # <<>>
LEMMA TypeParts == TypeInv <=> Disk /\ Lists /\ Known /\ Held /\ Runs /\ Control
BY DEF TypeInv, Disk, Lists, Known, Held, Runs, Control

LEMMA TypeStep == ASSUME TypeInv, [Next]_vars PROVE TypeInv'
<1> USE DEF Points
<1>0. Disk /\ Lists /\ Known /\ Held /\ Runs /\ Control
  BY TypeParts
<1>1. SUFFICES Disk' /\ Lists' /\ Known' /\ Held' /\ Runs' /\ Control'
  BY TypeParts DEF TypeInv, Disk, Lists, Known, Held, Runs, Control
<1>2. CASE open
  <2>1. PICK n \in Nat : n = Len(disk_registry) /\ DOMAIN disk_registry = 1..n
    BY <1>0 DEF Lists
  <2>2. \A i \in 1..n : disk_registry[i] \in Paths /\ modified[disk_registry[i]] \in Nat
    BY <1>0, <2>1 DEF Lists, Disk
  <2>3. manifests' = [i \in 1..n |-> [path |-> disk_registry[i], modified |-> modified[disk_registry[i]]]]
    BY <1>2, <2>1 DEF open
  <2>4. manifests' \in Seq(Entry)
    <3>1. \A i \in 1..n : [path |-> disk_registry[i], modified |-> modified[disk_registry[i]]] \in Entry
      BY <2>2 DEF Entry
    <3>2. manifests' \in [1..n -> Entry]
      BY <2>3, <3>1
    <3> QED BY <2>1, <3>2
  <2>5. jobs' \in Seq(Job)
    BY <1>2, OpenJobs
  <2> QED BY <1>0, <1>2, <2>4, <2>5 DEF open, Disk, Lists, Known, Held, Runs, Control, files_vars, reading
<1>3. CASE rescan
  <2>1. changed \in Seq(Paths)
    BY ChangedPaths
  <2> QED BY <1>0, <1>3, <2>1 DEF rescan, Disk, Lists, Known, Held, Runs, Control, files_vars
<1>4. CASE load
  <2>1. Head(todo) \in Paths
    BY <1>0, <1>4 DEF load, Control
  <2>2. files[Head(todo)] \in Contents
    BY <1>0, <2>1 DEF Disk
  <2> QED BY <1>0, <1>4, <2>2 DEF load, Disk, Lists, Known, Held, Runs, Control, files_vars
<1>5. CASE install
  <2>1. PICK kept, come : Head(todo) \in Paths /\ Installs(Head(todo), kept, come)
    BY <1>5, InstallJobs
  <2>2. jobs' \in Seq(Job)
    BY <2>1, Joined DEF Installs
  <2>3. manifests' \in Seq(Entry)
    BY <1>5, <2>1, Remembered DEF install
  <2>4. todo # <<>> /\ todo' = Tail(todo) /\ todo' \in Seq(Paths)
    BY <1>0, <1>5 DEF install, Control
  <2> QED BY <1>0, <1>5, <2>2, <2>3, <2>4 DEF install, Disk, Lists, Known, Held, Runs, Control, files_vars
<1>6. CASE reloaded
  BY <1>0, <1>6 DEF reloaded, Disk, Lists, Known, Held, Runs, Control, files_vars, reading
<1>7. CASE wait \/ timeout \/ drained
  BY <1>0, <1>7 DEF wait, timeout, drained, Disk, Lists, Known, Held, Runs, Control, files_vars, reading
<1>8. ASSUME NEW i, fire(i) PROVE Disk' /\ Lists' /\ Known' /\ Held' /\ Runs' /\ Control'
  <2>1. /\ Modifies(i) /\ Saves(i) /\ (start(jobs[i].id) \/ runs' = runs)
    BY <1>8, FireJobs
  <2>2. Known'
    BY <2>1, SavedStates DEF Known
  <2>3. jobs[i].id \in Ids
    BY <1>0, <2>1, JobFields DEF Modifies, Held
  <2>4. Runs'
    BY <1>0, <2>1, <2>3, StartTyped DEF Runs
  <2> QED BY <1>0, <1>8, <2>1, <2>2, <2>4 DEF fire, Modifies, Disk, Lists, Held, Control, files_vars, reading
<1>9. ASSUME NEW i, start_queued(i) PROVE Disk' /\ Lists' /\ Known' /\ Held' /\ Runs' /\ Control'
  <2>1. Modifies(i) /\ start(jobs[i].id)
    BY <1>9, StartQueuedJobs
  <2>3. jobs[i].id \in Ids
    BY <1>0, <2>1, JobFields DEF Modifies, Held
  <2>4. Runs'
    BY <2>1, <2>3, StartTyped DEF Runs
  <2> QED BY <1>0, <1>9, <2>1, <2>4 DEF start_queued, Modifies, Disk, Lists, Known, Held, Control, files_vars, reading
<1>10. CASE crash
  <2>1. NoState \in JobState
    BY DEF NoState, JobState
  <2>2. \A S : <<>> \in Seq(S)
    OBVIOUS
  <2>3. Runs' /\ Known' /\ Held'
    BY <1>0, <1>10, <2>1, <2>2 DEF crash, Runs, Known, Held
  <2> QED BY <1>0, <1>10, <2>2, <2>3 DEF crash, Disk, Lists, Control, files_vars, reading
<1>11. CASE reload_all
  <2>1. jobs' \in Seq(Job) /\ manifests' \in Seq(Entry)
    BY <1>11, RetainsBoth DEF reload_all, Retains
  <2> QED BY <1>0, <1>11, <2>1 DEF reload_all, Disk, Lists, Known, Held, Runs, Control, files_vars
<1>12. CASE write_list
  <2>1. disk_registry' \in Seq(Paths)
    BY <1>0, <1>12, WithoutOne, WithOne DEF write_list, Lists
  <2> QED BY <1>0, <1>12, <2>1 DEF write_list, Disk, Lists, Known, Held, Runs, Control, files_vars, reading
<1>13. ASSUME NEW p \in Paths, add(p) PROVE Disk' /\ Lists' /\ Known' /\ Held' /\ Runs' /\ Control'
  <2>1. UNCHANGED <<files, modified, disk_states, states, manifests, jobs, runs>>
    BY <1>13 DEF add
  <2>2. CASE /\ registry' = Append(without(registry, p), p) /\ disk_registry' = registry'
             /\ todo' = <<p>> /\ fresh' = files[p] /\ back' = "scan" /\ pc' = "install"
    <3>1. without(registry, p) \in Seq(Paths)
      BY <1>0, WithoutOne DEF Lists
    <3>2. registry' \in Seq(Paths)
      BY <2>2, <3>1
    <3>3. todo' \in Seq(Paths) /\ todo' # <<>>
      BY <2>2
    <3>4. fresh' \in Contents
      BY <1>0, <2>2 DEF Disk
    <3> QED BY <1>0, <2>1, <2>2, <3>2, <3>3, <3>4 DEF Disk, Lists, Known, Held, Runs, Control, files_vars
  <2>3. CASE pc' = "scan" /\ UNCHANGED <<registry, disk_registry, reading>>
    BY <1>0, <2>1, <2>3 DEF Disk, Lists, Known, Held, Runs, Control, files_vars, reading
  <2> QED BY <1>13, <2>2, <2>3, Zenon DEF add
<1>14. ASSUME NEW p \in Paths, remove(p) PROVE Disk' /\ Lists' /\ Known' /\ Held' /\ Runs' /\ Control'
  <2>1. jobs' \in Seq(Job) /\ manifests' \in Seq(Entry)
    BY <1>14, RetainsBoth DEF remove, Retains
  <2>2. NoState \in JobState
    BY DEF NoState, JobState
  <2>3. Known'
    <3>1. states' = [id \in Ids |-> IF \E i \in DOMAIN jobs' : jobs'[i].id = id THEN states[id] ELSE NoState]
      BY <1>14 DEF remove, prune_states
    <3>2. states' \in [Ids -> JobState]
      BY <1>0, <2>2, <3>1 DEF Known
    <3> QED BY <1>14, <3>2 DEF remove, prune_states, Known
  <2>4. registry' \in Seq(Paths) /\ disk_registry' = registry'
    BY <1>0, <1>14, WithoutOne DEF remove, Lists
  <2> QED BY <1>0, <1>14, <2>1, <2>3, <2>4 DEF remove, Disk, Lists, Held, Runs, Control, files_vars, reading
<1>15. ASSUME NEW p \in Paths, edit(p) PROVE Disk' /\ Lists' /\ Known' /\ Held' /\ Runs' /\ Control'
  <2>1. PICK content \in Contents : files' = [files EXCEPT ![p] = content]
    BY <1>15 DEF edit
  <2>2. modified' = [modified EXCEPT ![p] = @ + 1]
    BY <1>15 DEF edit
  <2>3. Disk'
    BY <1>0, <2>1, <2>2 DEF Disk
  <2> QED BY <1>0, <1>15, <2>3 DEF edit, Lists, Known, Held, Runs, Control, reading
<1>16. ASSUME NEW id \in Ids, NEW paused \in BOOLEAN, hold(id, paused)
       PROVE  Disk' /\ Lists' /\ Known' /\ Held' /\ Runs' /\ Control'
  <2>1. PICK i \in DOMAIN jobs : Modifies(i) /\ Saves(i)
    BY <1>16, HoldJobs
  <2>2. Known'
    BY <2>1, SavedStates DEF Known
  <2> QED BY <1>0, <1>16, <2>1, <2>2 DEF hold, Modifies, Disk, Lists, Held, Runs, Control, files_vars, reading
<1>17. ASSUME NEW r \in RunIds, finished(r) PROVE Disk' /\ Lists' /\ Known' /\ Held' /\ Runs' /\ Control'
  <2>1. /\ runs' = [runs EXCEPT ![r] = NoJob]
        /\ \/ UNCHANGED <<jobs, states, disk_states>>
           \/ \E i \in DOMAIN jobs : Modifies(i) /\ Saves(i)
    BY <1>17, FinishedJobs
  <2>2. Known' /\ jobs' \in Seq(Job)
    <3>1. CASE UNCHANGED <<jobs, states, disk_states>>
      BY <1>0, <3>1 DEF Known, Held
    <3>2. ASSUME NEW i \in DOMAIN jobs, Modifies(i), Saves(i) PROVE Known' /\ jobs' \in Seq(Job)
      BY <3>2, SavedStates DEF Known, Modifies
    <3> QED BY <2>1, <3>1, <3>2
  <2>3. Runs'
    BY <1>0, <2>1 DEF Runs
  <2> QED BY <1>0, <1>17, <2>2, <2>3 DEF finished, Disk, Lists, Held, Control, files_vars, reading
<1>18. ASSUME NEW i, comes(i) PROVE Disk' /\ Lists' /\ Known' /\ Held' /\ Runs' /\ Control'
  <2>1. Modifies(i)
    BY <1>18, ComesJobs
  <2> QED BY <1>0, <1>18, <2>1 DEF comes, Modifies, Disk, Lists, Known, Held, Runs, Control, files_vars, reading
<1>19. CASE UNCHANGED vars
  BY <1>0, <1>19 DEF vars, Disk, Lists, Known, Held, Runs, Control
<1> QED BY <1>2, <1>3, <1>4, <1>5, <1>6, <1>7, <1>8, <1>9, <1>10, <1>11, <1>12, <1>13, <1>14, <1>15, <1>16,
           <1>17, <1>18, <1>19, Zenon DEF Next, Step

-----------------------------------------------------------------------------
\* The list, the times of the files and the jobs.

\* The lists hold no manifest twice. Between two reads the jobs and the times
\* of the files are of the manifests on the list; while manifests are read
\* again, the ones that are left to read may have none yet.
Follows ==
  /\ IsInjective(disk_registry) /\ IsInjective(registry) /\ PathsApart(manifests)
  /\ pc \in {"scan", "fire", "wait", "drain"} => Seen = Range(registry) /\ Watched = Range(registry)
  /\ pc \in {"reload", "install"} => /\ Seen \cup Range(todo) = Range(registry)
                                     /\ Watched \cup Range(todo) = Range(registry)

LEMMA InjectiveLen ==
  ASSUME NEW S, NEW s \in Seq(S), IsInjective(s) PROVE Cardinality(Range(s)) = Len(s)
<1>1. PICK n \in Nat : n = Len(s) /\ DOMAIN s = 1..n
  OBVIOUS
<1>2. IsFiniteSet(1..n) /\ Cardinality(1..n) = n
  <2>1. n \in Nat
    BY <1>1
  <2> QED BY <2>1, FS_Interval
<1>3. PICK T : T = Range(s)
  OBVIOUS
<1>4. s \in [1..n -> T] /\ \A x \in T : \E i \in 1..n : s[i] = x
  BY <1>1, <1>3 DEF Range
<1>5. s \in Surjection(1..n, T)
  BY <1>4 DEF Surjection
<1>6. s \in Injection(1..n, T)
  BY <1>4 DEF Injection
<1>7. Cardinality(T) = Cardinality(1..n)
  BY <1>2, <1>5, <1>6, FS_Surjection
<1> QED BY <1>1, <1>2, <1>3, <1>7

LEMMA FollowsLen ==
  ASSUME TypeInv, Follows, Seen = Range(registry) PROVE Len(manifests) = Len(registry)
<1>0. manifests \in Seq(Entry) /\ registry \in Seq(Paths)
  BY DEF TypeInv
<1>1. PICK n \in Nat : n = Len(manifests) /\ DOMAIN manifests = 1..n /\ \A i \in 1..n : manifests[i] \in Entry
  BY <1>0
<1>2. PICK seen : seen = [i \in 1..n |-> manifests[i].path]
  OBVIOUS
<1>3. seen \in Seq(Paths) /\ Len(seen) = n
  <2>1. \A i \in 1..n : manifests[i].path \in Paths
    BY <1>1 DEF Entry
  <2>2. seen \in [1..n -> Paths]
    BY <1>2, <2>1
  <2> QED BY <1>1, <2>2
<1>4. Range(seen) = Seen
  BY <1>1, <1>2 DEF Range, Seen
<1>5. IsInjective(seen)
  BY <1>1, <1>2 DEF Follows, PathsApart, IsInjective
<1>6. Cardinality(Range(seen)) = Len(seen) /\ Cardinality(Range(registry)) = Len(registry)
  BY <1>0, <1>3, <1>5, InjectiveLen DEF Follows
<1> QED BY <1>1, <1>3, <1>4, <1>6

LEMMA SameWatched ==
  /\ \A i : Modifies(i) => Watched' = Watched
  /\ jobs' = jobs => Watched' = Watched
  /\ manifests' = manifests => Seen' = Seen
<1>1. ASSUME NEW i, Modifies(i) PROVE Watched' = Watched
  BY <1>1 DEF Modifies, Watched
<1>2. ASSUME jobs' = jobs PROVE Watched' = Watched
  BY <1>2 DEF Watched
<1>3. ASSUME manifests' = manifests PROVE Seen' = Seen
  BY <1>3 DEF Seen
<1> QED BY <1>1, <1>2, <1>3

LEMMA RetainedWatched ==
  ASSUME NEW keep, Retains(keep) PROVE Watched' = Watched \cap keep /\ Seen' = Seen \cap keep
<1>1. ASSUME NEW p \in Watched' PROVE p \in Watched /\ p \in keep
  BY <1>1 DEF Watched, Retains
<1>2. ASSUME NEW p \in Watched, p \in keep PROVE p \in Watched'
  <2>1. PICK i \in DOMAIN jobs : p = jobs[i].manifest
    BY <1>2 DEF Watched
  <2>2. PICK k \in DOMAIN jobs' : jobs'[k] = jobs[i]
    BY <1>2, <2>1 DEF Retains
  <2> QED BY <2>1, <2>2 DEF Watched
<1>3. ASSUME NEW p \in Seen' PROVE p \in Seen /\ p \in keep
  BY <1>3 DEF Seen, Retains
<1>4. ASSUME NEW p \in Seen, p \in keep PROVE p \in Seen'
  <2>1. PICK i \in DOMAIN manifests : p = manifests[i].path
    BY <1>4 DEF Seen
  <2>2. PICK k \in DOMAIN manifests' : manifests'[k] = manifests[i]
    BY <1>4, <2>1 DEF Retains
  <2> QED BY <2>1, <2>2 DEF Seen
<1> QED BY <1>1, <1>2, <1>3, <1>4

LEMMA InstalledWatched ==
  ASSUME NEW p, NEW kept, NEW come, Installs(p, kept, come) PROVE Watched' = Watched \cup {p}
<1>1. /\ \A k \in DOMAIN jobs' : \/ k \in DOMAIN kept /\ jobs'[k] = kept[k]
                                 \/ k - Len(kept) \in DOMAIN come /\ jobs'[k] = come[k - Len(kept)]
      /\ \A k \in DOMAIN kept : k \in DOMAIN jobs' /\ jobs'[k] = kept[k]
      /\ \A k \in DOMAIN come : k + Len(kept) \in DOMAIN jobs' /\ jobs'[k + Len(kept)] = come[k]
  BY Joined DEF Installs
<1>2. \A k \in DOMAIN come : come[k].manifest = p
  BY DEF Installs, Replaced
<1>3. ASSUME NEW k \in DOMAIN jobs' PROVE jobs'[k].manifest \in Watched \cup {p}
  <2>1. CASE k \in DOMAIN kept /\ jobs'[k] = kept[k]
    <3>1. PICK i \in DOMAIN jobs : kept[k] = jobs[i]
      BY <2>1 DEF Installs
    <3> QED BY <2>1, <3>1 DEF Watched
  <2>2. CASE k - Len(kept) \in DOMAIN come /\ jobs'[k] = come[k - Len(kept)]
    BY <1>2, <2>2
  <2> QED BY <1>1, <2>1, <2>2
<1>4. ASSUME NEW i \in DOMAIN jobs, jobs[i].manifest # p PROVE jobs[i].manifest \in Watched'
  <2>1. PICK k \in DOMAIN kept : kept[k] = jobs[i]
    BY <1>4 DEF Installs
  <2>2. k \in DOMAIN jobs' /\ jobs'[k] = jobs[i]
    BY <1>1, <2>1
  <2> QED BY <2>2 DEF Watched
<1>5. p \in Watched'
  <2>1. PICK k : k \in DOMAIN come
    <3>1. come \in Seq(Job) /\ come # <<>>
      BY DEF Installs
    <3>2. 1 \in DOMAIN come
      BY <3>1
    <3> QED BY <3>2
  <2>2. k + Len(kept) \in DOMAIN jobs' /\ jobs'[k + Len(kept)].manifest = p
    BY <1>1, <1>2, <2>1
  <2> QED BY <2>2 DEF Watched
<1>6. ASSUME NEW x \in Watched' PROVE x \in Watched \cup {p}
  BY <1>3, <1>6 DEF Watched
<1>7. ASSUME NEW x \in Watched PROVE x \in Watched' \cup {p}
  BY <1>4, <1>7 DEF Watched
<1> QED BY <1>5, <1>6, <1>7

LEMMA HeadTail ==
  ASSUME NEW S, NEW s \in Seq(S), s # <<>> PROVE Range(s) = {Head(s)} \cup Range(Tail(s))
<1>1. PICK n \in Nat \ {0} : n = Len(s) /\ DOMAIN s = 1..n
  OBVIOUS
<1>2. PICK t : t = Tail(s)
  OBVIOUS
<1>3. t \in Seq(S) /\ DOMAIN t = 1..(n - 1) /\ \A i \in 1..(n - 1) : t[i] = s[i + 1]
  BY <1>1, <1>2
<1>4. Head(s) = s[1] /\ 1 \in 1..n
  BY <1>1
<1>5. \A i \in 1..(n - 1) : i + 1 \in 1..n
  BY <1>1
<1>6. \A i \in 1..n : i # 1 => i - 1 \in 1..(n - 1) /\ (i - 1) + 1 = i
  BY <1>1
<1>7. ASSUME NEW x \in Range(s) PROVE x \in {Head(s)} \cup Range(t)
  <2>1. PICK i \in 1..n : x = s[i]
    BY <1>1 DEF Range
  <2>2. CASE i = 1
    BY <1>4, <2>1, <2>2
  <2>3. CASE i # 1
    <3>1. i - 1 \in DOMAIN t /\ t[i - 1] = x
      BY <1>3, <1>6, <2>1, <2>3
    <3> QED BY <3>1 DEF Range
  <2> QED BY <2>2, <2>3
<1>8. ASSUME NEW x \in {Head(s)} \cup Range(t) PROVE x \in Range(s)
  BY <1>1, <1>3, <1>4, <1>5 DEF Range
<1> QED BY <1>2, <1>7, <1>8

LEMMA FollowsStep == ASSUME TypeInv, Follows, [Next]_vars PROVE Follows'
<1>0. /\ IsInjective(disk_registry) /\ IsInjective(registry) /\ PathsApart(manifests)
      /\ pc \in {"scan", "fire", "wait", "drain"} => Seen = Range(registry) /\ Watched = Range(registry)
      /\ pc \in {"reload", "install"} => /\ Seen \cup Range(todo) = Range(registry)
                                         /\ Watched \cup Range(todo) = Range(registry)
  BY DEF Follows
<1>1. disk_registry \in Seq(Paths) /\ registry \in Seq(Paths) /\ todo \in Seq(Paths)
  BY DEF TypeInv
<1>2. CASE open
  <2>1. /\ registry' = disk_registry /\ disk_registry' = disk_registry /\ pc' = "scan"
        /\ manifests' = [i \in DOMAIN disk_registry |->
                          [path |-> disk_registry[i], modified |-> modified[disk_registry[i]]]]
    BY <1>2 DEF open
  <2>2. Watched' = Range(disk_registry)
    <3>1. /\ \A k \in DOMAIN jobs' : jobs'[k].manifest \in Range(disk_registry)
          /\ \A p \in Range(disk_registry) : \E k \in DOMAIN jobs' : jobs'[k].manifest = p
      BY <1>2, OpenJobs DEF Opened
    <3> QED BY <3>1 DEF Watched
  <2>3. Seen' = Range(disk_registry)
    BY <2>1 DEF Seen, Range
  <2>4. PathsApart(manifests')
    BY <1>0, <2>1 DEF PathsApart, IsInjective
  <2> QED BY <1>0, <2>1, <2>2, <2>3, <2>4 DEF Follows
<1>3. CASE rescan
  <2>1. /\ pc = "scan" /\ pc' = "reload" /\ todo' = changed
        /\ UNCHANGED <<disk_registry, registry, manifests, jobs>>
    BY <1>3 DEF rescan
  <2>2. Range(changed) \subseteq Seen
    BY ChangedPaths
  <2>3. Seen' = Seen /\ Watched' = Watched
    BY <2>1, SameWatched
  <2>4. Seen \cup Range(changed) = Range(registry) /\ Watched \cup Range(changed) = Range(registry)
    BY <1>0, <2>1, <2>2
  <2> QED BY <1>0, <2>1, <2>3, <2>4 DEF Follows
<1>4. CASE load
  <2>1. /\ pc = "reload" /\ pc' = "install" /\ todo' = todo
        /\ UNCHANGED <<disk_registry, registry, manifests, jobs>>
    BY <1>4 DEF load
  <2>2. Seen' = Seen /\ Watched' = Watched
    BY <2>1, SameWatched
  <2> QED BY <1>0, <2>1, <2>2 DEF Follows
<1>5. CASE install
  <2>1. PICK p \in Paths : p = Head(todo) /\ \E kept, come : Installs(p, kept, come)
    BY <1>5, InstallJobs
  <2>2. /\ pc = "install" /\ pc' = "reload" /\ todo' = Tail(todo) /\ todo # <<>>
        /\ remember_modified(p) /\ UNCHANGED <<disk_registry, registry>>
    BY <1>5, <2>1 DEF install, TypeInv
  <2>3. Watched' = Watched \cup {p}
    BY <2>1, InstalledWatched
  <2>4. Seen' = Seen \cup {p} /\ PathsApart(manifests')
    BY <1>0, <2>2, Remembered
  <2>5. Range(todo) = {p} \cup Range(todo')
    BY <1>1, <2>1, <2>2, HeadTail
  <2>6. Seen' \cup Range(todo') = Range(registry) /\ Watched' \cup Range(todo') = Range(registry)
    BY <1>0, <2>2, <2>3, <2>4, <2>5
  <2> QED BY <1>0, <2>2, <2>4, <2>6 DEF Follows
<1>6. CASE reloaded
  <2>1. /\ pc = "reload" /\ pc' \in {"fire", "scan"} /\ todo = <<>>
        /\ UNCHANGED <<disk_registry, registry, manifests, jobs>>
    BY <1>6 DEF reloaded, TypeInv
  <2>2. Seen' = Seen /\ Watched' = Watched
    BY <2>1, SameWatched
  <2>3. Range(todo) = {}
    BY <2>1 DEF Range
  <2> QED BY <1>0, <2>1, <2>2, <2>3 DEF Follows
<1>7. ASSUME pc \in {"scan", "fire", "wait", "drain"}, pc' \in {"scan", "fire", "wait", "drain"},
             disk_registry' = disk_registry, registry' = registry, manifests' = manifests,
             jobs' = jobs \/ \E i : Modifies(i)
      PROVE  Follows'
  <2>1. Seen' = Seen /\ Watched' = Watched
    BY <1>7, SameWatched
  <2> QED BY <1>0, <1>7, <2>1 DEF Follows
<1>8. CASE wait \/ timeout \/ drained
  <2>1. /\ pc \in {"scan", "fire", "wait", "drain"} /\ pc' \in {"scan", "fire", "wait", "drain"}
        /\ disk_registry' = disk_registry /\ registry' = registry /\ manifests' = manifests /\ jobs' = jobs
    BY <1>8 DEF wait, timeout, drained
  <2> QED BY <1>7, <2>1
<1>9. ASSUME NEW i, fire(i) PROVE Follows'
  <2>1. /\ pc \in {"scan", "fire", "wait", "drain"} /\ pc' \in {"scan", "fire", "wait", "drain"}
        /\ disk_registry' = disk_registry /\ registry' = registry /\ manifests' = manifests
    BY <1>9 DEF fire
  <2> QED BY <1>7, <1>9, <2>1, FireJobs
<1>10. ASSUME NEW i, start_queued(i) PROVE Follows'
  <2>1. /\ pc \in {"scan", "fire", "wait", "drain"} /\ pc' \in {"scan", "fire", "wait", "drain"}
        /\ disk_registry' = disk_registry /\ registry' = registry /\ manifests' = manifests
    BY <1>10 DEF start_queued
  <2> QED BY <1>7, <1>10, <2>1, StartQueuedJobs
<1>11. CASE crash
  <2>1. pc' = "down" /\ registry' = <<>> /\ manifests' = <<>> /\ disk_registry' = disk_registry
    BY <1>11 DEF crash
  <2>2. IsInjective(registry') /\ PathsApart(manifests')
    BY <2>1 DEF IsInjective, PathsApart
  <2> QED BY <1>0, <2>1, <2>2 DEF Follows
<1>12. CASE reload_all
  <2>1. /\ pc = "wait" /\ pc' = "reload" /\ registry' = disk_registry /\ disk_registry' = disk_registry
        /\ todo' = disk_registry
    BY <1>12 DEF reload_all
  <2>2. Retains(Range(disk_registry))
    BY <1>12, RetainsBoth DEF reload_all
  <2>3. Watched' = Watched \cap Range(disk_registry) /\ Seen' = Seen \cap Range(disk_registry)
    BY <2>2, RetainedWatched
  <2>4. PathsApart(manifests')
    BY <1>0, <2>2 DEF Retains
  <2>5. /\ Seen' \cup Range(disk_registry) = Range(disk_registry)
        /\ Watched' \cup Range(disk_registry) = Range(disk_registry)
    BY <2>3
  <2> QED BY <1>0, <2>1, <2>4, <2>5 DEF Follows
<1>13. CASE write_list
  <2>1. /\ pc = "wait" /\ pc' = pc /\ UNCHANGED <<registry, manifests, jobs>>
    BY <1>13 DEF write_list
  <2>2. PICK p \in Paths : disk_registry' = IF p \in Range(registry) THEN without(registry, p) ELSE Append(registry, p)
    BY <1>13 DEF write_list
  <2>3. IsInjective(disk_registry')
    <3>1. CASE p \in Range(registry)
      BY <1>0, <1>1, <2>2, <3>1, WithoutOne
    <3>2. CASE p \notin Range(registry)
      BY <1>0, <1>1, <2>2, <3>2, WithOne
    <3> QED BY <3>1, <3>2
  <2>4. Seen' = Seen /\ Watched' = Watched
    BY <2>1, SameWatched
  <2> QED BY <1>0, <2>1, <2>3, <2>4 DEF Follows
<1>14. ASSUME NEW p \in Paths, add(p) PROVE Follows'
  <2>1. pc = "wait" /\ UNCHANGED <<manifests, jobs>>
    BY <1>14 DEF add
  <2>2. Seen' = Seen /\ Watched' = Watched
    BY <2>1, SameWatched
  <2>3. CASE /\ registry' = Append(without(registry, p), p) /\ disk_registry' = registry'
             /\ todo' = <<p>> /\ pc' = "install"
    <3>2. Range(registry') = Range(registry) \cup {p} /\ IsInjective(registry')
      <4>1. registry' = moved(registry, p)
        BY <2>3 DEF moved
      <4> QED BY <1>0, <1>1, <4>1, MovedToEnd
    <3>3. Range(todo') = {p}
      <4>1. DOMAIN todo' = {1} /\ todo'[1] = p
        BY <2>3
      <4> QED BY <4>1 DEF Range
    <3>4. Seen' \cup Range(todo') = Range(registry') /\ Watched' \cup Range(todo') = Range(registry')
      BY <1>0, <2>1, <2>2, <3>2, <3>3
    <3> QED BY <1>0, <2>1, <2>3, <3>2, <3>4 DEF Follows
  <2>4. CASE pc' = "scan" /\ UNCHANGED <<registry, disk_registry, reading>>
    BY <1>0, <2>1, <2>2, <2>4 DEF Follows
  <2> QED BY <1>14, <2>3, <2>4, Zenon DEF add
<1>15. ASSUME NEW p \in Paths, remove(p) PROVE Follows'
  <2>1. /\ pc = "wait" /\ pc' = "scan" /\ registry' = without(registry, p) /\ disk_registry' = registry'
    BY <1>15 DEF remove
  <2>2. Retains(Paths \ {p})
    BY <1>15, RetainsBoth DEF remove
  <2>3. Watched' = Watched \cap (Paths \ {p}) /\ Seen' = Seen \cap (Paths \ {p})
    BY <2>2, RetainedWatched
  <2>4. Range(registry') = Range(registry) \ {p} /\ IsInjective(registry')
    BY <1>0, <1>1, <2>1, WithoutOne
  <2>5. Range(registry) \subseteq Paths
    BY <1>1 DEF Range
  <2>6. PathsApart(manifests')
    BY <1>0, <2>2 DEF Retains
  <2>7. Seen' = Range(registry') /\ Watched' = Range(registry')
    BY <1>0, <2>1, <2>3, <2>4, <2>5
  <2> QED BY <2>1, <2>4, <2>6, <2>7 DEF Follows
<1>16. ASSUME NEW p \in Paths, edit(p) PROVE Follows'
  <2>1. UNCHANGED <<disk_registry, pc, registry, manifests, jobs, todo>>
    BY <1>16 DEF edit, reading
  <2>2. Seen' = Seen /\ Watched' = Watched
    BY <2>1, SameWatched
  <2> QED BY <1>0, <2>1, <2>2 DEF Follows
<1>17. ASSUME NEW id \in Ids, NEW paused \in BOOLEAN, hold(id, paused) PROVE Follows'
  <2>1. /\ pc \in {"scan", "fire", "wait", "drain"} /\ pc' \in {"scan", "fire", "wait", "drain"}
        /\ disk_registry' = disk_registry /\ registry' = registry /\ manifests' = manifests
    BY <1>17 DEF hold
  <2> QED BY <1>7, <1>17, <2>1, HoldJobs
<1>18. ASSUME NEW r \in RunIds, finished(r) PROVE Follows'
  <2>1. /\ pc \in {"scan", "fire", "wait", "drain"} /\ pc' \in {"scan", "fire", "wait", "drain"}
        /\ disk_registry' = disk_registry /\ registry' = registry /\ manifests' = manifests
    BY <1>18 DEF finished
  <2>2. jobs' = jobs \/ \E i : Modifies(i)
    BY <1>18, FinishedJobs
  <2> QED BY <1>7, <2>1, <2>2
<1>19. ASSUME NEW i, comes(i) PROVE Follows'
  <2>1. /\ pc \in {"scan", "fire", "wait", "drain"} /\ pc' \in {"scan", "fire", "wait", "drain"}
        /\ disk_registry' = disk_registry /\ registry' = registry /\ manifests' = manifests
    BY <1>19 DEF comes
  <2> QED BY <1>7, <1>19, <2>1, ComesJobs
<1>20. CASE UNCHANGED vars
  <2>1. UNCHANGED <<disk_registry, pc, registry, manifests, jobs, todo>>
    BY <1>20 DEF vars
  <2>2. Seen' = Seen /\ Watched' = Watched
    BY <2>1, SameWatched
  <2> QED BY <1>0, <2>1, <2>2 DEF Follows
<1> QED BY <1>2, <1>3, <1>4, <1>5, <1>6, <1>8, <1>9, <1>10, <1>11, <1>12, <1>13, <1>14, <1>15, <1>16,
           <1>17, <1>18, <1>19, <1>20, Zenon DEF Next, Step

LEMMA FollowsAlways == Spec => [](TypeInv /\ Follows)
<1>1. Init => TypeInv /\ Follows
  <2> SUFFICES ASSUME Init PROVE TypeInv /\ Follows
    OBVIOUS
  <2>1. disk_registry = Listed /\ registry = <<>> /\ manifests = <<>> /\ pc = "down"
    BY DEF Init
  <2>2. IsInjective(disk_registry) /\ IsInjective(registry) /\ PathsApart(manifests)
    BY <2>1, ManifestsAssumption DEF IsInjective, PathsApart
  <2>3. Follows
    BY <2>1, <2>2 DEF Follows
  <2> QED BY <2>3, TypeInit
<1>2. TypeInv /\ Follows /\ [Next]_vars => (TypeInv /\ Follows)'
  BY TypeStep, FollowsStep
<1> QED BY <1>1, <1>2, PTL DEF Spec

\* Between two reads of manifests, the daemon's list, the times it remembers and
\* the jobs it holds are of the same manifests, each once: `install`,
\* remember_modified and retain_manifests keep them in step with `add`, `remove`
\* and reload_all, through every edit, a list written by hand and a crash.
THEOREM JobsFollow == Spec => []JobsFollowRegistry
<1>1. ASSUME TypeInv, Follows PROVE JobsFollowRegistry
  <2> SUFFICES ASSUME pc \in {"scan", "fire", "wait", "drain"}
               PROVE  /\ IsInjective(registry) /\ Len(manifests) = Len(registry)
                      /\ Seen = Range(registry) /\ Watched = Range(registry)
    BY DEF JobsFollowRegistry, Seen, Watched
  <2>1. IsInjective(registry) /\ Seen = Range(registry) /\ Watched = Range(registry)
    BY <1>1 DEF Follows
  <2> QED BY <1>1, <2>1, FollowsLen
<1> QED BY <1>1, FollowsAlways, PTL

-----------------------------------------------------------------------------
\* Jobs have IDs of their own, and what is known of them is on disk.

\* Each job has an ID of its own, under the name of its file; what the daemon
\* knows of it is what the map says, and the map what state.json says.
Own ==
  /\ UniqueIn(jobs)
  /\ \A i \in DOMAIN jobs : jobs[i].id[1] = Stem[jobs[i].manifest]
  /\ pc = "down" => jobs = <<>>
  /\ pc # "down" => states = disk_states
  /\ \A i \in DOMAIN jobs : jobs[i].state = states[jobs[i].id]

LEMMA OwnSame ==
  ASSUME Own, jobs' = jobs, states' = states, disk_states' = disk_states,
         pc # "down" \/ pc' = pc, pc' # "down" \/ pc' = pc
  PROVE  Own'
BY DEF Own, UniqueIn

LEMMA OwnModified ==
  ASSUME TypeInv, Own, pc # "down", pc' # "down", NEW i, Modifies(i),
         \/ Saves(i)
         \/ states' = states /\ disk_states' = disk_states /\ jobs'[i].state = jobs[i].state
  PROVE  Own'
<1>0. /\ UniqueIn(jobs) /\ states = disk_states
      /\ \A k \in DOMAIN jobs : jobs[k].id[1] = Stem[jobs[k].manifest]
      /\ \A k \in DOMAIN jobs : jobs[k].state = states[jobs[k].id]
  BY DEF Own
<1>1. /\ i \in DOMAIN jobs /\ DOMAIN jobs' = DOMAIN jobs
      /\ \A k \in DOMAIN jobs : jobs'[k].id = jobs[k].id /\ jobs'[k].manifest = jobs[k].manifest
      /\ \A k \in DOMAIN jobs : k # i => jobs'[k] = jobs[k]
  BY DEF Modifies
<1>2. UniqueIn(jobs')
  BY <1>0, <1>1 DEF UniqueIn
<1>3. \A k \in DOMAIN jobs' : jobs'[k].id[1] = Stem[jobs'[k].manifest]
  BY <1>0, <1>1
<1>4. states' = disk_states'
  BY <1>0 DEF Saves
<1>5. ASSUME NEW k \in DOMAIN jobs PROVE jobs'[k].state = states'[jobs'[k].id]
  <2>1. CASE states' = states /\ jobs'[i].state = jobs[i].state
    BY <1>0, <1>1, <2>1
  <2>2. CASE Saves(i)
    <3>1. states' = [states EXCEPT ![jobs[i].id] = jobs'[i].state]
      BY <2>2 DEF Saves
    <3>2. jobs \in Seq(Job) /\ states \in [Ids -> JobState]
      BY DEF TypeInv
    <3>3. jobs[i].id \in Ids /\ jobs[k].id \in Ids
      BY <1>1, <3>2, JobFields
    <3>4. CASE k = i
      BY <1>1, <3>1, <3>2, <3>3, <3>4
    <3>5. CASE k # i
      <4>1. jobs[k].id # jobs[i].id
        BY <1>0, <1>1, <3>5 DEF UniqueIn
      <4>2. states'[jobs[k].id] = states[jobs[k].id]
        BY <3>1, <3>2, <3>3, <4>1
      <4> QED BY <1>0, <1>1, <3>5, <4>2
    <3> QED BY <3>4, <3>5
  <2> QED BY <2>1, <2>2
<1> QED BY <1>1, <1>2, <1>3, <1>4, <1>5 DEF Own

LEMMA OwnRetained ==
  ASSUME Own, pc # "down", pc' # "down", NEW keep, Retains(keep), states' = disk_states',
         \A k \in DOMAIN jobs' : states'[jobs'[k].id] = states[jobs'[k].id]
  PROVE  Own'
<1>1. UniqueIn(jobs')
  BY DEF Own, Retains
<1>2. ASSUME NEW k \in DOMAIN jobs'
      PROVE  jobs'[k].id[1] = Stem[jobs'[k].manifest] /\ jobs'[k].state = states'[jobs'[k].id]
  <2>1. PICK i \in DOMAIN jobs : jobs'[k] = jobs[i]
    BY DEF Retains
  <2> QED BY <2>1 DEF Own
<1> QED BY <1>1, <1>2 DEF Own

LEMMA OwnInstalled ==
  ASSUME TypeInv, StemsApart, NamesApart, Own, install PROVE Own'
<1>1. PICK p, kept, come : p \in Paths /\ p = Head(todo) /\ Installs(p, kept, come)
  BY InstallJobs
<1>2. pc = "install" /\ pc' = "reload" /\ states' = states /\ disk_states' = disk_states
  BY DEF install
<1>3. /\ kept \in Seq(Job) /\ come \in Seq(Job) /\ jobs' = kept \o come
      /\ \A k \in DOMAIN kept : \E i \in DOMAIN jobs : jobs[i].manifest # p /\ kept[k] = jobs[i]
      /\ UniqueIn(jobs) => UniqueIn(kept)
      /\ \A k \in DOMAIN come : Replaced(come[k], p, fresh)
      /\ fresh.names = <<>> => DOMAIN come = {1}
      /\ fresh.names # <<>> =>
           DOMAIN come = DOMAIN fresh.names /\ \A k \in DOMAIN come : come[k].id = <<Stem[p], fresh.names[k]>>
  BY <1>1 DEF Installs
<1>4. fresh \in Contents /\ jobs \in Seq(Job)
  BY DEF TypeInv
<1>5. UniqueIn(come)
  BY <1>3, <1>4, NamedApart
<1>6. UniqueIn(kept)
  BY <1>3 DEF Own
<1>7. \A k \in DOMAIN come : /\ come[k].id[1] = Stem[p] /\ come[k].manifest = p
                             /\ come[k].state = states[come[k].id]
  BY <1>3 DEF Replaced
<1>8. ASSUME NEW k \in DOMAIN kept
      PROVE  /\ kept[k].id[1] = Stem[kept[k].manifest] /\ kept[k].manifest # p /\ kept[k].manifest \in Paths
             /\ kept[k].state = states[kept[k].id]
  <2>1. PICK i \in DOMAIN jobs : jobs[i].manifest # p /\ kept[k] = jobs[i]
    BY <1>3
  <2>2. jobs[i].manifest \in Paths
    BY <1>4, <2>1, JobFields
  <2> QED BY <2>1, <2>2 DEF Own
<1>9. \A i \in DOMAIN kept : \A k \in DOMAIN come : kept[i].id # come[k].id
  <2> SUFFICES ASSUME NEW i \in DOMAIN kept, NEW k \in DOMAIN come, kept[i].id = come[k].id PROVE FALSE
    OBVIOUS
  <2>1. Stem[kept[i].manifest] = Stem[p]
    BY <1>7, <1>8
  <2> QED BY <1>1, <1>8, <2>1 DEF StemsApart
<1>10. UniqueIn(jobs')
  <2>1. PICK result : result = kept \o come
    OBVIOUS
  <2>2. UniqueIn(result)
    BY <1>3, <1>5, <1>6, <1>9, <2>1, JoinedUnique
  <2> QED BY <1>3, <2>1, <2>2
<1>11. ASSUME NEW k \in DOMAIN jobs'
       PROVE  jobs'[k].id[1] = Stem[jobs'[k].manifest] /\ jobs'[k].state = states[jobs'[k].id]
  <2>1. \/ k \in DOMAIN kept /\ jobs'[k] = kept[k]
        \/ k - Len(kept) \in DOMAIN come /\ jobs'[k] = come[k - Len(kept)]
    BY <1>3, Joined
  <2>2. CASE k \in DOMAIN kept /\ jobs'[k] = kept[k]
    BY <1>8, <2>2
  <2>3. CASE k - Len(kept) \in DOMAIN come /\ jobs'[k] = come[k - Len(kept)]
    BY <1>7, <2>3
  <2> QED BY <2>1, <2>2, <2>3
<1>12. states = disk_states
  BY <1>2 DEF Own
<1> QED BY <1>2, <1>10, <1>11, <1>12 DEF Own

LEMMA OwnOpened ==
  ASSUME TypeInv, StemsApart, NamesApart, Follows, open PROVE Own'
<1>1. pc' = "scan" /\ states' = disk_states /\ disk_states' = disk_states
  BY DEF open
<1>2. \A k \in DOMAIN jobs' : Opened(jobs'[k])
  BY OpenJobs
<1>3. UniqueIn(jobs')
  <2>1. IsInjective(disk_registry)
    BY DEF Follows
  <2> QED BY <2>1, OpenJobs
<1>4. \A k \in DOMAIN jobs' : jobs'[k].id[1] = Stem[jobs'[k].manifest] /\ jobs'[k].state = states'[jobs'[k].id]
  BY <1>1, <1>2 DEF Opened
<1> QED BY <1>1, <1>3, <1>4 DEF Own

LEMMA OwnStep ==
  ASSUME TypeInv, StemsApart, NamesApart, Follows, Own, [Next]_vars PROVE Own'
<1>0. pc # "down" => states = disk_states
  BY DEF Own
<1>1. CASE rescan \/ load \/ reloaded \/ wait \/ timeout \/ drained \/ write_list
  <2>1. jobs' = jobs /\ states' = states /\ disk_states' = disk_states /\ pc # "down" /\ pc' # "down"
    BY <1>1 DEF rescan, load, reloaded, wait, timeout, drained, write_list, TypeInv
  <2> QED BY <2>1, OwnSame
<1>2. ASSUME NEW i, fire(i) PROVE Own'
  <2>1. pc # "down" /\ pc' # "down"
    BY <1>2 DEF fire
  <2> QED BY <1>2, <2>1, FireJobs, OwnModified
<1>3. ASSUME NEW i, start_queued(i) PROVE Own'
  <2>1. pc # "down" /\ pc' # "down" /\ states' = states /\ disk_states' = disk_states
    BY <1>3 DEF start_queued
  <2> QED BY <1>3, <2>1, StartQueuedJobs, OwnModified
<1>4. CASE crash
  <2>1. pc' = "down" /\ jobs' = <<>>
    BY <1>4 DEF crash
  <2> QED BY <2>1 DEF Own, UniqueIn
<1>5. CASE reload_all
  <2>1. pc # "down" /\ pc' # "down" /\ states' = states /\ disk_states' = disk_states
    BY <1>5 DEF reload_all
  <2>2. Retains(Range(disk_registry))
    BY <1>5, RetainsBoth DEF reload_all
  <2> QED BY <1>0, <2>1, <2>2, OwnRetained
<1>6. ASSUME NEW p \in Paths, add(p) PROVE Own'
  <2>1. jobs' = jobs /\ states' = states /\ disk_states' = disk_states /\ pc = "wait"
    BY <1>6 DEF add
  <2>2. pc' # "down"
    BY <1>6, Zenon DEF add
  <2> QED BY <2>1, <2>2, OwnSame
<1>7. ASSUME NEW p \in Paths, remove(p) PROVE Own'
  <2>1. pc # "down" /\ pc' # "down" /\ disk_states' = states'
    BY <1>7 DEF remove, prune_states
  <2>2. Retains(Paths \ {p})
    BY <1>7, RetainsBoth DEF remove
  <2>3. ASSUME NEW k \in DOMAIN jobs' PROVE states'[jobs'[k].id] = states[jobs'[k].id]
    <3>1. states' = [id \in Ids |-> IF \E i \in DOMAIN jobs' : jobs'[i].id = id THEN states[id] ELSE NoState]
      BY <1>7 DEF remove, prune_states
    <3>2. jobs'[k] \in Job
      BY <2>2 DEF Retains
    <3>3. jobs'[k].id \in Ids
      BY <3>2, JobFields
    <3> QED BY <3>1, <3>3
  <2> QED BY <2>1, <2>2, <2>3, OwnRetained
<1>8. ASSUME NEW p \in Paths, edit(p) PROVE Own'
  <2>1. jobs' = jobs /\ states' = states /\ disk_states' = disk_states /\ pc' = pc
    BY <1>8 DEF edit
  <2> QED BY <2>1, OwnSame
<1>9. ASSUME NEW id \in Ids, NEW paused \in BOOLEAN, hold(id, paused) PROVE Own'
  <2>1. pc # "down" /\ pc' # "down"
    BY <1>9 DEF hold
  <2> QED BY <1>9, <2>1, HoldJobs, OwnModified
<1>10. ASSUME NEW r \in RunIds, finished(r) PROVE Own'
  <2>1. pc # "down" /\ pc' # "down"
    BY <1>10 DEF finished
  <2>2. CASE UNCHANGED <<jobs, states, disk_states>>
    BY <2>1, <2>2, OwnSame
  <2>3. ASSUME NEW i \in DOMAIN jobs, Modifies(i), Saves(i) PROVE Own'
    BY <2>1, <2>3, OwnModified
  <2> QED BY <1>10, <2>2, <2>3, FinishedJobs
<1>11. ASSUME NEW i, comes(i) PROVE Own'
  <2>1. pc # "down" /\ pc' # "down" /\ states' = states /\ disk_states' = disk_states
    BY <1>11 DEF comes
  <2> QED BY <1>11, <2>1, ComesJobs, OwnModified
<1>12. CASE UNCHANGED vars
  <2>1. jobs' = jobs /\ states' = states /\ disk_states' = disk_states /\ pc' = pc
    BY <1>12 DEF vars
  <2> QED BY <2>1, OwnSame
<1> QED BY <1>1, <1>2, <1>3, <1>4, <1>5, <1>6, <1>7, <1>8, <1>9, <1>10, <1>11, <1>12, OwnInstalled, OwnOpened,
           Zenon DEF Next, Step

LEMMA OwnAlways == ASSUME StemsApart, NamesApart PROVE Spec => [](TypeInv /\ Follows /\ Own)
<1>1. Init => Own
  BY DEF Init, Own, UniqueIn
<1>2. TypeInv /\ Follows /\ Own /\ [Next]_vars => Own'
  BY OwnStep
<1> QED BY <1>1, <1>2, FollowsAlways, PTL DEF Spec

\* Where no two files give their jobs the same name, a request that names a job
\* means one job, and what the daemon knows of every job is in state.json, through
\* every edit, reload, removal, pause and crash, although neither `rescan` nor
\* reload_all checks IDs as `admit` does.
THEOREM JobsAreOwn == ASSUME StemsApart, NamesApart PROVE Spec => [](UniqueIds /\ StateKept)
<1>1. ASSUME TypeInv, Own PROVE UniqueIds /\ StateKept
  <2>1. UniqueIds
    BY <1>1 DEF Own, UniqueIn, UniqueIds
  <2>2. CASE pc = "down"
    <3>1. jobs = <<>>
      BY <1>1, <2>2 DEF Own
    <3> QED BY <2>1, <3>1 DEF StateKept
  <2>3. CASE pc # "down"
    BY <1>1, <2>1, <2>3 DEF Own, StateKept
  <2> QED BY <2>2, <2>3
<1> QED BY <1>1, OwnAlways, PTL

-----------------------------------------------------------------------------
\* Waiting fires.

\* The step of one waiting fire: it leaves job i only as a run.
Leaves(i, k) ==
  jobs[i].queued /\ jobs'[k].id = jobs[i].id /\ ~jobs'[k].queued =>
    \E r \in RunIds : runs[r] = NoJob /\ runs'[r] = jobs[i].id

LEMMA StartRuns ==
  ASSUME TypeInv, NEW id, start(id) PROVE \E r \in RunIds : runs[r] = NoJob /\ runs'[r] = id
<1>1. PICK r \in RunIds : runs[r] = NoJob /\ runs' = [runs EXCEPT ![r] = id]
  BY DEF start
<1>2. runs'[r] = id
  BY <1>1 DEF TypeInv
<1> QED BY <1>1, <1>2

LEMMA LeavesSame ==
  ASSUME Own, \A k \in DOMAIN jobs' : \E j \in DOMAIN jobs : jobs'[k].id = jobs[j].id /\ jobs'[k].queued = jobs[j].queued
  PROVE  \A i \in DOMAIN jobs : \A k \in DOMAIN jobs' : Leaves(i, k)
<1> SUFFICES ASSUME NEW i \in DOMAIN jobs, NEW k \in DOMAIN jobs', jobs'[k].id = jobs[i].id
             PROVE  jobs'[k].queued = jobs[i].queued
  BY DEF Leaves
<1>1. PICK j \in DOMAIN jobs : jobs'[k].id = jobs[j].id /\ jobs'[k].queued = jobs[j].queued
  OBVIOUS
<1>2. j = i
  BY <1>1 DEF Own, UniqueIn
<1> QED BY <1>1, <1>2

LEMMA LeavesModified ==
  ASSUME Own, NEW j, Modifies(j),
         \/ jobs'[j].queued = jobs[j].queued \/ jobs'[j].queued = TRUE
         \/ \E r \in RunIds : runs[r] = NoJob /\ runs'[r] = jobs[j].id
  PROVE  \A i \in DOMAIN jobs : \A k \in DOMAIN jobs' : Leaves(i, k)
<1> SUFFICES ASSUME NEW i \in DOMAIN jobs, NEW k \in DOMAIN jobs', jobs'[k].id = jobs[i].id
             PROVE  \/ jobs'[k].queued = jobs[i].queued \/ jobs'[k].queued = TRUE
                    \/ \E r \in RunIds : runs[r] = NoJob /\ runs'[r] = jobs[i].id
  BY DEF Leaves
<1>1. /\ DOMAIN jobs' = DOMAIN jobs /\ jobs'[k].id = jobs[k].id
      /\ k # j => jobs'[k] = jobs[k]
  BY DEF Modifies
<1>2. k = i
  BY <1>1 DEF Own, UniqueIn
<1>3. CASE k = j
  BY <1>2, <1>3
<1>4. CASE k # j
  BY <1>1, <1>2, <1>4
<1> QED BY <1>3, <1>4

LEMMA LeavesInstalled ==
  ASSUME TypeInv, Own, install
  PROVE  \A i \in DOMAIN jobs : \A k \in DOMAIN jobs' : Leaves(i, k)
<1>1. PICK p, kept, come : Installs(p, kept, come)
  BY InstallJobs
<1>2. /\ kept \in Seq(Job) /\ come \in Seq(Job) /\ jobs' = kept \o come
      /\ \A k \in DOMAIN kept : \E i \in DOMAIN jobs : kept[k] = jobs[i]
      /\ \A k \in DOMAIN come : Replaced(come[k], p, fresh)
  BY <1>1 DEF Installs
<1>3. jobs \in Seq(Job) /\ UniqueIds
  BY DEF TypeInv, Own, UniqueIds, UniqueIn
<1> SUFFICES ASSUME NEW i \in DOMAIN jobs, NEW k \in DOMAIN jobs', jobs'[k].id = jobs[i].id
             PROVE  jobs'[k].queued = jobs[i].queued
  BY DEF Leaves
<1>4. \/ k \in DOMAIN kept /\ jobs'[k] = kept[k]
      \/ k - Len(kept) \in DOMAIN come /\ jobs'[k] = come[k - Len(kept)]
  BY <1>2, Joined
<1>5. CASE k \in DOMAIN kept /\ jobs'[k] = kept[k]
  <2>1. PICK j \in DOMAIN jobs : jobs'[k] = jobs[j]
    BY <1>2, <1>5
  <2>2. j = i
    BY <1>3, <2>1 DEF UniqueIds
  <2> QED BY <2>1, <2>2
<1>6. CASE k - Len(kept) \in DOMAIN come /\ jobs'[k] = come[k - Len(kept)]
  <2>1. PICK job : job = jobs'[k] /\ Replaced(job, p, fresh)
    BY <1>2, <1>6
  <2>2. holds(jobs[i].id) /\ index(jobs[i].id) = i
    BY <1>3, IndexUnique
  <2>3. holds(job.id) /\ index(job.id) = i
    BY <2>1, <2>2
  <2>4. job.queued = jobs[index(job.id)].queued
    BY <2>1, <2>3 DEF Replaced
  <2> QED BY <2>1, <2>3, <2>4
<1> QED BY <1>4, <1>5, <1>6

\* Where jobs have IDs of their own, a waiting fire leaves a job that the daemon goes
\* on holding only as a run of that job: `carried` takes it over when `install`
\* replaces the job, and neither a pause, a reload nor the end of a run drops it.
THEOREM FiresWait == ASSUME StemsApart, NamesApart PROVE Spec => WaitingFireKept
<1> DEFINE Kept == \A i \in DOMAIN jobs : \A k \in DOMAIN jobs' : Leaves(i, k)
<1>1. ASSUME TypeInv, Follows, Own, [Next]_vars PROVE Kept
  <2>1. CASE jobs' = jobs
    <3>1. \A k \in DOMAIN jobs' : \E j \in DOMAIN jobs : jobs'[k].id = jobs[j].id /\ jobs'[k].queued = jobs[j].queued
      BY <2>1
    <3> QED BY <1>1, <3>1, LeavesSame
  <2>2. CASE \/ rescan \/ load \/ reloaded \/ wait \/ timeout \/ drained \/ write_list \/ UNCHANGED vars
             \/ \E p \in Paths : add(p) \/ edit(p)
    BY <2>1, <2>2 DEF rescan, load, reloaded, wait, timeout, drained, write_list, add, edit, vars
  <2>3. CASE open
    <3>1. jobs = <<>>
      BY <1>1, <2>3 DEF open, Own
    <3> QED BY <3>1
  <2>4. CASE crash
    <3>1. jobs' = <<>>
      BY <2>4 DEF crash
    <3> QED BY <3>1
  <2>5. CASE reload_all \/ \E p \in Paths : remove(p)
    <3>1. PICK keep : retain_manifests(keep)
      BY <2>5 DEF reload_all, remove
    <3>2. Retains(keep)
      BY <1>1, <3>1, RetainsBoth
    <3>3. \A k \in DOMAIN jobs' : \E j \in DOMAIN jobs : jobs'[k].id = jobs[j].id /\ jobs'[k].queued = jobs[j].queued
      BY <3>2 DEF Retains
    <3> QED BY <1>1, <3>3, LeavesSame
  <2>6. ASSUME NEW i, fire(i) PROVE Kept
    <3>1. Modifies(i) /\ (start(jobs[i].id) \/ jobs'[i].queued = TRUE)
      BY <1>1, <2>6, FireJobs
    <3> QED BY <1>1, <3>1, StartRuns, LeavesModified
  <2>7. ASSUME NEW i, start_queued(i) PROVE Kept
    <3>1. Modifies(i) /\ start(jobs[i].id)
      BY <1>1, <2>7, StartQueuedJobs
    <3> QED BY <1>1, <3>1, StartRuns, LeavesModified
  <2>8. ASSUME NEW id \in Ids, NEW paused \in BOOLEAN, hold(id, paused) PROVE Kept
    <3>1. PICK i \in DOMAIN jobs : Modifies(i) /\ jobs'[i].queued = jobs[i].queued
      BY <1>1, <2>8, HoldJobs
    <3> QED BY <1>1, <3>1, LeavesModified
  <2>9. ASSUME NEW r \in RunIds, finished(r) PROVE Kept
    <3>1. jobs' = jobs \/ \E i \in DOMAIN jobs : Modifies(i) /\ jobs'[i].queued = jobs[i].queued
      BY <1>1, <2>9, FinishedJobs
    <3> QED BY <1>1, <2>1, <3>1, LeavesModified
  <2>10. ASSUME NEW i, comes(i) PROVE Kept
    <3>1. Modifies(i) /\ jobs'[i].queued = jobs[i].queued
      BY <1>1, <2>10, ComesJobs
    <3> QED BY <1>1, <3>1, LeavesModified
  <2>11. CASE install
    BY <1>1, <2>11, LeavesInstalled
  <2> HIDE DEF Kept
  <2> QED BY <1>1, <2>2, <2>3, <2>4, <2>5, <2>6, <2>7, <2>8, <2>9, <2>10, <2>11, Zenon DEF Next, Step
<1>2. TypeInv /\ Follows /\ Own /\ [Next]_vars =>
        [\A i \in DOMAIN jobs : \A k \in DOMAIN jobs' :
           jobs[i].queued /\ jobs'[k].id = jobs[i].id /\ ~jobs'[k].queued =>
             \E r \in RunIds : runs[r] = NoJob /\ runs'[r] = jobs[i].id]_vars
  BY <1>1, Zenon DEF Leaves
<1> QED BY <1>2, OwnAlways, PTL DEF Spec, WaitingFireKept

-----------------------------------------------------------------------------
\* Late fires.

\* A fire is due that came while its job could not run, and the job before the
\* step that accounts for it.
Late(job) == is_due(job) /\ job.planned = "missed"
Mended(job) ==
  \E i \in DOMAIN jobs :
    /\ jobs[i].id = job.id /\ jobs[i].schedule = job.schedule
    /\ jobs[i].planned = "missed" /\ (jobs[i].error \/ is_due(jobs[i]))
Accounted == \A k \in DOMAIN jobs' : Late(jobs'[k]) => Mended(jobs'[k])

LEMMA PlannedInTime == \A job : Planned(job) => ~Late(job)
BY DEF Planned, Late

LEMMA LateBefore ==
  ASSUME NEW job, Late(job), NEW i \in DOMAIN jobs, Same(job, jobs[i]),
         job.state = jobs[i].state, job.planned = jobs[i].planned
  PROVE  Mended(job)
<1>1. is_due(jobs[i]) /\ jobs[i].planned = "missed"
  BY DEF Late, Same, is_due, is_ready
<1> QED BY <1>1 DEF Mended, Same

LEMMA AccountedSame ==
  ASSUME \A k \in DOMAIN jobs' : \E i \in DOMAIN jobs : jobs'[k] = jobs[i] PROVE Accounted
<1> SUFFICES ASSUME NEW k \in DOMAIN jobs', Late(jobs'[k]) PROVE Mended(jobs'[k])
  BY DEF Accounted
<1>1. PICK i \in DOMAIN jobs : jobs'[k] = jobs[i]
  OBVIOUS
<1> QED BY <1>1 DEF Late, Mended

LEMMA AccountedModified ==
  ASSUME NEW i, Modifies(i), Late(jobs'[i]) => Mended(jobs'[i]) PROVE Accounted
<1> SUFFICES ASSUME NEW k \in DOMAIN jobs', Late(jobs'[k]) PROVE Mended(jobs'[k])
  BY DEF Accounted
<1>1. CASE k = i
  BY <1>1
<1>2. CASE k # i
  <2>1. k \in DOMAIN jobs /\ jobs'[k] = jobs[k]
    BY <1>2 DEF Modifies
  <2> QED BY <2>1 DEF Late, Mended
<1> QED BY <1>1, <1>2

\* A job that was read takes its planned fire from one that was not paused either,
\* since what is known of a job is not in the file.
LEMMA AccountedInstalled == ASSUME TypeInv, Own, install PROVE Accounted
<1>1. PICK p, kept, come : Installs(p, kept, come)
  BY InstallJobs
<1>2. /\ kept \in Seq(Job) /\ come \in Seq(Job) /\ jobs' = kept \o come
      /\ \A k \in DOMAIN kept : \E i \in DOMAIN jobs : kept[k] = jobs[i]
      /\ \A k \in DOMAIN come : Replaced(come[k], p, fresh)
  BY <1>1 DEF Installs
<1>3. jobs \in Seq(Job)
  BY DEF TypeInv
<1>4. ASSUME NEW job, Replaced(job, p, fresh), Late(job) PROVE Mended(job)
  <2>1. /\ holds(job.id) /\ job.schedule = jobs[index(job.id)].schedule
        /\ job.planned = jobs[index(job.id)].planned
    BY <1>4, PlannedInTime DEF Replaced
  <2>2. PICK i \in DOMAIN jobs : i = index(job.id) /\ jobs[i].id = job.id
    BY <1>3, <2>1, IndexOf
  <2>3. job.state = jobs[i].state
    BY <1>4, <2>2 DEF Own, Replaced
  <2>4. jobs[i].schedule = job.schedule /\ jobs[i].planned = "missed"
    BY <1>4, <2>1, <2>2 DEF Late
  <2>5. jobs[i].error \/ is_due(jobs[i])
    BY <1>4, <2>3, <2>4 DEF Late, is_due, is_ready
  <2> QED BY <2>2, <2>4, <2>5 DEF Mended
<1> SUFFICES ASSUME NEW k \in DOMAIN jobs', Late(jobs'[k]) PROVE Mended(jobs'[k])
  BY DEF Accounted
<1>5. \/ k \in DOMAIN kept /\ jobs'[k] = kept[k]
      \/ k - Len(kept) \in DOMAIN come /\ jobs'[k] = come[k - Len(kept)]
  BY <1>2, Joined
<1>6. CASE k \in DOMAIN kept /\ jobs'[k] = kept[k]
  <2>1. PICK i \in DOMAIN jobs : jobs'[k] = jobs[i]
    BY <1>2, <1>6
  <2> QED BY <2>1 DEF Late, Mended
<1>7. CASE k - Len(kept) \in DOMAIN come /\ jobs'[k] = come[k - Len(kept)]
  BY <1>2, <1>4, <1>7
<1> QED BY <1>5, <1>6, <1>7

LEMMA AccountedStep == ASSUME TypeInv, Own, [Next]_vars PROVE Accounted
<1>1. CASE jobs' = jobs
  BY <1>1, AccountedSame
<1>2. CASE \/ rescan \/ load \/ reloaded \/ wait \/ timeout \/ drained \/ write_list \/ UNCHANGED vars
           \/ \E p \in Paths : add(p) \/ edit(p)
  BY <1>1, <1>2 DEF rescan, load, reloaded, wait, timeout, drained, write_list, add, edit, vars
<1>3. CASE open
  BY <1>3, OpenJobs, PlannedInTime DEF Opened, Accounted
<1>4. CASE crash
  <2>1. jobs' = <<>>
    BY <1>4 DEF crash
  <2> QED BY <2>1 DEF Accounted
<1>5. CASE reload_all \/ \E p \in Paths : remove(p)
  <2>1. PICK keep : retain_manifests(keep)
    BY <1>5 DEF reload_all, remove
  <2>2. Retains(keep)
    BY <2>1, RetainsBoth
  <2>3. \A k \in DOMAIN jobs' : \E i \in DOMAIN jobs : jobs'[k] = jobs[i]
    BY <2>2 DEF Retains
  <2> QED BY <2>3, AccountedSame
<1>6. ASSUME NEW i, fire(i) PROVE Accounted
  BY <1>6, FireJobs, PlannedInTime, AccountedModified
<1>7. ASSUME NEW i, start_queued(i) PROVE Accounted
  <2>1. /\ Modifies(i) /\ i \in DOMAIN jobs /\ Same(jobs'[i], jobs[i])
        /\ jobs'[i].state = jobs[i].state /\ jobs'[i].planned = jobs[i].planned
    BY <1>7, StartQueuedJobs DEF Modifies
  <2> QED BY <2>1, LateBefore, AccountedModified
<1>8. ASSUME NEW id \in Ids, NEW paused \in BOOLEAN, hold(id, paused) PROVE Accounted
  BY <1>8, HoldJobs, PlannedInTime, AccountedModified
<1>9. ASSUME NEW r \in RunIds, finished(r) PROVE Accounted
  <2>1. ASSUME NEW i \in DOMAIN jobs, Modifies(i), Same(jobs'[i], jobs[i]),
               jobs'[i].state = jobs[i].state, jobs'[i].planned = jobs[i].planned
        PROVE  Accounted
    BY <2>1, LateBefore, AccountedModified
  <2> QED BY <1>1, <1>9, <2>1, FinishedJobs
<1>10. ASSUME NEW i, comes(i) PROVE Accounted
  <2>1. /\ Modifies(i) /\ Same(jobs'[i], jobs[i])
        /\ jobs'[i].planned = IF is_ready(jobs[i]) THEN "due" ELSE "missed"
        /\ jobs'[i].state = jobs[i].state
    BY <1>10, ComesJobs
  <2>2. ~Late(jobs'[i])
    BY <2>1 DEF Late, is_due, is_ready, Same
  <2> QED BY <2>1, <2>2, AccountedModified
<1>11. CASE install
  BY <1>11, AccountedInstalled
<1> QED BY <1>2, <1>3, <1>4, <1>5, <1>6, <1>7, <1>8, <1>9, <1>10, <1>11, Zenon DEF Next, Step

\* Where jobs have IDs of their own, a fire that came while its job could not run is
\* due later only when a manifest that had lost its sandbox (daemon.rs:430 carries
\* the fire over without a look at why the job waits) gets it back with the same
\* schedule: never by a pause and a resume, a file that did not load for a while, a
\* reload, a restart or an edit of the schedule.
THEOREM LateFires == ASSUME StemsApart, NamesApart PROVE Spec => LateOnlyMended
<1>1. ASSUME TypeInv, Own, [Next]_vars PROVE Accounted
  BY <1>1, AccountedStep
<1>2. TypeInv /\ Own /\ [Next]_vars =>
        [\A k \in DOMAIN jobs' : is_due(jobs'[k]) /\ jobs'[k].planned = "missed" =>
           \E i \in DOMAIN jobs :
             /\ jobs[i].id = jobs'[k].id /\ jobs[i].schedule = jobs'[k].schedule
             /\ jobs[i].planned = "missed" /\ (jobs[i].error \/ is_due(jobs[i]))]_vars
  BY <1>1, Zenon DEF Accounted, Late, Mended
<1> QED BY <1>2, OwnAlways, PTL DEF Spec, LateOnlyMended

-----------------------------------------------------------------------------
\* History.

\* What a step never takes from a job: that it has fired.
StaysFired(id) == disk_states[id].fired = TRUE => disk_states'[id].fired = TRUE

LEMMA StaysSaved ==
  ASSUME TypeInv, Own, pc # "down", NEW i, Modifies(i), Saves(i),
         jobs'[i].state.fired = jobs[i].state.fired \/ jobs'[i].state.fired = TRUE,
         NEW id \in Ids
  PROVE  StaysFired(id)
<1>1. i \in DOMAIN jobs /\ jobs \in Seq(Job) /\ states \in [Ids -> JobState]
  BY DEF Modifies, TypeInv
<1>2. disk_states' = [disk_states EXCEPT ![jobs[i].id] = jobs'[i].state] /\ disk_states \in [Ids -> JobState]
  BY DEF Saves, Own, TypeInv
<1>3. jobs[i].state = disk_states[jobs[i].id] /\ jobs[i].id \in Ids
  BY <1>1, JobFields DEF Own
<1>4. CASE id = jobs[i].id
  <2>1. disk_states'[id] = jobs'[i].state /\ disk_states[id] = jobs[i].state
    BY <1>2, <1>3, <1>4
  <2> QED BY <2>1 DEF StaysFired
<1>5. CASE id # jobs[i].id
  <2>1. disk_states'[id] = disk_states[id]
    BY <1>2, <1>5
  <2> QED BY <2>1 DEF StaysFired
<1> QED BY <1>4, <1>5

LEMMA StaysStep ==
  ASSUME TypeInv, Own, [Next]_vars, ~ \E p \in Paths : remove(p), NEW id \in Ids
  PROVE  StaysFired(id)
<1>1. CASE disk_states' = disk_states
  BY <1>1 DEF StaysFired
<1>2. CASE \/ open \/ install \/ rescan \/ load \/ reloaded \/ wait \/ timeout \/ drained \/ write_list \/ UNCHANGED vars
           \/ crash \/ reload_all \/ \E p \in Paths : add(p) \/ edit(p)
  <2>1. disk_states' = disk_states
    BY <1>2 DEF open, install, rescan, load, reloaded, wait, timeout, drained, write_list, vars, crash, reload_all, add, edit
  <2> QED BY <1>1, <2>1
<1>3. ASSUME NEW i, fire(i) PROVE StaysFired(id)
  <2>1. Modifies(i) /\ Saves(i) /\ jobs'[i].state.fired = TRUE /\ pc # "down"
    BY <1>3, FireJobs DEF fire
  <2> QED BY <2>1, StaysSaved
<1>4. ASSUME NEW i, start_queued(i) \/ comes(i) PROVE StaysFired(id)
  <2>1. disk_states' = disk_states
    BY <1>4 DEF start_queued, comes
  <2> QED BY <1>1, <2>1
<1>5. ASSUME NEW x \in Ids, NEW paused \in BOOLEAN, hold(x, paused) PROVE StaysFired(id)
  <2>1. PICK i \in DOMAIN jobs : Modifies(i) /\ Saves(i) /\ jobs'[i].state.fired = jobs[i].state.fired
    BY <1>5, HoldJobs
  <2>2. pc # "down"
    BY <1>5 DEF hold
  <2> QED BY <2>1, <2>2, StaysSaved
<1>6. ASSUME NEW r \in RunIds, finished(r) PROVE StaysFired(id)
  <2>1. pc # "down"
    BY <1>6 DEF finished
  <2>2. ASSUME NEW i \in DOMAIN jobs, Modifies(i), Saves(i), jobs'[i].state = jobs[i].state PROVE StaysFired(id)
    BY <2>1, <2>2, StaysSaved
  <2>3. \/ disk_states' = disk_states
        \/ \E i \in DOMAIN jobs : Modifies(i) /\ Saves(i) /\ jobs'[i].state = jobs[i].state
    BY <1>6, FinishedJobs
  <2> QED BY <1>1, <2>2, <2>3
<1> QED BY <1>2, <1>3, <1>4, <1>5, <1>6, Zenon DEF Next, Step

\* Removing a manifest forgets no job that is held afterwards.
LEMMA StaysRemoved ==
  ASSUME TypeInv, Own, NEW p \in Paths, remove(p), NEW id \in Ids, NEW k \in DOMAIN jobs', jobs'[k].id = id
  PROVE  StaysFired(id)
<1>1. /\ states' = [x \in Ids |-> IF \E i \in DOMAIN jobs' : jobs'[i].id = x THEN states[x] ELSE NoState]
      /\ disk_states' = states' /\ pc = "wait"
  BY DEF remove, prune_states
<1>2. states = disk_states
  BY <1>1 DEF Own
<1>3. disk_states'[id] = disk_states[id]
  BY <1>1, <1>2
<1> QED BY <1>3 DEF StaysFired

\* Where jobs have IDs of their own, what the daemon knows of every job it holds is
\* in state.json after every step, and that a job has fired is forgotten in one way
\* only: some manifest is removed while no job has that ID. (That is the fate of a
\* removed manifest's own jobs, but also of the named schedules of another manifest
\* that does not load at that moment.)
THEOREM HistoryStays == ASSUME StemsApart, NamesApart PROVE Spec => HistoryKept
<1>1. ASSUME TypeInv, Own, [Next]_vars PROVE ForgottenOnRemove
  <2> SUFFICES ASSUME NEW id \in Ids, disk_states[id].fired, ~disk_states'[id].fired
               PROVE  (\E p \in Paths : remove(p)) /\ \A i \in DOMAIN jobs' : jobs'[i].id # id
    BY DEF ForgottenOnRemove
  <2>1. disk_states[id].fired \in BOOLEAN
    BY <1>1 DEF TypeInv, JobState
  <2>2. ~StaysFired(id)
    BY <2>1 DEF StaysFired
  <2>3. \E p \in Paths : remove(p)
    BY <1>1, <2>2, StaysStep
  <2> QED BY <1>1, <2>2, <2>3, StaysRemoved
<1>2. TypeInv /\ Own /\ StateKept' /\ [Next]_vars => [StateKept' /\ ForgottenOnRemove]_vars
  BY <1>1
<1>3. Spec => []StateKept
  BY JobsAreOwn, PTL
<1> QED BY <1>2, <1>3, OwnAlways, PTL DEF Spec, HistoryKept

-----------------------------------------------------------------------------
\* Runs.

\* Every manifest has one schedule without a name, or does not load.
Plain == \A c \in Contents : c.names = <<>> \/ c.names = <<"">>

LEMMA PlainNames ==
  ASSUME Plain, NEW c \in Contents PROVE \A i \in DOMAIN c.names : i = 1 /\ c.names[i] = ""
<1>1. PICK names : names = c.names /\ (names = <<>> \/ names = <<"">>)
  BY DEF Plain
<1>2. CASE names = <<>>
  <2>1. DOMAIN names = {}
    BY <1>2
  <2> QED BY <1>1, <2>1
<1>3. CASE names = <<"">>
  <2>1. \A x : DOMAIN <<x>> = {1} /\ <<x>>[1] = x
    OBVIOUS
  <2>2. DOMAIN names = {1} /\ names[1] = ""
    BY <1>3, <2>1, Zenon
  <2> QED BY <1>1, <2>2
<1> QED BY <1>1, <1>2, <1>3

LEMMA PlainApart == ASSUME Plain PROVE NamesApart
<1> SUFFICES ASSUME NEW c \in Contents PROVE IsInjective(c.names)
  BY DEF NamesApart
<1>1. \A i \in DOMAIN c.names : i = 1
  BY PlainNames
<1> QED BY <1>1 DEF IsInjective

LEMMA PlainIds ==
  ASSUME Plain, NEW a \in Ids, NEW b \in Ids, a[1] = b[1] PROVE a = b
<1>1. \A c \in Contents : Range(c.names) \subseteq {""}
  BY PlainNames DEF Range
<1>2. ASSUME NEW name \in Names PROVE name = ""
  <2>1. CASE name \in {""}
    BY <2>1
  <2>2. CASE name \in UNION {Range(c.names) : c \in Contents}
    <3>1. PICK c \in Contents : name \in Range(c.names)
      BY <2>2
    <3> QED BY <1>1, <3>1
  <2> QED BY <2>1, <2>2 DEF Names
<1>3. PICK x, y : x \in Names /\ y \in Names /\ a = <<a[1], x>> /\ b = <<b[1], y>>
  BY DEF Ids
<1>4. x = "" /\ y = ""
  BY <1>2, <1>3
<1> QED BY <1>3, <1>4

\* Nothing takes a job away while the daemon runs.
NothingRemoved == Requests \cap {"remove", "list"} = {}

Flagged(r) == \E i \in DOMAIN jobs : jobs[i].id = runs[r] /\ jobs[i].running = TRUE

\* Every run is one of a job that is held and flagged as running, and no other
\* run is of the same job.
RunsHeld ==
  /\ pc = "down" => \A r \in RunIds : runs[r] = NoJob
  /\ pc # "down" => registry = disk_registry
  /\ \A r \in RunIds : runs[r] # NoJob => Flagged(r)
  /\ NoOverlap

LEMMA StartedRun ==
  ASSUME TypeInv, Own, RunsHeld, pc # "down", pc' # "down", registry' = registry, disk_registry' = disk_registry,
         NEW i, Modifies(i), jobs[i].running = FALSE, jobs'[i].running = TRUE, start(jobs[i].id)
  PROVE  RunsHeld'
<1>1. PICK r \in RunIds : runs[r] = NoJob /\ runs' = [runs EXCEPT ![r] = jobs[i].id]
  BY DEF start
<1>2. /\ i \in DOMAIN jobs /\ DOMAIN jobs' = DOMAIN jobs
      /\ \A k \in DOMAIN jobs : jobs'[k].id = jobs[k].id
      /\ \A k \in DOMAIN jobs : k # i => jobs'[k] = jobs[k]
  BY DEF Modifies
<1>3. runs'[r] = jobs[i].id /\ \A q \in RunIds : q # r => runs'[q] = runs[q]
  BY <1>1 DEF TypeInv
<1>4. ASSUME NEW q \in RunIds, runs[q] # NoJob PROVE runs[q] # jobs[i].id
  <2>1. PICK k \in DOMAIN jobs : jobs[k].id = runs[q] /\ jobs[k].running = TRUE
    BY <1>4 DEF RunsHeld, Flagged
  <2>2. k # i
    BY <2>1
  <2> QED BY <1>2, <2>1, <2>2 DEF Own, UniqueIn
<1>5. ASSUME NEW q \in RunIds, runs'[q] # NoJob
      PROVE  \E k \in DOMAIN jobs' : jobs'[k].id = runs'[q] /\ jobs'[k].running = TRUE
  <2>1. CASE q = r
    BY <1>2, <1>3, <2>1
  <2>2. CASE q # r
    <3>1. runs'[q] = runs[q]
      BY <1>3, <2>2
    <3>2. PICK k \in DOMAIN jobs : jobs[k].id = runs[q] /\ jobs[k].running = TRUE
      BY <1>5, <3>1 DEF RunsHeld, Flagged
    <3>3. k # i
      BY <3>2
    <3> QED BY <1>2, <3>1, <3>2, <3>3
  <2> QED BY <2>1, <2>2
<1>6. ASSUME NEW a \in RunIds, NEW b \in RunIds, runs'[a] = runs'[b], runs'[a] # NoJob PROVE a = b
  <2>1. CASE a # r /\ b # r
    BY <1>3, <1>6, <2>1 DEF RunsHeld, NoOverlap
  <2>2. CASE a = r /\ b # r
    BY <1>3, <1>4, <1>6, <2>2
  <2>3. CASE a # r /\ b = r
    BY <1>3, <1>4, <1>6, <2>3
  <2> QED BY <2>1, <2>2, <2>3
<1>7. NoOverlap'
  BY <1>6 DEF NoOverlap
<1>8. registry' = disk_registry'
  BY DEF RunsHeld
<1>9. \A q \in RunIds : (runs[q] # NoJob => Flagged(q))'
  BY <1>5 DEF Flagged
<1> QED BY <1>7, <1>8, <1>9 DEF RunsHeld

\* The runs stay as they are, and every flagged job stays, flagged.
LEMMA RunsStay ==
  ASSUME RunsHeld, pc # "down", pc' # "down", registry' = disk_registry', runs' = runs,
         \A i \in DOMAIN jobs : jobs[i].running = TRUE =>
           \E k \in DOMAIN jobs' : jobs'[k].id = jobs[i].id /\ jobs'[k].running = TRUE
  PROVE  RunsHeld'
<1>1. ASSUME NEW r \in RunIds, runs'[r] # NoJob
      PROVE  \E k \in DOMAIN jobs' : jobs'[k].id = runs'[r] /\ jobs'[k].running = TRUE
  <2>1. PICK i \in DOMAIN jobs : jobs[i].id = runs[r] /\ jobs[i].running = TRUE
    BY <1>1 DEF RunsHeld, Flagged
  <2> QED BY <2>1
<1>2. NoOverlap'
  BY DEF RunsHeld, NoOverlap
<1>3. \A q \in RunIds : (runs[q] # NoJob => Flagged(q))'
  BY <1>1 DEF Flagged
<1> QED BY <1>2, <1>3 DEF RunsHeld

LEMMA RunsModified ==
  ASSUME RunsHeld, pc # "down", pc' # "down", registry' = registry, disk_registry' = disk_registry, runs' = runs,
         NEW i, Modifies(i), jobs'[i].running = jobs[i].running
  PROVE  RunsHeld'
<1>1. ASSUME NEW k \in DOMAIN jobs, jobs[k].running = TRUE
      PROVE  k \in DOMAIN jobs' /\ jobs'[k].id = jobs[k].id /\ jobs'[k].running = TRUE
  BY <1>1 DEF Modifies
<1>2. registry' = disk_registry'
  BY DEF RunsHeld
<1> QED BY <1>1, <1>2, RunsStay

LEMMA RunFinished ==
  ASSUME TypeInv, Own, RunsHeld, NEW r \in RunIds, finished(r) PROVE RunsHeld'
<1>0. pc # "down" /\ pc' # "down" /\ registry' = registry /\ disk_registry' = disk_registry
  BY DEF finished
<1>1. runs[r] # NoJob /\ runs' = [runs EXCEPT ![r] = NoJob]
  BY FinishedJobs
<1>2. runs'[r] = NoJob /\ \A q \in RunIds : q # r => runs'[q] = runs[q]
  BY <1>1 DEF TypeInv
<1>3. ASSUME NEW q \in RunIds, runs'[q] # NoJob
      PROVE  \E k \in DOMAIN jobs' : jobs'[k].id = runs'[q] /\ jobs'[k].running = TRUE
  <2>1. q # r /\ runs'[q] = runs[q] /\ runs[q] # NoJob
    BY <1>2, <1>3
  <2>2. PICK k \in DOMAIN jobs : jobs[k].id = runs[q] /\ jobs[k].running = TRUE
    BY <2>1 DEF RunsHeld, Flagged
  <2>3. CASE jobs' = jobs
    BY <2>1, <2>2, <2>3
  <2>4. ASSUME NEW i \in DOMAIN jobs, jobs[i].id = runs[r], Modifies(i)
        PROVE  \E m \in DOMAIN jobs' : jobs'[m].id = runs'[q] /\ jobs'[m].running = TRUE
    <3>1. runs[q] # runs[r]
      BY <2>1 DEF RunsHeld, NoOverlap
    <3>2. k # i
      BY <2>2, <2>4, <3>1
    <3>3. k \in DOMAIN jobs' /\ jobs'[k] = jobs[k]
      BY <2>4, <3>2 DEF Modifies
    <3> QED BY <2>1, <2>2, <3>3
  <2>5. jobs' = jobs \/ \E i \in DOMAIN jobs : jobs[i].id = runs[r] /\ Modifies(i)
    BY FinishedJobs
  <2> QED BY <2>3, <2>4, <2>5
<1>4. NoOverlap'
  BY <1>2 DEF RunsHeld, NoOverlap
<1>5. \A q \in RunIds : (runs[q] # NoJob => Flagged(q))'
  BY <1>3 DEF Flagged
<1>6. registry' = disk_registry'
  BY <1>0 DEF RunsHeld
<1> QED BY <1>0, <1>4, <1>5, <1>6 DEF RunsHeld

LEMMA RunsInstalled ==
  ASSUME TypeInv, Plain, Own, RunsHeld, install PROVE RunsHeld'
<1>0. pc # "down" /\ pc' # "down" /\ registry' = registry /\ disk_registry' = disk_registry /\ runs' = runs
  BY DEF install
<1>1. PICK p, kept, come : p \in Paths /\ Installs(p, kept, come)
  BY InstallJobs
<1>2. /\ kept \in Seq(Job) /\ come \in Seq(Job) /\ jobs' = kept \o come /\ come # <<>>
      /\ \A i \in DOMAIN jobs : jobs[i].manifest # p => \E k \in DOMAIN kept : kept[k] = jobs[i]
      /\ \A k \in DOMAIN come : Replaced(come[k], p, fresh)
  BY <1>1 DEF Installs
<1>3. /\ \A k \in DOMAIN kept : k \in DOMAIN jobs' /\ jobs'[k] = kept[k]
      /\ \A k \in DOMAIN come : k + Len(kept) \in DOMAIN jobs' /\ jobs'[k + Len(kept)] = come[k]
  BY <1>2, Joined
<1>4. jobs \in Seq(Job) /\ UniqueIds
  BY DEF TypeInv, Own, UniqueIds, UniqueIn
<1>5. ASSUME NEW i \in DOMAIN jobs, jobs[i].running = TRUE
      PROVE  \E k \in DOMAIN jobs' : jobs'[k].id = jobs[i].id /\ jobs'[k].running = TRUE
  <2>1. CASE jobs[i].manifest # p
    <3>1. PICK k \in DOMAIN kept : kept[k] = jobs[i]
      BY <1>2, <2>1
    <3>2. k \in DOMAIN jobs' /\ jobs'[k] = jobs[i]
      BY <1>3, <3>1
    <3> QED BY <1>5, <3>2
  <2>2. CASE jobs[i].manifest = p
    <3>1. 1 \in DOMAIN come
      BY <1>2
    <3>2. PICK job : job = come[1] /\ Replaced(job, p, fresh)
      BY <1>2, <3>1
    <3>3. job.id \in Ids /\ jobs[i].id \in Ids
      BY <1>4, <3>2, JobFields DEF Replaced
    <3>4. job.id[1] = jobs[i].id[1]
      BY <2>2, <3>2 DEF Replaced, Own
    <3>5. job.id = jobs[i].id
      BY <3>3, <3>4, PlainIds
    <3>6. holds(job.id) /\ index(job.id) = i
      BY <1>4, <3>5, IndexUnique
    <3>7. job.running = TRUE
      BY <1>5, <3>2, <3>6 DEF Replaced
    <3>8. 1 + Len(kept) \in DOMAIN jobs' /\ jobs'[1 + Len(kept)] = job
      BY <1>3, <3>1, <3>2
    <3> QED BY <3>5, <3>7, <3>8
  <2> QED BY <2>1, <2>2
<1>6. registry' = disk_registry'
  BY <1>0 DEF RunsHeld
<1> QED BY <1>0, <1>5, <1>6, RunsStay

LEMMA RunsStep ==
  ASSUME TypeInv, Follows, Own, StemsApart, Plain, NothingRemoved, RunsHeld, [Next]_vars PROVE RunsHeld'
<1>0. pc # "down" => registry = disk_registry
  BY DEF RunsHeld
<1>1. CASE open
  <2>1. registry' = disk_registry' /\ pc' = "scan" /\ pc = "down" /\ runs' = runs
    BY <1>1 DEF open
  <2>2. \A r \in RunIds : runs'[r] = NoJob
    BY <2>1 DEF RunsHeld
  <2>3. NoOverlap' /\ \A q \in RunIds : (runs[q] # NoJob => Flagged(q))'
    BY <2>2 DEF NoOverlap
  <2> QED BY <2>1, <2>3 DEF RunsHeld
<1>2. CASE crash
  <2>1. pc' = "down" /\ \A r \in RunIds : runs'[r] = NoJob
    BY <1>2 DEF crash
  <2>2. NoOverlap' /\ \A q \in RunIds : (runs[q] # NoJob => Flagged(q))'
    BY <2>1 DEF NoOverlap
  <2> QED BY <2>1, <2>2 DEF RunsHeld
<1>3. CASE \/ rescan \/ load \/ reloaded \/ wait \/ timeout \/ drained
  <2>1. /\ pc # "down" /\ pc' # "down" /\ registry' = registry /\ disk_registry' = disk_registry
        /\ runs' = runs /\ jobs' = jobs
    BY <1>3 DEF rescan, load, reloaded, wait, timeout, drained, TypeInv
  <2> QED BY <1>0, <2>1, RunsStay
<1>4. ASSUME NEW p \in Paths, add(p) PROVE RunsHeld'
  <2>1. pc = "wait" /\ runs' = runs /\ jobs' = jobs
    BY <1>4 DEF add
  <2>2. pc' # "down" /\ registry' = disk_registry'
    <3>1. \/ disk_registry' = registry' /\ pc' = "install"
          \/ pc' = "scan" /\ UNCHANGED <<registry, disk_registry, reading>>
      BY <1>4, Zenon DEF add
    <3> QED BY <1>0, <2>1, <3>1
  <2> QED BY <2>1, <2>2, RunsStay
<1>5. ASSUME NEW p \in Paths, edit(p) PROVE RunsHeld'
  <2>1. UNCHANGED <<disk_registry, pc, registry, jobs, runs>>
    BY <1>5 DEF edit
  <2> QED BY <2>1 DEF RunsHeld, Flagged, NoOverlap
<1>6. CASE UNCHANGED vars
  <2>1. UNCHANGED <<disk_registry, pc, registry, jobs, runs>>
    BY <1>6 DEF vars
  <2> QED BY <2>1 DEF RunsHeld, Flagged, NoOverlap
<1>7. CASE write_list \/ \E p \in Paths : remove(p)
  BY <1>7 DEF write_list, remove, NothingRemoved
<1>8. CASE reload_all
  <2>1. pc = "wait" /\ pc' = "reload" /\ registry' = disk_registry' /\ disk_registry' = disk_registry /\ runs' = runs
    BY <1>8 DEF reload_all
  <2>2. Retains(Range(disk_registry))
    BY <1>8, RetainsBoth DEF reload_all
  <2>3. Watched = Range(disk_registry)
    BY <1>0, <2>1 DEF Follows
  <2>4. ASSUME NEW i \in DOMAIN jobs, jobs[i].running = TRUE
        PROVE  \E k \in DOMAIN jobs' : jobs'[k].id = jobs[i].id /\ jobs'[k].running = TRUE
    <3>1. jobs[i].manifest \in Range(disk_registry)
      BY <2>3 DEF Watched
    <3>2. PICK k \in DOMAIN jobs' : jobs'[k] = jobs[i]
      BY <2>2, <3>1 DEF Retains
    <3> QED BY <2>4, <3>2
  <2> QED BY <2>1, <2>4, RunsStay
<1>9. ASSUME NEW i, fire(i) PROVE RunsHeld'
  <2>1. pc # "down" /\ pc' # "down" /\ registry' = registry /\ disk_registry' = disk_registry
    BY <1>9 DEF fire
  <2> QED BY <1>9, <2>1, FireJobs, StartedRun, RunsModified
<1>10. ASSUME NEW i, start_queued(i) PROVE RunsHeld'
  <2>1. pc # "down" /\ pc' # "down" /\ registry' = registry /\ disk_registry' = disk_registry
    BY <1>10 DEF start_queued
  <2> QED BY <1>10, <2>1, StartQueuedJobs, StartedRun
<1>11. ASSUME NEW id \in Ids, NEW paused \in BOOLEAN, hold(id, paused) PROVE RunsHeld'
  <2>1. pc # "down" /\ pc' # "down" /\ registry' = registry /\ disk_registry' = disk_registry /\ runs' = runs
    BY <1>11 DEF hold
  <2> QED BY <1>11, <2>1, HoldJobs, RunsModified
<1>12. ASSUME NEW i, comes(i) PROVE RunsHeld'
  <2>1. pc # "down" /\ pc' # "down" /\ registry' = registry /\ disk_registry' = disk_registry /\ runs' = runs
    BY <1>12 DEF comes
  <2> QED BY <1>12, <2>1, ComesJobs, RunsModified
<1>13. ASSUME NEW r \in RunIds, finished(r) PROVE RunsHeld'
  BY <1>13, RunFinished
<1>14. CASE install
  BY <1>14, RunsInstalled
<1> QED BY <1>1, <1>2, <1>3, <1>4, <1>5, <1>6, <1>7, <1>8, <1>9, <1>10, <1>11, <1>12, <1>13, <1>14, Zenon DEF Next, Step

\* No job ever has two runs, through every edit, reload, pause and crash, however
\* many run threads there are: the run is carried over when `install` replaces its
\* job. It takes file names that differ, manifests with one schedule each (a
\* schedule that is renamed and renamed back starts without its run) and no manifest
\* taken off the list (one that is added again does too).
THEOREM OneRunEach ==
  ASSUME StemsApart, Plain, NothingRemoved PROVE Spec => []NoOverlap
<1>0. NamesApart
  BY PlainApart
<1>1. Init => RunsHeld
  <2> SUFFICES ASSUME Init PROVE RunsHeld
    OBVIOUS
  <2>1. pc = "down" /\ \A r \in RunIds : runs[r] = NoJob
    BY DEF Init
  <2> QED BY <2>1 DEF RunsHeld, NoOverlap
<1>2. TypeInv /\ Follows /\ Own /\ RunsHeld /\ [Next]_vars => RunsHeld'
  BY RunsStep
<1>3. RunsHeld => NoOverlap
  BY DEF RunsHeld
<1> QED BY <1>0, <1>1, <1>2, <1>3, OwnAlways, PTL DEF Spec
=============================================================================
