---------------------------- MODULE SandboxProofs ---------------------------
(***************************************************************************)
(* Theorems about Sandbox, for any number of runs and processes and any    *)
(* policies, links and trees: no run loses a mask that it holds or removes *)
(* what it did not build; nothing is left of the masks in the end; what a  *)
(* run binds is there; and it may write and execute what its policy says.  *)
(***************************************************************************)
EXTENDS Sandbox, FiniteSetTheorems, SequenceTheorems, WellFoundedInduction, TLAPS

-----------------------------------------------------------------------------
\* Lemmas about the operators of the model.

\* A set of naturals that is not empty has a least member, and a greatest one
\* if it has a bound.
LEMMA LeastNat ==
  ASSUME NEW T, T \subseteq Nat, T # {} PROVE \E i \in T : \A j \in T : i <= j
<1>1. PICK i \in T : \A j \in T : ~ (<<j, i>> \in OpToRel(<, Nat))
  BY NatLessThanWellFounded, WFMin, Zenon
<1>2. \A j \in T : ~ (j < i)
  BY <1>1 DEF OpToRel
<1> QED BY <1>2

LEMMA GreatestNat ==
  ASSUME NEW T, T # {}, NEW N \in Nat, T \subseteq 0..N
  PROVE  \E i \in T : \A j \in T : j <= i
<1> DEFINE D == {N - i : i \in T}
<1>1. D \subseteq Nat /\ D # {}
  <2>1. \A i \in T : N - i \in Nat
    OBVIOUS
  <2> QED BY <2>1
<1>2. PICK d \in D : \A e \in D : d <= e
  <2> HIDE DEF D
  <2> QED BY <1>1, LeastNat
<1>3. PICK i \in T : d = N - i
  BY <1>2
<1>4. ASSUME NEW j \in T PROVE j <= i
  <2>1. N - j \in D
    OBVIOUS
  <2>2. d <= N - j
    BY <1>2, <2>1
  <2> QED BY <1>3, <2>2
<1> QED BY <1>4

\* A finite set of paths can be sorted. The shortest path of a set goes first.
LEMMA SortedExists ==
  ASSUME NEW S, IsFiniteSet(S), S \subseteq Path
  PROVE  \E order \in SetToSeqs(S) : \A i, j \in DOMAIN order : i < j => Len(order[i]) <= Len(order[j])
<1> DEFINE Sorts(U) == \E order \in SetToSeqs(U) :
                         \A i, j \in DOMAIN order : i < j => Len(order[i]) <= Len(order[j])
           Bad == {n \in Nat : \E U \in SUBSET Path : IsFiniteSet(U) /\ Cardinality(U) = n /\ ~Sorts(U)}
<1> HIDE DEF Sorts
<1>1. SUFFICES ASSUME Bad # {} PROVE FALSE
  <2>1. Cardinality(S) \in Nat
    BY FS_CardinalityType
  <2>2. Sorts(S)
    BY <2>1
  <2> QED BY <2>2 DEF Sorts
<1>2. PICK n \in Bad : \A m \in Bad : n <= m
  <2>1. Bad \subseteq Nat
    OBVIOUS
  <2> HIDE DEF Bad
  <2> QED BY <1>1, <2>1, LeastNat
<1>3. PICK U \in SUBSET Path : IsFiniteSet(U) /\ Cardinality(U) = n /\ ~Sorts(U)
  BY <1>2
<1>4. CASE n = 0
  <2>1. U = {}
    BY <1>3, <1>4, FS_EmptySet
  <2>2. <<>> \in SetToSeqs(U)
    BY <1>3, <1>4, <2>1 DEF SetToSeqs
  <2>3. Sorts(U)
    BY <2>2 DEF Sorts
  <2> QED BY <1>3, <2>3
<1>5. CASE n # 0
  <2>1. n \in Nat \ {0} /\ U # {}
    BY <1>2, <1>3, <1>5, FS_EmptySet
  <2> DEFINE T == {Len(p) : p \in U}
  <2>2. T \subseteq Nat /\ T # {}
    <3>1. \A p \in U : Len(p) \in Nat
      BY DEF Path
    <3> QED BY <2>1, <3>1
  <2>3. PICK l \in T : \A k \in T : l <= k
    <3> HIDE DEF T
    <3> QED BY <2>2, LeastNat
  <2>4. PICK p \in U : l = Len(p)
    BY <2>3
  <2>5. \A q \in U : Len(p) <= Len(q)
    BY <2>3, <2>4
  <2> DEFINE V == U \ {p}
  <2>6. IsFiniteSet(V) /\ Cardinality(V) = n - 1 /\ V \in SUBSET Path
    BY <1>3, <2>4, FS_RemoveElement
  <2>7. Sorts(V)
    <3>1. n - 1 \in Nat /\ ~(n <= n - 1)
      BY <2>1
    <3>2. n - 1 \notin Bad
      BY <1>2, <3>1
    <3> HIDE DEF V
    <3> QED BY <2>6, <3>1, <3>2
  <2>8. PICK rest \in SetToSeqs(V) : \A i, j \in DOMAIN rest : i < j => Len(rest[i]) <= Len(rest[j])
    BY <2>7 DEF Sorts
  <2>9. rest \in [1..(n - 1) -> V] /\ \A i, j \in 1..(n - 1) : i # j => rest[i] # rest[j]
    BY <2>6, <2>8 DEF SetToSeqs
  <2> DEFINE order == [i \in 1..n |-> IF i = 1 THEN p ELSE rest[i - 1]]
  <2>10. \A i \in 1..n : i # 1 => i - 1 \in 1..(n - 1) /\ rest[i - 1] \in V
    BY <2>1, <2>9
  <2>11. order \in [1..n -> U]
    BY <2>10
  <2>12. \A i, j \in 1..n : i # j => order[i] # order[j]
    BY <2>9, <2>10
  <2>13. \A i, j \in 1..n : i < j => Len(order[i]) <= Len(order[j])
    <3> SUFFICES ASSUME NEW i \in 1..n, NEW j \in 1..n, i < j PROVE Len(order[i]) <= Len(order[j])
      OBVIOUS
    <3>1. j # 1 /\ order[j] = rest[j - 1] /\ order[j] \in U
      BY <2>10
    <3>2. CASE i = 1
      BY <2>5, <3>1, <3>2
    <3>3. CASE i # 1
      <4>1. order[i] = rest[i - 1] /\ i - 1 \in 1..(n - 1) /\ j - 1 \in 1..(n - 1) /\ i - 1 < j - 1
        BY <2>10, <3>1, <3>3
      <4>2. DOMAIN rest = 1..(n - 1)
        BY <2>9
      <4> HIDE DEF order
      <4> QED BY <2>8, <3>1, <4>1, <4>2
    <3> QED BY <3>2, <3>3
  <2>14. order \in SetToSeqs(U) /\ DOMAIN order = 1..n
    <3> HIDE DEF order
    <3> QED BY <1>3, <2>11, <2>12 DEF SetToSeqs
  <2>15. Sorts(U)
    <3> HIDE DEF order
    <3> QED BY <2>13, <2>14 DEF Sorts
  <2> QED BY <1>3, <2>15
<1> QED BY <1>4, <1>5

LEMMA SortedIs ==
  ASSUME NEW S, IsFiniteSet(S), S \subseteq Path
  PROVE  /\ sorted(S) \in [1..Cardinality(S) -> S] /\ Cardinality(S) \in Nat
         /\ \A i, j \in DOMAIN sorted(S) : i < j => Len(sorted(S)[i]) <= Len(sorted(S)[j])
<1>1. sorted(S) \in SetToSeqs(S) /\ \A i, j \in DOMAIN sorted(S) : i < j => Len(sorted(S)[i]) <= Len(sorted(S)[j])
  BY SortedExists DEF sorted
<1> QED BY <1>1, FS_CardinalityType DEF SetToSeqs

\* A part of a path is a path.
LEMMA SortedOnto ==
  ASSUME NEW S, IsFiniteSet(S), S \subseteq Path
  PROVE  \A p \in S : \E i \in DOMAIN sorted(S) : sorted(S)[i] = p
<1> DEFINE n == Cardinality(S)
           f == sorted(S)
<1>1. f \in SetToSeqs(S)
  BY SortedExists DEF sorted
<1>2. f \in [1..n -> S] /\ \A i, j \in 1..n : i # j => f[i] # f[j]
  BY <1>1 DEF SetToSeqs
<1>3. n \in Nat
  BY FS_CardinalityType
<1>4. IsFiniteSet(1..n) /\ Cardinality(1..n) = n
  <2> HIDE DEF n
  <2>1. Cardinality(1..n) = IF 1 > n THEN 0 ELSE n - 1 + 1
    BY <1>3, FS_Interval
  <2> QED BY <1>3, <2>1, FS_Interval
<1> HIDE DEF f
<1>5. f \in Injection(1..n, S)
  BY <1>2 DEF Injection, IsInjective
<1>6. f \in Surjection(1..n, S)
  BY <1>4, <1>5, FS_Injection
<1>7. \A p \in S : \E i \in 1..n : f[i] = p
  BY <1>6 DEF Surjection
<1> HIDE DEF n
<1> QED BY <1>2, <1>7 DEF f

LEMMA PartIsPath ==
  ASSUME NEW path \in Path, NEW m \in Nat \ {0}, NEW n \in Nat, n <= Len(path)
  PROVE  SubSeq(path, m, n) \in Path
BY DEF Path

LEMMA FollowIsPath ==
  ASSUME NEW path \in Path PROVE follow(path) \in Path
<1> DEFINE links == {l \in DOMAIN Links : under(path, l)}
<1>1. CASE links = {}
  BY <1>1 DEF follow
<1>2. CASE links # {}
  <2> DEFINE l == CHOOSE l \in links : TRUE
  <2>1. l \in links
    BY <1>2
  <2>2. l \in DOMAIN Links /\ l \in Path /\ Links[l] \in Path
    BY <2>1, SandboxAssumption
  <2>3. SubSeq(path, Len(l) + 1, Len(path)) \in Path
    <3>1. Len(l) + 1 \in Nat \ {0} /\ Len(path) \in Nat
      BY <2>2 DEF Path
    <3> QED BY <3>1, PartIsPath
  <2>4. follow(path) = Links[l] \o SubSeq(path, Len(l) + 1, Len(path))
    BY <1>2 DEF follow
  <2> HIDE DEF l
  <2> QED BY <2>2, <2>3, <2>4 DEF Path
<1> QED BY <1>1, <1>2

LEMMA LenientIsPath ==
  ASSUME NEW path \in Path, NEW fs PROVE canonicalize_lenient(path, fs) \in Path
<1> DEFINE known == {n \in 0..Len(path) : n = 0 \/ exists(SubSeq(path, 1, n), fs)}
           n == CHOOSE n \in known : \A m \in known : m <= n
<1>0. Len(path) \in Nat
  BY DEF Path
<1>1. n \in known
  <2>0. 0 \in 0..Len(path)
    BY <1>0
  <2>1. known # {} /\ known \subseteq 0..Len(path)
    BY <2>0, Zenon
  <2>2. \E i \in known : \A j \in known : j <= i
    <3> HIDE DEF known
    <3> QED BY <1>0, <2>1, GreatestNat
  <2> HIDE DEF known
  <2> QED BY <2>2
<1>2. n \in 0..Len(path)
  BY <1>1
<1>3. canonicalize_lenient(path, fs) = follow(SubSeq(path, 1, n)) \o SubSeq(path, n + 1, Len(path))
  BY DEF canonicalize_lenient
<1> HIDE DEF n
<1>4. SubSeq(path, 1, n) \in Path /\ SubSeq(path, n + 1, Len(path)) \in Path
  BY <1>0, <1>2, PartIsPath
<1>5. follow(SubSeq(path, 1, n)) \in Path
  BY <1>4, FollowIsPath
<1> QED BY <1>3, <1>4, <1>5 DEF Path

LEMMA AbsoluteIsPath ==
  ASSUME NEW rule, rule.rest \in Path PROVE absolute(rule) \in Path
<1> DEFINE base == IF rule.base = "~" THEN Home ELSE IF rule.base = "." THEN WorkingDirectory ELSE <<>>
<1>1. Home \in Path /\ WorkingDirectory \in Path /\ <<>> \in Path
  BY SandboxAssumption DEF Path
<1>2. base \in Path
  BY <1>1
<1>3. absolute(rule) = base \o rule.rest
  BY DEF absolute
<1> HIDE DEF base
<1> QED BY <1>2, <1>3 DEF Path

\* What a sandbox denies: finitely many paths.
LEMMA DeniedArePaths ==
  ASSUME policy \in Policies, NEW fs, NEW program
  PROVE  /\ resolve(fs, program).write_deny \subseteq Path
         /\ IsFiniteSet(resolve(fs, program).write_deny)
<1> DEFINE filesystem == merge(policy.workflow, policy.task)
           rules == with_defaults(filesystem, Defaults["write_deny"], "write_deny")
           Op(rule) == canonicalize_lenient(absolute(rule), fs)
<1>1. resolve(fs, program).write_deny = {Op(rule) : rule \in rules}
  BY DEF resolve
<1>2. filesystem["write_deny"] = policy.workflow["write_deny"] \cup policy.task["write_deny"]
  BY SandboxAssumption DEF merge, Settings
<1>3. IsFiniteSet(rules) /\ \A rule \in rules : rule.rest \in Path
  <2>1. /\ IsFiniteSet(Defaults["write_deny"]) /\ \A rule \in Defaults["write_deny"] : rule.rest \in Path
        /\ IsFiniteSet(filesystem["write_deny"]) /\ \A rule \in filesystem["write_deny"] : rule.rest \in Path
    <3>1. \A R \in {Defaults["write_deny"], policy.workflow["write_deny"], policy.task["write_deny"]} :
            IsFiniteSet(R) /\ \A rule \in R : rule.rest \in Path
      BY SandboxAssumption
    <3>2. IsFiniteSet(policy.workflow["write_deny"] \cup policy.task["write_deny"])
      BY <3>1, FS_Union
    <3> HIDE DEF filesystem
    <3> QED BY <1>2, <3>1, <3>2
  <2>2. rules \in {filesystem["write_deny"], Defaults["write_deny"] \cup filesystem["write_deny"]}
    BY DEF with_defaults
  <2>3. IsFiniteSet(Defaults["write_deny"] \cup filesystem["write_deny"])
    BY <2>1, FS_Union
  <2> HIDE DEF rules, filesystem
  <2> QED BY <2>1, <2>2, <2>3
<1>4. \A rule \in rules : Op(rule) \in Path
  BY <1>3, AbsoluteIsPath, LenientIsPath
<1>5. IsFiniteSet({Op(rule) : rule \in rules})
  <2> DEFINE T == {Op(rule) : rule \in rules}
             f == [rule \in rules |-> Op(rule)]
  <2>1. f \in [rules -> T] /\ \A t \in T : \E rule \in rules : f[rule] = t
    OBVIOUS
  <2>2. f \in Surjection(rules, T)
    <3> HIDE DEF f, T, rules
    <3> QED BY <2>1 DEF Surjection
  <2> HIDE DEF f, T, rules
  <2>3. IsFiniteSet(T)
    BY <1>3, <2>2, FS_Surjection
  <2> QED BY <2>3 DEF T
<1> QED BY <1>1, <1>4, <1>5

\* The directories that a mask needs are missing, or held by other masks.
LEMMA MaskDirectories ==
  ASSUME NEW path \in Path
  PROVE  /\ mask_directories(path) \in Seq(Path)
         /\ \A i \in DOMAIN mask_directories(path) :
              mask_directories(path)[i] \notin dirs \/ is_marked(mask_directories(path)[i])
<1> DEFINE mine(n) == SubSeq(path, 1, n)
           free(n) == mine(n) \notin dirs \/ is_marked(mine(n))
           top == {n \in 1..Len(path) : ~free(n)}
           last == IF top = {} THEN 0 ELSE CHOOSE n \in top : \A m \in top : m <= n
<1>0. Len(path) \in Nat
  BY DEF Path
<1>1. last \in 0..Len(path) /\ \A n \in 1..Len(path) : n > last => free(n)
  <2>1. CASE top = {}
    <3>1. last = 0
      BY <2>1
    <3>2. \A n \in 1..Len(path) : free(n)
      BY <2>1
    <3> QED BY <1>0, <3>1, <3>2
  <2>2. CASE top # {}
    <3>1. \E i \in top : \A j \in top : j <= i
      <4>1. top \subseteq 0..Len(path)
        BY <1>0
      <4> HIDE DEF top
      <4> QED BY <1>0, <2>2, <4>1, GreatestNat
    <3>2. last \in top /\ \A m \in top : m <= last
      <4> HIDE DEF top
      <4> QED BY <2>2, <3>1
    <3> HIDE DEF last
    <3>3. last \in 1..Len(path)
      BY <3>2
    <3>4. ASSUME NEW n \in 1..Len(path), n > last PROVE free(n)
      <4>1. n \notin top
        BY <1>0, <3>2, <3>3, <3>4
      <4> QED BY <4>1
    <3> QED BY <1>0, <3>3, <3>4
  <2> QED BY <2>1, <2>2
<1>2. mask_directories(path) = [i \in 1..(Len(path) - last) |-> mine(Len(path) - i + 1)]
  BY DEF mask_directories
<1> HIDE DEF last
<1>3. \A i \in 1..(Len(path) - last) : Len(path) - i + 1 \in 1..Len(path) /\ Len(path) - i + 1 > last
  BY <1>0, <1>1
<1>4. \A n \in 1..Len(path) : mine(n) \in Path
  BY <1>0, PartIsPath
<1> HIDE DEF mine
<1>5. Len(path) - last \in Nat
  BY <1>0, <1>1
<1>6. mask_directories(path) \in [1..(Len(path) - last) -> Path]
  BY <1>2, <1>3, <1>4
<1>7. mask_directories(path) \in Seq(Path)
  BY <1>5, <1>6
<1>8. \A i \in 1..(Len(path) - last) : free(Len(path) - i + 1)
  BY <1>1, <1>3
<1> QED BY <1>2, <1>7, <1>8

-----------------------------------------------------------------------------
\* The invariant.

\* A run that builds a mask has one to build, and stands at one of its
\* directories.
StepInv ==
  \A r \in Runs :
    /\ \A i \in DOMAIN masks[r] : masks[r][i] # <<>>
    /\ \A i \in DOMAIN todo[r] : todo[r][i] # <<>>
    /\ pc[r] \in {"create", "mark"} => todo[r] # <<>> /\ step[r] \in 1..Len(Head(todo[r]))

\* Only a living process is on its way.
AliveInv == \A r \in Runs : pc[r] # "over" => alive(r)

\* A marker keeps its directory, and a run has its marker in every directory it
\* holds, and in those it has passed in the mask that it marks.
Holding == {"off", "plan", "arguments", "create", "mark", "spawn", "run"}
HeldInv ==
  /\ \A m \in markers : m[1] \in dirs
  /\ \A r \in Runs : pc[r] \in Holding =>
       \A i \in DOMAIN held[r].directories : <<held[r].directories[i], r>> \in markers
  /\ \A r \in Runs : pc[r] = "mark" =>
       \A i \in 1..(step[r] - 1) : <<needed(r)[i], r>> \in markers

\* What runs plan, mark and hold was not there at first.
OwnInv ==
  /\ first \subseteq dirs
  /\ \A m \in markers : m[1] \notin first
  /\ \A r \in Runs :
       /\ \A i \in DOMAIN masks[r] : \A k \in DOMAIN masks[r][i] : masks[r][i][k] \notin first
       /\ \A i \in DOMAIN todo[r] : \A k \in DOMAIN todo[r][i] : todo[r][i][k] \notin first
       /\ \A i \in DOMAIN held[r].directories : held[r].directories[i] \notin first

MaskInv == TypeOK /\ StepInv /\ AliveInv /\ HeldInv /\ OwnInv

\* A run that has still to plan knows what is denied.
PlanInv ==
  /\ DOMAIN resolved = Runs
  /\ \A r \in Runs : pc[r] = "plan" => resolved[r].write_deny \subseteq Path /\ IsFiniteSet(resolved[r].write_deny)

LEMMA InitMasks == Init => MaskInv
<1> SUFFICES ASSUME Init PROVE MaskInv
  OBVIOUS
<1>1. TypeOK
  BY SandboxAssumption DEF Init, TypeOK
<1>2. StepInv /\ AliveInv
  BY DEF Init, StepInv, AliveInv, alive
<1>3. HeldInv
  BY DEF Init, HeldInv, Holding
<1>4. OwnInv
  BY DEF Init, OwnInv
<1> QED BY <1>1, <1>2, <1>3, <1>4 DEF MaskInv

\* The mask that a run is building, from its top directory.
LEMMA Needed ==
  ASSUME TypeOK, NEW r \in Runs, todo[r] # <<>>
  PROVE  /\ Head(todo[r]) \in Seq(Path) /\ Head(todo[r]) = todo[r][1] /\ 1 \in DOMAIN todo[r]
         /\ needed(r) \in Seq(Path) /\ Len(needed(r)) = Len(Head(todo[r]))
         /\ \A i \in 1..Len(needed(r)) : \E k \in DOMAIN todo[r][1] : needed(r)[i] = todo[r][1][k]
         /\ \A k \in DOMAIN todo[r][1] : \E i \in 1..Len(needed(r)) : todo[r][1][k] = needed(r)[i]
<1>1. todo[r] \in Seq(Seq(Path))
  BY DEF TypeOK
<1>2. Head(todo[r]) \in Seq(Path) /\ Head(todo[r]) = todo[r][1] /\ 1 \in DOMAIN todo[r]
  BY <1>1
<1> DEFINE s == todo[r][1]
           n == Len(s)
<1>3. s \in Seq(Path) /\ n \in Nat /\ DOMAIN s = 1..n
  BY <1>2
<1>4. needed(r) = [i \in 1..n |-> s[(n - i) + 1]]
  BY <1>2 DEF needed, Reverse
<1> HIDE DEF n, s
<1>5. \A i \in 1..n : (n - i) + 1 \in 1..n
  BY <1>3
<1>6. needed(r) \in [1..n -> Path]
  BY <1>3, <1>4, <1>5
<1>7. needed(r) \in Seq(Path) /\ Len(needed(r)) = n
  BY <1>3, <1>6
<1>8. \A i \in 1..n : \E k \in 1..n : needed(r)[i] = s[k]
  BY <1>4, <1>5
<1>9. \A k \in 1..n : \E i \in 1..n : s[k] = needed(r)[i]
  <2> TAKE k \in 1..n
  <2> DEFINE j == (n - k) + 1
  <2>1. j \in 1..n /\ (n - j) + 1 = k
    BY <1>3
  <2> HIDE DEF j
  <2>2. needed(r)[j] = s[k]
    BY <1>4, <2>1
  <2> QED BY <2>1, <2>2
<1> QED BY <1>2, <1>3, <1>7, <1>8, <1>9 DEF n, s

\* On to the next mask: what is left was planned, and is built from its top.
LEMMA NextMask ==
  ASSUME TypeOK, StepInv, NEW r \in Runs, todo[r] # <<>>, next_mask(r)
  PROVE  /\ todo' \in [Runs -> Seq(Seq(Path))] /\ step' \in [Runs -> Nat] /\ attempt' \in [Runs -> Nat]
         /\ pc' = [pc EXCEPT ![r] = IF Len(todo[r]) = 1 THEN "spawn" ELSE "create"]
         /\ \A q \in Runs \ {r} : todo'[q] = todo[q] /\ step'[q] = step[q] /\ pc'[q] = pc[q]
         /\ pc'[r] \in {"spawn", "create"}
         /\ \A i \in DOMAIN todo'[r] : \E k \in DOMAIN todo[r] : todo'[r][i] = todo[r][k]
         /\ pc'[r] = "create" => todo'[r] # <<>> /\ step'[r] \in 1..Len(Head(todo'[r]))
<1>1. todo \in [Runs -> Seq(Seq(Path))] /\ step \in [Runs -> Nat] /\ attempt \in [Runs -> Nat]
  BY DEF TypeOK
<1>2. todo'[r] = Tail(todo[r]) /\ step'[r] = 1
  BY <1>1 DEF next_mask
<1>3. Tail(todo[r]) \in Seq(Seq(Path))
  BY <1>1
<1>4. todo' \in [Runs -> Seq(Seq(Path))] /\ step' \in [Runs -> Nat] /\ attempt' \in [Runs -> Nat]
  BY <1>1, <1>3 DEF next_mask
<1>5. \A i \in DOMAIN Tail(todo[r]) : i + 1 \in DOMAIN todo[r] /\ Tail(todo[r])[i] = todo[r][i + 1]
  BY <1>1
<1>6. pc' = [pc EXCEPT ![r] = IF Len(todo[r]) = 1 THEN "spawn" ELSE "create"]
  BY DEF next_mask, goto
<1>7. ASSUME Len(todo[r]) # 1 PROVE Tail(todo[r]) # <<>> /\ 1 \in 1..Len(Head(Tail(todo[r])))
  <2>0. Len(todo[r]) \in Nat \ {0, 1} /\ Len(Tail(todo[r])) = Len(todo[r]) - 1
    <3>1. todo[r] \in Seq(Seq(Path))
      BY <1>1
    <3> QED BY <1>7, <3>1
  <2>1. Len(Tail(todo[r])) # 0 /\ Tail(todo[r]) # <<>> /\ 1 \in DOMAIN Tail(todo[r])
    <3> DEFINE t == Tail(todo[r])
    <3>1. t \in Seq(Seq(Path)) /\ Len(t) \in Nat \ {0}
      BY <1>3, <2>0
    <3> HIDE DEF t
    <3>2. t # <<>> /\ 1 \in DOMAIN t
      BY <3>1
    <3> QED BY <3>1, <3>2 DEF t
  <2>2. Head(Tail(todo[r])) = todo[r][2] /\ 2 \in DOMAIN todo[r]
    BY <1>1, <1>3, <1>5, <2>1
  <2>3. todo[r][2] # <<>> /\ todo[r][2] \in Seq(Path)
    BY <1>1, <2>2 DEF StepInv
  <2> QED BY <2>1, <2>2, <2>3
<1>8. \A q \in Runs \ {r} : todo'[q] = todo[q] /\ step'[q] = step[q] /\ pc'[q] = pc[q]
  BY <1>1, <1>6 DEF next_mask, TypeOK
<1>9. pc'[r] = IF Len(todo[r]) = 1 THEN "spawn" ELSE "create"
  BY <1>6 DEF TypeOK
<1> QED BY <1>2, <1>4, <1>5, <1>6, <1>7, <1>8, <1>9

-----------------------------------------------------------------------------
\* Every step keeps the invariant.

LEMMA PrepareKeeps ==
  ASSUME MaskInv, NEW r \in Runs, prepare(r) PROVE MaskInv'
<1>0. TypeOK /\ StepInv /\ AliveInv /\ HeldInv /\ OwnInv
  BY DEF MaskInv
<1>1. /\ pc[r] = "off" /\ alive(r) /\ (pc' = [pc EXCEPT ![r] = "plan"] \/ pc' = [pc EXCEPT ![r] = "over"])
      /\ UNCHANGED <<policy, first, dirs, markers, masks, todo, step, attempt, held, dead, raced, since>>
  BY DEF prepare, goto
<1>2. TypeOK'
  BY <1>0, <1>1 DEF TypeOK
<1>3. StepInv' /\ OwnInv'
  BY <1>0, <1>1 DEF StepInv, OwnInv, TypeOK
<1>4. AliveInv'
  BY <1>0, <1>1 DEF AliveInv, alive, TypeOK
<1>5. HeldInv'
  BY <1>0, <1>1 DEF HeldInv, Holding, needed, TypeOK
<1> QED BY <1>2, <1>3, <1>4, <1>5 DEF MaskInv

\* What is planned was missing, or held by masks.
LEMMA PlanKeeps ==
  ASSUME MaskInv, PlanInv, NEW r \in Runs, plan_masks(r) PROVE MaskInv'
<1>0. TypeOK /\ StepInv /\ AliveInv /\ HeldInv /\ OwnInv
  BY DEF MaskInv
<1>1. /\ pc[r] = "plan" /\ alive(r) /\ (pc' = [pc EXCEPT ![r] = "arguments"] \/ pc' = [pc EXCEPT ![r] = "over"])
      /\ UNCHANGED <<policy, first, dirs, markers, todo, step, attempt, held, dead>>
  BY <1>0 DEF plan_masks, goto, AliveInv
<1>2. raced' \subseteq Runs /\ since' \subseteq Runs
  <2>1. raced' = raced \/ raced' = raced \cup {r}
    BY Zenon DEF plan_masks
  <2>2. since' = since \/ since' = since \cup {r}
    BY Zenon DEF plan_masks
  <2> QED BY <1>0, <2>1, <2>2 DEF TypeOK
<1>3. /\ masks' \in [Runs -> Seq(Seq(Path))]
      /\ \A q \in Runs \ {r} : masks'[q] = masks[q]
      /\ \A i \in DOMAIN masks'[r] : masks'[r][i] # <<>> /\ \A k \in DOMAIN masks'[r][i] : masks'[r][i][k] \notin first
  <2>0. masks \in [Runs -> Seq(Seq(Path))]
    BY <1>0 DEF TypeOK
  <2>1. CASE UNCHANGED masks
    BY <1>0, <2>0, <2>1 DEF StepInv, OwnInv
  <2> DEFINE lost == {p \in resolved[r].write_deny : inside_write_allow(resolved[r], p) /\ mask_directories(p) # <<>>}
             ways == sorted(lost)
  <2>2. CASE masks' = [masks EXCEPT ![r] = [i \in DOMAIN ways |-> mask_directories(ways[i])]]
    <3>1. lost \subseteq Path /\ IsFiniteSet(lost)
      <4>1. resolved[r].write_deny \subseteq Path /\ IsFiniteSet(resolved[r].write_deny)
        BY <1>1 DEF PlanInv
      <4>2. lost \in SUBSET resolved[r].write_deny
        OBVIOUS
      <4> HIDE DEF lost
      <4> QED BY <4>1, <4>2, FS_Subset
    <3> DEFINE n == Cardinality(lost)
               plan == [i \in 1..n |-> mask_directories(ways[i])]
    <3>2. ways \in [1..n -> lost] /\ n \in Nat
      <4> HIDE DEF lost
      <4> QED BY <3>1, SortedIs
    <3>2a. \A p \in lost : p \in Path /\ mask_directories(p) # <<>>
      BY <3>1
    <3>2b. masks' = [masks EXCEPT ![r] = plan]
      <4>1. DOMAIN ways = 1..n
        <5> HIDE DEF ways, lost
        <5> QED BY <3>2
      <4> HIDE DEF ways, n
      <4> QED BY <2>2, <4>1
    <3> HIDE DEF ways, lost
    <3>3. \A i \in 1..n : /\ mask_directories(ways[i]) \in Seq(Path) /\ mask_directories(ways[i]) # <<>>
                          /\ \A k \in DOMAIN mask_directories(ways[i]) : mask_directories(ways[i])[k] \notin first
      <4> SUFFICES ASSUME NEW i \in 1..n, NEW p, p = ways[i]
                   PROVE  /\ mask_directories(p) \in Seq(Path) /\ mask_directories(p) # <<>>
                          /\ \A k \in DOMAIN mask_directories(p) : mask_directories(p)[k] \notin first
        OBVIOUS
      <4>1. p \in Path /\ mask_directories(p) # <<>>
        BY <3>2, <3>2a
      <4>2. /\ mask_directories(p) \in Seq(Path)
            /\ \A k \in DOMAIN mask_directories(p) :
                 mask_directories(p)[k] \notin dirs \/ is_marked(mask_directories(p)[k])
        BY <4>1, MaskDirectories
      <4>3. \A path : path \notin dirs \/ is_marked(path) => path \notin first
        BY <1>0 DEF OwnInv, is_marked
      <4> QED BY <4>1, <4>2, <4>3
    <3>4. plan \in Seq(Seq(Path)) /\ DOMAIN plan = 1..n
      <4>1. plan \in [1..n -> Seq(Path)]
        BY <3>3
      <4> HIDE DEF plan
      <4> QED BY <3>2, <4>1
    <3>5. \A i \in DOMAIN plan : plan[i] # <<>> /\ \A k \in DOMAIN plan[i] : plan[i][k] \notin first
      BY <3>3
    <3> HIDE DEF plan
    <3> QED BY <2>0, <3>2b, <3>4, <3>5
  <2>3. UNCHANGED masks \/ masks' = [masks EXCEPT ![r] = [i \in DOMAIN ways |-> mask_directories(ways[i])]]
    BY Zenon DEF plan_masks
  <2> HIDE DEF ways, lost
  <2> QED BY <2>1, <2>2, <2>3
<1>4. TypeOK'
  BY <1>0, <1>1, <1>2, <1>3 DEF TypeOK
<1>5. StepInv'
  <2>1. pc'[r] \in {"arguments", "over"} /\ \A q \in Runs \ {r} : pc'[q] = pc[q]
    BY <1>0, <1>1 DEF TypeOK
  <2> SUFFICES ASSUME NEW q \in Runs
               PROVE  /\ \A i \in DOMAIN masks'[q] : masks'[q][i] # <<>>
                      /\ \A i \in DOMAIN todo'[q] : todo'[q][i] # <<>>
                      /\ pc'[q] \in {"create", "mark"} => todo'[q] # <<>> /\ step'[q] \in 1..Len(Head(todo'[q]))
    BY DEF StepInv
  <2>2. CASE q # r
    <3>1. masks'[q] = masks[q] /\ pc'[q] = pc[q] /\ todo' = todo /\ step' = step
      BY <1>1, <1>3, <2>1, <2>2
    <3> QED BY <1>0, <3>1 DEF StepInv
  <2>3. CASE q = r
    BY <1>0, <1>1, <1>3, <2>1, <2>3 DEF StepInv
  <2> QED BY <2>2, <2>3
<1>6. AliveInv'
  BY <1>0, <1>1 DEF AliveInv, alive, TypeOK
<1>7. HeldInv'
  BY <1>0, <1>1 DEF HeldInv, Holding, needed, TypeOK
<1>8. OwnInv'
  BY <1>0, <1>1, <1>3 DEF OwnInv
<1> QED BY <1>4, <1>5, <1>6, <1>7, <1>8 DEF MaskInv

LEMMA ArgumentsKeeps ==
  ASSUME MaskInv, NEW r \in Runs, arguments(r) PROVE MaskInv'
<1>0. TypeOK /\ StepInv /\ AliveInv /\ HeldInv /\ OwnInv
  BY DEF MaskInv
<1>1. /\ pc[r] = "arguments" /\ pc' = [pc EXCEPT ![r] = IF masks[r] = <<>> THEN "spawn" ELSE "create"]
      /\ todo' = [todo EXCEPT ![r] = masks[r]]
      /\ step' = [step EXCEPT ![r] = 1] /\ attempt' = [attempt EXCEPT ![r] = 1]
      /\ UNCHANGED <<policy, first, dirs, markers, masks, held, dead, since>>
  BY DEF arguments, goto
<1>2. raced' \subseteq Runs
  BY <1>0 DEF arguments, TypeOK
<1>3. TypeOK'
  BY <1>0, <1>1, <1>2 DEF TypeOK
<1>4. todo'[r] = masks[r] /\ step'[r] = 1 /\ \A q \in Runs \ {r} : todo'[q] = todo[q] /\ step'[q] = step[q] /\ pc'[q] = pc[q]
  BY <1>0, <1>1 DEF TypeOK
<1>5. pc'[r] = IF masks[r] = <<>> THEN "spawn" ELSE "create"
  BY <1>0, <1>1 DEF TypeOK
<1>6. masks[r] # <<>> => 1 \in 1..Len(Head(masks[r]))
  <2>1. masks[r] \in Seq(Seq(Path))
    BY <1>0 DEF TypeOK
  <2>2. masks[r] # <<>> => 1 \in DOMAIN masks[r] /\ Head(masks[r]) = masks[r][1] /\ masks[r][1] \in Seq(Path)
    BY <2>1
  <2>3. masks[r] # <<>> => masks[r][1] # <<>>
    BY <1>0, <2>2 DEF StepInv
  <2> QED BY <2>2, <2>3
<1>7. StepInv'
  BY <1>0, <1>1, <1>4, <1>5, <1>6 DEF StepInv
<1>8. AliveInv'
  BY <1>0, <1>1 DEF AliveInv, alive, TypeOK
<1>9. HeldInv'
  BY <1>0, <1>1, <1>4, <1>5 DEF HeldInv, Holding, needed
<1>10. OwnInv'
  BY <1>0, <1>1, <1>4 DEF OwnInv
<1> QED BY <1>3, <1>7, <1>8, <1>9, <1>10 DEF MaskInv

\* A mask that could not be had is given up, and the next one built.
LEMMA SkipKeeps ==
  ASSUME MaskInv, NEW r \in Runs, pc[r] \in {"create", "mark"}, next_mask(r), raced' = raced \cup {r},
         UNCHANGED <<policy, first, dirs, markers, masks, held, dead, since>>
  PROVE  MaskInv'
<1>0. TypeOK /\ StepInv /\ AliveInv /\ HeldInv /\ OwnInv
  BY DEF MaskInv
<1>a. /\ todo[r] # <<>> /\ UNCHANGED <<policy, first, dirs, markers, masks, held, dead, since>>
      /\ pc[r] \in {"create", "mark"} /\ raced' = raced \cup {r} /\ next_mask(r)
  BY <1>0 DEF StepInv
<1>1. /\ todo' \in [Runs -> Seq(Seq(Path))] /\ step' \in [Runs -> Nat] /\ attempt' \in [Runs -> Nat]
      /\ pc' = [pc EXCEPT ![r] = IF Len(todo[r]) = 1 THEN "spawn" ELSE "create"]
      /\ \A q \in Runs \ {r} : todo'[q] = todo[q] /\ step'[q] = step[q] /\ pc'[q] = pc[q]
      /\ pc'[r] \in {"spawn", "create"}
      /\ \A i \in DOMAIN todo'[r] : \E k \in DOMAIN todo[r] : todo'[r][i] = todo[r][k]
      /\ pc'[r] = "create" => todo'[r] # <<>> /\ step'[r] \in 1..Len(Head(todo'[r]))
  BY <1>0, <1>a, NextMask
<1>2. TypeOK'
  BY <1>0, <1>a, <1>1 DEF TypeOK
<1>3. StepInv'
  <2> SUFFICES ASSUME NEW q \in Runs
               PROVE  /\ \A i \in DOMAIN masks'[q] : masks'[q][i] # <<>>
                      /\ \A i \in DOMAIN todo'[q] : todo'[q][i] # <<>>
                      /\ pc'[q] \in {"create", "mark"} => todo'[q] # <<>> /\ step'[q] \in 1..Len(Head(todo'[q]))
    BY DEF StepInv
  <2>1. CASE q # r
    BY <1>0, <1>a, <1>1, <2>1 DEF StepInv
  <2>2. CASE q = r
    BY <1>0, <1>a, <1>1, <2>2 DEF StepInv
  <2> QED BY <2>1, <2>2
<1>4. AliveInv'
  BY <1>0, <1>a, <1>1 DEF AliveInv, alive
<1>5. HeldInv'
  BY <1>0, <1>a, <1>1 DEF HeldInv, Holding, needed
<1>6. OwnInv'
  <2>1. ASSUME NEW q \in Runs PROVE \A i \in DOMAIN todo'[q] : \E k \in DOMAIN todo[q] : todo'[q][i] = todo[q][k]
    <3>1. CASE q = r
      BY <1>1, <3>1
    <3>2. CASE q # r
      BY <1>1, <3>2
    <3> QED BY <3>1, <3>2
  <2> QED BY <1>0, <1>a, <2>1 DEF OwnInv
<1> QED BY <1>2, <1>3, <1>4, <1>5, <1>6 DEF MaskInv

LEMMA CreateKeeps ==
  ASSUME MaskInv, NEW r \in Runs, create(r) PROVE MaskInv'
<1>0. TypeOK /\ StepInv /\ AliveInv /\ HeldInv /\ OwnInv
  BY DEF MaskInv
<1>1. /\ pc[r] = "create" /\ todo[r] # <<>> /\ step[r] \in 1..Len(Head(todo[r]))
      /\ UNCHANGED <<policy, first, markers, masks, held, dead, since>>
  BY <1>0 DEF create, StepInv
<1>2. /\ Head(todo[r]) = todo[r][1] /\ 1 \in DOMAIN todo[r] /\ Head(todo[r]) \in Seq(Path)
      /\ needed(r) \in Seq(Path) /\ Len(needed(r)) = Len(Head(todo[r]))
      /\ needed(r)[step[r]] \in Path /\ Len(needed(r)) \in Nat
  <2>1. /\ Head(todo[r]) = todo[r][1] /\ 1 \in DOMAIN todo[r] /\ Head(todo[r]) \in Seq(Path)
        /\ needed(r) \in Seq(Path) /\ Len(needed(r)) = Len(Head(todo[r]))
    BY <1>0, <1>1, Needed
  <2> QED BY <1>1, <2>1
<1>3. CASE /\ dirs' = dirs \cup {needed(r)[step[r]]}
           /\ IF step[r] < Len(needed(r))
              THEN step' = [step EXCEPT ![r] = @ + 1] /\ UNCHANGED pc
              ELSE step' = [step EXCEPT ![r] = 1] /\ goto(r, "mark")
           /\ UNCHANGED <<todo, attempt, raced>>
  <2>1. /\ pc' \in [Runs -> {"off", "plan", "arguments", "create", "mark", "spawn", "run", "unmark", "rmdir", "over"}]
        /\ step' \in [Runs -> Nat]
        /\ \A q \in Runs \ {r} : pc'[q] = pc[q] /\ step'[q] = step[q]
        /\ step'[r] \in 1..Len(needed(r)) /\ pc'[r] \in {"create", "mark"} /\ (pc'[r] = "mark" => step'[r] = 1)
    <3>1. step[r] \in 1..Len(needed(r)) /\ step \in [Runs -> Nat]
      BY <1>0, <1>1, <1>2 DEF TypeOK
    <3> DEFINE n == Len(needed(r))
    <3>0. n \in Nat /\ pc \in [Runs -> {"off", "plan", "arguments", "create", "mark", "spawn", "run", "unmark", "rmdir", "over"}]
      BY <1>0, <1>2 DEF TypeOK
    <3>2. CASE step[r] < n
      <4>1. step' = [step EXCEPT ![r] = step[r] + 1] /\ pc' = pc
        BY <1>3, <3>2
      <4> HIDE DEF n
      <4>2. step' \in [Runs -> Nat] /\ step'[r] = step[r] + 1 /\ step'[r] \in 1..n
        BY <3>0, <3>1, <3>2, <4>1 DEF n
      <4> QED BY <1>1, <3>0, <3>1, <4>1, <4>2 DEF n
    <3>3. CASE ~(step[r] < n)
      <4>1. step' = [step EXCEPT ![r] = 1] /\ pc' = [pc EXCEPT ![r] = "mark"]
        BY <1>3, <3>3 DEF goto
      <4> HIDE DEF n
      <4>2. 1 \in 1..n
        BY <3>0, <3>1 DEF n
      <4> QED BY <3>0, <3>1, <4>1, <4>2 DEF n
    <3> QED BY <3>2, <3>3
  <2>2. TypeOK'
    BY <1>0, <1>1, <1>2, <1>3, <2>1 DEF TypeOK
  <2>3. StepInv'
    BY <1>0, <1>1, <1>2, <1>3, <2>1 DEF StepInv
  <2>4. AliveInv'
    BY <1>0, <1>1, <2>1 DEF AliveInv, alive
  <2>5. HeldInv'
    <3>1. \A m \in markers' : m[1] \in dirs'
      BY <1>0, <1>1, <1>3 DEF HeldInv
    <3>2. \A q \in Runs : pc'[q] \in Holding =>
            \A i \in DOMAIN held'[q].directories : <<held'[q].directories[i], q>> \in markers'
      BY <1>0, <1>1, <2>1 DEF HeldInv, Holding
    <3>3. \A q \in Runs : pc'[q] = "mark" => \A i \in 1..(step'[q] - 1) : <<needed(q)'[i], q>> \in markers'
      <4> SUFFICES ASSUME NEW q \in Runs, pc'[q] = "mark", NEW i \in 1..(step'[q] - 1)
                   PROVE  <<needed(q)'[i], q>> \in markers'
        OBVIOUS
      <4>1. q # r
        BY <2>1
      <4>2. needed(q)' = needed(q)
        BY <1>3 DEF needed
      <4> QED BY <1>0, <1>1, <2>1, <4>1, <4>2 DEF HeldInv
    <3> QED BY <3>1, <3>2, <3>3 DEF HeldInv
  <2>6. OwnInv'
    BY <1>0, <1>1, <1>3 DEF OwnInv
  <2> QED BY <2>2, <2>3, <2>4, <2>5, <2>6 DEF MaskInv
<1>4. CASE next_mask(r) /\ raced' = raced \cup {r} /\ UNCHANGED dirs
  BY <1>1, <1>4, SkipKeeps
<1> QED BY <1>3, <1>4 DEF create

LEMMA MarkKeeps ==
  ASSUME MaskInv, NEW r \in Runs, mark(r) PROVE MaskInv'
<1>0. TypeOK /\ StepInv /\ AliveInv /\ HeldInv /\ OwnInv
  BY DEF MaskInv
<1> DEFINE path == needed(r)[step[r]]
<1>1. /\ pc[r] = "mark" /\ todo[r] # <<>> /\ step[r] \in 1..Len(Head(todo[r])) /\ alive(r)
      /\ UNCHANGED <<policy, first, dirs, masks, dead, since>>
  BY <1>0 DEF mark, StepInv, AliveInv
<1>2. /\ Head(todo[r]) = todo[r][1] /\ 1 \in DOMAIN todo[r] /\ Head(todo[r]) \in Seq(Path)
      /\ needed(r) \in Seq(Path) /\ Len(needed(r)) = Len(Head(todo[r]))
      /\ \A i \in 1..Len(needed(r)) : \E k \in DOMAIN todo[r][1] : needed(r)[i] = todo[r][1][k]
      /\ \A k \in DOMAIN todo[r][1] : \E i \in 1..Len(needed(r)) : todo[r][1][k] = needed(r)[i]
  BY <1>0, <1>1, Needed
<1>3. path \in Path /\ path \notin first /\ Len(needed(r)) \in Nat /\ step[r] \in 1..Len(needed(r)) /\ step[r] \in Nat
  <2>1. step[r] \in 1..Len(needed(r)) /\ Len(needed(r)) \in Nat /\ path \in Path
    BY <1>1, <1>2
  <2>2. path \notin first
    BY <1>0, <1>2, <2>1 DEF OwnInv
  <2> QED BY <2>1, <2>2
<1>4. /\ masks \in [Runs -> Seq(Seq(Path))] /\ todo \in [Runs -> Seq(Seq(Path))] /\ step \in [Runs -> Nat]
      /\ attempt \in [Runs -> Nat] /\ held \in [Runs -> [markers : Seq(Path), directories : Seq(Path)]]
      /\ pc \in [Runs -> {"off", "plan", "arguments", "create", "mark", "spawn", "run", "unmark", "rmdir", "over"}]
  BY <1>0 DEF TypeOK
<1> HIDE DEF path
<1>5. CASE /\ path \in dirs /\ step[r] < Len(needed(r))
           /\ markers' = markers \cup {<<path, r>>}
           /\ step' = [step EXCEPT ![r] = @ + 1]
           /\ UNCHANGED <<pc, held, todo, attempt, raced>>
  <2>1. step' \in [Runs -> Nat] /\ step'[r] = step[r] + 1 /\ \A q \in Runs \ {r} : step'[q] = step[q]
    BY <1>3, <1>4, <1>5
  <2>2. step'[r] \in 1..Len(Head(todo[r]))
    BY <1>2, <1>3, <1>5, <2>1
  <2>2a. markers' \subseteq Path \X Runs
    BY <1>0, <1>3, <1>5 DEF TypeOK
  <2>3. TypeOK'
    BY <1>0, <1>1, <1>5, <2>1, <2>2a DEF TypeOK
  <2>4. StepInv'
    BY <1>0, <1>1, <1>5, <2>1, <2>2 DEF StepInv
  <2>5. AliveInv'
    BY <1>0, <1>1, <1>5 DEF AliveInv, alive
  <2>6. HeldInv'
    <3>1. \A m \in markers' : m[1] \in dirs'
      BY <1>0, <1>1, <1>5 DEF HeldInv
    <3>2. \A q \in Runs : pc'[q] \in Holding =>
            \A i \in DOMAIN held'[q].directories : <<held'[q].directories[i], q>> \in markers'
      BY <1>0, <1>5 DEF HeldInv
    <3>3. ASSUME NEW q \in Runs, pc'[q] = "mark", NEW i \in 1..(step'[q] - 1) PROVE <<needed(q)'[i], q>> \in markers'
      <4>0. needed(q)' = needed(q) /\ pc[q] = "mark" /\ markers \subseteq markers' /\ <<path, r>> \in markers'
        BY <1>5, <3>3 DEF needed
      <4>1. CASE i \in 1..(step[q] - 1)
        BY <1>0, <4>0, <4>1 DEF HeldInv
      <4>2. CASE i \notin 1..(step[q] - 1)
        <5>1. q = r
          BY <2>1, <3>3, <4>2
        <5>2. i = step[r]
          BY <1>3, <2>1, <3>3, <4>2, <5>1
        <5> QED BY <4>0, <5>1, <5>2 DEF path
      <4> QED BY <4>1, <4>2
    <3> QED BY <3>1, <3>2, <3>3 DEF HeldInv
  <2>7. OwnInv'
    BY <1>0, <1>1, <1>3, <1>5 DEF OwnInv
  <2> QED BY <2>3, <2>4, <2>5, <2>6, <2>7 DEF MaskInv
<1>6. CASE /\ path \in dirs /\ step[r] = Len(needed(r))
           /\ markers' = {m \in markers \cup {<<path, r>>} : m[1] \in ToSet(needed(r)) => alive(m[2])}
           /\ held' = [held EXCEPT ![r] = [markers |-> @.markers \o needed(r),
                                           directories |-> @.directories \o Head(todo[r])]]
           /\ next_mask(r) /\ UNCHANGED raced
  <2>1. /\ todo' \in [Runs -> Seq(Seq(Path))] /\ step' \in [Runs -> Nat] /\ attempt' \in [Runs -> Nat]
        /\ pc' = [pc EXCEPT ![r] = IF Len(todo[r]) = 1 THEN "spawn" ELSE "create"]
        /\ \A q \in Runs \ {r} : todo'[q] = todo[q] /\ step'[q] = step[q] /\ pc'[q] = pc[q]
        /\ pc'[r] \in {"spawn", "create"}
        /\ \A i \in DOMAIN todo'[r] : \E k \in DOMAIN todo[r] : todo'[r][i] = todo[r][k]
        /\ pc'[r] = "create" => todo'[r] # <<>> /\ step'[r] \in 1..Len(Head(todo'[r]))
    BY <1>0, <1>1, <1>6, NextMask
  <2> DEFINE old == held[r].directories
             new == old \o Head(todo[r])
             noted == held[r].markers \o needed(r)
  <2>2. old \in Seq(Path) /\ held[r].markers \in Seq(Path)
    BY <1>4
  <2>3. new \in Seq(Path) /\ noted \in Seq(Path)
    BY <1>2, <2>2
  <2>4. held' = [held EXCEPT ![r] = [markers |-> noted, directories |-> new]]
    BY <1>6
  <2>5. \A i \in DOMAIN new : (\E k \in DOMAIN old : new[i] = old[k]) \/ \E k \in DOMAIN todo[r][1] : new[i] = todo[r][1][k]
    <3> DEFINE t == Head(todo[r])
    <3>1. t \in Seq(Path) /\ todo[r][1] = t
      BY <1>2
    <3> HIDE DEF t, old
    <3>2. DOMAIN (old \o t) = 1..(Len(old) + Len(t)) /\ Len(old) \in Nat /\ Len(t) \in Nat
      BY <2>2, <3>1
    <3>3. ASSUME NEW i \in DOMAIN (old \o t)
          PROVE  (\E k \in DOMAIN old : (old \o t)[i] = old[k]) \/ \E k \in DOMAIN t : (old \o t)[i] = t[k]
      <4>1. CASE i <= Len(old)
        BY <2>2, <3>1, <3>2, <3>3, <4>1
      <4>2. CASE ~(i <= Len(old))
        <5>1. i - Len(old) \in DOMAIN t /\ (old \o t)[i] = t[i - Len(old)]
          BY <2>2, <3>1, <3>2, <3>3, <4>2
        <5> QED BY <5>1
      <4> QED BY <4>1, <4>2
    <3> QED BY <3>1, <3>3 DEF t
  <2> HIDE DEF new, noted, old
  <2>6. held'[r].directories = new /\ held' \in [Runs -> [markers : Seq(Path), directories : Seq(Path)]]
        /\ \A q \in Runs \ {r} : held'[q] = held[q]
    BY <1>4, <2>3, <2>4
  <2>7. \A m \in markers' : (m \in markers \/ m = <<path, r>>)
    BY <1>6
  <2>8. \A m \in markers : alive(m[2]) => m \in markers'
    BY <1>6
  <2>9. <<path, r>> \in markers'
    BY <1>1, <1>6
  <2>10. TypeOK'
    <3>1. markers' \subseteq Path \X Runs
      BY <1>0, <1>3, <2>7 DEF TypeOK
    <3>2. pc' \in [Runs -> {"off", "plan", "arguments", "create", "mark", "spawn", "run", "unmark", "rmdir", "over"}]
      BY <1>4, <2>1
    <3> QED BY <1>0, <1>1, <1>6, <2>1, <2>6, <3>1, <3>2 DEF TypeOK
  <2>11. StepInv'
    <3> SUFFICES ASSUME NEW q \in Runs
                 PROVE  /\ \A i \in DOMAIN masks'[q] : masks'[q][i] # <<>>
                        /\ \A i \in DOMAIN todo'[q] : todo'[q][i] # <<>>
                        /\ pc'[q] \in {"create", "mark"} => todo'[q] # <<>> /\ step'[q] \in 1..Len(Head(todo'[q]))
      BY DEF StepInv
    <3>1. CASE q # r
      BY <1>0, <1>1, <2>1, <3>1 DEF StepInv
    <3>2. CASE q = r
      BY <1>0, <1>1, <2>1, <3>2 DEF StepInv
    <3> QED BY <3>1, <3>2
  <2>12. AliveInv'
    BY <1>0, <1>1, <2>1 DEF AliveInv, alive
  <2>13. HeldInv'
    <3>1. \A m \in markers' : m[1] \in dirs'
      BY <1>0, <1>1, <1>6, <2>7 DEF HeldInv
    <3>2. ASSUME NEW q \in Runs, pc'[q] \in Holding, NEW i \in DOMAIN held'[q].directories
          PROVE  <<held'[q].directories[i], q>> \in markers'
      <4>1. CASE q # r
        <5>1. pc[q] \in Holding /\ held'[q] = held[q] /\ alive(q)
          BY <1>0, <2>1, <2>6, <3>2, <4>1 DEF AliveInv, Holding
        <5>2. <<held[q].directories[i], q>> \in markers
          BY <1>0, <3>2, <5>1 DEF HeldInv
        <5> QED BY <2>8, <5>1, <5>2
      <4>2. CASE q = r
        <5>1. pc[r] \in Holding /\ i \in DOMAIN new
          BY <1>1, <2>6, <3>2, <4>2 DEF Holding
        <5>2. CASE \E k \in DOMAIN old : new[i] = old[k]
          <6>1. <<new[i], r>> \in markers
            BY <1>0, <5>1, <5>2 DEF HeldInv, old
          <6> QED BY <1>1, <2>6, <2>8, <4>2, <6>1
        <5>3. CASE \E k \in DOMAIN todo[r][1] : new[i] = todo[r][1][k]
          <6>1. PICK j \in 1..Len(needed(r)) : new[i] = needed(r)[j]
            BY <1>2, <5>3
          <6>2. CASE j = step[r]
            BY <2>6, <2>9, <4>2, <6>1, <6>2 DEF path
          <6>3. CASE j # step[r]
            <7>1. j \in 1..(step[r] - 1)
              BY <1>3, <1>6, <6>1, <6>3
            <7>2. <<new[i], r>> \in markers
              BY <1>0, <1>1, <6>1, <7>1 DEF HeldInv
            <7> QED BY <1>1, <2>6, <2>8, <4>2, <7>2
          <6> QED BY <6>2, <6>3
        <5> QED BY <2>5, <5>1, <5>2, <5>3
      <4> QED BY <4>1, <4>2
    <3>3. ASSUME NEW q \in Runs, pc'[q] = "mark", NEW i \in 1..(step'[q] - 1) PROVE <<needed(q)'[i], q>> \in markers'
      <4>1. q # r /\ pc[q] = "mark" /\ step'[q] = step[q] /\ alive(q)
        BY <1>0, <2>1, <3>3 DEF AliveInv
      <4>2. needed(q)' = needed(q)
        BY <2>1, <4>1 DEF needed
      <4>3. <<needed(q)[i], q>> \in markers
        BY <1>0, <3>3, <4>1 DEF HeldInv
      <4> QED BY <2>8, <4>1, <4>2, <4>3
    <3> QED BY <3>1, <3>2, <3>3 DEF HeldInv
  <2>14. OwnInv'
    <3>1. \A m \in markers' : m[1] \notin first
      BY <1>0, <1>3, <2>7 DEF OwnInv
    <3>2. ASSUME NEW q \in Runs
          PROVE  /\ \A i \in DOMAIN todo'[q] : \A k \in DOMAIN todo'[q][i] : todo'[q][i][k] \notin first
                 /\ \A i \in DOMAIN held'[q].directories : held'[q].directories[i] \notin first
      <4>1. CASE q # r
        BY <1>0, <2>1, <2>6, <4>1 DEF OwnInv
      <4>2. CASE q = r
        <5>1. \A i \in DOMAIN todo[r] : \A k \in DOMAIN todo[r][i] : todo[r][i][k] \notin first
          BY <1>0 DEF OwnInv
        <5>2. \A i \in DOMAIN todo'[r] : \A k \in DOMAIN todo'[r][i] : todo'[r][i][k] \notin first
          BY <2>1, <5>1
        <5>3. \A k \in DOMAIN old : old[k] \notin first
          BY <1>0 DEF OwnInv, old
        <5>4. \A i \in DOMAIN new : new[i] \notin first
          BY <1>2, <2>5, <5>1, <5>3
        <5> QED BY <2>6, <4>2, <5>2, <5>4
      <4> QED BY <4>1, <4>2
    <3> QED BY <1>0, <1>1, <3>1, <3>2 DEF OwnInv
  <2> QED BY <2>10, <2>11, <2>12, <2>13, <2>14 DEF MaskInv
<1>7. CASE /\ attempt' = [attempt EXCEPT ![r] = @ + 1] /\ step' = [step EXCEPT ![r] = 1]
           /\ goto(r, "create") /\ UNCHANGED <<markers, held, todo, raced>>
  <2>1. pc' = [pc EXCEPT ![r] = "create"]
    BY <1>7 DEF goto
  <2>2. /\ attempt' \in [Runs -> Nat] /\ step' \in [Runs -> Nat]
        /\ pc' \in [Runs -> {"off", "plan", "arguments", "create", "mark", "spawn", "run", "unmark", "rmdir", "over"}]
        /\ pc'[r] = "create" /\ step'[r] = 1 /\ \A q \in Runs \ {r} : step'[q] = step[q] /\ pc'[q] = pc[q]
    BY <1>4, <1>7, <2>1
  <2>3. TypeOK'
    BY <1>0, <1>1, <1>7, <2>2 DEF TypeOK
  <2>4. StepInv'
    <3>1. 1 \in 1..Len(Head(todo[r]))
      BY <1>2, <1>3
    <3> QED BY <1>0, <1>1, <1>7, <2>2, <3>1 DEF StepInv
  <2>5. AliveInv'
    BY <1>0, <1>1, <2>2 DEF AliveInv, alive
  <2>6. HeldInv'
    BY <1>0, <1>1, <1>7, <2>2 DEF HeldInv, Holding, needed
  <2>7. OwnInv'
    BY <1>0, <1>1, <1>7 DEF OwnInv
  <2> QED BY <2>3, <2>4, <2>5, <2>6, <2>7 DEF MaskInv
<1>8. CASE next_mask(r) /\ raced' = raced \cup {r} /\ UNCHANGED <<markers, held>>
  BY <1>1, <1>8, SkipKeeps
<1> QED BY <1>5, <1>6, <1>7, <1>8 DEF mark, path

LEMMA SpawnKeeps ==
  ASSUME MaskInv, NEW r \in Runs, spawn(r) PROVE MaskInv'
<1>0. TypeOK /\ StepInv /\ AliveInv /\ HeldInv /\ OwnInv
  BY DEF MaskInv
<1>1. /\ pc[r] = "spawn" /\ UNCHANGED <<policy, first, markers, masks, todo, step, attempt, held, dead, raced, since>>
      /\ (pc' = [pc EXCEPT ![r] = "run"] \/ pc' = [pc EXCEPT ![r] = "unmark"])
  BY DEF spawn, goto, run_vars
<1>2. planned(r) \subseteq Path
  <2> SUFFICES ASSUME NEW m \in ToSet(masks[r]) PROVE Head(m) \in Path
    BY Zenon DEF planned
  <2>0. PICK i \in DOMAIN masks[r] : m = masks[r][i]
    BY DEF ToSet
  <2>1. masks[r] \in Seq(Seq(Path))
    BY <1>0 DEF TypeOK
  <2>2. masks[r][i] \in Seq(Path) /\ masks[r][i] # <<>>
    BY <1>0, <2>1 DEF StepInv
  <2> QED BY <2>0, <2>2
<1>3. UNION {ancestors(p) : p \in planned(r)} \subseteq Path
  <2>1. ASSUME NEW p \in planned(r) PROVE ancestors(p) \subseteq Path
    <3>1. p \in Path /\ Len(p) \in Nat
      BY <1>2, <2>1 DEF Path
    <3>2. \A n \in 0..(Len(p) - 1) : SubSeq(p, 1, n) \in Path
      BY <3>1, PartIsPath
    <3> QED BY <3>2, Zenon DEF ancestors
  <2> QED BY <2>1, Zenon
<1>4. dirs \subseteq dirs' /\ dirs' \subseteq Path
  <2>1. dirs' = dirs \/ dirs' = dirs \cup planned(r) \cup UNION {ancestors(p) : p \in planned(r)}
    BY Zenon DEF spawn
  <2> DEFINE above == UNION {ancestors(p) : p \in planned(r)}
  <2>2. dirs' = dirs \/ dirs' = dirs \cup planned(r) \cup above
    BY <2>1
  <2>3. above \subseteq Path
    BY <1>3
  <2> HIDE DEF above
  <2> QED BY <1>0, <1>2, <2>2, <2>3 DEF TypeOK
<1>5. /\ pc' \in [Runs -> {"off", "plan", "arguments", "create", "mark", "spawn", "run", "unmark", "rmdir", "over"}]
      /\ pc'[r] \in {"run", "unmark"} /\ \A q \in Runs \ {r} : pc'[q] = pc[q]
  BY <1>0, <1>1 DEF TypeOK
<1>6. TypeOK'
  BY <1>0, <1>1, <1>4, <1>5 DEF TypeOK
<1>7. StepInv'
  BY <1>0, <1>1, <1>5 DEF StepInv
<1>8. AliveInv'
  BY <1>0, <1>1, <1>5 DEF AliveInv, alive
<1>9. HeldInv'
  BY <1>0, <1>1, <1>4, <1>5 DEF HeldInv, Holding, needed
<1>10. OwnInv'
  BY <1>0, <1>1, <1>4 DEF OwnInv
<1> QED BY <1>6, <1>7, <1>8, <1>9, <1>10 DEF MaskInv

LEMMA EndKeeps ==
  ASSUME MaskInv, NEW r \in Runs, end(r) PROVE MaskInv'
<1>0. TypeOK /\ StepInv /\ AliveInv /\ HeldInv /\ OwnInv
  BY DEF MaskInv
<1>1. /\ pc[r] = "run" /\ pc' = [pc EXCEPT ![r] = "unmark"]
      /\ UNCHANGED <<policy, first, dirs, markers, masks, todo, step, attempt, held, dead, raced, since>>
  BY DEF end, goto, run_vars
<1>2. TypeOK'
  BY <1>0, <1>1 DEF TypeOK
<1>3. pc'[r] = "unmark" /\ \A q \in Runs \ {r} : pc'[q] = pc[q]
  BY <1>0, <1>1 DEF TypeOK
<1>4. StepInv'
  BY <1>0, <1>1, <1>3 DEF StepInv
<1>5. AliveInv'
  BY <1>0, <1>1, <1>3 DEF AliveInv, alive
<1>6. HeldInv'
  BY <1>0, <1>1, <1>3 DEF HeldInv, Holding, needed
<1>7. OwnInv'
  BY <1>0, <1>1 DEF OwnInv
<1> QED BY <1>2, <1>4, <1>5, <1>6, <1>7 DEF MaskInv

LEMMA UnmarkKeeps ==
  ASSUME MaskInv, NEW r \in Runs, unmark(r) PROVE MaskInv'
<1>0. TypeOK /\ StepInv /\ AliveInv /\ HeldInv /\ OwnInv
  BY DEF MaskInv
<1>1. pc[r] = "unmark" /\ UNCHANGED <<policy, first, dirs, masks, todo, step, attempt, dead, raced, since>>
  BY DEF unmark
<1>2. /\ held \in [Runs -> [markers : Seq(Path), directories : Seq(Path)]] /\ markers \subseteq Path \X Runs
      /\ pc \in [Runs -> {"off", "plan", "arguments", "create", "mark", "spawn", "run", "unmark", "rmdir", "over"}]
  BY <1>0 DEF TypeOK
<1>3. /\ held' \in [Runs -> [markers : Seq(Path), directories : Seq(Path)]]
      /\ \A q \in Runs : held'[q].directories = held[q].directories
      /\ pc' \in [Runs -> {"off", "plan", "arguments", "create", "mark", "spawn", "run", "unmark", "rmdir", "over"}]
      /\ pc'[r] \in {"unmark", "rmdir"} /\ \A q \in Runs \ {r} : pc'[q] = pc[q]
      /\ markers' \subseteq markers /\ \A m \in markers : m[2] # r => m \in markers'
  <2>1. CASE /\ held[r].markers # <<>>
             /\ markers' = markers \ {<<Head(held[r].markers), r>>}
             /\ held' = [held EXCEPT ![r].markers = Tail(@)] /\ UNCHANGED pc
    <3>1. held[r].markers \in Seq(Path) /\ held[r] \in [markers : Seq(Path), directories : Seq(Path)]
      BY <1>2
    <3>2. Tail(held[r].markers) \in Seq(Path)
      BY <2>1, <3>1
    <3> DEFINE rest == Tail(held[r].markers)
    <3>3. held' = [held EXCEPT ![r].markers = rest]
      BY <2>1
    <3> HIDE DEF rest
    <3>4. /\ held' \in [Runs -> [markers : Seq(Path), directories : Seq(Path)]]
          /\ \A q \in Runs : held'[q].directories = held[q].directories
      BY <1>2, <3>2, <3>3 DEF rest
    <3> QED BY <1>1, <1>2, <2>1, <3>4
  <2>2. CASE goto(r, "rmdir") /\ UNCHANGED <<markers, held>>
    BY <1>2, <2>2 DEF goto
  <2> QED BY <2>1, <2>2 DEF unmark
<1>4. TypeOK'
  BY <1>0, <1>1, <1>3 DEF TypeOK
<1>5. StepInv'
  BY <1>0, <1>1, <1>3 DEF StepInv
<1>6. AliveInv'
  BY <1>0, <1>1, <1>3 DEF AliveInv, alive
<1>7. HeldInv'
  <2>1. \A m \in markers' : m[1] \in dirs'
    BY <1>0, <1>1, <1>3 DEF HeldInv
  <2>2. ASSUME NEW q \in Runs, pc'[q] \in Holding, NEW i \in DOMAIN held'[q].directories
        PROVE  <<held'[q].directories[i], q>> \in markers'
    <3>1. q # r /\ pc[q] \in Holding
      BY <1>3, <2>2 DEF Holding
    <3>2. <<held[q].directories[i], q>> \in markers
      BY <1>0, <1>3, <2>2, <3>1 DEF HeldInv
    <3> QED BY <1>3, <3>1, <3>2
  <2>3. ASSUME NEW q \in Runs, pc'[q] = "mark", NEW i \in 1..(step'[q] - 1) PROVE <<needed(q)'[i], q>> \in markers'
    <3>1. q # r /\ pc[q] = "mark" /\ needed(q)' = needed(q)
      BY <1>1, <1>3, <2>3 DEF needed
    <3>2. <<needed(q)[i], q>> \in markers
      BY <1>0, <1>1, <2>3, <3>1 DEF HeldInv
    <3> QED BY <1>3, <3>1, <3>2
  <2> QED BY <2>1, <2>2, <2>3 DEF HeldInv
<1>8. OwnInv'
  BY <1>0, <1>1, <1>3 DEF OwnInv
<1> QED BY <1>4, <1>5, <1>6, <1>7, <1>8 DEF MaskInv

LEMMA RmdirKeeps ==
  ASSUME MaskInv, NEW r \in Runs, rmdir(r) PROVE MaskInv'
<1>0. TypeOK /\ StepInv /\ AliveInv /\ HeldInv /\ OwnInv
  BY DEF MaskInv
<1>1. pc[r] = "rmdir" /\ UNCHANGED <<policy, first, markers, todo, step, attempt, dead, raced, since>>
  BY DEF rmdir
<1>2. /\ held \in [Runs -> [markers : Seq(Path), directories : Seq(Path)]] /\ masks \in [Runs -> Seq(Seq(Path))]
      /\ pc \in [Runs -> {"off", "plan", "arguments", "create", "mark", "spawn", "run", "unmark", "rmdir", "over"}]
      /\ dirs \subseteq Path
  BY <1>0 DEF TypeOK
<1>3. /\ held' \in [Runs -> [markers : Seq(Path), directories : Seq(Path)]] /\ masks' \in [Runs -> Seq(Seq(Path))]
      /\ \A q \in Runs \ {r} : held'[q] = held[q] /\ pc'[q] = pc[q]
      /\ \A i \in DOMAIN held'[r].directories : \E k \in DOMAIN held[r].directories :
           held'[r].directories[i] = held[r].directories[k]
      /\ \A q \in Runs : masks'[q] = masks[q] \/ masks'[q] = <<>>
      /\ pc' \in [Runs -> {"off", "plan", "arguments", "create", "mark", "spawn", "run", "unmark", "rmdir", "over"}]
      /\ pc'[r] \in {"rmdir", "over"}
      /\ dirs' \subseteq dirs /\ \A p \in dirs : p \in first \/ is_marked(p) => p \in dirs'
  <2>1. CASE /\ held[r].directories # <<>>
             /\ dirs' = IF empty(Head(held[r].directories)) THEN dirs \ {Head(held[r].directories)} ELSE dirs
             /\ held' = [held EXCEPT ![r].directories = Tail(@)] /\ UNCHANGED pc
             /\ UNCHANGED <<resolved, masks, mounts>>
    <3> DEFINE s == held[r].directories
    <3>1. s \in Seq(Path) /\ held[r] \in [markers : Seq(Path), directories : Seq(Path)] /\ s # <<>>
      BY <1>2, <2>1
    <3> DEFINE rest == Tail(s)
               top == Head(s)
    <3>2. held' = [held EXCEPT ![r].directories = rest]
      BY <2>1
    <3>3. dirs' = IF empty(top) THEN dirs \ {top} ELSE dirs
      BY <2>1
    <3>4. \A k \in DOMAIN s : s[k] \notin first
      BY <1>0 DEF OwnInv
    <3> HIDE DEF s
    <3>5. rest \in Seq(Path) /\ top = s[1] /\ 1 \in DOMAIN s
      BY <3>1
    <3>6. \A i \in DOMAIN rest : i + 1 \in DOMAIN s /\ rest[i] = s[i + 1]
      BY <3>1
    <3> HIDE DEF rest, top
    <3>7. /\ held' \in [Runs -> [markers : Seq(Path), directories : Seq(Path)]] /\ held'[r].directories = rest
          /\ \A q \in Runs \ {r} : held'[q] = held[q]
      BY <1>2, <3>2, <3>5
    <3>8. dirs' \subseteq dirs /\ \A p \in dirs : p \in first \/ is_marked(p) => p \in dirs'
      BY <3>3, <3>4, <3>5 DEF empty
    <3>9. \A i \in DOMAIN rest : \E k \in DOMAIN s : rest[i] = s[k]
      BY <3>6
    <3> QED BY <1>1, <1>2, <2>1, <3>7, <3>8, <3>9 DEF s
  <2>2. CASE /\ held[r].directories = <<>> /\ goto(r, "over") /\ UNCHANGED <<dirs, held>>
             /\ masks' = [masks EXCEPT ![r] = <<>>]
    <3>1. masks' \in [Runs -> Seq(Seq(Path))] /\ \A q \in Runs : masks'[q] = masks[q] \/ masks'[q] = <<>>
      BY <1>2, <2>2
    <3>2. /\ pc' \in [Runs -> {"off", "plan", "arguments", "create", "mark", "spawn", "run", "unmark", "rmdir", "over"}]
          /\ pc'[r] \in {"rmdir", "over"} /\ \A q \in Runs \ {r} : pc'[q] = pc[q]
      BY <1>2, <2>2 DEF goto
    <3>3. held' = held /\ dirs' = dirs
      BY <2>2
    <3> QED BY <1>2, <3>1, <3>2, <3>3
  <2>3. \/ /\ held[r].directories # <<>>
           /\ dirs' = IF empty(Head(held[r].directories)) THEN dirs \ {Head(held[r].directories)} ELSE dirs
           /\ held' = [held EXCEPT ![r].directories = Tail(@)] /\ UNCHANGED pc
           /\ UNCHANGED <<resolved, masks, mounts>>
        \/ /\ held[r].directories = <<>> /\ goto(r, "over") /\ UNCHANGED <<dirs, held>>
           /\ masks' = [masks EXCEPT ![r] = <<>>]
    BY DEF rmdir
  <2> QED BY <2>1, <2>2, <2>3
<1>4. TypeOK'
  BY <1>0, <1>1, <1>2, <1>3 DEF TypeOK
<1>5. StepInv'
  <2> SUFFICES ASSUME NEW q \in Runs
               PROVE  /\ \A i \in DOMAIN masks'[q] : masks'[q][i] # <<>>
                      /\ \A i \in DOMAIN todo'[q] : todo'[q][i] # <<>>
                      /\ pc'[q] \in {"create", "mark"} => todo'[q] # <<>> /\ step'[q] \in 1..Len(Head(todo'[q]))
    BY DEF StepInv
  <2>1. \A i \in DOMAIN masks'[q] : masks'[q][i] # <<>>
    <3>1. CASE masks'[q] = masks[q]
      BY <1>0, <3>1 DEF StepInv
    <3>2. CASE masks'[q] = <<>>
      BY <3>2
    <3> QED BY <1>3, <3>1, <3>2
  <2>2. pc'[q] \in {"create", "mark"} => pc[q] \in {"create", "mark"}
    BY <1>3
  <2> QED BY <1>0, <1>1, <2>1, <2>2 DEF StepInv
<1>6. AliveInv'
  BY <1>0, <1>1, <1>3 DEF AliveInv, alive
<1>7. HeldInv'
  <2>1. \A m \in markers' : m[1] \in dirs'
    <3> SUFFICES ASSUME NEW m \in markers PROVE m[1] \in dirs'
      BY <1>1
    <3>1. m[1] \in dirs /\ is_marked(m[1])
      BY <1>0 DEF HeldInv, is_marked
    <3> QED BY <1>3, <3>1
  <2>2. \A q \in Runs : pc'[q] \in Holding => q # r /\ pc[q] \in Holding /\ held'[q] = held[q]
    BY <1>3 DEF Holding
  <2>3. \A q \in Runs : pc'[q] = "mark" => pc[q] = "mark"
    BY <1>3
  <2>4. \A q \in Runs : needed(q)' = needed(q)
    BY <1>1 DEF needed
  <2> QED BY <1>0, <1>1, <2>1, <2>2, <2>3, <2>4 DEF HeldInv
<1>8. OwnInv'
  <2>1. first \subseteq dirs'
    BY <1>0, <1>3 DEF OwnInv
  <2>2. ASSUME NEW q \in Runs
        PROVE  /\ \A i \in DOMAIN masks'[q] : \A k \in DOMAIN masks'[q][i] : masks'[q][i][k] \notin first
               /\ \A i \in DOMAIN held'[q].directories : held'[q].directories[i] \notin first
    <3>1. \A i \in DOMAIN masks'[q] : \A k \in DOMAIN masks'[q][i] : masks'[q][i][k] \notin first
      <4>1. CASE masks'[q] = masks[q]
        BY <1>0, <4>1 DEF OwnInv
      <4>2. CASE masks'[q] = <<>>
        BY <4>2
      <4> QED BY <1>3, <4>1, <4>2
    <3>2. \A i \in DOMAIN held[q].directories : held[q].directories[i] \notin first
      BY <1>0 DEF OwnInv
    <3>3. CASE q = r
      BY <1>3, <3>1, <3>2, <3>3
    <3>4. CASE q # r
      BY <1>3, <3>1, <3>2, <3>4
    <3> QED BY <3>3, <3>4
  <2> QED BY <1>0, <1>1, <2>1, <2>2 DEF OwnInv
<1> QED BY <1>4, <1>5, <1>6, <1>7, <1>8 DEF MaskInv

LEMMA KillKeeps ==
  ASSUME MaskInv, NEW r \in Runs, kill(Pid[r]) PROVE MaskInv'
<1>0. TypeOK /\ StepInv /\ AliveInv /\ HeldInv /\ OwnInv
  BY DEF MaskInv
<1>1. /\ dead' = dead \cup {Pid[r]} /\ since' = {} /\ pc' = [q \in Runs |-> IF Pid[q] = Pid[r] THEN "over" ELSE pc[q]]
      /\ UNCHANGED <<policy, first, dirs, markers, masks, todo, step, attempt, held, raced>>
  BY DEF kill, run_vars
<1>2. TypeOK'
  BY <1>0, <1>1 DEF TypeOK
<1>3. \A q \in Runs : pc'[q] = pc[q] \/ pc'[q] = "over"
  BY <1>1
<1>4. StepInv'
  BY <1>0, <1>1, <1>3 DEF StepInv
<1>5. AliveInv'
  BY <1>0, <1>1 DEF AliveInv, alive
<1>6. HeldInv'
  BY <1>0, <1>1, <1>3 DEF HeldInv, Holding, needed
<1>7. OwnInv'
  BY <1>0, <1>1 DEF OwnInv
<1> QED BY <1>2, <1>4, <1>5, <1>6, <1>7 DEF MaskInv

\* Only a run that begins comes to the point where it plans.
LEMMA OnlyPrepared ==
  ASSUME TypeOK, PlanInv, [Next]_vars, ~ \E r \in Runs : prepare(r)
  PROVE  /\ UNCHANGED <<policy, first>> /\ DOMAIN resolved' = Runs
         /\ \A q \in Runs : pc'[q] = "plan" => pc[q] = "plan" /\ resolved'[q] = resolved[q]
<1>1. CASE UNCHANGED vars
  BY <1>1 DEF vars, run_vars, PlanInv
<1>2. ASSUME NEW r \in Runs, \/ plan_masks(r) \/ arguments(r) \/ create(r) \/ mark(r) \/ spawn(r)
                              \/ end(r) \/ unmark(r) \/ rmdir(r)
      PROVE  /\ UNCHANGED <<policy, first>> /\ DOMAIN resolved' = Runs
             /\ \A q \in Runs : pc'[q] = "plan" => pc[q] = "plan" /\ resolved'[q] = resolved[q]
  <2>1. UNCHANGED <<policy, first>>
    BY <1>2 DEF plan_masks, arguments, create, mark, spawn, end, unmark, rmdir
  <2>2. DOMAIN resolved' = Runs /\ \A q \in Runs \ {r} : resolved'[q] = resolved[q]
    <3>1. UNCHANGED resolved \/ resolved' = [resolved EXCEPT ![r] = Unresolved]
      <4>1. CASE plan_masks(r)
        BY Zenon, <4>1 DEF plan_masks
      <4>2. CASE arguments(r) \/ create(r) \/ mark(r) \/ spawn(r) \/ end(r) \/ unmark(r) \/ rmdir(r)
        BY <4>2 DEF arguments, create, mark, spawn, end, unmark, rmdir, run_vars
      <4> QED BY <1>2, <4>1, <4>2
    <3> QED BY <3>1 DEF PlanInv
  <2>3. pc'[r] # "plan" /\ \A q \in Runs \ {r} : pc'[q] = pc[q]
    <3>1. CASE plan_masks(r)
      <4>1. pc' = [pc EXCEPT ![r] = "arguments"] \/ pc' = [pc EXCEPT ![r] = "over"]
        BY Zenon, <3>1 DEF plan_masks, goto
      <4> QED BY <4>1 DEF TypeOK
    <3>2. CASE arguments(r) \/ create(r) \/ mark(r) \/ spawn(r) \/ end(r) \/ unmark(r) \/ rmdir(r)
      BY <3>2 DEF arguments, create, mark, spawn, end, unmark, rmdir, goto, next_mask, TypeOK
    <3> QED BY <1>2, <3>1, <3>2
  <2> QED BY <2>1, <2>2, <2>3
<1>3. CASE \E r \in Runs : kill(Pid[r])
  BY <1>3 DEF kill, run_vars, PlanInv
<1>4. CASE Over
  BY <1>1, <1>4 DEF Over
<1> QED BY <1>1, <1>2, <1>3, <1>4 DEF Next

LEMMA NextPlans == TypeOK /\ PlanInv /\ [Next]_vars => PlanInv'
<1> SUFFICES ASSUME TypeOK, PlanInv, [Next]_vars PROVE PlanInv'
  OBVIOUS
<1>1. CASE ~ \E r \in Runs : prepare(r)
  BY <1>1, OnlyPrepared DEF PlanInv
<1>2. CASE \E r \in Runs : prepare(r)
  <2>1. PICK r \in Runs : prepare(r)
    BY <1>2
  <2>2. CASE UNCHANGED resolved /\ goto(r, "over")
    BY <2>2 DEF goto, PlanInv, TypeOK
  <2>3. ASSUME NEW program, resolved' = [resolved EXCEPT ![r] = resolve(dirs, program)], goto(r, "plan") PROVE PlanInv'
    <3> DEFINE sandbox == resolve(dirs, program)
    <3>1. sandbox.write_deny \subseteq Path /\ IsFiniteSet(sandbox.write_deny)
      BY DeniedArePaths DEF TypeOK
    <3> HIDE DEF sandbox
    <3>2. /\ DOMAIN resolved' = Runs /\ resolved'[r] = sandbox
          /\ \A q \in Runs \ {r} : resolved'[q] = resolved[q] /\ pc'[q] = pc[q]
      <4>1. resolved' = [resolved EXCEPT ![r] = sandbox]
        BY <2>3 DEF sandbox
      <4> QED BY <2>3, <4>1 DEF goto, PlanInv, TypeOK
    <3> QED BY <3>1, <3>2 DEF PlanInv
  <2> QED BY Zenon, <2>1, <2>2, <2>3 DEF prepare
<1> QED BY <1>1, <1>2

LEMMA NextMasks == MaskInv /\ PlanInv /\ [Next]_vars => MaskInv'
<1> SUFFICES ASSUME MaskInv, PlanInv, [Next]_vars PROVE MaskInv'
  OBVIOUS
<1>1. CASE UNCHANGED vars
  BY <1>1 DEF vars, run_vars, MaskInv, TypeOK, StepInv, AliveInv, alive, HeldInv, needed, OwnInv
<1>2. CASE \E r \in Runs : \/ prepare(r) \/ plan_masks(r) \/ arguments(r) \/ create(r) \/ mark(r) \/ spawn(r)
                           \/ end(r) \/ unmark(r) \/ rmdir(r)
  BY <1>2, PrepareKeeps, PlanKeeps, ArgumentsKeeps, CreateKeeps, MarkKeeps, SpawnKeeps, EndKeeps, UnmarkKeeps, RmdirKeeps
<1>3. CASE \E r \in Runs : kill(Pid[r])
  BY <1>3, KillKeeps
<1>4. CASE Over
  BY <1>1, <1>4 DEF Over
<1> QED BY <1>1, <1>2, <1>3, <1>4 DEF Next

-----------------------------------------------------------------------------
\* The theorems.

\* Every variable of the sandboxes keeps its type, and so do the directories
\* that runs plan, mark and hold (MaskPlan, HeldMasks).
THEOREM MasksCorrect == Spec => [](MaskInv /\ PlanInv)
<1>1. Init => PlanInv
  BY DEF Init, PlanInv
<1>2. MaskInv => TypeOK
  BY DEF MaskInv
<1> QED BY <1>1, <1>2, InitMasks, NextMasks, NextPlans, PTL DEF Spec

\* A run that holds its masks has every directory of them until it ends,
\* however many runs build, share, give up and remove the same ones, and
\* whichever of them are killed (mark_in_use, Drop for HeldMasks): the marker
\* of the run is in each, no other run takes it, and a marked directory is not
\* empty.
THEOREM HeldMasksStayHolds == Spec => []HeldMasksStay
<1>1. MaskInv => HeldMasksStay
  BY DEF MaskInv, HeldInv, Holding, HeldMasksStay, ToSet
<1> QED BY <1>1, MasksCorrect, PTL

\* No run removes a directory that was there before the first one began
\* (MaskPlan::of, Drop for HeldMasks): what a run holds was missing, or held by
\* a mask, when it made its plan.
THEOREM NothingTakenHolds == Spec => []NothingTaken
<1>1. MaskInv => NothingTaken
  BY DEF MaskInv, OwnInv, NothingTaken
<1> QED BY <1>1, MasksCorrect, PTL

-----------------------------------------------------------------------------
\* What is left when every run has ended. It takes paths whose links lead
\* somewhere, kills between the steps that build and remove, and, if there are
\* kills, denied paths without a missing directory in common.

Denies(p) == with_defaults(merge(p.workflow, p.task), Defaults["write_deny"], "write_deny")
Denied(p) == {follow(absolute(rule)) : rule \in Denies(p)}
\* The directories that are to be built for a path.
Chain(path, e) == {SubSeq(path, 1, n) : n \in 1..Len(path)} \ e

\* What is in a directory is there only if the directory is.
TreesClosed == \A e \in Existing : <<>> \in e /\ \A path \in e : path # <<>> => parent(path) \in e
\* No link is reached through another one, and those on the way to a denied path
\* do not dangle.
LinksApart == \A l, k \in DOMAIN Links : under(l, k) => l = k
LinksLead ==
  \A p \in Policies : \A rule \in Denies(p) : \A l \in DOMAIN Links :
    under(absolute(rule), l) => \A e \in Existing : Links[l] \in e
KillsSettled == CrashPoints \cap Unsettled = {}
MasksApart ==
  \A p \in Policies : \A e \in Existing : \A a, b \in Denied(p) : Chain(a, e) \cap Chain(b, e) # {} => a = b

-----------------------------------------------------------------------------
\* Paths and their parts.

LEMMA PartOfPath ==
  ASSUME NEW path \in Path, NEW n \in 0..Len(path)
  PROVE  /\ SubSeq(path, 1, n) \in Path /\ Len(SubSeq(path, 1, n)) = n
         /\ \A i \in 1..n : SubSeq(path, 1, n)[i] = path[i]
<1>1. Len(path) \in Nat /\ \A i \in 1..n : path[i] \in STRING \cup Runs
  BY DEF Path
<1> QED BY <1>1, SubSeqProperties DEF Path

LEMMA PartOfPart ==
  ASSUME NEW path \in Path, NEW n \in 0..Len(path), NEW m \in 0..n
  PROVE  SubSeq(SubSeq(path, 1, n), 1, m) = SubSeq(path, 1, m)
<1> DEFINE part == SubSeq(path, 1, n)
<1>1. Len(path) \in Nat /\ m \in 0..Len(path)
  BY DEF Path
<1>2. part \in Path /\ Len(part) = n /\ \A i \in 1..n : part[i] = path[i]
  BY PartOfPath
<1> HIDE DEF part
<1>3. /\ SubSeq(part, 1, m) \in Path /\ Len(SubSeq(part, 1, m)) = m
      /\ \A i \in 1..m : SubSeq(part, 1, m)[i] = part[i]
  BY <1>2, PartOfPath
<1>4. /\ SubSeq(path, 1, m) \in Path /\ Len(SubSeq(path, 1, m)) = m
      /\ \A i \in 1..m : SubSeq(path, 1, m)[i] = path[i]
  BY <1>1, PartOfPath
<1>5. \A i \in 1..m : SubSeq(part, 1, m)[i] = SubSeq(path, 1, m)[i]
  BY <1>1, <1>2, <1>3, <1>4
<1>6. SubSeq(part, 1, m) = SubSeq(path, 1, m)
  BY <1>3, <1>4, <1>5, SeqEqual DEF Path
<1> QED BY <1>6 DEF part

LEMMA ParentOfPart ==
  ASSUME NEW path \in Path, NEW n \in 1..Len(path)
  PROVE  parent(SubSeq(path, 1, n)) = SubSeq(path, 1, n - 1)
<1>1. Len(path) \in Nat /\ n \in 0..Len(path) /\ n - 1 \in 0..n
  BY DEF Path
<1>2. Len(SubSeq(path, 1, n)) = n
  BY <1>1, PartOfPath
<1> QED BY <1>1, <1>2, PartOfPart DEF parent, Front

LEMMA RestOfPath ==
  ASSUME NEW path \in Path, NEW n \in 0..Len(path), NEW k \in 0..n
  PROVE  /\ SubSeq(path, k + 1, n) \in Path /\ Len(SubSeq(path, k + 1, n)) = n - k
         /\ \A i \in 1..(n - k) : SubSeq(path, k + 1, n)[i] = path[k + i]
<1>1. /\ Len(path) \in Nat /\ n \in Nat /\ n <= Len(path) /\ k \in Nat /\ k <= n
      /\ \A i \in 1..Len(path) : path[i] \in STRING \cup Runs
  BY DEF Path
<1> DEFINE m == k + 1
<1>2. m \in Int /\ n \in Int /\ \A i \in m..n : path[i] \in STRING \cup Runs
  BY <1>1
<1> HIDE DEF m
<1>3. /\ SubSeq(path, m, n) \in Seq(STRING \cup Runs)
      /\ Len(SubSeq(path, m, n)) = IF m <= n THEN n - m + 1 ELSE 0
      /\ \A i \in 1..(n - m + 1) : SubSeq(path, m, n)[i] = path[m + i - 1]
  BY <1>2, SubSeqProperties
<1>4. \A i \in 1..(n - k) : i \in 1..(n - m + 1) /\ m + i - 1 = k + i
  BY <1>1 DEF m
<1>5. Len(SubSeq(path, m, n)) = n - k
  BY <1>1, <1>3 DEF m
<1>6. \A i \in 1..(n - k) : SubSeq(path, m, n)[i] = path[k + i]
  BY <1>3, <1>4
<1> QED BY <1>3, <1>5, <1>6 DEF m, Path

LEMMA RestOfPart ==
  ASSUME NEW path \in Path, NEW n \in 0..Len(path), NEW k \in 0..n
  PROVE  SubSeq(SubSeq(path, 1, n), k + 1, n) = SubSeq(path, k + 1, n)
<1> DEFINE part == SubSeq(path, 1, n)
<1>1. part \in Path /\ Len(part) = n /\ \A i \in 1..n : part[i] = path[i]
  BY PartOfPath
<1> HIDE DEF part
<1>2. n \in 0..Len(part) /\ n \in Nat /\ k \in Nat
  BY <1>1 DEF Path
<1> DEFINE mine == SubSeq(part, k + 1, n)
           rest == SubSeq(path, k + 1, n)
<1>3. mine \in Path /\ Len(mine) = n - k /\ \A i \in 1..(n - k) : mine[i] = part[k + i]
  BY <1>1, <1>2, RestOfPath
<1>4. rest \in Path /\ Len(rest) = n - k /\ \A i \in 1..(n - k) : rest[i] = path[k + i]
  BY RestOfPath
<1> HIDE DEF mine, rest
<1>5. \A i \in 1..(n - k) : mine[i] = rest[i]
  <2>1. \A i \in 1..(n - k) : k + i \in 1..n
    BY <1>2
  <2> QED BY <1>1, <1>3, <1>4, <2>1
<1>6. mine = rest
  BY <1>3, <1>4, <1>5, SeqEqual DEF Path
<1> QED BY <1>6 DEF mine, rest, part

LEMMA EmptyPart == \A path : SubSeq(path, 1, 0) = <<>>
BY SubSeqEmpty

\* The parts of a path that exists exist.
LEMMA PartsExist ==
  ASSUME TreesClosed, NEW e \in Existing, NEW path \in Path, NEW n \in 0..Len(path),
         SubSeq(path, 1, n) \in e, NEW m \in 0..n
  PROVE  SubSeq(path, 1, m) \in e
<1>0. Len(path) \in Nat
  BY DEF Path
<1> DEFINE gone == {k \in 0..n : SubSeq(path, 1, k) \notin e}
<1>1. SUFFICES ASSUME gone # {} PROVE FALSE
  OBVIOUS
<1>2. PICK k \in gone : \A j \in gone : j <= k
  <2>1. gone \subseteq 0..n /\ n \in Nat
    BY <1>0
  <2> HIDE DEF gone
  <2> QED BY <1>1, <2>1, GreatestNat
<1>3. k \in 0..n /\ k # n
  BY <1>2
<1>4. k + 1 \in 1..n /\ k + 1 \in 1..Len(path) /\ ~(k + 1 <= k)
  BY <1>0, <1>3
<1>5. SubSeq(path, 1, k + 1) \in e
  <2>1. k + 1 \notin gone
    BY <1>2, <1>4
  <2> QED BY <1>4, <2>1
<1>6. Len(SubSeq(path, 1, k + 1)) = k + 1 /\ parent(SubSeq(path, 1, k + 1)) = SubSeq(path, 1, (k + 1) - 1)
  BY <1>0, <1>4, PartOfPath, ParentOfPart
<1>7. SubSeq(path, 1, k + 1) # <<>> /\ (k + 1) - 1 = k
  BY <1>3, <1>4, <1>6
<1>8. SubSeq(path, 1, k) \in e
  BY <1>5, <1>6, <1>7 DEF TreesClosed
<1> QED BY <1>2, <1>8

-----------------------------------------------------------------------------
\* Where a denied path leads does not depend on the masks that are there.

LEMMA UnderIs ==
  ASSUME NEW path \in Path, NEW l \in Path
  PROVE  under(path, l) <=> Len(l) \in 0..Len(path) /\ SubSeq(path, 1, Len(l)) = l
<1>1. SubSeq(l, 1, Len(l)) = l
  BY SubSeqFull DEF Path
<1>2. Len(l) \in Nat /\ Len(path) \in Nat
  BY DEF Path
<1> QED BY <1>1, <1>2 DEF under, IsPrefix

LEMMA LinkPaths == \A l \in DOMAIN Links : l \in Path /\ Links[l] \in Path
BY SandboxAssumption

\* At most one link is on the way of a path.
LEMMA ShorterLink ==
  ASSUME LinksApart, NEW path \in Path, NEW l \in DOMAIN Links, NEW k \in DOMAIN Links,
         under(path, l), under(path, k), Len(l) <= Len(k)
  PROVE  l = k
<1>1. l \in Path /\ k \in Path
  BY LinkPaths
<1>2. /\ Len(l) \in 0..Len(path) /\ SubSeq(path, 1, Len(l)) = l
      /\ Len(k) \in 0..Len(path) /\ SubSeq(path, 1, Len(k)) = k
  BY <1>1, UnderIs
<1>3. Len(l) \in 0..Len(k)
  BY <1>1 DEF Path
<1>4. SubSeq(SubSeq(path, 1, Len(k)), 1, Len(l)) = SubSeq(path, 1, Len(l))
  BY <1>2, <1>3, PartOfPart
<1>5. under(k, l)
  BY <1>1, <1>2, <1>3, <1>4, UnderIs
<1> QED BY <1>5 DEF LinksApart

LEMMA OneLink ==
  ASSUME LinksApart, NEW path \in Path, NEW l \in DOMAIN Links, NEW k \in DOMAIN Links,
         under(path, l), under(path, k)
  PROVE  l = k
<1>1. Len(l) \in Nat /\ Len(k) \in Nat
  BY LinkPaths DEF Path
<1>2. CASE Len(l) <= Len(k)
  BY <1>2, ShorterLink
<1>3. CASE Len(k) <= Len(l)
  BY <1>3, ShorterLink
<1> QED BY <1>1, <1>2, <1>3

LEMMA FollowLink ==
  ASSUME LinksApart, NEW path \in Path, NEW l \in DOMAIN Links, under(path, l)
  PROVE  follow(path) = Links[l] \o SubSeq(path, Len(l) + 1, Len(path))
<1> DEFINE links == {k \in DOMAIN Links : under(path, k)}
           c == CHOOSE k \in links : TRUE
<1>1. c \in links /\ links # {}
  OBVIOUS
<1>2. c = l
  BY <1>1, OneLink
<1>3. follow(path) = Links[c] \o SubSeq(path, Len(c) + 1, Len(path))
  BY <1>1 DEF follow
<1> HIDE DEF c
<1> QED BY <1>2, <1>3

LEMMA LenientIsFollow ==
  ASSUME LinksApart, NEW path \in Path, NEW fs, \A l \in DOMAIN Links : under(path, l) => Links[l] \in fs
  PROVE  canonicalize_lenient(path, fs) = follow(path)
<1> DEFINE known == {n \in 0..Len(path) : n = 0 \/ exists(SubSeq(path, 1, n), fs)}
           n == CHOOSE n \in known : \A m \in known : m <= n
<1>0. Len(path) \in Nat
  BY DEF Path
<1>1. n \in known /\ \A m \in known : m <= n
  <2>0. 0 \in 0..Len(path)
    BY <1>0
  <2>1. known # {} /\ known \subseteq 0..Len(path)
    BY <2>0, Zenon
  <2>2. \E i \in known : \A j \in known : j <= i
    <3> HIDE DEF known
    <3> QED BY <1>0, <2>1, GreatestNat
  <2> HIDE DEF known
  <2> QED BY <2>2
<1>2. n \in 0..Len(path)
  BY <1>1
<1>3. canonicalize_lenient(path, fs) = follow(SubSeq(path, 1, n)) \o SubSeq(path, n + 1, Len(path))
  BY DEF canonicalize_lenient
<1>4. ASSUME NEW l \in DOMAIN Links, under(path, l) PROVE Len(l) <= n
  <2>1. l \in Path /\ Len(l) \in 0..Len(path) /\ SubSeq(path, 1, Len(l)) = l
    BY <1>4, LinkPaths, UnderIs
  <2>2. under(l, l) /\ Links[l] \in Path
    <3>1. Len(l) \in 0..Len(l) /\ SubSeq(l, 1, Len(l)) = l
      BY <2>1, SubSeqFull DEF Path
    <3> QED BY <2>1, <3>1, UnderIs, LinkPaths
  <2>3. follow(l) = Links[l] \o SubSeq(l, Len(l) + 1, Len(l))
    BY <2>1, <2>2, FollowLink
  <2>4. SubSeq(l, Len(l) + 1, Len(l)) = <<>>
    <3>1. Len(l) \in Int /\ Len(l) + 1 \in Int /\ Len(l) < Len(l) + 1
      BY <2>1
    <3> QED BY <3>1, SubSeqEmpty
  <2>5. follow(l) = Links[l]
    BY <2>2, <2>3, <2>4, ConcatEmptySeq DEF Path
  <2>6. Len(l) \in known
    BY <1>4, <2>1, <2>5 DEF exists
  <2> HIDE DEF known, n
  <2> QED BY <1>1, <2>6
<1> HIDE DEF n
<1> DEFINE part == SubSeq(path, 1, n)
           rest == SubSeq(path, n + 1, Len(path))
<1>5. part \in Path /\ Len(part) = n /\ part \o rest = path
  <2>1. part \in Path /\ Len(part) = n
    BY <1>2, PartOfPath
  <2>2. 1 \in 1..(Len(path) + 1) /\ n \in (1 - 1)..Len(path) /\ Len(path) \in n..Len(path)
    BY <1>0, <1>2
  <2>3. SubSeq(path, 1, n) \o SubSeq(path, n + 1, Len(path)) = SubSeq(path, 1, Len(path))
    BY <2>2, ConcatAdjacentSubSeq DEF Path
  <2> QED BY <2>1, <2>3, SubSeqFull DEF Path
<1>6. CASE \E l \in DOMAIN Links : under(path, l)
  <2>1. PICK l \in DOMAIN Links : under(path, l)
    BY <1>6
  <2>2. l \in Path /\ Links[l] \in Path /\ Len(l) \in 0..n /\ SubSeq(path, 1, Len(l)) = l
    <3>1. l \in Path /\ Links[l] \in Path
      BY LinkPaths
    <3>2. Len(l) \in 0..Len(path) /\ SubSeq(path, 1, Len(l)) = l
      BY <2>1, <3>1, UnderIs
    <3>3. Len(l) <= n
      BY <1>4, <2>1
    <3> QED BY <1>2, <3>1, <3>2, <3>3
  <2>3. under(part, l)
    <3>1. SubSeq(part, 1, Len(l)) = l
      BY <1>2, <2>2, PartOfPart
    <3> QED BY <1>5, <2>2, <3>1, UnderIs
  <2> DEFINE tail == SubSeq(path, Len(l) + 1, n)
  <2>4. tail \in Path /\ rest \in Path
    BY <1>0, <1>2, <2>2, PartIsPath
  <2>5. SubSeq(part, Len(l) + 1, Len(part)) = tail
    BY <1>2, <1>5, <2>2, RestOfPart
  <2>6. follow(part) = Links[l] \o tail
    BY <1>5, <2>3, <2>5, FollowLink
  <2>7. follow(path) = Links[l] \o SubSeq(path, Len(l) + 1, Len(path))
    BY <2>1, FollowLink
  <2>8. tail \o rest = SubSeq(path, Len(l) + 1, Len(path))
    <3>1. /\ Len(l) + 1 \in 1..(Len(path) + 1) /\ n \in ((Len(l) + 1) - 1)..Len(path)
          /\ Len(path) \in n..Len(path)
      BY <1>0, <1>2, <2>2
    <3> QED BY <3>1, ConcatAdjacentSubSeq DEF Path
  <2>9. (Links[l] \o tail) \o rest = Links[l] \o (tail \o rest)
    <3> HIDE DEF tail, rest
    <3> QED BY <2>2, <2>4, ConcatAssociative DEF Path
  <2> QED BY <1>3, <2>6, <2>7, <2>8, <2>9
<1>7. CASE ~ \E l \in DOMAIN Links : under(path, l)
  <2>1. follow(path) = path
    BY <1>7 DEF follow
  <2>2. ~ \E l \in DOMAIN Links : under(part, l)
    <3> SUFFICES ASSUME NEW l \in DOMAIN Links, under(part, l) PROVE under(path, l)
      BY <1>7
    <3>1. l \in Path /\ Len(l) \in 0..n /\ SubSeq(part, 1, Len(l)) = l
      BY <1>5, LinkPaths, UnderIs
    <3>2. SubSeq(path, 1, Len(l)) = l /\ Len(l) \in 0..Len(path)
      BY <1>0, <1>2, <3>1, PartOfPart
    <3> QED BY <3>1, <3>2, UnderIs
  <2>3. follow(part) = part
    BY <2>2 DEF follow
  <2> QED BY <1>3, <1>5, <2>1, <2>3
<1> QED BY <1>6, <1>7

LEMMA DeniedIs ==
  ASSUME LinksApart, LinksLead, policy \in Policies, first \in Existing, NEW fs, first \subseteq fs, NEW program
  PROVE  resolve(fs, program).write_deny = Denied(policy) /\ Denied(policy) \subseteq Path
<1>1. resolve(fs, program).write_deny = {canonicalize_lenient(absolute(rule), fs) : rule \in Denies(policy)}
  BY DEF resolve, Denies
<1>2. \A rule \in Denies(policy) : rule.rest \in Path
  <2>1. merge(policy.workflow, policy.task)["write_deny"] = policy.workflow["write_deny"] \cup policy.task["write_deny"]
    BY SandboxAssumption DEF merge, Settings
  <2>2. \A R \in {Defaults["write_deny"], policy.workflow["write_deny"], policy.task["write_deny"]} :
          \A rule \in R : rule.rest \in Path
    BY SandboxAssumption
  <2> DEFINE filesystem == merge(policy.workflow, policy.task)
  <2>3. Denies(policy) \subseteq Defaults["write_deny"] \cup filesystem["write_deny"]
    BY DEF Denies, with_defaults
  <2> HIDE DEF filesystem
  <2> QED BY <2>1, <2>2, <2>3 DEF filesystem
<1>3. ASSUME NEW rule \in Denies(policy)
      PROVE  /\ canonicalize_lenient(absolute(rule), fs) = follow(absolute(rule))
             /\ follow(absolute(rule)) \in Path
  <2>1. absolute(rule) \in Path
    BY <1>2, AbsoluteIsPath
  <2>2. \A l \in DOMAIN Links : under(absolute(rule), l) => Links[l] \in fs
    BY DEF LinksLead
  <2> QED BY <2>1, <2>2, LenientIsFollow, FollowIsPath
<1> QED BY <1>1, <1>3, Zenon DEF Denied

-----------------------------------------------------------------------------
\* A plan that is made while nobody builds or removes consists of whole masks.

\* With a directory its parent is listed too, and later.
Closed(s, e) ==
  \A i \in DOMAIN s : parent(s[i]) \in e \/ \E j \in DOMAIN s : j > i /\ s[j] = parent(s[i])
IsMask(m, p, e) == Closed(m, e) /\ m[1] \in Denied(p) /\ ToSet(m) = Chain(m[1], e)

LEMMA WholeMask ==
  ASSUME TreesClosed, first \in Existing, first \subseteq dirs, \A m \in markers : m[1] \notin first,
         \A d \in dirs : d \in first \/ is_marked(d), NEW path \in Path
  PROVE  /\ mask_directories(path) # <<>> =>
              /\ Closed(mask_directories(path), first) /\ mask_directories(path)[1] = path
              /\ ToSet(mask_directories(path)) = Chain(path, first)
         /\ mask_directories(path) = <<>> => Chain(path, first) = {}
<1> DEFINE mine(n) == SubSeq(path, 1, n)
           free(n) == mine(n) \notin dirs \/ is_marked(mine(n))
           top == {n \in 1..Len(path) : ~free(n)}
           last == IF top = {} THEN 0 ELSE CHOOSE n \in top : \A m \in top : m <= n
<1>0. Len(path) \in Nat
  BY DEF Path
<1>1. \A n \in 1..Len(path) : ~free(n) <=> mine(n) \in first
  BY DEF is_marked
<1>2. mask_directories(path) = [i \in 1..(Len(path) - last) |-> mine(Len(path) - i + 1)]
  BY DEF mask_directories
<1>3. top = {n \in 1..Len(path) : mine(n) \in first}
  BY <1>1
<1> HIDE DEF free
<1>4. last \in 0..Len(path) /\ mine(last) \in first /\ \A n \in top : n <= last
  <2>1. CASE top = {}
    <3>1. last = 0 /\ mine(last) = <<>>
      BY <2>1, EmptyPart
    <3>2. <<>> \in first /\ 0 \in 0..Len(path)
      BY <1>0 DEF TreesClosed
    <3> HIDE DEF last, top, mine
    <3> QED BY <2>1, <3>1, <3>2
  <2>2. CASE top # {}
    <3>1. \E i \in top : \A j \in top : j <= i
      <4>1. top \subseteq 0..Len(path)
        BY <1>0, <1>3
      <4> HIDE DEF top
      <4> QED BY <1>0, <2>2, <4>1, GreatestNat
    <3>2. last \in top /\ \A m \in top : m <= last
      <4> HIDE DEF top
      <4> QED BY <2>2, <3>1
    <3> HIDE DEF last, top
    <3> QED BY <1>0, <1>3, <3>2
  <2> QED BY <2>1, <2>2
<1>5. \A n \in 1..Len(path) : n > last <=> mine(n) \notin first
  <2> TAKE n \in 1..Len(path)
  <2>1. n > last => n \notin top
    <3> HIDE DEF top, last
    <3> QED BY <1>0, <1>4
  <2>2. n \notin top => mine(n) \notin first
    BY <1>3
  <2>3. ASSUME ~(n > last) PROVE mine(n) \in first
    <3>1. n \in 0..last
      <4> HIDE DEF last
      <4> QED BY <1>0, <1>4, <2>3
    <3> HIDE DEF last
    <3> QED BY <1>4, <3>1, PartsExist
  <2> QED BY <2>1, <2>2, <2>3
<1> HIDE DEF last, top
<1> DEFINE m == mask_directories(path)
           l == Len(path) - last
<1>6. l \in Nat /\ l <= Len(path)
  BY <1>0, <1>4
<1>7. DOMAIN m = 1..l /\ \A i \in 1..l : m[i] = mine(Len(path) - i + 1)
  BY <1>2
<1>8. \A i \in 1..l : Len(path) - i + 1 \in 1..Len(path) /\ Len(path) - i + 1 > last
  BY <1>0, <1>4
<1>a. ASSUME m = <<>>, NEW d \in Chain(path, first) PROVE FALSE
  <2>1. PICK n \in 1..Len(path) : d = mine(n) /\ mine(n) \notin first
    BY DEF Chain
  <2>2. n > last
    BY <1>5, <2>1
  <2>3. 1 \in 1..l
    BY <1>0, <1>4, <2>1, <2>2
  <2>4. DOMAIN m = {}
    BY <1>a
  <2> HIDE DEF m, l
  <2> QED BY <1>7, <2>3, <2>4
<1>9. SUFFICES ASSUME m # <<>> PROVE Closed(m, first) /\ m[1] = path /\ ToSet(m) = Chain(path, first)
  BY <1>a
<1>10. 1 \in 1..l
  <2>1. CASE l = 0
    <3>1. m = <<>>
      BY <1>2, <2>1
    <3> QED BY <1>9, <3>1
  <2> QED BY <1>6, <2>1
<1>11. m[1] = path
  <2>1. Len(path) - 1 + 1 = Len(path) /\ mine(Len(path)) = path
    BY <1>0, SubSeqFull DEF Path
  <2> HIDE DEF m, mine, l
  <2> QED BY <1>7, <1>10, <2>1
<1>12. ToSet(m) = Chain(path, first)
  <2>1. ASSUME NEW i \in 1..l PROVE m[i] \in Chain(path, first)
    BY <1>5, <1>7, <1>8 DEF Chain
  <2>2. ASSUME NEW d \in Chain(path, first) PROVE \E i \in 1..l : m[i] = d
    <3>1. PICK n \in 1..Len(path) : d = mine(n) /\ mine(n) \notin first
      BY DEF Chain
    <3>2. n > last
      BY <1>5, <3>1
    <3> DEFINE i == Len(path) - n + 1
    <3>3. i \in 1..l /\ Len(path) - i + 1 = n
      BY <1>0, <1>4, <3>1, <3>2
    <3> HIDE DEF i, m, mine, l
    <3>4. m[i] = mine(n)
      BY <1>7, <3>3
    <3> QED BY <3>1, <3>3, <3>4
  <2> HIDE DEF m, l
  <2> QED BY <1>7, <2>1, <2>2 DEF ToSet
<1>13. Closed(m, first)
  <2> SUFFICES ASSUME NEW i \in 1..l
               PROVE  parent(m[i]) \in first \/ \E j \in 1..l : j > i /\ m[j] = parent(m[i])
    BY <1>7 DEF Closed
  <2>1. m[i] = mine(Len(path) - i + 1) /\ Len(path) - i + 1 \in 1..Len(path)
    BY <1>7, <1>8
  <2>2. parent(m[i]) = mine((Len(path) - i + 1) - 1)
    BY <2>1, ParentOfPart
  <2>3. CASE i = l
    <3>1. (Len(path) - i + 1) - 1 = last
      BY <1>0, <1>4, <2>3
    <3> QED BY <1>4, <2>2, <3>1
  <2>4. CASE i # l
    <3>1. i + 1 \in 1..l /\ i + 1 > i /\ (Len(path) - i + 1) - 1 = Len(path) - (i + 1) + 1
      BY <1>0, <1>6, <2>4
    <3>2. m[i + 1] = mine(Len(path) - (i + 1) + 1)
      <4> HIDE DEF m, l, mine
      <4> QED BY <1>7, <3>1
    <3> HIDE DEF m, mine, l
    <3> QED BY <2>2, <3>1, <3>2
  <2> QED BY <2>3, <2>4
<1> QED BY <1>11, <1>12, <1>13

LEMMA ClosedConcat ==
  ASSUME NEW s \in Seq(Path), NEW t \in Seq(Path), NEW e, Closed(s, e), Closed(t, e)
  PROVE  Closed(s \o t, e) /\ ToSet(s \o t) = ToSet(s) \cup ToSet(t)
<1> DEFINE u == s \o t
           l == Len(s)
           k == Len(t)
<1>1. l \in Nat /\ k \in Nat /\ DOMAIN s = 1..l /\ DOMAIN t = 1..k
  OBVIOUS
<1>2. /\ u \in Seq(Path) /\ Len(u) = l + k
      /\ \A i \in 1..(l + k) : u[i] = IF i <= l THEN s[i] ELSE t[i - l]
  BY ConcatProperties
<1> HIDE DEF u
<1>3. DOMAIN u = 1..(l + k)
  BY <1>2
<1> HIDE DEF l, k
<1>4. \A i \in 1..l : i \in 1..(l + k) /\ u[i] = s[i]
  BY <1>1, <1>2
<1>5. \A i \in 1..k : l + i \in 1..(l + k) /\ u[l + i] = t[i]
  <2> TAKE i \in 1..k
  <2>1. l + i \in 1..(l + k) /\ ~(l + i <= l) /\ (l + i) - l = i
    BY <1>1
  <2> QED BY <1>2, <2>1
<1>6. \A i \in 1..(l + k) : i \in 1..l \/ \E j \in 1..k : i = l + j
  <2> SUFFICES ASSUME NEW i \in 1..(l + k), ~(i \in 1..l) PROVE \E j \in 1..k : i = l + j
    OBVIOUS
  <2>1. i - l \in 1..k /\ i = l + (i - l)
    BY <1>1
  <2> QED BY <2>1
<1>7. Closed(u, e)
  <2> SUFFICES ASSUME NEW i \in 1..(l + k), parent(u[i]) \notin e
               PROVE  \E j \in 1..(l + k) : j > i /\ u[j] = parent(u[i])
    BY <1>3 DEF Closed
  <2>1. CASE i \in 1..l
    <3>1. PICK j \in 1..l : j > i /\ s[j] = parent(s[i])
      BY <1>1, <1>4, <2>1 DEF Closed
    <3> QED BY <1>4, <2>1, <3>1
  <2>2. CASE \E h \in 1..k : i = l + h
    <3>1. PICK h \in 1..k : i = l + h
      BY <2>2
    <3>2. PICK j \in 1..k : j > h /\ t[j] = parent(t[h])
      BY <1>1, <1>5, <3>1 DEF Closed
    <3>3. l + j > i
      BY <1>1, <3>1, <3>2
    <3> QED BY <1>5, <3>1, <3>2, <3>3
  <2> QED BY <1>6, <2>1, <2>2
<1>8. ToSet(u) = ToSet(s) \cup ToSet(t)
  <2>1. \A d : d \in ToSet(u) <=> \E i \in 1..(l + k) : d = u[i]
    BY <1>3 DEF ToSet
  <2>2. \A d : d \in ToSet(s) <=> \E i \in 1..l : d = s[i]
    BY <1>1 DEF ToSet
  <2>3. \A d : d \in ToSet(t) <=> \E i \in 1..k : d = t[i]
    BY <1>1 DEF ToSet
  <2>4. ASSUME NEW d \in ToSet(u) PROVE d \in ToSet(s) \cup ToSet(t)
    BY <1>4, <1>5, <1>6, <2>1, <2>2, <2>3
  <2>5. ASSUME NEW d \in ToSet(s) \cup ToSet(t) PROVE d \in ToSet(u)
    BY <1>4, <1>5, <2>1, <2>2, <2>3
  <2> QED BY <2>4, <2>5
<1> QED BY <1>7, <1>8 DEF u

LEMMA ConcatSet ==
  ASSUME NEW s \in Seq(Path), NEW t \in Seq(Path) PROVE ToSet(s \o t) = ToSet(s) \cup ToSet(t)
<1> DEFINE e == {parent(s[i]) : i \in DOMAIN s} \cup {parent(t[i]) : i \in DOMAIN t}
<1>1. \A i \in DOMAIN s : parent(s[i]) \in e
  OBVIOUS
<1>2. \A i \in DOMAIN t : parent(t[i]) \in e
  OBVIOUS
<1> HIDE DEF e
<1>3. Closed(s, e) /\ Closed(t, e)
  BY <1>1, <1>2 DEF Closed
<1> QED BY <1>3, ClosedConcat

\* What is left of a list without its first directory, which may be listed again.
LEMMA ClosedTail ==
  ASSUME NEW s \in Seq(Path), s # <<>>, NEW e, Closed(s, e)
  PROVE  /\ Closed(Tail(s), e) /\ ToSet(s) = {Head(s)} \cup ToSet(Tail(s))
         /\ \A p \in ToSet(s) : parent(p) \in e \/ parent(p) \in ToSet(Tail(s))
<1> DEFINE t == Tail(s)
           l == Len(s)
<1>1. l \in Nat \ {0} /\ DOMAIN s = 1..l /\ t \in Seq(Path) /\ Len(t) = l - 1 /\ Head(s) = s[1]
  OBVIOUS
<1>2. \A i \in 1..(l - 1) : t[i] = s[i + 1]
  OBVIOUS
<1> HIDE DEF t, l
<1>3. DOMAIN t = 1..(l - 1)
  BY <1>1
<1>4. \A i \in 1..l : i # 1 => i - 1 \in 1..(l - 1) /\ t[i - 1] = s[i]
  <2> TAKE i \in 1..l
  <2> HAVE i # 1
  <2>1. i - 1 \in 1..(l - 1) /\ (i - 1) + 1 = i
    BY <1>1
  <2> QED BY <1>2, <2>1
<1>5. \A i \in 1..(l - 1) : i + 1 \in 1..l
  BY <1>1
<1>6. ASSUME NEW i \in 1..l, parent(s[i]) \notin e
      PROVE  \E j \in 1..(l - 1) : j > i - 1 /\ t[j] = parent(s[i])
  <2>1. PICK j \in 1..l : j > i /\ s[j] = parent(s[i])
    BY <1>1, <1>6 DEF Closed
  <2>2. j # 1 /\ j - 1 > i - 1
    BY <1>1, <2>1
  <2> QED BY <1>4, <2>1, <2>2
<1>7. Closed(t, e)
  <2> SUFFICES ASSUME NEW i \in 1..(l - 1), parent(t[i]) \notin e
               PROVE  \E j \in 1..(l - 1) : j > i /\ t[j] = parent(t[i])
    BY <1>3 DEF Closed
  <2>1. t[i] = s[i + 1] /\ i + 1 \in 1..l /\ (i + 1) - 1 = i
    BY <1>2, <1>5
  <2>2. PICK j \in 1..(l - 1) : j > (i + 1) - 1 /\ t[j] = parent(s[i + 1])
    BY <1>6, <2>1
  <2> QED BY <2>1, <2>2
<1>8. ToSet(s) = {Head(s)} \cup ToSet(t)
  <2>1. \A i \in 1..l : s[i] = Head(s) \/ \E j \in 1..(l - 1) : s[i] = t[j]
    BY <1>1, <1>4
  <2>2. 1 \in 1..l
    BY <1>1
  <2>3. \A d : d \in ToSet(s) <=> \E i \in 1..l : d = s[i]
    BY <1>1 DEF ToSet
  <2>4. \A d : d \in ToSet(t) <=> \E i \in 1..(l - 1) : d = t[i]
    BY <1>3 DEF ToSet
  <2>5. ASSUME NEW d \in ToSet(s) PROVE d \in {Head(s)} \cup ToSet(t)
    BY <2>1, <2>3, <2>4
  <2>6. ASSUME NEW d \in {Head(s)} \cup ToSet(t) PROVE d \in ToSet(s)
    BY <1>1, <1>2, <1>5, <2>2, <2>3, <2>4
  <2> QED BY <2>5, <2>6
<1>9. \A p \in ToSet(s) : parent(p) \in e \/ parent(p) \in ToSet(t)
  <2> SUFFICES ASSUME NEW i \in 1..l, parent(s[i]) \notin e PROVE parent(s[i]) \in ToSet(t)
    BY <1>1 DEF ToSet
  <2> QED BY <1>3, <1>6 DEF ToSet
<1> QED BY <1>7, <1>8, <1>9 DEF t

-----------------------------------------------------------------------------
\* The invariant, as long as no run raced.

\* What a run builds, and all that it keeps.
Building(q) == IF pc[q] \in {"create", "mark"} THEN ToSet(Head(todo[q])) ELSE {}
Keeps(q) == ToSet(held[q].directories) \cup Building(q)
\* A directory with a marker of a process that was killed.
Abandoned(d, all_markers, killed) == \E m \in all_markers : m[1] = d /\ Pid[m[2]] \in killed

HeldOk(masks_held, at, e) ==
  /\ Closed(masks_held.directories, e)
  /\ ToSet(masks_held.markers) \subseteq ToSet(masks_held.directories)
  /\ at \in {"off", "plan", "arguments", "over"} => masks_held.markers = <<>> /\ masks_held.directories = <<>>
  /\ at = "rmdir" => masks_held.markers = <<>>
PlanOk(plan, left, directories, at, p, e) ==
  /\ \A i \in DOMAIN plan : IsMask(plan[i], p, e)
  /\ \A i \in DOMAIN left : IsMask(left[i], p, e)
  /\ at \in {"create", "mark", "spawn"} => \A i \in DOMAIN plan :
       \/ at # "spawn" /\ \E k \in DOMAIN left : left[k] = plan[i]
       \/ ToSet(plan[i]) \subseteq ToSet(directories)

\* A living run plans whole masks, and holds those it has built with all their
\* directories; it holds nothing before and after.
RunsLeft ==
  \A r \in Runs : alive(r) =>
    /\ HeldOk(held[r], pc[r], first)
    /\ PlanOk(masks[r], todo[r], held[r].directories, pc[r], policy, first)
\* Markers are in directories of masks, and the living know theirs.
MarksLeft ==
  \A m \in markers :
    /\ \E p \in Denied(policy) : m[1] \in Chain(p, first)
    /\ alive(m[2]) => m[1] \in ToSet(held[m[2]].markers) \cup Building(m[2])
\* What was not there at first is abandoned, or a living run will remove it.
DirsLeft == \A d \in dirs \ first : Abandoned(d, markers, dead) \/ \E q \in Runs : alive(q) /\ d \in Keeps(q)
\* With a directory its parent is abandoned.
DeadLeft ==
  /\ \A m \in markers : ~alive(m[2]) => parent(m[1]) \in first \/ Abandoned(parent(m[1]), markers, dead)
  /\ CrashPoints = {} => dead = {}
LeftInv == RunsLeft /\ MarksLeft /\ DirsLeft /\ DeadLeft

\* A step of r leaves the other runs alone.
Only(r) ==
  /\ policy' = policy /\ first' = first /\ dead' = dead
  /\ \A q \in Runs \ {r} : pc'[q] = pc[q] /\ held'[q] = held[q] /\ todo'[q] = todo[q] /\ masks'[q] = masks[q]

LEMMA OthersKeep ==
  ASSUME NEW r \in Runs, Only(r)
  PROVE  /\ \A q \in Runs : alive(q)' = alive(q)
         /\ \A q \in Runs \ {r} : Building(q)' = Building(q) /\ Keeps(q)' = Keeps(q)
BY DEF Only, alive, Building, Keeps

LEMMA RunsStep ==
  ASSUME RunsLeft, NEW r \in Runs, Only(r), HeldOk(held'[r], pc'[r], first),
         PlanOk(masks'[r], todo'[r], held'[r].directories, pc'[r], policy, first)
  PROVE  RunsLeft'
<1> SUFFICES ASSUME NEW q \in Runs, alive(q)'
             PROVE  /\ HeldOk(held'[q], pc'[q], first')
                    /\ PlanOk(masks'[q], todo'[q], held'[q].directories, pc'[q], policy', first')
  BY DEF RunsLeft
<1>1. policy' = policy /\ first' = first /\ alive(q)
  BY DEF Only, alive
<1>2. CASE q = r
  BY <1>1, <1>2
<1>3. CASE q # r
  BY <1>1, <1>3 DEF Only, RunsLeft
<1> QED BY <1>2, <1>3

LEMMA MarksStep ==
  ASSUME TypeOK, MarksLeft, NEW r \in Runs, Only(r),
         ToSet(held[r].markers) \cup Building(r) \subseteq ToSet(held'[r].markers) \cup Building(r)',
         \A m \in markers' : \/ m \in markers
                             \/ /\ m[2] = r /\ m[1] \in ToSet(held'[r].markers) \cup Building(r)'
                                /\ \E p \in Denied(policy) : m[1] \in Chain(p, first)
  PROVE  MarksLeft'
<1> SUFFICES ASSUME NEW m \in markers'
             PROVE  /\ \E p \in Denied(policy') : m[1] \in Chain(p, first')
                    /\ alive(m[2])' => m[1] \in ToSet(held'[m[2]].markers) \cup Building(m[2])'
  BY DEF MarksLeft
<1>1. policy' = policy /\ first' = first
  BY DEF Only
<1>2. CASE m \in markers
  <2>1. m[2] \in Runs
    BY <1>2 DEF TypeOK
  <2>2. \E p \in Denied(policy') : m[1] \in Chain(p, first')
    BY <1>1, <1>2 DEF MarksLeft
  <2>3. ASSUME alive(m[2])' PROVE m[1] \in ToSet(held'[m[2]].markers) \cup Building(m[2])'
    <3>1. m[1] \in ToSet(held[m[2]].markers) \cup Building(m[2])
      BY <1>2, <2>1, <2>3, OthersKeep DEF MarksLeft
    <3>2. CASE m[2] = r
      BY <3>1, <3>2
    <3>3. CASE m[2] # r
      <4>1. held'[m[2]] = held[m[2]] /\ Building(m[2])' = Building(m[2])
        BY <2>1, <3>3, OthersKeep DEF Only
      <4> QED BY <3>1, <4>1
    <3> QED BY <3>2, <3>3
  <2> QED BY <2>2, <2>3
<1>3. CASE m \notin markers
  <2>1. m[2] = r /\ m[1] \in ToSet(held'[r].markers) \cup Building(r)' /\ \E p \in Denied(policy) : m[1] \in Chain(p, first)
    BY <1>3
  <2> QED BY <1>1, <2>1
<1> QED BY <1>2, <1>3

LEMMA DirsStep ==
  ASSUME DirsLeft, NEW r \in Runs, Only(r), alive(r), Keeps(r) \subseteq Keeps(r)',
         \A d \in dirs' : d \in dirs \/ d \in Keeps(r)',
         \A m \in markers : ~alive(m[2]) => m \in markers' \/ m[1] \in Keeps(r)'
  PROVE  DirsLeft'
<1> SUFFICES ASSUME NEW d \in dirs', d \notin first
             PROVE  Abandoned(d, markers', dead) \/ \E q \in Runs : alive(q)' /\ d \in Keeps(q)'
  BY DEF DirsLeft, Only
<1>1. alive(r)'
  BY OthersKeep
<1>2. CASE d \in Keeps(r)'
  BY <1>1, <1>2
<1>3. CASE d \notin Keeps(r)'
  <2>1. d \in dirs
    BY <1>3
  <2>2. CASE Abandoned(d, markers, dead)
    BY <1>3, <2>2 DEF Abandoned, alive
  <2>3. CASE \E q \in Runs : alive(q) /\ d \in Keeps(q)
    <3>1. PICK q \in Runs : alive(q) /\ d \in Keeps(q)
      BY <2>3
    <3>2. q # r
      BY <1>3, <3>1
    <3>3. alive(q)' /\ d \in Keeps(q)'
      BY <3>1, <3>2, OthersKeep
    <3> QED BY <3>3
  <2> QED BY <2>1, <2>2, <2>3 DEF DirsLeft
<1> QED BY <1>2, <1>3

LEMMA DeadStep ==
  ASSUME DeadLeft, NEW r \in Runs, Only(r), \A m : ~alive(m[2]) => (m \in markers <=> m \in markers')
  PROVE  DeadLeft'
<1>1. first' = first /\ dead' = dead
  BY DEF Only
<1>2. \A d : Abandoned(d, markers, dead) => Abandoned(d, markers', dead)
  BY DEF Abandoned, alive
<1>3. ASSUME NEW m \in markers', ~alive(m[2])' PROVE parent(m[1]) \in first' \/ Abandoned(parent(m[1]), markers', dead')
  <2>1. ~alive(m[2]) /\ m \in markers
    BY <1>1, <1>3 DEF alive
  <2> QED BY <1>1, <1>2, <2>1 DEF DeadLeft
<1> QED BY <1>1, <1>3 DEF DeadLeft

-----------------------------------------------------------------------------
\* Every step keeps it, if the run has not raced.

LEMMA NoneIn == ToSet(<<>>) = {}
BY DEF ToSet

\* While nobody builds or removes, every directory of a mask is marked.
LEMMA AllMarked ==
  ASSUME MaskInv, LeftInv, NEW r \in Runs, pc[r] = "plan", alone(r)
  PROVE  \A d \in dirs : d \in first \/ is_marked(d)
<1> SUFFICES ASSUME NEW d \in dirs \ first PROVE is_marked(d)
  OBVIOUS
<1>1. CASE Abandoned(d, markers, dead)
  BY <1>1 DEF Abandoned, is_marked
<1>2. CASE \E q \in Runs : alive(q) /\ d \in Keeps(q)
  <2>1. PICK q \in Runs : alive(q) /\ d \in Keeps(q)
    BY <1>2
  <2>2. pc[q] \notin Unsettled /\ pc[q] \in {"off", "plan", "arguments", "create", "mark", "spawn", "run", "unmark", "rmdir", "over"}
    BY DEF alone, Unsettled, MaskInv, TypeOK
  <2>3. d \in ToSet(held[q].directories)
    BY <2>1, <2>2 DEF Keeps, Building, Unsettled
  <2>4. pc[q] # "over"
    BY <2>1, <2>3, NoneIn DEF LeftInv, RunsLeft, HeldOk
  <2>5. pc[q] \in Holding
    BY <2>2, <2>4 DEF Holding, Unsettled
  <2>6. PICK i \in DOMAIN held[q].directories : held[q].directories[i] = d
    BY <2>3 DEF ToSet
  <2>7. <<d, q>> \in markers
    BY <2>5, <2>6 DEF MaskInv, HeldInv
  <2> QED BY <2>7 DEF is_marked
<1> QED BY <1>1, <1>2 DEF LeftInv, DirsLeft

\* The denied paths that need a mask.
Lost(sandbox) == {p \in sandbox.write_deny : inside_write_allow(sandbox, p) /\ mask_directories(p) # <<>>}

\* A plan has a mask for each of them.
LEMMA Planned ==
  ASSUME TypeOK, PlanInv, NEW r \in Runs, plan_masks(r)
  PROVE  /\ pc[r] = "plan" /\ \A q \in Runs \ {r} : masks'[q] = masks[q] /\ pc'[q] = pc[q] /\ resolved'[q] = resolved[q]
         /\ DOMAIN resolved' = Runs /\ UNCHANGED <<policy, first, dirs, markers, mounts, todo, step, attempt, held, dead>>
         /\ \/ pc'[r] = "over" /\ UNCHANGED <<masks, raced, since>>
            \/ /\ pc'[r] = "arguments" /\ since' = since \cup {r} /\ UNCHANGED resolved
               /\ raced' = IF alone(r) THEN raced ELSE raced \cup {r}
               /\ \A i \in DOMAIN masks'[r] : \E p \in Lost(resolved[r]) : masks'[r][i] = mask_directories(p)
               /\ \A p \in Lost(resolved[r]) : \E i \in DOMAIN masks'[r] : masks'[r][i] = mask_directories(p)
<1> DEFINE lost == Lost(resolved[r])
           ways == sorted(lost)
           plan == [i \in DOMAIN ways |-> mask_directories(ways[i])]
<1>0. pc[r] = "plan" /\ UNCHANGED <<policy, first, dirs, markers, mounts, todo, step, attempt, held, dead>>
  BY DEF plan_masks
<1>1. \/ /\ pc' = [pc EXCEPT ![r] = "over"] /\ resolved' = [resolved EXCEPT ![r] = Unresolved]
         /\ UNCHANGED <<masks, raced, since>>
      \/ /\ pc' = [pc EXCEPT ![r] = "arguments"] /\ since' = since \cup {r} /\ UNCHANGED resolved
         /\ raced' = IF alone(r) THEN raced ELSE raced \cup {r}
         /\ masks' = [masks EXCEPT ![r] = plan]
  BY Zenon DEF plan_masks, goto, Lost
<1>2. CASE /\ pc' = [pc EXCEPT ![r] = "over"] /\ resolved' = [resolved EXCEPT ![r] = Unresolved]
           /\ UNCHANGED <<masks, raced, since>>
  <2>1. DOMAIN resolved' = Runs /\ \A q \in Runs \ {r} : resolved'[q] = resolved[q]
    BY <1>2 DEF PlanInv
  <2>2. pc'[r] = "over" /\ \A q \in Runs \ {r} : pc'[q] = pc[q]
    BY <1>2 DEF TypeOK
  <2> QED BY <1>0, <1>2, <2>1, <2>2
<1>3. CASE /\ pc' = [pc EXCEPT ![r] = "arguments"] /\ since' = since \cup {r} /\ UNCHANGED resolved
           /\ raced' = IF alone(r) THEN raced ELSE raced \cup {r}
           /\ masks' = [masks EXCEPT ![r] = plan]
  <2>1. lost \subseteq Path /\ IsFiniteSet(lost)
    <3>1. resolved[r].write_deny \subseteq Path /\ IsFiniteSet(resolved[r].write_deny)
      BY <1>0 DEF PlanInv
    <3>2. lost \in SUBSET resolved[r].write_deny
      BY DEF Lost
    <3> HIDE DEF lost
    <3> QED BY <3>1, <3>2, FS_Subset
  <2>2. ways \in [1..Cardinality(lost) -> lost] /\ \A p \in lost : \E i \in DOMAIN ways : ways[i] = p
    <3> HIDE DEF lost
    <3> QED BY <2>1, SortedIs, SortedOnto
  <2>3. DOMAIN plan = DOMAIN ways /\ \A i \in DOMAIN ways : plan[i] = mask_directories(ways[i])
    OBVIOUS
  <2>4. masks \in [Runs -> Seq(Seq(Path))]
    BY DEF TypeOK
  <2> HIDE DEF plan
  <2>5. masks'[r] = plan /\ \A q \in Runs \ {r} : masks'[q] = masks[q]
    BY <1>3, <2>4
  <2>6. pc'[r] = "arguments" /\ \A q \in Runs \ {r} : pc'[q] = pc[q]
    BY <1>3 DEF TypeOK
  <2> HIDE DEF lost, ways
  <2>7. DOMAIN masks'[r] = DOMAIN ways /\ \A i \in DOMAIN ways : masks'[r][i] = mask_directories(ways[i])
    BY <2>3, <2>5
  <2>8. \A i \in DOMAIN masks'[r] : \E p \in lost : masks'[r][i] = mask_directories(p)
    BY <2>2, <2>7
  <2>9. \A p \in lost : \E i \in DOMAIN masks'[r] : masks'[r][i] = mask_directories(p)
    BY <2>2, <2>7
  <2>10. DOMAIN resolved' = Runs /\ resolved' = resolved
    BY <1>3 DEF PlanInv
  <2> QED BY <1>0, <1>3, <2>5, <2>6, <2>8, <2>9, <2>10 DEF lost
<1> HIDE DEF plan
<1> QED BY <1>1, <1>2, <1>3

\* A run that plans has what its policy denies before it, wherever links lead.
PlanMeant == \A r \in Runs : pc[r] = "plan" => resolved[r].write_deny = Denied(policy)

LEMMA PlansMean ==
  ASSUME TreesClosed, LinksApart, LinksLead PROVE Spec => []PlanMeant
<1>1. Init => PlanMeant
  BY DEF Init, PlanMeant
<1>2. MaskInv /\ PlanInv /\ PlanMeant /\ [Next]_vars => PlanMeant'
  <2> SUFFICES ASSUME MaskInv, PlanInv, PlanMeant, [Next]_vars PROVE PlanMeant'
    OBVIOUS
  <2>0. TypeOK /\ OwnInv
    BY DEF MaskInv
  <2>1. CASE ~ \E r \in Runs : prepare(r)
    BY <2>0, <2>1, OnlyPrepared DEF PlanMeant
  <2>2. CASE \E r \in Runs : prepare(r)
    <3>1. PICK r \in Runs : prepare(r)
      BY <2>2
    <3>2. UNCHANGED policy
      BY <3>1 DEF prepare
    <3>3. CASE UNCHANGED resolved /\ goto(r, "over")
      BY <2>0, <3>2, <3>3 DEF goto, PlanMeant, TypeOK
    <3>4. ASSUME NEW program, resolved' = [resolved EXCEPT ![r] = resolve(dirs, program)], goto(r, "plan") PROVE PlanMeant'
      <4> DEFINE sandbox == resolve(dirs, program)
      <4>1. policy \in Policies /\ first \in Existing /\ first \subseteq dirs
        BY <2>0 DEF TypeOK, OwnInv
      <4>2. sandbox.write_deny = Denied(policy)
        BY <4>1, DeniedIs
      <4> HIDE DEF sandbox
      <4>3. resolved' = [resolved EXCEPT ![r] = sandbox]
        BY <3>4 DEF sandbox
      <4>4. resolved'[r] = sandbox /\ \A q \in Runs \ {r} : resolved'[q] = resolved[q] /\ pc'[q] = pc[q]
        BY <2>0, <3>4, <4>3 DEF goto, PlanInv, TypeOK
      <4> QED BY <3>2, <4>2, <4>4 DEF PlanMeant
    <3> QED BY Zenon, <3>1, <3>3, <3>4 DEF prepare
  <2> QED BY <2>1, <2>2
<1> QED BY <1>1, <1>2, MasksCorrect, PTL DEF Spec

LEMMA PrepareLeaves ==
  ASSUME MaskInv, LeftInv, NEW r \in Runs, prepare(r) PROVE LeftInv'
<1>0. TypeOK /\ RunsLeft /\ MarksLeft /\ DirsLeft /\ DeadLeft
  BY DEF MaskInv, LeftInv
<1>1. /\ pc[r] = "off" /\ alive(r) /\ (pc' = [pc EXCEPT ![r] = "plan"] \/ pc' = [pc EXCEPT ![r] = "over"])
      /\ UNCHANGED <<policy, first, dirs, markers, masks, todo, held, dead>>
  BY DEF prepare, goto
<1>2. Only(r) /\ pc'[r] \in {"plan", "over"}
  BY <1>0, <1>1 DEF Only, TypeOK
<1>3. held[r].markers = <<>> /\ held[r].directories = <<>>
  BY <1>0, <1>1 DEF RunsLeft, HeldOk
<1>4. Building(r) = {} /\ Keeps(r) = {} /\ Building(r)' = {} /\ Keeps(r)' = {}
  BY <1>1, <1>2, <1>3, NoneIn DEF Building, Keeps
<1>5. RunsLeft'
  <2>1. HeldOk(held'[r], pc'[r], first)
    BY <1>1, <1>3, NoneIn DEF HeldOk, Closed
  <2>2. PlanOk(masks'[r], todo'[r], held'[r].directories, pc'[r], policy, first)
    BY <1>0, <1>1, <1>2 DEF RunsLeft, PlanOk
  <2> QED BY <1>0, <1>2, <2>1, <2>2, RunsStep
<1>6. MarksLeft'
  BY <1>0, <1>1, <1>2, <1>4, MarksStep
<1>7. DirsLeft'
  BY <1>0, <1>1, <1>2, <1>4, DirsStep
<1>8. DeadLeft'
  BY <1>0, <1>1, <1>2, DeadStep
<1> QED BY <1>5, <1>6, <1>7, <1>8 DEF LeftInv

LEMMA PlanLeaves ==
  ASSUME TreesClosed, LinksApart, LinksLead, MaskInv, PlanInv, PlanMeant, LeftInv,
         NEW r \in Runs, plan_masks(r), raced' = {}
  PROVE  LeftInv'
<1>0. TypeOK /\ AliveInv /\ HeldInv /\ OwnInv /\ RunsLeft /\ MarksLeft /\ DirsLeft /\ DeadLeft
  BY DEF MaskInv, LeftInv
<1>1. /\ pc[r] = "plan" /\ \A q \in Runs \ {r} : masks'[q] = masks[q] /\ pc'[q] = pc[q]
      /\ UNCHANGED <<policy, first, dirs, markers, todo, held, dead>>
      /\ \/ pc'[r] = "over" /\ UNCHANGED masks
         \/ /\ pc'[r] = "arguments" /\ raced' = IF alone(r) THEN raced ELSE raced \cup {r}
            /\ \A i \in DOMAIN masks'[r] : \E p \in Lost(resolved[r]) : masks'[r][i] = mask_directories(p)
  BY <1>0, Planned
<1>2. Only(r) /\ pc'[r] \in {"arguments", "over"} /\ alive(r)
  BY <1>0, <1>1 DEF Only, AliveInv
<1>3. held[r].markers = <<>> /\ held[r].directories = <<>>
  BY <1>0, <1>1, <1>2 DEF RunsLeft, HeldOk
<1>4. Building(r) = {} /\ Keeps(r) = {} /\ Building(r)' = {} /\ Keeps(r)' = {}
  BY <1>1, <1>2, <1>3, NoneIn DEF Building, Keeps
<1>5. \A i \in DOMAIN masks'[r] : IsMask(masks'[r][i], policy, first)
  <2>1. CASE UNCHANGED masks
    BY <1>0, <1>2, <2>1 DEF RunsLeft, PlanOk
  <2>2. ASSUME raced' = IF alone(r) THEN raced ELSE raced \cup {r},
               NEW i \in DOMAIN masks'[r], NEW p \in Lost(resolved[r]), masks'[r][i] = mask_directories(p)
        PROVE  IsMask(masks'[r][i], policy, first)
    <3>1. alone(r)
      BY <2>2
    <3>2. p \in Denied(policy) /\ p \in Path /\ mask_directories(p) # <<>>
      <4>1. p \in resolved[r].write_deny /\ mask_directories(p) # <<>>
        BY DEF Lost
      <4>2. resolved[r].write_deny \subseteq Path /\ resolved[r].write_deny = Denied(policy)
        BY <1>1 DEF PlanInv, PlanMeant
      <4> QED BY <4>1, <4>2
    <3>3. /\ first \in Existing /\ first \subseteq dirs /\ \A m \in markers : m[1] \notin first
          /\ \A d \in dirs : d \in first \/ is_marked(d)
      BY <1>0, <1>1, <3>1, AllMarked DEF TypeOK, OwnInv
    <3>4. /\ Closed(mask_directories(p), first) /\ mask_directories(p)[1] = p
          /\ ToSet(mask_directories(p)) = Chain(p, first)
      BY <3>2, <3>3, WholeMask
    <3> QED BY <2>2, <3>2, <3>4 DEF IsMask
  <2> QED BY <1>1, <2>1, <2>2
<1>6. RunsLeft'
  <2>1. HeldOk(held'[r], pc'[r], first)
    BY <1>1, <1>3, NoneIn DEF HeldOk, Closed
  <2>2. PlanOk(masks'[r], todo'[r], held'[r].directories, pc'[r], policy, first)
    <3>1. \A i \in DOMAIN todo'[r] : IsMask(todo'[r][i], policy, first)
      BY <1>0, <1>1, <1>2 DEF RunsLeft, PlanOk
    <3> QED BY <1>2, <1>5, <3>1 DEF PlanOk
  <2> QED BY <1>0, <1>2, <2>1, <2>2, RunsStep
<1>7. MarksLeft'
  BY <1>0, <1>1, <1>2, <1>4, MarksStep
<1>8. DirsLeft'
  BY <1>0, <1>1, <1>2, <1>4, DirsStep
<1>9. DeadLeft'
  BY <1>0, <1>1, <1>2, DeadStep
<1> QED BY <1>6, <1>7, <1>8, <1>9 DEF LeftInv

LEMMA ArgumentsLeave ==
  ASSUME MaskInv, LeftInv, NEW r \in Runs, arguments(r) PROVE LeftInv'
<1>0. TypeOK /\ AliveInv /\ RunsLeft /\ MarksLeft /\ DirsLeft /\ DeadLeft
  BY DEF MaskInv, LeftInv
<1>1. /\ pc[r] = "arguments" /\ alive(r) /\ pc' = [pc EXCEPT ![r] = IF masks[r] = <<>> THEN "spawn" ELSE "create"]
      /\ todo' = [todo EXCEPT ![r] = masks[r]]
      /\ UNCHANGED <<policy, first, dirs, markers, masks, held, dead>>
  BY <1>0 DEF arguments, goto, AliveInv
<1>2. Only(r) /\ todo'[r] = masks[r] /\ pc'[r] \in {"spawn", "create"} /\ (masks[r] # <<>> => pc'[r] = "create")
  BY <1>0, <1>1 DEF Only, TypeOK
<1>3. held[r].markers = <<>> /\ held[r].directories = <<>>
  BY <1>0, <1>1 DEF RunsLeft, HeldOk
<1>4. ToSet(held[r].markers) \cup Building(r) = {} /\ Keeps(r) = {}
  BY <1>1, <1>3, NoneIn DEF Building, Keeps
<1>5. RunsLeft'
  <2>1. HeldOk(held'[r], pc'[r], first)
    BY <1>1, <1>2, <1>3, NoneIn DEF HeldOk, Closed
  <2>2. PlanOk(masks'[r], todo'[r], held'[r].directories, pc'[r], policy, first)
    <3>1. \A i \in DOMAIN masks[r] : IsMask(masks[r][i], policy, first)
      BY <1>0, <1>1 DEF RunsLeft, PlanOk
    <3>2. CASE masks[r] = <<>>
      BY <1>1, <1>2, <3>2 DEF PlanOk
    <3>3. CASE masks[r] # <<>>
      BY <1>1, <1>2, <3>1, <3>3 DEF PlanOk
    <3> QED BY <3>2, <3>3
  <2> QED BY <1>0, <1>2, <2>1, <2>2, RunsStep
<1>6. MarksLeft'
  BY <1>0, <1>1, <1>2, <1>4, MarksStep
<1>7. DirsLeft'
  BY <1>0, <1>1, <1>2, <1>4, DirsStep
<1>8. DeadLeft'
  BY <1>0, <1>1, <1>2, DeadStep
<1> QED BY <1>5, <1>6, <1>7, <1>8 DEF LeftInv

\* The mask that a run builds.
LEMMA BuildingIs ==
  ASSUME MaskInv, RunsLeft, NEW r \in Runs, pc[r] \in {"create", "mark"}
  PROVE  /\ alive(r) /\ todo[r] # <<>> /\ Building(r) = ToSet(Head(todo[r])) /\ Head(todo[r]) = todo[r][1]
         /\ Head(todo[r]) \in Seq(Path) /\ needed(r) \in Seq(Path) /\ ToSet(needed(r)) = Building(r)
         /\ step[r] \in 1..Len(needed(r)) /\ needed(r)[step[r]] \in Building(r) /\ Len(needed(r)) \in Nat
         /\ Closed(Head(todo[r]), first)
         /\ \E p \in Denied(policy) : Building(r) = Chain(p, first)
<1>1. todo[r] # <<>> /\ step[r] \in 1..Len(Head(todo[r])) /\ alive(r) /\ TypeOK
  BY DEF MaskInv, StepInv, AliveInv
<1>2. /\ Head(todo[r]) \in Seq(Path) /\ Head(todo[r]) = todo[r][1] /\ 1 \in DOMAIN todo[r]
      /\ needed(r) \in Seq(Path) /\ Len(needed(r)) = Len(Head(todo[r]))
      /\ \A i \in 1..Len(needed(r)) : \E k \in DOMAIN todo[r][1] : needed(r)[i] = todo[r][1][k]
      /\ \A k \in DOMAIN todo[r][1] : \E i \in 1..Len(needed(r)) : todo[r][1][k] = needed(r)[i]
  BY <1>1, Needed
<1>3. Building(r) = ToSet(Head(todo[r]))
  BY DEF Building
<1>4. DOMAIN needed(r) = 1..Len(needed(r)) /\ Len(needed(r)) \in Nat
  BY <1>2
<1>5. ToSet(needed(r)) = ToSet(todo[r][1])
  <2>1. \A d : d \in ToSet(needed(r)) <=> \E i \in 1..Len(needed(r)) : d = needed(r)[i]
    BY <1>4 DEF ToSet
  <2>2. \A d : d \in ToSet(todo[r][1]) <=> \E k \in DOMAIN todo[r][1] : d = todo[r][1][k]
    BY DEF ToSet
  <2>3. ASSUME NEW d \in ToSet(needed(r)) PROVE d \in ToSet(todo[r][1])
    <3>1. PICK i \in 1..Len(needed(r)) : d = needed(r)[i]
      BY <2>1
    <3>2. PICK k \in DOMAIN todo[r][1] : needed(r)[i] = todo[r][1][k]
      BY <1>2
    <3> QED BY <2>2, <3>1, <3>2
  <2>4. ASSUME NEW d \in ToSet(todo[r][1]) PROVE d \in ToSet(needed(r))
    <3>1. PICK k \in DOMAIN todo[r][1] : d = todo[r][1][k]
      BY <2>2
    <3>2. PICK i \in 1..Len(needed(r)) : todo[r][1][k] = needed(r)[i]
      BY <1>2
    <3> QED BY <2>1, <3>1, <3>2
  <2> QED BY <2>3, <2>4, Zenon
<1>6. needed(r)[step[r]] \in ToSet(needed(r)) /\ step[r] \in 1..Len(needed(r))
  BY <1>1, <1>2, <1>4 DEF ToSet
<1>7. IsMask(todo[r][1], policy, first)
  BY <1>1, <1>2 DEF RunsLeft, PlanOk
<1> QED BY <1>1, <1>2, <1>3, <1>4, <1>5, <1>6, <1>7 DEF IsMask

LEMMA CreateLeaves ==
  ASSUME MaskInv, LeftInv, NEW r \in Runs, create(r), raced' = {} PROVE LeftInv'
<1>0. TypeOK /\ AliveInv /\ RunsLeft /\ MarksLeft /\ DirsLeft /\ DeadLeft
  BY DEF MaskInv, LeftInv
<1>1. /\ pc[r] = "create" /\ UNCHANGED <<policy, first, markers, masks, held, dead, todo>>
      /\ dirs' = dirs \cup {needed(r)[step[r]]}
      /\ pc' = pc \/ pc' = [pc EXCEPT ![r] = "mark"]
  <2>1. raced' # raced \cup {r}
    OBVIOUS
  <2> QED BY <2>1 DEF create, goto
<1>2. Only(r) /\ pc'[r] \in {"create", "mark"}
  BY <1>0, <1>1 DEF Only, TypeOK
<1>3. alive(r) /\ needed(r)[step[r]] \in Building(r)
  BY <1>0, <1>1, BuildingIs
<1>4. Building(r)' = Building(r) /\ Keeps(r)' = Keeps(r) /\ Building(r) \subseteq Keeps(r)
  BY <1>1, <1>2 DEF Building, Keeps
<1>5. RunsLeft'
  <2>1. HeldOk(held'[r], pc'[r], first)
    BY <1>0, <1>1, <1>2, <1>3 DEF HeldOk, RunsLeft
  <2>2. PlanOk(masks'[r], todo'[r], held'[r].directories, pc'[r], policy, first)
    BY <1>0, <1>1, <1>2, <1>3 DEF PlanOk, RunsLeft
  <2> QED BY <1>0, <1>2, <2>1, <2>2, RunsStep
<1>6. MarksLeft'
  BY <1>0, <1>1, <1>2, <1>4, MarksStep
<1>7. DirsLeft'
  BY <1>0, <1>1, <1>2, <1>3, <1>4, DirsStep
<1>8. DeadLeft'
  BY <1>0, <1>1, <1>2, DeadStep
<1> QED BY <1>5, <1>6, <1>7, <1>8 DEF LeftInv

\* With a directory of a mask its parent is one.
LEMMA ChainParent ==
  ASSUME NEW path \in Path, NEW e, <<>> \in e, NEW d \in Chain(path, e), parent(d) \notin e
  PROVE  parent(d) \in Chain(path, e)
<1>0. Len(path) \in Nat
  BY DEF Path
<1>1. PICK n \in 1..Len(path) : d = SubSeq(path, 1, n)
  BY DEF Chain
<1>2. parent(d) = SubSeq(path, 1, n - 1)
  BY <1>1, ParentOfPart
<1>3. n # 1
  <2>1. n = 1 => n - 1 = 0
    OBVIOUS
  <2> QED BY <1>2, <2>1, EmptyPart, Zenon
<1>4. n - 1 \in 1..Len(path)
  BY <1>0, <1>3
<1> QED BY <1>2, <1>4 DEF Chain

\* A mask that is whole is held, and the markers of the dead in it are gone.
LEMMA MaskBuilt ==
  ASSUME TreesClosed, LinksApart, LinksLead, MasksApart \/ CrashPoints = {},
         MaskInv, LeftInv, NEW r \in Runs, pc[r] = "mark",
         markers' = {m \in markers \cup {<<needed(r)[step[r]], r>>} : m[1] \in ToSet(needed(r)) => alive(m[2])},
         held' = [held EXCEPT ![r] = [markers |-> held[r].markers \o needed(r),
                                      directories |-> held[r].directories \o Head(todo[r])]],
         next_mask(r), UNCHANGED <<policy, first, dirs, masks, dead>>
  PROVE  LeftInv'
<1>0. TypeOK /\ StepInv /\ RunsLeft /\ MarksLeft /\ DirsLeft /\ DeadLeft
  BY DEF MaskInv, LeftInv
<1>a. /\ alive(r) /\ todo[r] # <<>> /\ Building(r) = ToSet(Head(todo[r])) /\ Head(todo[r]) = todo[r][1]
      /\ Head(todo[r]) \in Seq(Path) /\ needed(r) \in Seq(Path) /\ ToSet(needed(r)) = Building(r)
      /\ needed(r)[step[r]] \in Building(r)
      /\ Closed(Head(todo[r]), first)
      /\ \E p \in Denied(policy) : Building(r) = Chain(p, first)
  BY <1>0, BuildingIs
<1>b. /\ pc' = [pc EXCEPT ![r] = IF Len(todo[r]) = 1 THEN "spawn" ELSE "create"]
      /\ \A q \in Runs \ {r} : todo'[q] = todo[q] /\ pc'[q] = pc[q]
      /\ \A i \in DOMAIN todo'[r] : \E k \in DOMAIN todo[r] : todo'[r][i] = todo[r][k]
  BY <1>0, <1>a, NextMask
<1>c. pc'[r] = (IF Len(todo[r]) = 1 THEN "spawn" ELSE "create") /\ pc'[r] \in {"spawn", "create"}
  BY <1>0, <1>b DEF TypeOK
<1>1. /\ held \in [Runs -> [markers : Seq(Path), directories : Seq(Path)]]
      /\ held[r].markers \in Seq(Path) /\ held[r].directories \in Seq(Path)
  BY <1>0 DEF TypeOK
<1>2. /\ held'[r].markers = held[r].markers \o needed(r)
      /\ held'[r].directories = held[r].directories \o Head(todo[r])
      /\ \A q \in Runs \ {r} : held'[q] = held[q]
  BY <1>1
<1>3. Only(r)
  BY <1>b, <1>2 DEF Only
<1>4. HeldOk(held[r], pc[r], first) /\ PlanOk(masks[r], todo[r], held[r].directories, pc[r], policy, first)
  BY <1>0, <1>a DEF RunsLeft
<1>5. /\ ToSet(held'[r].markers) = ToSet(held[r].markers) \cup Building(r)
      /\ ToSet(held'[r].directories) = ToSet(held[r].directories) \cup Building(r)
      /\ Closed(held'[r].directories, first)
  <2>1. ToSet(held[r].markers \o needed(r)) = ToSet(held[r].markers) \cup ToSet(needed(r))
    BY <1>a, <1>1, ConcatSet
  <2>2. /\ ToSet(held[r].directories \o Head(todo[r])) = ToSet(held[r].directories) \cup ToSet(Head(todo[r]))
        /\ Closed(held[r].directories \o Head(todo[r]), first)
    BY <1>a, <1>1, <1>4, ClosedConcat DEF HeldOk
  <2> QED BY <1>a, <1>2, <2>1, <2>2
<1>6. HeldOk(held'[r], pc'[r], first)
  BY <1>c, <1>4, <1>5 DEF HeldOk
<1>7. PlanOk(masks'[r], todo'[r], held'[r].directories, pc'[r], policy, first)
  <2>1. \A i \in DOMAIN todo'[r] : IsMask(todo'[r][i], policy, first)
    BY <1>b, <1>4 DEF PlanOk
  <2>2. ASSUME NEW i \in DOMAIN masks[r]
        PROVE  \/ pc'[r] # "spawn" /\ \E k \in DOMAIN todo'[r] : todo'[r][k] = masks[r][i]
               \/ ToSet(masks[r][i]) \subseteq ToSet(held'[r].directories)
    <3>1. CASE ToSet(masks[r][i]) \subseteq ToSet(held[r].directories)
      BY <1>5, <3>1
    <3>2. CASE \E k \in DOMAIN todo[r] : todo[r][k] = masks[r][i]
      <4>1. PICK k \in DOMAIN todo[r] : todo[r][k] = masks[r][i]
        BY <3>2
      <4>2. CASE k = 1
        BY <1>a, <1>5, <4>1, <4>2
      <4>3. CASE k # 1
        <5>1. todo[r] \in Seq(Seq(Path)) /\ todo \in [Runs -> Seq(Seq(Path))]
          BY <1>0 DEF TypeOK
        <5>2. todo'[r] = Tail(todo[r])
          BY <5>1 DEF next_mask
        <5>3. Len(todo[r]) \in Nat /\ k \in 1..Len(todo[r]) /\ Len(todo[r]) # 1
          BY <4>3, <5>1
        <5>4. k - 1 \in DOMAIN Tail(todo[r]) /\ Tail(todo[r])[k - 1] = todo[r][k]
          <6> DEFINE s == todo[r]
                     t == Tail(s)
          <6>1. s \in Seq(Seq(Path)) /\ s # <<>> /\ k \in 1..Len(s) /\ k # 1 /\ Len(s) \in Nat
            BY <1>a, <4>3, <5>1, <5>3
          <6> HIDE DEF s
          <6>2. t \in Seq(Seq(Path)) /\ Len(t) = Len(s) - 1 /\ \A j \in 1..Len(t) : t[j] = s[j + 1]
            BY <6>1
          <6>3. k - 1 \in 1..Len(t) /\ (k - 1) + 1 = k
            BY <6>1, <6>2
          <6> HIDE DEF t
          <6>4. k - 1 \in DOMAIN t /\ t[k - 1] = s[k]
            BY <6>2, <6>3
          <6> QED BY <6>4 DEF t, s
        <5> QED BY <1>c, <4>1, <5>2, <5>3, <5>4
      <4> QED BY <4>2, <4>3
    <3> QED BY <1>4, <3>1, <3>2 DEF PlanOk
  <2> QED BY <1>4, <2>1, <2>2 DEF PlanOk
<1>8. RunsLeft'
  BY <1>0, <1>3, <1>6, <1>7, RunsStep
<1>9. MarksLeft'
  <2>1. \A m \in markers' : m \in markers \/ m = <<needed(r)[step[r]], r>>
    OBVIOUS
  <2>2. \E p \in Denied(policy) : needed(r)[step[r]] \in Chain(p, first)
    BY <1>a
  <2>3. \A m \in markers' : \/ m \in markers
                            \/ /\ m[2] = r /\ m[1] \in ToSet(held'[r].markers) \cup Building(r)'
                               /\ \E p \in Denied(policy) : m[1] \in Chain(p, first)
    BY <1>a, <1>5, <2>1, <2>2
  <2> QED BY <1>0, <1>3, <1>5, <2>3, MarksStep
<1>10. DirsLeft'
  <2>1. Keeps(r) \subseteq Keeps(r)' /\ ToSet(needed(r)) \subseteq Keeps(r)'
    BY <1>a, <1>5 DEF Keeps
  <2>2. \A m \in markers : ~alive(m[2]) => m \in markers' \/ m[1] \in Keeps(r)'
    BY <2>1
  <2> QED BY <1>0, <1>a, <1>3, <2>1, <2>2, DirsStep
<1>11. DeadLeft'
  <2>1. ASSUME NEW m \in markers', ~alive(m[2]) PROVE parent(m[1]) \in first \/ Abandoned(parent(m[1]), markers', dead)
    <3>1. m \in markers /\ m[1] \notin Building(r)
      BY <1>a, <2>1
    <3> SUFFICES ASSUME parent(m[1]) \notin first PROVE Abandoned(parent(m[1]), markers', dead)
      OBVIOUS
    <3>2. PICK a \in markers : a[1] = parent(m[1]) /\ ~alive(a[2])
      BY <1>0, <2>1, <3>1 DEF DeadLeft, Abandoned, alive
    <3>3. a[1] \notin Building(r)
      <4> SUFFICES ASSUME a[1] \in Building(r) PROVE FALSE
        OBVIOUS
      <4>1. MasksApart
        BY <1>0, <2>1 DEF DeadLeft, alive
      <4>2. PICK p \in Denied(policy) : Building(r) = Chain(p, first)
        BY <1>a
      <4>3. PICK b \in Denied(policy) : m[1] \in Chain(b, first)
        BY <1>0, <3>1 DEF MarksLeft
      <4>4. policy \in Policies /\ first \in Existing /\ <<>> \in first
        BY <1>0 DEF TypeOK, TreesClosed
      <4>5. b \in Path
        BY <4>4, DeniedIs
      <4>6. parent(m[1]) \in Chain(b, first)
        BY <4>3, <4>4, <4>5, ChainParent
      <4>7. p = b
        BY <3>2, <4>1, <4>2, <4>4, <4>6 DEF MasksApart
      <4> QED BY <3>1, <4>2, <4>3, <4>7
    <3>4. a \in markers'
      BY <1>a, <3>2, <3>3
    <3> QED BY <3>2, <3>4 DEF Abandoned, alive
  <2> QED BY <1>0, <2>1 DEF DeadLeft, alive
<1> QED BY <1>8, <1>9, <1>10, <1>11 DEF LeftInv

LEMMA MarkLeaves ==
  ASSUME TreesClosed, LinksApart, LinksLead, MasksApart \/ CrashPoints = {},
         MaskInv, LeftInv, NEW r \in Runs, mark(r), raced' = {}
  PROVE  LeftInv'
<1>0. TypeOK /\ RunsLeft /\ MarksLeft /\ DirsLeft /\ DeadLeft
  BY DEF MaskInv, LeftInv
<1> DEFINE path == needed(r)[step[r]]
<1>1. pc[r] = "mark" /\ UNCHANGED <<policy, first, dirs, masks, dead>>
  BY DEF mark
<1>2. alive(r) /\ path \in Building(r) /\ \E p \in Denied(policy) : Building(r) = Chain(p, first)
  BY <1>0, <1>1, BuildingIs
<1>3. ASSUME Only(r), held' = held, todo' = todo, pc'[r] \in {"create", "mark"},
             markers' = markers \/ markers' = markers \cup {<<path, r>>}
      PROVE  LeftInv'
  <2>1. Building(r)' = Building(r) /\ Keeps(r)' = Keeps(r)
    BY <1>1, <1>3 DEF Building, Keeps
  <2>2. RunsLeft'
    <3>1. HeldOk(held'[r], pc'[r], first)
      BY <1>0, <1>2, <1>3 DEF HeldOk, RunsLeft
    <3>2. PlanOk(masks'[r], todo'[r], held'[r].directories, pc'[r], policy, first)
      BY <1>0, <1>1, <1>2, <1>3 DEF PlanOk, RunsLeft
    <3> QED BY <1>0, <1>3, <3>1, <3>2, RunsStep
  <2>3. MarksLeft'
    <3>1. \A m \in markers' : \/ m \in markers
                              \/ /\ m[2] = r /\ m[1] \in ToSet(held'[r].markers) \cup Building(r)'
                                 /\ \E p \in Denied(policy) : m[1] \in Chain(p, first)
      <4>1. \A m \in markers' : m \in markers \/ m = <<path, r>>
        BY <1>3
      <4> HIDE DEF path
      <4> QED BY <1>2, <2>1, <4>1
    <3> QED BY <1>0, <1>3, <2>1, <3>1, MarksStep
  <2>4. DirsLeft'
    BY <1>0, <1>1, <1>2, <1>3, <2>1, DirsStep
  <2>5. DeadLeft'
    <3>1. \A m : ~alive(m[2]) => (m \in markers <=> m \in markers')
      <4> HIDE DEF path
      <4> QED BY <1>2, <1>3
    <3> QED BY <1>0, <1>3, <3>1, DeadStep
  <2> QED BY <2>2, <2>3, <2>4, <2>5 DEF LeftInv
<1>4. CASE markers' = markers \cup {<<path, r>>} /\ UNCHANGED <<pc, held, todo>>
  BY <1>1, <1>3, <1>4 DEF Only
<1>5. CASE goto(r, "create") /\ UNCHANGED <<markers, held, todo>>
  BY <1>0, <1>1, <1>3, <1>5 DEF Only, goto, TypeOK
<1>6. CASE /\ markers' = {m \in markers \cup {<<path, r>>} : m[1] \in ToSet(needed(r)) => alive(m[2])}
           /\ held' = [held EXCEPT ![r] = [markers |-> @.markers \o needed(r),
                                           directories |-> @.directories \o Head(todo[r])]]
           /\ next_mask(r)
  BY <1>1, <1>6, MaskBuilt
<1>7. raced' # raced \cup {r}
  OBVIOUS
<1> QED BY <1>4, <1>5, <1>6, <1>7 DEF mark

LEMMA TailSet ==
  ASSUME NEW s \in Seq(Path), s # <<>> PROVE ToSet(s) = {Head(s)} \cup ToSet(Tail(s))
<1> DEFINE e == {parent(s[i]) : i \in DOMAIN s}
<1>1. \A i \in DOMAIN s : parent(s[i]) \in e
  OBVIOUS
<1> HIDE DEF e
<1>2. Closed(s, e)
  BY <1>1 DEF Closed
<1> QED BY <1>2, ClosedTail

\* bwrap finds every mask in place, and makes nothing.
LEMMA SpawnBuildsNothing ==
  ASSUME TreesClosed, MaskInv, RunsLeft, NEW r \in Runs, spawn(r) PROVE dirs' = dirs
<1>0. TypeOK /\ StepInv /\ AliveInv /\ HeldInv /\ OwnInv
  BY DEF MaskInv
<1>1. pc[r] = "spawn" /\ alive(r)
  BY <1>0 DEF spawn, AliveInv
<1>2. \A d \in ToSet(held[r].directories) : d \in dirs
  BY <1>0, <1>1 DEF HeldInv, Holding, ToSet
<1>3. ASSUME NEW p \in planned(r) PROVE p \in dirs /\ \A a \in ancestors(p) : a \in dirs
  <2>1. PICK m \in ToSet(masks[r]) : p = Head(m)
    BY DEF planned
  <2>2. PICK i \in DOMAIN masks[r] : m = masks[r][i]
    BY DEF ToSet
  <2>3. m \in Seq(Path) /\ m # <<>>
    BY <1>0, <2>2 DEF TypeOK, StepInv
  <2>4. p = m[1] /\ p \in ToSet(m) /\ p \in Path
    BY <2>1, <2>3 DEF ToSet
  <2>5. IsMask(m, policy, first) /\ ToSet(m) \subseteq ToSet(held[r].directories)
    BY <1>1, <2>2 DEF RunsLeft, PlanOk
  <2>6. ToSet(m) = Chain(p, first) /\ \A d \in Chain(p, first) : d \in dirs
    BY <1>2, <2>4, <2>5 DEF IsMask
  <2>7. ASSUME NEW n \in 0..(Len(p) - 1) PROVE SubSeq(p, 1, n) \in dirs
    <3>1. CASE n = 0
      BY <1>0, <3>1, EmptyPart DEF TreesClosed, OwnInv, TypeOK
    <3>2. CASE n # 0
      <4>1. Len(p) \in Nat /\ n \in 1..Len(p)
        BY <2>4, <3>2 DEF Path
      <4>2. SubSeq(p, 1, n) \in first \/ SubSeq(p, 1, n) \in Chain(p, first)
        BY <4>1 DEF Chain
      <4> QED BY <1>0, <2>6, <4>2 DEF OwnInv
    <3> QED BY <3>1, <3>2
  <2> QED BY <2>4, <2>6, <2>7 DEF ancestors
<1> DEFINE above == UNION {ancestors(p) : p \in planned(r)}
<1>4. above \subseteq dirs
  BY <1>3
<1>5. dirs' = dirs \/ dirs' = dirs \cup planned(r) \cup above
  BY Zenon DEF spawn
<1> HIDE DEF above
<1> QED BY <1>3, <1>4, <1>5

LEMMA SpawnLeaves ==
  ASSUME TreesClosed, MaskInv, LeftInv, NEW r \in Runs, spawn(r) \/ end(r) PROVE LeftInv'
<1>0. TypeOK /\ AliveInv /\ RunsLeft /\ MarksLeft /\ DirsLeft /\ DeadLeft
  BY DEF MaskInv, LeftInv
<1>1. /\ pc[r] \in {"spawn", "run"} /\ alive(r) /\ UNCHANGED <<policy, first, markers, masks, todo, held, dead>>
      /\ (pc' = [pc EXCEPT ![r] = "run"] \/ pc' = [pc EXCEPT ![r] = "unmark"])
  BY <1>0 DEF spawn, end, goto, run_vars, AliveInv
<1>2. dirs' = dirs
  <2>1. CASE spawn(r)
    BY <1>0, <2>1, SpawnBuildsNothing
  <2>2. CASE end(r)
    BY <2>2 DEF end
  <2> QED BY <2>1, <2>2
<1>3. Only(r) /\ pc'[r] \in {"run", "unmark"}
  BY <1>0, <1>1 DEF Only, TypeOK
<1>4. Building(r)' = Building(r) /\ Keeps(r)' = Keeps(r)
  BY <1>1, <1>3 DEF Building, Keeps
<1>5. RunsLeft'
  <2>1. HeldOk(held'[r], pc'[r], first)
    BY <1>0, <1>1, <1>3 DEF HeldOk, RunsLeft
  <2>2. PlanOk(masks'[r], todo'[r], held'[r].directories, pc'[r], policy, first)
    BY <1>0, <1>1, <1>3 DEF PlanOk, RunsLeft
  <2> QED BY <1>0, <1>3, <2>1, <2>2, RunsStep
<1>6. MarksLeft'
  BY <1>0, <1>1, <1>3, <1>4, MarksStep
<1>7. DirsLeft'
  BY <1>0, <1>1, <1>2, <1>3, <1>4, DirsStep
<1>8. DeadLeft'
  BY <1>0, <1>1, <1>3, DeadStep
<1> QED BY <1>5, <1>6, <1>7, <1>8 DEF LeftInv

LEMMA UnmarkLeaves ==
  ASSUME MaskInv, LeftInv, NEW r \in Runs, unmark(r) PROVE LeftInv'
<1>0. TypeOK /\ AliveInv /\ RunsLeft /\ MarksLeft /\ DirsLeft /\ DeadLeft
  BY DEF MaskInv, LeftInv
<1>1. pc[r] = "unmark" /\ alive(r) /\ UNCHANGED <<policy, first, dirs, masks, todo, dead>>
  BY <1>0 DEF unmark, AliveInv
<1>2. /\ held \in [Runs -> [markers : Seq(Path), directories : Seq(Path)]] /\ markers \subseteq Path \X Runs
      /\ held[r].markers \in Seq(Path) /\ held[r] \in [markers : Seq(Path), directories : Seq(Path)]
  BY <1>0 DEF TypeOK
<1>3. HeldOk(held[r], pc[r], first) /\ PlanOk(masks[r], todo[r], held[r].directories, pc[r], policy, first)
  BY <1>0, <1>1 DEF RunsLeft
<1>4. CASE /\ held[r].markers # <<>>
           /\ markers' = markers \ {<<Head(held[r].markers), r>>}
           /\ held' = [held EXCEPT ![r].markers = Tail(@)] /\ UNCHANGED pc
  <2> DEFINE rest == Tail(held[r].markers)
             top == Head(held[r].markers)
  <2>1. ToSet(held[r].markers) = {top} \cup ToSet(rest)
    BY <1>2, <1>4, TailSet
  <2>2. held' = [held EXCEPT ![r].markers = rest] /\ markers' = markers \ {<<top, r>>}
    BY <1>4
  <2> HIDE DEF rest, top
  <2>3. /\ held'[r].markers = rest /\ held'[r].directories = held[r].directories
        /\ \A q \in Runs \ {r} : held'[q] = held[q]
    BY <1>2, <2>2
  <2>4. Only(r)
    BY <1>1, <1>4, <2>3 DEF Only
  <2>5. Building(r) = {} /\ Building(r)' = {} /\ Keeps(r)' = Keeps(r)
    BY <1>1, <1>4, <2>3 DEF Building, Keeps
  <2>6. RunsLeft'
    <3>1. HeldOk(held'[r], pc'[r], first)
      BY <1>1, <1>3, <1>4, <2>1, <2>3 DEF HeldOk
    <3>2. PlanOk(masks'[r], todo'[r], held'[r].directories, pc'[r], policy, first)
      BY <1>1, <1>3, <1>4, <2>3
    <3> QED BY <1>0, <2>4, <3>1, <3>2, RunsStep
  <2>7. MarksLeft'
    <3> SUFFICES ASSUME NEW m \in markers'
                 PROVE  /\ \E p \in Denied(policy') : m[1] \in Chain(p, first')
                        /\ alive(m[2])' => m[1] \in ToSet(held'[m[2]].markers) \cup Building(m[2])'
      BY DEF MarksLeft
    <3>1. m \in markers /\ m[2] \in Runs /\ m = <<m[1], m[2]>> /\ m # <<top, r>>
      BY <1>2, <2>2
    <3>2. \E p \in Denied(policy') : m[1] \in Chain(p, first')
      BY <1>0, <1>1, <3>1 DEF MarksLeft
    <3>3. ASSUME alive(m[2])' PROVE m[1] \in ToSet(held'[m[2]].markers) \cup Building(m[2])'
      <4>1. m[1] \in ToSet(held[m[2]].markers) \cup Building(m[2])
        BY <1>0, <1>1, <3>1, <3>3 DEF MarksLeft, alive
      <4>2. CASE m[2] = r
        <5>1. m[1] # top /\ m[1] \in ToSet(held[r].markers)
          BY <2>5, <3>1, <4>1, <4>2
        <5>2. m[1] \in ToSet(rest)
          BY <2>1, <5>1
        <5> QED BY <2>3, <4>2, <5>2
      <4>3. CASE m[2] # r
        <5>1. held'[m[2]] = held[m[2]] /\ Building(m[2])' = Building(m[2])
          BY <2>4, <3>1, <4>3, OthersKeep DEF Only
        <5> QED BY <4>1, <5>1
      <4> QED BY <4>2, <4>3
    <3> QED BY <3>2, <3>3
  <2>8. \A m : ~alive(m[2]) => (m \in markers <=> m \in markers')
    BY <1>1, <2>2
  <2>9. DirsLeft'
    BY <1>0, <1>1, <2>4, <2>5, <2>8, DirsStep
  <2>10. DeadLeft'
    BY <1>0, <2>4, <2>8, DeadStep
  <2> QED BY <2>6, <2>7, <2>9, <2>10 DEF LeftInv
<1>5. CASE held[r].markers = <<>> /\ goto(r, "rmdir") /\ UNCHANGED <<markers, held>>
  <2>1. Only(r) /\ pc'[r] = "rmdir"
    BY <1>0, <1>1, <1>5 DEF Only, goto, TypeOK
  <2>2. Building(r)' = Building(r) /\ Keeps(r)' = Keeps(r)
    BY <1>1, <1>5, <2>1 DEF Building, Keeps
  <2>3. RunsLeft'
    <3>1. HeldOk(held'[r], pc'[r], first)
      BY <1>1, <1>3, <1>5, <2>1 DEF HeldOk
    <3>2. PlanOk(masks'[r], todo'[r], held'[r].directories, pc'[r], policy, first)
      BY <1>1, <1>3, <1>5, <2>1 DEF PlanOk
    <3> QED BY <1>0, <2>1, <3>1, <3>2, RunsStep
  <2>4. MarksLeft'
    BY <1>0, <1>5, <2>1, <2>2, MarksStep
  <2>5. DirsLeft'
    BY <1>0, <1>1, <1>5, <2>1, <2>2, DirsStep
  <2>6. DeadLeft'
    BY <1>0, <1>5, <2>1, DeadStep
  <2> QED BY <2>3, <2>4, <2>5, <2>6 DEF LeftInv
<1> QED BY <1>4, <1>5 DEF unmark

\* With a directory a run keeps its parent.
LEMMA KeepsParent ==
  ASSUME MaskInv, RunsLeft, NEW q \in Runs, alive(q), NEW c \in Keeps(q), parent(c) \notin first
  PROVE  parent(c) \in Keeps(q)
<1>1. \A s : Closed(s, first) /\ c \in ToSet(s) => parent(c) \in ToSet(s)
  BY DEF Closed, ToSet
<1>2. CASE c \in ToSet(held[q].directories)
  BY <1>1, <1>2 DEF RunsLeft, HeldOk, Keeps
<1>3. CASE c \in Building(q)
  <2>1. pc[q] \in {"create", "mark"}
    BY <1>3 DEF Building
  <2>2. Building(q) = ToSet(Head(todo[q])) /\ Closed(Head(todo[q]), first)
    BY <2>1, BuildingIs
  <2> QED BY <1>1, <1>3, <2>2 DEF Keeps
<1> QED BY <1>2, <1>3 DEF Keeps

\* A directory that is not empty has another run to remove it, or is abandoned.
LEMMA RmdirLeaves ==
  ASSUME TreesClosed, MaskInv, LeftInv, NEW r \in Runs, rmdir(r) PROVE LeftInv'
<1>0. TypeOK /\ AliveInv /\ OwnInv /\ RunsLeft /\ MarksLeft /\ DirsLeft /\ DeadLeft
  BY DEF MaskInv, LeftInv
<1>1. pc[r] = "rmdir" /\ alive(r) /\ UNCHANGED <<policy, first, markers, todo, dead>>
  BY <1>0 DEF rmdir, AliveInv
<1>2. /\ held \in [Runs -> [markers : Seq(Path), directories : Seq(Path)]] /\ masks \in [Runs -> Seq(Seq(Path))]
      /\ held[r].directories \in Seq(Path) /\ held[r] \in [markers : Seq(Path), directories : Seq(Path)]
  BY <1>0 DEF TypeOK
<1>3. HeldOk(held[r], pc[r], first) /\ PlanOk(masks[r], todo[r], held[r].directories, pc[r], policy, first)
  BY <1>0, <1>1 DEF RunsLeft
<1>a. held[r].markers = <<>> /\ Building(r) = {}
  BY <1>1, <1>3 DEF HeldOk, Building
<1>4. CASE /\ held[r].directories # <<>>
           /\ dirs' = IF empty(Head(held[r].directories)) THEN dirs \ {Head(held[r].directories)} ELSE dirs
           /\ held' = [held EXCEPT ![r].directories = Tail(@)] /\ UNCHANGED pc
           /\ UNCHANGED <<resolved, masks, mounts>>
  <2> DEFINE s == held[r].directories
             rest == Tail(s)
             top == Head(s)
  <2>1. /\ Closed(rest, first) /\ ToSet(s) = {top} \cup ToSet(rest)
        /\ \A p \in ToSet(s) : parent(p) \in first \/ parent(p) \in ToSet(rest)
    BY <1>2, <1>3, <1>4, ClosedTail DEF HeldOk
  <2>2. held' = [held EXCEPT ![r].directories = rest] /\ dirs' = IF empty(top) THEN dirs \ {top} ELSE dirs
    BY <1>4
  <2>3. top \notin first
    <3>1. s \in Seq(Path) /\ s # <<>> /\ \A k \in DOMAIN s : s[k] \notin first
      BY <1>0, <1>2, <1>4 DEF OwnInv
    <3> QED BY <3>1
  <2> HIDE DEF rest, top
  <2>4. /\ held'[r].directories = rest /\ held'[r].markers = <<>>
        /\ \A q \in Runs \ {r} : held'[q] = held[q]
    BY <1>2, <1>a, <2>2
  <2>5. Only(r)
    BY <1>1, <1>4, <2>4 DEF Only
  <2>6. Building(r)' = {} /\ Keeps(r)' = ToSet(rest) /\ Keeps(r) = {top} \cup ToSet(rest)
    BY <1>1, <1>4, <1>a, <2>1, <2>4 DEF Building, Keeps
  <2>7. RunsLeft'
    <3>1. HeldOk(held'[r], pc'[r], first)
      BY <1>1, <1>4, <2>1, <2>4, NoneIn DEF HeldOk
    <3>2. PlanOk(masks'[r], todo'[r], held'[r].directories, pc'[r], policy, first)
      BY <1>1, <1>3, <1>4 DEF PlanOk
    <3> QED BY <1>0, <2>5, <3>1, <3>2, RunsStep
  <2>8. MarksLeft'
    BY <1>0, <1>1, <1>a, <2>4, <2>5, <2>6, MarksStep, NoneIn
  <2>9. ASSUME top \in dirs'
        PROVE  Abandoned(top, markers, dead) \/ \E q \in Runs : alive(q)' /\ top \in Keeps(q)'
    <3>1. ~empty(top)
      BY <2>2, <2>9
    <3>2. CASE is_marked(top)
      <4>1. PICK m \in markers : m[1] = top
        BY <3>2 DEF is_marked
      <4>2. CASE ~alive(m[2])
        BY <4>1, <4>2 DEF Abandoned, alive
      <4>3. CASE alive(m[2])
        <5>1. m[2] \in Runs
          BY <1>0 DEF TypeOK
        <5>2. top \in ToSet(held[m[2]].markers) \cup Building(m[2])
          BY <1>0, <4>1, <4>3 DEF MarksLeft
        <5>3. m[2] # r
          BY <1>a, <5>2, NoneIn
        <5>4. top \in Keeps(m[2])
          BY <1>0, <4>3, <5>1, <5>2 DEF Keeps, RunsLeft, HeldOk
        <5>5. alive(m[2])' /\ top \in Keeps(m[2])'
          BY <2>5, <4>3, <5>1, <5>3, <5>4, OthersKeep
        <5> QED BY <5>1, <5>5
      <4> QED BY <4>2, <4>3
    <3>3. CASE \E c \in dirs : c # <<>> /\ parent(c) = top
      <4>1. PICK c \in dirs : c # <<>> /\ parent(c) = top
        BY <3>3
      <4>2. c \notin first
        BY <1>0, <2>3, <4>1 DEF TreesClosed, TypeOK
      <4>3. CASE Abandoned(c, markers, dead)
        <5>1. PICK m \in markers : m[1] = c /\ ~alive(m[2])
          BY <4>3 DEF Abandoned, alive
        <5> QED BY <1>0, <2>3, <4>1, <5>1 DEF DeadLeft
      <4>4. CASE \E q \in Runs : alive(q) /\ c \in Keeps(q)
        <5>1. PICK q \in Runs : alive(q) /\ c \in Keeps(q)
          BY <4>4
        <5>2. CASE q = r
          <6>1. c \in ToSet(s)
            BY <2>1, <2>6, <5>1, <5>2
          <6>2. top \in ToSet(rest)
            BY <2>1, <2>3, <4>1, <6>1
          <6>3. alive(r)' /\ top \in Keeps(r)'
            BY <1>1, <2>5, <2>6, <6>2, OthersKeep
          <6> QED BY <6>3
        <5>3. CASE q # r
          <6>1. top \in Keeps(q)
            BY <1>0, <2>3, <4>1, <5>1, KeepsParent
          <6>2. alive(q)' /\ top \in Keeps(q)'
            BY <2>5, <5>1, <5>3, <6>1, OthersKeep
          <6> QED BY <6>2
        <5> QED BY <5>2, <5>3
      <4> QED BY <1>0, <4>1, <4>2, <4>3, <4>4 DEF DirsLeft
    <3> QED BY <3>1, <3>2, <3>3 DEF empty
  <2>10. DirsLeft'
    <3> SUFFICES ASSUME NEW d \in dirs', d \notin first
                 PROVE  Abandoned(d, markers, dead) \/ \E q \in Runs : alive(q)' /\ d \in Keeps(q)'
      BY <1>1 DEF DirsLeft
    <3>1. d \in dirs
      BY <2>2
    <3>2. CASE d = top
      BY <2>9, <3>2
    <3>3. CASE d # top
      <4>1. CASE Abandoned(d, markers, dead)
        BY <4>1
      <4>2. CASE \E q \in Runs : alive(q) /\ d \in Keeps(q)
        <5>1. PICK q \in Runs : alive(q) /\ d \in Keeps(q)
          BY <4>2
        <5>2. d \in Keeps(q)'
          <6>1. CASE q = r
            BY <2>6, <3>3, <5>1, <6>1
          <6>2. CASE q # r
            BY <2>5, <5>1, <6>2, OthersKeep
          <6> QED BY <6>1, <6>2
        <5>3. alive(q)'
          BY <2>5, <5>1, OthersKeep
        <5> QED BY <5>2, <5>3
      <4> QED BY <1>0, <3>1, <4>1, <4>2 DEF DirsLeft
    <3> QED BY <3>2, <3>3
  <2>11. DeadLeft'
    BY <1>0, <1>1, <2>5, DeadStep
  <2> QED BY <2>7, <2>8, <2>10, <2>11 DEF LeftInv
<1>5. CASE /\ held[r].directories = <<>> /\ goto(r, "over") /\ UNCHANGED <<dirs, held>>
           /\ masks' = [masks EXCEPT ![r] = <<>>]
  <2>1. Only(r) /\ pc'[r] = "over" /\ masks'[r] = <<>>
    BY <1>0, <1>1, <1>2, <1>5 DEF Only, goto, TypeOK
  <2>2. Building(r)' = Building(r) /\ Keeps(r)' = Keeps(r)
    BY <1>1, <1>5, <2>1 DEF Building, Keeps
  <2>3. RunsLeft'
    <3>1. HeldOk(held'[r], pc'[r], first)
      BY <1>3, <1>5, <1>a, <2>1 DEF HeldOk
    <3>2. PlanOk(masks'[r], todo'[r], held'[r].directories, pc'[r], policy, first)
      BY <1>1, <1>3, <2>1 DEF PlanOk
    <3> QED BY <1>0, <2>1, <3>1, <3>2, RunsStep
  <2>4. MarksLeft'
    BY <1>0, <1>1, <1>5, <2>1, <2>2, MarksStep
  <2>5. DirsLeft'
    BY <1>0, <1>1, <1>5, <2>1, <2>2, DirsStep
  <2>6. DeadLeft'
    BY <1>0, <1>1, <2>1, DeadStep
  <2> QED BY <2>3, <2>4, <2>5, <2>6 DEF LeftInv
<1> QED BY <1>4, <1>5 DEF rmdir

\* A process that is killed leaves its marker in every directory it kept.
LEMMA KillLeaves ==
  ASSUME KillsSettled, MaskInv, LeftInv, NEW r \in Runs, kill(Pid[r]) PROVE LeftInv'
<1>0. TypeOK /\ AliveInv /\ HeldInv /\ RunsLeft /\ MarksLeft /\ DirsLeft /\ DeadLeft
  BY DEF MaskInv, LeftInv
<1>1. /\ dead' = dead \cup {Pid[r]} /\ pc' = [q \in Runs |-> IF Pid[q] = Pid[r] THEN "over" ELSE pc[q]]
      /\ UNCHANGED <<policy, first, dirs, markers, masks, todo, held>> /\ CrashPoints # {}
      /\ \A q \in Runs : Pid[q] = Pid[r] => pc[q] \in CrashPoints \cup {"off", "over"}
  BY DEF kill, run_vars
<1>2. \A q \in Runs : alive(q)' => alive(q) /\ pc'[q] = pc[q] /\ Building(q)' = Building(q) /\ Keeps(q)' = Keeps(q)
  BY <1>1 DEF alive, Building, Keeps
<1>3. ASSUME NEW q \in Runs, alive(q), ~alive(q)'
      PROVE  Building(q) = {} /\ \A d \in ToSet(held[q].directories) : <<d, q>> \in markers
  <2>1. Pid[q] = Pid[r]
    BY <1>1, <1>3 DEF alive
  <2>2. /\ pc[q] \notin Unsettled
        /\ pc[q] \in {"off", "plan", "arguments", "create", "mark", "spawn", "run", "unmark", "rmdir", "over"}
    <3>1. pc[q] \in CrashPoints \cup {"off", "over"}
      BY <1>1, <2>1
    <3> QED BY <1>0, <3>1 DEF KillsSettled, Unsettled, TypeOK
  <2>3. Building(q) = {}
    BY <2>2 DEF Building, Unsettled
  <2>4. CASE pc[q] = "over"
    BY <1>0, <1>3, <2>3, <2>4, NoneIn DEF RunsLeft, HeldOk
  <2>5. CASE pc[q] # "over"
    <3>1. pc[q] \in Holding
      BY <2>2, <2>5 DEF Holding, Unsettled
    <3> QED BY <1>0, <2>3, <3>1 DEF HeldInv, ToSet
  <2> QED BY <2>4, <2>5
<1>4. RunsLeft'
  BY <1>0, <1>1, <1>2 DEF RunsLeft
<1>5. MarksLeft'
  <2> SUFFICES ASSUME NEW m \in markers
               PROVE  /\ \E p \in Denied(policy) : m[1] \in Chain(p, first)
                      /\ alive(m[2])' => m[1] \in ToSet(held[m[2]].markers) \cup Building(m[2])'
    BY <1>1 DEF MarksLeft
  <2>1. m[2] \in Runs
    BY <1>0 DEF TypeOK
  <2> QED BY <1>0, <1>2, <2>1 DEF MarksLeft
<1>6. \A d : Abandoned(d, markers, dead) => Abandoned(d, markers, dead')
  BY <1>1 DEF Abandoned
<1>7. DirsLeft'
  <2> SUFFICES ASSUME NEW d \in dirs \ first
               PROVE  Abandoned(d, markers, dead') \/ \E q \in Runs : alive(q)' /\ d \in Keeps(q)'
    BY <1>1 DEF DirsLeft
  <2>1. CASE Abandoned(d, markers, dead)
    BY <1>6, <2>1
  <2>2. CASE \E q \in Runs : alive(q) /\ d \in Keeps(q)
    <3>1. PICK q \in Runs : alive(q) /\ d \in Keeps(q)
      BY <2>2
    <3>2. CASE alive(q)'
      BY <1>2, <3>1, <3>2
    <3>3. CASE ~alive(q)'
      <4>1. <<d, q>> \in markers
        BY <1>3, <3>1, <3>3 DEF Keeps
      <4>2. Pid[q] \in dead'
        BY <3>3 DEF alive
      <4> QED BY <4>1, <4>2 DEF Abandoned
    <3> QED BY <3>2, <3>3
  <2> QED BY <1>0, <2>1, <2>2 DEF DirsLeft
<1>8. DeadLeft'
  <2>1. ASSUME NEW m \in markers, ~alive(m[2])' PROVE parent(m[1]) \in first \/ Abandoned(parent(m[1]), markers, dead')
    <3>1. CASE ~alive(m[2])
      BY <1>0, <1>6, <3>1 DEF DeadLeft
    <3>2. CASE alive(m[2])
      <4>1. m[2] \in Runs
        BY <1>0 DEF TypeOK
      <4>2. Building(m[2]) = {} /\ \A d \in ToSet(held[m[2]].directories) : <<d, m[2]>> \in markers
        BY <1>3, <2>1, <3>2, <4>1
      <4>3. m[1] \in ToSet(held[m[2]].directories) /\ Closed(held[m[2]].directories, first)
        BY <1>0, <3>2, <4>1, <4>2 DEF MarksLeft, RunsLeft, HeldOk
      <4>4. parent(m[1]) \in first \/ parent(m[1]) \in ToSet(held[m[2]].directories)
        BY <4>3 DEF Closed, ToSet
      <4>5. Pid[m[2]] \in dead'
        BY <2>1 DEF alive
      <4> QED BY <4>2, <4>4, <4>5 DEF Abandoned
    <3> QED BY <3>1, <3>2
  <2> QED BY <1>1, <2>1 DEF DeadLeft
<1> QED BY <1>4, <1>5, <1>7, <1>8 DEF LeftInv

\* What has raced stays raced.
LEMMA RacedStays == [Next]_vars /\ raced' = {} => raced = {}
<1> SUFFICES ASSUME [Next]_vars, raced' = {}, raced # {} PROVE FALSE
  OBVIOUS
<1>1. \A r \in Runs : plan_masks(r) => raced' = raced \/ raced' = raced \cup {r}
  BY Zenon DEF plan_masks
<1>2. \A r \in Runs : prepare(r) \/ arguments(r) \/ create(r) \/ mark(r) \/ spawn(r) \/ end(r) \/ unmark(r) \/ rmdir(r)
        => raced' = raced \/ raced' = raced \cup {r}
  BY DEF prepare, arguments, create, mark, spawn, end, unmark, rmdir
<1>3. \A r \in Runs : kill(Pid[r]) => raced' = raced
  BY DEF kill
<1>4. Over \/ UNCHANGED vars => raced' = raced
  BY DEF Over, vars
<1> QED BY <1>1, <1>2, <1>3, <1>4 DEF Next

\* Every directory that was not there at first is one that a living run keeps and
\* will remove, or one that a killed process has marked, so that the next run that
\* needs it takes it over (MaskPlan, mark_in_use, Drop for HeldMasks).
THEOREM LeftIsKept ==
  ASSUME TreesClosed, LinksApart, LinksLead, KillsSettled, MasksApart \/ CrashPoints = {}
  PROVE  Spec => [](raced = {} => LeftInv)
<1>1. Init => LeftInv
  <2> SUFFICES ASSUME Init PROVE LeftInv
    OBVIOUS
  <2>1. RunsLeft
    BY NoneIn DEF Init, RunsLeft, HeldOk, PlanOk, Closed
  <2> QED BY <2>1 DEF Init, LeftInv, MarksLeft, DirsLeft, DeadLeft
<1>2. MaskInv /\ PlanInv /\ PlanMeant /\ (raced = {} => LeftInv) /\ [Next]_vars => (raced = {} => LeftInv)'
  <2> SUFFICES ASSUME MaskInv, PlanInv, PlanMeant, LeftInv, [Next]_vars, raced' = {} PROVE LeftInv'
    BY RacedStays
  <2>1. CASE UNCHANGED vars
    BY <2>1 DEF vars, run_vars, LeftInv, RunsLeft, MarksLeft, DirsLeft, DeadLeft, alive, Building, Keeps
  <2>2. CASE \E r \in Runs : \/ prepare(r) \/ plan_masks(r) \/ arguments(r) \/ create(r) \/ mark(r) \/ spawn(r)
                             \/ end(r) \/ unmark(r) \/ rmdir(r)
    BY <2>2, PrepareLeaves, PlanLeaves, ArgumentsLeave, CreateLeaves, MarkLeaves, SpawnLeaves, UnmarkLeaves, RmdirLeaves
  <2>3. CASE \E r \in Runs : kill(Pid[r])
    BY <2>3, KillLeaves
  <2>4. CASE Over
    BY <2>1, <2>4 DEF Over
  <2> QED BY <2>1, <2>2, <2>3, <2>4 DEF Next
<1> QED BY <1>1, <1>2, MasksCorrect, PlansMean, PTL DEF Spec

-----------------------------------------------------------------------------
\* What a run binds is still there when bwrap starts: it was there at first, or it
\* is a directory of a mask that the run has built too.

Groups(p) ==
  LET section == merge_section(p.executables.workflow, p.executables.task)
  IN  IF section = Missing THEN {} ELSE selected(section, DEFAULT_EXECUTABLE_GROUPS)
Allows(p) ==
  with_defaults(merge(p.workflow, p.task), Defaults["write_allow"], "write_allow")
    \cup StatePaths \cup UNION {group.state : group \in Groups(p)}
Hides(p) == with_defaults(merge(p.workflow, p.task), Defaults["read_deny"], "read_deny")
\* What is allowed where the paths of e exist, and the directories of the masks that
\* this makes necessary.
Allowed(p, e) ==
  existing(Allows(p), e) \cup (IF or(merge(p.workflow, p.task).defaults, "yes") = "yes" THEN {Tmp} ELSE {})
Masked(p, e) == {d \in Denied(p) : \E a \in Allowed(p, e) : under(d, a) /\ d # a}
MaskDirs(p, e) == UNION {Chain(d, e) : d \in Masked(p, e)}

\* The directory for temporary files exists, and lists are finite.
TmpThere == \A e \in Existing : Tmp \in e
RulesFinite == \A p \in Policies : IsFiniteSet(Allows(p)) /\ IsFiniteSet(Hides(p))

Binds(asked) == {m.target : m \in {x \in ToSet(asked) : x.mode # "tmpfs"}}
ResolvedOk(sandbox, p, e) ==
  /\ IsFiniteSet(sandbox.write_allow) /\ sandbox.write_allow \subseteq e \cup MaskDirs(p, e)
  /\ IsFiniteSet(sandbox.read_deny) /\ sandbox.read_deny \subseteq Path
  /\ IsFiniteSet(sandbox.write_deny) /\ sandbox.write_deny = Denied(p)
  /\ \A d \in Denied(p) : inside_write_allow(sandbox, d) <=> d \in Masked(p, e)
\* A run plans the same masks whatever other runs have built, and binds nothing
\* else that was not there at first, but its own directory.
SourceOk(sandbox, plan, left, asked, at, p, e, own) ==
  /\ at \in {"arguments", "create", "mark", "spawn"} =>
       \A d \in MaskDirs(p, e) : \E i \in DOMAIN plan : d \in ToSet(plan[i])
  /\ at \in {"plan", "arguments"} => ResolvedOk(sandbox, p, e)
  /\ at = "arguments" => \A i \in DOMAIN plan : ToSet(plan[i]) \subseteq MaskDirs(p, e)
  /\ at \in {"create", "mark"} => \A i \in DOMAIN left : ToSet(left[i]) \subseteq MaskDirs(p, e)
  /\ at \in {"create", "mark", "spawn"} => Binds(asked) \subseteq e \cup MaskDirs(p, e) \cup {own}
SourcesInv ==
  /\ DOMAIN resolved = Runs /\ DOMAIN mounts = Runs
  /\ dirs \subseteq first \cup MaskDirs(policy, first)
  /\ \A r \in Runs : SourceOk(resolved[r], masks[r], todo[r], mounts[r], pc[r], policy, first, bridge_directory(r))

\* What a sandbox allows and hides.
LEMMA AllowedIs ==
  ASSUME NEW fs, NEW program
  PROVE  /\ resolve(fs, program).write_allow = Allowed(policy, fs)
         /\ resolve(fs, program).read_deny = existing(Hides(policy), fs)
<1>1. resolve(fs, program).read_deny = existing(Hides(policy), fs)
  BY DEF resolve, Hides
<1>2. resolve(fs, program).write_allow = Allowed(policy, fs)
  BY Zenon DEF resolve, Allowed, Allows, Groups
<1> QED BY <1>1, <1>2

LEMMA ExistingIs ==
  ASSUME NEW rules, IsFiniteSet(rules), NEW fs
  PROVE  IsFiniteSet(existing(rules, fs)) /\ existing(rules, fs) \subseteq fs
<1> DEFINE found == {x \in rules : exists(absolute(x), fs)}
           T == {follow(absolute(rule)) : rule \in found}
           f == [rule \in found |-> follow(absolute(rule))]
<1>1. existing(rules, fs) = T
  BY DEF existing
<1>2. IsFiniteSet(found)
  <2>1. found \in SUBSET rules
    OBVIOUS
  <2> HIDE DEF found
  <2> QED BY <2>1, FS_Subset
<1>3. T \subseteq fs
  BY DEF exists
<1>4. f \in Surjection(found, T)
  <2>1. f \in [found -> T] /\ \A t \in T : \E rule \in found : f[rule] = t
    OBVIOUS
  <2> HIDE DEF f, T, found
  <2> QED BY <2>1 DEF Surjection
<1> HIDE DEF f, T, found
<1>5. IsFiniteSet(T)
  BY <1>2, <1>4, FS_Surjection
<1> QED BY <1>1, <1>3, <1>5

\* Of two parts of a path the shorter one is above the longer one.
LEMMA PartsOrdered ==
  ASSUME NEW path \in Path, NEW a \in Path, NEW b \in Path, under(path, a), under(path, b), Len(a) <= Len(b)
  PROVE  under(b, a)
<1>0. Len(a) \in Nat /\ Len(b) \in Nat
  BY DEF Path
<1>1. /\ Len(a) \in Nat /\ Len(b) \in 0..Len(path) /\ SubSeq(path, 1, Len(a)) = a /\ SubSeq(path, 1, Len(b)) = b
      /\ Len(a) \in 0..Len(b)
  BY <1>0, UnderIs
<1>2. SubSeq(SubSeq(path, 1, Len(b)), 1, Len(a)) = SubSeq(path, 1, Len(a))
  BY <1>1, PartOfPart
<1> QED BY <1>1, <1>2, UnderIs

LEMMA UnderUnder ==
  ASSUME NEW a \in Path, NEW b \in Path, NEW c \in Path, under(c, b), under(b, a) PROVE under(c, a)
<1>1. Len(b) \in 0..Len(c) /\ SubSeq(c, 1, Len(b)) = b /\ Len(a) \in 0..Len(b) /\ SubSeq(b, 1, Len(a)) = a
  BY UnderIs
<1>2. SubSeq(SubSeq(c, 1, Len(b)), 1, Len(a)) = SubSeq(c, 1, Len(a)) /\ Len(a) \in 0..Len(c)
  BY <1>1, PartOfPart DEF Path
<1> QED BY <1>1, <1>2, UnderIs

LEMMA AboveExists ==
  ASSUME TreesClosed, NEW e \in Existing, NEW a \in Path, NEW b \in Path, b \in e, under(b, a) PROVE a \in e
<1>1. /\ SubSeq(b, 1, Len(a)) = a /\ Len(a) \in 0..Len(b) /\ SubSeq(b, 1, Len(b)) = b /\ Len(b) \in 0..Len(b)
  BY UnderIs, SubSeqFull DEF Path
<1>2. SubSeq(b, 1, Len(b)) \in e
  BY <1>1
<1>3. SubSeq(b, 1, Len(a)) \in e
  BY <1>1, <1>2, PartsExist
<1> QED BY <1>1, <1>3

LEMMA DeniedPaths ==
  ASSUME NEW p \in Policies PROVE Denied(p) \subseteq Path
<1>1. \A rule \in Denies(p) : rule.rest \in Path
  <2>1. merge(p.workflow, p.task)["write_deny"] = p.workflow["write_deny"] \cup p.task["write_deny"]
    BY SandboxAssumption DEF merge, Settings
  <2>2. \A R \in {Defaults["write_deny"], p.workflow["write_deny"], p.task["write_deny"]} :
          \A rule \in R : rule.rest \in Path
    BY SandboxAssumption
  <2> DEFINE filesystem == merge(p.workflow, p.task)
  <2>3. Denies(p) \subseteq Defaults["write_deny"] \cup filesystem["write_deny"]
    BY DEF Denies, with_defaults
  <2> HIDE DEF filesystem
  <2> QED BY <2>1, <2>2, <2>3 DEF filesystem
<1> QED BY <1>1, AbsoluteIsPath, FollowIsPath DEF Denied

\* What is allowed because of masks lies in what was allowed at first.
LEMMA AllowedAbove ==
  ASSUME TreesClosed, TmpThere, NEW p \in Policies, NEW e \in Existing, NEW fs, e \subseteq fs,
         fs \subseteq e \cup MaskDirs(p, e), fs \subseteq Path, NEW a \in Allowed(p, fs)
  PROVE  /\ a \in fs /\ a \in Path /\ Len(a) \in Nat
         /\ \E b \in Allowed(p, e) : b \in e /\ b \in Path /\ Len(b) \in Nat /\ under(a, b) /\ (b = a \/ Len(b) < Len(a))
         /\ a \notin e => \E c \in Masked(p, e) : under(c, a)
<1>0. Denied(p) \subseteq Path /\ e \subseteq Path /\ Tmp \in Path /\ Tmp \in e
  BY DeniedPaths, SandboxAssumption DEF TmpThere
<1>1. a \in e => a \in Allowed(p, e)
  BY DEF Allowed, existing, exists
<1>2. Allowed(p, fs) \subseteq fs /\ Allowed(p, e) \subseteq e
  BY <1>0 DEF Allowed, existing, exists
<1>3. a \in fs /\ a \in Path /\ Len(a) \in Nat
  BY <1>2 DEF Path
<1>4. CASE a \in e
  <2>1. under(a, a)
    <3>1. SubSeq(a, 1, Len(a)) = a /\ Len(a) \in 0..Len(a)
      BY <1>3, SubSeqFull DEF Path
    <3> QED BY <1>3, <3>1, UnderIs
  <2> QED BY <1>1, <1>3, <1>4, <2>1
<1>5. CASE a \notin e
  <2>1. PICK c \in Masked(p, e) : a \in Chain(c, e)
    BY <1>3, <1>5 DEF MaskDirs
  <2>2. PICK b \in Allowed(p, e) : under(c, b) /\ c # b
    BY <2>1 DEF Masked
  <2>3. b \in Path /\ c \in Path /\ b \in e /\ Len(b) \in Nat /\ Len(c) \in Nat
    <3>1. b \in Path /\ c \in Path /\ b \in e
      BY <1>0, <1>2, <2>1, <2>2 DEF Masked
    <3> QED BY <3>1 DEF Path
  <2>4. under(c, a)
    <3>1. PICK n \in 1..Len(c) : a = SubSeq(c, 1, n)
      BY <2>1 DEF Chain
    <3>2. n \in 0..Len(c) /\ Len(a) = n
      BY <2>3, <3>1, PartOfPath
    <3> QED BY <1>3, <2>3, <3>1, <3>2, UnderIs
  <2>5. ~(Len(a) <= Len(b))
    <3> SUFFICES ASSUME Len(a) <= Len(b) PROVE FALSE
      OBVIOUS
    <3>1. under(b, a)
      BY <1>3, <2>2, <2>3, <2>4, PartsOrdered
    <3> QED BY <1>3, <1>5, <2>3, <3>1, AboveExists
  <2>6. under(a, b) /\ Len(b) < Len(a)
    BY <1>3, <2>2, <2>3, <2>4, <2>5, PartsOrdered
  <2> QED BY <1>3, <2>1, <2>2, <2>3, <2>4, <2>6
<1> QED BY <1>4, <1>5

\* Masks bring no masks of their own.
LEMMA MaskedStays ==
  ASSUME TreesClosed, TmpThere, NEW p \in Policies, NEW e \in Existing, NEW fs, e \subseteq fs,
         fs \subseteq e \cup MaskDirs(p, e), fs \subseteq Path
  PROVE  Masked(p, fs) = Masked(p, e)
<1>1. existing(Allows(p), e) \subseteq existing(Allows(p), fs)
  BY DEF existing, exists
<1>2. Allowed(p, e) \subseteq Allowed(p, fs)
  BY <1>1 DEF Allowed
<1>3. ASSUME NEW d \in Denied(p), NEW a \in Allowed(p, fs), under(d, a), d # a
      PROVE  \E b \in Allowed(p, e) : under(d, b) /\ d # b
  <2>1. PICK b \in Allowed(p, e) : b \in Path /\ Len(b) \in Nat /\ under(a, b) /\ (b = a \/ Len(b) < Len(a))
    BY AllowedAbove
  <2>2. d \in Path /\ a \in Path /\ Len(a) \in Nat
    BY AllowedAbove, DeniedPaths
  <2>3. under(d, b)
    BY <1>3, <2>1, <2>2, UnderUnder
  <2>4. Len(a) \in 0..Len(d)
    BY <1>3, <2>2, UnderIs
  <2>5. d # b
    BY <1>3, <2>1, <2>2, <2>4
  <2> QED BY <2>3, <2>5
<1>4. Masked(p, e) \subseteq Masked(p, fs)
  BY <1>2 DEF Masked
<1>5. Masked(p, fs) \subseteq Masked(p, e)
  BY <1>3 DEF Masked
<1> QED BY <1>4, <1>5

-----------------------------------------------------------------------------
\* The mounts of a plan.

Modes == {"ro", "bind", "tmpfs"}
Mount == [mode : Modes, target : Path]

LEMMA BindsConcat ==
  ASSUME NEW s \in Seq(Mount), NEW t \in Seq(Mount)
  PROVE  s \o t \in Seq(Mount) /\ Binds(s \o t) \subseteq Binds(s) \cup Binds(t)
<1> DEFINE u == s \o t
           l == Len(s)
           k == Len(t)
<1>1. l \in Nat /\ k \in Nat /\ DOMAIN s = 1..l /\ DOMAIN t = 1..k
  OBVIOUS
<1>2. /\ u \in Seq(Mount) /\ Len(u) = l + k
      /\ \A i \in 1..(l + k) : u[i] = IF i <= l THEN s[i] ELSE t[i - l]
  BY ConcatProperties
<1> HIDE DEF u
<1>3. DOMAIN u = 1..(l + k)
  BY <1>2
<1> HIDE DEF l, k
<1>4. \A i \in 1..(l + k) : (i <= l => i \in 1..l) /\ (~(i <= l) => i - l \in 1..k)
  BY <1>1
<1>5. \A m \in ToSet(u) : m \in ToSet(s) \/ m \in ToSet(t)
  BY <1>1, <1>2, <1>3, <1>4 DEF ToSet
<1>6. Binds(u) \subseteq Binds(s) \cup Binds(t)
  BY <1>5 DEF Binds
<1> QED BY <1>2, <1>6 DEF u

LEMMA BindsAll ==
  ASSUME NEW mode \in Modes, NEW S, IsFiniteSet(S), S \subseteq Path
  PROVE  all(mode, S) \in Seq(Mount) /\ Binds(all(mode, S)) \subseteq S /\ (mode = "tmpfs" => Binds(all(mode, S)) = {})
<1> DEFINE order == sorted(S)
           n == Cardinality(S)
<1>1. order \in [1..n -> S] /\ n \in Nat
  BY SortedIs
<1>2. all(mode, S) = [i \in DOMAIN order |-> mount(mode, order[i])]
  BY DEF all
<1> HIDE DEF order, n
<1>3. \A i \in 1..n : order[i] \in S /\ order[i] \in Path
  BY <1>1
<1>4. \A i \in 1..n : mount(mode, order[i]) \in Mount
  BY <1>3 DEF mount, Mount
<1>5. all(mode, S) \in [1..n -> Mount]
  BY <1>1, <1>2, <1>4
<1>6. all(mode, S) \in Seq(Mount)
  BY <1>1, <1>5, SeqDef
<1>7. \A m \in ToSet(all(mode, S)) : \E i \in 1..n : m = mount(mode, order[i])
  BY <1>1, <1>2 DEF ToSet
<1>8. \A m \in ToSet(all(mode, S)) : m.mode = mode /\ m.target \in S
  BY <1>3, <1>7 DEF mount
<1> QED BY <1>6, <1>8 DEF Binds

LEMMA AncestorsFinite ==
  ASSUME NEW S, IsFiniteSet(S), S \subseteq Path
  PROVE  /\ IsFiniteSet(UNION {ancestors(p) : p \in S}) /\ UNION {ancestors(p) : p \in S} \subseteq Path
<1>1. ASSUME NEW p \in Path PROVE IsFiniteSet(ancestors(p)) /\ ancestors(p) \subseteq Path
  <2> DEFINE D == 0..(Len(p) - 1)
             T == {SubSeq(p, 1, n) : n \in D}
             f == [n \in D |-> SubSeq(p, 1, n)]
  <2>1. f \in [D -> T] /\ \A t \in T : \E n \in D : f[n] = t
    OBVIOUS
  <2>2. Len(p) \in Nat
    BY <1>1 DEF Path
  <2>3. IsFiniteSet(D)
    BY <2>2, FS_Interval
  <2>4. T \subseteq Path
    <3>1. \A n \in D : n \in 0..Len(p)
      BY <2>2
    <3>2. \A n \in D : SubSeq(p, 1, n) \in Path
      BY <1>1, <3>1, PartOfPath
    <3> HIDE DEF D
    <3> QED BY <3>2
  <2>5. ancestors(p) = T
    BY DEF ancestors
  <2> HIDE DEF D, T, f
  <2>6. f \in Surjection(D, T)
    BY <2>1 DEF Surjection
  <2>7. IsFiniteSet(T)
    BY <2>3, <2>6, FS_Surjection
  <2> QED BY <2>4, <2>5, <2>7
<1> DEFINE T == {ancestors(p) : p \in S}
           f == [p \in S |-> ancestors(p)]
<1>2. f \in [S -> T] /\ \A t \in T : \E p \in S : f[p] = t
  OBVIOUS
<1>3. \A t \in T : IsFiniteSet(t) /\ t \subseteq Path
  BY <1>1
<1> HIDE DEF T, f
<1>4. f \in Surjection(S, T)
  BY <1>2 DEF Surjection
<1>5. IsFiniteSet(T)
  BY <1>4, FS_Surjection
<1>6. IsFiniteSet(UNION T) /\ UNION T \subseteq Path
  BY <1>3, <1>5, FS_UNION
<1> QED BY <1>6 DEF T

LEMMA SlashTmpIsPath == <<>> \in Path /\ SlashTmp \in Path
  BY SandboxAssumption DEF Path

\* A run binds the root, what is allowed, and, of what is denied and its parents, what
\* is there or planned; and its own sockets.
LEMMA BindsAre ==
  ASSUME NEW sandbox, NEW plan, NEW fs, fs \subseteq Path, NEW own \in Path,
         IsFiniteSet(sandbox.write_allow), sandbox.write_allow \subseteq Path,
         IsFiniteSet(sandbox.read_deny), sandbox.read_deny \subseteq Path,
         IsFiniteSet(sandbox.write_deny), sandbox.write_deny \subseteq Path
  PROVE  Binds(bwrap_arguments(sandbox, plan, fs, own)) \subseteq {<<>>} \cup sandbox.write_allow \cup fs \cup plan \cup {own}
<1> DEFINE denied == {p \in sandbox.write_deny : p \in plan \/ p \in fs}
           guarded == protected_ancestors(sandbox) \cap fs
           s1 == <<mount("ro", <<>>)>>
           s2 == IF SlashTmp \in sandbox.write_allow THEN <<>> ELSE <<mount("tmpfs", SlashTmp)>>
           s3 == all("bind", sandbox.write_allow)
           s4 == all("bind", guarded)
           s5 == all("ro", denied)
           s6 == all("tmpfs", sandbox.read_deny)
           s7 == <<mount("bind", own)>>
<1>1. bwrap_arguments(sandbox, plan, fs, own) = s1 \o s2 \o s3 \o s4 \o s5 \o s6 \o s7
  BY DEF bwrap_arguments
<1>2. IsFiniteSet(denied) /\ denied \subseteq Path /\ denied \subseteq plan \cup fs
  <2>1. denied \in SUBSET sandbox.write_deny /\ denied \subseteq plan \cup fs
    OBVIOUS
  <2> HIDE DEF denied
  <2> QED BY <2>1, FS_Subset
<1>3. IsFiniteSet(guarded) /\ guarded \subseteq Path /\ guarded \subseteq fs
  <2> DEFINE above == UNION {ancestors(p) : p \in sandbox.write_deny}
  <2>1. IsFiniteSet(above) /\ above \subseteq Path
    BY AncestorsFinite
  <2>2. guarded \in SUBSET above /\ guarded \subseteq fs
    BY DEF protected_ancestors
  <2> HIDE DEF above, guarded
  <2> QED BY <2>1, <2>2, FS_Subset
<1>4. mount("ro", <<>>) \in Mount /\ mount("tmpfs", SlashTmp) \in Mount /\ mount("bind", own) \in Mount
  <2>1. <<>> \in Path /\ SlashTmp \in Path
    BY SlashTmpIsPath
  <2> QED BY <2>1 DEF mount, Mount, Modes
<1>m. "ro" \in Modes /\ "bind" \in Modes /\ "tmpfs" \in Modes
  BY DEF Modes
<1>5. s1 \in Seq(Mount) /\ Binds(s1) \subseteq {<<>>}
  BY <1>4 DEF Binds, ToSet, mount
<1>6. s2 \in Seq(Mount) /\ Binds(s2) = {}
  BY <1>4 DEF Binds, ToSet, mount
<1>7. s3 \in Seq(Mount) /\ Binds(s3) \subseteq sandbox.write_allow
  BY <1>m, BindsAll
<1>8. s4 \in Seq(Mount) /\ Binds(s4) \subseteq fs
  <2> HIDE DEF guarded
  <2>1. s4 \in Seq(Mount) /\ Binds(s4) \subseteq guarded
    BY <1>3, <1>m, BindsAll
  <2> QED BY <1>3, <2>1
<1>9. s5 \in Seq(Mount) /\ Binds(s5) \subseteq plan \cup fs
  <2> HIDE DEF denied
  <2>1. s5 \in Seq(Mount) /\ Binds(s5) \subseteq denied
    BY <1>2, <1>m, BindsAll
  <2> QED BY <1>2, <2>1
<1>10. s6 \in Seq(Mount) /\ Binds(s6) = {}
  BY <1>m, BindsAll
<1>10a. s7 \in Seq(Mount) /\ Binds(s7) \subseteq {own}
  BY <1>4 DEF Binds, ToSet, mount
<1> HIDE DEF s1, s2, s3, s4, s5, s6, s7, denied, guarded
<1>11. s1 \o s2 \in Seq(Mount) /\ Binds(s1 \o s2) \subseteq {<<>>}
  BY <1>5, <1>6, BindsConcat
<1>12. s1 \o s2 \o s3 \in Seq(Mount) /\ Binds(s1 \o s2 \o s3) \subseteq {<<>>} \cup sandbox.write_allow
  <2>1. Binds(s1 \o s2 \o s3) \subseteq Binds(s1 \o s2) \cup Binds(s3) /\ s1 \o s2 \o s3 \in Seq(Mount)
    BY <1>7, <1>11, BindsConcat
  <2> QED BY <1>7, <1>11, <2>1
<1> DEFINE t == s1 \o s2 \o s3
<1> HIDE DEF t
<1>13. t \o s4 \in Seq(Mount) /\ Binds(t \o s4) \subseteq {<<>>} \cup sandbox.write_allow \cup fs
  <2>1. t \in Seq(Mount) /\ Binds(t) \subseteq {<<>>} \cup sandbox.write_allow
    BY <1>12 DEF t
  <2>2. Binds(t \o s4) \subseteq Binds(t) \cup Binds(s4) /\ t \o s4 \in Seq(Mount)
    BY <1>8, <2>1, BindsConcat
  <2> QED BY <1>8, <2>1, <2>2
<1>14. t \o s4 \o s5 \in Seq(Mount) /\ Binds(t \o s4 \o s5) \subseteq {<<>>} \cup sandbox.write_allow \cup fs \cup plan
  <2>1. Binds(t \o s4 \o s5) \subseteq Binds(t \o s4) \cup Binds(s5) /\ t \o s4 \o s5 \in Seq(Mount)
    BY <1>9, <1>13, BindsConcat
  <2> QED BY <1>9, <1>13, <2>1
<1>15. /\ t \o s4 \o s5 \o s6 \in Seq(Mount)
       /\ Binds(t \o s4 \o s5 \o s6) \subseteq {<<>>} \cup sandbox.write_allow \cup fs \cup plan
  <2>1. Binds(t \o s4 \o s5 \o s6) \subseteq Binds(t \o s4 \o s5) \cup Binds(s6) /\ t \o s4 \o s5 \o s6 \in Seq(Mount)
    BY <1>10, <1>14, BindsConcat
  <2> QED BY <1>10, <1>14, <2>1
<1>16. Binds(t \o s4 \o s5 \o s6 \o s7) \subseteq {<<>>} \cup sandbox.write_allow \cup fs \cup plan \cup {own}
  <2>1. Binds(t \o s4 \o s5 \o s6 \o s7) \subseteq Binds(t \o s4 \o s5 \o s6) \cup Binds(s7)
    BY <1>10a, <1>15, BindsConcat
  <2> QED BY <1>10a, <1>15, <2>1
<1> QED BY <1>1, <1>16 DEF t

\* The directory of a run's sockets is a path.
LEMMA BridgeIsPath == ASSUME NEW r \in Runs PROVE bridge_directory(r) \in Path
BY SandboxAssumption DEF bridge_directory, Path

-----------------------------------------------------------------------------
\* Every step keeps it, if the run has not raced.

\* A step of r leaves what the other runs have asked for.
Asks(r) ==
  /\ DOMAIN resolved' = Runs /\ DOMAIN mounts' = Runs
  /\ \A q \in Runs \ {r} : resolved'[q] = resolved[q] /\ mounts'[q] = mounts[q]

LEMMA SourcesStep ==
  ASSUME SourcesInv, NEW r \in Runs, Only(r), Asks(r), \A d \in dirs' : d \in dirs \/ d \in MaskDirs(policy, first),
         SourceOk(resolved'[r], masks'[r], todo'[r], mounts'[r], pc'[r], policy, first, bridge_directory(r))
  PROVE  SourcesInv'
<1>1. policy' = policy /\ first' = first
  BY DEF Only
<1>2. dirs' \subseteq first' \cup MaskDirs(policy', first')
  BY <1>1 DEF SourcesInv
<1>3. ASSUME NEW q \in Runs PROVE SourceOk(resolved'[q], masks'[q], todo'[q], mounts'[q], pc'[q], policy', first', bridge_directory(q))
  <2>1. CASE q = r
    BY <1>1, <2>1
  <2>2. CASE q # r
    BY <1>1, <2>2 DEF SourcesInv, Only, Asks
  <2> QED BY <2>1, <2>2
<1> QED BY <1>2, <1>3 DEF SourcesInv, Asks

LEMMA PrepareFinds ==
  ASSUME TreesClosed, LinksApart, LinksLead, TmpThere, RulesFinite, MaskInv, SourcesInv, NEW r \in Runs, prepare(r)
  PROVE  SourcesInv'
<1>0. TypeOK /\ OwnInv /\ DOMAIN resolved = Runs /\ DOMAIN mounts = Runs
  BY DEF MaskInv, SourcesInv
<1>1. UNCHANGED <<policy, first, dirs, masks, todo, mounts, held, dead>>
  BY DEF prepare
<1>2. CASE goto(r, "over") /\ UNCHANGED resolved
  <2>1. pc'[r] = "over" /\ Only(r) /\ Asks(r)
    BY <1>0, <1>1, <1>2 DEF Only, Asks, goto, TypeOK
  <2>2. SourceOk(resolved'[r], masks'[r], todo'[r], mounts'[r], pc'[r], policy, first, bridge_directory(r))
    BY <2>1 DEF SourceOk
  <2> QED BY <1>1, <2>1, <2>2, SourcesStep
<1>3. ASSUME NEW program, resolved' = [resolved EXCEPT ![r] = resolve(dirs, program)], goto(r, "plan") PROVE SourcesInv'
  <2> DEFINE sandbox == resolve(dirs, program)
             own == MaskDirs(policy, first)
  <2>1. pc'[r] = "plan" /\ Only(r)
    BY <1>0, <1>1, <1>3 DEF Only, goto, TypeOK
  <2>1a. Asks(r) /\ resolved'[r] = sandbox
    <3> HIDE DEF sandbox
    <3>1. resolved' = [resolved EXCEPT ![r] = sandbox]
      BY <1>3 DEF sandbox
    <3> QED BY <1>0, <1>1, <3>1 DEF Asks
  <2>2. /\ policy \in Policies /\ first \in Existing /\ first \subseteq dirs /\ dirs \subseteq Path
        /\ dirs \subseteq first \cup own
    BY <1>0 DEF TypeOK, OwnInv, SourcesInv
  <2>3. sandbox.write_deny = Denied(policy) /\ Denied(policy) \subseteq Path /\ IsFiniteSet(sandbox.write_deny)
    BY <2>2, DeniedIs, DeniedArePaths
  <2>4. sandbox.write_allow = Allowed(policy, dirs) /\ sandbox.read_deny = existing(Hides(policy), dirs)
    BY AllowedIs
  <2>5. \A d \in Denied(policy) : inside_write_allow(sandbox, d) <=> d \in Masked(policy, first)
    <3>1. Masked(policy, dirs) = Masked(policy, first)
      BY <2>2, MaskedStays
    <3>2. \A p : inside_write_allow(sandbox, p) <=> \E a \in Allowed(policy, dirs) : under(p, a) /\ p # a
      BY <2>4 DEF inside_write_allow
    <3> HIDE DEF sandbox
    <3> QED BY <3>1, <3>2 DEF Masked
  <2>9. ResolvedOk(sandbox, policy, first)
    <3>1. IsFiniteSet(Allows(policy)) /\ IsFiniteSet(Hides(policy)) /\ Tmp \in dirs
      BY <2>2 DEF RulesFinite, TmpThere
    <3>2. /\ IsFiniteSet(existing(Allows(policy), dirs)) /\ existing(Allows(policy), dirs) \subseteq dirs
          /\ IsFiniteSet(existing(Hides(policy), dirs)) /\ existing(Hides(policy), dirs) \subseteq dirs
      BY <3>1, ExistingIs
    <3>3. IsFiniteSet(existing(Allows(policy), dirs) \cup {Tmp}) /\ IsFiniteSet(existing(Allows(policy), dirs) \cup {})
      BY <3>2, FS_AddElement
    <3>4. IsFiniteSet(Allowed(policy, dirs)) /\ Allowed(policy, dirs) \subseteq dirs
      BY <3>1, <3>2, <3>3 DEF Allowed
    <3> HIDE DEF sandbox, own
    <3> QED BY <2>2, <2>3, <2>4, <2>5, <3>2, <3>4 DEF ResolvedOk, own
  <2>10. SourceOk(resolved'[r], masks'[r], todo'[r], mounts'[r], pc'[r], policy, first, bridge_directory(r))
    BY <2>1, <2>1a, <2>9 DEF SourceOk
  <2> QED BY <1>1, <2>1, <2>1a, <2>10, SourcesStep
<1> QED BY Zenon, <1>2, <1>3 DEF prepare

LEMMA PlanFinds ==
  ASSUME TreesClosed, MaskInv, PlanInv, LeftInv, SourcesInv, NEW r \in Runs, plan_masks(r), raced' = {}
  PROVE  SourcesInv'
<1> DEFINE sandbox == resolved[r]
           own == MaskDirs(policy, first)
<1>0. TypeOK /\ OwnInv /\ DOMAIN resolved = Runs /\ DOMAIN mounts = Runs /\ dirs \subseteq first \cup own
  BY DEF MaskInv, SourcesInv
<1>1. /\ pc[r] = "plan" /\ \A q \in Runs \ {r} : masks'[q] = masks[q] /\ pc'[q] = pc[q] /\ resolved'[q] = resolved[q]
      /\ DOMAIN resolved' = Runs /\ UNCHANGED <<policy, first, dirs, markers, mounts, todo, held, dead>>
      /\ \/ pc'[r] = "over"
         \/ /\ pc'[r] = "arguments" /\ UNCHANGED resolved /\ raced' = IF alone(r) THEN raced ELSE raced \cup {r}
            /\ \A i \in DOMAIN masks'[r] : \E p \in Lost(sandbox) : masks'[r][i] = mask_directories(p)
            /\ \A p \in Lost(sandbox) : \E i \in DOMAIN masks'[r] : masks'[r][i] = mask_directories(p)
  BY <1>0, Planned
<1>2. Only(r) /\ Asks(r)
  BY <1>0, <1>1 DEF Only, Asks
<1>3. CASE pc'[r] = "over"
  <2>1. SourceOk(resolved'[r], masks'[r], todo'[r], mounts'[r], pc'[r], policy, first, bridge_directory(r))
    BY <1>3 DEF SourceOk
  <2> QED BY <1>1, <1>2, <2>1, SourcesStep
<1>4. CASE /\ pc'[r] = "arguments" /\ UNCHANGED resolved /\ raced' = IF alone(r) THEN raced ELSE raced \cup {r}
           /\ \A i \in DOMAIN masks'[r] : \E p \in Lost(sandbox) : masks'[r][i] = mask_directories(p)
           /\ \A p \in Lost(sandbox) : \E i \in DOMAIN masks'[r] : masks'[r][i] = mask_directories(p)
  <2>1. alone(r)
    BY <1>4
  <2>2. policy \in Policies /\ first \in Existing /\ first \subseteq dirs /\ Denied(policy) \subseteq Path
    BY <1>0, DeniedPaths DEF TypeOK, OwnInv
  <2>3. ResolvedOk(sandbox, policy, first)
    BY <1>1 DEF SourcesInv, SourceOk
  <2> HIDE DEF sandbox
  <2>4. Lost(sandbox) = {p \in Masked(policy, first) : mask_directories(p) # <<>>}
    BY <2>3 DEF ResolvedOk, Lost, Masked
  <2>5. ASSUME NEW p \in Masked(policy, first)
        PROVE  /\ mask_directories(p) # <<>> => ToSet(mask_directories(p)) = Chain(p, first)
               /\ mask_directories(p) = <<>> => Chain(p, first) = {}
    <3>1. p \in Path
      BY <2>2 DEF Masked
    <3>2. \A d \in dirs : d \in first \/ is_marked(d)
      BY <1>1, <2>1, AllMarked
    <3>3. \A m \in markers : m[1] \notin first
      BY <1>0 DEF OwnInv
    <3> QED BY <2>2, <3>1, <3>2, <3>3, WholeMask
  <2>6. \A d \in own : \E i \in DOMAIN masks'[r] : d \in ToSet(masks'[r][i])
    <3> SUFFICES ASSUME NEW p \in Masked(policy, first), NEW d \in Chain(p, first)
                 PROVE  \E i \in DOMAIN masks'[r] : d \in ToSet(masks'[r][i])
      BY DEF MaskDirs
    <3>1. mask_directories(p) # <<>> /\ d \in ToSet(mask_directories(p))
      BY <2>5
    <3>2. p \in Lost(sandbox)
      BY <2>4, <3>1
    <3> QED BY <1>4, <3>1, <3>2
  <2>7. \A i \in DOMAIN masks'[r] : ToSet(masks'[r][i]) \subseteq own
    <3> SUFFICES ASSUME NEW i \in DOMAIN masks'[r] PROVE ToSet(masks'[r][i]) \subseteq own
      OBVIOUS
    <3>1. PICK p \in Lost(sandbox) : masks'[r][i] = mask_directories(p)
      BY <1>4
    <3>2. p \in Masked(policy, first) /\ ToSet(masks'[r][i]) = Chain(p, first)
      BY <2>4, <2>5, <3>1
    <3> QED BY <3>2 DEF MaskDirs
  <2>8. SourceOk(resolved'[r], masks'[r], todo'[r], mounts'[r], pc'[r], policy, first, bridge_directory(r))
    BY <1>4, <2>3, <2>6, <2>7 DEF SourceOk, sandbox
  <2> QED BY <1>1, <1>2, <2>8, SourcesStep
<1> QED BY <1>1, <1>3, <1>4

LEMMA ArgumentsFind ==
  ASSUME TreesClosed, MaskInv, LeftInv, SourcesInv, NEW r \in Runs, arguments(r)
  PROVE  SourcesInv'
<1> DEFINE own == MaskDirs(policy, first)
<1>0. /\ TypeOK /\ StepInv /\ DOMAIN resolved = Runs /\ DOMAIN mounts = Runs /\ dirs \subseteq first \cup own
      /\ SourceOk(resolved[r], masks[r], todo[r], mounts[r], pc[r], policy, first, bridge_directory(r))
  BY DEF MaskInv, SourcesInv
<1>1. /\ pc[r] = "arguments" /\ pc' = [pc EXCEPT ![r] = IF masks[r] = <<>> THEN "spawn" ELSE "create"]
      /\ mounts' = [mounts EXCEPT ![r] = bwrap_arguments(resolved[r], planned(r), dirs, bridge_directory(r))]
      /\ todo' = [todo EXCEPT ![r] = masks[r]]
      /\ UNCHANGED <<policy, first, dirs, resolved, masks, held, dead>>
  BY DEF arguments, goto
<1>2. pc'[r] \in {"spawn", "create"} /\ todo'[r] = masks[r] /\ Only(r)
  BY <1>0, <1>1 DEF Only, TypeOK
<1>3. Asks(r) /\ mounts'[r] = bwrap_arguments(resolved[r], planned(r), dirs, bridge_directory(r))
  BY <1>0, <1>1 DEF Asks
<1>4. /\ ResolvedOk(resolved[r], policy, first) /\ \A i \in DOMAIN masks[r] : ToSet(masks[r][i]) \subseteq own
      /\ \A d \in own : \E i \in DOMAIN masks[r] : d \in ToSet(masks[r][i])
  BY <1>0, <1>1 DEF SourceOk
<1>5. planned(r) \subseteq own
  <2> SUFFICES ASSUME NEW m \in ToSet(masks[r]) PROVE Head(m) \in own
    BY DEF planned
  <2>1. PICK i \in DOMAIN masks[r] : m = masks[r][i]
    BY DEF ToSet
  <2>2. m \in Seq(Path) /\ m # <<>>
    BY <1>0, <2>1 DEF TypeOK, StepInv
  <2>3. Head(m) \in ToSet(m)
    BY <2>2 DEF ToSet
  <2> QED BY <1>4, <2>1, <2>3
<1>6. policy \in Policies /\ first \in Existing /\ first \subseteq Path /\ dirs \subseteq Path /\ <<>> \in first
  BY <1>0, SandboxAssumption DEF TypeOK, TreesClosed
<1>7. own \subseteq Path
  <2>1. \A p \in Denied(policy) : p \in Path
    BY <1>6, DeniedPaths
  <2>2. ASSUME NEW p \in Path PROVE Chain(p, first) \subseteq Path
    <3>1. \A n \in 1..Len(p) : n \in 0..Len(p)
      BY <2>2 DEF Path
    <3> QED BY <2>2, <3>1, PartOfPath DEF Chain
  <2> QED BY <2>1, <2>2 DEF MaskDirs, Masked
<1>8. /\ IsFiniteSet(resolved[r].write_allow) /\ resolved[r].write_allow \subseteq Path
      /\ resolved[r].write_allow \subseteq first \cup own
      /\ IsFiniteSet(resolved[r].read_deny) /\ resolved[r].read_deny \subseteq Path
      /\ IsFiniteSet(resolved[r].write_deny) /\ resolved[r].write_deny \subseteq Path
  <2> HIDE DEF own
  <2>1. resolved[r].write_allow \subseteq first \cup own /\ resolved[r].write_deny = Denied(policy)
    BY <1>4 DEF ResolvedOk, own
  <2>2. Denied(policy) \subseteq Path
    BY <1>6, DeniedPaths
  <2> QED BY <1>4, <1>6, <1>7, <2>1, <2>2 DEF ResolvedOk
<1>9. Binds(mounts'[r]) \subseteq first \cup own \cup {bridge_directory(r)}
  <2> HIDE DEF own
  <2>1. Binds(mounts'[r]) \subseteq {<<>>} \cup resolved[r].write_allow \cup dirs \cup planned(r) \cup {bridge_directory(r)}
    BY <1>3, <1>6, <1>8, BindsAre, BridgeIsPath
  <2> QED BY <1>0, <1>5, <1>6, <1>8, <2>1
<1>10. SourceOk(resolved'[r], masks'[r], todo'[r], mounts'[r], pc'[r], policy, first, bridge_directory(r))
  BY <1>1, <1>2, <1>4, <1>9 DEF SourceOk
<1> QED BY <1>1, <1>2, <1>3, <1>10, SourcesStep

LEMMA CreateFinds ==
  ASSUME MaskInv, LeftInv, SourcesInv, NEW r \in Runs, create(r), raced' = {} PROVE SourcesInv'
<1>0. /\ TypeOK /\ RunsLeft /\ DOMAIN resolved = Runs /\ DOMAIN mounts = Runs
      /\ SourceOk(resolved[r], masks[r], todo[r], mounts[r], pc[r], policy, first, bridge_directory(r))
  BY DEF MaskInv, LeftInv, SourcesInv
<1>1. /\ pc[r] = "create" /\ UNCHANGED <<policy, first, resolved, mounts, masks, held, dead, todo>>
      /\ dirs' = dirs \cup {needed(r)[step[r]]}
      /\ pc' = pc \/ pc' = [pc EXCEPT ![r] = "mark"]
  <2>1. raced' # raced \cup {r}
    OBVIOUS
  <2> QED BY <2>1 DEF create, goto
<1>2. Only(r) /\ Asks(r) /\ pc'[r] \in {"create", "mark"}
  BY <1>0, <1>1 DEF Only, Asks, TypeOK
<1>3. needed(r)[step[r]] \in ToSet(todo[r][1]) /\ 1 \in DOMAIN todo[r]
  <2>1. /\ todo[r] # <<>> /\ Building(r) = ToSet(Head(todo[r])) /\ Head(todo[r]) = todo[r][1]
        /\ needed(r)[step[r]] \in Building(r)
    BY <1>0, <1>1, BuildingIs
  <2>2. todo[r] \in Seq(Seq(Path))
    BY <1>0 DEF TypeOK
  <2> QED BY <2>1, <2>2
<1>4. needed(r)[step[r]] \in MaskDirs(policy, first)
  BY <1>0, <1>1, <1>3 DEF SourceOk
<1>5. SourceOk(resolved'[r], masks'[r], todo'[r], mounts'[r], pc'[r], policy, first, bridge_directory(r))
  BY <1>0, <1>1, <1>2 DEF SourceOk
<1>6. \A d \in dirs' : d \in dirs \/ d \in MaskDirs(policy, first)
  BY <1>1, <1>4
<1> QED BY <1>2, <1>5, <1>6, SourcesStep

LEMMA MarkFinds ==
  ASSUME MaskInv, SourcesInv, NEW r \in Runs, mark(r) PROVE SourcesInv'
<1>0. /\ TypeOK /\ StepInv /\ DOMAIN resolved = Runs /\ DOMAIN mounts = Runs
      /\ SourceOk(resolved[r], masks[r], todo[r], mounts[r], pc[r], policy, first, bridge_directory(r))
  BY DEF MaskInv, SourcesInv
<1>1. pc[r] = "mark" /\ UNCHANGED <<policy, first, dirs, resolved, mounts, masks, dead>>
  BY DEF mark
<1>2. Asks(r) /\ \A q \in Runs \ {r} : held'[q] = held[q]
  BY <1>0, <1>1 DEF Asks, mark, TypeOK
<1>3. CASE UNCHANGED todo /\ (pc' = pc \/ goto(r, "create"))
  <2>1. Only(r) /\ pc'[r] \in {"create", "mark"}
    BY <1>0, <1>1, <1>2, <1>3 DEF Only, goto, TypeOK
  <2>2. SourceOk(resolved'[r], masks'[r], todo'[r], mounts'[r], pc'[r], policy, first, bridge_directory(r))
    BY <1>0, <1>1, <1>3, <2>1 DEF SourceOk
  <2> QED BY <1>1, <1>2, <2>1, <2>2, SourcesStep
<1>4. CASE next_mask(r)
  <2>1. todo[r] # <<>>
    BY <1>0, <1>1 DEF StepInv
  <2>2. /\ \A q \in Runs \ {r} : todo'[q] = todo[q] /\ pc'[q] = pc[q]
        /\ pc'[r] \in {"spawn", "create"}
        /\ \A i \in DOMAIN todo'[r] : \E k \in DOMAIN todo[r] : todo'[r][i] = todo[r][k]
    BY <1>0, <1>4, <2>1, NextMask
  <2>3. Only(r)
    BY <1>1, <1>2, <2>2 DEF Only
  <2>4. SourceOk(resolved'[r], masks'[r], todo'[r], mounts'[r], pc'[r], policy, first, bridge_directory(r))
    BY <1>0, <1>1, <2>2 DEF SourceOk
  <2> QED BY <1>1, <1>2, <2>3, <2>4, SourcesStep
<1> QED BY <1>3, <1>4 DEF mark

LEMMA RestFinds ==
  ASSUME TreesClosed, MaskInv, LeftInv, SourcesInv, NEW r \in Runs, spawn(r) \/ end(r) \/ unmark(r) \/ rmdir(r)
  PROVE  SourcesInv'
<1>0. TypeOK /\ RunsLeft /\ DOMAIN resolved = Runs /\ DOMAIN mounts = Runs
  BY DEF MaskInv, LeftInv, SourcesInv
<1>1. /\ UNCHANGED <<policy, first, dead>> /\ \A q \in Runs \ {r} : pc'[q] = pc[q] /\ todo'[q] = todo[q]
      /\ pc'[r] \in {"run", "unmark", "rmdir", "over"}
  BY <1>0 DEF spawn, end, unmark, rmdir, goto, run_vars, TypeOK
<1>2. \A q \in Runs \ {r} : held'[q] = held[q] /\ masks'[q] = masks[q]
  BY <1>0 DEF spawn, end, unmark, rmdir, run_vars, TypeOK
<1>3. Asks(r)
  BY <1>0 DEF spawn, end, unmark, rmdir, run_vars, Asks
<1>4. dirs' \subseteq dirs
  <2>1. CASE spawn(r)
    BY <1>0, <2>1, SpawnBuildsNothing
  <2>2. CASE end(r) \/ unmark(r) \/ rmdir(r)
    BY <2>2 DEF end, unmark, rmdir
  <2> QED BY <2>1, <2>2
<1>5. SourceOk(resolved'[r], masks'[r], todo'[r], mounts'[r], pc'[r], policy, first, bridge_directory(r))
  BY <1>1 DEF SourceOk
<1>6. Only(r)
  BY <1>1, <1>2 DEF Only
<1> QED BY <1>3, <1>4, <1>5, <1>6, SourcesStep

LEMMA KillFinds ==
  ASSUME MaskInv, SourcesInv, NEW r \in Runs, kill(Pid[r]) PROVE SourcesInv'
<1>1. /\ pc' = [q \in Runs |-> IF Pid[q] = Pid[r] THEN "over" ELSE pc[q]]
      /\ UNCHANGED <<policy, first, dirs, resolved, masks, mounts, todo>>
  BY DEF kill, run_vars
<1>2. ASSUME NEW q \in Runs PROVE SourceOk(resolved[q], masks[q], todo[q], mounts[q], pc'[q], policy, first, bridge_directory(q))
  <2>1. pc'[q] = "over" \/ pc'[q] = pc[q]
    BY <1>1
  <2>2. SourceOk(resolved[q], masks[q], todo[q], mounts[q], pc[q], policy, first, bridge_directory(q))
    BY DEF SourcesInv
  <2>3. SourceOk(resolved[q], masks[q], todo[q], mounts[q], "over", policy, first, bridge_directory(q))
    BY DEF SourceOk
  <2> QED BY <2>1, <2>2, <2>3
<1> QED BY <1>1, <1>2 DEF SourcesInv

\* As long as no run has raced, every run has the same masks to build, and binds
\* what was there at first or what these are made of, whichever of them other runs
\* have built when it makes its plan (MaskPlan::of, bwrap_arguments).
THEOREM SourcesAreKept ==
  ASSUME TreesClosed, LinksApart, LinksLead, KillsSettled, MasksApart \/ CrashPoints = {}, TmpThere, RulesFinite
  PROVE  Spec => [](raced = {} => SourcesInv)
<1>1. Init => SourcesInv
  BY DEF Init, SourcesInv, SourceOk
<1>2. MaskInv /\ PlanInv /\ (raced = {} => LeftInv) /\ (raced = {} => SourcesInv) /\ [Next]_vars => (raced = {} => SourcesInv)'
  <2> SUFFICES ASSUME MaskInv, PlanInv, LeftInv, SourcesInv, [Next]_vars, raced' = {} PROVE SourcesInv'
    BY RacedStays
  <2>1. CASE UNCHANGED vars
    BY <2>1 DEF vars, run_vars, SourcesInv
  <2>2. CASE \E r \in Runs : \/ prepare(r) \/ plan_masks(r) \/ arguments(r) \/ create(r) \/ mark(r) \/ spawn(r)
                             \/ end(r) \/ unmark(r) \/ rmdir(r)
    BY <2>2, PrepareFinds, PlanFinds, ArgumentsFind, CreateFinds, MarkFinds, RestFinds
  <2>3. CASE \E r \in Runs : kill(Pid[r])
    BY <2>3, KillFinds
  <2>4. CASE Over
    BY <2>1, <2>4 DEF Over
  <2> QED BY <2>1, <2>2, <2>3, <2>4 DEF Next
<1> QED BY <1>1, <1>2, MasksCorrect, LeftIsKept, PTL DEF Spec

\* What a run is masked by and what it binds is there from its start to its end,
\* as long as no run looked at the masks while another one built or removed them,
\* for any number of runs and processes (MaskPlan, bwrap_arguments, mark_in_use):
\* what it binds and was not there at first is part of its own masks, and those it
\* holds. HeldMasksStayHolds is the part that needs no such condition.
THEOREM MasksStayHolds ==
  ASSUME TreesClosed, LinksApart, LinksLead, KillsSettled, MasksApart \/ CrashPoints = {}, TmpThere, RulesFinite
  PROVE  Spec => [](raced = {} => MasksStay)
<1>1. MaskInv /\ (raced = {} => LeftInv) /\ (raced = {} => SourcesInv) => (raced = {} => MasksStay)
  <2> SUFFICES ASSUME MaskInv, LeftInv, SourcesInv PROVE MasksStay
    OBVIOUS
  <2>1. HeldMasksStay
    BY DEF MaskInv, HeldInv, Holding, HeldMasksStay, ToSet
  <2>2. SourcesThere
    <3> SUFFICES ASSUME NEW r \in Runs, pc[r] = "spawn" PROVE sources(r) \subseteq dirs
      BY DEF SourcesThere
    <3>1. ToSet(held[r].directories) \subseteq dirs /\ first \subseteq dirs /\ alive(r)
      BY <2>1 DEF HeldMasksStay, MaskInv, OwnInv, AliveInv
    <3>2. /\ Binds(mounts[r]) \subseteq first \cup MaskDirs(policy, first) \cup {bridge_directory(r)}
          /\ \A d \in MaskDirs(policy, first) : \E i \in DOMAIN masks[r] : d \in ToSet(masks[r][i])
      BY DEF SourcesInv, SourceOk
    <3>3. \A i \in DOMAIN masks[r] : ToSet(masks[r][i]) \subseteq ToSet(held[r].directories)
      BY <3>1 DEF LeftInv, RunsLeft, PlanOk
    <3>4. sources(r) \subseteq Binds(mounts[r]) \ {bridge_directory(r)}
      BY DEF sources, Binds
    <3> QED BY <3>1, <3>2, <3>3, <3>4
  <2> QED BY <2>1, <2>2 DEF MasksStay
<1> QED BY <1>1, MasksCorrect, LeftIsKept, SourcesAreKept, PTL

-----------------------------------------------------------------------------
\* What a killed process has marked goes once a run has planned after it.

\* A run that planned since a process was last killed has every marker of the dead
\* in a mask that it has still to build, and none is left when it has built them.
SinceInv ==
  \A q \in since :
    /\ pc[q] \notin {"off", "plan"}
    /\ \A m \in markers : ~alive(m[2]) =>
         \/ pc[q] = "arguments" /\ \E i \in DOMAIN masks[q] : m[1] \in ToSet(masks[q][i])
         \/ pc[q] \in {"create", "mark"} /\ \E i \in DOMAIN todo[q] : m[1] \in ToSet(todo[q][i])

LEMMA SinceStep ==
  ASSUME TypeOK, SinceInv, NEW r \in Runs, Only(r), \A q \in since' : q \in Runs /\ (q \in since \/ q = r),
         \A m \in markers' : m \in markers \/ alive(m[2]),
         r \in since' => /\ pc'[r] \notin {"off", "plan"}
                         /\ \A m \in markers' : ~alive(m[2]) =>
                              \/ pc'[r] = "arguments" /\ \E i \in DOMAIN masks'[r] : m[1] \in ToSet(masks'[r][i])
                              \/ pc'[r] \in {"create", "mark"} /\ \E i \in DOMAIN todo'[r] : m[1] \in ToSet(todo'[r][i])
  PROVE  SinceInv'
<1> SUFFICES ASSUME NEW q \in since'
             PROVE  /\ pc'[q] \notin {"off", "plan"}
                    /\ \A m \in markers' : ~alive(m[2])' =>
                         \/ pc'[q] = "arguments" /\ \E i \in DOMAIN masks'[q] : m[1] \in ToSet(masks'[q][i])
                         \/ pc'[q] \in {"create", "mark"} /\ \E i \in DOMAIN todo'[q] : m[1] \in ToSet(todo'[q][i])
  BY DEF SinceInv
<1>1. \A m : alive(m[2])' = alive(m[2])
  BY DEF Only, alive
<1>2. CASE q = r
  BY <1>1, <1>2
<1>3. CASE q # r
  <2>1. q \in since /\ pc'[q] = pc[q] /\ masks'[q] = masks[q] /\ todo'[q] = todo[q]
    BY <1>3 DEF Only
  <2> QED BY <1>1, <2>1 DEF SinceInv
<1> QED BY <1>2, <1>3

LEMMA PlanForgets ==
  ASSUME TreesClosed, MaskInv, PlanInv, LeftInv, SourcesInv, SinceInv, NEW r \in Runs, plan_masks(r), raced' = {}
  PROVE  SinceInv'
<1>0. TypeOK /\ HeldInv /\ OwnInv
  BY DEF MaskInv
<1>1. /\ pc[r] = "plan" /\ \A q \in Runs \ {r} : masks'[q] = masks[q] /\ pc'[q] = pc[q]
      /\ UNCHANGED <<policy, first, dirs, markers, todo, held, dead>>
      /\ (pc'[r] = "over" /\ UNCHANGED since) \/ (pc'[r] = "arguments" /\ since' = since \cup {r})
  BY <1>0, Planned
<1>2. Only(r) /\ r \notin since
  BY <1>1 DEF Only, SinceInv
<1>3. \A q \in since' : q \in Runs /\ (q \in since \/ q = r)
  BY <1>0, <1>1 DEF TypeOK
<1>4. ASSUME pc'[r] = "arguments", NEW m \in markers PROVE \E i \in DOMAIN masks'[r] : m[1] \in ToSet(masks'[r][i])
  <2>1. m[1] \in MaskDirs(policy, first)
    BY <1>0 DEF HeldInv, OwnInv, SourcesInv
  <2>2. SourcesInv'
    BY PlanFinds
  <2>3. \A d \in MaskDirs(policy', first') : \E i \in DOMAIN masks'[r] : d \in ToSet(masks'[r][i])
    BY <1>4, <2>2 DEF SourcesInv, SourceOk
  <2> QED BY <1>1, <2>1, <2>3
<1> QED BY <1>0, <1>1, <1>2, <1>3, <1>4, SinceStep

LEMMA MarkForgets ==
  ASSUME MaskInv, SinceInv, NEW r \in Runs, mark(r), raced' = {}
  PROVE  SinceInv'
<1>0. TypeOK /\ StepInv /\ AliveInv
  BY DEF MaskInv
<1>1. /\ pc[r] = "mark" /\ UNCHANGED <<policy, first, masks, dead, since>> /\ alive(r) /\ todo[r] # <<>>
      /\ \A q \in since' : q \in Runs /\ (q \in since \/ q = r)
  BY <1>0 DEF mark, StepInv, AliveInv, TypeOK
<1>2. raced' # raced \cup {r}
  OBVIOUS
<1> DEFINE path == needed(r)[step[r]]
<1>3. CASE /\ UNCHANGED todo /\ \A q \in Runs \ {r} : held'[q] = held[q]
           /\ pc' = pc \/ pc' = [pc EXCEPT ![r] = "create"]
           /\ markers' \subseteq markers \cup {<<path, r>>}
  <2>1. Only(r) /\ pc'[r] \in {"create", "mark"}
    BY <1>0, <1>1, <1>3 DEF Only, TypeOK
  <2>2. \A m \in markers' : m \in markers \/ alive(m[2])
    BY <1>1, <1>3
  <2>3. r \in since => \A m \in markers : ~alive(m[2]) => \E i \in DOMAIN todo[r] : m[1] \in ToSet(todo[r][i])
    BY <1>1 DEF SinceInv
  <2> QED BY <1>0, <1>1, <1>3, <2>1, <2>2, <2>3, SinceStep
<1>4. CASE /\ markers' = {m \in markers \cup {<<path, r>>} : m[1] \in ToSet(needed(r)) => alive(m[2])}
           /\ next_mask(r) /\ \A q \in Runs \ {r} : held'[q] = held[q]
  <2>1. /\ \A q \in Runs \ {r} : todo'[q] = todo[q] /\ pc'[q] = pc[q]
        /\ pc'[r] \in {"spawn", "create"}
    BY <1>0, <1>1, <1>4, NextMask
  <2>2. Only(r)
    BY <1>1, <1>4, <2>1 DEF Only
  <2>3. \A m \in markers' : m \in markers \/ alive(m[2])
    BY <1>1, <1>4
  <2>4. /\ todo[r] \in Seq(Seq(Path)) /\ todo'[r] = Tail(todo[r]) /\ Head(todo[r]) = todo[r][1]
        /\ pc'[r] = (IF Len(todo[r]) = 1 THEN "spawn" ELSE "create")
    BY <1>0, <1>1, <1>4 DEF next_mask, goto, TypeOK
  <2>5. ToSet(needed(r)) = ToSet(todo[r][1])
    <3>1. /\ needed(r) \in Seq(Path)
          /\ \A i \in 1..Len(needed(r)) : \E k \in DOMAIN todo[r][1] : needed(r)[i] = todo[r][1][k]
          /\ \A k \in DOMAIN todo[r][1] : \E i \in 1..Len(needed(r)) : todo[r][1][k] = needed(r)[i]
      BY <1>0, <1>1, Needed
    <3>2. DOMAIN needed(r) = 1..Len(needed(r))
      BY <3>1
    <3>3. \A x : x \in ToSet(needed(r)) => x \in ToSet(todo[r][1])
      BY <3>1, <3>2 DEF ToSet
    <3>4. \A x : x \in ToSet(todo[r][1]) => x \in ToSet(needed(r))
      BY <3>1, <3>2 DEF ToSet
    <3> QED BY <3>3, <3>4
  <2>6. ASSUME r \in since, NEW m \in markers', ~alive(m[2])
        PROVE  pc'[r] \in {"create", "mark"} /\ \E i \in DOMAIN todo'[r] : m[1] \in ToSet(todo'[r][i])
    <3>1. m \in markers /\ m[1] \notin ToSet(todo[r][1])
      BY <1>4, <2>3, <2>5, <2>6
    <3>2. PICK i \in DOMAIN todo[r] : m[1] \in ToSet(todo[r][i])
      BY <1>1, <2>6, <3>1 DEF SinceInv
    <3>3. i \in 2..Len(todo[r]) /\ Len(todo[r]) \in Nat
      BY <2>4, <3>1, <3>2
    <3>4. i - 1 \in DOMAIN Tail(todo[r]) /\ Tail(todo[r])[i - 1] = todo[r][i] /\ Len(todo[r]) # 1
      BY <2>4, <3>3
    <3> QED BY <2>4, <3>2, <3>4
  <2> QED BY <1>0, <1>1, <2>1, <2>2, <2>3, <2>6, SinceStep
<1>5. UNCHANGED held \/ \A q \in Runs \ {r} : held'[q] = held[q]
  BY <1>0 DEF mark, TypeOK
<1>6. \/ /\ UNCHANGED todo /\ (pc' = pc \/ pc' = [pc EXCEPT ![r] = "create"])
         /\ markers' \subseteq markers \cup {<<path, r>>}
      \/ /\ markers' = {m \in markers \cup {<<path, r>>} : m[1] \in ToSet(needed(r)) => alive(m[2])}
         /\ next_mask(r)
  BY <1>2 DEF mark, goto
<1> HIDE DEF path
<1> QED BY <1>3, <1>4, <1>5, <1>6

LEMMA RestForgets ==
  ASSUME MaskInv, SinceInv, NEW r \in Runs, raced' = {},
         prepare(r) \/ arguments(r) \/ create(r) \/ spawn(r) \/ end(r) \/ unmark(r) \/ rmdir(r)
  PROVE  SinceInv'
<1>0. TypeOK /\ UNCHANGED since /\ \A q \in since' : q \in Runs /\ (q \in since \/ q = r)
  BY DEF MaskInv, TypeOK, prepare, arguments, create, spawn, end, unmark, rmdir
<1>1. CASE prepare(r)
  <2>1. Only(r) /\ UNCHANGED markers /\ pc[r] = "off"
    BY <1>0, <1>1 DEF prepare, goto, Only, TypeOK
  <2> QED BY <1>0, <2>1, SinceStep DEF SinceInv
<1>2. CASE arguments(r)
  <2>1. Only(r) /\ UNCHANGED <<markers, masks>> /\ pc[r] = "arguments"
    BY <1>0, <1>2 DEF arguments, goto, Only, TypeOK
  <2>2. todo'[r] = masks[r] /\ pc'[r] = IF masks[r] = <<>> THEN "spawn" ELSE "create"
    BY <1>0, <1>2 DEF arguments, goto, TypeOK
  <2>3. r \in since => \A m \in markers : ~alive(m[2]) => \E i \in DOMAIN masks[r] : m[1] \in ToSet(masks[r][i])
    BY <2>1 DEF SinceInv
  <2>4. masks[r] = <<>> => DOMAIN masks[r] = {}
    OBVIOUS
  <2> QED BY <1>0, <2>1, <2>2, <2>3, <2>4, SinceStep
<1>3. CASE create(r)
  <2>1. pc[r] = "create" /\ UNCHANGED <<policy, first, markers, masks, held, dead, todo>> /\ (pc' = pc \/ goto(r, "mark"))
    <3>1. raced' # raced \cup {r}
      OBVIOUS
    <3> QED BY <1>3, <3>1 DEF create
  <2>2. Only(r) /\ pc'[r] \in {"create", "mark"}
    BY <1>0, <2>1 DEF goto, Only, TypeOK
  <2>3. r \in since => \A m \in markers : ~alive(m[2]) => \E i \in DOMAIN todo[r] : m[1] \in ToSet(todo[r][i])
    BY <2>1 DEF SinceInv
  <2> QED BY <1>0, <2>1, <2>2, <2>3, SinceStep
<1>4. CASE spawn(r) \/ end(r) \/ unmark(r) \/ rmdir(r)
  <2>1. UNCHANGED <<policy, first, dead, todo>> /\ \A q \in Runs \ {r} : pc'[q] = pc[q]
    BY <1>0, <1>4 DEF spawn, end, unmark, rmdir, goto, run_vars, TypeOK
  <2>2. \A q \in Runs \ {r} : held'[q] = held[q] /\ masks'[q] = masks[q]
    BY <1>0, <1>4 DEF spawn, end, unmark, rmdir, run_vars, TypeOK
  <2>3. /\ markers' \subseteq markers /\ pc'[r] \notin {"off", "plan"}
        /\ pc[r] \in {"spawn", "run", "unmark", "rmdir"}
    BY <1>0, <1>4 DEF spawn, end, unmark, rmdir, goto, TypeOK
  <2>4. Only(r)
    BY <2>1, <2>2 DEF Only
  <2>5. r \in since => \A m \in markers : alive(m[2])
    BY <2>3 DEF SinceInv
  <2> QED BY <1>0, <2>3, <2>4, <2>5, SinceStep
<1> QED BY <1>1, <1>2, <1>3, <1>4

LEMMA SinceIsKept ==
  ASSUME TreesClosed, LinksApart, LinksLead, KillsSettled, MasksApart \/ CrashPoints = {}, TmpThere, RulesFinite
  PROVE  Spec => [](raced = {} => SinceInv)
<1>1. Init => SinceInv
  BY DEF Init, SinceInv
<1>2. MaskInv /\ PlanInv /\ (raced = {} => LeftInv) /\ (raced = {} => SourcesInv) /\ (raced = {} => SinceInv) /\ [Next]_vars
        => (raced = {} => SinceInv)'
  <2> SUFFICES ASSUME MaskInv, PlanInv, LeftInv, SourcesInv, SinceInv, [Next]_vars, raced' = {} PROVE SinceInv'
    BY RacedStays
  <2>1. CASE UNCHANGED vars
    BY <2>1 DEF vars, run_vars, SinceInv, alive
  <2>2. CASE \E r \in Runs : \/ prepare(r) \/ plan_masks(r) \/ arguments(r) \/ create(r) \/ mark(r) \/ spawn(r)
                             \/ end(r) \/ unmark(r) \/ rmdir(r)
    BY <2>2, PlanForgets, MarkForgets, RestForgets
  <2>3. CASE \E r \in Runs : kill(Pid[r])
    BY <2>3 DEF kill, SinceInv
  <2>4. CASE Over
    BY <2>1, <2>4 DEF Over
  <2> QED BY <2>1, <2>2, <2>3, <2>4 DEF Next
<1> QED BY <1>1, <1>2, MasksCorrect, LeftIsKept, SourcesAreKept, PTL DEF Spec

\* The host is as it was: no run takes what was there, and once every run has ended
\* nothing is left of the masks, for any number of runs, processes and masks, nor
\* of those of a killed process if a run planned its masks after the last kill and
\* came to its end (HeldMasks::drop, mark_in_use, remove_dead_markers). It takes
\* kills that do not fall between the steps that build and remove, and, if there
\* are kills, denied paths without a missing directory in common.
THEOREM HostRestoredHolds ==
  ASSUME TreesClosed, LinksApart, LinksLead, KillsSettled, MasksApart \/ CrashPoints = {}, TmpThere, RulesFinite
  PROVE  Spec => []HostRestored
<1>1. MaskInv /\ (raced = {} => LeftInv) /\ (raced = {} => SinceInv) => HostRestored
  <2> SUFFICES ASSUME MaskInv, raced = {} => LeftInv, raced = {} => SinceInv PROVE NothingTaken /\ NothingLeft
    BY DEF HostRestored
  <2>1. NothingTaken
    BY DEF MaskInv, OwnInv, NothingTaken
  <2>2. NothingLeft
    <3> SUFFICES ASSUME \A r \in Runs : pc[r] = "over", raced = {}, dead = {} \/ since # {},
                        NEW d \in dirs, d \notin first
                 PROVE  FALSE
      BY <2>1 DEF NothingLeft, NothingTaken
    <3>1. ~ \E q \in Runs : alive(q) /\ d \in Keeps(q)
      <4> SUFFICES ASSUME NEW q \in Runs, alive(q) PROVE d \notin Keeps(q)
        OBVIOUS
      <4>1. held[q].directories = <<>> /\ Building(q) = {}
        BY DEF LeftInv, RunsLeft, HeldOk, Building
      <4> QED BY <4>1, NoneIn DEF Keeps
    <3>2. Abandoned(d, markers, dead)
      BY <3>1 DEF LeftInv, DirsLeft
    <3>3. PICK m \in markers : Pid[m[2]] \in dead
      BY <3>2 DEF Abandoned
    <3>4. PICK q \in since : q \in Runs
      BY <3>3 DEF MaskInv, TypeOK
    <3>5. pc[q] \in {"arguments", "create", "mark"}
      BY <3>3, <3>4 DEF SinceInv, alive
    <3> QED BY <3>4, <3>5
  <2> QED BY <2>1, <2>2
<1> QED BY <1>1, MasksCorrect, LeftIsKept, SinceIsKept, PTL

-----------------------------------------------------------------------------
\* What a run may write. The last mount or rule on the way to a path decides.

Above(s, path) == {i \in 1..Len(s) : under(path, s[i].target)}
Covers(s, path) == Above(s, path) # {}

LEMMA LastMount ==
  ASSUME NEW s \in Seq(Mount), NEW path, Covers(s, path)
  PROVE  \E k \in Above(s, path) : mode_of(s, path) = s[k].mode /\ \A j \in Above(s, path) : j <= k
<1> DEFINE I == Above(s, path)
<1>1. mode_of(s, path) = s[Max(I)].mode
  BY DEF mode_of, SelectLastInSeq, Above, Covers
<1>2. I # {} /\ Len(s) \in Nat /\ I \subseteq 0..Len(s)
  <2>1. Len(s) \in Nat
    OBVIOUS
  <2> QED BY <2>1 DEF Above, Covers
<1>3. \E i \in I : \A j \in I : j <= i
  <2> HIDE DEF I
  <2> QED BY <1>2, GreatestNat
<1>4. \E i \in I : \A j \in I : i >= j
  <2>1. \A i, j \in I : j <= i => i >= j
    <3> HIDE DEF I
    <3> QED BY <1>2
  <2> HIDE DEF I
  <2> QED BY <1>3, <2>1
<1>5. Max(I) \in I /\ \A j \in I : Max(I) >= j
  <2> HIDE DEF I
  <2> QED BY <1>4 DEF Max
<1>6. \A j \in I : j <= Max(I)
  <2> HIDE DEF I
  <2> QED BY <1>2, <1>5
<1> QED BY <1>1, <1>5, <1>6

LEMMA ModeConcat ==
  ASSUME NEW s \in Seq(Mount), NEW t \in Seq(Mount), NEW path
  PROVE  /\ s \o t \in Seq(Mount)
         /\ Covers(s, path) \/ Covers(t, path) => Covers(s \o t, path)
         /\ Covers(t, path) => mode_of(s \o t, path) = mode_of(t, path)
         /\ Covers(s, path) /\ ~Covers(t, path) => mode_of(s \o t, path) = mode_of(s, path)
<1> DEFINE u == s \o t
           l == Len(s)
           k == Len(t)
<1>1. l \in Nat /\ k \in Nat
  OBVIOUS
<1>2. /\ u \in Seq(Mount) /\ Len(u) = l + k
      /\ \A i \in 1..(l + k) : u[i] = IF i <= l THEN s[i] ELSE t[i - l]
  BY ConcatProperties
<1> HIDE DEF u
<1>3. \A i \in Above(s, path) : i \in Above(u, path) /\ i \in 1..l /\ u[i] = s[i]
  <2>1. \A i \in 1..l : i \in 1..(l + k) /\ u[i] = s[i]
    BY <1>1, <1>2
  <2> QED BY <1>2, <2>1 DEF Above
<1>4. \A i \in Above(t, path) : l + i \in Above(u, path) /\ i \in 1..k /\ u[l + i] = t[i]
  <2>1. \A i \in 1..k : l + i \in 1..(l + k) /\ ~(l + i <= l) /\ (l + i) - l = i
    BY <1>1
  <2>2. \A i \in 1..k : u[l + i] = t[i]
    BY <1>2, <2>1
  <2> QED BY <1>2, <2>1, <2>2 DEF Above
<1>5. \A i \in Above(u, path) : \/ i \in Above(s, path)
                                \/ i - l \in Above(t, path) /\ i > l
  <2> TAKE i \in Above(u, path)
  <2>1. i \in 1..(l + k) /\ under(path, u[i].target)
    BY <1>2 DEF Above
  <2>2. CASE i <= l
    <3>1. i \in 1..l /\ u[i] = s[i]
      BY <1>1, <1>2, <2>1, <2>2
    <3> QED BY <2>1, <3>1 DEF Above
  <2>3. CASE ~(i <= l)
    <3>1. i - l \in 1..k /\ u[i] = t[i - l] /\ i > l
      BY <1>1, <1>2, <2>1, <2>3
    <3> QED BY <2>1, <3>1 DEF Above
  <2> QED BY <2>2, <2>3
<1>6. Covers(s, path) \/ Covers(t, path) => Covers(u, path)
  BY <1>3, <1>4 DEF Covers
<1>7. Above(u, path) \subseteq Nat /\ Above(s, path) \subseteq 1..l /\ Above(t, path) \subseteq 1..k
  BY <1>1, <1>2 DEF Above
<1> HIDE DEF l, k
<1>8. ASSUME Covers(t, path) PROVE mode_of(u, path) = mode_of(t, path)
  <2>1. PICK i \in Above(t, path) : mode_of(t, path) = t[i].mode /\ \A j \in Above(t, path) : j <= i
    BY <1>8, LastMount
  <2>2. PICK h \in Above(u, path) : mode_of(u, path) = u[h].mode /\ \A j \in Above(u, path) : j <= h
    BY <1>2, <1>6, <1>8, LastMount
  <2>3. l + i \in Above(u, path) /\ i \in 1..k /\ u[l + i] = t[i] /\ l + i <= h
    BY <1>4, <2>1, <2>2
  <2>4. h - l \in Above(t, path)
    <3>1. h \notin Above(s, path)
      BY <1>1, <1>7, <2>3
    <3> QED BY <1>5, <3>1
  <2>5. h - l <= i /\ h \in Nat
    BY <1>7, <2>1, <2>4
  <2>6. h = l + i
    BY <1>1, <2>3, <2>5
  <2> QED BY <2>1, <2>2, <2>3, <2>6
<1>9. ASSUME Covers(s, path), ~Covers(t, path) PROVE mode_of(u, path) = mode_of(s, path)
  <2>1. PICK i \in Above(s, path) : mode_of(s, path) = s[i].mode /\ \A j \in Above(s, path) : j <= i
    BY <1>9, LastMount
  <2>2. PICK h \in Above(u, path) : mode_of(u, path) = u[h].mode /\ \A j \in Above(u, path) : j <= h
    BY <1>2, <1>6, <1>9, LastMount
  <2>3. h \in Above(s, path)
    BY <1>5, <1>9 DEF Covers
  <2>4. h <= i /\ i <= h /\ i \in Nat /\ h \in Nat /\ u[i] = s[i]
    BY <1>1, <1>3, <1>7, <2>1, <2>2, <2>3
  <2>5. h = i
    BY <2>4
  <2> QED BY <2>1, <2>2, <2>4, <2>5
<1> QED BY <1>2, <1>6, <1>8, <1>9 DEF u

LEMMA ModeAll ==
  ASSUME NEW mode \in Modes, NEW S, IsFiniteSet(S), S \subseteq Path, NEW path
  PROVE  /\ Covers(all(mode, S), path) <=> \E p \in S : under(path, p)
         /\ Covers(all(mode, S), path) => mode_of(all(mode, S), path) = mode
<1> DEFINE order == sorted(S)
           n == Cardinality(S)
           s == all(mode, S)
<1>1. order \in [1..n -> S] /\ n \in Nat /\ \A p \in S : \E i \in 1..n : order[i] = p
  <2>1. order \in [1..n -> S] /\ n \in Nat
    BY SortedIs
  <2>2. \A p \in S : \E i \in DOMAIN order : order[i] = p
    BY SortedOnto
  <2> HIDE DEF order, n
  <2> QED BY <2>1, <2>2
<1>2. s = [i \in DOMAIN order |-> mount(mode, order[i])]
  BY DEF all
<1>3. s \in Seq(Mount)
  BY BindsAll
<1> HIDE DEF order, n, s
<1>4. Len(s) = n /\ \A i \in 1..n : s[i].mode = mode /\ s[i].target = order[i]
  BY <1>1, <1>2, <1>3 DEF mount
<1>5. Above(s, path) = {i \in 1..n : under(path, order[i])}
  BY <1>4 DEF Above
<1>6. Covers(s, path) <=> \E p \in S : under(path, p)
  BY <1>1, <1>5 DEF Covers
<1>7. ASSUME Covers(s, path) PROVE mode_of(s, path) = mode
  <2>1. PICK k \in Above(s, path) : mode_of(s, path) = s[k].mode
    BY <1>3, <1>7, LastMount
  <2> QED BY <1>4, <1>5, <2>1
<1> QED BY <1>6, <1>7 DEF s

LEMMA ModeOne ==
  ASSUME NEW m \in Mount, NEW path
  PROVE  /\ Covers(<<m>>, path) <=> under(path, m.target)
         /\ Covers(<<m>>, path) => mode_of(<<m>>, path) = m.mode
<1> DEFINE s == <<m>>
<1>1. s \in Seq(Mount) /\ Len(s) = 1 /\ s[1] = m
  OBVIOUS
<1> HIDE DEF s
<1>2. \A i : i \in Above(s, path) <=> i = 1 /\ under(path, m.target)
  <2>1. \A i : i \in 1..1 <=> i = 1
    OBVIOUS
  <2> QED BY <1>1, <2>1 DEF Above
<1>3. Covers(s, path) <=> under(path, m.target)
  BY <1>2 DEF Covers
<1>4. ASSUME Covers(s, path) PROVE mode_of(s, path) = m.mode
  <2>1. PICK k \in Above(s, path) : mode_of(s, path) = s[k].mode
    BY <1>1, <1>4, LastMount
  <2> QED BY <1>1, <1>2, <2>1
<1> QED BY <1>3, <1>4 DEF s

\* bwrap lets a path be written if something on the way to it may be, and nothing on
\* the way is denied or hidden, or if it is in the directory of the sockets.
LEMMA ModeIs ==
  ASSUME NEW sandbox, NEW plan, NEW fs, fs \subseteq Path, NEW own \in Path, NEW path \in Path,
         IsFiniteSet(sandbox.write_allow), sandbox.write_allow \subseteq Path,
         IsFiniteSet(sandbox.read_deny), sandbox.read_deny \subseteq Path,
         IsFiniteSet(sandbox.write_deny), sandbox.write_deny \subseteq Path
  PROVE  mode_of(bwrap_arguments(sandbox, plan, fs, own), path) = "bind"
           <=> \/ under(path, own)
               \/ /\ ~ \E p \in sandbox.read_deny : under(path, p)
                  /\ ~ \E p \in sandbox.write_deny : (p \in plan \/ p \in fs) /\ under(path, p)
                  /\ \E p \in sandbox.write_allow \cup (protected_ancestors(sandbox) \cap fs) : under(path, p)
<1> DEFINE denied == {p \in sandbox.write_deny : p \in plan \/ p \in fs}
           guarded == protected_ancestors(sandbox) \cap fs
           s1 == <<mount("ro", <<>>)>>
           s2 == IF SlashTmp \in sandbox.write_allow THEN <<>> ELSE <<mount("tmpfs", SlashTmp)>>
           s3 == all("bind", sandbox.write_allow)
           s4 == all("bind", guarded)
           s5 == all("ro", denied)
           s6 == all("tmpfs", sandbox.read_deny)
           s7 == <<mount("bind", own)>>
<1>1. bwrap_arguments(sandbox, plan, fs, own) = s1 \o s2 \o s3 \o s4 \o s5 \o s6 \o s7
  BY DEF bwrap_arguments
<1>2. IsFiniteSet(denied) /\ denied \subseteq Path
  <2>1. denied \in SUBSET sandbox.write_deny
    OBVIOUS
  <2> HIDE DEF denied
  <2> QED BY <2>1, FS_Subset
<1>3. IsFiniteSet(guarded) /\ guarded \subseteq Path
  <2> DEFINE above == UNION {ancestors(p) : p \in sandbox.write_deny}
  <2>1. IsFiniteSet(above) /\ above \subseteq Path
    BY AncestorsFinite
  <2>2. guarded \in SUBSET above
    BY DEF protected_ancestors
  <2> HIDE DEF above, guarded
  <2> QED BY <2>1, <2>2, FS_Subset
<1>m. "ro" \in Modes /\ "bind" \in Modes /\ "tmpfs" \in Modes
  BY DEF Modes
<1>4. mount("ro", <<>>) \in Mount /\ mount("tmpfs", SlashTmp) \in Mount /\ mount("bind", own) \in Mount /\ <<>> \in Path
  <2>1. <<>> \in Path /\ SlashTmp \in Path
    BY SlashTmpIsPath
  <2> QED BY <2>1 DEF mount, Mount, Modes
<1>5. s1 \in Seq(Mount) /\ Covers(s1, path) /\ mode_of(s1, path) = "ro"
  <2>1. mount("ro", <<>>).target = <<>> /\ mount("ro", <<>>).mode = "ro"
    BY DEF mount
  <2>2. under(path, <<>>)
    <3>1. Len(<<>>) \in 0..Len(path) /\ SubSeq(path, 1, Len(<<>>)) = <<>>
      BY EmptyPart DEF Path
    <3> QED BY <1>4, <3>1, UnderIs
  <2>3. s1 \in Seq(Mount)
    BY <1>4
  <2> QED BY <1>4, <2>1, <2>2, <2>3, ModeOne
<1>6. s2 \in Seq(Mount) /\ (Covers(s2, path) => mode_of(s2, path) = "tmpfs")
  <2>1. CASE SlashTmp \in sandbox.write_allow
    BY <2>1 DEF Covers, Above
  <2>2. CASE SlashTmp \notin sandbox.write_allow
    <3>1. mount("tmpfs", SlashTmp).mode = "tmpfs" /\ s2 = <<mount("tmpfs", SlashTmp)>> /\ s2 \in Seq(Mount)
      BY <1>4, <2>2 DEF mount
    <3> HIDE DEF s2
    <3> QED BY <1>4, <3>1, ModeOne
  <2> QED BY <2>1, <2>2
<1>7. /\ s3 \in Seq(Mount) /\ (Covers(s3, path) => mode_of(s3, path) = "bind")
      /\ Covers(s3, path) <=> \E p \in sandbox.write_allow : under(path, p)
  BY <1>m, BindsAll, ModeAll
<1>8. /\ s4 \in Seq(Mount) /\ (Covers(s4, path) => mode_of(s4, path) = "bind")
      /\ Covers(s4, path) <=> \E p \in guarded : under(path, p)
  <2> HIDE DEF guarded
  <2> QED BY <1>3, <1>m, BindsAll, ModeAll
<1>9. /\ s5 \in Seq(Mount) /\ (Covers(s5, path) => mode_of(s5, path) = "ro")
      /\ Covers(s5, path) <=> \E p \in denied : under(path, p)
  <2> HIDE DEF denied
  <2> QED BY <1>2, <1>m, BindsAll, ModeAll
<1>10. /\ s6 \in Seq(Mount) /\ (Covers(s6, path) => mode_of(s6, path) = "tmpfs")
       /\ Covers(s6, path) <=> \E p \in sandbox.read_deny : under(path, p)
  BY <1>m, BindsAll, ModeAll
<1>10a. s7 \in Seq(Mount) /\ (Covers(s7, path) => mode_of(s7, path) = "bind") /\ (Covers(s7, path) <=> under(path, own))
  <2>1. mount("bind", own).target = own /\ mount("bind", own).mode = "bind"
    BY DEF mount
  <2> QED BY <1>4, <2>1, ModeOne
<1>11. /\ (\E p \in sandbox.write_deny : (p \in plan \/ p \in fs) /\ under(path, p)) <=> Covers(s5, path)
       /\ (\E p \in sandbox.write_allow \cup guarded : under(path, p)) <=> Covers(s3, path) \/ Covers(s4, path)
  BY <1>7, <1>8, <1>9
<1> HIDE DEF s1, s2, s3, s4, s5, s6, s7, denied, guarded
<1> DEFINE t2 == s1 \o s2
           t3 == t2 \o s3
           t4 == t3 \o s4
           t5 == t4 \o s5
           t6 == t5 \o s6
           t7 == t6 \o s7
<1>12. t2 \in Seq(Mount) /\ Covers(t2, path) /\ mode_of(t2, path) # "bind"
  <2>1. mode_of(t2, path) = mode_of(s1, path) \/ mode_of(t2, path) = "tmpfs"
    BY <1>5, <1>6, ModeConcat
  <2> QED BY <1>5, <1>6, <2>1, ModeConcat
<1> HIDE DEF t2
<1>13. t3 \in Seq(Mount) /\ Covers(t3, path) /\ (mode_of(t3, path) = "bind" <=> Covers(s3, path))
  BY <1>7, <1>12, ModeConcat
<1> HIDE DEF t3
<1>14. t4 \in Seq(Mount) /\ Covers(t4, path) /\ (mode_of(t4, path) = "bind" <=> Covers(s3, path) \/ Covers(s4, path))
  BY <1>8, <1>13, ModeConcat
<1> HIDE DEF t4
<1>15. /\ t5 \in Seq(Mount) /\ Covers(t5, path)
       /\ mode_of(t5, path) = "bind" <=> ~Covers(s5, path) /\ (Covers(s3, path) \/ Covers(s4, path))
  BY <1>9, <1>14, ModeConcat
<1> HIDE DEF t5
<1>16. /\ t6 \in Seq(Mount) /\ Covers(t6, path)
       /\ mode_of(t6, path) = "bind" <=> ~Covers(s6, path) /\ ~Covers(s5, path) /\ (Covers(s3, path) \/ Covers(s4, path))
  BY <1>10, <1>15, ModeConcat
<1> HIDE DEF t6
<1>17. mode_of(t7, path) = "bind"
         <=> Covers(s7, path) \/ (~Covers(s6, path) /\ ~Covers(s5, path) /\ (Covers(s3, path) \/ Covers(s4, path)))
  BY <1>10a, <1>16, ModeConcat
<1>18. bwrap_arguments(sandbox, plan, fs, own) = t7
  BY <1>1 DEF t2, t3, t4, t5, t6
<1> HIDE DEF t7
<1> QED BY <1>10, <1>10a, <1>11, <1>17, <1>18 DEF guarded

\* Seatbelt does, if nothing on the way is denied.
LEMMA ProfileIs ==
  ASSUME NEW sandbox, NEW path
  PROVE  profile_allows(profile(sandbox), path)
           <=> /\ \E p \in sandbox.write_allow : under(path, p)
               /\ ~ \E p \in sandbox.write_deny : under(path, p)
<1> DEFINE rules == profile(sandbox)
           I == {i \in 1..Len(rules) : \E p \in rules[i].paths : under(path, p)}
           n == IF I # {} THEN Max(I) ELSE 0
<1>1. /\ Len(rules) = 2 /\ rules[1].paths = sandbox.write_allow /\ rules[1].allow = TRUE
      /\ rules[2].paths = sandbox.write_deny /\ rules[2].allow = FALSE
  BY DEF profile
<1>2. profile_allows(rules, path) <=> n # 0 /\ rules[n].allow
  BY DEF profile_allows, SelectLastInSeq
<1>3. \A i : i \in I <=> \/ i = 1 /\ \E p \in sandbox.write_allow : under(path, p)
                         \/ i = 2 /\ \E p \in sandbox.write_deny : under(path, p)
  <2>1. \A i : i \in 1..2 <=> i = 1 \/ i = 2
    OBVIOUS
  <2> HIDE DEF rules
  <2> QED BY <1>1, <2>1
<1> HIDE DEF I, rules
<1>4. CASE \E p \in sandbox.write_deny : under(path, p)
  <2>1. 2 \in I /\ \A j \in I : 2 >= j
    BY <1>3, <1>4
  <2>2. Max(I) = 2
    <3>1. Max(I) \in I /\ \A j \in I : Max(I) >= j
      BY <2>1 DEF Max
    <3> QED BY <1>3, <2>1, <3>1
  <2> QED BY <1>1, <1>2, <1>4, <2>1, <2>2 DEF rules
<1>5. CASE ~ \E p \in sandbox.write_deny : under(path, p)
  <2>1. CASE \E p \in sandbox.write_allow : under(path, p)
    <3>1. I = {1}
      BY <1>3, <1>5, <2>1
    <3>2. Max(I) = 1
      BY <3>1 DEF Max
    <3> QED BY <1>1, <1>2, <1>5, <2>1, <3>1, <3>2 DEF rules
  <2>2. CASE ~ \E p \in sandbox.write_allow : under(path, p)
    <3>1. I = {}
      BY <1>3, <1>5, <2>2
    <3> QED BY <1>2, <2>2, <3>1 DEF rules
  <2> QED BY <2>1, <2>2
<1> QED BY <1>4, <1>5

MayWrite(path, p, e) ==
  (\E a \in Allowed(p, e) : under(path, a)) /\ ~ \E d \in Denied(p) : under(path, d)
MustHide(path, p, e) == \E h \in existing(Hides(p), e) : under(path, h)
\* No path that must not be read is a missing directory of a mask.
HidesApart ==
  \A p \in Policies : \A e \in Existing : {follow(absolute(rule)) : rule \in Hides(p)} \cap MaskDirs(p, e) = {}

\* A run may write what it would if there were no masks, and its own sockets, and
\* has a mask for what is denied and missing on the way to something that it may
\* write.
WriteOk(sandbox, plan, asked, at, p, e, own) ==
  /\ at \in {"plan", "arguments", "create", "mark", "spawn", "run"} =>
       \A path \in Path : profile_allows(profile(sandbox), path) <=> MayWrite(path, p, e)
  /\ at \in {"plan", "arguments"} =>
       /\ sandbox.read_deny = existing(Hides(p), e)
       /\ \A path \in Path : \A d \in Denied(p) \ e : \A a \in sandbox.write_allow :
            under(path, d) /\ under(path, a) =>
              d \in Masked(p, e) /\ (at = "arguments" => \E i \in DOMAIN plan : Head(plan[i]) = d)
  /\ at \in {"create", "mark", "spawn", "run"} =>
       \A path \in Path : mode_of(asked, path) = "bind"
                           <=> under(path, own) \/ (MayWrite(path, p, e) /\ ~MustHide(path, p, e))
WritesInv == \A r \in Runs : WriteOk(resolved[r], masks[r], mounts[r], pc[r], policy, first, bridge_directory(r))

\* A denied path that is missing, on the way to something that may be written, has a
\* mask.
LEMMA DeniedMasked ==
  ASSUME TreesClosed, TmpThere, NEW p \in Policies, NEW e \in Existing, NEW fs, e \subseteq fs,
         fs \subseteq e \cup MaskDirs(p, e), fs \subseteq Path, NEW a \in Allowed(p, fs),
         NEW path \in Path, NEW d \in Denied(p), d \notin e, under(path, d), under(path, a)
  PROVE  d \in Masked(p, e)
<1>1. d \in Path /\ Len(d) \in Nat
  BY DeniedPaths DEF Path
<1>2. a \in Path /\ Len(a) \in Nat /\ (a \notin e => \E c \in Masked(p, e) : under(c, a))
  BY AllowedAbove
<1>3. CASE ~(Len(d) <= Len(a))
  <2>1. under(d, a) /\ d # a
    BY <1>1, <1>2, <1>3, PartsOrdered
  <2>2. d \in Masked(p, fs)
    BY <2>1 DEF Masked
  <2> QED BY <2>2, MaskedStays
<1>4. CASE Len(d) <= Len(a)
  <2>1. under(a, d)
    BY <1>1, <1>2, <1>4, PartsOrdered
  <2>2. a \notin e
    BY <1>1, <1>2, <2>1, AboveExists
  <2>3. PICK c \in Masked(p, e) : under(c, a)
    BY <1>2, <2>2
  <2>4. PICK b \in Allowed(p, e) : under(c, b) /\ c # b
    BY <2>3 DEF Masked
  <2>5. c \in Path /\ b \in Path /\ b \in e /\ Len(b) \in Nat
    <3>1. c \in Path
      BY <2>3, DeniedPaths DEF Masked
    <3>2. b \in e /\ e \subseteq Path
      BY <2>4, SandboxAssumption DEF Allowed, existing, exists, TmpThere
    <3>3. b \in Path
      BY <3>2
    <3> QED BY <3>1, <3>2, <3>3 DEF Path
  <2>6. under(c, d)
    BY <1>1, <1>2, <2>1, <2>3, <2>5, UnderUnder
  <2>7. ~(Len(d) <= Len(b))
    <3> SUFFICES ASSUME Len(d) <= Len(b) PROVE FALSE
      OBVIOUS
    <3>1. under(b, d)
      BY <1>1, <2>4, <2>5, <2>6, PartsOrdered
    <3> QED BY <1>1, <2>5, <3>1, AboveExists
  <2>8. under(d, b) /\ d # b
    BY <1>1, <2>4, <2>5, <2>6, <2>7, PartsOrdered
  <2> QED BY <2>8 DEF Masked
<1> QED BY <1>3, <1>4

\* Masks do not change what may be written.
LEMMA MayWriteStays ==
  ASSUME TreesClosed, TmpThere, NEW p \in Policies, NEW e \in Existing, NEW fs, e \subseteq fs,
         fs \subseteq e \cup MaskDirs(p, e), fs \subseteq Path, NEW path \in Path
  PROVE  MayWrite(path, p, fs) <=> MayWrite(path, p, e)
<1>1. Allowed(p, e) \subseteq Allowed(p, fs)
  BY DEF Allowed, existing, exists
<1>2. ASSUME NEW a \in Allowed(p, fs), under(path, a) PROVE \E b \in Allowed(p, e) : under(path, b)
  <2>1. a \in Path /\ \E b \in Allowed(p, e) : b \in Path /\ under(a, b)
    BY AllowedAbove
  <2> QED BY <1>2, <2>1, UnderUnder
<1> QED BY <1>1, <1>2 DEF MayWrite

LEMMA WritesStep ==
  ASSUME WritesInv, NEW r \in Runs, policy' = policy, first' = first,
         \A q \in Runs \ {r} : resolved'[q] = resolved[q] /\ masks'[q] = masks[q] /\ mounts'[q] = mounts[q] /\ pc'[q] = pc[q],
         WriteOk(resolved'[r], masks'[r], mounts'[r], pc'[r], policy, first, bridge_directory(r))
  PROVE  WritesInv'
<1> SUFFICES ASSUME NEW q \in Runs PROVE WriteOk(resolved'[q], masks'[q], mounts'[q], pc'[q], policy', first', bridge_directory(q))
  BY DEF WritesInv
<1>1. CASE q = r
  BY <1>1
<1>2. CASE q # r
  BY <1>2 DEF WritesInv
<1> QED BY <1>1, <1>2

LEMMA PrepareWrites ==
  ASSUME TreesClosed, LinksApart, LinksLead, TmpThere, HidesApart, MaskInv, SourcesInv, WritesInv, NEW r \in Runs, prepare(r)
  PROVE  WritesInv'
<1>0. TypeOK /\ OwnInv /\ DOMAIN resolved = Runs
  BY DEF MaskInv, SourcesInv
<1>1. UNCHANGED <<policy, first, dirs, masks, mounts>>
  BY DEF prepare
<1>2. CASE goto(r, "over") /\ UNCHANGED resolved
  <2>1. pc'[r] = "over" /\ \A q \in Runs \ {r} : pc'[q] = pc[q]
    BY <1>0, <1>2 DEF goto, TypeOK
  <2>2. WriteOk(resolved'[r], masks'[r], mounts'[r], pc'[r], policy, first, bridge_directory(r))
    BY <2>1 DEF WriteOk
  <2> QED BY <1>1, <1>2, <2>1, <2>2, WritesStep
<1>3. ASSUME NEW program, resolved' = [resolved EXCEPT ![r] = resolve(dirs, program)], goto(r, "plan") PROVE WritesInv'
  <2> DEFINE sandbox == resolve(dirs, program)
  <2>1. pc'[r] = "plan" /\ \A q \in Runs \ {r} : pc'[q] = pc[q]
    BY <1>0, <1>3 DEF goto, TypeOK
  <2>1a. resolved'[r] = sandbox /\ \A q \in Runs \ {r} : resolved'[q] = resolved[q]
    <3> HIDE DEF sandbox
    <3>1. resolved' = [resolved EXCEPT ![r] = sandbox]
      BY <1>3 DEF sandbox
    <3> QED BY <1>0, <3>1
  <2>2. /\ policy \in Policies /\ first \in Existing /\ first \subseteq dirs /\ dirs \subseteq Path
        /\ dirs \subseteq first \cup MaskDirs(policy, first)
    BY <1>0 DEF TypeOK, OwnInv, SourcesInv
  <2>3. sandbox.write_deny = Denied(policy) /\ Denied(policy) \subseteq Path
    BY <2>2, DeniedIs
  <2>4. sandbox.write_allow = Allowed(policy, dirs) /\ sandbox.read_deny = existing(Hides(policy), dirs)
    BY AllowedIs
  <2>5. sandbox.read_deny = existing(Hides(policy), first)
    <3>1. \A rule \in Hides(policy) : follow(absolute(rule)) \in dirs <=> follow(absolute(rule)) \in first
      BY <2>2 DEF HidesApart
    <3>2. existing(Hides(policy), dirs) = existing(Hides(policy), first)
      BY <3>1 DEF existing, exists
    <3> QED BY <2>4, <3>2
  <2>6. ASSUME NEW path \in Path PROVE profile_allows(profile(sandbox), path) <=> MayWrite(path, policy, first)
    <3>1. profile_allows(profile(sandbox), path) <=> MayWrite(path, policy, dirs)
      <4>1. profile_allows(profile(sandbox), path)
              <=> /\ \E p \in sandbox.write_allow : under(path, p)
                  /\ ~ \E p \in sandbox.write_deny : under(path, p)
        BY ProfileIs
      <4> HIDE DEF sandbox
      <4> QED BY <2>3, <2>4, <4>1 DEF MayWrite
    <3>2. MayWrite(path, policy, dirs) <=> MayWrite(path, policy, first)
      BY <2>2, MayWriteStays
    <3> QED BY <3>1, <3>2
  <2>7. ASSUME NEW path \in Path, NEW d \in Denied(policy) \ first, NEW a \in sandbox.write_allow,
               under(path, d), under(path, a)
        PROVE  d \in Masked(policy, first)
    BY <2>2, <2>3, <2>4, <2>7, DeniedMasked
  <2>8. WriteOk(resolved'[r], masks'[r], mounts'[r], pc'[r], policy, first, bridge_directory(r))
    <3> HIDE DEF sandbox
    <3> QED BY <2>1, <2>1a, <2>5, <2>6, <2>7 DEF WriteOk
  <2> QED BY <1>1, <2>1, <2>1a, <2>8, WritesStep
<1> QED BY Zenon, <1>2, <1>3 DEF prepare

LEMMA PlanWrites ==
  ASSUME TreesClosed, MaskInv, PlanInv, LeftInv, SourcesInv, WritesInv, NEW r \in Runs, plan_masks(r), raced' = {}
  PROVE  WritesInv'
<1> DEFINE sandbox == resolved[r]
<1>0. TypeOK /\ OwnInv
  BY DEF MaskInv
<1>1. /\ pc[r] = "plan" /\ \A q \in Runs \ {r} : masks'[q] = masks[q] /\ pc'[q] = pc[q] /\ resolved'[q] = resolved[q]
      /\ UNCHANGED <<policy, first, dirs, markers, mounts>>
      /\ \/ pc'[r] = "over"
         \/ /\ pc'[r] = "arguments" /\ UNCHANGED resolved /\ raced' = IF alone(r) THEN raced ELSE raced \cup {r}
            /\ \A p \in Lost(sandbox) : \E i \in DOMAIN masks'[r] : masks'[r][i] = mask_directories(p)
  BY <1>0, Planned
<1>2. CASE pc'[r] = "over"
  <2>1. WriteOk(resolved'[r], masks'[r], mounts'[r], pc'[r], policy, first, bridge_directory(r))
    BY <1>2 DEF WriteOk
  <2> QED BY <1>1, <2>1, WritesStep
<1>3. CASE /\ pc'[r] = "arguments" /\ UNCHANGED resolved /\ raced' = IF alone(r) THEN raced ELSE raced \cup {r}
           /\ \A p \in Lost(sandbox) : \E i \in DOMAIN masks'[r] : masks'[r][i] = mask_directories(p)
  <2>1. /\ alone(r) /\ policy \in Policies /\ first \in Existing /\ first \subseteq dirs
        /\ \A m \in markers : m[1] \notin first
    BY <1>0, <1>3 DEF TypeOK, OwnInv
  <2>2. /\ WriteOk(sandbox, masks[r], mounts[r], "plan", policy, first, bridge_directory(r))
        /\ ResolvedOk(sandbox, policy, first)
    BY <1>1 DEF WritesInv, SourcesInv, SourceOk
  <2>3. \A d \in dirs : d \in first \/ is_marked(d)
    BY <1>1, <2>1, AllMarked
  <2>4. ASSUME NEW d \in Masked(policy, first), d \notin first
        PROVE  \E i \in DOMAIN masks'[r] : Head(masks'[r][i]) = d
    <3>1. d \in Denied(policy) /\ d \in Path
      BY <2>1, DeniedPaths DEF Masked
    <3>2. Chain(d, first) # {}
      <4>1. d # <<>>
        BY <2>1, <2>4 DEF TreesClosed
      <4>2. Len(d) \in 1..Len(d) /\ SubSeq(d, 1, Len(d)) = d
        BY <3>1, <4>1, SubSeqFull DEF Path
      <4> QED BY <2>4, <4>2 DEF Chain
    <3>3. mask_directories(d) # <<>> /\ mask_directories(d)[1] = d
      BY <2>1, <2>3, <3>1, <3>2, WholeMask
    <3>4. d \in Lost(sandbox)
      <4> HIDE DEF sandbox
      <4> QED BY <2>2, <2>4, <3>1, <3>3 DEF ResolvedOk, Lost
    <3>5. PICK i \in DOMAIN masks'[r] : masks'[r][i] = mask_directories(d)
      BY <1>3, <3>4
    <3>6. Head(mask_directories(d)) = d
      BY <3>1, <3>3, MaskDirectories
    <3> QED BY <3>5, <3>6
  <2> HIDE DEF sandbox
  <2>5. WriteOk(sandbox, masks'[r], mounts[r], "arguments", policy, first, bridge_directory(r))
    BY <2>2, <2>4 DEF WriteOk
  <2> QED BY <1>1, <1>3, <2>5, WritesStep DEF sandbox
<1> HIDE DEF sandbox
<1> QED BY <1>1, <1>2, <1>3

LEMMA ArgumentsWrite ==
  ASSUME MaskInv, SourcesInv, WritesInv, NEW r \in Runs, arguments(r)
  PROVE  WritesInv'
<1> DEFINE sandbox == resolved[r]
<1>0. /\ TypeOK /\ DOMAIN mounts = Runs /\ policy \in Policies /\ first \subseteq dirs /\ dirs \subseteq Path
      /\ dirs \subseteq first \cup MaskDirs(policy, first)
      /\ WriteOk(sandbox, masks[r], mounts[r], pc[r], policy, first, bridge_directory(r))
      /\ SourceOk(sandbox, masks[r], todo[r], mounts[r], pc[r], policy, first, bridge_directory(r))
  BY DEF MaskInv, TypeOK, OwnInv, SourcesInv, WritesInv
<1>1. /\ pc[r] = "arguments" /\ pc'[r] \in {"spawn", "create"} /\ \A q \in Runs \ {r} : pc'[q] = pc[q]
      /\ mounts' = [mounts EXCEPT ![r] = bwrap_arguments(sandbox, planned(r), dirs, bridge_directory(r))]
      /\ UNCHANGED <<policy, first, resolved, masks>>
  BY <1>0 DEF arguments, goto, TypeOK
<1>2. mounts'[r] = bwrap_arguments(sandbox, planned(r), dirs, bridge_directory(r)) /\ \A q \in Runs \ {r} : mounts'[q] = mounts[q]
  BY <1>0, <1>1
<1>3. ResolvedOk(sandbox, policy, first)
  BY <1>0, <1>1 DEF SourceOk
<1>4. /\ \A path \in Path : profile_allows(profile(sandbox), path) <=> MayWrite(path, policy, first)
      /\ sandbox.read_deny = existing(Hides(policy), first)
      /\ \A path \in Path : \A d \in Denied(policy) \ first : \A a \in sandbox.write_allow :
           under(path, d) /\ under(path, a) => \E i \in DOMAIN masks[r] : Head(masks[r][i]) = d
  BY <1>0, <1>1 DEF WriteOk
<1>5. /\ IsFiniteSet(sandbox.write_allow) /\ sandbox.write_allow \subseteq Path
      /\ IsFiniteSet(sandbox.read_deny) /\ sandbox.read_deny \subseteq Path
      /\ IsFiniteSet(sandbox.write_deny) /\ sandbox.write_deny \subseteq Path /\ sandbox.write_deny = Denied(policy)
  <2>1. Denied(policy) \subseteq Path
    BY <1>0, DeniedPaths
  <2>2. MaskDirs(policy, first) \subseteq Path
    <3>1. ASSUME NEW p \in Path PROVE Chain(p, first) \subseteq Path
      <4>1. \A n \in 1..Len(p) : n \in 0..Len(p)
        BY <3>1 DEF Path
      <4> QED BY <3>1, <4>1, PartOfPath DEF Chain
    <3> QED BY <2>1, <3>1 DEF MaskDirs, Masked
  <2> HIDE DEF sandbox
  <2> QED BY <1>0, <1>3, <2>1, <2>2 DEF ResolvedOk
<1> HIDE DEF sandbox
<1>6. ASSUME NEW path \in Path
      PROVE  mode_of(mounts'[r], path) = "bind"
               <=> \/ under(path, bridge_directory(r))
                   \/ MayWrite(path, policy, first) /\ ~MustHide(path, policy, first)
  <2> DEFINE plan == planned(r)
             guarded == protected_ancestors(sandbox) \cap dirs
  <2>1. mode_of(mounts'[r], path) = "bind"
           <=> \/ under(path, bridge_directory(r))
               \/ /\ ~ \E p \in sandbox.read_deny : under(path, p)
                  /\ ~ \E p \in sandbox.write_deny : (p \in plan \/ p \in dirs) /\ under(path, p)
                  /\ \E p \in sandbox.write_allow \cup guarded : under(path, p)
    BY <1>0, <1>2, <1>5, BridgeIsPath, ModeIs
  <2>2. MayWrite(path, policy, first)
          <=> /\ \E p \in sandbox.write_allow : under(path, p)
              /\ ~ \E p \in Denied(policy) : under(path, p)
    BY <1>4, <1>5, ProfileIs
  <2>3. MustHide(path, policy, first) <=> \E p \in sandbox.read_deny : under(path, p)
    BY <1>4 DEF MustHide
  <2>4. ASSUME NEW g \in guarded, under(path, g) PROVE \E p \in sandbox.write_allow : under(path, p)
    <3>1. PICK a \in sandbox.write_allow : under(g, a)
      BY DEF protected_ancestors, inside_write_allow
    <3>2. g \in Path /\ a \in Path
      BY <1>0, <1>5
    <3> QED BY <2>4, <3>1, <3>2, UnderUnder
  <2>5. ASSUME NEW d \in Denied(policy), under(path, d), NEW a \in sandbox.write_allow, under(path, a)
        PROVE  d \in plan \/ d \in dirs
    <3>1. CASE d \in first
      BY <1>0, <3>1
    <3>2. CASE d \notin first
      <4>1. PICK i \in DOMAIN masks[r] : Head(masks[r][i]) = d
        BY <1>4, <2>5, <3>2
      <4>2. masks[r][i] \in ToSet(masks[r])
        BY DEF ToSet
      <4> QED BY <4>1, <4>2 DEF planned
    <3> QED BY <3>1, <3>2
  <2> HIDE DEF plan, guarded
  <2> QED BY <1>5, <2>1, <2>2, <2>3, <2>4, <2>5
<1>7. WriteOk(resolved'[r], masks'[r], mounts'[r], pc'[r], policy, first, bridge_directory(r))
  BY <1>1, <1>4, <1>6 DEF WriteOk, sandbox
<1> QED BY <1>1, <1>2, <1>7, WritesStep

LEMMA RestWrite ==
  ASSUME MaskInv, SourcesInv, WritesInv, NEW r \in Runs,
         create(r) \/ mark(r) \/ spawn(r) \/ end(r) \/ unmark(r) \/ rmdir(r)
  PROVE  WritesInv'
<1>0. /\ TypeOK /\ StepInv /\ DOMAIN resolved = Runs /\ DOMAIN mounts = Runs
      /\ WriteOk(resolved[r], masks[r], mounts[r], pc[r], policy, first, bridge_directory(r))
  BY DEF MaskInv, SourcesInv, WritesInv
<1>1. CASE create(r) \/ mark(r) \/ spawn(r) \/ end(r) \/ unmark(r)
  <2>1. UNCHANGED <<policy, first, resolved, masks, mounts>>
    BY <1>1 DEF create, mark, spawn, end, unmark, run_vars
  <2>2. /\ pc[r] \in {"create", "mark", "spawn", "run", "unmark"} /\ \A q \in Runs \ {r} : pc'[q] = pc[q]
        /\ pc'[r] \in {"create", "mark", "spawn", "run", "unmark", "rmdir"}
        /\ pc'[r] \in {"create", "mark", "spawn", "run"} => pc[r] \in {"create", "mark", "spawn", "run"}
    BY <1>0, <1>1 DEF create, mark, spawn, end, unmark, goto, next_mask, TypeOK
  <2>3. WriteOk(resolved'[r], masks'[r], mounts'[r], pc'[r], policy, first, bridge_directory(r))
    BY <1>0, <2>1, <2>2 DEF WriteOk
  <2> QED BY <2>1, <2>2, <2>3, WritesStep
<1>2. CASE rmdir(r)
  <2>1. /\ UNCHANGED <<policy, first>> /\ pc'[r] \in {"rmdir", "over"}
        /\ \A q \in Runs \ {r} : resolved'[q] = resolved[q] /\ masks'[q] = masks[q] /\ mounts'[q] = mounts[q] /\ pc'[q] = pc[q]
    BY <1>0, <1>2 DEF rmdir, goto, TypeOK
  <2>2. WriteOk(resolved'[r], masks'[r], mounts'[r], pc'[r], policy, first, bridge_directory(r))
    BY <2>1 DEF WriteOk
  <2> QED BY <2>1, <2>2, WritesStep
<1> QED BY <1>1, <1>2

LEMMA KillWrites ==
  ASSUME WritesInv, NEW r \in Runs, kill(Pid[r]) PROVE WritesInv'
<1>1. /\ pc' = [q \in Runs |-> IF Pid[q] = Pid[r] THEN "over" ELSE pc[q]]
      /\ UNCHANGED <<policy, first, resolved, masks, mounts>>
  BY DEF kill, run_vars
<1>2. ASSUME NEW q \in Runs PROVE WriteOk(resolved[q], masks[q], mounts[q], pc'[q], policy, first, bridge_directory(q))
  <2>1. pc'[q] = "over" \/ pc'[q] = pc[q]
    BY <1>1
  <2>2. WriteOk(resolved[q], masks[q], mounts[q], pc[q], policy, first, bridge_directory(q))
    BY DEF WritesInv
  <2>3. WriteOk(resolved[q], masks[q], mounts[q], "over", policy, first, bridge_directory(q))
    BY DEF WriteOk
  <2> QED BY <2>1, <2>2, <2>3
<1> QED BY <1>1, <1>2 DEF WritesInv

\* As long as no run has raced, the profile of every run lets it write what its policy
\* allows with the tree as it was at first, and its mounts let it write that and the
\* directory of its own sockets (bwrap_arguments, profile): masks that other runs have
\* built change nothing, if no path that must not be read is one of their missing
\* directories (HidesApart).
THEOREM WritesAreKept ==
  ASSUME TreesClosed, LinksApart, LinksLead, KillsSettled, MasksApart \/ CrashPoints = {}, TmpThere, RulesFinite,
         HidesApart
  PROVE  Spec => [](raced = {} => WritesInv)
<1>1. Init => WritesInv
  BY DEF Init, WritesInv, WriteOk
<1>2. MaskInv /\ PlanInv /\ (raced = {} => LeftInv) /\ (raced = {} => SourcesInv) /\ (raced = {} => WritesInv) /\ [Next]_vars
        => (raced = {} => WritesInv)'
  <2> SUFFICES ASSUME MaskInv, PlanInv, LeftInv, SourcesInv, WritesInv, [Next]_vars, raced' = {} PROVE WritesInv'
    BY RacedStays
  <2>1. CASE UNCHANGED vars
    BY <2>1 DEF vars, run_vars, WritesInv
  <2>2. CASE \E r \in Runs : \/ prepare(r) \/ plan_masks(r) \/ arguments(r) \/ create(r) \/ mark(r) \/ spawn(r)
                             \/ end(r) \/ unmark(r) \/ rmdir(r)
    BY <2>2, PrepareWrites, PlanWrites, ArgumentsWrite, RestWrite
  <2>3. CASE \E r \in Runs : kill(Pid[r])
    BY <2>3, KillWrites
  <2>4. CASE Over
    BY <2>1, <2>4 DEF Over
  <2> QED BY <2>1, <2>2, <2>3, <2>4 DEF Next
<1> QED BY <1>1, <1>2, MasksCorrect, LeftIsKept, SourcesAreKept, PTL DEF Spec

-----------------------------------------------------------------------------
\* What a policy means is what its parts come to when they are merged.

LEMMA ListsAre ==
  ASSUME policy \in Policies, NEW list \in {"read_deny", "write_allow", "write_deny"}
  PROVE  /\ Lists(list) = with_defaults(merge(policy.workflow, policy.task), Defaults[list], list)
         /\ merge(policy.workflow, policy.task).defaults # "no"
              <=> or(merge(policy.workflow, policy.task).defaults, "yes") = "yes"
<1> DEFINE filesystem == merge(policy.workflow, policy.task)
<1>1. \A section \in {policy.workflow, policy.task} :
        /\ DOMAIN section = {"defaults", "read_deny", "write_allow", "write_deny"}
        /\ section.defaults \in {Unset, "yes", "no"}
  BY SectionsAssumption
<1>2. filesystem.defaults = or(policy.task.defaults, policy.workflow.defaults)
  BY <1>1 DEF merge, Settings
<1>3. filesystem[list] = policy.workflow[list] \cup policy.task[list]
  BY <1>1 DEF merge, Settings
<1>4. filesystem.defaults \in {Unset, "yes", "no"}
  BY <1>1, <1>2 DEF or
<1>5. filesystem.defaults # "no" <=> or(filesystem.defaults, "yes") = "yes"
  BY <1>4 DEF or, Unset
<1> HIDE DEF filesystem
<1>6. Lists(list) = filesystem[list] \cup (IF filesystem.defaults = "no" THEN {} ELSE Defaults[list])
  BY <1>3 DEF Lists, filesystem
<1>7. with_defaults(filesystem, Defaults[list], list)
        = (IF or(filesystem.defaults, "yes") = "yes" THEN Defaults[list] ELSE {}) \cup filesystem[list]
  BY DEF with_defaults
<1>8. Lists(list) = with_defaults(filesystem, Defaults[list], list)
  BY <1>5, <1>6, <1>7
<1> QED BY <1>5, <1>8 DEF filesystem

LEMMA ChosenAre ==
  ASSUME policy \in Policies PROVE Chosen = Groups(policy)
<1> DEFINE base == policy.executables.workflow
           other == policy.executables.task
           section == merge_section(base, other)
           default == DEFAULT_EXECUTABLE_GROUPS
           says == {i \in DOMAIN Sections : Sections[i] # Missing /\ Sections[i].defaults # Unset}
           sections == ToSet(Sections) \ {Missing}
<1>1. \A s \in {base, other} \ {Missing} :
        DOMAIN s = {"defaults", "groups", "disable", "allow"} /\ s.defaults \in {Unset, "yes", "no"}
  BY SectionsAssumption
<1>2. DOMAIN Sections = {1, 2} /\ Sections[1] = base /\ Sections[2] = other
  <2>1. \A i : i \in 1..2 <=> i = 1 \/ i = 2
    OBVIOUS
  <2> QED BY <2>1 DEF Sections
<1>3. \A s : s \in sections <=> s \in {base, other} /\ s # Missing
  <2>1. \A s : s \in ToSet(Sections) <=> s = base \/ s = other
    BY <1>2 DEF ToSet
  <2> QED BY <2>1
<1> DEFINE yes == \A i \in says : (\A j \in says : j <= i) => Sections[i].defaults = "yes"
<1>4. Chosen = {g \in default : /\ sections # {} /\ yes
                                /\ \A s \in sections : g \notin s.disable}
                 \cup UNION {s.groups : s \in sections}
  BY DEF Chosen
<1>5. \A i : i \in says <=> \/ i = 1 /\ base # Missing /\ base.defaults # Unset
                            \/ i = 2 /\ other # Missing /\ other.defaults # Unset
  BY <1>2
<1> HIDE DEF says, sections
<1>6. yes <=> /\ other # Missing /\ other.defaults # Unset => other.defaults = "yes"
              /\ base # Missing /\ base.defaults # Unset /\ ~(other # Missing /\ other.defaults # Unset)
                   => base.defaults = "yes"
  <2>1. CASE 2 \in says
    <3>1. \A j \in says : j <= 2
      BY <1>5
    <3>2. ~ \A j \in says : j <= 1
      BY <2>1
    <3>3. yes <=> Sections[2].defaults = "yes"
      BY <1>5, <2>1, <3>1, <3>2
    <3> QED BY <1>2, <1>5, <2>1, <3>3
  <2>2. CASE 2 \notin says
    <3>1. \A j \in says : j <= 1
      BY <1>5, <2>2
    <3>2. yes <=> (1 \in says => Sections[1].defaults = "yes")
      BY <1>5, <2>2, <3>1
    <3> QED BY <1>2, <1>5, <2>2, <3>2
  <2> QED BY <2>1, <2>2
<1> HIDE DEF yes
<1>7. Groups(policy) = IF section = Missing THEN {} ELSE selected(section, default)
  BY DEF Groups
<1> HIDE DEF base, other
<1>9. CASE base = Missing /\ other = Missing
  <2>1. section = Missing /\ sections = {}
    BY <1>3, <1>9 DEF merge_section
  <2> QED BY <1>4, <1>7, <2>1
<1>10. CASE base # Missing /\ other = Missing
  <2>1. section = base /\ sections = {base}
    BY <1>3, <1>10 DEF merge_section
  <2>2. yes <=> or(base.defaults, "yes") = "yes"
    BY <1>1, <1>6, <1>10 DEF or, Unset
  <2>3. selected(section, default) = (IF yes THEN default \ base.disable ELSE {}) \cup base.groups
    BY <2>1, <2>2 DEF selected
  <2>4. Chosen = {g \in default : yes /\ g \notin base.disable} \cup base.groups
    BY <1>4, <2>1
  <2> QED BY <1>7, <1>10, <2>1, <2>3, <2>4
<1>11. CASE base = Missing /\ other # Missing
  <2>1. section = other /\ sections = {other}
    BY <1>3, <1>11 DEF merge_section
  <2>2. yes <=> or(other.defaults, "yes") = "yes"
    BY <1>1, <1>6, <1>11 DEF or, Unset
  <2>3. selected(section, default) = (IF yes THEN default \ other.disable ELSE {}) \cup other.groups
    BY <2>1, <2>2 DEF selected
  <2>4. Chosen = {g \in default : yes /\ g \notin other.disable} \cup other.groups
    BY <1>4, <2>1
  <2> QED BY <1>7, <1>11, <2>1, <2>3, <2>4
<1>12. CASE base # Missing /\ other # Missing
  <2>1. section = merge(base, other) /\ sections = {base, other}
    BY <1>3, <1>12 DEF merge_section
  <2>2. /\ DOMAIN section = {"defaults", "groups", "disable", "allow"}
        /\ section.defaults = or(other.defaults, base.defaults)
        /\ section.groups = base.groups \cup other.groups /\ section.disable = base.disable \cup other.disable
    BY <1>1, <1>12, <2>1 DEF merge, Settings
  <2>3. section # Missing
    BY <2>2 DEF Missing
  <2>4. yes <=> or(section.defaults, "yes") = "yes"
    BY <1>1, <1>6, <1>12, <2>2 DEF or, Unset
  <2> HIDE DEF section
  <2>5. selected(section, default) = (IF yes THEN default \ (base.disable \cup other.disable) ELSE {}) \cup base.groups \cup other.groups
    BY <2>2, <2>4 DEF selected
  <2>6. Chosen = {g \in default : yes /\ g \notin base.disable /\ g \notin other.disable} \cup base.groups \cup other.groups
    BY <1>4, <2>1
  <2> QED BY <1>7, <2>3, <2>5, <2>6
<1> QED BY <1>9, <1>10, <1>11, <1>12

LEMMA WritableIs ==
  ASSUME policy \in Policies
  PROVE  /\ Writable = {path \in Tree : MayWrite(path, policy, first) /\ ~MustHide(path, policy, first)}
         /\ Hidden = {path \in Tree : MustHide(path, policy, first)}
<1>1. Hidden = {path \in Tree : MustHide(path, policy, first)}
  <2>1. Lists("read_deny") = Hides(policy)
    BY ListsAre DEF Hides
  <2>2. Targets(Hides(policy)) \cap first = existing(Hides(policy), first)
    BY DEF Targets, existing, exists
  <2> QED BY <2>1, <2>2 DEF Hidden, Within, MustHide
<1> DEFINE rules == Lists("write_allow") \cup StatePaths \cup UNION {g.state : g \in Chosen}
           tmp == IF merge(policy.workflow, policy.task).defaults # "no" THEN {Tmp} ELSE {}
           allowed == (Targets(rules) \cap first) \cup tmp
<1>2. rules = Allows(policy)
  BY ChosenAre, ListsAre DEF Allows
<1>3. allowed = Allowed(policy, first)
  <2>1. Targets(Allows(policy)) \cap first = existing(Allows(policy), first)
    BY DEF Targets, existing, exists
  <2>2. merge(policy.workflow, policy.task).defaults # "no"
          <=> or(merge(policy.workflow, policy.task).defaults, "yes") = "yes"
    BY ListsAre
  <2> HIDE DEF rules
  <2> QED BY <1>2, <2>1, <2>2 DEF Allowed
<1>4. Targets(Lists("write_deny")) = Denied(policy)
  BY ListsAre DEF Targets, Denied, Denies
<1>5. Writable = (Within(allowed) \ Within(Targets(Lists("write_deny")))) \ Hidden
  BY DEF Writable
<1> HIDE DEF allowed, rules
<1>6. Within(allowed) = {path \in Tree : \E a \in Allowed(policy, first) : under(path, a)}
  BY <1>3 DEF Within
<1>7. Within(Denied(policy)) = {path \in Tree : \E d \in Denied(policy) : under(path, d)}
  BY DEF Within
<1>8. Writable = {path \in Tree : MayWrite(path, policy, first) /\ ~MustHide(path, policy, first)}
  BY <1>1, <1>4, <1>5, <1>6, <1>7 DEF MayWrite
<1> QED BY <1>1, <1>8

\* While a run goes on, either backend lets it write exactly what its policy means, and
\* bwrap the directory of its own sockets whatever the policy means there, whatever
\* masks other runs have built before and beside it, as long as no run looked at the
\* masks while another one built or removed them, and no path that must not be read is
\* a missing directory of a mask (HidesApart): for any links and trees, and any number
\* of runs and processes (ResolvedSandbox::resolve, bwrap_arguments, MaskPlan, profile).
THEOREM WritesHeldHolds ==
  ASSUME TreesClosed, LinksApart, LinksLead, KillsSettled, MasksApart \/ CrashPoints = {}, TmpThere, RulesFinite,
         HidesApart
  PROVE  Spec => [](raced = {} => WritesHeld)
<1>1. MaskInv /\ (raced = {} => WritesInv) => (raced = {} => WritesHeld)
  <2> SUFFICES ASSUME MaskInv, WritesInv PROVE WritesHeld
    OBVIOUS
  <2>1. /\ Writable = {path \in Tree : MayWrite(path, policy, first) /\ ~MustHide(path, policy, first)}
        /\ Hidden = {path \in Tree : MustHide(path, policy, first)}
    BY WritableIs DEF MaskInv, TypeOK
  <2>2. ASSUME NEW r \in Runs, pc[r] = "run", NEW path \in Tree
        PROVE  /\ mode_of(mounts[r], path) = "bind"
                    <=> \/ under(path, bridge_directory(r))
                        \/ MayWrite(path, policy, first) /\ ~MustHide(path, policy, first)
               /\ profile_allows(profile(resolved[r]), path) <=> MayWrite(path, policy, first)
    <3>1. path \in Path
      BY SandboxAssumption
    <3> QED BY <2>2, <3>1 DEF WritesInv, WriteOk
  <2>3. WritesAsMeant
    <3> SUFFICES ASSUME NEW r \in Runs, pc[r] = "run" PROVE Bound(r) = Writable \cup Within({bridge_directory(r)})
      BY DEF WritesAsMeant
    <3>1. Within({bridge_directory(r)}) = {path \in Tree : under(path, bridge_directory(r))}
      BY DEF Within
    <3> QED BY <2>1, <2>2, <3>1 DEF Bound
  <2>4. SameOnBoth
    <3> SUFFICES ASSUME NEW r \in Runs, pc[r] = "run"
                 PROVE  LET seen == (Tree \ Hidden) \ Within({bridge_directory(r)})
                        IN  Bound(r) \cap seen = {p \in seen : profile_allows(profile(resolved[r]), p)}
      BY DEF SameOnBoth
    <3>1. Within({bridge_directory(r)}) = {path \in Tree : under(path, bridge_directory(r))}
      BY DEF Within
    <3> QED BY <2>1, <2>2, <3>1 DEF Bound
  <2> QED BY <2>3, <2>4 DEF WritesHeld
<1> QED BY <1>1, MasksCorrect, WritesAreKept, PTL


-----------------------------------------------------------------------------
\* What a run may execute.

\* Interpreters and loaders are files that may execute.
InterpretersThere ==
  Loaders \subseteq Files /\ \A script \in DOMAIN Shebang : follow(Shebang[script].interpreter) \in Files

Section(p) == merge_section(p.executables.workflow, p.executables.task)
\* A run was resolved for the program of its policy.
ExecuteOk(sandbox, at, p) ==
  at \in {"plan", "arguments", "create", "mark", "spawn", "run"} =>
    /\ sandbox.restricted <=> Section(p) # Missing
    /\ Section(p) # Missing =>
         \E program \in locate_program(p.program) : sandbox.executables = resolve_executables(Section(p), program)
ExecuteInv == DOMAIN resolved = Runs /\ \A r \in Runs : ExecuteOk(resolved[r], pc[r], policy)

\* A name is looked up as the shell in the sandbox would.
LEMMA FoundIsCalled ==
  ASSUME NEW name PROVE program_locations(name) = Called(name)
<1> DEFINE candidates == [i \in DOMAIN PathDirs |-> Append(PathDirs[i], name)]
           I == {i \in 1..Len(candidates) : is_executable_file(candidates[i])}
           n == SelectInSeq(candidates, is_executable_file)
           first_ones == {i \in DOMAIN PathDirs :
                            /\ follow(Append(PathDirs[i], name)) \in Files
                            /\ \A j \in 1..(i - 1) : follow(Append(PathDirs[j], name)) \notin Files}
<1>1. DOMAIN PathDirs = 1..Len(PathDirs) /\ Len(PathDirs) \in Nat
  BY FilesAssumption
<1>2. Len(candidates) = Len(PathDirs) /\ \A i \in DOMAIN PathDirs : candidates[i] = Append(PathDirs[i], name)
  <2>1. DOMAIN candidates = 1..Len(PathDirs)
    BY <1>1
  <2> QED BY <1>1, <2>1
<1>3. n = IF I # {} THEN Min(I) ELSE 0
  BY DEF SelectInSeq
<1>4. I \subseteq Nat /\ I \subseteq DOMAIN PathDirs
  BY <1>1, <1>2
<1>5. \A i \in DOMAIN PathDirs : i \in I <=> follow(Append(PathDirs[i], name)) \in Files
  BY <1>1, <1>2 DEF is_executable_file
<1>6. program_locations(name) = {follow(path) : path \in IF n = 0 THEN {} ELSE {candidates[n]}}
  BY DEF program_locations, find_on_path
<1>7. Called(name) = {follow(path) : path \in {Append(PathDirs[i], name) : i \in first_ones}}
  BY DEF Called
<1> HIDE DEF I, n, candidates
<1>8. CASE I = {}
  <2>1. first_ones = {}
    BY <1>5, <1>8
  <2> HIDE DEF first_ones
  <2> QED BY <1>3, <1>6, <1>7, <1>8, <2>1
<1>9. CASE I # {}
  <2>1. n \in I /\ \A i \in I : n <= i
    <3>1. \E i \in I : \A j \in I : i <= j
      BY <1>4, <1>9, LeastNat
    <3> QED BY <1>3, <1>9, <3>1 DEF Min
  <2>2. n \in Nat /\ n # 0
    BY <1>1, <1>4, <2>1
  <2>3. first_ones = {n}
    <3>1. ASSUME NEW i \in first_ones PROVE i = n
      <4>1. i \in I /\ i \in Nat
        BY <1>1, <1>5
      <4>2. n <= i /\ ~(n \in 1..(i - 1))
        BY <1>4, <1>5, <2>1, <4>1
      <4> QED BY <2>2, <4>1, <4>2
    <3>2. n \in first_ones
      <4>1. \A j \in 1..(n - 1) : j \in DOMAIN PathDirs /\ ~(n <= j)
        BY <1>1, <1>4, <2>1, <2>2
      <4> QED BY <1>4, <1>5, <2>1, <4>1
    <3> QED BY <3>1, <3>2
  <2>4. candidates[n] = Append(PathDirs[n], name)
    BY <1>2, <1>4, <2>1
  <2> HIDE DEF first_ones
  <2> QED BY <1>6, <1>7, <2>2, <2>3, <2>4
<1> QED BY <1>8, <1>9

LEMMA CalledAreFiles ==
  ASSUME NEW name PROVE Called(name) \subseteq Files
BY DEF Called

LEMMA LocatedIsFile ==
  ASSUME NEW program, NEW f \in locate_program(program)
  PROVE  f \in Files /\ \A g \in locate_program(program) : g = f
<1>1. CASE is_bare_name(program)
  <2>1. \E p : find_on_path(program.rest) \subseteq {p}
    BY DEF find_on_path
  <2>2. locate_program(program) = program_locations(program.rest)
    BY <1>1 DEF locate_program
  <2>3. f \in Called(program.rest)
    BY <2>2, FoundIsCalled
  <2>4. \A g \in program_locations(program.rest) : \A h \in program_locations(program.rest) : g = h
    BY <2>1 DEF program_locations
  <2> QED BY <2>2, <2>3, <2>4, CalledAreFiles
<1>2. CASE ~is_bare_name(program)
  BY <1>2 DEF locate_program
<1> QED BY <1>1, <1>2

\* The section that a run has lists what the parts of its policy list.
LEMMA SectionIs ==
  ASSUME policy \in Policies, Section(policy) # Missing
  PROVE  /\ Chosen = selected(Section(policy), DEFAULT_EXECUTABLE_GROUPS)
         /\ Section(policy).allow = UNION {section.allow : section \in ToSet(Sections) \ {Missing}}
<1> DEFINE base == policy.executables.workflow
           other == policy.executables.task
<1>1. Chosen = selected(Section(policy), DEFAULT_EXECUTABLE_GROUPS)
  BY ChosenAre DEF Groups, Section
<1>2. \A s : s \in ToSet(Sections) \ {Missing} <=> s \in {base, other} /\ s # Missing
  <2>1. \A i : i \in 1..2 <=> i = 1 \/ i = 2
    OBVIOUS
  <2>2. \A s : s \in ToSet(Sections) <=> s = base \/ s = other
    BY <2>1 DEF ToSet, Sections
  <2> QED BY <2>2
<1>3. \A x : x \in Section(policy).allow <=> \E s \in {base, other} \ {Missing} : x \in s.allow
  <2>1. \A s \in {base, other} \ {Missing} : DOMAIN s = {"defaults", "groups", "disable", "allow"}
    BY SectionsAssumption
  <2>2. Section(policy) = merge_section(base, other)
    BY DEF Section
  <2> HIDE DEF base, other
  <2>3. CASE base # Missing /\ other # Missing
    <3>1. Section(policy).allow = base.allow \cup other.allow
      BY <2>1, <2>2, <2>3 DEF merge_section, merge, Settings
    <3> QED BY <2>3, <3>1
  <2>4. CASE base = Missing \/ other = Missing
    BY <2>2, <2>4 DEF merge_section
  <2> QED BY <2>3, <2>4
<1>4. Section(policy).allow = UNION {section.allow : section \in ToSet(Sections) \ {Missing}}
  <2>1. \A x : x \in UNION {section.allow : section \in ToSet(Sections) \ {Missing}}
                 <=> \E s \in {base, other} \ {Missing} : x \in s.allow
    BY <1>2
  <2>2. \A x : x \in Section(policy).allow <=> x \in UNION {section.allow : section \in ToSet(Sections) \ {Missing}}
    BY <1>3, <2>1
  <2> QED BY <2>2
<1> QED BY <1>1, <1>4

\* The paths that a run finds by the names and rules of its section.
Names == HARNESS_PROGRAMS \cup {rule.rest : rule \in {x \in Section(policy).allow : is_bare_name(x)}}
           \cup UNION {group.programs : group \in Chosen}
Named(program) ==
  {program} \cup {p \in {follow(absolute(rule)) : rule \in {x \in Section(policy).allow : ~is_bare_name(x)}} :
                    \E f \in Files : under(f, p)}
    \cup UNION {program_locations(name) : name \in Names}

\* They are the files that the policy names, and what it lists and is not empty.
LEMMA NamedAre ==
  ASSUME policy \in Policies, Section(policy) # Missing, NEW program \in locate_program(policy.program)
  PROVE  /\ Named(program) = NamedFiles \cup {p \in Listed : \E f \in Files : under(f, p)}
         /\ program \in NamedFiles /\ NamedFiles \subseteq Files
<1> DEFINE allow == Section(policy).allow
           called == UNION {Called(name) : name \in Names}
           lists == {follow(absolute(rule)) : rule \in {x \in allow : ~is_bare_name(x)}}
<1>1. locate_program(policy.program) = {program} /\ program \in Files
  BY LocatedIsFile
<1>2. UNION {section.allow : section \in ToSet(Sections) \ {Missing}} = allow
  BY SectionIs
<1>3. Names = HARNESS_PROGRAMS \cup {x.rest : x \in {y \in allow : y.base = "name"}} \cup UNION {g.programs : g \in Chosen}
  BY DEF Names, is_bare_name
<1>4. NamedFiles = locate_program(policy.program) \cup called
  BY <1>2, <1>3 DEF NamedFiles
<1>5. Listed = lists
  <2>1. Listed = {follow(absolute(rule)) : rule \in {x \in allow : x.base # "name"}}
    BY <1>2 DEF Listed, Targets
  <2>2. {x \in allow : x.base # "name"} = {x \in allow : ~is_bare_name(x)}
    BY DEF is_bare_name
  <2> HIDE DEF allow
  <2> QED BY <2>1, <2>2
<1>6. Named(program) = {program} \cup {p \in lists : \E f \in Files : under(f, p)} \cup called
  BY FoundIsCalled DEF Named
<1>7. called \subseteq Files
  BY CalledAreFiles
<1> HIDE DEF called, lists, allow
<1> QED BY <1>1, <1>4, <1>5, <1>6, <1>7

LEMMA FilesApart == \A f \in Files : under(f, f) /\ \A g \in Files : under(f, g) => f = g
<1>1. ASSUME NEW f \in Files PROVE under(f, f)
  <2>1. f \in Path /\ Len(f) \in Nat
    BY FilesAssumption DEF Path
  <2> QED BY <2>1 DEF under, IsPrefix
<1> QED BY <1>1, FilesAssumption DEF under

\* The interpreters that are looked for are those that the kernel starts.
LEMMA InterpretersAre ==
  ASSUME InterpretersThere, NEW f
  PROVE  /\ Executed(f) = {f} \cup Loaders \cup shebang_interpreters(f)
         /\ shebang_interpreters(f) \subseteq Files /\ (f \notin DOMAIN Shebang => shebang_interpreters(f) = {})
<1>1. CASE f \notin DOMAIN Shebang
  BY <1>1 DEF Executed, shebang_interpreters
<1>2. CASE f \in DOMAIN Shebang
  <2> DEFINE line == Shebang[f]
             looked == IF Last(line.interpreter) = "env" THEN Called(line.program) ELSE {}
  <2>1. shebang_interpreters(f) = {follow(line.interpreter)} \cup looked
    BY <1>2, FoundIsCalled DEF shebang_interpreters
  <2>2. Executed(f) = {f} \cup Loaders \cup ({follow(line.interpreter)} \cup looked)
    BY <1>2 DEF Executed
  <2>3. follow(line.interpreter) \in Files /\ looked \subseteq Files
    BY <1>2, CalledAreFiles DEF InterpretersThere
  <2> HIDE DEF line, looked
  <2> QED BY <1>2, <2>1, <2>2, <2>3
<1> QED BY <1>1, <1>2

LEMMA ExecutablesMean ==
  ASSUME policy \in Policies, InterpretersThere, Section(policy) # Missing, NEW program \in locate_program(policy.program)
  PROVE  LET files == NamedFiles \cup (Listed \cap Files)
             meant == (UNION {Executed(f) : f \in files}) \cup {f \in Files : \E p \in Listed : under(f, p)}
             gits == {p \in NamedFiles \cup Listed : Last(p) = "git" /\ \E g \in Chosen : g.is_git}
             helpers == {f \in Files : \E git \in gits : \E d \in GIT_HELPER_DIRECTORIES : under(f, parent(parent(git)) \o d)}
             may == {f \in Files : \E p \in resolve_executables(Section(policy), program) : under(f, p)}
         IN  meant \subseteq may /\ may \subseteq meant \cup helpers
<1> DEFINE files == NamedFiles \cup (Listed \cap Files)
           started == UNION {Executed(f) : f \in files}
           inside == {f \in Files : \E p \in Listed : under(f, p)}
           gits == {p \in NamedFiles \cup Listed : Last(p) = "git" /\ \E g \in Chosen : g.is_git}
           helpers == {f \in Files : \E git \in gits : \E d \in GIT_HELPER_DIRECTORIES : under(f, parent(parent(git)) \o d)}
           executables == resolve_executables(Section(policy), program)
           may == {f \in Files : \E p \in executables : under(f, p)}
           named == Named(program)
           has_git == \E g \in Chosen : g.is_git
           helper_dirs == IF has_git THEN UNION {git_helper_directories(git) : git \in {p \in named : Last(p) = "git"}} ELSE {}
           paths == named \cup helper_dirs
<1>1. executables = paths \cup Loaders \cup UNION {shebang_interpreters(p) : p \in paths}
  <2>1. Chosen = selected(Section(policy), DEFAULT_EXECUTABLE_GROUPS)
    BY SectionIs
  <2> QED BY <2>1 DEF resolve_executables, Named, Names
<1>2. /\ named = NamedFiles \cup {p \in Listed : \E f \in Files : under(f, p)}
      /\ program \in NamedFiles /\ NamedFiles \subseteq Files
  BY NamedAre
<1>3. \A f \in Files : under(f, f) /\ \A g \in Files : under(f, g) => f = g
  BY FilesApart
<1>4. Loaders \subseteq Files /\ DOMAIN Shebang \subseteq Files
  BY FilesAssumption DEF InterpretersThere
<1>5. \A f : /\ Executed(f) = {f} \cup Loaders \cup shebang_interpreters(f)
             /\ shebang_interpreters(f) \subseteq Files /\ (f \notin DOMAIN Shebang => shebang_interpreters(f) = {})
  BY InterpretersAre
<1>6. \A d \in helper_dirs : d \notin Files /\ \A f \in Files : under(f, d) => f \in helpers
  <2> SUFFICES ASSUME NEW d \in helper_dirs PROVE d \notin Files /\ \A f \in Files : under(f, d) => f \in helpers
    OBVIOUS
  <2>1. PICK git \in named : Last(git) = "git" /\ d \in git_helper_directories(git) /\ has_git
    <3> HIDE DEF has_git, named
    <3> QED OBVIOUS
  <2>2. git \in gits
    <3> HIDE DEF named
    <3> QED BY <1>2, <2>1
  <2>3. d \notin Files /\ \E helper \in GIT_HELPER_DIRECTORIES : d = parent(parent(git)) \o helper
    BY <2>1 DEF git_helper_directories
  <2> HIDE DEF gits
  <2> QED BY <2>2, <2>3
<1> HIDE DEF named, helper_dirs, helpers, executables
<1>7. files \subseteq named /\ named \cap Files \subseteq files /\ files \subseteq Files
  BY <1>2, <1>3
<1> HIDE DEF files
<1>8. started \subseteq may
  <2> SUFFICES ASSUME NEW s \in files, NEW f \in Executed(s) PROVE f \in Files /\ \E p \in executables : under(f, p)
    OBVIOUS
  <2>1. CASE f = s
    BY <1>1, <1>3, <1>7, <2>1
  <2>2. CASE f \in Loaders
    BY <1>1, <1>3, <1>4, <2>2
  <2>3. CASE f \in shebang_interpreters(s)
    <3>1. s \in paths /\ f \in Files
      BY <1>5, <1>7, <2>3
    <3> QED BY <1>1, <1>3, <2>3, <3>1
  <2> QED BY <1>5, <2>1, <2>2, <2>3
<1>9. inside \subseteq may
  BY <1>1, <1>2
<1>10. may \subseteq started \cup inside \cup helpers
  <2> SUFFICES ASSUME NEW f \in Files, NEW p \in executables, under(f, p) PROVE f \in started \cup inside \cup helpers
    OBVIOUS
  <2>1. CASE p \in NamedFiles
    <3>1. f = p /\ p \in files /\ p \in Executed(p)
      BY <1>2, <1>3, <1>5, <2>1 DEF files
    <3> QED BY <3>1
  <2>2. CASE p \in Listed
    BY <2>2
  <2>3. CASE p \in helper_dirs
    BY <1>6, <2>3
  <2>4. CASE p \in Loaders
    <3>1. f = p /\ p \in Executed(program) /\ program \in files
      BY <1>2, <1>3, <1>4, <1>5, <2>4 DEF files
    <3> QED BY <3>1
  <2>5. CASE \E q \in paths : p \in shebang_interpreters(q)
    <3>1. PICK q \in paths : p \in shebang_interpreters(q)
      BY <2>5
    <3>2. p \in Files /\ q \in DOMAIN Shebang /\ q \in Files
      BY <1>4, <1>5, <3>1
    <3>3. q \in files
      BY <1>6, <1>7, <3>1, <3>2
    <3>4. f = p /\ p \in Executed(q)
      BY <1>3, <1>5, <3>1, <3>2
    <3> QED BY <3>3, <3>4
  <2> QED BY <1>1, <1>2, <2>1, <2>2, <2>3, <2>4, <2>5
<1> QED BY <1>8, <1>9, <1>10 DEF helpers, executables, files

LEMMA ExecuteStep ==
  ASSUME ExecuteInv, NEW r \in Runs, UNCHANGED policy, DOMAIN resolved' = Runs,
         \A q \in Runs \ {r} : resolved'[q] = resolved[q] /\ pc'[q] = pc[q],
         ExecuteOk(resolved'[r], pc'[r], policy)
  PROVE  ExecuteInv'
<1> SUFFICES ASSUME NEW q \in Runs PROVE ExecuteOk(resolved'[q], pc'[q], policy)
  BY DEF ExecuteInv
<1> QED BY DEF ExecuteInv

\* Every run that has been resolved may execute what its policy lists, whichever
\* program it was looked up for and whatever the runs beside it do
\* (ResolvedSandbox::resolve, resolve_executables).
THEOREM ExecutesAreKept == Spec => []ExecuteInv
<1>1. Init => ExecuteInv
  BY DEF Init, ExecuteInv, ExecuteOk
<1>2. MaskInv /\ ExecuteInv /\ [Next]_vars => ExecuteInv'
  <2> SUFFICES ASSUME TypeOK, ExecuteInv, [Next]_vars PROVE ExecuteInv'
    BY DEF MaskInv
  <2>0. DOMAIN resolved = Runs /\ DOMAIN pc = Runs
    BY DEF ExecuteInv, TypeOK
  <2>1. CASE UNCHANGED vars
    BY <2>1 DEF vars, run_vars, ExecuteInv
  <2>2. ASSUME NEW r \in Runs, prepare(r) PROVE ExecuteInv'
    <3>0. UNCHANGED policy
      BY <2>2 DEF prepare
    <3>1. CASE goto(r, "over") /\ UNCHANGED resolved
      <4>1. pc'[r] = "over" /\ \A q \in Runs \ {r} : pc'[q] = pc[q]
        BY <2>0, <3>1 DEF goto
      <4>2. ExecuteOk(resolved'[r], pc'[r], policy)
        BY <4>1 DEF ExecuteOk
      <4> QED BY <2>0, <3>0, <3>1, <4>1, <4>2, ExecuteStep
    <3>2. ASSUME NEW program \in locate_program(policy.program),
                 resolved' = [resolved EXCEPT ![r] = resolve(dirs, program)], goto(r, "plan")
          PROVE  ExecuteInv'
      <4> DEFINE sandbox == resolve(dirs, program)
      <4>1. /\ sandbox.restricted = (Section(policy) # Missing)
            /\ sandbox.executables = IF Section(policy) = Missing THEN {} ELSE resolve_executables(Section(policy), program)
        BY DEF resolve, Section
      <4>2. resolved' = [resolved EXCEPT ![r] = sandbox]
        BY <3>2
      <4> HIDE DEF sandbox
      <4>3. /\ pc'[r] = "plan" /\ resolved'[r] = sandbox /\ DOMAIN resolved' = Runs
            /\ \A q \in Runs \ {r} : resolved'[q] = resolved[q] /\ pc'[q] = pc[q]
        BY <2>0, <3>2, <4>2 DEF goto
      <4>4. ExecuteOk(resolved'[r], pc'[r], policy)
        BY <4>1, <4>3 DEF ExecuteOk
      <4> QED BY <3>0, <4>3, <4>4, ExecuteStep
    <3> QED BY Zenon, <2>2, <3>1, <3>2 DEF prepare
  <2>2a. ASSUME NEW r \in Runs, plan_masks(r) PROVE ExecuteInv'
    <3>1. \/ pc' = [pc EXCEPT ![r] = "over"] /\ resolved' = [resolved EXCEPT ![r] = Unresolved]
          \/ pc' = [pc EXCEPT ![r] = "arguments"] /\ UNCHANGED resolved
      BY Zenon, <2>2a DEF plan_masks, goto
    <3>2. pc[r] = "plan" /\ UNCHANGED policy
      BY <2>2a DEF plan_masks
    <3>3. CASE pc' = [pc EXCEPT ![r] = "over"] /\ resolved' = [resolved EXCEPT ![r] = Unresolved]
      <4>1. ExecuteOk(resolved'[r], pc'[r], policy)
        BY <2>0, <3>3 DEF ExecuteOk
      <4> QED BY <2>0, <3>2, <3>3, <4>1, ExecuteStep
    <3>4. CASE pc' = [pc EXCEPT ![r] = "arguments"] /\ UNCHANGED resolved
      <4>1. ExecuteOk(resolved'[r], pc'[r], policy)
        BY <2>0, <3>2, <3>4 DEF ExecuteInv, ExecuteOk
      <4> QED BY <2>0, <3>2, <3>4, <4>1, ExecuteStep
    <3> QED BY <3>1, <3>3, <3>4
  <2>3. ASSUME NEW r \in Runs, \/ arguments(r) \/ create(r) \/ mark(r) \/ spawn(r) \/ end(r) \/ unmark(r)
        PROVE  ExecuteInv'
    <3>1. UNCHANGED <<policy, resolved>> /\ \A q \in Runs \ {r} : pc'[q] = pc[q]
      BY <2>0, <2>3 DEF arguments, create, mark, spawn, end, unmark, run_vars, goto, next_mask
    <3>2. \/ pc[r] \in {"arguments", "create", "mark", "spawn", "run"}
          \/ pc'[r] \notin {"plan", "arguments", "create", "mark", "spawn", "run"}
      BY <2>0, <2>3 DEF arguments, create, mark, spawn, end, unmark, goto
    <3>3. ExecuteOk(resolved'[r], pc'[r], policy)
      BY <3>1, <3>2 DEF ExecuteInv, ExecuteOk
    <3> QED BY <2>0, <3>1, <3>3, ExecuteStep
  <2>4. ASSUME NEW r \in Runs, rmdir(r) PROVE ExecuteInv'
    <3>1. /\ UNCHANGED policy /\ pc'[r] \in {"rmdir", "over"} /\ DOMAIN resolved' = Runs
          /\ \A q \in Runs \ {r} : resolved'[q] = resolved[q] /\ pc'[q] = pc[q]
      BY <2>0, <2>4 DEF rmdir, goto
    <3>2. ExecuteOk(resolved'[r], pc'[r], policy)
      BY <3>1 DEF ExecuteOk
    <3> QED BY <3>1, <3>2, ExecuteStep
  <2>5. ASSUME NEW r \in Runs, kill(Pid[r]) PROVE ExecuteInv'
    <3>1. UNCHANGED <<policy, resolved>> /\ \A q \in Runs : pc'[q] = pc[q] \/ pc'[q] = "over"
      BY <2>5 DEF kill, run_vars
    <3>2. ASSUME NEW q \in Runs PROVE ExecuteOk(resolved[q], pc'[q], policy)
      BY <3>1 DEF ExecuteInv, ExecuteOk
    <3> QED BY <3>1, <3>2 DEF ExecuteInv
  <2>6. CASE Over
    BY <2>1, <2>6 DEF Over
  <2> QED BY <2>1, <2>2, <2>2a, <2>3, <2>4, <2>5, <2>6 DEF Next
<1> QED BY <1>1, <1>2, MasksCorrect, PTL DEF Spec

\* With a list of executables, the program of the run and every file that is named
\* or listed starts, through links, interpreters and `env`; what is in a listed
\* directory may execute, but a script there finds its interpreter only if that is
\* named as well; and nothing else may but the helpers next to a git that is named:
\* for any policies, files, links, scripts and PATH, however many runs there are
\* (resolve_executables, restrict_execution). It takes interpreters and loaders that
\* are there.
THEOREM ExecutesAsMeantHolds ==
  ASSUME InterpretersThere PROVE Spec => []ExecutesAsMeant
<1>1. MaskInv /\ ExecuteInv => ExecutesAsMeant
  <2> SUFFICES ASSUME policy \in Policies, ExecuteInv PROVE ExecutesAsMeant
    BY DEF MaskInv, TypeOK
  <2> DEFINE files == NamedFiles \cup (Listed \cap Files)
             meant == (UNION {Executed(f) : f \in files}) \cup {f \in Files : \E p \in Listed : under(f, p)}
             gits == {p \in NamedFiles \cup Listed : Last(p) = "git" /\ \E g \in Chosen : g.is_git}
             helpers == {f \in Files : \E git \in gits : \E d \in GIT_HELPER_DIRECTORIES : under(f, parent(parent(git)) \o d)}
             may(r) == {f \in Files : restrict_execution(resolved[r], f)}
  <2>1. ASSUME NEW r \in Runs, pc[r] = "run", resolved[r].restricted
        PROVE  meant \subseteq may(r) /\ may(r) \subseteq meant \cup helpers
    <3>1. ExecuteOk(resolved[r], "run", policy)
      BY <2>1 DEF ExecuteInv
    <3>2. Section(policy) # Missing
      BY <2>1, <3>1 DEF ExecuteOk
    <3>3. PICK program \in locate_program(policy.program) :
            resolved[r].executables = resolve_executables(Section(policy), program)
      BY <3>1, <3>2 DEF ExecuteOk
    <3>4. may(r) = {f \in Files : \E p \in resolve_executables(Section(policy), program) : under(f, p)}
      BY <2>1, <3>3 DEF restrict_execution
    <3> HIDE DEF may
    <3> QED BY <3>2, <3>4, ExecutablesMean
  <2> QED BY <2>1 DEF ExecutesAsMeant
<1> QED BY <1>1, MasksCorrect, ExecutesAreKept, PTL
=============================================================================
