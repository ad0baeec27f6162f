------------------------- MODULE CommandLine_proofs -------------------------
(***************************************************************************)
(* Proofs about compile-artifact, in two parts.                            *)
(*                                                                         *)
(* PackageLoader: for any files and any imports between them, a package is *)
(* loaded whole and refused as circular if and only if it is.  Closures    *)
(* come first, then the invariant of the walk, the canonical order, Kahn's *)
(* algorithm on any finite graph, and what its verdict means for files.    *)
(*                                                                         *)
(* AtomicWrite: with any number of processes, process numbers and pieces,  *)
(* a reader of the output never finds a torn artifact.                     *)
(***************************************************************************)
EXTENDS CommandLine, FiniteSetTheorems, FunctionTheorems, SequenceTheorems, WellFoundedInduction, TLAPS

-----------------------------------------------------------------------------
(* Closures.                                                                *)

(* Induction up to a bound, over a set of numbers.                          *)
LEMMA StepByStep ==
  ASSUME NEW n \in Nat, NEW T, 0 \in T, \A k \in 0 .. n : k \in T /\ k < n => k + 1 \in T
  PROVE  \A k \in 0 .. n : k \in T
<1> DEFINE Missing == {k \in 0 .. n : k \notin T}
<1>1. CASE Missing # {}
  <2>1. Missing \subseteq Nat
    OBVIOUS
  <2>2. PICK k \in Missing : \A j \in Missing : ~(<<j, k>> \in OpToRel(<, Nat))
    BY <1>1, <2>1, WFMin, NatLessThanWellFounded
  <2>3. k \in Nat /\ k # 0 /\ k <= n
    OBVIOUS
  <2>4. k - 1 \in 0 .. n /\ k - 1 < n /\ k - 1 < k /\ (k - 1) + 1 = k
    BY <2>3
  <2>5. k - 1 \in T
    <3>1. ASSUME k - 1 \notin T PROVE FALSE
      <4>1. k - 1 \in Missing
        BY <2>4, <3>1
      <4>2. <<k - 1, k>> \in OpToRel(<, Nat)
        BY <2>3, <2>4 DEF OpToRel
      <4>3. QED
        BY <2>2, <4>1, <4>2
    <3>2. QED
      BY <3>1
  <2>6. k \in T
    BY <2>4, <2>5
  <2>7. QED
    BY <2>6
<1>2. QED
  BY <1>1

(* A chain of subsets of a finite set, each determined by the one before,   *)
(* stops growing: there is no room for one new element in every step.       *)
LEMMA ChainStops ==
  ASSUME NEW F, IsFiniteSet(F), NEW n \in Nat, Cardinality(F) = n,
         NEW W \in [0 .. n -> SUBSET F], W[0] # {},
         \A k \in 0 .. n - 1 : W[k] \subseteq W[k + 1],
         \A j, k \in 0 .. n - 1 : W[j] = W[k] => W[j + 1] = W[k + 1]
  PROVE  \E k \in 0 .. n - 1 : W[k] = W[n] /\ W[k + 1] = W[k]
<1>1. \A k \in 0 .. n : IsFiniteSet(W[k]) /\ Cardinality(W[k]) \in Nat /\ Cardinality(W[k]) <= n
  BY FS_Subset, FS_CardinalityType
<1>2. PICK k \in 0 .. n - 1 : W[k + 1] = W[k]
  <2> SUFFICES ASSUME \A k \in 0 .. n - 1 : W[k + 1] # W[k] PROVE FALSE
    OBVIOUS
  <2> DEFINE T == {k \in 0 .. n : Cardinality(W[k]) >= k + 1}
  <2>1. 0 \in T
    <3>1. Cardinality(W[0]) # 0
      BY <1>1, FS_EmptySet
    <3>2. QED
      BY <1>1, <3>1
  <2>2. ASSUME NEW k \in 0 .. n, k \in T, k < n PROVE k + 1 \in T
    <3>1. k \in 0 .. n - 1 /\ k + 1 \in 0 .. n
      BY <2>2
    <3>2. W[k] \in SUBSET W[k + 1] /\ W[k] # W[k + 1]
      BY <3>1
    <3>3. Cardinality(W[k]) <= Cardinality(W[k + 1]) /\ Cardinality(W[k + 1]) # Cardinality(W[k])
      BY <1>1, <3>1, <3>2, FS_Subset
    <3>4. Cardinality(W[k]) \in Nat /\ Cardinality(W[k + 1]) \in Nat /\ Cardinality(W[k]) >= k + 1
      BY <1>1, <2>2, <3>1
    <3>5. QED
      BY <3>1, <3>3, <3>4
  <2>3. \A k \in 0 .. n : k \in T
    <3> HIDE DEF T
    <3>1. QED
      BY <2>1, <2>2, StepByStep
  <2>4. Cardinality(W[n]) >= n + 1
    BY <2>3
  <2>5. QED
    BY <1>1, <2>4
<1>3. \A j \in 0 .. n : j >= k => W[j] = W[k]
  <2> DEFINE T == {j \in 0 .. n : j >= k => W[j] = W[k]}
  <2>1. 0 \in T
    BY <1>2
  <2>2. ASSUME NEW j \in 0 .. n, j \in T, j < n PROVE j + 1 \in T
    <3>1. CASE j >= k
      <4>1. W[j] = W[k] /\ j \in 0 .. n - 1
        BY <2>2, <3>1
      <4>2. W[j + 1] = W[k + 1]
        BY <4>1
      <4>3. QED
        BY <1>2, <2>2, <4>2
    <3>2. CASE j < k
      BY <2>2, <3>2
    <3>3. QED
      BY <3>1, <3>2
  <2>3. \A j \in 0 .. n : j \in T
    <3> HIDE DEF T
    <3>1. QED
      BY <2>1, <2>2, StepByStep
  <2>4. QED
    BY <2>3
<1>4. W[n] = W[k]
  BY <1>2, <1>3
<1>5. QED
  BY <1>2, <1>4

(* The files as load_package finds them.                                    *)
TreeTypes == tree \in [imports : [File -> Seq(File)], id : [File -> Nat]]

Targets(f) == Elements(tree.imports[f])
Grow(S) == S \cup UNION {Targets(f) : f \in S}

LEMMA TargetsAreFiles ==
  ASSUME TreeTypes
  PROVE  /\ \A f \in File : Targets(f) \in SUBSET File
         /\ \A S \in SUBSET File : Grow(S) \in SUBSET File
<1>1. ASSUME NEW f \in File PROVE Targets(f) \in SUBSET File
  <2>1. tree.imports[f] \in Seq(File)
    BY DEF TreeTypes
  <2>2. \A i \in DOMAIN tree.imports[f] : tree.imports[f][i] \in File
    BY <2>1
  <2>3. QED
    BY <2>2 DEF Targets, Elements
<1>2. QED
  BY <1>1 DEF Grow

Grows(w, file, n) ==
  /\ w \in [0 .. n -> SUBSET File]
  /\ w[0] = {file}
  /\ \A k \in 1 .. n : w[k] = Grow(w[k - 1])

(* The recursive definition of Within defines a function.                   *)
LEMMA WithinGrows ==
  ASSUME TreeTypes, NEW file \in File
  PROVE  Grows(Within(file), file, Cardinality(File))
<1> DEFINE N == Cardinality(File)
           Rec(w) == [k \in 0 .. N |-> IF k = 0 THEN {file} ELSE Grow(w[k - 1])]
           T == {n \in 0 .. N : \E w : Grows(w, file, n)}
<1>1. N \in Nat
  BY FileAssumption, FS_CardinalityType
<1>2. 0 \in T
  <2> DEFINE w == [k \in 0 .. 0 |-> {file}]
  <2>1. Grows(w, file, 0)
    BY DEF Grows
  <2>2. QED
    BY <1>1, <2>1
<1>3. ASSUME NEW n \in 0 .. N, n \in T, n < N PROVE n + 1 \in T
  <2>1. PICK w : Grows(w, file, n)
    BY <1>3
  <2> DEFINE v == [k \in 0 .. n + 1 |-> IF k = n + 1 THEN Grow(w[n]) ELSE w[k]]
  <2>2. n \in Nat /\ n + 1 \in 0 .. N
    BY <1>1, <1>3
  <2>3. w[n] \in SUBSET File
    BY <2>1, <2>2 DEF Grows
  <2>4. v \in [0 .. n + 1 -> SUBSET File]
    BY <2>1, <2>2, <2>3, TargetsAreFiles DEF Grows
  <2>5. ASSUME NEW k \in 1 .. n + 1 PROVE v[k] = Grow(v[k - 1])
    <3>1. k - 1 \in 0 .. n /\ k \in 0 .. n + 1 /\ k - 1 \in 0 .. n + 1 /\ k - 1 # n + 1
      BY <2>2
    <3>2. v[k - 1] = w[k - 1]
      BY <3>1
    <3>3. CASE k = n + 1
      BY <2>2, <3>1, <3>2, <3>3
    <3>4. CASE k # n + 1
      <4>1. k \in 1 .. n
        BY <2>2, <3>4
      <4>2. v[k] = w[k]
        BY <3>1, <3>4
      <4>3. QED
        BY <2>1, <3>2, <4>1, <4>2 DEF Grows
    <3>5. QED
      BY <3>3, <3>4
  <2>6. v[0] = {file}
    BY <2>1, <2>2 DEF Grows
  <2>7. Grows(v, file, n + 1)
    <3> HIDE DEF v
    <3>1. QED
      BY <2>4, <2>5, <2>6 DEF Grows
  <2>8. QED
    BY <2>2, <2>7
<1>4. N \in T
  <2>1. \A n \in 0 .. N : n \in T
    <3> HIDE DEF T, N
    <3>1. QED
      BY <1>1, <1>2, <1>3, StepByStep
  <2>2. QED
    BY <1>1, <2>1
<1>5. PICK w : Grows(w, file, N)
  BY <1>4
<1>6. w = Rec(w)
  BY <1>1, <1>5 DEF Grows
<1>7. Within(file) = CHOOSE w_ : w_ = Rec(w_)
  BY DEF Within, Grow, Targets
<1>8. Within(file) = Rec(Within(file))
  BY <1>6, <1>7
<1> DEFINE v == Within(file)
<1>9. v = Rec(v)
  BY <1>8
<1> HIDE DEF v
<1>10. /\ DOMAIN v = 0 .. N /\ v[0] = {file}
       /\ \A k \in 1 .. N : v[k] = Grow(v[k - 1])
  <2>1. \A k \in 0 .. N : v[k] = IF k = 0 THEN {file} ELSE Grow(v[k - 1])
    BY <1>9
  <2>2. DOMAIN v = 0 .. N
    BY <1>9
  <2>3. v[0] = {file}
    BY <1>1, <2>1
  <2>4. ASSUME NEW k \in 1 .. N PROVE v[k] = Grow(v[k - 1])
    <3>1. k \in 0 .. N /\ k # 0
      BY <1>1
    <3>2. QED
      BY <2>1, <3>1
  <2>5. QED
    BY <2>2, <2>3, <2>4
<1>11. \A k \in 0 .. N : v[k] \in SUBSET File
  <2> DEFINE U == {k \in 0 .. N : v[k] \in SUBSET File}
  <2>1. 0 \in U
    BY <1>1, <1>10
  <2>2. ASSUME NEW k \in 0 .. N, k \in U, k < N PROVE k + 1 \in U
    <3>1. k + 1 \in 1 .. N /\ (k + 1) - 1 = k /\ k + 1 \in 0 .. N
      BY <1>1, <2>2
    <3>2. v[k + 1] = Grow(v[k])
      BY <1>10, <3>1
    <3>3. QED
      BY <2>2, <3>1, <3>2, TargetsAreFiles
  <2>3. \A k \in 0 .. N : k \in U
    <3> HIDE DEF U, N
    <3>1. QED
      BY <1>1, <2>1, <2>2, StepByStep
  <2>4. QED
    BY <2>3
<1>12. v \in [0 .. N -> SUBSET File]
  <2>1. v = [k \in 0 .. N |-> v[k]]
    BY <1>9
  <2>2. QED
    BY <1>11, <2>1
<1>13. Grows(v, file, N)
  BY <1>10, <1>12 DEF Grows
<1>14. QED
  BY <1>13 DEF v

Closed(S) == \A f \in S : Targets(f) \subseteq S

(* Closure(file) is the least set that holds the file and the imports of    *)
(* its members: as many steps as there are files are enough.                *)
LEMMA ClosureIs ==
  ASSUME TreeTypes, NEW file \in File
  PROVE  /\ Closure(file) \in SUBSET File
         /\ file \in Closure(file)
         /\ Closed(Closure(file))
         /\ \A S : file \in S /\ Closed(S) => Closure(file) \subseteq S
<1> DEFINE N == Cardinality(File)
           W == Within(file)
<1>1. N \in Nat /\ IsFiniteSet(File)
  BY FileAssumption, FS_CardinalityType
<1>2. Closure(file) = W[N]
  BY DEF Closure
<1>3. /\ W \in [0 .. N -> SUBSET File] /\ W[0] = {file}
      /\ \A k \in 1 .. N : W[k] = Grow(W[k - 1])
  BY WithinGrows DEF Grows
<1> HIDE DEF W
<1>4. \A k \in 0 .. N - 1 : W[k + 1] = Grow(W[k])
  <2> TAKE k \in 0 .. N - 1
  <2>1. k + 1 \in 1 .. N /\ (k + 1) - 1 = k
    BY <1>1
  <2>2. QED
    BY <1>3, <2>1
<1>5. PICK k \in 0 .. N - 1 : W[k] = W[N] /\ W[k + 1] = W[k]
  <2>1. \A j \in 0 .. N - 1 : W[j] \subseteq W[j + 1]
    BY <1>4 DEF Grow
  <2>2. \A i, j \in 0 .. N - 1 : W[i] = W[j] => W[i + 1] = W[j + 1]
    BY <1>4
  <2>3. W[0] # {}
    BY <1>3
  <2>4. N \in Nat /\ IsFiniteSet(File) /\ Cardinality(File) = N /\ W \in [0 .. N -> SUBSET File]
    BY <1>1, <1>3
  <2> HIDE DEF N
  <2>5. QED
    BY <2>1, <2>2, <2>3, <2>4, ChainStops
<1>6. Grow(W[N]) = W[N]
  BY <1>4, <1>5
<1>7. Closed(W[N])
  BY <1>6 DEF Grow, Closed
<1>8. W[N] \in SUBSET File
  BY <1>1, <1>3
<1>9. file \in W[N]
  <2> DEFINE T == {j \in 0 .. N : file \in W[j]}
  <2>1. 0 \in T
    BY <1>1, <1>3
  <2>2. ASSUME NEW j \in 0 .. N, j \in T, j < N PROVE j + 1 \in T
    <3>1. j \in 0 .. N - 1 /\ j + 1 \in 0 .. N
      BY <1>1, <2>2
    <3>2. QED
      BY <1>4, <2>2, <3>1 DEF Grow
  <2>3. \A j \in 0 .. N : j \in T
    <3> HIDE DEF T, N
    <3>1. QED
      BY <1>1, <2>1, <2>2, StepByStep
  <2>4. QED
    BY <1>1, <2>3
<1>10. ASSUME NEW S, file \in S, Closed(S) PROVE W[N] \subseteq S
  <2> DEFINE T == {j \in 0 .. N : W[j] \subseteq S}
  <2>1. 0 \in T
    BY <1>1, <1>3, <1>10
  <2>2. ASSUME NEW j \in 0 .. N, j \in T, j < N PROVE j + 1 \in T
    <3>1. j \in 0 .. N - 1 /\ j + 1 \in 0 .. N /\ W[j] \subseteq S
      BY <1>1, <2>2
    <3>2. \A f \in W[j] : Targets(f) \subseteq S
      BY <1>10, <3>1 DEF Closed
    <3>3. Grow(W[j]) \subseteq S
      BY <3>1, <3>2 DEF Grow
    <3>4. QED
      BY <1>4, <3>1, <3>3
  <2>3. \A j \in 0 .. N : j \in T
    <3> HIDE DEF T, N
    <3>1. QED
      BY <1>1, <2>1, <2>2, StepByStep
  <2>4. QED
    BY <1>1, <2>3
<1>11. QED
  BY <1>2, <1>7, <1>8, <1>9, <1>10

(* Closures of members lie inside; the last step of a path is an import.    *)
LEMMA ClosurePaths ==
  ASSUME TreeTypes, NEW file \in File, NEW f \in Closure(file)
  PROVE  /\ f \in File /\ Closure(f) \subseteq Closure(file)
         /\ f = file \/ \E g \in Closure(file) : f \in Targets(g)
<1>1. f \in File /\ Closed(Closure(file)) /\ Closure(file) \in SUBSET File /\ file \in Closure(file)
  BY ClosureIs
<1>2. Closure(f) \subseteq Closure(file)
  BY <1>1, ClosureIs
<1> DEFINE S == {file} \cup UNION {Targets(g) : g \in Closure(file)}
<1>3. S \subseteq Closure(file)
  BY <1>1 DEF Closed
<1>4. Closed(S)
  BY <1>3 DEF Closed
<1>5. file \in S
  OBVIOUS
<1>6. Closure(file) \subseteq S
  <2> HIDE DEF S
  <2>1. QED
    BY <1>4, <1>5, ClosureIs
<1>7. QED
  BY <1>1, <1>2, <1>6

-----------------------------------------------------------------------------
(* Loading.                                                                 *)

Errors == {"io", "duplicate-module"}
Verdicts == {"sorting", "accepted", "import-cycle"}

Distinct(s) == \A i, j \in DOMAIN s : s[i] = s[j] => i = j

LoadTypes ==
  /\ TreeTypes
  /\ pending \in Seq(File) /\ raw \in Seq(File)
  /\ outcome \in {"loading"} \cup Errors \cup Verdicts

(* What was read and what waits is reached by imports, a file is read once, *)
(* and no import is forgotten.                                              *)
Walked ==
  /\ seen = Elements(raw) /\ Distinct(raw)
  /\ Elements(raw) \cup Elements(pending) \subseteq Closure(RootFile)
  /\ RootFile \in Elements(raw) \cup Elements(pending)
  /\ \A f \in Elements(raw) : Targets(f) \subseteq Elements(raw) \cup Elements(pending)

NothingSorted ==
  outcome \in {"loading"} \cup Errors =>
    modules = <<>> /\ incoming = <<>> /\ queue = <<>> /\ visited = 0

LoadInv == LoadTypes /\ Walked /\ NothingSorted

(* The last element of a sequence, and the others.                          *)
LEMMA LastApart ==
  ASSUME NEW S, NEW s \in Seq(S), s # <<>>
  PROVE  /\ s[Len(s)] \in S /\ SubSeq(s, 1, Len(s) - 1) \in Seq(S)
         /\ Elements(s) = Elements(SubSeq(s, 1, Len(s) - 1)) \cup {s[Len(s)]}
<1>1. PICK n \in Nat : n = Len(s) /\ n >= 1 /\ DOMAIN s = 1 .. n
  BY EmptySeq, LenProperties
<1>2. PICK r : r = SubSeq(s, 1, Len(s) - 1)
  OBVIOUS
<1>3. \A i \in 1 .. n : s[i] \in S
  BY <1>1
<1>4. r \in Seq(S) /\ Len(r) = n - 1 /\ \A i \in 1 .. n - 1 : r[i] = s[i]
  BY <1>1, <1>2
<1>5. DOMAIN r = 1 .. n - 1
  BY <1>4, LenProperties
<1>6. \A i : i \in 1 .. n <=> i \in 1 .. n - 1 \/ i = n
  BY <1>1
<1>7. Elements(s) = Elements(r) \cup {s[n]}
  BY <1>1, <1>4, <1>5, <1>6 DEF Elements
<1>8. s[n] \in S
  BY <1>3, <1>6
<1>9. QED
  BY <1>1, <1>2, <1>4, <1>7, <1>8

LEMMA ElementsOfConcat ==
  ASSUME NEW S, NEW s \in Seq(S), NEW t \in Seq(S)
  PROVE  s \o t \in Seq(S) /\ Elements(s \o t) = Elements(s) \cup Elements(t)
<1>1. /\ s \o t \in Seq(S) /\ Len(s \o t) = Len(s) + Len(t)
      /\ \A i \in 1 .. Len(s) + Len(t) : (s \o t)[i] = IF i <= Len(s) THEN s[i] ELSE t[i - Len(s)]
  BY ConcatProperties
<1>2. Len(s) \in Nat /\ Len(t) \in Nat /\ DOMAIN s = 1 .. Len(s) /\ DOMAIN t = 1 .. Len(t)
      /\ DOMAIN (s \o t) = 1 .. Len(s) + Len(t)
  BY <1>1, LenProperties
<1> DEFINE u == s \o t
<1>3. u = s \o t
  OBVIOUS
<1> HIDE DEF u
<1>4. ASSUME NEW i \in 1 .. Len(s) + Len(t) PROVE u[i] \in Elements(s) \cup Elements(t)
  <2>1. CASE i <= Len(s)
    <3>1. i \in 1 .. Len(s) /\ u[i] = s[i]
      BY <1>1, <1>2, <1>3, <2>1
    <3>2. QED
      BY <1>2, <3>1 DEF Elements
  <2>2. CASE ~ (i <= Len(s))
    <3>1. i - Len(s) \in 1 .. Len(t) /\ u[i] = t[i - Len(s)]
      BY <1>1, <1>2, <1>3, <2>2
    <3>2. QED
      BY <1>2, <3>1 DEF Elements
  <2>3. QED
    BY <2>1, <2>2
<1>5. ASSUME NEW i \in 1 .. Len(s) PROVE s[i] \in Elements(u)
  <2>1. i \in 1 .. Len(s) + Len(t) /\ u[i] = s[i]
    BY <1>1, <1>2, <1>3
  <2>2. QED
    BY <1>2, <1>3, <2>1 DEF Elements
<1>6. ASSUME NEW i \in 1 .. Len(t) PROVE t[i] \in Elements(u)
  <2>1. Len(s) + i \in 1 .. Len(s) + Len(t) /\ ~ (Len(s) + i <= Len(s)) /\ (Len(s) + i) - Len(s) = i
    BY <1>2
  <2>2. u[Len(s) + i] = t[i]
    BY <1>1, <1>3, <2>1
  <2>3. QED
    BY <1>2, <1>3, <2>1, <2>2 DEF Elements
<1>7. Elements(u) = Elements(s) \cup Elements(t)
  <2>1. Elements(u) \subseteq Elements(s) \cup Elements(t)
    BY <1>2, <1>3, <1>4 DEF Elements
  <2>2. Elements(s) \subseteq Elements(u)
    BY <1>2, <1>5 DEF Elements
  <2>3. Elements(t) \subseteq Elements(u)
    BY <1>2, <1>6 DEF Elements
  <2>4. QED
    BY <2>1, <2>2, <2>3
<1>8. QED
  BY <1>1, <1>3, <1>7

(* Appending a new element keeps elements apart.                            *)
LEMMA AppendDistinct ==
  ASSUME NEW S, NEW s \in Seq(S), NEW e \in S, Distinct(s), e \notin Elements(s)
  PROVE  /\ Append(s, e) \in Seq(S) /\ Distinct(Append(s, e))
         /\ Elements(Append(s, e)) = Elements(s) \cup {e}
<1> DEFINE t == Append(s, e)
<1>1. /\ t \in Seq(S) /\ Len(t) = Len(s) + 1 /\ t[Len(s) + 1] = e
      /\ \A i \in 1 .. Len(s) : t[i] = s[i]
      /\ Len(s) \in Nat /\ DOMAIN s = 1 .. Len(s) /\ DOMAIN t = 1 .. Len(s) + 1
  OBVIOUS
<1> HIDE DEF t
<1>2. \A i \in 1 .. Len(s) + 1 : i \in 1 .. Len(s) \/ i = Len(s) + 1
  BY <1>1
<1>3. \A i \in 1 .. Len(s) : s[i] # e
  BY <1>1 DEF Elements
<1>4. Distinct(t)
  BY <1>1, <1>2, <1>3 DEF Distinct
<1>5. \A i \in 1 .. Len(s) : i \in 1 .. Len(s) + 1
  BY <1>1
<1>6. Len(s) + 1 \in 1 .. Len(s) + 1
  BY <1>1
<1>7. Elements(t) = Elements(s) \cup {e}
  BY <1>1, <1>2, <1>5, <1>6 DEF Elements
<1>8. QED
  BY <1>1, <1>4, <1>7 DEF t

LEMMA InitLoad == Init => LoadInv
<1> SUFFICES ASSUME Init PROVE LoadInv
  OBVIOUS
<1>1. TreeTypes
  BY TreesAssumption DEF Init, TreeTypes
<1>2. RootFile \in File
  BY FileAssumption
<1>3. Elements(pending) = {RootFile} /\ Elements(raw) = {}
  BY DEF Init, Elements
<1>4. LoadTypes
  BY <1>1, <1>2 DEF Init, LoadTypes
<1>5. RootFile \in Closure(RootFile)
  BY <1>1, <1>2, ClosureIs
<1>6. Walked
  BY <1>3, <1>5 DEF Walked, Init, Distinct
<1>7. QED
  BY <1>4, <1>6 DEF LoadInv, NothingSorted, Init

(* Everything Walked and TreeTypes speak of.                                *)
LEMMA SameWalk ==
  ASSUME Walked, TreeTypes, UNCHANGED <<tree, pending, seen, raw>>
  PROVE  Walked' /\ TreeTypes'
<1>1. \A f : Targets(f)' = Targets(f) /\ Closure(f)' = Closure(f)
  BY DEF Targets, Closure, Within
<1>2. Walked'
  BY <1>1 DEF Walked, Distinct, Elements
<1>3. QED
  BY <1>2 DEF TreeTypes

LEMMA ReadLoad ==
  ASSUME LoadInv, Read
  PROVE  LoadInv'
<1> DEFINE f == Upcoming
           list == tree.imports[f]
<1>1. /\ outcome = "loading" /\ pending # <<>> /\ f \notin seen
      /\ seen' = seen \cup {f} /\ raw' = Append(raw, f) /\ pending' = Others \o list
      /\ UNCHANGED <<tree, modules, incoming, queue, visited, outcome>>
  BY DEF Read, Loading
<1>2. /\ TreeTypes /\ pending \in Seq(File) /\ raw \in Seq(File) /\ Walked
  BY DEF LoadInv, LoadTypes
<1>3. /\ f \in File /\ Others \in Seq(File) /\ Elements(pending) = Elements(Others) \cup {f}
  BY <1>1, <1>2, LastApart DEF Upcoming, Others
<1>4. list \in Seq(File) /\ Elements(list) = Targets(f)
  BY <1>2, <1>3 DEF TreeTypes, Targets
<1>5. pending' \in Seq(File) /\ Elements(pending') = Elements(Others) \cup Targets(f)
  <2>1. Others \o list \in Seq(File) /\ Elements(Others \o list) = Elements(Others) \cup Elements(list)
    BY <1>3, <1>4, ElementsOfConcat
  <2>2. QED
    BY <1>1, <1>4, <2>1
<1>6. seen = Elements(raw) /\ Distinct(raw) /\ f \notin Elements(raw)
  BY <1>1, <1>2 DEF Walked
<1> HIDE DEF f, list
<1>7. raw' \in Seq(File) /\ Distinct(raw') /\ Elements(raw') = Elements(raw) \cup {f}
  <2>1. /\ Append(raw, f) \in Seq(File) /\ Distinct(Append(raw, f))
        /\ Elements(Append(raw, f)) = Elements(raw) \cup {f}
    BY <1>2, <1>3, <1>6, AppendDistinct
  <2>2. QED
    BY <1>1, <2>1
<1>8. \A g : Targets(g)' = Targets(g) /\ Closure(g)' = Closure(g)
  BY <1>1 DEF Targets, Closure, Within
<1>9. Targets(f) \subseteq Closure(RootFile)
  <2>1. Closed(Closure(RootFile))
    BY <1>2, ClosureIs, FileAssumption
  <2>2. f \in Closure(RootFile)
    BY <1>2, <1>3 DEF Walked
  <2>3. QED
    BY <2>1, <2>2 DEF Closed
<1>10. Walked'
  <2>1. /\ seen' = Elements(raw') /\ Distinct(raw')
        /\ Elements(raw') \cup Elements(pending') \subseteq Closure(RootFile)
        /\ RootFile \in Elements(raw') \cup Elements(pending')
        /\ \A g \in Elements(raw') : Targets(g) \subseteq Elements(raw') \cup Elements(pending')
    BY <1>1, <1>2, <1>3, <1>5, <1>6, <1>7, <1>9 DEF Walked
  <2>2. QED
    BY <1>8, <2>1 DEF Walked, Elements, Distinct
<1>11. LoadTypes'
  BY <1>1, <1>5, <1>7 DEF LoadInv, LoadTypes, TreeTypes
<1>12. QED
  BY <1>1, <1>10, <1>11 DEF LoadInv, NothingSorted

LEMMA SkipLoad ==
  ASSUME LoadInv, SkipSeen
  PROVE  LoadInv'
<1>1. /\ outcome = "loading" /\ pending # <<>> /\ Upcoming \in seen /\ pending' = Others
      /\ UNCHANGED <<tree, seen, raw, modules, incoming, queue, visited, outcome>>
  BY DEF SkipSeen, Loading
<1>2. /\ TreeTypes /\ pending \in Seq(File) /\ Walked
  BY DEF LoadInv, LoadTypes
<1>3. Others \in Seq(File) /\ Elements(pending) = Elements(Others) \cup {Upcoming}
  BY <1>1, <1>2, LastApart DEF Upcoming, Others
<1>4. \A g : Targets(g)' = Targets(g) /\ Closure(g)' = Closure(g)
  BY <1>1 DEF Targets, Closure, Within
<1>5. Upcoming \in Elements(raw)
  BY <1>1, <1>2 DEF Walked
<1>6. Elements(raw) \cup Elements(pending) = Elements(raw) \cup Elements(Others)
  BY <1>3, <1>5
<1>7. Elements(raw)' = Elements(raw) /\ Elements(pending)' = Elements(Others) /\ Distinct(raw)' = Distinct(raw)
  BY <1>1 DEF Elements, Distinct
<1>8. Walked'
  BY <1>1, <1>2, <1>4, <1>6, <1>7 DEF Walked
<1>9. LoadTypes'
  BY <1>1, <1>3 DEF LoadInv, LoadTypes, TreeTypes
<1>10. QED
  BY <1>1, <1>8, <1>9 DEF LoadInv, NothingSorted

LEMMA LoadStep ==
  ASSUME LoadInv, [Next]_vars
  PROVE  LoadInv'
<1>1. CASE SkipSeen
  BY <1>1, SkipLoad
<1>2. CASE Read
  BY <1>2, ReadLoad
<1>3. ASSUME UNCHANGED <<tree, pending, seen, raw>>, outcome' \in {"loading"} \cup Errors \cup Verdicts,
             \/ outcome' \in Verdicts
             \/ outcome \in {"loading"} \cup Errors /\ UNCHANGED <<modules, incoming, queue, visited>>
      PROVE  LoadInv'
  <2>1. Walked' /\ TreeTypes'
    BY <1>3, SameWalk DEF LoadInv, LoadTypes
  <2>2. LoadTypes'
    BY <1>3, <2>1 DEF LoadInv, LoadTypes
  <2>3. NothingSorted'
    BY <1>3 DEF LoadInv, NothingSorted, Errors, Verdicts
  <2>4. QED
    BY <2>1, <2>2, <2>3 DEF LoadInv
<1>4. CASE ReadFails \/ Sort
  BY <1>3, <1>4 DEF ReadFails, Sort, Conclude, Loading, Errors, Verdicts
<1>5. CASE Strike \/ Decide
  BY <1>3, <1>5 DEF Strike, Decide, Conclude, Verdicts
<1>6. CASE UNCHANGED vars \/ \E file \in MayVanish : Vanish(file)
  BY <1>3, <1>6 DEF vars, Vanish, LoadInv, LoadTypes
<1>7. QED
  BY <1>1, <1>2, <1>4, <1>5, <1>6 DEF Next, Step

-----------------------------------------------------------------------------
(* Sorting.                                                                 *)

LEMMA UpToIs ==
  ASSUME NEW n \in Nat
  PROVE  IsFiniteSet(1 .. n) /\ Cardinality(1 .. n) = n
<1>1. 1 \in Int /\ n \in Int
  OBVIOUS
<1>2. IsFiniteSet(1 .. n) /\ Cardinality(1 .. n) = IF 1 > n THEN 0 ELSE n - 1 + 1
  BY <1>1, FS_Interval
<1>3. QED
  BY <1>2

LEMMA Renamed ==
  ASSUME NEW S, NEW T, IsFiniteSet(S), NEW f \in [S -> T],
         \A x, y \in S : f[x] = f[y] => x = y,
         \A t \in T : \E x \in S : f[x] = t
  PROVE  IsFiniteSet(T) /\ Cardinality(T) = Cardinality(S)
<1>1. f \in Surjection(S, T) /\ f \in Injection(S, T)
  BY Fun_IsInj, Fun_IsSurj
<1>2. QED
  BY <1>1, FS_Surjection

(* Numbering a finite set by the sizes of what comes before each member     *)
(* gives every number once.                                                 *)
LEMMA Numbering ==
  ASSUME NEW S, NEW n \in Nat, IsFiniteSet(S), Cardinality(S) = n,
         NEW r \in [S -> 1 .. n], \A i, j \in S : r[i] = r[j] => i = j
  PROVE  \A k \in 1 .. n : \E i \in S : r[i] = k
<1>1. r \in Injection(S, 1 .. n)
  BY Fun_IsInj
<1>2. IsFiniteSet(1 .. n) /\ Cardinality(1 .. n) = n
  BY UpToIs
<1>3. r \in Surjection(S, 1 .. n)
  BY <1>1, <1>2, FS_Injection
<1>4. QED
  BY <1>3 DEF Surjection

LEMMA InOrderLists ==
  ASSUME NEW S, IsFiniteSet(S), S \subseteq Nat
  PROVE  InOrder(S) \in Seq(S) /\ Elements(InOrder(S)) = S /\ Distinct(InOrder(S))
<1> DEFINE upTo(i) == {j \in S : j <= i}
           n == Cardinality(S)
           r == [i \in S |-> Cardinality(upTo(i))]
<1>1. IsFiniteSet(S) /\ n \in Nat
  BY FS_CardinalityType
<1>2. ASSUME NEW i \in S
      PROVE  IsFiniteSet(upTo(i)) /\ Cardinality(upTo(i)) \in 1 .. n
  <2>1. upTo(i) \in SUBSET S /\ i \in upTo(i)
    OBVIOUS
  <2> HIDE DEF upTo
  <2>2. IsFiniteSet(upTo(i)) /\ Cardinality(upTo(i)) <= n
    BY <1>1, <2>1, FS_Subset
  <2>3. Cardinality(upTo(i)) \in Nat /\ Cardinality(upTo(i)) # 0
    BY <2>1, <2>2, FS_CardinalityType, FS_EmptySet
  <2>4. QED
    BY <1>1, <2>2, <2>3
<1>3. ASSUME NEW i \in S, NEW j \in S, i < j
      PROVE  Cardinality(upTo(i)) < Cardinality(upTo(j))
  <2>1. upTo(i) \in SUBSET upTo(j) /\ upTo(j) # upTo(i)
    <3>1. i \in Nat /\ j \in Nat /\ \A h \in S : h \in Nat
      OBVIOUS
    <3>2. \A h \in upTo(i) : h \in upTo(j)
      BY <1>3, <3>1
    <3>3. j \in upTo(j) /\ j \notin upTo(i)
      BY <1>3, <3>1
    <3>4. QED
      BY <3>2, <3>3
  <2> HIDE DEF upTo
  <2>2. /\ Cardinality(upTo(i)) <= Cardinality(upTo(j))
        /\ Cardinality(upTo(j)) # Cardinality(upTo(i))
    BY <1>2, <2>1, FS_Subset
  <2>3. Cardinality(upTo(i)) \in Nat /\ Cardinality(upTo(j)) \in Nat
    BY <1>1, <1>2
  <2>4. QED
    BY <2>2, <2>3
<1>4. r \in [S -> 1 .. n] /\ \A i \in S : r[i] = Cardinality(upTo(i))
  BY <1>2
<1>5. \A i, j \in S : r[i] = r[j] => i = j
  <2>1. ASSUME NEW i \in S, NEW j \in S, r[i] = r[j] PROVE i = j
    <3>1. i \in Nat /\ j \in Nat
      OBVIOUS
    <3>2. ~ (i < j)
      BY <1>1, <1>3, <1>4, <2>1
    <3>3. ~ (j < i)
      BY <1>1, <1>3, <1>4, <2>1
    <3>4. QED
      BY <3>1, <3>2, <3>3
  <2>2. QED
    BY <2>1
<1> DEFINE at(k) == CHOOSE i \in S : Cardinality({j \in S : j <= i}) = k
           chosen(k) == CHOOSE i \in S : r[i] = k
<1>6. \A k : at(k) = chosen(k)
  BY <1>4
<1> HIDE DEF r, n
<1>7. /\ \A k \in 1 .. n : chosen(k) \in S /\ r[chosen(k)] = k
      /\ \A i \in S : chosen(r[i]) = i
  <2>1. Cardinality(S) = n
    BY DEF n
  <2>2. r \in [S -> 1 .. n]
    BY <1>4
  <2> HIDE DEF at, upTo, chosen
  <2>3. \A k \in 1 .. n : \E i \in S : r[i] = k
    <3>1. IsFiniteSet(S)
      BY <1>1
    <3>2. n \in Nat
      BY <1>1
    <3>3. \A i, j \in S : r[i] = r[j] => i = j
      BY <1>5
    <3>4. QED
      BY ONLY <2>1, <2>2, <3>1, <3>2, <3>3, Numbering
  <2>4. QED
    BY <1>5, <2>2, <2>3 DEF chosen
<1> HIDE DEF chosen
<1>8. /\ \A k \in 1 .. n : at(k) \in S /\ r[at(k)] = k
      /\ \A i \in S : r[i] \in 1 .. n /\ at(r[i]) = i
  BY <1>4, <1>6, <1>7
<1>9. InOrder(S) = [k \in 1 .. n |-> at(k)]
  BY DEF InOrder, n
<1> HIDE DEF at
<1>10. PICK s : s = InOrder(S)
  OBVIOUS
<1>11. DOMAIN s = 1 .. n /\ \A k \in 1 .. n : s[k] = at(k)
  BY <1>9, <1>10
<1>12. s \in Seq(S)
  <2>1. s \in [1 .. n -> S]
    BY <1>8, <1>9, <1>10
  <2>2. QED
    BY <1>1, <2>1
<1>13. Elements(s) = S
  <2>1. \A i \in S : \E k \in 1 .. n : s[k] = i
    BY <1>8, <1>11
  <2>2. S \subseteq Elements(s)
    BY <1>11, <2>1 DEF Elements
  <2>3. Elements(s) \subseteq S
    BY <1>8, <1>11 DEF Elements
  <2>4. QED
    BY <2>2, <2>3
<1>14. Distinct(s)
  BY <1>8, <1>11 DEF Distinct
<1>15. QED
  BY <1>10, <1>12, <1>13, <1>14

(* What load_package hands over, and validate_package_input lets through.   *)
IsPackage(list) ==
  /\ list \in Seq(File) /\ Distinct(list)
  /\ Elements(list) = Closure(RootFile)
  /\ list[1] = RootFile
  /\ \A m \in 2 .. Len(list) - 1 : tree.id[list[m]] < tree.id[list[m + 1]]
  /\ \A i, j \in DOMAIN list : tree.id[list[i]] = tree.id[list[j]] => i = j

(* When nothing waits any more, everything was read.                        *)
LEMMA AllRead ==
  ASSUME LoadInv, pending = <<>>
  PROVE  Elements(raw) = Closure(RootFile)
<1>1. Elements(pending) = {}
  BY DEF Elements
<1>2. /\ RootFile \in Elements(raw) /\ Elements(raw) \subseteq Closure(RootFile)
      /\ Closed(Elements(raw))
  BY <1>1 DEF LoadInv, Walked, Closed
<1>3. QED
  BY <1>2, ClosureIs, FileAssumption DEF LoadInv, LoadTypes

(* sort_by with the root first: a permutation of what was read, in order.   *)
LEMMA CanonicalIsPackage ==
  ASSUME LoadInv, pending = <<>>, ~Duplicates
  PROVE  IsPackage(Canonical) /\ DOMAIN Canonical = DOMAIN raw
<1>1. PICK n \in Nat : n = Len(raw) /\ DOMAIN raw = 1 .. n /\ \A i \in 1 .. n : raw[i] \in File
  BY LenProperties DEF LoadInv, LoadTypes
<1> DEFINE D == 1 .. n
           before(i) == {j \in D : Precedes(j, i)}
           r == [i \in D |-> Rank(i)]
           at(k) == CHOOSE i \in D : r[i] = k
           chosen(k) == CHOOSE i \in D : Rank(i) = k
<1>2. IsFiniteSet(D) /\ Cardinality(D) = n
  BY UpToIs
<1>3. /\ \A i \in D : tree.id[raw[i]] \in Nat
      /\ \A i, j \in D : raw[i] = raw[j] => i = j
      /\ \A i, j \in D : i # j => tree.id[raw[i]] # tree.id[raw[j]]
  <2>1. tree.id \in [File -> Nat]
    BY DEF LoadInv, LoadTypes, TreeTypes
  <2>2. QED
    BY <1>1, <2>1 DEF LoadInv, Walked, Distinct, Duplicates
<1>4. \A i, j \in D : i # j => Precedes(i, j) \/ Precedes(j, i)
  BY <1>3 DEF Precedes
<1>5. \A i \in D : ~Precedes(i, i)
  BY <1>3 DEF Precedes
<1>6. \A i, j, k \in D : Precedes(i, j) /\ Precedes(j, k) => Precedes(i, k)
  BY <1>3 DEF Precedes
<1>7. ASSUME NEW i \in D
      PROVE  /\ IsFiniteSet(before(i)) /\ Cardinality(before(i)) \in Nat
             /\ Rank(i) = Cardinality(before(i)) + 1 /\ Rank(i) \in 1 .. n
  <2>1. before(i) \in SUBSET D /\ i \notin before(i)
    BY <1>5
  <2>2. Rank(i) = Cardinality(before(i)) + 1
    BY <1>1 DEF Rank
  <2> HIDE DEF before, D
  <2>3. IsFiniteSet(before(i)) /\ Cardinality(before(i)) <= n /\ Cardinality(before(i)) # n
    BY <1>2, <2>1, FS_Subset
  <2>4. Cardinality(before(i)) \in Nat
    BY <2>3, FS_CardinalityType
  <2>5. QED
    BY <2>2, <2>3, <2>4
<1>8. ASSUME NEW i \in D, NEW j \in D, Precedes(i, j)
      PROVE  Rank(i) < Rank(j)
  <2>1. before(i) \in SUBSET before(j) /\ before(i) # before(j)
    BY <1>5, <1>6, <1>8
  <2> HIDE DEF before
  <2>2. Cardinality(before(i)) <= Cardinality(before(j)) /\ Cardinality(before(j)) # Cardinality(before(i))
    BY <1>7, <2>1, FS_Subset
  <2>3. QED
    BY <1>7, <2>2
<1>9. r \in [D -> 1 .. n] /\ \A i \in D : r[i] = Rank(i)
  BY <1>7
<1>10. \A i, j \in D : r[i] = r[j] => i = j
  <2>1. ASSUME NEW i \in D, NEW j \in D, r[i] = r[j] PROVE i = j
    <3>1. Rank(i) = Rank(j) /\ Rank(i) \in Nat
      BY <1>7, <1>9, <2>1
    <3>2. ~Precedes(i, j) /\ ~Precedes(j, i)
      BY <1>8, <3>1
    <3>3. QED
      BY <1>4, <3>2
  <2>2. QED
    BY <2>1
<1>11. \A k : chosen(k) = at(k)
  BY <1>9
<1>12. Canonical = [k \in D |-> raw[chosen(k)]]
  BY <1>1 DEF Canonical
<1> HIDE DEF r, D
<1>13. /\ \A k \in 1 .. n : at(k) \in D /\ r[at(k)] = k
       /\ \A i \in D : at(r[i]) = i
  <2>1. \A k \in 1 .. n : \E i \in D : r[i] = k
    BY <1>2, <1>9, <1>10, Numbering
  <2>2. QED
    BY <1>9, <1>10, <2>1
<1> HIDE DEF at, chosen
<1>14. PICK c : c = Canonical
  OBVIOUS
<1>15. /\ DOMAIN c = D /\ \A k \in D : c[k] = raw[at(k)]
       /\ \A k \in D : at(k) \in D /\ Rank(at(k)) = k
       /\ \A i \in D : Rank(i) \in D /\ at(Rank(i)) = i
  BY <1>9, <1>11, <1>12, <1>13, <1>14 DEF D
<1>16. c \in Seq(File) /\ Len(c) = n
  <2>1. c \in [1 .. n -> File]
    BY <1>1, <1>11, <1>12, <1>14, <1>15 DEF D
  <2>2. QED
    BY <2>1
<1>17. Distinct(c)
  BY <1>3, <1>15 DEF Distinct
<1>18. Elements(c) = Elements(raw)
  <2>1. \A k \in D : c[k] \in Elements(raw)
    BY <1>1, <1>15 DEF D, Elements
  <2>2. \A i \in D : c[Rank(i)] = raw[i]
    BY <1>15
  <2>3. QED
    BY <1>1, <1>15, <2>1, <2>2 DEF D, Elements
<1>19. Elements(raw) = Closure(RootFile)
  BY AllRead
<1>20. PICK root \in D : raw[root] = RootFile
  <2>1. RootFile \in Closure(RootFile)
    BY ClosureIs, FileAssumption DEF LoadInv, LoadTypes
  <2>2. QED
    BY <1>1, <1>19, <2>1 DEF D, Elements
<1>21. Rank(root) = 1
  <2>1. before(root) = {}
    BY <1>20 DEF Precedes
  <2> HIDE DEF before
  <2>2. Cardinality(before(root)) = 0
    BY <2>1, FS_EmptySet
  <2>3. QED
    BY <1>7, <2>2
<1>22. c[1] = RootFile
  BY <1>15, <1>20, <1>21
<1>23. ASSUME NEW m \in 2 .. Len(c) - 1 PROVE tree.id[c[m]] < tree.id[c[m + 1]]
  <2>1. m \in D /\ m + 1 \in D /\ m # 1 /\ m < m + 1 /\ ~ (m + 1 < m)
    BY <1>16 DEF D
  <2>2. PICK i \in D, j \in D : i = at(m) /\ j = at(m + 1)
    BY <1>15, <2>1
  <2>3. Rank(i) = m /\ Rank(j) = m + 1 /\ c[m] = raw[i] /\ c[m + 1] = raw[j]
    BY <1>15, <2>1, <2>2
  <2>4. i # j /\ ~Precedes(j, i)
    BY <1>8, <2>1, <2>3
  <2>5. Precedes(i, j)
    BY <1>4, <2>4
  <2>6. raw[i] # RootFile
    BY <1>3, <1>20, <1>21, <2>1, <2>3
  <2>7. QED
    BY <2>3, <2>5, <2>6 DEF Precedes
<1>24. \A i, j \in DOMAIN c : tree.id[c[i]] = tree.id[c[j]] => i = j
  <2>1. ASSUME NEW i \in D, NEW j \in D, tree.id[c[i]] = tree.id[c[j]] PROVE i = j
    <3>1. at(i) = at(j)
      BY <1>3, <1>15, <2>1
    <3>2. QED
      BY <1>15, <3>1
  <2>2. QED
    BY <1>15, <2>1
<1>25. IsPackage(c)
  BY <1>16, <1>17, <1>18, <1>19, <1>22, <1>23, <1>24 DEF IsPackage
<1>26. DOMAIN c = DOMAIN raw
  BY <1>1, <1>15 DEF D
<1>27. QED
  BY <1>14, <1>25, <1>26

-----------------------------------------------------------------------------
(* Kahn's algorithm, for any finite graph: nodes D, edges E of which the    *)
(* first component is the source and T gives the target.                    *)

FreedOf(D, inc) == {n \in D : inc[n] = 0}
TakenOf(D, inc, q) == FreedOf(D, inc) \ Elements(q)
Left(E, T, taken, n) == {e \in E : e[1] \notin taken /\ T[e] = n}
From(E, T, m, n) == {e \in E : e[1] = m /\ T[e] = n}

(* A set of nodes each of which is the target of an edge from the set.      *)
Circular(C, E, T) == \A c \in C : \E e \in E : e[1] \in C /\ T[e] = c

(* The counts are those of the edges from nodes not taken, the queue holds  *)
(* the free nodes not taken, and no circle was ever entered.                *)
Kahn(D, E, T, inc, q, vis) ==
  /\ inc \in [D -> Nat]
  /\ q \in Seq(D) /\ Distinct(q) /\ Elements(q) \subseteq FreedOf(D, inc)
  /\ vis = Cardinality(TakenOf(D, inc, q))
  /\ \A n \in D : inc[n] = Cardinality(Left(E, T, TakenOf(D, inc, q), n))
  /\ \A C \in SUBSET D : Circular(C, E, T) => C \cap FreedOf(D, inc) = {}

(* A sequence of nodes that were not there goes to the end.                 *)
LEMMA ConcatDistinct ==
  ASSUME NEW S, NEW s \in Seq(S), NEW t \in Seq(S), Distinct(s), Distinct(t),
         Elements(s) \cap Elements(t) = {}
  PROVE  Distinct(s \o t)
<1>1. /\ Len(s \o t) = Len(s) + Len(t)
      /\ \A i \in 1 .. Len(s) + Len(t) : (s \o t)[i] = IF i <= Len(s) THEN s[i] ELSE t[i - Len(s)]
      /\ s \o t \in Seq(S)
  BY ConcatProperties
<1>2. PICK a \in Nat, b \in Nat : a = Len(s) /\ b = Len(t) /\ DOMAIN s = 1 .. a /\ DOMAIN t = 1 .. b
  BY LenProperties
<1>3. PICK u : u = s \o t
  OBVIOUS
<1>4. DOMAIN u = 1 .. a + b
  BY <1>1, <1>2, <1>3, LenProperties
<1>5. \A i \in 1 .. a + b : u[i] = IF i <= a THEN s[i] ELSE t[i - a]
  BY <1>1, <1>2, <1>3
<1>6. \A i \in 1 .. a + b : (i \in 1 .. a /\ i <= a) \/ (~ (i <= a) /\ i - a \in 1 .. b)
  BY <1>2
<1>7. \A i \in 1 .. a, j \in 1 .. b : s[i] # t[j]
  BY <1>2 DEF Elements
<1>8. ASSUME NEW i \in 1 .. a + b, NEW j \in 1 .. a + b, u[i] = u[j]
      PROVE  i = j
  <2>1. CASE i <= a /\ j <= a
    BY <1>2, <1>5, <1>6, <1>8, <2>1 DEF Distinct
  <2>2. CASE ~ (i <= a) /\ ~ (j <= a)
    <3>1. i - a \in 1 .. b /\ j - a \in 1 .. b /\ u[i] = t[i - a] /\ u[j] = t[j - a]
      BY <1>5, <1>6, <2>2
    <3>2. i - a = j - a
      BY <1>2, <1>8, <3>1 DEF Distinct
    <3>3. QED
      BY <1>2, <3>2
  <2>3. CASE i <= a /\ ~ (j <= a)
    <3>1. i \in 1 .. a /\ j - a \in 1 .. b /\ u[i] = s[i] /\ u[j] = t[j - a]
      BY <1>5, <1>6, <2>3
    <3>2. QED
      BY <1>7, <1>8, <3>1
  <2>4. CASE ~ (i <= a) /\ j <= a
    <3>1. j \in 1 .. a /\ i - a \in 1 .. b /\ u[j] = s[j] /\ u[i] = t[i - a]
      BY <1>5, <1>6, <2>4
    <3>2. QED
      BY <1>7, <1>8, <3>1
  <2>5. QED
    BY <2>1, <2>2, <2>3, <2>4
<1>9. QED
  BY <1>3, <1>4, <1>8 DEF Distinct

(* Taking the first of a queue leaves the others.                           *)
LEMMA TailApart ==
  ASSUME NEW S, NEW s \in Seq(S), s # <<>>, Distinct(s)
  PROVE  /\ Head(s) \in Elements(s) /\ Head(s) \in S
         /\ Tail(s) \in Seq(S) /\ Distinct(Tail(s))
         /\ Elements(Tail(s)) = Elements(s) \ {Head(s)}
<1>1. PICK n \in Nat : n = Len(s) /\ n >= 1 /\ DOMAIN s = 1 .. n
  BY EmptySeq, LenProperties
<1>2. PICK t : t = Tail(s)
  OBVIOUS
<1>3. t \in Seq(S) /\ Len(t) = n - 1 /\ \A i \in 1 .. n - 1 : t[i] = s[i + 1]
  BY <1>1, <1>2
<1>4. DOMAIN t = 1 .. n - 1
  BY <1>3, LenProperties
<1>5. Head(s) = s[1] /\ 1 \in 1 .. n /\ s[1] \in S
  BY <1>1
<1>6. \A i \in 1 .. n - 1 : i + 1 \in 1 .. n /\ i + 1 # 1
  BY <1>1
<1>7. \A i \in 1 .. n : i = 1 \/ (i - 1 \in 1 .. n - 1 /\ (i - 1) + 1 = i)
  BY <1>1
<1>8. Distinct(t)
  <2>1. ASSUME NEW i \in 1 .. n - 1, NEW j \in 1 .. n - 1, t[i] = t[j] PROVE i = j
    <3>1. i + 1 = j + 1
      BY <1>1, <1>3, <1>6, <2>1 DEF Distinct
    <3>2. QED
      BY <3>1
  <2>2. QED
    BY <1>4, <2>1 DEF Distinct
<1>9. ASSUME NEW i \in 1 .. n - 1 PROVE t[i] \in Elements(s) \ {s[1]}
  <2>1. i + 1 \in 1 .. n /\ i + 1 # 1 /\ t[i] = s[i + 1]
    BY <1>3, <1>6
  <2>2. s[i + 1] # s[1]
    BY <1>1, <1>5, <2>1 DEF Distinct
  <2>3. QED
    BY <1>1, <2>1, <2>2 DEF Elements
<1>10. ASSUME NEW i \in 1 .. n, s[i] # s[1] PROVE s[i] \in Elements(t)
  <2>1. i - 1 \in 1 .. n - 1 /\ t[i - 1] = s[i]
    BY <1>3, <1>7, <1>10
  <2>2. QED
    BY <1>4, <2>1 DEF Elements
<1>11. Elements(t) = Elements(s) \ {s[1]}
  <2>1. Elements(t) \subseteq Elements(s) \ {s[1]}
    BY <1>4, <1>9 DEF Elements
  <2>2. Elements(s) \ {s[1]} \subseteq Elements(t)
    BY <1>1, <1>10 DEF Elements
  <2>3. QED
    BY <2>1, <2>2
<1>12. Head(s) \in Elements(s)
  BY <1>1, <1>5 DEF Elements
<1>13. QED
  BY <1>2, <1>3, <1>5, <1>8, <1>11, <1>12

(* The start: every node is counted, the free ones are queued.              *)
LEMMA KahnStarts ==
  ASSUME NEW D, NEW E, NEW T \in [E -> D], IsFiniteSet(E),
         NEW inc \in [D -> Nat], NEW q \in Seq(D), Distinct(q),
         \A n \in D : inc[n] = Cardinality({e \in E : T[e] = n}),
         Elements(q) = FreedOf(D, inc)
  PROVE  Kahn(D, E, T, inc, q, 0)
<1>1. TakenOf(D, inc, q) = {}
  BY DEF TakenOf
<1>2. \A n \in D : Left(E, T, {}, n) = {e \in E : T[e] = n}
  BY DEF Left
<1>3. Cardinality({}) = 0
  BY FS_EmptySet
<1>4. ASSUME NEW C \in SUBSET D, Circular(C, E, T), NEW c \in C, inc[c] = 0 PROVE FALSE
  <2>1. PICK e \in E : T[e] = c
    BY <1>4 DEF Circular
  <2>2. IsFiniteSet({x \in E : T[x] = c}) /\ Cardinality({x \in E : T[x] = c}) = 0
    BY <1>4, FS_Subset
  <2>3. {x \in E : T[x] = c} = {}
    BY <2>2, FS_EmptySet
  <2>4. QED
    BY <2>1, <2>3
<1>5. \A C \in SUBSET D : Circular(C, E, T) => C \cap FreedOf(D, inc) = {}
  BY <1>4 DEF FreedOf
<1>6. \A n \in D : inc[n] = Cardinality(Left(E, T, TakenOf(D, inc, q), n))
  BY <1>1, <1>2
<1>7. QED
  BY <1>1, <1>3, <1>5, <1>6 DEF Kahn

(* A step: the first of the queue is taken, its edges are struck off, and   *)
(* the nodes it frees are queued.                                           *)
LEMMA KahnStrikes ==
  ASSUME NEW D, NEW E, NEW T \in [E -> D], IsFiniteSet(D), IsFiniteSet(E),
         NEW inc, NEW q, NEW vis, Kahn(D, E, T, inc, q, vis), q # <<>>,
         NEW inc2,
         inc2 = [n \in D |-> inc[n] - Cardinality(From(E, T, Head(q), n))],
         NEW freed \in Seq(D), Distinct(freed),
         Elements(freed) = {n \in D : inc[n] # 0 /\ inc2[n] = 0}
  PROVE  Kahn(D, E, T, inc2, Tail(q) \o freed, vis + 1)
<1>1. /\ inc \in [D -> Nat] /\ q \in Seq(D) /\ Distinct(q)
      /\ Elements(q) \subseteq FreedOf(D, inc)
      /\ vis = Cardinality(TakenOf(D, inc, q))
      /\ \A n \in D : inc[n] = Cardinality(Left(E, T, TakenOf(D, inc, q), n))
      /\ \A C \in SUBSET D : Circular(C, E, T) => C \cap FreedOf(D, inc) = {}
  BY DEF Kahn
<1>2. PICK m : m = Head(q)
  OBVIOUS
<1>3. PICK taken : taken = TakenOf(D, inc, q)
  OBVIOUS
<1>4. PICK rest : rest = Tail(q)
  OBVIOUS
<1>5. /\ m \in Elements(q) /\ m \in D /\ rest \in Seq(D) /\ Distinct(rest)
      /\ Elements(rest) = Elements(q) \ {m}
  BY <1>1, <1>2, <1>4, TailApart
<1>6. m \notin taken /\ taken \subseteq D /\ taken \subseteq FreedOf(D, inc)
  BY <1>3, <1>5 DEF TakenOf, FreedOf
<1>7. ASSUME NEW n \in D
      PROVE  /\ inc2[n] \in Nat /\ inc2[n] = Cardinality(Left(E, T, taken \cup {m}, n))
             /\ inc2[n] <= inc[n]
  <2>1. PICK L : L = Left(E, T, taken, n)
    OBVIOUS
  <2>2. PICK F : F = From(E, T, m, n)
    OBVIOUS
  <2>3. PICK R : R = Left(E, T, taken \cup {m}, n)
    OBVIOUS
  <2>4. L = R \cup F /\ R \cap F = {} /\ L \subseteq E /\ R \subseteq E /\ F \subseteq E
    BY <1>6, <2>1, <2>2, <2>3 DEF Left, From
  <2>5. IsFiniteSet(R) /\ IsFiniteSet(F)
    BY <2>4, FS_Subset
  <2>6. Cardinality(R) \in Nat /\ Cardinality(F) \in Nat
    BY <2>5, FS_CardinalityType
  <2>7. Cardinality(L) = Cardinality(R) + Cardinality(F)
    <3>1. Cardinality(R \cup F) = Cardinality(R) + Cardinality(F) - Cardinality(R \cap F)
      BY <2>5, FS_Union
    <3>2. Cardinality(R \cap F) = 0
      BY <2>4, FS_EmptySet
    <3>3. QED
      BY <2>4, <2>6, <3>1, <3>2
  <2>8. inc[n] = Cardinality(L)
    BY <1>1, <1>3, <2>1
  <2>9. inc2[n] = inc[n] - Cardinality(F)
    BY <1>2, <2>2
  <2>10. QED
    BY <2>3, <2>6, <2>7, <2>8, <2>9
<1>8. inc2 \in [D -> Nat]
  BY <1>7
<1>9. PICK new : new = Elements(freed)
  OBVIOUS
<1>10. FreedOf(D, inc2) = FreedOf(D, inc) \cup new /\ new \cap FreedOf(D, inc) = {}
  <2>1. \A n \in D : inc[n] = 0 => inc2[n] = 0
    <3>1. \A n \in D : inc[n] \in Nat
      BY <1>1
    <3>2. QED
      BY <1>7, <3>1
  <2>2. QED
    BY <1>9, <2>1 DEF FreedOf
<1>11. PICK q2 : q2 = rest \o freed
  OBVIOUS
<1>12. q2 \in Seq(D) /\ Elements(q2) = Elements(rest) \cup new
  BY <1>5, <1>9, <1>11, ElementsOfConcat
<1>13. Elements(rest) \cap new = {}
  BY <1>1, <1>5, <1>10
<1>14. Distinct(q2)
  BY <1>5, <1>9, <1>11, <1>13, ConcatDistinct
<1>15. Elements(q2) \subseteq FreedOf(D, inc2)
  BY <1>1, <1>5, <1>10, <1>12
<1>16. TakenOf(D, inc2, q2) = taken \cup {m}
  BY <1>1, <1>3, <1>5, <1>10, <1>12 DEF TakenOf
<1>17. vis + 1 = Cardinality(taken \cup {m})
  <2>1. IsFiniteSet(taken)
    BY <1>6, FS_Subset
  <2>2. QED
    BY <1>1, <1>3, <1>6, <2>1, FS_AddElement
<1>18. ASSUME NEW C \in SUBSET D, Circular(C, E, T), NEW c \in C, inc2[c] = 0 PROVE FALSE
  <2>1. PICK e \in E : e[1] \in C /\ T[e] = c
    BY <1>18 DEF Circular
  <2>2. C \cap FreedOf(D, inc) = {}
    BY <1>1, <1>18
  <2>3. e[1] \notin taken \cup {m}
    BY <1>1, <1>5, <1>6, <2>1, <2>2
  <2>4. e \in Left(E, T, taken \cup {m}, c)
    BY <2>1, <2>3 DEF Left
  <2>5. IsFiniteSet(Left(E, T, taken \cup {m}, c))
    BY FS_Subset DEF Left
  <2>6. Cardinality(Left(E, T, taken \cup {m}, c)) = 0
    BY <1>7, <1>18
  <2>7. QED
    BY <2>4, <2>5, <2>6, FS_EmptySet
<1>19. \A C \in SUBSET D : Circular(C, E, T) => C \cap FreedOf(D, inc2) = {}
  BY <1>18 DEF FreedOf
<1>20. \A n \in D : inc2[n] = Cardinality(Left(E, T, TakenOf(D, inc2, q2), n))
  BY <1>7, <1>16
<1>21. Kahn(D, E, T, inc2, q2, vis + 1)
  BY <1>8, <1>12, <1>14, <1>15, <1>16, <1>17, <1>19, <1>20 DEF Kahn
<1>22. QED
  BY <1>4, <1>11, <1>21

-----------------------------------------------------------------------------
(* The imports of a package as a graph.                                     *)

Target(list) == [e \in Imports(list) |-> TargetOf(list, e)]

(* Identities are unique in a package, so that every import resolves to the *)
(* module read from the file it names.                                      *)
LEMMA TargetsResolve ==
  ASSUME TreeTypes, NEW list, IsPackage(list)
  PROVE  /\ IsFiniteSet(DOMAIN list) /\ IsFiniteSet(Imports(list))
         /\ \A e \in Imports(list) :
              /\ e[1] \in DOMAIN list /\ e[2] \in DOMAIN tree.imports[list[e[1]]]
              /\ e = <<e[1], e[2]>>
              /\ TargetOf(list, e) \in DOMAIN list
              /\ list[TargetOf(list, e)] = tree.imports[list[e[1]]][e[2]]
         /\ \A m \in DOMAIN list : \A k \in DOMAIN tree.imports[list[m]] : <<m, k>> \in Imports(list)
<1>1. PICK n \in Nat : n = Len(list) /\ DOMAIN list = 1 .. n /\ \A i \in 1 .. n : list[i] \in File
  BY LenProperties DEF IsPackage
<1>2. ASSUME NEW m \in 1 .. n
      PROVE  /\ tree.imports[list[m]] \in Seq(File)
             /\ Elements(tree.imports[list[m]]) \subseteq Closure(RootFile)
             /\ IsFiniteSet(DOMAIN tree.imports[list[m]])
  <2>1. list[m] \in File /\ list[m] \in Closure(RootFile)
    BY <1>1 DEF IsPackage, Elements
  <2>2. tree.imports[list[m]] \in Seq(File)
    BY <2>1 DEF TreeTypes
  <2>3. Closed(Closure(RootFile))
    BY ClosureIs, FileAssumption
  <2>4. Targets(list[m]) \subseteq Closure(RootFile)
    BY <2>1, <2>3 DEF Closed
  <2>5. IsFiniteSet(1 .. Len(tree.imports[list[m]]))
    BY <2>2, UpToIs, LenProperties
  <2>6. DOMAIN tree.imports[list[m]] = 1 .. Len(tree.imports[list[m]])
    BY <2>2, LenProperties
  <2>7. QED
    BY <2>2, <2>4, <2>5, <2>6 DEF Targets
<1> DEFINE P(m) == {m} \X DOMAIN tree.imports[list[m]]
           G == [m \in 1 .. n |-> P(m)]
           PP == {P(m) : m \in 1 .. n}
<1>3. Imports(list) = UNION PP
  BY <1>1 DEF Imports, ImportsOf
<1>4. IsFiniteSet(1 .. n)
  BY UpToIs
<1>5. IsFiniteSet(PP)
  <2>1. G \in Surjection(1 .. n, PP)
    BY Fun_IsSurj
  <2> HIDE DEF G, PP
  <2>2. QED
    BY <1>4, <2>1, FS_Surjection
<1>6. \A p \in PP : IsFiniteSet(p)
  <2>1. ASSUME NEW m \in 1 .. n PROVE IsFiniteSet(P(m))
    <3>1. IsFiniteSet({m})
      BY FS_Singleton
    <3>2. IsFiniteSet(DOMAIN tree.imports[list[m]])
      BY <1>2
    <3>3. QED
      BY <3>1, <3>2, FS_Product
  <2>2. QED
    BY <2>1
<1>7. IsFiniteSet(Imports(list))
  <2> HIDE DEF PP
  <2>1. QED
    BY <1>3, <1>5, <1>6, FS_UNION
<1>8. \A m \in 1 .. n : \A k \in DOMAIN tree.imports[list[m]] : <<m, k>> \in Imports(list)
  BY <1>3
<1>9. ASSUME NEW e \in Imports(list)
      PROVE  /\ e[1] \in 1 .. n /\ e[2] \in DOMAIN tree.imports[list[e[1]]]
             /\ e = <<e[1], e[2]>>
             /\ TargetOf(list, e) \in DOMAIN list
             /\ list[TargetOf(list, e)] = tree.imports[list[e[1]]][e[2]]
  <2>1. PICK m \in 1 .. n : e \in {m} \X DOMAIN tree.imports[list[m]]
    BY <1>3
  <2>2. e[1] = m /\ e[2] \in DOMAIN tree.imports[list[m]] /\ e = <<e[1], e[2]>>
    BY <2>1
  <2>3. PICK f : f = tree.imports[list[m]][e[2]]
    OBVIOUS
  <2>4. f \in Closure(RootFile)
    BY <1>2, <2>2, <2>3 DEF Elements
  <2>5. PICK i \in 1 .. n : list[i] = f
    BY <1>1, <2>4 DEF IsPackage, Elements
  <2>6. TargetOf(list, e) = CHOOSE j \in 1 .. n : tree.id[list[j]] = tree.id[f]
    BY <1>1, <2>2, <2>3 DEF TargetOf, Resolve, ImportsOf
  <2>7. PICK t \in 1 .. n : t = TargetOf(list, e) /\ tree.id[list[t]] = tree.id[f]
    BY <2>5, <2>6
  <2>8. t = i
    BY <1>1, <2>5, <2>7 DEF IsPackage
  <2>9. QED
    BY <1>1, <2>2, <2>3, <2>5, <2>7, <2>8
<1>10. QED
  BY <1>1, <1>4, <1>7, <1>8, <1>9

-----------------------------------------------------------------------------
(* Which imports of a module free their target.                             *)

Occurs(s, k, n) == Cardinality({j \in 1 .. k : s[j] = n})

LEMMA OccursGrows ==
  ASSUME NEW K \in Nat, NEW s, NEW n, NEW i \in 0 .. K, NEW k \in 0 .. K, i <= k
  PROVE  /\ Occurs(s, i, n) \in Nat /\ Occurs(s, k, n) \in Nat /\ Occurs(s, i, n) <= Occurs(s, k, n)
         /\ ((i < k /\ s[k] = n) => Occurs(s, i, n) < Occurs(s, k, n))
         /\ ((k \in 1 .. K /\ s[k] = n) => Occurs(s, k, n) # 0)
<1>1. PICK A : A = {j \in 1 .. i : s[j] = n}
  OBVIOUS
<1>2. PICK B : B = {j \in 1 .. k : s[j] = n}
  OBVIOUS
<1>3. IsFiniteSet(1 .. k)
  BY UpToIs
<1>4. B \in SUBSET (1 .. k) /\ A \in SUBSET B
  BY <1>1, <1>2
<1>5. IsFiniteSet(B)
  BY <1>3, <1>4, FS_Subset
<1>6. IsFiniteSet(A) /\ Cardinality(A) <= Cardinality(B) /\ (Cardinality(A) = Cardinality(B) => A = B)
  BY <1>4, <1>5, FS_Subset
<1>7. Cardinality(A) \in Nat /\ Cardinality(B) \in Nat
  BY <1>5, <1>6, FS_CardinalityType
<1>8. (k \in 1 .. K /\ s[k] = n) => k \in B
  BY <1>2
<1>9. i < k => k \notin A
  BY <1>1
<1>10. ASSUME k \in 1 .. K /\ s[k] = n PROVE Cardinality(B) # 0
  BY <1>5, <1>8, <1>10, FS_EmptySet
<1>11. ASSUME i < k /\ s[k] = n PROVE Cardinality(A) < Cardinality(B)
  <2>1. k \in 1 .. K
    BY <1>11
  <2>2. A # B
    BY <1>8, <1>9, <1>11, <2>1
  <2>3. QED
    BY <1>6, <1>7, <2>2
<1>12. Occurs(s, i, n) = Cardinality(A) /\ Occurs(s, k, n) = Cardinality(B)
  BY <1>1, <1>2 DEF Occurs
<1>13. QED
  BY <1>6, <1>7, <1>10, <1>11, <1>12

(* The last occurrence of every target whose count it exhausts, and no      *)
(* other: each such target once.                                            *)
Exhausts(s, inc, k) == Occurs(s, k, s[k]) = inc[s[k]]
Exhausting(s, inc, K) == {k \in 1 .. K : Exhausts(s, inc, k)}

LEMMA LastFrees ==
  ASSUME NEW D, NEW K \in Nat, NEW s \in [1 .. K -> D], NEW inc \in [D -> Nat],
         \A n \in D : Occurs(s, K, n) <= inc[n]
  PROVE  /\ \A k \in Exhausting(s, inc, K) : inc[s[k]] # 0 /\ Occurs(s, K, s[k]) = inc[s[k]]
         /\ \A i, j \in Exhausting(s, inc, K) : s[i] = s[j] => i = j
         /\ \A n \in D : inc[n] # 0 /\ Occurs(s, K, n) = inc[n]
                         => \E k \in Exhausting(s, inc, K) : s[k] = n
<1> DEFINE S == {k \in 1 .. K : Occurs(s, k, s[k]) = inc[s[k]]}
<1>1. ASSUME NEW k \in S PROVE inc[s[k]] # 0 /\ Occurs(s, K, s[k]) = inc[s[k]]
  <2>1. k \in 1 .. K /\ Occurs(s, k, s[k]) = inc[s[k]] /\ s[k] \in D
    BY <1>1
  <2>2. k \in 0 .. K /\ K \in 0 .. K /\ k <= K
    BY <2>1
  <2>3. Occurs(s, k, s[k]) \in Nat /\ Occurs(s, K, s[k]) \in Nat /\ Occurs(s, k, s[k]) <= Occurs(s, K, s[k])
    BY <2>2, OccursGrows
  <2>4. Occurs(s, k, s[k]) # 0
    <3>1. PICK n : n = s[k]
      OBVIOUS
    <3>2. k \in 1 .. K /\ k <= k
      BY <2>1
    <3>3. Occurs(s, k, n) # 0
      BY <2>2, <3>1, <3>2, OccursGrows
    <3>4. QED
      BY <3>1, <3>3
  <2>5. Occurs(s, K, s[k]) <= inc[s[k]]
    BY <2>1
  <2>6. QED
    BY <2>1, <2>3, <2>4, <2>5
<1>2. ASSUME NEW i \in S, NEW j \in S, s[i] = s[j], i < j PROVE FALSE
  <2>1. i \in 0 .. K /\ j \in 0 .. K /\ i <= j
    BY <1>2
  <2>2. Occurs(s, i, s[j]) \in Nat /\ Occurs(s, j, s[j]) \in Nat /\ Occurs(s, i, s[j]) < Occurs(s, j, s[j])
    BY <1>2, <2>1, OccursGrows
  <2>3. Occurs(s, i, s[j]) = inc[s[j]] /\ Occurs(s, j, s[j]) = inc[s[j]]
    BY <1>2
  <2>4. QED
    BY <2>2, <2>3
<1>3. ASSUME NEW i \in S, NEW j \in S, s[i] = s[j] PROVE i = j
  <2>1. i \in Int /\ j \in Int
    OBVIOUS
  <2>2. ~ (i < j) /\ ~ (j < i)
    BY <1>2, <1>3
  <2>3. QED
    BY <2>1, <2>2
<1>4. ASSUME NEW n \in D, inc[n] # 0, Occurs(s, K, n) = inc[n] PROVE \E k \in S : s[k] = n
  <2> DEFINE J == {j \in 1 .. K : s[j] = n}
             After == {x \in 0 .. K : K - x \in J}
  <2>1. J # {}
    BY <1>4, FS_EmptySet DEF Occurs
  <2>2. PICK j : j \in J
    BY <2>1
  <2>3. K - j \in After
    <3>1. K - j \in 0 .. K /\ K - (K - j) = j
      BY <2>2
    <3>2. QED
      BY <2>2, <3>1
  <2>4. After \subseteq Nat /\ After # {}
    BY <2>3
  <2>5. PICK x \in After : \A y \in After : ~(<<y, x>> \in OpToRel(<, Nat))
    BY <2>4, WFMin, NatLessThanWellFounded
  <2>6. PICK k \in 1 .. K : k = K - x /\ s[k] = n
    BY <2>5
  <2>7. ASSUME NEW i \in J PROVE i <= k
    <3>1. SUFFICES ASSUME k < i PROVE FALSE
      OBVIOUS
    <3>2. K - i \in After
      <4>1. K - i \in 0 .. K /\ K - (K - i) = i
        OBVIOUS
      <4>2. QED
        BY <2>7, <4>1
    <3>3. K - i < x /\ K - i \in Nat /\ x \in Nat
      BY <2>6, <3>1
    <3>4. <<K - i, x>> \in OpToRel(<, Nat)
      BY <3>3 DEF OpToRel
    <3>5. QED
      BY <2>5, <3>2, <3>4
  <2>8. J = {i \in 1 .. k : s[i] = n}
    BY <2>6, <2>7
  <2>9. Occurs(s, k, n) = Occurs(s, K, n)
    BY <2>8 DEF Occurs
  <2>10. QED
    BY <1>4, <2>6, <2>9
<1>5. S = Exhausting(s, inc, K)
  BY DEF Exhausting, Exhausts
<1> HIDE DEF S
<1>6. QED
  BY <1>1, <1>3, <1>4, <1>5

-----------------------------------------------------------------------------
(* validate_acyclic_imports on a package.                                   *)

KahnHere == Kahn(DOMAIN modules, Imports(modules), Target(modules), incoming, queue, visited)

(* The verdict is a matter of how many modules were taken.                  *)
KahnInv ==
  outcome \in Verdicts =>
    /\ IsPackage(modules) /\ KahnHere
    /\ outcome # "sorting" => queue = <<>> /\ (outcome = "accepted" <=> visited = Len(modules))

LEMMA SortKahn ==
  ASSUME LoadInv, Sort, ~Duplicates
  PROVE  KahnInv'
<1>1. /\ pending = <<>> /\ modules' = Canonical /\ outcome' = "sorting" /\ visited = 0
      /\ incoming' = [m \in DOMAIN raw |-> Importing(Canonical, m)]
      /\ queue' = InOrder({m \in DOMAIN raw : Importing(Canonical, m) = 0})
      /\ UNCHANGED <<tree, raw, visited>>
  BY DEF Sort, Conclude, LoadInv, NothingSorted
<1>2. IsPackage(Canonical) /\ DOMAIN Canonical = DOMAIN raw /\ TreeTypes
  BY <1>1, CanonicalIsPackage DEF LoadInv, LoadTypes
<1>3. PICK list : list = Canonical
  OBVIOUS
<1>4. PICK D, E, T : D = DOMAIN list /\ E = Imports(list) /\ T = Target(list)
  OBVIOUS
<1>5. IsPackage(list) /\ D = DOMAIN raw
  BY <1>2, <1>3, <1>4
<1>6. /\ IsFiniteSet(E) /\ IsFiniteSet(D) /\ T \in [E -> D]
      /\ \A e \in E : T[e] = TargetOf(list, e)
  BY <1>2, <1>4, <1>5, TargetsResolve DEF Target
<1>7. \A n \in D : Importing(list, n) = Cardinality({e \in E : T[e] = n})
  <2>1. \A n \in D : {e \in E : T[e] = n} = {e \in Imports(list) : TargetOf(list, e) = n}
    BY <1>4, <1>6
  <2>2. QED
    BY <2>1 DEF Importing
<1>8. \A n \in D : Cardinality({e \in E : T[e] = n}) \in Nat
  <2>1. ASSUME NEW n \in D PROVE Cardinality({e \in E : T[e] = n}) \in Nat
    <3>1. IsFiniteSet({e \in E : T[e] = n})
      BY <1>6, FS_Subset
    <3>2. QED
      BY <3>1, FS_CardinalityType
  <2>2. QED
    BY <2>1
<1>9. PICK inc \in [D -> Nat] : inc = incoming' /\ \A n \in D : inc[n] = Cardinality({e \in E : T[e] = n})
  <2>1. incoming' = [n \in D |-> Cardinality({e \in E : T[e] = n})]
    BY <1>1, <1>3, <1>5, <1>7
  <2>2. PICK inc : inc = incoming'
    OBVIOUS
  <2>3. inc \in [D -> Nat] /\ \A n \in D : inc[n] = Cardinality({e \in E : T[e] = n})
    BY <1>8, <2>1, <2>2
  <2>4. QED
    BY <2>2, <2>3
<1>10. PICK free : free = FreedOf(D, inc)
  OBVIOUS
<1>11. PICK q : q = queue'
  OBVIOUS
<1>12. q = InOrder(free)
  <2>1. free = {m \in DOMAIN raw : Importing(Canonical, m) = 0}
    BY <1>3, <1>5, <1>7, <1>9, <1>10 DEF FreedOf
  <2>2. QED
    BY <1>1, <1>11, <2>1
<1>13. free \subseteq D /\ D \subseteq Nat /\ IsFiniteSet(free)
  <2>1. free \in SUBSET D
    BY <1>10 DEF FreedOf
  <2>2. D = 1 .. Len(list) /\ Len(list) \in Nat
    BY <1>4, <1>5, LenProperties DEF IsPackage
  <2>3. IsFiniteSet(free)
    BY <1>6, <2>1, FS_Subset
  <2>4. QED
    BY <2>1, <2>2, <2>3
<1>14. q \in Seq(free) /\ Elements(q) = free /\ Distinct(q)
  BY <1>12, <1>13, InOrderLists
<1>15. q \in Seq(D)
  <2>1. q \in [1 .. Len(q) -> free] /\ Len(q) \in Nat
    BY <1>14, LenProperties
  <2>2. q \in [1 .. Len(q) -> D]
    BY <1>13, <2>1
  <2>3. QED
    BY <2>1, <2>2
<1>16. Kahn(D, E, T, inc, q, 0)
  BY <1>6, <1>9, <1>10, <1>14, <1>15, KahnStarts
<1>17. \A f : Closure(f)' = Closure(f)
  BY <1>1 DEF Closure, Within
<1>18. IsPackage(modules)'
  BY <1>1, <1>3, <1>5, <1>17 DEF IsPackage, Elements, Distinct
<1>19. (DOMAIN modules)' = D /\ Imports(modules)' = E
  BY <1>1, <1>3, <1>4 DEF Imports, ImportsOf
<1>20. Target(modules)' = T
  BY <1>1, <1>3, <1>4 DEF Target, Imports, ImportsOf, TargetOf, Resolve
<1>21. KahnHere'
  BY <1>1, <1>9, <1>11, <1>16, <1>19, <1>20 DEF KahnHere
<1>22. QED
  BY <1>1, <1>18, <1>21 DEF KahnInv

(* What one module's imports strike off, and whom they free.                *)
Freeing(m) == InOrder({k \in DOMAIN Edges(m) : Frees(m, k)})
FreedBy(m) == [k \in DOMAIN Freeing(m) |-> Edges(m)[Freeing(m)[k]]]
StruckBy(m, n) == Struck(m, Len(Edges(m)), n)

LEMMA StrikeFrees ==
  ASSUME TreeTypes, IsPackage(modules), KahnHere, queue # <<>>, NEW m, m = Head(queue),
         NEW D, D = DOMAIN modules, NEW E, E = Imports(modules), NEW T, T = Target(modules)
  PROVE  /\ \A n \in D : StruckBy(m, n) = Cardinality(From(E, T, m, n))
         /\ FreedBy(m) \in Seq(D) /\ Distinct(FreedBy(m))
         /\ Elements(FreedBy(m)) = {n \in D : incoming[n] # 0 /\ incoming[n] - StruckBy(m, n) = 0}
<1>1. D = DOMAIN modules /\ E = Imports(modules) /\ T = Target(modules) /\ m = Head(queue)
  OBVIOUS
<1>2. PICK inc \in [D -> Nat] : inc = incoming
  BY <1>1 DEF KahnHere, Kahn
<1>3. /\ IsFiniteSet(E) /\ IsFiniteSet(D) /\ T \in [E -> D]
      /\ \A e \in E : /\ T[e] = TargetOf(modules, e) /\ e = <<e[1], e[2]>>
                      /\ e[2] \in DOMAIN tree.imports[modules[e[1]]]
      /\ \A h \in D : \A k \in DOMAIN tree.imports[modules[h]] : <<h, k>> \in E
  BY <1>1, TargetsResolve DEF Target
<1>4. PICK taken : taken = TakenOf(D, inc, queue)
  OBVIOUS
<1>5. m \in D /\ m \notin taken
  <2>1. queue \in Seq(D) /\ Distinct(queue)
    BY <1>1 DEF KahnHere, Kahn
  <2>2. m \in Elements(queue) /\ m \in D
    BY <1>1, <2>1, TailApart
  <2>3. QED
    BY <1>4, <2>2 DEF TakenOf
<1>6. \A n \in D : inc[n] = Cardinality(Left(E, T, taken, n))
  BY <1>1, <1>2, <1>4 DEF KahnHere, Kahn
<1>edges. PICK K \in Nat : DOMAIN tree.imports[modules[m]] = 1 .. K
  <2>1. modules[m] \in File
    BY <1>1, <1>5 DEF IsPackage
  <2>2. QED
    BY <2>1, LenProperties DEF TreeTypes
<1>7. PICK s : /\ s = Edges(m) /\ s \in [1 .. K -> D] /\ Len(s) = K /\ s \in Seq(D)
               /\ \A k \in 1 .. K : s[k] = T[<<m, k>>] /\ <<m, k>> \in E
  <2>1. PICK s : s = Edges(m)
    OBVIOUS
  <2>2. s = [k \in 1 .. K |-> TargetOf(modules, <<m, k>>)]
    BY <1>edges, <2>1 DEF Edges, ImportsOf
  <2>3. \A k \in 1 .. K : <<m, k>> \in E
    BY <1>3, <1>5, <1>edges
  <2>4. \A k \in 1 .. K : s[k] = T[<<m, k>>]
    BY <1>3, <2>2, <2>3
  <2>5. s \in [1 .. K -> D]
    BY <1>3, <2>2, <2>3, <2>4
  <2>6. s \in Seq(D) /\ Len(s) = K
    BY <2>5
  <2>7. QED
    BY <2>1, <2>3, <2>4, <2>5, <2>6
<1>8. \A k, n : Struck(m, k, n) = Occurs(s, k, n)
  BY <1>7 DEF Struck, Occurs
<1>9. ASSUME NEW n \in D
      PROVE  Occurs(s, K, n) = Cardinality(From(E, T, m, n)) /\ Occurs(s, K, n) <= inc[n]
  <2> DEFINE J == {j \in 1 .. K : s[j] = n}
             F == From(E, T, m, n)
             g == [j \in J |-> <<m, j>>]
  <2>1. IsFiniteSet(J)
    BY UpToIs, FS_Subset
  <2>2. g \in [J -> F]
    BY <1>7 DEF From
  <2>3. \A i, j \in J : g[i] = g[j] => i = j
    OBVIOUS
  <2>4. \A e \in F : \E j \in J : g[j] = e
    <3>1. ASSUME NEW e \in F PROVE \E j \in J : g[j] = e
      <4>1. e \in E /\ e[1] = m /\ T[e] = n
        BY DEF From
      <4>2. e = <<m, e[2]>> /\ e[2] \in 1 .. K
        BY <1>3, <1>edges, <4>1
      <4>3. PICK j \in 1 .. K : j = e[2] /\ e = <<m, j>>
        BY <4>2
      <4>4. s[j] = n
        BY <1>7, <4>1, <4>3
      <4>5. QED
        BY <4>3, <4>4
    <3>2. QED
      BY <3>1
  <2>5. Cardinality(F) = Cardinality(J)
    <3> HIDE DEF g, J, F
    <3>1. QED
      BY <2>1, <2>2, <2>3, <2>4, Renamed
  <2>6. F \subseteq Left(E, T, taken, n) /\ IsFiniteSet(Left(E, T, taken, n))
    BY <1>3, <1>5, FS_Subset DEF From, Left
  <2>7. Cardinality(F) <= Cardinality(Left(E, T, taken, n))
    <3> HIDE DEF F
    <3>1. QED
      BY <2>6, FS_Subset
  <2>8. Occurs(s, K, n) = Cardinality(J)
    BY DEF Occurs
  <2>9. QED
    BY <1>6, <2>5, <2>7, <2>8
<1>10. PICK S : S = Exhausting(s, inc, K)
  OBVIOUS
<1>11. S = {k \in DOMAIN Edges(m) : Frees(m, k)}
  <2>1. DOMAIN Edges(m) = 1 .. K
    BY <1>7
  <2>2. \A k : Frees(m, k) <=> Occurs(s, k, s[k]) = inc[s[k]]
    BY <1>2, <1>7, <1>8 DEF Frees
  <2>3. QED
    BY <1>10, <2>1, <2>2 DEF Exhausting, Exhausts
<1>12. /\ \A k \in S : k \in 1 .. K /\ s[k] \in D
       /\ \A k \in S : inc[s[k]] # 0 /\ Occurs(s, K, s[k]) = inc[s[k]]
       /\ \A i, j \in S : s[i] = s[j] => i = j
       /\ \A n \in D : inc[n] # 0 /\ Occurs(s, K, n) = inc[n] => \E k \in S : s[k] = n
  <2>1. s \in [1 .. K -> D]
    BY <1>7
  <2>2. \A n \in D : Occurs(s, K, n) <= inc[n]
    BY <1>9
  <2>3. \A k \in S : k \in 1 .. K /\ s[k] \in D
    BY <1>10, <2>1 DEF Exhausting
  <2>4. /\ \A k \in S : inc[s[k]] # 0 /\ Occurs(s, K, s[k]) = inc[s[k]]
        /\ \A i, j \in S : s[i] = s[j] => i = j
        /\ \A n \in D : inc[n] # 0 /\ Occurs(s, K, n) = inc[n] => \E k \in S : s[k] = n
    <3>1. K \in Nat
      OBVIOUS
    <3>2. inc \in [D -> Nat]
      OBVIOUS
    <3>3. QED
      BY ONLY <1>10, <2>1, <2>2, <3>1, <3>2, LastFrees
  <2>5. QED
    BY <2>3, <2>4
<1>13. PICK l : l = InOrder(S)
  OBVIOUS
<1>14. l \in Seq(S) /\ Elements(l) = S /\ Distinct(l)
  <2>1. S \subseteq 1 .. K
    BY <1>12
  <2>2. S \subseteq Nat
    BY <2>1
  <2>3. IsFiniteSet(1 .. K)
    BY UpToIs
  <2>4. IsFiniteSet(S)
    BY <2>1, <2>3, FS_Subset
  <2>5. QED
    BY <1>13, <2>2, <2>4, InOrderLists
<1>15. PICK f : f = [k \in DOMAIN l |-> s[l[k]]]
  OBVIOUS
<1>16. PICK L \in Nat : DOMAIN l = 1 .. L /\ \A k \in 1 .. L : l[k] \in S
  BY <1>14, LenProperties
<1>17. DOMAIN f = 1 .. L /\ \A k \in 1 .. L : f[k] = s[l[k]] /\ f[k] \in D
  BY <1>12, <1>15, <1>16
<1>18. f \in Seq(D)
  <2>1. f \in [1 .. L -> D]
    BY <1>15, <1>16, <1>17
  <2>2. QED
    BY <2>1
<1>19. Distinct(f)
  <2>1. ASSUME NEW i \in 1 .. L, NEW j \in 1 .. L, f[i] = f[j] PROVE i = j
    <3>1. l[i] \in S /\ l[j] \in S /\ s[l[i]] = s[l[j]]
      BY <1>16, <1>17, <2>1
    <3>2. l[i] = l[j]
      BY <1>12, <3>1
    <3>3. QED
      BY <1>14, <1>16, <3>2 DEF Distinct
  <2>2. QED
    BY <1>17, <2>1 DEF Distinct
<1>20. Elements(f) = {n \in D : inc[n] # 0 /\ inc[n] = Occurs(s, K, n)}
  <2>1. ASSUME NEW k \in 1 .. L PROVE f[k] \in {n \in D : inc[n] # 0 /\ inc[n] = Occurs(s, K, n)}
    <3>1. l[k] \in S /\ f[k] = s[l[k]] /\ f[k] \in D
      BY <1>16, <1>17
    <3>2. inc[f[k]] # 0 /\ Occurs(s, K, f[k]) = inc[f[k]]
      BY <1>12, <3>1
    <3>3. QED
      BY <3>1, <3>2
  <2>2. ASSUME NEW n \in D, inc[n] # 0, inc[n] = Occurs(s, K, n) PROVE n \in Elements(f)
    <3>1. PICK k \in S : s[k] = n
      BY <1>12, <2>2
    <3>2. PICK i \in 1 .. L : l[i] = k
      BY <1>14, <1>16 DEF Elements
    <3>3. QED
      BY <1>17, <3>1, <3>2 DEF Elements
  <2>3. Elements(f) \subseteq {n \in D : inc[n] # 0 /\ inc[n] = Occurs(s, K, n)}
    BY <1>17, <2>1 DEF Elements
  <2>4. QED
    BY <2>2, <2>3
<1>21. \A n \in D : (inc[n] = Occurs(s, K, n)) <=> (inc[n] - Occurs(s, K, n) = 0)
  <2>1. \A n \in D : inc[n] \in Nat /\ Occurs(s, K, n) \in Nat
    <3>1. K \in 0 .. K /\ K <= K
      OBVIOUS
    <3>2. QED
      BY <3>1, OccursGrows
  <2>2. QED
    BY <2>1
<1>22. Elements(f) = {n \in D : inc[n] # 0 /\ inc[n] - Occurs(s, K, n) = 0}
  BY <1>20, <1>21
<1>23. \A n : StruckBy(m, n) = Occurs(s, K, n)
  BY <1>7, <1>8 DEF StruckBy
<1>24. f = FreedBy(m)
  <2>1. l = Freeing(m)
    BY <1>11, <1>13 DEF Freeing
  <2>2. QED
    BY <1>7, <1>15, <2>1 DEF FreedBy
<1>25. QED
  BY <1>2, <1>9, <1>18, <1>19, <1>22, <1>23, <1>24

LEMMA StrikeKahn ==
  ASSUME TreeTypes, KahnInv, Strike
  PROVE  KahnInv'
<1>1. PICK m, D, E, T : m = Head(queue) /\ D = DOMAIN modules /\ E = Imports(modules) /\ T = Target(modules)
  OBVIOUS
<1>2. /\ outcome = "sorting" /\ queue # <<>> /\ visited' = visited + 1
      /\ incoming' = [n \in DOMAIN incoming |-> incoming[n] - StruckBy(m, n)]
      /\ queue' = Tail(queue) \o FreedBy(m)
      /\ UNCHANGED <<tree, modules, outcome>>
  BY <1>1 DEF Strike, FreedBy, Freeing, StruckBy
<1>3. IsPackage(modules) /\ KahnHere
  BY <1>2 DEF KahnInv, Verdicts
<1>4. /\ \A n \in D : StruckBy(m, n) = Cardinality(From(E, T, m, n))
      /\ FreedBy(m) \in Seq(D) /\ Distinct(FreedBy(m))
      /\ Elements(FreedBy(m)) = {n \in D : incoming[n] # 0 /\ incoming[n] - StruckBy(m, n) = 0}
  BY <1>1, <1>2, <1>3, StrikeFrees
<1>5. PICK inc, q, vis, inc2 : inc = incoming /\ q = queue /\ vis = visited /\ inc2 = incoming'
  OBVIOUS
<1>6. PICK freed : freed = FreedBy(m)
  OBVIOUS
<1>7. Kahn(D, E, T, inc, q, vis)
  BY <1>1, <1>3, <1>5 DEF KahnHere
<1>8. IsFiniteSet(D) /\ IsFiniteSet(E) /\ T \in [E -> D]
  BY <1>1, <1>3, TargetsResolve DEF Target
<1>9. inc2 = [n \in D |-> inc[n] - Cardinality(From(E, T, Head(q), n))]
  <2>1. DOMAIN incoming = D
    BY <1>5, <1>7 DEF Kahn
  <2>2. \A n \in D : StruckBy(m, n) = Cardinality(From(E, T, Head(q), n))
    BY <1>1, <1>4, <1>5
  <2>3. QED
    BY <1>2, <1>5, <2>1, <2>2
<1>10. Elements(freed) = {n \in D : inc[n] # 0 /\ inc2[n] = 0}
  <2>1. \A n \in D : inc2[n] = inc[n] - StruckBy(m, n)
    BY <1>1, <1>4, <1>5, <1>9
  <2>2. QED
    BY <1>4, <1>5, <1>6, <2>1
<1>11. Kahn(D, E, T, inc2, Tail(q) \o freed, vis + 1)
  <2>1. q # <<>> /\ freed \in Seq(D) /\ Distinct(freed)
    BY <1>2, <1>4, <1>5, <1>6
  <2>2. QED
    BY <1>7, <1>8, <1>9, <1>10, <2>1, KahnStrikes
<1>12. \A f : Closure(f)' = Closure(f)
  BY <1>2 DEF Closure, Within
<1>13. IsPackage(modules)'
  BY <1>2, <1>3, <1>12 DEF IsPackage, Elements, Distinct
<1>14. (DOMAIN modules)' = D /\ Imports(modules)' = E
  BY <1>1, <1>2 DEF Imports, ImportsOf
<1>15. Target(modules)' = T
  BY <1>1, <1>2 DEF Target, Imports, ImportsOf, TargetOf, Resolve
<1>16. queue' = Tail(q) \o freed /\ visited' = vis + 1
  BY <1>2, <1>5, <1>6
<1>17. KahnHere'
  BY <1>5, <1>11, <1>14, <1>15, <1>16 DEF KahnHere
<1>18. QED
  BY <1>2, <1>13, <1>17 DEF KahnInv

LEMMA KahnStep ==
  ASSUME LoadInv, KahnInv, [Next]_vars
  PROVE  KahnInv'
<1>1. TreeTypes
  BY DEF LoadInv, LoadTypes
<1>2. CASE Strike
  BY <1>1, <1>2, StrikeKahn
<1>3. CASE Sort /\ ~Duplicates
  BY <1>3, SortKahn
<1>4. ASSUME UNCHANGED <<tree, modules, incoming, queue, visited>>, outcome \in Verdicts,
             outcome' # "sorting" => queue = <<>> /\ (outcome' = "accepted" <=> visited = Len(modules))
      PROVE  KahnInv'
  <2>1. IsPackage(modules) /\ KahnHere
    BY <1>4 DEF KahnInv
  <2>2. \A f : Closure(f)' = Closure(f)
    BY <1>4 DEF Closure, Within
  <2>3. IsPackage(modules)'
    BY <1>4, <2>1, <2>2 DEF IsPackage, Elements, Distinct
  <2>4. Imports(modules)' = Imports(modules)
    BY <1>4 DEF Imports, ImportsOf
  <2>5. Target(modules)' = Target(modules)
    BY <1>4 DEF Target, Imports, ImportsOf, TargetOf, Resolve
  <2>6. KahnHere'
    BY <1>4, <2>1, <2>4, <2>5 DEF KahnHere
  <2>7. QED
    BY <1>4, <2>3, <2>6 DEF KahnInv
<1>5. ASSUME outcome' \notin Verdicts PROVE KahnInv'
  BY <1>5 DEF KahnInv
<1>6. CASE SkipSeen \/ Read \/ ReadFails \/ (Sort /\ Duplicates)
  BY <1>5, <1>6 DEF SkipSeen, Read, ReadFails, Sort, Conclude, Loading, Verdicts
<1>7. CASE Decide
  <2>1. /\ outcome = "sorting" /\ queue = <<>>
        /\ outcome' = IF visited = Len(modules) THEN "accepted" ELSE "import-cycle"
        /\ UNCHANGED <<tree, modules, incoming, queue, visited>>
    BY <1>7 DEF Decide, Conclude
  <2>2. outcome \in Verdicts
    BY <2>1 DEF Verdicts
  <2>3. QED
    BY <1>4, <2>1, <2>2
<1>8. CASE UNCHANGED vars \/ \E file \in MayVanish : Vanish(file)
  <2>1. UNCHANGED <<tree, modules, incoming, queue, visited, outcome>>
    BY <1>8 DEF vars, Vanish
  <2>2. CASE outcome \in Verdicts
    <3>1. outcome' # "sorting" => queue = <<>> /\ (outcome' = "accepted" <=> visited = Len(modules))
      BY <2>1, <2>2 DEF KahnInv
    <3>2. QED
      BY <1>4, <2>1, <2>2, <3>1
  <2>3. CASE outcome \notin Verdicts
    BY <1>5, <2>1, <2>3
  <2>4. QED
    BY <2>2, <2>3
<1>9. CASE Sort /\ Duplicates
  BY <1>6, <1>9
<1>10. QED
  BY <1>2, <1>3, <1>6, <1>7, <1>8 DEF Next, Step

-----------------------------------------------------------------------------
(* What the verdict means for the files.                                    *)

(* A file on a circle of imports is in a circular set of modules.           *)
LEMMA CircleIsCircular ==
  ASSUME TreeTypes, IsPackage(modules), NEW f \in Closure(RootFile), OnCycle(f)
  PROVE  \E C \in SUBSET DOMAIN modules : C # {} /\ Circular(C, Imports(modules), Target(modules))
<1>1. PICK g \in Targets(f) : f \in Closure(g)
  BY DEF OnCycle, Targets
<1>2. f \in File /\ g \in Closure(RootFile) /\ g \in File /\ RootFile \in File
  <2>1. /\ Closed(Closure(RootFile)) /\ Closure(RootFile) \subseteq File
    BY ClosureIs, FileAssumption
  <2>2. QED
    BY <1>1, <2>1, FileAssumption DEF Closed
<1>3. /\ g \in Closure(g) /\ f \in Closure(f) /\ Closed(Closure(g)) /\ Closure(g) \subseteq File
      /\ Closure(g) \subseteq Closure(RootFile)
  BY <1>2, ClosureIs, ClosurePaths
<1> DEFINE Circle == {h \in Closure(g) : f \in Closure(h)}
           C == {m \in DOMAIN modules : modules[m] \in Circle}
<1>4. ASSUME NEW h \in Circle PROVE \E p \in Circle : h \in Targets(p)
  <2>1. CASE h = g
    <3>1. f \in Circle
      BY <1>1, <1>3
    <3>2. QED
      BY <1>1, <2>1, <3>1
  <2>2. CASE h # g
    <3>1. PICK p \in Closure(g) : h \in Targets(p)
      BY <1>2, <2>2, ClosurePaths
    <3>2. p \in File /\ Closed(Closure(p)) /\ p \in Closure(p)
      BY <1>3, <3>1, ClosureIs
    <3>3. h \in Closure(p)
      BY <3>1, <3>2 DEF Closed
    <3>4. Closure(h) \subseteq Closure(p)
      BY <3>2, <3>3, ClosurePaths
    <3>5. QED
      BY <3>1, <3>4
  <2>3. QED
    BY <2>1, <2>2
<1>5. g \in Circle
  BY <1>1, <1>3
<1>6. \A h \in Circle : \E m \in C : modules[m] = h
  <2>1. \A h \in Circle : \E m \in DOMAIN modules : modules[m] = h
    BY <1>3 DEF IsPackage, Elements
  <2>2. QED
    BY <2>1
<1>7. /\ \A m \in C : m \in DOMAIN modules /\ modules[m] \in Circle
      /\ C \in SUBSET DOMAIN modules
  OBVIOUS
<1> HIDE DEF C, Circle
<1>8. ASSUME NEW c \in C
      PROVE  \E e \in Imports(modules) : e[1] \in C /\ Target(modules)[e] = c
  <2>1. PICK p \in Circle : modules[c] \in Targets(p)
    BY <1>4, <1>7
  <2>2. PICK a \in C : modules[a] = p
    BY <1>6
  <2>3. PICK k \in DOMAIN tree.imports[modules[a]] : tree.imports[modules[a]][k] = modules[c]
    BY <2>1, <2>2 DEF Targets, Elements
  <2>4. PICK e : e = <<a, k>>
    OBVIOUS
  <2>5. e \in Imports(modules) /\ e[1] = a /\ e[2] = k
    BY <1>7, <2>3, <2>4, TargetsResolve
  <2>6. /\ TargetOf(modules, e) \in DOMAIN modules
        /\ modules[TargetOf(modules, e)] = modules[c]
    BY <2>3, <2>5, TargetsResolve
  <2>7. TargetOf(modules, e) = c
    BY <1>7, <2>6 DEF IsPackage, Distinct
  <2>8. QED
    BY <2>5, <2>7 DEF Target
<1>9. Circular(C, Imports(modules), Target(modules))
  BY <1>8 DEF Circular
<1>10. C # {}
  BY <1>5, <1>6
<1>11. QED
  BY <1>7, <1>9, <1>10

(* In a set of files each of which is imported from the set, some file is   *)
(* on a circle of imports: any importer of one that reaches as many files   *)
(* as any.                                                                  *)
LEMMA CircularHasCircle ==
  ASSUME TreeTypes, NEW R \in SUBSET File, R # {},
         \A f \in R : \E p \in R : f \in Targets(p)
  PROVE  \E f \in R : OnCycle(f)
<1> DEFINE N == Cardinality(File)
           size(f) == Cardinality(Closure(f))
           Short == {x \in 0 .. N : \E f \in R : x = N - size(f)}
<1>1. N \in Nat
  BY FileAssumption, FS_CardinalityType
<1>2. ASSUME NEW f \in File
      PROVE  IsFiniteSet(Closure(f)) /\ size(f) \in Nat /\ size(f) <= N
  <2>1. Closure(f) \in SUBSET File
    BY ClosureIs
  <2>2. QED
    BY <2>1, FileAssumption, FS_Subset, FS_CardinalityType
<1> HIDE DEF size, N
<1>3. \A f \in R : N - size(f) \in Short
  BY <1>1, <1>2
<1>4. Short \subseteq Nat /\ Short # {}
  BY <1>1, <1>3
<1>5. PICK x \in Short : \A y \in Short : ~(<<y, x>> \in OpToRel(<, Nat))
  BY <1>4, WFMin, NatLessThanWellFounded
<1>6. PICK f \in R : x = N - size(f)
  OBVIOUS
<1>7. ASSUME NEW p \in R PROVE size(p) <= size(f)
  <2>1. SUFFICES ASSUME size(f) < size(p) PROVE FALSE
    BY <1>2
  <2>2. N - size(p) \in Short /\ N - size(p) < x /\ N - size(p) \in Nat /\ x \in Nat
    BY <1>1, <1>2, <1>3, <1>4, <1>6, <2>1
  <2>3. <<N - size(p), x>> \in OpToRel(<, Nat)
    BY <2>2 DEF OpToRel
  <2>4. QED
    BY <1>5, <2>2, <2>3
<1>8. PICK p \in R : f \in Targets(p)
  BY <1>6
<1>9. p \in Closure(p) /\ Closed(Closure(p))
  BY ClosureIs
<1>10. f \in Closure(p)
  BY <1>8, <1>9 DEF Closed
<1>11. Closure(f) \subseteq Closure(p)
  BY <1>10, ClosurePaths
<1>12. Closure(f) = Closure(p)
  <2>1. size(p) <= size(f)
    BY <1>7
  <2>2. size(f) <= size(p) /\ (size(p) = size(f) => Closure(p) = Closure(f))
    BY <1>2, <1>11, FS_Subset DEF size
  <2>3. QED
    BY <1>2, <2>1, <2>2
<1>13. OnCycle(p)
  BY <1>8, <1>9, <1>12 DEF OnCycle, Targets
<1>14. QED
  BY <1>13

LEMMA VerdictIsTrue ==
  ASSUME TreeTypes, KahnInv
  PROVE  AcceptsAcyclic
<1>1. PICK D, E, T, inc, q, vis :
        /\ D = DOMAIN modules /\ E = Imports(modules) /\ T = Target(modules)
        /\ inc = incoming /\ q = queue /\ vis = visited
  OBVIOUS
<1>2. ASSUME outcome \in {"accepted", "import-cycle"}
      PROVE  /\ IsPackage(modules) /\ Kahn(D, E, T, inc, q, vis)
             /\ TakenOf(D, inc, q) = FreedOf(D, inc)
             /\ vis = Cardinality(FreedOf(D, inc))
             /\ outcome = "accepted" <=> FreedOf(D, inc) = D
             /\ IsFiniteSet(D) /\ IsFiniteSet(E) /\ T \in [E -> D]
  <2>1. /\ IsPackage(modules) /\ KahnHere /\ q = <<>>
        /\ outcome = "accepted" <=> vis = Len(modules)
    BY <1>1, <1>2 DEF KahnInv, Verdicts
  <2>2. Kahn(D, E, T, inc, q, vis)
    BY <1>1, <2>1 DEF KahnHere
  <2>3. TakenOf(D, inc, q) = FreedOf(D, inc)
    BY <2>1 DEF TakenOf, Elements
  <2>4. vis = Cardinality(FreedOf(D, inc))
    BY <2>2, <2>3 DEF Kahn
  <2>5. IsFiniteSet(D) /\ IsFiniteSet(E) /\ T \in [E -> D]
    BY <1>1, <2>1, TargetsResolve DEF Target
  <2>6. Cardinality(D) = Len(modules)
    <3>1. PICK n \in Nat : n = Len(modules) /\ D = 1 .. n
      BY <1>1, <2>1, LenProperties DEF IsPackage
    <3>2. QED
      BY <3>1, UpToIs
  <2>7. FreedOf(D, inc) \in SUBSET D
    BY DEF FreedOf
  <2>8. Cardinality(D) = Cardinality(FreedOf(D, inc)) => FreedOf(D, inc) = D
    BY <2>5, <2>7, FS_Subset
  <2>9. QED
    BY <2>1, <2>2, <2>3, <2>4, <2>5, <2>6, <2>8
<1>3. ASSUME outcome = "accepted", NEW f \in Closure(RootFile), OnCycle(f)
      PROVE  FALSE
  <2>1. IsPackage(modules) /\ Kahn(D, E, T, inc, q, vis) /\ FreedOf(D, inc) = D
    BY <1>2, <1>3
  <2>2. PICK C \in SUBSET DOMAIN modules : C # {} /\ Circular(C, Imports(modules), Target(modules))
    BY <1>3, <2>1, CircleIsCircular
  <2>3. C \cap D = {} /\ C \subseteq D
    BY <1>1, <2>1, <2>2 DEF Kahn
  <2>4. QED
    BY <2>2, <2>3
<1>4. ASSUME outcome = "import-cycle"
      PROVE  \E f \in Closure(RootFile) : OnCycle(f)
  <2>1. /\ IsPackage(modules) /\ Kahn(D, E, T, inc, q, vis) /\ TakenOf(D, inc, q) = FreedOf(D, inc)
        /\ FreedOf(D, inc) # D /\ IsFiniteSet(E) /\ T \in [E -> D]
    BY <1>2, <1>4
  <2> DEFINE Rest == D \ FreedOf(D, inc)
             R == {modules[n] : n \in Rest}
  <2>2. Rest # {}
    BY <2>1 DEF FreedOf
  <2>3. R # {} /\ R \subseteq Closure(RootFile)
    BY <1>1, <2>1, <2>2 DEF IsPackage, Elements
  <2>4. R \subseteq File
    BY <2>3, ClosureIs, FileAssumption
  <2>5. ASSUME NEW n \in Rest PROVE \E p \in R : modules[n] \in Targets(p)
    <3>1. n \in D /\ inc[n] # 0
      BY DEF FreedOf
    <3>2. Cardinality(Left(E, T, FreedOf(D, inc), n)) # 0
      BY <2>1, <3>1 DEF Kahn
    <3>3. PICK e \in E : e[1] \notin FreedOf(D, inc) /\ T[e] = n
      <4>1. Left(E, T, FreedOf(D, inc), n) # {}
        BY <3>2, FS_EmptySet
      <4>2. QED
        BY <4>1 DEF Left
    <3>4. /\ e[1] \in D /\ e[2] \in DOMAIN tree.imports[modules[e[1]]]
          /\ T[e] = TargetOf(modules, e)
          /\ modules[TargetOf(modules, e)] = tree.imports[modules[e[1]]][e[2]]
      BY <1>1, <2>1, TargetsResolve DEF Target
    <3>5. modules[e[1]] \in R
      BY <3>3, <3>4
    <3>6. modules[n] \in Targets(modules[e[1]])
      BY <3>3, <3>4 DEF Targets, Elements
    <3>7. QED
      BY <3>5, <3>6
  <2>6. \A f \in R : \E p \in R : f \in Targets(p)
    BY <2>5
  <2> HIDE DEF R
  <2>7. PICK f \in R : OnCycle(f)
    BY <2>3, <2>4, <2>6, CircularHasCircle
  <2>8. QED
    BY <2>3, <2>7
<1>5. QED
  BY <1>3, <1>4 DEF AcceptsAcyclic

LEMMA LoadIsRightFollows ==
  ASSUME LoadInv, KahnInv
  PROVE  LoadIsRight
<1>1. TreeTypes /\ RootFile \in File
  BY FileAssumption DEF LoadInv, LoadTypes
<1>2. pending \in Seq(File) /\ raw \in Seq(File) /\ seen \in SUBSET File
  <2>1. Closure(RootFile) \subseteq File
    BY <1>1, ClosureIs
  <2>2. QED
    BY <2>1 DEF LoadInv, LoadTypes, Walked
<1>3. modules \in Seq(File) /\ incoming \in [DOMAIN modules -> Nat] /\ queue \in Seq(DOMAIN modules)
  <2>1. CASE outcome \in Verdicts
    BY <2>1 DEF KahnInv, IsPackage, KahnHere, Kahn
  <2>2. CASE outcome \notin Verdicts
    <3>1. modules = <<>> /\ incoming = <<>> /\ queue = <<>>
      BY <2>2 DEF LoadInv, LoadTypes, NothingSorted
    <3>2. QED
      BY <3>1
  <2>3. QED
    BY <2>1, <2>2
<1>4. TypeOK
  BY <1>2, <1>3 DEF TypeOK
<1>5. ASSUME outcome \in Verdicts
      PROVE  /\ Elements(modules) = Closure(RootFile)
             /\ Len(modules) = Cardinality(Closure(RootFile))
             /\ modules[1] = RootFile
             /\ \A m \in 2 .. Len(modules) - 1 : tree.id[modules[m]] < tree.id[modules[m + 1]]
  <2>1. IsPackage(modules)
    BY <1>5 DEF KahnInv
  <2>2. PICK n \in Nat : n = Len(modules) /\ DOMAIN modules = 1 .. n
    BY <2>1, LenProperties DEF IsPackage
  <2>3. PICK s, C : s = modules /\ C = Closure(RootFile)
    OBVIOUS
  <2>4. s \in [1 .. n -> C]
    BY <2>1, <2>2, <2>3 DEF IsPackage, Elements
  <2>5. \A i, j \in 1 .. n : s[i] = s[j] => i = j
    BY <2>1, <2>2, <2>3 DEF IsPackage, Distinct
  <2>6. \A f \in C : \E i \in 1 .. n : s[i] = f
    BY <2>1, <2>2, <2>3 DEF IsPackage, Elements
  <2>7. IsFiniteSet(1 .. n) /\ Cardinality(1 .. n) = n
    BY UpToIs
  <2>8. Cardinality(C) = n
    BY <2>4, <2>5, <2>6, <2>7, Renamed
  <2>9. QED
    BY <2>1, <2>2, <2>3, <2>8 DEF IsPackage
<1>6. LoadsClosure
  BY <1>4, <1>5 DEF LoadsClosure, Verdicts
<1>7. QED
  BY <1>1, <1>6, VerdictIsTrue DEF LoadIsRight

(* The package that is compiled is the root file and what it reaches by     *)
(* imports, each file once and in an order of its own; it is refused as     *)
(* circular if and only if a file imports itself through others: for any    *)
(* number of files, any imports and any files that vanish meanwhile.        *)
THEOREM PackageLoadedRight == CommandSpec => []LoadIsRight
<1>1. CommandInit => LoadInv /\ KahnInv
  <2> SUFFICES ASSUME CommandInit PROVE LoadInv /\ KahnInv
    OBVIOUS
  <2>1. Init
    BY DEF CommandInit
  <2>2. outcome = "loading"
    BY <2>1 DEF Init
  <2>3. QED
    BY <2>1, <2>2, InitLoad DEF KahnInv, Verdicts
<1>2. (LoadInv /\ KahnInv) /\ [CommandNext]_<<vars, files>> => (LoadInv /\ KahnInv)'
  <2> SUFFICES ASSUME LoadInv, KahnInv, [CommandNext]_<<vars, files>> PROVE LoadInv' /\ KahnInv'
    OBVIOUS
  <2>1. [Next]_vars
    BY DEF CommandNext, Load, Write
  <2>2. QED
    BY <2>1, LoadStep, KahnStep
<1>3. LoadInv /\ KahnInv => LoadIsRight
  BY LoadIsRightFollows
<1>4. QED
  BY <1>1, <1>2, <1>3, PTL DEF CommandSpec

-----------------------------------------------------------------------------
(* The output file.                                                         *)

Phases == {"idle", "opening", "writing", "killed", "failed", "done"}

FileTypes ==
  /\ pid \in [Process -> Pid \cup {None}]
  /\ pc \in [Process -> Phases]
  /\ DOMAIN temporary = Pid

(* A process number belongs to one live process at a time.                  *)
NumbersApart ==
  \A p \in Process : Live(p) =>
    /\ pid[p] \in Pid
    /\ \A q \in Process : Live(q) /\ pid[q] = pid[p] => q = p

(* The temporary file of a process that writes holds its pieces only, so    *)
(* nothing that a killed process left under the same number.                *)
OwnPieces ==
  \A p \in Process : pc[p] = "writing" =>
    /\ temporary[pid[p]] \in Seq({p})
    /\ Len(temporary[pid[p]]) <= Pieces

FileInv == FileTypes /\ NumbersApart /\ OwnPieces /\ TargetIsWhole

(* In a file of one process, its pieces are all there is.                   *)
LEMMA OwnPiecesCount ==
  ASSUME FileInv, NEW p \in Process, pc[p] = "writing"
  PROVE  /\ Cardinality(WrittenBy(p)) = Len(temporary[pid[p]])
         /\ ~Pending(p) => temporary[pid[p]] = Whole(p)
<1> DEFINE t == temporary[pid[p]]
<1>1. t \in Seq({p}) /\ Len(t) <= Pieces
  BY DEF FileInv, OwnPieces
<1>2. t \in [1 .. Len(t) -> {p}] /\ Len(t) \in Nat
  BY <1>1
<1>3. WrittenBy(p) = 1 .. Len(t)
  BY <1>2 DEF WrittenBy, Name
<1>4. Cardinality(WrittenBy(p)) = Len(t)
  BY <1>2, <1>3, FS_Interval
<1>5. ASSUME ~Pending(p) PROVE t = Whole(p)
  <2>1. Len(t) = Pieces
    BY <1>1, <1>2, <1>4, <1>5, PiecesAssumption DEF Pending
  <2>2. QED
    BY <1>2, <2>1 DEF Whole
<1>6. QED
  BY <1>4, <1>5

LEMMA WriteStepKeepsFiles ==
  ASSUME FileInv, NEW p \in Process, WriteStep(p)
  PROVE  FileInv'
<1> USE DEF FileInv, FileTypes, Phases
<1>1. CASE \E number \in Pid : Start(p, number)
  <2>1. PICK number \in Pid : Start(p, number)
    BY <1>1
  <2>2. FileTypes'
    BY <2>1 DEF Start, End
  <2>3. \A q \in Process \ {p} : pc'[q] = pc[q] /\ pid'[q] = pid[q]
    BY <2>1 DEF Start, End
  <2>4. pc'[p] = "opening" /\ pid'[p] = number /\ pc[p] = "idle"
    BY <2>1 DEF Start, End
  <2>5. NumbersApart'
    BY <2>1, <2>3, <2>4 DEF NumbersApart, Start, Live
  <2>6. OwnPieces'
    BY <2>1, <2>3, <2>4 DEF OwnPieces, Start
  <2>7. TargetIsWhole'
    BY <2>1, <2>3, <2>4 DEF TargetIsWhole, Start, Whole
  <2>8. QED
    BY <2>2, <2>5, <2>6, <2>7
<1>2. ASSUME \/ Kill(p)
             \/ WriteFails(p)
             \/ RenameFails(p)
      PROVE  FileInv'
  <2>1. /\ pc' = [pc EXCEPT ![p] = IF Kill(p) THEN "killed" ELSE "failed"]
        /\ UNCHANGED <<pid, target>> /\ Live(p)
    BY <1>2 DEF Kill, WriteFails, RenameFails, End, Live, Pending
  <2>2. \A q \in Process : pc'[q] = pc[q] \/ q = p
    BY <2>1
  <2>3. ~Live(p)' /\ pc'[p] # "done" /\ pc[p] # "done"
    BY <2>1 DEF Live
  <2>4. FileTypes'
    BY <1>2, <2>1 DEF Kill, WriteFails, RenameFails
  <2>5. NumbersApart'
    BY <2>1, <2>2, <2>3 DEF NumbersApart, Live
  <2>6. \A q \in Process \ {p} : Live(q) => temporary'[pid[q]] = temporary[pid[q]]
    BY <1>2, <2>1 DEF Kill, WriteFails, RenameFails, NumbersApart, Name
  <2>7. OwnPieces'
    BY <2>1, <2>2, <2>3, <2>6 DEF OwnPieces, Live
  <2>8. TargetIsWhole'
    BY <2>1, <2>2, <2>3 DEF TargetIsWhole, Whole
  <2>9. QED
    BY <2>4, <2>5, <2>7, <2>8
<1>3. CASE Open(p)
  <2>1. /\ pc[p] = "opening" /\ pc'[p] = "writing" /\ temporary'[pid[p]] = <<>>
        /\ UNCHANGED <<pid, target>> /\ pid[p] \in Pid
    BY <1>3 DEF Open, End, Name, NumbersApart, Live
  <2>2. \A q \in Process \ {p} : /\ pc'[q] = pc[q]
                                 /\ Live(q) => temporary'[pid[q]] = temporary[pid[q]]
    BY <1>3, <2>1 DEF Open, End, Name, NumbersApart, Live
  <2>3. FileTypes'
    BY <1>3 DEF Open, End
  <2>4. NumbersApart'
    BY <2>1, <2>2 DEF NumbersApart, Live
  <2>5. ASSUME NEW q \in Process, pc'[q] = "writing"
        PROVE  temporary'[pid'[q]] \in Seq({q}) /\ Len(temporary'[pid'[q]]) <= Pieces
    <3>1. CASE q = p
      <4>1. temporary'[pid'[p]] = <<>>
        BY <2>1
      <4>2. <<>> \in Seq({p}) /\ Len(<<>>) <= Pieces
        BY PiecesAssumption
      <4>3. QED
        BY <3>1, <4>1, <4>2
    <3>2. CASE q # p
      BY <2>1, <2>2, <2>5, <3>2 DEF OwnPieces, Live
    <3>3. QED
      BY <3>1, <3>2
  <2>6. TargetIsWhole'
    BY <2>1, <2>2 DEF TargetIsWhole, Whole
  <2>7. OwnPieces'
    BY <2>5 DEF OwnPieces
  <2>8. QED
    BY <2>3, <2>4, <2>6, <2>7
<1>4. CASE WritePiece(p)
  <2>1. /\ pc[p] = "writing" /\ temporary'[pid[p]] = Append(temporary[pid[p]], p)
        /\ UNCHANGED <<pid, pc, target>> /\ pid[p] \in Pid
    BY <1>4 DEF WritePiece, Pending, Name, NumbersApart, Live
  <2>2. \A q \in Process \ {p} : Live(q) => temporary'[pid[q]] = temporary[pid[q]]
    BY <1>4, <2>1 DEF WritePiece, Name, NumbersApart, Live
  <2>3. Len(temporary[pid[p]]) < Pieces
    BY <1>4, <2>1, OwnPiecesCount DEF WritePiece, Pending
  <2>4. /\ temporary'[pid[p]] \in Seq({p})
        /\ Len(temporary'[pid[p]]) <= Pieces
    BY <2>1, <2>3, PiecesAssumption DEF OwnPieces
  <2>5. FileTypes'
    BY <1>4, <2>1 DEF WritePiece
  <2>6. NumbersApart'
    BY <2>1 DEF NumbersApart, Live
  <2>7. OwnPieces'
    BY <2>1, <2>2, <2>4 DEF OwnPieces, Live
  <2>8. TargetIsWhole'
    BY <2>1 DEF TargetIsWhole
  <2>9. QED
    BY <2>5, <2>6, <2>7, <2>8
<1>5. CASE Rename(p)
  <2>1. /\ pc[p] = "writing" /\ pc'[p] = "done" /\ target' = temporary[pid[p]]
        /\ pid' = pid /\ ~Pending(p) /\ pid[p] \in Pid
    BY <1>5 DEF Rename, End, Name, NumbersApart, Live
  <2>2. \A q \in Process \ {p} : /\ pc'[q] = pc[q]
                                 /\ Live(q) => temporary'[pid[q]] = temporary[pid[q]]
    BY <1>5, <2>1 DEF Rename, End, Name, NumbersApart, Live
  <2>3. FileTypes'
    BY <1>5 DEF Rename, End
  <2>4. NumbersApart'
    BY <2>1, <2>2 DEF NumbersApart, Live
  <2>5. OwnPieces'
    BY <2>1, <2>2 DEF OwnPieces, Live
  <2>6. TargetIsWhole'
    BY <2>1, OwnPiecesCount DEF TargetIsWhole, Whole
  <2>7. QED
    BY <2>3, <2>4, <2>5, <2>6
<1>6. QED
  BY <1>1, <1>2, <1>3, <1>4, <1>5 DEF WriteStep

(* Whoever reads the output of write_atomic finds what was there at first   *)
(* or the whole artifact of one process, wherever processes are killed,     *)
(* disks fill up and process numbers are given away again.                  *)
THEOREM OutputNeverTorn == CommandSpec => []TargetIsWhole
<1>1. CommandInit => FileInv
  BY DEF CommandInit, WriteInit, FileInv, FileTypes, Phases, NumbersApart, OwnPieces, TargetIsWhole, Live
<1>2. FileInv /\ [CommandNext]_<<vars, files>> => FileInv'
  <2> SUFFICES ASSUME FileInv, [CommandNext]_<<vars, files>> PROVE FileInv'
    OBVIOUS
  <2>1. CASE UNCHANGED files
    BY <2>1 DEF files, FileInv, FileTypes, NumbersApart, OwnPieces, TargetIsWhole, Live, Whole
  <2>2. CASE \E p \in Process : Write(p)
    BY <2>2, WriteStepKeepsFiles DEF Write
  <2>3. QED
    BY <2>1, <2>2 DEF CommandNext, Load
<1>3. QED
  BY <1>1, <1>2, PTL DEF CommandSpec, FileInv
=============================================================================
