---------------------- MODULE DiverseTransaction_proofs ----------------------
(***************************************************************************)
(* Theorems about DiverseTransaction, for every number of sessions, any    *)
(* attempts, gap, horizon and budgets, and any grammars.                   *)
(***************************************************************************)
EXTENDS DiverseTransaction, FiniteSetTheorems, FunctionTheorems, SequenceTheorems,
        WellFoundedInduction, TLAPS

-----------------------------------------------------------------------------
(* The selections of one rule, in their order.                              *)

(* e lists the members of a set of positions in ascending order.           *)
Lists(e, n, S) ==
  /\ e \in [1 .. n -> S]
  /\ \A j, k \in 1 .. n : j < k => e[j] < e[k]
  /\ \A i \in S : \E k \in 1 .. n : e[k] = i

UpTo(S, i) == {j \in S : j <= i}

LEMMA Interval ==
  ASSUME NEW n \in Nat
  PROVE  IsFiniteSet(1 .. n) /\ Cardinality(1 .. n) = n
<1>1. 1 \in Int /\ n \in Int
  OBVIOUS
<1>2. IsFiniteSet(1 .. n) /\ Cardinality(1 .. n) = IF 1 > n THEN 0 ELSE n - 1 + 1
  BY <1>1, FS_Interval
<1>3. QED
  BY <1>2

LEMMA Renamed ==
  ASSUME NEW S, NEW T, IsFiniteSet(S), NEW f \in [S -> T],
         \A x, y \in S : f[x] = f[y] => x = y,
         \A t \in T : \E x \in S : f[x] = t
  PROVE  IsFiniteSet(T) /\ Cardinality(T) = Cardinality(S)
<1>1. f \in Surjection(S, T) /\ f \in Injection(S, T)
  BY Fun_IsInj, Fun_IsSurj
<1>2. QED
  BY <1>1, FS_Surjection

(* The k-th member of a listed set is the one with k members up to it.     *)
LEMMA Ranks ==
  ASSUME NEW S \in SUBSET Nat, NEW n \in Nat, NEW e, Lists(e, n, S)
  PROVE  /\ IsFiniteSet(S) /\ Cardinality(S) = n
         /\ \A k \in 1 .. n : Cardinality(UpTo(S, e[k])) = k
<1>1. /\ e \in [1 .. n -> S]
      /\ \A j \in 1 .. n : e[j] \in S /\ e[j] \in Nat
      /\ \A j, k \in 1 .. n : j < k => e[j] < e[k]
      /\ \A j, k \in 1 .. n : e[j] = e[k] => j = k
      /\ \A i \in S : \E k \in 1 .. n : e[k] = i
  <2>1. /\ e \in [1 .. n -> S]
        /\ \A j, k \in 1 .. n : j < k => e[j] < e[k]
        /\ \A i \in S : \E k \in 1 .. n : e[k] = i
    BY DEF Lists
  <2>2. \A j \in 1 .. n : e[j] \in S /\ e[j] \in Nat
    BY <2>1
  <2>3. ASSUME NEW j \in 1 .. n, NEW k \in 1 .. n, e[j] = e[k] PROVE j = k
    <3>1. ~ (e[j] < e[k]) /\ ~ (e[k] < e[j])
      BY <2>2, <2>3
    <3>2. ~ (j < k) /\ ~ (k < j)
      BY <2>1, <3>1
    <3>3. QED
      BY <3>2
  <2>4. QED
    BY <2>1, <2>2, <2>3
<1>2. IsFiniteSet(1 .. n) /\ Cardinality(1 .. n) = n
  BY Interval
<1>3. IsFiniteSet(S) /\ Cardinality(S) = n
  BY <1>1, <1>2, Renamed
<1>4. ASSUME NEW k \in 1 .. n PROVE Cardinality(UpTo(S, e[k])) = k
  <2> DEFINE first == [j \in 1 .. k |-> e[j]]
  <2>1. IsFiniteSet(1 .. k) /\ Cardinality(1 .. k) = k
    BY Interval
  <2>2. ASSUME NEW j \in 1 .. k PROVE e[j] \in S /\ e[j] <= e[k]
    <3>1. j \in 1 .. n /\ (j < k \/ j = k)
      OBVIOUS
    <3>2. QED
      BY <1>1, <3>1
  <2>3. first \in [1 .. k -> UpTo(S, e[k])]
    BY <2>2 DEF UpTo
  <2>4. \A x, y \in 1 .. k : first[x] = first[y] => x = y
    BY <1>1
  <2>5. ASSUME NEW t \in UpTo(S, e[k]) PROVE \E j \in 1 .. k : first[j] = t
    <3>1. PICK j \in 1 .. n : e[j] = t
      BY <1>1 DEF UpTo
    <3>2. ~ (k < j)
      <4>1. t <= e[k]
        BY DEF UpTo
      <4>2. ~ (e[k] < e[j])
        BY <1>1, <3>1, <4>1
      <4>3. QED
        BY <1>1, <4>2
    <3>3. j \in 1 .. k
      BY <3>2
    <3>4. QED
      BY <3>1, <3>3
  <2> HIDE DEF first
  <2>6. QED
    BY <2>1, <2>3, <2>4, <2>5, Renamed
<1>5. QED
  BY <1>3, <1>4

(* Every set of positions can be listed.                                   *)
LEMMA Listed ==
  ASSUME NEW m \in Nat, NEW S \in SUBSET (1 .. m)
  PROVE  \E n \in Nat : \E e : Lists(e, n, S)
<1> DEFINE n == Cardinality(S)
           rank == [i \in S |-> Cardinality(UpTo(S, i))]
<1>1. IsFiniteSet(S) /\ n \in Nat
  BY Interval, FS_Subset, FS_CardinalityType
<1>2. ASSUME NEW i \in S
      PROVE  i \in Nat /\ IsFiniteSet(UpTo(S, i)) /\ Cardinality(UpTo(S, i)) \in 1 .. n
  <2>1. UpTo(S, i) \in SUBSET S /\ i \in UpTo(S, i)
    BY DEF UpTo
  <2>2. IsFiniteSet(UpTo(S, i)) /\ Cardinality(UpTo(S, i)) <= n
    BY <1>1, <2>1, FS_Subset
  <2>3. Cardinality(UpTo(S, i)) \in Nat /\ Cardinality(UpTo(S, i)) # 0
    BY <2>1, <2>2, FS_CardinalityType, FS_EmptySet
  <2>4. QED
    BY <1>1, <2>2, <2>3
<1>3. ASSUME NEW i \in S, NEW j \in S, i < j
      PROVE  Cardinality(UpTo(S, i)) < Cardinality(UpTo(S, j))
  <2>1. UpTo(S, i) \in SUBSET UpTo(S, j) /\ j \in UpTo(S, j) /\ j \notin UpTo(S, i)
    <3>1. i \in Nat /\ j \in Nat /\ \A h \in S : h \in Nat
      OBVIOUS
    <3>2. \A h \in UpTo(S, i) : h \in UpTo(S, j)
      BY <1>3, <3>1 DEF UpTo
    <3>3. j \in UpTo(S, j) /\ j \notin UpTo(S, i)
      BY <1>3, <3>1 DEF UpTo
    <3>4. QED
      BY <3>2, <3>3
  <2>2. /\ Cardinality(UpTo(S, i)) <= Cardinality(UpTo(S, j))
        /\ Cardinality(UpTo(S, j)) = Cardinality(UpTo(S, i)) => UpTo(S, j) = UpTo(S, i)
    BY <1>2, <2>1, FS_Subset
  <2>3. Cardinality(UpTo(S, i)) \in Nat /\ Cardinality(UpTo(S, j)) \in Nat
    BY <1>1, <1>2
  <2>4. QED
    BY <2>1, <2>2, <2>3
<1>4. rank \in [S -> 1 .. n] /\ \A i \in S : rank[i] = Cardinality(UpTo(S, i))
  BY <1>2
<1> HIDE DEF rank
<1>5. \A i, j \in S : rank[i] = rank[j] => i = j
  BY <1>1, <1>3, <1>4
<1>6. \A k \in 1 .. n : \E i \in S : rank[i] = k
  <2>1. rank \in Injection(S, 1 .. n)
    BY <1>4, <1>5, Fun_IsInj
  <2>2. IsFiniteSet(1 .. n) /\ Cardinality(1 .. n) = n
    BY <1>1, Interval
  <2>3. rank \in Surjection(S, 1 .. n)
    BY <2>1, <2>2, FS_Injection
  <2>4. QED
    BY <2>3 DEF Surjection
<1> DEFINE e == [k \in 1 .. n |-> CHOOSE i \in S : rank[i] = k]
<1>7. \A k \in 1 .. n : e[k] \in S /\ rank[e[k]] = k
  BY <1>6
<1>8. e \in [1 .. n -> S]
  BY <1>7
<1> HIDE DEF e
<1>9. ASSUME NEW j \in 1 .. n, NEW k \in 1 .. n, j < k PROVE e[j] < e[k]
  <2>1. rank[e[j]] = j /\ rank[e[k]] = k /\ e[j] \in S /\ e[k] \in S
    BY <1>7
  <2>2. e[j] \in Nat /\ e[k] \in Nat
    BY <1>2, <2>1
  <2>3. ~ (e[k] < e[j])
    <3>1. CASE e[k] < e[j]
      <4>1. rank[e[k]] < rank[e[j]]
        BY <1>3, <1>4, <2>1, <3>1
      <4>2. QED
        BY <1>9, <2>1, <4>1
    <3>2. QED
      BY <3>1
  <2>4. e[k] # e[j]
    BY <1>9, <2>1
  <2>5. QED
    BY <2>2, <2>3, <2>4
<1>10. ASSUME NEW i \in S PROVE \E k \in 1 .. n : e[k] = i
  BY <1>4, <1>5, <1>7
<1>11. Lists(e, n, S)
  BY <1>8, <1>9, <1>10 DEF Lists
<1>12. QED
  BY <1>1, <1>11

Mine(r, made) == {i \in 1 .. Len(made) : made[i].rule = r}

LEMMA OfListed ==
  ASSUME NEW made \in Seq(Selection), NEW r, NEW n \in Nat, NEW e, Lists(e, n, Mine(r, made))
  PROVE  /\ Of(r, made) = [k \in 1 .. n |-> made[e[k]].production]
         /\ Of(r, made) \in Seq(Production) /\ Len(Of(r, made)) = n
<1> DEFINE S == Mine(r, made)
           Nth(k) == CHOOSE i \in S : Cardinality({j \in S : j <= i}) = k
<1>1. S = {i \in DOMAIN made : made[i].rule = r} /\ S \in SUBSET Nat
      /\ S \subseteq 1 .. Len(made)
  BY DEF Mine
<1>2. Of(r, made) = [k \in 1 .. Cardinality(S) |-> made[Nth(k)].production]
  BY <1>1 DEF Of
<1>3. /\ Cardinality(S) = n /\ e \in [1 .. n -> S]
      /\ \A k \in 1 .. n : Cardinality(UpTo(S, e[k])) = k
      /\ \A i \in S : \E k \in 1 .. n : e[k] = i
  <2>1. Lists(e, n, S)
    OBVIOUS
  <2> HIDE DEF S
  <2>2. /\ Cardinality(S) = n /\ \A k \in 1 .. n : Cardinality(UpTo(S, e[k])) = k
    BY <1>1, <2>1, Ranks
  <2>3. QED
    BY <2>1, <2>2 DEF Lists
<1>4. \A k \in 1 .. n : Nth(k) = e[k]
  <2> HIDE DEF S
  <2>1. ASSUME NEW k \in 1 .. n, NEW i \in S, Cardinality({j \in S : j <= i}) = k PROVE i = e[k]
    BY <1>3, <2>1 DEF UpTo
  <2>2. \A k \in 1 .. n : e[k] \in S /\ Cardinality({j \in S : j <= e[k]}) = k
    BY <1>3 DEF UpTo
  <2>3. QED
    BY <2>1, <2>2
<1> HIDE DEF S, Nth
<1>5. Of(r, made) = [k \in 1 .. n |-> made[e[k]].production]
  BY <1>2, <1>3, <1>4
<1>6. \A k \in 1 .. n : made[e[k]].production \in Production
  <2>1. \A k \in 1 .. n : e[k] \in 1 .. Len(made)
    BY <1>1, <1>3
  <2>2. \A i \in 1 .. Len(made) : made[i] \in Selection
    OBVIOUS
  <2>3. QED
    BY <2>1, <2>2 DEF Selection
<1>7. QED
  BY <1>5, <1>6

(* Filtering selections distributes over concatenation.                    *)
LEMMA OfConcat ==
  ASSUME NEW a \in Seq(Selection), NEW b \in Seq(Selection), NEW r
  PROVE  /\ Of(r, a \o b) = Of(r, a) \o Of(r, b)
         /\ Of(r, a) \in Seq(Production) /\ Of(r, b) \in Seq(Production)
<1>1. Len(a) \in Nat /\ Len(b) \in Nat
  OBVIOUS
<1>2a. PICK n \in Nat : \E e : Lists(e, n, Mine(r, a))
  BY <1>1, Listed DEF Mine
<1>2. PICK e : Lists(e, n, Mine(r, a))
  BY <1>2a
<1>3a. PICK m \in Nat : \E f : Lists(f, m, Mine(r, b))
  BY <1>1, Listed DEF Mine
<1>3. PICK f : Lists(f, m, Mine(r, b))
  BY <1>3a
<1>4. /\ e \in [1 .. n -> 1 .. Len(a)] /\ f \in [1 .. m -> 1 .. Len(b)]
      /\ \A k \in 1 .. n : a[e[k]].rule = r
      /\ \A k \in 1 .. m : b[f[k]].rule = r
  BY <1>2, <1>3 DEF Lists, Mine
<1>5. /\ a \o b \in Seq(Selection) /\ Len(a \o b) = Len(a) + Len(b)
      /\ \A i \in 1 .. Len(a) : (a \o b)[i] = a[i]
      /\ \A i \in 1 .. Len(b) : (a \o b)[Len(a) + i] = b[i]
  BY <1>1
<1> DEFINE g == [k \in 1 .. n + m |-> IF k <= n THEN e[k] ELSE Len(a) + f[k - n]]
<1>6. /\ \A k \in 1 .. n : k \in 1 .. n + m /\ g[k] = e[k]
      /\ \A k \in 1 .. m : n + k \in 1 .. n + m /\ g[n + k] = Len(a) + f[k]
      /\ \A k \in 1 .. n + m : k \in 1 .. n \/ (k - n \in 1 .. m /\ k = n + (k - n))
      /\ DOMAIN g = 1 .. n + m
  OBVIOUS
<1>7. Lists(g, n + m, Mine(r, a \o b))
  <2> HIDE DEF g
  <2>1. ASSUME NEW k \in 1 .. n PROVE g[k] \in Mine(r, a \o b) /\ g[k] \in 1 .. Len(a)
    BY <1>1, <1>4, <1>5, <1>6 DEF Mine
  <2>2. ASSUME NEW k \in 1 .. m
        PROVE  g[n + k] \in Mine(r, a \o b) /\ g[n + k] \in Len(a) + 1 .. Len(a) + Len(b)
    <3>1. g[n + k] = Len(a) + f[k] /\ f[k] \in 1 .. Len(b) /\ b[f[k]].rule = r
      BY <1>4, <1>6
    <3>2. (a \o b)[Len(a) + f[k]] = b[f[k]]
      BY <1>5, <3>1
    <3>3. Len(a) + f[k] \in 1 .. Len(a) + Len(b) /\ Len(a) + f[k] \in Len(a) + 1 .. Len(a) + Len(b)
      BY <1>1, <3>1
    <3>4. QED
      BY <1>5, <3>1, <3>2, <3>3 DEF Mine
  <2>3. \A k \in 1 .. n + m : g[k] \in Mine(r, a \o b)
    BY <1>6, <2>1, <2>2
  <2>4. g \in [1 .. n + m -> Mine(r, a \o b)]
    <3>1. g = [k \in 1 .. n + m |-> g[k]]
      BY DEF g
    <3>2. QED
      BY <2>3, <3>1
  <2>5. ASSUME NEW j \in 1 .. n + m, NEW k \in 1 .. n + m, j < k PROVE g[j] < g[k]
    <3>1. CASE j \in 1 .. n /\ k \in 1 .. n
      BY <1>2, <1>6, <2>5, <3>1 DEF Lists
    <3>2. CASE j \in 1 .. n /\ k - n \in 1 .. m
      <4>1. g[j] \in 1 .. Len(a) /\ g[n + (k - n)] \in Len(a) + 1 .. Len(a) + Len(b)
        BY <2>1, <2>2, <3>2
      <4>2. n + (k - n) = k
        OBVIOUS
      <4>3. QED
        BY <1>1, <4>1, <4>2
    <3>3. CASE j - n \in 1 .. m /\ k - n \in 1 .. m
      <4>1. f[j - n] < f[k - n]
        <5>1. j - n < k - n
          BY <2>5
        <5>2. QED
          BY <1>3, <3>3, <5>1 DEF Lists
      <4>2. g[n + (j - n)] = Len(a) + f[j - n] /\ g[n + (k - n)] = Len(a) + f[k - n]
            /\ f[j - n] \in 1 .. Len(b) /\ f[k - n] \in 1 .. Len(b)
            /\ n + (j - n) = j /\ n + (k - n) = k
        BY <1>4, <1>6, <3>3
      <4>3. QED
        BY <1>1, <4>1, <4>2
    <3>4. CASE j - n \in 1 .. m /\ k \in 1 .. n
      BY <2>5, <3>4
    <3>5. QED
      BY <1>6, <3>1, <3>2, <3>3, <3>4
  <2>6. ASSUME NEW i \in Mine(r, a \o b) PROVE \E k \in 1 .. n + m : g[k] = i
    <3>1. CASE i \in 1 .. Len(a)
      <4>1. i \in Mine(r, a)
        BY <1>5, <3>1 DEF Mine
      <4>2. PICK k \in 1 .. n : e[k] = i
        BY <1>2, <4>1 DEF Lists
      <4>3. QED
        BY <1>6, <4>2
    <3>2. CASE i \notin 1 .. Len(a)
      <4>1. i - Len(a) \in 1 .. Len(b) /\ i = Len(a) + (i - Len(a))
        BY <1>1, <1>5, <3>2 DEF Mine
      <4>2. i - Len(a) \in Mine(r, b)
        BY <1>5, <4>1 DEF Mine
      <4>3. PICK k \in 1 .. m : f[k] = i - Len(a)
        BY <1>3, <4>2 DEF Lists
      <4>4. QED
        BY <1>6, <4>1, <4>3
    <3>3. QED
      BY <3>1, <3>2
  <2>7. QED
    BY <2>4, <2>5, <2>6 DEF Lists
<1>8. /\ Of(r, a) = [k \in 1 .. n |-> a[e[k]].production]
      /\ Of(r, a) \in Seq(Production) /\ Len(Of(r, a)) = n
  BY <1>2, OfListed
<1>9. /\ Of(r, b) = [k \in 1 .. m |-> b[f[k]].production]
      /\ Of(r, b) \in Seq(Production) /\ Len(Of(r, b)) = m
  BY <1>3, OfListed
<1>10. /\ Of(r, a \o b) = [k \in 1 .. n + m |-> (a \o b)[g[k]].production]
       /\ Of(r, a \o b) \in Seq(Production) /\ Len(Of(r, a \o b)) = n + m
  <2> HIDE DEF g
  <2>1. n + m \in Nat
    OBVIOUS
  <2>2. QED
    BY <1>5, <1>7, <2>1, OfListed
<1> HIDE DEF g
<1>11. /\ Of(r, a) \o Of(r, b) \in Seq(Production) /\ Len(Of(r, a) \o Of(r, b)) = n + m
       /\ \A k \in 1 .. n : (Of(r, a) \o Of(r, b))[k] = Of(r, a)[k]
       /\ \A k \in 1 .. m : (Of(r, a) \o Of(r, b))[n + k] = Of(r, b)[k]
  BY <1>8, <1>9
<1>12. ASSUME NEW k \in 1 .. n + m PROVE Of(r, a \o b)[k] = (Of(r, a) \o Of(r, b))[k]
  <2>1. CASE k \in 1 .. n
    BY <1>4, <1>5, <1>6, <1>8, <1>10, <1>11, <2>1
  <2>2. CASE k - n \in 1 .. m /\ k = n + (k - n)
    <3>1. Of(r, a \o b)[k] = (a \o b)[g[k]].production
      BY <1>10
    <3>2. g[k] = Len(a) + f[k - n]
      BY <1>6, <2>2
    <3>3. (a \o b)[Len(a) + f[k - n]] = b[f[k - n]]
      BY <1>4, <1>5, <2>2
    <3>4. (Of(r, a) \o Of(r, b))[n + (k - n)] = Of(r, b)[k - n]
      BY <1>11, <2>2
    <3>5. Of(r, b)[k - n] = b[f[k - n]].production
      BY <1>9, <2>2
    <3>6. QED
      BY <2>2, <3>1, <3>2, <3>3, <3>4, <3>5
  <2>3. QED
    BY <1>6, <2>1, <2>2
<1>13. Of(r, a \o b) = Of(r, a) \o Of(r, b)
  <2> DEFINE x == Of(r, a \o b)
             y == Of(r, a) \o Of(r, b)
  <2>1. x \in Seq(Production) /\ y \in Seq(Production) /\ Len(x) = Len(y) /\ Len(x) = n + m
        /\ \A k \in 1 .. n + m : x[k] = y[k]
    BY <1>10, <1>11, <1>12
  <2> HIDE DEF x, y
  <2>2. x = y
    BY <2>1, SeqEqual
  <2>3. QED
    BY <2>2 DEF x, y
<1>14. QED
  BY <1>8, <1>9, <1>13

-----------------------------------------------------------------------------
(* What remembering only the last selections leaves visible.                *)

LEMMA LastOfIs ==
  ASSUME NEW X, NEW s \in Seq(X), NEW n \in Nat
  PROVE  /\ LastOf(s, n) \in Seq(X)
         /\ Len(LastOf(s, n)) = IF Len(s) <= n THEN Len(s) ELSE n
         /\ \A i \in 1 .. Len(LastOf(s, n)) :
              LastOf(s, n)[i] = s[Len(s) - Len(LastOf(s, n)) + i]
<1>1. CASE Len(s) <= n
  BY <1>1 DEF LastOf
<1>2. CASE ~ (Len(s) <= n)
  <2> DEFINE t == SubSeq(s, Len(s) - n + 1, Len(s))
  <2>1. t \in Seq(X) /\ Len(t) = n /\ \A i \in 1 .. n : t[i] = s[Len(s) - n + i]
    BY <1>2
  <2>2. LastOf(s, n) = t
    BY <1>2 DEF LastOf
  <2>3. QED
    BY <1>2, <2>1, <2>2
<1>3. QED
  BY <1>1, <1>2

(* b is what is left of a when older entries are forgotten.                *)
Ends(b, a) == Len(b) <= Len(a) /\ \A i \in 1 .. Len(b) : b[i] = a[Len(a) - Len(b) + i]

(* The last n entries with what came after them end the whole.             *)
LEMMA KeptEnds ==
  ASSUME NEW X, NEW s \in Seq(X), NEW t \in Seq(X), NEW n \in Nat
  PROVE  /\ Ends(LastOf(s, n) \o t, s \o t)
         /\ Len(LastOf(s, n) \o t) >= n \/ LastOf(s, n) \o t = s \o t
<1> DEFINE l == LastOf(s, n)
<1>1. /\ l \in Seq(X) /\ Len(l) = IF Len(s) <= n THEN Len(s) ELSE n
      /\ \A i \in 1 .. Len(l) : l[i] = s[Len(s) - Len(l) + i]
      /\ Len(s) <= n => l = s
  BY LastOfIs DEF LastOf
<1> HIDE DEF l
<1>2. /\ Len(s) \in Nat /\ Len(t) \in Nat /\ Len(l) \in Nat /\ Len(l) <= Len(s)
      /\ Len(l \o t) = Len(l) + Len(t) /\ Len(s \o t) = Len(s) + Len(t)
  <2>1. l \in Seq(X)
    BY <1>1
  <2>2. Len(s) \in Nat /\ Len(t) \in Nat /\ Len(l) \in Nat
    BY <2>1
  <2>3. Len(l) <= Len(s)
    BY <1>1, <2>2
  <2>4. Len(l \o t) = Len(l) + Len(t) /\ Len(s \o t) = Len(s) + Len(t)
    BY <2>1
  <2>5. QED
    BY <2>2, <2>3, <2>4
<1>3. ASSUME NEW i \in 1 .. Len(l) + Len(t)
      PROVE  (l \o t)[i] = (s \o t)[Len(s) - Len(l) + i]
  <2>1. CASE i \in 1 .. Len(l)
    <3>1. (l \o t)[i] = l[i]
      BY <1>1, <2>1
    <3>2. l[i] = s[Len(s) - Len(l) + i]
      BY <1>1, <2>1
    <3>3. Len(s) - Len(l) + i \in 1 .. Len(s)
      BY <1>2, <2>1
    <3>4. (s \o t)[Len(s) - Len(l) + i] = s[Len(s) - Len(l) + i]
      BY <3>3
    <3>5. QED
      BY <3>1, <3>2, <3>4
  <2>2. CASE i \in Len(l) + 1 .. Len(l) + Len(t)
    <3>1. i - Len(l) \in 1 .. Len(t) /\ (l \o t)[i] = t[i - Len(l)]
      BY <1>1, <1>2, <2>2
    <3> DEFINE j == Len(s) - Len(l) + i
    <3>2. j \in Len(s) + 1 .. Len(s) + Len(t) /\ j - Len(s) = i - Len(l)
      BY <1>2, <2>2
    <3> HIDE DEF j
    <3>3. (s \o t)[j] = t[j - Len(s)]
      BY <1>2, <3>2
    <3>4. QED
      BY <3>1, <3>2, <3>3 DEF j
  <2>3. QED
    BY <1>2, <2>1, <2>2
<1>4. Ends(l \o t, s \o t)
  <2>1. Len(s \o t) - Len(l \o t) = Len(s) - Len(l)
    BY <1>2
  <2>2. QED
    BY <1>2, <1>3, <2>1 DEF Ends
<1>5. Len(l \o t) >= n \/ l \o t = s \o t
  BY <1>1, <1>2
<1>6. QED
  BY <1>4, <1>5 DEF l

LEMMA LastOfEnd ==
  ASSUME NEW X, NEW a \in Seq(X), NEW b \in Seq(X), Ends(b, a), NEW m \in Nat,
         Len(b) >= m \/ b = a
  PROVE  LastOf(b, m) = LastOf(a, m)
<1>1. CASE b = a
  BY <1>1
<1>2. CASE Len(b) >= m
  <2> DEFINE x == LastOf(a, m)
             y == LastOf(b, m)
  <2>1. /\ Len(a) \in Nat /\ Len(b) \in Nat /\ m <= Len(b) /\ Len(b) <= Len(a)
        /\ \A i \in 1 .. Len(b) : b[i] = a[Len(a) - Len(b) + i]
    BY <1>2 DEF Ends
  <2>2. x \in Seq(X) /\ Len(x) = m /\ \A i \in 1 .. m : x[i] = a[Len(a) - m + i]
    <3>1. /\ x \in Seq(X) /\ Len(x) = IF Len(a) <= m THEN Len(a) ELSE m
          /\ \A i \in 1 .. Len(x) : x[i] = a[Len(a) - Len(x) + i]
      BY LastOfIs
    <3> HIDE DEF x, y
    <3>2. Len(x) = m
      BY <2>1, <3>1
    <3>3. QED
      BY <3>1, <3>2
  <2>3. y \in Seq(X) /\ Len(y) = m /\ \A i \in 1 .. m : y[i] = b[Len(b) - m + i]
    <3>1. /\ y \in Seq(X) /\ Len(y) = IF Len(b) <= m THEN Len(b) ELSE m
          /\ \A i \in 1 .. Len(y) : y[i] = b[Len(b) - Len(y) + i]
      BY LastOfIs
    <3> HIDE DEF x, y
    <3>2. Len(y) = m
      BY <2>1, <3>1
    <3>3. QED
      BY <3>1, <3>2
  <2>4. ASSUME NEW i \in 1 .. m PROVE x[i] = y[i]
    <3>1. Len(b) - m + i \in 1 .. Len(b)
      BY <2>1
    <3>2. b[Len(b) - m + i] = a[Len(a) - Len(b) + (Len(b) - m + i)]
      BY <2>1, <3>1
    <3>3. Len(a) - Len(b) + (Len(b) - m + i) = Len(a) - m + i
      BY <2>1
    <3>4. QED
      BY <2>2, <2>3, <3>2, <3>3
  <2> HIDE DEF x, y
  <2>5. x = y
    BY <2>2, <2>3, <2>4, SeqEqual
  <2>6. QED
    BY <2>5 DEF x, y
<1>3. QED
  BY <1>1, <1>2

(* A history kept to a horizon shows the last m selections, for m within   *)
(* the horizon, as if nothing had been forgotten.                          *)
LEMMA HorizonSuffices ==
  ASSUME NEW X, NEW s \in Seq(X), NEW t \in Seq(X), NEW n \in Nat, NEW m \in Nat, m <= n
  PROVE  LastOf(LastOf(s, n) \o t, m) = LastOf(s \o t, m)
<1> DEFINE b == LastOf(s, n) \o t
           a == s \o t
<1>1. LastOf(s, n) \in Seq(X)
  BY LastOfIs
<1>2. a \in Seq(X) /\ b \in Seq(X) /\ Len(b) \in Nat
  BY <1>1
<1>3. Ends(b, a) /\ (Len(b) >= n \/ b = a)
  BY KeptEnds
<1> HIDE DEF a, b
<1>4. Len(b) >= m \/ b = a
  BY <1>2, <1>3
<1>5. LastOf(b, m) = LastOf(a, m)
  BY <1>2, <1>3, <1>4, LastOfEnd
<1>6. QED
  BY <1>5 DEF a, b

(* A non-empty set of positions has a last one.                            *)
LEMMA LastPosition ==
  ASSUME NEW n \in Nat, NEW S \in SUBSET (1 .. n), S # {}
  PROVE  \E i \in S : \A j \in S : j <= i
<1> DEFINE D == {n - i : i \in S}
<1>1. D \subseteq Nat /\ D # {}
  <2>1. \A i \in S : n - i \in Nat
    OBVIOUS
  <2>2. QED
    BY <2>1
<1>2. PICK d \in D : \A c \in D : ~(<<c, d>> \in OpToRel(<, Nat))
  BY <1>1, WFMin, NatLessThanWellFounded
<1>3. PICK i \in S : d = n - i
  OBVIOUS
<1>4. ASSUME NEW j \in S, ~(j <= i)
      PROVE  FALSE
  <2>1. n - j < d /\ n - j \in D
    BY <1>3, <1>4
  <2>2. <<n - j, d>> \in OpToRel(<, Nat)
    BY <1>1, <2>1 DEF OpToRel
  <2>3. QED
    BY <1>2, <2>1, <2>2
<1>5. QED
  BY <1>4

LEMMA AgeIs ==
  ASSUME NEW X, NEW s \in Seq(X), NEW p, NEW i \in 1 .. Len(s), s[i] = p,
         \A j \in i + 1 .. Len(s) : s[j] # p
  PROVE  Age(s, p) = Len(s) + 1 - i
<1> DEFINE L(k) == s[k] = p /\ \A j \in k + 1 .. Len(s) : s[j] # p
<1>1. Len(s) \in Nat
  OBVIOUS
<1>2. ASSUME NEW k \in 1 .. Len(s), L(k) PROVE k = i
  <2>1. ~ (k < i) /\ ~ (i < k)
    BY <1>1, <1>2
  <2>2. QED
    BY <1>1, <2>1
<1>3. (CHOOSE k \in 1 .. Len(s) : L(k)) = i
  BY <1>2
<1>4. QED
  BY <1>3 DEF Age

(* Forgetting older entries changes no age of what is still there.         *)
LEMMA AgeInEnd ==
  ASSUME NEW X, NEW a \in Seq(X), NEW b \in Seq(X), Ends(b, a), NEW p \in ToSet(b)
  PROVE  Age(b, p) = Age(a, p) /\ Age(b, p) \in Nat /\ Age(b, p) # 0
<1> DEFINE S == {i \in 1 .. Len(b) : b[i] = p}
           d == Len(a) - Len(b)
<1>1. /\ Len(a) \in Nat /\ Len(b) \in Nat /\ Len(b) <= Len(a) /\ d \in Nat /\ d + Len(b) = Len(a)
      /\ \A i \in 1 .. Len(b) : b[i] = a[d + i]
  BY DEF Ends
<1>2. S # {}
  BY DEF ToSet
<1>3. PICK i \in S : \A j \in S : j <= i
  BY <1>1, <1>2, LastPosition
<1>4. \A j \in i + 1 .. Len(b) : b[j] # p
  BY <1>1, <1>3
<1>5. Age(b, p) = Len(b) + 1 - i
  BY <1>4, AgeIs
<1> HIDE DEF d
<1>6. d + i \in 1 .. Len(a) /\ a[d + i] = p
  BY <1>1
<1>7. ASSUME NEW j \in d + i + 1 .. Len(a) PROVE a[j] # p
  <2>1. j - d \in i + 1 .. Len(b) /\ j - d \in 1 .. Len(b) /\ d + (j - d) = j
    BY <1>1
  <2>2. b[j - d] # p /\ b[j - d] = a[d + (j - d)]
    BY <1>1, <1>4, <2>1
  <2>3. QED
    BY <2>1, <2>2
<1>8. Age(a, p) = Len(a) + 1 - (d + i)
  BY <1>6, <1>7, AgeIs
<1>9. i \in 1 .. Len(b) /\ Len(b) + 1 - i \in Nat /\ Len(b) + 1 - i # 0
      /\ Len(a) + 1 - (d + i) = Len(b) + 1 - i
  BY <1>1
<1>10. QED
  BY <1>5, <1>8, <1>9

-----------------------------------------------------------------------------
(* The two histories, with what HistoryWindow_proofs shows of windows.      *)

ExactFacts == INSTANCE HistoryWindow_proofs WITH
                Fragment <- ExactText, Bytes <- TextBytes,
                Capacity <- ExactCapacity, ByteCapacity <- ExactByteCapacity

EdgeFacts == INSTANCE HistoryWindow_proofs WITH
               Bytes <- FragmentBytes,
               Capacity <- EdgeCapacity, ByteCapacity <- EdgeByteCapacity

LEMMA ExactWindow ==
  ASSUME NEW s \in Seq(Seq(ExactText)), NEW e \in Seq(ExactText)
  PROVE  /\ Exact!Window(s) \in Seq(Seq(ExactText))
         /\ Exact!Window(Append(Exact!Window(s), e)) = Exact!Window(Append(s, e))
<1>1. \A x : Exact!Window(x) = ExactFacts!Window(x)
  BY DEF Exact!Window, ExactFacts!Window, Exact!Suffix, ExactFacts!Suffix,
         Exact!Fitting, ExactFacts!Fitting, Exact!Size, ExactFacts!Size,
         Exact!Payload, ExactFacts!Payload, Exact!Positions, ExactFacts!Positions,
         Exact!FragmentAt, ExactFacts!FragmentAt, Exact!Cardinality, ExactFacts!Cardinality
<1>2. s \in ExactFacts!Entries /\ e \in ExactFacts!Entry
  BY DEF ExactFacts!Entries, ExactFacts!Entry
<1>3. /\ ExactFacts!Window(s) \in ExactFacts!Entries
      /\ ExactFacts!Window(Append(ExactFacts!Window(s), e)) = ExactFacts!Window(Append(s, e))
  BY <1>2, ExactFacts!WindowOfWindow, BytesAssumption, BudgetAssumption,
     ExactFacts!BytesAssumption, ExactFacts!CapacityAssumption
<1>4. QED
  BY <1>1, <1>3 DEF ExactFacts!Entries, ExactFacts!Entry

LEMMA EdgeWindow ==
  ASSUME NEW s \in Seq(Seq(Fragment)), NEW e \in Seq(Fragment)
  PROVE  /\ Edge!Window(s) \in Seq(Seq(Fragment))
         /\ Edge!Window(Append(Edge!Window(s), e)) = Edge!Window(Append(s, e))
<1>1. \A x : Edge!Window(x) = EdgeFacts!Window(x)
  BY DEF Edge!Window, EdgeFacts!Window, Edge!Suffix, EdgeFacts!Suffix,
         Edge!Fitting, EdgeFacts!Fitting, Edge!Size, EdgeFacts!Size,
         Edge!Payload, EdgeFacts!Payload, Edge!Positions, EdgeFacts!Positions,
         Edge!FragmentAt, EdgeFacts!FragmentAt, Edge!Cardinality, EdgeFacts!Cardinality
<1>2. s \in EdgeFacts!Entries /\ e \in EdgeFacts!Entry
  BY DEF EdgeFacts!Entries, EdgeFacts!Entry
<1>3. /\ EdgeFacts!Window(s) \in EdgeFacts!Entries
      /\ EdgeFacts!Window(Append(EdgeFacts!Window(s), e)) = EdgeFacts!Window(Append(s, e))
  BY <1>2, EdgeFacts!WindowOfWindow, BytesAssumption, BudgetAssumption,
     EdgeFacts!BytesAssumption, EdgeFacts!CapacityAssumption
<1>4. QED
  BY <1>1, <1>3 DEF EdgeFacts!Entries, EdgeFacts!Entry

(* Rankings are numbers.                                                   *)
LEMMA RankingsAreNumbers ==
  ASSUME NEW x \in Seq(Seq(ExactText)), NEW y \in Seq(Seq(Fragment)), NEW t \in Text
  PROVE  ExactCount(x, t) \in Nat /\ EdgeScore(y, t) \in Nat
<1>1. ExactCount(x, t) \in Nat
  <2>1. x \in ExactFacts!Entries
    BY DEF ExactFacts!Entries, ExactFacts!Entry
  <2>2. ExactFacts!Occurrences(x, Normal[t]) \in Nat
    BY <2>1, ExactFacts!AtFinite, BytesAssumption, BudgetAssumption,
       ExactFacts!BytesAssumption, ExactFacts!CapacityAssumption
  <2>3. QED
    BY <2>2 DEF ExactCount, Exact!Occurrences, ExactFacts!Occurrences,
         Exact!Positions, ExactFacts!Positions, Exact!FragmentAt, ExactFacts!FragmentAt,
         Exact!Cardinality, ExactFacts!Cardinality
<1>2. EdgeScore(y, t) \in Nat
  <2> DEFINE D == DOMAIN Edges[t]
             P == Edge!Positions(y)
             M == {q \in D \X P : Edge!FragmentAt(y, q[2]) = Edges[t][q[1]]}
  <2>1. IsFiniteSet(D)
    <3>1. Edges[t] \in Seq(Fragment)
      BY TextAssumption
    <3>2. D = 1 .. Len(Edges[t]) /\ Len(Edges[t]) \in Nat
      BY <3>1
    <3>3. QED
      BY <3>2, Interval
  <2>2. IsFiniteSet(P)
    <3>1. y \in EdgeFacts!Entries
      BY DEF EdgeFacts!Entries, EdgeFacts!Entry
    <3>2. EdgeFacts!IsFiniteSet(EdgeFacts!Positions(y))
      BY <3>1, EdgeFacts!PositionsFinite, BytesAssumption, BudgetAssumption,
         EdgeFacts!BytesAssumption, EdgeFacts!CapacityAssumption
    <3>3. P = EdgeFacts!Positions(y)
      BY DEF Edge!Positions, EdgeFacts!Positions
    <3> HIDE DEF P
    <3>4. QED
      BY <3>2, <3>3 DEF IsFiniteSet, EdgeFacts!IsFiniteSet
  <2>3. EdgeScore(y, t) = Cardinality(M)
    BY DEF EdgeScore
  <2>4. M \in SUBSET (D \X P)
    OBVIOUS
  <2> HIDE DEF M, D, P
  <2>5. IsFiniteSet(D \X P)
    BY <2>1, <2>2, FS_Product
  <2>6. Cardinality(M) \in Nat
    BY <2>4, <2>5, FS_Subset, FS_CardinalityType
  <2>7. QED
    BY <2>3, <2>6
<1>3. QED
  BY <1>1, <1>2

LEMMA NoWindow == Exact!Window(<<>>) = <<>> /\ Edge!Window(<<>>) = <<>>
<1>1. ExactFacts!Window(<<>>) = <<>> /\ EdgeFacts!Window(<<>>) = <<>>
  BY ExactFacts!WindowOfNothing, EdgeFacts!WindowOfNothing, BytesAssumption, BudgetAssumption,
     ExactFacts!BytesAssumption, ExactFacts!CapacityAssumption,
     EdgeFacts!BytesAssumption, EdgeFacts!CapacityAssumption
<1>2. Exact!Window(<<>>) = ExactFacts!Window(<<>>)
  BY DEF Exact!Window, ExactFacts!Window, Exact!Suffix, ExactFacts!Suffix,
         Exact!Fitting, ExactFacts!Fitting, Exact!Size, ExactFacts!Size,
         Exact!Payload, ExactFacts!Payload, Exact!Positions, ExactFacts!Positions,
         Exact!FragmentAt, ExactFacts!FragmentAt, Exact!Cardinality, ExactFacts!Cardinality
<1>3. Edge!Window(<<>>) = EdgeFacts!Window(<<>>)
  BY DEF Edge!Window, EdgeFacts!Window, Edge!Suffix, EdgeFacts!Suffix,
         Edge!Fitting, EdgeFacts!Fitting, Edge!Size, EdgeFacts!Size,
         Edge!Payload, EdgeFacts!Payload, Edge!Positions, EdgeFacts!Positions,
         Edge!FragmentAt, EdgeFacts!FragmentAt, Edge!Cardinality, EdgeFacts!Cardinality
<1>4. QED
  BY <1>1, <1>2, <1>3

-----------------------------------------------------------------------------
(* The hard gap, selection by selection.                                    *)

(* A selection the code may make keeps the gap over everything selected so  *)
(* far, although the code sees only the horizon and the call itself.        *)
LEMMA SelectionKeepsGap ==
  ASSUME NEW made \in Seq(Selection), NEW mine \in Seq(Selection),
         NEW r \in Rule \ Exempt, NEW E \in SUBSET Production, NEW p \in Production,
         p \in Available(r, E, LastOf(Of(r, made), Horizon) \o Of(r, mine)),
         p \in ToSet(LastOf(Of(r, made \o mine), Gap))
  PROVE  /\ E \subseteq ToSet(LastOf(Of(r, made \o mine), Gap))
         /\ \A q \in E : Age(Of(r, made \o mine), p) >= Age(Of(r, made \o mine), q)
<1> DEFINE a == Of(r, made \o mine)
           b == LastOf(Of(r, made), Horizon) \o Of(r, mine)
           cooled == ToSet(LastOf(a, Gap))
<1>1. /\ Of(r, made) \in Seq(Production) /\ Of(r, mine) \in Seq(Production)
      /\ a = Of(r, made) \o Of(r, mine)
  BY OfConcat
<1>2. Horizon \in Nat /\ Gap \in Nat /\ Gap <= Horizon
  BY ProfileAssumption
<1>3. LastOf(Of(r, made), Horizon) \in Seq(Production)
  BY <1>1, <1>2, LastOfIs
<1>4. a \in Seq(Production) /\ b \in Seq(Production)
  BY <1>1, <1>3
<1>5. Ends(b, a)
  BY <1>1, <1>2, KeptEnds
<1>6. LastOf(b, Gap) = LastOf(a, Gap)
  BY <1>1, <1>2, HorizonSuffices
<1> HIDE DEF a, b
<1>7. cooled \subseteq ToSet(b)
  <2> DEFINE l == LastOf(b, Gap)
  <2>1. /\ l \in Seq(Production)
        /\ Len(l) = IF Len(b) <= Gap THEN Len(b) ELSE Gap
        /\ \A i \in 1 .. Len(l) : l[i] = b[Len(b) - Len(l) + i]
    BY <1>2, <1>4, LastOfIs
  <2> HIDE DEF l
  <2>2. /\ DOMAIN l = 1 .. Len(l) /\ DOMAIN b = 1 .. Len(b)
        /\ Len(l) \in Nat /\ Len(b) \in Nat /\ Len(l) <= Len(b)
        /\ \A i \in 1 .. Len(l) : l[i] = b[Len(b) - Len(l) + i]
    <3>1. DOMAIN l = 1 .. Len(l) /\ DOMAIN b = 1 .. Len(b) /\ Len(l) \in Nat /\ Len(b) \in Nat
      BY <1>4, <2>1
    <3>2. Len(l) <= Len(b)
      BY <1>2, <2>1, <3>1
    <3>3. QED
      BY <2>1, <3>1, <3>2
  <2>3. \A i \in 1 .. Len(l) : Len(b) - Len(l) + i \in 1 .. Len(b)
    BY <2>2
  <2>4. ToSet(l) \subseteq ToSet(b)
    BY <2>2, <2>3 DEF ToSet
  <2>5. QED
    BY <1>6, <2>4 DEF l
<1>8. \A q \in cooled : Age(b, q) = Age(a, q) /\ Age(b, q) \in Nat /\ Age(b, q) # 0
  BY <1>4, <1>5, <1>7, AgeInEnd
<1>9. p \in cooled /\ p \in Available(r, E, b) /\ r \notin Exempt
  BY DEF a, b
<1>10. E \subseteq cooled /\ \A q \in E : Older(b, p, q)
  BY <1>6, <1>9 DEF Available
<1>11. ASSUME NEW q \in E PROVE Age(a, p) >= Age(a, q)
  <2>1. Age(b, p) # 0 /\ Age(b, p) \in Nat /\ Age(b, q) \in Nat
    <3>1. p \in cooled /\ q \in cooled
      BY <1>9, <1>10
    <3> HIDE DEF cooled
    <3>2. QED
      BY <1>8, <3>1
  <2>2. Age(b, p) > Age(b, q) \/ Age(b, p) = Age(b, q)
    BY <1>10, <2>1 DEF Older
  <2>3. Age(b, p) >= Age(b, q)
    BY <2>1, <2>2
  <2>4. QED
    BY <1>8, <1>9, <1>10, <2>3
<1>12. QED
  BY <1>10, <1>11 DEF a

(* Prefixes of selections that keep the gap are not looked at again.       *)
LEMMA GapOneByOne ==
  ASSUME NEW made \in Seq(Selection), KeepsGap(made), NEW c \in Selection,
         c.rule \notin Exempt /\ c.production \in ToSet(LastOf(Of(c.rule, made), Gap)) =>
           /\ c.eligible \subseteq ToSet(LastOf(Of(c.rule, made), Gap))
           /\ \A q \in c.eligible :
                Age(Of(c.rule, made), c.production) >= Age(Of(c.rule, made), q)
  PROVE  KeepsGap(Append(made, c))
<1> DEFINE all == Append(made, c)
<1>1. /\ all \in Seq(Selection) /\ Len(made) \in Nat /\ Len(all) = Len(made) + 1
      /\ DOMAIN all = 1 .. Len(made) + 1 /\ DOMAIN made = 1 .. Len(made)
      /\ all[Len(made) + 1] = c /\ \A i \in 1 .. Len(made) : all[i] = made[i]
  OBVIOUS
<1> HIDE DEF all
<1>2. ASSUME NEW n \in 0 .. Len(made) PROVE SubSeq(all, 1, n) = SubSeq(made, 1, n)
  <2>1. /\ SubSeq(all, 1, n) \in Seq(Selection) /\ Len(SubSeq(all, 1, n)) = n
        /\ \A i \in 1 .. n : SubSeq(all, 1, n)[i] = all[i]
    BY <1>1
  <2>2. /\ SubSeq(made, 1, n) \in Seq(Selection) /\ Len(SubSeq(made, 1, n)) = n
        /\ \A i \in 1 .. n : SubSeq(made, 1, n)[i] = made[i]
    BY <1>1
  <2>3. \A i \in 1 .. n : SubSeq(all, 1, n)[i] = SubSeq(made, 1, n)[i]
    BY <1>1, <2>1, <2>2
  <2>4. QED
    BY <2>1, <2>2, <2>3, SeqEqual
<1>3. SubSeq(made, 1, Len(made)) = made
  BY SubSeqFull
<1>4. ASSUME NEW i \in DOMAIN all
      PROVE  LET x == all[i]
                 before == Of(x.rule, SubSeq(all, 1, i - 1))
                 cooled == ToSet(LastOf(before, Gap))
             IN x.rule \notin Exempt /\ x.production \in cooled =>
                  /\ x.eligible \subseteq cooled
                  /\ \A q \in x.eligible : Age(before, x.production) >= Age(before, q)
  <2>1. CASE i \in 1 .. Len(made)
    <3>1. all[i] = made[i] /\ SubSeq(all, 1, i - 1) = SubSeq(made, 1, i - 1) /\ i \in DOMAIN made
      BY <1>1, <1>2, <2>1
    <3>2. QED
      BY <3>1 DEF KeepsGap
  <2>2. CASE i = Len(made) + 1
    <3>1. all[i] = c /\ SubSeq(all, 1, i - 1) = made
      <4>1. i - 1 = Len(made) /\ Len(made) \in 0 .. Len(made)
        BY <1>1, <2>2
      <4>2. QED
        BY <1>1, <1>2, <1>3, <2>2, <4>1
    <3>2. QED
      BY <3>1
  <2>3. QED
    BY <1>1, <2>1, <2>2
<1>5. QED
  BY <1>4 DEF KeepsGap, all

-----------------------------------------------------------------------------
(* The inductive invariant.                                                 *)

Output == [session : Session, text : Text, rivals : SUBSET Text]

Call == [session : Session, grammar : Grammar, attempt : 0 .. Attempts,
         selections : Seq(Selection), viable : Seq(Candidate)]

CallTyped ==
  call = Idle \/
    /\ call \in Call
    /\ \A i, j \in DOMAIN call.viable :
         i < j => call.viable[i].attempt < call.viable[j].attempt

(* The rankings of a running call are those of the store it began with, and *)
(* each of its candidates would keep the gap if it were the one returned.   *)
CallSound ==
  call # Idle =>
    /\ KeepsGap(chosen \o call.selections)
    /\ \A i \in DOMAIN call.viable :
         LET v == call.viable[i] IN
         /\ v.attempt < call.attempt
         /\ v.exact = ExactCount(store.exact, v.text)
         /\ v.edge = EdgeScore(store.edges, v.text)
         /\ KeepsGap(chosen \o v.selections)

IInv ==
  /\ OnlyReturnedOutputRemembered
  /\ HardGap
  /\ LeastRepeatedReturned
  /\ CallSound

LEMMA TypesOf ==
  ASSUME TypeOK
  PROVE  /\ words \in [Session -> Nat]
         /\ store \in [revision : Nat, structural : [Rule -> Seq(Production)],
                        exact : Seq(Seq(ExactText)), edges : Seq(Seq(Fragment))]
         /\ CallTyped
         /\ returned \in Seq(Output)
         /\ chosen \in Seq(Selection)
BY DEF TypeOK, CallTyped, Call, Output

LEMMA InitInv == Init => IInv
<1> SUFFICES ASSUME Init PROVE IInv
  OBVIOUS
<1>1. /\ words = [s \in Session |-> 0]
      /\ store = [revision |-> 0, structural |-> [r \in Rule |-> <<>>],
                  exact |-> <<>>, edges |-> <<>>]
      /\ call = Idle /\ returned = <<>> /\ chosen = <<>> /\ Len(<<>>) = 0
  BY DEF Init
<1>2. TypeOK
  BY <1>1 DEF TypeOK
<1>3. TextsOf(0) = <<>> /\ PhrasesOf(0) = <<>>
  BY DEF TextsOf, PhrasesOf
<1>4. ASSUME NEW r \in Rule PROVE LastOf(Of(r, <<>>), Horizon) = <<>>
  <2>1. <<>> \in Seq(Selection) /\ Lists(<<>>, 0, Mine(r, <<>>))
    BY DEF Lists, Mine
  <2>2. Of(r, <<>>) \in Seq(Production) /\ Len(Of(r, <<>>)) = 0
    BY <2>1, OfListed
  <2>3. Of(r, <<>>) = <<>>
    BY <2>2
  <2>4. QED
    BY <2>3, ProfileAssumption DEF LastOf
<1>5. store = [revision   |-> Len(returned),
               structural |-> [r \in Rule |-> LastOf(Of(r, chosen), Horizon)],
               exact      |-> Exact!Window(TextsOf(Len(returned))),
               edges      |-> Edge!Window(PhrasesOf(Len(returned)))]
  BY <1>1, <1>3, <1>4, NoWindow
<1>6. HardGap /\ LeastRepeatedReturned /\ CallSound
  BY <1>1 DEF HardGap, KeepsGap, LeastRepeatedReturned, CallSound
<1>7. QED
  BY <1>2, <1>5, <1>6 DEF IInv, OnlyReturnedOutputRemembered

(* Nothing is remembered before a call returns.                            *)
LEMMA WithinCall ==
  ASSUME IInv, UNCHANGED <<words, store, returned, chosen>>, CallTyped', CallSound'
  PROVE  IInv'
<1>1. TypeOK'
  BY DEF IInv, OnlyReturnedOutputRemembered, TypeOK, CallTyped, Call
<1>2. (TextsOf(Len(returned)) = TextsOf(Len(returned))') /\ (PhrasesOf(Len(returned)) = PhrasesOf(Len(returned))')
  BY DEF TextsOf, PhrasesOf
<1>3. OnlyReturnedOutputRemembered'
  BY <1>1, <1>2 DEF IInv, OnlyReturnedOutputRemembered
<1>4. HardGap' /\ LeastRepeatedReturned'
  BY DEF IInv, HardGap, LeastRepeatedReturned, TextsOf, PhrasesOf
<1>5. QED
  BY <1>3, <1>4 DEF IInv

LEMMA BeginInv ==
  ASSUME IInv, NEW s \in Session, NEW g \in Grammar, Begin(s, g)
  PROVE  IInv'
<1>1. /\ UNCHANGED <<words, store, returned, chosen>>
      /\ call' = [session |-> s, grammar |-> g, attempt |-> 0, selections |-> <<>>, viable |-> <<>>]
  BY DEF Begin
<1>2. chosen \in Seq(Selection) /\ KeepsGap(chosen)
  BY TypesOf DEF IInv, OnlyReturnedOutputRemembered, HardGap
<1>3. CallTyped'
  BY <1>1, ProfileAssumption DEF CallTyped, Call
<1>4. chosen \o <<>> = chosen
  BY <1>2, ConcatEmptySeq
<1>5. CallSound'
  <2>1. KeepsGap(chosen \o <<>>)
    BY <1>2, <1>4
  <2>2. (call.selections)' = <<>> /\ (call.viable)' = <<>> /\ DOMAIN <<>> = {}
    BY <1>1
  <2>3. KeepsGap(chosen \o call.selections)'
    BY <1>1, <2>1, <2>2 DEF KeepsGap
  <2>4. QED
    BY <2>2, <2>3 DEF CallSound
<1>6. QED
  BY <1>1, <1>3, <1>5, WithinCall

LEMMA FailInv ==
  ASSUME IInv, Fail
  PROVE  IInv'
<1>1. UNCHANGED <<words, store, returned, chosen>> /\ call' = Idle
  BY DEF Fail
<1>2. CallTyped' /\ CallSound'
  BY <1>1 DEF CallTyped, CallSound
<1>3. QED
  BY <1>1, <1>2, WithinCall

LEMMA StutterInv ==
  ASSUME IInv, UNCHANGED vars
  PROVE  IInv'
<1>1. UNCHANGED <<words, store, returned, chosen>> /\ call' = call
  BY DEF vars
<1>2. CallTyped'
  BY <1>1, TypesOf DEF IInv, OnlyReturnedOutputRemembered, CallTyped
<1>3. CallSound'
  BY <1>1 DEF IInv, CallSound
<1>4. QED
  BY <1>1, <1>2, <1>3, WithinCall

LEMMA SelectInv ==
  ASSUME IInv, NEW r \in Rule, NEW E \in SUBSET Production, NEW p \in Production, Select(r, E, p)
  PROVE  IInv'
<1> DEFINE c == [rule |-> r, production |-> p, eligible |-> E, grammar |-> call.grammar]
           mine == call.selections
<1>1. /\ UNCHANGED <<words, store, returned, chosen>>
      /\ call # Idle /\ p \in Available(r, E, Recent(r))
      /\ call' = [call EXCEPT !.selections = Append(@, c)]
  BY DEF Select, Expanding
<1>2. chosen \in Seq(Selection) /\ CallTyped
      /\ store = [revision   |-> Len(returned),
                  structural |-> [q \in Rule |-> LastOf(Of(q, chosen), Horizon)],
                  exact      |-> Exact!Window(TextsOf(Len(returned))),
                  edges      |-> Edge!Window(PhrasesOf(Len(returned)))]
  BY TypesOf DEF IInv, OnlyReturnedOutputRemembered
<1>3. call \in Call
  BY <1>1, <1>2 DEF CallTyped
<1>4. mine \in Seq(Selection) /\ c \in Selection
  BY <1>3 DEF Call, Selection
<1> HIDE DEF c, mine
<1>5. /\ call' \in Call /\ (call.selections)' = Append(mine, c)
      /\ (call.viable)' = call.viable /\ (call.attempt)' = call.attempt
  <2>1. Append(mine, c) \in Seq(Selection)
    BY <1>4
  <2> DEFINE m == Append(mine, c)
  <2> HIDE DEF m
  <2>2. PICK y : y = [call EXCEPT !.selections = m]
    OBVIOUS
  <2>3. y \in Call /\ y.selections = m /\ y.viable = call.viable /\ y.attempt = call.attempt
    <3>1. m \in Seq(Selection)
      BY <2>1 DEF m
    <3>2. QED
      BY <1>3, <2>2, <3>1 DEF Call
  <2>4. call' = y
    BY <1>1, <2>2 DEF m, mine
  <2>5. QED
    BY <2>3, <2>4 DEF m
<1>6. CallTyped'
  BY <1>1, <1>2, <1>5 DEF CallTyped
<1>7. Recent(r) = LastOf(Of(r, chosen), Horizon) \o Of(r, mine)
  BY <1>2 DEF Recent, mine
<1>8. KeepsGap(Append(chosen \o mine, c))
  <2>1. chosen \o mine \in Seq(Selection)
    BY <1>2, <1>4
  <2>2. KeepsGap(chosen \o mine)
    BY <1>1 DEF IInv, CallSound, mine
  <2>3. c.rule = r /\ c.production = p /\ c.eligible = E
    BY DEF c
  <2>4. ASSUME r \notin Exempt, p \in ToSet(LastOf(Of(r, chosen \o mine), Gap))
        PROVE  /\ E \subseteq ToSet(LastOf(Of(r, chosen \o mine), Gap))
               /\ \A q \in E : Age(Of(r, chosen \o mine), p) >= Age(Of(r, chosen \o mine), q)
    <3>1. r \in Rule \ Exempt /\ p \in Available(r, E, LastOf(Of(r, chosen), Horizon) \o Of(r, mine))
      BY <1>1, <1>7, <2>4
    <3>2. QED
      BY <1>2, <1>4, <2>4, <3>1, SelectionKeepsGap
  <2>5. QED
    BY <1>4, <2>1, <2>2, <2>3, <2>4, GapOneByOne
<1>9. chosen \o Append(mine, c) = Append(chosen \o mine, c)
  <2> DEFINE x == chosen \o Append(mine, c)
             y == Append(chosen \o mine, c)
  <2>1. x \in Seq(Selection) /\ y \in Seq(Selection) /\ Len(x) = Len(y)
        /\ \A i \in 1 .. Len(x) : x[i] = y[i]
    BY <1>2, <1>4
  <2> HIDE DEF x, y
  <2>2. x = y
    BY <2>1, SeqEqual
  <2>3. QED
    BY <2>2 DEF x, y
<1>10. CallSound'
  <2>1. (chosen \o call.selections)' = Append(chosen \o mine, c)
    BY <1>1, <1>5, <1>9
  <2>2. KeepsGap(chosen \o call.selections)'
    BY <1>8, <2>1 DEF KeepsGap
  <2>3. \A i \in DOMAIN call.viable :
          LET v == call.viable[i] IN
          /\ v.attempt < call.attempt
          /\ v.exact = ExactCount(store.exact, v.text)
          /\ v.edge = EdgeScore(store.edges, v.text)
          /\ KeepsGap(chosen \o v.selections)
    BY <1>1 DEF IInv, CallSound
  <2>4. QED
    BY <1>1, <1>5, <2>2, <2>3 DEF CallSound
<1>11. QED
  BY <1>1, <1>6, <1>10, WithinCall

LEMMA SucceedInv ==
  ASSUME IInv, NEW t \in Text, Succeed(t)
  PROVE  IInv'
<1> DEFINE v == [exact |-> ExactCount(store.exact, t), edge |-> EdgeScore(store.edges, t),
                 attempt |-> call.attempt, text |-> t, selections |-> call.selections]
<1>1. /\ UNCHANGED <<words, store, returned, chosen>>
      /\ call # Idle /\ call.attempt < Attempts
      /\ call' = [call EXCEPT !.attempt = @ + 1, !.selections = <<>>,
                             !.viable = Append(@, v)]
  BY DEF Succeed, Expanding
<1>2. /\ chosen \in Seq(Selection) /\ CallTyped /\ KeepsGap(chosen)
      /\ store.exact \in Seq(Seq(ExactText)) /\ store.edges \in Seq(Seq(Fragment))
  BY TypesOf DEF IInv, OnlyReturnedOutputRemembered, HardGap
<1>3. /\ call \in Call
      /\ \A i, j \in DOMAIN call.viable :
           i < j => call.viable[i].attempt < call.viable[j].attempt
  BY <1>1, <1>2 DEF CallTyped
<1>4. Attempts \in Nat /\ call.attempt \in 0 .. Attempts - 1
  BY <1>1, <1>3, ProfileAssumption DEF Call
<1>5. v \in Candidate
  BY <1>2, <1>3, <1>4, RankingsAreNumbers DEF Candidate, Call
<1> DEFINE old == call.viable
           new == Append(old, v)
<1>6. /\ old \in Seq(Candidate) /\ new \in Seq(Candidate)
      /\ Len(old) \in Nat /\ DOMAIN old = 1 .. Len(old) /\ DOMAIN new = 1 .. Len(old) + 1
      /\ new[Len(old) + 1] = v /\ \A i \in 1 .. Len(old) : new[i] = old[i]
  <2>1. old \in Seq(Candidate)
    BY <1>3 DEF Call
  <2> HIDE DEF old, v
  <2>2. QED
    BY <1>5, <2>1
<1>7. /\ v.attempt = call.attempt /\ v.text = t /\ v.selections = call.selections
      /\ v.exact = ExactCount(store.exact, t) /\ v.edge = EdgeScore(store.edges, t)
  OBVIOUS
<1> HIDE DEF v, new
<1>8. /\ call' \in Call /\ (call.viable)' = new /\ (call.selections)' = <<>>
      /\ (call.attempt)' = call.attempt + 1
  <2> DEFINE a == call.attempt + 1
             m == <<>>
  <2>1. a \in 0 .. Attempts /\ m \in Seq(Selection)
    BY <1>4
  <2> HIDE DEF a, m
  <2>2. PICK y : y = [call EXCEPT !.attempt = a, !.selections = m, !.viable = new]
    OBVIOUS
  <2>3. y \in Call /\ y.selections = m /\ y.viable = new /\ y.attempt = a
    BY <1>3, <1>6, <2>1, <2>2 DEF Call
  <2>4. call' = y
    BY <1>1, <2>2 DEF a, m, new
  <2>5. QED
    BY <2>3, <2>4 DEF a, m
<1>9. \A i \in 1 .. Len(old) : old[i].attempt < call.attempt /\ old[i].attempt \in Nat
  <2>1. \A i \in 1 .. Len(old) : old[i] \in Candidate
    BY <1>6
  <2>2. \A i \in 1 .. Len(old) : old[i].attempt \in Nat
    BY <1>4, <2>1 DEF Candidate
  <2>3. \A i \in 1 .. Len(old) : old[i].attempt < call.attempt
    BY <1>1, <1>6 DEF IInv, CallSound
  <2>4. QED
    BY <2>2, <2>3
<1>10. ASSUME NEW i \in DOMAIN new, NEW j \in DOMAIN new, i < j
       PROVE  new[i].attempt < new[j].attempt
  <2>1. i \in 1 .. Len(old)
    BY <1>6, <1>10
  <2>2. CASE j \in 1 .. Len(old)
    BY <1>3, <1>6, <1>10, <2>1, <2>2
  <2>3. CASE j = Len(old) + 1
    BY <1>6, <1>7, <1>9, <2>1, <2>3
  <2>4. QED
    BY <1>6, <2>2, <2>3
<1>11. CallTyped'
  BY <1>8, <1>10 DEF CallTyped
<1>12. ASSUME NEW i \in DOMAIN new
       PROVE  /\ new[i].attempt < call.attempt + 1
              /\ new[i].exact = ExactCount(store.exact, new[i].text)
              /\ new[i].edge = EdgeScore(store.edges, new[i].text)
              /\ KeepsGap(chosen \o new[i].selections)
  <2>1. CASE i \in 1 .. Len(old)
    <3>1. new[i] = old[i] /\ i \in DOMAIN call.viable
      BY <1>6, <2>1
    <3>2. old[i].attempt < call.attempt + 1
      BY <1>4, <1>9, <2>1
    <3>3. QED
      BY <1>1, <3>1, <3>2 DEF IInv, CallSound
  <2>2. CASE i = Len(old) + 1
    <3>1. new[i] = v
      BY <1>6, <2>2
    <3>2. KeepsGap(chosen \o call.selections)
      BY <1>1 DEF IInv, CallSound
    <3>3. call.attempt < call.attempt + 1
      BY <1>4
    <3>4. QED
      BY <1>7, <3>1, <3>2, <3>3
  <2>3. QED
    BY <1>6, <2>1, <2>2
<1>13. CallSound'
  <2>1. (chosen \o call.selections)' = chosen
    BY <1>1, <1>2, <1>8, ConcatEmptySeq
  <2>2. KeepsGap(chosen \o call.selections)'
    BY <1>2, <2>1 DEF KeepsGap
  <2>3. QED
    BY <1>1, <1>8, <1>12, <2>2 DEF CallSound
<1>14. QED
  BY <1>1, <1>11, <1>13, WithinCall

LEMMA DisqualifyInv ==
  ASSUME IInv, Disqualify
  PROVE  IInv'
<1>1. /\ UNCHANGED <<words, store, returned, chosen>>
      /\ call # Idle /\ call.attempt < Attempts
      /\ call' = [call EXCEPT !.attempt = @ + 1, !.selections = <<>>]
  BY DEF Disqualify, Expanding
<1>2. chosen \in Seq(Selection) /\ CallTyped /\ KeepsGap(chosen)
  BY TypesOf DEF IInv, OnlyReturnedOutputRemembered, HardGap
<1>3. /\ call \in Call
      /\ \A i, j \in DOMAIN call.viable :
           i < j => call.viable[i].attempt < call.viable[j].attempt
  BY <1>1, <1>2 DEF CallTyped
<1>4. Attempts \in Nat /\ call.attempt \in 0 .. Attempts - 1 /\ call.viable \in Seq(Candidate)
  BY <1>1, <1>3, ProfileAssumption DEF Call
<1>5. /\ call' \in Call /\ (call.viable)' = call.viable /\ (call.selections)' = <<>>
      /\ (call.attempt)' = call.attempt + 1
  <2> DEFINE a == call.attempt + 1
             m == <<>>
  <2>1. a \in 0 .. Attempts /\ m \in Seq(Selection)
    BY <1>4
  <2> HIDE DEF a, m
  <2>2. PICK y : y = [call EXCEPT !.attempt = a, !.selections = m]
    OBVIOUS
  <2>3. y \in Call /\ y.selections = m /\ y.viable = call.viable /\ y.attempt = a
    BY <1>3, <2>1, <2>2 DEF Call
  <2>4. call' = y
    BY <1>1, <2>2 DEF a, m
  <2>5. QED
    BY <2>3, <2>4 DEF a, m
<1>6. CallTyped'
  BY <1>3, <1>5 DEF CallTyped
<1>7. ASSUME NEW i \in DOMAIN call.viable
      PROVE  LET v == call.viable[i] IN
             /\ v.attempt < call.attempt + 1
             /\ v.exact = ExactCount(store.exact, v.text)
             /\ v.edge = EdgeScore(store.edges, v.text)
             /\ KeepsGap(chosen \o v.selections)
  <2>1. call.viable[i] \in Candidate
    BY <1>4
  <2>2. call.viable[i].attempt \in Nat
    BY <1>4, <2>1 DEF Candidate
  <2>3. call.viable[i].attempt < call.attempt
    BY <1>1 DEF IInv, CallSound
  <2>4. call.viable[i].attempt < call.attempt + 1
    BY <1>4, <2>2, <2>3
  <2>5. QED
    BY <1>1, <2>4 DEF IInv, CallSound
<1>8. CallSound'
  <2>1. (chosen \o call.selections)' = chosen
    BY <1>1, <1>2, <1>5, ConcatEmptySeq
  <2>2. KeepsGap(chosen \o call.selections)'
    BY <1>2, <2>1 DEF KeepsGap
  <2>3. QED
    BY <1>1, <1>5, <1>7, <2>2 DEF CallSound
<1>9. QED
  BY <1>1, <1>6, <1>8, WithinCall

(* A returned output is one more entry of the texts and of the phrases.    *)
LEMMA Returning ==
  ASSUME returned \in Seq(Output), NEW N, N = Len(returned),
         NEW o \in Output, returned' = Append(returned, o)
  PROVE  /\ returned' \in Seq(Output) /\ Len(returned)' = N + 1
         /\ returned'[N + 1] = o
         /\ \A i \in 1 .. N : returned'[i] = returned[i]
         /\ \A n \in 0 .. N :
              /\ TextsOf(n)' = TextsOf(n) /\ TextsOf(n) \in Seq(Seq(ExactText))
              /\ PhrasesOf(n)' = PhrasesOf(n) /\ PhrasesOf(n) \in Seq(Seq(Fragment))
         /\ TextsOf(N + 1)' = Append(TextsOf(N), <<Normal[o.text]>>)
         /\ PhrasesOf(N + 1)' = Append(PhrasesOf(N), Edges[o.text])
<1>1. /\ returned' \in Seq(Output) /\ N \in Nat /\ Len(returned)' = N + 1
      /\ returned'[N + 1] = o /\ \A i \in 1 .. N : returned'[i] = returned[i]
  OBVIOUS
<1>2. \A i \in 1 .. N : Normal[returned[i].text] \in ExactText /\ Edges[returned[i].text] \in Seq(Fragment)
  <2>1. \A i \in 1 .. N : returned[i] \in Output
    OBVIOUS
  <2>2. QED
    BY <2>1, TextAssumption DEF Output
<1>3. Normal[o.text] \in ExactText /\ Edges[o.text] \in Seq(Fragment)
  BY TextAssumption DEF Output
<1>4. ASSUME NEW n \in 0 .. N
      PROVE  /\ TextsOf(n)' = TextsOf(n) /\ TextsOf(n) \in Seq(Seq(ExactText))
             /\ PhrasesOf(n)' = PhrasesOf(n) /\ PhrasesOf(n) \in Seq(Seq(Fragment))
  <2>1. n \in Nat /\ \A i \in 1 .. n : i \in 1 .. N
    BY <1>1
  <2>2. TextsOf(n)' = TextsOf(n) /\ PhrasesOf(n)' = PhrasesOf(n)
    BY <1>1, <2>1 DEF TextsOf, PhrasesOf
  <2>3. TextsOf(n) \in Seq(Seq(ExactText))
    BY <1>2, <2>1 DEF TextsOf
  <2>4. PhrasesOf(n) \in Seq(Seq(Fragment))
    BY <1>2, <2>1 DEF PhrasesOf
  <2>5. QED
    BY <2>2, <2>3, <2>4
<1>5. TextsOf(N + 1)' = Append(TextsOf(N), <<Normal[o.text]>>)
  <2> DEFINE e == <<Normal[o.text]>>
             old == TextsOf(N)
             x == [i \in 1 .. N + 1 |-> <<Normal[(returned'[i]).text]>>]
  <2>1. TextsOf(N + 1)' = x
    BY DEF TextsOf
  <2>2. e \in Seq(ExactText) /\ old \in Seq(Seq(ExactText)) /\ Len(old) = N
        /\ \A i \in 1 .. N : old[i] = <<Normal[returned[i].text]>>
    <3>1. e \in Seq(ExactText)
      BY <1>3
    <3>2. old \in Seq(Seq(ExactText))
      BY <1>1, <1>4
    <3>3. old = [i \in 1 .. N |-> <<Normal[returned[i].text]>>]
      BY DEF TextsOf
    <3>4. Len(old) = N /\ \A i \in 1 .. N : old[i] = <<Normal[returned[i].text]>>
      <4> HIDE DEF old
      <4>1. QED
        BY <1>1, <3>2, <3>3
    <3>5. QED
      BY <3>1, <3>2, <3>4
  <2>3. \A i \in 1 .. N : x[i] = old[i]
    <3>1. \A i \in 1 .. N : i \in 1 .. N + 1 /\ returned'[i] = returned[i]
      BY <1>1
    <3>2. \A i \in 1 .. N : x[i] = <<Normal[returned[i].text]>>
      BY <3>1
    <3>3. QED
      BY <2>2, <3>2
  <2>4. x[N + 1] = e
    BY <1>1
  <2>5. x \in Seq(Seq(ExactText)) /\ Len(x) = N + 1
    <3>1. \A i \in 1 .. N + 1 : i \in 1 .. N \/ i = N + 1
      BY <1>1
    <3>2. \A i \in 1 .. N + 1 : <<Normal[(returned'[i]).text]>> \in Seq(ExactText)
      BY <1>1, <1>2, <1>3, <3>1
    <3>3. QED
      BY <1>1, <3>2
  <2> HIDE DEF x, e, old
  <2> DEFINE y == Append(old, e)
  <2>6. /\ y \in Seq(Seq(ExactText)) /\ Len(y) = N + 1 /\ y[N + 1] = e
        /\ \A i \in 1 .. N : y[i] = old[i]
    BY <2>2
  <2> HIDE DEF y
  <2>7. \A i \in 1 .. N + 1 : x[i] = y[i]
    <3>1. \A i \in 1 .. N + 1 : i \in 1 .. N \/ i = N + 1
      BY <1>1
    <3>2. QED
      BY <2>3, <2>4, <2>6, <3>1
  <2>8. x = y
    BY <2>5, <2>6, <2>7, SeqEqual
  <2>9. QED
    BY <2>1, <2>8 DEF y, e, old
<1>6. PhrasesOf(N + 1)' = Append(PhrasesOf(N), Edges[o.text])
  <2> DEFINE e == Edges[o.text]
             old == PhrasesOf(N)
             x == [i \in 1 .. N + 1 |-> Edges[(returned'[i]).text]]
  <2>1. PhrasesOf(N + 1)' = x
    BY DEF PhrasesOf
  <2>2. e \in Seq(Fragment) /\ old \in Seq(Seq(Fragment)) /\ Len(old) = N
        /\ \A i \in 1 .. N : old[i] = Edges[returned[i].text]
    <3>1. e \in Seq(Fragment)
      BY <1>3
    <3>2. old \in Seq(Seq(Fragment))
      BY <1>1, <1>4
    <3>3. old = [i \in 1 .. N |-> Edges[returned[i].text]]
      BY DEF PhrasesOf
    <3>4. Len(old) = N /\ \A i \in 1 .. N : old[i] = Edges[returned[i].text]
      <4> HIDE DEF old
      <4>1. QED
        BY <1>1, <3>2, <3>3
    <3>5. QED
      BY <3>1, <3>2, <3>4
  <2>3. \A i \in 1 .. N : x[i] = old[i]
    BY <1>1, <2>2
  <2>4. x[N + 1] = e
    BY <1>1
  <2>5. x \in Seq(Seq(Fragment)) /\ Len(x) = N + 1
    <3>1. \A i \in 1 .. N + 1 : i \in 1 .. N \/ i = N + 1
      BY <1>1
    <3>2. \A i \in 1 .. N + 1 : Edges[(returned'[i]).text] \in Seq(Fragment)
      BY <1>1, <1>2, <1>3, <3>1
    <3>3. QED
      BY <1>1, <3>2
  <2> HIDE DEF x, e, old
  <2> DEFINE y == Append(old, e)
  <2>6. /\ y \in Seq(Seq(Fragment)) /\ Len(y) = N + 1 /\ y[N + 1] = e
        /\ \A i \in 1 .. N : y[i] = old[i]
    BY <2>2
  <2> HIDE DEF y
  <2>7. \A i \in 1 .. N + 1 : x[i] = y[i]
    <3>1. \A i \in 1 .. N + 1 : i \in 1 .. N \/ i = N + 1
      BY <1>1
    <3>2. QED
      BY <2>3, <2>4, <2>6, <3>1
  <2>8. x = y
    BY <2>5, <2>6, <2>7, SeqEqual
  <2>9. QED
    BY <2>1, <2>8 DEF y, e, old
<1>7. QED
  BY <1>1, <1>4, <1>5, <1>6

LEMMA CommitInv ==
  ASSUME IInv, Commit
  PROVE  IInv'
<1>1. PICK i \in DOMAIN call.viable :
        /\ \A j \in DOMAIN call.viable \ {i} : Better(call.viable[i], call.viable[j])
        /\ store' = Committed(call.viable[i].selections, call.viable[i].text)
        /\ returned' = Append(returned,
             [session |-> call.session, text |-> call.viable[i].text,
              rivals |-> {call.viable[j].text : j \in DOMAIN call.viable}])
        /\ chosen' = chosen \o call.viable[i].selections
  BY DEF Commit
<1>2. call # Idle /\ words' = [words EXCEPT ![call.session] = @ + Attempts] /\ call' = Idle
  BY DEF Commit, Finished
<1> DEFINE made == call.viable[i].selections
           t == call.viable[i].text
           rivals == {call.viable[j].text : j \in DOMAIN call.viable}
           o == [session |-> call.session, text |-> t, rivals |-> rivals]
<1> PICK N : N = Len(returned)
  OBVIOUS
<1>3. /\ words \in [Session -> Nat] /\ call \in Call
      /\ returned \in Seq(Output) /\ chosen \in Seq(Selection) /\ N \in Nat
      /\ store = [revision   |-> N,
                  structural |-> [r \in Rule |-> LastOf(Of(r, chosen), Horizon)],
                  exact      |-> Exact!Window(TextsOf(N)),
                  edges      |-> Edge!Window(PhrasesOf(N))]
  BY <1>2, TypesOf DEF IInv, OnlyReturnedOutputRemembered, CallTyped
<1>4. \A j \in DOMAIN call.viable : call.viable[j] \in Candidate
  BY <1>3 DEF Call
<1>5. made \in Seq(Selection) /\ t \in Text /\ o \in Output
  <2>1. made \in Seq(Selection) /\ t \in Text /\ rivals \subseteq Text
    BY <1>4 DEF Candidate
  <2>2. call.session \in Session
    BY <1>3 DEF Call
  <2> HIDE DEF made, t, rivals
  <2>3. QED
    BY <2>1, <2>2 DEF Output
<1>6. /\ returned' = Append(returned, o) /\ chosen' = chosen \o made /\ store' = Committed(made, t)
      /\ o.text = t /\ o.rivals = rivals
  BY <1>1
<1> HIDE DEF made, t, rivals, o
<1>7. /\ returned' \in Seq(Output) /\ Len(returned)' = N + 1
      /\ returned'[N + 1] = o
      /\ \A k \in 1 .. N : returned'[k] = returned[k]
      /\ \A n \in 0 .. N :
           /\ TextsOf(n)' = TextsOf(n) /\ TextsOf(n) \in Seq(Seq(ExactText))
           /\ PhrasesOf(n)' = PhrasesOf(n) /\ PhrasesOf(n) \in Seq(Seq(Fragment))
      /\ TextsOf(N + 1)' = Append(TextsOf(N), <<Normal[t]>>)
      /\ PhrasesOf(N + 1)' = Append(PhrasesOf(N), Edges[t])
  BY <1>3, <1>5, <1>6, Returning
<1>8. \A r \in Rule : /\ LastOf(LastOf(Of(r, chosen), Horizon) \o Of(r, made), Horizon)
                           = LastOf(Of(r, chosen'), Horizon)
                       /\ LastOf(Of(r, chosen'), Horizon) \in Seq(Production)
  <2> TAKE r \in Rule
  <2>1. /\ Of(r, chosen \o made) = Of(r, chosen) \o Of(r, made)
        /\ Of(r, chosen) \in Seq(Production) /\ Of(r, made) \in Seq(Production)
    BY <1>3, <1>5, OfConcat
  <2>2. Horizon \in Nat /\ Horizon <= Horizon
    BY ProfileAssumption
  <2>3. LastOf(LastOf(Of(r, chosen), Horizon) \o Of(r, made), Horizon)
          = LastOf(Of(r, chosen) \o Of(r, made), Horizon)
    BY <2>1, <2>2, HorizonSuffices
  <2>4. LastOf(Of(r, chosen) \o Of(r, made), Horizon) \in Seq(Production)
    <3>1. Of(r, chosen) \o Of(r, made) \in Seq(Production)
      BY <2>1
    <3>2. QED
      BY <2>2, <3>1, LastOfIs
  <2>5. QED
    BY <1>6, <2>1, <2>3, <2>4
<1>9. /\ Exact!Window(Append(store.exact, <<Normal[t]>>)) = Exact!Window(TextsOf(N + 1)')
      /\ Exact!Window(TextsOf(N + 1)') \in Seq(Seq(ExactText))
  <2>1. <<Normal[t]>> \in Seq(ExactText)
    BY <1>5, TextAssumption
  <2>2. TextsOf(N) \in Seq(Seq(ExactText)) /\ Append(TextsOf(N), <<Normal[t]>>) \in Seq(Seq(ExactText))
    BY <1>3, <1>7, <2>1
  <2>3. Exact!Window(Append(Exact!Window(TextsOf(N)), <<Normal[t]>>))
          = Exact!Window(Append(TextsOf(N), <<Normal[t]>>))
    BY <2>1, <2>2, ExactWindow
  <2>4. Exact!Window(Append(TextsOf(N), <<Normal[t]>>)) \in Seq(Seq(ExactText))
    BY <2>1, <2>2, ExactWindow
  <2>5. store.exact = Exact!Window(TextsOf(N))
    BY <1>3
  <2>6. QED
    BY <1>7, <2>3, <2>4, <2>5
<1>10. /\ Edge!Window(Append(store.edges, Edges[t])) = Edge!Window(PhrasesOf(N + 1)')
       /\ Edge!Window(PhrasesOf(N + 1)') \in Seq(Seq(Fragment))
  <2>1. Edges[t] \in Seq(Fragment)
    BY <1>5, TextAssumption
  <2>2. PhrasesOf(N) \in Seq(Seq(Fragment)) /\ Append(PhrasesOf(N), Edges[t]) \in Seq(Seq(Fragment))
    BY <1>3, <1>7, <2>1
  <2>3. Edge!Window(Append(Edge!Window(PhrasesOf(N)), Edges[t]))
          = Edge!Window(Append(PhrasesOf(N), Edges[t]))
    BY <2>1, <2>2, EdgeWindow
  <2>4. Edge!Window(Append(PhrasesOf(N), Edges[t])) \in Seq(Seq(Fragment))
    BY <2>1, <2>2, EdgeWindow
  <2>5. store.edges = Edge!Window(PhrasesOf(N))
    BY <1>3
  <2>6. QED
    BY <1>7, <2>3, <2>4, <2>5
<1>11. store' = [revision   |-> N + 1,
                 structural |-> [r \in Rule |-> LastOf(Of(r, chosen'), Horizon)],
                 exact      |-> Exact!Window(TextsOf(N + 1)'),
                 edges      |-> Edge!Window(PhrasesOf(N + 1)')]
  <2>1. store' = [revision   |-> store.revision + 1,
                  structural |-> [r \in Rule |-> LastOf(store.structural[r] \o Of(r, made), Horizon)],
                  exact      |-> Exact!Window(Append(store.exact, <<Normal[t]>>)),
                  edges      |-> Edge!Window(Append(store.edges, Edges[t]))]
    BY <1>6 DEF Committed
  <2>2. [r \in Rule |-> LastOf(store.structural[r] \o Of(r, made), Horizon)]
          = [r \in Rule |-> LastOf(Of(r, chosen'), Horizon)]
    BY <1>3, <1>8
  <2>3. store.revision = N
    BY <1>3
  <2>4. QED
    BY <1>9, <1>10, <2>1, <2>2, <2>3
<1>12. OnlyReturnedOutputRemembered'
  <2>1. chosen' \in Seq(Selection)
    BY <1>3, <1>5, <1>6
  <2>2. words' \in [Session -> Nat]
    <3>1. call.session \in Session /\ Attempts \in Nat
      BY <1>3, ProfileAssumption DEF Call
    <3>2. QED
      BY <1>2, <1>3, <3>1
  <2>3. store' \in [revision : Nat, structural : [Rule -> Seq(Production)],
                    exact : Seq(Seq(ExactText)), edges : Seq(Seq(Fragment))]
    <3>1. N + 1 \in Nat
      BY <1>3
    <3>2. [r \in Rule |-> LastOf(Of(r, chosen'), Horizon)] \in [Rule -> Seq(Production)]
      BY <1>8
    <3>3. QED
      BY <1>9, <1>10, <1>11, <3>1, <3>2
  <2>4. TypeOK'
    <3>1. (call = Idle)'
      BY <1>2
    <3>2. returned' \in Seq([session : Session, text : Text, rivals : SUBSET Text])
      BY <1>7 DEF Output
    <3>3. QED
      BY <2>1, <2>2, <2>3, <3>1, <3>2 DEF TypeOK
  <2>5. QED
    BY <1>7, <1>11, <2>4 DEF OnlyReturnedOutputRemembered
<1>13. HardGap'
  <2>1. KeepsGap(chosen \o made)
    BY <1>2 DEF IInv, CallSound, made
  <2>2. QED
    BY <1>6, <2>1 DEF HardGap, KeepsGap
<1>14. ASSUME NEW u \in rivals
       PROVE  \/ ExactCount(store.exact, t) < ExactCount(store.exact, u)
              \/ /\ ExactCount(store.exact, t) = ExactCount(store.exact, u)
                 /\ EdgeScore(store.edges, t) <= EdgeScore(store.edges, u)
  <2>1. PICK j \in DOMAIN call.viable : u = call.viable[j].text
    BY DEF rivals
  <2>2. /\ call.viable[i].exact = ExactCount(store.exact, t)
        /\ call.viable[i].edge = EdgeScore(store.edges, t)
        /\ call.viable[j].exact = ExactCount(store.exact, u)
        /\ call.viable[j].edge = EdgeScore(store.edges, u)
    BY <1>2, <2>1 DEF IInv, CallSound, t
  <2>3. /\ call.viable[i].exact \in Nat /\ call.viable[i].edge \in Nat
        /\ call.viable[j].exact \in Nat /\ call.viable[j].edge \in Nat
    BY <1>4 DEF Candidate
  <2>4. CASE j = i
    BY <2>2, <2>3, <2>4
  <2>5. CASE j # i
    <3>1. Better(call.viable[i], call.viable[j])
      BY <1>1, <2>5
    <3>2. QED
      BY <2>2, <2>3, <3>1 DEF Better
  <2>6. QED
    BY <2>4, <2>5
<1>15. LeastRepeatedReturned'
  <2>1. ASSUME NEW k \in 1 .. N + 1, NEW u \in (returned'[k]).rivals
        PROVE  \/ ExactCount(Exact!Window(TextsOf(k - 1)'), (returned'[k]).text)
                    < ExactCount(Exact!Window(TextsOf(k - 1)'), u)
               \/ /\ ExactCount(Exact!Window(TextsOf(k - 1)'), (returned'[k]).text)
                       = ExactCount(Exact!Window(TextsOf(k - 1)'), u)
                  /\ EdgeScore(Edge!Window(PhrasesOf(k - 1)'), (returned'[k]).text)
                       <= EdgeScore(Edge!Window(PhrasesOf(k - 1)'), u)
    <3>1. k - 1 \in 0 .. N
      BY <1>3
    <3>2. TextsOf(k - 1)' = TextsOf(k - 1) /\ PhrasesOf(k - 1)' = PhrasesOf(k - 1)
      BY <1>7, <3>1
    <3>3. CASE k \in 1 .. N
      <4>1. returned'[k] = returned[k] /\ k \in DOMAIN returned
        BY <1>3, <1>7, <3>3
      <4>2. \/ ExactCount(Exact!Window(TextsOf(k - 1)), returned[k].text)
                 < ExactCount(Exact!Window(TextsOf(k - 1)), u)
            \/ /\ ExactCount(Exact!Window(TextsOf(k - 1)), returned[k].text)
                    = ExactCount(Exact!Window(TextsOf(k - 1)), u)
               /\ EdgeScore(Edge!Window(PhrasesOf(k - 1)), returned[k].text)
                    <= EdgeScore(Edge!Window(PhrasesOf(k - 1)), u)
        BY <2>1, <4>1 DEF IInv, LeastRepeatedReturned
      <4>3. QED
        BY <3>2, <4>1, <4>2
    <3>4. CASE k = N + 1
      <4>1. returned'[k] = o /\ k - 1 = N
        BY <1>3, <1>7, <3>4
      <4>2. u \in rivals /\ (returned'[k]).text = t
        BY <1>6, <2>1, <4>1
      <4>3. store.exact = Exact!Window(TextsOf(k - 1)) /\ store.edges = Edge!Window(PhrasesOf(k - 1))
        BY <1>3, <4>1
      <4>4. QED
        BY <1>14, <3>2, <4>2, <4>3
    <3>5. QED
      BY <1>3, <3>3, <3>4
  <2>2. DOMAIN returned' = 1 .. N + 1
    BY <1>7
  <2>3. QED
    BY <2>1, <2>2 DEF LeastRepeatedReturned
<1>16. CallSound'
  BY <1>2 DEF CallSound
<1>17. QED
  BY <1>12, <1>13, <1>15, <1>16 DEF IInv

LEMMA StepInv == IInv /\ [Next]_vars => IInv'
<1> SUFFICES ASSUME IInv, [Next]_vars PROVE IInv'
  OBVIOUS
<1>1. CASE UNCHANGED vars
  BY <1>1, StutterInv
<1>2. ASSUME NEW s \in Session, NEW g \in Grammar, Begin(s, g) PROVE IInv'
  BY <1>2, BeginInv
<1>3. ASSUME NEW r \in Rule, NEW E \in SUBSET Production, NEW p \in Production, Select(r, E, p)
      PROVE  IInv'
  BY <1>3, SelectInv
<1>4. ASSUME NEW t \in Text, Succeed(t) PROVE IInv'
  BY <1>4, SucceedInv
<1>5. CASE Disqualify
  BY <1>5, DisqualifyInv
<1>6. CASE Commit
  BY <1>6, CommitInv
<1>7. CASE Fail
  BY <1>7, FailInv
<1>8. QED
  BY <1>1, <1>2, <1>3, <1>4, <1>5, <1>6, <1>7 DEF Next

-----------------------------------------------------------------------------
(* The theorems.                                                            *)

(* SamplerSession::generate keeps the whole of the invariant, whatever the  *)
(* profile, the budgets and the number of calls.                            *)
THEOREM TransactionInvariant == Spec => []IInv
<1>1. Init => IInv
  BY InitInv
<1>2. IInv /\ [Next]_vars => IInv'
  BY StepInv
<1>3. QED
  BY <1>1, <1>2, PTL DEF Spec

(* Only returned output changes visible-output history: at every moment the *)
(* store is what commit made of the outputs returned, and nothing of a      *)
(* candidate that generate expanded, ranked and discarded.                  *)
THEOREM OnlyReturnedRemembered == Spec => []OnlyReturnedOutputRemembered
<1>1. IInv => OnlyReturnedOutputRemembered
  BY DEF IInv
<1>2. QED
  BY <1>1, TransactionInvariant, PTL

(* The hard minimum gap of diverse_eligible_weights holds over everything   *)
(* ever returned, although the store keeps a horizon of each rule only and  *)
(* a call sees no more than that and its own selections.                    *)
THEOREM GapHeld == Spec => []HardGap
<1>1. IInv => HardGap
  BY DEF IInv
<1>2. QED
  BY <1>1, TransactionInvariant, PTL

(* What generate returns is among the least repeated of its candidates, by  *)
(* the history at the moment it is committed.                               *)
THEOREM LeastRepeatedWins == Spec => []LeastRepeatedReturned
<1>1. IInv => LeastRepeatedReturned
  BY DEF IInv
<1>2. QED
  BY <1>1, TransactionInvariant, PTL

(* A call that commits is one atomic generation of the text it returns, and *)
(* every other step changes neither the outputs nor the words of a session. *)
LEMMA CommitIsGenerate ==
  ASSUME IInv, Commit
  PROVE  \E s \in Session, t \in Text : Atomic!Generate(s, t)
<1>1. PICK i \in DOMAIN call.viable :
        returned' = Append(returned,
             [session |-> call.session, text |-> call.viable[i].text,
              rivals |-> {call.viable[j].text : j \in DOMAIN call.viable}])
  BY DEF Commit
<1>2. call # Idle /\ words' = [words EXCEPT ![call.session] = @ + Attempts]
  BY DEF Commit, Finished
<1>3. call \in Call /\ returned \in Seq(Output)
  BY <1>2, TypesOf DEF IInv, OnlyReturnedOutputRemembered, CallTyped
<1> DEFINE t == call.viable[i].text
           rivals == {call.viable[j].text : j \in DOMAIN call.viable}
           o == [session |-> call.session, text |-> t, rivals |-> rivals]
           Visible(q) == [session |-> q.session, text |-> q.text]
<1>4. call.session \in Session /\ t \in Text /\ rivals \subseteq Text
  <2>1. \A j \in DOMAIN call.viable : call.viable[j] \in Candidate
    BY <1>3 DEF Call
  <2>2. QED
    BY <1>3, <2>1 DEF Call, Candidate
<1>5. returned' = Append(returned, o)
  BY <1>1
<1> HIDE DEF t, rivals
<1>6. o \in Output /\ Visible(o) = [session |-> call.session, text |-> t]
  BY <1>4 DEF Output
<1> HIDE DEF o
<1> PICK N : N = Len(returned)
  OBVIOUS
<1>7. /\ N \in Nat /\ DOMAIN returned = 1 .. N /\ DOMAIN returned' = 1 .. N + 1
      /\ returned'[N + 1] = o /\ \A k \in 1 .. N : returned'[k] = returned[k]
  BY <1>3, <1>5, <1>6
<1> DEFINE before == [k \in DOMAIN returned |-> Visible(returned[k])]
           after == [k \in DOMAIN returned' |-> Visible(returned'[k])]
           e == [session |-> call.session, text |-> t]
           Shown == [session : Session, text : Text]
<1>8. before \in Seq(Shown) /\ Len(before) = N /\ e \in Shown
  <2>1. \A k \in 1 .. N : Visible(returned[k]) \in Shown
    <3>1. \A k \in 1 .. N : returned[k] \in Output
      BY <1>3, <1>7
    <3>2. QED
      BY <3>1 DEF Output
  <2>2. e \in Shown
    BY <1>4
  <2> HIDE DEF Visible, Shown
  <2>3. QED
    BY <1>7, <2>1, <2>2
<1>9. after = Append(before, e)
  <2>1. \A k \in 1 .. N : after[k] = before[k]
    <3>1. \A k \in 1 .. N : k \in 1 .. N + 1 /\ returned'[k] = returned[k]
      BY <1>7
    <3> HIDE DEF Visible
    <3>2. QED
      BY <1>7, <3>1
  <2>2. after[N + 1] = e
    <3>1. N + 1 \in 1 .. N + 1
      BY <1>7
    <3>2. after[N + 1] = Visible(o)
      <4> HIDE DEF Visible
      <4>1. QED
        BY <1>7, <3>1
    <3>3. QED
      BY <1>6, <3>2
  <2>3. \A k \in 1 .. N + 1 : k \in 1 .. N \/ k = N + 1
    BY <1>7
  <2>4. after \in Seq(Shown) /\ Len(after) = N + 1
    <3>1. \A k \in 1 .. N : before[k] \in Shown
      <4> HIDE DEF before, Shown
      <4>1. QED
        BY <1>7, <1>8
    <3>2. \A k \in 1 .. N + 1 : Visible(returned'[k]) \in Shown
      <4>1. \A k \in 1 .. N + 1 : after[k] \in Shown
        <5> HIDE DEF before, after, e, Shown
        <5>1. QED
          BY <1>8, <2>1, <2>2, <2>3, <3>1
      <4> HIDE DEF Visible, Shown
      <4>2. QED
        BY <1>7, <4>1
    <3> HIDE DEF Visible, Shown
    <3>3. QED
      BY <1>7, <3>2
  <2> HIDE DEF before, after, e, Shown
  <2> DEFINE y == Append(before, e)
  <2>5. /\ y \in Seq(Shown) /\ Len(y) = N + 1 /\ y[N + 1] = e
        /\ \A k \in 1 .. N : y[k] = before[k]
    BY <1>7, <1>8
  <2> HIDE DEF y
  <2>6. \A k \in 1 .. N + 1 : after[k] = y[k]
    BY <2>1, <2>2, <2>3, <2>5
  <2>7. after = y
    BY <2>4, <2>5, <2>6, SeqEqual
  <2>8. QED
    BY <2>7 DEF y
<1>10. QED
  BY <1>2, <1>4, <1>9 DEF Atomic!Generate

(* Diverse generation implements AtomicGeneration: to its callers a call is *)
(* one step that returns an output and spends the words of all its attempts *)
(* at once, or it changes nothing.                                          *)
THEOREM TransactionImplementsAtomic == Spec => ImplementsAtomic
<1>1. Init => Atomic!Init
  BY DEF Init, Atomic!Init
<1>2. ASSUME IInv, [Next]_vars
      PROVE  [Atomic!Next]_<<words, [i \in DOMAIN returned |->
                 [session |-> returned[i].session, text |-> returned[i].text]]>>
  <2>1. CASE UNCHANGED <<words, returned>>
    BY <2>1
  <2>2. CASE Commit
    BY <1>2, <2>2, CommitIsGenerate DEF Atomic!Next
  <2>3. UNCHANGED <<words, returned>> \/ Commit
    BY <1>2 DEF Next, Begin, Select, Succeed, Disqualify, Fail, vars
  <2>4. QED
    BY <2>1, <2>2, <2>3
<1>3. QED
  BY <1>1, <1>2, TransactionInvariant, PTL DEF Spec, ImplementsAtomic, Atomic!Spec
=============================================================================
