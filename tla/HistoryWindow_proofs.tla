------------------------- MODULE HistoryWindow_proofs -------------------------
(***************************************************************************)
(* Lemmas about HistoryWindow, for entries of any number and length: what  *)
(* appending an entry and taking one off does to occurrences and sizes,    *)
(* and that a window can be kept up push by push, from the window itself.  *)
(***************************************************************************)
EXTENDS HistoryWindow, FiniteSetTheorems, FunctionTheorems, WellFoundedInduction,
        SequenceTheorems, TLAPS

Entry == Seq(Fragment)
Entries == Seq(Entry)

-----------------------------------------------------------------------------
(* Counting.                                                                *)

(* Renaming the elements of a finite set does not change its cardinality.  *)
LEMMA Renamed ==
  ASSUME NEW S, NEW T, IsFiniteSet(S), NEW f \in [S -> T],
         \A x, y \in S : f[x] = f[y] => x = y,
         \A t \in T : \E x \in S : f[x] = t
  PROVE  IsFiniteSet(T) /\ Cardinality(T) = Cardinality(S)
<1>1. f \in Surjection(S, T) /\ f \in Injection(S, T)
  BY Fun_IsInj, Fun_IsSurj
<1>2. QED
  BY <1>1, FS_Surjection

LEMMA DisjointUnion ==
  ASSUME NEW S, NEW T, IsFiniteSet(S), IsFiniteSet(T), S \cap T = {}
  PROVE  /\ IsFiniteSet(S \cup T)
         /\ Cardinality(S \cup T) = Cardinality(S) + Cardinality(T)
<1>1. Cardinality(S \cap T) = 0
  BY FS_EmptySet
<1>2. Cardinality(S) \in Nat /\ Cardinality(T) \in Nat
  BY FS_CardinalityType
<1>3. /\ IsFiniteSet(S \cup T)
      /\ Cardinality(S \cup T) = Cardinality(S) + Cardinality(T) - Cardinality(S \cap T)
  BY FS_Union
<1>4. QED
  BY <1>1, <1>2, <1>3

LEMMA UpTo ==
  ASSUME NEW n \in Nat
  PROVE  IsFiniteSet(1 .. n) /\ Cardinality(1 .. n) = n
<1>1. 1 \in Int /\ n \in Int
  OBVIOUS
<1>2. IsFiniteSet(1 .. n) /\ Cardinality(1 .. n) = IF 1 > n THEN 0 ELSE n - 1 + 1
  BY <1>1, FS_Interval
<1>3. QED
  BY <1>2

(* Where a fragment stands in one entry, and the bytes of one entry.       *)
Places(e, f) == {j \in 1 .. Len(e) : e[j] = f}

Octets(e) == UNION {{j} \X (1 .. Bytes[e[j]]) : j \in 1 .. Len(e)}

Count(e, f) == Cardinality(Places(e, f))

Weight(e) == Cardinality(Octets(e))

LEMMA PlacesFinite ==
  ASSUME NEW e \in Entry, NEW f
  PROVE  IsFiniteSet(Places(e, f)) /\ Count(e, f) \in Nat
<1>1. IsFiniteSet(1 .. Len(e))
  BY FS_Interval DEF Entry
<1>2. Places(e, f) \in SUBSET (1 .. Len(e))
  BY DEF Places
<1>3. QED
  BY <1>1, <1>2, FS_Subset, FS_CardinalityType DEF Count

(* The sets are described by pairs.                                        *)
LEMMA OctetsAre ==
  ASSUME NEW e \in Entry
  PROVE  Octets(e) = {p \in Nat \X Nat : p[1] \in 1 .. Len(e) /\ p[2] \in 1 .. Bytes[e[p[1]]]}
<1>1. \A j \in 1 .. Len(e) : Bytes[e[j]] \in Nat
  BY BytesAssumption DEF Entry
<1>2. QED
  BY <1>1 DEF Octets, Entry

LEMMA OctetsFinite ==
  ASSUME NEW e \in Entry
  PROVE  IsFiniteSet(Octets(e)) /\ Weight(e) \in Nat
<1> DEFINE row == [j \in 1 .. Len(e) |-> {j} \X (1 .. Bytes[e[j]])]
           rows == {{j} \X (1 .. Bytes[e[j]]) : j \in 1 .. Len(e)}
<1>1. IsFiniteSet(1 .. Len(e))
  BY FS_Interval DEF Entry
<1>2. row \in Surjection(1 .. Len(e), rows)
  BY Fun_IsSurj
<1>3. IsFiniteSet(rows)
  BY <1>1, <1>2, FS_Surjection
<1>4. ASSUME NEW j \in 1 .. Len(e)
      PROVE  IsFiniteSet({j} \X (1 .. Bytes[e[j]]))
  <2>1. Bytes[e[j]] \in Nat
    BY BytesAssumption DEF Entry
  <2>2. IsFiniteSet(1 .. Bytes[e[j]]) /\ IsFiniteSet({j})
    BY <2>1, UpTo, FS_Singleton
  <2>3. QED
    BY <2>2, FS_Product
<1>5. \A r \in rows : IsFiniteSet(r)
  BY <1>4
<1>6. IsFiniteSet(UNION rows)
  BY <1>3, <1>5, FS_UNION
<1>7. QED
  BY <1>6, FS_CardinalityType DEF Octets, Weight

(* The first fragment of an entry counts for itself.                       *)
LEMMA CountTail ==
  ASSUME NEW e \in Entry, e # <<>>, NEW f
  PROVE  Count(e, f) = Count(Tail(e), f) + IF Head(e) = f THEN 1 ELSE 0
<1> DEFINE first == IF Head(e) = f THEN {1} ELSE {}
           rest == {j \in 2 .. Len(e) : e[j] = f}
           shift == [j \in Places(Tail(e), f) |-> j + 1]
<1>1. Tail(e) \in Entry /\ Len(Tail(e)) = Len(e) - 1 /\ Len(e) \in Nat /\ Len(e) >= 1
      /\ Head(e) = e[1] /\ \A j \in 1 .. Len(e) - 1 : Tail(e)[j] = e[j + 1]
  BY DEF Entry
<1>2. shift \in [Places(Tail(e), f) -> rest]
  BY <1>1 DEF Places
<1>3. \A x, y \in Places(Tail(e), f) : shift[x] = shift[y] => x = y
  BY <1>1 DEF Places
<1>4. ASSUME NEW t \in rest PROVE \E x \in Places(Tail(e), f) : shift[x] = t
  <2>1. t - 1 \in Places(Tail(e), f)
    BY <1>1 DEF Places
  <2>2. QED
    BY <1>1, <2>1
<1> HIDE DEF shift, rest
<1>5. IsFiniteSet(rest) /\ Cardinality(rest) = Count(Tail(e), f)
  BY <1>1, <1>2, <1>3, <1>4, PlacesFinite, Renamed DEF Count
<1>6. IsFiniteSet(first) /\ Cardinality(first) = IF Head(e) = f THEN 1 ELSE 0
  BY FS_Singleton, FS_EmptySet
<1>7. Places(e, f) = rest \cup first /\ rest \cap first = {}
  BY <1>1 DEF Places, rest
<1>8. QED
  <2> HIDE DEF first, rest
  <2>1. Cardinality(rest \cup first) = Cardinality(rest) + Cardinality(first)
    BY <1>5, <1>6, <1>7, DisjointUnion
  <2>2. QED
    BY <1>5, <1>6, <1>7, <2>1 DEF Count

LEMMA WeightTail ==
  ASSUME NEW e \in Entry, e # <<>>
  PROVE  Weight(e) = Weight(Tail(e)) + Bytes[Head(e)]
<1> DEFINE first == {1} \X (1 .. Bytes[Head(e)])
           rest == {p \in Octets(e) : p[1] # 1}
           shift == [p \in Octets(Tail(e)) |-> <<p[1] + 1, p[2]>>]
           number == [b \in 1 .. Bytes[Head(e)] |-> <<1, b>>]
<1>1. Tail(e) \in Entry /\ Len(Tail(e)) = Len(e) - 1 /\ Len(e) \in Nat /\ Len(e) >= 1
      /\ Head(e) = e[1] /\ \A j \in 1 .. Len(e) - 1 : Tail(e)[j] = e[j + 1]
  BY DEF Entry
<1>2. Bytes[Head(e)] \in Nat
  BY <1>1, BytesAssumption DEF Entry
<1>3. /\ Octets(e) = {p \in Nat \X Nat : p[1] \in 1 .. Len(e) /\ p[2] \in 1 .. Bytes[e[p[1]]]}
      /\ Octets(Tail(e)) = {p \in Nat \X Nat : p[1] \in 1 .. Len(e) - 1 /\ p[2] \in 1 .. Bytes[e[p[1] + 1]]}
  BY <1>1, OctetsAre
<1>4. shift \in [Octets(Tail(e)) -> rest]
  BY <1>1, <1>3
<1>5. \A x, y \in Octets(Tail(e)) : shift[x] = shift[y] => x = y
  BY <1>3
<1>6. ASSUME NEW t \in rest PROVE \E x \in Octets(Tail(e)) : shift[x] = t
  <2> DEFINE x == <<t[1] - 1, t[2]>>
  <2>1. t \in Nat \X Nat /\ t[1] \in 2 .. Len(e) /\ t[2] \in 1 .. Bytes[e[t[1]]]
    BY <1>1, <1>3
  <2>2. x \in Octets(Tail(e)) /\ <<x[1] + 1, x[2]>> = t
    BY <1>1, <1>3, <2>1
  <2>3. QED
    BY <2>2
<1>7. IsFiniteSet(rest) /\ Cardinality(rest) = Weight(Tail(e))
  <2> HIDE DEF shift, rest
  <2>1. QED
    BY <1>1, <1>4, <1>5, <1>6, OctetsFinite, Renamed DEF Weight
<1>8. IsFiniteSet(first) /\ Cardinality(first) = Bytes[Head(e)]
  <2>1. IsFiniteSet(1 .. Bytes[Head(e)]) /\ Cardinality(1 .. Bytes[Head(e)]) = Bytes[Head(e)]
    BY <1>2, UpTo
  <2>2. number \in [1 .. Bytes[Head(e)] -> first] /\ \A b \in 1 .. Bytes[Head(e)] : number[b] = <<1, b>>
    OBVIOUS
  <2>3. (\A x, y \in 1 .. Bytes[Head(e)] : number[x] = number[y] => x = y)
        /\ \A t \in first : \E x \in 1 .. Bytes[Head(e)] : number[x] = t
    OBVIOUS
  <2> HIDE DEF number, first
  <2>4. QED
    BY <2>1, <2>2, <2>3, Renamed
<1>9. Octets(e) = rest \cup first /\ rest \cap first = {}
  BY <1>1, <1>3
<1>10. QED
  <2> HIDE DEF rest, first
  <2>1. Cardinality(rest \cup first) = Cardinality(rest) + Cardinality(first)
    BY <1>7, <1>8, <1>9, DisjointUnion
  <2>2. QED
    BY <1>7, <1>8, <1>9, <2>1 DEF Weight

-----------------------------------------------------------------------------
(* Sequences of entries.                                                    *)

At(s, f) == {p \in Positions(s) : FragmentAt(s, p) = f}

LEMMA PositionsAre ==
  ASSUME NEW s \in Entries
  PROVE  Positions(s) = {p \in Nat \X Nat : p[1] \in 1 .. Len(s) /\ p[2] \in 1 .. Len(s[p[1]])}
<1>1. \A i \in 1 .. Len(s) : s[i] \in Seq(Fragment) /\ Len(s[i]) \in Nat
  BY DEF Entries, Entry
<1>2. QED
  BY <1>1 DEF Positions, Entries

LEMMA PayloadAre ==
  ASSUME NEW s \in Entries
  PROVE  /\ \A p \in Positions(s) : Bytes[FragmentAt(s, p)] \in Nat
         /\ Payload(s) = {q \in (Nat \X Nat) \X Nat :
              q[1] \in Positions(s) /\ q[2] \in 1 .. Bytes[FragmentAt(s, q[1])]}
<1>1. Positions(s) = {p \in Nat \X Nat : p[1] \in 1 .. Len(s) /\ p[2] \in 1 .. Len(s[p[1]])}
  BY PositionsAre
<1>2. ASSUME NEW p \in Positions(s) PROVE Bytes[FragmentAt(s, p)] \in Nat
  <2>1. s[p[1]] \in Seq(Fragment) /\ p[2] \in 1 .. Len(s[p[1]])
    BY <1>1 DEF Entries, Entry
  <2>2. s[p[1]][p[2]] \in Fragment
    BY <2>1
  <2>3. QED
    BY <2>2, BytesAssumption DEF FragmentAt
<1>3. Positions(s) \subseteq Nat \X Nat
  BY <1>1
<1>4. QED
  BY <1>2, <1>3 DEF Payload

LEMMA PositionsFinite ==
  ASSUME NEW s \in Entries
  PROVE  IsFiniteSet(Positions(s))
<1> DEFINE rows == {{i} \X (1 .. Len(s[i])) : i \in 1 .. Len(s)}
           row == [i \in 1 .. Len(s) |-> {i} \X (1 .. Len(s[i]))]
<1>1. IsFiniteSet(1 .. Len(s))
  BY UpTo DEF Entries
<1>2. row \in Surjection(1 .. Len(s), rows)
  BY Fun_IsSurj
<1>3. IsFiniteSet(rows)
  BY <1>1, <1>2, FS_Surjection
<1>4. ASSUME NEW i \in 1 .. Len(s) PROVE IsFiniteSet({i} \X (1 .. Len(s[i])))
  <2>1. Len(s[i]) \in Nat
    BY DEF Entries, Entry
  <2>2. IsFiniteSet(1 .. Len(s[i])) /\ IsFiniteSet({i})
    BY <2>1, UpTo, FS_Singleton
  <2>3. QED
    BY <2>2, FS_Product
<1>5. \A r \in rows : IsFiniteSet(r)
  BY <1>4
<1>6. QED
  BY <1>3, <1>5, FS_UNION DEF Positions

LEMMA AtFinite ==
  ASSUME NEW s \in Entries, NEW f
  PROVE  /\ IsFiniteSet(At(s, f)) /\ Occurrences(s, f) = Cardinality(At(s, f))
         /\ Occurrences(s, f) \in Nat
<1>1. At(s, f) \in SUBSET Positions(s)
  BY DEF At
<1>2. IsFiniteSet(At(s, f))
  BY <1>1, PositionsFinite, FS_Subset
<1>3. QED
  BY <1>2, FS_CardinalityType DEF Occurrences, At

LEMMA PayloadFinite ==
  ASSUME NEW s \in Entries
  PROVE  IsFiniteSet(Payload(s)) /\ Size(s) \in Nat
<1> DEFINE rows == {{p} \X (1 .. Bytes[FragmentAt(s, p)]) : p \in Positions(s)}
           row == [p \in Positions(s) |-> {p} \X (1 .. Bytes[FragmentAt(s, p)])]
<1>1. IsFiniteSet(Positions(s))
  BY PositionsFinite
<1>2. row \in Surjection(Positions(s), rows)
  BY Fun_IsSurj
<1>3. IsFiniteSet(rows)
  BY <1>1, <1>2, FS_Surjection
<1>4. ASSUME NEW p \in Positions(s) PROVE IsFiniteSet({p} \X (1 .. Bytes[FragmentAt(s, p)]))
  <2>1. IsFiniteSet(1 .. Bytes[FragmentAt(s, p)]) /\ IsFiniteSet({p})
    BY PayloadAre, UpTo, FS_Singleton
  <2>2. QED
    BY <2>1, FS_Product
<1>5. \A r \in rows : IsFiniteSet(r)
  BY <1>4
<1>6. IsFiniteSet(Payload(s))
  BY <1>3, <1>5, FS_UNION DEF Payload
<1>7. QED
  BY <1>6, FS_CardinalityType DEF Size

LEMMA NothingHeld ==
  Size(<<>>) = 0 /\ \A f : Occurrences(<<>>, f) = 0
<1>1. <<>> \in Entries /\ Len(<<>>) = 0
  BY DEF Entries
<1>2. Positions(<<>>) = {}
  BY <1>1, PositionsAre
<1>3. Payload(<<>>) = {} /\ \A f : At(<<>>, f) = {}
  BY <1>2 DEF Payload, At
<1>4. QED
  BY <1>1, <1>3, AtFinite, FS_EmptySet DEF Size

(* A pushed entry adds its own occurrences and bytes.                      *)
LEMMA OccurrencesAppend ==
  ASSUME NEW s \in Entries, NEW e \in Entry, NEW f
  PROVE  Occurrences(Append(s, e), f) = Occurrences(s, f) + Count(e, f)
<1> DEFINE t == Append(s, e)
           last == {p \in At(t, f) : p[1] = Len(s) + 1}
           name == [j \in Places(e, f) |-> <<Len(s) + 1, j>>]
<1>1. /\ t \in Entries /\ Len(s) \in Nat /\ Len(t) = Len(s) + 1
      /\ t[Len(s) + 1] = e /\ \A i \in 1 .. Len(s) : t[i] = s[i]
  BY DEF Entries
<1> HIDE DEF t
<1>2. Positions(t) = {p \in Nat \X Nat : p[1] \in 1 .. Len(s) + 1 /\ p[2] \in 1 .. Len(t[p[1]])}
  BY <1>1, PositionsAre
<1>3. Positions(s) = {p \in Nat \X Nat : p[1] \in 1 .. Len(s) /\ p[2] \in 1 .. Len(s[p[1]])}
  BY PositionsAre
<1>4. At(t, f) = At(s, f) \cup last /\ At(s, f) \cap last = {}
  BY <1>1, <1>2, <1>3 DEF At, FragmentAt
<1>5. last = {p \in Nat \X Nat : p[1] = Len(s) + 1 /\ p[2] \in 1 .. Len(e) /\ e[p[2]] = f}
  BY <1>1, <1>2 DEF At, FragmentAt
<1>6. Len(e) \in Nat
  BY DEF Entry
<1>7. name \in [Places(e, f) -> last] /\ \A x, y \in Places(e, f) : name[x] = name[y] => x = y
  BY <1>1, <1>5, <1>6 DEF Places
<1>8. ASSUME NEW p \in last PROVE \E j \in Places(e, f) : name[j] = p
  <2>1. p[2] \in Places(e, f) /\ p = <<Len(s) + 1, p[2]>>
    BY <1>5 DEF Places
  <2>2. QED
    BY <2>1
<1> HIDE DEF last, name
<1>9. IsFiniteSet(last) /\ Cardinality(last) = Count(e, f)
  BY <1>7, <1>8, PlacesFinite, Renamed DEF Count
<1>10. Cardinality(At(s, f) \cup last) = Cardinality(At(s, f)) + Cardinality(last)
  BY <1>4, <1>9, AtFinite, DisjointUnion
<1>11. QED
  BY <1>1, <1>4, <1>9, <1>10, AtFinite DEF t

LEMMA SizeAppend ==
  ASSUME NEW s \in Entries, NEW e \in Entry
  PROVE  Size(Append(s, e)) = Size(s) + Weight(e)
<1> DEFINE t == Append(s, e)
           last == {q \in Payload(t) : q[1][1] = Len(s) + 1}
           name == [p \in Octets(e) |-> <<<<Len(s) + 1, p[1]>>, p[2]>>]
<1>1. /\ t \in Entries /\ Len(s) \in Nat /\ Len(t) = Len(s) + 1
      /\ t[Len(s) + 1] = e /\ \A i \in 1 .. Len(s) : t[i] = s[i]
  BY DEF Entries
<1> HIDE DEF t
<1>2. Positions(t) = {p \in Nat \X Nat : p[1] \in 1 .. Len(s) + 1 /\ p[2] \in 1 .. Len(t[p[1]])}
  BY <1>1, PositionsAre
<1>3. Positions(s) = {p \in Nat \X Nat : p[1] \in 1 .. Len(s) /\ p[2] \in 1 .. Len(s[p[1]])}
  BY PositionsAre
<1>4. /\ Payload(t) = {q \in (Nat \X Nat) \X Nat :
           q[1] \in Positions(t) /\ q[2] \in 1 .. Bytes[t[q[1][1]][q[1][2]]]}
      /\ Payload(s) = {q \in (Nat \X Nat) \X Nat :
           q[1] \in Positions(s) /\ q[2] \in 1 .. Bytes[s[q[1][1]][q[1][2]]]}
  BY <1>1, PayloadAre DEF FragmentAt
<1>5. Payload(t) = Payload(s) \cup last /\ Payload(s) \cap last = {}
  <2>1. \A p \in Positions(t) : p[1] # Len(s) + 1 <=> p \in Positions(s)
    BY <1>1, <1>2, <1>3
  <2>2. \A p \in Positions(s) : p \in Positions(t) /\ t[p[1]] = s[p[1]] /\ p[1] # Len(s) + 1
    BY <1>1, <1>2, <1>3
  <2>3. QED
    BY <1>4, <2>1, <2>2
<1>6. /\ Len(e) \in Nat
      /\ Octets(e) = {p \in Nat \X Nat : p[1] \in 1 .. Len(e) /\ p[2] \in 1 .. Bytes[e[p[1]]]}
  BY OctetsAre DEF Entry
<1>7. last = {q \in (Nat \X Nat) \X Nat :
        q[1][1] = Len(s) + 1 /\ q[1][2] \in 1 .. Len(e) /\ q[2] \in 1 .. Bytes[e[q[1][2]]]}
  BY <1>1, <1>2, <1>4
<1>8. name \in [Octets(e) -> last] /\ \A x, y \in Octets(e) : name[x] = name[y] => x = y
  BY <1>1, <1>6, <1>7
<1>9. ASSUME NEW q \in last PROVE \E p \in Octets(e) : name[p] = q
  <2>1. <<q[1][2], q[2]>> \in Octets(e) /\ q = <<<<Len(s) + 1, q[1][2]>>, q[2]>>
    BY <1>6, <1>7
  <2>2. QED
    BY <2>1
<1> HIDE DEF last, name
<1>10. IsFiniteSet(last) /\ Cardinality(last) = Weight(e)
  BY <1>8, <1>9, OctetsFinite, Renamed DEF Weight
<1>11. Cardinality(Payload(s) \cup last) = Cardinality(Payload(s)) + Cardinality(last)
  BY <1>5, <1>10, PayloadFinite, DisjointUnion
<1>12. QED
  BY <1>5, <1>10, <1>11 DEF t, Size

(* The oldest entry takes its own occurrences and bytes with it.           *)
LEMMA OccurrencesTail ==
  ASSUME NEW s \in Entries, s # <<>>, NEW f
  PROVE  Occurrences(s, f) = Count(Head(s), f) + Occurrences(Tail(s), f)
<1> DEFINE first == {p \in At(s, f) : p[1] = 1}
           rest == {p \in At(s, f) : p[1] # 1}
           name == [j \in Places(Head(s), f) |-> <<1, j>>]
           shift == [p \in At(Tail(s), f) |-> <<p[1] + 1, p[2]>>]
<1>1. /\ Tail(s) \in Entries /\ Len(s) \in Nat /\ Len(s) >= 1 /\ Len(Tail(s)) = Len(s) - 1
      /\ Head(s) = s[1] /\ Head(s) \in Entry /\ \A i \in 1 .. Len(s) - 1 : Tail(s)[i] = s[i + 1]
  BY DEF Entries
<1>2. At(s, f) = {p \in Nat \X Nat :
        p[1] \in 1 .. Len(s) /\ p[2] \in 1 .. Len(s[p[1]]) /\ s[p[1]][p[2]] = f}
  BY PositionsAre DEF At, FragmentAt
<1>3. At(Tail(s), f) = {p \in Nat \X Nat :
        p[1] \in 1 .. Len(s) - 1 /\ p[2] \in 1 .. Len(s[p[1] + 1]) /\ s[p[1] + 1][p[2]] = f}
  BY <1>1, PositionsAre DEF At, FragmentAt
<1>4. At(s, f) = first \cup rest /\ first \cap rest = {}
  OBVIOUS
<1>5. IsFiniteSet(first) /\ Cardinality(first) = Count(Head(s), f)
  <2>1. Len(Head(s)) \in Nat
    BY <1>1 DEF Entry
  <2>2. name \in [Places(Head(s), f) -> first]
        /\ \A x, y \in Places(Head(s), f) : name[x] = name[y] => x = y
    BY <1>1, <1>2, <2>1 DEF Places
  <2>3. ASSUME NEW p \in first PROVE \E j \in Places(Head(s), f) : name[j] = p
    <3>1. p[2] \in Places(Head(s), f) /\ p = <<1, p[2]>>
      BY <1>1, <1>2 DEF Places
    <3>2. QED
      BY <3>1
  <2> HIDE DEF first, name
  <2>4. QED
    BY <1>1, <2>2, <2>3, PlacesFinite, Renamed DEF Count
<1>6. IsFiniteSet(rest) /\ Cardinality(rest) = Occurrences(Tail(s), f)
  <2>1. shift \in [At(Tail(s), f) -> rest]
    BY <1>1, <1>2, <1>3
  <2>2. \A x, y \in At(Tail(s), f) : shift[x] = shift[y] => x = y
    BY <1>3
  <2>3. ASSUME NEW p \in rest PROVE \E x \in At(Tail(s), f) : shift[x] = p
    <3> DEFINE x == <<p[1] - 1, p[2]>>
    <3>1. x \in At(Tail(s), f) /\ <<x[1] + 1, x[2]>> = p
      BY <1>1, <1>2, <1>3
    <3>2. QED
      BY <3>1
  <2> HIDE DEF rest, shift
  <2>4. IsFiniteSet(At(Tail(s), f)) /\ Occurrences(Tail(s), f) = Cardinality(At(Tail(s), f))
    BY <1>1, AtFinite
  <2>5. QED
    BY <2>1, <2>2, <2>3, <2>4, Renamed
<1> HIDE DEF first, rest
<1>7. Cardinality(first \cup rest) = Cardinality(first) + Cardinality(rest)
  BY <1>4, <1>5, <1>6, DisjointUnion
<1>8. QED
  BY <1>4, <1>5, <1>6, <1>7, AtFinite

LEMMA SizeTail ==
  ASSUME NEW s \in Entries, s # <<>>
  PROVE  Size(s) = Weight(Head(s)) + Size(Tail(s))
<1> DEFINE first == {q \in Payload(s) : q[1][1] = 1}
           rest == {q \in Payload(s) : q[1][1] # 1}
           name == [p \in Octets(Head(s)) |-> <<<<1, p[1]>>, p[2]>>]
           shift == [q \in Payload(Tail(s)) |-> <<<<q[1][1] + 1, q[1][2]>>, q[2]>>]
<1>1. /\ Tail(s) \in Entries /\ Len(s) \in Nat /\ Len(s) >= 1 /\ Len(Tail(s)) = Len(s) - 1
      /\ Head(s) = s[1] /\ Head(s) \in Entry /\ \A i \in 1 .. Len(s) - 1 : Tail(s)[i] = s[i + 1]
  BY DEF Entries
<1>2. Payload(s) = {q \in (Nat \X Nat) \X Nat :
        q[1][1] \in 1 .. Len(s) /\ q[1][2] \in 1 .. Len(s[q[1][1]])
        /\ q[2] \in 1 .. Bytes[s[q[1][1]][q[1][2]]]}
  BY PositionsAre, PayloadAre DEF FragmentAt
<1>3. Payload(Tail(s)) = {q \in (Nat \X Nat) \X Nat :
        q[1][1] \in 1 .. Len(s) - 1 /\ q[1][2] \in 1 .. Len(s[q[1][1] + 1])
        /\ q[2] \in 1 .. Bytes[s[q[1][1] + 1][q[1][2]]]}
  <2>1. Payload(Tail(s)) = {q \in (Nat \X Nat) \X Nat :
          q[1][1] \in 1 .. Len(Tail(s)) /\ q[1][2] \in 1 .. Len(Tail(s)[q[1][1]])
          /\ q[2] \in 1 .. Bytes[Tail(s)[q[1][1]][q[1][2]]]}
    BY <1>1, PositionsAre, PayloadAre DEF FragmentAt
  <2>2. QED
    BY <1>1, <2>1
<1>4. Payload(s) = first \cup rest /\ first \cap rest = {}
  OBVIOUS
<1>5. IsFiniteSet(first) /\ Cardinality(first) = Weight(Head(s))
  <2>1. Octets(Head(s)) = {p \in Nat \X Nat : p[1] \in 1 .. Len(s[1]) /\ p[2] \in 1 .. Bytes[s[1][p[1]]]}
    BY <1>1, OctetsAre
  <2>2. name \in [Octets(Head(s)) -> first]
        /\ \A x, y \in Octets(Head(s)) : name[x] = name[y] => x = y
    BY <1>1, <1>2, <2>1
  <2>3. ASSUME NEW q \in first PROVE \E p \in Octets(Head(s)) : name[p] = q
    <3>1. <<q[1][2], q[2]>> \in Octets(Head(s)) /\ q = <<<<1, q[1][2]>>, q[2]>>
      BY <1>1, <1>2, <2>1
    <3>2. QED
      BY <3>1
  <2> HIDE DEF first, name
  <2>4. QED
    BY <1>1, <2>2, <2>3, OctetsFinite, Renamed DEF Weight
<1>6. IsFiniteSet(rest) /\ Cardinality(rest) = Size(Tail(s))
  <2>1. shift \in [Payload(Tail(s)) -> rest]
    BY <1>1, <1>2, <1>3
  <2>2. \A x, y \in Payload(Tail(s)) : shift[x] = shift[y] => x = y
    BY <1>3
  <2>3. ASSUME NEW q \in rest PROVE \E x \in Payload(Tail(s)) : shift[x] = q
    <3> DEFINE x == <<<<q[1][1] - 1, q[1][2]>>, q[2]>>
    <3>1. /\ q \in (Nat \X Nat) \X Nat /\ q[1][1] \in 2 .. Len(s) /\ q[1][2] \in 1 .. Len(s[q[1][1]])
          /\ q[2] \in 1 .. Bytes[s[q[1][1]][q[1][2]]]
      BY <1>1, <1>2
    <3>2. x \in Payload(Tail(s)) /\ q[1][1] - 1 + 1 = q[1][1]
      BY <1>1, <1>3, <3>1
    <3>3. <<<<x[1][1] + 1, x[1][2]>>, x[2]>> = q
      BY <3>1, <3>2
    <3>4. QED
      BY <3>2, <3>3
  <2> HIDE DEF rest, shift
  <2>4. QED
    BY <1>1, <2>1, <2>2, <2>3, PayloadFinite, Renamed DEF Size
<1> HIDE DEF first, rest
<1>7. Cardinality(first \cup rest) = Cardinality(first) + Cardinality(rest)
  BY <1>4, <1>5, <1>6, DisjointUnion
<1>8. QED
  BY <1>4, <1>5, <1>6, <1>7 DEF Size

-----------------------------------------------------------------------------
(* Windows.                                                                 *)

LEMMA SuffixIs ==
  ASSUME NEW s \in Entries, NEW n \in 0 .. Len(s)
  PROVE  /\ Suffix(s, n) \in Entries /\ Len(Suffix(s, n)) = n
         /\ \A i \in 1 .. n : Suffix(s, n)[i] = s[Len(s) - n + i]
BY DEF Suffix, Entries

LEMMA SuffixTail ==
  ASSUME NEW s \in Entries, NEW n \in 1 .. Len(s)
  PROVE  Suffix(s, n) # <<>> /\ Tail(Suffix(s, n)) = Suffix(s, n - 1)
<1>1. Len(s) \in Nat
  BY DEF Entries
<1>2. n \in 0 .. Len(s) /\ n - 1 \in 0 .. Len(s)
  BY <1>1
<1>3. /\ Suffix(s, n) \in Seq(Entry) /\ Len(Suffix(s, n)) = n
      /\ Suffix(s, n - 1) \in Seq(Entry) /\ Len(Suffix(s, n - 1)) = n - 1
  BY <1>2, SuffixIs DEF Entries
<1>4. Suffix(s, n) # <<>> /\ Tail(Suffix(s, n)) \in Seq(Entry) /\ Len(Tail(Suffix(s, n))) = n - 1
  BY <1>1, <1>3
<1>5. ASSUME NEW i \in 1 .. n - 1
      PROVE  Tail(Suffix(s, n))[i] = Suffix(s, n - 1)[i]
  <2>1. Tail(Suffix(s, n))[i] = Suffix(s, n)[i + 1]
    BY <1>1, <1>3, <1>4
  <2>2. Suffix(s, n)[i + 1] = s[Len(s) - n + (i + 1)]
    BY <1>1, <1>2, SuffixIs
  <2>3. Suffix(s, n - 1)[i] = s[Len(s) - (n - 1) + i]
    BY <1>1, <1>2, SuffixIs
  <2>4. Len(s) - n + (i + 1) = Len(s) - (n - 1) + i
    BY <1>1
  <2>5. QED
    BY <2>1, <2>2, <2>3, <2>4
<1>6. QED
  BY <1>3, <1>4, <1>5, SeqEqual

LEMMA SuffixAppend ==
  ASSUME NEW s \in Entries, NEW e \in Entry, NEW n \in 0 .. Len(s)
  PROVE  Suffix(Append(s, e), n + 1) = Append(Suffix(s, n), e)
<1>1. /\ Len(s) \in Nat /\ Append(s, e) \in Entries /\ Len(Append(s, e)) = Len(s) + 1
      /\ Append(s, e)[Len(s) + 1] = e /\ \A i \in 1 .. Len(s) : Append(s, e)[i] = s[i]
  BY DEF Entries
<1>2. n + 1 \in 0 .. Len(Append(s, e))
  BY <1>1
<1>3. /\ Suffix(Append(s, e), n + 1) \in Seq(Entry) /\ Len(Suffix(Append(s, e), n + 1)) = n + 1
      /\ Suffix(s, n) \in Seq(Entry) /\ Len(Suffix(s, n)) = n
  BY <1>1, <1>2, SuffixIs DEF Entries
<1>4. /\ Append(Suffix(s, n), e) \in Seq(Entry) /\ Len(Append(Suffix(s, n), e)) = n + 1
      /\ \A i \in 1 .. n : Append(Suffix(s, n), e)[i] = Suffix(s, n)[i]
      /\ Append(Suffix(s, n), e)[n + 1] = e
  BY <1>3
<1>5. ASSUME NEW i \in 1 .. n + 1
      PROVE  Suffix(Append(s, e), n + 1)[i] = Append(Suffix(s, n), e)[i]
  <2>1. Suffix(Append(s, e), n + 1)[i] = Append(s, e)[Len(s) - n + i]
    <3>1. Suffix(Append(s, e), n + 1)[i] = Append(s, e)[Len(Append(s, e)) - (n + 1) + i]
      BY <1>1, <1>2, SuffixIs
    <3>2. Len(Append(s, e)) - (n + 1) + i = Len(s) - n + i
      BY <1>1
    <3>3. QED
      BY <3>1, <3>2
  <2>2. CASE i = n + 1
    BY <1>1, <1>4, <2>1, <2>2
  <2>3. CASE i \in 1 .. n
    <3>1. Suffix(s, n)[i] = s[Len(s) - n + i] /\ Len(s) - n + i \in 1 .. Len(s)
      BY <1>1, <2>3, SuffixIs
    <3>2. QED
      BY <1>1, <1>4, <2>1, <2>3, <3>1
  <2>4. i = n + 1 \/ i \in 1 .. n
    BY <1>1
  <2>5. QED
    BY <2>2, <2>3, <2>4
<1>6. QED
  BY <1>3, <1>4, <1>5, SeqEqual

LEMMA SuffixSuffix ==
  ASSUME NEW s \in Entries, NEW n \in 0 .. Len(s), NEW m \in 0 .. n
  PROVE  Suffix(Suffix(s, n), m) = Suffix(s, m)
<1> DEFINE t == Suffix(s, n)
<1>1. Len(s) \in Nat /\ n \in Nat /\ m \in Nat /\ m \in 0 .. Len(s)
  BY DEF Entries
<1>2. t \in Entries /\ Len(t) = n /\ \A i \in 1 .. n : t[i] = s[Len(s) - n + i]
  BY SuffixIs
<1> HIDE DEF t
<1>3. /\ Suffix(t, m) \in Seq(Entry) /\ Len(Suffix(t, m)) = m
      /\ \A i \in 1 .. m : Suffix(t, m)[i] = t[n - m + i]
  BY <1>1, <1>2, SuffixIs DEF Entries
<1>4. /\ Suffix(s, m) \in Seq(Entry) /\ Len(Suffix(s, m)) = m
      /\ \A i \in 1 .. m : Suffix(s, m)[i] = s[Len(s) - m + i]
  BY <1>1, SuffixIs DEF Entries
<1>5. ASSUME NEW i \in 1 .. m
      PROVE  Suffix(t, m)[i] = Suffix(s, m)[i]
  <2>1. t[n - m + i] = s[Len(s) - n + (n - m + i)]
    BY <1>1, <1>2
  <2>2. Len(s) - n + (n - m + i) = Len(s) - m + i
    BY <1>1
  <2>3. QED
    BY <1>3, <1>4, <2>1, <2>2
<1>6. QED
  BY <1>3, <1>4, <1>5, SeqEqual DEF t

(* The empty suffix fits any budgets.                                      *)
LEMMA NothingFits ==
  ASSUME NEW s \in Entries
  PROVE  0 \in Fitting(s) /\ Suffix(s, 0) = <<>>
<1>1. Len(s) \in Nat /\ 0 \in 0 .. Len(s)
  BY DEF Entries
<1>2. Suffix(s, 0) \in Seq(Entry) /\ Len(Suffix(s, 0)) = 0
  BY <1>1, SuffixIs DEF Entries
<1>3. Suffix(s, 0) = <<>>
  BY <1>2
<1>4. Size(Suffix(s, 0)) = 0
  BY <1>3, NothingHeld
<1>5. QED
  BY <1>1, <1>3, <1>4, CapacityAssumption DEF Fitting

LEMMA LargestFitting ==
  ASSUME NEW s \in Entries
  PROVE  \E n \in Fitting(s) : \A m \in Fitting(s) : m <= n
<1> DEFINE D == {Len(s) - m : m \in Fitting(s)}
<1>1. Len(s) \in Nat /\ Fitting(s) \subseteq 0 .. Len(s)
  BY DEF Entries, Fitting
<1>2. D \subseteq Nat /\ D # {}
  BY <1>1, NothingFits
<1>3. PICK d \in D : \A c \in D : ~(<<c, d>> \in OpToRel(<, Nat))
  BY <1>2, WFMin, NatLessThanWellFounded
<1>4. PICK n \in Fitting(s) : d = Len(s) - n
  OBVIOUS
<1>5. ASSUME NEW m \in Fitting(s), ~(m <= n)
      PROVE  FALSE
  <2>1. Len(s) - m < d /\ Len(s) - m \in D
    BY <1>1, <1>4, <1>5
  <2>2. <<Len(s) - m, d>> \in OpToRel(<, Nat)
    BY <1>2, <2>1 DEF OpToRel
  <2>3. QED
    BY <1>3, <2>1, <2>2
<1>6. QED
  BY <1>5

LEMMA WindowIs ==
  ASSUME NEW s \in Entries, NEW n \in Fitting(s), \A m \in Fitting(s) : m <= n
  PROVE  Window(s) = Suffix(s, n)
<1>1. \A m \in Fitting(s) : m \in Int
  BY DEF Fitting
<1>2. \A m \in Fitting(s) : (\A k \in Fitting(s) : k <= m) => m = n
  BY <1>1
<1>3. QED
  BY <1>2 DEF Window

LEMMA WindowOfNothing == Window(<<>>) = <<>>
<1>1. <<>> \in Entries /\ Len(<<>>) = 0
  BY DEF Entries
<1>2. 0 \in Fitting(<<>>) /\ Suffix(<<>>, 0) = <<>>
  BY <1>1, NothingFits
<1>3. \A m \in Fitting(<<>>) : m <= 0
  BY <1>1 DEF Fitting
<1>4. QED
  BY <1>1, <1>2, <1>3, WindowIs

(* What fits after a push fitted, without the pushed entry, before it.     *)
LEMMA FitsBefore ==
  ASSUME NEW s \in Entries, NEW e \in Entry, NEW m \in Fitting(Append(s, e)), m # 0
  PROVE  m - 1 \in Fitting(s)
<1>1. Len(s) \in Nat /\ Len(Append(s, e)) = Len(s) + 1
  BY DEF Entries
<1>2. m \in 1 .. Len(s) + 1 /\ m <= Capacity /\ Size(Suffix(Append(s, e), m)) <= ByteCapacity
  BY <1>1 DEF Fitting
<1>3. m - 1 \in 0 .. Len(s) /\ m - 1 + 1 = m
  BY <1>1, <1>2
<1>4. Suffix(Append(s, e), m) = Append(Suffix(s, m - 1), e) /\ Suffix(s, m - 1) \in Entries
  BY <1>3, SuffixAppend, SuffixIs
<1>5. Size(Suffix(Append(s, e), m)) = Size(Suffix(s, m - 1)) + Weight(e)
  BY <1>4, SizeAppend
<1>6. Size(Suffix(s, m - 1)) \in Nat /\ Weight(e) \in Nat
  BY <1>4, PayloadFinite, OctetsFinite
<1>7. QED
  BY <1>2, <1>3, <1>5, <1>6, CapacityAssumption DEF Fitting

(* A window is a window of the window before it: what was evicted once is   *)
(* never wanted again, so a history need not remember it.                   *)
LEMMA WindowOfWindow ==
  ASSUME NEW s \in Entries, NEW e \in Entry
  PROVE  /\ Window(s) \in Entries
         /\ Window(Append(Window(s), e)) = Window(Append(s, e))
<1>1. PICK n \in Fitting(s) : \A m \in Fitting(s) : m <= n
  BY LargestFitting
<1> DEFINE w == Suffix(s, n)
<1>2. Window(s) = w
  BY <1>1, WindowIs
<1>3. Len(s) \in Nat /\ n \in 0 .. Len(s) /\ n \in Nat
  BY DEF Entries, Fitting
<1>4. w \in Entries /\ Len(w) = n
  BY <1>3, SuffixIs
<1>5. \A k \in 0 .. n : Suffix(w, k) = Suffix(s, k)
  BY <1>3, SuffixSuffix
<1> HIDE DEF w
<1>6. ASSUME NEW k \in 1 .. n + 1
      PROVE  Suffix(Append(w, e), k) = Suffix(Append(s, e), k)
  <2>1. k - 1 \in 0 .. n /\ k - 1 \in 0 .. Len(s) /\ k - 1 + 1 = k
    BY <1>3
  <2>2. Suffix(Append(w, e), k - 1 + 1) = Append(Suffix(w, k - 1), e)
    BY <1>4, <2>1, SuffixAppend
  <2>3. Suffix(Append(s, e), k - 1 + 1) = Append(Suffix(s, k - 1), e)
    BY <2>1, SuffixAppend
  <2>4. QED
    BY <1>5, <2>1, <2>2, <2>3
<1>7. /\ Append(s, e) \in Entries /\ Len(Append(s, e)) = Len(s) + 1
      /\ Append(w, e) \in Entries /\ Len(Append(w, e)) = n + 1
  BY <1>4 DEF Entries
<1>8. /\ 0 \in Fitting(Append(s, e)) /\ 0 \in Fitting(Append(w, e))
      /\ Suffix(Append(s, e), 0) = <<>> /\ Suffix(Append(w, e), 0) = <<>>
  BY <1>7, NothingFits
<1>9. ASSUME NEW k \in Fitting(Append(s, e)) PROVE k \in Fitting(Append(w, e))
  <2>1. CASE k = 0
    BY <1>8, <2>1
  <2>2. CASE k # 0
    <3>1. k - 1 \in Fitting(s) /\ k \in 0 .. Len(s) + 1
      BY <1>7, <2>2, FitsBefore DEF Fitting
    <3>2. k \in 1 .. n + 1
      BY <1>1, <1>3, <2>2, <3>1
    <3>3. QED
      BY <1>3, <1>6, <1>7, <3>2 DEF Fitting
  <2>3. QED
    BY <2>1, <2>2
<1>10. ASSUME NEW k \in Fitting(Append(w, e)) PROVE k \in Fitting(Append(s, e))
  <2>1. CASE k = 0
    BY <1>8, <2>1
  <2>2. CASE k # 0
    <3>1. k \in 1 .. n + 1
      BY <1>3, <1>7, <2>2 DEF Fitting
    <3>2. QED
      BY <1>3, <1>6, <1>7, <3>1 DEF Fitting
  <2>3. QED
    BY <2>1, <2>2
<1>11. PICK k \in Fitting(Append(s, e)) : \A m \in Fitting(Append(s, e)) : m <= k
  BY <1>7, LargestFitting
<1>12. Window(Append(s, e)) = Suffix(Append(s, e), k)
  BY <1>7, <1>11, WindowIs
<1>13. Window(Append(w, e)) = Suffix(Append(w, e), k)
  BY <1>7, <1>9, <1>10, <1>11, WindowIs
<1>14. Suffix(Append(s, e), k) = Suffix(Append(w, e), k)
  <2>1. k \in 0 .. n + 1
    BY <1>3, <1>7, <1>9 DEF Fitting
  <2>2. k = 0 \/ k \in 1 .. n + 1
    BY <1>3, <2>1
  <2>3. QED
    BY <1>6, <1>8, <2>2
<1>15. QED
  BY <1>2, <1>4, <1>12, <1>13, <1>14
=============================================================================
