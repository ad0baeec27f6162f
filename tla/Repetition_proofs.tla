-------------------------- MODULE Repetition_proofs --------------------------
(***************************************************************************)
(* Proofs about the memory of repetition, in three parts.                  *)
(*                                                                         *)
(* CountMap: for every set of keys, hash function and table size, a key is *)
(* stored once and found where it is stored, the counters are exact, every *)
(* probe loop ends, and the table is a bag.                                *)
(*                                                                         *)
(* BoundedHistory: for every set of phrases, every hash function and any   *)
(* two budgets, the ring and its counters are, after every push, what the  *)
(* history is specified to be, and no push gets stuck.                     *)
(*                                                                         *)
(* RepetitionRoots: for every number of stores, snapshots and roots, a     *)
(* root's strong count is the number of its owners, and sharing is         *)
(* invisible: the roots implement stores and snapshots that are values.    *)
(***************************************************************************)
EXTENDS BoundedHistory, RepetitionRoots, HistoryWindow_proofs, FiniteSetTheorems,
        WellFoundedInduction, TLAPS

-----------------------------------------------------------------------------
(* Probing.                                                                 *)

(* hash_index(key) & mask is a slot number. *)
LEMMA HomeInRange ==
  ASSUME cap \in Nat, cap > 0, NEW k \in Key
  PROVE  Home(k) \in 0 .. cap - 1
BY HashAssumption DEF Home

(* Walking from the home slot of a key, one slot of a nonempty set of slots *)
(* is met first.                                                            *)
LEMMA FirstMet ==
  ASSUME cap \in Nat, cap > 0, NEW k \in Key,
         NEW S \in SUBSET Indices(cap), S # {}
  PROVE  \E i \in S : \A j \in Before(k, i) : j \notin S
<1> DEFINE D == {Distance(Home(k), j) : j \in S}
<1>1. \A j \in Indices(cap) : Distance(Home(k), j) \in Nat
  BY HomeInRange DEF Distance, Indices
<1>2. D \subseteq Nat /\ D # {}
  BY <1>1
<1>3. PICK d \in D : \A e \in D : ~(<<e, d>> \in OpToRel(<, Nat))
  BY <1>2, WFMin, NatLessThanWellFounded
<1>4. PICK i \in S : d = Distance(Home(k), i)
  OBVIOUS
<1>5. ASSUME NEW j \in Before(k, i), j \in S
      PROVE  FALSE
  <2>1. Distance(Home(k), j) < d
    BY <1>4, <1>5 DEF Before
  <2>2. Distance(Home(k), j) \in D
    BY <1>5
  <2>3. <<Distance(Home(k), j), d>> \in OpToRel(<, Nat)
    BY <2>1, <2>2, <1>2 DEF OpToRel
  <2>4. QED
    BY <2>2, <2>3, <1>3
<1>6. QED
  BY <1>5

(* insert_new has a target whenever its loop ends: the first slot it meets  *)
(* that holds no key.                                                       *)
LEMMA TargetIsFirst ==
  ASSUME TypeOK, cap > 0, InsertTerminates, NEW k \in Key
  PROVE  /\ Target(k) \in Indices(cap)
         /\ slot[Target(k)] \notin Key
         /\ \A j \in Before(k, Target(k)) : slot[j] \in Key
<1> DEFINE S == {i \in Indices(cap) : slot[i] \notin Key}
<1>1. S # {}
  BY SlotAssumption DEF InsertTerminates
<1>2. PICK i \in S : \A j \in Before(k, i) : j \notin S
  BY <1>1, FirstMet DEF TypeOK
<1>3. \A j \in Before(k, i) : slot[j] \in Key
  BY <1>2 DEF Before
<1>4. QED
  BY <1>3 DEF Target

(* An allocated table that is not full of keys and tombstones, as counted   *)
(* by len and tombstones, has an empty slot.                                *)
LEMMA EmptySlotExists ==
  ASSUME TypeOK, CountersExact, len + tombstones < cap
  PROVE  InsertTerminates
<1>1. Indices(cap) = 0 .. cap - 1 /\ cap \in Nat
  BY DEF TypeOK, Indices
<1>2. IsFiniteSet(Indices(cap)) /\ Cardinality(Indices(cap)) = cap
  <2>1. cap - 1 \in Int /\ 0 \in Int
    BY <1>1
  <2>2. /\ IsFiniteSet(0 .. cap - 1)
        /\ Cardinality(0 .. cap - 1) = IF 0 > cap - 1 THEN 0 ELSE cap - 1 - 0 + 1
    BY <2>1, FS_Interval
  <2>3. QED
    BY <1>1, <2>2
<1>3. KeySlots \in SUBSET Indices(cap) /\ TombSlots \in SUBSET Indices(cap)
  BY DEF KeySlots, TombSlots
<1>4. IsFiniteSet(KeySlots) /\ IsFiniteSet(TombSlots)
  BY <1>2, <1>3, FS_Subset
<1>5. Cardinality(KeySlots \cup TombSlots) <= len + tombstones
  <2>1. Cardinality(KeySlots \cup TombSlots)
          = Cardinality(KeySlots) + Cardinality(TombSlots)
            - Cardinality(KeySlots \cap TombSlots)
    BY <1>4, FS_Union
  <2>2. Cardinality(KeySlots \cap TombSlots) \in Nat
    BY <1>4, FS_Intersection, FS_CardinalityType
  <2>3. QED
    BY <2>1, <2>2 DEF CountersExact, TypeOK
<1>6. KeySlots \cup TombSlots # Indices(cap)
  <2>1. len + tombstones < cap /\ len + tombstones \in Nat
    BY DEF TypeOK
  <2>2. Cardinality(KeySlots \cup TombSlots) # cap
    <3>1. Cardinality(KeySlots \cup TombSlots) \in Nat
      BY <1>4, FS_Union, FS_CardinalityType
    <3>2. QED
      BY <1>5, <2>1, <3>1, <1>1
  <2>3. QED
    BY <1>2, <2>2
<1>7. PICK i \in Indices(cap) : i \notin KeySlots \cup TombSlots
  BY <1>3, <1>6
<1>8. slot[i] = Empty
  BY <1>7 DEF TypeOK, Keys, KeySlots, TombSlots
<1>9. QED
  BY <1>8 DEF InsertTerminates

-----------------------------------------------------------------------------
(* What the operations on one table preserve.                               *)

(* The part of the invariant about the table itself. *)
TableOK ==
  /\ cap \in Nat /\ len \in Nat /\ tombstones \in Nat
  /\ slot \in Keys(cap)
  /\ count \in [Indices(cap) -> Nat]
  /\ \A i, j \in Indices(cap) : slot[i] = slot[j] /\ slot[i] \in Key => i = j
  /\ ProbeFinds
  /\ CountersExact

LEMMA FiniteSlots ==
  ASSUME cap \in Nat
  PROVE  IsFiniteSet(KeySlots) /\ IsFiniteSet(TombSlots)
<1>1. IsFiniteSet(0 .. cap - 1)
  BY FS_Interval
<1>2. KeySlots \in SUBSET (0 .. cap - 1) /\ TombSlots \in SUBSET (0 .. cap - 1)
  BY DEF KeySlots, TombSlots, Indices
<1>3. QED
  BY <1>1, <1>2, FS_Subset

(* Probe paths depend on the capacity alone. *)
LEMMA SamePaths ==
  ASSUME cap' = cap
  PROVE  /\ Indices(cap)' = Indices(cap)
         /\ \A k \in Key : \A i \in Indices(cap) : Before(k, i)' = Before(k, i)
BY DEF Before, Home, Distance, Indices

(* Inserting a key that is not stored keeps a table in order. *)
LEMMA InsertKeepsTable ==
  ASSUME TypeOK, TableOK, cap > 0, NEW k \in Key, NEW n \in Nat,
         ~Stored(k), cap' = cap, InsertNew(k, n)
  PROVE  /\ TableOK'
         /\ len' + tombstones' \in {len + tombstones, len + tombstones + 1}
         /\ len' = len + 1
         /\ tombstones' <= tombstones
         /\ \E t \in Indices(cap) :
              /\ slot[t] \notin Key
              /\ slot' = [slot EXCEPT ![t] = k]
              /\ count' = [count EXCEPT ![t] = n]
<1> DEFINE t == Target(k)
<1>1. /\ t \in Indices(cap)
      /\ slot[t] \notin Key
      /\ \A j \in Before(k, t) : slot[j] \in Key
  BY TargetIsFirst DEF InsertNew
<1>2. /\ slot' = [slot EXCEPT ![t] = k]
      /\ count' = [count EXCEPT ![t] = n]
      /\ tombstones' = IF slot[t] = Tomb THEN tombstones - 1 ELSE tombstones
      /\ len' = len + 1
  BY DEF InsertNew
<1> HIDE DEF t
<1>3. slot' \in Keys(cap) /\ count' \in [Indices(cap) -> Nat]
  BY <1>1, <1>2 DEF TableOK, Keys
<1>4. \A i \in Indices(cap) : slot[i] # k
  BY DEF Stored
<1>5. \A i, j \in Indices(cap) : slot'[i] = slot'[j] /\ slot'[i] \in Key => i = j
  BY <1>1, <1>2, <1>4 DEF TableOK, Keys
<1>6. ASSUME NEW i \in Indices(cap), slot'[i] \in Key
      PROVE  \A j \in Before(slot'[i], i) : slot'[j] \notin {slot'[i], Empty}
  <2>1. CASE i = t
    <3>1. slot'[i] = k
      BY <2>1, <1>1, <1>2 DEF TableOK, Keys
    <3>2. \A j \in Before(k, t) : j \in Indices(cap) /\ j # t
      BY <1>1 DEF Before, Distance, TableOK, Indices
    <3>3. \A j \in Before(k, t) : slot'[j] = slot[j]
      BY <3>2, <1>1, <1>2 DEF TableOK, Keys
    <3>4. QED
      BY <2>1, <3>1, <3>2, <3>3, <1>1, <1>4, SlotAssumption
  <2>2. CASE i # t
    <3>1. slot'[i] = slot[i] /\ slot[i] \in Key
      BY <1>6, <2>2, <1>1, <1>2 DEF TableOK, Keys
    <3>2. \A j \in Before(slot[i], i) : slot[j] \notin {slot[i], Empty}
      BY <3>1 DEF TableOK, ProbeFinds, Find
    <3>3. \A j \in Before(slot[i], i) :
            j \in Indices(cap) /\ slot'[j] = (IF j = t THEN k ELSE slot[j])
      BY <1>1, <1>2 DEF Before, TableOK, Keys
    <3>4. QED
      BY <3>1, <3>2, <3>3, <1>4, SlotAssumption
  <2>3. QED
    BY <2>1, <2>2
<1>7. ProbeFinds'
  BY <1>3, <1>6, SamePaths DEF ProbeFinds, Find, Keys
<1>8. IsFiniteSet(KeySlots) /\ IsFiniteSet(TombSlots)
  BY FiniteSlots DEF TableOK
<1>9. len' = Cardinality(KeySlots')
  <2>1. KeySlots' = KeySlots \cup {t} /\ t \notin KeySlots
    BY <1>1, <1>2, SamePaths DEF KeySlots, TableOK, Keys
  <2>2. QED
    BY <2>1, <1>2, <1>8, FS_AddElement DEF TableOK, CountersExact
<1>10. tombstones' = Cardinality(TombSlots') /\ tombstones' \in Nat
  <2>1. TombSlots' = TombSlots \ {t} /\ (t \in TombSlots <=> slot[t] = Tomb)
    BY <1>1, <1>2, SamePaths, SlotAssumption DEF TombSlots, TableOK, Keys
  <2>2. Cardinality(TombSlots \ {t}) \in Nat
    BY <1>8, FS_RemoveElement, FS_CardinalityType
  <2>3. QED
    BY <2>1, <2>2, <1>2, <1>8, FS_RemoveElement DEF TableOK, CountersExact
<1>11. len' \in Nat /\ tombstones' <= tombstones
         /\ len' + tombstones' \in {len + tombstones, len + tombstones + 1}
  BY <1>2 DEF TableOK
<1>12. TableOK'
  <2>1. cap' \in Nat /\ slot' \in Keys(cap)' /\ count' \in [Indices(cap)' -> Nat]
    BY <1>3, SamePaths DEF TableOK, Keys
  <2>2. \A i, j \in Indices(cap)' : slot'[i] = slot'[j] /\ slot'[i] \in Key => i = j
    BY <1>5, SamePaths
  <2>3. QED
    BY <2>1, <2>2, <1>7, <1>9, <1>10, <1>11 DEF TableOK, CountersExact
<1>13. QED
  BY <1>1, <1>2, <1>11, <1>12

(* Counting a key, once there is room for it, keeps a table in order.       *)
LEMMA CountKeepsTable ==
  ASSUME TypeOK, TableOK, cap > 0, NEW k \in Key, CountKey(k)
  PROVE  /\ TableOK'
         /\ cap' = cap
         /\ len' + tombstones' \in {len + tombstones, len + tombstones + 1}
         /\ \/ /\ ~Stored(k)
               /\ \E t \in Indices(cap) :
                    /\ slot[t] \notin Key
                    /\ slot' = [slot EXCEPT ![t] = k]
                    /\ count' = [count EXCEPT ![t] = 1]
            \/ \E t \in Indices(cap) :
                 /\ slot[t] = k
                 /\ slot' = slot
                 /\ count' = [count EXCEPT ![t] = @ + 1]
<1>1. CASE Find(k) = {} /\ InsertNew(k, 1) /\ cap' = cap
  <2>1. ~Stored(k)
    <3>1. ASSUME NEW i \in Indices(cap), slot[i] = k
          PROVE  FALSE
      BY <1>1, <3>1 DEF TableOK, ProbeFinds
    <3>2. QED
      BY <3>1 DEF Stored
  <2>2. QED
    BY <1>1, <2>1, InsertKeepsTable
<1>2. ASSUME NEW i \in Find(k),
             count' = [count EXCEPT ![i] = @ + 1],
             UNCHANGED <<cap, slot, len, tombstones>>
      PROVE  /\ TableOK' /\ len' + tombstones' = len + tombstones /\ cap' = cap
             /\ i \in Indices(cap) /\ slot[i] = k /\ slot' = slot
  <2>1. count' \in [Indices(cap) -> Nat]
    BY <1>2 DEF TableOK, Find
  <2>2. ProbeFinds' /\ CountersExact' /\ (slot \in Keys(cap))'
    BY <1>2, SamePaths
       DEF TableOK, ProbeFinds, Find, CountersExact, KeySlots, TombSlots, Keys
  <2>3. QED
    BY <1>2, <2>1, <2>2, SamePaths DEF TableOK, Find
<1>3. QED
  BY <1>1, <1>2 DEF CountKey, TableOK

(* Evicting a key, its slot turned into a tombstone, keeps a table in order. *)
LEMMA VacateKeepsTable ==
  ASSUME TypeOK, TableOK, NEW i \in Indices(cap), slot[i] \in Key,
         Vacate(i), cap' = cap
  PROVE  TableOK' /\ len' + tombstones' = len + tombstones
<1>1. /\ slot' = [slot EXCEPT ![i] = Tomb]
      /\ count' = [count EXCEPT ![i] = 0]
      /\ len' = len - 1
      /\ tombstones' = tombstones + 1
  BY DEF Vacate
<1>2. slot' \in Keys(cap) /\ count' \in [Indices(cap) -> Nat]
  BY <1>1 DEF TableOK, Keys
<1>3. \A j \in Indices(cap) : slot'[j] = IF j = i THEN Tomb ELSE slot[j]
  BY <1>1 DEF TableOK, Keys
<1>4. \A j, l \in Indices(cap) : slot'[j] = slot'[l] /\ slot'[j] \in Key => j = l
  BY <1>3, SlotAssumption DEF TableOK
<1>5. ASSUME NEW j \in Indices(cap), slot'[j] \in Key
      PROVE  \A l \in Before(slot'[j], j) : slot'[l] \notin {slot'[j], Empty}
  <2>1. slot'[j] = slot[j] /\ slot[j] \in Key
    BY <1>3, <1>5, SlotAssumption
  <2>2. \A l \in Before(slot[j], j) : slot[l] \notin {slot[j], Empty}
    BY <2>1 DEF TableOK, ProbeFinds, Find
  <2>3. \A l \in Before(slot[j], j) : l \in Indices(cap)
    BY DEF Before
  <2>4. QED
    BY <2>1, <2>2, <2>3, <1>3, SlotAssumption
<1>6. ProbeFinds'
  BY <1>2, <1>5, SamePaths DEF ProbeFinds, Find, Keys
<1>7. IsFiniteSet(KeySlots) /\ IsFiniteSet(TombSlots)
  BY FiniteSlots DEF TableOK
<1>8. len' = Cardinality(KeySlots') /\ len' \in Nat
  <2>1. KeySlots' = KeySlots \ {i} /\ i \in KeySlots
    BY <1>3, SamePaths, SlotAssumption DEF KeySlots
  <2>2. IsFiniteSet(KeySlots \ {i}) /\ Cardinality(KeySlots \ {i}) = Cardinality(KeySlots) - 1
    BY <2>1, <1>7, FS_RemoveElement
  <2>3. Cardinality(KeySlots \ {i}) \in Nat
    BY <2>2, FS_CardinalityType
  <2>4. QED
    BY <2>1, <2>2, <2>3, <1>1 DEF TableOK, CountersExact
<1>9. tombstones' = Cardinality(TombSlots')
  <2>1. TombSlots' = TombSlots \cup {i} /\ i \notin TombSlots
    BY <1>3, SamePaths, SlotAssumption DEF TombSlots
  <2>2. QED
    BY <2>1, <1>1, <1>7, FS_AddElement DEF TableOK, CountersExact
<1>10. QED
  <2>1. cap' \in Nat /\ slot' \in Keys(cap)' /\ count' \in [Indices(cap)' -> Nat]
    BY <1>2, SamePaths DEF TableOK, Keys
  <2>2. \A j, l \in Indices(cap)' : slot'[j] = slot'[l] /\ slot'[j] \in Key => j = l
    BY <1>4, SamePaths
  <2>3. tombstones' \in Nat /\ len' + tombstones' = len + tombstones
    BY <1>1 DEF TableOK
  <2>4. QED
    BY <2>1, <2>2, <2>3, <1>6, <1>8, <1>9 DEF TableOK, CountersExact

-----------------------------------------------------------------------------
(* The inductive invariant.                                                 *)

LEMMA FiniteWaiting ==
  ASSUME TypeOK
  PROVE  IsFiniteSet(WaitingKeys) /\ Cardinality(WaitingKeys) \in Nat
<1>1. IsFiniteSet(cursor .. old.cap - 1)
  <2>1. cursor \in Int /\ old.cap - 1 \in Int
    BY DEF TypeOK
  <2>2. QED
    BY <2>1, FS_Interval
<1>2. WaitingKeys \in SUBSET (cursor .. old.cap - 1)
  BY DEF WaitingKeys, Waiting
<1>3. QED
  BY <1>1, <1>2, FS_Subset, FS_CardinalityType

(* Room for one more entry means an empty slot to stop at.                  *)
LEMMA InvariantImpliesTermination == IInv => LoopsTerminate
<1> SUFFICES ASSUME IInv, cap > 0 PROVE InsertTerminates
  BY DEF LoopsTerminate
<1>1. len + tombstones < cap
  BY FiniteWaiting DEF IInv, LoadBounded, TypeOK
<1>2. QED
  BY <1>1, EmptySlotExists DEF IInv

LEMMA InvariantImpliesTable == IInv => TableOK
BY DEF IInv, TableOK, TypeOK, Unique

LEMMA InitEstablishesInvariant == Init => IInv
<1> SUFFICES ASSUME Init PROVE IInv
  OBVIOUS
<1>1. Indices(0) = {}
  BY DEF Indices
<1>2. TypeOK
  BY <1>1 DEF Init, NoTable, TypeOK, Keys
<1>3. Unique /\ ProbeFinds
  BY <1>1 DEF Init, NoTable, Unique, ProbeFinds, Waiting
<1>4. KeySlots = {} /\ TombSlots = {}
  BY <1>1 DEF Init, KeySlots, TombSlots
<1>5. CountersExact
  BY <1>4, FS_EmptySet DEF Init, CountersExact
<1>6. LoadBounded
  BY DEF Init, LoadBounded
<1>7. QED
  BY <1>2, <1>3, <1>5, <1>6 DEF IInv

LEMMA IncrementKeepsInvariant ==
  ASSUME IInv, NEW k \in Key, Increment(k)
  PROVE  IInv'
<1>1. /\ pending = None /\ cap > 0 /\ CountKey(k)
      /\ (len + tombstones + 1) * 10 < cap * 7
      /\ UNCHANGED <<pending, old, cursor>>
  BY DEF Increment, MayIncrement, NeedsRehash, Crowded, IInv, TypeOK
<1>2. /\ TableOK' /\ cap' = cap
      /\ len' + tombstones' \in {len + tombstones, len + tombstones + 1}
  BY <1>1, CountKeepsTable, InvariantImpliesTable DEF IInv
<1>3. old = NoTable /\ cursor = 0 /\ cap >= 2
  BY <1>1 DEF IInv, LoadBounded
<1>4. LoadBounded'
  BY <1>1, <1>2, <1>3 DEF LoadBounded, TableOK, IInv, TypeOK
<1>5. Waiting' = {}
  BY <1>1, <1>3 DEF Waiting, NoTable
<1>6. Unique'
  BY <1>2, <1>5 DEF TableOK, Unique
<1>7. TypeOK'
  BY <1>1, <1>2 DEF IInv, TypeOK, TableOK, Keys
<1>8. QED
  BY <1>2, <1>4, <1>6, <1>7 DEF IInv, TableOK

LEMMA BeginRehashKeepsInvariant ==
  ASSUME IInv, NEW k \in Key, BeginRehash(k)
  PROVE  IInv'
<1>1. /\ pending = None /\ pending' = k
      /\ old' = [cap |-> cap, slot |-> slot, count |-> count]
      /\ cursor' = 0 /\ len' = 0 /\ tombstones' = 0
      /\ cap' = NewCapacity
      /\ slot' = [i \in Indices(cap') |-> Empty]
      /\ count' = [i \in Indices(cap') |-> 0]
  BY DEF BeginRehash, MayIncrement
<1>2. cap' \in Nat /\ cap' >= 2 /\ (cap > 0 => cap' = 2 * cap)
  BY <1>1, SizeAssumption DEF NewCapacity, IInv, TypeOK, LoadBounded
<1>3. TypeOK'
  BY <1>1, <1>2 DEF IInv, TypeOK, Keys, Indices
<1>4. Waiting' = Indices(cap) /\ WaitingKeys' = KeySlots
  BY <1>1 DEF Waiting, WaitingKeys, KeySlots, Indices
<1>5. \A i \in Indices(cap') : slot'[i] = Empty
  BY <1>1
<1>6. Unique' /\ ProbeFinds'
  BY <1>1, <1>4, <1>5, SlotAssumption DEF IInv, Unique, ProbeFinds, Indices
<1>7. KeySlots' = {} /\ TombSlots' = {}
  BY <1>5, SlotAssumption DEF KeySlots, TombSlots, Indices
<1>8. CountersExact'
  BY <1>1, <1>7, FS_EmptySet DEF CountersExact
<1>9. LoadBounded'
  <2>1. Cardinality(WaitingKeys') = len
    BY <1>4 DEF IInv, CountersExact
  <2>2. (len + 1) * 10 < cap' * 7
    <3>1. CASE cap = 0
      <4>1. KeySlots = {}
        BY <3>1 DEF KeySlots, Indices
      <4>2. len = 0
        BY <4>1, FS_EmptySet DEF IInv, CountersExact
      <4>3. ASSUME NEW c \in Nat, c >= 2
            PROVE  (0 + 1) * 10 < c * 7
        BY <4>3
      <4>4. cap' \in Nat /\ cap' >= 2
        BY <1>2
      <4>5. QED
        BY <4>2, <4>3, <4>4
    <3>2. CASE cap > 0
      <4>1. (len + tombstones) * 10 < cap * 7 /\ cap >= 2
        BY <3>2, <1>1 DEF IInv, LoadBounded
      <4>2. len \in Nat /\ tombstones \in Nat /\ cap \in Nat
        BY DEF IInv, TypeOK
      <4>3. QED
        BY <3>2, <4>1, <4>2, <1>2
    <3>3. QED
      BY <3>1, <3>2 DEF IInv, TypeOK
  <2>3. pending' # None
    BY <1>1, NoneAssumption
  <2>4. QED
    BY <2>1, <2>2, <2>3, <1>1, <1>2 DEF LoadBounded, IInv, TypeOK
<1>10. QED
  BY <1>3, <1>6, <1>8, <1>9 DEF IInv

LEMMA RehashSlotKeepsInvariant ==
  ASSUME IInv, RehashSlot
  PROVE  IInv'
<1>1. /\ pending # None /\ cursor < old.cap /\ cursor' = cursor + 1
      /\ UNCHANGED <<cap, pending, old>>
      /\ tombstones = 0 /\ cap >= 2
      /\ (len + Cardinality(WaitingKeys) + 1) * 10 < cap * 7
  BY DEF RehashSlot, IInv, LoadBounded
<1>2. /\ cursor \in Waiting /\ cursor \in Indices(old.cap)
      /\ Waiting' = Waiting \ {cursor}
  BY <1>1 DEF IInv, TypeOK, Waiting, Indices
<1>3. IsFiniteSet(WaitingKeys) /\ Cardinality(WaitingKeys) \in Nat
  BY FiniteWaiting DEF IInv
<1>4. CASE old.slot[cursor] \in Key /\ InsertNew(old.slot[cursor], old.count[cursor])
  <2> DEFINE k == old.slot[cursor]
             n == old.count[cursor]
  <2>1. k \in Key /\ n \in Nat /\ ~Stored(k) /\ InsertNew(k, n)
    BY <1>2, <1>4 DEF IInv, TypeOK, Unique, Stored
  <2> HIDE DEF k, n
  <2>2. /\ TableOK' /\ len' = len + 1 /\ tombstones' <= tombstones
        /\ \E t \in Indices(cap) : slot' = [slot EXCEPT ![t] = k]
    BY <2>1, <1>1, InsertKeepsTable, InvariantImpliesTable DEF IInv, TypeOK
  <2>3. WaitingKeys' = WaitingKeys \ {cursor} /\ cursor \in WaitingKeys
    BY <1>1, <1>2, <1>4 DEF WaitingKeys
  <2>4. Cardinality(WaitingKeys') = Cardinality(WaitingKeys) - 1
    BY <2>3, <1>3, FS_RemoveElement
  <2>5. LoadBounded'
    <3>1. tombstones' = 0
      BY <2>2, <1>1 DEF TableOK
    <3>2. (len' + Cardinality(WaitingKeys') + 1) * 10 < cap' * 7
      BY <2>2, <2>4, <1>1, <1>3 DEF IInv, TypeOK
    <3>3. QED
      BY <3>1, <3>2, <1>1 DEF LoadBounded
  <2>6. Unique'
    <3>1. \A i \in Indices(cap) : slot'[i] = k \/ slot'[i] = slot[i]
      BY <2>2 DEF IInv, TypeOK, Keys
    <3>2. \A j \in Waiting' : j \in Waiting /\ j # cursor
      BY <1>2
    <3>3. \A j \in Waiting' : old.slot[j] # k
      BY <3>2, <2>1, <1>2 DEF IInv, Unique, k
    <3>4. \A i \in Indices(cap), j \in Waiting' : slot'[i] \in Key => slot'[i] # old.slot[j]
      BY <3>1, <3>2, <3>3 DEF IInv, Unique
    <3>5. \A i, j \in Waiting' :
            old.slot[i] = old.slot[j] /\ old.slot[i] \in Key => i = j
      BY <3>2 DEF IInv, Unique
    <3>6. QED
      BY <3>4, <3>5, <2>2, <1>1, SamePaths DEF Unique, TableOK
  <2>7. TypeOK'
    BY <2>2, <1>1 DEF IInv, TypeOK, TableOK, Keys
  <2>8. QED
    BY <2>2, <2>5, <2>6, <2>7 DEF IInv, TableOK
<1>5. CASE old.slot[cursor] \notin Key /\ UNCHANGED <<slot, count, len, tombstones>>
  <2>1. WaitingKeys' = WaitingKeys
    BY <1>1, <1>2, <1>5 DEF WaitingKeys
  <2>2. LoadBounded'
    BY <2>1, <1>1, <1>5 DEF LoadBounded
  <2>3. Unique'
    BY <1>1, <1>2, <1>5, SamePaths DEF IInv, Unique
  <2>4. ProbeFinds' /\ CountersExact'
    BY <1>1, <1>5, SamePaths
       DEF IInv, ProbeFinds, Find, CountersExact, KeySlots, TombSlots, TypeOK, Keys
  <2>5. TypeOK'
    BY <1>1, <1>5 DEF IInv, TypeOK, Keys, Indices
  <2>6. QED
    BY <2>2, <2>3, <2>4, <2>5 DEF IInv
<1>6. QED
  BY <1>4, <1>5 DEF RehashSlot

LEMMA FinishIncrementKeepsInvariant ==
  ASSUME IInv, FinishIncrement
  PROVE  IInv'
<1>1. /\ pending # None /\ cursor = old.cap /\ CountKey(pending)
      /\ pending' = None /\ old' = NoTable /\ cursor' = 0
      /\ tombstones = 0 /\ cap >= 2 /\ pending \in Key
      /\ (len + Cardinality(WaitingKeys) + 1) * 10 < cap * 7
  BY DEF FinishIncrement, IInv, LoadBounded, TypeOK
<1>2. /\ TableOK' /\ cap' = cap
      /\ len' + tombstones' \in {len + tombstones, len + tombstones + 1}
  BY <1>1, CountKeepsTable, InvariantImpliesTable DEF IInv, TypeOK
<1>3. (len' + tombstones') * 10 < cap' * 7
  BY <1>1, <1>2, FiniteWaiting DEF IInv, TypeOK
<1>4. LoadBounded'
  BY <1>1, <1>2, <1>3 DEF LoadBounded, NoTable, Indices
<1>5. Waiting' = {}
  BY <1>1 DEF Waiting, NoTable
<1>6. TypeOK'
  BY <1>1, <1>2 DEF TypeOK, TableOK, NoTable, Keys, Indices
<1>7. QED
  BY <1>2, <1>4, <1>5, <1>6 DEF IInv, TableOK, Unique

LEMMA DecrementKeepsInvariant ==
  ASSUME IInv, NEW k \in Key, Decrement(k)
  PROVE  IInv'
<1>1. PICK i \in Find(k) :
        \/ /\ count[i] > 1
           /\ count' = [count EXCEPT ![i] = @ - 1]
           /\ UNCHANGED <<slot, len, tombstones>>
        \/ Vacate(i)
  BY DEF Decrement
<1>2. /\ pending = None /\ UNCHANGED <<cap, pending, old, cursor>>
      /\ i \in Indices(cap) /\ slot[i] = k
      /\ old = NoTable /\ cursor = 0
  BY <1>1 DEF Decrement, Find, IInv, LoadBounded
<1>3. TableOK' /\ len' + tombstones' = len + tombstones
  <2>1. CASE Vacate(i)
    BY <2>1, <1>2, VacateKeepsTable, InvariantImpliesTable DEF IInv
  <2>2. CASE /\ count[i] > 1
             /\ count' = [count EXCEPT ![i] = @ - 1]
             /\ UNCHANGED <<slot, len, tombstones>>
    <3>1. count' \in [Indices(cap) -> Nat]
      BY <2>2, <1>2 DEF IInv, TypeOK
    <3>2. ProbeFinds' /\ CountersExact' /\ (slot \in Keys(cap))'
      BY <2>2, <1>2, SamePaths
         DEF IInv, TypeOK, ProbeFinds, Find, CountersExact, KeySlots, TombSlots, Keys
    <3>3. QED
      BY <2>2, <3>1, <3>2, <1>2, InvariantImpliesTable, SamePaths DEF TableOK
  <2>3. QED
    BY <1>1, <2>1, <2>2
<1>4. LoadBounded'
  <2>1. cap' = 0 \/ (cap' >= 2 /\ (len' + tombstones') * 10 < cap' * 7)
    BY <1>2, <1>3 DEF IInv, LoadBounded
  <2>2. QED
    BY <2>1, <1>2 DEF LoadBounded, NoTable, Indices
<1>5. Waiting' = {}
  BY <1>2 DEF Waiting, NoTable
<1>6. TypeOK'
  BY <1>2, <1>3 DEF IInv, TypeOK, TableOK, Keys
<1>7. QED
  BY <1>3, <1>4, <1>5, <1>6 DEF IInv, TableOK, Unique

-----------------------------------------------------------------------------
(* Theorems.                                                                *)

(* Every reachable state satisfies the inductive invariant: in particular   *)
(* the table is well typed, a key is stored once, find reaches every stored *)
(* key (decrement cannot panic) and the counters are exact.                 *)
THEOREM TableInvariant == Spec => []IInv
<1>1. IInv /\ [Next]_vars => IInv'
  <2> SUFFICES ASSUME IInv, [Next]_vars PROVE IInv'
    OBVIOUS
  <2>1. ASSUME NEW k \in Key, Increment(k) PROVE IInv'
    BY <2>1, IncrementKeepsInvariant
  <2>2. ASSUME NEW k \in Key, BeginRehash(k) PROVE IInv'
    BY <2>2, BeginRehashKeepsInvariant
  <2>3. ASSUME NEW k \in Key, Decrement(k) PROVE IInv'
    BY <2>3, DecrementKeepsInvariant
  <2>4. CASE RehashSlot
    BY <2>4, RehashSlotKeepsInvariant
  <2>5. CASE FinishIncrement
    BY <2>5, FinishIncrementKeepsInvariant
  <2>6. CASE UNCHANGED vars
    BY <2>6, SamePaths
       DEF vars, IInv, TypeOK, Keys, Unique, Waiting, ProbeFinds, Find,
           CountersExact, KeySlots, TombSlots, LoadBounded, WaitingKeys
  <2>7. QED
    BY <2>1, <2>2, <2>3, <2>4, <2>5, <2>6 DEF Next
<1>2. QED
  BY <1>1, InitEstablishesInvariant, PTL DEF Spec

(* Variables keep their types. *)
THEOREM TypeCorrect == Spec => []TypeOK
BY TableInvariant, PTL DEF IInv

(* A key is stored at most once, across both tables of a rehash.            *)
THEOREM KeysUnique == Spec => []Unique
BY TableInvariant, PTL DEF IInv

(* No sequence of pushes, evictions and rehashes hides a stored key.        *)
THEOREM StoredKeysFound == Spec => []ProbeFinds
BY TableInvariant, PTL DEF IInv

(* len and tombstones agree with the slots.                                 *)
THEOREM CountersAgree == Spec => []CountersExact
BY TableInvariant, PTL DEF IInv

(* insert_new's loop and a failing find always meet an empty slot.          *)
THEOREM ProbingTerminates == Spec => []LoopsTerminate
<1>1. IInv => LoopsTerminate
  BY InvariantImpliesTermination
<1>2. QED
  BY <1>1, TableInvariant, PTL

-----------------------------------------------------------------------------
(* Refinement: the table implements the bag of keys.                        *)

(* Held, without its CHOOSEs. *)
HeldFacts ==
  \A k \in Key :
    /\ \A i \in Indices(cap) : slot[i] = k => Held(k) = count[i]
    /\ ~Stored(k) => \A i \in Waiting : old.slot[i] = k => Held(k) = old.count[i]
    /\ ~Stored(k) /\ (\A i \in Waiting : old.slot[i] # k) => Held(k) = 0

LEMMA HeldIs == IInv => HeldFacts
<1> SUFFICES ASSUME IInv, NEW k \in Key
             PROVE  /\ \A i \in Indices(cap) : slot[i] = k => Held(k) = count[i]
                    /\ ~Stored(k) => \A i \in Waiting : old.slot[i] = k => Held(k) = old.count[i]
                    /\ ~Stored(k) /\ (\A i \in Waiting : old.slot[i] # k) => Held(k) = 0
  BY DEF HeldFacts
<1> DEFINE live == {i \in Indices(cap) : slot[i] = k}
           waiting == {i \in Waiting : old.slot[i] = k}
<1>1. Held(k) = CASE live # {}    -> count[CHOOSE i \in live : TRUE]
                  [] waiting # {} -> old.count[CHOOSE i \in waiting : TRUE]
                  [] OTHER        -> 0
  BY DEF Held
<1>2. ASSUME NEW i \in Indices(cap), slot[i] = k PROVE Held(k) = count[i]
  <2>1. live = {i}
    BY <1>2 DEF IInv, Unique
  <2>2. waiting = {}
    BY <1>2 DEF IInv, Unique
  <2>3. (CHOOSE j \in live : TRUE) = i
    BY <2>1
  <2>4. QED
    BY <1>1, <2>1, <2>2, <2>3
<1>3. ASSUME ~Stored(k), NEW i \in Waiting, old.slot[i] = k PROVE Held(k) = old.count[i]
  <2>1. live = {}
    BY <1>3 DEF Stored
  <2>2. waiting = {i}
    BY <1>3 DEF IInv, Unique
  <2>3. (CHOOSE j \in waiting : TRUE) = i
    BY <2>2
  <2>4. QED
    BY <1>1, <2>1, <2>2, <2>3
<1>4. ASSUME ~Stored(k), \A i \in Waiting : old.slot[i] # k PROVE Held(k) = 0
  <2>1. live = {} /\ waiting = {}
    BY <1>4 DEF Stored
  <2>2. QED
    BY <1>1, <2>1
<1>5. QED
  BY <1>2, <1>3, <1>4

(* One turn of the abstraction: what counting a key does to what is held.   *)
LEMMA CountKeyCounts ==
  ASSUME IInv, IInv', HeldFacts, HeldFacts', Waiting = {}, Waiting' = {},
         cap > 0, NEW k \in Key, CountKey(k)
  PROVE  \A l \in Key : Held(l)' = IF l = k THEN Held(l) + 1 ELSE Held(l)
<1>1. /\ cap' = cap
      /\ \/ /\ ~Stored(k)
            /\ \E t \in Indices(cap) :
                 /\ slot[t] \notin Key
                 /\ slot' = [slot EXCEPT ![t] = k]
                 /\ count' = [count EXCEPT ![t] = 1]
         \/ \E t \in Indices(cap) :
              /\ slot[t] = k
              /\ slot' = slot
              /\ count' = [count EXCEPT ![t] = @ + 1]
  BY CountKeepsTable, InvariantImpliesTable DEF IInv
<1>2. SUFFICES ASSUME NEW l \in Key
               PROVE  Held(l)' = IF l = k THEN Held(l) + 1 ELSE Held(l)
  OBVIOUS
<1>3. slot \in Keys(cap) /\ count \in [Indices(cap) -> Nat]
  BY DEF IInv, TypeOK
<1>4. CASE /\ ~Stored(k)
           /\ \E t \in Indices(cap) :
                /\ slot[t] \notin Key
                /\ slot' = [slot EXCEPT ![t] = k]
                /\ count' = [count EXCEPT ![t] = 1]
  <2>1. PICK t \in Indices(cap) :
          /\ slot[t] \notin Key
          /\ slot' = [slot EXCEPT ![t] = k]
          /\ count' = [count EXCEPT ![t] = 1]
    BY <1>4
  <2>2. CASE l = k
    <3>1. Held(k) = 0
      BY <1>4 DEF HeldFacts
    <3>2. slot'[t] = k /\ count'[t] = 1 /\ t \in Indices(cap)'
      BY <2>1, <1>1, <1>3, SamePaths DEF Keys
    <3>3. Held(k)' = 1
      BY <3>2 DEF HeldFacts
    <3>4. QED
      BY <2>2, <3>1, <3>3
  <2>3. CASE l # k
    <3>1. \A i \in Indices(cap) :
            slot[i] = l => i # t /\ slot'[i] = l /\ count'[i] = count[i]
      BY <2>1, <2>3, <1>3 DEF Keys
    <3>2. \A i \in Indices(cap) : slot'[i] = l => slot[i] = l
      BY <2>1, <2>3, <1>3 DEF Keys
    <3>3. CASE Stored(l)
      BY <3>1, <3>3, <2>3, <1>1, SamePaths DEF HeldFacts, Stored
    <3>4. CASE ~Stored(l)
      <4>1. ~Stored(l)'
        BY <3>2, <3>4, <1>1, SamePaths DEF Stored
      <4>2. QED
        BY <3>4, <4>1, <2>3 DEF HeldFacts
    <3>5. QED
      BY <3>3, <3>4
  <2>4. QED
    BY <2>2, <2>3
<1>5. CASE \E t \in Indices(cap) :
              /\ slot[t] = k
              /\ slot' = slot
              /\ count' = [count EXCEPT ![t] = @ + 1]
  <2>1. PICK t \in Indices(cap) :
          slot[t] = k /\ slot' = slot /\ count' = [count EXCEPT ![t] = @ + 1]
    BY <1>5
  <2>2. CASE l = k
    <3>1. Held(k) = count[t] /\ count'[t] = count[t] + 1
      BY <2>1, <1>3 DEF HeldFacts
    <3>2. Held(k)' = count'[t]
      BY <2>1, <1>1, SamePaths DEF HeldFacts
    <3>3. QED
      BY <2>2, <3>1, <3>2
  <2>3. CASE l # k
    <3>1. \A i \in Indices(cap) : slot[i] = l => count'[i] = count[i]
      BY <2>1, <2>3, <1>3
    <3>2. CASE Stored(l)
      BY <3>1, <3>2, <2>1, <2>3, <1>1, SamePaths DEF HeldFacts, Stored
    <3>3. CASE ~Stored(l)
      <4>1. ~Stored(l)'
        BY <3>3, <2>1, <1>1, SamePaths DEF Stored
      <4>2. QED
        BY <3>3, <4>1, <2>3 DEF HeldFacts
    <3>4. QED
      BY <3>2, <3>3
  <2>4. QED
    BY <2>2, <2>3
<1>6. QED
  BY <1>1, <1>4, <1>5

LEMMA BeginRehashHoldsCounts ==
  ASSUME IInv, IInv', HeldFacts, HeldFacts', NEW k \in Key, BeginRehash(k)
  PROVE  \A l \in Key : Held(l)' = Held(l)
<1>1. /\ old'.cap = cap /\ old'.slot = slot /\ old'.count = count
      /\ cursor' = 0 /\ \A i \in Indices(cap)' : slot'[i] = Empty
      /\ Waiting = {} /\ Waiting' = Indices(cap)
  BY DEF BeginRehash, MayIncrement, IInv, LoadBounded, Waiting, NoTable, Indices
<1>2. SUFFICES ASSUME NEW l \in Key PROVE Held(l)' = Held(l)
  OBVIOUS
<1>3. ~Stored(l)'
  BY <1>1, SlotAssumption DEF Stored
<1>4. CASE Stored(l)
  <2>1. PICK i \in Indices(cap) : slot[i] = l
    BY <1>4 DEF Stored
  <2>2. Held(l) = count[i] /\ Held(l)' = old'.count[i]
    BY <2>1, <1>1, <1>3 DEF HeldFacts
  <2>3. QED
    BY <2>2, <1>1
<1>5. CASE ~Stored(l)
  <2>1. Held(l) = 0
    BY <1>5, <1>1 DEF HeldFacts
  <2>2. Held(l)' = 0
    BY <1>5, <1>1, <1>3 DEF HeldFacts, Stored
  <2>3. QED
    BY <2>1, <2>2
<1>6. QED
  BY <1>4, <1>5

LEMMA RehashSlotHoldsCounts ==
  ASSUME IInv, IInv', HeldFacts, HeldFacts', RehashSlot
  PROVE  \A l \in Key : Held(l)' = Held(l)
<1>1. /\ pending # None /\ cursor < old.cap /\ cursor' = cursor + 1
      /\ UNCHANGED <<cap, pending, old>> /\ cap > 0
  BY DEF RehashSlot, IInv, LoadBounded, TypeOK
<1>2. /\ cursor \in Waiting /\ cursor \in Indices(old.cap)
      /\ Waiting' = Waiting \ {cursor}
  BY <1>1 DEF IInv, TypeOK, Waiting, Indices
<1>3. slot \in Keys(cap) /\ count \in [Indices(cap) -> Nat]
  BY DEF IInv, TypeOK
<1>4. SUFFICES ASSUME NEW l \in Key PROVE Held(l)' = Held(l)
  OBVIOUS
<1>5. CASE old.slot[cursor] \in Key /\ InsertNew(old.slot[cursor], old.count[cursor])
  <2> PICK k \in Key, n \in Nat : k = old.slot[cursor] /\ n = old.count[cursor]
    BY <1>2, <1>5 DEF IInv, TypeOK
  <2>1. ~Stored(k) /\ InsertNew(k, n)
    BY <1>2, <1>5 DEF IInv, Unique, Stored
  <2>2. Held(k) = n
    BY <2>1, <1>2 DEF HeldFacts
  <2>3. \A j \in Waiting : old.slot[j] = k => j = cursor
    BY <2>1, <1>2 DEF IInv, Unique
  <2>4. PICK t \in Indices(cap) :
          /\ slot[t] \notin Key
          /\ slot' = [slot EXCEPT ![t] = k]
          /\ count' = [count EXCEPT ![t] = n]
    BY <2>1, <1>1, InsertKeepsTable, InvariantImpliesTable DEF IInv
  <2>5. CASE l = k
    <3>1. slot'[t] = k /\ count'[t] = n /\ t \in Indices(cap)'
      BY <2>4, <1>1, <1>3, SamePaths DEF Keys
    <3>2. Held(k)' = n
      BY <3>1, <2>1 DEF HeldFacts
    <3>3. QED
      BY <2>5, <2>2, <3>2
  <2>6. CASE l # k
    <3>1. \A i \in Indices(cap) :
            slot[i] = l => slot'[i] = l /\ count'[i] = count[i]
      BY <2>4, <2>6, <1>3 DEF Keys
    <3>2. \A i \in Indices(cap) : slot'[i] = l => slot[i] = l
      BY <2>4, <2>6, <1>3 DEF Keys
    <3>3. CASE Stored(l)
      BY <3>1, <3>3, <1>1, SamePaths DEF HeldFacts, Stored
    <3>4. CASE ~Stored(l)
      <4>1. ~Stored(l)'
        BY <3>2, <3>4, <1>1, SamePaths DEF Stored
      <4>2. old.slot[cursor] # l
        BY <2>6
      <4>3. \A i \in Waiting : old.slot[i] = l => i \in Waiting'
        BY <4>2, <1>2
      <4>4. CASE \E i \in Waiting : old.slot[i] = l
        BY <4>1, <4>3, <4>4, <3>4, <1>1 DEF HeldFacts
      <4>5. CASE \A i \in Waiting : old.slot[i] # l
        BY <4>1, <4>5, <3>4, <1>1, <1>2 DEF HeldFacts
      <4>6. QED
        BY <4>4, <4>5
    <3>5. QED
      BY <3>3, <3>4
  <2>7. QED
    BY <2>5, <2>6
<1>6. CASE old.slot[cursor] \notin Key /\ UNCHANGED <<slot, count, len, tombstones>>
  <2>1. Stored(l)' <=> Stored(l)
    BY <1>1, <1>6, SamePaths DEF Stored
  <2>2. \A i \in Waiting : old.slot[i] = l => i \in Waiting'
    BY <1>2, <1>6
  <2>3. CASE Stored(l)
    BY <2>3, <1>1, <1>6, SamePaths DEF HeldFacts, Stored
  <2>4. CASE ~Stored(l) /\ \E i \in Waiting : old.slot[i] = l
    BY <2>1, <2>2, <2>4, <1>1 DEF HeldFacts
  <2>5. CASE ~Stored(l) /\ \A i \in Waiting : old.slot[i] # l
    BY <2>1, <2>5, <1>1, <1>2 DEF HeldFacts
  <2>6. QED
    BY <2>3, <2>4, <2>5
<1>7. QED
  BY <1>5, <1>6 DEF RehashSlot

LEMMA DecrementCounts ==
  ASSUME IInv, IInv', HeldFacts, HeldFacts', CountsPositive,
         NEW k \in Key, Decrement(k)
  PROVE  /\ Held(k) > 0
         /\ \A l \in Key : Held(l)' = IF l = k THEN Held(l) - 1 ELSE Held(l)
<1>1. PICK t \in Find(k) :
        \/ /\ count[t] > 1
           /\ count' = [count EXCEPT ![t] = @ - 1]
           /\ UNCHANGED <<slot, len, tombstones>>
        \/ count[t] <= 1 /\ Vacate(t)
  BY DEF Decrement
<1>2. /\ UNCHANGED <<cap, pending, old, cursor>>
      /\ t \in Indices(cap) /\ slot[t] = k
      /\ Waiting = {} /\ Waiting' = {}
  BY <1>1 DEF Decrement, Find, IInv, LoadBounded, Waiting, NoTable
<1>3. slot \in Keys(cap) /\ count \in [Indices(cap) -> Nat]
  BY DEF IInv, TypeOK
<1>4. Held(k) = count[t] /\ count[t] > 0
  BY <1>2 DEF HeldFacts, CountsPositive
<1>5. \A i \in Indices(cap) : slot[i] = k => i = t
  BY <1>2 DEF IInv, Unique
<1>6. SUFFICES ASSUME NEW l \in Key
               PROVE  Held(l)' = IF l = k THEN Held(l) - 1 ELSE Held(l)
  BY <1>4
<1>7. CASE /\ count[t] > 1
           /\ count' = [count EXCEPT ![t] = @ - 1]
           /\ UNCHANGED <<slot, len, tombstones>>
  <2>1. CASE l = k
    BY <2>1, <1>7, <1>2, <1>3, <1>4, SamePaths DEF HeldFacts
  <2>2. CASE l # k /\ Stored(l)
    <3>1. PICK i \in Indices(cap) : slot[i] = l
      BY <2>2 DEF Stored
    <3>2. i # t /\ count'[i] = count[i]
      BY <3>1, <2>2, <1>7, <1>2, <1>3
    <3>3. QED
      BY <3>1, <3>2, <2>2, <1>2, <1>7, SamePaths DEF HeldFacts
  <2>3. CASE l # k /\ ~Stored(l)
    <3>1. ~Stored(l)'
      BY <2>3, <1>2, <1>7, SamePaths DEF Stored
    <3>2. QED
      BY <3>1, <2>3, <1>2 DEF HeldFacts
  <2>4. QED
    BY <2>1, <2>2, <2>3
<1>8. CASE count[t] <= 1 /\ Vacate(t)
  <2>1. slot' = [slot EXCEPT ![t] = Tomb] /\ count' = [count EXCEPT ![t] = 0]
    BY <1>8 DEF Vacate
  <2>2. count[t] = 1
    BY <1>8, <1>3, <1>2, <1>4
  <2>3. \A i \in Indices(cap) : slot'[i] = IF i = t THEN Tomb ELSE slot[i]
    BY <2>1, <1>3 DEF Keys
  <2>4. CASE l = k
    <3>1. ~Stored(k)'
      BY <2>3, <1>2, <1>5, SamePaths, SlotAssumption DEF Stored
    <3>2. Held(k)' = 0
      BY <3>1, <1>2 DEF HeldFacts
    <3>3. QED
      BY <2>4, <3>2, <2>2, <1>4
  <2>5. CASE l # k /\ Stored(l)
    <3>1. PICK i \in Indices(cap) : slot[i] = l
      BY <2>5 DEF Stored
    <3>2. i # t /\ count'[i] = count[i] /\ slot'[i] = l
      BY <3>1, <2>5, <2>1, <2>3, <1>2, <1>3
    <3>3. QED
      BY <3>1, <3>2, <2>5, <1>2, SamePaths DEF HeldFacts
  <2>6. CASE l # k /\ ~Stored(l)
    <3>1. ~Stored(l)'
      BY <2>6, <2>3, <1>2, SamePaths, SlotAssumption DEF Stored
    <3>2. QED
      BY <3>1, <2>6, <1>2 DEF HeldFacts
  <2>7. QED
    BY <2>4, <2>5, <2>6
<1>9. QED
  BY <1>1, <1>7, <1>8

(* Counts stay positive: vacating keeps zeros out of the table.             *)
LEMMA PositiveStep ==
  ASSUME IInv, IInv', CountsPositive, [Next]_vars
  PROVE  CountsPositive'
<1>1. ASSUME NEW k \in Key, CountKey(k), cap > 0,
             Waiting' = {}
      PROVE  CountsPositive'
  <2>1. /\ cap' = cap
        /\ \/ \E t \in Indices(cap) :
                /\ slot' = [slot EXCEPT ![t] = k]
                /\ count' = [count EXCEPT ![t] = 1]
           \/ \E t \in Indices(cap) :
                /\ slot[t] = k
                /\ slot' = slot
                /\ count' = [count EXCEPT ![t] = @ + 1]
    BY <1>1, CountKeepsTable, InvariantImpliesTable DEF IInv
  <2>2. \A i \in Indices(cap) : slot'[i] \in Key => count'[i] > 0
    BY <2>1 DEF CountsPositive, IInv, TypeOK, Keys
  <2>3. QED
    BY <2>1, <2>2, <1>1, SamePaths DEF CountsPositive
<1>2. ASSUME NEW k \in Key, Increment(k) PROVE CountsPositive'
  <2>1. cap > 0 /\ CountKey(k) /\ Waiting' = {}
    BY <1>2 DEF Increment, MayIncrement, NeedsRehash, IInv, TypeOK, LoadBounded,
                Waiting, NoTable
  <2>2. QED
    BY <1>1, <2>1
<1>3. ASSUME NEW k \in Key, BeginRehash(k) PROVE CountsPositive'
  <2>1. /\ old'.slot = slot /\ old'.count = count /\ Waiting' = Indices(cap)
        /\ \A i \in Indices(cap)' : slot'[i] = Empty
    BY <1>3 DEF BeginRehash, Waiting, Indices
  <2>2. QED
    BY <2>1, SlotAssumption DEF CountsPositive
<1>4. CASE RehashSlot
  <2>1. /\ cap' = cap /\ old' = old /\ cursor' = cursor + 1 /\ cursor < old.cap
        /\ cap > 0
    BY <1>4 DEF RehashSlot, IInv, LoadBounded, TypeOK
  <2>2. /\ Waiting' \subseteq Waiting /\ cursor \in Waiting
        /\ cursor \in Indices(old.cap)
    BY <2>1 DEF Waiting, IInv, TypeOK, Indices
  <2>3. \A i \in Indices(cap) : slot'[i] \in Key => count'[i] > 0
    <3>1. CASE old.slot[cursor] \in Key /\ InsertNew(old.slot[cursor], old.count[cursor])
      <4> PICK k \in Key, n \in Nat : k = old.slot[cursor] /\ n = old.count[cursor]
        BY <2>2, <3>1 DEF IInv, TypeOK
      <4>1. ~Stored(k) /\ InsertNew(k, n)
        BY <2>2, <3>1 DEF IInv, Unique, Stored
      <4>2. PICK t \in Indices(cap) :
              /\ slot' = [slot EXCEPT ![t] = k]
              /\ count' = [count EXCEPT ![t] = n]
        BY <4>1, <2>1, InsertKeepsTable, InvariantImpliesTable DEF IInv
      <4>3. n > 0
        BY <2>2, <3>1 DEF CountsPositive
      <4>4. QED
        BY <4>2, <4>3 DEF CountsPositive, IInv, TypeOK, Keys
    <3>2. CASE UNCHANGED <<slot, count>>
      BY <3>2 DEF CountsPositive
    <3>3. QED
      BY <1>4, <3>1, <3>2 DEF RehashSlot
  <2>4. QED
    BY <2>1, <2>2, <2>3, SamePaths DEF CountsPositive
<1>5. CASE FinishIncrement
  <2>1. cap > 0 /\ CountKey(pending) /\ pending \in Key /\ Waiting' = {}
    BY <1>5 DEF FinishIncrement, IInv, TypeOK, LoadBounded, Waiting, NoTable
  <2>2. QED
    BY <1>1, <2>1
<1>6. ASSUME NEW k \in Key, Decrement(k) PROVE CountsPositive'
  <2>1. PICK t \in Find(k) :
          \/ /\ count[t] > 1
             /\ count' = [count EXCEPT ![t] = @ - 1]
             /\ slot' = slot
          \/ /\ slot' = [slot EXCEPT ![t] = Tomb]
             /\ count' = [count EXCEPT ![t] = 0]
    BY <1>6 DEF Decrement, Vacate
  <2>2. UNCHANGED <<cap, old, cursor>> /\ t \in Indices(cap)
    BY <1>6, <2>1 DEF Decrement, Find
  <2>3. \A i \in Indices(cap) : slot'[i] \in Key => count'[i] > 0
    BY <2>1, <2>2, SlotAssumption DEF CountsPositive, IInv, TypeOK, Keys
  <2>4. QED
    BY <2>2, <2>3, SamePaths DEF CountsPositive, Waiting
<1>7. CASE UNCHANGED vars
  BY <1>7, SamePaths DEF vars, CountsPositive, Waiting
<1>8. QED
  BY <1>2, <1>3, <1>4, <1>5, <1>6, <1>7 DEF Next

(* No stored key has a count of zero, not even one that waits for a rehash  *)
(* to move it, so every decrement either counts down or vacates.            *)
THEOREM CountsArePositive == Spec => []CountsPositive
<1>1. Init => CountsPositive
  BY DEF Init, NoTable, Indices, CountsPositive, Waiting
<1>2. IInv /\ IInv' /\ CountsPositive /\ [Next]_vars => CountsPositive'
  BY PositiveStep
<1>3. QED
  BY <1>1, <1>2, TableInvariant, PTL DEF Spec

(* What an increment changes, with and without a rehash in between.        *)
LEMMA IncrementCounts ==
  ASSUME IInv, IInv', HeldFacts, HeldFacts', NEW k \in Key, Increment(k)
  PROVE  \A l \in Key : Held(l)' = IF l = k THEN Held(l) + 1 ELSE Held(l)
<1>1. cap > 0 /\ CountKey(k) /\ Waiting = {} /\ Waiting' = {}
  BY DEF Increment, MayIncrement, NeedsRehash, IInv, TypeOK, LoadBounded, Waiting, NoTable
<1>2. QED
  BY <1>1, CountKeyCounts

LEMMA FinishCounts ==
  ASSUME IInv, IInv', HeldFacts, HeldFacts', FinishIncrement
  PROVE  /\ pending \in Key
         /\ \A l \in Key : Held(l)' = IF l = pending THEN Held(l) + 1 ELSE Held(l)
<1>1. PICK k \in Key : k = pending
  BY DEF FinishIncrement, IInv, TypeOK
<1>2. cap > 0 /\ CountKey(k) /\ Waiting = {} /\ Waiting' = {}
  BY <1>1 DEF FinishIncrement, IInv, TypeOK, LoadBounded, Waiting, NoTable
<1>3. QED
  BY <1>1, <1>2, CountKeyCounts

(* For every caller, the table is a bag of keys: rehashing and probing are  *)
(* invisible, and no count is ever lost or invented.                        *)
THEOREM TableImplementsBag == Spec => ImplementsBag
<1>1. Init => Bag!Init
  <2> SUFFICES ASSUME Init PROVE Bag!Init
    OBVIOUS
  <2>1. Indices(cap) = {} /\ Waiting = {}
    BY DEF Init, NoTable, Indices, Waiting
  <2>2. HeldFacts
    BY InitEstablishesInvariant, HeldIs
  <2>3. \A k \in Key : Held(k) = 0
    BY <2>1, <2>2 DEF HeldFacts, Stored
  <2>4. QED
    BY <2>3 DEF Init, Bag!Init
<1>2. ASSUME IInv, IInv', HeldFacts, HeldFacts', CountsPositive, [Next]_vars
      PROVE  [Bag!Next]_(Bag!vars)
  <2>1. ASSUME NEW k \in Key,
               \A l \in Key : Held(l)' = IF l = k THEN Held(l) + 1 ELSE Held(l)
        PROVE  [l \in Key |-> Held(l)]' = [[l \in Key |-> Held(l)] EXCEPT ![k] = @ + 1]
    BY <2>1
  <2>2. ASSUME \A l \in Key : Held(l)' = Held(l)
        PROVE  UNCHANGED [k \in Key |-> Held(k)]
    BY <2>2
  <2>3. ASSUME NEW k \in Key, Increment(k) PROVE Bag!Next
    <3>1. Bag!Increment(k)
      BY <1>2, <2>1, <2>3, IncrementCounts DEF Bag!Increment, Increment, MayIncrement
    <3>2. QED
      BY <3>1 DEF Bag!Next
  <2>4. ASSUME NEW k \in Key, Decrement(k) PROVE Bag!Next
    <3>1. Bag!Decrement(k)
      BY <2>4, <1>2, DecrementCounts DEF Bag!Decrement, Decrement
    <3>2. QED
      BY <3>1 DEF Bag!Next
  <2>5. CASE FinishIncrement
    <3>1. Bag!Finish
      BY <1>2, <2>1, <2>5, FinishCounts DEF Bag!Finish, FinishIncrement
    <3>2. QED
      BY <3>1 DEF Bag!Next
  <2>6. ASSUME NEW k \in Key, BeginRehash(k) PROVE Bag!Next
    <3>1. Bag!Begin(k)
      BY <2>6, <1>2, <2>2, BeginRehashHoldsCounts DEF Bag!Begin, BeginRehash, MayIncrement
    <3>2. QED
      BY <3>1 DEF Bag!Next
  <2>7. CASE RehashSlot
    BY <2>7, <1>2, <2>2, RehashSlotHoldsCounts DEF RehashSlot, Bag!vars
  <2>8. CASE UNCHANGED vars
    <3>1. UNCHANGED [k \in Key |-> Held(k)]
      BY <2>8, SamePaths DEF vars, Held, Waiting, Indices
    <3>2. QED
      BY <3>1, <2>8 DEF vars, Bag!vars
  <2>9. QED
    BY <1>2, <2>3, <2>4, <2>5, <2>6, <2>7, <2>8 DEF Next
<1>3. Spec => [](IInv /\ HeldFacts)
  BY TableInvariant, HeldIs, PTL
<1>4. QED
  BY <1>1, <1>2, <1>3, CountsArePositive, PTL DEF Spec, ImplementsBag, Bag!Spec

(***************************************************************************)
(*                         The history.                                    *)
(***************************************************************************)

-----------------------------------------------------------------------------
(* Types, and the counters under the ring.                                  *)

RingTypes ==
  /\ pushed \in Entries /\ entries \in Entries
  /\ adding \in Entry /\ leaving \in Entry
  /\ logicalBytes \in Nat
  /\ pc \in {"idle", "counting", "evicting"}
  /\ pc = "counting" => pushed # <<>>

LEMMA HeadOfEntry ==
  ASSUME NEW e \in Entry, e # <<>>
  PROVE  Head(e) \in Fragment /\ Head(e) \in Key /\ Tail(e) \in Entry /\ Bytes[Head(e)] \in Nat
<1>1. Head(e) \in Fragment /\ Tail(e) \in Entry
  BY DEF Entry
<1>2. QED
  BY <1>1, FragmentsAssumption, BytesAssumption

LEMMA StepKeepsTypes ==
  ASSUME RingTypes, [HistoryNext]_allVars
  PROVE  RingTypes'
<1>1. ASSUME NEW p \in Phrases, Push(p) PROVE RingTypes'
  <2>1. p \in Entry
    BY PhrasesAssumption DEF Entry
  <2>2. pushed' = Append(pushed, p) /\ pushed' \in Entries /\ pushed' # <<>>
    BY <1>1, <2>1 DEF Push, RingTypes, Entries
  <2>3. QED
    BY <1>1, <2>1, <2>2 DEF Push, RingTypes
<1>2. CASE CountFragment
  <2>1. CASE Counted
    BY <1>2, <2>1, HeadOfEntry DEF CountFragment, Counted, RingTypes
  <2>2. CASE UNCHANGED ring
    BY <2>2 DEF ring, RingTypes
  <2>3. QED
    BY <1>2, <2>1, <2>2 DEF CountFragment
<1>3. CASE Enqueue
  <2>1. pushed[Len(pushed)] \in Entry
    BY <1>3 DEF Enqueue, RingTypes, Entries
  <2>2. entries' \in Entries
    BY <1>3, <2>1 DEF Enqueue, RingTypes, Entries
  <2>3. QED
    BY <1>3, <2>2 DEF Enqueue, RingTypes
<1>4. CASE Pop
  <2>1. Head(entries) \in Entry /\ Tail(entries) \in Entries
    BY <1>4 DEF Pop, RingTypes, Entries
  <2>2. QED
    BY <1>4, <2>1 DEF Pop, RingTypes
<1>5. CASE UncountFragment
  <2>1. Bytes[Head(leaving)] \in Nat /\ Tail(leaving) \in Entry
    BY <1>5, HeadOfEntry DEF UncountFragment, RingTypes
  <2>2. QED
    BY <1>5, <2>1 DEF UncountFragment, RingTypes
<1>6. CASE Return
  BY <1>6 DEF Return, RingTypes
<1>7. CASE UNCHANGED allVars
  BY <1>7 DEF allVars, ring, RingTypes
<1>8. QED
  BY <1>1, <1>2, <1>3, <1>4, <1>5, <1>6, <1>7 DEF HistoryNext, Step

LEMMA InitTypes == HistoryInit => RingTypes
BY DEF HistoryInit, RingTypes, Entries, Entry

(* Types of the ring and of the entry that is being counted or evicted.     *)
THEOREM RingTypeCorrect == HistorySpec => []RingTypes
<1>1. RingTypes /\ [HistoryNext]_allVars => RingTypes'
  BY StepKeepsTypes
<1>2. QED
  BY <1>1, InitTypes, PTL DEF HistorySpec

(* What the ring makes of its counters are calls of a CountMap.            *)
LEMMA RingStepIsTableStep ==
  ASSUME RingTypes, [HistoryNext]_allVars
  PROVE  [Next]_vars
<1>1. CASE \E p \in Phrases : Push(p)
  BY <1>1 DEF Push
<1>2. CASE CountFragment
  <2>1. Head(adding) \in Key
    BY <1>2, HeadOfEntry DEF CountFragment, RingTypes
  <2>2. QED
    BY <1>2, <2>1 DEF CountFragment, Next
<1>3. CASE Enqueue \/ Pop \/ Return
  BY <1>3 DEF Enqueue, Pop, Return
<1>4. CASE UncountFragment
  <2>1. Head(leaving) \in Key
    BY <1>4, HeadOfEntry DEF UncountFragment, RingTypes
  <2>2. QED
    BY <1>4, <2>1 DEF UncountFragment, Next
<1>5. CASE UNCHANGED allVars
  BY <1>5 DEF allVars
<1>6. QED
  BY <1>1, <1>2, <1>3, <1>4, <1>5 DEF HistoryNext, Step

Counters == IInv /\ HeldFacts /\ CountsPositive

(* Everything proved about CountMap holds of the counters of a history.     *)
THEOREM CountersSound == HistorySpec => []Counters
<1>1. HistoryInit => Init
  BY DEF HistoryInit
<1>2. RingTypes /\ [HistoryNext]_allVars => [Next]_vars
  BY RingStepIsTableStep
<1>3. HistorySpec => Spec
  BY <1>1, <1>2, RingTypeCorrect, PTL DEF HistorySpec, Spec
<1>4. QED
  BY <1>3, TableInvariant, HeldIs, CountsArePositive, PTL DEF Counters

-----------------------------------------------------------------------------
(* The invariant of a push.                                                 *)

(* The entries of the ring, with the one that is being counted into it.    *)
Ring == IF pc = "counting" THEN Append(entries, pushed[Len(pushed)]) ELSE entries

(* The ring is a run of the most recent entries and holds every run that   *)
(* fits; counters and bytes are those of the ring, less what is not yet     *)
(* counted and with what is not yet uncounted; only the fragment at the     *)
(* head of `adding` can be waiting for a rehash.                            *)
RingInv ==
  /\ Len(Ring) <= Len(pushed) /\ Ring = Suffix(pushed, Len(Ring))
  /\ \A n \in Fitting(pushed) : n <= Len(Ring)
  /\ \A f \in Fragment :
       Held(f) + Count(adding, f) = Occurrences(Ring, f) + Count(leaving, f)
  /\ logicalBytes + Weight(adding) = Size(Ring) + Weight(leaving)
  /\ pc # "counting" => adding = <<>>
  /\ pc # "evicting" => leaving = <<>>
  /\ pc = "idle" => Len(entries) \in Fitting(pushed)
  /\ pending # None => pc = "counting" /\ adding # <<>> /\ pending = Head(adding)

LEMMA HeldIsNat ==
  ASSUME Counters, NEW k \in Key
  PROVE  Held(k) \in Nat
<1>1. CASE Stored(k)
  <2>1. PICK i \in Indices(cap) : slot[i] = k
    BY <1>1 DEF Stored
  <2>2. Held(k) = count[i] /\ count[i] \in Nat
    BY <2>1 DEF Counters, HeldFacts, IInv, TypeOK
  <2>3. QED
    BY <2>2
<1>2. CASE ~Stored(k) /\ \E i \in Waiting : old.slot[i] = k
  <2>1. PICK i \in Waiting : old.slot[i] = k
    BY <1>2
  <2>2. i \in Indices(old.cap)
    BY <2>1 DEF Counters, IInv, TypeOK, Waiting, Indices
  <2>3. Held(k) = old.count[i] /\ old.count[i] \in Nat
    BY <1>2, <2>1, <2>2 DEF Counters, HeldFacts, IInv, TypeOK
  <2>4. QED
    BY <2>3
<1>3. CASE ~Stored(k) /\ \A i \in Waiting : old.slot[i] # k
  BY <1>3 DEF Counters, HeldFacts
<1>4. QED
  BY <1>1, <1>2, <1>3

LEMMA NothingToCount ==
  Weight(<<>>) = 0 /\ <<>> \in Entry /\ \A f : Count(<<>>, f) = 0
<1>1. <<>> \in Entry /\ Len(<<>>) = 0
  BY DEF Entry
<1>2. Octets(<<>>) = {} /\ \A f : Places(<<>>, f) = {}
  BY <1>1 DEF Octets, Places
<1>3. QED
  BY <1>1, <1>2, FS_EmptySet DEF Weight, Count

LEMMA SameCounters ==
  ASSUME UNCHANGED vars
  PROVE  \A k \in Key : Held(k)' = Held(k)
BY SamePaths DEF vars, Held, Waiting, Indices

LEMMA InitRing == HistoryInit => RingInv
<1> SUFFICES ASSUME HistoryInit PROVE RingInv
  OBVIOUS
<1>1. /\ entries = <<>> /\ pushed = <<>> /\ adding = <<>> /\ leaving = <<>> /\ logicalBytes = 0
      /\ pc = "idle" /\ pending = None /\ Init
  BY DEF HistoryInit, Init
<1>2. Ring = <<>> /\ Len(Ring) = 0 /\ <<>> \in Entries /\ Len(pushed) = 0
  BY <1>1 DEF Ring, Entries
<1>3. 0 \in Fitting(pushed) /\ Suffix(pushed, 0) = <<>>
  BY <1>1, <1>2, NothingFits
<1>4. \A n \in Fitting(pushed) : n <= 0
  BY <1>2 DEF Fitting
<1>5. \A f \in Fragment : Held(f) = 0
  <2>1. Indices(cap) = {} /\ Waiting = {}
    BY <1>1 DEF Init, NoTable, Indices, Waiting
  <2>2. HeldFacts
    BY <1>1, InitEstablishesInvariant, HeldIs
  <2>3. QED
    BY <2>1, <2>2, FragmentsAssumption DEF HeldFacts, Stored
<1>6. QED
  BY <1>1, <1>2, <1>3, <1>4, <1>5, NothingHeld, NothingToCount DEF RingInv

LEMMA PushKeepsRing ==
  ASSUME RingTypes, Counters, RingInv, NEW p \in Phrases, Push(p)
  PROVE  RingInv'
<1>1. /\ p \in Entry /\ pushed \in Entries /\ entries \in Entries /\ Len(pushed) \in Nat
      /\ Len(entries) \in Nat /\ Len(Append(pushed, p)) = Len(pushed) + 1
      /\ Append(pushed, p)[Len(pushed) + 1] = p /\ Append(pushed, p) \in Entries
  BY PhrasesAssumption DEF Entry, RingTypes, Entries
<1>2. /\ pc = "idle" /\ pushed' = Append(pushed, p) /\ adding = <<>> /\ leaving = <<>>
      /\ pending = None /\ UNCHANGED <<vars, entries, logicalBytes, leaving>>
  BY DEF Push, RingInv
<1>3. /\ Ring = entries /\ Len(entries) <= Len(pushed) /\ entries = Suffix(pushed, Len(entries))
      /\ Len(entries) \in Fitting(pushed) /\ \A n \in Fitting(pushed) : n <= Len(entries)
      /\ Len(entries) \in 0 .. Len(pushed)
  BY <1>1, <1>2 DEF RingInv, Ring
<1>4. /\ \A f \in Fragment : Held(f)' = Occurrences(entries, f) /\ Occurrences(entries, f) \in Nat
      /\ logicalBytes = Size(entries) /\ Size(entries) \in Nat
  <2>1. ASSUME NEW f \in Fragment PROVE Held(f)' = Occurrences(entries, f)
    <3>1. Held(f)' = Held(f) /\ Held(f) \in Nat
      BY <1>2, SameCounters, HeldIsNat, FragmentsAssumption
    <3>2. Held(f) + Count(<<>>, f) = Occurrences(entries, f) + Count(<<>>, f)
      BY <1>2, <1>3 DEF RingInv
    <3>3. Count(<<>>, f) = 0 /\ Occurrences(entries, f) \in Nat
      BY <1>1, NothingToCount, AtFinite
    <3>4. QED
      BY <3>1, <3>2, <3>3
  <2>2. logicalBytes + Weight(<<>>) = Size(entries) + Weight(<<>>)
    BY <1>2, <1>3 DEF RingInv
  <2>3. Weight(<<>>) = 0 /\ Size(entries) \in Nat /\ logicalBytes \in Nat
    BY <1>1, NothingToCount, PayloadFinite DEF RingTypes
  <2>4. logicalBytes = Size(entries)
    BY <2>2, <2>3
  <2>5. QED
    BY <1>1, <2>1, <2>3, <2>4, AtFinite
<1>5. CASE Capacity = 0
  <2>1. pc' = "idle" /\ adding' = <<>> /\ Ring' = entries /\ pending' = None
    BY <1>2, <1>5 DEF Push, Ring, vars
  <2>2. Fitting(pushed) \subseteq {0} /\ Fitting(pushed') \subseteq {0}
    BY <1>1, <1>2, <1>5 DEF Fitting
  <2>3. Len(entries) = 0
    BY <1>3, <2>2
  <2>4. 0 \in Fitting(pushed') /\ Suffix(pushed', 0) = <<>> /\ entries = <<>>
    BY <1>1, <1>2, <1>3, <2>3, NothingFits
  <2>5. \A f \in Fragment : Held(f)' + Count(<<>>, f) = Occurrences(entries, f) + Count(<<>>, f)
    BY <1>4
  <2>6. QED
    BY <1>1, <1>2, <1>4, <2>1, <2>2, <2>3, <2>4, <2>5 DEF RingInv
<1>6. CASE Capacity # 0
  <2>1. pc' = "counting" /\ adding' = p /\ pending' = None
    BY <1>2, <1>6 DEF Push, vars
  <2>2. Ring' = Append(entries, p) /\ Len(Ring') = Len(entries) + 1
    BY <1>1, <1>2, <2>1 DEF Ring, Entries
  <2>3. Ring' = Suffix(pushed', Len(Ring'))
    BY <1>1, <1>2, <1>3, <2>2, SuffixAppend
  <2>4. \A n \in Fitting(pushed') : n <= Len(Ring')
    <3> SUFFICES ASSUME NEW n \in Fitting(pushed') PROVE n <= Len(entries) + 1
      BY <2>2
    <3>1. n \in Nat
      BY <1>1, <1>2 DEF Fitting
    <3>2. CASE n = 0
      BY <1>1, <3>2
    <3>3. CASE n # 0
      <4>1. n - 1 \in Fitting(pushed)
        BY <1>1, <1>2, <3>3, FitsBefore
      <4>2. QED
        BY <1>1, <1>3, <3>1, <4>1
    <3>4. QED
      BY <3>2, <3>3
  <2>5. \A f \in Fragment : Held(f)' + Count(p, f) = Occurrences(Ring', f) + Count(<<>>, f)
    <3> SUFFICES ASSUME NEW f \in Fragment
                 PROVE  Held(f)' + Count(p, f) = Occurrences(Ring', f) + Count(<<>>, f)
      OBVIOUS
    <3>1. Occurrences(Ring', f) = Occurrences(entries, f) + Count(p, f)
      BY <1>1, <2>2, OccurrencesAppend
    <3>2. Count(<<>>, f) = 0 /\ Count(p, f) \in Nat
      BY <1>1, NothingToCount, PlacesFinite
    <3>3. QED
      BY <1>4, <3>1, <3>2
  <2>6. logicalBytes' + Weight(p) = Size(Ring') + Weight(<<>>)
    <3>1. Size(Ring') = Size(entries) + Weight(p)
      BY <1>1, <2>2, SizeAppend
    <3>2. Weight(<<>>) = 0 /\ Weight(p) \in Nat
      BY <1>1, NothingToCount, OctetsFinite
    <3>3. QED
      BY <1>2, <1>4, <3>1, <3>2
  <2>7. Len(Ring') <= Len(pushed')
    BY <1>1, <1>2, <1>3, <2>2
  <2>8. QED
    BY <1>2, <2>1, <2>3, <2>4, <2>5, <2>6, <2>7 DEF RingInv
<1>7. QED
  BY <1>5, <1>6

(* One more fragment is counted and billed, one fewer waits.               *)
FragmentCounted ==
  \A k \in Key : Held(k)' = IF k = Head(adding) THEN Held(k) + 1 ELSE Held(k)

LEMMA CountedKeepsRing ==
  ASSUME RingTypes, Counters, RingInv, pc = "counting", adding # <<>>,
         FragmentCounted, Counted, pending' = None
  PROVE  RingInv'
<1>1. /\ pc' = "counting" /\ pushed' = pushed /\ entries' = entries /\ leaving' = leaving
      /\ Ring' = Ring /\ adding' = Tail(adding) /\ logicalBytes' = logicalBytes + Bytes[Head(adding)]
      /\ adding \in Entry
  BY DEF Counted, Ring, RingTypes
<1>2. /\ Weight(adding) = Weight(Tail(adding)) + Bytes[Head(adding)]
      /\ Weight(Tail(adding)) \in Nat /\ Bytes[Head(adding)] \in Nat /\ logicalBytes \in Nat
  BY <1>1, WeightTail, HeadOfEntry, OctetsFinite DEF RingTypes
<1>3. logicalBytes' + Weight(adding') = logicalBytes + Weight(adding)
  BY <1>1, <1>2
<1>4. ASSUME NEW f \in Fragment
      PROVE  Held(f)' + Count(adding', f) = Held(f) + Count(adding, f)
  <2>1. Count(adding, f) = Count(Tail(adding), f) + IF Head(adding) = f THEN 1 ELSE 0
    BY <1>1, CountTail
  <2>2. Count(Tail(adding), f) \in Nat /\ Held(f) \in Nat
    BY <1>1, HeadOfEntry, PlacesFinite, HeldIsNat, FragmentsAssumption
  <2>3. Held(f)' = IF f = Head(adding) THEN Held(f) + 1 ELSE Held(f)
    BY FragmentsAssumption DEF FragmentCounted
  <2>4. QED
    BY <1>1, <2>1, <2>2, <2>3
<1>5. \A f \in Fragment : Held(f)' + Count(adding', f) = Occurrences(Ring, f) + Count(leaving, f)
  BY <1>4 DEF RingInv
<1>6. logicalBytes' + Weight(adding') = Size(Ring) + Weight(leaving)
  BY <1>3 DEF RingInv
<1>7. QED
  BY <1>1, <1>5, <1>6 DEF RingInv

LEMMA CountFragmentKeepsRing ==
  ASSUME RingTypes, Counters, Counters', RingInv, CountFragment
  PROVE  RingInv'
<1>1. pc = "counting" /\ adding # <<>> /\ Head(adding) \in Key
  BY HeadOfEntry DEF CountFragment, RingTypes
<1>2. CASE Increment(Head(adding)) /\ Counted
  <2>1. FragmentCounted
    BY <1>1, <1>2, IncrementCounts DEF Counters, FragmentCounted
  <2>2. pending' = None
    BY <1>2 DEF Increment, MayIncrement
  <2>3. QED
    BY <1>1, <1>2, <2>1, <2>2, CountedKeepsRing
<1>3. CASE FinishIncrement /\ Counted
  <2>1. pending = Head(adding)
    BY <1>3 DEF RingInv, FinishIncrement
  <2>2. FragmentCounted
    BY <1>3, <2>1, FinishCounts DEF Counters, FragmentCounted
  <2>3. pending' = None
    BY <1>3 DEF FinishIncrement
  <2>4. QED
    BY <1>1, <1>3, <2>2, <2>3, CountedKeepsRing
<1>4. CASE BeginRehash(Head(adding)) /\ UNCHANGED ring
  <2>1. \A k \in Key : Held(k)' = Held(k)
    BY <1>1, <1>4, BeginRehashHoldsCounts DEF Counters
  <2>2. pending' = Head(adding) /\ UNCHANGED <<entries, logicalBytes, pc, adding, leaving, pushed>>
    BY <1>4 DEF BeginRehash, ring
  <2>3. QED
    BY <1>1, <2>1, <2>2, FragmentsAssumption DEF RingInv, Ring
<1>5. CASE RehashSlot /\ UNCHANGED ring
  <2>1. \A k \in Key : Held(k)' = Held(k)
    BY <1>5, RehashSlotHoldsCounts DEF Counters
  <2>2. pending' = pending /\ UNCHANGED <<entries, logicalBytes, pc, adding, leaving, pushed>>
    BY <1>5 DEF RehashSlot, ring
  <2>3. QED
    BY <2>1, <2>2, FragmentsAssumption DEF RingInv, Ring
<1>6. QED
  BY <1>2, <1>3, <1>4, <1>5 DEF CountFragment

LEMMA EnqueueKeepsRing ==
  ASSUME RingTypes, RingInv, Enqueue
  PROVE  RingInv'
<1>1. /\ pc = "counting" /\ pc' = "evicting" /\ adding = <<>> /\ leaving = <<>>
      /\ entries' = Ring /\ UNCHANGED <<vars, logicalBytes, adding, leaving, pushed>>
  BY DEF Enqueue, Ring, RingInv
<1>2. Ring' = Ring /\ pending' = pending /\ pending = None
  BY <1>1 DEF Ring, RingInv, vars
<1>3. \A f \in Fragment : Held(f)' = Held(f)
  BY <1>1, SameCounters, FragmentsAssumption
<1>4. QED
  BY <1>1, <1>2, <1>3 DEF RingInv

(* The figures of a ring that evicts.                                      *)
LEMMA EvictingFigures ==
  ASSUME RingTypes, Counters, RingInv, pc = "evicting"
  PROVE  /\ Ring = entries /\ adding = <<>> /\ pending = None
         /\ Len(entries) \in 0 .. Len(pushed) /\ Len(entries) \in Nat
         /\ \A f \in Fragment : Held(f) = Occurrences(entries, f) + Count(leaving, f)
         /\ logicalBytes = Size(entries) + Weight(leaving)
<1>1. Ring = entries /\ adding = <<>> /\ pending = None /\ Len(entries) <= Len(pushed)
  BY DEF Ring, RingInv
<1>2. entries \in Entries /\ leaving \in Entry /\ Len(entries) \in Nat /\ Len(pushed) \in Nat
  BY DEF RingTypes, Entries
<1>3. ASSUME NEW f \in Fragment
      PROVE  Held(f) = Occurrences(entries, f) + Count(leaving, f)
  <2>1. Held(f) + Count(<<>>, f) = Occurrences(entries, f) + Count(leaving, f)
    BY <1>1 DEF RingInv
  <2>2. Held(f) \in Nat /\ Count(<<>>, f) = 0
    BY HeldIsNat, NothingToCount, FragmentsAssumption
  <2>3. QED
    BY <2>1, <2>2
<1>4. logicalBytes + Weight(<<>>) = Size(entries) + Weight(leaving)
  BY <1>1 DEF RingInv
<1>5. logicalBytes \in Nat /\ Weight(<<>>) = 0
  BY NothingToCount DEF RingTypes
<1>6. logicalBytes = Size(entries) + Weight(leaving)
  BY <1>4, <1>5
<1>7. QED
  BY <1>1, <1>2, <1>3, <1>6

LEMMA PopKeepsRing ==
  ASSUME RingTypes, Counters, RingInv, Pop
  PROVE  RingInv'
<1>1. /\ pc = "evicting" /\ leaving = <<>> /\ entries # <<>> /\ Overfull
      /\ leaving' = Head(entries) /\ entries' = Tail(entries)
      /\ UNCHANGED <<vars, logicalBytes, pc, adding, pushed>>
  BY DEF Pop
<1>2. /\ Ring = entries /\ adding = <<>> /\ pending = None
      /\ Len(entries) \in 0 .. Len(pushed) /\ Len(entries) \in Nat
      /\ \A f \in Fragment : Held(f) = Occurrences(entries, f) + Count(leaving, f)
      /\ logicalBytes = Size(entries) + Weight(leaving)
  BY <1>1, EvictingFigures
<1>3. /\ entries \in Entries /\ pushed \in Entries /\ Head(entries) \in Entry /\ Tail(entries) \in Entries
      /\ Len(entries) >= 1 /\ Len(Tail(entries)) = Len(entries) - 1 /\ Len(pushed) \in Nat
  BY <1>1 DEF RingTypes, Entries
<1>4. Ring' = Tail(entries) /\ pc' = "evicting" /\ pending' = None
  BY <1>1, <1>2 DEF Ring, vars
<1>5. entries = Suffix(pushed, Len(entries)) /\ \A n \in Fitting(pushed) : n <= Len(entries)
  BY <1>2 DEF RingInv
<1>6. Tail(entries) = Suffix(pushed, Len(Tail(entries)))
  <2>1. Len(entries) \in 1 .. Len(pushed)
    BY <1>2, <1>3
  <2>2. QED
    BY <1>3, <1>5, <2>1, SuffixTail
<1>7. Len(entries) \notin Fitting(pushed)
  <2>1. logicalBytes = Size(entries)
    BY <1>1, <1>2, <1>3, PayloadFinite, NothingToCount
  <2>2. Len(entries) > Capacity \/ Size(entries) > ByteCapacity
    BY <1>1, <2>1 DEF Overfull
  <2>3. Size(entries) \in Nat
    BY <1>3, PayloadFinite
  <2>4. QED
    BY <1>2, <1>5, <2>2, <2>3, CapacityAssumption DEF Fitting
<1>8. \A n \in Fitting(pushed) : n <= Len(entries) - 1
  <2>1. \A n \in Fitting(pushed) : n \in Nat
    BY <1>3 DEF Fitting
  <2>2. QED
    BY <1>2, <1>5, <1>7, <2>1
<1>9. ASSUME NEW f \in Fragment
      PROVE  Held(f)' + Count(<<>>, f) = Occurrences(Tail(entries), f) + Count(Head(entries), f)
  <2>1. Occurrences(entries, f) = Count(Head(entries), f) + Occurrences(Tail(entries), f)
    BY <1>1, <1>3, OccurrencesTail
  <2>2. Count(Head(entries), f) \in Nat /\ Occurrences(Tail(entries), f) \in Nat /\ Count(<<>>, f) = 0
    BY <1>3, PlacesFinite, AtFinite, NothingToCount
  <2>3. Held(f)' = Held(f)
    BY <1>1, SameCounters, FragmentsAssumption
  <2>4. QED
    BY <1>1, <1>2, <2>1, <2>2, <2>3
<1>10. logicalBytes + Weight(<<>>) = Size(Tail(entries)) + Weight(Head(entries))
  <2>1. Size(entries) = Weight(Head(entries)) + Size(Tail(entries))
    BY <1>1, <1>3, SizeTail
  <2>2. Weight(Head(entries)) \in Nat /\ Size(Tail(entries)) \in Nat /\ Weight(<<>>) = 0
    BY <1>3, OctetsFinite, PayloadFinite, NothingToCount
  <2>3. QED
    BY <1>1, <1>2, <2>1, <2>2
<1>11. Len(Tail(entries)) <= Len(pushed)
  BY <1>2, <1>3
<1>12. QED
  BY <1>1, <1>2, <1>3, <1>4, <1>6, <1>8, <1>9, <1>10, <1>11 DEF RingInv

LEMMA UncountKeepsRing ==
  ASSUME RingTypes, Counters, Counters', RingInv, UncountFragment
  PROVE  RingInv'
<1>1. /\ leaving # <<>> /\ Decrement(Head(leaving)) /\ leaving' = Tail(leaving)
      /\ UNCHANGED <<entries, pc, adding, pushed>> /\ pc = "evicting"
  BY DEF UncountFragment, RingInv
<1>2. /\ Ring = entries /\ adding = <<>> /\ pending = None
      /\ Len(entries) \in 0 .. Len(pushed) /\ Len(entries) \in Nat
      /\ \A f \in Fragment : Held(f) = Occurrences(entries, f) + Count(leaving, f)
      /\ logicalBytes = Size(entries) + Weight(leaving)
  BY <1>1, EvictingFigures
<1>3. /\ entries \in Entries /\ leaving \in Entry /\ Head(leaving) \in Key /\ Tail(leaving) \in Entry
      /\ Bytes[Head(leaving)] \in Nat
  BY <1>1, HeadOfEntry DEF RingTypes
<1>4. Ring' = Ring /\ pending' = None
  BY <1>1, <1>2 DEF Ring, Decrement
<1>5. ASSUME NEW f \in Fragment
      PROVE  Held(f)' + Count(<<>>, f) = Occurrences(entries, f) + Count(Tail(leaving), f)
  <2>1. Held(f)' = IF f = Head(leaving) THEN Held(f) - 1 ELSE Held(f)
    BY <1>1, <1>3, DecrementCounts, FragmentsAssumption DEF Counters
  <2>2. Count(leaving, f) = Count(Tail(leaving), f) + IF Head(leaving) = f THEN 1 ELSE 0
    BY <1>1, <1>3, CountTail
  <2>3. Count(Tail(leaving), f) \in Nat /\ Occurrences(entries, f) \in Nat /\ Count(<<>>, f) = 0
    BY <1>3, PlacesFinite, AtFinite, NothingToCount
  <2>4. QED
    BY <1>2, <2>1, <2>2, <2>3
<1>6. logicalBytes' + Weight(<<>>) = Size(entries) + Weight(Tail(leaving))
  <2>1. Weight(leaving) = Weight(Tail(leaving)) + Bytes[Head(leaving)]
    BY <1>1, <1>3, WeightTail
  <2>2. Weight(Tail(leaving)) \in Nat /\ Size(entries) \in Nat /\ Weight(<<>>) = 0
    BY <1>3, OctetsFinite, PayloadFinite, NothingToCount
  <2>3. logicalBytes' = logicalBytes - Bytes[Head(leaving)]
    BY <1>2, <1>3, <2>1, <2>2 DEF UncountFragment
  <2>4. QED
    BY <1>2, <1>3, <2>1, <2>2, <2>3
<1>7. QED
  BY <1>1, <1>2, <1>4, <1>5, <1>6 DEF RingInv

LEMMA ReturnKeepsRing ==
  ASSUME RingTypes, Counters, RingInv, Return
  PROVE  RingInv'
<1>1. /\ pc = "evicting" /\ leaving = <<>> /\ ~Overfull /\ pc' = "idle"
      /\ UNCHANGED <<vars, entries, logicalBytes, adding, leaving, pushed>>
  BY DEF Return
<1>2. /\ Ring = entries /\ adding = <<>> /\ pending = None
      /\ Len(entries) \in 0 .. Len(pushed) /\ Len(entries) \in Nat
      /\ logicalBytes = Size(entries) + Weight(leaving)
  BY <1>1, EvictingFigures
<1>3. Ring' = entries /\ pending' = None
  BY <1>1, <1>2 DEF Ring, vars
<1>4. \A f \in Fragment : Held(f)' = Held(f)
  BY <1>1, SameCounters, FragmentsAssumption
<1>5. Len(entries) \in Fitting(pushed)
  <2>1. Size(entries) \in Nat /\ Weight(leaving) = 0
    BY <1>1, PayloadFinite, NothingToCount DEF RingTypes
  <2>2. ~(Len(entries) > Capacity) /\ ~(Size(entries) > ByteCapacity)
    BY <1>1, <1>2, <2>1 DEF Overfull
  <2>3. entries = Suffix(pushed, Len(entries))
    BY <1>2 DEF RingInv
  <2>4. QED
    BY <1>2, <2>1, <2>2, <2>3, CapacityAssumption DEF Fitting
<1>6. QED
  BY <1>1, <1>2, <1>3, <1>4, <1>5 DEF RingInv

(* The invariant of a push, at each of its steps and during each rehash.    *)
THEOREM RingInvariant == HistorySpec => []RingInv
<1>1. ASSUME RingTypes, Counters, Counters', RingInv, [HistoryNext]_allVars
      PROVE  RingInv'
  <2>1. ASSUME NEW p \in Phrases, Push(p) PROVE RingInv'
    BY <1>1, <2>1, PushKeepsRing
  <2>2. CASE CountFragment
    BY <1>1, <2>2, CountFragmentKeepsRing
  <2>3. CASE Enqueue
    BY <1>1, <2>3, EnqueueKeepsRing
  <2>4. CASE Pop
    BY <1>1, <2>4, PopKeepsRing
  <2>5. CASE UncountFragment
    BY <1>1, <2>5, UncountKeepsRing
  <2>6. CASE Return
    BY <1>1, <2>6, ReturnKeepsRing
  <2>7. CASE UNCHANGED allVars
    <3>1. UNCHANGED vars /\ UNCHANGED <<entries, logicalBytes, pc, adding, leaving, pushed>>
      BY <2>7 DEF allVars, ring
    <3>2. \A f \in Fragment : Held(f)' = Held(f)
      BY <3>1, SameCounters, FragmentsAssumption
    <3>3. pending' = pending
      BY <3>1 DEF vars
    <3>4. QED
      BY <1>1, <3>1, <3>2, <3>3 DEF RingInv, Ring
  <2>8. QED
    BY <1>1, <2>1, <2>2, <2>3, <2>4, <2>5, <2>6, <2>7 DEF HistoryNext, Step
<1>2. QED
  BY <1>1, InitRing, RingTypeCorrect, CountersSound, PTL DEF HistorySpec

-----------------------------------------------------------------------------
(* What a history promises.                                                 *)

(* Between pushes the ring is the longest run of most recent entries that   *)
(* fits both budgets, the counters are the multiplicities of its fragments  *)
(* and logical_bytes is its payload: whatever was pushed, with whatever     *)
(* hash function, rehashes and evictions there were.                        *)
THEOREM HistoryKeepsWindow == HistorySpec => []HistoryIsWindow
<1>1. ASSUME RingTypes, Counters, RingInv, pc = "idle"
      PROVE  HistoryIsWindow
  <2>1. Ring = entries /\ adding = <<>> /\ leaving = <<>> /\ entries \in Entries /\ pushed \in Entries
    BY <1>1 DEF Ring, RingInv, RingTypes
  <2>2. /\ Len(entries) \in Fitting(pushed) /\ \A n \in Fitting(pushed) : n <= Len(entries)
        /\ entries = Suffix(pushed, Len(entries))
    BY <1>1, <2>1 DEF RingInv
  <2>3. entries = Window(pushed)
    BY <2>1, <2>2, WindowIs
  <2>4. ASSUME NEW f \in Fragment PROVE Held(f) = Occurrences(entries, f)
    <3>1. Held(f) + Count(<<>>, f) = Occurrences(entries, f) + Count(<<>>, f)
      BY <1>1, <2>1 DEF RingInv
    <3>2. Held(f) \in Nat /\ Occurrences(entries, f) \in Nat /\ Count(<<>>, f) = 0
      BY <1>1, <2>1, HeldIsNat, AtFinite, NothingToCount, FragmentsAssumption
    <3>3. QED
      BY <3>1, <3>2
  <2>5. logicalBytes = Size(entries)
    <3>1. logicalBytes + Weight(<<>>) = Size(entries) + Weight(<<>>)
      BY <1>1, <2>1 DEF RingInv
    <3>2. logicalBytes \in Nat /\ Size(entries) \in Nat /\ Weight(<<>>) = 0
      BY <1>1, <2>1, PayloadFinite, NothingToCount DEF RingTypes
    <3>3. QED
      BY <3>1, <3>2
  <2>6. QED
    BY <2>3, <2>4, <2>5 DEF HistoryIsWindow
<1>2. RingTypes /\ Counters /\ RingInv => HistoryIsWindow
  BY <1>1 DEF HistoryIsWindow
<1>3. QED
  BY <1>2, RingTypeCorrect, CountersSound, RingInvariant, PTL

(* No push panics or probes for ever: an entry that is evicted finds every  *)
(* one of its fragments counted ("history key is counted"), the ring is not *)
(* empty when it is popped, and an empty slot ends every probe.             *)
THEOREM PushesGoThrough == HistorySpec => []NeverStuck
<1>1. ASSUME RingTypes, Counters, RingInv PROVE NeverStuck
  <2>1. ASSUME leaving # <<>> PROVE Find(Head(leaving)) # {}
    <3> DEFINE k == Head(leaving)
    <3>1. pc = "evicting" /\ k \in Key /\ leaving \in Entry /\ Tail(leaving) \in Entry
      BY <1>1, <2>1, HeadOfEntry DEF RingInv, RingTypes
    <3>2. Held(k) = Occurrences(entries, k) + Count(leaving, k)
      BY <1>1, <3>1, EvictingFigures, FragmentsAssumption
    <3>3. Count(leaving, k) = Count(Tail(leaving), k) + 1
      BY <2>1, <3>1, CountTail
    <3>4. Occurrences(entries, k) \in Nat /\ Count(Tail(leaving), k) \in Nat
      BY <1>1, <3>1, AtFinite, PlacesFinite DEF RingTypes
    <3>5. Held(k) # 0
      BY <3>2, <3>3, <3>4
    <3>6. pending = None
      BY <1>1, <3>1, EvictingFigures
    <3>7. Waiting = {}
      BY <1>1, <3>6 DEF Counters, IInv, LoadBounded, Waiting, NoTable
    <3>8. Stored(k)
      BY <1>1, <3>1, <3>5, <3>7 DEF Counters, HeldFacts
    <3>9. PICK i \in Indices(cap) : slot[i] = k
      BY <3>8 DEF Stored
    <3>10. i \in Find(k)
      BY <1>1, <3>1, <3>9 DEF Counters, IInv, ProbeFinds
    <3>11. QED
      BY <3>10
  <2>2. ASSUME pc = "evicting", leaving = <<>>, Overfull PROVE entries # <<>>
    <3>1. logicalBytes = Size(entries) + Weight(leaving)
      BY <1>1, <2>2, EvictingFigures
    <3>2. CASE entries = <<>>
      <4>1. logicalBytes = 0 /\ Len(entries) = 0
        BY <2>2, <3>1, <3>2, NothingHeld, NothingToCount
      <4>2. QED
        BY <2>2, <4>1, CapacityAssumption DEF Overfull
    <3>3. QED
      BY <3>2
  <2>3. LoopsTerminate
    BY <1>1, InvariantImpliesTermination DEF Counters
  <2>4. QED
    BY <2>1, <2>2, <2>3 DEF NeverStuck
<1>2. RingTypes /\ Counters /\ RingInv => NeverStuck
  BY <1>1
<1>3. QED
  BY <1>2, RingTypeCorrect, CountersSound, RingInvariant, PTL

-----------------------------------------------------------------------------
(* Roots.                                                                  *)

(* The root a snapshot holds, or Absent.                                   *)
DataOf(value) == IF value = Absent THEN Absent ELSE value.data

-----------------------------------------------------------------------------
(* Owners.                                                                  *)

LEMMA OwnersFinite == \A d : IsFiniteSet(Owners(d))
<1> SUFFICES ASSUME NEW d PROVE IsFiniteSet(Owners(d))
  OBVIOUS
<1>1. IsFiniteSet(Store \cup Snapshot)
  BY HandleAssumption, FS_Union
<1>2. Owners(d) \in SUBSET (Store \cup Snapshot)
  BY DEF Owners
<1>3. QED
  BY <1>1, <1>2, FS_Subset

(* A handle in use owns a root, which is therefore not free.               *)
LEMMA UsedIsOwned ==
  ASSUME CountsOwners
  PROVE  /\ \A st \in Store : store[st] # Absent => store[st] \in Root /\ strong[store[st]] >= 1
         /\ \A sn \in Snapshot : snapshot[sn] # Absent =>
              /\ snapshot[sn].data \in Root /\ snapshot[sn].expires \in Stamp
              /\ strong[snapshot[sn].data] >= 1
<1>1. \A d \in Root : Owners(d) # {} => strong[d] >= 1
  <2> SUFFICES ASSUME NEW d \in Root, Owners(d) # {} PROVE strong[d] >= 1
    OBVIOUS
  <2>1. strong[d] = Cardinality(Owners(d)) /\ strong[d] \in Nat
    BY DEF CountsOwners, RootsTypeOK
  <2>2. strong[d] # 0
    BY <2>1, OwnersFinite, FS_EmptySet
  <2>3. QED
    BY <2>1, <2>2
<1>2. \A st \in Store : store[st] # Absent => store[st] \in Root /\ st \in Owners(store[st])
  BY DEF CountsOwners, RootsTypeOK, Owners
<1>3. \A sn \in Snapshot : snapshot[sn] # Absent =>
        /\ snapshot[sn].data \in Root /\ snapshot[sn].expires \in Stamp
        /\ sn \in Owners(snapshot[sn].data)
  BY DEF CountsOwners, RootsTypeOK, Owners
<1>4. QED
  BY <1>1, <1>2, <1>3

(* A free root has no owners, and the last owner is the only one.          *)
LEMMA FreeIsUnowned ==
  ASSUME CountsOwners, NEW d \in Root, strong[d] = 0
  PROVE  /\ \A st \in Store : store[st] # d
         /\ \A sn \in Snapshot : snapshot[sn] # Absent => snapshot[sn].data # d
BY UsedIsOwned, AbsentAssumption

LEMMA LastOwner ==
  ASSUME CountsOwners, NEW d \in Root, strong[d] = 1, NEW h \in Owners(d)
  PROVE  Owners(d) = {h}
<1>1. Cardinality(Owners(d)) = 1
  BY DEF CountsOwners
<1>2. PICK x : Owners(d) = {x}
  BY <1>1, OwnersFinite, FS_Singleton
<1>3. QED
  BY <1>2

(* What writing one handle does to the owners of every root.               *)
LEMMA StoreWritten ==
  ASSUME RootsTypeOK, NEW st \in Store, NEW r \in Root \cup {Absent},
         store' = [store EXCEPT ![st] = r], UNCHANGED snapshot, NEW d \in Root
  PROVE  /\ Owners(d)' = IF d = r THEN Owners(d) \cup {st} ELSE Owners(d) \ {st}
         /\ st \in Owners(d) <=> store[st] = d
<1>1. st \notin Snapshot
  BY HandleAssumption
<1>2. store \in [Store -> Root \cup {Absent}]
  BY DEF RootsTypeOK
<1>3. QED
  BY <1>1, <1>2 DEF Owners

LEMMA SnapshotWritten ==
  ASSUME RootsTypeOK, NEW sn \in Snapshot, NEW v \in [data : Root, expires : Stamp] \cup {Absent},
         snapshot' = [snapshot EXCEPT ![sn] = v], UNCHANGED store, NEW d \in Root
  PROVE  /\ Owners(d)' = IF d = DataOf(v) THEN Owners(d) \cup {sn} ELSE Owners(d) \ {sn}
         /\ sn \in Owners(d) <=> DataOf(snapshot[sn]) = d
<1>1. sn \notin Store /\ Absent \notin Root
  BY HandleAssumption, AbsentAssumption
<1>2. snapshot \in [Snapshot -> [data : Root, expires : Stamp] \cup {Absent}]
  BY DEF RootsTypeOK
<1>3. Absent \notin [data : Root, expires : Stamp]
  BY AbsentAssumption DEF Stamp
<1>4. QED
  BY <1>1, <1>2, <1>3 DEF Owners, DataOf

Counts == \A d \in Root : strong[d] = Cardinality(Owners(d))

(* Handle h takes root r in place of root from, if there is one: of both,
   owners and counts.                                                      *)
Moved(h, from, r) ==
  /\ from # r \/ from = Absent
  /\ \A d \in Root :
       /\ Owners(d)' = IF d = r THEN Owners(d) \cup {h} ELSE Owners(d) \ {h}
       /\ h \in Owners(d) <=> from = d
       /\ strong'[d] = IF d = r THEN strong[d] + 1
                       ELSE IF d = from THEN strong[d] - 1 ELSE strong[d]

LEMMA Recounted ==
  ASSUME CountsOwners, NEW h, NEW from, NEW r, Moved(h, from, r)
  PROVE  Counts'
<1> SUFFICES ASSUME NEW d \in Root PROVE strong'[d] = Cardinality(Owners(d)')
  BY DEF Counts
<1>1. strong[d] = Cardinality(Owners(d)) /\ IsFiniteSet(Owners(d)) /\ strong[d] \in Nat
  BY OwnersFinite DEF CountsOwners, RootsTypeOK
<1>2. /\ from # r \/ from = Absent
      /\ Owners(d)' = IF d = r THEN Owners(d) \cup {h} ELSE Owners(d) \ {h}
      /\ h \in Owners(d) <=> from = d
      /\ strong'[d] = IF d = r THEN strong[d] + 1
                      ELSE IF d = from THEN strong[d] - 1 ELSE strong[d]
      /\ d # Absent
  BY AbsentAssumption DEF Moved
<1>3. CASE d = r
  <2>1. h \notin Owners(d)
    BY <1>2, <1>3
  <2>2. Cardinality(Owners(d) \cup {h}) = strong[d] + 1
    BY <1>1, <2>1, FS_AddElement
  <2>3. QED
    BY <1>2, <1>3, <2>2
<1>4. CASE d # r /\ d = from
  <2>1. Cardinality(Owners(d) \ {h}) = strong[d] - 1
    BY <1>1, <1>2, <1>4, FS_RemoveElement
  <2>2. QED
    BY <1>2, <1>4, <2>1
<1>5. CASE d # r /\ d # from
  <2>1. Owners(d) \ {h} = Owners(d)
    BY <1>2, <1>5
  <2>2. QED
    BY <1>1, <1>2, <1>5, <2>1
<1>6. QED
  BY <1>3, <1>4, <1>5

(* What is left to show of a step besides the counts: a counted handle
   points to a root that is not free.                                      *)
Types ==
  /\ heap \in [Root -> Seq(Output)]
  /\ strong \in [Root -> Nat]
  /\ store \in [Store -> Root \cup {Absent}]
  /\ snapshot \in [Snapshot -> [data : Root, expires : Stamp] \cup {Absent}]
  /\ file = Absent \/ file \in [history : Seq(Output), expires : Stamp]

LEMMA CountsSuffice ==
  Types /\ Counts => CountsOwners
<1> SUFFICES ASSUME Types, Counts PROVE CountsOwners
  OBVIOUS
<1>1. ASSUME NEW st \in Store, store[st] # Absent
      PROVE  strong[store[st]] > 0
  <2>1. store[st] \in Root /\ st \in Owners(store[st])
    BY <1>1 DEF Types, Owners
  <2>2. Cardinality(Owners(store[st])) # 0
    BY <2>1, OwnersFinite, FS_EmptySet
  <2>3. QED
    BY <2>1, <2>2 DEF Types, Counts
<1>2. QED
  BY <1>1 DEF Counts, CountsOwners, RootsTypeOK, Types

LEMMA FreshIsFree ==
  ASSUME RootsTypeOK, \E d \in Root : strong[d] = 0
  PROVE  Fresh \in Root /\ strong[Fresh] = 0
BY DEF Fresh

-----------------------------------------------------------------------------
(* Steps keep the counts.                                                   *)

LEMMA CreateCounts ==
  ASSUME CountsOwners, NEW st \in Store, Create(st)
  PROVE  CountsOwners'
<1>1. Fresh \in Root /\ strong[Fresh] = 0 /\ Fresh # Absent
  BY FreshIsFree, AbsentAssumption DEF CountsOwners, Create, Allocate
<1>2. Types'
  BY <1>1 DEF Types, CountsOwners, RootsTypeOK, Create, Allocate
<1>3. \A d \in Root : /\ Owners(d)' = IF d = Fresh THEN Owners(d) \cup {st} ELSE Owners(d) \ {st}
                      /\ st \in Owners(d) <=> Absent = d
  BY <1>1, StoreWritten DEF CountsOwners, Create
<1>4. \A d \in Root : strong'[d] = IF d = Fresh THEN strong[d] + 1
                                   ELSE IF d = Absent THEN strong[d] - 1 ELSE strong[d]
  BY <1>1, AbsentAssumption DEF CountsOwners, RootsTypeOK, Create, Allocate
<1>5. Counts'
  <2>1. Moved(st, Absent, Fresh)
    BY <1>1, <1>3, <1>4 DEF Moved
  <2>2. QED
    BY <2>1, Recounted
<1>6. QED
  BY <1>2, <1>5, CountsSuffice, PTL

LEMMA CloneCounts ==
  ASSUME CountsOwners, NEW from \in Store, NEW st \in Store, Clone(from, st)
  PROVE  CountsOwners'
<1>1. store[from] \in Root /\ store[from] # Absent /\ store[st] = Absent
  BY UsedIsOwned, AbsentAssumption DEF Clone
<1>2. Types'
  BY <1>1 DEF Types, CountsOwners, RootsTypeOK, Clone, Share
<1>3. \A d \in Root : /\ Owners(d)' = IF d = store[from] THEN Owners(d) \cup {st} ELSE Owners(d) \ {st}
                      /\ st \in Owners(d) <=> Absent = d
  BY <1>1, StoreWritten DEF CountsOwners, Clone, Share
<1>4. \A d \in Root : strong'[d] = IF d = store[from] THEN strong[d] + 1
                                   ELSE IF d = Absent THEN strong[d] - 1 ELSE strong[d]
  BY <1>1, AbsentAssumption DEF CountsOwners, RootsTypeOK, Clone, Share
<1>5. Counts'
  <2>1. Moved(st, Absent, store[from])
    BY <1>1, <1>3, <1>4 DEF Moved
  <2>2. QED
    BY <2>1, Recounted
<1>6. QED
  BY <1>2, <1>5, CountsSuffice, PTL

LEMMA CommitCounts ==
  ASSUME CountsOwners, NEW st \in Store, NEW o \in Output, Commit(st, o)
  PROVE  CountsOwners'
<1> DEFINE from == store[st]
<1>1. from \in Root /\ from # Absent
  BY UsedIsOwned DEF Commit
<1>2. CASE strong[from] = 1
  <2>1. /\ heap' = [heap EXCEPT ![from] = Append(@, o)]
        /\ UNCHANGED <<strong, store, snapshot, file>>
    BY <1>2 DEF Commit
  <2>2. Types'
    BY <1>1, <2>1 DEF Types, CountsOwners, RootsTypeOK
  <2>3. Counts'
    BY <2>1 DEF Counts, Owners, CountsOwners
  <2>4. QED
    BY <2>2, <2>3, CountsSuffice, PTL
<1>3. CASE strong[from] > 1
  <2>1. /\ \E f \in Root : strong[f] = 0
        /\ heap' = [heap EXCEPT ![Fresh] = Append(heap[from], o)]
        /\ strong' = [strong EXCEPT ![Fresh] = 1, ![from] = @ - 1]
        /\ store' = [store EXCEPT ![st] = Fresh]
        /\ UNCHANGED <<snapshot, file>>
    BY <1>3 DEF Commit
  <2>2. Fresh \in Root /\ strong[Fresh] = 0 /\ Fresh # Absent /\ Fresh # from
    BY <1>3, <2>1, FreshIsFree, AbsentAssumption DEF CountsOwners
  <2>3. Types'
    BY <1>1, <1>3, <2>1, <2>2 DEF Types, CountsOwners, RootsTypeOK
  <2>4. \A d \in Root : /\ Owners(d)' = IF d = Fresh THEN Owners(d) \cup {st} ELSE Owners(d) \ {st}
                        /\ st \in Owners(d) <=> from = d
    BY <2>1, <2>2, StoreWritten DEF CountsOwners
  <2>5. \A d \in Root : strong'[d] = IF d = Fresh THEN strong[d] + 1
                                     ELSE IF d = from THEN strong[d] - 1 ELSE strong[d]
    BY <1>1, <2>1, <2>2 DEF CountsOwners, RootsTypeOK
  <2>6. Counts'
    <3>1. Moved(st, from, Fresh)
      BY <2>2, <2>4, <2>5 DEF Moved
    <3>2. QED
      BY <3>1, Recounted
  <2>7. QED
    BY <2>3, <2>6, CountsSuffice, PTL
<1>4. QED
  BY <1>2, <1>3 DEF Commit

LEMMA CaptureCounts ==
  ASSUME CountsOwners, NEW st \in Store, NEW sn \in Snapshot, NEW delta \in Delta, Capture(st, sn, delta)
  PROVE  CountsOwners'
<1> DEFINE v == [data |-> store[st],
                 expires |-> IF delta = Never THEN Never ELSE Revision(store[st]) + delta]
<1>1. store[st] \in Root /\ store[st] # Absent /\ snapshot[sn] = Absent
  BY UsedIsOwned DEF Capture
<1>2. v \in [data : Root, expires : Stamp] /\ DataOf(v) = store[st]
  <2>1. Revision(store[st]) \in Nat
    BY <1>1 DEF Revision, CountsOwners, RootsTypeOK
  <2>2. v.expires \in Stamp
    BY <2>1, DeltaAssumption DEF Stamp
  <2>3. v \in [data : Root, expires : Stamp]
    BY <1>1, <2>2
  <2>4. v # Absent
    BY <2>3, AbsentAssumption DEF Stamp
  <2>5. QED
    BY <2>3, <2>4 DEF DataOf
<1>3. /\ strong' = [strong EXCEPT ![store[st]] = @ + 1]
      /\ snapshot' = [snapshot EXCEPT ![sn] = v]
      /\ UNCHANGED <<heap, store, file>>
  BY DEF Capture, Share
<1> HIDE DEF v
<1>4. Types'
  BY <1>1, <1>2, <1>3 DEF Types, CountsOwners, RootsTypeOK
<1>5. \A d \in Root : /\ Owners(d)' = IF d = store[st] THEN Owners(d) \cup {sn} ELSE Owners(d) \ {sn}
                      /\ sn \in Owners(d) <=> Absent = d
  BY <1>1, <1>2, <1>3, SnapshotWritten DEF CountsOwners, DataOf
<1>6. \A d \in Root : strong'[d] = IF d = store[st] THEN strong[d] + 1
                                   ELSE IF d = Absent THEN strong[d] - 1 ELSE strong[d]
  BY <1>1, <1>3, AbsentAssumption DEF CountsOwners, RootsTypeOK
<1>7. Counts'
  <2>1. Moved(sn, Absent, store[st])
    BY <1>1, <1>5, <1>6 DEF Moved
  <2>2. QED
    BY <2>1, Recounted
<1>8. QED
  BY <1>4, <1>7, CountsSuffice, PTL

LEMMA RestoreCounts ==
  ASSUME CountsOwners, NEW sn \in Snapshot, NEW st \in Store, NEW observed, Restore(sn, st, observed)
  PROVE  CountsOwners'
<1>1. snapshot[sn].data \in Root /\ snapshot[sn].data # Absent /\ store[st] = Absent
  BY UsedIsOwned, AbsentAssumption DEF Restore
<1>2. Types'
  BY <1>1 DEF Types, CountsOwners, RootsTypeOK, Restore, Share
<1>3. \A d \in Root : /\ Owners(d)' = IF d = snapshot[sn].data THEN Owners(d) \cup {st} ELSE Owners(d) \ {st}
                      /\ st \in Owners(d) <=> Absent = d
  BY <1>1, StoreWritten DEF CountsOwners, Restore, Share
<1>4. \A d \in Root : strong'[d] = IF d = snapshot[sn].data THEN strong[d] + 1
                                   ELSE IF d = Absent THEN strong[d] - 1 ELSE strong[d]
  BY <1>1, AbsentAssumption DEF CountsOwners, RootsTypeOK, Restore, Share
<1>5. Counts'
  <2>1. Moved(st, Absent, snapshot[sn].data)
    BY <1>1, <1>3, <1>4 DEF Moved
  <2>2. QED
    BY <2>1, Recounted
<1>6. QED
  BY <1>2, <1>5, CountsSuffice, PTL

LEMMA ExportCounts ==
  ASSUME CountsOwners, NEW sn \in Snapshot, Export(sn)
  PROVE  CountsOwners'
<1>1. snapshot[sn].data \in Root /\ snapshot[sn].expires \in Stamp
  BY UsedIsOwned DEF Export
<1>2. Types'
  BY <1>1 DEF Types, CountsOwners, RootsTypeOK, Export
<1>3. Counts'
  BY DEF Counts, Owners, CountsOwners, Export
<1>4. QED
  BY <1>2, <1>3, CountsSuffice, PTL

LEMMA ImportCounts ==
  ASSUME CountsOwners, NEW sn \in Snapshot, Import(sn)
  PROVE  CountsOwners'
<1> DEFINE v == [data |-> Fresh, expires |-> file.expires]
<1>1. Fresh \in Root /\ strong[Fresh] = 0 /\ Fresh # Absent /\ snapshot[sn] = Absent
  BY FreshIsFree, AbsentAssumption DEF CountsOwners, Import, Allocate
<1>2. file \in [history : Seq(Output), expires : Stamp]
  BY DEF Import, CountsOwners, RootsTypeOK
<1>3. v \in [data : Root, expires : Stamp] /\ DataOf(v) = Fresh
  <2>1. v \in [data : Root, expires : Stamp]
    BY <1>1, <1>2
  <2>2. v # Absent
    BY <2>1, AbsentAssumption DEF Stamp
  <2>3. QED
    BY <2>1, <2>2 DEF DataOf
<1>4. /\ heap' = [heap EXCEPT ![Fresh] = file.history]
      /\ strong' = [strong EXCEPT ![Fresh] = 1]
      /\ snapshot' = [snapshot EXCEPT ![sn] = v]
      /\ UNCHANGED <<store, file>>
  BY DEF Import, Allocate
<1> HIDE DEF v
<1>5. Types'
  BY <1>1, <1>2, <1>3, <1>4 DEF Types, CountsOwners, RootsTypeOK
<1>6. \A d \in Root : /\ Owners(d)' = IF d = Fresh THEN Owners(d) \cup {sn} ELSE Owners(d) \ {sn}
                      /\ sn \in Owners(d) <=> Absent = d
  BY <1>1, <1>3, <1>4, SnapshotWritten DEF CountsOwners, DataOf
<1>7. \A d \in Root : strong'[d] = IF d = Fresh THEN strong[d] + 1
                                   ELSE IF d = Absent THEN strong[d] - 1 ELSE strong[d]
  BY <1>1, <1>4, AbsentAssumption DEF CountsOwners, RootsTypeOK
<1>8. Counts'
  <2>1. Moved(sn, Absent, Fresh)
    BY <1>1, <1>6, <1>7 DEF Moved
  <2>2. QED
    BY <2>1, Recounted
<1>9. QED
  BY <1>5, <1>8, CountsSuffice, PTL

LEMMA DropStoreCounts ==
  ASSUME CountsOwners, NEW st \in Store, DropStore(st)
  PROVE  CountsOwners'
<1>1. store[st] \in Root /\ store[st] # Absent /\ strong[store[st]] >= 1
  BY UsedIsOwned DEF DropStore
<1>2. Types'
  BY <1>1 DEF Types, CountsOwners, RootsTypeOK, DropStore, Release
<1>3. \A d \in Root : /\ Owners(d)' = IF d = Absent THEN Owners(d) \cup {st} ELSE Owners(d) \ {st}
                      /\ st \in Owners(d) <=> store[st] = d
  BY <1>1, StoreWritten DEF CountsOwners, DropStore, Release
<1>4. \A d \in Root : strong'[d] = IF d = Absent THEN strong[d] + 1
                                   ELSE IF d = store[st] THEN strong[d] - 1 ELSE strong[d]
  BY <1>1, AbsentAssumption DEF CountsOwners, RootsTypeOK, DropStore, Release
<1>5. Counts'
  <2>1. Moved(st, store[st], Absent)
    BY <1>1, <1>3, <1>4 DEF Moved
  <2>2. QED
    BY <2>1, Recounted
<1>6. QED
  BY <1>2, <1>5, CountsSuffice, PTL

LEMMA DropSnapshotCounts ==
  ASSUME CountsOwners, NEW sn \in Snapshot, DropSnapshot(sn)
  PROVE  CountsOwners'
<1> DEFINE from == snapshot[sn].data
<1>1. from \in Root /\ from # Absent /\ strong[from] >= 1 /\ DataOf(snapshot[sn]) = from
  BY UsedIsOwned, AbsentAssumption DEF DropSnapshot, DataOf
<1>2. /\ strong' = [strong EXCEPT ![from] = @ - 1]
      /\ heap' = IF strong[from] = 1 THEN [heap EXCEPT ![from] = <<>>] ELSE heap
      /\ snapshot' = [snapshot EXCEPT ![sn] = Absent]
      /\ UNCHANGED <<store, file>>
  BY DEF DropSnapshot, Release
<1> HIDE DEF from
<1>3. Types'
  BY <1>1, <1>2 DEF Types, CountsOwners, RootsTypeOK
<1>4. \A d \in Root : /\ Owners(d)' = IF d = Absent THEN Owners(d) \cup {sn} ELSE Owners(d) \ {sn}
                      /\ sn \in Owners(d) <=> from = d
  BY <1>1, <1>2, SnapshotWritten DEF CountsOwners, DataOf
<1>5. \A d \in Root : strong'[d] = IF d = Absent THEN strong[d] + 1
                                   ELSE IF d = from THEN strong[d] - 1 ELSE strong[d]
  BY <1>1, <1>2, AbsentAssumption DEF CountsOwners, RootsTypeOK
<1>6. Counts'
  <2>1. Moved(sn, from, Absent)
    BY <1>1, <1>4, <1>5 DEF Moved
  <2>2. QED
    BY <2>1, Recounted
<1>7. QED
  BY <1>3, <1>6, CountsSuffice, PTL

LEMMA InitCounts == RootsInit => CountsOwners
<1> SUFFICES ASSUME RootsInit PROVE CountsOwners
  OBVIOUS
<1>1. Types
  BY DEF RootsInit, Types
<1>2. \A d \in Root : Owners(d) = {}
  BY AbsentAssumption DEF RootsInit, Owners
<1>3. Counts
  BY <1>2, FS_EmptySet DEF RootsInit, Counts
<1>4. QED
  BY <1>1, <1>3, CountsSuffice

LEMMA StepCounts == CountsOwners /\ [RootsNext]_rootVars => CountsOwners'
<1> SUFFICES ASSUME CountsOwners, [RootsNext]_rootVars PROVE CountsOwners'
  OBVIOUS
<1>1. ASSUME NEW st \in Store, Create(st) PROVE CountsOwners'
  BY <1>1, CreateCounts
<1>2. ASSUME NEW st \in Store, DropStore(st) PROVE CountsOwners'
  BY <1>2, DropStoreCounts
<1>3. ASSUME NEW st \in Store, NEW o \in Output, Commit(st, o) PROVE CountsOwners'
  BY <1>3, CommitCounts
<1>4. ASSUME NEW from \in Store, NEW st \in Store, Clone(from, st) PROVE CountsOwners'
  BY <1>4, CloneCounts
<1>5. ASSUME NEW sn \in Snapshot, Export(sn) PROVE CountsOwners'
  BY <1>5, ExportCounts
<1>6. ASSUME NEW sn \in Snapshot, Import(sn) PROVE CountsOwners'
  BY <1>6, ImportCounts
<1>7. ASSUME NEW sn \in Snapshot, DropSnapshot(sn) PROVE CountsOwners'
  BY <1>7, DropSnapshotCounts
<1>8. ASSUME NEW sn \in Snapshot, NEW st \in Store, NEW delta \in Delta, Capture(st, sn, delta)
      PROVE  CountsOwners'
  BY <1>8, CaptureCounts
<1>9. ASSUME NEW sn \in Snapshot, NEW st \in Store, NEW observed \in Observed, Restore(sn, st, observed)
      PROVE  CountsOwners'
  BY <1>9, RestoreCounts
<1>10. CASE UNCHANGED rootVars
  BY <1>10 DEF rootVars, CountsOwners, RootsTypeOK, Owners
<1>11. QED
  BY <1>1, <1>2, <1>3, <1>4, <1>5, <1>6, <1>7, <1>8, <1>9, <1>10 DEF RootsNext

(* A root's strong count is the number of handles that hold it, so a root   *)
(* is freed with its last owner and never earlier, whatever is cloned,      *)
(* committed, captured, restored, imported and dropped.                     *)
THEOREM CountsAreOwners == RootsSpec => []CountsOwners
<1>1. RootsInit => CountsOwners
  BY InitCounts
<1>2. CountsOwners /\ [RootsNext]_rootVars => CountsOwners'
  BY StepCounts
<1>3. QED
  BY <1>1, <1>2, PTL DEF RootsSpec

-----------------------------------------------------------------------------
(* Sharing is invisible: the values the handles stand for.                 *)

StoreValue(st) == IF store[st] = Absent THEN Absent ELSE heap[store[st]]

SnapshotValue(sn) ==
  IF snapshot[sn] = Absent THEN Absent
  ELSE [history |-> heap[snapshot[sn].data], expires |-> snapshot[sn].expires]

Stores == [st \in Store |-> StoreValue(st)]

Snapshots == [sn \in Snapshot |-> SnapshotValue(sn)]

(* A handle in use stands for a value, and never for Absent.               *)
LEMMA UsedHasValue ==
  ASSUME CountsOwners
  PROVE  /\ \A st \in Store : store[st] = Absent <=> StoreValue(st) = Absent
         /\ \A sn \in Snapshot : snapshot[sn] = Absent <=> SnapshotValue(sn) = Absent
<1>1. ASSUME NEW st \in Store, store[st] # Absent PROVE StoreValue(st) # Absent
  <2>1. heap[store[st]] \in Seq(Output)
    BY <1>1, UsedIsOwned DEF CountsOwners, RootsTypeOK
  <2>2. QED
    BY <1>1, <2>1, AbsentAssumption DEF StoreValue
<1>2. ASSUME NEW sn \in Snapshot, snapshot[sn] # Absent PROVE SnapshotValue(sn) # Absent
  <2>1. heap[snapshot[sn].data] \in Seq(Output) /\ snapshot[sn].expires \in Stamp
    BY <1>2, UsedIsOwned DEF CountsOwners, RootsTypeOK
  <2>2. [history |-> heap[snapshot[sn].data], expires |-> snapshot[sn].expires]
          \in [history : Seq(Output), expires : Stamp]
    BY <2>1
  <2>3. QED
    BY <1>2, <2>2, AbsentAssumption DEF SnapshotValue, Stamp
<1>3. QED
  BY <1>1, <1>2 DEF StoreValue, SnapshotValue

(* The data of every root that handles other than h hold is kept.          *)
KeptForOthers(h) ==
  /\ \A st \in Store : st # h /\ store[st] # Absent => heap'[store[st]] = heap[store[st]]
  /\ \A sn \in Snapshot : sn # h /\ snapshot[sn] # Absent =>
       heap'[snapshot[sn].data] = heap[snapshot[sn].data]

(* Writing a free root shows in no handle.                                 *)
LEMMA FreeRootWritten ==
  ASSUME CountsOwners, NEW h, NEW f \in Root, strong[f] = 0, NEW x,
         heap' = [heap EXCEPT ![f] = x]
  PROVE  KeptForOthers(h)
BY FreeIsUnowned, UsedIsOwned DEF KeptForOthers, CountsOwners, RootsTypeOK

(* Writing a root of one owner shows in that owner only.                   *)
LEMMA OwnRootWritten ==
  ASSUME CountsOwners, NEW d \in Root, strong[d] = 1, NEW h \in Owners(d), NEW x,
         heap' = [heap EXCEPT ![d] = x]
  PROVE  KeptForOthers(h)
<1>1. Owners(d) = {h}
  BY LastOwner
<1>2. \A st \in Store : st # h => store[st] # d
  BY <1>1 DEF Owners
<1>3. \A sn \in Snapshot : sn # h /\ snapshot[sn] # Absent => snapshot[sn].data # d
  BY <1>1 DEF Owners
<1>4. QED
  BY <1>2, <1>3, UsedIsOwned DEF KeptForOthers, CountsOwners, RootsTypeOK

(* A step that writes one handle and keeps the data of the others changes  *)
(* the value of that handle only.                                          *)
LEMMA StoreBecomes ==
  ASSUME NEW st \in Store, NEW r, store \in [Store -> Root \cup {Absent}],
         store' = [store EXCEPT ![st] = r], UNCHANGED snapshot, KeptForOthers(st)
  PROVE  /\ Stores' = [Stores EXCEPT ![st] = IF r = Absent THEN Absent ELSE heap'[r]]
         /\ Snapshots' = Snapshots
<1>1. \A s \in Store : StoreValue(s)' = IF s = st THEN IF r = Absent THEN Absent ELSE heap'[r]
                                       ELSE StoreValue(s)
  BY DEF StoreValue, KeptForOthers
<1>2. \A sn \in Snapshot : SnapshotValue(sn)' = SnapshotValue(sn)
  BY HandleAssumption DEF SnapshotValue, KeptForOthers
<1>3. QED
  BY <1>1, <1>2 DEF Stores, Snapshots

LEMMA SnapshotBecomes ==
  ASSUME NEW sn \in Snapshot, NEW v,
         snapshot \in [Snapshot -> [data : Root, expires : Stamp] \cup {Absent}],
         snapshot' = [snapshot EXCEPT ![sn] = v], UNCHANGED store, KeptForOthers(sn)
  PROVE  /\ Snapshots' = [Snapshots EXCEPT ![sn] =
              IF v = Absent THEN Absent ELSE [history |-> heap'[v.data], expires |-> v.expires]]
         /\ Stores' = Stores
<1>1. \A s \in Snapshot : SnapshotValue(s)' =
        IF s = sn THEN IF v = Absent THEN Absent
                       ELSE [history |-> heap'[v.data], expires |-> v.expires]
        ELSE SnapshotValue(s)
  BY DEF SnapshotValue, KeptForOthers
<1>2. \A st \in Store : StoreValue(st)' = StoreValue(st)
  BY HandleAssumption DEF StoreValue, KeptForOthers
<1>3. QED
  BY <1>1, <1>2 DEF Stores, Snapshots
-----------------------------------------------------------------------------
(* Every operation is the operation of the same name on values.            *)

LEMMA CreateImplements ==
  ASSUME CountsOwners, NEW st \in Store, Create(st)
  PROVE  Domain!Create(st)
<1>1. Fresh \in Root /\ strong[Fresh] = 0 /\ Fresh # Absent
  BY FreshIsFree, AbsentAssumption DEF CountsOwners, Create, Allocate
<1>2. KeptForOthers(st) /\ heap'[Fresh] = <<>>
  BY <1>1, FreeRootWritten DEF Create, Allocate, CountsOwners, RootsTypeOK
<1>3. Stores' = [Stores EXCEPT ![st] = <<>>] /\ Snapshots' = Snapshots
  BY <1>1, <1>2, StoreBecomes DEF Create, CountsOwners, RootsTypeOK
<1>4. QED
  BY <1>3 DEF Domain!Create, Create, Stores, Snapshots, StoreValue, SnapshotValue

LEMMA CloneImplements ==
  ASSUME CountsOwners, NEW from \in Store, NEW st \in Store, Clone(from, st)
  PROVE  Domain!Clone(from, st)
<1>1. store[from] # Absent /\ KeptForOthers(st) /\ heap' = heap
  BY DEF Clone, Share, KeptForOthers
<1>2. Stores' = [Stores EXCEPT ![st] = StoreValue(from)] /\ Snapshots' = Snapshots
  BY <1>1, StoreBecomes DEF Clone, CountsOwners, RootsTypeOK, StoreValue
<1>3. StoreValue(from) # Absent /\ StoreValue(st) = Absent
  BY UsedHasValue DEF Clone
<1>4. QED
  BY <1>2, <1>3 DEF Domain!Clone, Clone, Stores, Snapshots, StoreValue, SnapshotValue

LEMMA CommitImplements ==
  ASSUME CountsOwners, NEW st \in Store, NEW o \in Output, Commit(st, o)
  PROVE  Domain!Commit(st, o)
<1> DEFINE d == store[st]
<1>1. d \in Root /\ d # Absent /\ st \in Owners(d)
  BY UsedIsOwned DEF Commit, Owners
<1>2. Stores' = [Stores EXCEPT ![st] = Append(heap[d], o)] /\ Snapshots' = Snapshots
  <2>1. CASE strong[d] = 1
    <3>1. heap' = [heap EXCEPT ![d] = Append(heap[d], o)] /\ UNCHANGED <<store, snapshot>>
      BY <2>1 DEF Commit
    <3>2. KeptForOthers(st)
      BY <1>1, <2>1, <3>1, OwnRootWritten
    <3>3. store' = [store EXCEPT ![st] = d] /\ heap'[d] = Append(heap[d], o)
      BY <1>1, <3>1 DEF CountsOwners, RootsTypeOK
    <3>4. QED
      BY <1>1, <3>1, <3>2, <3>3, StoreBecomes DEF CountsOwners, RootsTypeOK
  <2>2. CASE strong[d] > 1
    <3>1. /\ \E f \in Root : strong[f] = 0
          /\ heap' = [heap EXCEPT ![Fresh] = Append(heap[d], o)]
          /\ store' = [store EXCEPT ![st] = Fresh]
          /\ UNCHANGED snapshot
      BY <2>2 DEF Commit
    <3>2. Fresh \in Root /\ strong[Fresh] = 0 /\ Fresh # Absent
      BY <3>1, FreshIsFree, AbsentAssumption DEF CountsOwners
    <3>3. KeptForOthers(st) /\ heap'[Fresh] = Append(heap[d], o)
      BY <3>1, <3>2, FreeRootWritten DEF CountsOwners, RootsTypeOK
    <3>4. QED
      BY <3>1, <3>2, <3>3, StoreBecomes DEF CountsOwners, RootsTypeOK
  <2>3. QED
    BY <2>1, <2>2 DEF Commit
<1>3. Stores[st] = heap[d] /\ Stores[st] # Absent
  BY <1>1, UsedHasValue DEF Stores, StoreValue
<1>4. Stores[st] # Absent /\ Stores' = [Stores EXCEPT ![st] = Append(Stores[st], o)]
      /\ Snapshots' = Snapshots /\ file' = file
  BY <1>2, <1>3 DEF Commit
<1>5. QED
  BY <1>4 DEF Domain!Commit, Stores, Snapshots, StoreValue, SnapshotValue

LEMMA CaptureImplements ==
  ASSUME CountsOwners, NEW st \in Store, NEW sn \in Snapshot, NEW delta \in Delta,
         Capture(st, sn, delta)
  PROVE  Domain!Capture(st, sn, delta)
<1> DEFINE stamp == IF delta = Never THEN Never ELSE Revision(store[st]) + delta
           v == [data |-> store[st], expires |-> stamp]
<1>1. store[st] \in Root /\ store[st] # Absent /\ snapshot[sn] = Absent /\ stamp \in Stamp
  BY UsedIsOwned, DeltaAssumption DEF Capture, Revision, CountsOwners, RootsTypeOK, Stamp
<1>2. v # Absent
  <2>1. v \in [data : Root, expires : Stamp]
    BY <1>1
  <2>2. QED
    BY <2>1, AbsentAssumption DEF Stamp
<1>3. KeptForOthers(sn) /\ heap' = heap /\ snapshot' = [snapshot EXCEPT ![sn] = v]
      /\ UNCHANGED <<store, file>>
  BY DEF Capture, Share, KeptForOthers
<1>4. v.data = store[st] /\ v.expires = stamp
  OBVIOUS
<1> HIDE DEF v
<1>5. /\ Snapshots' = [Snapshots EXCEPT ![sn] = [history |-> heap[store[st]], expires |-> stamp]]
      /\ Stores' = Stores
  <2>1. /\ Snapshots' = [Snapshots EXCEPT ![sn] =
             IF v = Absent THEN Absent ELSE [history |-> heap'[v.data], expires |-> v.expires]]
        /\ Stores' = Stores
    BY <1>3, SnapshotBecomes DEF CountsOwners, RootsTypeOK
  <2>2. QED
    BY <1>2, <1>3, <1>4, <2>1
<1>6. /\ Stores[st] = heap[store[st]] /\ Stores[st] # Absent /\ Snapshots[sn] = Absent
  BY <1>1, UsedHasValue DEF Stores, StoreValue, Snapshots
<1>7. /\ Stores[st] # Absent /\ Snapshots[sn] = Absent
      /\ Snapshots' = [Snapshots EXCEPT ![sn] =
           [history |-> Stores[st],
            expires |-> IF delta = Never THEN Never ELSE Len(Stores[st]) + delta]]
      /\ Stores' = Stores /\ file' = file
  BY <1>3, <1>5, <1>6 DEF Revision
<1>8. QED
  BY <1>7 DEF Domain!Capture, Domain!Revision, Stores, Snapshots, StoreValue, SnapshotValue

LEMMA RestoreImplements ==
  ASSUME CountsOwners, NEW sn \in Snapshot, NEW st \in Store, NEW observed \in Observed,
         Restore(sn, st, observed)
  PROVE  Domain!Restore(sn, st, observed)
<1> DEFINE d == snapshot[sn].data
<1>1. /\ d \in Root /\ d # Absent /\ store[st] = Absent /\ snapshot[sn] # Absent
      /\ snapshot[sn].expires \in Nat \cup {Never} /\ observed \in Nat
  BY UsedIsOwned, AbsentAssumption, BudgetAssumption DEF Restore, Observed, Stamp
<1>2. KeptForOthers(st) /\ heap' = heap /\ store' = [store EXCEPT ![st] = d]
      /\ UNCHANGED <<snapshot, file>>
  BY DEF Restore, Share, KeptForOthers
<1>3. Stores' = [Stores EXCEPT ![st] = heap[d]] /\ Snapshots' = Snapshots
  BY <1>1, <1>2, StoreBecomes DEF CountsOwners, RootsTypeOK
<1>4. /\ Snapshots[sn] # Absent /\ Stores[st] = Absent
      /\ Snapshots[sn].history = heap[d] /\ Snapshots[sn].expires = snapshot[sn].expires
  BY <1>1, UsedHasValue DEF Stores, Snapshots, SnapshotValue
<1>5. snapshot[sn].expires = Never \/ observed <= snapshot[sn].expires
  BY <1>1 DEF Restore, Expired
<1>6. /\ Snapshots[sn] # Absent /\ Stores[st] = Absent
      /\ Snapshots[sn].expires = Never \/ observed <= Snapshots[sn].expires
      /\ Stores' = [Stores EXCEPT ![st] = Snapshots[sn].history]
      /\ Snapshots' = Snapshots /\ file' = file
  BY <1>2, <1>3, <1>4, <1>5
<1>7. QED
  BY <1>6 DEF Domain!Restore, Stores, Snapshots, StoreValue, SnapshotValue

LEMMA ExportImplements ==
  ASSUME CountsOwners, NEW sn \in Snapshot, Export(sn)
  PROVE  Domain!Export(sn)
<1>1. Snapshots[sn] # Absent /\ file' = Snapshots[sn]
  BY UsedHasValue DEF Export, Snapshots, SnapshotValue
<1>2. Stores' = Stores /\ Snapshots' = Snapshots
  BY DEF Export, Stores, Snapshots, StoreValue, SnapshotValue
<1>3. QED
  BY <1>1, <1>2 DEF Domain!Export, Stores, Snapshots, StoreValue, SnapshotValue

LEMMA ImportImplements ==
  ASSUME CountsOwners, NEW sn \in Snapshot, Import(sn)
  PROVE  Domain!Import(sn)
<1> DEFINE v == [data |-> Fresh, expires |-> file.expires]
<1>1. Fresh \in Root /\ strong[Fresh] = 0
  BY FreshIsFree DEF CountsOwners, Import, Allocate
<1>2. file \in [history : Seq(Output), expires : Stamp] /\ file # Absent
  BY DEF Import, CountsOwners, RootsTypeOK
<1>3. v # Absent
  <2>1. v \in [data : Root, expires : Stamp]
    BY <1>1, <1>2
  <2>2. QED
    BY <2>1, AbsentAssumption DEF Stamp
<1>4. v.data = Fresh /\ v.expires = file.expires
  OBVIOUS
<1>5. heap' = [heap EXCEPT ![Fresh] = file.history] /\ snapshot' = [snapshot EXCEPT ![sn] = v]
      /\ UNCHANGED <<store, file>>
  BY DEF Import, Allocate
<1> HIDE DEF v
<1>6. KeptForOthers(sn) /\ heap'[Fresh] = file.history
  BY <1>1, <1>5, FreeRootWritten DEF CountsOwners, RootsTypeOK
<1>7. /\ Snapshots' = [Snapshots EXCEPT ![sn] =
           [history |-> file.history, expires |-> file.expires]]
      /\ Stores' = Stores
  <2>1. /\ Snapshots' = [Snapshots EXCEPT ![sn] =
             IF v = Absent THEN Absent ELSE [history |-> heap'[v.data], expires |-> v.expires]]
        /\ Stores' = Stores
    BY <1>5, <1>6, SnapshotBecomes DEF CountsOwners, RootsTypeOK
  <2>2. QED
    BY <1>3, <1>4, <1>6, <2>1
<1>8. [history |-> file.history, expires |-> file.expires] = file
  BY <1>2
<1>9. /\ file # Absent /\ Snapshots[sn] = Absent
      /\ Snapshots' = [Snapshots EXCEPT ![sn] = file]
      /\ Stores' = Stores /\ file' = file
  BY <1>2, <1>5, <1>7, <1>8 DEF Import, Snapshots, SnapshotValue
<1>10. QED
  BY <1>9 DEF Domain!Import, Stores, Snapshots, StoreValue, SnapshotValue

(* A drop frees the root only when no other handle holds it.               *)
LEMMA ReleaseKeeps ==
  ASSUME CountsOwners, NEW d \in Root, strong[d] >= 1, NEW h \in Owners(d), Release(d)
  PROVE  KeptForOthers(h)
<1>1. CASE strong[d] = 1
  BY <1>1, OwnRootWritten DEF Release
<1>2. CASE strong[d] # 1
  BY <1>2 DEF Release, KeptForOthers
<1>3. QED
  BY <1>1, <1>2

LEMMA DropStoreImplements ==
  ASSUME CountsOwners, NEW st \in Store, DropStore(st)
  PROVE  Domain!DropStore(st)
<1>1. KeptForOthers(st)
  BY UsedIsOwned, ReleaseKeeps DEF DropStore, Owners
<1>2. Stores' = [Stores EXCEPT ![st] = Absent] /\ Snapshots' = Snapshots
  BY <1>1, StoreBecomes DEF DropStore, CountsOwners, RootsTypeOK
<1>3. QED
  BY <1>2 DEF DropStore, Domain!DropStore, Stores, Snapshots, StoreValue, SnapshotValue

LEMMA DropSnapshotImplements ==
  ASSUME CountsOwners, NEW sn \in Snapshot, DropSnapshot(sn)
  PROVE  Domain!DropSnapshot(sn)
<1>1. KeptForOthers(sn)
  BY UsedIsOwned, ReleaseKeeps DEF DropSnapshot, Owners
<1>2. Snapshots' = [Snapshots EXCEPT ![sn] = Absent] /\ Stores' = Stores
  BY <1>1, SnapshotBecomes DEF DropSnapshot, CountsOwners, RootsTypeOK
<1>3. QED
  BY <1>2 DEF DropSnapshot, Domain!DropSnapshot, Stores, Snapshots, StoreValue, SnapshotValue

LEMMA StepImplements ==
  ASSUME CountsOwners, [RootsNext]_rootVars
  PROVE  [Domain!Next]_(Domain!vars)
<1>1. ASSUME NEW st \in Store, Create(st) PROVE Domain!Next
  BY <1>1, CreateImplements DEF Domain!Next
<1>2. ASSUME NEW st \in Store, DropStore(st) PROVE Domain!Next
  BY <1>2, DropStoreImplements DEF Domain!Next
<1>3. ASSUME NEW st \in Store, NEW o \in Output, Commit(st, o) PROVE Domain!Next
  BY <1>3, CommitImplements DEF Domain!Next
<1>4. ASSUME NEW from \in Store, NEW st \in Store, Clone(from, st) PROVE Domain!Next
  BY <1>4, CloneImplements DEF Domain!Next
<1>5. ASSUME NEW sn \in Snapshot, Export(sn) PROVE Domain!Next
  BY <1>5, ExportImplements DEF Domain!Next
<1>6. ASSUME NEW sn \in Snapshot, Import(sn) PROVE Domain!Next
  BY <1>6, ImportImplements DEF Domain!Next
<1>7. ASSUME NEW sn \in Snapshot, DropSnapshot(sn) PROVE Domain!Next
  BY <1>7, DropSnapshotImplements DEF Domain!Next
<1>8. ASSUME NEW sn \in Snapshot, NEW st \in Store, NEW delta \in Delta, Capture(st, sn, delta)
      PROVE  Domain!Next
  BY <1>8, CaptureImplements DEF Domain!Next
<1>9. ASSUME NEW sn \in Snapshot, NEW st \in Store, NEW observed \in Observed,
             Restore(sn, st, observed)
      PROVE  Domain!Next
  BY <1>9, RestoreImplements DEF Domain!Next
<1>10. CASE UNCHANGED rootVars
  BY <1>10 DEF rootVars, Domain!vars
<1>11. QED
  BY <1>1, <1>2, <1>3, <1>4, <1>5, <1>6, <1>7, <1>8, <1>9, <1>10 DEF RootsNext

(* Reference counting cannot be observed: with Rc::make_mut, stores and     *)
(* snapshots behave as values, so a snapshot is immutable and no session    *)
(* sees what another lineage commits, for any number of handles and roots.  *)
THEOREM RootsImplementDomain == RootsSpec => ImplementsDomain
<1>1. RootsInit => Domain!Init
  BY DEF RootsInit, Domain!Init
<1>2. CountsOwners /\ [RootsNext]_rootVars => [Domain!Next]_(Domain!vars)
  BY StepImplements
<1>3. QED
  BY <1>1, <1>2, CountsAreOwners, PTL DEF RootsSpec, ImplementsDomain, Domain!Spec
=============================================================================
