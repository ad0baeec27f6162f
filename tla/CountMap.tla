------------------------------ MODULE CountMap ------------------------------
(***************************************************************************)
(* The counters behind the exact-text and edge-fragment histories:         *)
(* CountMap of diverse.rs, an open-addressing hash table with linear       *)
(* probing and tombstones, written without any dependency.                 *)
(*                                                                         *)
(* A slot is a key, Empty or Tomb: the code's (key: Option, tombstone:     *)
(* bool) pair never has both.  increment and decrement are one step each,  *)
(* except that the loop of rehash, run from inside increment, takes one    *)
(* step per slot of the old table: `pending` is the key whose increment is *)
(* waiting for it, and no other call can start meanwhile (&mut self).      *)
(***************************************************************************)
EXTENDS Integers, FiniteSets

CONSTANTS
  Key,           (* the strings that may be counted                        *)
  Hash,          (* hash_index: an arbitrary function from Key to Nat      *)
  Empty, Tomb,   (* contents of a slot that holds no key                   *)
  None,          (* no increment is waiting for a rehash                   *)
  InitialSlots,  (* slots allocated by the first increment (16)            *)
  MaxLive,       (* most distinct keys the owning history holds at once:   *)
                 (* those of a full window and of the entry being pushed   *)
  MaxCount,      (* bound: largest count of one key                        *)
  MaxSlots       (* bound: largest table the model allocates               *)

ASSUME HashAssumption  == Hash \in [Key -> Nat]
ASSUME SlotAssumption  == Empty \notin Key /\ Tomb \notin Key /\ Empty # Tomb
ASSUME NoneAssumption  == None \notin Key
ASSUME SizeAssumption  == InitialSlots \in Nat /\ InitialSlots >= 2
ASSUME BoundAssumption == MaxLive \in Nat /\ MaxCount \in Nat /\ MaxSlots \in Nat

VARIABLES
  cap,         (* slots.len(): 0, then InitialSlots times a power of two   *)
  slot,        (* slots[i].key and slots[i].tombstone                      *)
  count,       (* slots[i].count                                           *)
  len,         (* number of stored keys, as the code counts them           *)
  tombstones,  (* number of tombstones, as the code counts them            *)
  pending,     (* the key being incremented while rehash runs, or None     *)
  old,         (* rehash: the replaced table                               *)
  cursor       (* rehash: next slot of the replaced table                  *)

vars == <<cap, slot, count, len, tombstones, pending, old, cursor>>

Indices(n) == 0 .. n - 1

-----------------------------------------------------------------------------
(* Probing.                                                                 *)

(* hash_index(key) & mask; the capacity is a power of two in the code. *)
Home(k) == Hash[k] % cap

(* How many probes, starting from slot a, precede slot b. *)
Distance(a, b) == IF b >= a THEN b - a ELSE b + cap - a

(* The slots probed for k before slot i. *)
Before(k, i) == {j \in Indices(cap) : Distance(Home(k), j) < Distance(Home(k), i)}

(* find: walk from the home slot; stop at the key, give up at an empty slot. *)
Find(k) ==
  {i \in Indices(cap) :
     slot[i] = k /\ \A j \in Before(k, i) : slot[j] \notin {k, Empty}}

(* insert_new's target: the first tombstone it met if any, else the empty   *)
(* slot that ends its walk, that is, the first slot without a key.          *)
(* (InsertTerminates is the guard of every use.)                            *)
Target(k) ==
  CHOOSE i \in Indices(cap) :
    slot[i] \notin Key /\ \A j \in Before(k, i) : slot[j] \in Key

(* insert_new's `loop` has no other exit than an empty slot. *)
InsertTerminates == \E i \in Indices(cap) : slot[i] = Empty

(* Mutation: tombstones do not count towards the load. *)
CrowdedIgnoringTombstones(n) == (len + 1) * 10 >= n * 7

(* reserve_entry: at least seven tenths full, counting the new entry. *)
Crowded(n) == (len + tombstones + 1) * 10 >= n * 7

NeedsRehash == cap = 0 \/ Crowded(cap)

NewCapacity == IF cap = 0 THEN InitialSlots ELSE 2 * cap

(* A table without slots; also stands for `old` once rehash dropped it. *)
NoTable == [cap   |-> 0,
            slot  |-> [i \in Indices(0) |-> Empty],
            count |-> [i \in Indices(0) |-> 0]]

-----------------------------------------------------------------------------
(* Operations.                                                              *)

(* Mutation: tombstones is left alone when a tombstone is reused. *)
InsertNewLeavingTombstones(k, n) ==
  /\ InsertTerminates
  /\ LET i == Target(k) IN
       /\ slot' = [slot EXCEPT ![i] = k]
       /\ count' = [count EXCEPT ![i] = n]
       /\ tombstones' = tombstones
  /\ len' = len + 1

InsertNew(k, n) ==
  /\ InsertTerminates
  /\ LET i == Target(k) IN
       /\ slot' = [slot EXCEPT ![i] = k]
       /\ count' = [count EXCEPT ![i] = n]
       /\ tombstones' = IF slot[i] = Tomb THEN tombstones - 1 ELSE tombstones
  /\ len' = len + 1

(* The rest of increment, once reserve_entry is done.  u32 saturation is    *)
(* out of reach: a history holds at most 50,000 entries.                    *)
CountKey(k) ==
  \/ /\ Find(k) = {}
     /\ InsertNew(k, 1)
     /\ cap' = cap
  \/ \E i \in Find(k) :
     /\ count' = [count EXCEPT ![i] = @ + 1]
     /\ UNCHANGED <<cap, slot, len, tombstones>>

Stored(k) == \E i \in Indices(cap) : slot[i] = k

(* What the owning history may ask for, and the model's bounds. *)
MayIncrement(k) ==
  /\ pending = None
  /\ IF Stored(k) THEN \A i \in Indices(cap) : slot[i] = k => count[i] < MaxCount
                  ELSE len < MaxLive
  /\ NeedsRehash => NewCapacity <= MaxSlots

Increment(k) ==
  /\ MayIncrement(k)
  /\ ~NeedsRehash
  /\ CountKey(k)
  /\ UNCHANGED <<pending, old, cursor>>

(* increment enters rehash: an empty table of the new capacity. *)
BeginRehash(k) ==
  /\ MayIncrement(k)
  /\ NeedsRehash
  /\ pending' = k
  /\ old' = [cap |-> cap, slot |-> slot, count |-> count]
  /\ cursor' = 0
  /\ cap' = NewCapacity
  /\ slot' = [i \in Indices(NewCapacity) |-> Empty]
  /\ count' = [i \in Indices(NewCapacity) |-> 0]
  /\ len' = 0
  /\ tombstones' = 0

(* Mutation: rehash re-inserts every key with a count of one. *)
RehashSlotForgettingCounts ==
  /\ pending # None
  /\ cursor < old.cap
  /\ cursor' = cursor + 1
  /\ \/ /\ old.slot[cursor] \in Key
        /\ InsertNew(old.slot[cursor], 1)
     \/ /\ old.slot[cursor] \notin Key
        /\ UNCHANGED <<slot, count, len, tombstones>>
  /\ UNCHANGED <<cap, pending, old>>

(* Mutation: the index moves only past slots that held a key. *)
RehashSlotStaying ==
  /\ pending # None
  /\ cursor < old.cap
  /\ \/ /\ old.slot[cursor] \in Key
        /\ InsertNew(old.slot[cursor], old.count[cursor])
        /\ cursor' = cursor + 1
     \/ /\ old.slot[cursor] \notin Key
        /\ UNCHANGED <<slot, count, len, tombstones, cursor>>
  /\ UNCHANGED <<cap, pending, old>>

(* One turn of rehash's loop over the old slots. *)
RehashSlot ==
  /\ pending # None
  /\ cursor < old.cap
  /\ cursor' = cursor + 1
  /\ \/ /\ old.slot[cursor] \in Key
        /\ InsertNew(old.slot[cursor], old.count[cursor])
     \/ /\ old.slot[cursor] \notin Key
        /\ UNCHANGED <<slot, count, len, tombstones>>
  /\ UNCHANGED <<cap, pending, old>>

(* rehash returns; increment goes on to count its key. *)
FinishIncrement ==
  /\ pending # None
  /\ cursor = old.cap
  /\ CountKey(pending)
  /\ pending' = None
  /\ old' = NoTable
  /\ cursor' = 0

(* Mutation: an evicted key leaves an empty slot behind, not a tombstone. *)
VacateToEmpty(i) ==
  /\ slot' = [slot EXCEPT ![i] = Empty]
  /\ count' = [count EXCEPT ![i] = 0]
  /\ len' = len - 1
  /\ UNCHANGED tombstones

Vacate(i) ==
  /\ slot' = [slot EXCEPT ![i] = Tomb]
  /\ count' = [count EXCEPT ![i] = 0]
  /\ len' = len - 1
  /\ tombstones' = tombstones + 1

(* decrement of a key the history holds; find must succeed or the code      *)
(* panics ("history key is counted").                                       *)
Decrement(k) ==
  /\ pending = None
  /\ Stored(k)
  /\ \E i \in Find(k) :
       \/ /\ count[i] > 1
          /\ count' = [count EXCEPT ![i] = @ - 1]
          /\ UNCHANGED <<slot, len, tombstones>>
       \/ /\ count[i] <= 1
          /\ Vacate(i)
  /\ UNCHANGED <<cap, pending, old, cursor>>

(* CountMap::default: no slots at all. *)
Init ==
  /\ cap = 0
  /\ slot = NoTable.slot
  /\ count = NoTable.count
  /\ len = 0
  /\ tombstones = 0
  /\ pending = None
  /\ old = NoTable
  /\ cursor = 0

Next ==
  \/ \E k \in Key : Increment(k) \/ BeginRehash(k) \/ Decrement(k)
  \/ RehashSlot
  \/ FinishIncrement

Spec == Init /\ [][Next]_vars

-----------------------------------------------------------------------------
(* Properties.                                                              *)

Keys(n) == [Indices(n) -> Key \cup {Empty, Tomb}]

(* Every variable has the shape the code gives it. *)
TypeOK ==
  /\ cap \in Nat /\ len \in Nat /\ tombstones \in Nat
  /\ slot \in Keys(cap)
  /\ count \in [Indices(cap) -> Nat]
  /\ pending \in Key \cup {None}
  /\ cursor \in 0 .. old.cap
  /\ old = [cap |-> old.cap, slot |-> old.slot, count |-> old.count]
  /\ old.cap \in Nat
  /\ old.slot \in Keys(old.cap)
  /\ old.count \in [Indices(old.cap) -> Nat]

(* Slots of the replaced table that rehash has not moved yet. *)
Waiting == cursor .. old.cap - 1

(* A key is stored once: neither two slots of the table nor, during a       *)
(* rehash, a slot of each table hold the same key.                          *)
Unique ==
  /\ \A i, j \in Indices(cap) : slot[i] = slot[j] /\ slot[i] \in Key => i = j
  /\ \A i, j \in Waiting :
       old.slot[i] = old.slot[j] /\ old.slot[i] \in Key => i = j
  /\ \A i \in Indices(cap), j \in Waiting : slot[i] \in Key => slot[i] # old.slot[j]

(* find reaches every stored key: no deletion or rehash ever breaks a probe *)
(* chain, so decrement's expect("history key is counted") never panics and  *)
(* get never reports a count of zero for a phrase still in the window.      *)
ProbeFinds == \A i \in Indices(cap) : slot[i] \in Key => i \in Find(slot[i])

(* insert_new's loop always has an empty slot to stop at, and so does a     *)
(* failing find: an allocated table keeps an empty slot whatever sequence   *)
(* of pushes and evictions filled it with keys and tombstones.              *)
LoopsTerminate == cap > 0 => InsertTerminates

KeySlots == {i \in Indices(cap) : slot[i] \in Key}
TombSlots == {i \in Indices(cap) : slot[i] = Tomb}

(* len and tombstones, which decide when the table grows, are what the      *)
(* slots say.                                                               *)
CountersExact == len = Cardinality(KeySlots) /\ tombstones = Cardinality(TombSlots)

WaitingKeys == {i \in Waiting : old.slot[i] \in Key}

(* The load stays under seven tenths, and a rehash has room for every key   *)
(* it still has to move and for the key whose increment it serves.          *)
LoadBounded ==
  IF pending = None
  THEN /\ old = NoTable /\ cursor = 0
       /\ cap = 0 \/ (cap >= 2 /\ (len + tombstones) * 10 < cap * 7)
  ELSE /\ cap >= 2 /\ tombstones = 0
       /\ (len + Cardinality(WaitingKeys) + 1) * 10 < cap * 7

(* The inductive invariant: none of its parts is preserved alone.           *)
IInv == TypeOK /\ Unique /\ ProbeFinds /\ CountersExact /\ LoadBounded

(* The count a caller is owed for k; a rehash in progress loses none. *)
Held(k) ==
  LET live == {i \in Indices(cap) : slot[i] = k}
      waiting == {i \in Waiting : old.slot[i] = k}
  IN CASE live # {}    -> count[CHOOSE i \in live : TRUE]
       [] waiting # {} -> old.count[CHOOSE i \in waiting : TRUE]
       [] OTHER        -> 0

(* No stored key has a count of zero: decrement vacates the slot instead.   *)
CountsPositive ==
  /\ \A i \in Indices(cap) : slot[i] \in Key => count[i] > 0
  /\ \A i \in Waiting : old.slot[i] \in Key => old.count[i] > 0

Bag == INSTANCE CountBag WITH counts <- [k \in Key |-> Held(k)], waiting <- pending

(* The table is the bag of keys its history relies on: an increment or a    *)
(* decrement changes the count of its key by one and of no other, and until *)
(* an increment that rehashes ends, its steps change none.                  *)
ImplementsBag == Bag!Spec
=============================================================================
