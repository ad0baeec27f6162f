------------------------------ MODULE CountBag ------------------------------
(***************************************************************************)
(* What a repetition history expects of its counters: a bag of keys.  A    *)
(* history increments a key when a phrase enters its window and decrements *)
(* it when the phrase is evicted (CountedHistory::push and                 *)
(* FragmentHistory::push); the count of a key is its multiplicity.         *)
(*                                                                         *)
(* An increment may have to reorganise the storage first.  Until it ends,  *)
(* no other call starts and no count changes.                              *)
(***************************************************************************)
EXTENDS Naturals

CONSTANTS Key, None

VARIABLES
  counts,        (* the multiplicity of every key                          *)
  waiting        (* the key of a running increment, or None                *)

vars == <<counts, waiting>>

Init == counts = [k \in Key |-> 0] /\ waiting = None

Increment(k) ==
  /\ waiting = None
  /\ counts' = [counts EXCEPT ![k] = @ + 1]
  /\ UNCHANGED waiting

Begin(k) ==
  /\ waiting = None
  /\ waiting' = k
  /\ UNCHANGED counts

Finish ==
  /\ waiting # None
  /\ counts' = [counts EXCEPT ![waiting] = @ + 1]
  /\ waiting' = None

(* A history only decrements what it counted before. *)
Decrement(k) ==
  /\ waiting = None
  /\ counts[k] > 0
  /\ counts' = [counts EXCEPT ![k] = @ - 1]
  /\ UNCHANGED waiting

Next == Finish \/ \E k \in Key : Increment(k) \/ Begin(k) \/ Decrement(k)

Spec == Init /\ [][Next]_vars
=============================================================================
