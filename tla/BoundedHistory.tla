--------------------------- MODULE BoundedHistory ---------------------------
(***************************************************************************)
(* The novelty histories of a repetition store at work: FragmentHistory    *)
(* (one entry per returned phrase, holding the phrase's edge fragments)    *)
(* and CountedHistory (one entry per returned text, that is, an entry of   *)
(* one fragment).  A ring of entries under two budgets, a number of        *)
(* entries and a number of payload bytes, over the counters of CountMap,   *)
(* which it calls fragment by fragment.                                    *)
(*                                                                         *)
(* `pushed` is a history variable: every entry ever pushed.                *)
(***************************************************************************)
EXTENDS CountMap, HistoryWindow

CONSTANTS
  Phrases,       (* entries the model pushes: sequences of fragments       *)
  MaxPushes      (* bound: number of pushes                                *)

ASSUME FragmentsAssumption == Fragment = Key
ASSUME PhrasesAssumption   == Phrases \subseteq Seq(Fragment)
ASSUME PushesAssumption    == MaxPushes \in Nat

VARIABLES
  entries,       (* the ring, oldest first                                 *)
  logicalBytes,  (* logical_bytes                                          *)
  pc,            (* where push stands: "idle", "counting" or "evicting"    *)
  adding,        (* fragments of the pushed entry still to be counted      *)
  leaving,       (* fragments of the popped entry still to be uncounted    *)
  pushed         (* every entry pushed so far, oldest first                *)

ring == <<entries, logicalBytes, pc, adding, leaving, pushed>>
allVars == <<vars, ring>>

(* A history of capacity zero ignores every push.                           *)
Push(p) ==
  /\ pc = "idle" /\ Len(pushed) < MaxPushes
  /\ pushed' = Append(pushed, p)
  /\ IF Capacity = 0 THEN UNCHANGED <<pc, adding>> ELSE pc' = "counting" /\ adding' = p
  /\ UNCHANGED <<vars, entries, logicalBytes, leaving>>

(* One fragment is counted, and billed.                                     *)
Counted ==
  /\ adding' = Tail(adding)
  /\ logicalBytes' = logicalBytes + Bytes[Head(adding)]
  /\ UNCHANGED <<entries, pc, leaving, pushed>>

CountFragment ==
  /\ pc = "counting" /\ adding # <<>>
  /\ \/ Increment(Head(adding)) /\ Counted
     \/ BeginRehash(Head(adding)) /\ UNCHANGED ring
     \/ RehashSlot /\ UNCHANGED ring
     \/ FinishIncrement /\ Counted

Enqueue ==
  /\ pc = "counting" /\ adding = <<>>
  /\ entries' = Append(entries, pushed[Len(pushed)])
  /\ pc' = "evicting"
  /\ UNCHANGED <<vars, logicalBytes, adding, leaving, pushed>>

(* Mutation: entries are evicted as soon as a budget is used up. *)
OverfullAtBudget == Len(entries) >= Capacity \/ logicalBytes >= ByteCapacity

Overfull == Len(entries) > Capacity \/ logicalBytes > ByteCapacity

(* An entry larger than the byte budget evicts the whole history and then   *)
(* itself; popping an empty ring would panic.                               *)
Pop ==
  /\ pc = "evicting" /\ leaving = <<>> /\ Overfull
  /\ entries # <<>>
  /\ leaving' = Head(entries) /\ entries' = Tail(entries)
  /\ UNCHANGED <<vars, logicalBytes, pc, adding, pushed>>

(* saturating_sub, then a decrement, which panics on a key it cannot find.  *)
UncountFragment ==
  /\ leaving # <<>>
  /\ Decrement(Head(leaving))
  /\ logicalBytes' = IF logicalBytes < Bytes[Head(leaving)] THEN 0 ELSE logicalBytes - Bytes[Head(leaving)]
  /\ leaving' = Tail(leaving)
  /\ UNCHANGED <<entries, pc, adding, pushed>>

Return ==
  /\ pc = "evicting" /\ leaving = <<>> /\ ~Overfull
  /\ pc' = "idle"
  /\ UNCHANGED <<vars, entries, logicalBytes, adding, leaving, pushed>>

HistoryInit ==
  /\ Init
  /\ entries = <<>> /\ logicalBytes = 0 /\ pc = "idle"
  /\ adding = <<>> /\ leaving = <<>> /\ pushed = <<>>

Step == CountFragment \/ Enqueue \/ Pop \/ UncountFragment \/ Return

HistoryNext == Step \/ \E p \in Phrases : Push(p)

(* push is one call, which runs to its end.                                 *)
HistorySpec == HistoryInit /\ [][HistoryNext]_allVars /\ WF_allVars(Step)

-----------------------------------------------------------------------------
(* Properties.                                                              *)

(* Between pushes the ring is the longest run of most recent entries, of    *)
(* all those ever pushed, that fits both budgets; the counters are the      *)
(* multiplicities of its fragments, an evicted phrase having taken all of   *)
(* its fragments with it, repeated ones included (SPECIFICATION.md,         *)
(* "Bounded histories"); and logical_bytes is its payload.                  *)
HistoryIsWindow ==
  pc = "idle" =>
    /\ entries = Window(pushed)
    /\ \A f \in Fragment : Held(f) = Occurrences(entries, f)
    /\ logicalBytes = Size(entries)

(* No push panics or probes for ever: an entry that is evicted finds every  *)
(* one of its fragments counted ("history key is counted"), repeated ones   *)
(* included, the ring is not empty when it is popped, and a slot that ends  *)
(* a probe is left even when keys and tombstones fill the table.            *)
NeverStuck ==
  /\ LoopsTerminate
  /\ leaving # <<>> => Find(Head(leaving)) # {}
  /\ pc = "evicting" /\ leaving = <<>> /\ Overfull => entries # <<>>

(* Every push ends, in spite of its rehashes: no probe and no rehash loops  *)
(* for ever, and no decrement or pop panics.                                *)
PushesEnd == pc # "idle" ~> pc = "idle"
=============================================================================
