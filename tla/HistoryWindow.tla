--------------------------- MODULE HistoryWindow ---------------------------
(***************************************************************************)
(* What a novelty history keeps of everything ever pushed to it: the       *)
(* longest run of most recent entries within a budget of entries and a     *)
(* budget of payload bytes.  An entry is a sequence of fragments.          *)
(* BoundedHistory shows that the ring of diverse.rs keeps exactly this.    *)
(***************************************************************************)
EXTENDS Integers, Sequences, FiniteSets

CONSTANTS
  Fragment,      (* fragments, or normalized texts                         *)
  Bytes,         (* UTF-8 length of each fragment                          *)
  Capacity,      (* capacity: most entries kept                            *)
  ByteCapacity   (* byte_capacity: most payload bytes kept                 *)

ASSUME BytesAssumption    == Bytes \in [Fragment -> Nat]
ASSUME CapacityAssumption == Capacity \in Nat /\ ByteCapacity \in Nat

(* Occurrences and bytes of a sequence of entries, by position, so that     *)
(* repeated fragments are told apart.                                       *)

Positions(s) == UNION {{i} \X (1 .. Len(s[i])) : i \in 1 .. Len(s)}

FragmentAt(s, p) == s[p[1]][p[2]]

Occurrences(s, f) == Cardinality({p \in Positions(s) : FragmentAt(s, p) = f})

(* One element per payload byte: string_bytes of every fragment.            *)
Payload(s) == UNION {{p} \X (1 .. Bytes[FragmentAt(s, p)]) : p \in Positions(s)}

Size(s) == Cardinality(Payload(s))

Suffix(s, n) == SubSeq(s, Len(s) - n + 1, Len(s))

Fitting(s) == {n \in 0 .. Len(s) : n <= Capacity /\ Size(Suffix(s, n)) <= ByteCapacity}

(* The longest suffix of s that fits both budgets. *)
Window(s) == Suffix(s, CHOOSE n \in Fitting(s) : \A m \in Fitting(s) : m <= n)
=============================================================================
