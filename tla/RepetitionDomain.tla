-------------------------- MODULE RepetitionDomain --------------------------
(***************************************************************************)
(* Repetition stores and snapshots as their callers see them: values.  A   *)
(* store is the sequence of outputs committed to it; copying, capturing    *)
(* and restoring copy that sequence; nothing done to one store ever shows  *)
(* in another store or in a snapshot.                                      *)
(***************************************************************************)
EXTENDS Integers, Sequences

CONSTANTS
  Store,         (* handles of live repetition stores                      *)
  Snapshot,      (* handles of snapshots                                   *)
  Output,        (* outputs that may be committed                          *)
  Never,         (* a snapshot that does not expire                        *)
  Delta,         (* expiry policies: revisions to live, or Never            *)
  Observed,      (* revisions a restoring caller may state                  *)
  Absent         (* value of a handle that is not in use                   *)

VARIABLES
  stores,        (* [Store -> Seq(Output) or Absent]                       *)
  snapshots,     (* [Snapshot -> [history, expires] or Absent]             *)
  file           (* bytes exported from a snapshot, or Absent              *)

vars == <<stores, snapshots, file>>

Revision(history) == Len(history)

Create(st) ==
  /\ stores[st] = Absent
  /\ stores' = [stores EXCEPT ![st] = <<>>]
  /\ UNCHANGED <<snapshots, file>>

Clone(from, st) ==
  /\ stores[from] # Absent /\ stores[st] = Absent
  /\ stores' = [stores EXCEPT ![st] = stores[from]]
  /\ UNCHANGED <<snapshots, file>>

Commit(st, o) ==
  /\ stores[st] # Absent
  /\ stores' = [stores EXCEPT ![st] = Append(@, o)]
  /\ UNCHANGED <<snapshots, file>>

Capture(st, sn, delta) ==
  /\ stores[st] # Absent /\ snapshots[sn] = Absent
  /\ snapshots' = [snapshots EXCEPT ![sn] =
       [history |-> stores[st],
        expires |-> IF delta = Never THEN Never ELSE Revision(stores[st]) + delta]]
  /\ UNCHANGED <<stores, file>>

Restore(sn, st, observed) ==
  /\ snapshots[sn] # Absent /\ stores[st] = Absent
  /\ snapshots[sn].expires = Never \/ observed <= snapshots[sn].expires
  /\ stores' = [stores EXCEPT ![st] = snapshots[sn].history]
  /\ UNCHANGED <<snapshots, file>>

Export(sn) ==
  /\ snapshots[sn] # Absent
  /\ file' = snapshots[sn]
  /\ UNCHANGED <<stores, snapshots>>

Import(sn) ==
  /\ file # Absent /\ snapshots[sn] = Absent
  /\ snapshots' = [snapshots EXCEPT ![sn] = file]
  /\ UNCHANGED <<stores, file>>

DropStore(st) == stores' = [stores EXCEPT ![st] = Absent] /\ UNCHANGED <<snapshots, file>>

DropSnapshot(sn) == snapshots' = [snapshots EXCEPT ![sn] = Absent] /\ UNCHANGED <<stores, file>>

Init ==
  /\ stores = [st \in Store |-> Absent]
  /\ snapshots = [sn \in Snapshot |-> Absent]
  /\ file = Absent

Next ==
  \/ \E st \in Store : Create(st) \/ DropStore(st) \/ \E o \in Output : Commit(st, o)
  \/ \E from, st \in Store : Clone(from, st)
  \/ \E sn \in Snapshot : Export(sn) \/ Import(sn) \/ DropSnapshot(sn)
  \/ \E sn \in Snapshot, st \in Store :
       \/ \E delta \in Delta : Capture(st, sn, delta)
       \/ \E observed \in Observed : Restore(sn, st, observed)

Spec == Init /\ [][Next]_vars
=============================================================================
