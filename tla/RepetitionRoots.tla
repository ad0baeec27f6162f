--------------------------- MODULE RepetitionRoots ---------------------------
(***************************************************************************)
(* RepetitionStore and RepetitionSnapshot of diverse.rs: handles to        *)
(* reference-counted roots (Rc<RepetitionData>).  Cloning, capturing and   *)
(* restoring share a root; commit goes through Rc::make_mut, which writes  *)
(* in place when the root has one owner and copies it otherwise.           *)
(*                                                                         *)
(* The data of a root is the sequence of outputs committed to it; what a   *)
(* commit makes of them is DiverseTransaction's subject.  Everything here  *)
(* happens on one thread (Rc is not Send), one call at a time.             *)
(***************************************************************************)
EXTENDS Integers, Sequences, FiniteSets

CONSTANTS
  Store,         (* handles of live repetition stores                      *)
  Snapshot,      (* handles of snapshots                                   *)
  Output,        (* outputs that may be committed                          *)
  Root,          (* addresses of reference-counted allocations             *)
  Budget,        (* max_logical_bytes of the capturing policies, one byte  *)
                 (* per output                                             *)
  Delta,         (* expires_after_revisions of the policies, or Never      *)
  Never,         (* a snapshot that does not expire                        *)
  Absent,        (* a handle that is not in use                            *)
  MaxRevision    (* bound: commits to one lineage                          *)

ASSUME HandleAssumption ==
  IsFiniteSet(Store) /\ IsFiniteSet(Snapshot) /\ Store \cap Snapshot = {}
ASSUME AbsentAssumption ==
  /\ Absent \notin Root \cup Seq(Output)
  /\ Absent \notin [history : Seq(Output), expires : Nat \cup {Never}]
  /\ Absent \notin [data : Root, expires : Nat \cup {Never}]
ASSUME NeverAssumption  == Never \notin Nat
ASSUME DeltaAssumption  == Delta \subseteq Nat \cup {Never}
ASSUME BudgetAssumption == Budget \in Nat /\ MaxRevision \in Nat

VARIABLES
  heap,          (* data of each root                                      *)
  strong,        (* strong count of each root; 0: the root is free         *)
  store,         (* RepetitionStore.data of each store handle, or Absent   *)
  snapshot,      (* data and expires_at_revision of a snapshot, or Absent  *)
  file           (* bytes of an exported snapshot, or Absent               *)

rootVars == <<heap, strong, store, snapshot, file>>

Revision(d) == Len(heap[d])

Observed == 0 .. MaxRevision + 1

-----------------------------------------------------------------------------
(* Rc.                                                                      *)

Fresh == CHOOSE d \in Root : strong[d] = 0

Allocate(data) ==
  /\ \E d \in Root : strong[d] = 0
  /\ heap' = [heap EXCEPT ![Fresh] = data]
  /\ strong' = [strong EXCEPT ![Fresh] = 1]

(* Rc::clone *)
Share(d) == strong' = [strong EXCEPT ![d] = @ + 1] /\ UNCHANGED heap

(* drop of one owner; the last one frees the data. *)
Release(d) ==
  /\ strong' = [strong EXCEPT ![d] = @ - 1]
  /\ heap' = IF strong[d] = 1 THEN [heap EXCEPT ![d] = <<>>] ELSE heap

-----------------------------------------------------------------------------
(* Operations.                                                              *)

(* new_location *)
Create(st) ==
  /\ store[st] = Absent
  /\ Allocate(<<>>)
  /\ store' = [store EXCEPT ![st] = Fresh]
  /\ UNCHANGED <<snapshot, file>>

(* derived Clone *)
Clone(from, st) ==
  /\ store[from] # Absent /\ store[st] = Absent
  /\ Share(store[from])
  /\ store' = [store EXCEPT ![st] = store[from]]
  /\ UNCHANGED <<snapshot, file>>

(* Mutation: the data is written in place whoever shares it. *)
CommitInPlace(st, o) ==
  /\ store[st] # Absent
  /\ Revision(store[st]) < MaxRevision
  /\ heap' = [heap EXCEPT ![store[st]] = Append(@, o)]
  /\ UNCHANGED <<strong, store, snapshot, file>>

(* Mutation: every commit copies, and the old root keeps its owner count. *)
CommitCopying(st, o) ==
  LET d == store[st] IN
  /\ d # Absent
  /\ Revision(d) < MaxRevision
  /\ Allocate(Append(heap[d], o))
  /\ store' = [store EXCEPT ![st] = Fresh]
  /\ UNCHANGED <<snapshot, file>>

(* commit: Rc::make_mut, then the update. *)
Commit(st, o) ==
  LET d == store[st] IN
  /\ d # Absent
  /\ Revision(d) < MaxRevision
  /\ \/ /\ strong[d] = 1
        /\ heap' = [heap EXCEPT ![d] = Append(@, o)]
        /\ UNCHANGED <<strong, store>>
     \/ /\ strong[d] > 1
        /\ \E f \in Root : strong[f] = 0
        /\ heap' = [heap EXCEPT ![Fresh] = Append(heap[d], o)]
        /\ strong' = [strong EXCEPT ![Fresh] = 1, ![d] = @ - 1]
        /\ store' = [store EXCEPT ![st] = Fresh]
  /\ UNCHANGED <<snapshot, file>>

(* snapshot_with_policy, of a policy that consents; without consent or over *)
(* the budget nothing happens.                                              *)
Capture(st, sn, delta) ==
  LET d == store[st] IN
  /\ d # Absent /\ snapshot[sn] = Absent
  /\ Len(heap[d]) <= Budget
  /\ Share(d)
  /\ snapshot' = [snapshot EXCEPT ![sn] =
       [data |-> d, expires |-> IF delta = Never THEN Never ELSE Revision(d) + delta]]
  /\ UNCHANGED <<store, file>>

Expired(sn, observed) == snapshot[sn].expires # Never /\ observed > snapshot[sn].expires

(* restore_at; restore is the case of the snapshot's own revision. *)
Restore(sn, st, observed) ==
  /\ snapshot[sn] # Absent /\ store[st] = Absent
  /\ ~Expired(sn, observed)
  /\ Share(snapshot[sn].data)
  /\ store' = [store EXCEPT ![st] = snapshot[sn].data]
  /\ UNCHANGED <<snapshot, file>>

(* to_bytes: the history and its expiry, by value. *)
Export(sn) ==
  /\ snapshot[sn] # Absent
  /\ file' = [history |-> heap[snapshot[sn].data], expires |-> snapshot[sn].expires]
  /\ UNCHANGED <<heap, strong, store, snapshot>>

(* from_bytes: the histories are pushed again into a root of their own. *)
Import(sn) ==
  /\ file # Absent /\ snapshot[sn] = Absent
  /\ Allocate(file.history)
  /\ snapshot' = [snapshot EXCEPT ![sn] = [data |-> Fresh, expires |-> file.expires]]
  /\ UNCHANGED <<store, file>>

DropStore(st) ==
  /\ store[st] # Absent
  /\ Release(store[st])
  /\ store' = [store EXCEPT ![st] = Absent]
  /\ UNCHANGED <<snapshot, file>>

DropSnapshot(sn) ==
  /\ snapshot[sn] # Absent
  /\ Release(snapshot[sn].data)
  /\ snapshot' = [snapshot EXCEPT ![sn] = Absent]
  /\ UNCHANGED <<store, file>>

RootsInit ==
  /\ heap = [d \in Root |-> <<>>]
  /\ strong = [d \in Root |-> 0]
  /\ store = [st \in Store |-> Absent]
  /\ snapshot = [sn \in Snapshot |-> Absent]
  /\ file = Absent

RootsNext ==
  \/ \E st \in Store : Create(st) \/ DropStore(st) \/ \E o \in Output : Commit(st, o)
  \/ \E from, st \in Store : Clone(from, st)
  \/ \E sn \in Snapshot : Export(sn) \/ Import(sn) \/ DropSnapshot(sn)
  \/ \E sn \in Snapshot, st \in Store :
       \/ \E delta \in Delta : Capture(st, sn, delta)
       \/ \E observed \in Observed : Restore(sn, st, observed)

RootsSpec == RootsInit /\ [][RootsNext]_rootVars

-----------------------------------------------------------------------------
(* Properties.                                                              *)

Stamp == Nat \cup {Never}

(* Types; a handle in use points to a root that has not been freed. *)
RootsTypeOK ==
  /\ heap \in [Root -> Seq(Output)]
  /\ strong \in [Root -> Nat]
  /\ store \in [Store -> Root \cup {Absent}]
  /\ snapshot \in [Snapshot -> [data : Root, expires : Stamp] \cup {Absent}]
  /\ file = Absent \/ file \in [history : Seq(Output), expires : Stamp]
  /\ \A st \in Store : store[st] # Absent => strong[store[st]] > 0

Owners(d) ==
  {st \in Store : store[st] = d}
    \cup {sn \in Snapshot : snapshot[sn] # Absent /\ snapshot[sn].data = d}

(* A root's strong count is the number of handles that hold it, so it is    *)
(* freed with the last of them and never earlier.                           *)
CountsOwners == RootsTypeOK /\ \A d \in Root : strong[d] = Cardinality(Owners(d))

Domain == INSTANCE RepetitionDomain WITH
            stores <- [st \in Store |->
                         IF store[st] = Absent THEN Absent ELSE heap[store[st]]],
            snapshots <- [sn \in Snapshot |->
                            IF snapshot[sn] = Absent THEN Absent
                            ELSE [history |-> heap[snapshot[sn].data],
                                  expires |-> snapshot[sn].expires]]

(* Sharing cannot be observed: stores and snapshots behave as values, so a  *)
(* snapshot is immutable and no session sees another domain's commits.      *)
ImplementsDomain == Domain!Spec
=============================================================================
