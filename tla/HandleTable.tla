----------------------------- MODULE HandleTable -----------------------------
(***************************************************************************)
(* The handle table of the WebAssembly boundary: State of mecojoni-wasm,   *)
(* its operations, and the ABI calls that reach them.  A call to dispatch  *)
(* leaves at most one result in the table, and with it the value it made;  *)
(* the host claims the value and disposes of both.                         *)
(*                                                                         *)
(* Calls are synchronous and never re-entered, so each is one step.  The   *)
(* host is arbitrary: it may pass any number as a handle, dispose of       *)
(* anything, in any order.  JsWrapper models the host that ships with it.  *)
(***************************************************************************)
EXTENDS Integers, FiniteSets

CONSTANTS
  MaxHandle,     (* largest handle number (u32::MAX)                       *)
  MaxCommits     (* bound: committed diverse generations                   *)

ASSUME HandleAssumption == MaxHandle \in Nat \ {0}
ASSUME CommitAssumption == MaxCommits \in Nat

VARIABLES
  next,          (* next_handle; 0 once the numbers are exhausted          *)
  slots,         (* handles: live numbers to their values                  *)
  returned,      (* result handle of the last call, 0 if there is none     *)
  committed,     (* diverse generations committed to any store             *)
  gone,          (* history: handle numbers that were live and are not     *)
  told           (* history: values whose handles the host was given       *)

vars == <<next, slots, returned, committed, gone, told>>

ValueKinds == {"Package", "Grammar", "Repetition", "Session"}

Handle == 1 .. MaxHandle

(* A slot holds an opaque value or a ResultRecord.  Payloads are left out.  *)
ValueSlot(kind) == [kind |-> kind, status |-> "none", value |-> 0, claimed |-> FALSE]
ResultSlot(status, value) == [kind |-> "Result", status |-> status, value |-> value, claimed |-> FALSE]

Live(id) == id \in DOMAIN slots
IsResult(id) == Live(id) /\ slots[id].kind = "Result"
IsKind(id, kind) == Live(id) /\ slots[id].kind = kind

-----------------------------------------------------------------------------
(* Operations of State, on a table [next, slots].                           *)

(* Mutation: the number after the largest is the first again. *)
SuccessorWrapping(id) == IF id = MaxHandle THEN 1 ELSE id + 1

(* checked_add(1).unwrap_or(0) *)
Successor(id) == IF id = MaxHandle THEN 0 ELSE id + 1

(* insert; the new handle is T.next, 0 if nothing was inserted. *)
Inserted(T, slot) ==
  IF T.next = 0 THEN T
  ELSE [next  |-> Successor(T.next),
        slots |-> [id \in DOMAIN T.slots \cup {T.next} |->
                     IF id = T.next THEN slot ELSE T.slots[id]]]

(* remove *)
Removed(T, ids) == [T EXCEPT !.slots = [id \in DOMAIN T.slots \ ids |-> T.slots[id]]]

Here == [next |-> next, slots |-> slots]

(* add_result and add_error; returns the handle as well. *)
WithResult(T, status, value) ==
  [table |-> Inserted(T, ResultSlot(status, value)), result |-> T.next]

(* add_value_result: the value is withdrawn when its result finds no number. *)
WithValue(T, kind) ==
  IF T.next = 0 THEN [table |-> T, result |-> 0]
  ELSE LET both == WithResult(Inserted(T, ValueSlot(kind)), "success", T.next)
       IN IF both.result = 0 THEN [both EXCEPT !.table = Removed(@, {T.next})]
          ELSE both

(* What dispose(id) removes: a result takes its unclaimed value with it. *)
Disposed(id) ==
  IF ~Live(id) THEN {}
  ELSE IF IsResult(id) /\ ~slots[id].claimed THEN {id, slots[id].value}
  ELSE {id}

-----------------------------------------------------------------------------
(* ABI calls.                                                               *)

(* meco_call returns the result r of a dispatch. *)
Return(r) ==
  /\ next' = r.table.next
  /\ slots' = r.table.slots
  /\ returned' = r.result
  /\ UNCHANGED <<gone, told>>

(* Any call may be refused: the request does not decode, a handle in it is  *)
(* stale or of another kind, the core reports an error.                     *)
Refuse ==
  /\ Return(WithResult(Here, "error", 0))
  /\ UNCHANGED committed

(* package_create, artifact_load, session_create, repetition_create, the    *)
(* imports: a value of the kind is made.                                    *)
CallCreate(kind) ==
  /\ Return(WithValue(Here, kind))
  /\ UNCHANGED committed

(* compile, of a package. *)
CallCompile(package) ==
  /\ IsKind(package, "Package")
  /\ Return(WithValue(Here, "Grammar"))
  /\ UNCHANGED committed

(* generate_weighted, the exports and the others that read one value and    *)
(* answer with a payload only.                                              *)
CallRead(id) ==
  /\ \E kind \in {"Grammar", "Session", "Repetition"} : IsKind(id, kind)
  /\ Return(WithResult(Here, "success", 0))
  /\ UNCHANGED committed

(* Mutation: what goes wrong after the commit is reported as an error. *)
CallDiverseFailingLate(grammar, session, store) ==
  /\ IsKind(grammar, "Grammar") /\ IsKind(session, "Session") /\ IsKind(store, "Repetition")
  /\ committed < MaxCommits
  /\ committed' = committed + 1
  /\ Return(WithResult(Here, "error", 0))

(* generate_diverse: the session and the store change first, the result     *)
(* handle is allocated afterwards.                                          *)
CallDiverse(grammar, session, store) ==
  /\ IsKind(grammar, "Grammar") /\ IsKind(session, "Session") /\ IsKind(store, "Repetition")
  /\ committed < MaxCommits
  /\ committed' = committed + 1
  /\ Return(WithResult(Here, "success", 0))

(* Mutation: a result loses its value when it is claimed. *)
ClaimForgetting(id) ==
  /\ IsResult(id)
  /\ slots' = [slots EXCEPT ![id].claimed = TRUE, ![id].value = 0]
  /\ told' = told \cup ({slots[id].value} \ {0})
  /\ UNCHANGED <<next, returned, committed, gone>>

(* meco_result_value_handle: claiming is idempotent. *)
Claim(id) ==
  /\ IsResult(id)
  /\ slots' = [slots EXCEPT ![id].claimed = TRUE]
  /\ told' = told \cup ({slots[id].value} \ {0})
  /\ UNCHANGED <<next, returned, committed, gone>>

(* meco_handle_dispose *)
Dispose(id) ==
  /\ slots' = Removed(Here, Disposed(id)).slots
  /\ gone' = gone \cup (Disposed(id) \cap DOMAIN slots)
  /\ UNCHANGED <<next, returned, committed, told>>

Init ==
  /\ next = 1
  /\ slots = [id \in {} |-> ValueSlot("Package")]
  /\ returned = 0
  /\ committed = 0
  /\ gone = {}
  /\ told = {}

Next ==
  \/ Refuse
  \/ \E kind \in ValueKinds : CallCreate(kind)
  \/ \E id \in Handle : CallCompile(id) \/ CallRead(id) \/ Claim(id) \/ Dispose(id)
  \/ \E grammar, session, store \in DOMAIN slots : CallDiverse(grammar, session, store)

Spec == Init /\ [][Next]_vars

-----------------------------------------------------------------------------
(* Properties.                                                              *)

SlotType == [kind : ValueKinds \cup {"Result"}, status : {"none", "success", "error"},
             value : Handle \cup {0}, claimed : BOOLEAN]

(* Types; numbers are handed out in order, and the live ones were. *)
TypeOK ==
  /\ next \in Handle \cup {0}
  /\ DOMAIN slots \subseteq Handle
  /\ slots \in [DOMAIN slots -> SlotType]
  /\ next # 0 => \A id \in DOMAIN slots \cup gone : id < next
  /\ returned \in Handle \cup {0}
  /\ committed \in Nat
  /\ gone \subseteq Handle /\ told \subseteq Handle

(* A handle number is never used again, up to exhaustion and beyond: a      *)
(* stale handle finds nothing, never a stranger's value.                    *)
NeverReused == TypeOK /\ gone \cap DOMAIN slots = {}

(* A live value can always be reached: the host was given its handle, or a  *)
(* live result still announces it.  No failed call, exhausted counter or    *)
(* disposed result leaves a value nobody can dispose of.                    *)
NoOrphans ==
  \A id \in DOMAIN slots :
    IsResult(id) \/ id \in told
      \/ \E res \in DOMAIN slots : IsResult(res) /\ ~slots[res].claimed /\ slots[res].value = id

(* A handle keeps its kind and, once claimed, stays claimed. *)
HandlesKeepTheirMeaning ==
  [][\A id \in DOMAIN slots \cap DOMAIN slots' :
       /\ slots'[id].kind = slots[id].kind
       /\ slots'[id].value = slots[id].value
       /\ slots[id].claimed => slots'[id].claimed]_vars
=============================================================================
