-------------------------- MODULE JsWrapper_proofs --------------------------
(***************************************************************************)
(* Theorems about HandleTable and about the host over it, JsWrapper.       *)
(*                                                                         *)
(* For every number of handles and every host, numbers are never reused,   *)
(* no value is out of reach, and handles keep their meaning.  The host     *)
(* that ships with the module leaves nothing behind and loses no output,   *)
(* whatever fails in a call.                                               *)
(***************************************************************************)
EXTENDS JsWrapper, TLAPS

-----------------------------------------------------------------------------
(* The invariant of the table.                                              *)

(* A result says that its value was claimed only when the host was told.   *)
ClaimsTold ==
  \A id \in DOMAIN slots :
    IsResult(id) /\ slots[id].claimed => slots[id].value \in told \cup {0}

(* A result announces a value that was made before it, never a result.     *)
AnnouncesValue(S, id) ==
  S[id].kind = "Result" /\ S[id].value # 0 =>
    /\ S[id].value < id
    /\ S[id].value \in DOMAIN S => S[S[id].value].kind # "Result"

ResultsAnnounceValues == \A id \in DOMAIN slots : AnnouncesValue(slots, id)

IInv == NeverReused /\ NoOrphans /\ ClaimsTold /\ ResultsAnnounceValues

Kept ==
  \A id \in DOMAIN slots \cap DOMAIN slots' :
    /\ slots'[id].kind = slots[id].kind
    /\ slots'[id].value = slots[id].value
    /\ slots[id].claimed => slots'[id].claimed

(* A live result announces the value. *)
Announced(S, id) ==
  \E res \in DOMAIN S : S[res].kind = "Result" /\ ~S[res].claimed /\ S[res].value = id

(* What a call to dispatch does to the table: it may add entries under      *)
(* numbers not used before, each a result or announced by one.              *)
Extension ==
  /\ slots' \in [DOMAIN slots' -> SlotType]
  /\ DOMAIN slots \subseteq DOMAIN slots'
  /\ \A id \in DOMAIN slots : slots'[id] = slots[id]
  /\ \A id \in DOMAIN slots' \ DOMAIN slots :
       /\ id \in Handle /\ next # 0 /\ id >= next /\ (next' # 0 => id < next')
       /\ ~slots'[id].claimed
       /\ slots'[id].kind = "Result" \/ Announced(slots', id)
       /\ AnnouncesValue(slots', id)
  /\ next' \in Handle \cup {0}
  /\ next' # 0 => next # 0 /\ next <= next'
  /\ returned' \in Handle \cup {0}
  /\ UNCHANGED <<gone, told>>

(* A call makes one result and the value it announces, or nothing at all.  *)
MakesResult ==
  /\ returned' = 0 => DOMAIN slots' = DOMAIN slots
  /\ returned' # 0 =>
       /\ returned' \in DOMAIN slots' \ DOMAIN slots
       /\ slots'[returned'].kind = "Result" /\ ~slots'[returned'].claimed
       /\ slots'[returned'].value \notin DOMAIN slots
       /\ slots'[returned'].value < returned'
       /\ DOMAIN slots' = DOMAIN slots \cup {returned'} \cup ({slots'[returned'].value} \ {0})

-----------------------------------------------------------------------------
(* Calls extend the table.                                                  *)

Grown(S, id, slot) == [x \in DOMAIN S \cup {id} |-> IF x = id THEN slot ELSE S[x]]

LEMMA SuccessorIsNext ==
  ASSUME NEW n \in Handle
  PROVE  /\ Successor(n) \in Handle \cup {0}
         /\ Successor(n) # 0 => Successor(n) = n + 1 /\ n < MaxHandle
BY HandleAssumption DEF Successor, Handle

LEMMA ResultSlotType ==
  ASSUME NEW status \in {"success", "error"}, NEW value \in Handle \cup {0}
  PROVE  /\ ResultSlot(status, value) \in SlotType
         /\ ResultSlot(status, value).kind = "Result"
         /\ ~ResultSlot(status, value).claimed
         /\ ResultSlot(status, value).value = value
         /\ ResultSlot(status, value).status = status
BY DEF ResultSlot, SlotType

LEMMA ValueSlotType ==
  ASSUME NEW kind \in ValueKinds
  PROVE  /\ ValueSlot(kind) \in SlotType /\ ~ValueSlot(kind).claimed
         /\ ValueSlot(kind).kind # "Result"
BY DEF ValueSlot, SlotType, ValueKinds

LEMMA InsertedIsGrown ==
  ASSUME NEW T, NEW slot, T.next # 0
  PROVE  /\ Inserted(T, slot).next = Successor(T.next)
         /\ Inserted(T, slot).slots = Grown(T.slots, T.next, slot)
BY DEF Inserted, Grown

(* add_result, add_error *)
LEMMA ResultExtends ==
  ASSUME TypeOK, NEW status \in {"success", "error"},
         Return(WithResult(Here, status, 0))
  PROVE  /\ Extension /\ MakesResult
         /\ returned' # 0 => slots'[returned'].status = status /\ slots'[returned'].value = 0
<1> DEFINE slot == ResultSlot(status, 0)
<1>1. slot \in SlotType /\ slot.kind = "Result" /\ ~slot.claimed /\ slot.value = 0 /\ slot.status = status
  BY ResultSlotType
<1>2. Here.next = next /\ Here.slots = slots
  BY DEF Here
<1>3. /\ next' = Inserted(Here, slot).next /\ slots' = Inserted(Here, slot).slots
      /\ returned' = next /\ UNCHANGED <<gone, told>>
  BY <1>2 DEF Return, WithResult
<1>4. CASE next = 0
  <2>1. next' = 0 /\ slots' = slots
    BY <1>2, <1>3, <1>4 DEF Inserted
  <2>2. QED
    BY <1>3, <1>4, <2>1 DEF Extension, MakesResult, TypeOK
<1>5. CASE next # 0
  <2>1. next' = Successor(next) /\ slots' = Grown(slots, next, slot)
    BY <1>2, <1>3, <1>5, InsertedIsGrown
  <2>2. next \in Handle /\ next \in Nat
    BY <1>5 DEF TypeOK, Handle
  <2>3. /\ DOMAIN slots' = DOMAIN slots \cup {next} /\ slots'[next] = slot
        /\ next \notin DOMAIN slots /\ \A id \in DOMAIN slots : slots'[id] = slots[id]
    BY <1>5, <2>1, <2>2 DEF Grown, TypeOK
  <2>4. slots' \in [DOMAIN slots' -> SlotType]
    BY <1>1, <2>1, <2>3 DEF Grown, TypeOK
  <2>5. next' \in Handle \cup {0} /\ (next' # 0 => next' = next + 1)
    BY <2>1, <2>2, SuccessorIsNext
  <2>6. Extension
    BY <1>1, <1>3, <1>5, <2>2, <2>3, <2>4, <2>5 DEF Extension, AnnouncesValue
  <2>7. returned' = next /\ next # 0 /\ next > 0 /\ 0 \notin DOMAIN slots
    BY <1>3, <1>5, <2>2 DEF TypeOK, Handle
  <2>8. MakesResult
    BY <1>1, <2>3, <2>7 DEF MakesResult
  <2>9. QED
    BY <1>1, <2>3, <2>6, <2>7, <2>8
<1>6. QED
  BY <1>4, <1>5

(* add_value_result: a value and its result, or neither. *)
LEMMA ValueExtends ==
  ASSUME TypeOK, NEW kind \in ValueKinds, Return(WithValue(Here, kind))
  PROVE  /\ Extension /\ MakesResult
         /\ returned' # 0 => slots'[returned'].status = "success"
<1>1. Here.next = next /\ Here.slots = slots
  BY DEF Here
<1>2. CASE next = 0
  <2>1. WithValue(Here, kind) = [table |-> Here, result |-> 0]
    BY <1>1, <1>2 DEF WithValue
  <2>2. next' = 0 /\ slots' = slots /\ returned' = 0 /\ UNCHANGED <<gone, told>>
    BY <1>1, <1>2, <2>1 DEF Return
  <2>3. QED
    BY <1>2, <2>2 DEF Extension, MakesResult, TypeOK
<1>3. CASE next # 0
  <2> DEFINE value == ValueSlot(kind)
             one == Inserted(Here, value)
             slot == ResultSlot("success", next)
             both == [table |-> Inserted(one, slot), result |-> one.next]
  <2>1. next \in Handle /\ next \in Nat /\ next \notin DOMAIN slots
    BY <1>3 DEF TypeOK, Handle
  <2>2. value \in SlotType /\ ~value.claimed /\ value.kind # "Result"
    BY ValueSlotType
  <2>3. slot \in SlotType /\ slot.kind = "Result" /\ ~slot.claimed /\ slot.value = next
        /\ slot.status = "success"
    BY <2>1, ResultSlotType
  <2>4. one.next = Successor(next) /\ one.slots = Grown(slots, next, value)
    BY <1>1, <1>3, InsertedIsGrown
  <2>5. /\ DOMAIN one.slots = DOMAIN slots \cup {next} /\ one.slots[next] = value
        /\ \A id \in DOMAIN slots : one.slots[id] = slots[id]
    BY <2>1, <2>4 DEF Grown
  <2>6. WithValue(Here, kind) = IF one.next = 0 THEN [both EXCEPT !.table = Removed(@, {next})]
                               ELSE both
    BY <1>1, <1>3 DEF WithValue, WithResult
  <2>7. CASE one.next = 0
    <3>1. both.table = one
      BY <2>7 DEF Inserted
    <3>2. /\ WithValue(Here, kind).table = Removed(one, {next})
          /\ WithValue(Here, kind).result = 0
      BY <2>6, <2>7, <3>1
    <3>3. one = [next |-> Successor(next), slots |-> Grown(slots, next, value)]
      BY <1>1, <1>3 DEF Inserted, Grown
    <3>4. /\ Removed(one, {next}).next = 0
          /\ Removed(one, {next}).slots = [id \in DOMAIN one.slots \ {next} |-> one.slots[id]]
      BY <2>7, <3>3 DEF Removed
    <3>5. Removed(one, {next}).slots = slots
      <4>1. DOMAIN one.slots \ {next} = DOMAIN slots
        BY <2>1, <2>5
      <4>2. Removed(one, {next}).slots = [id \in DOMAIN slots |-> slots[id]]
        BY <2>5, <3>4, <4>1
      <4>3. slots = [id \in DOMAIN slots |-> slots[id]]
        BY DEF TypeOK
      <4>4. QED
        BY <4>2, <4>3
    <3>6. next' = 0 /\ slots' = slots /\ returned' = 0 /\ UNCHANGED <<gone, told>>
      BY <3>2, <3>4, <3>5 DEF Return
    <3>7. QED
      BY <3>6 DEF Extension, MakesResult, TypeOK
  <2>8. CASE one.next # 0
    <3>1. one.next = next + 1 /\ next + 1 \in Handle
      BY <2>1, <2>4, <2>8, SuccessorIsNext
    <3>2. /\ next' = Inserted(one, slot).next /\ slots' = Inserted(one, slot).slots
          /\ returned' = one.next /\ UNCHANGED <<gone, told>>
      BY <2>6, <2>8 DEF Return
    <3>3. next' = Successor(next + 1) /\ slots' = Grown(one.slots, next + 1, slot)
      BY <2>8, <3>1, <3>2, InsertedIsGrown
    <3>4. next' \in Handle \cup {0} /\ (next' # 0 => next' = next + 2)
      BY <2>1, <3>1, <3>3, SuccessorIsNext
    <3>5. next + 1 \notin DOMAIN slots
      BY <1>3, <2>1 DEF TypeOK, Handle
    <3>6. /\ DOMAIN slots' = DOMAIN slots \cup {next, next + 1}
          /\ slots'[next] = value /\ slots'[next + 1] = slot
          /\ \A id \in DOMAIN slots : slots'[id] = slots[id]
      BY <2>1, <2>5, <3>3, <3>5 DEF Grown
    <3>7. slots' \in [DOMAIN slots' -> SlotType]
      <4>1. \A id \in DOMAIN slots' : slots'[id] \in SlotType
        BY <2>2, <2>3, <3>6 DEF TypeOK
      <4>2. slots' = [id \in DOMAIN slots' |-> slots'[id]]
        BY <3>3 DEF Grown
      <4>3. QED
        BY <4>1, <4>2
    <3>8. Announced(slots', next)
      BY <2>3, <3>6 DEF Announced
    <3>9. AnnouncesValue(slots', next) /\ AnnouncesValue(slots', next + 1)
      BY <2>1, <2>2, <2>3, <3>6 DEF AnnouncesValue
    <3>10. Extension
      BY <1>3, <2>1, <2>2, <2>3, <3>1, <3>2, <3>4, <3>6, <3>7, <3>8, <3>9 DEF Extension
    <3>11. returned' = next + 1 /\ next + 1 # 0 /\ next < next + 1
      BY <2>1, <3>1, <3>2
    <3>12. MakesResult
      BY <1>3, <2>1, <2>3, <3>5, <3>6, <3>11 DEF MakesResult
    <3>13. QED
      BY <2>3, <3>6, <3>10, <3>11, <3>12
  <2>9. QED
    BY <2>7, <2>8
<1>4. QED
  BY <1>2, <1>3

-----------------------------------------------------------------------------
(* Every step preserves the invariant and the meaning of handles.           *)

LEMMA ExtensionKeeps ==
  ASSUME IInv, Extension, committed' \in Nat
  PROVE  IInv' /\ Kept
<1>1. TypeOK'
  <2>1. DOMAIN slots' \subseteq Handle
    BY DEF IInv, NeverReused, TypeOK, Extension
  <2>2. ASSUME next' # 0, NEW id \in DOMAIN slots' \cup gone
        PROVE  id < next'
    <3>1. next # 0 /\ next <= next' /\ next \in Nat /\ next' \in Nat
      BY <2>2 DEF Extension, IInv, NeverReused, TypeOK, Handle
    <3>2. CASE id \in DOMAIN slots \cup gone
      <4>1. id < next /\ id \in Nat
        BY <3>1, <3>2 DEF IInv, NeverReused, TypeOK, Handle
      <4>2. QED
        BY <3>1, <4>1
    <3>3. CASE id \in DOMAIN slots' \ DOMAIN slots
      BY <2>2, <3>3 DEF Extension
    <3>4. QED
      BY <2>2, <3>2, <3>3
  <2>3. QED
    BY <2>1, <2>2 DEF Extension, IInv, NeverReused, TypeOK
<1>2. gone' \cap DOMAIN slots' = {}
  <2> SUFFICES ASSUME NEW id \in gone, id \in DOMAIN slots' PROVE FALSE
    BY DEF Extension
  <2>1. id \notin DOMAIN slots
    BY DEF IInv, NeverReused
  <2>2. next # 0 /\ id >= next
    BY <2>1 DEF Extension
  <2>3. id < next /\ id \in Nat /\ next \in Nat
    BY <2>2 DEF IInv, NeverReused, TypeOK, Handle
  <2>4. QED
    BY <2>2, <2>3
<1>3. NoOrphans'
  <2> SUFFICES ASSUME NEW id \in DOMAIN slots'
               PROVE  slots'[id].kind = "Result" \/ id \in told' \/ Announced(slots', id)
    BY DEF NoOrphans, IsResult, Live, Announced
  <2>1. CASE id \in DOMAIN slots
    <3>1. slots[id].kind = "Result" \/ id \in told \/ Announced(slots, id)
      BY <2>1 DEF IInv, NoOrphans, IsResult, Live, Announced
    <3>2. Announced(slots, id) => Announced(slots', id)
      BY DEF Announced, Extension
    <3>3. QED
      BY <2>1, <3>1, <3>2 DEF Extension
  <2>2. CASE id \notin DOMAIN slots
    BY <2>2 DEF Extension
  <2>3. QED
    BY <2>1, <2>2
<1>4. ClaimsTold'
  BY DEF ClaimsTold, IInv, Extension, IsResult, Live
<1>5. ResultsAnnounceValues'
  <2> SUFFICES ASSUME NEW id \in DOMAIN slots PROVE AnnouncesValue(slots', id)
    BY DEF ResultsAnnounceValues, Extension
  <2> DEFINE v == slots[id].value
  <2>1. slots'[id] = slots[id] /\ AnnouncesValue(slots, id)
    BY DEF Extension, IInv, ResultsAnnounceValues
  <2>2. ASSUME slots[id].kind = "Result", v # 0, v \in DOMAIN slots', v \notin DOMAIN slots
        PROVE  FALSE
    <3>1. v < id /\ v >= next /\ next # 0
      BY <2>1, <2>2 DEF AnnouncesValue, Extension
    <3>2. v \in Nat /\ id \in Nat /\ next \in Nat /\ id < next
      BY <2>2, <3>1 DEF IInv, NeverReused, TypeOK, Extension, Handle
    <3>3. QED
      BY <3>1, <3>2
  <2>3. QED
    BY <2>1, <2>2 DEF AnnouncesValue, Extension
<1>6. Kept
  BY DEF Kept, Extension
<1>7. QED
  BY <1>1, <1>2, <1>3, <1>4, <1>5, <1>6 DEF IInv, NeverReused

LEMMA ClaimKeeps ==
  ASSUME IInv, NEW id \in Handle, Claim(id)
  PROVE  IInv' /\ Kept
<1>1. /\ id \in DOMAIN slots /\ slots[id].kind = "Result"
      /\ slots' = [slots EXCEPT ![id].claimed = TRUE]
      /\ told' = told \cup ({slots[id].value} \ {0})
      /\ UNCHANGED <<next, returned, committed, gone>>
  BY DEF Claim, IsResult, Live
<1>2. /\ slots \in [DOMAIN slots -> SlotType] /\ slots[id] \in SlotType
  BY <1>1 DEF IInv, NeverReused, TypeOK
<1>3. /\ DOMAIN slots' = DOMAIN slots
      /\ \A x \in DOMAIN slots : x # id => slots'[x] = slots[x]
      /\ slots'[id].kind = "Result" /\ slots'[id].claimed /\ slots'[id].value = slots[id].value
      /\ slots'[id] \in SlotType
  BY <1>1, <1>2 DEF SlotType
<1>4. slots' \in [DOMAIN slots' -> SlotType]
  BY <1>1, <1>2, <1>3
<1>5. slots[id].value \in Handle \cup {0}
  BY <1>2 DEF SlotType
<1>6. TypeOK' /\ gone' \cap DOMAIN slots' = {}
  BY <1>1, <1>3, <1>4, <1>5 DEF IInv, NeverReused, TypeOK
<1>7. NoOrphans'
  <2> SUFFICES ASSUME NEW x \in DOMAIN slots, slots[x].kind # "Result", x \notin told'
               PROVE  Announced(slots', x)
    BY <1>1, <1>3 DEF NoOrphans, IsResult, Live, Announced
  <2>1. PICK res \in DOMAIN slots :
          slots[res].kind = "Result" /\ ~slots[res].claimed /\ slots[res].value = x
    BY <1>1 DEF IInv, NoOrphans, IsResult, Live
  <2>2. x # 0
    BY DEF IInv, NeverReused, TypeOK, Handle
  <2>3. res # id
    BY <1>1, <2>1, <2>2
  <2>4. QED
    BY <1>3, <2>1, <2>3 DEF Announced
<1>8. ClaimsTold'
  BY <1>1, <1>3 DEF ClaimsTold, IInv, IsResult, Live
<1>9. ResultsAnnounceValues'
  <2>1. \A x \in DOMAIN slots : slots'[x].kind = slots[x].kind /\ slots'[x].value = slots[x].value
    BY <1>1, <1>3
  <2>2. QED
    BY <1>3, <2>1 DEF IInv, ResultsAnnounceValues, AnnouncesValue
<1>10. Kept
  BY <1>1, <1>3 DEF Kept
<1>11. QED
  BY <1>6, <1>7, <1>8, <1>9, <1>10 DEF IInv, NeverReused

(* A result that goes takes its value with it unless the host was told.     *)
LEMMA DisposeKeeps ==
  ASSUME IInv, NEW id \in Handle, Dispose(id)
  PROVE  IInv' /\ Kept
<1> DEFINE left == DOMAIN slots \ Disposed(id)
<1>1. /\ slots' = [x \in left |-> slots[x]]
      /\ gone' = gone \cup (Disposed(id) \cap DOMAIN slots)
      /\ UNCHANGED <<next, returned, committed, told>>
  BY DEF Dispose, Removed, Here
<1>2. DOMAIN slots' = left /\ \A x \in left : slots'[x] = slots[x]
  BY <1>1
<1>3. slots' \in [DOMAIN slots' -> SlotType]
  BY <1>1, <1>2 DEF IInv, NeverReused, TypeOK
<1>4. TypeOK' /\ gone' \cap DOMAIN slots' = {}
  BY <1>1, <1>2, <1>3 DEF IInv, NeverReused, TypeOK
<1>5. NoOrphans'
  <2> SUFFICES ASSUME NEW x \in left, slots[x].kind # "Result", x \notin told
               PROVE  Announced(slots', x)
    BY <1>1, <1>2 DEF NoOrphans, IsResult, Live, Announced
  <2>1. PICK res \in DOMAIN slots :
          slots[res].kind = "Result" /\ ~slots[res].claimed /\ slots[res].value = x
    BY DEF IInv, NoOrphans, IsResult, Live
  <2>2. res \in left
    <3> SUFFICES ASSUME res \in Disposed(id) PROVE FALSE
      OBVIOUS
    <3>1. res # id
      <4> SUFFICES ASSUME res = id PROVE x \in Disposed(id)
        OBVIOUS
      <4>1. QED
        BY <2>1 DEF Disposed, IsResult, Live
    <3>2. IsResult(id) /\ ~slots[id].claimed /\ res = slots[id].value
      BY <3>1 DEF Disposed
    <3>3. res # 0 /\ id \in DOMAIN slots
      BY <3>2 DEF IInv, NeverReused, TypeOK, Handle, IsResult, Live
    <3>4. QED
      BY <2>1, <3>2, <3>3 DEF IInv, ResultsAnnounceValues, AnnouncesValue, IsResult
  <2>3. QED
    BY <1>2, <2>1, <2>2 DEF Announced
<1>6. ClaimsTold'
  BY <1>1, <1>2 DEF ClaimsTold, IInv, IsResult, Live
<1>7. ResultsAnnounceValues'
  BY <1>1, <1>2 DEF IInv, ResultsAnnounceValues, AnnouncesValue
<1>8. Kept
  BY <1>2 DEF Kept
<1>9. QED
  BY <1>4, <1>5, <1>6, <1>7, <1>8 DEF IInv, NeverReused

LEMMA InitInvariant == Init => IInv
BY HandleAssumption
DEF Init, IInv, NeverReused, TypeOK, NoOrphans, ClaimsTold, ResultsAnnounceValues, Handle

LEMMA StepKeeps == IInv /\ Next => IInv' /\ Kept
<1> SUFFICES ASSUME IInv, Next PROVE IInv' /\ Kept
  OBVIOUS
<1>1. TypeOK /\ committed \in Nat /\ committed + 1 \in Nat
  BY DEF IInv, NeverReused, TypeOK
<1>2. CASE Refuse
  BY <1>1, <1>2, ResultExtends, ExtensionKeeps DEF Refuse
<1>3. ASSUME NEW kind \in ValueKinds, CallCreate(kind) PROVE IInv' /\ Kept
  BY <1>1, <1>3, ValueExtends, ExtensionKeeps DEF CallCreate
<1>4. ASSUME NEW id \in Handle, CallCompile(id) PROVE IInv' /\ Kept
  <2>1. "Grammar" \in ValueKinds
    BY DEF ValueKinds
  <2>2. QED
    BY <1>1, <1>4, <2>1, ValueExtends, ExtensionKeeps DEF CallCompile
<1>5. ASSUME NEW id \in Handle, CallRead(id) PROVE IInv' /\ Kept
  BY <1>1, <1>5, ResultExtends, ExtensionKeeps DEF CallRead
<1>6. ASSUME NEW grammar, NEW session, NEW store, CallDiverse(grammar, session, store)
      PROVE  IInv' /\ Kept
  BY <1>1, <1>6, ResultExtends, ExtensionKeeps DEF CallDiverse
<1>7. QED
  BY <1>2, <1>3, <1>4, <1>5, <1>6, ClaimKeeps, DisposeKeeps DEF Next

LEMMA StutterKeeps == IInv /\ UNCHANGED vars => IInv'
BY DEF vars, IInv, NeverReused, TypeOK, NoOrphans, ClaimsTold, ResultsAnnounceValues,
       IsResult, Live, AnnouncesValue

-----------------------------------------------------------------------------
(* The theorems about the table.                                            *)

(* meco_handle_dispose and insert never meet on one number: a number that   *)
(* was live is not live again, even when the numbers run out.               *)
THEOREM NumbersNeverReused == Spec => []NeverReused
<1>1. IInv => NeverReused
  BY DEF IInv
<1>2. QED
  BY InitInvariant, StepKeeps, StutterKeeps, <1>1, PTL DEF Spec

(* Whatever fails and whatever a host disposes of, every value in the table *)
(* can still be disposed of: its handle was told, or a result tells it.     *)
THEOREM NothingOutOfReach == Spec => []NoOrphans
<1>1. IInv => NoOrphans
  BY DEF IInv
<1>2. QED
  BY InitInvariant, StepKeeps, StutterKeeps, <1>1, PTL DEF Spec

(* No ABI call changes what a live handle stands for. *)
THEOREM MeaningKept == Spec => HandlesKeepTheirMeaning
<1>1. IInv /\ [Next]_vars => IInv' /\ [Kept]_vars
  BY StepKeeps, StutterKeeps
<1>2. QED
  BY InitInvariant, <1>1, PTL DEF Spec, HandlesKeepTheirMeaning, Kept

-----------------------------------------------------------------------------
(* The invariant of the host: what is live in the table at each moment of a *)
(* call, and who will dispose of it.                                        *)

(* Besides what objects own, only a result and its value are live. *)
OnlyPending(result, value) ==
  /\ IsResult(result) /\ result \notin owned
  /\ value \notin owned /\ value < result
  /\ DOMAIN slots = owned \cup {result} \cup ({value} \ {0})

HeldByCall ==
  /\ pc \in {"idle", "call"} \/ (pc = "result" /\ returned = 0) => DOMAIN slots = owned
  /\ pc = "result" /\ returned # 0 =>
       /\ OnlyPending(returned, slots[returned].value)
       /\ ~slots[returned].claimed
       /\ slots[returned].status \in {"success", "error"}
       /\ slots[returned].status = "error" => slots[returned].value = 0
  /\ pc \in {"copy", "finally"} => OnlyPending(returned, decoded.value) /\ slots[returned].claimed
  /\ pc = "failed" => OnlyPending(returned, 0) /\ slots[returned].claimed
  /\ pc = "decode" => decoded.value \notin owned /\ DOMAIN slots = owned \cup ({decoded.value} \ {0})

Registers ==
  /\ pc = "call" /\ request.op = "create" => request.kind \in ValueKinds
  /\ pc \in {"idle", "call", "result", "failed"} => decoded = Nothing
  /\ pc \in {"copy", "finally", "decode"} =>
       decoded.status \in {"success", "error"} /\ (decoded.status = "error" => decoded.value = 0)
  /\ buffers = IF pc = "call" THEN {"input"} ELSE {}
  /\ \A id \in owned : ~IsResult(id)
  /\ decoded.value # 0 => ~IsResult(decoded.value)

(* What a call that has its result owes its caller. *)
Due(status) == IF request.op = "diverse" /\ status = "success" THEN 1 ELSE 0

Owed ==
  starved \/
    /\ pc \in {"idle", "call"} => committed = delivered
    /\ pc = "result" /\ returned # 0 => committed = delivered + Due(slots[returned].status)
    /\ pc \in {"copy", "finally", "decode"} => committed = delivered + Due(decoded.status)
    /\ pc # "failed"

HostInv == IInv /\ WrapperTypeOK /\ HeldByCall /\ Registers /\ Owed

(* What meco_call answers, whichever request it was given. *)
LEMMA AnswerMakes ==
  ASSUME IInv, Answer, request.op = "create" => request.kind \in ValueKinds
  PROVE  /\ Next /\ Extension /\ MakesResult
         /\ returned' # 0 =>
              /\ slots'[returned'].status \in {"success", "error"}
              /\ slots'[returned'].status = "error" => slots'[returned'].value = 0
              /\ committed' = committed + Due(slots'[returned'].status)
<1>1. TypeOK /\ committed \in Nat /\ \A id : Live(id) => id \in Handle
  BY DEF IInv, NeverReused, TypeOK, Live
<1>2. CASE Refuse
  <2>1. /\ Extension /\ MakesResult /\ committed' = committed
        /\ returned' # 0 => slots'[returned'].status = "error" /\ slots'[returned'].value = 0
    BY <1>1, <1>2, ResultExtends DEF Refuse
  <2>2. QED
    BY <1>1, <1>2, <2>1 DEF Next, Due
<1>3. CASE request.op = "create" /\ CallCreate(request.kind)
  <2>1. /\ Extension /\ MakesResult /\ committed' = committed
        /\ returned' # 0 => slots'[returned'].status = "success"
    BY <1>1, <1>3, ValueExtends DEF CallCreate
  <2>2. QED
    BY <1>1, <1>3, <2>1 DEF Next, Due
<1>4. CASE request.op = "compile" /\ CallCompile(request.on)
  <2>1. "Grammar" \in ValueKinds /\ request.on \in Handle
    BY <1>1, <1>4 DEF ValueKinds, CallCompile, IsKind
  <2>2. /\ Extension /\ MakesResult /\ committed' = committed
        /\ returned' # 0 => slots'[returned'].status = "success"
    BY <1>1, <1>4, <2>1, ValueExtends DEF CallCompile
  <2>3. QED
    BY <1>1, <1>4, <2>1, <2>2 DEF Next, Due
<1>5. CASE request.op = "read" /\ CallRead(request.on)
  <2>1. request.on \in Handle
    BY <1>1, <1>5 DEF CallRead, IsKind
  <2>2. /\ Extension /\ MakesResult /\ committed' = committed
        /\ returned' # 0 => slots'[returned'].status = "success" /\ slots'[returned'].value = 0
    BY <1>1, <1>5, ResultExtends DEF CallRead
  <2>3. QED
    BY <1>1, <1>5, <2>1, <2>2 DEF Next, Due
<1>6. CASE request.op = "diverse" /\ CallDiverse(request.grammar, request.session, request.store)
  <2>1. {request.grammar, request.session, request.store} \subseteq DOMAIN slots
    BY <1>6 DEF CallDiverse, IsKind, Live
  <2>2. /\ Extension /\ MakesResult /\ committed' = committed + 1
        /\ returned' # 0 => slots'[returned'].status = "success" /\ slots'[returned'].value = 0
    BY <1>1, <1>6, ResultExtends DEF CallDiverse
  <2>3. Next
    BY <1>6, <2>1 DEF Next
  <2>4. QED
    BY <1>1, <1>6, <2>2, <2>3 DEF Due
<1>7. QED
  BY <1>2, <1>3, <1>4, <1>5, <1>6 DEF Answer

(* meco_call leaves what it made to the running call. *)
LEMMA CallKeeps ==
  ASSUME HostInv, Call
  PROVE  HostInv' /\ Next
<1>1. /\ pc = "call" /\ pc' = "result" /\ Answer
      /\ UNCHANGED <<request, decoded, owned, delivered, starved>>
      /\ buffers' = buffers \ {"input"}
  BY DEF Call
<1>2. /\ Next /\ Extension /\ MakesResult
      /\ returned' # 0 =>
              /\ slots'[returned'].status \in {"success", "error"}
              /\ slots'[returned'].status = "error" => slots'[returned'].value = 0
              /\ committed' = committed + Due(slots'[returned'].status)
  BY <1>1, AnswerMakes DEF HostInv, Registers
<1>3. IInv'
  BY <1>2, StepKeeps DEF HostInv
<1>4. DOMAIN slots = owned /\ decoded = Nothing /\ buffers = {"input"}
      /\ (starved \/ committed = delivered)
  BY <1>1 DEF HostInv, HeldByCall, Registers, Owed
<1>5. WrapperTypeOK'
  BY <1>1, <1>3, <1>4 DEF HostInv, WrapperTypeOK, IInv, NeverReused
<1>6. HeldByCall'
  BY <1>1, <1>2, <1>4 DEF HeldByCall, MakesResult, OnlyPending, IsResult, Live
<1>7. Registers'
  <2>1. \A id \in owned : slots'[id] = slots[id]
    BY <1>2, <1>4 DEF Extension
  <2>2. \A id \in owned : ~IsResult(id)'
    BY <1>4, <2>1 DEF HostInv, Registers, IsResult, Live
  <2>3. QED
    BY <1>1, <1>4, <2>2 DEF Registers, Nothing
<1>8. Owed'
  BY <1>1, <1>2, <1>4 DEF Owed, Due
<1>9. QED
  BY <1>2, <1>3, <1>5, <1>6, <1>7, <1>8 DEF HostInv
(* Steps that leave the table alone. *)
LEMMA StartKeeps ==
  ASSUME HostInv, NEW req \in Requests, Start(req)
  PROVE  HostInv' /\ UNCHANGED vars
<1>1. /\ pc = "idle" /\ pc' = "call" /\ request' = req /\ buffers' = buffers \cup {"input"}
      /\ UNCHANGED <<vars, decoded, owned, delivered, starved>>
  BY DEF Start
<1>2. req.op \in {"create", "compile", "read", "diverse"}
      /\ (req.op = "create" => req.kind \in ValueKinds)
  BY DEF Requests
<1>3. UNCHANGED <<next, slots, returned, committed, gone, told>>
  BY <1>1 DEF vars
<1>4. IInv'
  BY <1>1, StutterKeeps DEF HostInv
<1>5. DOMAIN slots = owned /\ decoded = Nothing /\ buffers = {}
  BY <1>1 DEF HostInv, HeldByCall, Registers
<1>6. WrapperTypeOK'
  BY <1>1, <1>2, <1>4, <1>5 DEF HostInv, WrapperTypeOK, IInv, NeverReused
<1>7. HeldByCall' /\ Registers' /\ Owed'
  BY <1>1, <1>2, <1>3, <1>5 DEF HostInv, HeldByCall, Registers, Owed, IsResult, Live
<1>8. QED
  BY <1>1, <1>4, <1>6, <1>7 DEF HostInv

LEMMA AbandonKeeps ==
  ASSUME HostInv, StartFails \/ NoResult
  PROVE  HostInv' /\ UNCHANGED vars
<1>1. /\ pc' = "idle" /\ request' = NoRequest /\ starved' = TRUE
      /\ UNCHANGED <<vars, buffers, decoded, owned, delivered>>
      /\ pc = "idle" \/ (pc = "result" /\ returned = 0)
  BY DEF StartFails, NoResult, GiveUp
<1>2. UNCHANGED <<next, slots, returned, committed, gone, told>>
  BY <1>1 DEF vars
<1>3. IInv'
  BY <1>1, StutterKeeps DEF HostInv
<1>4. DOMAIN slots = owned /\ decoded = Nothing /\ buffers = {}
  BY <1>1 DEF HostInv, HeldByCall, Registers
<1>5. WrapperTypeOK'
  BY <1>1, <1>3, <1>4 DEF HostInv, WrapperTypeOK, IInv, NeverReused, NoRequest
<1>6. HeldByCall' /\ Registers' /\ Owed'
  BY <1>1, <1>2, <1>4 DEF HostInv, HeldByCall, Registers, Owed, IsResult, Live, Nothing
<1>7. QED
  BY <1>1, <1>3, <1>5, <1>6 DEF HostInv

LEMMA CopyKeeps ==
  ASSUME HostInv, Copy
  PROVE  HostInv' /\ UNCHANGED vars
<1>1. /\ pc = "copy" /\ pc' = "finally"
      /\ UNCHANGED <<vars, request, buffers, decoded, owned, delivered, starved>>
  BY DEF Copy
<1>2. UNCHANGED <<next, slots, returned, committed, gone, told>>
  BY <1>1 DEF vars
<1>3. IInv'
  BY <1>1, StutterKeeps DEF HostInv
<1>4. WrapperTypeOK'
  BY <1>1, <1>3 DEF HostInv, WrapperTypeOK, IInv, NeverReused
<1>5. HeldByCall' /\ Registers' /\ Owed'
  BY <1>1, <1>2 DEF HostInv, HeldByCall, OnlyPending, Registers, Owed, Due, IsResult, Live
<1>6. QED
  BY <1>1, <1>3, <1>4, <1>5 DEF HostInv

(* An error has no value to own; a success becomes the caller's. *)
LEMMA AnsweredKeeps ==
  ASSUME HostInv, ReportError \/ Deliver
  PROVE  HostInv' /\ UNCHANGED vars
<1>1. /\ pc = "decode" /\ pc' = "idle" /\ request' = NoRequest /\ decoded' = Nothing
      /\ UNCHANGED <<vars, buffers, starved>>
  BY DEF ReportError, Deliver
<1>2. UNCHANGED <<next, slots, returned, committed, gone, told>>
  BY <1>1 DEF vars
<1>3. IInv'
  BY <1>1, StutterKeeps DEF HostInv
<1>4. owned' = owned \cup ({decoded.value} \ {0})
  BY <1>1 DEF ReportError, Deliver, HostInv, Registers
<1>5. /\ DOMAIN slots = owned' /\ buffers = {}
      /\ \A id \in owned' : ~IsResult(id)
  BY <1>1, <1>4 DEF HostInv, HeldByCall, Registers
<1>6. delivered \in Nat /\ delivered' = delivered + Due(decoded.status)
  BY <1>1 DEF ReportError, Deliver, Due, HostInv, WrapperTypeOK
<1>7. owned' \subseteq Handle
  BY <1>5 DEF HostInv, IInv, NeverReused, TypeOK
<1>8. WrapperTypeOK'
  BY <1>1, <1>3, <1>5, <1>6, <1>7, HandleAssumption
  DEF HostInv, WrapperTypeOK, IInv, NeverReused, NoRequest, Nothing, Due
<1>9. HeldByCall' /\ Registers'
  BY <1>1, <1>2, <1>5 DEF HeldByCall, Registers, IsResult, Live, Nothing
<1>10. Owed'
  BY <1>1, <1>2, <1>6 DEF HostInv, Owed
<1>11. QED
  BY <1>1, <1>3, <1>8, <1>9, <1>10 DEF HostInv

(* The result keeps its value when it is claimed; the call holds both. *)
LEMMA TakeValueKeeps ==
  ASSUME HostInv, TakeValue
  PROVE  HostInv' /\ Next
<1>1. /\ pc = "result" /\ pc' = "copy" /\ returned # 0 /\ Claim(returned)
      /\ decoded' = [status |-> slots[returned].status, value |-> slots[returned].value]
      /\ UNCHANGED <<request, buffers, owned, delivered, starved>>
  BY DEF TakeValue
<1>2. returned \in Handle
  BY <1>1 DEF HostInv, IInv, NeverReused, TypeOK
<1>3. Next /\ IInv'
  BY <1>1, <1>2, ClaimKeeps DEF HostInv, Next
<1>4. /\ OnlyPending(returned, slots[returned].value) /\ buffers = {}
      /\ slots[returned].status \in {"success", "error"}
      /\ slots[returned].status = "error" => slots[returned].value = 0
      /\ starved \/ committed = delivered + Due(slots[returned].status)
  BY <1>1 DEF HostInv, HeldByCall, Registers, Owed
<1>5. /\ slots' = [slots EXCEPT ![returned].claimed = TRUE]
      /\ UNCHANGED <<next, returned, committed, gone>>
  BY <1>1 DEF Claim
<1>6. /\ returned \in DOMAIN slots /\ slots[returned] \in SlotType
  BY <1>4 DEF OnlyPending, IsResult, Live, HostInv, IInv, NeverReused, TypeOK
<1>7. /\ DOMAIN slots' = DOMAIN slots
      /\ \A id \in DOMAIN slots : slots'[id].kind = slots[id].kind
      /\ slots'[returned].claimed /\ slots'[returned].kind = "Result"
  <2>1. slots[returned].kind = "Result"
    BY <1>4 DEF OnlyPending, IsResult
  <2>2. QED
    BY <1>5, <1>6, <2>1 DEF SlotType
<1> PICK v : v = slots[returned].value
  OBVIOUS
<1>8. decoded'.status = slots[returned].status /\ decoded'.value = v
  BY <1>1
<1>9. v \in 0 .. MaxHandle
  BY <1>6, HandleAssumption DEF SlotType, Handle
<1>10. v # 0 => v \in DOMAIN slots /\ slots[v].kind # "Result"
  BY <1>4, <1>6 DEF OnlyPending, IsResult, HostInv, IInv, ResultsAnnounceValues, AnnouncesValue
<1>11. WrapperTypeOK'
  <2>1. decoded' \in [status : {"none", "success", "error"}, value : 0 .. MaxHandle]
    BY <1>1, <1>4, <1>9
  <2>2. QED
    BY <1>1, <1>3, <2>1 DEF HostInv, WrapperTypeOK, IInv, NeverReused
<1>12. HeldByCall'
  <2>1. OnlyPending(returned, v)
    BY <1>4
  <2>2. (OnlyPending(returned, decoded.value) /\ slots[returned].claimed)'
    BY <1>1, <1>5, <1>7, <1>8, <2>1 DEF OnlyPending, IsResult, Live
  <2>3. QED
    BY <1>1, <2>2 DEF HeldByCall
<1>13. Registers'
  <2>1. \A id \in owned : ~IsResult(id)'
    BY <1>7 DEF HostInv, Registers, IsResult, Live
  <2>2. decoded'.value # 0 => ~IsResult(decoded.value)'
    BY <1>7, <1>8, <1>10 DEF IsResult, Live
  <2>3. QED
    BY <1>1, <1>4, <1>8, <2>1, <2>2 DEF Registers
<1>14. Owed'
  BY <1>1, <1>4, <1>5, <1>8 DEF Owed, Due
<1>15. QED
  BY <1>3, <1>11, <1>12, <1>13, <1>14 DEF HostInv
(* Disposing of the value of a call, or of nothing, removes just that. *)
LEMMA DisposeOne ==
  ASSUME IInv, NEW id \in Handle \cup {0}, Dispose(id),
         IsResult(id) => slots[id].claimed
  PROVE  /\ IInv' /\ [Next]_vars
         /\ DOMAIN slots' = DOMAIN slots \ {id}
         /\ \A x \in DOMAIN slots \ {id} : slots'[x] = slots[x]
         /\ UNCHANGED <<next, returned, committed>>
<1>1. /\ slots' = [x \in DOMAIN slots \ Disposed(id) |-> slots[x]]
      /\ gone' = gone \cup (Disposed(id) \cap DOMAIN slots)
      /\ UNCHANGED <<next, returned, committed, told>>
  BY DEF Dispose, Removed, Here
<1>2. Disposed(id) = IF id \in DOMAIN slots THEN {id} ELSE {}
  BY DEF Disposed, Live, IsResult
<1>3. DOMAIN slots' = DOMAIN slots \ {id} /\ \A x \in DOMAIN slots \ {id} : slots'[x] = slots[x]
  BY <1>1, <1>2
<1>4. IInv' /\ [Next]_vars
  <2>1. CASE id \in Handle
    BY <2>1, DisposeKeeps DEF Next
  <2>2. CASE id = 0
    <3>1. id \notin DOMAIN slots
      BY <2>2 DEF IInv, NeverReused, TypeOK, Handle
    <3>2. slots = [x \in DOMAIN slots |-> slots[x]]
      BY DEF IInv, NeverReused, TypeOK
    <3>3. slots' = slots /\ gone' = gone
      BY <1>1, <1>2, <3>1, <3>2
    <3>4. UNCHANGED vars
      BY <1>1, <3>3 DEF vars
    <3>5. QED
      BY <3>4, StutterKeeps
  <2>3. QED
    BY <2>1, <2>2
<1>5. QED
  BY <1>1, <1>3, <1>4

(* The catch blocks: the value goes, the result stays for the finally block. *)
LEMMA CatchKeeps ==
  ASSUME HostInv, CopyFails
  PROVE  HostInv' /\ [Next]_vars
<1>1. /\ pc = "copy" /\ pc' = "failed" /\ Dispose(decoded.value)
      /\ decoded' = Nothing /\ starved' = TRUE
      /\ UNCHANGED <<request, buffers, owned, delivered>>
  BY DEF CopyFails
<1>2. decoded.value \in Handle \cup {0}
  BY HandleAssumption DEF HostInv, WrapperTypeOK, Handle
<1>3. /\ OnlyPending(returned, decoded.value) /\ slots[returned].claimed /\ buffers = {}
      /\ decoded.value # 0 => ~IsResult(decoded.value)
  BY <1>1 DEF HostInv, HeldByCall, Registers
<1>4. IsResult(decoded.value) => slots[decoded.value].claimed
  <2>1. 0 \notin DOMAIN slots
    BY DEF HostInv, IInv, NeverReused, TypeOK, Handle
  <2>2. QED
    BY <1>3, <2>1 DEF IsResult, Live
<1>5. /\ IInv' /\ [Next]_vars
      /\ DOMAIN slots' = DOMAIN slots \ {decoded.value}
      /\ \A x \in DOMAIN slots \ {decoded.value} : slots'[x] = slots[x]
      /\ UNCHANGED <<next, returned, committed>>
  BY <1>1, <1>2, <1>4, DisposeOne DEF HostInv
<1>6. returned \in DOMAIN slots /\ returned # decoded.value /\ returned \in Handle /\ returned \in Nat
      /\ 0 < returned
  <2>1. returned \in DOMAIN slots
    BY <1>3 DEF OnlyPending, IsResult, Live
  <2>2. returned \in Handle
    BY <2>1 DEF HostInv, IInv, NeverReused, TypeOK
  <2>3. QED
    BY <1>2, <1>3, <2>1, <2>2 DEF OnlyPending, Handle
<1>7. WrapperTypeOK'
  BY <1>1, <1>5, HandleAssumption DEF HostInv, WrapperTypeOK, IInv, NeverReused, Nothing
<1>8. OnlyPending(returned, 0)' /\ slots'[returned'].claimed
  <2>1. 0 \notin owned
    BY DEF HostInv, WrapperTypeOK, Handle
  <2>2. QED
    BY <1>1, <1>3, <1>5, <1>6, <2>1 DEF OnlyPending, IsResult, Live
<1>9. HeldByCall'
  BY <1>1, <1>8 DEF HeldByCall
<1>10. Registers'
  <2>1. \A id \in owned : ~IsResult(id)'
    BY <1>5 DEF HostInv, Registers, IsResult, Live
  <2>2. QED
    BY <1>1, <1>3, <2>1 DEF Registers, Nothing
<1>11. Owed'
  BY <1>1 DEF Owed
<1>12. QED
  BY <1>5, <1>7, <1>9, <1>10, <1>11 DEF HostInv

(* The finally block: the claimed result goes, the value stays. *)
LEMMA FinallyKeeps ==
  ASSUME HostInv, DisposeResult
  PROVE  HostInv' /\ [Next]_vars
<1>1. /\ pc \in {"finally", "failed"} /\ Dispose(returned)
      /\ pc' = IF pc = "finally" THEN "decode" ELSE "idle"
      /\ request' = IF pc = "finally" THEN request ELSE NoRequest
      /\ UNCHANGED <<buffers, decoded, owned, delivered, starved>>
  BY DEF DisposeResult
<1> PICK v : v = IF pc = "finally" THEN decoded.value ELSE 0
  OBVIOUS
<1>2. OnlyPending(returned, v) /\ slots[returned].claimed /\ buffers = {}
  BY <1>1 DEF HostInv, HeldByCall, Registers
<1>3. returned \in DOMAIN slots /\ returned \in Handle /\ returned \in Nat /\ v # returned
  <2>1. returned \in DOMAIN slots
    BY <1>2 DEF OnlyPending, IsResult, Live
  <2>2. returned \in Handle
    BY <2>1 DEF HostInv, IInv, NeverReused, TypeOK
  <2>3. v \in Handle \cup {0}
    BY HandleAssumption DEF HostInv, WrapperTypeOK, Handle
  <2>4. QED
    BY <1>2, <2>1, <2>2, <2>3 DEF OnlyPending, Handle
<1>4. /\ IInv' /\ [Next]_vars
      /\ DOMAIN slots' = DOMAIN slots \ {returned}
      /\ \A x \in DOMAIN slots \ {returned} : slots'[x] = slots[x]
      /\ UNCHANGED <<next, returned, committed>>
  BY <1>1, <1>2, <1>3, DisposeOne DEF HostInv
<1>5. DOMAIN slots' = owned \cup ({v} \ {0}) /\ v \notin owned
  BY <1>2, <1>3, <1>4 DEF OnlyPending
<1>6. pc = "failed" => decoded = Nothing
  BY DEF HostInv, Registers
<1>7. WrapperTypeOK'
  BY <1>1, <1>4, <1>6 DEF HostInv, WrapperTypeOK, IInv, NeverReused, NoRequest
<1>8. HeldByCall'
  BY <1>1, <1>5 DEF HeldByCall
<1>9. Registers'
  <2>1. \A id : IsResult(id)' => IsResult(id)
    BY <1>4 DEF IsResult, Live
  <2>2. \A id \in owned' : ~IsResult(id)'
    BY <1>1, <2>1 DEF HostInv, Registers
  <2>3. decoded'.value # 0 => ~IsResult(decoded.value)'
    BY <1>1, <1>4 DEF HostInv, Registers, IsResult, Live
  <2>4. QED
    BY <1>1, <1>2, <1>6, <2>2, <2>3 DEF HostInv, Registers, Nothing
<1>10. Owed'
  BY <1>1, <1>4 DEF HostInv, Owed, Due
<1>11. QED
  BY <1>4, <1>7, <1>8, <1>9, <1>10 DEF HostInv

(* Decoding throws: the value goes, the call is over. *)
LEMMA DecodeFailsKeeps ==
  ASSUME HostInv, DecodeFails
  PROVE  HostInv' /\ [Next]_vars
<1>1. /\ pc = "decode" /\ pc' = "idle" /\ Dispose(decoded.value)
      /\ decoded' = Nothing /\ starved' = TRUE /\ request' = NoRequest
      /\ UNCHANGED <<buffers, owned, delivered>>
  BY DEF DecodeFails, GiveUp
<1>2. decoded.value \in Handle \cup {0}
  BY HandleAssumption DEF HostInv, WrapperTypeOK, Handle
<1>3. /\ decoded.value \notin owned /\ DOMAIN slots = owned \cup ({decoded.value} \ {0})
      /\ buffers = {}
      /\ decoded.value # 0 => ~IsResult(decoded.value)
  BY <1>1 DEF HostInv, HeldByCall, Registers
<1>4. IsResult(decoded.value) => slots[decoded.value].claimed
  <2>1. 0 \notin DOMAIN slots
    BY DEF HostInv, IInv, NeverReused, TypeOK, Handle
  <2>2. QED
    BY <1>3, <2>1 DEF IsResult, Live
<1>5. /\ IInv' /\ [Next]_vars
      /\ DOMAIN slots' = DOMAIN slots \ {decoded.value}
      /\ \A x \in DOMAIN slots \ {decoded.value} : slots'[x] = slots[x]
      /\ UNCHANGED <<next, returned, committed>>
  BY <1>1, <1>2, <1>4, DisposeOne DEF HostInv
<1>6. DOMAIN slots' = owned'
  BY <1>1, <1>3, <1>5
<1>7. WrapperTypeOK'
  BY <1>1, <1>5, HandleAssumption DEF HostInv, WrapperTypeOK, IInv, NeverReused, Nothing, NoRequest
<1>8. HeldByCall'
  BY <1>1, <1>6 DEF HeldByCall
<1>9. Registers'
  <2>1. \A id \in owned' : ~IsResult(id)'
    BY <1>1, <1>5 DEF HostInv, Registers, IsResult, Live
  <2>2. QED
    BY <1>1, <1>3, <2>1 DEF Registers, Nothing
<1>10. Owed'
  BY <1>1 DEF Owed
<1>11. QED
  BY <1>5, <1>7, <1>8, <1>9, <1>10 DEF HostInv

(* OwnedHandle.dispose. *)
LEMMA DisposeObjectKeeps ==
  ASSUME HostInv, NEW id \in owned, DisposeObject(id)
  PROVE  HostInv' /\ [Next]_vars
<1>1. /\ pc = "idle" /\ Dispose(id) /\ owned' = owned \ {id}
      /\ UNCHANGED <<pc, request, buffers, decoded, delivered, starved>>
  BY DEF DisposeObject
<1>2. id \in Handle /\ ~IsResult(id) /\ DOMAIN slots = owned
  BY <1>1 DEF HostInv, WrapperTypeOK, Registers, HeldByCall
<1>3. /\ IInv' /\ [Next]_vars
      /\ DOMAIN slots' = DOMAIN slots \ {id}
      /\ \A x \in DOMAIN slots \ {id} : slots'[x] = slots[x]
      /\ UNCHANGED <<next, returned, committed>>
  BY <1>1, <1>2, DisposeOne DEF HostInv
<1>4. WrapperTypeOK'
  BY <1>1, <1>3 DEF HostInv, WrapperTypeOK, IInv, NeverReused
<1>5. HeldByCall'
  BY <1>1, <1>2, <1>3 DEF HeldByCall
<1>6. Registers'
  <2>1. \A x \in owned' : ~IsResult(x)'
    BY <1>1, <1>3 DEF HostInv, Registers, IsResult, Live
  <2>2. decoded = Nothing
    BY <1>1 DEF HostInv, Registers
  <2>3. QED
    BY <1>1, <2>1, <2>2 DEF HostInv, Registers, Nothing
<1>7. Owed'
  BY <1>1, <1>3 DEF HostInv, Owed
<1>8. QED
  BY <1>3, <1>4, <1>5, <1>6, <1>7 DEF HostInv

LEMMA InitHost == WrapperInit => HostInv
<1> SUFFICES ASSUME WrapperInit PROVE HostInv
  OBVIOUS
<1>1. IInv
  BY InitInvariant DEF WrapperInit
<1>2. DOMAIN slots = {} /\ returned = 0 /\ committed = 0
  BY DEF WrapperInit, Init
<1>3. WrapperTypeOK
  <2>1. starved \in BOOLEAN /\ TypeOK
    BY <1>1 DEF WrapperInit, IInv, NeverReused
  <2>2. /\ pc = "idle" /\ request = NoRequest /\ buffers = {} /\ decoded = Nothing
        /\ owned = {} /\ delivered = 0
    BY DEF WrapperInit
  <2>3. 0 \in 0 .. MaxHandle
    BY HandleAssumption
  <2>4. Nothing \in [status : {"none", "success", "error"}, value : 0 .. MaxHandle]
    BY <2>3 DEF Nothing
  <2>5. NoRequest.op = "none"
    BY DEF NoRequest
  <2>6. QED
    BY <2>1, <2>2, <2>4, <2>5 DEF WrapperTypeOK
<1>4. HeldByCall /\ Registers /\ Owed
  BY <1>2 DEF WrapperInit, HeldByCall, Registers, Owed, Nothing
<1>5. QED
  BY <1>1, <1>3, <1>4 DEF HostInv

LEMMA HostStep == HostInv /\ [WrapperNext]_allVars => HostInv' /\ [Next]_vars
<1> SUFFICES ASSUME HostInv, [WrapperNext]_allVars PROVE HostInv' /\ [Next]_vars
  OBVIOUS
<1>1. CASE UNCHANGED allVars
  <2>1. UNCHANGED vars /\ UNCHANGED <<next, slots, returned, committed, gone, told>>
        /\ UNCHANGED <<pc, request, buffers, decoded, owned, delivered, starved>>
    BY <1>1 DEF allVars, vars, host
  <2>2. IInv'
    BY <2>1, StutterKeeps DEF HostInv
  <2>3. WrapperTypeOK' /\ HeldByCall' /\ Registers' /\ Owed'
    BY <2>1, <2>2 DEF HostInv, WrapperTypeOK, IInv, NeverReused, HeldByCall, OnlyPending, Registers,
       Owed, Due, IsResult, Live
  <2>4. QED
    BY <2>1, <2>2, <2>3 DEF HostInv
<1>2. ASSUME NEW req \in Requests, Start(req) PROVE HostInv' /\ [Next]_vars
  BY <1>2, StartKeeps
<1>3. CASE StartFails \/ NoResult
  BY <1>3, AbandonKeeps
<1>4. CASE Call
  BY <1>4, CallKeeps
<1>5. CASE TakeValue
  BY <1>5, TakeValueKeeps
<1>6. CASE Copy
  BY <1>6, CopyKeeps
<1>7. CASE CopyFails
  BY <1>7, CatchKeeps
<1>8. CASE DisposeResult
  BY <1>8, FinallyKeeps
<1>9. CASE DecodeFails
  BY <1>9, DecodeFailsKeeps
<1>10. CASE ReportError \/ Deliver
  BY <1>10, AnsweredKeeps
<1>11. ASSUME NEW id \in owned, DisposeObject(id) PROVE HostInv' /\ [Next]_vars
  BY <1>11, DisposeObjectKeeps
<1>12. QED
  BY <1>1, <1>2, <1>3, <1>4, <1>5, <1>6, <1>7, <1>8, <1>9, <1>10, <1>11 DEF WrapperNext

-----------------------------------------------------------------------------
(* The theorems about the host.                                             *)

(* Mecojoni.invoke and OwnedHandle touch the table through its operations   *)
(* only, also in their catch and finally blocks, so that what is proved of  *)
(* every host is true of this one.                                          *)
THEOREM WrapperUsesTable == WrapperSpec => Spec
<1>1. WrapperInit => HostInv /\ Init
  BY InitHost DEF WrapperInit
<1>2. QED
  BY <1>1, HostStep, PTL DEF WrapperSpec, Spec

(* The inductive invariant of the host. *)
THEOREM HostInvariant == WrapperSpec => []HostInv
<1>1. QED
  BY InitHost, HostStep, PTL DEF WrapperSpec

(* "Wrapper calls return this to zero" (mecojoni.ts): whatever failed in    *)
(* it, a call that is over leaves no result, value or buffer behind, and no *)
(* object of the caller has lost its value.                                 *)
THEOREM CallsLeaveNothing == WrapperSpec => []NothingLeaks
<1>1. HostInv => NothingLeaks
  <2> SUFFICES ASSUME HostInv PROVE NothingLeaks
    OBVIOUS
  <2>1. owned \subseteq DOMAIN slots
    BY DEF HostInv, WrapperTypeOK, HeldByCall, OnlyPending
  <2>2. pc = "idle" => DOMAIN slots = owned /\ buffers = {}
    BY DEF HostInv, HeldByCall, Registers
  <2>3. QED
    BY <2>1, <2>2 DEF HostInv, NothingLeaks, OwnedAreLive
<1>2. QED
  BY <1>1, HostInvariant, PTL

(* A generation committed to a store reaches the caller of generateDiverse  *)
(* unless an allocation failed, a number ran out or a payload did not       *)
(* decode.                                                                  *)
THEOREM OutputsDelivered == WrapperSpec => []DeliveredUnlessStarved
<1>1. HostInv => DeliveredUnlessStarved
  BY DEF HostInv, Owed, DeliveredUnlessStarved
<1>2. QED
  BY <1>1, HostInvariant, PTL
=============================================================================
