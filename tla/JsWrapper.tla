------------------------------ MODULE JsWrapper ------------------------------
(***************************************************************************)
(* mecojoni.ts, the JavaScript host of the WebAssembly module: the call    *)
(* protocol of Mecojoni.invoke and its callers, over the table of          *)
(* HandleTable.  Every public method copies its request into an ABI        *)
(* buffer, calls, frees the buffer, claims the value, copies the payload   *)
(* out through a second buffer, disposes of the result, decodes, and wraps *)
(* the value in an object that owns it.                                    *)
(*                                                                         *)
(* JavaScript is single-threaded and the calls are synchronous: steps of   *)
(* two calls never interleave, but each step may fail, and the catch and   *)
(* finally blocks run.                                                     *)
(***************************************************************************)
EXTENDS HandleTable

VARIABLES
  pc,            (* where the running call stands; "idle" outside of calls *)
  request,       (* what the running call asks for                         *)
  buffers,       (* ABI allocations the wrapper holds                      *)
  decoded,       (* the status read so far, and the claimed value that a   *)
                 (* catch block would dispose of                           *)
  owned,         (* handles held by live OwnedHandle objects               *)
  delivered,     (* diverse generations whose output reached the caller    *)
  starved        (* history: an allocation or a handle number was refused, *)
                 (* or a payload did not decode                            *)

host == <<pc, request, buffers, decoded, owned, delivered, starved>>
allVars == <<vars, host>>

NoRequest == [op |-> "none"]
Nothing == [status |-> "none", value |-> 0]

(* The public methods, on live objects of the classes they expect: `handle` *)
(* throws on a disposed object before anything is written.                  *)
Requests ==
  [op : {"create"}, kind : ValueKinds]
    \cup {[op |-> "read", on |-> id] :
            id \in {i \in owned : ~IsKind(i, "Package")}}
    \cup {[op |-> "compile", on |-> id] : id \in {i \in owned : IsKind(i, "Package")}}
    \cup [op : {"diverse"}, grammar : {i \in owned : IsKind(i, "Grammar")},
          session : {i \in owned : IsKind(i, "Session")},
          store : {i \in owned : IsKind(i, "Repetition")}]

-----------------------------------------------------------------------------
(* The steps of a call.                                                     *)

(* The method fails: caughtFailure. *)
GiveUp ==
  /\ pc' = "idle"
  /\ request' = NoRequest
  /\ starved' = TRUE

(* invoke: allocate the request. *)
Start(req) ==
  /\ pc = "idle"
  /\ pc' = "call"
  /\ request' = req
  /\ buffers' = buffers \cup {"input"}
  /\ UNCHANGED <<vars, decoded, owned, delivered, starved>>

StartFails ==
  /\ pc = "idle"
  /\ GiveUp
  /\ UNCHANGED <<vars, buffers, decoded, owned, delivered>>

Answer ==
  \/ Refuse
  \/ request.op = "create" /\ CallCreate(request.kind)
  \/ request.op = "compile" /\ CallCompile(request.on)
  \/ request.op = "read" /\ CallRead(request.on)
  \/ request.op = "diverse" /\ CallDiverse(request.grammar, request.session, request.store)

(* meco_call, then the finally block that frees the request. *)
Call ==
  /\ pc = "call"
  /\ Answer
  /\ pc' = "result"
  /\ buffers' = buffers \ {"input"}
  /\ UNCHANGED <<request, decoded, owned, delivered, starved>>

(* The call returned no result handle. *)
NoResult ==
  /\ pc = "result"
  /\ returned = 0
  /\ GiveUp
  /\ UNCHANGED <<vars, buffers, decoded, owned, delivered>>

(* meco_result_status and meco_result_value_handle. *)
TakeValue ==
  /\ pc = "result"
  /\ returned # 0
  /\ Claim(returned)
  /\ decoded' = [status |-> slots[returned].status, value |-> slots[returned].value]
  /\ pc' = "copy"
  /\ UNCHANGED <<request, buffers, owned, delivered, starved>>

(* copyPayload: its buffer is freed in a finally block, within the step. *)
Copy ==
  /\ pc = "copy"
  /\ pc' = "finally"
  /\ UNCHANGED <<vars, request, buffers, decoded, owned, delivered, starved>>

(* Mutation: no catch block; the claimed value is left to nobody. *)
CopyFailsKeepingValue ==
  /\ pc = "copy"
  /\ decoded' = Nothing
  /\ starved' = TRUE
  /\ pc' = "failed"
  /\ UNCHANGED <<vars, request, buffers, owned, delivered>>

(* copyPayload throws: the catch block disposes of the claimed value. *)
CopyFails ==
  /\ pc = "copy"
  /\ Dispose(decoded.value)
  /\ decoded' = Nothing
  /\ starved' = TRUE
  /\ pc' = "failed"
  /\ UNCHANGED <<request, buffers, owned, delivered>>

(* The finally block disposes of the result; the method decodes or fails. *)
DisposeResult ==
  /\ pc \in {"finally", "failed"}
  /\ Dispose(returned)
  /\ pc' = IF pc = "finally" THEN "decode" ELSE "idle"
  /\ request' = IF pc = "finally" THEN request ELSE NoRequest
  /\ UNCHANGED <<buffers, decoded, owned, delivered, starved>>

(* Decoding throws: the method's catch block disposes of the value. *)
DecodeFails ==
  /\ pc = "decode"
  /\ Dispose(decoded.value)
  /\ decoded' = Nothing
  /\ GiveUp
  /\ UNCHANGED <<buffers, owned, delivered>>

(* The result was an error: decodeFailure. *)
ReportError ==
  /\ pc = "decode"
  /\ decoded.status = "error"
  /\ pc' = "idle"
  /\ request' = NoRequest
  /\ decoded' = Nothing
  /\ UNCHANGED <<vars, buffers, owned, delivered, starved>>

(* The caller gets its output, or an object that owns the value. *)
Deliver ==
  /\ pc = "decode"
  /\ decoded.status = "success"
  /\ owned' = owned \cup ({decoded.value} \ {0})
  /\ delivered' = IF request.op = "diverse" THEN delivered + 1 ELSE delivered
  /\ pc' = "idle"
  /\ request' = NoRequest
  /\ decoded' = Nothing
  /\ UNCHANGED <<vars, buffers, starved>>

(* OwnedHandle.dispose; a second dispose of the object does nothing. *)
DisposeObject(id) ==
  /\ pc = "idle"
  /\ id \in owned
  /\ Dispose(id)
  /\ owned' = owned \ {id}
  /\ UNCHANGED <<pc, request, buffers, decoded, delivered, starved>>

WrapperInit ==
  /\ Init
  /\ pc = "idle"
  /\ request = NoRequest
  /\ buffers = {}
  /\ decoded = Nothing
  /\ owned = {}
  /\ delivered = 0
  /\ starved = FALSE

WrapperNext ==
  \/ \E req \in Requests : Start(req)
  \/ StartFails
  \/ Call \/ NoResult \/ TakeValue \/ Copy \/ CopyFails \/ DisposeResult
  \/ DecodeFails \/ ReportError \/ Deliver
  \/ \E id \in owned : DisposeObject(id)

WrapperSpec == WrapperInit /\ [][WrapperNext]_allVars

-----------------------------------------------------------------------------
(* Properties.                                                              *)

(* Types; the registers of a call are empty between calls. *)
WrapperTypeOK ==
  /\ TypeOK
  /\ pc \in {"idle", "call", "result", "copy", "finally", "failed", "decode"}
  /\ request.op \in {"none", "create", "compile", "read", "diverse"}
  /\ buffers \subseteq {"input"}
  /\ decoded \in [status : {"none", "success", "error"}, value : 0 .. MaxHandle]
  /\ owned \subseteq Handle
  /\ delivered \in Nat /\ starved \in BOOLEAN
  /\ pc = "idle" => request = NoRequest /\ decoded = Nothing

(* No call frees a value under a live object, and none answers with an      *)
(* object whose value is gone.                                              *)
OwnedAreLive == owned \subseteq DOMAIN slots

(* Whatever failed in it, a call that is over leaves no result, no value    *)
(* and no buffer behind: what is live in the module is what the caller's    *)
(* objects own ("wrapper calls return this to zero", mecojoni.ts).          *)
NothingLeaks ==
  /\ WrapperTypeOK
  /\ OwnedAreLive
  /\ pc = "idle" => DOMAIN slots = owned /\ buffers = {}

(* Every committed generation reached its caller, as long as no allocation  *)
(* failed, no number ran out and every payload decoded.                     *)
DeliveredUnlessStarved == pc = "idle" /\ ~starved => committed = delivered
=============================================================================
