----------------------------- MODULE UnityHost -----------------------------
(***************************************************************************)
(* The managed side of the C ABI (Mecojoni.cs): wrappers that own one      *)
(* native object each, an application thread that calls them, and the      *)
(* collector, which runs the finalizer of a wrapper on a thread of its own *)
(* as soon as nothing can reach it.                                        *)
(*                                                                         *)
(* A call has five moments: the wrapper's handle is read, the native       *)
(* function runs, what it wrote is read through borrowed views, it is      *)
(* freed or adopted by a wrapper, and the finally block keeps the wrapper  *)
(* alive up to there.  The application may forget the wrapper at any       *)
(* moment, also while its call runs.                                       *)
(***************************************************************************)
EXTENDS NativeAbi, SequencesExt

CONSTANTS
  Wrappers,     (* wrapper objects the application can make                *)
  MaxObjects,   (* bound: native objects ever made                         *)
  MaxEdits      (* bound: modules and imports of one builder, together     *)

(* A wrapper is told apart from no wrapper, and as the owner of an object
   from the out parameters of a call.                                      *)
ASSUME WrappersAssumption == Wrappers \cap {"none", "out", "error"} = {}

VARIABLES
  heap,         (* the live native objects                                 *)
  made,         (* how many were ever made                                 *)
  wrapper,      (* the managed wrappers                                    *)
  frame         (* the call in progress on the application's thread        *)

vars == <<heap, made, wrapper, frame>>

None == "none"

Unmade == [kind |-> "unmade", handle |-> Null, held |-> FALSE, suppressed |-> FALSE]
Idle == [op |-> "idle", this |-> None, handle |-> Null, out |-> Null, error |-> Null, status |-> "none"]

Init ==
  /\ heap = [p \in {} |-> Object("error", <<>>)]
  /\ made = 0
  /\ wrapper = [w \in Wrappers |-> Unmade]
  /\ frame = Idle

Fresh == made + 1

Adopted(kind, pointer) == [kind |-> kind, handle |-> pointer, held |-> TRUE, suppressed |-> FALSE]

Methods(kind) ==
  CASE kind = "builder" -> {"AddModule", "ResolveImport", "CompilePackage"}
    [] kind = "grammar" -> {"EncodeArtifact", "Generate", "Entries"}
    [] OTHER -> {}

---------------------------------------------------------------------------
(* Constructors, and the calls the application makes.                      *)

NewBuilder(w) ==
  /\ frame = Idle /\ wrapper[w] = Unmade /\ made < MaxObjects
  /\ heap' = BuilderNew(heap, Fresh).heap
  /\ made' = Fresh
  /\ wrapper' = [wrapper EXCEPT ![w] = Adopted("builder", Fresh)]
  /\ UNCHANGED frame

(* A static method: no wrapper, no handle.                                 *)
EnterStatic(op) ==
  /\ frame = Idle
  /\ frame' = [Idle EXCEPT !.op = op]
  /\ UNCHANGED <<heap, made, wrapper>>

(* The Handle property: a disposed wrapper throws before any native call.  *)
Enter(w, op) ==
  /\ frame = Idle /\ wrapper[w].held /\ wrapper[w].handle # Null
  /\ op \in Methods(wrapper[w].kind)
  /\ frame' = [Idle EXCEPT !.op = op, !.this = w, !.handle = wrapper[w].handle]
  /\ UNCHANGED <<heap, made, wrapper>>

Running == frame.op # "idle" /\ frame.status = "none"

(* The native function returns a.                                          *)
Return(a) ==
  /\ Running
  /\ heap' = a.heap
  /\ made' = Max({made} \cup Live(a.heap))
  /\ frame' = [frame EXCEPT !.status = a.status, !.out = a.out, !.error = a.error]
  /\ UNCHANGED wrapper

Edits(modules) == FoldLeft(LAMBDA n, m : n + 1 + Len(m.resolved_imports), 0, modules)

(* Room for the objects a call can leave behind.                           *)
Room == made + 2 <= MaxObjects

RunAddModule(name, utf8) ==
  /\ frame.op = "AddModule" /\ Room /\ Edits(heap[frame.handle].modules) < MaxEdits
  /\ Return(AddModule(heap, Fresh, frame.handle, name, utf8, TRUE))

RunResolveImport(name, target) ==
  /\ frame.op = "ResolveImport" /\ Room /\ Edits(heap[frame.handle].modules) < MaxEdits
  /\ Return(ResolveImport(heap, Fresh, frame.handle, name, target, TRUE))

RunCompilePackage(root, compiles) ==
  /\ frame.op = "CompilePackage" /\ Room
  /\ Return(BuilderCompile(heap, Fresh, frame.handle, root, TRUE, TRUE, compiles))

RunCompile(name, utf8, compiles) ==
  /\ frame.op = "Compile" /\ Room
  /\ Return(GrammarCompile(heap, Fresh, name, utf8, TRUE, TRUE, compiles))

RunDecode(decodes) ==
  /\ frame.op = "LoadArtifact" /\ Room
  /\ Return(GrammarDecode(heap, Fresh, "bytes", TRUE, TRUE, decodes))

RunEncode(profile, encodes) ==
  /\ frame.op = "EncodeArtifact" /\ Room
  /\ Return(GrammarEncode(heap, Fresh, frame.handle, profile, TRUE, TRUE, encodes))

RunGenerate(bindings, generates) ==
  /\ frame.op = "Generate" /\ Room
  /\ Return(GrammarGenerate(heap, Fresh, frame.handle, "", bindings, TRUE, TRUE, generates))

(* Entries and the other accessors: the view is copied before the return.  *)
RunEntries ==
  /\ frame.op = "Entries" /\ View(heap, frame.handle) = "grammar"
  /\ Return(Answer(heap, "ok", Null, Null))

---------------------------------------------------------------------------
(* After the native call.                                                  *)

Returned == frame.op # "idle" /\ frame.status # "none"

(* An accessor method returns what it copied, AddModule nothing.           *)
LeavePlain ==
  /\ Returned /\ frame.status = "ok" /\ frame.out = Null
  /\ frame' = Idle
  /\ UNCHANGED <<heap, made, wrapper>>

(* ConsumeError: code and message copied, the object freed, if there is one. *)
ConsumeError ==
  /\ Returned /\ frame.status # "ok"
  /\ frame.error # Null => View(heap, frame.error) = "error"
  /\ heap' = Free(heap, frame.error)
  /\ frame' = Idle
  /\ UNCHANGED <<made, wrapper>>

(* EncodeArtifact and Generate copy the result and free it.                *)
CopyAndFree ==
  /\ Returned /\ frame.op \in {"EncodeArtifact", "Generate"} /\ frame.out # Null
  /\ View(heap, frame.out) \in {"artifact", "generated"}
  /\ heap' = Free(heap, frame.out)
  /\ frame' = Idle
  /\ UNCHANGED <<made, wrapper>>

(* Compile, LoadArtifact and the builder's Compile hand the grammar to a new
   wrapper.                                                                *)
Adopt(w) ==
  /\ Returned /\ frame.op \notin {"EncodeArtifact", "Generate"} /\ frame.out # Null
  /\ wrapper[w] = Unmade
  /\ wrapper' = [wrapper EXCEPT ![w] = Adopted("grammar", frame.out)]
  /\ frame' = Idle
  /\ UNCHANGED <<heap, made>>

---------------------------------------------------------------------------
(* The life of a wrapper.                                                  *)

Forget(w) ==
  /\ wrapper[w].held
  /\ wrapper' = [wrapper EXCEPT ![w].held = FALSE]
  /\ UNCHANGED <<heap, made, frame>>

(* Mutation: no GC.KeepAlive, the frame counts until the handle is read. *)
ReachableWithoutKeepAlive(w) == wrapper[w].held

(* GC.KeepAlive(this) in the finally block.                                *)
Reachable(w) == wrapper[w].held \/ frame.this = w

ReleaseHandle(w, suppress) ==
  /\ heap' = IF wrapper[w].handle = Null THEN heap ELSE Free(heap, wrapper[w].handle)
  /\ wrapper' = [wrapper EXCEPT ![w].handle = Null, ![w].suppressed = suppress]
  /\ UNCHANGED <<made, frame>>

Dispose(w) ==
  /\ frame = Idle /\ wrapper[w].held
  /\ ReleaseHandle(w, TRUE)

(* A finalizer runs once.                                                  *)
Finalize(w) ==
  /\ wrapper[w].kind # "unmade" /\ ~Reachable(w) /\ ~wrapper[w].suppressed
  /\ ReleaseHandle(w, TRUE)

Statics == {"Compile", "LoadArtifact"}

(* Arguments range over what mecojoni.h lets any host pass: Mecojoni.cs stops
   null names and values without payload before the native call.           *)
Argument == Names \cup {Malformed}

(* Bindings of one or no input, a well-formed and some malformed ones.     *)
Binding(name, kind, text, denominator) ==
  [name |-> name, kind |-> kind, text |-> text, denominator |-> denominator]
Bindings(n) ==
  {<<>>, <<Binding(n, "text", n, 0)>>, <<Binding(n, "text", Malformed, 0)>>,
   <<Binding(Malformed, "boolean", n, 0)>>, <<Binding(n, "number", n, 0)>>, <<Binding(n, "other", n, 1)>>}

Next ==
  \/ \E w \in Wrappers : NewBuilder(w)
  \/ \E op \in Statics : EnterStatic(op)
  \/ \E w \in Wrappers : \E op \in Methods(wrapper[w].kind) : Enter(w, op)
  \/ Running /\ \E n \in Argument, utf8 \in BOOLEAN : RunAddModule(n, utf8)
  \/ Running /\ \E n, t \in Argument : RunResolveImport(n, t)
  \/ Running /\ \E r \in Argument \cup {""}, c \in BOOLEAN : RunCompilePackage(r, c)
  \/ Running /\ \E n \in Argument, utf8, c \in BOOLEAN : RunCompile(n, utf8, c)
  \/ Running /\ \E d \in BOOLEAN : RunDecode(d)
  \/ Running /\ \E p \in 0 .. 3, e \in BOOLEAN : RunEncode(p, e)
  \/ Running /\ \E n \in Names : \E b \in Bindings(n) : \E g \in BOOLEAN : RunGenerate(b, g)
  \/ Running /\ RunEntries
  \/ LeavePlain
  \/ ConsumeError
  \/ CopyAndFree
  \/ \E w \in Wrappers : Adopt(w)
  \/ \E w \in Wrappers : Forget(w)
  \/ \E w \in Wrappers : Dispose(w)
  \/ \E w \in Wrappers : Finalize(w)

Spec == Init /\ [][Next]_vars

---------------------------------------------------------------------------
(* Properties.                                                             *)

(* No native function and no borrowed view ever works on a freed object: the
   object a running call was given lives until the call is over, whatever the
   application forgets and the finalizer thread does meanwhile.            *)
NoDangling ==
  /\ frame.this # None => frame.handle \in Live(heap)
  /\ {frame.out, frame.error} \subseteq {Null} \cup Live(heap)

(* Every live object has exactly one owner, a wrapper that will release it or
   the call in progress, and nobody owns an object that is gone: nothing is
   freed twice and nothing is left behind, on no error path.               *)
OneOwner ==
  LET owners(p) == {w \in Wrappers : wrapper[w].handle = p}
                     \cup {slot \in {"out", "error"} : frame[slot] = p}
  IN  /\ \A p \in Live(heap) : Cardinality(owners(p)) = 1
      /\ \A w \in Wrappers : wrapper[w].handle \in {Null} \cup Live(heap)

(* What mecojoni.h promises of a status: OK comes without an error object,
   ERROR with one and without a result, INVALID_ARGUMENT with neither, and a
   call that fails leaves every object it was given as it was.             *)
CallContract ==
  [][ (Running /\ frame'.status # "none") =>
        /\ frame'.status = "ok" => frame'.error = Null
        /\ frame'.status = "error" => frame'.error \notin {Null} \cup Live(heap) /\ frame'.out = Null
        /\ frame'.status = "invalid" => frame'.error = Null /\ frame'.out = Null
        /\ frame'.status # "ok" => \A p \in Live(heap) : p \in Live(heap') /\ heap'[p] = heap[p]
    ]_vars
============================================================================
