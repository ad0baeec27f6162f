-------------------------- MODULE UnityHost_proofs --------------------------
(***************************************************************************)
(* Theorems about UnityHost: for any number of wrappers and objects and    *)
(* any arguments, every native object has one owner, no call works on a    *)
(* freed one, and the statuses of the C ABI mean what mecojoni.h says.     *)
(***************************************************************************)
EXTENDS UnityHost, FiniteSetTheorems, TLAPS

Operations == {"idle", "AddModule", "ResolveImport", "CompilePackage", "EncodeArtifact",
               "Generate", "Entries", "Compile", "LoadArtifact"}

FrameType == [op : Operations, this : Wrappers \cup {None}, handle : Nat, out : Nat,
              error : Nat, status : {"none", "ok", "error", "invalid"}]

WrapperType == [kind : {"unmade", "builder", "grammar"}, handle : Nat,
                held : BOOLEAN, suppressed : BOOLEAN]

(* Pointers are numbered from 1 on, in the order of allocation.            *)
HostTypes ==
  /\ made \in Nat
  /\ Live(heap) \subseteq 1 .. made
  /\ wrapper \in [Wrappers -> WrapperType]
  /\ frame \in FrameType

(* Nobody owns an object that is gone, and no two own the same.            *)
Released ==
  /\ \A w \in Wrappers : wrapper[w].handle \in {Null} \cup Live(heap)
  /\ {frame.out, frame.error} \subseteq {Null} \cup Live(heap)

Apart ==
  /\ \A v, w \in Wrappers : wrapper[v].handle = wrapper[w].handle => v = w \/ wrapper[w].handle = Null
  /\ \A w \in Wrappers : wrapper[w].handle \in {frame.out, frame.error} => wrapper[w].handle = Null
  /\ frame.out = frame.error => frame.out = Null

(* Every live object has an owner.                                         *)
Owned ==
  \A p \in Live(heap) :
    (\E w \in Wrappers : wrapper[w].handle = p) \/ p \in {frame.out, frame.error}

(* The handle a call has read is still that of its wrapper, and nothing is
   written before the native function returns.                             *)
CallHolds ==
  /\ frame.this # None => frame.handle = wrapper[frame.this].handle /\ frame.handle # Null
  /\ frame.status = "none" => frame.out = Null /\ frame.error = Null
  /\ frame.status = "ok" => frame.error = Null
  /\ frame.status \in {"error", "invalid"} => frame.out = Null

IInv == HostTypes /\ Released /\ Apart /\ Owned /\ CallHolds

-----------------------------------------------------------------------------
(* What a native function answers.                                          *)

(* The objects of a heap are there in the heap of an answer, as they were. *)
Same(h, a) == \A p \in Live(h) : p \in Live(a.heap) /\ a.heap[p] = h[p]

(* A function leaves one new object at most, the one it wrote through an out
   parameter, numbered q, and none that it was given is gone.              *)
Outcome(h, q, a) ==
  \/ a.status = "ok" /\ a.error = Null /\ a.out = Null /\ Live(a.heap) = Live(h)
  \/ a.status = "ok" /\ a.error = Null /\ a.out = q /\ Live(a.heap) = Live(h) \cup {q}
  \/ a.status = "error" /\ a.out = Null /\ a.error = q /\ Live(a.heap) = Live(h) \cup {q}
  \/ a.status = "invalid" /\ a.out = Null /\ a.error = Null /\ Live(a.heap) = Live(h)

Sound(h, q, a) ==
  /\ a = Answer(a.heap, a.status, a.out, a.error)
  /\ Outcome(h, q, a)
  /\ a.status # "ok" => Same(h, a)

Unused(h, q) == q \in Nat \ {Null} /\ q \notin Live(h)

(* INVALID_ARGUMENT leaves everything alone. *)
LEMMA InvalidSound ==
  ASSUME NEW h, NEW q
  PROVE  Sound(h, q, Invalid(h)) /\ Invalid(h).status = "invalid"
BY DEF Sound, Outcome, Same, Invalid, Answer, Live

(* deliver_error adds the error object and nothing else. *)
LEMMA ErrorSound ==
  ASSUME NEW h, NEW q, Unused(h, q)
  PROVE  Sound(h, q, DeliverError(h, q, TRUE)) /\ DeliverError(h, q, TRUE).status = "error"
BY DEF Sound, Outcome, Same, DeliverError, Answer, Put, Live, Unused

(* A result delivered is the only new object. *)
LEMMA DeliverSound ==
  ASSUME NEW h, NEW q, NEW object
  PROVE  Sound(h, q, Deliver(h, q, object))
BY DEF Sound, Outcome, Deliver, Answer, Put, Live

(* Editing a builder in place makes no new object. *)
LEMMA EditSound ==
  ASSUME NEW h, NEW q, NEW g, DOMAIN g = DOMAIN h
  PROVE  Sound(h, q, Answer(g, "ok", Null, Null))
BY DEF Sound, Outcome, Answer, Live

LEMMA AddModuleSound ==
  ASSUME NEW h, NEW q, Unused(h, q), NEW b, NEW name, NEW utf8 \in BOOLEAN
  PROVE  Sound(h, q, AddModule(h, q, b, name, utf8, TRUE))
<1> DEFINE pushed == [h EXCEPT ![b].modules = Append(@, Module(name))]
<1>1. Sound(h, q, Answer(pushed, "ok", Null, Null))
  <2>1. DOMAIN pushed = DOMAIN h
    OBVIOUS
  <2>2. QED
    BY <2>1, EditSound
<1>2. Sound(h, q, Invalid(h)) /\ Sound(h, q, DeliverError(h, q, TRUE))
  BY InvalidSound, ErrorSound
<1>3. AddModule(h, q, b, name, utf8, TRUE)
        \in {Invalid(h), DeliverError(h, q, TRUE), Answer(pushed, "ok", Null, Null)}
  BY DEF AddModule
<1>4. QED
  BY <1>1, <1>2, <1>3

LEMMA ResolveImportSound ==
  ASSUME NEW h, NEW q, Unused(h, q), NEW b, NEW name, NEW target
  PROVE  Sound(h, q, ResolveImport(h, q, b, name, target, TRUE))
<1> DEFINE named(i) == h[b].modules[i].canonical_id = name
           first == CHOOSE i \in DOMAIN h[b].modules : named(i) /\ \A j \in 1 .. i - 1 : ~named(j)
           edited == [h EXCEPT ![b].modules[first].resolved_imports = Append(@, target)]
<1>1. Sound(h, q, Answer(edited, "ok", Null, Null))
  <2> HIDE DEF first
  <2>1. DOMAIN edited = DOMAIN h
    OBVIOUS
  <2> HIDE DEF edited
  <2>2. QED
    BY <2>1, EditSound
<1>2. Sound(h, q, Invalid(h)) /\ Sound(h, q, DeliverError(h, q, TRUE))
  BY InvalidSound, ErrorSound
<1>3. ResolveImport(h, q, b, name, target, TRUE)
        \in {Invalid(h), DeliverError(h, q, TRUE), Answer(edited, "ok", Null, Null)}
  BY DEF ResolveImport
<1>4. QED
  BY <1>1, <1>2, <1>3

LEMMA BuilderCompileSound ==
  ASSUME NEW h, NEW q, Unused(h, q), NEW b, NEW root, NEW c \in BOOLEAN
  PROVE  Sound(h, q, BuilderCompile(h, q, b, root, TRUE, TRUE, c))
<1> DEFINE object == Object("grammar", h[b].modules)
<1>1. Sound(h, q, Deliver(h, q, object))
  BY DeliverSound
<1>2. Sound(h, q, Invalid(h)) /\ Sound(h, q, DeliverError(h, q, TRUE))
  BY InvalidSound, ErrorSound
<1>3. BuilderCompile(h, q, b, root, TRUE, TRUE, c)
        \in {Invalid(h), DeliverError(h, q, TRUE), Deliver(h, q, object)}
  BY DEF BuilderCompile
<1>4. QED
  BY <1>1, <1>2, <1>3

(* A module added changes the builder b only. *)
ChangesOnly(h, b, a) ==
  a.status = "ok" => Live(a.heap) = Live(h) /\ \A p \in Live(h) \ {b} : a.heap[p] = h[p]

LEMMA AddModuleEdits ==
  ASSUME NEW h, NEW q, NEW b, NEW name, NEW utf8 \in BOOLEAN
  PROVE  ChangesOnly(h, b, AddModule(h, q, b, name, utf8, TRUE))
<1> DEFINE pushed == [h EXCEPT ![b].modules = Append(@, Module(name))]
<1>1. DOMAIN pushed = DOMAIN h /\ \A p \in DOMAIN h \ {b} : pushed[p] = h[p]
  OBVIOUS
<1>2. ChangesOnly(h, b, Answer(pushed, "ok", Null, Null))
  <2> HIDE DEF pushed
  <2>1. QED
    BY <1>1 DEF ChangesOnly, Answer, Live
<1>3. ChangesOnly(h, b, Invalid(h)) /\ ChangesOnly(h, b, DeliverError(h, q, TRUE))
  BY DEF ChangesOnly, Invalid, DeliverError, Answer
<1>4. AddModule(h, q, b, name, utf8, TRUE)
        \in {Invalid(h), DeliverError(h, q, TRUE), Answer(pushed, "ok", Null, Null)}
  BY DEF AddModule
<1>5. QED
  BY <1>2, <1>3, <1>4

(* meco_grammar_compile leaves its temporary builder behind on no path. *)
LEMMA GrammarCompileSound ==
  ASSUME NEW h, NEW q, Unused(h, q), Unused(h, q + 1), NEW name, NEW utf8 \in BOOLEAN,
         NEW c \in BOOLEAN
  PROVE  Sound(h, q + 1, GrammarCompile(h, q, name, utf8, TRUE, TRUE, c))
<1> DEFINE new == BuilderNew(h, q)
           added == AddModule(new.heap, q + 1, new.out, name, utf8, TRUE)
           compiled == BuilderCompile(added.heap, q + 1, new.out, name, TRUE, TRUE, c)
           last == IF added.status = "ok" THEN compiled ELSE added
           a == GrammarCompile(h, q, name, utf8, TRUE, TRUE, c)
<1>1. /\ new.out = q /\ Live(new.heap) = Live(h) \cup {q}
      /\ \A p \in Live(h) : new.heap[p] = h[p]
  BY DEF BuilderNew, Deliver, Answer, Put, Live, Unused
<1>2. q \notin Live(h) /\ q # q + 1
  BY DEF Unused
<1>3. a = [last EXCEPT !.heap = Free(@, q)]
  BY <1>1 DEF GrammarCompile
<1> HIDE DEF new
<1>4. Unused(new.heap, q + 1)
  BY <1>1, <1>2 DEF Unused
<1>5. Sound(new.heap, q + 1, added)
  BY <1>4, AddModuleSound
<1>6. ASSUME added.status = "ok"
      PROVE  Live(added.heap) = Live(new.heap) /\ \A p \in Live(h) : added.heap[p] = h[p]
  <2>1. /\ Live(added.heap) = Live(new.heap)
        /\ \A p \in Live(new.heap) \ {new.out} : added.heap[p] = new.heap[p]
    <3>1. ChangesOnly(new.heap, new.out, added)
      BY AddModuleEdits
    <3> HIDE DEF added
    <3>2. QED
      BY <1>6, <3>1 DEF ChangesOnly
  <2> HIDE DEF added
  <2>2. QED
    BY <1>1, <1>2, <2>1
<1> HIDE DEF added
<1>7. ASSUME added.status = "ok" PROVE Sound(added.heap, q + 1, compiled)
  <2>1. Unused(added.heap, q + 1)
    BY <1>4, <1>6, <1>7 DEF Unused
  <2>2. QED
    BY <2>1, BuilderCompileSound
<1> HIDE DEF compiled
<1>8. last = Answer(last.heap, last.status, last.out, last.error)
  BY <1>5, <1>7 DEF Sound
<1>9. /\ Outcome(new.heap, q + 1, last)
      /\ last.status # "ok" => \A p \in Live(h) : last.heap[p] = h[p]
  <2>1. CASE added.status = "ok"
    <3>1. last = compiled
      BY <2>1
    <3> HIDE DEF last
    <3>2. Live(added.heap) = Live(new.heap) /\ \A p \in Live(h) : added.heap[p] = h[p]
      BY <1>6, <2>1
    <3>3. Sound(added.heap, q + 1, compiled)
      BY <1>7, <2>1
    <3>4. QED
      BY <1>1, <3>1, <3>2, <3>3 DEF Sound, Outcome, Same
  <2>2. CASE added.status # "ok"
    <3>1. last = added
      BY <2>2
    <3> HIDE DEF last
    <3>2. QED
      BY <1>1, <1>5, <2>2, <3>1 DEF Sound, Same
  <2>3. QED
    BY <2>1, <2>2
<1> HIDE DEF last
<1>10. /\ a.heap = Free(last.heap, q) /\ a.status = last.status /\ a.out = last.out
       /\ a.error = last.error /\ a = Answer(a.heap, a.status, a.out, a.error)
  BY <1>3, <1>8 DEF Answer
<1> HIDE DEF a
<1>11. Live(a.heap) = Live(last.heap) \ {q} /\ \A p \in Live(a.heap) : a.heap[p] = last.heap[p]
  BY <1>10 DEF Free, Live
<1>12. Outcome(h, q + 1, a)
  BY <1>1, <1>2, <1>9, <1>10, <1>11 DEF Outcome
<1>13. a.status # "ok" => Same(h, a)
  BY <1>1, <1>2, <1>9, <1>10, <1>11, <1>12 DEF Same, Outcome
<1>14. QED
  BY <1>10, <1>12, <1>13 DEF Sound, a
(* Decoding, encoding and generating deliver one object or report an error. *)
LEMMA DecodeSound ==
  ASSUME NEW h, NEW q, Unused(h, q), NEW bytes, NEW d \in BOOLEAN
  PROVE  Sound(h, q, GrammarDecode(h, q, bytes, TRUE, TRUE, d))
<1>1. /\ Sound(h, q, Invalid(h)) /\ Sound(h, q, DeliverError(h, q, TRUE))
      /\ Sound(h, q, Deliver(h, q, Object("grammar", <<>>)))
  BY InvalidSound, ErrorSound, DeliverSound
<1>2. QED
  BY <1>1 DEF GrammarDecode

LEMMA EncodeSound ==
  ASSUME NEW h, NEW q, Unused(h, q), NEW g, NEW profile, NEW e \in BOOLEAN
  PROVE  Sound(h, q, GrammarEncode(h, q, g, profile, TRUE, TRUE, e))
<1>1. /\ Sound(h, q, Invalid(h)) /\ Sound(h, q, DeliverError(h, q, TRUE))
      /\ Sound(h, q, Deliver(h, q, Object("artifact", <<>>)))
  BY InvalidSound, ErrorSound, DeliverSound
<1>2. QED
  BY <1>1 DEF GrammarEncode

LEMMA GenerateSound ==
  ASSUME NEW h, NEW q, Unused(h, q), NEW g, NEW entry, NEW bindings, NEW e \in BOOLEAN
  PROVE  Sound(h, q, GrammarGenerate(h, q, g, entry, bindings, TRUE, TRUE, e))
<1>1. /\ Sound(h, q, Invalid(h)) /\ Sound(h, q, DeliverError(h, q, TRUE))
      /\ Sound(h, q, Deliver(h, q, Object("generated", <<>>)))
  BY InvalidSound, ErrorSound, DeliverSound
<1>2. QED
  BY <1>1 DEF GrammarGenerate

-----------------------------------------------------------------------------
(* The steps of the host.                                                   *)

(* A step in which the native function of the running call returns. *)
NativeStep ==
  \/ \E n \in Argument, utf8 \in BOOLEAN : RunAddModule(n, utf8)
  \/ \E n, t \in Argument : RunResolveImport(n, t)
  \/ \E r \in Argument \cup {""}, c \in BOOLEAN : RunCompilePackage(r, c)
  \/ \E n \in Argument, utf8, c \in BOOLEAN : RunCompile(n, utf8, c)
  \/ \E d \in BOOLEAN : RunDecode(d)
  \/ \E p \in 0 .. 3, e \in BOOLEAN : RunEncode(p, e)
  \/ \E n \in Names : \E b \in Bindings(n) : \E g \in BOOLEAN : RunGenerate(b, g)
  \/ RunEntries

(* Whatever function it is, what it answers is sound. *)
LEMMA NativeSound ==
  ASSUME HostTypes, NativeStep
  PROVE  \E q \in {Fresh, Fresh + 1} : \E a : Sound(heap, q, a) /\ Return(a)
<1>1. Unused(heap, Fresh) /\ Unused(heap, Fresh + 1)
  BY DEF HostTypes, Unused, Fresh, Null
<1>2. ASSUME NEW n, NEW utf8 \in BOOLEAN, RunAddModule(n, utf8)
      PROVE  \E a : Sound(heap, Fresh, a) /\ Return(a)
  BY <1>1, <1>2, AddModuleSound DEF RunAddModule
<1>3. ASSUME NEW n, NEW t, RunResolveImport(n, t)
      PROVE  \E a : Sound(heap, Fresh, a) /\ Return(a)
  BY <1>1, <1>3, ResolveImportSound DEF RunResolveImport
<1>4. ASSUME NEW r, NEW c \in BOOLEAN, RunCompilePackage(r, c)
      PROVE  \E a : Sound(heap, Fresh, a) /\ Return(a)
  BY <1>1, <1>4, BuilderCompileSound DEF RunCompilePackage
<1>5. ASSUME NEW n, NEW utf8 \in BOOLEAN, NEW c \in BOOLEAN, RunCompile(n, utf8, c)
      PROVE  \E a : Sound(heap, Fresh + 1, a) /\ Return(a)
  BY <1>1, <1>5, GrammarCompileSound DEF RunCompile
<1>6. ASSUME NEW d \in BOOLEAN, RunDecode(d)
      PROVE  \E a : Sound(heap, Fresh, a) /\ Return(a)
  BY <1>1, <1>6, DecodeSound DEF RunDecode
<1>7. ASSUME NEW p, NEW e \in BOOLEAN, RunEncode(p, e)
      PROVE  \E a : Sound(heap, Fresh, a) /\ Return(a)
  BY <1>1, <1>7, EncodeSound DEF RunEncode
<1>8. ASSUME NEW b, NEW g \in BOOLEAN, RunGenerate(b, g)
      PROVE  \E a : Sound(heap, Fresh, a) /\ Return(a)
  BY <1>1, <1>8, GenerateSound DEF RunGenerate
<1>9. ASSUME RunEntries
      PROVE  \E a : Sound(heap, Fresh, a) /\ Return(a)
  BY <1>9, EditSound DEF RunEntries
<1>10. QED
  BY <1>2, <1>3, <1>4, <1>5, <1>6, <1>7, <1>8, <1>9 DEF NativeStep
(* The count of objects made follows the pointers. *)
LEMMA NewestIs ==
  ASSUME HostTypes, NEW q \in {Fresh, Fresh + 1}, NEW S,
         S = Live(heap) \/ S = Live(heap) \cup {q}
  PROVE  Max({made} \cup S) = IF q \in S THEN q ELSE made
<1>1. made \in Nat /\ q \in Nat /\ q > made /\ Live(heap) \subseteq 1 .. made
  BY DEF HostTypes, Fresh
<1>2. PICK m : m = IF q \in S THEN q ELSE made
  OBVIOUS
<1>3. m \in {made} \cup S /\ {made} \cup S \subseteq Nat /\ \A y \in {made} \cup S : m >= y
  <2>1. CASE q \in S
    BY <1>1, <1>2, <2>1
  <2>2. CASE q \notin S
    <3>1. S = Live(heap) /\ m = made
      BY <1>2, <2>2
    <3>2. QED
      BY <1>1, <3>1
  <2>3. QED
    BY <2>1, <2>2
<1> DEFINE T == {made} \cup S
<1>4. /\ (CHOOSE x \in T : \A y \in T : x >= y) \in T
      /\ \A y \in T : (CHOOSE x \in T : \A z \in T : x >= z) >= y
  <2> HIDE DEF T
  <2>1. \E x \in T : \A y \in T : x >= y
    BY <1>3 DEF T
  <2>2. QED
    BY <2>1
<1>5. QED
  <2>1. Max(T) = CHOOSE x \in T : \A y \in T : x >= y
    BY DEF Max
  <2>2. Max(T) \in T /\ \A y \in T : Max(T) >= y
    BY <1>4, <2>1
  <2>3. Max(T) >= m /\ m >= Max(T) /\ Max(T) \in Nat /\ m \in Nat
    BY <1>3, <2>2
  <2>4. QED
    BY <1>2, <2>3

(* What the call wrote is its own: nobody else owns a new object. *)
LEMMA ReturnInv ==
  ASSUME IInv, Running, NEW q \in {Fresh, Fresh + 1}, NEW a, Sound(heap, q, a), Return(a)
  PROVE  IInv'
<1>1. /\ heap' = a.heap /\ wrapper' = wrapper /\ made' = Max({made} \cup Live(a.heap))
      /\ frame' = [frame EXCEPT !.status = a.status, !.out = a.out, !.error = a.error]
  BY DEF Return
<1>2. /\ made \in Nat /\ Live(heap) \subseteq 1 .. made
      /\ wrapper \in [Wrappers -> WrapperType] /\ frame \in FrameType
  BY DEF IInv, HostTypes
<1>3. q \in Nat \ {0} /\ q > made /\ q \notin Live(heap) /\ Null = 0
  BY <1>2 DEF Fresh, Null
<1>4. Outcome(heap, q, a)
  BY DEF Sound
<1>5. made' = IF q \in Live(a.heap) THEN q ELSE made
  BY <1>1, <1>4, NewestIs DEF IInv, Outcome
<1>6. frame.out = Null /\ frame.error = Null
  BY DEF IInv, CallHolds, Running
<1>7. PICK f : f = frame'
  OBVIOUS
<1>8. /\ f.op = frame.op /\ f.this = frame.this /\ f.handle = frame.handle
      /\ f.status = a.status /\ f.out = a.out /\ f.error = a.error
      /\ f \in FrameType
  <2>1. a.out \in Nat /\ a.error \in Nat /\ a.status \in {"ok", "error", "invalid"}
    BY <1>3, <1>4 DEF Outcome
  <2>2. QED
    BY <1>1, <1>2, <1>7, <2>1 DEF FrameType
<1>9. PICK L : L = Live(a.heap)
  OBVIOUS
<1>10. Live(heap)' = L
  BY <1>1, <1>9 DEF Live
<1>11. /\ L = Live(heap) \/ L = Live(heap) \cup {q}
       /\ {f.out, f.error} \subseteq {Null} \cup (L \ Live(heap))
       /\ L \ Live(heap) \subseteq {f.out, f.error}
       /\ f.out = f.error => f.out = Null
       /\ f.status # "none"
       /\ f.status = "ok" => f.error = Null
       /\ f.status \in {"error", "invalid"} => f.out = Null
  BY <1>3, <1>4, <1>8, <1>9 DEF Outcome
<1>12. HostTypes'
  <2>1. made' \in Nat /\ L \subseteq 1 .. made'
    BY <1>2, <1>3, <1>5, <1>9, <1>11
  <2>2. QED
    BY <1>1, <1>2, <1>7, <1>8, <1>10, <2>1 DEF HostTypes
<1>13. Released'
  <2>1. \A w \in Wrappers : wrapper[w].handle \in {Null} \cup L
    BY <1>11 DEF IInv, Released
  <2>2. QED
    BY <1>1, <1>7, <1>10, <1>11, <2>1 DEF Released
<1>14. Apart'
  <2>1. \A w \in Wrappers : wrapper[w].handle \in {f.out, f.error} => wrapper[w].handle = Null
    BY <1>11 DEF IInv, Released
  <2>2. QED
    BY <1>1, <1>7, <1>11, <2>1 DEF IInv, Apart
<1>15. Owned'
  <2>1. \A p \in Live(heap) : \E w \in Wrappers : wrapper[w].handle = p
    BY <1>2, <1>3, <1>6 DEF IInv, Owned
  <2>2. \A p \in L : (\E w \in Wrappers : wrapper[w].handle = p) \/ p \in {f.out, f.error}
    BY <1>11, <2>1
  <2>3. QED
    BY <1>1, <1>7, <1>10, <2>2 DEF Owned
<1>16. CallHolds'
  BY <1>1, <1>7, <1>8, <1>11 DEF IInv, CallHolds
<1>17. QED
  BY <1>12, <1>13, <1>14, <1>15, <1>16 DEF IInv
(* An object without owner may go: nothing else refers to it. *)
LEMMA Freed ==
  ASSUME NEW h, NEW p
  PROVE  Live(Free(h, p)) = Live(h) \ {p}
BY DEF Free, Live

LEMMA IdleFrame ==
  /\ Idle \in FrameType
  /\ Idle.op = "idle" /\ Idle.this = None /\ Idle.out = Null /\ Idle.error = Null
  /\ Idle.status = "none"
BY DEF Idle, FrameType, Operations, Null

(* A builder is owned by the wrapper it was made for. *)
LEMMA NewBuilderInv ==
  ASSUME IInv, NEW w \in Wrappers, NewBuilder(w)
  PROVE  IInv'
<1>1. /\ frame = Idle /\ frame' = frame /\ wrapper[w] = Unmade /\ made' = made + 1
      /\ wrapper' = [wrapper EXCEPT ![w] = Adopted("builder", made + 1)]
      /\ heap' = BuilderNew(heap, made + 1).heap
  BY DEF NewBuilder, Fresh
<1>2. Live(heap)' = Live(heap) \cup {made + 1}
  <2>1. BuilderNew(heap, made + 1).heap = Put(heap, made + 1, Object("builder", <<>>))
    BY DEF BuilderNew, Deliver, Answer
  <2>2. QED
    BY <1>1, <2>1 DEF Put, Live
<1>3. /\ made \in Nat /\ Live(heap) \subseteq 1 .. made
      /\ wrapper \in [Wrappers -> WrapperType] /\ frame \in FrameType
  BY DEF IInv, HostTypes
<1>4. /\ wrapper'[w].handle = made + 1 /\ wrapper[w].handle = Null
      /\ wrapper'[w] \in WrapperType
      /\ \A v \in Wrappers \ {w} : wrapper'[v] = wrapper[v]
  BY <1>1, <1>3 DEF Adopted, Unmade, WrapperType
<1>5. HostTypes'
  <2>1. wrapper' \in [Wrappers -> WrapperType]
    BY <1>1, <1>3, <1>4
  <2>2. QED
    BY <1>1, <1>2, <1>3, <2>1 DEF HostTypes
<1>6. Released'
  BY <1>1, <1>2, <1>4, IdleFrame DEF IInv, Released
<1>7. Apart'
  <2>1. \A v \in Wrappers : wrapper[v].handle # made + 1
    BY <1>3 DEF IInv, Released, Null
  <2>2. \A v \in Wrappers \ {w} : wrapper'[v].handle # wrapper'[w].handle
    BY <1>4, <2>1
  <2>3. frame'.out = Null /\ frame'.error = Null /\ wrapper'[w].handle # Null
    BY <1>1, <1>3, <1>4, IdleFrame DEF Null
  <2>4. QED
    BY <1>4, <2>2, <2>3 DEF IInv, Apart
<1>8. Owned'
  BY <1>1, <1>2, <1>4, IdleFrame DEF IInv, Owned, Null
<1>9. CallHolds'
  BY <1>1, IdleFrame DEF CallHolds
<1>10. QED
  BY <1>5, <1>6, <1>7, <1>8, <1>9 DEF IInv

(* A call that begins owns nothing yet. *)
LEMMA EnterInv ==
  ASSUME IInv, (\E op \in Statics : EnterStatic(op))
               \/ \E w \in Wrappers : \E op \in Methods(wrapper[w].kind) : Enter(w, op)
  PROVE  IInv'
<1>1. /\ frame = Idle /\ UNCHANGED <<heap, made, wrapper>> /\ Live(heap)' = Live(heap)
      /\ \/ \E op \in Statics : frame' = [Idle EXCEPT !.op = op]
         \/ \E w \in Wrappers : \E op \in Methods(wrapper[w].kind) :
              /\ wrapper[w].handle # Null
              /\ frame' = [Idle EXCEPT !.op = op, !.this = w, !.handle = wrapper[w].handle]
  BY DEF EnterStatic, Enter, Live
<1>2. HostTypes /\ wrapper \in [Wrappers -> WrapperType]
  BY DEF IInv, HostTypes
<1>3. /\ frame' \in FrameType /\ frame'.out = Null /\ frame'.error = Null
      /\ frame'.status = "none"
      /\ frame'.this # None =>
           frame'.this \in Wrappers /\ frame'.handle = wrapper[frame'.this].handle
           /\ frame'.handle # Null
  <2>1. CASE \E op \in Statics : frame' = [Idle EXCEPT !.op = op]
    BY <2>1 DEF Statics, Idle, FrameType, Operations, Null
  <2>2. ASSUME NEW w \in Wrappers, NEW op \in Methods(wrapper[w].kind), wrapper[w].handle # Null,
               frame' = [Idle EXCEPT !.op = op, !.this = w, !.handle = wrapper[w].handle]
        PROVE  <1>3!:
    <3>1. op \in Operations
      BY DEF Methods, Operations
    <3>2. wrapper[w].handle \in Nat
      BY <1>2 DEF WrapperType
    <3>3. QED
      BY <2>2, <3>1, <3>2 DEF Idle, FrameType, Null
  <2>3. QED
    BY <1>1, <2>1, <2>2
<1>4. frame.out = Null /\ frame.error = Null
  BY <1>1, IdleFrame
<1>5. HostTypes'
  BY <1>1, <1>2, <1>3 DEF HostTypes
<1>6. Released' /\ Apart' /\ Owned'
  BY <1>1, <1>3, <1>4 DEF IInv, Released, Apart, Owned
<1>7. CallHolds'
  BY <1>1, <1>3 DEF CallHolds
<1>8. QED
  BY <1>5, <1>6, <1>7 DEF IInv
(* A call ends well when what it owned is gone with it. *)
LEMMA EndOfCall ==
  ASSUME IInv, UNCHANGED <<made, wrapper>>, frame' = Idle,
         Live(heap)' = Live(heap) \ {frame.out, frame.error}
  PROVE  IInv'
<1>1. /\ wrapper' = wrapper /\ made' = made /\ frame' \in FrameType
      /\ frame'.this = None /\ frame'.out = Null /\ frame'.error = Null /\ frame'.status = "none"
  BY IdleFrame
<1>2. HostTypes' /\ CallHolds'
  BY <1>1 DEF IInv, HostTypes, CallHolds
<1>3. Released' /\ Apart'
  BY <1>1 DEF IInv, Released, Apart
<1>4. Owned'
  BY <1>1 DEF IInv, Owned
<1>5. QED
  BY <1>2, <1>3, <1>4 DEF IInv

LEMMA LeavingInv ==
  ASSUME IInv, LeavePlain \/ ConsumeError \/ CopyAndFree
  PROVE  IInv'
<1>1. Null \notin Live(heap)
  BY DEF IInv, HostTypes, Null
<1>2. frame.status = "ok" => frame.error = Null
  BY DEF IInv, CallHolds
<1>3. frame.status \in {"error", "invalid"} => frame.out = Null
  BY DEF IInv, CallHolds
<1>4. CASE LeavePlain
  <2>1. Live(heap)' = Live(heap) \ {frame.out, frame.error}
    BY <1>1, <1>2, <1>4 DEF LeavePlain, Live
  <2>2. QED
    BY <1>4, <2>1, EndOfCall DEF LeavePlain
<1>5. CASE ConsumeError
  <2>1. frame.out = Null
    <3>1. frame.status \in {"none", "ok", "error", "invalid"}
      BY DEF IInv, HostTypes, FrameType
    <3>2. QED
      BY <1>3, <1>5, <3>1 DEF ConsumeError, Returned
  <2>2. Live(heap)' = Live(heap) \ {frame.error}
    <3>1. heap' = Free(heap, frame.error)
      BY <1>5 DEF ConsumeError
    <3>2. Live(heap') = Live(heap) \ {frame.error}
      BY <3>1, Freed
    <3>3. QED
      BY <3>2 DEF Live
  <2>3. QED
    BY <1>1, <1>5, <2>1, <2>2, EndOfCall DEF ConsumeError
<1>6. CASE CopyAndFree
  <2>1. frame.error = Null
    <3>1. frame.status \in {"none", "ok", "error", "invalid"}
      BY DEF IInv, HostTypes, FrameType
    <3>2. QED
      BY <1>2, <1>3, <1>6, <3>1 DEF CopyAndFree, Returned
  <2>2. Live(heap)' = Live(heap) \ {frame.out}
    <3>1. heap' = Free(heap, frame.out)
      BY <1>6 DEF CopyAndFree
    <3>2. Live(heap') = Live(heap) \ {frame.out}
      BY <3>1, Freed
    <3>3. QED
      BY <3>2 DEF Live
  <2>3. QED
    BY <1>1, <1>6, <2>1, <2>2, EndOfCall DEF CopyAndFree
<1>7. QED
  BY <1>4, <1>5, <1>6

(* The grammar passes from the call to a wrapper that owned nothing. *)
LEMMA AdoptInv ==
  ASSUME IInv, NEW w \in Wrappers, Adopt(w)
  PROVE  IInv'
<1>1. /\ wrapper[w] = Unmade /\ frame.out # Null /\ Returned
      /\ wrapper' = [wrapper EXCEPT ![w] = Adopted("grammar", frame.out)]
      /\ frame' = Idle /\ heap' = heap /\ made' = made /\ Live(heap)' = Live(heap)
  BY DEF Adopt, Live
<1>2. frame.error = Null
  <2>1. frame.status \in {"none", "ok", "error", "invalid"}
    BY DEF IInv, HostTypes, FrameType
  <2>2. QED
    BY <1>1, <2>1 DEF IInv, CallHolds, Returned
<1>3. /\ wrapper \in [Wrappers -> WrapperType] /\ frame.out \in Nat /\ frame.out \in Live(heap)
  BY <1>1 DEF IInv, HostTypes, FrameType, Released
<1>4. /\ wrapper'[w].handle = frame.out /\ wrapper[w].handle = Null
      /\ wrapper'[w] \in WrapperType
      /\ \A v \in Wrappers \ {w} : wrapper'[v] = wrapper[v]
  BY <1>1, <1>3 DEF Adopted, Unmade, WrapperType
<1>5. /\ frame' \in FrameType
      /\ frame'.this = None /\ frame'.out = Null /\ frame'.error = Null /\ frame'.status = "none"
  BY <1>1, IdleFrame
<1>6. HostTypes'
  <2>1. wrapper' \in [Wrappers -> WrapperType]
    BY <1>1, <1>3, <1>4
  <2>2. QED
    BY <1>1, <1>5, <2>1 DEF IInv, HostTypes
<1>7. Released'
  BY <1>1, <1>3, <1>4, <1>5 DEF IInv, Released
<1>8. Apart'
  <2>1. \A v \in Wrappers \ {w} : wrapper'[v].handle # wrapper'[w].handle
    BY <1>1, <1>4 DEF IInv, Apart
  <2>2. QED
    BY <1>1, <1>4, <1>5, <2>1 DEF IInv, Apart
<1>9. Owned'
  <2>1. ASSUME NEW p \in Live(heap)
        PROVE  \E v \in Wrappers : wrapper'[v].handle = p
    <3>1. CASE p = frame.out
      BY <1>4, <3>1
    <3>2. CASE p # frame.out
      <4>1. p # Null
        BY DEF IInv, HostTypes, Null
      <4>2. \E v \in Wrappers : wrapper[v].handle = p
        BY <1>2, <3>2, <4>1 DEF IInv, Owned
      <4>3. QED
        BY <1>4, <4>1, <4>2
    <3>3. QED
      BY <3>1, <3>2
  <2>2. QED
    BY <1>1, <2>1 DEF Owned
<1>10. CallHolds'
  BY <1>5 DEF CallHolds
<1>11. QED
  BY <1>6, <1>7, <1>8, <1>9, <1>10 DEF IInv

(* Forgetting a wrapper leaves its handle to the finalizer. *)
LEMMA ForgetInv ==
  ASSUME IInv, NEW w \in Wrappers, Forget(w)
  PROVE  IInv'
<1>1. /\ wrapper' = [wrapper EXCEPT ![w].held = FALSE]
      /\ heap' = heap /\ made' = made /\ frame' = frame /\ Live(heap)' = Live(heap)
  BY DEF Forget, Live
<1>2. wrapper \in [Wrappers -> WrapperType]
  BY DEF IInv, HostTypes
<1>3. wrapper' \in [Wrappers -> WrapperType] /\ \A v \in Wrappers : wrapper'[v].handle = wrapper[v].handle
  BY <1>1, <1>2 DEF WrapperType
<1>4. HostTypes' /\ Released' /\ Apart' /\ Owned'
  BY <1>1, <1>3 DEF IInv, HostTypes, Released, Apart, Owned
<1>5. CallHolds'
  <2>1. frame.this # None => frame.this \in Wrappers
    BY DEF IInv, HostTypes, FrameType
  <2>2. QED
    BY <1>1, <1>3, <2>1 DEF IInv, CallHolds
<1>6. QED
  BY <1>4, <1>5 DEF IInv

(* Dispose and the finalizer release a handle that no call works on. *)
LEMMA ReleaseInv ==
  ASSUME IInv, NEW w \in Wrappers, ReleaseHandle(w, TRUE), frame.this # w
  PROVE  IInv'
<1>1. /\ heap' = IF wrapper[w].handle = Null THEN heap ELSE Free(heap, wrapper[w].handle)
      /\ wrapper' = [wrapper EXCEPT ![w].handle = Null, ![w].suppressed = TRUE]
      /\ made' = made /\ frame' = frame
  BY DEF ReleaseHandle
<1>2. wrapper \in [Wrappers -> WrapperType] /\ Null \notin Live(heap)
  BY DEF IInv, HostTypes, Null
<1>3. /\ wrapper' \in [Wrappers -> WrapperType]
      /\ wrapper'[w].handle = Null /\ \A v \in Wrappers \ {w} : wrapper'[v] = wrapper[v]
  BY <1>1, <1>2 DEF WrapperType, Null
<1>4. Live(heap)' = Live(heap) \ {wrapper[w].handle}
  <2>1. Live(heap') = Live(heap) \ {wrapper[w].handle}
    <3>1. CASE wrapper[w].handle = Null
      BY <1>1, <1>2, <3>1
    <3>2. CASE wrapper[w].handle # Null
      BY <1>1, <3>2, Freed
    <3>3. QED
      BY <3>1, <3>2
  <2>2. QED
    BY <2>1 DEF Live
<1>5. HostTypes'
  BY <1>1, <1>3, <1>4 DEF IInv, HostTypes
<1>6. Released'
  <2>1. \A v \in Wrappers \ {w} : wrapper[v].handle \in {Null} \cup Live(heap)'
    BY <1>4 DEF IInv, Released, Apart
  <2>2. {frame.out, frame.error} \subseteq {Null} \cup Live(heap)'
    BY <1>4 DEF IInv, Released, Apart
  <2>3. QED
    BY <1>1, <1>3, <2>1, <2>2 DEF Released
<1>7. Apart'
  BY <1>1, <1>3 DEF IInv, Apart
<1>8. Owned'
  <2>1. ASSUME NEW p \in Live(heap) \ {wrapper[w].handle}
        PROVE  (\E v \in Wrappers : wrapper'[v].handle = p) \/ p \in {frame.out, frame.error}
    BY <1>3 DEF IInv, Owned
  <2>2. QED
    BY <1>1, <1>4, <2>1 DEF Owned
<1>9. CallHolds'
  <2>1. frame.this # None => frame.this \in Wrappers \ {w}
    BY DEF IInv, HostTypes, FrameType
  <2>2. QED
    BY <1>1, <1>3, <2>1 DEF IInv, CallHolds
<1>10. QED
  BY <1>5, <1>6, <1>7, <1>8, <1>9 DEF IInv

LEMMA InitInv == Init => IInv
<1> SUFFICES ASSUME Init PROVE IInv
  OBVIOUS
<1>1. Live(heap) = {} /\ made = 0 /\ wrapper = [w \in Wrappers |-> Unmade] /\ frame = Idle
  BY DEF Init, Live
<1>2. Unmade \in WrapperType /\ Unmade.handle = Null
  BY DEF Unmade, WrapperType, Null
<1> HIDE DEF Unmade
<1>3. HostTypes
  BY <1>1, <1>2, IdleFrame DEF HostTypes
<1>4. Released /\ Apart /\ Owned /\ CallHolds
  BY <1>1, <1>2, IdleFrame DEF Released, Apart, Owned, CallHolds
<1>5. QED
  BY <1>3, <1>4 DEF IInv

LEMMA StepInv == IInv /\ [Next]_vars => IInv'
<1> SUFFICES ASSUME IInv, [Next]_vars PROVE IInv'
  OBVIOUS
<1>1. CASE UNCHANGED vars
  BY <1>1 DEF vars, IInv, HostTypes, Released, Apart, Owned, CallHolds, Live
<1>2. ASSUME NEW w \in Wrappers, NewBuilder(w) PROVE IInv'
  BY <1>2, NewBuilderInv
<1>3. CASE \/ \E op \in Statics : EnterStatic(op)
           \/ \E w \in Wrappers : \E op \in Methods(wrapper[w].kind) : Enter(w, op)
  BY <1>3, EnterInv
<1>4. CASE Running /\ NativeStep
  <2>1. PICK q \in {Fresh, Fresh + 1} : \E a : Sound(heap, q, a) /\ Return(a)
    BY <1>4, NativeSound DEF IInv
  <2>2. PICK a : Sound(heap, q, a) /\ Return(a)
    BY <2>1
  <2>3. QED
    BY <1>4, <2>2, ReturnInv
<1>5. CASE LeavePlain \/ ConsumeError \/ CopyAndFree
  BY <1>5, LeavingInv
<1>6. ASSUME NEW w \in Wrappers, Adopt(w) PROVE IInv'
  BY <1>6, AdoptInv
<1>7. ASSUME NEW w \in Wrappers, Forget(w) PROVE IInv'
  BY <1>7, ForgetInv
<1>8. ASSUME NEW w \in Wrappers, Dispose(w) PROVE IInv'
  <2>1. frame.this # w
    BY <1>8, IdleFrame, WrappersAssumption DEF Dispose, None
  <2>2. QED
    BY <1>8, <2>1, ReleaseInv DEF Dispose
<1>9. ASSUME NEW w \in Wrappers, Finalize(w) PROVE IInv'
  <2>1. frame.this # w
    BY <1>9 DEF Finalize, Reachable
  <2>2. QED
    BY <1>9, <2>1, ReleaseInv DEF Finalize
<1>10. QED
  BY <1>1, <1>2, <1>3, <1>4, <1>5, <1>6, <1>7, <1>8, <1>9 DEF Next, NativeStep

-----------------------------------------------------------------------------
(* The theorems.                                                            *)

(* The inductive invariant: who owns which native object, through every     *)
(* constructor, call, error path, Dispose and finalizer.                    *)
THEOREM OwnershipInvariant == Spec => []IInv
<1>1. Init => IInv
  BY InitInv
<1>2. IInv /\ [Next]_vars => IInv'
  BY StepInv
<1>3. QED
  BY <1>1, <1>2, PTL DEF Spec

(* No native function and no borrowed view works on a freed object, however *)
(* early the application forgets a wrapper and however often the collector  *)
(* runs: GC.KeepAlive in the finally block is enough.                       *)
THEOREM NothingDangles == Spec => []NoDangling
<1>1. IInv => NoDangling
  <2> SUFFICES ASSUME IInv PROVE NoDangling
    OBVIOUS
  <2>1. frame.this # None => frame.this \in Wrappers
    BY DEF IInv, HostTypes, FrameType
  <2>2. QED
    BY <2>1 DEF IInv, Released, CallHolds, NoDangling
<1>2. QED
  BY <1>1, OwnershipInvariant, PTL

LEMMA InvOneOwner == IInv => OneOwner
<1> SUFFICES ASSUME IInv PROVE OneOwner
  OBVIOUS
<1>1. ASSUME NEW p \in Live(heap)
      PROVE  Cardinality({w \in Wrappers : wrapper[w].handle = p}
                           \cup {slot \in {"out", "error"} : frame[slot] = p}) = 1
  <2> DEFINE owners == {w \in Wrappers : wrapper[w].handle = p}
                         \cup {slot \in {"out", "error"} : frame[slot] = p}
  <2>1. p # Null
    BY DEF IInv, HostTypes, Null
  <2>2. \E x : owners = {x}
    <3>1. CASE \E w \in Wrappers : wrapper[w].handle = p
      <4>1. PICK w \in Wrappers : wrapper[w].handle = p
        BY <3>1
      <4>2. \A v \in Wrappers : wrapper[v].handle = p => v = w
        BY <2>1, <4>1 DEF IInv, Apart
      <4>3. frame.out # p /\ frame.error # p
        BY <2>1, <4>1 DEF IInv, Apart
      <4>4. owners = {w}
        BY <4>1, <4>2, <4>3
      <4>5. QED
        BY <4>4
    <3>2. CASE ~\E w \in Wrappers : wrapper[w].handle = p
      <4>1. frame.out = p \/ frame.error = p
        BY <3>2 DEF IInv, Owned
      <4>2. ~(frame.out = p /\ frame.error = p)
        BY <2>1 DEF IInv, Apart
      <4>3. owners = {"out"} \/ owners = {"error"}
        BY <3>2, <4>1, <4>2
      <4>4. QED
        BY <4>3
    <3>3. QED
      BY <3>1, <3>2
  <2> HIDE DEF owners
  <2>3. Cardinality(owners) = 1
    BY <2>2, FS_Singleton
  <2>4. QED
    BY <2>3 DEF owners
<1>2. \A w \in Wrappers : wrapper[w].handle \in {Null} \cup Live(heap)
  BY DEF IInv, Released
<1>3. QED
  BY <1>1, <1>2 DEF OneOwner

(* Every live native object has exactly one owner: nothing is freed twice   *)
(* and nothing is left behind by a call that fails.                         *)
THEOREM EveryObjectOwned == Spec => []OneOwner
<1>1. QED
  BY InvOneOwner, OwnershipInvariant, PTL

(* The statuses of the C ABI: what a call wrote, and what it left alone. *)
LEMMA StatusesMean ==
  ASSUME IInv, [Next]_vars, Running, frame'.status # "none"
  PROVE  /\ frame'.status = "ok" => frame'.error = Null
         /\ frame'.status = "error" => frame'.error \notin {Null} \cup Live(heap) /\ frame'.out = Null
         /\ frame'.status = "invalid" => frame'.error = Null /\ frame'.out = Null
         /\ frame'.status # "ok" => \A p \in Live(heap) : p \in Live(heap') /\ heap'[p] = heap[p]
<1>1. frame.op # "idle" /\ frame.status = "none"
  BY DEF Running
<1>2. frame # Idle
  BY <1>1, IdleFrame
<1>3. frame' # frame /\ frame' # Idle
  BY <1>1, IdleFrame
<1>4. NativeStep
  BY <1>1, <1>2, <1>3 DEF Next, NativeStep, NewBuilder, EnterStatic, Enter, LeavePlain, ConsumeError,
     CopyAndFree, Adopt, Forget, Dispose, Finalize, ReleaseHandle, vars
<1>5a. PICK q \in {Fresh, Fresh + 1} : \E a : Sound(heap, q, a) /\ Return(a)
  BY <1>4, NativeSound DEF IInv
<1>5. PICK a : Sound(heap, q, a) /\ Return(a)
  BY <1>5a
<1>6. q # Null /\ q \notin Live(heap)
  BY DEF IInv, HostTypes, Fresh, Null
<1>7. heap' = a.heap /\ frame' = [frame EXCEPT !.status = a.status, !.out = a.out, !.error = a.error]
  BY <1>5 DEF Return
<1>8. frame \in FrameType
  BY DEF IInv, HostTypes
<1>9. frame'.status = a.status /\ frame'.out = a.out /\ frame'.error = a.error
  BY <1>7, <1>8 DEF FrameType
<1>10. QED
  BY <1>5, <1>6, <1>7, <1>9 DEF Sound, Outcome, Same

(* What mecojoni.h says of MecoStatus holds for every function of the ABI:  *)
(* an error object exactly with ERROR, no result then, and a call that      *)
(* fails leaves every object it was given as it was.                        *)
THEOREM StatusesHold == Spec => CallContract
<1>1. IInv /\ [Next]_vars =>
        [ (Running /\ frame'.status # "none") =>
            /\ frame'.status = "ok" => frame'.error = Null
            /\ frame'.status = "error" => frame'.error \notin {Null} \cup Live(heap) /\ frame'.out = Null
            /\ frame'.status = "invalid" => frame'.error = Null /\ frame'.out = Null
            /\ frame'.status # "ok" => \A p \in Live(heap) : p \in Live(heap') /\ heap'[p] = heap[p]
        ]_vars
  BY StatusesMean
<1>2. QED
  BY <1>1, OwnershipInvariant, PTL DEF Spec, CallContract
=============================================================================
