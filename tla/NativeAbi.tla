----------------------------- MODULE NativeAbi -----------------------------
(***************************************************************************)
(* The C ABI of mecojoni-ffi/src/lib.rs: heap objects behind opaque        *)
(* pointers, and functions that answer with a status and write what they   *)
(* made, or an error object, through out parameters.                       *)
(*                                                                         *)
(* A heap is a function from the live pointers to objects.  Pointers are   *)
(* numbered in the order of allocation and not used again, so that a       *)
(* pointer kept too long is seen; Null is 0.  Each function is an operator *)
(* that gives the heap it leaves, its status and what it wrote.  What the  *)
(* core answers to a compile, a decode or a request is a parameter.        *)
(***************************************************************************)
EXTENDS Naturals, Sequences, FiniteSets

CONSTANTS
  Names,        (* canonical module identifiers                            *)
  Malformed     (* a string argument that is null or not UTF-8             *)

ASSUME MalformedAssumption == Malformed \notin Names

Null == 0

Object(kind, modules) == [kind |-> kind, modules |-> modules]

Module(name) == [canonical_id |-> name, resolved_imports |-> <<>>]

Live(heap) == DOMAIN heap

(* The next pointer, given how many objects were ever made.                *)
Put(heap, pointer, object) ==
  [p \in Live(heap) \cup {pointer} |-> IF p = pointer THEN object ELSE heap[p]]

Free(heap, pointer) == [p \in Live(heap) \ {pointer} |-> heap[p]]

Answer(heap, status, out, error) == [heap |-> heap, status |-> status, out |-> out, error |-> error]

(* INVALID_ARGUMENT: outputs cleared, no error object.                     *)
Invalid(heap) == Answer(heap, "invalid", Null, Null)

(* deliver_error: an object only where the caller gave a place for it.     *)
DeliverError(heap, fresh, wanted) ==
  IF wanted THEN Answer(Put(heap, fresh, Object("error", <<>>)), "error", Null, fresh)
  ELSE Answer(heap, "error", Null, Null)

(* A new object through the out parameter, which must be there.            *)
Deliver(heap, fresh, object) == Answer(Put(heap, fresh, object), "ok", fresh, Null)

---------------------------------------------------------------------------
(* Package builder.                                                        *)

BuilderNew(heap, fresh) == Deliver(heap, fresh, Object("builder", <<>>))

(* Mutation: the module is pushed before its source is read. *)
AddModuleUnread(heap, fresh, builder, name, utf8, wanted) ==
  IF builder = Null \/ name = Malformed THEN Invalid(heap)
  ELSE LET pushed == [heap EXCEPT ![builder].modules = Append(@, Module(name))]
       IN  IF utf8 THEN Answer(pushed, "ok", Null, Null) ELSE DeliverError(pushed, fresh, wanted)

AddModule(heap, fresh, builder, name, utf8, wanted) ==
  IF builder = Null \/ name = Malformed THEN Invalid(heap)
  ELSE IF ~utf8 THEN DeliverError(heap, fresh, wanted)
  ELSE Answer([heap EXCEPT ![builder].modules = Append(@, Module(name))], "ok", Null, Null)

(* The first module of that name gets the import.                          *)
ResolveImport(heap, fresh, builder, name, target, wanted) ==
  LET named(i) == heap[builder].modules[i].canonical_id = name
      first    == CHOOSE i \in DOMAIN heap[builder].modules :
                    named(i) /\ \A j \in 1 .. i - 1 : ~named(j)
  IN  IF builder = Null \/ Malformed \in {name, target} THEN Invalid(heap)
      ELSE IF \A i \in DOMAIN heap[builder].modules : ~named(i) THEN DeliverError(heap, fresh, wanted)
      ELSE Answer([heap EXCEPT ![builder].modules[first].resolved_imports = Append(@, target)],
                  "ok", Null, Null)

(* validate_package_input: identifiers differ, root and targets exist.  What
   the headers author, and the compiler proper, is the caller's "compiles". *)
Resolves(modules, root) ==
  LET names == {modules[i].canonical_id : i \in DOMAIN modules} IN
  /\ Cardinality(names) = Len(modules) /\ root \in names
  /\ \A i \in DOMAIN modules : \A k \in DOMAIN modules[i].resolved_imports :
       modules[i].resolved_imports[k] \in names

(* An absent or empty root stands for the first module.  The builder is
   cloned, so it can be used again.                                        *)
BuilderCompile(heap, fresh, builder, root, hasOut, wanted, compiles) ==
  LET modules == heap[builder].modules
      rootId  == IF root = "" THEN modules[1].canonical_id ELSE root
  IN  IF builder = Null \/ ~hasOut \/ root = Malformed THEN Invalid(heap)
      ELSE IF root = "" /\ modules = <<>> THEN DeliverError(heap, fresh, wanted)
      ELSE IF Resolves(modules, rootId) /\ compiles
           THEN Deliver(heap, fresh, Object("grammar", modules))
      ELSE DeliverError(heap, fresh, wanted)

(* Mutation: a failed add_module leaves the temporary builder behind. *)
GrammarCompileEarlyOut(heap, fresh, name, utf8, hasOut, wanted, compiles) ==
  LET made  == BuilderNew(heap, fresh)
      added == AddModule(made.heap, fresh + 1, made.out, name, utf8, wanted)
  IN  IF added.status # "ok" THEN added
      ELSE LET compiled == BuilderCompile(added.heap, fresh + 1, made.out, name, hasOut, wanted, compiles)
           IN  [compiled EXCEPT !.heap = Free(@, made.out)]

(* meco_grammar_compile: a builder of its own, freed whatever happens.     *)
GrammarCompile(heap, fresh, name, utf8, hasOut, wanted, compiles) ==
  LET made     == BuilderNew(heap, fresh)
      added    == AddModule(made.heap, fresh + 1, made.out, name, utf8, wanted)
      compiled == BuilderCompile(added.heap, fresh + 1, made.out, name, hasOut, wanted, compiles)
      last     == IF added.status = "ok" THEN compiled ELSE added
  IN  [last EXCEPT !.heap = Free(@, made.out)]

---------------------------------------------------------------------------
(* Artifacts, generation, accessors.                                       *)

GrammarDecode(heap, fresh, bytes, hasOut, wanted, decodes) ==
  IF bytes = "absent" \/ ~hasOut THEN Invalid(heap)
  ELSE IF decodes THEN Deliver(heap, fresh, Object("grammar", <<>>))
  ELSE DeliverError(heap, fresh, wanted)

GrammarEncode(heap, fresh, grammar, profile, hasOut, wanted, encodes) ==
  IF grammar = Null \/ ~hasOut \/ profile \notin 0 .. 2 THEN Invalid(heap)
  ELSE IF encodes THEN Deliver(heap, fresh, Object("artifact", <<>>))
  ELSE DeliverError(heap, fresh, wanted)

(* convert_binding: what the input of one name becomes.                    *)
Converts(binding) ==
  /\ binding.name # Malformed
  /\ binding.kind \in {"text", "enum", "boolean", "number"}
  /\ binding.kind \in {"text", "enum"} => binding.text # Malformed
  /\ binding.kind = "number" => binding.denominator # 0

(* bindings is "absent" for a null array with a count that is not zero.    *)
GrammarGenerate(heap, fresh, grammar, entry, bindings, hasOut, wanted, generates) ==
  IF grammar = Null \/ ~hasOut \/ entry = Malformed \/ bindings = "absent" THEN Invalid(heap)
  ELSE IF (\E i \in DOMAIN bindings : ~Converts(bindings[i])) \/ ~generates
       THEN DeliverError(heap, fresh, wanted)
  ELSE Deliver(heap, fresh, Object("generated", <<>>))

(* Accessors read a live object, or answer "absent" to null; the views they
   give are read later and belong to it.                                   *)
View(heap, pointer) == IF pointer = Null THEN "absent" ELSE heap[pointer].kind
============================================================================
