----------------------------- MODULE Generator -----------------------------
(***************************************************************************)
(* One package compiled, and one request to it: generate_weighted and its  *)
(* siblings of compiler.rs.  The generator expands rules without recursion *)
(* on the native stack: a stack of work items, whose head is the top, runs *)
(* until it is empty or the first error, which drops everything.           *)
(*                                                                         *)
(* Bindings are expanded into temporary sinks before the body, captures    *)
(* copy what their rule appended to the sink of the body.  The production  *)
(* drawn is any eligible one, and a draw takes any number of random words  *)
(* that rejection allows: Sampling models how words become productions.    *)
(***************************************************************************)
EXTENDS Grammar

CONSTANTS
  Authored,      (* packages the compiler may be given                     *)
  Width,         (* UTF-8 length of each Unicode scalar                    *)
  Requests(_),   (* [limits, data] of the requests to a package            *)
  Formatted      (* texts a formatter may answer with                      *)

Text == Seq(DOMAIN Width)

(* What parsing and resolve_rule leave to be lowered: lists, texts, and
   rules that exist.  An argument has a name besides its value.             *)
IsValue(v) == v.kind = "name" \/ (v.kind = "constant" /\ v.text \in Text)

AreArguments(arguments) ==
  IsList(arguments) /\ \A k \in DOMAIN arguments : IsValue(arguments[k].value)

IsPart(rules, part) ==
  /\ part.kind \in {"literal", "value", "call", "capture", "message"}
  /\ part.kind = "literal" => part.text \in Text
  /\ part.kind = "value"   => part = Value(part.value) /\ IsValue(part.value)
  /\ part.kind = "call"    => part = Call(part.rule, part.arguments) /\ AreArguments(part.arguments)
  /\ HasRule(part)         => part.rule \in DOMAIN rules
  /\ part.kind = "message" =>
       /\ part = Message(part.arguments) /\ IsList(part.arguments)
       /\ \A k \in DOMAIN part.arguments : IsValue(part.arguments[k])

IsProduction(rules, p) ==
  /\ p.guard = <<>> \/ IsValue(p.guard[1])
  /\ IsList(p.bindings)
  /\ \A i \in DOMAIN p.bindings :
       p.bindings[i].rule \in DOMAIN rules /\ AreArguments(p.bindings[i].arguments)
  /\ IsList(p.parts)
  /\ \A j \in DOMAIN p.parts : IsPart(rules, p.parts[j])

IsPackage(rules) ==
  /\ IsList(rules) /\ rules # <<>>
  /\ \A r \in DOMAIN rules :
       /\ IsList(rules[r].parameters) /\ IsList(rules[r].productions)
       /\ \A i \in DOMAIN rules[r].productions : IsProduction(rules, rules[r].productions[i])

ASSUME WidthAssumption   == \A c \in DOMAIN Width : Width[c] \in 1 .. 4
ASSUME PackageAssumption == \A p \in Authored : IsPackage(p)

(* Five limits, and a text for each input of the package.                   *)
ASSUME RequestsAssumption ==
  \A p \in Authored : \A r \in Requests(p) :
    /\ r.limits \in [depth : Nat, expansions : Nat, scalars : Nat, bytes : Nat, words : Nat]
    /\ r.data \in Seq(Text)
    /\ Len(r.data) = Len(Inputs)

ASSUME FormattedAssumption == Formatted \subseteq Text

VARIABLES
  authored,      (* the package                                            *)
  grammar,       (* its lowered rules                                      *)
  request,       (* [api, locale, limits, data]                            *)
  outcome,       (* "source", "compiled", "running", then how it ended     *)
  stack,         (* work items                                             *)
  buffers,       (* text of each sink; sink 1 is the output                *)
  sinkScalars,   (* sink_scalars: their lengths, kept incrementally        *)
  frames,        (* values and origins bound in each expansion             *)
  scalars,       (* output_scalars: scalars appended to any sink           *)
  expansions,    (* rules expanded                                         *)
  words,         (* random words drawn                                     *)
  message,       (* <<>>, or <<arguments>> of the complete message         *)
  nodes,         (* provenance nodes                                       *)
  bound,         (* binding_trace: [name, value, emitted]                  *)
  choices,       (* selection_trace: productions drawn                     *)
  result         (* the text returned                                      *)

run  == <<stack, buffers, sinkScalars, frames, scalars, expansions, words, message, nodes,
          bound, choices>>
vars == <<authored, grammar, request, outcome, run, result>>

Root == 1        (* the sink of the output                                 *)
None == 0        (* no provenance node                                     *)

Bytes(text) ==
  LET sum[n \in 0 .. Len(text)] == IF n = 0 THEN 0 ELSE sum[n - 1] + Width[text[n]]
  IN  sum[Len(text)]

Fail(code) == outcome' = code /\ UNCHANGED <<authored, grammar, request, run, result>>

Running(op) == outcome = "running" /\ stack # <<>> /\ Head(stack).op = op

Top  == Head(stack)
Rest == Tail(stack)
Then(works) == stack' = works \o Rest

Production(work) == grammar[work.rule].productions[work.production]

---------------------------------------------------------------------------
(* Values, their origins and provenance.                                   *)

Available(frame, v) ==
  CASE v.kind = "local" -> v.slot \in DOMAIN frame.values
    [] v.kind = "input" -> v.slot \in DOMAIN request.data
    [] OTHER            -> TRUE

Evaluate(frame, v) ==
  CASE v.kind = "local" -> frame.values[v.slot]
    [] v.kind = "input" -> request.data[v.slot]
    [] OTHER            -> v.text

Origin(frame, v) ==
  CASE v.kind = "input" -> [kind |-> "host", node |-> None]
    [] v.kind = "local" /\ v.slot \in DOMAIN frame.origins -> frame.origins[v.slot]
    [] OTHER -> [kind |-> "constant", node |-> None]

AllAvailable(frame, arguments) == \A k \in DOMAIN arguments : Available(frame, arguments[k])
Values(frame, arguments)  == [k \in DOMAIN arguments |-> Evaluate(frame, arguments[k])]
Origins(frame, arguments) == [k \in DOMAIN arguments |-> Origin(frame, arguments[k])]

(* Mutation: nodes get ranges of temporary sinks. *)
RangeInAnySink(sink, start, end) == <<start, end>>

(* A node has no range until it is finished, and never outside sink 1.      *)
Node(parent, kind, work) ==
  [parent |-> parent, kind |-> kind, rule |-> work.rule, depth |-> work.depth, range |-> <<>>]

RangeIn(sink, start, end) == IF sink = Root THEN <<start, end>> ELSE <<>>

Closed(work) ==
  [nodes EXCEPT ![work.node].range = RangeIn(work.sink, work.start, sinkScalars[work.sink])]

(* Bind the next slot of a frame; FALSE when it is not the next one.        *)
SlotIsNext(frame, slot) ==
  Len(frames[frame].values) + 1 = slot /\ Len(frames[frame].origins) + 1 = slot

Bind(work, text) ==
  /\ frames' = [frames EXCEPT
       ![work.frame].values  = Append(@, text),
       ![work.frame].origins = Append(@, [kind |-> "derived", node |-> work.node])]
  /\ bound' = Append(bound, [name |-> work.name, value |-> text, emitted |-> work.op = "FinishCapture"])

---------------------------------------------------------------------------
(* Compilation and the start of a request.                                 *)

Compile ==
  /\ outcome = "source"
  /\ IF Accepted(authored)
     THEN /\ grammar' = Lower(authored)
          /\ outcome' = IF Verifies(Lower(authored)) THEN "compiled" ELSE "bytecode-corrupt"
          /\ UNCHANGED <<authored, request, run, result>>
     ELSE Fail("refused")

ExpandWork(rule, arguments, origins, sink, depth, parent) ==
  [op |-> "Expand", rule |-> rule, arguments |-> arguments, origins |-> origins, sink |-> sink,
   depth |-> depth, parent |-> parent]

(* generate_weighted has no locale and refuses an entry that is a message;
   the structural call may have a locale; the formatter call has one.       *)
Begin(api, locale, limits, data) ==
  /\ outcome = "compiled"
  /\ api = "weighted" => locale = "none"
  /\ api = "formatter" => locale # "none"
  /\ request' = [api |-> api, locale |-> locale, limits |-> limits, data |-> data]
  /\ outcome' = IF api = "weighted" /\ 1 \in MessageEffects(grammar)
                THEN "formatter-required" ELSE "running"
  /\ stack' = <<ExpandWork(1, <<>>, <<>>, Root, 1, None)>>
  /\ buffers' = <<<<>>>>
  /\ sinkScalars' = <<0>>
  /\ UNCHANGED <<authored, grammar, frames, scalars, expansions, words, message, nodes, bound,
                 choices, result>>

---------------------------------------------------------------------------
(* Expanding a rule.                                                       *)

(* Mutation: guards are not evaluated. *)
EligibleUnguarded(rule, frame) == DOMAIN grammar[rule].productions

Eligible(rule, frame) ==
  {i \in DOMAIN grammar[rule].productions :
     LET guard == grammar[rule].productions[i].guard
     IN  guard = <<>> \/ Evaluate(frame, guard[1]) = guard[2]}

NewFrame == [values |-> Top.arguments, origins |-> Top.origins]

ExpansionError ==
  CASE Top.depth > request.limits.depth -> "limit-depth"
    [] expansions + 1 > request.limits.expansions -> "limit-expansions"
    [] Len(Top.arguments) # grammar[Top.rule].parameters -> "rule-arity"
    [] Eligible(Top.rule, NewFrame) = {} -> "no-eligible-production"
    [] OTHER -> "none"

RefuseExpansion == Running("Expand") /\ ExpansionError # "none" /\ Fail(ExpansionError)

(* A single eligible production has weight 1 of 1 and no word is rejected.  *)
MayReject == Cardinality(Eligible(Top.rule, NewFrame)) > 1

ExhaustSampler ==
  /\ Running("Expand") /\ ExpansionError = "none"
  /\ words = request.limits.words \/ MayReject
  /\ Fail("sampler-budget")

Chosen(production, drawn) ==
  LET node == Len(nodes) + 1 IN
  /\ expansions' = expansions + 1
  /\ words' = words + drawn
  /\ frames' = Append(frames, NewFrame)
  /\ choices' = Append(choices, production)
  /\ nodes' = Append(nodes, Node(Top.parent, "production", Top))
  /\ Then(<<[op |-> "PrepareBinding", rule |-> Top.rule, production |-> production, next |-> 1,
             frame |-> Len(frames) + 1, sink |-> Top.sink, depth |-> Top.depth, node |-> node],
            [op |-> "FinishProduction", sink |-> Top.sink, start |-> sinkScalars[Top.sink],
             node |-> node]>>)
  /\ UNCHANGED <<authored, grammar, request, outcome, buffers, sinkScalars, scalars, message,
                 bound, result>>

Expand ==
  /\ Running("Expand") /\ ExpansionError = "none"
  /\ \E production \in Eligible(Top.rule, NewFrame), drawn \in 1 .. request.limits.words - words :
       (drawn > 1 => MayReject) /\ Chosen(production, drawn)

FinishProduction ==
  /\ Running("FinishProduction")
  /\ Then(<<>>)
  /\ nodes' = Closed(Top)
  /\ UNCHANGED <<authored, grammar, request, outcome, buffers, sinkScalars, frames, scalars,
                 expansions, words, message, bound, choices, result>>

---------------------------------------------------------------------------
(* Bindings.                                                               *)

(* Each binding gets a sink of its own.                                    *)
StartBinding ==
  LET sink == Len(buffers) + 1
      frame == frames[Top.frame]
      binding == Production(Top).bindings[Top.next]
      node == Len(nodes) + 1
  IN
  /\ Running("PrepareBinding") /\ Top.next \in DOMAIN Production(Top).bindings
  /\ IF AllAvailable(frame, binding.arguments)
     THEN /\ buffers' = Append(buffers, <<>>)
          /\ sinkScalars' = Append(sinkScalars, 0)
          /\ nodes' = Append(nodes, Node(Top.node, "binding", Top))
          /\ Then(<<ExpandWork(binding.rule, Values(frame, binding.arguments),
                               Origins(frame, binding.arguments), sink, Top.depth + 1, node),
                    [op |-> "FinishBinding", frame |-> Top.frame, slot |-> binding.slot,
                     name |-> binding.name, sink |-> sink, node |-> node],
                    [Top EXCEPT !.next = @ + 1]>>)
          /\ UNCHANGED <<authored, grammar, request, outcome, frames, scalars, expansions, words,
                         message, bound, choices, result>>
     ELSE Fail("value-name")

(* Mutation: the sink is taken, its scalar count stays. *)
FinishBindingKeepingCount ==
  /\ Running("FinishBinding")
  /\ IF SlotIsNext(Top.frame, Top.slot)
     THEN /\ Bind(Top, buffers[Top.sink])
          /\ buffers' = [buffers EXCEPT ![Top.sink] = <<>>]
          /\ Then(<<>>)
          /\ UNCHANGED <<authored, grammar, request, outcome, sinkScalars, scalars, expansions,
                         words, message, nodes, choices, result>>
     ELSE Fail("binding-name")

FinishBinding ==
  /\ Running("FinishBinding")
  /\ IF SlotIsNext(Top.frame, Top.slot)
     THEN /\ Bind(Top, buffers[Top.sink])
          /\ buffers' = [buffers EXCEPT ![Top.sink] = <<>>]
          /\ sinkScalars' = [sinkScalars EXCEPT ![Top.sink] = 0]
          /\ Then(<<>>)
          /\ UNCHANGED <<authored, grammar, request, outcome, scalars, expansions, words, message,
                         nodes, choices, result>>
     ELSE Fail("binding-name")

(* After the last binding, the body.                                       *)
StartBody ==
  /\ Running("PrepareBinding") /\ Top.next \notin DOMAIN Production(Top).bindings
  /\ Then(<<[Top EXCEPT !.op = "Continue", !.next = 1]>>)
  /\ UNCHANGED <<authored, grammar, request, outcome, buffers, sinkScalars, frames, scalars,
                 expansions, words, message, nodes, bound, choices, result>>

---------------------------------------------------------------------------
(* The parts of a body.                                                    *)

Part == Production(Top).parts[Top.next]

AtPart(kind) ==
  /\ Running("Continue")
  /\ Top.next \in DOMAIN Production(Top).parts
  /\ Part.kind = kind

Onward == [Top EXCEPT !.next = @ + 1]

(* Mutation: the body is pushed back after its last part. *)
EndBodyPushedBack ==
  /\ Running("Continue") /\ Top.next \notin DOMAIN Production(Top).parts
  /\ UNCHANGED vars

EndBody ==
  /\ Running("Continue") /\ Top.next \notin DOMAIN Production(Top).parts
  /\ Then(<<>>)
  /\ UNCHANGED <<authored, grammar, request, outcome, buffers, sinkScalars, frames, scalars,
                 expansions, words, message, nodes, bound, choices, result>>

(* append_output: the scalars of all sinks share one limit, the bytes of
   each sink have their own.                                               *)
OutputFits(sink, text) ==
  /\ scalars + Len(text) <= request.limits.scalars
  /\ Bytes(buffers[sink]) + Bytes(text) <= request.limits.bytes

Emit(text, kind, parent) ==
  LET start == sinkScalars[Top.sink]
      range == RangeIn(Top.sink, start, start + Len(text))
  IN
  IF OutputFits(Top.sink, text)
  THEN /\ buffers' = [buffers EXCEPT ![Top.sink] = @ \o text]
       /\ sinkScalars' = [sinkScalars EXCEPT ![Top.sink] = @ + Len(text)]
       /\ scalars' = scalars + Len(text)
       /\ nodes' = Append(nodes, [Node(parent, kind, Top) EXCEPT !.range = range])
       /\ Then(<<Onward>>)
       /\ UNCHANGED <<authored, grammar, request, outcome, frames, expansions, words, message,
                      bound, choices, result>>
  ELSE Fail("limit-output")

EmitLiteral == AtPart("literal") /\ Emit(Part.text, "text", Top.node)

(* A bound value points at the node it was derived from.                    *)
EmitValue ==
  LET frame == frames[Top.frame]
      origin == Origin(frame, Part.value)
  IN
  /\ AtPart("value")
  /\ IF Available(frame, Part.value)
     THEN Emit(Evaluate(frame, Part.value),
               IF origin.kind = "host" THEN "host" ELSE "bound",
               IF origin.kind = "derived" /\ origin.node # None THEN origin.node ELSE Top.node)
     ELSE Fail("value-name")

CallRule ==
  LET frame == frames[Top.frame] IN
  /\ AtPart("call")
  /\ IF AllAvailable(frame, Part.arguments)
     THEN /\ Then(<<ExpandWork(Part.rule, Values(frame, Part.arguments),
                               Origins(frame, Part.arguments), Top.sink, Top.depth + 1, Top.node),
                    Onward>>)
          /\ UNCHANGED <<authored, grammar, request, outcome, buffers, sinkScalars, frames,
                         scalars, expansions, words, message, nodes, bound, choices, result>>
     ELSE Fail("value-name")

StartCapture ==
  LET node == Len(nodes) + 1 IN
  /\ AtPart("capture")
  /\ nodes' = Append(nodes, Node(Top.node, "capture", Top))
  /\ Then(<<ExpandWork(Part.rule, <<>>, <<>>, Top.sink, Top.depth + 1, node),
            [op |-> "FinishCapture", frame |-> Top.frame, slot |-> Part.slot, name |-> Part.name,
             sink |-> Top.sink, start |-> sinkScalars[Top.sink], node |-> node],
            Onward>>)
  /\ UNCHANGED <<authored, grammar, request, outcome, buffers, sinkScalars, frames, scalars,
                 expansions, words, message, bound, choices, result>>

FinishCapture ==
  LET text == buffers[Top.sink] IN
  /\ Running("FinishCapture")
  /\ IF Top.start > Len(text) THEN Fail("invalid-span")
     ELSE IF SlotIsNext(Top.frame, Top.slot)
     THEN /\ Bind(Top, SubSeq(text, Top.start + 1, Len(text)))
          /\ nodes' = Closed(Top)
          /\ Then(<<>>)
          /\ UNCHANGED <<authored, grammar, request, outcome, buffers, sinkScalars, scalars,
                         expansions, words, message, choices, result>>
     ELSE Fail("binding-name")

MessageError ==
  CASE request.locale # "valid" -> "locale"
    [] message # <<>> -> "message-effect"
    [] ~AllAvailable(frames[Top.frame], Part.arguments) -> "value-name"
    [] OTHER -> "none"

SelectMessage ==
  /\ AtPart("message")
  /\ IF MessageError = "none"
     THEN /\ message' = <<Values(frames[Top.frame], Part.arguments)>>
          /\ nodes' = Append(nodes, Node(Top.node, "message", Top))
          /\ Then(<<Onward>>)
          /\ UNCHANGED <<authored, grammar, request, outcome, buffers, sinkScalars, frames,
                         scalars, expansions, words, bound, choices, result>>
     ELSE Fail(MessageError)

---------------------------------------------------------------------------
(* The end of a request.                                                   *)

Complete ==
  /\ outcome = "running" /\ stack = <<>>
  /\ IF message = <<>>
     THEN outcome' = "text" /\ result' = buffers[Root]
     ELSE /\ outcome' = IF buffers[Root] = <<>> THEN "message" ELSE "message-effect"
          /\ UNCHANGED result
  /\ UNCHANGED <<authored, grammar, request, run>>

(* finalize_formatted_provenance.                                          *)
Spread(text) ==
  [n \in DOMAIN nodes |->
     IF \/ nodes[n].kind = "message"
        \/ /\ nodes[n].kind = "production"
           /\ nodes[n].range # <<>> /\ nodes[n].range[1] = nodes[n].range[2]
     THEN [nodes[n] EXCEPT !.range = <<0, Len(text)>>]
     ELSE nodes[n]]

(* The host's formatter answers with a text, which validate_formatter_result
   may refuse: a locale outside the chain, a fatal diagnostic, too much work,
   or no environment hash (`valid` is FALSE), or a text over the limits.     *)
Format(text, valid) ==
  /\ outcome = "message" /\ request.api = "formatter"
  /\ IF valid /\ Len(text) <= request.limits.scalars /\ Bytes(text) <= request.limits.bytes
     THEN /\ outcome' = "formatted"
          /\ result' = text
          /\ nodes' = Spread(text)
          /\ UNCHANGED <<authored, grammar, request, stack, buffers, sinkScalars, frames, scalars,
                         expansions, words, message, bound, choices>>
     ELSE Fail(IF valid THEN "limit-output" ELSE "formatter")

Init ==
  /\ authored \in Authored
  /\ grammar = <<>>
  /\ request = [api |-> "none"]
  /\ outcome = "source"
  /\ stack = <<>> /\ buffers = <<>> /\ sinkScalars = <<>> /\ frames = <<>>
  /\ scalars = 0 /\ expansions = 0 /\ words = 0
  /\ message = <<>> /\ nodes = <<>> /\ bound = <<>> /\ choices = <<>> /\ result = <<>>

Machine ==
  \/ RefuseExpansion \/ ExhaustSampler \/ Expand
  \/ FinishProduction
  \/ StartBinding \/ FinishBinding \/ StartBody
  \/ EndBody \/ EmitLiteral \/ EmitValue \/ CallRule
  \/ StartCapture \/ FinishCapture \/ SelectMessage
  \/ Complete

Next ==
  \/ Compile
  \/ \E api \in {"weighted", "structural", "formatter"}, locale \in {"none", "valid", "invalid"},
        r \in Requests(authored) : Begin(api, locale, r.limits, r.data)
  \/ Machine
  \/ \E text \in Formatted, valid \in BOOLEAN : Format(text, valid)

(* The loop of one call runs to its end: there is nothing to wait for.      *)
Spec == Init /\ [][Next]_vars /\ WF_vars(Machine)

---------------------------------------------------------------------------
(* Shape of the run: one frame, one choice per expansion, and sinks that
   exist for every work item.                                              *)
TypeOK ==
  /\ authored \in Authored
  /\ scalars \in Nat /\ expansions \in Nat /\ words \in Nat
  /\ \A s \in DOMAIN buffers : buffers[s] \in Text
  /\ \A f \in DOMAIN frames : Len(frames[f].values) = Len(frames[f].origins)
  /\ \A w \in DOMAIN stack :
       /\ stack[w].sink \in DOMAIN buffers
       /\ stack[w].op \notin {"Expand", "FinishProduction"} => stack[w].frame \in DOMAIN frames
  /\ \A n \in DOMAIN nodes : nodes[n].parent \in 0 .. n - 1
  /\ result \in Text

Total(f) ==
  LET sum[n \in 0 .. Len(f)] == IF n = 0 THEN 0 ELSE sum[n - 1] + f[n] IN sum[Len(f)]

(* The incremental scalar count of every sink is its length (append_output
   and FinishBinding keep it, nothing recomputes it); the global count covers
   every sink, taken bindings included; and no budget is ever overdrawn, by
   whichever path the text got there.                                       *)
Accounting ==
  /\ TypeOK
  /\ DOMAIN sinkScalars = DOMAIN buffers
  /\ \A s \in DOMAIN buffers : sinkScalars[s] = Len(buffers[s])
  /\ Total(sinkScalars) <= scalars
  /\ Len(frames) = expansions /\ Len(choices) = expansions /\ expansions <= words
  /\ request.api # "none" =>
       /\ scalars <= request.limits.scalars
       /\ expansions <= request.limits.expansions
       /\ words <= request.limits.words
       /\ \A s \in DOMAIN buffers : Bytes(buffers[s]) <= request.limits.bytes
       /\ \A n \in DOMAIN nodes : nodes[n].depth <= request.limits.depth
       /\ Len(result) <= request.limits.scalars /\ Bytes(result) <= request.limits.bytes

(* A package the compiler accepts passes the verifier that artifacts pass,
   and running it never meets the errors its lowering is there to exclude:
   slots filled out of order, unbound values, wrong arity, a capture past the
   end of its sink, a message mixed with text or with another message.      *)
NoInternalError ==
  outcome \notin {"bytecode-corrupt", "binding-name", "value-name", "rule-arity", "invalid-span",
                  "message-effect"}

(* validate_message_effects against the run: a derivation is a message if
   and only if its entry is a message rule, so an entry that generate_weighted
   lets through never needs a locale or a formatter.                        *)
MessagesAreForeseen ==
  /\ outcome \in {"message", "formatted"} => 1 \in MessageEffects(grammar)
  /\ outcome = "text" => 1 \notin MessageEffects(grammar)
  /\ outcome = "locale" => request.api # "weighted" /\ 1 \in MessageEffects(grammar)

(* The two together: what a request ends with was foreseen by the compiler. *)
OutcomesForeseen == NoInternalError /\ MessagesAreForeseen

(* nullable_rules against the run: a rule that is not nullable appends to its
   sink, or is the message, whatever its productions and values.            *)
NullableIsSound ==
  Running("FinishProduction") /\ nodes[Top.node].rule \notin Nullable(grammar) =>
    sinkScalars[Top.sink] > Top.start \/ message # <<>>

(* The production nodes above node n, itself included.                      *)
Expanding(n) ==
  LET above[m \in 0 .. n] ==
        IF m = 0 THEN {}
        ELSE above[nodes[m].parent] \cup (IF nodes[m].kind = "production" THEN {m} ELSE {})
  IN  above[n]

(* The recursive flag against the run: a rule that is not recursive is never
   expanded inside itself, through bindings and captures included.  Diverse
   sampling relies on it: it cools productions of such rules only.          *)
RecursiveIsSound ==
  \A n \in DOMAIN nodes :
    \A m1, m2 \in Expanding(n) : nodes[m1].rule = nodes[m2].rule /\ m1 # m2 =>
      nodes[m1].rule \in Recursive(grammar)

(* What the analyses conclude about rules holds in every run.               *)
AnalysesAreSound == NullableIsSound /\ RecursiveIsSound

Slice(n) == SubSeq(result, nodes[n].range[1] + 1, nodes[n].range[2])
Within(n, m) ==
  nodes[m].range[1] <= nodes[n].range[1] /\ nodes[n].range[2] <= nodes[m].range[2]

(* The provenance of a finished text.  Emissions tile it in order; a node
   lies inside its parent, except that a bound value points at the capture it
   was bound by, and repeats its text.  A formatted message is covered whole
   by every node that has a range at all.                                   *)
ProvenanceExact ==
  LET ranged == {n \in DOMAIN nodes : nodes[n].range # <<>>}
      emitted(node) == node.kind \in {"text", "host", "bound"} /\ node.range # <<>>
      leaves == SelectSeq(nodes, emitted)
  IN
  /\ outcome = "text" =>
       /\ \A k \in DOMAIN leaves :
            leaves[k].range[1] = (IF k = 1 THEN 0 ELSE leaves[k - 1].range[2])
       /\ Len(result) = (IF leaves = <<>> THEN 0 ELSE leaves[Len(leaves)].range[2])
       /\ \A n \in ranged : nodes[n].parent \in ranged =>
            IF nodes[n].kind = "bound" /\ nodes[nodes[n].parent].kind = "capture"
            THEN Slice(n) = Slice(nodes[n].parent)
            ELSE Within(n, nodes[n].parent)
  /\ outcome = "formatted" =>
       /\ \A n \in ranged : nodes[n].range = <<0, Len(result)>>
       /\ \E n \in ranged : nodes[n].kind = "message" /\ Expanding(n) \subseteq ranged

(* Every request ends: the limits bound a run of any accepted grammar, the
   ones that recurse without producing anything included.                   *)
Terminates == [](outcome = "running" => <>(outcome # "running"))
============================================================================
