------------------------------ MODULE Grammar ------------------------------
(***************************************************************************)
(* compile_package of compiler.rs after parsing: what it refuses, and what *)
(* it makes of a package it accepts.                                       *)
(*                                                                         *)
(* An authored grammar is a sequence of rules [parameters, productions]; a *)
(* production has a guard (<<>>, or <<value, text>> for `value is text`),  *)
(* bindings [name, rule, arguments] and body parts.  Lowering replaces     *)
(* names by slots of the runtime frame: parameters first, then bindings,   *)
(* then captures, each in the order in which the generator fills them.     *)
(* A text is a sequence of Unicode scalars, a rule its index, the entry    *)
(* rule 1; every value is a text, so types are left out, and a weight is   *)
(* positive, so it decides nothing here.                                   *)
(***************************************************************************)
EXTENDS Naturals, Sequences, FiniteSets

CONSTANT Inputs      (* names of the root module's inputs, in slot order    *)

(* A sequence, of whatever elements.                                       *)
IsList(s) == s \in Seq({s[i] : i \in DOMAIN s})

ASSUME InputsAssumption == IsList(Inputs)

Named(name)    == [kind |-> "name", name |-> name]
Constant(text) == [kind |-> "constant", text |-> text]

Literal(text)         == [kind |-> "literal", text |-> text]
Value(value)          == [kind |-> "value", value |-> value]
Call(rule, arguments) == [kind |-> "call", rule |-> rule, arguments |-> arguments]
Capture(rule, name)   == [kind |-> "capture", rule |-> rule, name |-> name]
Message(arguments)    == [kind |-> "message", arguments |-> arguments]

Occurs(s, x)   == \E i \in DOMAIN s : s[i] = x
Position(s, x) == CHOOSE i \in DOMAIN s : s[i] = x /\ \A j \in 1 .. i - 1 : s[j] # x
Unique(s)      == \A i, j \in DOMAIN s : s[i] = s[j] => i = j
NamesOf(s)     == [i \in DOMAIN s |-> s[i].name]

(* The elements of s at the places in `kept`, in order.                     *)
Select(s, kept) ==
  LET upTo[n \in 0 .. Len(s)] ==
        IF n = 0 THEN <<>>
        ELSE IF n \in kept THEN Append(upTo[n - 1], s[n]) ELSE upTo[n - 1]
  IN  upTo[Len(s)]

---------------------------------------------------------------------------
(* Scopes.                                                                 *)

(* The body without its empty literals, which lower_parts drops.           *)
Body(p) ==
  Select(p.parts, {j \in DOMAIN p.parts : p.parts[j].kind # "literal" \/ p.parts[j].text # <<>>})

BindingScope(rule, p, i) == rule.parameters \o NamesOf(SubSeq(p.bindings, 1, i - 1))

PartScope(rule, p, j) ==
  rule.parameters \o NamesOf(p.bindings)
    \o NamesOf(Select(Body(p), {k \in 1 .. j - 1 : Body(p)[k].kind = "capture"}))

Defined(locals, v) == v.kind = "name" => Occurs(locals, v.name) \/ Occurs(Inputs, v.name)

(* lookup_value: locals shadow nothing, so the order matters only between
   scopes.                                                                 *)
Lookup(locals, v) ==
  IF v.kind = "constant" THEN v
  ELSE IF Occurs(locals, v.name) THEN [kind |-> "local", slot |-> Position(locals, v.name)]
  ELSE [kind |-> "input", slot |-> Position(Inputs, v.name)]

Fresh(locals, name) == ~Occurs(locals, name) /\ ~Occurs(Inputs, name)

(* Arguments are authored by name, in any order, and compiled in the order
   of the parameters.                                                      *)
Supplies(arguments, parameters) ==
  /\ Len(arguments) = Len(parameters)
  /\ \A k \in DOMAIN parameters : Occurs(NamesOf(arguments), parameters[k])

CallFits(locals, arguments, parameters) ==
  /\ Supplies(arguments, parameters)
  /\ \A k \in DOMAIN arguments : Defined(locals, arguments[k].value)

LowerArguments(locals, arguments, parameters) ==
  [k \in DOMAIN parameters |->
     Lookup(locals, arguments[Position(NamesOf(arguments), parameters[k])].value)]

---------------------------------------------------------------------------
(* Lowering one production.                                                *)

LowerBinding(authored, rule, p, i) ==
  LET b == p.bindings[i]
      locals == BindingScope(rule, p, i)
  IN  [rule |-> b.rule, slot |-> Len(locals) + 1, name |-> b.name,
       arguments |-> LowerArguments(locals, b.arguments, authored[b.rule].parameters)]

LowerPart(authored, rule, p, j) ==
  LET part == Body(p)[j]
      locals == PartScope(rule, p, j)
  IN  CASE part.kind = "literal" -> part
        [] part.kind = "value"   -> [part EXCEPT !.value = Lookup(locals, @)]
        [] part.kind = "call"    ->
             [part EXCEPT !.arguments = LowerArguments(locals, @, authored[part.rule].parameters)]
        [] part.kind = "capture" ->
             [kind |-> "capture", rule |-> part.rule, name |-> part.name, slot |-> Len(locals) + 1]
        [] part.kind = "message" ->
             [part EXCEPT !.arguments = [k \in DOMAIN @ |-> Lookup(locals, @[k])]]

LowerGuard(rule, p) ==
  IF p.guard = <<>> THEN <<>> ELSE <<Lookup(rule.parameters, p.guard[1]), p.guard[2]>>

LowerProduction(authored, rule, p) ==
  [guard    |-> LowerGuard(rule, p),
   bindings |-> [i \in DOMAIN p.bindings |-> LowerBinding(authored, rule, p, i)],
   parts    |-> [j \in DOMAIN Body(p) |-> LowerPart(authored, rule, p, j)]]

(* validate_bound_value_usage: every slot bound by the production is read
   by an argument or a body part of it; a guard does not count.            *)
ReadsSlot(p, slot) ==
  LET reads(v) == v.kind = "local" /\ v.slot = slot
      anyOf(values) == \E k \in DOMAIN values : reads(values[k])
  IN  \/ \E i \in DOMAIN p.bindings : anyOf(p.bindings[i].arguments)
      \/ \E j \in DOMAIN p.parts :
           \/ p.parts[j].kind = "value" /\ reads(p.parts[j].value)
           \/ p.parts[j].kind \in {"call", "message"} /\ anyOf(p.parts[j].arguments)

BoundSlots(p) ==
  {p.bindings[i].slot : i \in DOMAIN p.bindings}
    \cup {p.parts[j].slot : j \in {k \in DOMAIN p.parts : p.parts[k].kind = "capture"}}

PartLowers(authored, rule, p, j) ==
  LET part == Body(p)[j]
      locals == PartScope(rule, p, j)
  IN  CASE part.kind = "literal" -> TRUE
        [] part.kind = "value"   -> Defined(locals, part.value)
        [] part.kind = "call"    -> CallFits(locals, part.arguments, authored[part.rule].parameters)
        [] part.kind = "capture" -> /\ Fresh(locals, part.name)
                                    /\ authored[part.rule].parameters = <<>>
        [] part.kind = "message" -> \A k \in DOMAIN part.arguments : Defined(locals, part.arguments[k])

ProductionLowers(authored, rule, p) ==
  /\ p.guard = <<>> \/ Defined(rule.parameters, p.guard[1])
  /\ \A i \in DOMAIN p.bindings :
       LET locals == BindingScope(rule, p, i) IN
       /\ Fresh(locals, p.bindings[i].name)
       /\ CallFits(locals, p.bindings[i].arguments, authored[p.bindings[i].rule].parameters)
  /\ \A j \in DOMAIN Body(p) : PartLowers(authored, rule, p, j)
  /\ \A slot \in BoundSlots(LowerProduction(authored, rule, p)) :
       ReadsSlot(LowerProduction(authored, rule, p), slot)

Lowers(authored) ==
  /\ authored[1].parameters = <<>>
  /\ \A r \in DOMAIN authored :
       /\ Unique(authored[r].parameters)
       /\ \A k \in DOMAIN authored[r].parameters : ~Occurs(Inputs, authored[r].parameters[k])
       /\ \A i \in DOMAIN authored[r].productions :
            ProductionLowers(authored, authored[r], authored[r].productions[i])

Lower(authored) ==
  [r \in DOMAIN authored |->
    [parameters  |-> Len(authored[r].parameters),
     productions |-> [i \in DOMAIN authored[r].productions |->
                        LowerProduction(authored, authored[r], authored[r].productions[i])]]]

---------------------------------------------------------------------------
(* Analyses of the lowered rules.  Each set of rules is the least fixed    *)
(* point of one round; RuleProperty and Components model the worklists.    *)

HasRule(part) == part.kind \in {"call", "capture"}

BodyRules(p)    == {p.parts[j].rule : j \in {k \in DOMAIN p.parts : HasRule(p.parts[k])}}
BindingRules(p) == {p.bindings[i].rule : i \in DOMAIN p.bindings}

(* Mutation: rules mentioned only by bindings are not edges. *)
EdgesWithoutBindings(rules, r) ==
  UNION {BodyRules(rules[r].productions[i]) : i \in DOMAIN rules[r].productions}

(* graph_edges: the rules that rule r mentions.                            *)
Edges(rules, r) ==
  UNION {BodyRules(rules[r].productions[i]) \cup BindingRules(rules[r].productions[i]) :
           i \in DOMAIN rules[r].productions}

Fixpoint(rules, Round(_)) ==
  LET after[n \in 0 .. Len(rules)] == IF n = 0 THEN {} ELSE Round(after[n - 1])
  IN  after[Len(rules)]

ReachableFrom(rules, sources) ==
  LET grow(S) == sources \cup S \cup UNION {Edges(rules, r) : r \in S}
  IN  Fixpoint(rules, grow)

Reachable(rules) == ReachableFrom(rules, {1})

(* Reachable from itself in at least one step.                             *)
Recursive(rules) == {r \in DOMAIN rules : r \in ReachableFrom(rules, Edges(rules, r))}

Productive(rules) ==
  LET grow(S) == {r \in DOMAIN rules : \E i \in DOMAIN rules[r].productions :
                    BodyRules(rules[r].productions[i])
                      \cup BindingRules(rules[r].productions[i]) \subseteq S}
  IN  Fixpoint(rules, grow)

(* A value may be the empty text; a message is not text at all, and counts
   as output.                                                              *)
Nullable(rules) ==
  LET mayVanish(p) == \A j \in DOMAIN p.parts : p.parts[j].kind \notin {"literal", "message"}
      grow(S) == {r \in DOMAIN rules : \E i \in DOMAIN rules[r].productions :
                    /\ mayVanish(rules[r].productions[i])
                    /\ BodyRules(rules[r].productions[i]) \subseteq S}
  IN  Fixpoint(rules, grow)

IsMessage(part, effects) ==
  \/ part.kind = "message"
  \/ part.kind = "call" /\ part.rule \in effects

(* The rules whose every production is one complete message.               *)
MessageEffects(rules) ==
  LET grow(S) == {r \in DOMAIN rules :
                    /\ rules[r].productions # <<>>
                    /\ \A i \in DOMAIN rules[r].productions :
                         LET parts == rules[r].productions[i].parts
                         IN  Len(parts) = 1 /\ IsMessage(parts[1], S)}
  IN  Fixpoint(rules, grow)

(* validate_message_effects.                                               *)
MessagesStandAlone(rules) ==
  LET effects == MessageEffects(rules) IN
  \A r \in DOMAIN rules : \A i \in DOMAIN rules[r].productions :
    LET p == rules[r].productions[i] IN
    /\ BindingRules(p) \cap effects = {}
    /\ \A j \in DOMAIN p.parts :
         /\ p.parts[j].kind = "capture" => p.parts[j].rule \notin effects
         /\ IsMessage(p.parts[j], effects) => r \in effects

Accepted(authored) ==
  /\ Lowers(authored)
  /\ MessagesStandAlone(Lower(authored))
  /\ Reachable(Lower(authored)) \subseteq Productive(Lower(authored))

---------------------------------------------------------------------------
(* validate_lowered_invariants: what compile_package checks of its own     *)
(* result, and every artifact loader of what it decoded.                   *)

OperandFits(v, locals) ==
  CASE v.kind = "local" -> v.slot \in 1 .. locals
    [] v.kind = "input" -> v.slot \in DOMAIN Inputs
    [] OTHER            -> TRUE

ArgumentsFit(rules, target, arguments, locals) ==
  /\ Len(arguments) = rules[target].parameters
  /\ \A k \in DOMAIN arguments : OperandFits(arguments[k], locals)

(* Mutation: a capture may read the slot it is about to fill. *)
CapturesThrough(p, j) == Cardinality({k \in 1 .. j : p.parts[k].kind = "capture"})

CapturesBefore(p, j) == Cardinality({k \in 1 .. j - 1 : p.parts[k].kind = "capture"})

PartVerifies(rules, part, locals) ==
  CASE part.kind = "literal" -> TRUE
    [] part.kind = "value"   -> OperandFits(part.value, locals)
    [] part.kind = "call"    -> ArgumentsFit(rules, part.rule, part.arguments, locals)
    [] part.kind = "capture" -> part.slot = locals + 1 /\ rules[part.rule].parameters = 0
    [] part.kind = "message" -> \A k \in DOMAIN part.arguments : OperandFits(part.arguments[k], locals)

Verifies(rules) ==
  \A r \in DOMAIN rules : \A i \in DOMAIN rules[r].productions :
    LET p == rules[r].productions[i]
        parameters == rules[r].parameters
    IN  /\ p.guard = <<>> \/ OperandFits(p.guard[1], parameters)
        /\ \A k \in DOMAIN p.bindings :
             /\ p.bindings[k].slot = parameters + k
             /\ ArgumentsFit(rules, p.bindings[k].rule, p.bindings[k].arguments, parameters + k - 1)
        /\ \A j \in DOMAIN p.parts :
             PartVerifies(rules, p.parts[j], parameters + Len(p.bindings) + CapturesBefore(p, j))
============================================================================
