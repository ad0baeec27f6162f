----------------------------- MODULE Derivation -----------------------------
(***************************************************************************)
(* What a derivation of an authored grammar means: the reference that      *)
(* lowering and the work stack of Generator together have to agree with.   *)
(* It reads names in an environment, never slots or sinks, and recurses    *)
(* where the generator pushes work.                                        *)
(***************************************************************************)
EXTENDS Generator

(* The state threaded through a derivation: the productions still to be
   picked, the text so far, values bound in order, messages selected, and
   whether every pick satisfied its guard.  `env` is a set of <<name, text>>. *)
At(env, name) == (CHOOSE entry \in env : entry[1] = name)[2]
Meaning(env, v) == IF v.kind = "constant" THEN v.text ELSE At(env, v.name)

InputEnv == {<<Inputs[k], request.data[k]>> : k \in DOMAIN Inputs}
ArgumentEnv(env, arguments) ==
  {<<arguments[k].name, Meaning(env, arguments[k].value)>> : k \in DOMAIN arguments}

RECURSIVE DeriveRule(_, _, _), DeriveBindings(_, _, _), DeriveParts(_, _, _)

(* [env, s]: the environment and state after the bindings or parts from
   index k of production p.                                                *)
DeriveRule(rule, arguments, s) ==
  IF s.picks = <<>> THEN [s EXCEPT !.valid = FALSE]
  ELSE LET p == authored[rule].productions[Head(s.picks)]
           env == InputEnv \cup arguments
           begun == [s EXCEPT !.picks = Tail(@), !.text = <<>>,
                              !.valid = @ /\ (p.guard = <<>> \/ Meaning(env, p.guard[1]) = p.guard[2])]
           settled == DeriveBindings(p.bindings, env, begun)
           body == DeriveParts(p.parts, settled.env, settled.s)
       IN  [body EXCEPT !.text = s.text \o @]

DeriveBindings(bindings, env, s) ==
  IF bindings = <<>> THEN [env |-> env, s |-> s]
  ELSE LET b == Head(bindings)
           value == DeriveRule(b.rule, ArgumentEnv(env, b.arguments), [s EXCEPT !.text = <<>>])
       IN  DeriveBindings(Tail(bindings), env \cup {<<b.name, value.text>>},
             [value EXCEPT !.text = s.text,
                           !.bound = Append(@, [name |-> b.name, value |-> value.text, emitted |-> FALSE])])

DeriveParts(parts, env, s) ==
  IF parts = <<>> THEN s
  ELSE LET part == Head(parts)
           after == DeriveRule(part.rule, {}, [s EXCEPT !.text = <<>>])
       IN
       CASE part.kind = "literal" -> DeriveParts(Tail(parts), env, [s EXCEPT !.text = @ \o part.text])
         [] part.kind = "value" ->
              DeriveParts(Tail(parts), env, [s EXCEPT !.text = @ \o Meaning(env, part.value)])
         [] part.kind = "call" ->
              DeriveParts(Tail(parts), env, DeriveRule(part.rule, ArgumentEnv(env, part.arguments), s))
         [] part.kind = "capture" ->
              DeriveParts(Tail(parts), env \cup {<<part.name, after.text>>},
                [after EXCEPT !.text = s.text \o @,
                              !.bound = Append(@, [name |-> part.name, value |-> after.text, emitted |-> TRUE])])
         [] part.kind = "message" ->
              DeriveParts(Tail(parts), env,
                [s EXCEPT !.messages = Append(@, [k \in DOMAIN part.arguments |-> Meaning(env, part.arguments[k])])])

Derived ==
  DeriveRule(1, {}, [picks |-> choices, text |-> <<>>, bound |-> <<>>, messages |-> <<>>, valid |-> TRUE])

(* A request that ends well returns what its recorded choices derive: the
   whole text, every binding and capture in order and under its name, and the
   one message with its arguments, with no choice unused and no guard broken.
   A failed request returns nothing.                                        *)
ReturnsDerivation ==
  /\ outcome \in {"text", "message", "formatted"} =>
       /\ Derived.valid /\ Derived.picks = <<>>
       /\ Derived.bound = bound
       /\ Derived.messages = message
       /\ Derived.text = buffers[Root]
  /\ outcome = "text" => result = Derived.text
  /\ outcome \notin {"text", "formatted"} => result = <<>>
============================================================================
