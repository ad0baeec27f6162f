----------------------------- MODULE MCArtifact -----------------------------
(***************************************************************************)
(* Artifact on grammars that use, between them, every record and variant   *)
(* of the format, one that holds a text the decoder does not take, and one *)
(* nested too deep to be written; with limits at what they need, and one   *)
(* below it.                                                               *)
(***************************************************************************)
EXTENDS Artifact

At(n)       == [source |-> 0, start |-> n, end |-> n + 1]
Ratio(n, d) == [numerator |-> n, denominator |-> d]

In(i)     == [is |-> "input", index |-> i]
Local(i)  == [is |-> "local", index |-> i]
Const(v)  == [is |-> "constant", value |-> [is |-> "text", value |-> v]]
Number(n, d) == [is |-> "constant", value |-> [is |-> "number", value |-> Ratio(n, d)]]

Lit(text) == [is |-> "literal", text |-> text, span |-> At(3)]
Constantly(n) == [is |-> "static", value |-> Ratio(n, 1)]

Facts(recursive) == [reachable |-> TRUE, productive |-> TRUE, nullable |-> FALSE, recursive |-> recursive]

Alternative(id, weight, guard, bindings, parts) ==
  [id |-> id, authored_id |-> id = "b", span |-> At(1), weight |-> weight, guard |-> guard,
   bindings |-> bindings, parts |-> parts, diversity_factor |-> 5]

Rule(name, parameters, selection, productions) ==
  [name |-> name, parameters |-> parameters, span |-> At(2), analysis |-> Facts(name = "b"),
   message_effect |-> FALSE, selection |-> selection, productions |-> productions]

Grammar(inputs, rules, messages, warnings) ==
  [inputs |-> inputs, rules |-> rules, entries |-> << [name |-> "a", rule |-> 0] >>,
   default_entry |-> IF warnings = <<>> THEN None ELSE 0, warnings |-> warnings, messages |-> messages]

(* Static selection, a warning, an input of each of two types.             *)
Weighted ==
  Grammar(<< [external_name |-> "a", type |-> [is |-> "enum", name |-> "b", variants |-> <<"a", "b">>]],
             [external_name |-> "b", type |-> [is |-> "text"]] >>,
          << Rule("a", <<>>, << [cumulative |-> <<1, 3>>, total |-> 3] >>,
                  << Alternative("a", Constantly(1), <<>>, <<>>, << Lit("long") >>),
                     Alternative("b", Constantly(2), <<>>, <<>>,
                                 << [is |-> "value", value |-> In(1), span |-> At(4)] >>) >>) >>,
          <<>>,
          << [code |-> "W_RECURSION_RISK", severity |-> "warning", span |-> << At(6) >>, message |-> "a"] >>)

(* A binding, a capture and calls that read them, and a message.           *)
Called ==
  LET flag == [is |-> "constant", value |-> [is |-> "boolean", value |-> TRUE]]
      member == [is |-> "constant", value |-> [is |-> "enum", value |-> "b"]]
  IN
  Grammar(<<>>,
          << Rule("a", <<>>, <<>>,
                  << Alternative("a", Constantly(1), <<>>,
                       << [rule |-> 1, arguments |-> << Const("a") >>, slot |-> 0, name |-> "a", span |-> At(3)] >>,
                       << [is |-> "capture", rule |-> 0, slot |-> 1, name |-> "b", span |-> At(4)],
                          [is |-> "rule_call", rule |-> 1, arguments |-> << Local(1) >>, span |-> At(5)],
                          [is |-> "message_call", id |-> "a",
                           arguments |-> << [name |-> "a", value |-> Local(0)], [name |-> "b", value |-> flag] >>,
                           span |-> At(6)] >>) >>),
             Rule("b", << [name |-> "a", type |-> [is |-> "number"]] >>, <<>>,
                  << Alternative("b", Constantly(1), <<>>, <<>>,
                                 << [is |-> "value", value |-> member, span |-> At(4)] >>) >>) >>,
          << [id |-> "a", arguments |-> << [name |-> "a", type |-> [is |-> "text"]],
                                           [name |-> "b", type |-> [is |-> "enum", name |-> "b"]] >>] >>,
          <<>>)

(* Dynamic weights and nested guards.                                      *)
Guarded ==
  LET of(op)  == [is |-> "value", value |-> op]
      two     == [is |-> "literal", value |-> Ratio(2, 1)]
      product == [is |-> "multiply", left |-> of(Local(0)), right |-> two]
      weight  == [is |-> "dynamic", value |->
                   [is |-> "add", left |-> product, right |-> [is |-> "subtract", left |-> two, right |-> of(In(0))]]]
      less    == [is |-> "less", left |-> of(Local(0)),
                  right |-> [is |-> "constant", value |-> [is |-> "number", value |-> Ratio(1, 2)]]]
      guard   == [is |-> "or", left |-> [is |-> "not", value |-> less],
                  right |-> [is |-> "and", left |-> [is |-> "value", value |-> of(In(0))], right |-> less]]
  IN
  Grammar(<< [external_name |-> "a", type |-> [is |-> "boolean"]] >>,
          << Rule("a", <<>>, <<>>,
                  << Alternative("a", Constantly(1), <<>>, <<>>,
                       << [is |-> "rule_call", rule |-> 1, arguments |-> << Number(1, 3) >>, span |-> At(3)] >>) >>),
             Rule("b", << [name |-> "a", type |-> [is |-> "number"]] >>, <<>>,
                  << Alternative("b", weight, <<guard>>, <<>>, << Lit("b") >>) >>) >>,
          <<>>, <<>>)

Wordy == [Weighted EXCEPT !.rules[1].productions[1].parts[1] = Lit("longer")]

TooDeep == [Guarded EXCEPT !.rules[2].productions[1].weight.value.left.left =
              [is |-> "add", left |-> @, right |-> @]]

MCGrammars == {Weighted, Called, Guarded, Wordy, TooDeep}

MCTextSize ==
  [t \in {"a", "b", "W_RECURSION_RISK", "bad"} |-> 1] @@ [t \in {"long"} |-> 4] @@ [t \in {"longer"} |-> 5]

MCHard == [bytes |-> 1000, decoded_bytes |-> 1000, strings |-> 20, rules |-> 2, productions |-> 3,
           instructions |-> 20, stack_depth |-> 3, diagnostics |-> 1]

(* The ceilings a file needs: each is lowered to it, and to one below it.  *)
Needs(g) ==
  LET payload == Encode("grammar", g) IN
  [bytes |-> FileSize(payload),
   decoded_bytes |-> DecodedSize(payload),
   strings |-> Cardinality(Texts(payload)), rules |-> Len(g.rules), productions |-> Productions(g),
   instructions |-> Instructions("grammar", g), stack_depth |-> Deepest(g), diagnostics |-> Len(g.warnings)]

MCLimitChoices(g) ==
  LET needs == Needs(g) IN
  {MCHard, [MCHard EXCEPT !.rules = @ + 1]}
    \cup {[MCHard EXCEPT ![f] = needs[f]] : f \in LimitFields}
    \cup {[MCHard EXCEPT ![f] = needs[f] - 1] : f \in {h \in LimitFields : needs[h] > 0}}

MCSubstitutes(token) ==
  CASE token.width = "string"   -> {"a", "b", "bad"}
    [] token.width = "u8"       -> {0, 1, 2, 3, 8, 17}
    [] token.width = "position" -> {0, 9}
    [] OTHER                    -> {0, 1, 2, 6, NoIndex}
============================================================================
