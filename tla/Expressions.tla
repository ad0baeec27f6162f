---------------------------- MODULE Expressions ----------------------------
(***************************************************************************)
(* Weight and guard expressions (parser.rs): their tokens and the two      *)
(* recursive-descent parsers.  A parser is given the tokens, where it is   *)
(* and how deep, and yields the tree and the position after it.            *)
(***************************************************************************)
EXTENDS SourceText

CONSTANT MaxExpressionDepth

Parsed(tree, next) == Done([tree |-> tree, next |-> next])

TokenAt(tokens, i) == IF i <= Len(tokens) THEN tokens[i] ELSE <<"end">>

---------------------------------------------------------------------------
(* Weights.                                                                *)

Symbols == {"+", "-", "*", "(", ")"}

WeightToken(lexeme) ==
  CASE lexeme \in Symbols -> <<lexeme>>
    [] lexeme \in Numbers -> <<"number", lexeme>>
    [] lexeme \in Identifiers -> <<"name", lexeme>>

LexWeight(text) ==
  LET inked == SelectSeq(text, LAMBDA x : x # " ") IN
  IF inked = <<>> \/ ~(ToSet(inked) \subseteq Symbols \cup Numbers \cup Identifiers)
  THEN Fail("E_WEIGHT_SYNTAX")
  ELSE Done([i \in DOMAIN inked |-> WeightToken(inked[i])])

RECURSIVE WeightAdditive(_, _, _), WeightTerms(_, _, _), WeightMultiplicative(_, _, _),
          WeightFactors(_, _, _), WeightPrimary(_, _, _)

WeightPrimary(tokens, i, depth) ==
  LET token == TokenAt(tokens, i)
      inner == WeightAdditive(tokens, i + 1, depth + 1)
  IN  IF token[1] \in {"number", "name"} THEN Parsed(token, i + 1)
      ELSE IF token # <<"(">> \/ depth + 1 > MaxExpressionDepth THEN Fail("E_WEIGHT_SYNTAX")
      ELSE IF inner.failed THEN inner
      ELSE IF TokenAt(tokens, inner.value.next) # <<")">> THEN Fail("E_WEIGHT_SYNTAX")
      ELSE Parsed(inner.value.tree, inner.value.next + 1)

(* left is the [tree, next] read so far: operators associate to the left.  *)
WeightFactors(tokens, left, depth) ==
  LET right == WeightPrimary(tokens, left.next + 1, depth) IN
  IF TokenAt(tokens, left.next) # <<"*">> THEN Done(left)
  ELSE IF right.failed THEN right
  ELSE WeightFactors(tokens, [tree |-> <<"*", left.tree, right.value.tree>>, next |-> right.value.next], depth)

WeightMultiplicative(tokens, i, depth) ==
  LET first == WeightPrimary(tokens, i, depth) IN
  IF first.failed THEN first ELSE WeightFactors(tokens, first.value, depth)

WeightTerms(tokens, left, depth) ==
  LET operator == TokenAt(tokens, left.next)
      right    == WeightMultiplicative(tokens, left.next + 1, depth)
  IN  IF operator \notin {<<"+">>, <<"-">>} THEN Done(left)
      ELSE IF right.failed THEN right
      ELSE WeightTerms(tokens, [tree |-> <<operator[1], left.tree, right.value.tree>>,
                                next |-> right.value.next], depth)

WeightAdditive(tokens, i, depth) ==
  LET first == WeightMultiplicative(tokens, i, depth) IN
  IF first.failed THEN first ELSE WeightTerms(tokens, first.value, depth)

(* parse_weight_expression: every token must be consumed.                  *)
WeightExpression(text) ==
  LET tokens == LexWeight(text)
      parsed == WeightAdditive(tokens.value, 1, 0)
  IN  IF tokens.failed THEN tokens
      ELSE IF parsed.failed \/ parsed.value.next # Len(tokens.value) + 1 THEN Fail("E_WEIGHT_SYNTAX")
      ELSE Done(parsed.value.tree)

---------------------------------------------------------------------------
(* Guards.                                                                 *)

Comparisons == {"<", "<=", ">", ">="}
Keywords == {"true", "false", "is", "not", "and", "or"}

RECURSIVE LexGuard(_, _, _)
LexGuard(text, i, tokens) ==
  LET quoted == Quoted(text, i, FALSE) IN
  IF i > Len(text) THEN IF tokens = <<>> THEN Fail("E_GUARD_SYNTAX") ELSE Done(tokens)
  ELSE IF text[i] = " " THEN LexGuard(text, i + 1, tokens)
  ELSE IF text[i] \in {"(", ")"} \cup Comparisons \cup Keywords
       THEN LexGuard(text, i + 1, Append(tokens, <<text[i]>>))
  ELSE IF text[i] \in Numbers THEN LexGuard(text, i + 1, Append(tokens, <<"number", text[i]>>))
  ELSE IF text[i] \in Identifiers THEN LexGuard(text, i + 1, Append(tokens, <<"name", text[i]>>))
  ELSE IF text[i] # "\"" \/ quoted.failed THEN Fail("E_GUARD_SYNTAX")
  ELSE LexGuard(text, quoted.value.next, Append(tokens, <<"text", quoted.value.value>>))

GuardValueAt(tokens, i) ==
  IF TokenAt(tokens, i)[1] \in {"name", "number", "text", "true", "false"} THEN Parsed(tokens[i], i + 1)
  ELSE Fail("E_GUARD_SYNTAX")

(* parse_comparison: `is not` is one operator.                             *)
GuardComparison(tokens, i) ==
  LET left     == GuardValueAt(tokens, i)
      at       == left.value.next
      isNot    == TokenAt(tokens, at) = <<"is">> /\ TokenAt(tokens, at + 1) = <<"not">>
      operator == IF isNot THEN "is not" ELSE TokenAt(tokens, at)[1]
      right    == GuardValueAt(tokens, IF isNot THEN at + 2 ELSE at + 1)
  IN  IF left.failed THEN left
      ELSE IF operator \notin {"is", "is not"} \cup Comparisons
           THEN Parsed(<<"value", left.value.tree>>, at)
      ELSE IF right.failed THEN right
      ELSE Parsed(<<operator, left.value.tree, right.value.tree>>, right.value.next)

RECURSIVE GuardOr(_, _, _), GuardOrs(_, _, _), GuardAnd(_, _, _), GuardAnds(_, _, _), GuardNot(_, _, _)

GuardNot(tokens, i, depth) ==
  LET negated == GuardNot(tokens, i + 1, depth + 1)
      inner   == GuardOr(tokens, i + 1, depth + 1)
  IN  IF TokenAt(tokens, i) \notin {<<"not">>, <<"(">>} THEN GuardComparison(tokens, i)
      ELSE IF depth + 1 > MaxExpressionDepth THEN Fail("E_GUARD_SYNTAX")
      ELSE IF TokenAt(tokens, i) = <<"not">>
           THEN IF negated.failed THEN negated
                ELSE Parsed(<<"not", negated.value.tree>>, negated.value.next)
      ELSE IF inner.failed THEN inner
      ELSE IF TokenAt(tokens, inner.value.next) # <<")">> THEN Fail("E_GUARD_SYNTAX")
      ELSE Parsed(inner.value.tree, inner.value.next + 1)

GuardAnds(tokens, left, depth) ==
  LET right == GuardNot(tokens, left.next + 1, depth) IN
  IF TokenAt(tokens, left.next) # <<"and">> THEN Done(left)
  ELSE IF right.failed THEN right
  ELSE GuardAnds(tokens, [tree |-> <<"and", left.tree, right.value.tree>>, next |-> right.value.next], depth)

GuardAnd(tokens, i, depth) ==
  LET first == GuardNot(tokens, i, depth) IN
  IF first.failed THEN first ELSE GuardAnds(tokens, first.value, depth)

GuardOrs(tokens, left, depth) ==
  LET right == GuardAnd(tokens, left.next + 1, depth) IN
  IF TokenAt(tokens, left.next) # <<"or">> THEN Done(left)
  ELSE IF right.failed THEN right
  ELSE GuardOrs(tokens, [tree |-> <<"or", left.tree, right.value.tree>>, next |-> right.value.next], depth)

GuardOr(tokens, i, depth) ==
  LET first == GuardAnd(tokens, i, depth) IN
  IF first.failed THEN first ELSE GuardOrs(tokens, first.value, depth)

(* parse_guard_expression                                                  *)
GuardExpression(text) ==
  LET tokens == LexGuard(text, 1, <<>>)
      parsed == GuardOr(tokens.value, 1, 0)
  IN  IF tokens.failed THEN tokens
      ELSE IF parsed.failed \/ parsed.value.next # Len(tokens.value) + 1 THEN Fail("E_GUARD_SYNTAX")
      ELSE Done(parsed.value.tree)
============================================================================
