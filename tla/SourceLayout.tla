---------------------------- MODULE SourceLayout ----------------------------
(***************************************************************************)
(* How an author writes what the parser reads: from a syntax tree to the   *)
(* lines of a source, in the layouts the language allows.  It is the other *)
(* direction of SourceParser, written from the trees and not from the      *)
(* parser.                                                                 *)
(***************************************************************************)
EXTENDS SourceText

RECURSIVE Separated(_, _)
Separated(texts, by) ==
  IF texts = <<>> THEN <<>>
  ELSE IF Len(texts) = 1 THEN texts[1] ELSE texts[1] \o by \o Separated(Tail(texts), by)

Comma == <<",", " ">>

---------------------------------------------------------------------------
(* Expressions, with no more parentheses than they need.  Written gives the
   text and how deep its parentheses and nots nest.                        *)

Binary == {"+", "-", "*", "and", "or"}

Rank(tree) ==
  CASE tree[1] \in {"+", "-", "or"} -> 1 [] tree[1] \in {"*", "and"} -> 2 [] OTHER -> 3

Plain(text) == [text |-> text, nests |-> 0]

WriteText(value) ==
  <<"\"">> \o Separated([i \in DOMAIN value |->
    CASE value[i] \in {"\"", "\\"} -> <<"\\", value[i]>>
      [] value[i] = "\n" -> <<"\\", "n">>
      [] OTHER -> <<value[i]>>], <<>>) \o <<"\"">>

WriteGuardValue(value) ==
  CASE value[1] = "text" -> WriteText(value[2])
    [] value[1] \in {"true", "false"} -> <<value[1]>>
    [] OTHER -> <<value[2]>>

Operator(tree) == IF tree[1] = "is not" THEN <<" ", "is", " ", "not", " ">> ELSE <<" ", tree[1], " ">>

RECURSIVE WriteExpression(_, _)
WriteExpression(tree, rank) ==
  LET left  == WriteExpression(tree[2], Rank(tree))
      right == WriteExpression(tree[3], Rank(tree) + 1)
      under == WriteExpression(tree[2], 3)
      deeper == IF left.nests > right.nests THEN left.nests ELSE right.nests
      bare ==
        CASE tree[1] \in Binary -> [text |-> left.text \o Operator(tree) \o right.text, nests |-> deeper]
          [] tree[1] = "not" -> [text |-> <<"not", " ">> \o under.text, nests |-> under.nests + 1]
          [] tree[1] \in {"number", "name"} -> Plain(<<tree[2]>>)
          [] tree[1] = "value" -> Plain(WriteGuardValue(tree[2]))
          [] OTHER -> Plain(WriteGuardValue(tree[2]) \o Operator(tree) \o WriteGuardValue(tree[3]))
  IN  IF Rank(tree) < rank
      THEN [text |-> <<"(">> \o bare.text \o <<")">>, nests |-> bare.nests + 1]
      ELSE bare

Expression(tree) == WriteExpression(tree, 1).text
Nesting(tree) == WriteExpression(tree, 1).nests

---------------------------------------------------------------------------
(* Productions.                                                            *)

WriteArgument(argument) ==
  IF argument.punned THEN <<"$">> \o argument.name
  ELSE argument.name \o Colon \o
         (CASE argument.value[1] = "reference" -> <<"$">> \o argument.value[2]
            [] argument.value[1] = "text" -> WriteText(argument.value[2])
            [] argument.value[1] = "number" -> <<argument.value[2]>>
            [] OTHER -> argument.value)

WriteArguments(arguments) ==
  Separated([i \in DOMAIN arguments |-> WriteArgument(arguments[i])], Comma)

WriteClause(clause) ==
  IF clause[1] = "guard" THEN <<"{">> \o Expression(clause[2]) \o <<"}">>
  ELSE <<"{">> \o clause[2] \o (IF clause[3] = <<>> THEN <<>> ELSE Arrow \o WriteArguments(clause[3]))
         \o As \o clause[4] \o <<"}">>

(* Literal text is quoted where a reading would change it.                 *)
NeedsQuotes(text) ==
  Starts(text, Spaces) \/ Ends(text, Spaces)
    \/ \E i \in DOMAIN text : text[i] \in {"@", "$", "&", "\"", "\\", "\n", "<!--", "r\""}

WritePart(part, delimited) ==
  CASE part[1] = "literal" -> IF NeedsQuotes(part[2]) THEN WriteText(part[2]) ELSE part[2]
    [] part[1] = "rule" -> IF delimited THEN <<"@", "{">> \o part[2] \o <<"}">> ELSE <<"@">> \o part[2]
    [] part[1] = "value" -> IF delimited THEN <<"$", "{">> \o part[2] \o <<"}">> ELSE <<"$">> \o part[2]
    [] part[1] = "capture" -> <<"@", "{">> \o part[2] \o As \o part[3] \o <<"}">>

WriteParts(parts, delimited) ==
  Separated([i \in DOMAIN parts |-> WritePart(parts[i], delimited)], <<>>)

Sigil(call) == IF call[1] = "call" THEN <<"@">> ELSE <<"&">>

(* A call on one line, or an argument a line.                              *)
WriteCall(call, split) ==
  IF split
  THEN <<Sigil(call) \o call[2] \o <<" ", "<-">> >>
         \o [i \in DOMAIN call[3] |-> WriteArgument(call[3][i])]
  ELSE <<Sigil(call) \o call[2] \o
           (IF call[3] = <<>> /\ call[1] = "message" THEN <<>> ELSE Arrow \o WriteArguments(call[3]))>>

Marker(raw, chomp) ==
  <<CASE chomp = "clip" -> IF raw THEN "|raw" ELSE "|"
      [] chomp = "strip" -> IF raw THEN "|raw-" ELSE "|-"
      [] chomp = "keep" -> IF raw THEN "|raw+" ELSE "|+">>

(* Bodies are written as lines.  A block gives the lines of its content in
   place of its parts.                                                     *)
WriteBody(body, layout) ==
  CASE body[1] = "empty" -> << <<"\"", "\"">> >>
    [] body[1] = "block" -> <<Marker(body[3], body[4])>> \o body[2]
    [] body[1] = "parts" ->
         IF body[2][1][1] \in {"call", "message"} THEN WriteCall(body[2][1], layout.split)
         ELSE <<WriteParts(body[2], layout.delimited)>>

WriteMetadata(p, reversed) ==
  LET dynamic == <<"weight", " ", "=", " ">> \o Expression(p.weight[2])
      named   == <<"id", " ", "=", " ">> \o p.authored_id
      fields  == (IF p.weight[1] = "dynamic" THEN <<dynamic>> ELSE <<>>)
                   \o (IF p.authored_id # <<>> THEN <<named>> ELSE <<>>)
  IN  CASE p.weight[1] = "static" -> <<"[", p.weight[2], "]">>
        [] fields = <<>> -> <<>>
        [] p.authored_id = <<>> /\ reversed /\ p.weight[2][1] # "number" ->
             <<"[">> \o Expression(p.weight[2]) \o <<"]">>
        [] OTHER -> <<"[">> \o Separated(IF reversed THEN Reverse(fields) ELSE fields, Comma) \o <<"]">>

Remark == <<"<!--", " ", "x", " ", "-->">>

(* The items of a production: metadata, clauses, the lines of the body.  In
   the split layout each item has a line, else they share the first one.   *)
WriteProduction(p, layout) ==
  LET metadata == WriteMetadata(p, layout.reversed)
      items == (IF metadata = <<>> THEN <<>> ELSE <<metadata>>)
                 \o (IF layout.remark THEN <<Remark>> ELSE <<>>)
                 \o [i \in DOMAIN p.clauses |-> WriteClause(p.clauses[i])]
      body  == WriteBody(p.body, layout)
      heads == IF layout.split THEN items \o body
               ELSE <<Separated(Append(items, body[1]), Spaces)>> \o Tail(body)
  IN  [i \in DOMAIN heads |-> (IF i = 1 THEN <<"-", " ">> ELSE <<" ", " ">>) \o heads[i]]

WriteHeading(rule) ==
  <<"#", " ">> \o rule.name \o
    (IF rule.parameters = <<>> THEN <<>>
     ELSE Arrow \o Separated([i \in DOMAIN rule.parameters |->
                                rule.parameters[i].name \o Colon \o rule.parameters[i].type_name], Comma))

(* A source: its lines, each with a line end, the last one perhaps without. *)
WriteSource(lines, lineEnd, ended) ==
  Separated(lines, lineEnd) \o (IF ended THEN lineEnd ELSE <<>>)
============================================================================
