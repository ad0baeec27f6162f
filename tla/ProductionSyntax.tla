-------------------------- MODULE ProductionSyntax --------------------------
(***************************************************************************)
(* One heading, one production (parser.rs): weight metadata, clauses, the  *)
(* visible body with its calls, strings and references, and blocks.        *)
(***************************************************************************)
EXTENDS Expressions, TLC

(* The ? of the code: a fault is the answer, or the parse goes on with the
   value.                                                                  *)
Then(parse, Rest(_)) == IF parse.failed THEN parse ELSE Rest(parse.value)

---------------------------------------------------------------------------
(* Arguments.                                                              *)

(* parse_value                                                             *)
ArgumentValue(text) ==
  IF Starts(text, <<"$">>)
  THEN Then(Identifier(Tail(text)), LAMBDA name : Done(<<"reference", name>>))
  ELSE IF text \in {<<"true">>, <<"false">>} THEN Done(text)
  ELSE IF Starts(text, <<"\"">>)
       THEN Then(Quoted(text, 1, FALSE), LAMBDA quoted :
              IF quoted.next # Len(text) + 1 THEN Fail("E_ARGUMENT_SYNTAX")
              ELSE Done(<<"text", quoted.value>>))
  ELSE IF Len(text) = 1 /\ text[1] \in Numbers THEN Done(<<"number", text[1]>>)
  ELSE Fail("E_ARGUMENT_SYNTAX")

Argument(item) ==
  LET at == First(item, Colon) IN
  IF item = <<>> THEN Fail("E_ARGUMENT_SYNTAX")
  ELSE IF item[1] = "$"
       THEN Then(Identifier(Tail(item)), LAMBDA name :
              Done([name |-> name, value |-> <<"reference", name>>, punned |-> TRUE]))
  ELSE IF ~Has(item, Colon) THEN Fail("E_ARGUMENT_SYNTAX")
  ELSE Then(Identifier(Upto(item, at)), LAMBDA name :
         Then(ArgumentValue(From(item, at + 2)), LAMBDA value :
           Done([name |-> name, value |-> value, punned |-> FALSE])))

(* An argument after others, whose name must be new.                       *)
Appended(arguments, argument) ==
  IF \E i \in DOMAIN arguments : arguments[i].name = argument.name THEN Fail("E_ARGUMENT_SYNTAX")
  ELSE Done(Append(arguments, argument))

RECURSIVE ArgumentItems(_, _)
ArgumentItems(items, arguments) ==
  IF items = <<>> THEN Done(arguments)
  ELSE Then(Then(Argument(Trim(items[1])), LAMBDA argument : Appended(arguments, argument)),
            LAMBDA more : ArgumentItems(Tail(items), more))

(* parse_arguments                                                         *)
Arguments(text) == IF text = <<>> THEN Done(<<>>) ELSE ArgumentItems(Split(text, ","), <<>>)

---------------------------------------------------------------------------
(* Weight metadata.                                                        *)

LongField(item, fields) ==
  LET at    == First(item, <<" ", "=", " ">>)
      key   == Upto(item, at)
      value == From(item, at + 3)
  IN  IF ~Has(item, <<" ", "=", " ">>) THEN Fail("E_WEIGHT_SYNTAX")
      ELSE IF key = <<"weight">> /\ fields.weight = <<"default">>
           THEN Then(WeightExpression(value), LAMBDA weight :
                  Done([fields EXCEPT !.weight = <<"dynamic", weight>>]))
      ELSE IF key = <<"id">> /\ fields.id = <<>>
           THEN Then(Identifier(value), LAMBDA id : Done([fields EXCEPT !.id = id]))
      ELSE Fail("E_WEIGHT_SYNTAX")

RECURSIVE LongFields(_, _)
LongFields(items, fields) ==
  IF items = <<>> THEN Done(fields)
  ELSE Then(LongField(Trim(items[1]), fields), LAMBDA more : LongFields(Tail(items), more))

(* parse_long_weight                                                       *)
LongWeight(metadata) == LongFields(Split(metadata, ","), [weight |-> <<"default">>, id |-> <<>>])

Metadata(text) ==
  IF Has(text, <<"=">>) THEN LongWeight(text)
  ELSE IF Len(text) = 1 /\ text[1] \in Numbers
       THEN IF text[1] = Zero THEN Fail("E_WEIGHT_SYNTAX")
            ELSE Done([weight |-> <<"static", text[1]>>, id |-> <<>>])
  ELSE Then(WeightExpression(text), LAMBDA weight :
         Done([weight |-> <<"dynamic", weight>>, id |-> <<>>]))

(* parse_weight_prefix                                                     *)
WeightPrefix(content) ==
  LET close == First(content, <<"]">>)
      after == From(content, close + 1)
  IN  IF ~Starts(content, <<"[">>)
      THEN Done([weight |-> <<"default">>, id |-> <<>>, rest |-> content])
      ELSE IF ~Has(content, <<"]">>) THEN Fail("E_WEIGHT_SYNTAX")
      ELSE Then(Metadata(SubSeq(content, 2, close - 1)), LAMBDA metadata :
             IF after # <<>> /\ ~Starts(after, Spaces) THEN Fail("E_WEIGHT_SYNTAX")
             ELSE Done([weight |-> metadata.weight, id |-> metadata.id,
                        rest |-> IF after = <<>> THEN <<>> ELSE Tail(after)]))

---------------------------------------------------------------------------
(* Clauses, and the comments between them.                                 *)

(* What follows a comment: a space, or the end of the line.                *)
AfterInlineComment(text) ==
  LET close == First(Tail(text), <<"-->">>)
      after == From(text, close + 2)
  IN  IF ~Has(Tail(text), <<"-->">>) \/ Has(Upto(Tail(text), close), <<"<!--">>)
      THEN Fail("E_COMMENT_SYNTAX")
      ELSE IF after # <<>> /\ ~Starts(after, Spaces) THEN Fail("E_COMMENT_SYNTAX")
      ELSE Done(IF after = <<>> THEN <<>> ELSE Tail(after))

BindingClause(inner) ==
  LET as    == Latest(inner, As)
      call  == Upto(inner, as)
      split == Has(call, Arrow)
      rule  == IF split THEN Upto(call, First(call, Arrow)) ELSE call
      given == IF split THEN Arguments(From(call, First(call, Arrow) + 3)) ELSE Done(<<>>)
  IN  Then(given, LAMBDA arguments :
        Then(QualifiedIdentifier(rule), LAMBDA target :
          Then(Identifier(From(inner, as + 3)), LAMBDA name :
            Done(<<"binding", target, arguments, name>>))))

Clause(inner, bindingSeen) ==
  IF Has(inner, As) THEN BindingClause(inner)
  ELSE IF bindingSeen THEN Fail("E_CLAUSE_ORDER")
  ELSE Then(GuardExpression(inner), LAMBDA guard : Done(<<"guard", guard>>))

BindingIn(clauses) == \E i \in DOMAIN clauses : clauses[i][1] = "binding"

(* parse_clause_prefixes: clauses already read, and those this line adds.  *)
RECURSIVE ClausePrefixes(_, _)
ClausePrefixes(text, clauses) ==
  LET close == First(text, <<"}">>)
      after == From(text, close + 1)
  IN  IF Starts(text, <<"<!--">>)
      THEN Then(AfterInlineComment(text), LAMBDA rest : ClausePrefixes(rest, clauses))
      ELSE IF ~Starts(text, <<"{">>) THEN Done([clauses |-> clauses, rest |-> text])
      ELSE IF ~Has(text, <<"}">>) THEN Fail("E_BODY_SYNTAX")
      ELSE Then(Clause(SubSeq(text, 2, close - 1), BindingIn(clauses)), LAMBDA clause :
             IF after = <<>> THEN Done([clauses |-> Append(clauses, clause), rest |-> <<>>])
             ELSE IF ~Starts(after, Spaces) THEN Fail("E_BODY_SYNTAX")
             ELSE ClausePrefixes(Tail(after), Append(clauses, clause)))

---------------------------------------------------------------------------
(* Visible bodies.                                                         *)

(* parse_at_reference, parse_sigil_name: a part and the position after it. *)
AtReference(text, i) ==
  LET inner == Upto(From(text, i + 2), First(From(text, i + 2), <<"}">>))
      next  == i + 3 + Len(inner)
      as    == First(inner, As)
      end   == ScanQualified(text, i + 1)
  IN  IF OccursAt(text, <<"@", "{">>, i)
      THEN IF ~Has(From(text, i + 2), <<"}">>) THEN Fail("E_BODY_SYNTAX")
           ELSE IF ~Has(inner, As)
                THEN Then(QualifiedIdentifier(inner), LAMBDA rule :
                       Done([part |-> <<"rule", rule>>, next |-> next]))
           ELSE Then(QualifiedIdentifier(Upto(inner, as)), LAMBDA rule :
                  Then(Identifier(From(inner, as + 3)), LAMBDA name :
                    Done([part |-> <<"capture", rule, name>>, next |-> next])))
      ELSE IF end = i + 1 THEN Fail("E_BODY_SYNTAX")
      ELSE Done([part |-> <<"rule", SubSeq(text, i + 1, end - 1)>>, next |-> end])

ValueReference(text, i) ==
  LET inner == Upto(From(text, i + 2), First(From(text, i + 2), <<"}">>))
      end   == ScanIdentifier(text, i + 1)
  IN  IF OccursAt(text, <<"$", "{">>, i)
      THEN IF ~Has(From(text, i + 2), <<"}">>) THEN Fail("E_BODY_SYNTAX")
           ELSE Then(Identifier(inner), LAMBDA name :
                  Done([part |-> <<"value", name>>, next |-> i + 3 + Len(inner)]))
      ELSE IF end = i + 1 THEN Fail("E_BODY_SYNTAX")
      ELSE Done([part |-> <<"value", SubSeq(text, i + 1, end - 1)>>, next |-> end])

(* A quoted segment; an empty one is only a body of its own.               *)
QuotedPart(text, i, raw) ==
  Then(Quoted(text, i, raw), LAMBDA quoted :
    IF quoted.value = <<>> /\ ~raw THEN Fail("E_STRING_SYNTAX")
    ELSE Done([part |-> <<"literal", quoted.value>>, next |-> quoted.next]))

EscapePart(text, i) ==
  Then(Escape(text, i, OutputEscapes), LAMBDA value :
    Done([part |-> <<"literal", <<value>>>>, next |-> i + 2]))

(* A comment inside a body leaves no part.                                 *)
CommentPart(text, i) ==
  LET inside == From(text, i + 1)
      close  == First(inside, <<"-->">>)
  IN  IF ~Has(inside, <<"-->">>) \/ Has(Upto(inside, close), <<"<!--">>) THEN Fail("E_COMMENT_SYNTAX")
      ELSE Done([part |-> <<"comment">>, next |-> i + close + 1])

Special == {"@", "$", "&", "\"", "\\", "r\"", "<!--"}

PartAt(text, i) ==
  CASE text[i] = "@" -> AtReference(text, i)
    [] text[i] = "$" -> ValueReference(text, i)
    [] text[i] = "&" -> Fail("E_CALL_SYNTAX")
    [] text[i] = "\"" -> QuotedPart(text, i, FALSE)
    [] text[i] = "r\"" -> QuotedPart(text, i, TRUE)
    [] text[i] = "\\" -> EscapePart(text, i)
    [] text[i] = "<!--" -> CommentPart(text, i)

(* push_literal: the text between two special places, if there is any.     *)
PushLiteral(parts, literal) == IF literal = <<>> THEN parts ELSE Append(parts, <<"literal", literal>>)

PushPart(parts, part) == IF part = <<"comment">> THEN parts ELSE Append(parts, part)

RECURSIVE InlineParts(_, _, _, _)
InlineParts(text, i, literal, parts) ==
  IF i > Len(text) THEN Done(PushLiteral(parts, literal))
  ELSE IF text[i] \notin Special THEN InlineParts(text, i + 1, Append(literal, text[i]), parts)
  ELSE Then(PartAt(text, i), LAMBDA read :
         InlineParts(text, read.next, <<>>, PushPart(PushLiteral(parts, literal), read.part)))

(* parse_complete_call: Done(<<>>) where the body is no call of its own.   *)
CompleteCall(text) ==
  LET end    == ScanQualified(text, 2)
      rest   == From(text, end)
      called == Starts(rest, <<" ", "<-">>)
      kind   == IF text[1] = "@" THEN "call" ELSE "message"
  IN  IF text[1] \notin {"@", "&"} \/ Starts(text, <<"@", "{">>) \/ end = 2 THEN Done(<<>>)
      ELSE IF text[1] = "@" /\ ~called THEN Done(<<>>)
      ELSE IF text[1] = "&" /\ rest # <<>> /\ ~called THEN Fail("E_CALL_SYNTAX")
      ELSE Then(IF rest = <<>> THEN Done(<<>>) ELSE Arguments(TrimStart(From(rest, 3))), LAMBDA arguments :
             Done(<< <<kind, SubSeq(text, 2, end - 1), arguments>> >>))

(* parse_inline_body: a body, <<"empty">> or <<"parts", ...>>.             *)
InlineBody(text, boundarySpace) ==
  IF text = <<"\"", "\"">> THEN Done(<<"empty">>)
  ELSE IF text = <<>> \/ (~boundarySpace /\ (Starts(text, Spaces) \/ Ends(text, Spaces)))
       THEN Fail("E_BODY_SYNTAX")
  ELSE Then(CompleteCall(text), LAMBDA call :
         IF call # <<>> THEN Done(<<"parts", call>>)
         ELSE Then(InlineParts(text, 1, <<>>, <<>>), LAMBDA parts :
                IF parts = <<>> THEN Fail("E_BODY_SYNTAX") ELSE Done(<<"parts", parts>>)))

---------------------------------------------------------------------------
(* Calls over several lines, and blocks.                                   *)

(* The argument lines of a multiline call, after those of its first line.  *)
RECURSIVE AppendAll(_, _)
AppendAll(arguments, added) ==
  IF added = <<>> THEN Done(arguments)
  ELSE Then(Appended(arguments, added[1]), LAMBDA more : AppendAll(more, Tail(added)))

RECURSIVE ArgumentLines(_, _)
ArgumentLines(lines, arguments) ==
  IF lines = <<>> THEN Done(arguments)
  ELSE IF Trim(lines[1]) = <<>> THEN Fail("E_ARGUMENT_SYNTAX")
  ELSE Then(Then(Arguments(Trim(lines[1])), LAMBDA read : AppendAll(arguments, read)),
            LAMBDA more : ArgumentLines(Tail(lines), more))

(* parse_multiline_call                                                    *)
MultilineCall(lines) ==
  LET first == lines[1]
      end   == ScanQualified(first, 2)
      rest  == From(first, end)
      given == From(rest, 3)
      kind  == IF first[1] = "@" THEN "call" ELSE "message"
  IN  IF end = 2 \/ ~Starts(rest, <<" ", "<-">>) THEN Fail("E_CALL_SYNTAX")
      ELSE IF given # <<>> /\ ~Starts(given, Spaces) THEN Fail("E_CALL_SYNTAX")
      ELSE Then(Then(IF given = <<>> THEN Done(<<>>) ELSE Arguments(Tail(given)),
                     LAMBDA read : ArgumentLines(Tail(lines), read)),
                LAMBDA all : Done(<<"parts", << <<kind, SubSeq(first, 2, end - 1), all>> >> >>))

Chomps == {"clip", "strip", "keep"}

BlockMarkers ==
  (<<"|">> :> [raw |-> FALSE, chomp |-> "clip"]) @@ (<<"|-">> :> [raw |-> FALSE, chomp |-> "strip"])
    @@ (<<"|+">> :> [raw |-> FALSE, chomp |-> "keep"]) @@ (<<"|raw">> :> [raw |-> TRUE, chomp |-> "clip"])
    @@ (<<"|raw-">> :> [raw |-> TRUE, chomp |-> "strip"]) @@ (<<"|raw+">> :> [raw |-> TRUE, chomp |-> "keep"])

RECURSIVE JoinLines(_)
JoinLines(lines) ==
  IF Len(lines) = 1 THEN lines[1] ELSE lines[1] \o <<"\n">> \o JoinLines(Tail(lines))

RECURSIVE DropNewlines(_)
DropNewlines(text) == IF Ends(text, <<"\n">>) THEN DropNewlines(Front(text)) ELSE text

Chomped(text, chomp) ==
  CASE chomp = "clip" -> Append(DropNewlines(text), "\n")
    [] chomp = "strip" -> DropNewlines(text)
    [] chomp = "keep" -> Append(text, "\n")

(* One line of a cooked block: its parts.                                  *)
CookedLine(line) ==
  IF line = <<>> THEN Done(<<>>)
  ELSE Then(InlineBody(line, TRUE), LAMBDA read :
         IF read[1] # "parts" \/ \E i \in DOMAIN read[2] : read[2][i][1] = "message"
         THEN Fail("E_BLOCK_SYNTAX") ELSE Done(read[2]))

Newline == <<"literal", <<"\n">> >>

(* Mutation: the lines kept end with the first blank one. *)
KeptLinesFirstBlank(lines, chomp) ==
  LET blank == {i \in DOMAIN lines : lines[i] = <<>>} IN
  IF chomp = "keep" \/ blank = {} THEN Len(lines)
  ELSE (CHOOSE i \in blank : \A j \in blank : i <= j) - 1

(* Lines up to the last that is not blank, all of them for keep.           *)
KeptLines(lines, chomp) ==
  LET inked == {i \in DOMAIN lines : lines[i] # <<>>} IN
  IF chomp = "keep" THEN Len(lines)
  ELSE IF inked = {} THEN 0
  ELSE CHOOSE i \in inked : \A j \in inked : j <= i

RECURSIVE JoinParts(_)
JoinParts(lines) ==
  IF lines = <<>> THEN <<>>
  ELSE IF Len(lines) = 1 THEN lines[1] ELSE lines[1] \o <<Newline>> \o JoinParts(Tail(lines))

CookedLines(content) == [i \in DOMAIN content |-> CookedLine(content[i])]

(* The parts of a cooked block, or the first fault of its lines.           *)
CookedParts(cooked, kept, chomp) ==
  LET faulty == {i \in DOMAIN cooked : cooked[i].failed}
      parts  == JoinParts([i \in 1 .. kept |-> cooked[i].value])
  IN  IF faulty # {} THEN cooked[CHOOSE i \in faulty : \A j \in faulty : i <= j]
      ELSE Done(IF chomp = "strip" THEN parts ELSE Append(parts, Newline))

(* parse_block: the parts of a raw block are left <<>>.                    *)
Block(content, marker) ==
  IF content = <<>> THEN Fail("E_BLOCK_SYNTAX")
  ELSE Then(IF marker.raw THEN Done(<<>>)
            ELSE CookedParts(CookedLines(content), KeptLines(content, marker.chomp), marker.chomp),
            LAMBDA parts : Done(<<"block", Chomped(JoinLines(content), marker.chomp), parts,
                                  marker.raw, marker.chomp>>))

(* parse_body                                                              *)
Body(lines) ==
  LET first == lines[1] IN
  IF first \in DOMAIN BlockMarkers THEN Block(Tail(lines), BlockMarkers[first])
  ELSE IF Len(lines) = 1 THEN InlineBody(first, FALSE)
  ELSE IF first[1] \in {"@", "&"} THEN MultilineCall(lines)
  ELSE Fail("E_BODY_SYNTAX")

---------------------------------------------------------------------------
(* Productions and headings.                                               *)

(* Clauses line by line, up to the line the body begins on.                *)
RECURSIVE ClauseLines(_, _)
ClauseLines(logical, clauses) ==
  IF logical = <<>> THEN Done([clauses |-> clauses, body |-> <<>>])
  ELSE Then(ClausePrefixes(logical[1], clauses), LAMBDA read :
         IF read.rest = <<>> THEN ClauseLines(Tail(logical), read.clauses)
         ELSE Done([clauses |-> read.clauses, body |-> <<read.rest>> \o Tail(logical)]))

(* parse_production: its line and the indented ones that continue it.      *)
Production(lines) ==
  LET content == From(lines[1], 3)
      rest    == [i \in 1 .. Len(lines) - 1 |-> From(lines[i + 1], 3)]
  IN  IF content = <<>> THEN Fail("E_PRODUCTION_SYNTAX")
      ELSE Then(WeightPrefix(content), LAMBDA prefix :
             Then(ClauseLines(IF prefix.rest = <<>> THEN rest ELSE <<prefix.rest>> \o rest, <<>>), LAMBDA read :
               IF read.body = <<>> THEN Fail("E_BODY_SYNTAX")
               ELSE Then(Body(read.body), LAMBDA body :
                      Done([weight |-> prefix.weight, authored_id |-> prefix.id,
                            clauses |-> read.clauses, body |-> body]))))

Parameter(item, parameters) ==
  LET at == First(item, Colon) IN
  IF ~Has(item, Colon) THEN Fail("E_RULE_SYNTAX")
  ELSE Then(Identifier(Upto(item, at)), LAMBDA name :
         IF \E i \in DOMAIN parameters : parameters[i].name = name THEN Fail("E_RULE_SYNTAX")
         ELSE Then(Identifier(From(item, at + 2)), LAMBDA type :
                Done(Append(parameters, [name |-> name, type_name |-> type]))))

RECURSIVE Parameters(_, _)
Parameters(items, parameters) ==
  IF items = <<>> THEN Done(parameters)
  ELSE Then(Parameter(Trim(items[1]), parameters), LAMBDA more : Parameters(Tail(items), more))

(* parse_heading                                                           *)
Heading(line) ==
  LET content == From(line, 3)
      split   == Has(content, Arrow)
      name    == IF split THEN Upto(content, First(content, Arrow)) ELSE content
      after   == From(content, First(content, Arrow) + 3)
  IN  IF Ends(line, Spaces) THEN Fail("E_RULE_SYNTAX")
      ELSE Then(Identifier(name), LAMBDA id :
             IF split /\ after = <<>> THEN Fail("E_RULE_SYNTAX")
             ELSE Then(IF split THEN Parameters(Split(after, ","), <<>>) ELSE Done(<<>>), LAMBDA parameters :
                    Done([name |-> id, parameters |-> parameters])))
============================================================================
