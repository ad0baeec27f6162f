---------------------------- MODULE SourceParser ----------------------------
(***************************************************************************)
(* parse_front_matter and parse_module, a line or a production a step:     *)
(* the header, then rules, each a heading and its productions.  A fault of *)
(* the header ends the parse; a fault of the body is kept, and the parser  *)
(* goes on at the next heading or production.                              *)
(*                                                                         *)
(* A source is written from pieces: a header, then comments, headings,     *)
(* productions and stray lines, each with the fault it was written to have *)
(* or the syntax it was written to mean.  The parser sees the text only.   *)
(***************************************************************************)
EXTENDS FrontMatter, ProductionSyntax

CONSTANT Sources   (* [text, header, pieces]                               *)

VARIABLES
  source,        (* the module parsed                                      *)
  lines,         (* its lines                                              *)
  at,            (* the next of them                                       *)
  phase,         (* "opening", "header", "body", "rule" or "done"          *)
  header,        (* HeaderBuilder, then the front matter                   *)
  section,       (* the section of the header a nested line belongs to     *)
  open,          (* the rule whose productions are read                    *)
  rules,         (* the rules accepted                                     *)
  names,         (* seen_rule_names                                        *)
  diagnostics,
  outcome

vars == <<source, lines, at, phase, header, section, open, rules, names, diagnostics, outcome>>

Unfinished == [kind |-> "unfinished"]
Refused(codes) == [kind |-> "refused", codes |-> codes]
Accepted(h, rs) == [kind |-> "accepted", header |-> h, rules |-> rs]

NoRule == [name |-> <<>>, parameters |-> <<>>, productions |-> <<>>, saw |-> FALSE, duplicate |-> FALSE]

Init ==
  /\ source \in Sources
  /\ lines = Lines(source.text)
  /\ at = 1
  /\ phase = "opening"
  /\ header = NoHeader /\ section = "none"
  /\ open = NoRule /\ rules = <<>> /\ names = <<>>
  /\ diagnostics = <<>>
  /\ outcome = Unfinished

More == at <= Len(lines)
Line == lines[at]

body == <<open, rules, names, diagnostics>>

Refuse(codes) ==
  /\ outcome' = Refused(codes)
  /\ phase' = "done"

---------------------------------------------------------------------------
(* The header.                                                             *)

OpenHeader ==
  /\ phase = "opening"
  /\ IF More /\ Line = Fence
     THEN phase' = "header" /\ at' = 2 /\ UNCHANGED outcome
     ELSE Refuse(<<"E_HEADER_MISSING">>) /\ UNCHANGED at
  /\ UNCHANGED <<source, lines, header, section, body>>

ReadHeaderLine ==
  /\ phase = "header" /\ More /\ Line # Fence
  /\ \E read \in {HeaderLine(Line, section, header)} :
     IF read.failed
     THEN Refuse(<<read.code>>) /\ UNCHANGED <<at, header, section>>
     ELSE /\ header' = read.value.header /\ section' = read.value.section
          /\ at' = at + 1
          /\ UNCHANGED <<phase, outcome>>
  /\ UNCHANGED <<source, lines, body>>

CloseHeader ==
  /\ phase = "header" /\ (More => Line = Fence)
  /\ IF ~More THEN Refuse(<<"E_HEADER_UNTERMINATED">>) /\ UNCHANGED at
     ELSE IF HeaderEnd(header).failed THEN Refuse(<<HeaderEnd(header).code>>) /\ UNCHANGED at
     ELSE phase' = "body" /\ at' = at + 1 /\ UNCHANGED outcome
  /\ UNCHANGED <<source, lines, header, section, body>>

---------------------------------------------------------------------------
(* Comments and recovery.                                                  *)

IsHeading(line) == Starts(line, <<"#", " ">>)
IsProduction(line) == Starts(line, <<"-", " ">>)
IsCommentStart(line) == Starts(TrimStart(line), <<"<!--">>)

RECURSIVE CommentEnd(_)
CommentEnd(i) ==
  IF Has(lines[i], <<"-->">>)
  THEN IF TrimStart(From(lines[i], First(lines[i], <<"-->">>) + 1)) # <<>> THEN Fail("E_COMMENT_SYNTAX")
       ELSE Done(i + 1)
  ELSE IF i = Len(lines) \/ Has(lines[i + 1], <<"<!--">>) THEN Fail("E_COMMENT_SYNTAX")
  ELSE CommentEnd(i + 1)

(* skip_comment: the line after a whole-line comment, which is not indented. *)
SkipComment(i) == IF Starts(lines[i], Spaces) THEN Fail("E_COMMENT_SYNTAX") ELSE CommentEnd(i)

RECURSIVE RecoverToHeading(_)
RecoverToHeading(i) ==
  IF i <= Len(lines) /\ ~IsHeading(lines[i]) THEN RecoverToHeading(i + 1) ELSE i

(* Mutation: the parser goes on at the next rule only. *)
RecoverToProductionOrHeadingFar(i) == RecoverToHeading(i)

RECURSIVE RecoverToProductionOrHeading(_)
RecoverToProductionOrHeading(i) ==
  IF i <= Len(lines) /\ ~IsHeading(lines[i]) /\ ~IsProduction(lines[i])
  THEN RecoverToProductionOrHeading(i + 1) ELSE i

Report(code) == diagnostics' = Append(diagnostics, code)

SkipBlank ==
  /\ phase \in {"body", "rule"} /\ More /\ Line = <<>>
  /\ at' = at + 1
  /\ UNCHANGED <<source, lines, phase, header, section, body, outcome>>

ReadComment ==
  /\ phase \in {"body", "rule"} /\ More /\ IsCommentStart(Line)
  /\ LET end == SkipComment(at) IN
     IF ~end.failed THEN at' = end.value /\ UNCHANGED diagnostics
     ELSE /\ Report(end.code)
          /\ at' = IF phase = "body" THEN RecoverToHeading(at + 1) ELSE RecoverToProductionOrHeading(at + 1)
  /\ UNCHANGED <<source, lines, phase, header, section, open, rules, names, outcome>>

---------------------------------------------------------------------------
(* Between rules.                                                          *)

Content == More /\ Line # <<>> /\ ~IsCommentStart(Line)

Orphan ==
  /\ phase = "body" /\ Content /\ ~IsHeading(Line)
  /\ Report("E_RULE_SYNTAX")
  /\ at' = RecoverToHeading(at + 1)
  /\ UNCHANGED <<source, lines, phase, header, section, open, rules, names, outcome>>

(* Mutation: a heading that fails is where the parser looks for the next. *)
AfterBadHeadingStays(i) == RecoverToHeading(i)

AfterBadHeading(i) == RecoverToHeading(i + 1)

(* A repeated rule is reported, and read for the faults of its productions. *)
ReadHeading ==
  /\ phase = "body" /\ Content /\ IsHeading(Line)
  /\ \E heading \in {Heading(Line)} :
     IF heading.failed
     THEN /\ Report(heading.code)
          /\ at' = AfterBadHeading(at)
          /\ UNCHANGED <<phase, open, names>>
     ELSE /\ open' = [NoRule EXCEPT !.name = heading.value.name, !.parameters = heading.value.parameters,
                                    !.duplicate = Contains(names, heading.value.name)]
          /\ IF Contains(names, heading.value.name) THEN Report("E_DUPLICATE_RULE") /\ UNCHANGED names
             ELSE names' = Append(names, heading.value.name) /\ UNCHANGED diagnostics
          /\ phase' = "rule" /\ at' = at + 1
  /\ UNCHANGED <<source, lines, header, section, rules, outcome>>

EndModule ==
  /\ phase = "body" /\ ~More
  /\ IF diagnostics # <<>> THEN Refuse(diagnostics)
     ELSE IF names = <<>> THEN Refuse(<<"E_RULE_SYNTAX">>)
     ELSE outcome' = Accepted(header, rules) /\ phase' = "done"
  /\ UNCHANGED <<source, lines, at, header, section, body>>

---------------------------------------------------------------------------
(* In a rule.                                                              *)

Stray ==
  /\ phase = "rule" /\ Content /\ ~IsHeading(Line) /\ ~IsProduction(Line)
  /\ Report("E_PRODUCTION_SYNTAX")
  /\ at' = RecoverToProductionOrHeading(at + 1)
  /\ UNCHANGED <<source, lines, phase, header, section, open, rules, names, outcome>>

RECURSIVE Continued(_)
Continued(i) == IF i <= Len(lines) /\ Starts(lines[i], <<" ", " ">>) THEN Continued(i + 1) ELSE i

ReadProduction ==
  /\ phase = "rule" /\ Content /\ IsProduction(Line)
  /\ at' = Continued(at + 1)
  /\ \E read \in {Production(SubSeq(lines, at, at' - 1))} :
     IF read.failed
     THEN Report(read.code) /\ open' = [open EXCEPT !.saw = TRUE]
     ELSE /\ open' = [open EXCEPT !.saw = TRUE, !.productions = Append(@, read.value)]
          /\ UNCHANGED diagnostics
  /\ UNCHANGED <<source, lines, phase, header, section, rules, names, outcome>>

EndRule ==
  /\ phase = "rule" /\ (More => IsHeading(Line))
  /\ IF ~open.saw THEN Report("E_RULE_SYNTAX") ELSE UNCHANGED diagnostics
  /\ rules' = IF open.productions = <<>> \/ open.duplicate THEN rules
              ELSE Append(rules, [name |-> open.name, parameters |-> open.parameters,
                                  productions |-> open.productions])
  /\ open' = NoRule
  /\ phase' = "body"
  /\ UNCHANGED <<source, lines, at, header, section, names, outcome>>

Next ==
  \/ OpenHeader \/ ReadHeaderLine \/ CloseHeader
  \/ SkipBlank \/ ReadComment
  \/ Orphan \/ ReadHeading \/ EndModule
  \/ Stray \/ ReadProduction \/ EndRule

Finished == phase = "done" /\ UNCHANGED vars

Spec == Init /\ [][Next \/ Finished]_vars

---------------------------------------------------------------------------
(* What a source was written to be.                                        *)

Pieces == DOMAIN source.pieces
Kind(i) == source.pieces[i].kind

(* A heading written without fault opens a rule, up to the next heading.   *)
Opens(j, i) ==
  /\ j < i /\ Kind(j) = "heading" /\ source.pieces[j].fault = "none"
  /\ \A k \in j + 1 .. i : Kind(k) # "heading"
InRule(i) == \E j \in Pieces : Opens(j, i)

Repeats(i) ==
  \E j \in Pieces : /\ j < i /\ Kind(j) = "heading" /\ source.pieces[j].fault = "none"
                    /\ source.pieces[j].tree.name = source.pieces[i].tree.name

(* The fault of a piece where it stands.                                   *)
FaultAt(i) ==
  CASE Kind(i) = "stray" -> IF InRule(i) THEN "E_PRODUCTION_SYNTAX" ELSE "E_RULE_SYNTAX"
    [] Kind(i) = "production" /\ ~InRule(i) -> "E_RULE_SYNTAX"
    [] OTHER -> source.pieces[i].fault

(* A faulty production hides nothing; any other fault hides what follows it
   up to where the parser can take up the thread: a production of the same
   rule, or a heading.                                                     *)
Hides(j, i) ==
  /\ j < i /\ FaultAt(j) # "none"
  /\ Kind(j) = "production" => ~InRule(j)
  /\ \A k \in j + 1 .. i : Kind(k) # "heading" /\ (Kind(k) = "production" => ~InRule(j))

Shown(i) == \A j \in Pieces : ~Hides(j, i)

EndsEmptyRule(i) ==
  /\ i = Len(source.pieces) \/ Kind(i + 1) = "heading"
  /\ \E j \in 1 .. i : /\ Opens(j, i) \/ (j = i /\ Kind(i) = "heading" /\ FaultAt(i) = "none")
                       /\ \A k \in j .. i : Kind(k) # "production"

(* The codes due at a piece, in the order they are due.                    *)
DueAt(i) ==
  (IF Shown(i) /\ FaultAt(i) # "none" THEN <<FaultAt(i)>> ELSE <<>>)
    \o (IF Kind(i) = "heading" /\ FaultAt(i) = "none" /\ Repeats(i) THEN <<"E_DUPLICATE_RULE">> ELSE <<>>)
    \o (IF EndsEmptyRule(i) THEN <<"E_RULE_SYNTAX">> ELSE <<>>)

RECURSIVE DueUpTo(_)
DueUpTo(i) == IF i = 0 THEN <<>> ELSE DueUpTo(i - 1) \o DueAt(i)

Due == DueUpTo(Len(source.pieces))

RECURSIVE RulesUpTo(_)
RulesUpTo(i) ==
  LET before == RulesUpTo(i - 1)
      last   == Len(before)
  IN  IF i = 0 THEN <<>>
      ELSE IF Kind(i) = "heading"
           THEN Append(before, [name |-> source.pieces[i].tree.name,
                                parameters |-> source.pieces[i].tree.parameters, productions |-> <<>>])
      ELSE IF Kind(i) = "production"
           THEN [before EXCEPT ![last].productions = Append(@, source.pieces[i].tree)]
      ELSE before

WellWritten == source.header.fault = "none" /\ Due = <<>> /\ \E i \in Pieces : Kind(i) = "heading"

---------------------------------------------------------------------------
(* Properties.                                                             *)

(* A module written without fault is accepted, and read as what it was
   written to mean, whatever its layout: order of header fields, clauses on
   one line or several, comments between them, line ends.  A module written
   with a fault is never accepted.                                         *)
ReadsBack ==
  phase = "done" =>
    IF WellWritten THEN outcome = Accepted(source.header.tree, RulesUpTo(Len(source.pieces)))
    ELSE outcome.kind = "refused"

(* The diagnostics are the faults of the pieces, once each and in order: no
   fault makes another appear, or hides one beyond the next production or
   heading.  A fault of the header stands alone.                           *)
FaultsAreIndependent ==
  outcome.kind = "refused" =>
    outcome.codes = IF source.header.fault # "none" THEN <<source.header.fault>>
                    ELSE IF Due = <<>> THEN <<"E_RULE_SYNTAX">> ELSE Due

(* Every step moves on in the lines or, on the same line, ends a rule or the
   parse.  With no deadlock but at the end, every source is accepted or
   refused: a fault never has the parser read the same line for ever.      *)
Order(p) == CASE p \in {"opening", "header", "rule"} -> 0 [] p = "body" -> 1 [] p = "done" -> 2

Advances == [][at' > at \/ (at' = at /\ Order(phase') > Order(phase))]_vars
============================================================================
