----------------------------- MODULE SourceText -----------------------------
(***************************************************************************)
(* Source text as the front end scans it (front_matter.rs, parser.rs): a   *)
(* sequence of lexemes, one for each spelling some scan looks for, for an  *)
(* identifier, for a number and for a run of other characters.  Searches,  *)
(* splits and trims are those of the code, on lexemes for bytes.           *)
(*                                                                         *)
(* A parse yields Done(value) or Fail(code).  Spans are left out.          *)
(***************************************************************************)
EXTENDS Naturals, Sequences, SequencesExt

CONSTANTS
  Identifiers,   (* lexemes that are ASCII identifiers                     *)
  Numbers        (* lexemes Rational::from_str accepts                     *)

Zero == "0"

Done(value) == [failed |-> FALSE, value |-> value]
Fail(code) == [failed |-> TRUE, code |-> code]

From(text, i) == SubSeq(text, i, Len(text))
Upto(text, i) == SubSeq(text, 1, i - 1)

OccursAt(text, pattern, i) ==
  /\ i + Len(pattern) - 1 <= Len(text)
  /\ \A k \in DOMAIN pattern : text[i + k - 1] = pattern[k]

Occurrences(text, pattern) == {i \in DOMAIN text : OccursAt(text, pattern, i)}

Has(text, pattern) == Occurrences(text, pattern) # {}

(* find, rfind                                                             *)
First(text, pattern) ==
  CHOOSE i \in Occurrences(text, pattern) : \A j \in Occurrences(text, pattern) : i <= j
Latest(text, pattern) ==
  CHOOSE i \in Occurrences(text, pattern) : \A j \in Occurrences(text, pattern) : i >= j

Starts(text, pattern) == IsPrefix(pattern, text)
Ends(text, pattern) == IsSuffix(pattern, text)

Spaces == <<" ">>
As == <<" ", "as", " ">>
Arrow == <<" ", "<-", " ">>
Colon == <<":", " ">>

RECURSIVE TrimStart(_)
TrimStart(text) == IF Starts(text, Spaces) THEN TrimStart(Tail(text)) ELSE text

RECURSIVE Trim(_)
Trim(text) == IF Ends(text, Spaces) THEN Trim(Front(text)) ELSE TrimStart(text)

(* split(','), which gives one piece for an empty text.                    *)
RECURSIVE Split(_, _)
Split(text, mark) ==
  IF Has(text, <<mark>>)
  THEN LET at == First(text, <<mark>>) IN <<Upto(text, at)>> \o Split(From(text, at + 1), mark)
  ELSE <<text>>

(* Lines without their line ends; the \r of a \r\n is dropped with it.     *)
RECURSIVE Lines(_)
Lines(text) ==
  IF text = <<>> THEN <<>>
  ELSE LET raw == IF Has(text, <<"\n">>) THEN Upto(text, First(text, <<"\n">>)) ELSE text
           line == IF Ends(raw, <<"\r">>) THEN Front(raw) ELSE raw
       IN  <<line>> \o Lines(From(text, Len(raw) + 2))

IsIdentifier(text) == Len(text) = 1 /\ text[1] \in Identifiers

Identifier(text) ==
  IF IsIdentifier(text) THEN Done(text) ELSE Fail("E_INVALID_IDENTIFIER")

QualifiedIdentifier(text) ==
  LET names == Split(text, ".") IN
  IF \A i \in DOMAIN names : IsIdentifier(names[i]) THEN Done(text) ELSE Fail("E_INVALID_IDENTIFIER")

(* scan_identifier, scan_qualified_identifier: the position after the name,
   or the position itself where none begins.                               *)
ScanIdentifier(text, i) ==
  IF i <= Len(text) /\ text[i] \in Identifiers THEN i + 1 ELSE i

RECURSIVE ScanMore(_, _)
ScanMore(text, i) ==
  IF i < Len(text) /\ text[i] = "." /\ text[i + 1] \in Identifiers THEN ScanMore(text, i + 2) ELSE i

ScanQualified(text, i) ==
  LET first == ScanIdentifier(text, i) IN IF first = i THEN i ELSE ScanMore(text, first)

(* parse_escape: what follows a backslash, and its value.                  *)
EscapeValue(lexeme) ==
  CASE lexeme = "n" -> "\n" [] lexeme = "r" -> "\r" [] lexeme = "t" -> "\t" [] OTHER -> lexeme

Escape(text, i, allowed) ==
  IF i < Len(text) /\ text[i + 1] \in allowed THEN Done(EscapeValue(text[i + 1]))
  ELSE Fail("E_ESCAPE_SYNTAX")

OutputEscapes == {"\\", "\"", "n", "r", "t", "@", "$", "&", "//"}

(* parse_quoted: from the opening quote, the value and the position after
   the closing one.                                                        *)
RECURSIVE QuotedFrom(_, _, _, _)
QuotedFrom(text, i, raw, value) ==
  IF i > Len(text) THEN Fail("E_STRING_SYNTAX")
  ELSE IF text[i] = "\"" THEN Done([value |-> value, next |-> i + 1])
  ELSE IF text[i] = "\\" /\ ~raw
       THEN LET escaped == Escape(text, i, OutputEscapes) IN
            IF escaped.failed THEN Fail("E_STRING_SYNTAX")
            ELSE QuotedFrom(text, i + 2, raw, Append(value, escaped.value))
  ELSE QuotedFrom(text, i + 1, raw, Append(value, text[i]))

Quoted(text, quote, raw) == QuotedFrom(text, quote + 1, raw, <<>>)
============================================================================
