---------------------------- MODULE FrontMatter ----------------------------
(***************************************************************************)
(* The header of a module (front_matter.rs): what each of its lines does   *)
(* to the header built so far.  The first fault ends the parse.            *)
(***************************************************************************)
EXTENDS SourceText

Fence == <<"---">>

NoHeader ==
  [seen |-> {}, version |-> <<>>, module |-> <<>>, entry |-> <<>>, sampler |-> <<>>,
   types |-> <<>>, inputs |-> <<>>, imports |-> <<>>, exports |-> <<>>]

Sections == {"types", "inputs", "imports"}
Fields == Sections \cup {"meco", "module", "entry", "sampler", "exports"}

(* parse_mapping: `key: value`, or `key:` alone, whose value is <<>>.      *)
Mapping(content) ==
  LET colon == First(content, <<":">>)
      rest  == From(content, colon + 1)
      value == Tail(rest)
  IN  IF ~Has(content, <<":">>) THEN Fail("E_HEADER_SYNTAX")
      ELSE IF ~IsIdentifier(Upto(content, colon)) THEN Fail("E_INVALID_IDENTIFIER")
      ELSE IF rest = <<>> THEN Done([key |-> content[1], value |-> <<>>])
      ELSE IF ~Starts(rest, Spaces) \/ Starts(rest, <<" ", " ">>) THEN Fail("E_HEADER_SYNTAX")
      ELSE IF value = <<>> \/ Ends(value, Spaces) THEN Fail("E_HEADER_VALUE")
      ELSE Done([key |-> content[1], value |-> value])

(* One item of an identifier list, after those already read.               *)
ListItem(raw, values) ==
  LET item == TrimStart(raw) IN
  IF item = <<>> \/ Has(item, Spaces) THEN Fail("E_HEADER_VALUE")
  ELSE IF ~IsIdentifier(item) THEN Fail("E_INVALID_IDENTIFIER")
  ELSE IF Contains(values, item) THEN Fail("E_HEADER_DUPLICATE_FIELD")
  ELSE Done(Append(values, item))

RECURSIVE ListItems(_, _)
ListItems(raws, values) ==
  IF raws = <<>> THEN Done(values)
  ELSE LET item == ListItem(raws[1], values) IN
       IF item.failed THEN item ELSE ListItems(Tail(raws), item.value)

IdentifierList(value) ==
  LET body == SubSeq(value, 2, Len(value) - 1) IN
  IF ~Starts(value, <<"[">>) \/ ~Ends(value, <<"]">>) THEN Fail("E_HEADER_VALUE")
  ELSE IF body = <<>> THEN Done(<<>>)
  ELSE IF Starts(body, Spaces) \/ Ends(body, Spaces) THEN Fail("E_HEADER_VALUE")
  ELSE ListItems(Split(body, ","), <<>>)

(* The characters of an import path: no bare quote, no control character.  *)
RECURSIVE PathCharacters(_, _)
PathCharacters(body, result) ==
  IF body = <<>> THEN Done(result)
  ELSE IF body[1] # "\\"
       THEN IF body[1] \in {"\"", "\r", "\t"} THEN Fail("E_HEADER_VALUE")
            ELSE PathCharacters(Tail(body), Append(result, body[1]))
  ELSE LET escaped == Escape(body, 1, {"\\", "\"", "n", "r", "t"}) IN
       IF escaped.failed THEN Fail("E_HEADER_VALUE")
       ELSE PathCharacters(From(body, 3), Append(result, escaped.value))

QuotedPath(value) ==
  LET path == PathCharacters(SubSeq(value, 2, Len(value) - 1), <<>>) IN
  IF Len(value) < 2 \/ ~Starts(value, <<"\"">>) \/ ~Ends(value, <<"\"">>) THEN Fail("E_HEADER_VALUE")
  ELSE IF ~path.failed /\ path.value = <<>> THEN Fail("E_HEADER_VALUE")
  ELSE path

---------------------------------------------------------------------------

(* The value of a top-level field other than a section.                    *)
FieldValue(key, value) ==
  CASE key = "meco" -> IF value = <<"1.0">> THEN Done(value) ELSE Fail("E_UNSUPPORTED_VERSION")
    [] key \in {"module", "entry"} -> Identifier(value)
    [] key = "sampler" ->
         IF value \in {<<"weighted/1">>, <<"diverse/1">>} THEN Done(value) ELSE Fail("E_HEADER_VALUE")
    [] key = "exports" -> IdentifierList(value)

Slot(key) == IF key = "meco" THEN "version" ELSE key

(* parse_top_level: the header and the section it opens, "none" for a field
   of one line.  The field is marked before its value is looked at.        *)
TopLevel(line, header) ==
  LET field  == Mapping(line)
      key    == field.value.key
      value  == field.value.value
      marked == [header EXCEPT !.seen = @ \cup {key}]
      read   == FieldValue(key, value)
  IN  IF field.failed THEN field
      ELSE IF key \notin Fields THEN Fail("E_HEADER_UNKNOWN_FIELD")
      ELSE IF key \in header.seen THEN Fail("E_HEADER_DUPLICATE_FIELD")
      ELSE IF key \in Sections
           THEN IF value = <<>> THEN Done([header |-> marked, section |-> key])
                ELSE Fail("E_HEADER_VALUE")
      ELSE IF value = <<>> THEN Fail("E_HEADER_VALUE")
      ELSE IF read.failed THEN read
      ELSE Done([header |-> [marked EXCEPT ![Slot(key)] = read.value], section |-> "none"])

(* The value of an entry of a section.                                     *)
EntryValue(section, value) ==
  LET variants == IdentifierList(value) IN
  CASE section = "types" ->
         IF ~variants.failed /\ variants.value = <<>> THEN Fail("E_HEADER_VALUE") ELSE variants
    [] section = "inputs" -> Identifier(value)
    [] section = "imports" -> QuotedPath(value)

(* parse_nested                                                            *)
Nested(line, section, header) ==
  LET field == Mapping(From(line, 3))
      key   == field.value.key
      read  == EntryValue(section, field.value.value)
  IN  IF field.failed THEN field
      ELSE IF field.value.value = <<>> THEN Fail("E_HEADER_VALUE")
      ELSE IF \E i \in DOMAIN header[section] : header[section][i].name = key
           THEN Fail("E_HEADER_DUPLICATE_FIELD")
      ELSE IF read.failed THEN read
      ELSE Done([header EXCEPT ![section] = Append(@, [name |-> key, value |-> read.value])])

(* One line between the delimiters, by its indentation.                    *)
HeaderLine(line, section, header) ==
  LET same(h) == IF h.failed THEN h ELSE Done([header |-> h.value, section |-> section]) IN
  IF line = <<>> THEN Done([header |-> header, section |-> section])
  ELSE IF Has(line, <<"\t">>) THEN Fail("E_HEADER_INDENT")
  ELSE IF ~Starts(line, Spaces) THEN TopLevel(line, header)
  ELSE IF section = "none" \/ ~Starts(line, <<" ", " ">>) \/ Starts(line, <<" ", " ", " ">>)
       THEN Fail("E_HEADER_INDENT")
  ELSE same(Nested(line, section, header))

(* What the closing delimiter still requires.                              *)
HeaderEnd(header) ==
  IF header.version = <<>> \/ header.module = <<>> THEN Fail("E_HEADER_REQUIRED_FIELD") ELSE Done(header)
============================================================================
