--------------------------- MODULE ArtifactFormat ---------------------------
(***************************************************************************)
(* The payload of a bytecode/1 artifact (artifact.rs): what the writer     *)
(* writes and what the decoder reads.                                      *)
(*                                                                         *)
(* Writer and decoder are two hand-written walks over the same grammar.    *)
(* Each is given here by a table of its own: for each kind of record the   *)
(* fields in the order of its statements, and the tags of its variants.    *)
(*                                                                         *)
(* A payload is a sequence of tokens [width, value], one for each value    *)
(* written; a string with its length is one token, and so are the two      *)
(* coordinates of a source position.  Indexes count from 0, as in a file.  *)
(* A record with variants says which it is in its field `is`.              *)
(***************************************************************************)
EXTENDS Naturals, Sequences

CONSTANTS
  None,            (* no default entry                                     *)
  NoIndex          (* u32::MAX, which stands for it                        *)

---------------------------------------------------------------------------
(* Table entries: a field of a kind, a vector with the ceiling that bounds *)
(* its length when it is read, an optional field.                          *)

One(kind, field)           == [form |-> "one", kind |-> kind, field |-> field, limit |-> "none"]
Many(kind, field, ceiling) == [form |-> "many", kind |-> kind, field |-> field, limit |-> ceiling]
Maybe(kind, field)         == [form |-> "maybe", kind |-> kind, field |-> field, limit |-> "none"]
All(kind, field)           == Many(kind, field, "none")

Text(field)  == One("string", field)
Index(field) == One("u32", field)
Span(field)  == One("span", field)

---------------------------------------------------------------------------
(* What the writer writes.                                                 *)

WrittenGrammar ==
  << All("input", "inputs"), All("rule", "rules"), All("entry", "entries"),
     One("optional_index", "default_entry"), All("warning", "warnings"),
     All("message", "messages") >>
WrittenWarning == << Text("code"), One("severity", "severity"), Maybe("span", "span"), Text("message") >>
WrittenRule ==
  << Text("name"), All("parameter", "parameters"), Span("span"), One("analysis", "analysis"),
     One("bool", "message_effect"), Maybe("selection", "selection"), All("production", "productions") >>
WrittenSelection == << All("u64", "cumulative"), One("u64", "total") >>
WrittenProduction ==
  << Text("id"), One("bool", "authored_id"), Span("span"), One("weight", "weight"),
     Maybe("guard", "guard"), All("binding", "bindings"), All("part", "parts"),
     One("u32", "diversity_factor") >>
(* Mutation: the slot is written before the arguments. *)
WrittenBindingSlotFirst ==
  << Index("rule"), Index("slot"), All("operand", "arguments"), Text("name"), Span("span") >>

WrittenBinding == << Index("rule"), All("operand", "arguments"), Index("slot"), Text("name"), Span("span") >>

WrittenPart ==
  [literal      |-> << Text("text"), Span("span") >>,
   rule_call    |-> << Index("rule"), All("operand", "arguments"), Span("span") >>,
   value        |-> << One("operand", "value"), Span("span") >>,
   capture      |-> << Index("rule"), Index("slot"), Text("name"), Span("span") >>,
   message_call |-> << Text("id"), All("named", "arguments"), Span("span") >>]
WrittenOperand ==
  [input |-> << Index("index") >>, local |-> << Index("index") >>, constant |-> << One("constant", "value") >>]
WrittenConstant ==
  [text |-> << Text("value") >>, number |-> << One("rational", "value") >>,
   boolean |-> << One("bool", "value") >>, enum |-> << Text("value") >>]
WrittenWeight == [static |-> << One("rational", "value") >>, dynamic |-> << One("expression", "value") >>]
WrittenExpression ==
  LET both == << One("expression", "left"), One("expression", "right") >>
  IN  [literal |-> << One("rational", "value") >>, value |-> << One("operand", "value") >>,
       add |-> both, subtract |-> both, multiply |-> both]
WrittenGuard ==
  LET values == << One("guard_value", "left"), One("guard_value", "right") >>
      guards == << One("guard", "left"), One("guard", "right") >>
  IN  [value |-> << One("guard_value", "value") >>, is |-> values, is_not |-> values,
       less |-> values, less_or_equal |-> values, greater |-> values, greater_or_equal |-> values,
       not |-> << One("guard", "value") >>, and |-> guards, or |-> guards]
WrittenGuardValue == [value |-> << One("operand", "value") >>, constant |-> << One("constant", "value") >>]
WrittenType ==
  [text |-> <<>>, number |-> <<>>, boolean |-> <<>>, enum |-> << Text("name"), All("string", "variants") >>]
WrittenSchemaType == [text |-> <<>>, number |-> <<>>, boolean |-> <<>>, enum |-> << Text("name") >>]
WrittenRational == << One("i64", "numerator"), One("u64", "denominator") >>
WrittenSpan     == << One("u32", "source"), One("position", "start"), One("position", "end") >>

Written ==
  [grammar |-> WrittenGrammar, input |-> << Text("external_name"), One("type", "type") >>,
   entry |-> << Text("name"), Index("rule") >>, warning |-> WrittenWarning,
   message |-> << Text("id"), All("argument", "arguments") >>,
   argument |-> << Text("name"), One("schema_type", "type") >>,
   rule |-> WrittenRule, parameter |-> << Text("name"), One("type", "type") >>,
   selection |-> WrittenSelection, production |-> WrittenProduction, binding |-> WrittenBinding,
   named |-> << Text("name"), One("operand", "value") >>,
   rational |-> WrittenRational, span |-> WrittenSpan]

WrittenVariants ==
  [part |-> WrittenPart, operand |-> WrittenOperand, constant |-> WrittenConstant,
   weight |-> WrittenWeight, expression |-> WrittenExpression, guard |-> WrittenGuard,
   guard_value |-> WrittenGuardValue, type |-> WrittenType, schema_type |-> WrittenSchemaType]

(* The u8 before each variant.                                             *)
WrittenTag ==
  [part |-> [literal |-> 0, rule_call |-> 1, value |-> 2, capture |-> 3, message_call |-> 4],
   operand |-> [input |-> 0, local |-> 1, constant |-> 2],
   constant |-> [text |-> 0, number |-> 1, boolean |-> 2, enum |-> 3],
   weight |-> [static |-> 0, dynamic |-> 1],
   expression |-> [literal |-> 0, value |-> 1, add |-> 2, subtract |-> 3, multiply |-> 4],
   guard |-> [value |-> 0, is |-> 1, is_not |-> 2, less |-> 3, less_or_equal |-> 4, greater |-> 5,
              greater_or_equal |-> 6, not |-> 7, and |-> 8, or |-> 9],
   guard_value |-> [value |-> 0, constant |-> 1],
   type |-> [text |-> 0, number |-> 1, boolean |-> 2, enum |-> 3],
   schema_type |-> [text |-> 0, number |-> 1, boolean |-> 2, enum |-> 3]]

---------------------------------------------------------------------------
(* What the decoder reads; variants in the order of their tags.            *)

ReadGrammar ==
  << Many("input", "inputs", "strings"), Many("rule", "rules", "rules"),
     Many("entry", "entries", "rules"), One("optional_index", "default_entry"),
     Many("warning", "warnings", "diagnostics"), Many("message", "messages", "strings") >>
ReadInput    == << Text("external_name"), One("type", "type") >>
ReadEntry    == << Text("name"), Index("rule") >>
ReadWarning  == << One("warning_code", "code"), One("severity", "severity"), Maybe("span", "span"), Text("message") >>
ReadMessage  == << Text("id"), Many("argument", "arguments", "strings") >>
ReadArgument == << Text("name"), One("schema_type", "type") >>
ReadRule ==
  << Text("name"), Many("parameter", "parameters", "strings"), Span("span"), One("analysis", "analysis"),
     One("bool", "message_effect"), Maybe("selection", "selection"),
     Many("production", "productions", "productions") >>
ReadSelection == << Many("u64", "cumulative", "productions"), One("u64", "total") >>
ReadProduction ==
  << Text("id"), One("bool", "authored_id"), Span("span"), One("weight", "weight"),
     Maybe("guard", "guard"), Many("binding", "bindings", "instructions"),
     Many("part", "parts", "instructions"), One("u32", "diversity_factor") >>
ReadBinding ==
  << Index("rule"), Many("operand", "arguments", "instructions"), Index("slot"), Text("name"), Span("span") >>
ReadNamed    == << Text("name"), One("operand", "value") >>
ReadRational == << One("i64", "numerator"), One("u64", "denominator") >>
ReadSpan     == << One("u32", "source"), One("position", "start"), One("position", "end") >>

Layouts ==
  [grammar |-> ReadGrammar, input |-> ReadInput, entry |-> ReadEntry, warning |-> ReadWarning,
   message |-> ReadMessage, argument |-> ReadArgument, rule |-> ReadRule, parameter |-> << Text("name"), One("type", "type") >>,
   selection |-> ReadSelection, production |-> ReadProduction, binding |-> ReadBinding,
   named |-> ReadNamed, rational |-> ReadRational, span |-> ReadSpan]

ReadPart ==
  << <<"literal",      << Text("text"), Span("span") >> >>,
     <<"rule_call",    << Index("rule"), Many("operand", "arguments", "instructions"), Span("span") >> >>,
     <<"value",        << One("operand", "value"), Span("span") >> >>,
     <<"capture",      << Index("rule"), Index("slot"), Text("name"), Span("span") >> >>,
     <<"message_call", << Text("id"), Many("named", "arguments", "instructions"), Span("span") >> >> >>
ReadOperand ==
  << <<"input", << Index("index") >> >>, <<"local", << Index("index") >> >>,
     <<"constant", << One("constant", "value") >> >> >>
ReadConstant ==
  << <<"text", << Text("value") >> >>, <<"number", << One("rational", "value") >> >>,
     <<"boolean", << One("bool", "value") >> >>, <<"enum", << Text("value") >> >> >>
ReadWeight ==
  << <<"static", << One("rational", "value") >> >>, <<"dynamic", << One("expression", "value") >> >> >>
ReadExpression ==
  LET both == << One("expression", "left"), One("expression", "right") >>
  IN  << <<"literal", << One("rational", "value") >> >>, <<"value", << One("operand", "value") >> >>,
         <<"add", both>>, <<"subtract", both>>, <<"multiply", both>> >>
ReadGuard ==
  LET values == << One("guard_value", "left"), One("guard_value", "right") >>
      guards == << One("guard", "left"), One("guard", "right") >>
  IN  << <<"value", << One("guard_value", "value") >> >>, <<"is", values>>, <<"is_not", values>>,
         <<"less", values>>, <<"less_or_equal", values>>, <<"greater", values>>,
         <<"greater_or_equal", values>>, <<"not", << One("guard", "value") >> >>,
         <<"and", guards>>, <<"or", guards>> >>
ReadGuardValue ==
  << <<"value", << One("operand", "value") >> >>, <<"constant", << One("constant", "value") >> >> >>
ReadType ==
  << <<"text", <<>> >>, <<"number", <<>> >>, <<"boolean", <<>> >>,
     <<"enum", << Text("name"), Many("string", "variants", "strings") >> >> >>
ReadSchemaType ==
  << <<"text", <<>> >>, <<"number", <<>> >>, <<"boolean", <<>> >>, <<"enum", << Text("name") >> >> >>

Variants ==
  [part |-> ReadPart, operand |-> ReadOperand, constant |-> ReadConstant, weight |-> ReadWeight,
   expression |-> ReadExpression, guard |-> ReadGuard, guard_value |-> ReadGuardValue,
   type |-> ReadType, schema_type |-> ReadSchemaType]

---------------------------------------------------------------------------
(* Writer: the tokens of a value.                                          *)

Width ==
  [u8 |-> "u8", bool |-> "u8", severity |-> "u8", analysis |-> "u8", u32 |-> "u32",
   optional_index |-> "u32", u64 |-> "u64", i64 |-> "u64", position |-> "position",
   string |-> "string", warning_code |-> "string"]

Bit(flag, value) == IF flag THEN value ELSE 0

(* The four analysis flags of a rule share one byte.                       *)
Packed(a) ==
  Bit(a.reachable, 1) + Bit(a.productive, 2) + Bit(a.nullable, 4) + Bit(a.recursive, 8)

Raw(kind, v) ==
  CASE kind = "bool"           -> Bit(v, 1)
    [] kind = "severity"       -> Bit(v = "warning", 1)
    [] kind = "analysis"       -> Packed(v)
    [] kind = "optional_index" -> IF v = None THEN NoIndex ELSE v
    [] OTHER                   -> v

Token(kind, v) == [width |-> Width[kind], value |-> Raw(kind, v)]

RECURSIVE Encode(_, _), EncodeAll(_, _), EncodeFields(_, _)

EncodeAll(kind, values) ==
  IF values = <<>> THEN <<>> ELSE Encode(kind, Head(values)) \o EncodeAll(kind, Tail(values))

EncodeField(item, v) ==
  CASE item.form = "one"   -> Encode(item.kind, v)
    [] item.form = "many"  -> <<Token("u32", Len(v))>> \o EncodeAll(item.kind, v)
    [] item.form = "maybe" -> <<Token("bool", v # <<>>)>> \o EncodeAll(item.kind, v)

EncodeFields(layout, v) ==
  IF layout = <<>> THEN <<>>
  ELSE EncodeField(Head(layout), v[Head(layout).field]) \o EncodeFields(Tail(layout), v)

Encode(kind, v) ==
  IF kind \in DOMAIN Width THEN <<Token(kind, v)>>
  ELSE IF kind \in DOMAIN Written THEN EncodeFields(Written[kind], v)
  ELSE <<Token("u8", WrittenTag[kind][v.is])>> \o EncodeFields(WrittenVariants[kind][v.is], v)
============================================================================
