------------------------------ MODULE Artifact ------------------------------
(***************************************************************************)
(* A compiled grammar written to a file by encode_artifact, kept, perhaps  *)
(* damaged, and read back by decode_artifact (artifact.rs).                *)
(*                                                                         *)
(* Damage changes, removes or appends one token, or one field of the       *)
(* header; the file may then be sealed: given the size and content hash of *)
(* what it holds, as a file from another writer has.  The content hash is  *)
(* taken to have no collisions, so it is kept as whether it matches.  A    *)
(* token read at another width is taken for corrupt.                       *)
(***************************************************************************)
EXTENDS ArtifactFormat, SequencesExt, FiniteSetsExt

CONSTANTS
  Grammars,        (* compiled grammars that may be encoded                *)
  LimitChoices(_), (* limits a caller may set for the file of a grammar    *)
  Substitutes(_),  (* what damage makes of a token                         *)
  Hard,            (* ArtifactLimits::standard: the hard ceilings          *)
  DepthCap,        (* depth of the deepest weight or guard encoded         *)
  TextSize,        (* UTF-8 length of each text                            *)
  NotUtf8,         (* texts whose bytes are not UTF-8                      *)
  LongestText,     (* bytes of the longest string the decoder takes        *)
  KnownWarnings    (* DiagnosticCode::artifact_warning                     *)

LimitFields == {"bytes", "decoded_bytes", "strings", "rules", "productions",
                "instructions", "stack_depth", "diagnostics"}

ASSUME LimitsAssumption == Hard \in [LimitFields -> Nat] /\ DepthCap \in Nat

VARIABLES
  grammar,         (* the grammar encoded                                  *)
  profile,         (* the debug profile asked for                          *)
  limits,          (* the limits of the decoder's caller                   *)
  file,            (* [header, payload], or <<>> before it is written      *)
  intact,          (* the file is the one that was written                 *)
  outcome,         (* "compiled", "written", then how it ended             *)
  decoded          (* the grammar decoded                                  *)

vars == <<grammar, profile, limits, file, intact, outcome, decoded>>

---------------------------------------------------------------------------
(* Decoder: [at, strings, decoded, instructions, productions, status,      *)
(* value], the value being that of the last read.                          *)

Size(token) ==
  CASE token.width = "u8" -> 1
    [] token.width = "u32" -> 4
    [] token.width = "u64" -> 8
    [] token.width = "position" -> 16
    [] token.width = "string" -> 4 + TextSize[token.value]

Total(numbers) ==
  LET upTo[n \in 0 .. Len(numbers)] == IF n = 0 THEN 0 ELSE upTo[n - 1] + numbers[n]
  IN  upTo[Len(numbers)]

PayloadSize(payload) == Total([i \in DOMAIN payload |-> Size(payload[i])])

Start ==
  [at |-> 1, strings |-> 0, decoded |-> PayloadSize(file.payload), instructions |-> 0,
   productions |-> 0, status |-> "ok", value |-> <<>>]

Corrupt(d)   == [d EXCEPT !.status = "corrupt"]
OverLimit(d) == [d EXCEPT !.status = "limit"]

(* Decoder::string counts the string, then its length, before its bytes.   *)
TakeText(d, text) ==
  LET size    == TextSize[text]
      counted == [d EXCEPT !.strings = @ + 1]
      taken   == [counted EXCEPT !.decoded = @ + size, !.at = @ + 1, !.value = text]
  IN  IF counted.strings > limits.strings \/ size > LongestText
         \/ taken.decoded > limits.decoded_bytes THEN OverLimit(counted)
      ELSE IF text \in NotUtf8 THEN Corrupt(taken) ELSE taken

(* What a token means to the kind it is read as; whether the kind allows it.*)
Allows(kind, raw) ==
  CASE kind = "bool"         -> raw \in {0, 1}
    [] kind = "severity"     -> raw = 1
    [] kind = "analysis"     -> raw < 16
    [] kind = "warning_code" -> raw \in KnownWarnings
    [] OTHER                 -> TRUE

HasBit(raw, bit) == (raw \div bit) % 2 = 1

Meaning(kind, raw) ==
  CASE kind = "bool"           -> raw = 1
    [] kind = "severity"       -> "warning"
    [] kind = "analysis"       -> [reachable |-> HasBit(raw, 1), productive |-> HasBit(raw, 2),
                                   nullable |-> HasBit(raw, 4), recursive |-> HasBit(raw, 8)]
    [] kind = "optional_index" -> IF raw = NoIndex THEN None ELSE raw
    [] OTHER                   -> raw

ReadToken(kind, d) ==
  LET token == file.payload[d.at]
      taken == IF kind \in {"string", "warning_code"} THEN TakeText(d, token.value)
               ELSE [d EXCEPT !.at = @ + 1, !.value = token.value]
  IN  IF d.at \notin DOMAIN file.payload \/ token.width # Width[kind] THEN Corrupt(d)
      ELSE IF taken.status # "ok" THEN taken
      ELSE IF Allows(kind, token.value) THEN [taken EXCEPT !.value = Meaning(kind, @)]
      ELSE Corrupt(taken)

(* Decoder::depth and Decoder::instruction, at the head of a record.       *)
Deep    == {"weight", "expression", "guard"}
Counted == Deep \cup {"binding", "part", "operand"}

Enter(kind, depth, d) ==
  LET counted == IF kind \in Counted THEN [d EXCEPT !.instructions = @ + 1] ELSE d
  IN  IF (kind \in Deep /\ depth > limits.stack_depth) \/ counted.instructions > limits.instructions
      THEN OverLimit(counted) ELSE counted

(* Rational::new reduces; Span::new refuses an end before the start.       *)
Divisors(a, b) == {k \in 1 .. b : a % k = 0 /\ b % k = 0}
Reduced(q) ==
  LET by == Max(Divisors(q.numerator, q.denominator))
  IN  [numerator |-> q.numerator \div by, denominator |-> q.denominator \div by]

(* What is checked once all fields of a record are read.                   *)
Close(kind, d) ==
  LET v == d.value IN
  IF d.status # "ok" THEN d
  ELSE CASE kind = "rational" -> IF v.denominator = 0 THEN Corrupt(d) ELSE [d EXCEPT !.value = Reduced(@)]
         [] kind = "span"     -> IF v.start > v.end THEN Corrupt(d) ELSE d
         [] kind = "rule"     -> IF d.productions + Len(v.productions) > limits.productions THEN OverLimit(d)
                                 ELSE [d EXCEPT !.productions = @ + Len(v.productions)]
         [] OTHER             -> d

(* The ? of the code: what comes next, unless the decoder has failed.      *)
Then(d, Rest(_)) == IF d.status # "ok" THEN d ELSE Rest(d)

RECURSIVE Read(_, _, _), ReadFields(_, _, _, _), ReadMany(_, _, _, _, _)

(* n more records of a kind.                                               *)
ReadMany(kind, n, depth, values, d) ==
  IF n = 0 THEN [d EXCEPT !.value = values]
  ELSE Then(Read(kind, depth, d), LAMBDA read :
         ReadMany(kind, n - 1, depth, Append(values, read.value), read))

(* Decoder::count: no more than the ceiling of the table entry.            *)
ReadField(item, depth, d) ==
  CASE item.form = "one"   -> Read(item.kind, depth, d)
    [] item.form = "many"  ->
         Then(ReadToken("u32", d), LAMBDA count :
           IF count.value > limits[item.limit] THEN OverLimit(count)
           ELSE ReadMany(item.kind, count.value, depth, <<>>, count))
    [] item.form = "maybe" ->
         Then(ReadToken("bool", d), LAMBDA given :
           ReadMany(item.kind, IF given.value THEN 1 ELSE 0, depth, <<>>, given))

(* The fields of a layout one after another, added to a record.            *)
ReadFields(layout, depth, record, d) ==
  IF layout = <<>> THEN [d EXCEPT !.value = record]
  ELSE Then(ReadField(Head(layout), depth, d), LAMBDA read :
         ReadFields(Tail(layout), depth, (Head(layout).field :> read.value) @@ record, read))

(* The variant whose tag was just read.                                    *)
ReadVariant(variants, below, d) ==
  IF d.value + 1 \notin DOMAIN variants THEN Corrupt(d)
  ELSE ReadFields(variants[d.value + 1][2], below, [is |-> variants[d.value + 1][1]], d)

(* One value of a kind; depth is that of the kind itself.                  *)
Read(kind, depth, d) ==
  LET below == IF kind \in Deep THEN depth + 1 ELSE 0 IN
  IF kind \in DOMAIN Width THEN ReadToken(kind, d)
  ELSE Then(Enter(kind, depth, d), LAMBDA entered :
         IF kind \in DOMAIN Layouts THEN Close(kind, ReadFields(Layouts[kind], below, <<>>, entered))
         ELSE Then(ReadToken("u8", entered), LAMBDA tag : ReadVariant(Variants[kind], below, tag)))

---------------------------------------------------------------------------
(* validate_lowered_invariants: what the writer asks of its grammar before *)
(* it writes, and the decoder of what it read.  Slots fill in the order    *)
(* parameters, bindings, captures.                                         *)

OperandVerifies(g, v, slots) ==
  CASE v.is = "input" -> v.index < Len(g.inputs)
    [] v.is = "local" -> v.index < slots
    [] OTHER          -> TRUE

RECURSIVE ExpressionVerifies(_, _, _), GuardVerifies(_, _, _)

ExpressionVerifies(g, e, slots) ==
  CASE e.is = "literal" -> TRUE
    [] e.is = "value"   -> OperandVerifies(g, e.value, slots)
    [] OTHER            -> ExpressionVerifies(g, e.left, slots) /\ ExpressionVerifies(g, e.right, slots)

WeightVerifies(g, w, slots) == w.is = "dynamic" => ExpressionVerifies(g, w.value, slots)

GuardValueVerifies(g, v, slots) == v.is = "value" => OperandVerifies(g, v.value, slots)

GuardVerifies(g, c, slots) ==
  CASE c.is = "value"        -> GuardValueVerifies(g, c.value, slots)
    [] c.is = "not"          -> GuardVerifies(g, c.value, slots)
    [] c.is \in {"and", "or"} -> GuardVerifies(g, c.left, slots) /\ GuardVerifies(g, c.right, slots)
    [] OTHER -> GuardValueVerifies(g, c.left, slots) /\ GuardValueVerifies(g, c.right, slots)

CallVerifies(g, call, slots) ==
  /\ Len(call.arguments) = Len(g.rules[call.rule + 1].parameters)
  /\ \A k \in DOMAIN call.arguments : OperandVerifies(g, call.arguments[k], slots)

MessageVerifies(g, part, slots) ==
  LET known == SelectSeq(g.messages, LAMBDA m : m.id = part.id)
  IN  /\ known # <<>>
      /\ [k \in DOMAIN part.arguments |-> part.arguments[k].name]
           = [k \in DOMAIN known[1].arguments |-> known[1].arguments[k].name]
      /\ \A k \in DOMAIN part.arguments : OperandVerifies(g, part.arguments[k].value, slots)

PartVerifies(g, part, slots) ==
  CASE part.is = "literal"      -> TRUE
    [] part.is = "rule_call"    -> CallVerifies(g, part, slots)
    [] part.is = "value"        -> OperandVerifies(g, part.value, slots)
    [] part.is = "capture"      -> part.slot = slots /\ g.rules[part.rule + 1].parameters = <<>>
    [] part.is = "message_call" -> MessageVerifies(g, part, slots)

Targets(p) ==
  {p.bindings[k].rule : k \in DOMAIN p.bindings}
    \cup {p.parts[k].rule : k \in {j \in DOMAIN p.parts : p.parts[j].is \in {"rule_call", "capture"}}}

Captures(parts) == Len(SelectSeq(parts, LAMBDA part : part.is = "capture"))

ProductionVerifies(g, parameters, p) ==
  LET bound == parameters + Len(p.bindings) IN
  /\ \A r \in Targets(p) : r < Len(g.rules)
  /\ WeightVerifies(g, p.weight, parameters)
  /\ \A k \in DOMAIN p.guard : GuardVerifies(g, p.guard[k], parameters)
  /\ \A k \in DOMAIN p.bindings :
       /\ p.bindings[k].slot = parameters + k - 1
       /\ CallVerifies(g, p.bindings[k], parameters + k - 1)
  /\ \A k \in DOMAIN p.parts : PartVerifies(g, p.parts[k], bound + Captures(SubSeq(p.parts, 1, k - 1)))

SelectionVerifies(s, productions) ==
  /\ Len(s.cumulative) = productions /\ s.cumulative # <<>>
  /\ Last(s.cumulative) = s.total /\ s.total # 0
  /\ \A k \in 1 .. Len(s.cumulative) - 1 : s.cumulative[k] < s.cumulative[k + 1]

NamesDiffer(records) == \A i, j \in DOMAIN records : records[i].name = records[j].name => i = j

Verified(g) ==
  /\ \A k \in DOMAIN g.entries : g.entries[k].rule < Len(g.rules)
  /\ NamesDiffer(g.rules) /\ NamesDiffer(g.entries)
  /\ g.default_entry # None => \E k \in DOMAIN g.entries : g.entries[k].rule = g.default_entry
  /\ \A r \in DOMAIN g.rules :
       /\ \A k \in DOMAIN g.rules[r].selection :
            SelectionVerifies(g.rules[r].selection[k], Len(g.rules[r].productions))
       /\ \A k \in DOMAIN g.rules[r].productions :
            ProductionVerifies(g, Len(g.rules[r].parameters), g.rules[r].productions[k])

---------------------------------------------------------------------------
(* Container.                                                              *)

HeaderSize == 104          (* header and section directory                 *)
FileSize(payload) == HeaderSize + PayloadSize(payload)

(* Nested expressions and guards below the one a production has.           *)
RECURSIVE Nested(_)
Nested(node) ==
  CASE node.is \in {"add", "subtract", "multiply", "and", "or"} ->
         1 + Max({Nested(node.left), Nested(node.right)})
    [] node.is = "not" -> 1 + Nested(node.value)
    [] OTHER           -> 0

Deepest(g) ==
  LET depths(p) == {IF p.weight.is = "dynamic" THEN 1 + Nested(p.weight.value) ELSE 0}
                     \cup {Nested(p.guard[k]) : k \in DOMAIN p.guard}
  IN  Max({0} \cup UNION {UNION {depths(g.rules[r].productions[k]) : k \in DOMAIN g.rules[r].productions}
                            : r \in DOMAIN g.rules})

Header(flag, payload) ==
  [whole |-> TRUE, magic |-> TRUE, version |-> TRUE, contract |-> TRUE, directory |-> TRUE,
   size |-> FileSize(payload), hash |-> TRUE, flag |-> flag]

FileOf(g, flag) ==
  LET payload == Encode("grammar", g) IN [header |-> Header(flag, payload), payload |-> payload]

EncodeArtifact ==
  /\ outcome = "compiled"
  /\ IF ~Verified(grammar) THEN outcome' = "corrupt" /\ UNCHANGED file
     ELSE IF Deepest(grammar) > DepthCap \/ FileSize(Encode("grammar", grammar)) > Hard.bytes
          THEN outcome' = "limit" /\ UNCHANGED file
     ELSE outcome' = "written" /\ file' = FileOf(grammar, profile)
  /\ UNCHANGED <<grammar, profile, limits, intact, decoded>>

(* validate_container: its checks in order; the first that fails decides.  *)
ContainerStatus ==
  LET h == file.header IN
  CASE ~h.whole    -> "corrupt"
    [] h.whole /\ ~h.magic -> "magic"
    [] h.whole /\ h.magic /\ ~h.version -> "version"
    [] h.whole /\ h.magic /\ h.version /\ ~h.contract -> "contract"
    [] OTHER -> IF /\ h.directory /\ h.size = FileSize(file.payload)
                   /\ h.hash /\ h.flag \in {"full", "mapped", "stripped"}
                THEN "ok" ELSE "corrupt"

LimitsStatus ==
  IF (\E f \in LimitFields : limits[f] > Hard[f]) \/ FileSize(file.payload) > limits.bytes
  THEN "limit" ELSE "ok"

(* Mutation: bytes after the grammar are ignored. *)
FinishedAnyhow(d) == d

(* Decoder::finish: nothing may be left over.                              *)
Finished(d) == IF d.status = "ok" /\ d.at <= Len(file.payload) THEN Corrupt(d) ELSE d

PayloadRead ==
  Then(Finished(Read("grammar", 0, Start)), LAMBDA d : IF Verified(d.value) THEN d ELSE Corrupt(d))

(* A decoder's two looks at the file, then the payload it read as d.       *)
Conclude(first, second, d) ==
  /\ outcome = "written"
  /\ IF first # "ok" THEN outcome' = first /\ UNCHANGED decoded
     ELSE IF second # "ok" THEN outcome' = second /\ UNCHANGED decoded
     ELSE IF d.status # "ok" THEN outcome' = d.status /\ UNCHANGED decoded
     ELSE outcome' = "accepted" /\ decoded' = d.value
  /\ UNCHANGED <<grammar, profile, limits, file, intact>>

(* decode_artifact validates the limits before the container;
   inspect_artifact looks at the container first.                          *)
DecodeArtifact  == Conclude(LimitsStatus, ContainerStatus, PayloadRead)
InspectArtifact == Conclude(ContainerStatus, LimitsStatus, PayloadRead)

---------------------------------------------------------------------------
(* What may happen to the file in between.  Bound: one damage, and only    *)
(* before a decoder with the standard limits.                              *)

Damaged(header, payload) ==
  /\ outcome = "written" /\ intact /\ limits = Hard
  /\ file' = [header |-> [header EXCEPT !.hash = FALSE], payload |-> payload]
  /\ intact' = FALSE
  /\ UNCHANGED <<grammar, profile, limits, outcome, decoded>>

ChangeToken ==
  \E i \in DOMAIN file.payload : \E v \in Substitutes(file.payload[i]) \ {file.payload[i].value} :
    Damaged(file.header, [file.payload EXCEPT ![i].value = v])

LoseEnd   == \E n \in 1 .. 2 : Damaged(file.header, SubSeq(file.payload, 1, Len(file.payload) - n))
GainToken == Damaged(file.header, Append(file.payload, [width |-> "u8", value |-> 0]))

ChangeHeader ==
  \/ \E f \in {"whole", "magic", "version", "contract", "directory", "hash"} :
       Damaged([file.header EXCEPT ![f] = FALSE], file.payload)
  \/ \E flag \in {"full", "mapped", "stripped", "unknown"} \ {profile} :
       Damaged([file.header EXCEPT !.flag = flag], file.payload)

Damage == outcome = "written" /\ intact /\ (ChangeToken \/ LoseEnd \/ GainToken \/ ChangeHeader)

(* Another writer gives what it wrote its size and its hash.               *)
Seal ==
  /\ outcome = "written" /\ ~intact /\ ~file.header.hash
  /\ file' = [file EXCEPT !.header.hash = TRUE, !.header.size = FileSize(file.payload)]
  /\ UNCHANGED <<grammar, profile, limits, intact, outcome, decoded>>

Init ==
  /\ grammar \in Grammars
  /\ profile \in {"full", "mapped", "stripped"}
  /\ limits \in LimitChoices(grammar)
  /\ file = <<>> /\ intact = TRUE
  /\ outcome = "compiled" /\ decoded = <<>>

Next == EncodeArtifact \/ Damage \/ Seal \/ DecodeArtifact \/ InspectArtifact

Spec == Init /\ [][Next]_vars

---------------------------------------------------------------------------
(* Properties.                                                             *)

TypeOK ==
  /\ grammar \in Grammars /\ intact \in BOOLEAN
  /\ outcome \in {"compiled", "written", "accepted", "corrupt", "limit", "magic", "version", "contract"}

(* What decoding the file of g costs, counted over the grammar and its     *)
(* tokens and not by the decoder.                                          *)
Texts(payload) == {i \in DOMAIN payload : payload[i].width = "string"}
DecodedSize(payload) ==
  PayloadSize(payload)
    + Total([i \in DOMAIN payload |-> IF i \in Texts(payload) THEN TextSize[payload[i].value] ELSE 0])
Productions(g) == Total([r \in DOMAIN g.rules |-> Len(g.rules[r].productions)])

RECURSIVE Instructions(_, _), InstructionsOf(_, _), InstructionsIn(_, _)

InstructionsOf(kind, values) ==
  IF values = <<>> THEN 0 ELSE Instructions(kind, Head(values)) + InstructionsOf(kind, Tail(values))

InstructionsIn(layout, v) ==
  IF layout = <<>> THEN 0
  ELSE LET value == v[Head(layout).field] IN
       InstructionsOf(Head(layout).kind, IF Head(layout).form = "one" THEN <<value>> ELSE value)
         + InstructionsIn(Tail(layout), v)

Instructions(kind, v) ==
  IF kind \in DOMAIN Width THEN 0
  ELSE IF kind \in DOMAIN Layouts
       THEN InstructionsIn(Layouts[kind], v) + IF kind \in Counted THEN 1 ELSE 0
  ELSE InstructionsIn(WrittenVariants[kind][v.is], v) + IF kind \in Counted THEN 1 ELSE 0

Within(g, payload) ==
  /\ \A f \in LimitFields : limits[f] <= Hard[f]
  /\ FileSize(payload) <= limits.bytes
  /\ Cardinality(Texts(payload)) <= limits.strings
  /\ \A i \in Texts(payload) : TextSize[payload[i].value] <= LongestText
  /\ DecodedSize(payload) <= limits.decoded_bytes
  /\ Len(g.rules) <= limits.rules /\ Len(g.entries) <= limits.rules
  /\ Productions(g) <= limits.productions
  /\ Instructions("grammar", g) <= limits.instructions
  /\ Deepest(g) <= limits.stack_depth
  /\ Len(g.warnings) <= limits.diagnostics

(* A file nothing happened to is decoded to the very grammar that was
   written, unless the caller's limits are below what it holds, and then it
   is refused for that reason only: writer and decoder agree on every field,
   order and tag (artifact.rs:372-1081), and the decoder's running tallies
   are those of the grammar.                                               *)
RoundTrip ==
  intact =>
    /\ outcome \notin {"corrupt", "magic", "version", "contract"}
    /\ outcome = "accepted" => decoded = grammar
    /\ file # <<>> => (outcome = "limit" => ~Within(grammar, file.payload))
                   /\ (outcome = "accepted" => Within(grammar, file.payload))

(* The only freedom a file has: a rational not in lowest terms.            *)
SameButRationals(written, payload) ==
  /\ Len(written) = Len(payload)
  /\ \A i \in DOMAIN payload :
       \/ written[i] = payload[i]
       \/ /\ i < Len(payload)
          /\ <<payload[i].width, payload[i + 1].width>> = <<"u64", "u64">>
          /\ written[i].value * payload[i + 1].value = written[i + 1].value * payload[i].value
       \/ /\ i > 1
          /\ <<payload[i - 1].width, payload[i].width>> = <<"u64", "u64">>
          /\ written[i - 1].value * payload[i].value = written[i].value * payload[i - 1].value

(* Walking a production as the generator does: [ok, filled], the slots
   filled so far, and whether every slot was filled before it was read.    *)
Reads(step) ==
  IF "arguments" \in DOMAIN step
  THEN {IF "is" \in DOMAIN a THEN a ELSE a.value : a \in ToSet(step.arguments)}
  ELSE IF "is" \in DOMAIN step /\ step.is = "value" THEN {step.value} ELSE {}

Walk(g, frame, step) ==
  LET found(v) == CASE v.is = "local" -> v.index \in frame.filled
                    [] v.is = "input" -> v.index + 1 \in DOMAIN g.inputs
                    [] OTHER          -> TRUE
      next     == Cardinality(frame.filled)
      binds    == "slot" \in DOMAIN step
  IN  [ok     |-> frame.ok /\ (\A v \in Reads(step) : found(v)) /\ (binds => step.slot = next),
       filled |-> frame.filled \cup IF binds THEN {next} ELSE {}]

Expands(g, rule, p) ==
  /\ \A r \in Targets(p) : r + 1 \in DOMAIN g.rules
  /\ FoldLeft(LAMBDA frame, step : Walk(g, frame, step),
              [ok |-> TRUE, filled |-> {k - 1 : k \in DOMAIN rule.parameters}],
              p.bindings \o p.parts).ok

(* No damage is accepted that the content hash can see.  What another
   writer sealed is accepted only if it is, but for rationals not in lowest
   terms, the file this writer gives for the decoded grammar, so that no
   token is ignored or read twice; and then the generator finds every rule,
   input and slot it names.                                                *)
DamageCaught ==
  ~intact /\ outcome = "accepted" =>
    /\ file.header.hash
    /\ SameButRationals(Encode("grammar", decoded), file.payload)
    /\ \A r \in DOMAIN decoded.rules : \A k \in DOMAIN decoded.rules[r].productions :
         Expands(decoded, decoded.rules[r], decoded.rules[r].productions[k])
============================================================================
