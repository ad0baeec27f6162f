-------------------------- MODULE Generator_proofs --------------------------
(***************************************************************************)
(* Proofs about the generator, for every set of packages, every list of    *)
(* inputs, every set of requests and any limits.                           *)
(*                                                                         *)
(* Lowering: a package that the compiler accepts passes the verifier of    *)
(* artifacts, and its message effects are what its productions say.        *)
(*                                                                         *)
(* Running: the stack of work items stays in the order in which the code   *)
(* relies on it.  From it follow the exact accounts of the budgets, and    *)
(* that no internal error of the generator is ever reported.               *)
(*                                                                         *)
(* Analyses: what the compiler concludes of a package, that a rule always  *)
(* produces text or a message, or is never inside itself, holds in runs.   *)
(***************************************************************************)
EXTENDS Generator, FiniteSetTheorems, FunctionTheorems, SequenceTheorems,
        WellFoundedInduction, TLAPS

-----------------------------------------------------------------------------
(* The shape of the data of a request: a frame and an origin refer to      *)
(* nodes that exist.                                                       *)

Kinds == {"production", "binding", "capture", "message", "text", "host", "bound"}

OriginsTo(n) == [kind : {"host", "derived", "constant"}, node : 0 .. n]
FramesTo(n)  == [values : Seq(Text), origins : Seq(OriginsTo(n))]
Nodes        == [parent : Nat, kind : Kinds, rule : Nat, depth : Nat, range : Seq(Nat)]

(* The work items that own a frame, and those that fill a slot of the one   *)
(* below them.                                                              *)
Owners == {"PrepareBinding", "Continue"}
Fillers == {"FinishBinding", "FinishCapture"}

(* A work item, where there are b sinks, f frames, n nodes and depth d.     *)
WorkFits(rules, b, f, n, d, w) ==
  /\ w.op \in {"Expand", "FinishProduction"} \cup Owners \cup Fillers
  /\ w.sink \in 1 .. b
  /\ w.op = "Expand" =>
       /\ w.rule \in DOMAIN rules
       /\ w.arguments \in Seq(Text) /\ w.origins \in Seq(OriginsTo(n))
       /\ Len(w.arguments) = Len(w.origins)
       /\ w.depth \in Nat /\ w.parent \in 0 .. n
  /\ w.op \in Owners =>
       /\ w \in [op : Owners, rule : DOMAIN rules, production : Nat, next : Nat \ {0},
                 frame : 1 .. f, sink : 1 .. b, depth : 0 .. d, node : 1 .. n]
       /\ w.production \in DOMAIN rules[w.rule].productions
  /\ w.op \in Fillers => w.frame \in 1 .. f
  /\ w.op # "Expand" => w.node \in 1 .. n
  /\ w.op \in {"FinishProduction", "FinishCapture"} => w.start \in Nat

(* What generate, generate_structural and generate_with_formatter are given. *)
Limits == [depth : Nat, expansions : Nat, scalars : Nat, bytes : Nat, words : Nat]

RequestFits(r) ==
  /\ r.api \in {"weighted", "structural", "formatter"}
  /\ r.limits \in Limits
  /\ r.data \in Seq(Text) /\ Len(r.data) = Len(Inputs)

(* A lowered rule: lists, texts, and rules that exist.                      *)
Operand(v) == v.kind \notin {"local", "input"} => v.text \in Text
Operands(arguments) == IsList(arguments) /\ \A k \in DOMAIN arguments : Operand(arguments[k])

LoweredPart(rules, part) ==
  /\ part.kind = "literal" => part.text \in Text
  /\ part.kind = "value" => Operand(part.value)
  /\ part.kind \in {"call", "message"} => Operands(part.arguments)
  /\ part.kind \in {"call", "capture"} => part.rule \in DOMAIN rules

LoweredProduction(rules, p) ==
  /\ IsList(p.bindings) /\ IsList(p.parts)
  /\ \A i \in DOMAIN p.bindings :
       p.bindings[i].rule \in DOMAIN rules /\ Operands(p.bindings[i].arguments)
  /\ \A j \in DOMAIN p.parts : LoweredPart(rules, p.parts[j])

LoweredRules(rules) ==
  /\ IsList(rules) /\ rules # <<>>
  /\ \A r \in DOMAIN rules :
       /\ rules[r].parameters \in Nat
       /\ IsList(rules[r].productions)
       /\ \A i \in DOMAIN rules[r].productions : LoweredProduction(rules, rules[r].productions[i])

(* Until a request begins, its data is empty.                               *)
NotStarted ==
  /\ request = [api |-> "none"]
  /\ outcome \in {"source", "compiled", "refused", "bytecode-corrupt"}
  /\ stack = <<>> /\ buffers = <<>> /\ sinkScalars = <<>> /\ frames = <<>>
  /\ scalars = 0 /\ expansions = 0 /\ words = 0
  /\ message = <<>> /\ nodes = <<>> /\ bound = <<>> /\ choices = <<>> /\ result = <<>>

(* What every request runs.                                                 *)
IsCompiled == grammar = Lower(authored) /\ Accepted(authored) /\ Verifies(grammar)

(* The stack, the frames and the nodes.  A node is pushed after its parent. *)
FitsOf(rules, b, f, n, d, s) == IsList(s) /\ \A k \in DOMAIN s : WorkFits(rules, b, f, n, d, s[k])

FramesFit(n, fs) == fs \in Seq(FramesTo(n)) /\ \A f \in DOMAIN fs : Len(fs[f].values) = Len(fs[f].origins)

NodesFit(limit, ns) ==
  ns \in Seq(Nodes) /\ \A n \in DOMAIN ns : ns[n].parent \in 0 .. n - 1 /\ ns[n].depth <= limit

(* Each sink has its count; the total charged is at least their sum, and    *)
(* within the limits, as each sink is.                                      *)
SinksFit(limits, bs, ss, total) ==
  /\ bs \in Seq(Text) /\ bs # <<>>
  /\ ss \in Seq(Nat) /\ Len(ss) = Len(bs) /\ \A s \in DOMAIN bs : ss[s] = Len(bs[s])
  /\ total \in Nat /\ Total(ss) <= total /\ total <= limits.scalars
  /\ \A s \in DOMAIN bs : Bytes(bs[s]) <= limits.bytes

(* An expansion pushes one frame, makes one selection, and costs at least   *)
(* one word.                                                                *)
BudgetFits(limits, fs, cs, es, ws) ==
  /\ es \in Nat /\ ws \in Nat /\ cs \in Seq(Nat)
  /\ Len(fs) = es /\ Len(cs) = es /\ es <= ws
  /\ es <= limits.expansions /\ ws <= limits.words

ResultFits(limits, text) ==
  text \in Text /\ Len(text) <= limits.scalars /\ Bytes(text) <= limits.bytes

-----------------------------------------------------------------------------
(* Slots.  The code binds slots by number and checks that they come in     *)
(* order; here is why they do.                                             *)

(* The slots that are bound before the owner w goes on: the parameters, and *)
(* the bindings and captures it has passed.                                 *)
Expected(rules, w) ==
  LET p == rules[w.rule].productions[w.production] IN
  IF w.op = "PrepareBinding" THEN rules[w.rule].parameters + w.next - 1
  ELSE rules[w.rule].parameters + Len(p.bindings) + CapturesBefore(p, w.next)

NextFits(rules, w) ==
  LET p == rules[w.rule].productions[w.production] IN
  IF w.op = "PrepareBinding" THEN w.next \in 1 .. Len(p.bindings) + 1
  ELSE w.next \in 1 .. Len(p.parts) + 1

(* An owner has bound the slots it has passed, except that the slot of the  *)
(* binding or capture it passed last may still be waited for, by the item   *)
(* directly above it.                                                       *)
Filling(s, k) == k > 1 /\ s[k - 1].op \in Fillers

OwnerFilled(rules, fs, s, k) ==
  LET filled == Len(fs[s[k].frame].values)
      expected == Expected(rules, s[k])
  IN  IF Filling(s, k)
      THEN s[k - 1].frame = s[k].frame /\ s[k - 1].slot = filled + 1 /\ expected = filled + 1
      ELSE expected = filled

OwnerFits(rules, fs, s, k) ==
  s[k].op \in Owners => NextFits(rules, s[k]) /\ OwnerFilled(rules, fs, s, k)

(* What fills a slot is directly above an owner.                            *)
FillerFits(s, k) == s[k].op \in Fillers => k < Len(s) /\ s[k + 1].op \in Owners

ArityFits(rules, w) == w.op = "Expand" => Len(w.arguments) = rules[w.rule].parameters

(* No two owners share a frame.                                             *)
Apart(v, w) == v.op \in Owners /\ w.op \in Owners => v.frame # w.frame

SlotsOf(rules, fs, s) ==
  /\ \A k \in DOMAIN s : OwnerFits(rules, fs, s, k) /\ FillerFits(s, k) /\ ArityFits(rules, s[k])
  /\ \A j, k \in DOMAIN s : j < k => Apart(s[j], s[k])

(* Spans.  A production and a capture start within the text of their sink.  *)
(* The sink of a binding is cleared when the binding ends; no work below it *)
(* writes to that sink, so no start is ever past the end.                   *)
Starts(bs, w) == w.op \in {"FinishProduction", "FinishCapture"} => w.start <= Len(bs[w.sink])

Temporary(v, w) == v.op = "FinishBinding" => w.sink # v.sink

SpansOf(bs, s) ==
  /\ \A k \in DOMAIN s : Starts(bs, s[k])
  /\ \A j, k \in DOMAIN s : j < k => Temporary(s[j], s[k])

-----------------------------------------------------------------------------
(* Messages.  effects are the rules that validate_message_effects calls    *)
(* messages; 1 is the rule of the request.                                 *)

(* Work that has yet to select the message.                                 *)
Pending(effects, w) ==
  /\ w.op \in {"Expand"} \cup Owners
  /\ w.rule \in effects
  /\ w.op = "Continue" => w.next = 1

(* A message rule is only expanded into the sink of the request, and if the *)
(* request is for a message, nothing else is.                               *)
AtRoot(effects, w) ==
  w.op \in {"Expand"} \cup Owners => (w.rule \in effects <=> (1 \in effects /\ w.sink = Root))

(* Until there is a message exactly one item is to select it; no text is    *)
(* ever next to it.                                                         *)
MessagesOf(effects, root, msg, s) ==
  /\ \A k \in DOMAIN s : AtRoot(effects, s[k])
  /\ 1 \in effects => root = <<>>
  /\ \A k \in DOMAIN s : Pending(effects, s[k]) => msg = <<>>
  /\ \A j, k \in DOMAIN s : j < k => ~ (Pending(effects, s[j]) /\ Pending(effects, s[k]))
  /\ 1 \in effects /\ msg = <<>> => \E k \in DOMAIN s : Pending(effects, s[k])
  /\ 1 \notin effects => msg = <<>>

-----------------------------------------------------------------------------
(* The invariant.                                                          *)

(* From the first work item on.                                             *)
Started ==
  /\ RequestFits(request)
  /\ outcome \notin {"source", "compiled"}
  /\ IsCompiled
  /\ FitsOf(grammar, Len(buffers), Len(frames), Len(nodes), request.limits.depth, stack)
  /\ FramesFit(Len(nodes), frames)
  /\ NodesFit(request.limits.depth, nodes)
  /\ SinksFit(request.limits, buffers, sinkScalars, scalars)
  /\ BudgetFits(request.limits, frames, choices, expansions, words)
  /\ ResultFits(request.limits, result)
  /\ SlotsOf(grammar, frames, stack)
  /\ SpansOf(buffers, stack)
  /\ MessagesOf(MessageEffects(grammar), buffers[Root], message, stack)
  /\ outcome = "running" => ~ (request.api = "weighted" /\ 1 \in MessageEffects(grammar))
  /\ OutcomesForeseen

(* Before.                                                                  *)
Compiling ==
  /\ outcome = "compiled" => IsCompiled
  /\ outcome # "bytecode-corrupt"

IInv ==
  /\ authored \in Authored
  /\ (NotStarted /\ Compiling) \/ Started

-----------------------------------------------------------------------------
(* Induction.                                                              *)

(* Induction up to n, on a set of numbers. *)
LEMMA StepByStep ==
  ASSUME NEW n \in Nat, NEW T, 0 \in T, \A k \in 0 .. n : k \in T /\ k < n => k + 1 \in T
  PROVE  \A k \in 0 .. n : k \in T
<1> DEFINE Missing == {k \in 0 .. n : k \notin T}
<1>1. CASE Missing # {}
  <2>1. Missing \subseteq Nat
    OBVIOUS
  <2>2. PICK k \in Missing : \A j \in Missing : ~(<<j, k>> \in OpToRel(<, Nat))
    BY <1>1, <2>1, WFMin, NatLessThanWellFounded
  <2>3. k \in Nat /\ k # 0 /\ k <= n
    OBVIOUS
  <2>4. k - 1 \in 0 .. n /\ k - 1 < n /\ k - 1 < k /\ (k - 1) + 1 = k
    BY <2>3
  <2>5. k - 1 \in T
    <3>1. ASSUME k - 1 \notin T PROVE FALSE
      <4>1. k - 1 \in Missing
        BY <2>4, <3>1
      <4>2. <<k - 1, k>> \in OpToRel(<, Nat)
        BY <2>3, <2>4 DEF OpToRel
      <4>3. QED
        BY <2>2, <4>1, <4>2
    <3>2. QED
      BY <3>1
  <2>6. k \in T
    BY <2>4, <2>5
  <2>7. QED
    BY <2>6
<1>2. QED
  BY <1>1

(* w is what n steps make of a, one after the other. *)
RunOf(w, U, a, step, n) ==
  /\ w \in [0 .. n -> U]
  /\ w[0] = a
  /\ \A k \in 1 .. n : w[k] = step[k][w[k - 1]]

(* All steps can be taken. *)
LEMMA RunsExist ==
  ASSUME NEW U, NEW a \in U, NEW n \in Nat, NEW step \in [1 .. n -> [U -> U]]
  PROVE  \E w : RunOf(w, U, a, step, n)
<1> DEFINE T == {k \in 0 .. n : \E w : RunOf(w, U, a, step, k)}
<1>1. 0 \in T
  <2> DEFINE w == [k \in 0 .. 0 |-> a]
  <2>1. RunOf(w, U, a, step, 0)
    BY DEF RunOf
  <2>2. QED
    BY <2>1
<1>2. ASSUME NEW k \in 0 .. n, k \in T, k < n PROVE k + 1 \in T
  <2>1. PICK w : RunOf(w, U, a, step, k)
    BY <1>2
  <2> DEFINE v == [j \in 0 .. k + 1 |-> IF j = k + 1 THEN step[k + 1][w[k]] ELSE w[j]]
  <2>2. k \in Nat /\ k + 1 \in 0 .. n
    BY <1>2
  <2>3. w[k] \in U /\ k + 1 \in 1 .. n /\ step[k + 1] \in [U -> U] /\ step[k + 1][w[k]] \in U
    BY <2>1, <2>2 DEF RunOf
  <2>4. v \in [0 .. k + 1 -> U]
    BY <2>1, <2>2, <2>3 DEF RunOf
  <2>5. ASSUME NEW j \in 1 .. k + 1 PROVE v[j] = step[j][v[j - 1]]
    <3>1. j - 1 \in 0 .. k /\ j \in 0 .. k + 1 /\ j - 1 \in 0 .. k + 1 /\ j - 1 # k + 1
      BY <2>2
    <3>2. v[j - 1] = w[j - 1]
      BY <3>1
    <3>3. CASE j = k + 1
      BY <2>2, <3>1, <3>2, <3>3
    <3>4. CASE j # k + 1
      <4>1. j \in 1 .. k
        BY <2>2, <3>4
      <4>2. v[j] = w[j]
        BY <3>1, <3>4
      <4>3. QED
        BY <2>1, <3>2, <4>1, <4>2 DEF RunOf
    <3>5. QED
      BY <3>3, <3>4
  <2>6. v[0] = a
    BY <2>1, <2>2 DEF RunOf
  <2>7. RunOf(v, U, a, step, k + 1)
    <3> HIDE DEF v
    <3>1. QED
      BY <2>4, <2>5, <2>6 DEF RunOf
  <2>8. QED
    BY <2>2, <2>7
<1>3. \A k \in 0 .. n : k \in T
  <2> HIDE DEF T
  <2>1. QED
    BY <1>1, <1>2, StepByStep
<1>4. QED
  BY <1>3

(* A function defined by recursion, once some function satisfies its
   definition, is the run of its steps. *)
LEMMA RecursionRuns ==
  ASSUME NEW U, NEW a \in U, NEW n \in Nat, NEW step \in [1 .. n -> [U -> U]],
         NEW f, f = [k \in 0 .. n |-> f[k]], f[0] = a,
         \A k \in 1 .. n : f[k - 1] \in U => f[k] = step[k][f[k - 1]]
  PROVE  RunOf(f, U, a, step, n)
<1>1. \A k \in 0 .. n : f[k] \in U
  <2> DEFINE T == {k \in 0 .. n : f[k] \in U}
  <2>1. 0 \in T
    OBVIOUS
  <2>2. ASSUME NEW k \in 0 .. n, k \in T, k < n PROVE k + 1 \in T
    <3>1. k + 1 \in 1 .. n /\ (k + 1) - 1 = k /\ k + 1 \in 0 .. n
      BY <2>2
    <3>2. f[k + 1] = step[k + 1][f[k]]
      BY <2>2, <3>1
    <3>3. QED
      BY <2>2, <3>1, <3>2
  <2>3. \A k \in 0 .. n : k \in T
    <3> HIDE DEF T
    <3>1. QED
      BY <2>1, <2>2, StepByStep
  <2>4. QED
    BY <2>3
<1>2. f \in [0 .. n -> U]
  BY <1>1
<1>3. \A k \in 1 .. n : k - 1 \in 0 .. n
  OBVIOUS
<1>4. QED
  BY <1>1, <1>2, <1>3 DEF RunOf

(* How many numbers there are up to n.                                      *)
LEMMA UpToIs ==
  ASSUME NEW n \in Nat
  PROVE  IsFiniteSet(1 .. n) /\ Cardinality(1 .. n) = n
<1>1. 1 \in Int /\ n \in Int
  OBVIOUS
<1>2. IsFiniteSet(1 .. n) /\ Cardinality(1 .. n) = IF 1 > n THEN 0 ELSE n - 1 + 1
  BY <1>1, FS_Interval
<1>3. QED
  BY <1>2

(* Every non-empty set of naturals has a least element. *)
LEMMA LeastOf ==
  ASSUME NEW S, S \subseteq Nat, S # {}
  PROVE  \E n \in S : \A m \in S : n <= m
<1>1. PICK n \in S : \A m \in S : ~ (<<m, n>> \in OpToRel(<, Nat))
  BY WFMin, NatLessThanWellFounded
<1>2. \A m \in S : ~ (m < n)
  BY <1>1 DEF OpToRel
<1>3. \A m \in S : m \in Nat /\ n \in Nat
  OBVIOUS
<1>4. QED
  BY <1>2, <1>3

-----------------------------------------------------------------------------
(* Sums: the running totals of a list of numbers. *)

Sums(f, t) ==
  /\ t \in [0 .. Len(f) -> Nat] /\ t[0] = 0
  /\ \A k \in 1 .. Len(f) : t[k] = t[k - 1] + f[k]

Widths(text) == [k \in DOMAIN text |-> Width[text[k]]]

(* Total adds up its list.                                                  *)
LEMMA TotalIs ==
  ASSUME NEW s \in Seq(Nat)
  PROVE  \E t : Sums(s, t) /\ Total(s) = t[Len(s)]
<1>1. PICK n \in Nat : n = Len(s) /\ DOMAIN s = 1 .. n
  OBVIOUS
<1> DEFINE step == [k \in 1 .. n |-> [u \in Nat |-> u + s[k]]]
           Rec(f) == [k \in 0 .. n |-> IF k = 0 THEN 0 ELSE f[k - 1] + s[k]]
<1>2. \A k \in 1 .. n : s[k] \in Nat
  BY <1>1
<1>3. step \in [1 .. n -> [Nat -> Nat]] /\ \A k \in 1 .. n, u \in Nat : step[k][u] = u + s[k]
  BY <1>2
<1>4. PICK w : RunOf(w, Nat, 0, step, n)
  <2> HIDE DEF step
  <2>1. QED
    BY <1>3, RunsExist
<1>5. w = Rec(w)
  <2> HIDE DEF step
  <2>1. ASSUME NEW k \in 0 .. n PROVE w[k] = IF k = 0 THEN 0 ELSE w[k - 1] + s[k]
    <3>1. CASE k = 0
      BY <1>4, <3>1 DEF RunOf
    <3>2. CASE k # 0
      <4>1. k \in 1 .. n /\ k - 1 \in 0 .. n
        BY <3>2
      <4>2. w[k - 1] \in Nat /\ w[k] = step[k][w[k - 1]]
        BY <1>4, <4>1 DEF RunOf
      <4>3. QED
        BY <1>3, <3>2, <4>1, <4>2
    <3>3. QED
      BY <3>1, <3>2
  <2>2. w = [k \in 0 .. n |-> w[k]]
    BY <1>4 DEF RunOf
  <2>3. QED
    BY <2>1, <2>2
<1>6. Total(s) = LET sum == CHOOSE f : f = Rec(f) IN sum[n]
  BY <1>1 DEF Total
<1>7. PICK f : Total(s) = f[n] /\ f = Rec(f)
  <2> HIDE DEF Rec
  <2>1. QED
    BY <1>5, <1>6
<1>8. /\ f = [k \in 0 .. n |-> f[k]] /\ f[0] = 0
      /\ \A k \in 1 .. n : f[k] = f[k - 1] + s[k]
  <2>1. 0 \in 0 .. n /\ \A k \in 1 .. n : k \in 0 .. n /\ k # 0
    OBVIOUS
  <2>2. QED
    BY <1>7, <2>1
<1>9. RunOf(f, Nat, 0, step, n)
  <2> HIDE DEF step
  <2>1. \A k \in 1 .. n : f[k - 1] \in Nat => f[k] = step[k][f[k - 1]]
    BY <1>3, <1>8
  <2>2. QED
    BY <1>3, <1>8, <2>1, RecursionRuns
<1>10. Sums(s, f)
  BY <1>1, <1>8, <1>9 DEF RunOf, Sums
<1>11. QED
  BY <1>1, <1>7, <1>10

(* The widths of the characters of a text are numbers, one each.            *)
LEMMA WidthsAre ==
  ASSUME NEW text \in Text
  PROVE  Widths(text) \in Seq(Nat) /\ Len(Widths(text)) = Len(text)
BY WidthAssumption DEF Widths, Text

(* Bytes adds up the widths of the characters.                              *)
LEMMA BytesAre ==
  ASSUME NEW text \in Text
  PROVE  \E t : Sums(Widths(text), t) /\ Bytes(text) = t[Len(text)]
<1>1. PICK n \in Nat : n = Len(text) /\ DOMAIN text = 1 .. n
  BY DEF Text
<1> DEFINE step == [k \in 1 .. n |-> [u \in Nat |-> u + Width[text[k]]]]
           Rec(f) == [k \in 0 .. n |-> IF k = 0 THEN 0 ELSE f[k - 1] + Width[text[k]]]
<1>2. \A k \in 1 .. n : Width[text[k]] \in Nat
  <2>1. \A k \in 1 .. n : text[k] \in DOMAIN Width
    BY <1>1 DEF Text
  <2>2. QED
    BY <2>1, WidthAssumption
<1>3. step \in [1 .. n -> [Nat -> Nat]] /\ \A k \in 1 .. n, u \in Nat : step[k][u] = u + Width[text[k]]
  BY <1>2
<1>4. PICK w : RunOf(w, Nat, 0, step, n)
  <2> HIDE DEF step
  <2>1. QED
    BY <1>3, RunsExist
<1>5. w = Rec(w)
  <2> HIDE DEF step
  <2>1. ASSUME NEW k \in 0 .. n PROVE w[k] = IF k = 0 THEN 0 ELSE w[k - 1] + Width[text[k]]
    <3>1. CASE k = 0
      BY <1>4, <3>1 DEF RunOf
    <3>2. CASE k # 0
      <4>1. k \in 1 .. n /\ k - 1 \in 0 .. n
        BY <3>2
      <4>2. w[k - 1] \in Nat /\ w[k] = step[k][w[k - 1]]
        BY <1>4, <4>1 DEF RunOf
      <4>3. QED
        BY <1>3, <3>2, <4>1, <4>2
    <3>3. QED
      BY <3>1, <3>2
  <2>2. w = [k \in 0 .. n |-> w[k]]
    BY <1>4 DEF RunOf
  <2>3. QED
    BY <2>1, <2>2
<1>6. Bytes(text) = LET sum == CHOOSE f : f = Rec(f) IN sum[n]
  BY <1>1 DEF Bytes
<1>7. PICK f : Bytes(text) = f[n] /\ f = Rec(f)
  <2> HIDE DEF Rec
  <2>1. QED
    BY <1>5, <1>6
<1>8. /\ f = [k \in 0 .. n |-> f[k]] /\ f[0] = 0
      /\ \A k \in 1 .. n : f[k] = f[k - 1] + Width[text[k]]
  <2>1. 0 \in 0 .. n /\ \A k \in 1 .. n : k \in 0 .. n /\ k # 0
    OBVIOUS
  <2>2. QED
    BY <1>7, <2>1
<1>9. RunOf(f, Nat, 0, step, n)
  <2> HIDE DEF step
  <2>1. \A k \in 1 .. n : f[k - 1] \in Nat => f[k] = step[k][f[k - 1]]
    BY <1>3, <1>8
  <2>2. QED
    BY <1>3, <1>8, <2>1, RecursionRuns
<1>10. Sums(Widths(text), f)
  <2>1. Len(Widths(text)) = n /\ \A k \in 1 .. n : Widths(text)[k] = Width[text[k]]
    BY <1>1, WidthsAre DEF Widths
  <2>2. QED
    BY <2>1, <1>8, <1>9, SMTT(30) DEF RunOf, Sums
<1>11. QED
  BY <1>1, <1>7, <1>10

(* The sum of two lists, one after the other, is the sum of both.           *)
LEMMA SumsOfConcat ==
  ASSUME NEW f \in Seq(Nat), NEW g \in Seq(Nat), NEW t, NEW u, NEW v,
         Sums(f, t), Sums(g, u), Sums(f \o g, v)
  PROVE  v[Len(f \o g)] = t[Len(f)] + u[Len(g)]
<1>1. PICK m \in Nat : m = Len(f)
  OBVIOUS
<1>2. PICK n \in Nat : n = Len(g)
  OBVIOUS
<1>3. /\ Len(f \o g) = m + n
      /\ \A k \in 1 .. m : (f \o g)[k] = f[k]
      /\ \A k \in 1 .. n : (f \o g)[m + k] = g[k]
  BY <1>1, <1>2
<1>4. /\ \A k \in 0 .. m : t[k] \in Nat
      /\ t[0] = 0 /\ \A k \in 1 .. m : t[k] = t[k - 1] + f[k]
  BY <1>1 DEF Sums
<1>5. /\ \A k \in 0 .. n : u[k] \in Nat
      /\ u[0] = 0 /\ \A k \in 1 .. n : u[k] = u[k - 1] + g[k]
  BY <1>2 DEF Sums
<1>6. /\ \A k \in 0 .. m + n : v[k] \in Nat
      /\ v[0] = 0 /\ \A k \in 1 .. m + n : v[k] = v[k - 1] + (f \o g)[k]
  BY <1>3 DEF Sums
<1> DEFINE T == {k \in 0 .. m : v[k] = t[k]}
           U == {k \in 0 .. n : v[m + k] = t[m] + u[k]}
<1>7. \A k \in 0 .. m : k \in T
  <2>1. 0 \in T
    BY <1>4, <1>6
  <2>2. ASSUME NEW k \in 0 .. m, k \in T, k < m PROVE k + 1 \in T
    <3>1. k + 1 \in 1 .. m /\ k + 1 \in 1 .. m + n /\ (k + 1) - 1 = k
      BY <2>2
    <3>2. v[k + 1] = v[k] + f[k + 1] /\ t[k + 1] = t[k] + f[k + 1]
      BY <3>1, <1>3, <1>4, <1>6
    <3>3. QED
      BY <2>2, <3>1, <3>2
  <2> HIDE DEF T
  <2>3. QED
    BY <2>1, <2>2, StepByStep
<1>8. \A k \in 0 .. n : k \in U
  <2>1. 0 \in U
    BY <1>4, <1>5, <1>7
  <2>2. ASSUME NEW k \in 0 .. n, k \in U, k < n PROVE k + 1 \in U
    <3>1. k + 1 \in 1 .. n /\ m + (k + 1) \in 1 .. m + n /\ (k + 1) - 1 = k /\ (m + (k + 1)) - 1 = m + k
      BY <2>2
    <3>2. v[m + (k + 1)] = v[m + k] + g[k + 1] /\ u[k + 1] = u[k] + g[k + 1]
      BY <3>1, <1>3, <1>5, <1>6
    <3>3. g[k + 1] \in Nat /\ t[m] \in Nat /\ u[k] \in Nat
      BY <1>2, <1>4, <1>5, <3>1
    <3>4. QED
      BY <2>2, <3>1, <3>2, <3>3
  <2> HIDE DEF U
  <2>3. QED
    BY <2>1, <2>2, StepByStep
<1>9. n \in U
  BY <1>8
<1>10. QED
  BY <1>1, <1>2, <1>3, <1>9

(* Adding the same on both sides of an equation.                            *)
LEMMA BothMore ==
  ASSUME NEW a \in Nat, NEW b \in Nat, NEW c \in Nat, NEW d \in Nat, NEW x \in Nat, a + d = b + x
  PROVE  (a + c) + d = (b + c) + x
OBVIOUS

(* Replacing one number of a list changes the sum by the difference.        *)
LEMMA SumsOfUpdate ==
  ASSUME NEW f \in Seq(Nat), NEW i \in DOMAIN f, NEW x \in Nat, NEW t, NEW v,
         Sums(f, t), Sums([f EXCEPT ![i] = x], v)
  PROVE  v[Len(f)] + f[i] = t[Len(f)] + x
<1>1. PICK n \in Nat : n = Len(f) /\ DOMAIN f = 1 .. n
  OBVIOUS
<1>2. i \in 1 .. n /\ f[i] \in Nat
  BY <1>1
<1> DEFINE g == [f EXCEPT ![i] = x]
<1>3. g \in Seq(Nat) /\ Len(g) = n /\ g[i] = x /\ \A k \in 1 .. n : k # i => g[k] = f[k]
  BY <1>1
<1>4. /\ \A k \in 0 .. n : t[k] \in Nat
      /\ t[0] = 0 /\ \A k \in 1 .. n : t[k] = t[k - 1] + f[k]
  BY <1>1 DEF Sums
<1>5. /\ \A k \in 0 .. n : v[k] \in Nat
      /\ v[0] = 0 /\ \A k \in 1 .. n : v[k] = v[k - 1] + g[k]
  BY <1>3 DEF Sums
<1> HIDE DEF g
<1> DEFINE T == {k \in 0 .. n : IF k < i THEN v[k] = t[k] ELSE v[k] + f[i] = t[k] + x}
<1>6. 0 \in T
  BY <1>2, <1>4, <1>5
<1>7. ASSUME NEW k \in 0 .. n, k \in T, k < n PROVE k + 1 \in T
  <2>1. k + 1 \in 1 .. n /\ k + 1 \in 0 .. n /\ (k + 1) - 1 = k
    BY <1>7
  <2>2. v[k + 1] = v[k] + g[k + 1] /\ t[k + 1] = t[k] + f[k + 1]
    BY <2>1, <1>4, <1>5
  <2>3. t[k] \in Nat /\ v[k] \in Nat /\ f[k + 1] \in Nat /\ i \in Nat
    BY <1>1, <1>2, <1>4, <1>5, <2>1
  <2>4. IF k < i THEN v[k] = t[k] ELSE v[k] + f[i] = t[k] + x
    BY <1>7
  <2>5. CASE k + 1 = i
    <3>1. v[k] = t[k] /\ v[k + 1] = v[k] + x /\ t[k + 1] = t[k] + f[i]
      BY <1>3, <2>2, <2>3, <2>4, <2>5, SMTT(30)
    <3>2. v[k + 1] + f[i] = t[k + 1] + x /\ ~ (k + 1 < i)
      BY <1>2, <2>3, <2>5, <3>1
    <3>3. QED
      BY <2>1, <3>2
  <2>6. CASE k + 1 # i
    <3>1. g[k + 1] = f[k + 1]
      BY <1>3, <2>1, <2>6
    <3>2. k + 1 < i <=> k < i
      BY <2>3, <2>6
    <3>3. IF k + 1 < i THEN v[k + 1] = t[k + 1] ELSE v[k + 1] + f[i] = t[k + 1] + x
      <4>1. PICK c \in Nat : c = f[k + 1] /\ v[k + 1] = v[k] + c /\ t[k + 1] = t[k] + c
        BY <2>2, <2>3, <3>1
      <4>2. CASE k < i
        BY <2>4, <3>2, <4>1, <4>2
      <4>3. CASE ~ (k < i)
        <5>1. PICK d \in Nat : d = f[i]
          BY <1>2
        <5>2. v[k] + d = t[k] + x /\ v[k] \in Nat /\ t[k] \in Nat
          BY <2>3, <2>4, <4>3, <5>1
        <5>3. (v[k] + c) + d = (t[k] + c) + x
          <6>1. PICK a \in Nat : a = v[k]
            BY <5>2
          <6>2. PICK b \in Nat : b = t[k]
            BY <5>2
          <6>3. a + d = b + x
            BY <5>2, <6>1, <6>2
          <6>4. (a + c) + d = (b + c) + x
            BY ONLY x \in Nat, c \in Nat, d \in Nat, a \in Nat, b \in Nat, <6>3, BothMore
          <6>5. QED
            BY <6>1, <6>2, <6>4
        <5>4. QED
          BY <3>2, <4>1, <4>3, <5>1, <5>3
      <4>4. QED
        BY <4>2, <4>3
    <3>4. QED
      BY <2>1, <3>3
  <2>7. QED
    BY <2>5, <2>6
<1>8. \A k \in 0 .. n : k \in T
  <2> HIDE DEF T
  <2>1. QED
    BY <1>6, <1>7, StepByStep
<1>9. n \in T /\ ~ (n < i)
  BY <1>2, <1>8
<1>10. QED
  BY <1>1, <1>9

(* A new sink holds nothing, and the total stays.                           *)
LEMMA TotalGrows ==
  ASSUME NEW s \in Seq(Nat)
  PROVE  Total(s) \in Nat /\ Total(Append(s, 0)) = Total(s)
<1> DEFINE z == <<0>>  w == Append(s, 0)
<1>1. z \in Seq(Nat) /\ Len(z) = 1 /\ z[1] = 0
  OBVIOUS
<1>2. w \in Seq(Nat) /\ w = s \o z
  BY AppendIsConcat, AppendProperties
<1> HIDE DEF z, w
<1>3. PICK t : Sums(s, t) /\ Total(s) = t[Len(s)]
  BY TotalIs
<1>4. PICK u : Sums(z, u)
  BY <1>1, TotalIs
<1>5. PICK v : Sums(w, v) /\ Total(w) = v[Len(w)]
  BY <1>2, TotalIs
<1>6. u[1] = 0
  <2>1. u[0] = 0 /\ u[1] = u[1 - 1] + z[1]
    BY <1>1, <1>4 DEF Sums
  <2>2. QED
    BY <1>1, <2>1
<1>7. t[Len(s)] \in Nat
  BY <1>3 DEF Sums
<1>8. v[Len(w)] = t[Len(s)] + u[Len(z)]
  BY <1>2, <1>3, <1>4, <1>5, SumsOfConcat
<1>9. v[Len(w)] = t[Len(s)]
  BY <1>1, <1>6, <1>7, <1>8
<1>10. QED
  BY <1>3, <1>5, <1>7, <1>9 DEF w

(* A sink that changes its count changes the total by the difference.       *)
LEMMA TotalOfUpdate ==
  ASSUME NEW s \in Seq(Nat), NEW i \in DOMAIN s, NEW x \in Nat
  PROVE  Total([s EXCEPT ![i] = x]) + s[i] = Total(s) + x
<1>1. [s EXCEPT ![i] = x] \in Seq(Nat) /\ Len([s EXCEPT ![i] = x]) = Len(s)
  OBVIOUS
<1>2. PICK t : Sums(s, t) /\ Total(s) = t[Len(s)]
  BY TotalIs
<1>3. PICK v : Sums([s EXCEPT ![i] = x], v) /\ Total([s EXCEPT ![i] = x]) = v[Len(s)]
  BY <1>1, TotalIs
<1>4. QED
  BY <1>2, <1>3, SumsOfUpdate

(* The root sink starts empty.                                              *)
LEMMA TotalOfOne == Total(<<0>>) = 0
<1>1. <<0>> \in Seq(Nat) /\ Len(<<0>>) = 1 /\ <<0>>[1] = 0
  OBVIOUS
<1>2. PICK t : Sums(<<0>>, t) /\ Total(<<0>>) = t[Len(<<0>>)]
  BY <1>1, TotalIs
<1>3. t[0] = 0 /\ t[1] = t[1 - 1] + 0
  BY <1>1, <1>2 DEF Sums
<1>4. QED
  BY <1>1, <1>2, <1>3

(* Text appended to a sink adds its bytes.                                  *)
LEMMA BytesOfConcat ==
  ASSUME NEW a \in Text, NEW b \in Text
  PROVE  /\ a \o b \in Text /\ Bytes(a \o b) = Bytes(a) + Bytes(b)
         /\ Bytes(a) \in Nat
<1>1. a \o b \in Text
  BY DEF Text
<1> DEFINE f == Widths(a)  g == Widths(b)  h == Widths(a \o b)  m == Len(a)  n == Len(b)
<1>2. /\ f \in Seq(Nat) /\ Len(f) = m /\ g \in Seq(Nat) /\ Len(g) = n
      /\ h \in Seq(Nat) /\ Len(h) = Len(a \o b)
  BY <1>1, WidthsAre
<1>3. /\ DOMAIN a = 1 .. m /\ DOMAIN b = 1 .. n /\ m \in Nat /\ n \in Nat
      /\ Len(a \o b) = m + n /\ DOMAIN (a \o b) = 1 .. m + n
      /\ \A k \in 1 .. m : (a \o b)[k] = a[k]
      /\ \A k \in m + 1 .. m + n : (a \o b)[k] = b[k - m]
  <2>1. a \in Seq(DOMAIN Width) /\ b \in Seq(DOMAIN Width)
    BY DEF Text
  <2>2. QED
    BY <2>1
<1>4. /\ \A k \in 1 .. m : f[k] = Width[a[k]]
      /\ \A k \in 1 .. n : g[k] = Width[b[k]]
      /\ \A k \in 1 .. m + n : h[k] = Width[(a \o b)[k]]
  BY <1>3 DEF Widths
<1>5. \A k \in 1 .. m + n : h[k] = IF k <= m THEN f[k] ELSE g[k - m]
  <2>1. \A k \in 1 .. m : h[k] = f[k]
    BY <1>3, <1>4
  <2>2. \A k \in m + 1 .. m + n : h[k] = g[k - m]
    BY <1>3, <1>4
  <2>3. QED
    BY <1>3, <2>1, <2>2
<1> HIDE DEF f, g, h
<1>6. h = f \o g
  <2>1. f \o g \in Seq(Nat) /\ Len(f \o g) = m + n
    BY <1>2, <1>3
  <2>2. \A k \in 1 .. m + n : (f \o g)[k] = IF k <= m THEN f[k] ELSE g[k - m]
    BY SMTT(40), <1>2, <1>3
  <2>3. \A k \in 1 .. m + n : h[k] = (f \o g)[k]
    BY <1>5, <2>2
  <2>4. Len(h) = m + n /\ m + n \in Nat
    BY <1>2, <1>3
  <2>5. QED
    BY <1>2, <2>1, <2>3, <2>4, SeqEqual
<1>7. PICK t : Sums(f, t) /\ Bytes(a) = t[m]
  BY BytesAre DEF f
<1>8. PICK u : Sums(g, u) /\ Bytes(b) = u[n]
  BY BytesAre DEF g
<1>9. PICK v : Sums(h, v) /\ Bytes(a \o b) = v[Len(a \o b)]
  BY <1>1, BytesAre DEF h
<1>10. v[Len(h)] = t[Len(f)] + u[Len(g)]
  BY <1>2, <1>6, <1>7, <1>8, <1>9, SumsOfConcat
<1>11. t[m] \in Nat
  <2>1. t \in [0 .. Len(f) -> Nat] /\ Len(f) \in 0 .. Len(f)
    <3>1. t \in [0 .. Len(f) -> Nat]
      BY <1>7 DEF Sums
    <3>2. Len(f) \in Nat
      BY <1>2
    <3>3. QED
      BY <3>1, <3>2
  <2>2. QED
    BY <1>2, <2>1
<1>12. QED
  BY <1>1, <1>2, <1>7, <1>8, <1>9, <1>10, <1>11

(* No text has no bytes.                                                    *)
LEMMA BytesOfNothing == <<>> \in Text /\ Bytes(<<>>) = 0
<1>1. <<>> \in Text /\ Len(<<>>) = 0
  BY DEF Text
<1>2. PICK t : Sums(Widths(<<>>), t) /\ Bytes(<<>>) = t[Len(<<>>)]
  BY <1>1, BytesAre
<1>3. QED
  BY <1>1, <1>2 DEF Sums

-----------------------------------------------------------------------------
(* Lists, and what a step leaves of the work below the top. *)

(* A list has a length, and is a function on the numbers up to it.          *)
LEMMA ListIs ==
  ASSUME NEW s, IsList(s)
  PROVE  /\ Len(s) \in Nat /\ DOMAIN s = 1 .. Len(s)
         /\ s = [k \in 1 .. Len(s) |-> s[k]]
         /\ \E S : s \in Seq(S)
BY DEF IsList

(* A sequence over any set is a list.                                       *)
LEMMA ListOf ==
  ASSUME NEW S, NEW s \in Seq(S)
  PROVE  IsList(s)
<1> DEFINE R == {s[i] : i \in DOMAIN s}
<1>1. s \in [1 .. Len(s) -> R] /\ Len(s) \in Nat
  OBVIOUS
<1>2. s \in Seq(R)
  <2> HIDE DEF R
  <2>1. QED
    BY <1>1
<1>3. QED
  BY <1>2 DEF IsList

(* A function on the numbers up to n is a list of that length.              *)
LEMMA MadeList ==
  ASSUME NEW n \in Nat, NEW s, s = [k \in 1 .. n |-> s[k]]
  PROVE  IsList(s) /\ Len(s) = n
<1> DEFINE R == {s[k] : k \in 1 .. n}
<1>1. s \in [1 .. n -> R]
  OBVIOUS
<1>2. s \in Seq(R) /\ Len(s) = n
  <2> HIDE DEF R
  <2>1. s \in Seq(R)
    BY <1>1
  <2>2. DOMAIN s = 1 .. n
    BY <1>1
  <2>3. QED
    BY <2>1, <2>2
<1>3. QED
  BY <1>2, ListOf

(* s with its head replaced by ws. *)
Replaced(s, ws, t) ==
  /\ IsList(t) /\ Len(t) = Len(ws) + Len(s) - 1
  /\ \A k \in 1 .. Len(ws) : t[k] = ws[k]
  /\ \A k \in Len(ws) + 1 .. Len(t) : t[k] = s[k - Len(ws) + 1]

(* What work_stack holds after pop and the pushes of a step: the new items, *)
(* then the items that were below the top.                                  *)
LEMMA HeadReplaced ==
  ASSUME NEW s, IsList(s), s # <<>>, NEW ws, IsList(ws)
  PROVE  /\ Replaced(s, ws, ws \o Tail(s))
         /\ Head(s) = s[1] /\ Len(s) >= 1
<1>1. PICK S : s \in Seq(S)
  BY ListIs
<1>2. PICK W : ws \in Seq(W)
  BY ListIs
<1> DEFINE U == S \cup W
<1>3. s \in Seq(U) /\ ws \in Seq(U)
  BY <1>1, <1>2
<1> HIDE DEF U
<1>4. Tail(s) \in Seq(U) /\ Len(Tail(s)) = Len(s) - 1 /\ Len(s) >= 1 /\ Head(s) = s[1]
      /\ \A k \in 1 .. Len(s) - 1 : Tail(s)[k] = s[k + 1]
  BY <1>3
<1>5. PICK r \in Seq(U) : r = Tail(s)
  BY <1>4
<1>6. PICK m \in Nat, n \in Nat : m = Len(ws) /\ n = Len(r)
  BY <1>3
<1>7. /\ ws \o r \in Seq(U) /\ Len(ws \o r) = m + n
      /\ \A k \in 1 .. m : (ws \o r)[k] = ws[k]
      /\ \A k \in m + 1 .. m + n : (ws \o r)[k] = r[k - m]
  BY <1>3, <1>6
<1>8. IsList(ws \o r)
  BY <1>7, ListOf
<1>9. Len(s) = n + 1
  BY <1>1, <1>4, <1>5, <1>6
<1>10. ASSUME NEW k \in m + 1 .. m + n PROVE (ws \o r)[k] = s[k - m + 1]
  <2>1. k - m \in 1 .. n
    OBVIOUS
  <2>2. r[k - m] = s[(k - m) + 1]
    BY <1>4, <1>5, <1>9, <2>1
  <2>3. QED
    BY <1>7, <2>2
<1>11. Replaced(s, ws, ws \o r)
  BY <1>6, <1>7, <1>8, <1>9, <1>10 DEF Replaced
<1>12. QED
  BY <1>4, <1>5, <1>11

(* The four ways in which a step replaces the head. *)
LEMMA Tops ==
  ASSUME NEW a, NEW b, NEW c
  PROVE  /\ IsList(<<>>) /\ Len(<<>>) = 0
         /\ IsList(<<a>>) /\ Len(<<a>>) = 1 /\ <<a>>[1] = a
         /\ IsList(<<a, b>>) /\ Len(<<a, b>>) = 2 /\ <<a, b>>[1] = a /\ <<a, b>>[2] = b
         /\ IsList(<<a, b, c>>) /\ Len(<<a, b, c>>) = 3
         /\ <<a, b, c>>[1] = a /\ <<a, b, c>>[2] = b /\ <<a, b, c>>[3] = c
<1> DEFINE S == {a, b, c}
<1>1. <<>> \in Seq(S) /\ <<a>> \in Seq(S) /\ <<a, b>> \in Seq(S) /\ <<a, b, c>> \in Seq(S)
  OBVIOUS
<1>2. IsList(<<>>) /\ IsList(<<a>>) /\ IsList(<<a, b>>) /\ IsList(<<a, b, c>>)
  BY <1>1, ListOf
<1>3. QED
  BY <1>2

(* What pop leaves.                                                         *)
LEMMA Popped ==
  ASSUME NEW s, IsList(s), s # <<>>, NEW t, t = <<>> \o Tail(s)
  PROVE  /\ IsList(t) /\ Len(t) = Len(s) - 1 /\ DOMAIN t = 1 .. Len(s) - 1
         /\ \A k \in 1 .. Len(s) - 1 : t[k] = s[k + 1]
         /\ Head(s) = s[1] /\ 1 \in DOMAIN s
<1>1. Replaced(s, <<>>, t) /\ Head(s) = s[1] /\ Len(s) >= 1
  BY Tops, HeadReplaced
<1>2. PICK n \in Nat : n = Len(s) /\ DOMAIN s = 1 .. n
  BY ListIs
<1>3. IsList(t) /\ Len(t) = n - 1 /\ \A k \in 1 .. n - 1 : t[k] = s[k + 1]
  <2>1. IsList(t) /\ Len(t) = 0 + n - 1 /\ \A k \in 0 + 1 .. Len(t) : t[k] = s[k - 0 + 1]
    BY <1>1, <1>2, Tops DEF Replaced
  <2>2. Len(t) = n - 1
    BY <2>1
  <2>3. QED
    BY <2>1, <2>2
<1>4. QED
  BY <1>1, <1>2, <1>3, ListIs

-----------------------------------------------------------------------------
(* Selections from lists. *)

(* u holds what is selected of the first elements of s. *)
Selecting(s, kept, u) ==
  /\ u[0] = <<>>
  /\ \A n \in 1 .. Len(s) : u[n] = IF n \in kept THEN Append(u[n - 1], s[n]) ELSE u[n - 1]

(* Select picks its elements one after the other.                           *)
LEMMA SelectRuns ==
  ASSUME NEW s, IsList(s), NEW kept,
         NEW E, \A i \in DOMAIN s : i \in kept => s[i] \in E
  PROVE  \E u \in [0 .. Len(s) -> Seq(E)] : Selecting(s, kept, u) /\ Select(s, kept) = u[Len(s)]
<1>1. PICK n \in Nat : n = Len(s) /\ DOMAIN s = 1 .. n
  BY ListIs
<1> DEFINE Next1(k, u) == IF k \in kept THEN Append(u, s[k]) ELSE u
           step == [k \in 1 .. n |-> [u \in Seq(E) |-> Next1(k, u)]]
           Rec(f) == [k \in 0 .. n |-> IF k = 0 THEN <<>> ELSE IF k \in kept THEN Append(f[k - 1], s[k]) ELSE f[k - 1]]
<1>2. \A k \in 1 .. n, u \in Seq(E) : Next1(k, u) \in Seq(E)
  BY <1>1
<1>3. step \in [1 .. n -> [Seq(E) -> Seq(E)]] /\ \A k \in 1 .. n, u \in Seq(E) : step[k][u] = Next1(k, u)
  <2> HIDE DEF Next1
  <2>1. QED
    BY <1>2
<1>4. <<>> \in Seq(E)
  OBVIOUS
<1>5. PICK w : RunOf(w, Seq(E), <<>>, step, n)
  <2> HIDE DEF step
  <2>1. QED
    BY <1>3, <1>4, RunsExist
<1>6. w = Rec(w)
  <2> HIDE DEF step, Next1
  <2>1. ASSUME NEW k \in 0 .. n PROVE w[k] = IF k = 0 THEN <<>> ELSE Next1(k, w[k - 1])
    <3>1. CASE k = 0
      BY <1>5, <3>1 DEF RunOf
    <3>2. CASE k # 0
      <4>1. k \in 1 .. n /\ k - 1 \in 0 .. n
        BY <3>2
      <4>2. w[k - 1] \in Seq(E) /\ w[k] = step[k][w[k - 1]]
        BY <1>5, <4>1 DEF RunOf
      <4>3. QED
        BY <1>3, <3>2, <4>1, <4>2
    <3>3. QED
      BY <3>1, <3>2
  <2>2. w = [k \in 0 .. n |-> w[k]]
    BY <1>5 DEF RunOf
  <2>3. QED
    BY <2>1, <2>2 DEF Next1
<1>7. Select(s, kept) = LET upTo == CHOOSE f : f = Rec(f) IN upTo[n]
  BY <1>1 DEF Select
<1>8. PICK f : Select(s, kept) = f[n] /\ f = Rec(f)
  <2> HIDE DEF Rec
  <2>1. QED
    BY <1>6, <1>7
<1>9. /\ f = [k \in 0 .. n |-> f[k]] /\ f[0] = <<>>
      /\ \A k \in 1 .. n : f[k] = Next1(k, f[k - 1])
  <2>1. 0 \in 0 .. n /\ \A k \in 1 .. n : k \in 0 .. n /\ k # 0
    OBVIOUS
  <2>2. QED
    BY <1>8, <2>1
<1>10. RunOf(f, Seq(E), <<>>, step, n)
  <2> HIDE DEF step, Next1
  <2>1. \A k \in 1 .. n : f[k - 1] \in Seq(E) => f[k] = step[k][f[k - 1]]
    BY <1>3, <1>9
  <2>2. QED
    BY <1>3, <1>4, <1>9, <2>1, RecursionRuns
<1>11. f \in [0 .. n -> Seq(E)] /\ Selecting(s, kept, f)
  BY <1>1, <1>9, <1>10 DEF RunOf, Selecting
<1>12. QED
  BY <1>1, <1>8, <1>11

(* What is selected are elements at selected places, one for each. *)
LEMMA SelectIs ==
  ASSUME NEW s, IsList(s), NEW kept
  PROVE  /\ IsList(Select(s, kept))
         /\ \A j \in DOMAIN Select(s, kept) : \E i \in DOMAIN s : i \in kept /\ Select(s, kept)[j] = s[i]
         /\ Len(Select(s, kept)) = Cardinality({i \in DOMAIN s : i \in kept})
<1>1. PICK n \in Nat : n = Len(s) /\ DOMAIN s = 1 .. n
  BY ListIs
<1> DEFINE E == {s[i] : i \in {k \in DOMAIN s : k \in kept}}
<1>2. \A i \in DOMAIN s : i \in kept => s[i] \in E
  OBVIOUS
<1>3. \A x \in E : \E i \in DOMAIN s : i \in kept /\ x = s[i]
  OBVIOUS
<1> HIDE DEF E
<1>4. PICK u \in [0 .. n -> Seq(E)] : Selecting(s, kept, u) /\ Select(s, kept) = u[n]
  BY <1>1, <1>2, SelectRuns
<1>5. u[n] \in Seq(E)
  BY <1>4
<1> DEFINE K(m) == {i \in 1 .. m : i \in kept}
           T == {m \in 0 .. n : Len(u[m]) = Cardinality(K(m))}
<1>6. 0 \in T
  <2>1. K(0) = {}
    OBVIOUS
  <2>2. u[0] = <<>>
    BY <1>4 DEF Selecting
  <2>3. QED
    BY <2>1, <2>2, FS_EmptySet
<1>7. ASSUME NEW m \in 0 .. n, m \in T, m < n PROVE m + 1 \in T
  <2>1. m + 1 \in 1 .. n /\ (m + 1) - 1 = m /\ m + 1 \in 0 .. n
    BY <1>7
  <2>2. u[m + 1] = IF m + 1 \in kept THEN Append(u[m], s[m + 1]) ELSE u[m]
    BY <1>1, <1>4, <2>1 DEF Selecting
  <2>3. IsFiniteSet(K(m)) /\ m + 1 \notin K(m)
    <3>1. m \in Nat /\ K(m) \subseteq 1 .. m
      OBVIOUS
    <3>2. IsFiniteSet(1 .. m)
      BY <3>1, UpToIs
    <3>3. m + 1 \notin K(m)
      BY <3>1
    <3>4. IsFiniteSet(K(m))
      <4> HIDE DEF K
      <4>1. QED
        BY <3>1, <3>2, FS_Subset
    <3>5. QED
      BY <3>3, <3>4
  <2>4. u[m] \in Seq(E)
    OBVIOUS
  <2>5. Len(u[m]) = Cardinality(K(m))
    BY <1>7
  <2>6. CASE m + 1 \in kept
    <3>1. K(m + 1) = K(m) \cup {m + 1}
      BY <2>1, <2>6
    <3>2. Cardinality(K(m + 1)) = Cardinality(K(m)) + 1
      <4> HIDE DEF K
      <4>1. QED
        BY <2>3, <3>1, FS_AddElement
    <3>3. s[m + 1] \in E
      BY <1>1, <1>2, <2>1, <2>6
    <3>4. Len(u[m + 1]) = Len(u[m]) + 1
      BY <2>2, <2>4, <2>6, <3>3
    <3>5. QED
      BY <2>1, <2>5, <3>2, <3>4
  <2>7. CASE m + 1 \notin kept
    <3>1. K(m + 1) = K(m)
      BY <2>1, <2>7
    <3>2. QED
      BY <2>1, <2>2, <2>5, <2>7, <3>1
  <2>8. QED
    BY <2>6, <2>7
<1>8. n \in T
  <2> HIDE DEF T, K
  <2>1. \A m \in 0 .. n : m \in T /\ m < n => m + 1 \in T
    BY <1>7
  <2>2. \A m \in 0 .. n : m \in T
    BY <1>6, <2>1, StepByStep
  <2>3. QED
    BY <2>2
<1>9. Len(Select(s, kept)) = Cardinality({i \in DOMAIN s : i \in kept})
  <2>1. K(n) = {i \in DOMAIN s : i \in kept}
    BY <1>1
  <2>2. QED
    BY <1>4, <1>8, <2>1
<1>10. \A j \in DOMAIN u[n] : u[n][j] \in E
  BY <1>5
<1>11. QED
  BY <1>3, <1>4, <1>5, <1>9, <1>10, ListOf

(* What is selected is an element of the list.                              *)
LEMMA SelectedFrom ==
  ASSUME NEW s, IsList(s), NEW stay, NEW j \in DOMAIN Select(s, stay)
  PROVE  \E i \in DOMAIN s : Select(s, stay)[j] = s[i]
<1> DEFINE E == {s[i] : i \in DOMAIN s}
<1>1. \A i \in DOMAIN s : i \in stay => s[i] \in E
  OBVIOUS
<1>2. \A x \in E : \E i \in DOMAIN s : x = s[i]
  OBVIOUS
<1> HIDE DEF E
<1>3. PICK n \in Nat : n = Len(s)
  BY ListIs
<1>4. PICK u \in [0 .. n -> Seq(E)] : Select(s, stay) = u[n]
  BY <1>1, <1>3, SelectRuns
<1>5. Select(s, stay) \in Seq(E)
  BY <1>4
<1>6. Select(s, stay)[j] \in E
  BY <1>5
<1>7. QED
  BY <1>2, <1>6

(* An element that occurs in a list is at its position.                     *)
LEMMA PositionIs ==
  ASSUME NEW s, IsList(s), NEW x, Occurs(s, x)
  PROVE  Position(s, x) \in DOMAIN s /\ s[Position(s, x)] = x
<1>1. PICK n \in Nat : n = Len(s) /\ DOMAIN s = 1 .. n
  BY ListIs
<1> DEFINE S == {i \in DOMAIN s : s[i] = x}
<1>2. S \subseteq Nat /\ S # {}
  BY <1>1 DEF Occurs
<1>3. PICK i \in S : \A m \in S : i <= m
  <2> HIDE DEF S
  <2>1. QED
    BY <1>2, LeastOf
<1>4. i \in DOMAIN s /\ s[i] = x /\ \A j \in 1 .. i - 1 : s[j] # x
  BY <1>1, <1>3
<1>5. QED
  BY <1>4 DEF Position

(* The names of a list of bindings or parts, one each.                      *)
LEMMA NamesAre ==
  ASSUME NEW s, IsList(s)
  PROVE  IsList(NamesOf(s)) /\ Len(NamesOf(s)) = Len(s) /\ DOMAIN NamesOf(s) = DOMAIN s
         /\ \A k \in DOMAIN s : NamesOf(s)[k] = s[k].name
<1>1. PICK n \in Nat : n = Len(s) /\ DOMAIN s = 1 .. n
  BY ListIs
<1> DEFINE t == NamesOf(s)
<1>2. t = [k \in 1 .. n |-> s[k].name]
  BY <1>1 DEF NamesOf
<1>3. t = [k \in 1 .. n |-> t[k]]
  BY <1>2
<1> HIDE DEF t
<1>4. IsList(t) /\ Len(t) = n
  BY <1>3, MadeList
<1>5. QED
  BY <1>1, <1>2, <1>4 DEF t

(* One list after another.                                                  *)
LEMMA JoinedLists ==
  ASSUME NEW a, IsList(a), NEW b, IsList(b)
  PROVE  IsList(a \o b) /\ Len(a \o b) = Len(a) + Len(b)
<1>1. PICK S : a \in Seq(S)
  BY ListIs
<1>2. PICK R : b \in Seq(R)
  BY ListIs
<1> DEFINE U == S \cup R
<1>3. a \in Seq(U) /\ b \in Seq(U)
  BY <1>1, <1>2
<1> HIDE DEF U
<1>4. a \o b \in Seq(U) /\ Len(a \o b) = Len(a) + Len(b)
  BY <1>3
<1>5. QED
  BY <1>4, ListOf

-----------------------------------------------------------------------------
(* Lowering: what the compiler accepts, the verifier accepts. *)

CapturesOf(parts, j) == {k \in 1 .. j - 1 : parts[k].kind = "capture"}

(* A binding sees the parameters of its rule and the bindings before it.    *)
LEMMA BindingScopeIs ==
  ASSUME NEW rule, IsList(rule.parameters), NEW p, IsList(p.bindings), NEW i \in DOMAIN p.bindings
  PROVE  IsList(BindingScope(rule, p, i)) /\ Len(BindingScope(rule, p, i)) = Len(rule.parameters) + i - 1
<1>1. PICK S : p.bindings \in Seq(S)
  BY ListIs
<1>2. PICK n \in Nat : n = Len(p.bindings) /\ DOMAIN p.bindings = 1 .. n
  BY ListIs
<1>3. i \in 1 .. n
  BY <1>2
<1> DEFINE t == SubSeq(p.bindings, 1, i - 1)
<1>4. t \in Seq(S) /\ Len(t) = i - 1
  BY <1>1, <1>2, <1>3
<1>5. IsList(t)
  BY <1>4, ListOf
<1> HIDE DEF t
<1>6. IsList(NamesOf(t)) /\ Len(NamesOf(t)) = i - 1
  BY <1>4, <1>5, NamesAre
<1>7. /\ IsList(rule.parameters \o NamesOf(t))
      /\ Len(rule.parameters \o NamesOf(t)) = Len(rule.parameters) + Len(NamesOf(t))
  BY <1>6, JoinedLists
<1>8. Len(rule.parameters) \in Nat
  BY ListIs
<1>9. QED
  BY <1>3, <1>6, <1>7, <1>8 DEF BindingScope, t

(* The parts that lower_parts keeps are parts of the production.            *)
LEMMA BodyIs ==
  ASSUME NEW p, IsList(p.parts)
  PROVE  /\ IsList(Body(p))
         /\ \A j \in DOMAIN Body(p) : \E i \in DOMAIN p.parts : Body(p)[j] = p.parts[i]
<1> DEFINE stay == {j \in DOMAIN p.parts : p.parts[j].kind # "literal" \/ p.parts[j].text # <<>>}
<1>1. Body(p) = Select(p.parts, stay)
  BY DEF Body
<1> HIDE DEF stay
<1>2. IsList(Select(p.parts, stay))
  BY SelectIs
<1>3. \A j \in DOMAIN Select(p.parts, stay) : \E i \in DOMAIN p.parts : Select(p.parts, stay)[j] = p.parts[i]
  BY SelectedFrom
<1>4. QED
  BY <1>1, <1>2, <1>3

(* A part sees the parameters, the bindings and the captures before it.     *)
LEMMA PartScopeIs ==
  ASSUME NEW rule, IsList(rule.parameters), NEW p, IsList(p.bindings), IsList(p.parts),
         NEW j \in DOMAIN Body(p)
  PROVE  /\ IsList(PartScope(rule, p, j))
         /\ Len(PartScope(rule, p, j))
              = Len(rule.parameters) + Len(p.bindings) + Cardinality(CapturesOf(Body(p), j))
         /\ Cardinality(CapturesOf(Body(p), j)) \in Nat
<1>1. IsList(Body(p))
  BY BodyIs
<1>2. PICK n \in Nat : n = Len(Body(p)) /\ DOMAIN Body(p) = 1 .. n
  BY <1>1, ListIs
<1> DEFINE K == CapturesOf(Body(p), j)
           t == Select(Body(p), K)
<1>3. K = {i \in DOMAIN Body(p) : i \in K}
  BY <1>2 DEF CapturesOf
<1> HIDE DEF K
<1>4. IsList(t) /\ Len(t) = Cardinality(K)
  BY <1>1, <1>3, SelectIs
<1> HIDE DEF t
<1>5. IsList(NamesOf(t)) /\ Len(NamesOf(t)) = Cardinality(K)
  BY <1>4, NamesAre
<1>6. IsList(NamesOf(p.bindings)) /\ Len(NamesOf(p.bindings)) = Len(p.bindings)
  BY NamesAre
<1> DEFINE a == rule.parameters \o NamesOf(p.bindings)
<1>7. IsList(a) /\ Len(a) = Len(rule.parameters) + Len(p.bindings)
  BY <1>6, JoinedLists
<1> HIDE DEF a
<1>8. IsList(a \o NamesOf(t)) /\ Len(a \o NamesOf(t)) = Len(a) + Len(NamesOf(t))
  BY <1>5, <1>7, JoinedLists
<1>9. PartScope(rule, p, j) = a \o NamesOf(t)
  BY DEF PartScope, a, t, K, CapturesOf
<1>10. Len(t) \in Nat
  BY <1>4, ListIs
<1>11. QED
  BY <1>4, <1>5, <1>7, <1>8, <1>9, <1>10 DEF K

(* A defined name is lowered to a slot of its scope or an input, and a      *)
(* constant to its text.                                                    *)
LEMMA LookupIs ==
  ASSUME NEW locals, IsList(locals), NEW v, IsValue(v), Defined(locals, v)
  PROVE  OperandFits(Lookup(locals, v), Len(locals)) /\ Operand(Lookup(locals, v))
<1>1. CASE v.kind = "constant"
  <2>1. Lookup(locals, v) = v
    BY <1>1 DEF Lookup
  <2>2. v.text \in Text
    BY <1>1 DEF IsValue
  <2>3. QED
    BY <1>1, <2>1, <2>2 DEF OperandFits, Operand
<1>2. CASE v.kind = "name" /\ Occurs(locals, v.name)
  <2>1. Lookup(locals, v) = [kind |-> "local", slot |-> Position(locals, v.name)]
    BY <1>2 DEF Lookup
  <2>2. Position(locals, v.name) \in 1 .. Len(locals)
    BY <1>2, PositionIs, ListIs
  <2>3. QED
    BY <2>1, <2>2 DEF OperandFits, Operand
<1>3. CASE v.kind = "name" /\ ~ Occurs(locals, v.name)
  <2>1. Lookup(locals, v) = [kind |-> "input", slot |-> Position(Inputs, v.name)]
    BY <1>3 DEF Lookup
  <2>2. Position(Inputs, v.name) \in DOMAIN Inputs
    BY <1>3, InputsAssumption, PositionIs DEF Defined
  <2>3. QED
    BY <2>1, <2>2 DEF OperandFits, Operand
<1>4. QED
  BY <1>1, <1>2, <1>3 DEF IsValue

(* lower_arguments: one operand for each parameter, each of them in scope.  *)
LEMMA LoweredArguments ==
  ASSUME NEW locals, IsList(locals), NEW arguments, AreArguments(arguments),
         NEW parameters, IsList(parameters), CallFits(locals, arguments, parameters)
  PROVE  LET a == LowerArguments(locals, arguments, parameters) IN
         /\ Operands(a) /\ Len(a) = Len(parameters)
         /\ \A k \in DOMAIN a : OperandFits(a[k], Len(locals))
<1>1. PICK n \in Nat : n = Len(parameters) /\ DOMAIN parameters = 1 .. n
  BY ListIs
<1> DEFINE a == LowerArguments(locals, arguments, parameters)
           v(k) == arguments[Position(NamesOf(arguments), parameters[k])].value
<1>2. a = [k \in 1 .. n |-> Lookup(locals, v(k))]
  BY <1>1 DEF LowerArguments
<1>3. ASSUME NEW k \in 1 .. n
      PROVE  IsValue(v(k)) /\ Defined(locals, v(k))
  <2>1. IsList(arguments) /\ \A i \in DOMAIN arguments : IsValue(arguments[i].value)
    BY DEF AreArguments
  <2>2. Occurs(NamesOf(arguments), parameters[k])
    BY <1>1 DEF CallFits, Supplies
  <2>3. Position(NamesOf(arguments), parameters[k]) \in DOMAIN arguments
    BY <2>1, <2>2, NamesAre, PositionIs
  <2>4. QED
    BY <2>1, <2>3 DEF CallFits
<1> HIDE DEF a
<1>4. \A k \in 1 .. n : Operand(a[k]) /\ OperandFits(a[k], Len(locals))
  <2> HIDE DEF v
  <2>1. QED
    BY <1>2, <1>3, LookupIs
<1>5. a = [k \in 1 .. n |-> a[k]]
  BY <1>2
<1>6. IsList(a) /\ Len(a) = n
  BY <1>5, MadeList
<1>7. DOMAIN a = 1 .. n
  BY <1>5
<1>8. QED
  BY <1>1, <1>4, <1>6, <1>7 DEF Operands, a

(* Named to be cited with a package as one term.                            *)
Authoring(rules) == IsPackage(rules) /\ Lowers(rules)

(* Lowering keeps the rules and their productions, one by one.              *)
LEMMA LoweredRule ==
  ASSUME NEW rules, IsPackage(rules), NEW r \in DOMAIN rules
  PROVE  /\ r \in DOMAIN Lower(rules) /\ DOMAIN Lower(rules) = DOMAIN rules
         /\ Lower(rules)[r].parameters = Len(rules[r].parameters)
         /\ IsList(Lower(rules)[r].productions)
         /\ DOMAIN Lower(rules)[r].productions = DOMAIN rules[r].productions
         /\ \A i \in DOMAIN rules[r].productions :
              Lower(rules)[r].productions[i] = LowerProduction(rules, rules[r], rules[r].productions[i])
<1>1. IsList(rules[r].productions)
  BY DEF IsPackage
<1>2. PICK n \in Nat : n = Len(rules[r].productions) /\ DOMAIN rules[r].productions = 1 .. n
  BY <1>1, ListIs
<1> DEFINE t == Lower(rules)[r].productions
<1>3. t = [i \in 1 .. n |-> LowerProduction(rules, rules[r], rules[r].productions[i])]
  BY <1>2 DEF Lower
<1>4. Lower(rules)[r].parameters = Len(rules[r].parameters) /\ DOMAIN Lower(rules) = DOMAIN rules
  BY DEF Lower
<1> HIDE DEF t
<1>5. t = [i \in 1 .. n |-> t[i]]
  BY <1>3
<1>6. IsList(t) /\ DOMAIN t = 1 .. n
  BY <1>5, MadeList
<1>7. \A i \in 1 .. n : t[i] = LowerProduction(rules, rules[r], rules[r].productions[i])
  BY <1>3
<1>8. QED
  BY <1>2, <1>4, <1>6, <1>7 DEF t

SameKind(a, b) == a.kind = b.kind

(* A lowered part is well-formed, passes the verifier, and is of the kind   *)
(* of the part it comes from.                                               *)
LEMMA LoweredPartIs ==
  ASSUME NEW rules, Authoring(rules), NEW r \in DOMAIN rules, NEW i \in DOMAIN rules[r].productions,
         NEW j \in DOMAIN Body(rules[r].productions[i])
  PROVE  LET p == rules[r].productions[i]
             part == LowerPart(rules, rules[r], p, j)
         IN  /\ LoweredPart(Lower(rules), part)
             /\ PartVerifies(Lower(rules), part, Len(PartScope(rules[r], p, j)))
             /\ SameKind(part, Body(p)[j])
<1> DEFINE p == rules[r].productions[i]
           authoredPart == Body(p)[j]
           locals == PartScope(rules[r], p, j)
           part == LowerPart(rules, rules[r], p, j)
<1> USE DEF SameKind
<1>1. /\ IsList(rules[r].parameters) /\ IsList(p.bindings) /\ IsList(p.parts)
      /\ \A k \in DOMAIN p.parts : IsPart(rules, p.parts[k])
  BY DEF Authoring, IsPackage, IsProduction
<1>2. IsPart(rules, authoredPart)
  BY <1>1, BodyIs
<1>3. PartLowers(rules, rules[r], p, j)
  BY DEF Authoring, Lowers, ProductionLowers
<1>4. IsList(locals)
  BY <1>1, PartScopeIs
<1>5. \A t \in DOMAIN rules :
        /\ t \in DOMAIN Lower(rules) /\ Lower(rules)[t].parameters = Len(rules[t].parameters)
        /\ IsList(rules[t].parameters)
  BY LoweredRule DEF Authoring, IsPackage
<1>6. part = CASE authoredPart.kind = "literal" -> authoredPart
               [] authoredPart.kind = "value"   -> [authoredPart EXCEPT !.value = Lookup(locals, @)]
               [] authoredPart.kind = "call"    ->
                    [authoredPart EXCEPT !.arguments = LowerArguments(locals, @, rules[authoredPart.rule].parameters)]
               [] authoredPart.kind = "capture" ->
                    [kind |-> "capture", rule |-> authoredPart.rule, name |-> authoredPart.name, slot |-> Len(locals) + 1]
               [] authoredPart.kind = "message" ->
                    [authoredPart EXCEPT !.arguments = [k \in DOMAIN @ |-> Lookup(locals, @[k])]]
  BY DEF LowerPart
<1>7. CASE authoredPart.kind = "literal"
  <2>1. part = authoredPart
    BY <1>6, <1>7
  <2>2. part.text \in Text
    BY <1>2, <1>7, <2>1 DEF IsPart
  <2>3. QED
    BY <1>7, <2>1, <2>2 DEF LoweredPart, PartVerifies
<1>8. CASE authoredPart.kind = "value"
  <2>1. authoredPart = [kind |-> "value", value |-> authoredPart.value] /\ IsValue(authoredPart.value)
    BY <1>2, <1>8 DEF IsPart, Value
  <2>2. part = [authoredPart EXCEPT !.value = Lookup(locals, @)]
    BY <1>6, <1>8
  <2>3. part.kind = "value" /\ part.value = Lookup(locals, authoredPart.value)
    BY <2>1, <2>2
  <2>4. Defined(locals, authoredPart.value)
    BY <1>3, <1>8 DEF PartLowers
  <2>5. OperandFits(part.value, Len(locals)) /\ Operand(part.value)
    BY <1>4, <2>1, <2>3, <2>4, LookupIs
  <2>6. QED
    BY <1>8, <2>3, <2>5 DEF LoweredPart, PartVerifies
<1>9. CASE authoredPart.kind = "call"
  <2>1. /\ authoredPart = [kind |-> "call", rule |-> authoredPart.rule, arguments |-> authoredPart.arguments]
        /\ AreArguments(authoredPart.arguments) /\ authoredPart.rule \in DOMAIN rules
    BY <1>2, <1>9 DEF IsPart, Call, HasRule
  <2> DEFINE parameters == rules[authoredPart.rule].parameters
             a == LowerArguments(locals, authoredPart.arguments, parameters)
  <2>2. part = [authoredPart EXCEPT !.arguments = LowerArguments(locals, @, parameters)]
    BY <1>6, <1>9
  <2>3. part.kind = "call" /\ part.rule = authoredPart.rule /\ part.arguments = a
    BY <2>1, <2>2
  <2>4. CallFits(locals, authoredPart.arguments, parameters)
    BY <1>3, <1>9 DEF PartLowers
  <2>5. IsList(parameters) /\ Lower(rules)[part.rule].parameters = Len(parameters) /\ part.rule \in DOMAIN Lower(rules)
    BY <1>5, <2>1, <2>3
  <2>6. Operands(a) /\ Len(a) = Len(parameters) /\ \A k \in DOMAIN a : OperandFits(a[k], Len(locals))
    <3> HIDE DEF parameters, locals
    <3>1. QED
      BY <1>4, <2>1, <2>4, <2>5, LoweredArguments
  <2>7. ArgumentsFit(Lower(rules), part.rule, part.arguments, Len(locals))
    BY <2>3, <2>5, <2>6 DEF ArgumentsFit
  <2>8. QED
    BY <1>9, <2>3, <2>5, <2>6, <2>7 DEF LoweredPart, PartVerifies
<1>10. CASE authoredPart.kind = "capture"
  <2>1. authoredPart.rule \in DOMAIN rules /\ rules[authoredPart.rule].parameters = <<>>
    BY <1>2, <1>3, <1>10 DEF IsPart, HasRule, PartLowers
  <2>2. part.kind = "capture" /\ part.rule = authoredPart.rule /\ part.slot = Len(locals) + 1
    BY <1>6, <1>10
  <2>3. Lower(rules)[part.rule].parameters = 0 /\ part.rule \in DOMAIN Lower(rules)
    BY <1>5, <2>1, <2>2
  <2>4. QED
    BY <1>10, <2>2, <2>3 DEF LoweredPart, PartVerifies
<1>11. CASE authoredPart.kind = "message"
  <2>1. /\ authoredPart = [kind |-> "message", arguments |-> authoredPart.arguments]
        /\ IsList(authoredPart.arguments)
        /\ \A k \in DOMAIN authoredPart.arguments : IsValue(authoredPart.arguments[k])
    BY <1>2, <1>11 DEF IsPart, Message
  <2>2. \A k \in DOMAIN authoredPart.arguments : Defined(locals, authoredPart.arguments[k])
    BY <1>3, <1>11 DEF PartLowers
  <2>3. PICK n \in Nat : DOMAIN authoredPart.arguments = 1 .. n
    BY <2>1, ListIs
  <2> DEFINE a == [k \in 1 .. n |-> Lookup(locals, authoredPart.arguments[k])]
  <2>4. part.kind = "message" /\ part.arguments = a
    <3>1. part = [authoredPart EXCEPT !.arguments = [k \in DOMAIN @ |-> Lookup(locals, @[k])]]
      BY <1>6, <1>11
    <3>2. QED
      BY <2>1, <2>3, <3>1
  <2>5. \A k \in 1 .. n : OperandFits(a[k], Len(locals)) /\ Operand(a[k])
    <3>1. \A k \in 1 .. n : a[k] = Lookup(locals, authoredPart.arguments[k])
      OBVIOUS
    <3> HIDE DEF a, locals
    <3>2. QED
      BY <1>4, <2>1, <2>2, <2>3, <3>1, LookupIs
  <2>6. IsList(a) /\ DOMAIN a = 1 .. n
    <3>1. a = [k \in 1 .. n |-> a[k]]
      OBVIOUS
    <3> HIDE DEF a
    <3>2. QED
      BY <3>1, MadeList
  <2> HIDE DEF a
  <2>7. QED
    BY <1>11, <2>4, <2>5, <2>6 DEF LoweredPart, PartVerifies, Operands
<1>12. QED
  BY <1>2, <1>7, <1>8, <1>9, <1>10, <1>11 DEF IsPart

(* A lowered binding calls a rule that exists with operands in its scope,   *)
(* and fills the slot after those of the parameters and of the bindings     *)
(* before it.                                                               *)
LEMMA LoweredBindingIs ==
  ASSUME NEW rules, Authoring(rules), NEW r \in DOMAIN rules, NEW i \in DOMAIN rules[r].productions,
         NEW k \in DOMAIN rules[r].productions[i].bindings
  PROVE  LET b == LowerBinding(rules, rules[r], rules[r].productions[i], k)
         IN  /\ b.rule \in DOMAIN Lower(rules) /\ Operands(b.arguments)
             /\ b.slot = Lower(rules)[r].parameters + k
             /\ ArgumentsFit(Lower(rules), b.rule, b.arguments, Lower(rules)[r].parameters + k - 1)
<1> DEFINE p == rules[r].productions[i]
           b == p.bindings[k]
           locals == BindingScope(rules[r], p, k)
           lowered == LowerBinding(rules, rules[r], p, k)
           parameters == rules[b.rule].parameters
           a == LowerArguments(locals, b.arguments, parameters)
<1>1. /\ IsList(rules[r].parameters) /\ IsList(p.bindings)
      /\ b.rule \in DOMAIN rules /\ AreArguments(b.arguments)
  BY DEF Authoring, IsPackage, IsProduction
<1>2. CallFits(locals, b.arguments, parameters)
  BY DEF Authoring, Lowers, ProductionLowers
<1>3. lowered.rule = b.rule /\ lowered.slot = Len(locals) + 1 /\ lowered.arguments = a
  BY DEF LowerBinding
<1>4. IsList(locals) /\ Len(locals) = Len(rules[r].parameters) + k - 1
  BY <1>1, BindingScopeIs
<1>5. /\ b.rule \in DOMAIN Lower(rules) /\ Lower(rules)[b.rule].parameters = Len(parameters)
      /\ IsList(parameters) /\ Lower(rules)[r].parameters = Len(rules[r].parameters)
  BY <1>1, LoweredRule DEF Authoring, IsPackage
<1>6. Operands(a) /\ Len(a) = Len(parameters) /\ \A j \in DOMAIN a : OperandFits(a[j], Len(locals))
  <2> HIDE DEF locals, parameters
  <2>1. QED
    BY <1>1, <1>2, <1>4, <1>5, LoweredArguments
<1>7. k \in Nat /\ Len(rules[r].parameters) \in Nat
  BY <1>1, ListIs
<1> HIDE DEF a, locals, parameters, lowered
<1>8. ArgumentsFit(Lower(rules), b.rule, a, Len(locals))
  BY <1>5, <1>6 DEF ArgumentsFit
<1>9. lowered.slot = Lower(rules)[r].parameters + k /\ Len(locals) = Lower(rules)[r].parameters + k - 1
  BY <1>3, <1>4, <1>5, <1>7
<1>10. QED
  BY <1>3, <1>5, <1>6, <1>8, <1>9 DEF lowered

(* The captures before a part, counted in the lowered body. *)
LEMMA LoweredCaptures ==
  ASSUME NEW rules, Authoring(rules), NEW r \in DOMAIN rules, NEW i \in DOMAIN rules[r].productions,
         NEW j \in DOMAIN Body(rules[r].productions[i])
  PROVE  LET p == rules[r].productions[i]
             q == LowerProduction(rules, rules[r], p)
         IN  CapturesBefore(q, j) = Cardinality(CapturesOf(Body(p), j))
<1> DEFINE p == rules[r].productions[i]
           q == LowerProduction(rules, rules[r], p)
<1>1. IsList(Body(p))
  BY BodyIs DEF Authoring, IsPackage, IsProduction
<1>2. PICK n \in Nat : n = Len(Body(p)) /\ DOMAIN Body(p) = 1 .. n
  BY <1>1, ListIs
<1>3. \A k \in 1 .. n : q.parts[k] = LowerPart(rules, rules[r], p, k)
  BY <1>2 DEF LowerProduction
<1>4. \A k \in 1 .. n : q.parts[k].kind = Body(p)[k].kind
  <2>1. ASSUME NEW k \in DOMAIN Body(p) PROVE LowerPart(rules, rules[r], p, k).kind = Body(p)[k].kind
    <3>1. SameKind(LowerPart(rules, rules[r], p, k), Body(p)[k])
      BY LoweredPartIs
    <3>2. QED
      BY <3>1 DEF SameKind
  <2> HIDE DEF q
  <2>2. QED
    BY <1>2, <1>3, <2>1
<1> HIDE DEF p, q
<1>5. {k \in 1 .. j - 1 : q.parts[k].kind = "capture"} = CapturesOf(Body(p), j)
  <2>1. \A k \in 1 .. j - 1 : k \in 1 .. n
    BY <1>2 DEF p
  <2>2. QED
    BY <1>4, <2>1 DEF CapturesOf
<1>6. QED
  BY <1>5 DEF CapturesBefore, p, q

(* A lowered production passes every check of the verifier.                 *)
LEMMA LoweredProductionIs ==
  ASSUME NEW rules, Authoring(rules), NEW r \in DOMAIN rules, NEW i \in DOMAIN rules[r].productions
  PROVE  LET p == Lower(rules)[r].productions[i]
             parameters == Lower(rules)[r].parameters
         IN  /\ LoweredProduction(Lower(rules), p)
             /\ p.guard = <<>> \/ OperandFits(p.guard[1], parameters)
             /\ \A k \in DOMAIN p.bindings :
                  /\ p.bindings[k].slot = parameters + k
                  /\ ArgumentsFit(Lower(rules), p.bindings[k].rule, p.bindings[k].arguments, parameters + k - 1)
             /\ \A j \in DOMAIN p.parts :
                  PartVerifies(Lower(rules), p.parts[j], parameters + Len(p.bindings) + CapturesBefore(p, j))
<1> DEFINE p == rules[r].productions[i]
           q == LowerProduction(rules, rules[r], p)
           parameters == Lower(rules)[r].parameters
<1>1. Lower(rules)[r].productions[i] = q /\ parameters = Len(rules[r].parameters)
  BY LoweredRule DEF Authoring
<1>2. /\ IsList(rules[r].parameters) /\ IsList(p.bindings) /\ IsList(p.parts)
  BY DEF Authoring, IsPackage, IsProduction
<1>3. PICK m \in Nat : m = Len(p.bindings) /\ DOMAIN p.bindings = 1 .. m
  BY <1>2, ListIs
<1>4. PICK n \in Nat : n = Len(Body(p)) /\ DOMAIN Body(p) = 1 .. n
  BY <1>2, BodyIs, ListIs
<1>5. /\ q.bindings = [k \in 1 .. m |-> LowerBinding(rules, rules[r], p, k)]
      /\ q.parts = [j \in 1 .. n |-> LowerPart(rules, rules[r], p, j)]
      /\ q.guard = LowerGuard(rules[r], p)
  BY <1>3, <1>4 DEF LowerProduction
<1>6. \A k \in 1 .. m :
        /\ q.bindings[k].rule \in DOMAIN Lower(rules) /\ Operands(q.bindings[k].arguments)
        /\ q.bindings[k].slot = parameters + k
        /\ ArgumentsFit(Lower(rules), q.bindings[k].rule, q.bindings[k].arguments, parameters + k - 1)
  <2> SUFFICES ASSUME NEW k \in 1 .. m
               PROVE  /\ q.bindings[k].rule \in DOMAIN Lower(rules) /\ Operands(q.bindings[k].arguments)
                      /\ q.bindings[k].slot = parameters + k
                      /\ ArgumentsFit(Lower(rules), q.bindings[k].rule, q.bindings[k].arguments, parameters + k - 1)
    OBVIOUS
  <2>1. q.bindings[k] = LowerBinding(rules, rules[r], p, k)
    BY <1>5
  <2>2. k \in DOMAIN p.bindings
    BY <1>3
  <2>3. QED
    BY <2>1, <2>2, LoweredBindingIs
<1>7. IsList(q.bindings) /\ Len(q.bindings) = m /\ DOMAIN q.bindings = 1 .. m
  <2>1. q.bindings = [k \in 1 .. m |-> q.bindings[k]]
    BY <1>5
  <2> HIDE DEF q
  <2>2. QED
    BY <2>1, MadeList
<1>8. IsList(q.parts) /\ Len(q.parts) = n /\ DOMAIN q.parts = 1 .. n
  <2>1. q.parts = [k \in 1 .. n |-> q.parts[k]]
    BY <1>5
  <2> HIDE DEF q
  <2>2. QED
    BY <2>1, MadeList
<1>9. ASSUME NEW j \in 1 .. n
      PROVE  /\ LoweredPart(Lower(rules), q.parts[j])
             /\ PartVerifies(Lower(rules), q.parts[j], parameters + Len(q.bindings) + CapturesBefore(q, j))
  <2>1. j \in DOMAIN Body(p)
    BY <1>4
  <2>2. q.parts[j] = LowerPart(rules, rules[r], p, j)
    BY <1>5
  <2>3. CapturesBefore(q, j) = Cardinality(CapturesOf(Body(p), j))
    BY <2>1, LoweredCaptures
  <2>4. Len(PartScope(rules[r], p, j))
          = Len(rules[r].parameters) + Len(p.bindings) + Cardinality(CapturesOf(Body(p), j))
    BY <1>2, <2>1, PartScopeIs
  <2>5. Len(PartScope(rules[r], p, j)) = parameters + Len(q.bindings) + CapturesBefore(q, j)
    BY <1>1, <1>3, <1>7, <2>3, <2>4
  <2>6. /\ LoweredPart(Lower(rules), LowerPart(rules, rules[r], p, j))
        /\ PartVerifies(Lower(rules), LowerPart(rules, rules[r], p, j), Len(PartScope(rules[r], p, j)))
    BY <2>1, LoweredPartIs
  <2> HIDE DEF q, p, parameters
  <2>7. QED
    BY <2>2, <2>5, <2>6
<1>10. q.guard = <<>> \/ OperandFits(q.guard[1], parameters)
  <2>1. CASE p.guard = <<>>
    BY <1>5, <2>1 DEF LowerGuard
  <2>2. CASE p.guard # <<>>
    <3>1. q.guard[1] = Lookup(rules[r].parameters, p.guard[1])
      BY <1>5, <2>2 DEF LowerGuard
    <3>2. Defined(rules[r].parameters, p.guard[1])
      BY <2>2 DEF Authoring, Lowers, ProductionLowers
    <3>3. IsValue(p.guard[1])
      BY <2>2 DEF Authoring, IsPackage, IsProduction
    <3>4. OperandFits(Lookup(rules[r].parameters, p.guard[1]), Len(rules[r].parameters))
      BY <1>2, <3>2, <3>3, LookupIs
    <3>5. QED
      BY <1>1, <3>1, <3>4
  <2>3. QED
    BY <2>1, <2>2
<1> HIDE DEF q, parameters
<1>11. LoweredProduction(Lower(rules), q)
  BY <1>6, <1>7, <1>8, <1>9 DEF LoweredProduction
<1>12. QED
  BY <1>1, <1>6, <1>7, <1>8, <1>9, <1>10, <1>11 DEF parameters

(* compile_package checks its result with the verifier of artifacts, and    *)
(* never refuses it. *)
THEOREM AcceptedVerifies ==
  \A p \in Authored : Accepted(p) => LoweredRules(Lower(p)) /\ Verifies(Lower(p))
<1> SUFFICES ASSUME NEW p \in Authored, Accepted(p)
             PROVE  LoweredRules(Lower(p)) /\ Verifies(Lower(p))
  OBVIOUS
<1>1. IsPackage(p)
  BY PackageAssumption
<1>2. Authoring(p)
  BY <1>1 DEF Authoring, Accepted
<1>3. PICK n \in Nat : n = Len(p) /\ DOMAIN p = 1 .. n
  BY <1>1, ListIs DEF IsPackage
<1>4. n > 0
  <2>1. p # <<>> /\ IsList(p)
    BY <1>1 DEF IsPackage
  <2>2. QED
    BY <1>3, <2>1 DEF IsList
<1> DEFINE rules == Lower(p)
<1>5. DOMAIN rules = 1 .. n /\ rules = [r \in 1 .. n |-> rules[r]]
  BY <1>3 DEF Lower
<1> HIDE DEF rules
<1>6. IsList(rules) /\ Len(rules) = n
  BY <1>5, MadeList
<1>7. rules # <<>>
  BY <1>4, <1>6
<1>8. ASSUME NEW r \in 1 .. n
      PROVE  /\ rules[r].parameters \in Nat /\ IsList(rules[r].productions)
             /\ \A i \in DOMAIN rules[r].productions : i \in DOMAIN p[r].productions
  <2>1. IsList(p[r].parameters)
    BY <1>1, <1>3 DEF IsPackage
  <2>2. QED
    BY <1>1, <1>3, <2>1, LoweredRule, ListIs DEF rules
<1>9. ASSUME NEW r \in 1 .. n, NEW i \in DOMAIN rules[r].productions
      PROVE  LET q == rules[r].productions[i]
                 parameters == rules[r].parameters
             IN  /\ LoweredProduction(rules, q)
                 /\ q.guard = <<>> \/ OperandFits(q.guard[1], parameters)
                 /\ \A k \in DOMAIN q.bindings :
                      /\ q.bindings[k].slot = parameters + k
                      /\ ArgumentsFit(rules, q.bindings[k].rule, q.bindings[k].arguments, parameters + k - 1)
                 /\ \A j \in DOMAIN q.parts :
                      PartVerifies(rules, q.parts[j], parameters + Len(q.bindings) + CapturesBefore(q, j))
  BY <1>2, <1>3, <1>8, LoweredProductionIs DEF rules
<1>10. LoweredRules(rules)
  BY <1>5, <1>6, <1>7, <1>8, <1>9 DEF LoweredRules
<1>11. Verifies(rules)
  BY <1>5, <1>9 DEF Verifies
<1>12. QED
  BY <1>10, <1>11 DEF rules

-----------------------------------------------------------------------------
(* Message effects. *)

Grown(rules, S) ==
  {r \in DOMAIN rules :
     /\ rules[r].productions # <<>>
     /\ \A i \in DOMAIN rules[r].productions :
          LET parts == rules[r].productions[i].parts
          IN  Len(parts) = 1 /\ IsMessage(parts[1], S)}

(* More rules known to be messages make no rule less of a message.          *)
LEMMA GrownGrows ==
  ASSUME NEW rules, NEW S, NEW T, S \subseteq T
  PROVE  Grown(rules, S) \subseteq Grown(rules, T)
<1>1. \A part : IsMessage(part, S) => IsMessage(part, T)
  BY DEF IsMessage
<1>2. QED
  BY <1>1 DEF Grown

(* MessageEffects is a fixed point of its step from below: a rule is a      *)
(* message only because of its productions, whatever the others are.        *)
LEMMA EffectsGrow ==
  ASSUME NEW rules, IsList(rules)
  PROVE  MessageEffects(rules) \subseteq Grown(rules, MessageEffects(rules))
<1>1. PICK n \in Nat : n = Len(rules) /\ DOMAIN rules = 1 .. n
  BY ListIs
<1> DEFINE U == SUBSET (DOMAIN rules)
           step == [k \in 1 .. n |-> [S \in U |-> Grown(rules, S)]]
           Rec(f) == [k \in 0 .. n |-> IF k = 0 THEN {} ELSE Grown(rules, f[k - 1])]
<1>2. \A S : Grown(rules, S) \in U
  BY DEF Grown
<1>3. step \in [1 .. n -> [U -> U]] /\ \A k \in 1 .. n, S \in U : step[k][S] = Grown(rules, S)
  <2> HIDE DEF U
  <2>1. QED
    BY <1>2
<1>4. {} \in U
  OBVIOUS
<1> HIDE DEF U
<1>5. PICK w : RunOf(w, U, {}, step, n)
  <2> HIDE DEF step
  <2>1. QED
    BY <1>3, <1>4, RunsExist
<1>6. w = Rec(w)
  <2> HIDE DEF step
  <2>1. ASSUME NEW k \in 0 .. n PROVE w[k] = IF k = 0 THEN {} ELSE Grown(rules, w[k - 1])
    <3>1. CASE k = 0
      BY <1>5, <3>1 DEF RunOf
    <3>2. CASE k # 0
      <4>1. k \in 1 .. n /\ k - 1 \in 0 .. n
        BY <3>2
      <4>2. w[k - 1] \in U /\ w[k] = step[k][w[k - 1]]
        BY <1>5, <4>1 DEF RunOf
      <4>3. QED
        BY <1>3, <3>2, <4>1, <4>2
    <3>3. QED
      BY <3>1, <3>2
  <2>2. w = [k \in 0 .. n |-> w[k]]
    BY <1>5 DEF RunOf
  <2>3. QED
    BY <2>1, <2>2
<1>7. MessageEffects(rules) = LET after == CHOOSE f : f = Rec(f) IN after[n]
  BY <1>1 DEF MessageEffects, Fixpoint, Grown
<1>8. PICK f : MessageEffects(rules) = f[n] /\ f = Rec(f)
  <2> HIDE DEF Rec
  <2>1. QED
    BY <1>6, <1>7
<1>9. f[0] = {} /\ \A k \in 1 .. n : f[k] = Grown(rules, f[k - 1])
  <2>1. 0 \in 0 .. n /\ \A k \in 1 .. n : k \in 0 .. n /\ k # 0
    OBVIOUS
  <2>2. QED
    BY <1>8, <2>1
<1> DEFINE T == {k \in 0 .. n : f[k] \subseteq Grown(rules, f[k])}
<1>10. 0 \in T
  BY <1>9
<1>11. ASSUME NEW k \in 0 .. n, k \in T, k < n PROVE k + 1 \in T
  <2>1. k + 1 \in 1 .. n /\ (k + 1) - 1 = k /\ k + 1 \in 0 .. n
    BY <1>11
  <2>2. f[k + 1] = Grown(rules, f[k])
    BY <1>9, <2>1
  <2>3. f[k] \subseteq f[k + 1]
    BY <1>11, <2>2
  <2>4. f[k + 1] \subseteq Grown(rules, f[k + 1])
    BY <2>2, <2>3, GrownGrows
  <2>5. QED
    BY <2>1, <2>4
<1>12. n \in T
  <2> HIDE DEF T
  <2>1. \A k \in 0 .. n : k \in T
    BY <1>10, <1>11, StepByStep
  <2>2. QED
    BY <2>1
<1>13. QED
  BY <1>8, <1>12

(* What validate_message_effects leaves of a production of rule r. *)
EffectsFit(effects, r, p) ==
  /\ \A k \in DOMAIN p.bindings : p.bindings[k].rule \notin effects
  /\ \A j \in DOMAIN p.parts :
       /\ p.parts[j].kind = "capture" => p.parts[j].rule \notin effects
       /\ IsMessage(p.parts[j], effects) <=> r \in effects
  /\ r \in effects => Len(p.parts) = 1

EffectsKnown(rules) ==
  /\ MessageEffects(rules) \subseteq DOMAIN rules
  /\ \A r \in DOMAIN rules : \A i \in DOMAIN rules[r].productions :
       EffectsFit(MessageEffects(rules), r, rules[r].productions[i])

(* validate_message_effects: a rule is a message exactly if each of its     *)
(* productions is one message part, and what a binding or a capture calls   *)
(* is not a message.                                                        *)
LEMMA EffectsAreKnown ==
  ASSUME NEW rules, LoweredRules(rules), MessagesStandAlone(rules)
  PROVE  EffectsKnown(rules)
<1> DEFINE effects == MessageEffects(rules)
<1>1. IsList(rules)
  BY DEF LoweredRules
<1>2. effects \subseteq Grown(rules, effects)
  BY <1>1, EffectsGrow
<1>3. effects \subseteq DOMAIN rules
  BY <1>2 DEF Grown
<1>4. ASSUME NEW r \in DOMAIN rules, NEW i \in DOMAIN rules[r].productions
      PROVE  EffectsFit(effects, r, rules[r].productions[i])
  <2> DEFINE p == rules[r].productions[i]
  <2>1. BindingRules(p) \cap effects = {}
    BY DEF MessagesStandAlone
  <2>2. \A j \in DOMAIN p.parts :
          /\ p.parts[j].kind = "capture" => p.parts[j].rule \notin effects
          /\ IsMessage(p.parts[j], effects) => r \in effects
    BY DEF MessagesStandAlone
  <2>3. r \in effects => Len(p.parts) = 1 /\ IsMessage(p.parts[1], effects)
    BY <1>2 DEF Grown
  <2>4. IsList(p.parts)
    BY DEF LoweredRules, LoweredProduction
  <2>5. DOMAIN p.parts = 1 .. Len(p.parts)
    BY <2>4, ListIs
  <2> HIDE DEF effects, p
  <2>6. ASSUME NEW j \in DOMAIN p.parts, r \in effects PROVE IsMessage(p.parts[j], effects)
    <3>1. j = 1
      <4>1. Len(p.parts) = 1
        BY <2>3, <2>6
      <4>2. j \in 1 .. 1
        BY <2>5, <4>1
      <4>3. QED
        BY <4>2
    <3>2. QED
      BY <2>3, <2>6, <3>1
  <2>7. \A k \in DOMAIN p.bindings : p.bindings[k].rule \notin effects
    BY <2>1 DEF BindingRules
  <2>8. EffectsFit(effects, r, p)
    BY <2>2, <2>3, <2>6, <2>7 DEF EffectsFit
  <2>9. QED
    BY <2>8 DEF p
<1>5. QED
  BY <1>3, <1>4 DEF EffectsKnown

(* What a compiled package gives the generator. *)
Sound(rules) == LoweredRules(rules) /\ Verifies(rules) /\ EffectsKnown(rules)

(* A package that the compiler has accepted is lowered, verified, and of    *)
(* known effects.                                                           *)
LEMMA CompiledIsSound ==
  ASSUME authored \in Authored, IsCompiled
  PROVE  Sound(grammar)
<1>1. grammar = Lower(authored) /\ Accepted(authored)
  BY DEF IsCompiled
<1>2. LoweredRules(grammar) /\ Verifies(grammar)
  BY <1>1, AcceptedVerifies
<1>3. MessagesStandAlone(grammar)
  BY <1>1 DEF Accepted
<1>4. QED
  BY <1>2, <1>3, EffectsAreKnown DEF Sound

-----------------------------------------------------------------------------
(* What a step keeps of the stack: the head is replaced by ws. *)

(* An item of the new stack is one of ws, or one below the head. *)
FromRest(s, ws, t, k) == \E i \in 2 .. Len(s) : k = Len(ws) + i - 1 /\ t[k] = s[i] /\ i \in DOMAIN s

(* The items of the stack after a step.                                     *)
LEMMA ItemsOf ==
  ASSUME NEW s, IsList(s), s # <<>>, NEW ws, IsList(ws)
  PROVE  /\ IsList(ws \o Tail(s))
         /\ \A k \in DOMAIN (ws \o Tail(s)) :
              (k \in DOMAIN ws /\ (ws \o Tail(s))[k] = ws[k]) \/ FromRest(s, ws, ws \o Tail(s), k)
<1>1. Replaced(s, ws, ws \o Tail(s)) /\ Len(s) >= 1
  BY HeadReplaced
<1>2. PICK t : t = ws \o Tail(s)
  OBVIOUS
<1>3. PICK n \in Nat : n = Len(s) /\ DOMAIN s = 1 .. n
  BY ListIs
<1>4. PICK m \in Nat : m = Len(ws) /\ DOMAIN ws = 1 .. m
  BY ListIs
<1>5. /\ IsList(t) /\ Len(t) = m + n - 1 /\ \A k \in 1 .. m : t[k] = ws[k]
      /\ \A k \in m + 1 .. Len(t) : t[k] = s[k - m + 1]
  BY <1>1, <1>2, <1>3, <1>4 DEF Replaced
<1>6. DOMAIN t = 1 .. m + n - 1
  BY <1>5, ListIs
<1>7. ASSUME NEW k \in DOMAIN t, k \notin DOMAIN ws PROVE FromRest(s, ws, t, k)
  <2> DEFINE i == k - m + 1
  <2>1. k \in m + 1 .. m + n - 1 /\ i \in 2 .. n /\ k = m + i - 1
    BY <1>4, <1>6, <1>7
  <2>2. t[k] = s[i]
    BY <1>5, <2>1
  <2>3. i \in DOMAIN s
    BY <1>3, <2>1
  <2> HIDE DEF i
  <2>4. QED
    BY <1>3, <1>4, <2>1, <2>2, <2>3 DEF FromRest
<1>8. QED
  BY <1>2, <1>4, <1>5, <1>7

(* A work item that is well-formed stays so with more sinks, frames and     *)
(* nodes.                                                                   *)
LEMMA FitsMore ==
  ASSUME NEW rules, NEW b \in Nat, NEW f \in Nat, NEW n \in Nat, NEW d, NEW w,
         NEW b2 \in Nat, NEW f2 \in Nat, NEW n2 \in Nat, b <= b2, f <= f2, n <= n2,
         WorkFits(rules, b, f, n, d, w)
  PROVE  WorkFits(rules, b2, f2, n2, d, w)
<1>1. OriginsTo(n) \subseteq OriginsTo(n2)
  BY DEF OriginsTo
<1>2. Seq(OriginsTo(n)) \subseteq Seq(OriginsTo(n2))
  BY <1>1
<1>3. 1 .. b \subseteq 1 .. b2 /\ 1 .. f \subseteq 1 .. f2 /\ 0 .. n \subseteq 0 .. n2 /\ 1 .. n \subseteq 1 .. n2
  OBVIOUS
<1>4. w.op = "Expand" =>
        /\ w.rule \in DOMAIN rules
        /\ w.arguments \in Seq(Text) /\ w.origins \in Seq(OriginsTo(n2))
        /\ Len(w.arguments) = Len(w.origins)
        /\ w.depth \in Nat /\ w.parent \in 0 .. n2
  <2> HIDE DEF OriginsTo
  <2>1. QED
    BY <1>2, <1>3 DEF WorkFits
<1>5. w.op \in Owners =>
        /\ w \in [op : Owners, rule : DOMAIN rules, production : Nat, next : Nat \ {0},
                  frame : 1 .. f2, sink : 1 .. b2, depth : 0 .. d, node : 1 .. n2]
        /\ w.production \in DOMAIN rules[w.rule].productions
  <2> DEFINE B == 1 .. b  B2 == 1 .. b2  F == 1 .. f  F2 == 1 .. f2  N == 1 .. n  N2 == 1 .. n2  D == 0 .. d
  <2>1. B \subseteq B2 /\ F \subseteq F2 /\ N \subseteq N2
    BY <1>3
  <2>2. w.op \in Owners =>
        /\ w \in [op : Owners, rule : DOMAIN rules, production : Nat, next : Nat \ {0},
                  frame : F, sink : B, depth : D, node : N]
        /\ w.production \in DOMAIN rules[w.rule].productions
    BY DEF WorkFits
  <2> HIDE DEF B, B2, F, F2, N, N2, D, Owners
  <2>3. w.op \in Owners =>
        /\ w \in [op : Owners, rule : DOMAIN rules, production : Nat, next : Nat \ {0},
                  frame : F2, sink : B2, depth : D, node : N2]
        /\ w.production \in DOMAIN rules[w.rule].productions
    BY <2>1, <2>2
  <2>4. QED
    BY <2>3 DEF B, B2, F, F2, N, N2, D
<1>6. /\ w.op \in {"Expand", "FinishProduction"} \cup Owners \cup Fillers
      /\ w.sink \in 1 .. b2
      /\ w.op \in Fillers => w.frame \in 1 .. f2
      /\ w.op # "Expand" => w.node \in 1 .. n2
      /\ w.op \in {"FinishProduction", "FinishCapture"} => w.start \in Nat
  BY <1>3 DEF WorkFits
<1>7. QED
  BY <1>4, <1>5, <1>6 DEF WorkFits

(* So does the whole stack, below well-formed new items.                    *)
LEMMA FitsKept ==
  ASSUME NEW rules, NEW b \in Nat, NEW f \in Nat, NEW n \in Nat, NEW d,
         NEW b2 \in Nat, NEW f2 \in Nat, NEW n2 \in Nat, b <= b2, f <= f2, n <= n2,
         NEW s, FitsOf(rules, b, f, n, d, s), s # <<>>,
         NEW ws, IsList(ws), \A k \in DOMAIN ws : WorkFits(rules, b2, f2, n2, d, ws[k])
  PROVE  FitsOf(rules, b2, f2, n2, d, ws \o Tail(s))
<1>1. PICK t : t = ws \o Tail(s)
  OBVIOUS
<1>2. IsList(s) /\ \A k \in DOMAIN s : WorkFits(rules, b2, f2, n2, d, s[k])
  BY FitsMore DEF FitsOf
<1>3. IsList(t) /\ \A k \in DOMAIN t : (k \in DOMAIN ws /\ t[k] = ws[k]) \/ FromRest(s, ws, t, k)
  BY <1>1, <1>2, ItemsOf
<1>4. \A k \in DOMAIN t : FromRest(s, ws, t, k) => \E i \in DOMAIN s : t[k] = s[i]
  BY DEF FromRest
<1>5. \A k \in DOMAIN t : WorkFits(rules, b2, f2, n2, d, t[k])
  BY <1>2, <1>3, <1>4
<1>6. QED
  BY <1>1, <1>3, <1>5 DEF FitsOf

(* The items below the head, and pairs of items. *)
BothNew(ws, t, j, k) == j \in DOMAIN ws /\ k \in DOMAIN ws /\ t[j] = ws[j] /\ t[k] = ws[k]

OneNew(s, ws, t, j, k) ==
  j \in DOMAIN ws /\ t[j] = ws[j] /\ \E i \in 2 .. Len(s) : i \in DOMAIN s /\ t[k] = s[i]

BothOld(s, t, j, k) == \E h, i \in DOMAIN s : h < i /\ t[j] = s[h] /\ t[k] = s[i]

(* The pairs of items of the stack after a step.                            *)
LEMMA PairsOf ==
  ASSUME NEW s, IsList(s), s # <<>>, NEW ws, IsList(ws), NEW t, t = ws \o Tail(s),
         NEW j \in DOMAIN t, NEW k \in DOMAIN t, j < k
  PROVE  BothNew(ws, t, j, k) \/ OneNew(s, ws, t, j, k) \/ BothOld(s, t, j, k)
<1>1. /\ (j \in DOMAIN ws /\ t[j] = ws[j]) \/ FromRest(s, ws, t, j)
      /\ (k \in DOMAIN ws /\ t[k] = ws[k]) \/ FromRest(s, ws, t, k)
  BY ItemsOf
<1>2. PICK m \in Nat : m = Len(ws) /\ DOMAIN ws = 1 .. m
  BY ListIs
<1>3. PICK n \in Nat : n = Len(s) /\ DOMAIN s = 1 .. n
  BY ListIs
<1>4. CASE FromRest(s, ws, t, j)
  <2>1. PICK h \in 2 .. n : j = m + h - 1 /\ t[j] = s[h] /\ h \in DOMAIN s
    BY <1>2, <1>3, <1>4 DEF FromRest
  <2>2. j >= m + 1 /\ k \in Nat
    <3>1. IsList(t)
      BY ItemsOf
    <3>2. k \in 1 .. Len(t) /\ Len(t) \in Nat
      BY <3>1, ListIs
    <3>3. QED
      BY <2>1, <3>2
  <2>3. k \notin DOMAIN ws
    BY <1>2, <2>1, <2>2
  <2>4. PICK i \in 2 .. n : k = m + i - 1 /\ t[k] = s[i] /\ i \in DOMAIN s
    BY <1>1, <1>2, <1>3, <2>3 DEF FromRest
  <2>5. h < i
    BY <2>1, <2>4
  <2>6. QED
    BY <2>1, <2>4, <2>5 DEF BothOld
<1>5. CASE j \in DOMAIN ws /\ t[j] = ws[j] /\ FromRest(s, ws, t, k)
  BY <1>5 DEF FromRest, OneNew
<1>6. QED
  BY <1>1, <1>4, <1>5 DEF BothNew

SameFilled(fs, fs2, s) ==
  \A k \in 2 .. Len(s) : s[k].op \in Owners => Len(fs2[s[k].frame].values) = Len(fs[s[k].frame].values)

AllApart(ws, s) == \A j \in DOMAIN ws, k \in 2 .. Len(s) : Apart(ws[j], s[k])

(* A step whose top fills no slot keeps every slot below it.                *)
LEMMA SlotsKept ==
  ASSUME NEW rules, NEW fs, NEW fs2, NEW s, IsList(s), s # <<>>, SlotsOf(rules, fs, s),
         s[1].op \notin Fillers, SameFilled(fs, fs2, s),
         NEW ws, IsList(ws), SlotsOf(rules, fs2, ws), AllApart(ws, s)
  PROVE  SlotsOf(rules, fs2, ws \o Tail(s))
<1>1. PICK t : t = ws \o Tail(s)
  OBVIOUS
<1>2. PICK n \in Nat : n = Len(s) /\ DOMAIN s = 1 .. n
  BY ListIs
<1>3. PICK m \in Nat : m = Len(ws) /\ DOMAIN ws = 1 .. m
  BY ListIs
<1>4. /\ IsList(t) /\ Len(t) = m + n - 1 /\ \A k \in 1 .. m : t[k] = ws[k]
      /\ \A k \in m + 1 .. Len(t) : t[k] = s[k - m + 1]
      /\ n >= 1
  BY <1>1, <1>2, <1>3, HeadReplaced DEF Replaced
<1>5. DOMAIN t = 1 .. m + n - 1
  BY <1>4, ListIs
<1>6. ASSUME NEW i \in 2 .. n PROVE t[m + i - 1] = s[i]
  <2>1. m + i - 1 \in m + 1 .. m + n - 1 /\ (m + i - 1) - m + 1 = i
    OBVIOUS
  <2>2. QED
    BY <1>4, <2>1
<1>7. ASSUME NEW k \in 1 .. m
      PROVE  OwnerFits(rules, fs2, t, k) /\ FillerFits(t, k) /\ ArityFits(rules, t[k])
  <2>1. OwnerFits(rules, fs2, ws, k) /\ FillerFits(ws, k) /\ ArityFits(rules, ws[k]) /\ t[k] = ws[k]
    BY <1>3, <1>4 DEF SlotsOf
  <2>2. k > 1 => k - 1 \in 1 .. m /\ t[k - 1] = ws[k - 1]
    BY <1>4
  <2>3. Filling(t, k) <=> Filling(ws, k)
    BY <2>2 DEF Filling
  <2>4. OwnerFilled(rules, fs2, ws, k) => OwnerFilled(rules, fs2, t, k)
    <3>1. Filling(ws, k) => t[k - 1] = ws[k - 1]
      BY <2>2 DEF Filling
    <3>2. QED
      BY <2>1, <2>3, <3>1 DEF OwnerFilled
  <2>5. k < m => k + 1 \in 1 .. m /\ t[k + 1] = ws[k + 1] /\ k < Len(t)
    BY <1>2, <1>4
  <2>6. FillerFits(t, k)
    BY <1>3, <2>1, <2>5 DEF FillerFits
  <2>7. QED
    BY <2>1, <2>4, <2>6 DEF OwnerFits
<1>8. m > 0 => ws[m].op \notin Fillers
  <2>1. ASSUME m > 0 PROVE ws[m].op \notin Fillers
    <3>1. m \in DOMAIN ws /\ ~ (m < Len(ws))
      BY <1>3, <2>1
    <3>2. FillerFits(ws, m)
      BY <3>1 DEF SlotsOf
    <3>3. QED
      BY <3>1, <3>2 DEF FillerFits
  <2>2. QED
    BY <2>1
<1>9. ASSUME NEW i \in 2 .. n, NEW k, k = m + i - 1
      PROVE  OwnerFits(rules, fs2, t, k) /\ FillerFits(t, k) /\ ArityFits(rules, t[k])
  <2>1. OwnerFits(rules, fs, s, i) /\ FillerFits(s, i) /\ ArityFits(rules, s[i]) /\ t[k] = s[i]
    BY <1>2, <1>6, <1>9 DEF SlotsOf
  <2>2. (Filling(t, k) <=> Filling(s, i)) /\ (Filling(s, i) => t[k - 1] = s[i - 1])
    <3>1. CASE i = 2
      <4>1. ~ Filling(s, i)
        BY <3>1 DEF Filling
      <4>2. k = m + 1 /\ (m > 0 => k - 1 = m /\ t[m] = ws[m])
        BY <1>4, <1>9, <3>1
      <4>3. ~ Filling(t, k)
        <5>1. CASE m = 0
          BY <4>2, <5>1 DEF Filling
        <5>2. CASE m > 0
          BY <1>8, <4>2, <5>2 DEF Filling
        <5>3. QED
          BY <5>1, <5>2
      <4>4. QED
        BY <4>1, <4>3
    <3>2. CASE i # 2
      <4>1. i - 1 \in 2 .. n /\ i > 1 /\ k > 1 /\ k - 1 = m + (i - 1) - 1
        BY <1>9, <3>2
      <4>2. t[k - 1] = s[i - 1]
        BY <1>6, <4>1
      <4>3. QED
        BY <4>1, <4>2 DEF Filling
    <3>3. QED
      BY <3>1, <3>2
  <2>3. s[i].op \in Owners => Len(fs2[s[i].frame].values) = Len(fs[s[i].frame].values)
    BY <1>2 DEF SameFilled
  <2>4. s[i].op \in Owners /\ OwnerFilled(rules, fs, s, i) => OwnerFilled(rules, fs2, t, k)
    <3>1. PICK x : x = s[i]
      OBVIOUS
    <3>2. x.op \in Owners => Len(fs2[x.frame].values) = Len(fs[x.frame].values)
      BY <2>3, <3>1
    <3>3. t[k] = x
      BY <2>1, <3>1
    <3>4. QED
      BY <2>2, <3>1, <3>2, <3>3 DEF OwnerFilled
  <2>5. FillerFits(t, k)
    <3>1. i < n => i + 1 \in 2 .. n /\ k + 1 = m + (i + 1) - 1 /\ k < Len(t)
      BY <1>4, <1>9
    <3>2. i < n => t[k + 1] = s[i + 1]
      BY <1>6, <3>1
    <3>3. QED
      BY <1>2, <2>1, <3>1, <3>2 DEF FillerFits
  <2>6. OwnerFits(rules, fs2, t, k)
    BY <2>1, <2>4 DEF OwnerFits
  <2>7. QED
    BY <2>1, <2>5, <2>6
<1>10. ASSUME NEW k \in DOMAIN t
       PROVE  OwnerFits(rules, fs2, t, k) /\ FillerFits(t, k) /\ ArityFits(rules, t[k])
  <2>1. CASE k \in 1 .. m
    BY <1>7, <2>1
  <2>2. CASE k \notin 1 .. m
    <3>1. k - m + 1 \in 2 .. n /\ k = m + (k - m + 1) - 1
      BY <1>5, <2>2
    <3>2. QED
      BY <1>9, <3>1
  <2>3. QED
    BY <2>1, <2>2
<1>11. ASSUME NEW j \in DOMAIN t, NEW k \in DOMAIN t, j < k PROVE Apart(t[j], t[k])
  <2>1. CASE BothNew(ws, t, j, k)
    BY <1>11, <2>1 DEF BothNew, SlotsOf
  <2>2. CASE OneNew(s, ws, t, j, k)
    BY <2>2 DEF OneNew, AllApart
  <2>3. CASE BothOld(s, t, j, k)
    BY <2>3 DEF BothOld, SlotsOf
  <2>4. QED
    BY <1>1, <1>11, <2>1, <2>2, <2>3, PairsOf
<1>12. QED
  BY <1>1, <1>10, <1>11 DEF SlotsOf

(* The top fills the next slot of the owner below it. *)
LEMMA SlotsFilled ==
  ASSUME NEW rules, NEW fs, NEW fs2, NEW s, IsList(s), s # <<>>, SlotsOf(rules, fs, s),
         s[1].op \in Fillers,
         \A k \in DOMAIN s : s[k].op \in Owners =>
           Len(fs[s[k].frame].values) \in Nat /\
           Len(fs2[s[k].frame].values) = IF s[k].frame = s[1].frame THEN Len(fs[s[k].frame].values) + 1
                                         ELSE Len(fs[s[k].frame].values)
  PROVE  SlotsOf(rules, fs2, <<>> \o Tail(s))
<1>1. PICK t : t = <<>> \o Tail(s)
  OBVIOUS
<1>2. PICK n \in Nat : n = Len(s) /\ DOMAIN s = 1 .. n
  BY ListIs
<1>3. IsList(t) /\ Len(t) = n - 1 /\ DOMAIN t = 1 .. n - 1 /\ \A k \in 1 .. n - 1 : t[k] = s[k + 1]
  BY <1>1, <1>2, Popped
<1>4. 1 < n /\ s[2].op \in Owners /\ 1 \in DOMAIN s /\ 2 \in DOMAIN s
  <2>1. 1 \in DOMAIN s
    BY Popped
  <2>2. FillerFits(s, 1)
    BY <2>1 DEF SlotsOf
  <2>3. 1 < n /\ s[2].op \in Owners
    BY <1>2, <2>2 DEF FillerFits
  <2>4. QED
    BY <1>2, <2>1, <2>3
<1>5. /\ s[1].frame = s[2].frame
      /\ Expected(rules, s[2]) = Len(fs[s[2].frame].values) + 1
      /\ NextFits(rules, s[2])
  <2>1. Filling(s, 2)
    BY DEF Filling
  <2>2. OwnerFits(rules, fs, s, 2)
    BY <1>4 DEF SlotsOf
  <2>3. QED
    BY <1>4, <2>1, <2>2 DEF OwnerFits, OwnerFilled
<1>6. ASSUME NEW k \in DOMAIN t PROVE OwnerFits(rules, fs2, t, k) /\ FillerFits(t, k) /\ ArityFits(rules, t[k])
  <2>1. k + 1 \in DOMAIN s /\ t[k] = s[k + 1] /\ k \in 1 .. n - 1
    BY <1>2, <1>3
  <2>2. OwnerFits(rules, fs, s, k + 1) /\ FillerFits(s, k + 1) /\ ArityFits(rules, s[k + 1])
    BY <2>1 DEF SlotsOf
  <2>3. FillerFits(t, k)
    <3>1. k + 1 < n => k + 1 \in 1 .. n - 1 /\ k < n - 1 /\ t[k + 1] = s[(k + 1) + 1]
      BY <1>3, <2>1
    <3>2. QED
      BY <1>2, <1>3, <2>1, <2>2, <3>1 DEF FillerFits
  <2>4. OwnerFits(rules, fs2, t, k)
    <3>1. SUFFICES ASSUME t[k].op \in Owners PROVE NextFits(rules, t[k]) /\ OwnerFilled(rules, fs2, t, k)
      BY DEF OwnerFits
    <3>2. NextFits(rules, t[k])
      BY <2>1, <2>2, <3>1 DEF OwnerFits
    <3>3. CASE k = 1
      <4>1. t[k] = s[2] /\ ~ Filling(t, k)
        BY <2>1, <3>3 DEF Filling
      <4>2. Len(fs2[s[2].frame].values) = Len(fs[s[2].frame].values) + 1
        BY <1>4, <1>5
      <4>3. QED
        BY <1>5, <3>2, <4>1, <4>2 DEF OwnerFilled
    <3>4. CASE k # 1
      <4>1. k > 1 /\ k - 1 \in 1 .. n - 1 /\ t[k - 1] = s[k]
        <5>1. k > 1 /\ k - 1 \in 1 .. n - 1 /\ (k - 1) + 1 = k
          BY <2>1, <3>4
        <5>2. QED
          BY <1>3, <5>1
      <4>2. k + 1 > 1 /\ (k + 1) - 1 = k /\ 2 < k + 1
        BY <2>1, <4>1
      <4>3. Filling(t, k) <=> Filling(s, k + 1)
        BY <4>1, <4>2 DEF Filling
      <4>4. Apart(s[2], s[k + 1])
        BY <1>4, <2>1, <4>2 DEF SlotsOf
      <4>5. s[k + 1].frame # s[1].frame
        BY <1>4, <1>5, <2>1, <3>1, <4>4 DEF Apart
      <4>6. Len(fs2[s[k + 1].frame].values) = Len(fs[s[k + 1].frame].values)
        BY <2>1, <3>1, <4>5
      <4>7. OwnerFilled(rules, fs, s, k + 1)
        BY <2>1, <2>2, <3>1 DEF OwnerFits
      <4>8. OwnerFilled(rules, fs2, t, k)
        <5>1. PICK x : x = s[k + 1]
          OBVIOUS
        <5>2. t[k] = x /\ Len(fs2[x.frame].values) = Len(fs[x.frame].values)
          BY <2>1, <4>6, <5>1
        <5>3. PICK y : y = s[k]
          OBVIOUS
        <5>4. t[k - 1] = y /\ s[(k + 1) - 1] = y
          BY <4>1, <4>2, <5>3
        <5>5. QED
          BY <4>3, <4>7, <5>1, <5>2, <5>4 DEF OwnerFilled
      <4>9. QED
        BY <3>2, <4>8
    <3>5. QED
      BY <3>3, <3>4
  <2>5. QED
    BY <2>1, <2>2, <2>3, <2>4
<1>7. ASSUME NEW j \in DOMAIN t, NEW k \in DOMAIN t, j < k PROVE Apart(t[j], t[k])
  <2>1. j + 1 \in DOMAIN s /\ k + 1 \in DOMAIN s /\ j + 1 < k + 1 /\ t[j] = s[j + 1] /\ t[k] = s[k + 1]
    BY <1>2, <1>3, <1>7
  <2>2. QED
    BY <2>1 DEF SlotsOf
<1>8. QED
  BY <1>1, <1>6, <1>7 DEF SlotsOf

AllTemporary(ws, s) == \A j \in DOMAIN ws, k \in 2 .. Len(s) : Temporary(ws[j], s[k])

StillStarts(bs, bs2, s) == \A k \in 2 .. Len(s) : Starts(bs, s[k]) => Starts(bs2, s[k])

(* A step that removes no text from a sink with a start below keeps every   *)
(* start.                                                                   *)
LEMMA SpansKept ==
  ASSUME NEW bs, NEW bs2, NEW s, IsList(s), s # <<>>, SpansOf(bs, s), StillStarts(bs, bs2, s),
         NEW ws, IsList(ws), SpansOf(bs2, ws), AllTemporary(ws, s)
  PROVE  SpansOf(bs2, ws \o Tail(s))
<1>1. PICK t : t = ws \o Tail(s)
  OBVIOUS
<1>2. ASSUME NEW k \in DOMAIN t PROVE Starts(bs2, t[k])
  <2>1. CASE k \in DOMAIN ws /\ t[k] = ws[k]
    BY <2>1 DEF SpansOf
  <2>2. CASE FromRest(s, ws, t, k)
    <3>1. PICK i \in 2 .. Len(s) : t[k] = s[i] /\ i \in DOMAIN s
      BY <2>2 DEF FromRest
    <3>2. Starts(bs, s[i])
      BY <3>1 DEF SpansOf
    <3>3. QED
      BY <3>1, <3>2 DEF StillStarts
  <2>3. QED
    BY <1>1, <2>1, <2>2, ItemsOf
<1>3. ASSUME NEW j \in DOMAIN t, NEW k \in DOMAIN t, j < k PROVE Temporary(t[j], t[k])
  <2>1. CASE BothNew(ws, t, j, k)
    BY <1>3, <2>1 DEF BothNew, SpansOf
  <2>2. CASE OneNew(s, ws, t, j, k)
    BY <2>2 DEF OneNew, AllTemporary
  <2>3. CASE BothOld(s, t, j, k)
    BY <2>3 DEF BothOld, SpansOf
  <2>4. QED
    BY <1>1, <1>3, <2>1, <2>2, <2>3, PairsOf
<1>4. QED
  BY <1>1, <1>2, <1>3 DEF SpansOf

(* Whether a list of work items waits for its message to be selected. *)
Waits(effects, s) == \E k \in DOMAIN s : Pending(effects, s[k])

OnePending(effects, s) ==
  \A j, k \in DOMAIN s : j < k => ~ (Pending(effects, s[j]) /\ Pending(effects, s[k]))

AllAtRoot(effects, s) == \A k \in DOMAIN s : AtRoot(effects, s[k])

(* A step that leaves the message alone hands on what was pending.          *)
LEMMA MessagesKept ==
  ASSUME NEW effects, NEW root, NEW root2, NEW msg, NEW s, IsList(s), s # <<>>,
         MessagesOf(effects, root, msg, s), 1 \in effects /\ root = <<>> => root2 = <<>>,
         NEW ws, IsList(ws), AllAtRoot(effects, ws), OnePending(effects, ws),
         Waits(effects, ws) <=> Pending(effects, s[1])
  PROVE  MessagesOf(effects, root2, msg, ws \o Tail(s))
<1>1. PICK t : t = ws \o Tail(s)
  OBVIOUS
<1>2. PICK n \in Nat : n = Len(s) /\ DOMAIN s = 1 .. n
  BY ListIs
<1>3. 1 \in DOMAIN s
  BY Popped
<1>4. ASSUME NEW k \in DOMAIN t
      PROVE  AtRoot(effects, t[k]) /\ (Pending(effects, t[k]) => msg = <<>>)
  <2>1. CASE k \in DOMAIN ws /\ t[k] = ws[k]
    <3>1. AtRoot(effects, t[k])
      BY <2>1 DEF AllAtRoot
    <3>2. Pending(effects, t[k]) => Pending(effects, s[1])
      BY <2>1 DEF Waits
    <3>3. Pending(effects, s[1]) => msg = <<>>
      BY <1>3 DEF MessagesOf
    <3>4. QED
      BY <3>1, <3>2, <3>3
  <2>2. CASE FromRest(s, ws, t, k)
    BY <2>2 DEF FromRest, MessagesOf
  <2>3. QED
    BY <1>1, <2>1, <2>2, ItemsOf
<1>5. ASSUME NEW j \in DOMAIN t, NEW k \in DOMAIN t, j < k
      PROVE  ~ (Pending(effects, t[j]) /\ Pending(effects, t[k]))
  <2>1. CASE BothNew(ws, t, j, k)
    BY <1>5, <2>1 DEF BothNew, OnePending
  <2>2. CASE OneNew(s, ws, t, j, k)
    <3>1. PICK i \in 2 .. n : i \in DOMAIN s /\ t[k] = s[i]
      BY <1>2, <2>2 DEF OneNew
    <3>2. Pending(effects, t[j]) => Pending(effects, s[1])
      BY <2>2 DEF Waits, OneNew
    <3>3. 1 < i
      OBVIOUS
    <3>4. ~ (Pending(effects, s[1]) /\ Pending(effects, s[i]))
      BY <1>3, <3>1, <3>3 DEF MessagesOf
    <3>5. QED
      BY <3>1, <3>2, <3>4
  <2>3. CASE BothOld(s, t, j, k)
    BY <2>3 DEF BothOld, MessagesOf
  <2>4. QED
    BY <1>1, <1>5, <2>1, <2>2, <2>3, PairsOf
<1>6. ASSUME 1 \in effects, msg = <<>> PROVE \E k \in DOMAIN t : Pending(effects, t[k])
  <2>1. PICK i \in DOMAIN s : Pending(effects, s[i])
    BY <1>6 DEF MessagesOf
  <2>2. PICK m \in Nat : m = Len(ws) /\ DOMAIN ws = 1 .. m
    BY ListIs
  <2>3. /\ IsList(t) /\ Len(t) = m + n - 1 /\ \A k \in 1 .. m : t[k] = ws[k]
        /\ \A k \in m + 1 .. Len(t) : t[k] = s[k - m + 1]
    BY <1>1, <1>2, <2>2, HeadReplaced DEF Replaced
  <2>4. DOMAIN t = 1 .. m + n - 1
    BY <2>3, ListIs
  <2>5. CASE i = 1
    <3>1. PICK k \in 1 .. m : Pending(effects, ws[k])
      BY <2>1, <2>2, <2>5 DEF Waits
    <3>2. k \in DOMAIN t /\ t[k] = ws[k]
      <4>1. n >= 1
        BY <1>2, <1>3
      <4>2. QED
        BY <2>3, <2>4, <4>1
    <3>3. QED
      BY <3>1, <3>2
  <2>6. CASE i # 1
    <3> DEFINE k == m + i - 1
    <3>1. i \in 2 .. n
      BY <1>2, <2>6
    <3>2. k \in m + 1 .. m + n - 1 /\ k - m + 1 = i /\ k \in 1 .. m + n - 1
      BY <3>1
    <3>3. k \in DOMAIN t /\ t[k] = s[k - m + 1]
      BY <2>3, <2>4, <3>2
    <3>4. t[k] = s[i]
      BY <3>2, <3>3
    <3>5. QED
      BY <2>1, <3>3, <3>4
  <2>7. QED
    BY <2>5, <2>6
<1>7. (1 \in effects => root2 = <<>>) /\ (1 \notin effects => msg = <<>>)
  BY DEF MessagesOf
<1>8. QED
  BY <1>1, <1>4, <1>5, <1>6, <1>7 DEF MessagesOf

-----------------------------------------------------------------------------
(* What a step does to the data. *)

(* push_node.                                                               *)
LEMMA NodesAppended ==
  ASSUME NEW d, NEW ns, NodesFit(d, ns), NEW node \in Nodes,
         node.parent \in 0 .. Len(ns), node.depth <= d
  PROVE  NodesFit(d, Append(ns, node)) /\ Len(Append(ns, node)) = Len(ns) + 1 /\ Len(ns) \in Nat
<1>1. ns \in Seq(Nodes)
  BY DEF NodesFit
<1>2. PICK n \in Nat : n = Len(ns) /\ DOMAIN ns = 1 .. n
  BY <1>1
<1>3. PICK t : t = Append(ns, node)
  OBVIOUS
<1>4. /\ t \in Seq(Nodes) /\ Len(t) = n + 1 /\ DOMAIN t = 1 .. n + 1
      /\ \A k \in 1 .. n : t[k] = ns[k]
      /\ t[n + 1] = node
  BY <1>1, <1>2, <1>3
<1>5. ASSUME NEW k \in 1 .. n + 1 PROVE t[k].parent \in 0 .. k - 1 /\ t[k].depth <= d
  <2>1. CASE k = n + 1
    BY <1>2, <1>4, <2>1
  <2>2. CASE k # n + 1
    BY <1>2, <1>4, <2>2 DEF NodesFit
  <2>3. QED
    BY <2>1, <2>2
<1>6. QED
  BY <1>2, <1>3, <1>4, <1>5 DEF NodesFit

Closes(ns, i, range, t) == t = [ns EXCEPT ![i].range = range]

(* A node that is given its range.                                          *)
LEMMA NodesClosed ==
  ASSUME NEW d, NEW ns, NodesFit(d, ns), NEW i \in DOMAIN ns, NEW range \in Seq(Nat),
         NEW t, Closes(ns, i, range, t)
  PROVE  NodesFit(d, t) /\ Len(t) = Len(ns)
<1>1. ns \in Seq(Nodes)
  BY DEF NodesFit
<1>2. PICK n \in Nat : n = Len(ns) /\ DOMAIN ns = 1 .. n
  BY <1>1
<1>3. PICK node \in Nodes : node = ns[i]
  BY <1>1
<1>4. PICK x : x = [node EXCEPT !.range = range]
  OBVIOUS
<1>5. x \in Nodes /\ x.parent = node.parent /\ x.depth = node.depth
  BY <1>4 DEF Nodes
<1>6. t = [ns EXCEPT ![i].range = range]
  BY DEF Closes
<1>7. t = [ns EXCEPT ![i] = x]
  BY <1>3, <1>4, <1>6
<1>8. /\ t \in Seq(Nodes) /\ Len(t) = n /\ DOMAIN t = 1 .. n
      /\ \A k \in 1 .. n : t[k] = IF k = i THEN x ELSE ns[k]
  BY <1>1, <1>2, <1>5, <1>7
<1>9. ASSUME NEW k \in 1 .. n PROVE t[k].parent \in 0 .. k - 1 /\ t[k].depth <= d
  <2>1. ns[k].parent \in 0 .. k - 1 /\ ns[k].depth <= d
    BY <1>2 DEF NodesFit
  <2>2. QED
    BY <1>3, <1>5, <1>8, <2>1
<1>10. QED
  BY <1>2, <1>6, <1>8, <1>9 DEF NodesFit

(* The origins of a frame stay in range when nodes are pushed.              *)
LEMMA FramesMore ==
  ASSUME NEW n \in Nat, NEW n2 \in Nat, n <= n2, NEW fs, FramesFit(n, fs)
  PROVE  FramesFit(n2, fs)
<1>1. OriginsTo(n) \subseteq OriginsTo(n2)
  BY DEF OriginsTo
<1>2. Seq(OriginsTo(n)) \subseteq Seq(OriginsTo(n2))
  BY <1>1
<1>3. FramesTo(n) \subseteq FramesTo(n2)
  <2> HIDE DEF OriginsTo
  <2>1. QED
    BY <1>2 DEF FramesTo
<1>4. Seq(FramesTo(n)) \subseteq Seq(FramesTo(n2))
  BY <1>3
<1>5. QED
  BY <1>4 DEF FramesFit

(* A frame pushed for a production.                                         *)
LEMMA FramesAppended ==
  ASSUME NEW n, NEW fs, FramesFit(n, fs), NEW frame \in FramesTo(n),
         Len(frame.values) = Len(frame.origins)
  PROVE  /\ FramesFit(n, Append(fs, frame))
         /\ Len(fs) \in Nat /\ Len(Append(fs, frame)) = Len(fs) + 1
         /\ \A k \in 1 .. Len(fs) : Append(fs, frame)[k] = fs[k]
         /\ Append(fs, frame)[Len(fs) + 1] = frame
<1>1. fs \in Seq(FramesTo(n))
  BY DEF FramesFit
<1>2. PICK m \in Nat : m = Len(fs) /\ DOMAIN fs = 1 .. m
  BY <1>1
<1>3. PICK t : t = Append(fs, frame)
  OBVIOUS
<1>4. /\ t \in Seq(FramesTo(n)) /\ Len(t) = m + 1 /\ DOMAIN t = 1 .. m + 1
      /\ \A k \in 1 .. m : t[k] = fs[k]
      /\ t[m + 1] = frame
  BY <1>1, <1>2, <1>3
<1>5. ASSUME NEW k \in 1 .. m + 1 PROVE Len(t[k].values) = Len(t[k].origins)
  <2>1. CASE k = m + 1
    BY <1>4, <2>1
  <2>2. CASE k # m + 1
    BY <1>2, <1>4, <2>2, SMTT(30) DEF FramesFit
  <2>3. QED
    BY <2>1, <2>2
<1>6. QED
  BY <1>2, <1>3, <1>4, <1>5 DEF FramesFit

(* A frame holds texts, each with its origin.                               *)
LEMMA FrameIs ==
  ASSUME NEW n, NEW fs, FramesFit(n, fs), NEW i \in DOMAIN fs
  PROVE  /\ fs[i] \in FramesTo(n) /\ fs[i].values \in Seq(Text) /\ fs[i].origins \in Seq(OriginsTo(n))
         /\ Len(fs[i].values) = Len(fs[i].origins) /\ Len(fs[i].values) \in Nat
<1>1. fs[i] \in FramesTo(n) /\ Len(fs[i].values) = Len(fs[i].origins)
  BY DEF FramesFit
<1>2. fs[i].values \in Seq(Text) /\ fs[i].origins \in Seq(OriginsTo(n))
  BY <1>1 DEF FramesTo
<1>3. QED
  BY <1>1, <1>2

Binds(fs, i, text, origin, fs2) ==
  fs2 = [fs EXCEPT ![i].values = Append(@, text), ![i].origins = Append(@, origin)]

(* bind_slot: a value and its origin appended to one frame.                 *)
LEMMA FramesBound ==
  ASSUME NEW n, NEW fs, FramesFit(n, fs), NEW i \in DOMAIN fs, NEW text \in Text,
         NEW origin \in OriginsTo(n), NEW fs2, Binds(fs, i, text, origin, fs2)
  PROVE  /\ FramesFit(n, fs2) /\ Len(fs2) = Len(fs)
         /\ \A k \in DOMAIN fs :
              Len(fs2[k].values) = IF k = i THEN Len(fs[k].values) + 1 ELSE Len(fs[k].values)
<1>1. fs \in Seq(FramesTo(n))
  BY DEF FramesFit
<1>2. PICK m \in Nat : m = Len(fs) /\ DOMAIN fs = 1 .. m
  BY <1>1
<1>3. PICK frame \in FramesTo(n) : frame = fs[i]
  BY <1>1
<1>4. PICK vs \in Seq(Text) : vs = frame.values
  BY DEF FramesTo
<1>5. PICK os \in Seq(OriginsTo(n)) : os = frame.origins
  BY DEF FramesTo
<1>6. Len(vs) = Len(os)
  BY <1>3, <1>4, <1>5 DEF FramesFit
<1>7. PICK vs2 : vs2 = Append(vs, text)
  OBVIOUS
<1>8. PICK os2 : os2 = Append(os, origin)
  OBVIOUS
<1>9. vs2 \in Seq(Text) /\ Len(vs2) = Len(vs) + 1 /\ os2 \in Seq(OriginsTo(n)) /\ Len(os2) = Len(os) + 1
  BY <1>7, <1>8
<1>10. frame = [values |-> vs, origins |-> os]
  BY <1>4, <1>5 DEF FramesTo
<1>11. PICK x : x = [values |-> vs2, origins |-> os2]
  OBVIOUS
<1>12. x \in FramesTo(n) /\ x.values = vs2 /\ x.origins = os2
  BY <1>9, <1>11 DEF FramesTo
<1>13. fs2 = [fs EXCEPT ![i] = x]
  <2>1. fs2 = [fs EXCEPT ![i] = [[frame EXCEPT !.values = Append(@, text)] EXCEPT !.origins = Append(@, origin)]]
    BY <1>3 DEF Binds
  <2>2. [[frame EXCEPT !.values = Append(@, text)] EXCEPT !.origins = Append(@, origin)] = x
    <3>1. [frame EXCEPT !.values = Append(@, text)] = [values |-> vs2, origins |-> os]
      <4>1. [frame EXCEPT !.values = Append(@, text)] = [frame EXCEPT !.values = vs2]
        BY ONLY <1>4, <1>7
      <4>2. [frame EXCEPT !.values = vs2] = [values |-> vs2, origins |-> os]
        BY ONLY <1>10
      <4>3. QED
        BY ONLY <4>1, <4>2
    <3>2. [[values |-> vs2, origins |-> os] EXCEPT !.origins = Append(@, origin)] = x
      <4>1. [[values |-> vs2, origins |-> os] EXCEPT !.origins = Append(@, origin)]
              = [[values |-> vs2, origins |-> os] EXCEPT !.origins = os2]
        BY ONLY <1>8
      <4>2. [[values |-> vs2, origins |-> os] EXCEPT !.origins = os2] = x
        BY ONLY <1>11
      <4>3. QED
        BY ONLY <4>1, <4>2
    <3>3. QED
      BY <3>1, <3>2
  <2>3. QED
    BY <2>1, <2>2
<1>14. /\ fs2 \in Seq(FramesTo(n)) /\ Len(fs2) = m /\ DOMAIN fs2 = 1 .. m
       /\ \A k \in 1 .. m : fs2[k] = IF k = i THEN x ELSE fs[k]
  <2> HIDE DEF FramesTo
  <2>1. x \in FramesTo(n)
    BY <1>12
  <2>2. QED
    BY ONLY <1>1, <1>2, <2>1, <1>13
<1>15. ASSUME NEW k \in 1 .. m
       PROVE  /\ Len(fs2[k].values) = Len(fs2[k].origins)
              /\ Len(fs2[k].values) = IF k = i THEN Len(fs[k].values) + 1 ELSE Len(fs[k].values)
  <2>1. CASE k = i
    BY <1>3, <1>4, <1>6, <1>9, <1>12, <1>14, <2>1
  <2>2. CASE k # i
    BY <1>2, <1>14, <2>2 DEF FramesFit
  <2>3. QED
    BY <2>1, <2>2
<1>16. QED
  BY <1>2, <1>14, <1>15 DEF FramesFit

(* A temporary sink pushed for a binding.                                   *)
LEMMA SinkAppended ==
  ASSUME NEW limits \in Limits, NEW bs, NEW ss, NEW total, SinksFit(limits, bs, ss, total)
  PROVE  /\ SinksFit(limits, Append(bs, <<>>), Append(ss, 0), total)
         /\ Len(bs) \in Nat /\ Len(Append(bs, <<>>)) = Len(bs) + 1
         /\ \A k \in 1 .. Len(bs) : Append(bs, <<>>)[k] = bs[k]
         /\ 1 \in 1 .. Len(bs)
<1>1. bs \in Seq(Text) /\ ss \in Seq(Nat) /\ Len(ss) = Len(bs) /\ bs # <<>>
  BY DEF SinksFit
<1>2. PICK n \in Nat : n = Len(bs) /\ DOMAIN bs = 1 .. n
  BY <1>1
<1>3. PICK t : t = Append(bs, <<>>)
  OBVIOUS
<1>4. PICK u : u = Append(ss, 0)
  OBVIOUS
<1>5. <<>> \in Text /\ Bytes(<<>>) = 0
  BY BytesOfNothing
<1>6. /\ t \in Seq(Text) /\ Len(t) = n + 1 /\ DOMAIN t = 1 .. n + 1
      /\ \A k \in 1 .. n : t[k] = bs[k]
      /\ t[n + 1] = <<>>
  BY <1>1, <1>2, <1>3, <1>5
<1>7. /\ u \in Seq(Nat) /\ Len(u) = n + 1
      /\ \A k \in 1 .. n : u[k] = ss[k]
      /\ u[n + 1] = 0
  BY <1>1, <1>2, <1>4
<1>8. ASSUME NEW k \in 1 .. n + 1 PROVE u[k] = Len(t[k]) /\ Bytes(t[k]) <= limits.bytes
  <2>1. CASE k = n + 1
    <3>1. limits.bytes \in Nat
      BY DEF Limits
    <3>2. QED
      BY <1>5, <1>6, <1>7, <2>1, <3>1
  <2>2. CASE k # n + 1
    <3>1. k \in 1 .. n /\ k \in DOMAIN bs
      BY <1>2, <2>2
    <3>2. ss[k] = Len(bs[k]) /\ Bytes(bs[k]) <= limits.bytes
      BY <3>1 DEF SinksFit
    <3>3. t[k] = bs[k] /\ u[k] = ss[k]
      BY <1>6, <1>7, <3>1
    <3>4. QED
      BY <3>2, <3>3
  <2>3. QED
    BY <2>1, <2>2
<1>9. Total(u) = Total(ss)
  BY <1>1, <1>4, TotalGrows
<1>10. SinksFit(limits, t, u, total)
  <2>1. t # <<>>
    BY <1>6
  <2>2. total \in Nat /\ Total(u) <= total /\ total <= limits.scalars
    BY <1>9 DEF SinksFit
  <2>3. QED
    BY <1>6, <1>7, <1>8, <2>1, <2>2 DEF SinksFit
<1>11. n >= 1
  BY <1>1, <1>2
<1>12. QED
  BY <1>2, <1>3, <1>4, <1>6, <1>10, <1>11

Clears(bs, ss, i, t, u) == t = [bs EXCEPT ![i] = <<>>] /\ u = [ss EXCEPT ![i] = 0]
Extends(bs, ss, i, text, t, u) ==
  t = [bs EXCEPT ![i] = @ \o text] /\ u = [ss EXCEPT ![i] = @ + Len(text)]

(* The text taken from a sink.                                              *)
LEMMA SinkCleared ==
  ASSUME NEW limits \in Limits, NEW bs, NEW ss, NEW total, SinksFit(limits, bs, ss, total),
         NEW i \in DOMAIN bs, NEW t, NEW u, Clears(bs, ss, i, t, u)
  PROVE  SinksFit(limits, t, u, total) /\ Len(t) = Len(bs)
<1>1. bs \in Seq(Text) /\ ss \in Seq(Nat) /\ Len(ss) = Len(bs) /\ bs # <<>>
  BY DEF SinksFit
<1>2. PICK n \in Nat : n = Len(bs) /\ DOMAIN bs = 1 .. n /\ DOMAIN ss = 1 .. n
  BY <1>1
<1>3. t = [bs EXCEPT ![i] = <<>>]
  BY DEF Clears
<1>4. u = [ss EXCEPT ![i] = 0]
  BY DEF Clears
<1>5. <<>> \in Text /\ Bytes(<<>>) = 0
  BY BytesOfNothing
<1>6. /\ t \in Seq(Text) /\ Len(t) = n /\ DOMAIN t = 1 .. n
      /\ \A k \in 1 .. n : t[k] = IF k = i THEN <<>> ELSE bs[k]
  BY <1>1, <1>2, <1>3, <1>5
<1>7. /\ u \in Seq(Nat) /\ Len(u) = n
      /\ \A k \in 1 .. n : u[k] = IF k = i THEN 0 ELSE ss[k]
  BY <1>1, <1>2, <1>4
<1>8. ASSUME NEW k \in 1 .. n PROVE u[k] = Len(t[k]) /\ Bytes(t[k]) <= limits.bytes
  <2>1. CASE k = i
    <3>1. limits.bytes \in Nat
      BY DEF Limits
    <3>2. QED
      BY <1>5, <1>6, <1>7, <2>1, <3>1
  <2>2. CASE k # i
    BY <1>2, <1>6, <1>7, <2>2 DEF SinksFit
  <2>3. QED
    BY <2>1, <2>2
<1>9. Total(u) <= Total(ss)
  <2>1. i \in DOMAIN ss /\ 0 \in Nat
    BY <1>2
  <2>2. Total(u) + ss[i] = Total(ss) + 0
    BY <1>1, <1>4, <2>1, TotalOfUpdate
  <2>3. Total(u) \in Nat /\ Total(ss) \in Nat /\ ss[i] \in Nat
    BY ONLY <1>1, <1>7, <2>1, TotalGrows
  <2>4. QED
    BY <2>2, <2>3
<1>10. total \in Nat /\ Total(ss) <= total /\ total <= limits.scalars /\ Total(u) \in Nat /\ Total(ss) \in Nat
  BY <1>1, <1>7, TotalGrows DEF SinksFit
<1>11. Total(u) <= total
  BY <1>9, <1>10
<1>12. t # <<>>
  BY <1>1, <1>2, <1>6
<1>13. SinksFit(limits, t, u, total)
  BY <1>6, <1>7, <1>8, <1>10, <1>11, <1>12 DEF SinksFit
<1>14. QED
  BY <1>2, <1>3, <1>4, <1>6, <1>13

(* emit within the limits: a sink and its count grow alike, and so does the *)
(* total.                                                                   *)
LEMMA SinkExtended ==
  ASSUME NEW limits \in Limits, NEW bs, NEW ss, NEW total, SinksFit(limits, bs, ss, total),
         NEW i \in DOMAIN bs, NEW text \in Text,
         total + Len(text) <= limits.scalars, Bytes(bs[i]) + Bytes(text) <= limits.bytes,
         NEW t, NEW u, Extends(bs, ss, i, text, t, u)
  PROVE  /\ SinksFit(limits, t, u, total + Len(text))
         /\ Len(t) = Len(bs)
         /\ \A k \in DOMAIN bs : Len(bs[k]) \in Nat /\ Len(t[k]) \in Nat /\ Len(bs[k]) <= Len(t[k])
<1>1. bs \in Seq(Text) /\ ss \in Seq(Nat) /\ Len(ss) = Len(bs) /\ bs # <<>>
  BY DEF SinksFit
<1>2. PICK n \in Nat : n = Len(bs) /\ DOMAIN bs = 1 .. n /\ DOMAIN ss = 1 .. n
  BY <1>1
<1>3. PICK old \in Text : old = bs[i]
  BY <1>1
<1>4. PICK new : new = old \o text
  OBVIOUS
<1>5. new \in Text /\ Bytes(new) = Bytes(old) + Bytes(text)
  BY <1>4, BytesOfConcat
<1>6. PICK x \in Nat : x = Len(text)
  BY DEF Text
<1>7. PICK y \in Nat : y = Len(old)
  BY DEF Text
<1>8. Len(new) = y + x /\ Len(new) \in Nat
  <2>1. old \in Seq(DOMAIN Width) /\ text \in Seq(DOMAIN Width)
    BY DEF Text
  <2>2. QED
    BY <1>4, <1>6, <1>7, <2>1
<1>9. t = [bs EXCEPT ![i] = @ \o text]
  BY DEF Extends
<1>10. u = [ss EXCEPT ![i] = @ + Len(text)]
  BY DEF Extends
<1>11. ss[i] = y /\ i \in 1 .. n
  BY <1>2, <1>3, <1>7 DEF SinksFit
<1>12. t = [bs EXCEPT ![i] = new] /\ u = [ss EXCEPT ![i] = y + x]
  BY <1>3, <1>4, <1>6, <1>9, <1>10, <1>11
<1>13. /\ t \in Seq(Text) /\ Len(t) = n /\ DOMAIN t = 1 .. n
       /\ \A k \in 1 .. n : t[k] = IF k = i THEN new ELSE bs[k]
  BY ONLY <1>1, <1>2, <1>5, <1>12, i \in DOMAIN bs
<1>14. /\ u \in Seq(Nat) /\ Len(u) = n
       /\ \A k \in 1 .. n : u[k] = IF k = i THEN y + x ELSE ss[k]
  BY <1>1, <1>2, <1>12
<1>15. ASSUME NEW k \in 1 .. n PROVE u[k] = Len(t[k]) /\ Bytes(t[k]) <= limits.bytes
  <2>1. CASE k = i
    BY <1>3, <1>5, <1>8, <1>13, <1>14, <2>1
  <2>2. CASE k # i
    BY <1>2, <1>13, <1>14, <2>2 DEF SinksFit
  <2>3. QED
    BY <2>1, <2>2
<1>16. PICK sum \in Nat : sum = Total(ss)
  BY <1>1, TotalGrows
<1>17. Total(u) = sum + x
  <2>1. i \in DOMAIN ss /\ y + x \in Nat
    BY <1>2
  <2>2. Total([ss EXCEPT ![i] = y + x]) + ss[i] = Total(ss) + (y + x)
    BY <1>1, <2>1, TotalOfUpdate
  <2>3. PICK z \in Nat : z = Total(u)
    BY <1>14, TotalGrows
  <2>4. z + y = sum + (y + x)
    BY <1>11, <1>12, <1>16, <2>2, <2>3
  <2>5. \A a, b, c, d \in Nat : a + c = b + (c + d) => a = b + d
    BY ONLY TRUE
  <2>6. z = sum + x
    BY ONLY <2>4, <2>5, x \in Nat, y \in Nat, sum \in Nat, z \in Nat
  <2>7. QED
    BY <2>3, <2>6
<1>18. total \in Nat /\ sum <= total /\ limits.scalars \in Nat
  BY <1>16 DEF SinksFit, Limits
<1>19. total + Len(text) \in Nat /\ Total(u) <= total + Len(text)
  BY <1>6, <1>17, <1>18
<1>20. t # <<>>
  BY <1>1, <1>2, <1>13
<1>21. SinksFit(limits, t, u, total + Len(text))
  BY <1>13, <1>14, <1>15, <1>19, <1>20 DEF SinksFit
<1>22. ASSUME NEW k \in DOMAIN bs
       PROVE  Len(bs[k]) \in Nat /\ Len(t[k]) \in Nat /\ Len(bs[k]) <= Len(t[k])
  <2>1. Len(bs[k]) \in Nat
    BY <1>1 DEF Text
  <2>2. QED
    BY <1>2, <1>3, <1>7, <1>8, <1>13, <2>1
<1>23. QED
  BY <1>2, <1>9, <1>10, <1>13, <1>21, <1>22

-----------------------------------------------------------------------------
(* The state around a step. *)

(* A step that goes on: only the work and its data change. *)
LEMMA Proceeded ==
  ASSUME Started, outcome = "running", UNCHANGED <<authored, grammar, request, outcome, result>>,
         FitsOf(grammar, Len(buffers'), Len(frames'), Len(nodes'), request.limits.depth, stack'),
         FramesFit(Len(nodes'), frames'), NodesFit(request.limits.depth, nodes'),
         SinksFit(request.limits, buffers', sinkScalars', scalars'),
         BudgetFits(request.limits, frames', choices', expansions', words'),
         SlotsOf(grammar, frames', stack'), SpansOf(buffers', stack'),
         MessagesOf(MessageEffects(grammar), buffers'[Root], message', stack')
  PROVE  Started'
<1>1. RequestFits(request)' /\ ResultFits(request.limits, result)' /\ IsCompiled'
  BY DEF Started, IsCompiled
<1>2. /\ outcome' = "running"
      /\ ~ (request'.api = "weighted" /\ 1 \in MessageEffects(grammar'))
  BY DEF Started
<1>3. OutcomesForeseen'
  BY <1>2 DEF OutcomesForeseen, NoInternalError, MessagesAreForeseen
<1>4. /\ FitsOf(grammar', Len(buffers'), Len(frames'), Len(nodes'), request'.limits.depth, stack')
      /\ NodesFit(request'.limits.depth, nodes')
      /\ SinksFit(request'.limits, buffers', sinkScalars', scalars')
      /\ BudgetFits(request'.limits, frames', choices', expansions', words')
      /\ SlotsOf(grammar', frames', stack')
      /\ MessagesOf(MessageEffects(grammar'), buffers'[Root], message', stack')
  OBVIOUS
<1>5. QED
  BY <1>1, <1>2, <1>3, <1>4 DEF Started

(* The errors a request may end with. *)
Errors == {"limit-depth", "limit-expansions", "no-eligible-production", "sampler-budget",
           "limit-output", "formatter", "locale"}

(* A step that ends the request with an error.                              *)
LEMMA Failed ==
  ASSUME Started, NEW code \in Errors, Fail(code),
         code = "locale" => request.api # "weighted" /\ 1 \in MessageEffects(grammar)
  PROVE  Started'
<1>1. UNCHANGED <<authored, grammar, request, stack, buffers, sinkScalars, frames, scalars, expansions,
                  words, message, nodes, choices, result>> /\ outcome' = code
  BY DEF Fail, run
<1>2. code \notin {"source", "compiled", "running", "text", "message", "formatted", "bytecode-corrupt",
                   "binding-name", "value-name", "rule-arity", "invalid-span", "message-effect"}
  BY DEF Errors
<1>3. OutcomesForeseen'
  BY <1>1, <1>2 DEF OutcomesForeseen, NoInternalError, MessagesAreForeseen
<1>4. RequestFits(request)' /\ ResultFits(request.limits, result)' /\ IsCompiled'
  BY <1>1 DEF Started, IsCompiled
<1>5. /\ FitsOf(grammar, Len(buffers), Len(frames), Len(nodes), request.limits.depth, stack)'
      /\ FramesFit(Len(nodes), frames)'
      /\ NodesFit(request.limits.depth, nodes)'
      /\ SinksFit(request.limits, buffers, sinkScalars, scalars)'
      /\ BudgetFits(request.limits, frames, choices, expansions, words)'
      /\ SlotsOf(grammar, frames, stack)'
      /\ SpansOf(buffers, stack)'
      /\ MessagesOf(MessageEffects(grammar), buffers[Root], message, stack)'
  BY <1>1 DEF Started
<1>6. outcome' \notin {"source", "compiled"} /\ outcome' # "running"
  BY <1>1, <1>2
<1>7. QED
  BY <1>3, <1>4, <1>5, <1>6 DEF Started

(* An operand in scope has a value and an origin.                           *)
LEMMA ValueIs ==
  ASSUME RequestFits(request), NEW n \in Nat, NEW frame \in FramesTo(n), Len(frame.values) = Len(frame.origins),
         NEW v, OperandFits(v, Len(frame.values)), Operand(v)
  PROVE  Available(frame, v) /\ Evaluate(frame, v) \in Text /\ Origin(frame, v) \in OriginsTo(n)
<1>1. /\ frame.values \in Seq(Text) /\ frame.origins \in Seq(OriginsTo(n))
      /\ request.data \in Seq(Text) /\ Len(request.data) = Len(Inputs)
  BY DEF FramesTo, RequestFits
<1>2. [kind |-> "host", node |-> None] \in OriginsTo(n) /\ [kind |-> "constant", node |-> None] \in OriginsTo(n)
  BY DEF OriginsTo, None
<1>3. CASE v.kind = "local"
  <2>1. v.slot \in 1 .. Len(frame.values)
    BY <1>3 DEF OperandFits
  <2>2. v.slot \in DOMAIN frame.values /\ v.slot \in DOMAIN frame.origins
    BY <1>1, <2>1
  <2>3. frame.values[v.slot] \in Text /\ frame.origins[v.slot] \in OriginsTo(n)
    BY <1>1, <2>2
  <2>4. QED
    BY <1>3, <2>2, <2>3 DEF Available, Evaluate, Origin
<1>4. CASE v.kind = "input"
  <2>1. v.slot \in DOMAIN Inputs
    BY <1>4 DEF OperandFits
  <2>2. v.slot \in DOMAIN request.data
    BY <1>1, <2>1, InputsAssumption, ListIs
  <2>3. request.data[v.slot] \in Text
    BY <1>1, <2>2
  <2>4. QED
    BY <1>2, <1>4, <2>2, <2>3 DEF Available, Evaluate, Origin
<1>5. CASE v.kind \notin {"local", "input"}
  BY <1>2, <1>5 DEF Available, Evaluate, Origin, Operand
<1>6. QED
  BY <1>3, <1>4, <1>5

(* So have all arguments of a call.                                         *)
LEMMA ArgumentsAre ==
  ASSUME RequestFits(request), NEW n \in Nat, NEW frame \in FramesTo(n),
         Len(frame.values) = Len(frame.origins), NEW arguments, Operands(arguments),
         \A k \in DOMAIN arguments : OperandFits(arguments[k], Len(frame.values))
  PROVE  /\ AllAvailable(frame, arguments)
         /\ Values(frame, arguments) \in Seq(Text) /\ Origins(frame, arguments) \in Seq(OriginsTo(n))
         /\ Len(Values(frame, arguments)) = Len(arguments)
         /\ Len(Origins(frame, arguments)) = Len(arguments)
<1>1. PICK m \in Nat : m = Len(arguments) /\ DOMAIN arguments = 1 .. m
  BY ListIs DEF Operands
<1>2. ASSUME NEW k \in 1 .. m
      PROVE  /\ Available(frame, arguments[k]) /\ Evaluate(frame, arguments[k]) \in Text
             /\ Origin(frame, arguments[k]) \in OriginsTo(n)
  <2>1. Operand(arguments[k]) /\ OperandFits(arguments[k], Len(frame.values))
    BY <1>1 DEF Operands
  <2>2. QED
    BY <2>1, ValueIs
<1>3. AllAvailable(frame, arguments)
  BY <1>1, <1>2 DEF AllAvailable
<1> DEFINE vs == Values(frame, arguments)  os == Origins(frame, arguments)
<1>4. vs = [k \in 1 .. m |-> Evaluate(frame, arguments[k])] /\ os = [k \in 1 .. m |-> Origin(frame, arguments[k])]
  BY <1>1 DEF Values, Origins
<1> HIDE DEF vs, os
<1>5. vs \in Seq(Text) /\ Len(vs) = m
  <2>1. vs \in [1 .. m -> Text]
    BY <1>2, <1>4
  <2>2. QED
    BY <2>1
<1>6. os \in Seq(OriginsTo(n)) /\ Len(os) = m
  <2>1. os \in [1 .. m -> OriginsTo(n)]
    BY <1>2, <1>4
  <2> HIDE DEF OriginsTo
  <2>2. QED
    BY <2>1
<1>7. QED
  BY <1>1, <1>3, <1>5, <1>6 DEF vs, os

(* The work on top, and what is known of it. *)
LEMMA AtTop ==
  ASSUME authored \in Authored, Started, stack # <<>>
  PROVE  /\ IsList(stack) /\ 1 \in DOMAIN stack /\ Top = stack[1]
         /\ WorkFits(grammar, Len(buffers), Len(frames), Len(nodes), request.limits.depth, Top)
         /\ Sound(grammar)
         /\ Len(buffers) \in Nat /\ Len(frames) \in Nat /\ Len(nodes) \in Nat
         /\ Top.sink \in DOMAIN buffers /\ 1 \in DOMAIN buffers
         /\ buffers[Top.sink] \in Text
         /\ sinkScalars[Top.sink] = Len(buffers[Top.sink]) /\ sinkScalars[Top.sink] \in Nat
<1>1. IsList(stack)
  BY DEF Started, FitsOf
<1>2. PICK t : t = <<>> \o Tail(stack)
  OBVIOUS
<1>3. 1 \in DOMAIN stack /\ Top = stack[1]
  BY <1>1, <1>2, Popped DEF Top
<1>4. WorkFits(grammar, Len(buffers), Len(frames), Len(nodes), request.limits.depth, Top)
  BY <1>3 DEF Started, FitsOf
<1>5. buffers \in Seq(Text) /\ sinkScalars \in Seq(Nat) /\ Len(sinkScalars) = Len(buffers) /\ buffers # <<>>
      /\ \A s \in DOMAIN buffers : sinkScalars[s] = Len(buffers[s])
  BY DEF Started, SinksFit
<1>6. Len(nodes) \in Nat /\ Len(frames) \in Nat
  <2>1. nodes \in Seq(Nodes) /\ frames \in Seq(FramesTo(Len(nodes)))
    BY DEF Started, NodesFit, FramesFit
  <2>2. QED
    BY <2>1
<1>7. DOMAIN buffers = 1 .. Len(buffers) /\ DOMAIN sinkScalars = 1 .. Len(buffers) /\ Len(buffers) \in Nat /\ Len(buffers) >= 1
  BY <1>5
<1>8. Top.sink \in DOMAIN buffers
  BY <1>4, <1>7 DEF WorkFits
<1>9. buffers[Top.sink] \in Text /\ sinkScalars[Top.sink] = Len(buffers[Top.sink]) /\ sinkScalars[Top.sink] \in Nat
  BY <1>5, <1>7, <1>8
<1>10. Sound(grammar)
  BY CompiledIsSound DEF Started
<1>11. QED
  BY <1>1, <1>3, <1>4, <1>6, <1>7, <1>8, <1>9, <1>10

(* What is known of a production, wherever it is being expanded. *)
LEMMA ProductionIs ==
  ASSUME NEW rules, Sound(rules), NEW r \in DOMAIN rules, NEW i \in DOMAIN rules[r].productions,
         NEW p, p = rules[r].productions[i]
  PROVE  /\ LoweredProduction(rules, p) /\ IsList(p.bindings) /\ IsList(p.parts)
         /\ rules[r].parameters \in Nat
         /\ EffectsFit(MessageEffects(rules), r, p)
         /\ p.guard = <<>> \/ OperandFits(p.guard[1], rules[r].parameters)
         /\ \A k \in DOMAIN p.bindings :
              /\ p.bindings[k].slot = rules[r].parameters + k
              /\ ArgumentsFit(rules, p.bindings[k].rule, p.bindings[k].arguments, rules[r].parameters + k - 1)
         /\ \A j \in DOMAIN p.parts :
              PartVerifies(rules, p.parts[j], rules[r].parameters + Len(p.bindings) + CapturesBefore(p, j))
<1>1. LoweredProduction(rules, p) /\ rules[r].parameters \in Nat
  BY DEF Sound, LoweredRules
<1>2. EffectsFit(MessageEffects(rules), r, p)
  BY DEF Sound, EffectsKnown
<1>3. IsList(p.bindings) /\ IsList(p.parts)
  BY <1>1 DEF LoweredProduction
<1>4. /\ p.guard = <<>> \/ OperandFits(p.guard[1], rules[r].parameters)
      /\ \A k \in DOMAIN p.bindings :
           /\ p.bindings[k].slot = rules[r].parameters + k
           /\ ArgumentsFit(rules, p.bindings[k].rule, p.bindings[k].arguments, rules[r].parameters + k - 1)
      /\ \A j \in DOMAIN p.parts :
           PartVerifies(rules, p.parts[j], rules[r].parameters + Len(p.bindings) + CapturesBefore(p, j))
  BY DEF Sound, Verifies
<1>5. QED
  BY <1>1, <1>2, <1>3, <1>4

(* The owner of a frame on top waits for the next slot of that frame.       *)
LEMMA TopOwner ==
  ASSUME authored \in Authored, Started, stack # <<>>, Top.op \in Owners
  PROVE  /\ Top \in [op : Owners, rule : DOMAIN grammar, production : Nat, next : Nat \ {0},
                      frame : 1 .. Len(frames), sink : 1 .. Len(buffers),
                      depth : 0 .. request.limits.depth, node : 1 .. Len(nodes)]
         /\ Top.rule \in DOMAIN grammar /\ Top.production \in DOMAIN grammar[Top.rule].productions
         /\ Top.frame \in DOMAIN frames /\ Top.node \in DOMAIN nodes
         /\ frames[Top.frame] \in FramesTo(Len(nodes))
         /\ Len(frames[Top.frame].values) = Len(frames[Top.frame].origins)
         /\ Len(frames[Top.frame].values) \in Nat
         /\ NextFits(grammar, Top) /\ Expected(grammar, Top) = Len(frames[Top.frame].values)
<1>1. /\ IsList(stack) /\ 1 \in DOMAIN stack /\ Top = stack[1]
      /\ WorkFits(grammar, Len(buffers), Len(frames), Len(nodes), request.limits.depth, Top)
  BY AtTop
<1>2. /\ Top \in [op : Owners, rule : DOMAIN grammar, production : Nat, next : Nat \ {0},
                   frame : 1 .. Len(frames), sink : 1 .. Len(buffers),
                   depth : 0 .. request.limits.depth, node : 1 .. Len(nodes)]
      /\ Top.production \in DOMAIN grammar[Top.rule].productions
  BY <1>1 DEF WorkFits
<1>3. frames \in Seq(FramesTo(Len(nodes))) /\ nodes \in Seq(Nodes) /\ FramesFit(Len(nodes), frames)
  BY DEF Started, NodesFit, FramesFit
<1>4. Top.rule \in DOMAIN grammar /\ Top.frame \in 1 .. Len(frames) /\ Top.node \in 1 .. Len(nodes)
  BY <1>2
<1>5. Top.frame \in DOMAIN frames /\ Top.node \in DOMAIN nodes
  BY <1>3, <1>4
<1>6. /\ frames[Top.frame] \in FramesTo(Len(nodes))
      /\ Len(frames[Top.frame].values) = Len(frames[Top.frame].origins)
      /\ Len(frames[Top.frame].values) \in Nat
  BY <1>3, <1>5, FrameIs
<1>7. OwnerFits(grammar, frames, stack, 1)
  BY <1>1 DEF Started, SlotsOf
<1>8. NextFits(grammar, Top) /\ OwnerFilled(grammar, frames, stack, 1)
  BY <1>1, <1>7 DEF OwnerFits
<1>9. ~ Filling(stack, 1)
  BY DEF Filling
<1>10. Expected(grammar, Top) = Len(frames[Top.frame].values)
  BY <1>1, <1>8, <1>9 DEF OwnerFilled
<1>11. QED
  BY <1>2, <1>4, <1>5, <1>6, <1>8, <1>10

(* Captures are counted part by part.                                       *)
LEMMA CapturesNext ==
  ASSUME NEW p, IsList(p.parts), NEW j \in DOMAIN p.parts
  PROVE  /\ CapturesBefore(p, j) \in Nat /\ CapturesBefore(p, 1) = 0
         /\ CapturesBefore(p, j + 1)
              = IF p.parts[j].kind = "capture" THEN CapturesBefore(p, j) + 1 ELSE CapturesBefore(p, j)
<1> DEFINE K(m) == {k \in 1 .. m - 1 : p.parts[k].kind = "capture"}
<1>1. j \in Nat /\ j >= 1
  BY ListIs
<1>2. IsFiniteSet(K(j)) /\ j \notin K(j)
  <2>1. j - 1 \in Nat /\ K(j) \subseteq 1 .. j - 1 /\ j \notin K(j)
    BY <1>1
  <2>2. IsFiniteSet(1 .. j - 1)
    BY <2>1, UpToIs
  <2>3. IsFiniteSet(K(j))
    <3> HIDE DEF K
    <3>1. QED
      BY <2>1, <2>2, FS_Subset
  <2>4. QED
    BY <2>1, <2>3
<1>3. Cardinality(K(j)) \in Nat
  <2> HIDE DEF K
  <2>1. QED
    BY <1>2, FS_CardinalityType
<1>4. Cardinality(K(1)) = 0
  <2>1. K(1) = {}
    OBVIOUS
  <2>2. QED
    BY <2>1, FS_EmptySet
<1>5. Cardinality(K(j + 1)) = IF p.parts[j].kind = "capture" THEN Cardinality(K(j)) + 1 ELSE Cardinality(K(j))
  <2>1. CASE p.parts[j].kind = "capture"
    <3>1. K(j + 1) = K(j) \cup {j}
      BY <1>1, <2>1
    <3>2. Cardinality(K(j) \cup {j}) = Cardinality(K(j)) + 1
      <4> HIDE DEF K
      <4>1. QED
        BY <1>2, FS_AddElement
    <3>3. QED
      BY <2>1, <3>1, <3>2
  <2>2. CASE p.parts[j].kind # "capture"
    <3>1. K(j + 1) = K(j)
      BY <1>1, <2>2
    <3>2. QED
      BY <2>2, <3>1
  <2>3. QED
    BY <2>1, <2>2
<1>6. \A m : CapturesBefore(p, m) = Cardinality(K(m))
  BY DEF CapturesBefore
<1> HIDE DEF K
<1>7. QED
  BY <1>3, <1>4, <1>5, <1>6

(* What the work that replaces the head must be. *)
NewWork(rules, effects, b, f, n, d, fs, bs, s, ws) ==
  /\ IsList(ws) /\ \A k \in DOMAIN ws : WorkFits(rules, b, f, n, d, ws[k])
  /\ SlotsOf(rules, fs, ws) /\ AllApart(ws, s)
  /\ SpansOf(bs, ws) /\ AllTemporary(ws, s)
  /\ AllAtRoot(effects, ws) /\ OnePending(effects, ws)
  /\ Waits(effects, ws) <=> Pending(effects, s[1])

(* A step that goes on: it suffices that its data fits and that its new     *)
(* work does.                                                               *)
LEMMA Continued ==
  ASSUME authored \in Authored, Started, outcome = "running", stack # <<>>, Top.op \notin Fillers,
         UNCHANGED <<authored, grammar, request, outcome, result, message>>,
         NEW ws, stack' = ws \o Tail(stack),
         Len(buffers') \in Nat, Len(frames') \in Nat, Len(nodes') \in Nat,
         Len(buffers) <= Len(buffers'), Len(frames) <= Len(frames'), Len(nodes) <= Len(nodes'),
         SameFilled(frames, frames', stack), StillStarts(buffers, buffers', stack),
         1 \in MessageEffects(grammar) /\ buffers[Root] = <<>> => buffers'[Root] = <<>>,
         FramesFit(Len(nodes'), frames'), NodesFit(request.limits.depth, nodes'),
         SinksFit(request.limits, buffers', sinkScalars', scalars'),
         BudgetFits(request.limits, frames', choices', expansions', words'),
         NewWork(grammar, MessageEffects(grammar), Len(buffers'), Len(frames'), Len(nodes'),
                 request.limits.depth, frames', buffers', stack, ws)
  PROVE  Started'
<1>1. /\ IsList(stack) /\ 1 \in DOMAIN stack /\ Top = stack[1]
      /\ Len(buffers) \in Nat /\ Len(frames) \in Nat /\ Len(nodes) \in Nat
  BY AtTop
<1>2. /\ IsList(ws)
      /\ \A k \in DOMAIN ws : WorkFits(grammar, Len(buffers'), Len(frames'), Len(nodes'), request.limits.depth, ws[k])
  BY DEF NewWork
<1>3. /\ FitsOf(grammar, Len(buffers), Len(frames), Len(nodes), request.limits.depth, stack)
      /\ SlotsOf(grammar, frames, stack) /\ SpansOf(buffers, stack)
      /\ MessagesOf(MessageEffects(grammar), buffers[Root], message, stack)
  BY DEF Started
<1>4. FitsOf(grammar, Len(buffers'), Len(frames'), Len(nodes'), request.limits.depth, stack')
  <2> DEFINE b == Len(buffers)  f == Len(frames)  n == Len(nodes)
             b2 == Len(buffers')  f2 == Len(frames')  n2 == Len(nodes')  d == request.limits.depth
  <2>1. /\ b \in Nat /\ f \in Nat /\ n \in Nat /\ b2 \in Nat /\ f2 \in Nat /\ n2 \in Nat
        /\ b <= b2 /\ f <= f2 /\ n <= n2
        /\ FitsOf(grammar, b, f, n, d, stack)
        /\ \A k \in DOMAIN ws : WorkFits(grammar, b2, f2, n2, d, ws[k])
    BY <1>1, <1>2, <1>3
  <2> HIDE DEF b, f, n, b2, f2, n2, d
  <2>2. FitsOf(grammar, b2, f2, n2, d, ws \o Tail(stack))
    BY <1>2, <2>1, FitsKept
  <2>3. QED
    BY <2>2 DEF b2, f2, n2, d
<1>5. SlotsOf(grammar, frames', stack')
  <2>1. SlotsOf(grammar, frames', ws) /\ AllApart(ws, stack)
    BY DEF NewWork
  <2>2. stack[1].op \notin Fillers
    BY <1>1
  <2>3. SlotsOf(grammar, frames', ws \o Tail(stack))
    BY <1>1, <1>2, <1>3, <2>1, <2>2, SlotsKept
  <2>4. QED
    BY <2>3
<1>6. SpansOf(buffers', stack')
  <2>1. SpansOf(buffers', ws) /\ AllTemporary(ws, stack)
    BY DEF NewWork
  <2>2. SpansOf(buffers', ws \o Tail(stack))
    BY <1>1, <1>2, <1>3, <2>1, SpansKept
  <2>3. QED
    BY <2>2
<1>7. MessagesOf(MessageEffects(grammar), buffers'[Root], message', stack')
  <2> DEFINE effects == MessageEffects(grammar)
  <2>1. AllAtRoot(effects, ws) /\ OnePending(effects, ws) /\ (Waits(effects, ws) <=> Pending(effects, stack[1]))
    BY DEF NewWork
  <2>2. MessagesOf(effects, buffers[Root], message, stack) /\ (1 \in effects /\ buffers[Root] = <<>> => buffers'[Root] = <<>>)
    BY <1>3
  <2> HIDE DEF effects
  <2>3. MessagesOf(effects, buffers'[Root], message, ws \o Tail(stack))
    BY <1>1, <1>2, <2>1, <2>2, MessagesKept
  <2>4. QED
    BY <2>3 DEF effects
<1>8. UNCHANGED <<authored, grammar, request, outcome, result>>
  OBVIOUS
<1>9. QED
  BY <1>4, <1>5, <1>6, <1>7, <1>8, Proceeded

(* Frames and sinks left alone.                                             *)
LEMMA Kept ==
  ASSUME NEW fs, NEW bs, NEW s
  PROVE  SameFilled(fs, fs, s) /\ StillStarts(bs, bs, s)
BY DEF SameFilled, StillStarts

(* Nothing instead of the head. *)
LEMMA NoWork ==
  ASSUME NEW rules, NEW effects, NEW b, NEW f, NEW n, NEW d, NEW fs, NEW bs, NEW s,
         ~ Pending(effects, s[1])
  PROVE  NewWork(rules, effects, b, f, n, d, fs, bs, s, <<>>)
<1>1. IsList(<<>>)
  BY Tops
<1>2. DOMAIN <<>> = {}
  OBVIOUS
<1>3. QED
  BY <1>1, <1>2 DEF NewWork, SlotsOf, SpansOf, AllApart, AllTemporary, AllAtRoot, OnePending, Waits

(* The owner of a frame, waiting for its next slot. *)
OwnerReady(rules, effects, s, a) ==
  /\ a.op \in Owners /\ NextFits(rules, a)
  /\ \A k \in 2 .. Len(s) : Apart(a, s[k])
  /\ AtRoot(effects, a)

(* The owner instead of the head.                                           *)
LEMMA OneWork ==
  ASSUME NEW rules, NEW effects, NEW b, NEW f, NEW n, NEW d, NEW fs, NEW bs, NEW s, NEW a,
         WorkFits(rules, b, f, n, d, a), OwnerReady(rules, effects, s, a),
         Expected(rules, a) = Len(fs[a.frame].values),
         Pending(effects, a) <=> Pending(effects, s[1])
  PROVE  NewWork(rules, effects, b, f, n, d, fs, bs, s, <<a>>)
<1>1. PICK ws : ws = <<a>>
  OBVIOUS
<1>2. IsList(ws) /\ DOMAIN ws = {1} /\ Len(ws) = 1 /\ ws[1] = a
  <2>1. IsList(ws) /\ Len(ws) = 1 /\ ws[1] = a
    BY <1>1, Tops
  <2>2. DOMAIN ws = {1}
    BY <1>1
  <2>3. QED
    BY <2>1, <2>2
<1>3. a.op \in Owners
  BY DEF OwnerReady
<1>4. a.op \notin Fillers /\ a.op # "Expand" /\ a.op \notin {"FinishProduction", "FinishCapture", "FinishBinding"}
  BY <1>3 DEF Owners, Fillers
<1>5. SlotsOf(rules, fs, ws)
  <2>1. ~ Filling(ws, 1)
    BY DEF Filling
  <2>2. OwnerFits(rules, fs, ws, 1)
    BY <1>2, <2>1 DEF OwnerFits, OwnerFilled, OwnerReady
  <2>3. FillerFits(ws, 1) /\ ArityFits(rules, ws[1])
    BY <1>2, <1>4 DEF FillerFits, ArityFits
  <2>4. QED
    BY <1>2, <2>2, <2>3 DEF SlotsOf
<1>6. AllApart(ws, s)
  BY <1>2 DEF AllApart, OwnerReady
<1>7. SpansOf(bs, ws) /\ AllTemporary(ws, s)
  BY <1>2, <1>4 DEF SpansOf, Starts, Temporary, AllTemporary
<1>8. AllAtRoot(effects, ws) /\ OnePending(effects, ws) /\ (Waits(effects, ws) <=> Pending(effects, s[1]))
  BY <1>2 DEF AllAtRoot, OnePending, Waits, OwnerReady
<1>9. QED
  BY <1>1, <1>2, <1>5, <1>6, <1>7, <1>8 DEF NewWork

(* A rule to expand, then the owner that called it. *)
LEMMA CallWork ==
  ASSUME NEW rules, NEW effects, NEW b, NEW f, NEW n, NEW d, NEW fs, NEW bs, NEW s, NEW x, NEW a,
         WorkFits(rules, b, f, n, d, a), OwnerReady(rules, effects, s, a),
         Expected(rules, a) = Len(fs[a.frame].values),
         WorkFits(rules, b, f, n, d, x), x.op = "Expand", ArityFits(rules, x), AtRoot(effects, x),
         ~ Pending(effects, a), Pending(effects, x) <=> Pending(effects, s[1])
  PROVE  NewWork(rules, effects, b, f, n, d, fs, bs, s, <<x, a>>)
<1>1. PICK ws : ws = <<x, a>>
  OBVIOUS
<1>2. IsList(ws) /\ DOMAIN ws = {1, 2} /\ Len(ws) = 2 /\ ws[1] = x /\ ws[2] = a
  <2>1. IsList(ws) /\ Len(ws) = 2 /\ ws[1] = x /\ ws[2] = a
    BY <1>1, Tops
  <2>2. DOMAIN ws = {1, 2}
    BY <1>1
  <2>3. QED
    BY <2>1, <2>2
<1>3. a.op \in Owners
  BY DEF OwnerReady
<1>4. /\ a.op \notin Fillers /\ a.op # "Expand" /\ a.op \notin {"FinishProduction", "FinishCapture", "FinishBinding"}
      /\ x.op \notin Fillers /\ x.op \notin Owners /\ x.op \notin {"FinishProduction", "FinishCapture", "FinishBinding"}
  BY <1>3 DEF Owners, Fillers
<1>5. SlotsOf(rules, fs, ws)
  <2>1. ~ Filling(ws, 2)
    BY <1>2, <1>4 DEF Filling
  <2>2. OwnerFits(rules, fs, ws, 1) /\ OwnerFits(rules, fs, ws, 2)
    BY <1>2, <1>4, <2>1 DEF OwnerFits, OwnerFilled, OwnerReady
  <2>3. /\ FillerFits(ws, 1) /\ ArityFits(rules, ws[1])
        /\ FillerFits(ws, 2) /\ ArityFits(rules, ws[2])
    BY <1>2, <1>4 DEF FillerFits, ArityFits
  <2>4. \A j, k \in DOMAIN ws : j < k => Apart(ws[j], ws[k])
    BY <1>2, <1>4 DEF Apart
  <2>5. QED
    BY <1>2, <2>2, <2>3, <2>4 DEF SlotsOf
<1>6. AllApart(ws, s)
  BY <1>2, <1>4 DEF AllApart, Apart, OwnerReady
<1>7. SpansOf(bs, ws) /\ AllTemporary(ws, s)
  BY <1>2, <1>4 DEF SpansOf, Starts, Temporary, AllTemporary
<1>8. AllAtRoot(effects, ws) /\ OnePending(effects, ws) /\ (Waits(effects, ws) <=> Pending(effects, s[1]))
  BY <1>2 DEF AllAtRoot, OnePending, Waits, OwnerReady
<1>9. QED
  BY <1>1, <1>2, <1>5, <1>6, <1>7, <1>8 DEF NewWork

(* The owner of a new frame, and the end of its production. *)
LEMMA ExpandedWork ==
  ASSUME NEW rules, NEW effects, NEW b, NEW f, NEW n, NEW d, NEW fs, NEW bs, NEW s, NEW a, NEW z,
         WorkFits(rules, b, f, n, d, a), OwnerReady(rules, effects, s, a),
         Expected(rules, a) = Len(fs[a.frame].values),
         WorkFits(rules, b, f, n, d, z), z.op = "FinishProduction", Starts(bs, z),
         Pending(effects, a) <=> Pending(effects, s[1])
  PROVE  NewWork(rules, effects, b, f, n, d, fs, bs, s, <<a, z>>)
<1>1. PICK ws : ws = <<a, z>>
  OBVIOUS
<1>2. IsList(ws) /\ DOMAIN ws = {1, 2} /\ Len(ws) = 2 /\ ws[1] = a /\ ws[2] = z
  <2>1. IsList(ws) /\ Len(ws) = 2 /\ ws[1] = a /\ ws[2] = z
    BY <1>1, Tops
  <2>2. DOMAIN ws = {1, 2}
    BY <1>1
  <2>3. QED
    BY <2>1, <2>2
<1>3. a.op \in Owners
  BY DEF OwnerReady
<1>4. /\ a.op \notin Fillers /\ a.op # "Expand" /\ a.op \notin {"FinishProduction", "FinishCapture", "FinishBinding"}
      /\ z.op \notin Fillers /\ z.op \notin Owners /\ z.op # "Expand" /\ z.op # "FinishBinding"
  BY <1>3 DEF Owners, Fillers
<1>5. SlotsOf(rules, fs, ws)
  <2>1. ~ Filling(ws, 1)
    BY DEF Filling
  <2>2. OwnerFits(rules, fs, ws, 1) /\ OwnerFits(rules, fs, ws, 2)
    BY <1>2, <1>4, <2>1 DEF OwnerFits, OwnerFilled, OwnerReady
  <2>3. /\ FillerFits(ws, 1) /\ ArityFits(rules, ws[1])
        /\ FillerFits(ws, 2) /\ ArityFits(rules, ws[2])
    BY <1>2, <1>4 DEF FillerFits, ArityFits
  <2>4. \A j, k \in DOMAIN ws : j < k => Apart(ws[j], ws[k])
    BY <1>2, <1>4 DEF Apart
  <2>5. QED
    BY <1>2, <2>2, <2>3, <2>4 DEF SlotsOf
<1>6. AllApart(ws, s)
  BY <1>2, <1>4 DEF AllApart, Apart, OwnerReady
<1>7. SpansOf(bs, ws) /\ AllTemporary(ws, s)
  <2>1. Starts(bs, a)
    BY <1>4 DEF Starts
  <2>2. \A w : Temporary(a, w) /\ Temporary(z, w)
    BY <1>4 DEF Temporary
  <2>3. QED
    BY <1>2, <2>1, <2>2 DEF SpansOf, AllTemporary
<1>8. AllAtRoot(effects, ws) /\ OnePending(effects, ws) /\ (Waits(effects, ws) <=> Pending(effects, s[1]))
  <2>1. ~ Pending(effects, z) /\ AtRoot(effects, z)
    BY <1>4 DEF Pending, AtRoot
  <2>2. QED
    BY <1>2, <2>1 DEF AllAtRoot, OnePending, Waits, OwnerReady
<1>9. QED
  BY <1>1, <1>2, <1>5, <1>6, <1>7, <1>8 DEF NewWork

(* A rule to expand, what fills the slot with its text, and the owner. *)
LEMMA FillingWork ==
  ASSUME NEW rules, NEW effects, NEW b, NEW f, NEW n, NEW d, NEW fs, NEW bs, NEW s, NEW x, NEW y, NEW a,
         WorkFits(rules, b, f, n, d, a), OwnerReady(rules, effects, s, a),
         WorkFits(rules, b, f, n, d, x), x.op = "Expand", ArityFits(rules, x), AtRoot(effects, x),
         WorkFits(rules, b, f, n, d, y), y.op \in Fillers, y.frame = a.frame,
         y.slot = Len(fs[a.frame].values) + 1, Expected(rules, a) = Len(fs[a.frame].values) + 1,
         Starts(bs, y), Temporary(y, a), \A k \in 2 .. Len(s) : Temporary(y, s[k]),
         ~ Pending(effects, x), Pending(effects, a) <=> Pending(effects, s[1])
  PROVE  NewWork(rules, effects, b, f, n, d, fs, bs, s, <<x, y, a>>)
<1>1. PICK ws : ws = <<x, y, a>>
  OBVIOUS
<1>2. IsList(ws) /\ DOMAIN ws = {1, 2, 3} /\ Len(ws) = 3 /\ ws[1] = x /\ ws[2] = y /\ ws[3] = a
  <2>1. IsList(ws) /\ Len(ws) = 3 /\ ws[1] = x /\ ws[2] = y /\ ws[3] = a
    BY <1>1, Tops
  <2>2. DOMAIN ws = {1, 2, 3}
    BY <1>1
  <2>3. QED
    BY <2>1, <2>2
<1>3. a.op \in Owners
  BY DEF OwnerReady
<1>4. /\ a.op \notin Fillers /\ a.op # "Expand" /\ a.op \notin {"FinishProduction", "FinishCapture", "FinishBinding"}
      /\ x.op \notin Fillers /\ x.op \notin Owners /\ x.op \notin {"FinishProduction", "FinishCapture", "FinishBinding"}
      /\ y.op \notin Owners /\ y.op # "Expand" /\ y.op # "FinishProduction"
  BY <1>3 DEF Owners, Fillers
<1>5. SlotsOf(rules, fs, ws)
  <2>1. Filling(ws, 3) /\ ws[3 - 1] = y
    BY <1>2 DEF Filling
  <2>2. OwnerFits(rules, fs, ws, 1) /\ OwnerFits(rules, fs, ws, 2)
    BY <1>2, <1>4 DEF OwnerFits
  <2>3. OwnerFits(rules, fs, ws, 3)
    <3>1. OwnerFilled(rules, fs, ws, 3)
      BY <1>2, <2>1 DEF OwnerFilled
    <3>2. QED
      BY <1>2, <3>1 DEF OwnerFits, OwnerReady
  <2>4. /\ FillerFits(ws, 1) /\ ArityFits(rules, ws[1])
        /\ FillerFits(ws, 2) /\ ArityFits(rules, ws[2])
        /\ FillerFits(ws, 3) /\ ArityFits(rules, ws[3])
    BY <1>2, <1>3, <1>4 DEF FillerFits, ArityFits
  <2>5. \A j, k \in DOMAIN ws : j < k => Apart(ws[j], ws[k])
    BY <1>2, <1>4 DEF Apart
  <2>6. QED
    BY <1>2, <2>2, <2>3, <2>4, <2>5 DEF SlotsOf
<1>6. AllApart(ws, s)
  BY <1>2, <1>4 DEF AllApart, Apart, OwnerReady
<1>7. SpansOf(bs, ws) /\ AllTemporary(ws, s)
  <2>1. Starts(bs, a) /\ Starts(bs, x)
    BY <1>4 DEF Starts
  <2>2. \A w : Temporary(a, w) /\ Temporary(x, w)
    BY <1>4 DEF Temporary
  <2>3. \A k \in DOMAIN ws : Starts(bs, ws[k])
    BY <1>2, <2>1
  <2>4. ASSUME NEW j \in DOMAIN ws, NEW k \in DOMAIN ws, j < k PROVE Temporary(ws[j], ws[k])
    <3>1. CASE j = 2
      <4>1. k = 3
        BY <1>2, <2>4, <3>1
      <4>2. QED
        BY <1>2, <3>1, <4>1
    <3>2. CASE j # 2
      BY <1>2, <2>2, <3>2
    <3>3. QED
      BY <3>1, <3>2
  <2>5. AllTemporary(ws, s)
    BY <1>2, <2>2 DEF AllTemporary
  <2>6. QED
    BY <2>3, <2>4, <2>5 DEF SpansOf
<1>8. AllAtRoot(effects, ws) /\ OnePending(effects, ws) /\ (Waits(effects, ws) <=> Pending(effects, s[1]))
  <2>1. ~ Pending(effects, y) /\ AtRoot(effects, y)
    BY <1>4 DEF Pending, AtRoot
  <2>2. QED
    BY <1>2, <2>1 DEF AllAtRoot, OnePending, Waits, OwnerReady
<1>9. \A k \in DOMAIN ws : WorkFits(rules, b, f, n, d, ws[k])
  BY <1>2
<1>10. QED
  BY <1>1, <1>2, <1>5, <1>6, <1>7, <1>8, <1>9 DEF NewWork

-----------------------------------------------------------------------------
(* Expanding a rule. *)

(* Expand past the depth, the expansions or the words, or without an        *)
(* eligible production, is an error.                                        *)
LEMMA RefuseKeeps ==
  ASSUME authored \in Authored, Started, RefuseExpansion
  PROVE  Started'
<1>1. /\ outcome = "running" /\ stack # <<>> /\ Top.op = "Expand"
      /\ ExpansionError # "none" /\ Fail(ExpansionError)
  BY DEF RefuseExpansion, Running, Top
<1>2. 1 \in DOMAIN stack /\ Top = stack[1]
  BY <1>1, AtTop
<1>3. ArityFits(grammar, Top)
  BY <1>2 DEF Started, SlotsOf
<1>4. Len(Top.arguments) = grammar[Top.rule].parameters
  BY <1>1, <1>3 DEF ArityFits
<1>5. ExpansionError \in {"limit-depth", "limit-expansions", "no-eligible-production"}
  BY <1>1, <1>4 DEF ExpansionError
<1>6. ExpansionError \in Errors /\ ExpansionError # "locale"
  BY <1>5 DEF Errors
<1>7. QED
  BY <1>1, <1>6, Failed

(* So is a sampler out of budget.                                           *)
LEMMA ExhaustKeeps ==
  ASSUME authored \in Authored, Started, ExhaustSampler
  PROVE  Started'
<1>1. Fail("sampler-budget")
  BY DEF ExhaustSampler
<1>2. "sampler-budget" \in Errors
  BY DEF Errors
<1>3. QED
  BY <1>1, <1>2, Failed

(* A node as push_node makes it.                                            *)
LEMMA NodeIs ==
  ASSUME NEW parent \in Nat, NEW kind \in Kinds, NEW work, work.rule \in Nat, work.depth \in Nat
  PROVE  Node(parent, kind, work) \in Nodes /\ Node(parent, kind, work).parent = parent
         /\ Node(parent, kind, work).depth = work.depth
BY DEF Node, Nodes

(* The items below the top are well-formed.                                 *)
LEMMA BelowFits ==
  ASSUME authored \in Authored, Started, stack # <<>>, NEW k \in 2 .. Len(stack)
  PROVE  k \in DOMAIN stack
         /\ WorkFits(grammar, Len(buffers), Len(frames), Len(nodes), request.limits.depth, stack[k])
         /\ stack[k].sink \in 1 .. Len(buffers)
         /\ (stack[k].op \in Owners => stack[k].frame \in 1 .. Len(frames))
<1>1. IsList(stack)
  BY AtTop
<1>2. k \in DOMAIN stack
  BY <1>1, ListIs
<1>3. WorkFits(grammar, Len(buffers), Len(frames), Len(nodes), request.limits.depth, stack[k])
  BY <1>2 DEF Started, FitsOf
<1>4. QED
  BY <1>2, <1>3 DEF WorkFits

(* Rules and productions are numbered.                                      *)
LEMMA RuleNumbers ==
  ASSUME NEW rules, Sound(rules), NEW r \in DOMAIN rules
  PROVE  r \in Nat /\ rules[r].parameters \in Nat /\ DOMAIN rules[r].productions \subseteq Nat
<1>1. IsList(rules) /\ IsList(rules[r].productions) /\ rules[r].parameters \in Nat
  BY DEF Sound, LoweredRules
<1>2. QED
  BY <1>1, ListIs

(* Expand: a production is selected, with a frame of its own and a node.    *)
LEMMA ExpandKeeps ==
  ASSUME authored \in Authored, Started, Expand
  PROVE  Started'
<1>1. /\ outcome = "running" /\ stack # <<>> /\ Top.op = "Expand" /\ ExpansionError = "none"
  BY DEF Expand, Running, Top
<1>2. PICK production \in Eligible(Top.rule, NewFrame), drawn \in 1 .. request.limits.words - words :
        Chosen(production, drawn)
  BY DEF Expand
<1>3. /\ IsList(stack) /\ 1 \in DOMAIN stack /\ Top = stack[1] /\ Sound(grammar)
      /\ WorkFits(grammar, Len(buffers), Len(frames), Len(nodes), request.limits.depth, Top)
      /\ Len(buffers) \in Nat /\ Len(frames) \in Nat /\ Len(nodes) \in Nat
      /\ Top.sink \in DOMAIN buffers /\ sinkScalars[Top.sink] = Len(buffers[Top.sink]) /\ sinkScalars[Top.sink] \in Nat
  BY <1>1, AtTop
<1>4. /\ Top.rule \in DOMAIN grammar
      /\ Top.arguments \in Seq(Text) /\ Top.origins \in Seq(OriginsTo(Len(nodes)))
      /\ Len(Top.arguments) = Len(Top.origins)
      /\ Top.depth \in Nat /\ Top.parent \in 0 .. Len(nodes) /\ Top.sink \in 1 .. Len(buffers)
  BY <1>1, <1>3 DEF WorkFits
<1>5. /\ Top.depth <= request.limits.depth /\ expansions + 1 <= request.limits.expansions
      /\ Len(Top.arguments) = grammar[Top.rule].parameters
  <2>1. request.limits.depth \in Nat /\ request.limits.expansions \in Nat /\ expansions \in Nat
    BY DEF Started, RequestFits, Limits, BudgetFits
  <2>2. ~ (Top.depth > request.limits.depth) /\ ~ (expansions + 1 > request.limits.expansions)
        /\ ~ (Len(Top.arguments) # grammar[Top.rule].parameters)
    BY <1>1 DEF ExpansionError
  <2>3. QED
    BY <1>4, <2>1, <2>2
<1>6. production \in DOMAIN grammar[Top.rule].productions
  BY <1>2 DEF Eligible
<1>7. Top.rule \in Nat /\ production \in Nat /\ grammar[Top.rule].parameters \in Nat
  BY <1>3, <1>4, <1>6, RuleNumbers
<1> DEFINE node == Len(nodes) + 1
           a == [op |-> "PrepareBinding", rule |-> Top.rule, production |-> production, next |-> 1,
                 frame |-> Len(frames) + 1, sink |-> Top.sink, depth |-> Top.depth, node |-> node]
           z == [op |-> "FinishProduction", sink |-> Top.sink, start |-> sinkScalars[Top.sink],
                 node |-> node]
<1>8. /\ expansions' = expansions + 1 /\ words' = words + drawn
      /\ frames' = Append(frames, NewFrame) /\ choices' = Append(choices, production)
      /\ nodes' = Append(nodes, Node(Top.parent, "production", Top))
      /\ stack' = <<a, z>> \o Tail(stack)
      /\ UNCHANGED <<authored, grammar, request, outcome, buffers, sinkScalars, scalars, message, bound, result>>
  BY <1>2 DEF Chosen, Then, Rest
<1>9. NodesFit(request.limits.depth, nodes') /\ Len(nodes') = Len(nodes) + 1
  <2>1. NodesFit(request.limits.depth, nodes) /\ Top.parent \in Nat /\ "production" \in Kinds
    BY <1>3, <1>4 DEF Started, Kinds
  <2>2. /\ Node(Top.parent, "production", Top) \in Nodes
        /\ Node(Top.parent, "production", Top).parent = Top.parent
        /\ Node(Top.parent, "production", Top).depth = Top.depth
    BY <1>4, <1>7, <2>1, NodeIs
  <2>3. QED
    BY <1>4, <1>5, <1>8, <2>1, <2>2, NodesAppended
<1>10. /\ FramesFit(Len(nodes'), frames') /\ Len(frames') = Len(frames) + 1
       /\ \A k \in 1 .. Len(frames) : frames'[k] = frames[k]
       /\ frames'[Len(frames) + 1] = NewFrame
  <2>1. FramesFit(Len(nodes), frames)
    BY DEF Started
  <2>2. NewFrame \in FramesTo(Len(nodes)) /\ Len(NewFrame.values) = Len(NewFrame.origins)
    BY <1>4 DEF NewFrame, FramesTo
  <2>3. /\ FramesFit(Len(nodes), Append(frames, NewFrame))
        /\ Len(Append(frames, NewFrame)) = Len(frames) + 1
        /\ \A k \in 1 .. Len(frames) : Append(frames, NewFrame)[k] = frames[k]
        /\ Append(frames, NewFrame)[Len(frames) + 1] = NewFrame
    BY <2>1, <2>2, FramesAppended
  <2>4. Len(nodes) \in Nat /\ Len(nodes') \in Nat /\ Len(nodes) <= Len(nodes')
    BY <1>3, <1>9
  <2>5. FramesFit(Len(nodes'), Append(frames, NewFrame))
    BY <2>3, <2>4, FramesMore
  <2>6. QED
    BY <1>8, <2>3, <2>5
<1>11. BudgetFits(request.limits, frames', choices', expansions', words')
  <2>1. /\ expansions \in Nat /\ words \in Nat /\ choices \in Seq(Nat)
        /\ Len(frames) = expansions /\ Len(choices) = expansions /\ expansions <= words
        /\ words <= request.limits.words /\ request.limits.words \in Nat
    BY DEF Started, BudgetFits, RequestFits, Limits
  <2>2. words + drawn \in Nat /\ words + drawn <= request.limits.words /\ expansions + 1 <= words + drawn
    BY <1>2, <2>1
  <2>3. choices' \in Seq(Nat) /\ Len(choices') = Len(choices) + 1
    BY <1>7, <1>8, <2>1
  <2>4. QED
    BY <1>5, <1>8, <1>10, <2>1, <2>2, <2>3 DEF BudgetFits
<1>12. SameFilled(frames, frames', stack)
  <2>1. \A k \in 2 .. Len(stack) : stack[k].op \in Owners => stack[k].frame \in 1 .. Len(frames)
    BY <1>1, BelowFits
  <2>2. QED
    BY <1>10, <2>1 DEF SameFilled
<1>13. NewWork(grammar, MessageEffects(grammar), Len(buffers'), Len(frames'), Len(nodes'),
               request.limits.depth, frames', buffers', stack, <<a, z>>)
  <2>1. WorkFits(grammar, Len(buffers'), Len(frames'), Len(nodes'), request.limits.depth, a)
    <3>1. a.op \in Owners /\ a.op \notin Fillers /\ a.op \notin {"Expand", "FinishProduction", "FinishCapture"}
      BY DEF Owners, Fillers
    <3>2. /\ Len(frames) + 1 \in 1 .. Len(frames') /\ Len(nodes) + 1 \in 1 .. Len(nodes')
          /\ Top.sink \in 1 .. Len(buffers') /\ Top.depth \in 0 .. request.limits.depth
      <4>1. request.limits.depth \in Nat
        BY DEF Started, RequestFits, Limits
      <4>2. QED
        BY <1>3, <1>4, <1>5, <1>8, <1>9, <1>10, <4>1
    <3>3. a \in [op : Owners, rule : DOMAIN grammar, production : Nat, next : Nat \ {0},
                 frame : 1 .. Len(frames'), sink : 1 .. Len(buffers'),
                 depth : 0 .. request.limits.depth, node : 1 .. Len(nodes')]
      BY <1>4, <1>7, <3>1, <3>2
    <3>4. a.production \in DOMAIN grammar[a.rule].productions
      BY <1>6
    <3>5. a.sink \in 1 .. Len(buffers') /\ a.node \in 1 .. Len(nodes')
      BY <3>2
    <3> HIDE DEF a
    <3>6. QED
      BY <3>1, <3>3, <3>4, <3>5 DEF WorkFits
  <2>2. WorkFits(grammar, Len(buffers'), Len(frames'), Len(nodes'), request.limits.depth, z)
    <3>1. Top.sink \in 1 .. Len(buffers') /\ Len(nodes) + 1 \in 1 .. Len(nodes')
      BY <1>3, <1>4, <1>8, <1>9
    <3>2. z.op = "FinishProduction" /\ z.sink \in 1 .. Len(buffers') /\ z.node \in 1 .. Len(nodes') /\ z.start \in Nat
      BY <1>3, <3>1
    <3> HIDE DEF z
    <3>3. z.op \notin Owners /\ z.op \notin Fillers /\ z.op # "Expand"
      BY <3>2 DEF Owners, Fillers
    <3>4. QED
      BY <3>2, <3>3 DEF WorkFits
  <2>3. OwnerReady(grammar, MessageEffects(grammar), stack, a)
    <3>1. a.op \in Owners
      BY DEF Owners
    <3>2. NextFits(grammar, a)
      <4>1. IsList(grammar[Top.rule].productions[production].bindings)
        BY <1>3, <1>4, <1>6, ProductionIs
      <4>2. PICK n \in Nat : n = Len(grammar[Top.rule].productions[production].bindings)
        BY <4>1, ListIs
      <4>3. 1 \in 1 .. Len(grammar[Top.rule].productions[production].bindings) + 1
        <5>1. 1 \in 1 .. n + 1
          OBVIOUS
        <5>2. QED
          BY <4>2, <5>1
      <4>4. QED
        BY <4>3 DEF NextFits
    <3>3. \A k \in 2 .. Len(stack) : Apart(a, stack[k])
      <4>1. ASSUME NEW k \in 2 .. Len(stack), stack[k].op \in Owners PROVE stack[k].frame # Len(frames) + 1
        <5>1. stack[k].frame \in 1 .. Len(frames)
          BY <1>1, <4>1, BelowFits
        <5>2. QED
          BY <1>3, <5>1
      <4>2. a.frame = Len(frames) + 1
        OBVIOUS
      <4> HIDE DEF a
      <4>3. QED
        BY <4>1, <4>2 DEF Apart
    <3>4. AtRoot(MessageEffects(grammar), a)
      <4>1. AtRoot(MessageEffects(grammar), Top)
        BY <1>3 DEF Started, MessagesOf
      <4>2. QED
        BY <1>1, <4>1 DEF AtRoot
    <3>5. QED
      BY <3>1, <3>2, <3>3, <3>4 DEF OwnerReady
  <2>4. Expected(grammar, a) = Len(frames'[a.frame].values)
    <3>1. Expected(grammar, a) = grammar[Top.rule].parameters + 1 - 1
      BY DEF Expected
    <3>2. frames'[a.frame].values = Top.arguments
      BY <1>10 DEF NewFrame
    <3>3. QED
      BY <1>5, <1>7, <3>1, <3>2
  <2>5. Starts(buffers', z) /\ z.op = "FinishProduction"
    BY <1>3, <1>8 DEF Starts
  <2>6. Pending(MessageEffects(grammar), a) <=> Pending(MessageEffects(grammar), stack[1])
    BY <1>1, <1>3 DEF Pending, Owners
  <2> HIDE DEF a, z
  <2>7. QED
    BY <2>1, <2>2, <2>3, <2>4, <2>5, <2>6, ExpandedWork
<1>14. /\ Top.op \notin Fillers
       /\ Len(buffers') \in Nat /\ Len(frames') \in Nat /\ Len(nodes') \in Nat
       /\ Len(buffers) <= Len(buffers') /\ Len(frames) <= Len(frames') /\ Len(nodes) <= Len(nodes')
       /\ StillStarts(buffers, buffers', stack)
       /\ 1 \in MessageEffects(grammar) /\ buffers[Root] = <<>> => buffers'[Root] = <<>>
       /\ SinksFit(request.limits, buffers', sinkScalars', scalars')
  <2>1. Top.op \notin Fillers
    BY <1>1 DEF Fillers
  <2>2. StillStarts(buffers, buffers', stack)
    BY <1>8, Kept
  <2>3. SinksFit(request.limits, buffers', sinkScalars', scalars')
    BY <1>8 DEF Started
  <2>4. QED
    BY <1>3, <1>8, <1>9, <1>10, <2>1, <2>2, <2>3
<1>15. UNCHANGED <<authored, grammar, request, outcome, result, message>>
  BY <1>8
<1> HIDE DEF a, z
<1>16. QED
  BY <1>1, <1>8, <1>9, <1>10, <1>11, <1>12, <1>13, <1>14, <1>15, Continued

-----------------------------------------------------------------------------
(* Productions and their bodies. *)

(* The range of a node in the output.                                       *)
LEMMA RangeInIs ==
  ASSUME NEW sink, NEW start \in Nat, NEW end \in Nat
  PROVE  RangeIn(sink, start, end) \in Seq(Nat)
BY DEF RangeIn

(* A step that takes the top away and leaves the frames and the sinks. *)
LEMMA TakenAway ==
  ASSUME authored \in Authored, Started, outcome = "running", stack # <<>>, Top.op \notin Fillers,
         ~ Pending(MessageEffects(grammar), Top),
         UNCHANGED <<authored, grammar, request, outcome, result, message, buffers, sinkScalars, frames,
                     scalars, expansions, words, choices>>,
         stack' = <<>> \o Tail(stack),
         NodesFit(request.limits.depth, nodes'), Len(nodes') = Len(nodes)
  PROVE  Started'
<1>1. Top = stack[1] /\ Len(buffers) \in Nat /\ Len(frames) \in Nat /\ Len(nodes) \in Nat
  BY AtTop
<1>2. NewWork(grammar, MessageEffects(grammar), Len(buffers'), Len(frames'), Len(nodes'),
              request.limits.depth, frames', buffers', stack, <<>>)
  BY <1>1, NoWork
<1>3. /\ SameFilled(frames, frames', stack) /\ StillStarts(buffers, buffers', stack)
      /\ FramesFit(Len(nodes'), frames')
      /\ SinksFit(request.limits, buffers', sinkScalars', scalars')
      /\ BudgetFits(request.limits, frames', choices', expansions', words')
  BY Kept DEF Started
<1>4. /\ Len(buffers') \in Nat /\ Len(frames') \in Nat /\ Len(nodes') \in Nat
      /\ Len(buffers) <= Len(buffers') /\ Len(frames) <= Len(frames') /\ Len(nodes) <= Len(nodes')
  BY <1>1
<1>5. 1 \in MessageEffects(grammar) /\ buffers[Root] = <<>> => buffers'[Root] = <<>>
  OBVIOUS
<1>6. QED
  BY <1>2, <1>3, <1>4, <1>5, Continued

(* FinishProduction closes its node.                                        *)
LEMMA FinishProductionKeeps ==
  ASSUME authored \in Authored, Started, FinishProduction
  PROVE  Started'
<1>1. /\ outcome = "running" /\ stack # <<>> /\ Top.op = "FinishProduction"
      /\ stack' = <<>> \o Tail(stack) /\ nodes' = Closed(Top)
      /\ UNCHANGED <<authored, grammar, request, outcome, result, message, buffers, sinkScalars, frames,
                     scalars, expansions, words, choices>>
  BY DEF FinishProduction, Running, Top, Then, Rest
<1>2. /\ WorkFits(grammar, Len(buffers), Len(frames), Len(nodes), request.limits.depth, Top)
      /\ sinkScalars[Top.sink] \in Nat /\ Len(nodes) \in Nat
  BY <1>1, AtTop
<1>3. Top.start \in Nat /\ Top.node \in 1 .. Len(nodes)
  BY <1>1, <1>2 DEF WorkFits
<1>4. RangeIn(Top.sink, Top.start, sinkScalars[Top.sink]) \in Seq(Nat)
  BY <1>2, <1>3, RangeInIs
<1>5. NodesFit(request.limits.depth, nodes) /\ Top.node \in DOMAIN nodes
  BY <1>3 DEF Started, NodesFit
<1>6. NodesFit(request.limits.depth, nodes') /\ Len(nodes') = Len(nodes)
  <2>1. PICK ns : ns = nodes'
    OBVIOUS
  <2>2. PICK range \in Seq(Nat) : range = RangeIn(Top.sink, Top.start, sinkScalars[Top.sink])
    BY <1>4
  <2>3. Closes(nodes, Top.node, range, ns)
    BY <1>1, <2>1, <2>2 DEF Closed, Closes
  <2>4. QED
    BY <1>5, <2>1, <2>3, NodesClosed
<1>7. Top.op \notin Fillers /\ ~ Pending(MessageEffects(grammar), Top)
  BY <1>1 DEF Fillers, Pending, Owners
<1>8. QED
  BY <1>1, <1>6, <1>7, TakenAway

(* A message production has one part, so its body ends after its message. *)
LEMMA EndBodyKeeps ==
  ASSUME authored \in Authored, Started, EndBody
  PROVE  Started'
<1>1. /\ outcome = "running" /\ stack # <<>> /\ Top.op = "Continue"
      /\ Top.next \notin DOMAIN Production(Top).parts
      /\ stack' = <<>> \o Tail(stack)
      /\ UNCHANGED <<authored, grammar, request, outcome, result, message, buffers, sinkScalars, frames,
                     scalars, expansions, words, choices, nodes>>
  BY DEF EndBody, Running, Top, Then, Rest
<1>2. NodesFit(request.limits.depth, nodes') /\ Len(nodes') = Len(nodes)
  BY <1>1 DEF Started
<1>3. Top.op \in Owners /\ Top.op \notin Fillers
  BY <1>1 DEF Owners, Fillers
<1>4. Top.rule \in DOMAIN grammar /\ Top.production \in DOMAIN grammar[Top.rule].productions /\ Sound(grammar)
  BY <1>1, <1>3, AtTop, TopOwner
<1>5. PICK p : p = grammar[Top.rule].productions[Top.production]
  OBVIOUS
<1>6. EffectsFit(MessageEffects(grammar), Top.rule, p) /\ IsList(p.parts)
  BY <1>4, <1>5, ProductionIs
<1>7. ASSUME Pending(MessageEffects(grammar), Top) PROVE FALSE
  <2>1. Top.rule \in MessageEffects(grammar) /\ Top.next = 1
    BY <1>1, <1>7 DEF Pending
  <2>2. Len(p.parts) = 1
    BY <1>6, <2>1 DEF EffectsFit
  <2>3. 1 \in DOMAIN p.parts
    <3>1. DOMAIN p.parts = 1 .. 1
      BY <1>6, <2>2, ListIs
    <3>2. QED
      BY <3>1
  <2>4. QED
    BY <1>1, <1>5, <2>1, <2>3 DEF Production
<1>8. QED
  BY <1>1, <1>2, <1>3, <1>7, TakenAway

Moved(w, op, next) == [w EXCEPT !.op = op, !.next = next]

(* The owner on top, at its next slot or part. *)
LEMMA OwnerMoves ==
  ASSUME authored \in Authored, Started, stack # <<>>, Top.op \in Owners,
         NEW op \in Owners, NEW next \in Nat \ {0}, NEW a, a = Moved(Top, op, next)
  PROVE  /\ WorkFits(grammar, Len(buffers), Len(frames), Len(nodes), request.limits.depth, a)
         /\ a.op = op /\ a.rule = Top.rule /\ a.production = Top.production /\ a.next = next
         /\ a.frame = Top.frame /\ a.sink = Top.sink /\ a.depth = Top.depth /\ a.node = Top.node
         /\ NextFits(grammar, a) => OwnerReady(grammar, MessageEffects(grammar), stack, a)
<1>1. /\ Top \in [op : Owners, rule : DOMAIN grammar, production : Nat, next : Nat \ {0},
                   frame : 1 .. Len(frames), sink : 1 .. Len(buffers),
                   depth : 0 .. request.limits.depth, node : 1 .. Len(nodes)]
      /\ Top.production \in DOMAIN grammar[Top.rule].productions
  BY TopOwner
<1> DEFINE F == 1 .. Len(frames)  B == 1 .. Len(buffers)  D == 0 .. request.limits.depth  N == 1 .. Len(nodes)
<1>2. Top \in [op : Owners, rule : DOMAIN grammar, production : Nat, next : Nat \ {0},
               frame : F, sink : B, depth : D, node : N]
  BY <1>1
<1>3. /\ a \in [op : Owners, rule : DOMAIN grammar, production : Nat, next : Nat \ {0},
                frame : F, sink : B, depth : D, node : N]
      /\ a.op = op /\ a.rule = Top.rule /\ a.production = Top.production /\ a.next = next
      /\ a.frame = Top.frame /\ a.sink = Top.sink /\ a.depth = Top.depth /\ a.node = Top.node
  <2> HIDE DEF F, B, D, N, Owners
  <2>1. PICK w : w = Top
    OBVIOUS
  <2>2. /\ w \in [op : Owners, rule : DOMAIN grammar, production : Nat, next : Nat \ {0},
                  frame : F, sink : B, depth : D, node : N]
        /\ a = [w EXCEPT !.op = op, !.next = next]
    BY <1>2, <2>1 DEF Moved
  <2>3. QED
    BY <2>1, <2>2
<1>4. WorkFits(grammar, Len(buffers), Len(frames), Len(nodes), request.limits.depth, a)
  <2>1. a.op \notin Fillers /\ a.op # "Expand" /\ a.op \notin {"FinishProduction", "FinishCapture"}
    BY <1>3 DEF Owners, Fillers
  <2>2. a.sink \in 1 .. Len(buffers) /\ a.node \in 1 .. Len(nodes)
    BY <1>3
  <2>3. QED
    BY <1>1, <1>3, <2>1, <2>2 DEF WorkFits
<1>5. 1 \in DOMAIN stack /\ Top = stack[1] /\ IsList(stack)
  BY AtTop
<1>6. \A k \in 2 .. Len(stack) : Apart(a, stack[k])
  <2>1. ASSUME NEW k \in 2 .. Len(stack) PROVE Apart(a, stack[k])
    <3>1. k \in DOMAIN stack /\ 1 < k
      BY <1>5, ListIs
    <3>2. Apart(Top, stack[k])
      BY <1>5, <3>1 DEF Started, SlotsOf
    <3>3. QED
      BY <1>3, <3>2 DEF Apart
  <2>2. QED
    BY <2>1
<1>7. AtRoot(MessageEffects(grammar), a)
  <2>1. AtRoot(MessageEffects(grammar), Top)
    BY <1>5 DEF Started, MessagesOf
  <2>2. QED
    BY <1>3, <2>1 DEF AtRoot
<1>8. QED
  BY <1>3, <1>4, <1>6, <1>7 DEF OwnerReady

(* No capture is before the first part.                                     *)
LEMMA CapturesFirst ==
  ASSUME NEW p
  PROVE  CapturesBefore(p, 1) = 0
<1>1. {k \in 1 .. 1 - 1 : p.parts[k].kind = "capture"} = {}
  OBVIOUS
<1>2. QED
  BY <1>1, FS_EmptySet DEF CapturesBefore

(* PrepareBinding, after the last binding: the body starts.                 *)
LEMMA StartBodyKeeps ==
  ASSUME authored \in Authored, Started, StartBody
  PROVE  Started'
<1> DEFINE a == [Top EXCEPT !.op = "Continue", !.next = 1]
<1>1. /\ outcome = "running" /\ stack # <<>> /\ Top.op = "PrepareBinding"
      /\ Top.next \notin DOMAIN Production(Top).bindings
      /\ stack' = <<a>> \o Tail(stack)
      /\ UNCHANGED <<authored, grammar, request, outcome, result, message, buffers, sinkScalars, frames,
                     scalars, expansions, words, choices, nodes>>
  BY DEF StartBody, Running, Top, Then, Rest
<1>2. Top.op \in Owners /\ Top.op \notin Fillers /\ "Continue" \in Owners
  BY <1>1 DEF Owners, Fillers
<1>3. /\ Top.rule \in DOMAIN grammar /\ Top.production \in DOMAIN grammar[Top.rule].productions /\ Sound(grammar)
      /\ NextFits(grammar, Top) /\ Expected(grammar, Top) = Len(frames[Top.frame].values)
      /\ Top = stack[1] /\ Len(buffers) \in Nat /\ Len(frames) \in Nat /\ Len(nodes) \in Nat
  BY <1>1, <1>2, AtTop, TopOwner
<1>4. PICK p : p = grammar[Top.rule].productions[Top.production]
  OBVIOUS
<1>5. IsList(p.bindings) /\ IsList(p.parts) /\ grammar[Top.rule].parameters \in Nat
  BY <1>3, <1>4, ProductionIs
<1>6. PICK m \in Nat : m = Len(p.bindings) /\ DOMAIN p.bindings = 1 .. m
  BY <1>5, ListIs
<1>7. PICK n \in Nat : n = Len(p.parts)
  BY <1>5, ListIs
<1>8. Top.next = m + 1
  <2>1. Top.next \in 1 .. m + 1
    BY <1>1, <1>3, <1>4, <1>6 DEF NextFits
  <2>2. Top.next \notin 1 .. m
    BY <1>1, <1>4, <1>6 DEF Production
  <2>3. QED
    BY <2>1, <2>2
<1>9. /\ WorkFits(grammar, Len(buffers), Len(frames), Len(nodes), request.limits.depth, a)
      /\ a.op = "Continue" /\ a.rule = Top.rule /\ a.production = Top.production /\ a.next = 1
      /\ a.frame = Top.frame
      /\ NextFits(grammar, a) => OwnerReady(grammar, MessageEffects(grammar), stack, a)
  <2> HIDE DEF a
  <2>1. a = Moved(Top, "Continue", 1)
    BY DEF a, Moved
  <2>3. 1 \in Nat \ {0}
    OBVIOUS
  <2>2. QED
    BY <1>1, <1>2, <2>1, <2>3, OwnerMoves
<1> HIDE DEF a
<1>10. NextFits(grammar, a)
  <2>1. 1 \in 1 .. n + 1
    OBVIOUS
  <2>2. QED
    BY <1>4, <1>7, <1>9, <2>1 DEF NextFits
<1>11. Expected(grammar, a) = Len(frames[a.frame].values)
  <2>1. Expected(grammar, Top) = grammar[Top.rule].parameters + (m + 1) - 1
    BY <1>1, <1>8 DEF Expected
  <2>2. Expected(grammar, a) = grammar[Top.rule].parameters + m + 0
    BY <1>4, <1>6, <1>9, CapturesFirst DEF Expected
  <2>3. QED
    BY <1>3, <1>5, <1>9, <2>1, <2>2
<1>12. Pending(MessageEffects(grammar), a) <=> Pending(MessageEffects(grammar), stack[1])
  BY <1>1, <1>3, <1>9 DEF Pending, Owners
<1>13. NewWork(grammar, MessageEffects(grammar), Len(buffers'), Len(frames'), Len(nodes'),
              request.limits.depth, frames', buffers', stack, <<a>>)
  <2>1. /\ WorkFits(grammar, Len(buffers'), Len(frames'), Len(nodes'), request.limits.depth, a)
        /\ Expected(grammar, a) = Len(frames'[a.frame].values)
    BY <1>1, <1>9, <1>11
  <2>2. QED
    BY <1>9, <1>10, <1>12, <2>1, OneWork
<1>14. /\ SameFilled(frames, frames', stack) /\ StillStarts(buffers, buffers', stack)
       /\ FramesFit(Len(nodes'), frames') /\ NodesFit(request.limits.depth, nodes')
       /\ SinksFit(request.limits, buffers', sinkScalars', scalars')
       /\ BudgetFits(request.limits, frames', choices', expansions', words')
  BY <1>1, Kept DEF Started
<1>15. /\ Len(buffers') \in Nat /\ Len(frames') \in Nat /\ Len(nodes') \in Nat
       /\ Len(buffers) <= Len(buffers') /\ Len(frames) <= Len(frames') /\ Len(nodes) <= Len(nodes')
  BY <1>1, <1>3
<1>16. /\ 1 \in MessageEffects(grammar) /\ buffers[Root] = <<>> => buffers'[Root] = <<>>
       /\ UNCHANGED <<authored, grammar, request, outcome, result, message>>
  BY <1>1
<1>17. QED
  BY <1>1, <1>2, <1>13, <1>14, <1>15, <1>16, Continued

(* A part of a body that is due. *)
LEMMA AtPartIs ==
  ASSUME authored \in Authored, Started, NEW kind, AtPart(kind)
  PROVE  /\ outcome = "running" /\ stack # <<>> /\ Top.op = "Continue" /\ Top.op \in Owners /\ Top.op \notin Fillers
         /\ Part.kind = kind
         /\ LoweredPart(grammar, Part) /\ PartVerifies(grammar, Part, Len(frames[Top.frame].values))
         /\ Top.rule \in MessageEffects(grammar) <=> IsMessage(Part, MessageEffects(grammar))
         /\ kind = "capture" => Part.rule \notin MessageEffects(grammar)
         /\ Pending(MessageEffects(grammar), Top) <=> Top.rule \in MessageEffects(grammar)
<1>1. /\ outcome = "running" /\ stack # <<>> /\ Top.op = "Continue"
      /\ Top.next \in DOMAIN Production(Top).parts /\ Part.kind = kind
  BY DEF AtPart, Running, Top
<1>2. Top.op \in Owners /\ Top.op \notin Fillers
  BY <1>1 DEF Owners, Fillers
<1>3. /\ Top.rule \in DOMAIN grammar /\ Top.production \in DOMAIN grammar[Top.rule].productions /\ Sound(grammar)
      /\ Expected(grammar, Top) = Len(frames[Top.frame].values)
  BY <1>1, <1>2, AtTop, TopOwner
<1>4. PICK p : p = grammar[Top.rule].productions[Top.production]
  OBVIOUS
<1>5. /\ LoweredProduction(grammar, p) /\ IsList(p.parts) /\ EffectsFit(MessageEffects(grammar), Top.rule, p)
      /\ \A j \in DOMAIN p.parts :
           PartVerifies(grammar, p.parts[j], grammar[Top.rule].parameters + Len(p.bindings) + CapturesBefore(p, j))
  BY <1>3, <1>4, ProductionIs
<1>6. Top.next \in DOMAIN p.parts /\ Part = p.parts[Top.next]
  BY <1>1, <1>4 DEF Production, Part
<1>7. LoweredPart(grammar, Part)
  BY <1>5, <1>6 DEF LoweredProduction
<1>8. PartVerifies(grammar, Part, Len(frames[Top.frame].values))
  <2>1. Expected(grammar, Top) = grammar[Top.rule].parameters + Len(p.bindings) + CapturesBefore(p, Top.next)
    BY <1>1, <1>4 DEF Expected
  <2>2. PartVerifies(grammar, p.parts[Top.next],
                     grammar[Top.rule].parameters + Len(p.bindings) + CapturesBefore(p, Top.next))
    BY <1>5, <1>6
  <2>3. QED
    BY <1>3, <1>6, <2>1, <2>2
<1>9. /\ Top.rule \in MessageEffects(grammar) <=> IsMessage(Part, MessageEffects(grammar))
      /\ kind = "capture" => Part.rule \notin MessageEffects(grammar)
  <2>1. /\ p.parts[Top.next].kind = "capture" => p.parts[Top.next].rule \notin MessageEffects(grammar)
        /\ IsMessage(p.parts[Top.next], MessageEffects(grammar)) <=> Top.rule \in MessageEffects(grammar)
    BY <1>5, <1>6 DEF EffectsFit
  <2>2. QED
    BY <1>1, <1>6, <2>1
<1>10. Top.rule \in MessageEffects(grammar) => Top.next = 1
  <2>1. ASSUME Top.rule \in MessageEffects(grammar) PROVE Top.next = 1
    <3>1. Len(p.parts) = 1
      BY <1>5, <2>1 DEF EffectsFit
    <3>2. Top.next \in 1 .. 1
      BY <1>5, <1>6, <3>1, ListIs
    <3>3. QED
      BY <3>2
  <2>2. QED
    BY <2>1
<1>11. Pending(MessageEffects(grammar), Top) <=> Top.rule \in MessageEffects(grammar)
  BY <1>1, <1>2, <1>10 DEF Pending
<1>12. QED
  BY <1>1, <1>2, <1>7, <1>8, <1>9, <1>11

(* The owner on top, past the part that is due.                             *)
LEMMA OnwardIs ==
  ASSUME authored \in Authored, Started, NEW kind, AtPart(kind)
  PROVE  /\ WorkFits(grammar, Len(buffers), Len(frames), Len(nodes), request.limits.depth, Onward)
         /\ OwnerReady(grammar, MessageEffects(grammar), stack, Onward)
         /\ Onward.frame = Top.frame /\ Onward.sink = Top.sink /\ Onward.op = "Continue"
         /\ Expected(grammar, Onward) = IF kind = "capture" THEN Len(frames[Top.frame].values) + 1
                                        ELSE Len(frames[Top.frame].values)
         /\ ~ Pending(MessageEffects(grammar), Onward)
<1>1. /\ outcome = "running" /\ stack # <<>> /\ Top.op = "Continue" /\ Top.op \in Owners /\ Part.kind = kind
  BY AtPartIs
<1>2. Top.next \in DOMAIN Production(Top).parts
  BY DEF AtPart
<1>3. /\ Top \in [op : Owners, rule : DOMAIN grammar, production : Nat, next : Nat \ {0},
                   frame : 1 .. Len(frames), sink : 1 .. Len(buffers),
                   depth : 0 .. request.limits.depth, node : 1 .. Len(nodes)]
      /\ Top.rule \in DOMAIN grammar /\ Top.production \in DOMAIN grammar[Top.rule].productions /\ Sound(grammar)
      /\ Expected(grammar, Top) = Len(frames[Top.frame].values)
  BY <1>1, AtTop, TopOwner
<1>4. PICK j \in Nat \ {0} : j = Top.next
  BY <1>3
<1>5. Onward = [Top EXCEPT !.op = "Continue", !.next = j + 1] /\ j + 1 \in Nat \ {0} /\ "Continue" \in Owners
  <2>1. PICK w : w = Top
    OBVIOUS
  <2>2. w \in [op : Owners, rule : DOMAIN grammar, production : Nat, next : Nat \ {0},
               frame : 1 .. Len(frames), sink : 1 .. Len(buffers),
               depth : 0 .. request.limits.depth, node : 1 .. Len(nodes)]
    BY <1>3, <2>1
  <2>3. [w EXCEPT !.next = @ + 1] = [w EXCEPT !.op = "Continue", !.next = j + 1]
    BY <1>1, <1>4, <2>1, <2>2
  <2>4. QED
    BY <1>1, <2>1, <2>3 DEF Onward
<1>6. PICK a : a = Onward
  OBVIOUS
<1>7. /\ WorkFits(grammar, Len(buffers), Len(frames), Len(nodes), request.limits.depth, a)
      /\ a.op = "Continue" /\ a.rule = Top.rule /\ a.production = Top.production /\ a.next = j + 1
      /\ a.frame = Top.frame /\ a.sink = Top.sink
      /\ NextFits(grammar, a) => OwnerReady(grammar, MessageEffects(grammar), stack, a)
  <2>1. a = Moved(Top, "Continue", j + 1)
    BY <1>5, <1>6 DEF Moved
  <2>2. PICK i \in Nat \ {0} : i = j + 1
    BY <1>5
  <2>3. a = Moved(Top, "Continue", i)
    BY <2>1, <2>2
  <2>4. /\ WorkFits(grammar, Len(buffers), Len(frames), Len(nodes), request.limits.depth, a)
        /\ a.op = "Continue" /\ a.rule = Top.rule /\ a.production = Top.production /\ a.next = i
        /\ a.frame = Top.frame /\ a.sink = Top.sink
        /\ NextFits(grammar, a) => OwnerReady(grammar, MessageEffects(grammar), stack, a)
    BY <1>1, <1>5, <2>3, OwnerMoves
  <2>5. QED
    BY <2>2, <2>4
<1>8. PICK p : p = grammar[Top.rule].productions[Top.production]
  OBVIOUS
<1>9. IsList(p.bindings) /\ IsList(p.parts) /\ grammar[Top.rule].parameters \in Nat
  BY <1>3, <1>8, ProductionIs
<1>10. j \in DOMAIN p.parts /\ Part = p.parts[j]
  BY <1>2, <1>4, <1>8 DEF Production, Part
<1>11. NextFits(grammar, a)
  <2>1. PICK n \in Nat : n = Len(p.parts) /\ DOMAIN p.parts = 1 .. n
    BY <1>9, ListIs
  <2>2. j + 1 \in 1 .. n + 1
    BY <1>10, <2>1
  <2>3. QED
    BY <1>7, <1>8, <2>1, <2>2 DEF NextFits
<1>12. Expected(grammar, a) = IF kind = "capture" THEN Len(frames[Top.frame].values) + 1
                              ELSE Len(frames[Top.frame].values)
  <2>1. PICK x \in Nat : x = Len(p.bindings)
    BY <1>9, ListIs
  <2>2. PICK y \in Nat : y = CapturesBefore(p, j)
    BY <1>9, <1>10, CapturesNext
  <2>3. CapturesBefore(p, j + 1) = IF kind = "capture" THEN y + 1 ELSE y
    BY <1>1, <1>9, <1>10, <2>2, CapturesNext
  <2>4. Expected(grammar, Top) = grammar[Top.rule].parameters + x + y
    BY <1>1, <1>4, <1>8, <2>1, <2>2 DEF Expected
  <2>5. Expected(grammar, a) = grammar[Top.rule].parameters + x + CapturesBefore(p, j + 1)
    BY <1>7, <1>8, <2>1 DEF Expected
  <2>6. QED
    BY <1>3, <1>9, <2>3, <2>4, <2>5, SMTT(30)
<1>13. ~ Pending(MessageEffects(grammar), a)
  BY <1>7 DEF Pending
<1>14. QED
  BY <1>6, <1>7, <1>11, <1>12, <1>13

(* A node for what the owner on top does. *)
LEMMA NewNode ==
  ASSUME authored \in Authored, Started, stack # <<>>, Top.op \in Owners,
         NEW kind \in Kinds, NEW parent \in 0 .. Len(nodes), NEW range \in Seq(Nat),
         NEW ns, ns = Append(nodes, [Node(parent, kind, Top) EXCEPT !.range = range])
  PROVE  /\ NodesFit(request.limits.depth, ns) /\ Len(ns) = Len(nodes) + 1 /\ FramesFit(Len(ns), frames)
         /\ Len(nodes) \in Nat /\ Len(ns) \in Nat /\ Len(nodes) <= Len(ns)
<1>1. Top.rule \in DOMAIN grammar /\ Top.depth \in 0 .. request.limits.depth
  BY TopOwner
<1>2. Top.rule \in Nat
  BY <1>1, AtTop, RuleNumbers
<1>3. parent \in Nat /\ Top.depth \in Nat /\ Top.depth <= request.limits.depth /\ request.limits.depth \in Nat
  BY <1>1, AtTop DEF Started, RequestFits, Limits
<1>4. PICK node : node = [Node(parent, kind, Top) EXCEPT !.range = range]
  OBVIOUS
<1>5. node \in Nodes /\ node.parent = parent /\ node.depth <= request.limits.depth
  <2>1. PICK old : old = Node(parent, kind, Top)
    OBVIOUS
  <2>2. old \in Nodes /\ old.parent = parent /\ old.depth = Top.depth
    BY <1>2, <1>3, <2>1, NodeIs
  <2>3. node = [old EXCEPT !.range = range]
    BY <1>4, <2>1
  <2>4. node \in Nodes /\ node.parent = old.parent /\ node.depth = old.depth
    BY <2>2, <2>3 DEF Nodes
  <2>5. QED
    BY <1>3, <2>2, <2>4
<1>6. NodesFit(request.limits.depth, nodes) /\ FramesFit(Len(nodes), frames)
  BY DEF Started
<1>7. NodesFit(request.limits.depth, ns) /\ Len(ns) = Len(nodes) + 1 /\ Len(nodes) \in Nat
  BY <1>4, <1>5, <1>6, NodesAppended
<1>8. Len(ns) \in Nat /\ Len(nodes) <= Len(ns)
  BY <1>7
<1>9. QED
  BY <1>6, <1>7, <1>8, FramesMore

(* A sink that has grown holds every start it held. *)
LEMMA GrownStarts ==
  ASSUME authored \in Authored, Started, stack # <<>>, NEW bs,
         \A k \in DOMAIN buffers : Len(buffers[k]) \in Nat /\ Len(bs[k]) \in Nat /\ Len(buffers[k]) <= Len(bs[k])
  PROVE  StillStarts(buffers, bs, stack)
<1>1. ASSUME NEW k \in 2 .. Len(stack), Starts(buffers, stack[k]) PROVE Starts(bs, stack[k])
  <2>1. CASE stack[k].op \notin {"FinishProduction", "FinishCapture"}
    BY <2>1 DEF Starts
  <2>2. CASE stack[k].op \in {"FinishProduction", "FinishCapture"}
    <3>1. /\ WorkFits(grammar, Len(buffers), Len(frames), Len(nodes), request.limits.depth, stack[k])
          /\ stack[k].sink \in 1 .. Len(buffers)
      BY BelowFits
    <3>2. stack[k].start \in Nat
      BY <2>2, <3>1 DEF WorkFits
    <3>3. stack[k].sink \in DOMAIN buffers
      BY <3>1 DEF Started, SinksFit
    <3>4. stack[k].start <= Len(buffers[stack[k].sink])
      BY <1>1, <2>2 DEF Starts
    <3>5. stack[k].start <= Len(bs[stack[k].sink])
      <4>1. PICK x : x = stack[k].start
        OBVIOUS
      <4>2. PICK i \in DOMAIN buffers : i = stack[k].sink
        BY <3>3
      <4>3. /\ x \in Nat /\ x <= Len(buffers[i]) /\ Len(buffers[i]) \in Nat /\ Len(bs[i]) \in Nat
            /\ Len(buffers[i]) <= Len(bs[i])
        BY <3>2, <3>4, <4>1, <4>2
      <4>4. x <= Len(bs[i])
        BY <4>3
      <4>5. QED
        BY <4>1, <4>2, <4>4
    <3>6. QED
      BY <2>2, <3>5 DEF Starts
  <2>3. QED
    BY <2>1, <2>2
<1>2. QED
  BY <1>1 DEF StillStarts

(* A literal or a value is emitted, or is past the limits of the output.    *)
LEMMA EmitKeeps ==
  ASSUME authored \in Authored, Started, NEW part \in {"literal", "value"}, AtPart(part),
         NEW text \in Text, NEW kind \in Kinds, NEW parent \in 0 .. Len(nodes), Emit(text, kind, parent)
  PROVE  Started'
<1> DEFINE range == RangeIn(Top.sink, sinkScalars[Top.sink], sinkScalars[Top.sink] + Len(text))
<1>1. CASE ~ OutputFits(Top.sink, text)
  <2>1. Fail("limit-output")
    BY <1>1 DEF Emit
  <2>2. "limit-output" \in Errors
    BY DEF Errors
  <2>3. QED
    BY <2>1, <2>2, Failed
<1>2. CASE OutputFits(Top.sink, text)
  <2>1. /\ buffers' = [buffers EXCEPT ![Top.sink] = @ \o text]
        /\ sinkScalars' = [sinkScalars EXCEPT ![Top.sink] = @ + Len(text)]
        /\ scalars' = scalars + Len(text)
        /\ nodes' = Append(nodes, [Node(parent, kind, Top) EXCEPT !.range = range])
        /\ stack' = <<Onward>> \o Tail(stack)
        /\ UNCHANGED <<authored, grammar, request, outcome, frames, expansions, words, message, bound, choices, result>>
    BY <1>2 DEF Emit, Then, Rest
  <2>2. /\ outcome = "running" /\ stack # <<>> /\ Top.op \in Owners /\ Top.op \notin Fillers
        /\ Part.kind = part
        /\ Top.rule \in MessageEffects(grammar) <=> IsMessage(Part, MessageEffects(grammar))
        /\ Pending(MessageEffects(grammar), Top) <=> Top.rule \in MessageEffects(grammar)
    BY AtPartIs
  <2>3. Top.rule \notin MessageEffects(grammar) /\ ~ Pending(MessageEffects(grammar), Top)
    BY <2>2 DEF IsMessage
  <2>4. /\ IsList(stack) /\ 1 \in DOMAIN stack /\ Top = stack[1]
        /\ Len(buffers) \in Nat /\ Len(frames) \in Nat /\ Len(nodes) \in Nat
        /\ Top.sink \in DOMAIN buffers /\ sinkScalars[Top.sink] \in Nat
    BY <2>2, AtTop
  <2>5. Len(text) \in Nat
    BY DEF Text
  <2>6. range \in Seq(Nat)
    <3>1. sinkScalars[Top.sink] + Len(text) \in Nat
      BY <2>4, <2>5
    <3>2. QED
      BY <2>4, <3>1, RangeInIs
  <2> HIDE DEF range
  <2>7. /\ NodesFit(request.limits.depth, nodes') /\ Len(nodes') = Len(nodes) + 1 /\ FramesFit(Len(nodes'), frames)
        /\ Len(nodes) \in Nat /\ Len(nodes') \in Nat /\ Len(nodes) <= Len(nodes')
    BY <2>1, <2>2, <2>6, NewNode
  <2>8. /\ SinksFit(request.limits, buffers', sinkScalars', scalars') /\ Len(buffers') = Len(buffers)
        /\ \A k \in DOMAIN buffers : Len(buffers[k]) \in Nat /\ Len(buffers'[k]) \in Nat
                                     /\ Len(buffers[k]) <= Len(buffers'[k])
    <3>1. request.limits \in Limits /\ SinksFit(request.limits, buffers, sinkScalars, scalars)
      BY DEF Started, RequestFits
    <3>2. scalars + Len(text) <= request.limits.scalars /\ Bytes(buffers[Top.sink]) + Bytes(text) <= request.limits.bytes
      BY <1>2 DEF OutputFits
    <3>3. PICK i \in DOMAIN buffers : i = Top.sink
      BY <2>4
    <3>4. PICK bs : bs = [buffers EXCEPT ![i] = @ \o text]
      OBVIOUS
    <3>7. Bytes(buffers[i]) + Bytes(text) <= request.limits.bytes
      BY <3>2, <3>3
    <3>8. PICK limits \in Limits : limits = request.limits
      BY <3>1
    <3>9. /\ SinksFit(limits, buffers, sinkScalars, scalars) /\ scalars + Len(text) <= limits.scalars
          /\ Bytes(buffers[i]) + Bytes(text) <= limits.bytes
      BY <3>1, <3>2, <3>7, <3>8
    <3>10. PICK us : us = [sinkScalars EXCEPT ![i] = @ + Len(text)]
      OBVIOUS
    <3>5. /\ SinksFit(limits, bs, us, scalars + Len(text))
          /\ Len(bs) = Len(buffers)
          /\ \A k \in DOMAIN buffers : Len(buffers[k]) \in Nat /\ Len(bs[k]) \in Nat /\ Len(buffers[k]) <= Len(bs[k])
      <4>1. Extends(buffers, sinkScalars, i, text, bs, us)
        BY <3>4, <3>10 DEF Extends
      <4>2. QED
        BY ONLY <3>9, text \in Text, i \in DOMAIN buffers, limits \in Limits, <4>1, SinkExtended
    <3>11. bs = buffers' /\ us = sinkScalars'
      BY <2>1, <3>3, <3>4, <3>10
    <3>6. QED
      BY <2>1, <3>5, <3>8, <3>11
  <2>9. StillStarts(buffers, buffers', stack)
    BY <2>2, <2>8, GrownStarts
  <2>10. 1 \in MessageEffects(grammar) /\ buffers[Root] = <<>> => buffers'[Root] = <<>>
    <3>1. ASSUME 1 \in MessageEffects(grammar) PROVE buffers'[Root] = buffers[Root]
      <4>1. AtRoot(MessageEffects(grammar), Top)
        BY <2>4 DEF Started, MessagesOf
      <4>2. Top.sink # Root
        BY <2>2, <2>3, <3>1, <4>1 DEF AtRoot
      <4>3. QED
        BY <2>1, <4>2
    <3>2. QED
      BY <3>1
  <2>11. /\ WorkFits(grammar, Len(buffers), Len(frames), Len(nodes), request.limits.depth, Onward)
         /\ OwnerReady(grammar, MessageEffects(grammar), stack, Onward)
         /\ Onward.frame = Top.frame /\ ~ Pending(MessageEffects(grammar), Onward)
         /\ Expected(grammar, Onward) = Len(frames[Top.frame].values)
    BY OnwardIs
  <2>12. PICK a : a = Onward
    OBVIOUS
  <2>13. WorkFits(grammar, Len(buffers'), Len(frames'), Len(nodes'), request.limits.depth, a)
    BY <2>1, <2>4, <2>7, <2>8, <2>11, <2>12, FitsMore
  <2>14. NewWork(grammar, MessageEffects(grammar), Len(buffers'), Len(frames'), Len(nodes'),
                 request.limits.depth, frames', buffers', stack, <<a>>)
    <3>1. Expected(grammar, a) = Len(frames'[a.frame].values)
      BY <2>1, <2>11, <2>12
    <3>2. Pending(MessageEffects(grammar), a) <=> Pending(MessageEffects(grammar), stack[1])
      BY <2>3, <2>4, <2>11, <2>12
    <3>3. OwnerReady(grammar, MessageEffects(grammar), stack, a)
      BY <2>11, <2>12
    <3>4. QED
      BY <2>13, <3>1, <3>2, <3>3, OneWork
  <2>15. /\ SameFilled(frames, frames', stack) /\ FramesFit(Len(nodes'), frames')
         /\ BudgetFits(request.limits, frames', choices', expansions', words')
    BY <2>1, <2>7, Kept DEF Started
  <2>16. /\ Len(buffers') \in Nat /\ Len(frames') \in Nat /\ Len(nodes') \in Nat
         /\ Len(buffers) <= Len(buffers') /\ Len(frames) <= Len(frames') /\ Len(nodes) <= Len(nodes')
    BY <2>1, <2>4, <2>7, <2>8
  <2>17. stack' = <<a>> \o Tail(stack) /\ UNCHANGED <<authored, grammar, request, outcome, result, message>>
    BY <2>1, <2>12
  <2>18. QED
    BY <2>2, <2>7, <2>8, <2>9, <2>10, <2>14, <2>15, <2>16, <2>17, Continued
<1>3. QED
  BY <1>1, <1>2

(* Continue, at a literal.                                                  *)
LEMMA EmitLiteralKeeps ==
  ASSUME authored \in Authored, Started, EmitLiteral
  PROVE  Started'
<1>1. AtPart("literal") /\ Emit(Part.text, "text", Top.node)
  BY DEF EmitLiteral
<1>2. "literal" \in {"literal", "value"} /\ "text" \in Kinds
  BY DEF Kinds
<1>3. stack # <<>> /\ Top.op \in Owners /\ Part.kind = "literal" /\ LoweredPart(grammar, Part)
  BY <1>1, AtPartIs
<1>4. Part.text \in Text
  BY <1>3 DEF LoweredPart
<1>5. Top.node \in 0 .. Len(nodes)
  <2>1. Top.node \in 1 .. Len(nodes)
    BY <1>3, TopOwner
  <2>2. QED
    BY <2>1
<1>6. QED
  BY <1>1, <1>2, <1>4, <1>5, EmitKeeps

(* Continue, at a value.                                                    *)
LEMMA EmitValueKeeps ==
  ASSUME authored \in Authored, Started, EmitValue
  PROVE  Started'
<1> DEFINE frame == frames[Top.frame]
           origin == Origin(frame, Part.value)
           kind == IF origin.kind = "host" THEN "host" ELSE "bound"
           parent == IF origin.kind = "derived" /\ origin.node # None THEN origin.node ELSE Top.node
<1>1. /\ AtPart("value")
      /\ IF Available(frame, Part.value) THEN Emit(Evaluate(frame, Part.value), kind, parent) ELSE Fail("value-name")
  BY DEF EmitValue
<1>2. "value" \in {"literal", "value"} /\ kind \in Kinds
  BY DEF Kinds
<1>3. /\ stack # <<>> /\ Top.op \in Owners /\ Part.kind = "value" /\ LoweredPart(grammar, Part)
      /\ PartVerifies(grammar, Part, Len(frame.values))
  BY <1>1, AtPartIs
<1>4. Operand(Part.value) /\ OperandFits(Part.value, Len(frame.values))
  BY <1>3 DEF LoweredPart, PartVerifies
<1>5. /\ Top.node \in 1 .. Len(nodes) /\ frame \in FramesTo(Len(nodes)) /\ Len(frame.values) = Len(frame.origins)
      /\ Len(nodes) \in Nat /\ RequestFits(request)
  BY <1>3, TopOwner, AtTop DEF Started
<1>6. Available(frame, Part.value) /\ Evaluate(frame, Part.value) \in Text /\ origin \in OriginsTo(Len(nodes))
  <2> HIDE DEF frame
  <2>1. QED
    BY <1>4, <1>5, ValueIs
<1>7. parent \in 0 .. Len(nodes)
  <2> HIDE DEF frame, origin
  <2>1. origin.node \in 0 .. Len(nodes)
    BY <1>6 DEF OriginsTo
  <2>2. Top.node \in 0 .. Len(nodes)
    BY <1>5
  <2>3. QED
    BY <2>1, <2>2
<1> HIDE DEF frame, origin, kind, parent
<1>8. QED
  BY <1>1, <1>2, <1>6, <1>7, EmitKeeps

ExpandFits(rules, b, n, rule, vs, os, sink, depth, parent) ==
  /\ rule \in DOMAIN rules /\ vs \in Seq(Text) /\ os \in Seq(OriginsTo(n))
  /\ Len(vs) = Len(os) /\ Len(vs) = rules[rule].parameters
  /\ sink \in 1 .. b /\ depth \in Nat /\ parent \in 0 .. n

(* A rule to expand. *)
LEMMA ExpandIs ==
  ASSUME NEW rules, NEW b, NEW f, NEW n, NEW d, NEW rule, NEW vs, NEW os, NEW sink, NEW depth, NEW parent,
         ExpandFits(rules, b, n, rule, vs, os, sink, depth, parent),
         NEW x, x = ExpandWork(rule, vs, os, sink, depth, parent)
  PROVE  /\ WorkFits(rules, b, f, n, d, x) /\ ArityFits(rules, x)
         /\ x.op = "Expand" /\ x.rule = rule /\ x.sink = sink
<1>1. /\ x.op = "Expand" /\ x.rule = rule /\ x.sink = sink /\ x.arguments = vs /\ x.origins = os
      /\ x.depth = depth /\ x.parent = parent
  BY DEF ExpandWork
<1>2. x.op \notin Owners /\ x.op \notin Fillers /\ x.op \notin {"FinishProduction", "FinishCapture"}
  BY <1>1 DEF Owners, Fillers
<1>3. WorkFits(rules, b, f, n, d, x)
  BY <1>1, <1>2 DEF WorkFits, ExpandFits
<1>4. ArityFits(rules, x)
  BY <1>1 DEF ArityFits, ExpandFits
<1>5. QED
  BY <1>1, <1>3, <1>4

(* Continue, at a call: the rule writes to the sink of its caller.          *)
LEMMA CallRuleKeeps ==
  ASSUME authored \in Authored, Started, CallRule
  PROVE  Started'
<1> DEFINE frame == frames[Top.frame]
           vs == Values(frame, Part.arguments)
           os == Origins(frame, Part.arguments)
<1>1. /\ AtPart("call")
      /\ IF AllAvailable(frame, Part.arguments)
         THEN /\ stack' = <<ExpandWork(Part.rule, vs, os, Top.sink, Top.depth + 1, Top.node), Onward>> \o Tail(stack)
              /\ UNCHANGED <<authored, grammar, request, outcome, buffers, sinkScalars, frames, scalars,
                             expansions, words, message, nodes, bound, choices, result>>
         ELSE Fail("value-name")
  BY DEF CallRule, Then, Rest
<1>2. /\ outcome = "running" /\ stack # <<>> /\ Top.op \in Owners /\ Top.op \notin Fillers
      /\ Part.kind = "call" /\ LoweredPart(grammar, Part) /\ PartVerifies(grammar, Part, Len(frame.values))
      /\ Top.rule \in MessageEffects(grammar) <=> IsMessage(Part, MessageEffects(grammar))
      /\ Pending(MessageEffects(grammar), Top) <=> Top.rule \in MessageEffects(grammar)
  BY <1>1, AtPartIs
<1>3. /\ Operands(Part.arguments) /\ Part.rule \in DOMAIN grammar
      /\ Len(Part.arguments) = grammar[Part.rule].parameters
      /\ \A k \in DOMAIN Part.arguments : OperandFits(Part.arguments[k], Len(frame.values))
  BY <1>2 DEF LoweredPart, PartVerifies, ArgumentsFit
<1>4. /\ Top.node \in 1 .. Len(nodes) /\ frame \in FramesTo(Len(nodes)) /\ Len(frame.values) = Len(frame.origins)
      /\ Len(nodes) \in Nat /\ Len(buffers) \in Nat /\ Len(frames) \in Nat /\ RequestFits(request)
      /\ Top.depth \in 0 .. request.limits.depth /\ Top.sink \in 1 .. Len(buffers)
      /\ IsList(stack) /\ 1 \in DOMAIN stack /\ Top = stack[1]
  BY <1>2, TopOwner, AtTop DEF Started
<1>5. /\ AllAvailable(frame, Part.arguments) /\ vs \in Seq(Text) /\ os \in Seq(OriginsTo(Len(nodes)))
      /\ Len(vs) = Len(os) /\ Len(vs) = grammar[Part.rule].parameters
  <2>1. PICK n \in Nat : n = Len(nodes)
    BY <1>4
  <2>2. PICK a : a = Part.arguments
    OBVIOUS
  <2>3. PICK fr : fr = frame
    OBVIOUS
  <2>4. /\ AllAvailable(fr, a) /\ Values(fr, a) \in Seq(Text) /\ Origins(fr, a) \in Seq(OriginsTo(n))
        /\ Len(Values(fr, a)) = Len(a) /\ Len(Origins(fr, a)) = Len(a)
    <3> HIDE DEF frame
    <3>1. QED
      BY <1>3, <1>4, <2>1, <2>2, <2>3, ArgumentsAre
  <2>5. QED
    BY <1>3, <2>1, <2>2, <2>3, <2>4
<1>6. /\ stack' = <<ExpandWork(Part.rule, vs, os, Top.sink, Top.depth + 1, Top.node), Onward>> \o Tail(stack)
      /\ UNCHANGED <<authored, grammar, request, outcome, buffers, sinkScalars, frames, scalars,
                     expansions, words, message, nodes, bound, choices, result>>
  BY <1>1, <1>5
<1>7. PICK x : x = ExpandWork(Part.rule, vs, os, Top.sink, Top.depth + 1, Top.node)
  OBVIOUS
<1>8. PICK a : a = Onward
  OBVIOUS
<1> HIDE DEF vs, os
<1>9. /\ WorkFits(grammar, Len(buffers), Len(frames), Len(nodes), request.limits.depth, x)
      /\ ArityFits(grammar, x) /\ x.op = "Expand" /\ x.rule = Part.rule /\ x.sink = Top.sink
  <2>1. Top.node \in 0 .. Len(nodes) /\ Top.depth + 1 \in Nat
    BY <1>4, SMTT(30) DEF RequestFits, Limits
  <2>2. PICK n : n = Len(nodes)
    OBVIOUS
  <2>3. PICK depth \in Nat : depth = Top.depth + 1
    BY <2>1
  <2>4. /\ Part.rule \in DOMAIN grammar /\ vs \in Seq(Text) /\ os \in Seq(OriginsTo(n)) /\ Len(vs) = Len(os)
        /\ Len(vs) = grammar[Part.rule].parameters /\ Top.sink \in 1 .. Len(buffers) /\ Top.node \in 0 .. n
        /\ x = ExpandWork(Part.rule, vs, os, Top.sink, depth, Top.node)
    BY <1>3, <1>4, <1>5, <1>7, <2>1, <2>2, <2>3
  <2>5. ExpandFits(grammar, Len(buffers), n, Part.rule, vs, os, Top.sink, depth, Top.node)
    BY ONLY <2>4, depth \in Nat DEF ExpandFits
  <2>6. QED
    BY ONLY <2>2, <2>4, <2>5, ExpandIs
<1>10. /\ WorkFits(grammar, Len(buffers), Len(frames), Len(nodes), request.limits.depth, a)
       /\ OwnerReady(grammar, MessageEffects(grammar), stack, a)
       /\ a.frame = Top.frame /\ ~ Pending(MessageEffects(grammar), a)
       /\ Expected(grammar, a) = Len(frames[a.frame].values)
  BY <1>1, <1>8, OnwardIs
<1>11. x.rule \in MessageEffects(grammar) <=> Top.rule \in MessageEffects(grammar)
  BY <1>2, <1>9 DEF IsMessage
<1>12. AtRoot(MessageEffects(grammar), x)
  <2>1. AtRoot(MessageEffects(grammar), Top)
    BY <1>4 DEF Started, MessagesOf
  <2>2. QED
    BY <1>2, <1>9, <1>11, <2>1 DEF AtRoot
<1>13. Pending(MessageEffects(grammar), x) <=> Pending(MessageEffects(grammar), stack[1])
  <2>1. Pending(MessageEffects(grammar), x) <=> x.rule \in MessageEffects(grammar)
    BY <1>9 DEF Pending
  <2>2. QED
    BY <1>2, <1>4, <1>11, <2>1
<1>14. NewWork(grammar, MessageEffects(grammar), Len(buffers), Len(frames), Len(nodes),
               request.limits.depth, frames, buffers, stack, <<x, a>>)
  BY <1>9, <1>10, <1>12, <1>13, CallWork
<1>15. NewWork(grammar, MessageEffects(grammar), Len(buffers'), Len(frames'), Len(nodes'),
               request.limits.depth, frames', buffers', stack, <<x, a>>)
  BY <1>6, <1>14
<1>16. /\ SameFilled(frames, frames', stack) /\ StillStarts(buffers, buffers', stack)
       /\ FramesFit(Len(nodes'), frames') /\ NodesFit(request.limits.depth, nodes')
       /\ SinksFit(request.limits, buffers', sinkScalars', scalars')
       /\ BudgetFits(request.limits, frames', choices', expansions', words')
  BY <1>6, Kept DEF Started
<1>17. /\ Len(buffers') \in Nat /\ Len(frames') \in Nat /\ Len(nodes') \in Nat
       /\ Len(buffers) <= Len(buffers') /\ Len(frames) <= Len(frames') /\ Len(nodes) <= Len(nodes')
  BY <1>4, <1>6
<1>18. /\ stack' = <<x, a>> \o Tail(stack)
       /\ 1 \in MessageEffects(grammar) /\ buffers[Root] = <<>> => buffers'[Root] = <<>>
       /\ UNCHANGED <<authored, grammar, request, outcome, result, message>>
  BY <1>6, <1>7, <1>8
<1>19. QED
  BY <1>2, <1>15, <1>16, <1>17, <1>18, Continued

(* Continue, at a capture: what the rule writes to the same sink is a       *)
(* value, too.                                                              *)
LEMMA StartCaptureKeeps ==
  ASSUME authored \in Authored, Started, StartCapture
  PROVE  Started'
<1> DEFINE node == Len(nodes) + 1
<1>1. /\ AtPart("capture")
      /\ nodes' = Append(nodes, Node(Top.node, "capture", Top))
      /\ stack' = <<ExpandWork(Part.rule, <<>>, <<>>, Top.sink, Top.depth + 1, node),
                    [op |-> "FinishCapture", frame |-> Top.frame, slot |-> Part.slot, name |-> Part.name,
                     sink |-> Top.sink, start |-> sinkScalars[Top.sink], node |-> node],
                    Onward>> \o Tail(stack)
      /\ UNCHANGED <<authored, grammar, request, outcome, buffers, sinkScalars, frames, scalars,
                     expansions, words, message, bound, choices, result>>
  BY DEF StartCapture, Then, Rest
<1>2. /\ outcome = "running" /\ stack # <<>> /\ Top.op \in Owners /\ Top.op \notin Fillers
      /\ Part.kind = "capture" /\ LoweredPart(grammar, Part)
      /\ PartVerifies(grammar, Part, Len(frames[Top.frame].values))
      /\ Top.rule \in MessageEffects(grammar) <=> IsMessage(Part, MessageEffects(grammar))
      /\ Pending(MessageEffects(grammar), Top) <=> Top.rule \in MessageEffects(grammar)
      /\ Part.rule \notin MessageEffects(grammar)
  BY <1>1, AtPartIs
<1>3. /\ Part.rule \in DOMAIN grammar /\ Part.slot = Len(frames[Top.frame].values) + 1
      /\ grammar[Part.rule].parameters = 0
  BY <1>2 DEF LoweredPart, PartVerifies
<1>4. /\ Top.node \in 1 .. Len(nodes) /\ Top.frame \in 1 .. Len(frames)
      /\ Len(nodes) \in Nat /\ Len(buffers) \in Nat /\ Len(frames) \in Nat /\ RequestFits(request)
      /\ Top.depth \in 0 .. request.limits.depth /\ Top.sink \in 1 .. Len(buffers)
      /\ IsList(stack) /\ 1 \in DOMAIN stack /\ Top = stack[1]
      /\ sinkScalars[Top.sink] = Len(buffers[Top.sink]) /\ sinkScalars[Top.sink] \in Nat
  BY <1>2, TopOwner, AtTop DEF Started
<1>5. Top.rule \notin MessageEffects(grammar) /\ ~ Pending(MessageEffects(grammar), Top)
  BY <1>2 DEF IsMessage
<1>6. /\ NodesFit(request.limits.depth, nodes') /\ Len(nodes') = Len(nodes) + 1 /\ FramesFit(Len(nodes'), frames)
      /\ Len(nodes) \in Nat /\ Len(nodes') \in Nat /\ Len(nodes) <= Len(nodes')
  <2>1. Node(Top.node, "capture", Top) = [Node(Top.node, "capture", Top) EXCEPT !.range = <<>>]
    BY DEF Node
  <2>2. "capture" \in Kinds /\ Top.node \in 0 .. Len(nodes) /\ <<>> \in Seq(Nat)
    BY <1>4 DEF Kinds
  <2>3. nodes' = Append(nodes, [Node(Top.node, "capture", Top) EXCEPT !.range = <<>>])
    BY <1>1, <2>1
  <2>4. QED
    BY <1>2, <2>2, <2>3, NewNode
<1>7. PICK x : x = ExpandWork(Part.rule, <<>>, <<>>, Top.sink, Top.depth + 1, node)
  OBVIOUS
<1>8. PICK y : y = [op |-> "FinishCapture", frame |-> Top.frame, slot |-> Part.slot, name |-> Part.name,
                    sink |-> Top.sink, start |-> sinkScalars[Top.sink], node |-> node]
  OBVIOUS
<1>9. PICK a : a = Onward
  OBVIOUS
<1>10. node \in 1 .. Len(nodes') /\ node \in 0 .. Len(nodes')
  BY <1>6
<1> HIDE DEF node
<1>11. /\ WorkFits(grammar, Len(buffers'), Len(frames'), Len(nodes'), request.limits.depth, x)
       /\ ArityFits(grammar, x) /\ x.op = "Expand" /\ x.rule = Part.rule /\ x.sink = Top.sink
  <2>1. Top.depth + 1 \in Nat /\ <<>> \in Seq(Text) /\ <<>> \in Seq(OriginsTo(Len(nodes'))) /\ Len(<<>>) = 0
    BY <1>4, SMTT(30) DEF RequestFits, Limits
  <2>2. Top.sink \in 1 .. Len(buffers')
    BY <1>1, <1>4
  <2>3. PICK e : e = <<>>
    OBVIOUS
  <2>4. e \in Seq(Text) /\ e \in Seq(OriginsTo(Len(nodes'))) /\ Len(e) = grammar[Part.rule].parameters
    BY <1>3, <2>1, <2>3
  <2>5. x = ExpandWork(Part.rule, e, e, Top.sink, Top.depth + 1, node)
    BY <1>7, <2>3
  <2>6. PICK n : n = Len(nodes')
    OBVIOUS
  <2>7. PICK depth \in Nat : depth = Top.depth + 1
    BY <2>1
  <2>8. /\ Part.rule \in DOMAIN grammar /\ e \in Seq(Text) /\ e \in Seq(OriginsTo(n)) /\ Len(e) = Len(e)
        /\ Len(e) = grammar[Part.rule].parameters /\ Top.sink \in 1 .. Len(buffers') /\ node \in 0 .. n
        /\ x = ExpandWork(Part.rule, e, e, Top.sink, depth, node)
    BY <1>3, <1>10, <2>1, <2>2, <2>4, <2>5, <2>6, <2>7
  <2>9. ExpandFits(grammar, Len(buffers'), n, Part.rule, e, e, Top.sink, depth, node)
    BY ONLY <2>8, depth \in Nat DEF ExpandFits
  <2>10. QED
    BY ONLY <2>6, <2>8, <2>9, ExpandIs
<1>12. AtRoot(MessageEffects(grammar), x) /\ ~ Pending(MessageEffects(grammar), x)
  <2>1. AtRoot(MessageEffects(grammar), Top)
    BY <1>4 DEF Started, MessagesOf
  <2>2. QED
    BY <1>2, <1>5, <1>11, <2>1 DEF AtRoot, Pending
<1>13. /\ y.op = "FinishCapture" /\ y.op \in Fillers /\ y.frame = Top.frame
       /\ y.slot = Len(frames[Top.frame].values) + 1 /\ y.sink = Top.sink
       /\ y.start = sinkScalars[Top.sink] /\ y.node = node
  BY <1>3, <1>8 DEF Fillers
<1>14. WorkFits(grammar, Len(buffers'), Len(frames'), Len(nodes'), request.limits.depth, y)
  <2>1. y.op \notin Owners /\ y.op # "Expand"
    BY <1>13 DEF Owners
  <2>2. y.sink \in 1 .. Len(buffers') /\ y.frame \in 1 .. Len(frames') /\ y.node \in 1 .. Len(nodes') /\ y.start \in Nat
    BY <1>1, <1>4, <1>10, <1>13
  <2>3. QED
    BY <1>13, <2>1, <2>2 DEF WorkFits
<1>15. Starts(buffers', y) /\ \A w : Temporary(y, w)
  <2>1. y.start <= Len(buffers'[y.sink])
    <3>1. PICK z \in Nat : z = sinkScalars[Top.sink]
      BY <1>4
    <3>2. y.start = z /\ Len(buffers'[y.sink]) = z
      BY <1>1, <1>4, <1>13, <3>1
    <3>3. QED
      BY <3>2
  <2>2. QED
    BY <1>13, <2>1 DEF Starts, Temporary
<1>16. /\ WorkFits(grammar, Len(buffers'), Len(frames'), Len(nodes'), request.limits.depth, a)
       /\ OwnerReady(grammar, MessageEffects(grammar), stack, a)
       /\ a.frame = Top.frame /\ ~ Pending(MessageEffects(grammar), a)
       /\ Expected(grammar, a) = Len(frames[Top.frame].values) + 1
  <2>1. /\ WorkFits(grammar, Len(buffers), Len(frames), Len(nodes), request.limits.depth, a)
        /\ OwnerReady(grammar, MessageEffects(grammar), stack, a)
        /\ a.frame = Top.frame /\ ~ Pending(MessageEffects(grammar), a)
        /\ Expected(grammar, a) = Len(frames[Top.frame].values) + 1
    BY <1>1, <1>9, OnwardIs
  <2>2. Len(buffers') = Len(buffers) /\ Len(frames') = Len(frames)
    BY <1>1
  <2>3. WorkFits(grammar, Len(buffers'), Len(frames'), Len(nodes'), request.limits.depth, a)
    BY <1>4, <1>6, <2>1, <2>2, FitsMore
  <2>4. QED
    BY <2>1, <2>3
<1>17. NewWork(grammar, MessageEffects(grammar), Len(buffers'), Len(frames'), Len(nodes'),
               request.limits.depth, frames', buffers', stack, <<x, y, a>>)
  <2>1. y.slot = Len(frames'[a.frame].values) + 1 /\ Expected(grammar, a) = Len(frames'[a.frame].values) + 1
        /\ y.frame = a.frame
    BY <1>1, <1>13, <1>16
  <2>2. Pending(MessageEffects(grammar), a) <=> Pending(MessageEffects(grammar), stack[1])
    BY <1>4, <1>5, <1>16
  <2>3. QED
    BY <1>11, <1>12, <1>13, <1>14, <1>15, <1>16, <2>1, <2>2, FillingWork
<1>18. /\ SameFilled(frames, frames', stack) /\ StillStarts(buffers, buffers', stack)
       /\ FramesFit(Len(nodes'), frames')
       /\ SinksFit(request.limits, buffers', sinkScalars', scalars')
       /\ BudgetFits(request.limits, frames', choices', expansions', words')
  BY <1>1, <1>6, Kept DEF Started
<1>19. /\ Len(buffers') \in Nat /\ Len(frames') \in Nat /\ Len(nodes') \in Nat
       /\ Len(buffers) <= Len(buffers') /\ Len(frames) <= Len(frames') /\ Len(nodes) <= Len(nodes')
  BY <1>1, <1>4, <1>6
<1>20. /\ stack' = <<x, y, a>> \o Tail(stack)
       /\ 1 \in MessageEffects(grammar) /\ buffers[Root] = <<>> => buffers'[Root] = <<>>
       /\ UNCHANGED <<authored, grammar, request, outcome, result, message>>
  BY <1>1, <1>7, <1>8, <1>9
<1>21. QED
  BY <1>2, <1>6, <1>17, <1>18, <1>19, <1>20, Continued

(* A binding that is due. *)
LEMMA AtBindingIs ==
  ASSUME authored \in Authored, Started, Running("PrepareBinding"),
         Top.next \in DOMAIN Production(Top).bindings
  PROVE  /\ outcome = "running" /\ stack # <<>> /\ Top.op = "PrepareBinding"
         /\ Top.op \in Owners /\ Top.op \notin Fillers
         /\ LET binding == Production(Top).bindings[Top.next] IN
            /\ binding.rule \in DOMAIN grammar /\ binding.rule \notin MessageEffects(grammar)
            /\ Operands(binding.arguments)
            /\ binding.slot = Len(frames[Top.frame].values) + 1
            /\ ArgumentsFit(grammar, binding.rule, binding.arguments, Len(frames[Top.frame].values))
<1>1. outcome = "running" /\ stack # <<>> /\ Top.op = "PrepareBinding"
  BY DEF Running, Top
<1>2. Top.op \in Owners /\ Top.op \notin Fillers
  BY <1>1 DEF Owners, Fillers
<1>3. /\ Top.rule \in DOMAIN grammar /\ Top.production \in DOMAIN grammar[Top.rule].productions /\ Sound(grammar)
      /\ Expected(grammar, Top) = Len(frames[Top.frame].values)
  BY <1>1, <1>2, AtTop, TopOwner
<1>4. PICK p : p = grammar[Top.rule].productions[Top.production]
  OBVIOUS
<1>5. /\ LoweredProduction(grammar, p) /\ IsList(p.bindings) /\ EffectsFit(MessageEffects(grammar), Top.rule, p)
      /\ grammar[Top.rule].parameters \in Nat
      /\ \A k \in DOMAIN p.bindings :
           /\ p.bindings[k].slot = grammar[Top.rule].parameters + k
           /\ ArgumentsFit(grammar, p.bindings[k].rule, p.bindings[k].arguments, grammar[Top.rule].parameters + k - 1)
  BY <1>3, <1>4, ProductionIs
<1>6. PICK k \in DOMAIN p.bindings : k = Top.next
  BY <1>4 DEF Production
<1>7. k \in Nat
  BY <1>5, ListIs
<1>8. PICK binding : binding = Production(Top).bindings[Top.next]
  OBVIOUS
<1>9. binding = p.bindings[k]
  BY <1>4, <1>6, <1>8 DEF Production
<1>10. binding.rule \in DOMAIN grammar /\ Operands(binding.arguments)
  BY <1>5, <1>9 DEF LoweredProduction
<1>11. binding.rule \notin MessageEffects(grammar)
  BY <1>5, <1>9 DEF EffectsFit
<1>12. PICK m \in Nat : m = grammar[Top.rule].parameters
  BY <1>5
<1>13. Len(frames[Top.frame].values) = m + k - 1
  BY <1>1, <1>3, <1>6, <1>12 DEF Expected
<1>14. binding.slot = m + k /\ ArgumentsFit(grammar, binding.rule, binding.arguments, m + k - 1)
  BY <1>5, <1>9, <1>12
<1>15. m + k = (m + k - 1) + 1
  BY <1>7
<1>16. QED
  BY <1>1, <1>2, <1>8, <1>10, <1>11, <1>13, <1>14, <1>15

(* The owner of a frame, past the binding it started. *)
LEMMA PastBinding ==
  ASSUME authored \in Authored, Started, Running("PrepareBinding"),
         Top.next \in DOMAIN Production(Top).bindings, NEW a, a = [Top EXCEPT !.next = @ + 1]
  PROVE  /\ WorkFits(grammar, Len(buffers), Len(frames), Len(nodes), request.limits.depth, a)
         /\ OwnerReady(grammar, MessageEffects(grammar), stack, a)
         /\ a.frame = Top.frame /\ a.sink = Top.sink
         /\ Expected(grammar, a) = Len(frames[Top.frame].values) + 1
         /\ Pending(MessageEffects(grammar), a) <=> Pending(MessageEffects(grammar), Top)
<1>1. outcome = "running" /\ stack # <<>> /\ Top.op = "PrepareBinding" /\ Top.op \in Owners
  BY AtBindingIs
<1>2. /\ Top \in [op : Owners, rule : DOMAIN grammar, production : Nat, next : Nat \ {0},
                   frame : 1 .. Len(frames), sink : 1 .. Len(buffers),
                   depth : 0 .. request.limits.depth, node : 1 .. Len(nodes)]
      /\ Top.rule \in DOMAIN grammar /\ Top.production \in DOMAIN grammar[Top.rule].productions /\ Sound(grammar)
      /\ Expected(grammar, Top) = Len(frames[Top.frame].values)
  BY <1>1, AtTop, TopOwner
<1>3. PICK j \in Nat \ {0} : j = Top.next
  BY <1>2
<1>4. PICK i \in Nat \ {0} : i = j + 1
  OBVIOUS
<1>5. a = Moved(Top, "PrepareBinding", i)
  <2>1. PICK w : w = Top
    OBVIOUS
  <2>2. w \in [op : Owners, rule : DOMAIN grammar, production : Nat, next : Nat \ {0},
               frame : 1 .. Len(frames), sink : 1 .. Len(buffers),
               depth : 0 .. request.limits.depth, node : 1 .. Len(nodes)]
    BY <1>2, <2>1
  <2>3. [w EXCEPT !.next = @ + 1] = [w EXCEPT !.op = "PrepareBinding", !.next = i]
    BY <1>1, <1>3, <1>4, <2>1, <2>2
  <2>4. QED
    BY <2>1, <2>3 DEF Moved
<1>6. /\ WorkFits(grammar, Len(buffers), Len(frames), Len(nodes), request.limits.depth, a)
      /\ a.op = "PrepareBinding" /\ a.rule = Top.rule /\ a.production = Top.production /\ a.next = i
      /\ a.frame = Top.frame /\ a.sink = Top.sink
      /\ NextFits(grammar, a) => OwnerReady(grammar, MessageEffects(grammar), stack, a)
  <2>1. "PrepareBinding" \in Owners
    BY DEF Owners
  <2>2. QED
    BY ONLY authored \in Authored, Started, i \in Nat \ {0}, <1>1, <1>5, <2>1, OwnerMoves
<1>7. PICK p : p = grammar[Top.rule].productions[Top.production]
  OBVIOUS
<1>8. IsList(p.bindings) /\ grammar[Top.rule].parameters \in Nat
  BY <1>2, <1>7, ProductionIs
<1>9. NextFits(grammar, a)
  <2>1. PICK n \in Nat : n = Len(p.bindings) /\ DOMAIN p.bindings = 1 .. n
    BY <1>8, ListIs
  <2>2. j \in 1 .. n
    BY <1>3, <1>7, <2>1 DEF Production
  <2>3. i \in 1 .. n + 1
    BY <1>4, <2>2
  <2>4. QED
    BY <1>6, <1>7, <2>1, <2>3 DEF NextFits
<1>10. Expected(grammar, a) = Len(frames[Top.frame].values) + 1
  <2>1. Expected(grammar, Top) = grammar[Top.rule].parameters + j - 1
    BY <1>1, <1>3 DEF Expected
  <2>2. Expected(grammar, a) = grammar[Top.rule].parameters + i - 1
    BY <1>6 DEF Expected
  <2>3. PICK m \in Nat : m = grammar[Top.rule].parameters
    BY <1>8
  <2>4. Len(frames[Top.frame].values) = m + j - 1 /\ Expected(grammar, a) = m + i - 1
    BY <1>2, <2>1, <2>2, <2>3
  <2>5. m + i - 1 = (m + j - 1) + 1
    BY <1>4
  <2>6. QED
    BY <2>4, <2>5
<1>11. Pending(MessageEffects(grammar), a) <=> Pending(MessageEffects(grammar), Top)
  BY <1>1, <1>6 DEF Pending
<1>12. QED
  BY <1>6, <1>9, <1>10, <1>11

(* PrepareBinding, at a binding: the rule writes to a sink of its own.      *)
LEMMA StartBindingKeeps ==
  ASSUME authored \in Authored, Started, StartBinding
  PROVE  Started'
<1> DEFINE sink == Len(buffers) + 1
           frame == frames[Top.frame]
           binding == Production(Top).bindings[Top.next]
           node == Len(nodes) + 1
           vs == Values(frame, binding.arguments)
           os == Origins(frame, binding.arguments)
<1>1. /\ Running("PrepareBinding") /\ Top.next \in DOMAIN Production(Top).bindings
      /\ AllAvailable(frame, binding.arguments) =>
           /\ buffers' = Append(buffers, <<>>)
           /\ sinkScalars' = Append(sinkScalars, 0)
           /\ nodes' = Append(nodes, Node(Top.node, "binding", Top))
           /\ stack' = <<ExpandWork(binding.rule, vs, os, sink, Top.depth + 1, node),
                         [op |-> "FinishBinding", frame |-> Top.frame, slot |-> binding.slot,
                          name |-> binding.name, sink |-> sink, node |-> node],
                         [Top EXCEPT !.next = @ + 1]>> \o Tail(stack)
           /\ UNCHANGED <<authored, grammar, request, outcome, frames, scalars, expansions, words,
                          message, bound, choices, result>>
  BY DEF StartBinding, Then, Rest
<1>2. /\ outcome = "running" /\ stack # <<>> /\ Top.op = "PrepareBinding"
      /\ Top.op \in Owners /\ Top.op \notin Fillers
      /\ binding.rule \in DOMAIN grammar /\ binding.rule \notin MessageEffects(grammar)
      /\ Operands(binding.arguments) /\ binding.slot = Len(frame.values) + 1
      /\ Len(binding.arguments) = grammar[binding.rule].parameters
      /\ \A k \in DOMAIN binding.arguments : OperandFits(binding.arguments[k], Len(frame.values))
  BY <1>1, AtBindingIs DEF ArgumentsFit
<1>3. /\ Top.node \in 1 .. Len(nodes) /\ Top.frame \in 1 .. Len(frames) /\ Top.frame \in DOMAIN frames
      /\ frame \in FramesTo(Len(nodes)) /\ Len(frame.values) = Len(frame.origins)
      /\ Len(nodes) \in Nat /\ Len(buffers) \in Nat /\ Len(frames) \in Nat /\ RequestFits(request)
      /\ Top.depth \in 0 .. request.limits.depth /\ Top.sink \in 1 .. Len(buffers)
      /\ IsList(stack) /\ 1 \in DOMAIN stack /\ Top = stack[1]
  BY <1>2, TopOwner, AtTop DEF Started
<1>4. /\ AllAvailable(frame, binding.arguments) /\ vs \in Seq(Text) /\ os \in Seq(OriginsTo(Len(nodes)))
      /\ Len(vs) = Len(os) /\ Len(vs) = grammar[binding.rule].parameters
  <2>1. PICK n \in Nat : n = Len(nodes)
    BY <1>3
  <2>2. PICK a : a = binding.arguments
    OBVIOUS
  <2>3. PICK fr : fr = frame
    OBVIOUS
  <2>4. /\ AllAvailable(fr, a) /\ Values(fr, a) \in Seq(Text) /\ Origins(fr, a) \in Seq(OriginsTo(n))
        /\ Len(Values(fr, a)) = Len(a) /\ Len(Origins(fr, a)) = Len(a)
    <3> HIDE DEF frame, binding
    <3>1. QED
      BY <1>2, <1>3, <2>1, <2>2, <2>3, ArgumentsAre, SMTT(30)
  <2>5. QED
    BY <1>2, <2>1, <2>2, <2>3, <2>4
<1>5. PICK x : x = ExpandWork(binding.rule, vs, os, sink, Top.depth + 1, node)
  OBVIOUS
<1>6. PICK y : y = [op |-> "FinishBinding", frame |-> Top.frame, slot |-> binding.slot,
                    name |-> binding.name, sink |-> sink, node |-> node]
  OBVIOUS
<1>7. PICK a : a = [Top EXCEPT !.next = @ + 1]
  OBVIOUS
<1>8. /\ buffers' = Append(buffers, <<>>) /\ sinkScalars' = Append(sinkScalars, 0)
      /\ nodes' = Append(nodes, Node(Top.node, "binding", Top))
      /\ stack' = <<x, y, a>> \o Tail(stack)
      /\ UNCHANGED <<authored, grammar, request, outcome, frames, scalars, expansions, words,
                     message, bound, choices, result>>
  BY <1>1, <1>4, <1>5, <1>6, <1>7
<1> HIDE DEF vs, os, binding
<1>9. /\ SinksFit(request.limits, buffers', sinkScalars', scalars') /\ Len(buffers') = Len(buffers) + 1
      /\ \A k \in 1 .. Len(buffers) : buffers'[k] = buffers[k]
      /\ Root \in 1 .. Len(buffers)
  <2>1. request.limits \in Limits /\ SinksFit(request.limits, buffers, sinkScalars, scalars)
    BY DEF Started, RequestFits
  <2>2. /\ SinksFit(request.limits, Append(buffers, <<>>), Append(sinkScalars, 0), scalars)
        /\ Len(Append(buffers, <<>>)) = Len(buffers) + 1
        /\ \A k \in 1 .. Len(buffers) : Append(buffers, <<>>)[k] = buffers[k]
        /\ 1 \in 1 .. Len(buffers)
    BY <2>1, SinkAppended
  <2>3. QED
    BY <1>8, <2>2 DEF Root
<1>10. /\ NodesFit(request.limits.depth, nodes') /\ Len(nodes') = Len(nodes) + 1 /\ FramesFit(Len(nodes'), frames)
       /\ Len(nodes) \in Nat /\ Len(nodes') \in Nat /\ Len(nodes) <= Len(nodes')
  <2>1. Node(Top.node, "binding", Top) = [Node(Top.node, "binding", Top) EXCEPT !.range = <<>>]
    BY DEF Node
  <2>2. "binding" \in Kinds /\ Top.node \in 0 .. Len(nodes) /\ <<>> \in Seq(Nat)
    BY <1>3 DEF Kinds
  <2>3. nodes' = Append(nodes, [Node(Top.node, "binding", Top) EXCEPT !.range = <<>>])
    BY <1>8, <2>1
  <2>4. QED
    BY <1>2, <2>2, <2>3, NewNode
<1>11. /\ Len(buffers') \in Nat /\ Len(frames') \in Nat /\ Len(nodes') \in Nat
       /\ Len(buffers) <= Len(buffers') /\ Len(frames) <= Len(frames') /\ Len(nodes) <= Len(nodes')
       /\ sink \in 1 .. Len(buffers') /\ node \in 1 .. Len(nodes') /\ node \in 0 .. Len(nodes')
  BY <1>3, <1>8, <1>9, <1>10
<1>12. \A k \in 1 .. Len(buffers) : k # sink
  BY <1>3
<1>13. sink # Root
  BY <1>9, <1>12
<1> HIDE DEF sink, node
<1>14. /\ WorkFits(grammar, Len(buffers'), Len(frames'), Len(nodes'), request.limits.depth, x)
       /\ ArityFits(grammar, x) /\ x.op = "Expand" /\ x.rule = binding.rule /\ x.sink = sink
  <2>1. PICK n : n = Len(nodes')
    OBVIOUS
  <2>2. PICK depth \in Nat : depth = Top.depth + 1
    BY <1>3 DEF RequestFits, Limits
  <2>3. os \in Seq(OriginsTo(n))
    <3>1. PICK fr : fr = frame
      OBVIOUS
    <3>2. PICK arguments : arguments = binding.arguments
      OBVIOUS
    <3>3. FramesFit(n, frames) /\ n \in Nat
      BY <1>10, <2>1
    <3>4. fr \in FramesTo(n) /\ Len(fr.values) = Len(fr.origins)
      BY <1>3, <3>1, <3>3, FrameIs
    <3>5. Operands(arguments) /\ \A k \in DOMAIN arguments : OperandFits(arguments[k], Len(fr.values))
      BY <1>2, <3>1, <3>2 DEF binding
    <3>6. Origins(fr, arguments) \in Seq(OriginsTo(n))
      <4> HIDE DEF frame
      <4>1. RequestFits(request)
        BY <1>3
      <4>2. QED
        BY <3>3, <3>4, <3>5, <4>1, ArgumentsAre
    <3>7. QED
      BY <3>1, <3>2, <3>6 DEF os, binding
  <2>4. ExpandFits(grammar, Len(buffers'), n, binding.rule, vs, os, sink, depth, node)
    BY <1>2, <1>4, <1>11, <2>1, <2>2, <2>3 DEF ExpandFits
  <2>5. x = ExpandWork(binding.rule, vs, os, sink, depth, node)
    BY <1>5, <2>2
  <2>6. QED
    BY ONLY <2>1, <2>4, <2>5, ExpandIs
<1>15. AtRoot(MessageEffects(grammar), x) /\ ~ Pending(MessageEffects(grammar), x)
  BY <1>2, <1>13, <1>14 DEF AtRoot, Pending
<1>16. /\ y.op = "FinishBinding" /\ y.op \in Fillers /\ y.frame = Top.frame
       /\ y.slot = Len(frame.values) + 1 /\ y.sink = sink /\ y.node = node
  BY <1>2, <1>6 DEF Fillers
<1>17. WorkFits(grammar, Len(buffers'), Len(frames'), Len(nodes'), request.limits.depth, y)
  <2>1. y.op \notin Owners /\ y.op # "Expand" /\ y.op \notin {"FinishProduction", "FinishCapture"}
    BY <1>16 DEF Owners
  <2>2. y.sink \in 1 .. Len(buffers') /\ y.frame \in 1 .. Len(frames') /\ y.node \in 1 .. Len(nodes')
    BY <1>3, <1>8, <1>11, <1>16
  <2>3. QED
    BY <1>16, <2>1, <2>2 DEF WorkFits
<1>18. /\ WorkFits(grammar, Len(buffers'), Len(frames'), Len(nodes'), request.limits.depth, a)
       /\ OwnerReady(grammar, MessageEffects(grammar), stack, a)
       /\ a.frame = Top.frame /\ a.sink = Top.sink
       /\ Expected(grammar, a) = Len(frame.values) + 1
       /\ Pending(MessageEffects(grammar), a) <=> Pending(MessageEffects(grammar), stack[1])
  <2>1. /\ WorkFits(grammar, Len(buffers), Len(frames), Len(nodes), request.limits.depth, a)
        /\ OwnerReady(grammar, MessageEffects(grammar), stack, a)
        /\ a.frame = Top.frame /\ a.sink = Top.sink
        /\ Expected(grammar, a) = Len(frame.values) + 1
        /\ Pending(MessageEffects(grammar), a) <=> Pending(MessageEffects(grammar), Top)
    BY <1>1, <1>7, PastBinding
  <2>2. WorkFits(grammar, Len(buffers'), Len(frames'), Len(nodes'), request.limits.depth, a)
    BY <1>3, <1>11, <2>1, FitsMore
  <2>3. QED
    BY <1>3, <2>1, <2>2
<1>19. Starts(buffers', y) /\ Temporary(y, a) /\ \A k \in 2 .. Len(stack) : Temporary(y, stack[k])
  <2>1. Starts(buffers', y) /\ Temporary(y, a)
    BY <1>3, <1>12, <1>16, <1>18 DEF Starts, Temporary
  <2>2. \A k \in 2 .. Len(stack) : stack[k].sink \in 1 .. Len(buffers)
    BY <1>2, BelowFits
  <2>3. QED
    BY <1>12, <1>16, <2>1, <2>2 DEF Temporary
<1>20. NewWork(grammar, MessageEffects(grammar), Len(buffers'), Len(frames'), Len(nodes'),
               request.limits.depth, frames', buffers', stack, <<x, y, a>>)
  <2>1. y.slot = Len(frames'[a.frame].values) + 1 /\ Expected(grammar, a) = Len(frames'[a.frame].values) + 1
        /\ y.frame = a.frame
    BY <1>8, <1>16, <1>18
  <2>2. QED
    BY <1>14, <1>15, <1>16, <1>17, <1>18, <1>19, <2>1, FillingWork
<1>21. StillStarts(buffers, buffers', stack)
  <2>1. ASSUME NEW k \in DOMAIN buffers
        PROVE  Len(buffers[k]) \in Nat /\ Len(buffers'[k]) \in Nat /\ Len(buffers[k]) <= Len(buffers'[k])
    <3>1. Len(buffers[k]) \in Nat /\ k \in 1 .. Len(buffers)
      BY DEF Started, SinksFit, Text
    <3>2. buffers'[k] = buffers[k]
      BY <1>9, <3>1
    <3>3. QED
      BY <3>1, <3>2
  <2>2. QED
    BY <1>2, <2>1, GrownStarts
<1>22. /\ SameFilled(frames, frames', stack) /\ FramesFit(Len(nodes'), frames')
       /\ BudgetFits(request.limits, frames', choices', expansions', words')
  BY <1>8, <1>10, Kept DEF Started
<1>23. /\ 1 \in MessageEffects(grammar) /\ buffers[Root] = <<>> => buffers'[Root] = <<>>
       /\ UNCHANGED <<authored, grammar, request, outcome, result, message>>
  BY <1>8, <1>9
<1>24. QED
  BY <1>2, <1>8, <1>9, <1>10, <1>11, <1>20, <1>21, <1>22, <1>23, Continued

(* What waits on top fills the slot its owner, below it, expects. *)
LEMMA SlotReady ==
  ASSUME authored \in Authored, Started, stack # <<>>, Top.op \in Fillers
  PROVE  /\ SlotIsNext(Top.frame, Top.slot) /\ Top.frame \in DOMAIN frames /\ Top.node \in 1 .. Len(nodes)
         /\ Top.sink \in DOMAIN buffers /\ Top = stack[1]
<1>1. /\ IsList(stack) /\ 1 \in DOMAIN stack /\ Top = stack[1] /\ Top.sink \in DOMAIN buffers
      /\ WorkFits(grammar, Len(buffers), Len(frames), Len(nodes), request.limits.depth, Top)
  BY AtTop
<1>2. Top.frame \in 1 .. Len(frames) /\ Top.node \in 1 .. Len(nodes)
  <2>1. Top.op # "Expand"
    BY DEF Fillers
  <2>2. QED
    BY <1>1, <2>1 DEF WorkFits
<1>3. FramesFit(Len(nodes), frames) /\ Top.frame \in DOMAIN frames
  BY <1>2 DEF Started, FramesFit
<1>4. FillerFits(stack, 1)
  BY <1>1 DEF Started, SlotsOf
<1>5. 1 < Len(stack) /\ stack[2].op \in Owners
  BY <1>1, <1>4 DEF FillerFits
<1>6. 2 \in DOMAIN stack
  <2>1. PICK n \in Nat : n = Len(stack) /\ DOMAIN stack = 1 .. n
    BY <1>1, ListIs
  <2>2. QED
    BY <1>5, <2>1
<1>7. OwnerFilled(grammar, frames, stack, 2)
  BY <1>5, <1>6 DEF Started, SlotsOf, OwnerFits
<1>8. Filling(stack, 2) /\ stack[2 - 1] = Top
  BY <1>1 DEF Filling
<1>9. Top.frame = stack[2].frame /\ Top.slot = Len(frames[Top.frame].values) + 1
  BY <1>7, <1>8 DEF OwnerFilled
<1>10. Len(frames[Top.frame].values) = Len(frames[Top.frame].origins)
  BY <1>3, FrameIs
<1>11. SlotIsNext(Top.frame, Top.slot)
  BY <1>9, <1>10 DEF SlotIsNext
<1>12. QED
  BY <1>1, <1>2, <1>3, <1>11

(* Nothing is pushed.                                                       *)
LEMMA Nothing ==
  ASSUME NEW ws, ws = <<>>
  PROVE  IsList(ws) /\ DOMAIN ws = {}
<1>1. IsList(<<>>)
  BY Tops
<1>2. DOMAIN <<>> = {}
  OBVIOUS
<1>3. QED
  BY <1>1, <1>2

(* The slot is filled, and what waited for it is gone. *)
LEMMA SlotTaken ==
  ASSUME authored \in Authored, Started, outcome = "running", stack # <<>>, Top.op \in Fillers,
         NEW text \in Text, Bind(Top, text), stack' = <<>> \o Tail(stack),
         UNCHANGED <<authored, grammar, request, outcome, result, message, expansions, words, choices>>,
         SinksFit(request.limits, buffers', sinkScalars', scalars'), Len(buffers') = Len(buffers),
         NodesFit(request.limits.depth, nodes'), Len(nodes') = Len(nodes),
         StillStarts(buffers, buffers', stack),
         1 \in MessageEffects(grammar) /\ buffers[Root] = <<>> => buffers'[Root] = <<>>
  PROVE  Started'
<1>1. /\ Top.frame \in DOMAIN frames /\ Top.node \in 1 .. Len(nodes) /\ Top = stack[1]
  BY SlotReady
<1>2. IsList(stack) /\ Len(buffers) \in Nat /\ Len(frames) \in Nat /\ Len(nodes) \in Nat
  BY AtTop
<1>3. PICK origin : origin = [kind |-> "derived", node |-> Top.node]
  OBVIOUS
<1>4. origin \in OriginsTo(Len(nodes))
  <2>1. Top.node \in 0 .. Len(nodes)
    BY <1>1
  <2>2. QED
    BY <1>3, <2>1 DEF OriginsTo
<1>5. PICK fs2 : fs2 = frames'
  OBVIOUS
<1>6. Binds(frames, Top.frame, text, origin, fs2)
  BY <1>3, <1>5 DEF Bind, Binds
<1>7. /\ FramesFit(Len(nodes), fs2) /\ Len(fs2) = Len(frames)
      /\ \A k \in DOMAIN frames :
           Len(fs2[k].values) = IF k = Top.frame THEN Len(frames[k].values) + 1 ELSE Len(frames[k].values)
  <2>1. FramesFit(Len(nodes), frames)
    BY DEF Started
  <2>2. PICK i \in DOMAIN frames : i = Top.frame
    BY <1>1
  <2>3. Binds(frames, i, text, origin, fs2)
    BY <1>6, <2>2
  <2>4. /\ FramesFit(Len(nodes), fs2) /\ Len(fs2) = Len(frames)
        /\ \A k \in DOMAIN frames :
             Len(fs2[k].values) = IF k = i THEN Len(frames[k].values) + 1 ELSE Len(frames[k].values)
    BY <1>4, <2>1, <2>3, FramesBound
  <2>5. QED
    BY <2>2, <2>4
<1>8. FitsOf(grammar, Len(buffers'), Len(frames'), Len(nodes'), request.limits.depth, stack')
  <2>1. PICK b \in Nat : b = Len(buffers)
    BY <1>2
  <2>2. PICK f \in Nat : f = Len(frames)
    BY <1>2
  <2>3. PICK n \in Nat : n = Len(nodes)
    BY <1>2
  <2>4. FitsOf(grammar, b, f, n, request.limits.depth, stack)
    BY <2>1, <2>2, <2>3 DEF Started
  <2>5. PICK ws : ws = <<>>
    OBVIOUS
  <2>6. IsList(ws) /\ DOMAIN ws = {}
    BY <2>5, Nothing
  <2>7. \A k \in DOMAIN ws : WorkFits(grammar, b, f, n, request.limits.depth, ws[k])
    BY <2>6
  <2>8. b <= b /\ f <= f /\ n <= n
    OBVIOUS
  <2>9. FitsOf(grammar, b, f, n, request.limits.depth, ws \o Tail(stack))
    BY <2>4, <2>6, <2>7, <2>8, FitsKept
  <2>10. Len(buffers') = b /\ Len(frames') = f /\ Len(nodes') = n /\ stack' = ws \o Tail(stack)
    BY <1>5, <1>7, <2>1, <2>2, <2>3, <2>5
  <2>11. QED
    BY <2>9, <2>10
<1>9. SlotsOf(grammar, frames', stack')
  <2>1. SlotsOf(grammar, frames, stack) /\ stack[1].op \in Fillers
    BY <1>1 DEF Started
  <2>2. ASSUME NEW k \in DOMAIN stack, stack[k].op \in Owners
        PROVE  /\ Len(frames[stack[k].frame].values) \in Nat
               /\ Len(fs2[stack[k].frame].values)
                    = IF stack[k].frame = stack[1].frame THEN Len(frames[stack[k].frame].values) + 1
                      ELSE Len(frames[stack[k].frame].values)
    <3>1. WorkFits(grammar, Len(buffers), Len(frames), Len(nodes), request.limits.depth, stack[k])
      BY DEF Started, FitsOf
    <3>2. stack[k].frame \in 1 .. Len(frames)
      BY <2>2, <3>1 DEF WorkFits
    <3>3. FramesFit(Len(nodes), frames) /\ stack[k].frame \in DOMAIN frames
      BY <3>2 DEF Started, FramesFit
    <3>4. Len(frames[stack[k].frame].values) \in Nat
      BY <3>3, FrameIs
    <3>5. QED
      BY <1>1, <1>7, <3>3, <3>4
  <2>3. SlotsOf(grammar, fs2, <<>> \o Tail(stack))
    BY <1>2, <2>1, <2>2, SlotsFilled
  <2>4. QED
    BY <1>5, <2>3
<1>10. SpansOf(buffers', stack')
  <2>1. PICK ws : ws = <<>>
    OBVIOUS
  <2>2. IsList(ws) /\ DOMAIN ws = {}
    BY <2>1, Nothing
  <2>3. SpansOf(buffers', ws) /\ AllTemporary(ws, stack)
    BY <2>2 DEF SpansOf, AllTemporary
  <2>4. SpansOf(buffers, stack)
    BY DEF Started
  <2>5. SpansOf(buffers', ws \o Tail(stack))
    BY <1>2, <2>2, <2>3, <2>4, SpansKept
  <2>6. QED
    BY <2>1, <2>5
<1>11. MessagesOf(MessageEffects(grammar), buffers'[Root], message', stack')
  <2>1. PICK ws : ws = <<>>
    OBVIOUS
  <2>2. IsList(ws) /\ DOMAIN ws = {}
    BY <2>1, Nothing
  <2>3. PICK effects : effects = MessageEffects(grammar)
    OBVIOUS
  <2>4. AllAtRoot(effects, ws) /\ OnePending(effects, ws) /\ ~ Waits(effects, ws)
    BY <2>2 DEF AllAtRoot, OnePending, Waits
  <2>5. ~ Pending(effects, stack[1])
    BY <1>1 DEF Pending, Owners, Fillers
  <2>6. MessagesOf(effects, buffers[Root], message, stack)
    BY <2>3 DEF Started
  <2>7. 1 \in effects /\ buffers[Root] = <<>> => buffers'[Root] = <<>>
    BY <2>3
  <2>8. Waits(effects, ws) <=> Pending(effects, stack[1])
    BY <2>4, <2>5
  <2>9. MessagesOf(effects, buffers'[Root], message, ws \o Tail(stack))
    BY <1>2, <2>2, <2>4, <2>6, <2>7, <2>8, MessagesKept
  <2>10. QED
    BY <2>1, <2>3, <2>9
<1>12. FramesFit(Len(nodes'), frames') /\ BudgetFits(request.limits, frames', choices', expansions', words')
  <2>1. BudgetFits(request.limits, frames, choices, expansions, words)
    BY DEF Started
  <2>2. BudgetFits(request.limits, fs2, choices, expansions, words)
    BY <1>7, <2>1 DEF BudgetFits
  <2>3. QED
    BY <1>5, <1>7, <2>2
<1>13. UNCHANGED <<authored, grammar, request, outcome, result>>
  OBVIOUS
<1>14. QED
  BY <1>8, <1>9, <1>10, <1>11, <1>12, <1>13, Proceeded

(* FinishBinding takes the text of the temporary sink for its slot.         *)
LEMMA FinishBindingKeeps ==
  ASSUME authored \in Authored, Started, FinishBinding
  PROVE  Started'
<1>1. outcome = "running" /\ stack # <<>> /\ Top.op = "FinishBinding"
  BY DEF FinishBinding, Running, Top
<1>2. Top.op \in Fillers
  BY <1>1 DEF Fillers
<1>3. /\ SlotIsNext(Top.frame, Top.slot) /\ Top.sink \in DOMAIN buffers /\ Top = stack[1]
      /\ IsList(stack) /\ 1 \in DOMAIN stack /\ buffers[Top.sink] \in Text
  BY <1>1, <1>2, SlotReady, AtTop
<1>4. /\ Bind(Top, buffers[Top.sink])
      /\ buffers' = [buffers EXCEPT ![Top.sink] = <<>>]
      /\ sinkScalars' = [sinkScalars EXCEPT ![Top.sink] = 0]
      /\ stack' = <<>> \o Tail(stack)
      /\ UNCHANGED <<authored, grammar, request, outcome, scalars, expansions, words, message, nodes, choices, result>>
  BY <1>3 DEF FinishBinding, Then, Rest
<1>5. SinksFit(request.limits, buffers', sinkScalars', scalars') /\ Len(buffers') = Len(buffers)
  <2>1. PICK limits \in Limits : limits = request.limits
    BY DEF Started, RequestFits
  <2>2. SinksFit(limits, buffers, sinkScalars, scalars)
    BY <2>1 DEF Started
  <2>3. PICK i \in DOMAIN buffers : i = Top.sink
    BY <1>3
  <2>4. PICK bs : bs = buffers'
    OBVIOUS
  <2>5. PICK us : us = sinkScalars'
    OBVIOUS
  <2>6. Clears(buffers, sinkScalars, i, bs, us)
    BY <1>4, <2>3, <2>4, <2>5 DEF Clears
  <2>7. SinksFit(limits, bs, us, scalars) /\ Len(bs) = Len(buffers)
    BY ONLY limits \in Limits, i \in DOMAIN buffers, <2>2, <2>6, SinkCleared
  <2>8. QED
    BY <1>4, <2>1, <2>4, <2>5, <2>7
<1>6. StillStarts(buffers, buffers', stack)
  <2>1. ASSUME NEW k \in 2 .. Len(stack), Starts(buffers, stack[k]) PROVE Starts(buffers', stack[k])
    <3>1. k \in DOMAIN stack /\ 1 < k /\ stack[k].sink \in 1 .. Len(buffers)
      BY <1>1, BelowFits
    <3>2. Temporary(stack[1], stack[k])
      BY <1>3, <3>1 DEF Started, SpansOf
    <3>3. stack[k].sink # Top.sink
      BY <1>1, <1>3, <3>2 DEF Temporary
    <3>4. stack[k].sink \in DOMAIN buffers
      BY <3>1 DEF Started, SinksFit
    <3>5. buffers'[stack[k].sink] = buffers[stack[k].sink]
      BY <1>4, <3>3, <3>4
    <3>6. QED
      BY <2>1, <3>5 DEF Starts
  <2>2. QED
    BY <2>1 DEF StillStarts
<1>7. 1 \in MessageEffects(grammar) /\ buffers[Root] = <<>> => buffers'[Root] = <<>>
  BY <1>4
<1>8. NodesFit(request.limits.depth, nodes') /\ Len(nodes') = Len(nodes)
  BY <1>4 DEF Started
<1>9. PICK text \in Text : text = buffers[Top.sink]
  BY <1>3
<1>10. Bind(Top, text)
  BY <1>4, <1>9
<1>11. UNCHANGED <<authored, grammar, request, outcome, result, message, expansions, words, choices>>
  BY <1>4
<1>12. QED
  BY <1>1, <1>2, <1>4, <1>5, <1>6, <1>7, <1>8, <1>10, <1>11, SlotTaken

(* FinishCapture copies the text since its start to its slot: the span is   *)
(* within the sink.                                                         *)
LEMMA FinishCaptureKeeps ==
  ASSUME authored \in Authored, Started, FinishCapture
  PROVE  Started'
<1>1. outcome = "running" /\ stack # <<>> /\ Top.op = "FinishCapture"
  BY DEF FinishCapture, Running, Top
<1>2. Top.op \in Fillers
  BY <1>1 DEF Fillers
<1>3. /\ SlotIsNext(Top.frame, Top.slot) /\ Top.sink \in DOMAIN buffers /\ Top = stack[1]
      /\ Top.node \in 1 .. Len(nodes) /\ 1 \in DOMAIN stack /\ buffers[Top.sink] \in Text
      /\ sinkScalars[Top.sink] \in Nat /\ Len(nodes) \in Nat
      /\ WorkFits(grammar, Len(buffers), Len(frames), Len(nodes), request.limits.depth, Top)
  BY <1>1, <1>2, SlotReady, AtTop
<1>4. PICK text \in Text : text = buffers[Top.sink]
  BY <1>3
<1>5. PICK start \in Nat : start = Top.start
  BY <1>1, <1>3 DEF WorkFits
<1>6. PICK n \in Nat : n = Len(text)
  BY DEF Text
<1>7. start <= n
  <2>1. Starts(buffers, Top)
    BY <1>3 DEF Started, SpansOf
  <2>2. QED
    BY <1>1, <1>4, <1>5, <1>6, <2>1 DEF Starts
<1>8. ~ (Top.start > Len(buffers[Top.sink]))
  BY <1>4, <1>5, <1>6, <1>7
<1>9. /\ Bind(Top, SubSeq(text, start + 1, n))
      /\ nodes' = Closed(Top)
      /\ stack' = <<>> \o Tail(stack)
      /\ UNCHANGED <<authored, grammar, request, outcome, buffers, sinkScalars, scalars, expansions, words,
                     message, choices, result>>
  BY <1>3, <1>4, <1>5, <1>6, <1>8 DEF FinishCapture, Then, Rest
<1>10. PICK slice \in Text : slice = SubSeq(text, start + 1, n)
  <2>1. text \in Seq(DOMAIN Width)
    BY DEF Text
  <2>2. SubSeq(text, start + 1, n) \in Seq(DOMAIN Width)
    BY <1>6, <2>1
  <2>3. QED
    BY <2>2 DEF Text
<1>11. Bind(Top, slice)
  BY <1>9, <1>10
<1>12. NodesFit(request.limits.depth, nodes') /\ Len(nodes') = Len(nodes)
  <2>1. RangeIn(Top.sink, Top.start, sinkScalars[Top.sink]) \in Seq(Nat)
    BY <1>3, <1>5, RangeInIs
  <2>2. NodesFit(request.limits.depth, nodes) /\ Top.node \in DOMAIN nodes
    BY <1>3 DEF Started, NodesFit
  <2>3. PICK range \in Seq(Nat) : range = RangeIn(Top.sink, Top.start, sinkScalars[Top.sink])
    BY <2>1
  <2>4. PICK i \in DOMAIN nodes : i = Top.node
    BY <2>2
  <2>5. PICK ns : ns = nodes'
    OBVIOUS
  <2>6. Closes(nodes, i, range, ns)
    BY <1>9, <2>3, <2>4, <2>5 DEF Closed, Closes
  <2>7. QED
    BY <2>2, <2>5, <2>6, NodesClosed
<1>13. /\ SinksFit(request.limits, buffers', sinkScalars', scalars') /\ Len(buffers') = Len(buffers)
       /\ StillStarts(buffers, buffers', stack)
       /\ 1 \in MessageEffects(grammar) /\ buffers[Root] = <<>> => buffers'[Root] = <<>>
  BY <1>9, Kept DEF Started
<1>14. UNCHANGED <<authored, grammar, request, outcome, result, message, expansions, words, choices>>
  BY <1>9
<1>15. QED
  BY <1>1, <1>2, <1>9, <1>11, <1>12, <1>13, <1>14, SlotTaken

(* After its message, the owner on top has nothing pending. *)
LEMMA MessageTaken ==
  ASSUME NEW effects, NEW root, NEW msg, NEW msg2, msg2 # <<>>, 1 \in effects,
         NEW s, IsList(s), s # <<>>, MessagesOf(effects, root, msg, s), Pending(effects, s[1]),
         NEW a, AtRoot(effects, a), ~ Pending(effects, a),
         NEW ws, ws = <<a>>
  PROVE  MessagesOf(effects, root, msg2, ws \o Tail(s))
<1>1. PICK t : t = ws \o Tail(s)
  OBVIOUS
<1>2. IsList(ws) /\ DOMAIN ws = {1} /\ ws[1] = a
  <2>1. IsList(ws) /\ ws[1] = a
    BY Tops
  <2>2. DOMAIN ws = {1}
    OBVIOUS
  <2>3. QED
    BY <2>1, <2>2
<1>3. \A k \in DOMAIN t : (k \in DOMAIN ws /\ t[k] = ws[k]) \/ FromRest(s, ws, t, k)
  BY <1>1, <1>2, ItemsOf
<1>4. \A k \in DOMAIN t : AtRoot(effects, t[k]) /\ ~ Pending(effects, t[k])
  <2>1. ASSUME NEW k \in DOMAIN t PROVE AtRoot(effects, t[k]) /\ ~ Pending(effects, t[k])
    <3>1. CASE k \in DOMAIN ws /\ t[k] = ws[k]
      BY <1>2, <3>1
    <3>2. CASE FromRest(s, ws, t, k)
      <4>1. PICK i \in DOMAIN s : i \in 2 .. Len(s) /\ t[k] = s[i]
        BY <3>2 DEF FromRest
      <4>2. 1 \in DOMAIN s /\ 1 < i
        <5>1. PICK n \in Nat : n = Len(s) /\ DOMAIN s = 1 .. n
          BY ListIs
        <5>2. QED
          BY <4>1, <5>1
      <4>3. AtRoot(effects, s[i])
        BY DEF MessagesOf
      <4>4. ~ (Pending(effects, s[1]) /\ Pending(effects, s[i]))
        BY <4>2 DEF MessagesOf
      <4>5. QED
        BY <4>1, <4>3, <4>4
    <3>3. QED
      BY <1>3, <3>1, <3>2
  <2>2. QED
    BY <2>1
<1>5. root = <<>>
  BY DEF MessagesOf
<1>6. QED
  BY <1>1, <1>4, <1>5 DEF MessagesOf

(* Continue, at a message: it is the first one.                             *)
LEMMA SelectMessageKeeps ==
  ASSUME authored \in Authored, Started, SelectMessage
  PROVE  Started'
<1> DEFINE frame == frames[Top.frame]
<1>1. /\ AtPart("message")
      /\ MessageError = "none" =>
           /\ message' = <<Values(frame, Part.arguments)>>
           /\ nodes' = Append(nodes, Node(Top.node, "message", Top))
           /\ stack' = <<Onward>> \o Tail(stack)
           /\ UNCHANGED <<authored, grammar, request, outcome, buffers, sinkScalars, frames,
                          scalars, expansions, words, bound, choices, result>>
      /\ MessageError # "none" => Fail(MessageError)
  BY DEF SelectMessage, Then, Rest
<1>2. /\ outcome = "running" /\ stack # <<>> /\ Top.op \in Owners /\ Top.op \notin Fillers
      /\ Part.kind = "message" /\ LoweredPart(grammar, Part)
      /\ PartVerifies(grammar, Part, Len(frame.values))
      /\ Top.rule \in MessageEffects(grammar) <=> IsMessage(Part, MessageEffects(grammar))
      /\ Pending(MessageEffects(grammar), Top) <=> Top.rule \in MessageEffects(grammar)
  BY <1>1, AtPartIs
<1>3. Top.rule \in MessageEffects(grammar) /\ Pending(MessageEffects(grammar), Top)
  BY <1>2 DEF IsMessage
<1>4. /\ Operands(Part.arguments)
      /\ \A k \in DOMAIN Part.arguments : OperandFits(Part.arguments[k], Len(frame.values))
  BY <1>2 DEF LoweredPart, PartVerifies
<1>5. /\ Top.node \in 1 .. Len(nodes) /\ frame \in FramesTo(Len(nodes)) /\ Len(frame.values) = Len(frame.origins)
      /\ Len(nodes) \in Nat /\ Len(buffers) \in Nat /\ Len(frames) \in Nat /\ RequestFits(request)
      /\ IsList(stack) /\ 1 \in DOMAIN stack /\ Top = stack[1]
  BY <1>2, TopOwner, AtTop DEF Started
<1>6. AllAvailable(frame, Part.arguments)
  <2>1. PICK n \in Nat : n = Len(nodes)
    BY <1>5
  <2>2. PICK a : a = Part.arguments
    OBVIOUS
  <2>3. PICK fr : fr = frame
    OBVIOUS
  <2>4. AllAvailable(fr, a)
    <3> HIDE DEF frame
    <3>1. QED
      BY <1>4, <1>5, <2>1, <2>2, <2>3, ArgumentsAre
  <2>5. QED
    BY <2>2, <2>3, <2>4
<1>7. MessagesOf(MessageEffects(grammar), buffers[Root], message, stack)
  BY DEF Started
<1>8. message = <<>> /\ AtRoot(MessageEffects(grammar), Top)
  BY <1>3, <1>5, <1>7 DEF MessagesOf
<1>9. 1 \in MessageEffects(grammar)
  BY <1>2, <1>3, <1>8 DEF AtRoot
<1>10. MessageError = IF request.locale # "valid" THEN "locale" ELSE "none"
  BY <1>6, <1>8 DEF MessageError
<1>11. CASE request.locale # "valid"
  <2>1. Fail("locale")
    BY <1>1, <1>10, <1>11
  <2>2. request.api # "weighted"
    BY <1>2, <1>9 DEF Started
  <2>3. "locale" \in Errors
    BY DEF Errors
  <2>4. QED
    BY <1>9, <2>1, <2>2, <2>3, Failed
<1>12. CASE request.locale = "valid"
  <2>1. /\ message' = <<Values(frame, Part.arguments)>>
        /\ nodes' = Append(nodes, Node(Top.node, "message", Top))
        /\ stack' = <<Onward>> \o Tail(stack)
        /\ UNCHANGED <<authored, grammar, request, outcome, buffers, sinkScalars, frames,
                       scalars, expansions, words, bound, choices, result>>
    BY <1>1, <1>10, <1>12
  <2>2. /\ NodesFit(request.limits.depth, nodes') /\ Len(nodes') = Len(nodes) + 1 /\ FramesFit(Len(nodes'), frames)
        /\ Len(nodes) \in Nat /\ Len(nodes') \in Nat /\ Len(nodes) <= Len(nodes')
    <3>1. Node(Top.node, "message", Top) = [Node(Top.node, "message", Top) EXCEPT !.range = <<>>]
      BY DEF Node
    <3>2. "message" \in Kinds /\ Top.node \in 0 .. Len(nodes) /\ <<>> \in Seq(Nat)
      BY <1>5 DEF Kinds
    <3>3. nodes' = Append(nodes, [Node(Top.node, "message", Top) EXCEPT !.range = <<>>])
      BY <2>1, <3>1
    <3>4. QED
      BY <1>2, <3>2, <3>3, NewNode
  <2>3. PICK a : a = Onward
    OBVIOUS
  <2>4. /\ WorkFits(grammar, Len(buffers), Len(frames), Len(nodes), request.limits.depth, a)
        /\ OwnerReady(grammar, MessageEffects(grammar), stack, a)
        /\ a.frame = Top.frame /\ ~ Pending(MessageEffects(grammar), a)
        /\ Expected(grammar, a) = Len(frames[a.frame].values)
    BY <1>1, <2>3, OnwardIs
  <2>5. NewWork(grammar, {}, Len(buffers), Len(frames), Len(nodes'),
                request.limits.depth, frames, buffers, stack, <<a>>)
    <3>1. WorkFits(grammar, Len(buffers), Len(frames), Len(nodes'), request.limits.depth, a)
      <4>1. Len(buffers) <= Len(buffers) /\ Len(frames) <= Len(frames)
        BY <1>5
      <4>2. QED
        BY <1>5, <2>2, <2>4, <4>1, FitsMore
    <3>2. \A w : AtRoot({}, w) /\ ~ Pending({}, w)
      BY DEF AtRoot, Pending
    <3>3. OwnerReady(grammar, {}, stack, a)
      BY <2>4, <3>2 DEF OwnerReady
    <3>4. Pending({}, a) <=> Pending({}, stack[1])
      BY <3>2
    <3>5. QED
      BY <2>4, <3>1, <3>3, <3>4, OneWork
  <2>6. PICK ws : ws = <<a>>
    OBVIOUS
  <2>7. /\ IsList(ws) /\ \A k \in DOMAIN ws :
             WorkFits(grammar, Len(buffers), Len(frames), Len(nodes'), request.limits.depth, ws[k])
        /\ SlotsOf(grammar, frames, ws) /\ AllApart(ws, stack)
        /\ SpansOf(buffers, ws) /\ AllTemporary(ws, stack)
    BY <2>5, <2>6 DEF NewWork
  <2>8. stack' = ws \o Tail(stack)
    BY <2>1, <2>3, <2>6
  <2>9. FitsOf(grammar, Len(buffers'), Len(frames'), Len(nodes'), request.limits.depth, stack')
    <3>1. PICK b \in Nat : b = Len(buffers)
      BY <1>5
    <3>2. PICK f \in Nat : f = Len(frames)
      BY <1>5
    <3>3. PICK n \in Nat : n = Len(nodes)
      BY <1>5
    <3>4. PICK n2 \in Nat : n2 = Len(nodes')
      BY <2>2
    <3>5. /\ b <= b /\ f <= f /\ n <= n2
          /\ FitsOf(grammar, b, f, n, request.limits.depth, stack)
          /\ \A k \in DOMAIN ws : WorkFits(grammar, b, f, n2, request.limits.depth, ws[k])
      BY <2>2, <2>7, <3>1, <3>2, <3>3, <3>4 DEF Started
    <3>6. FitsOf(grammar, b, f, n2, request.limits.depth, ws \o Tail(stack))
      BY <1>2, <2>7, <3>5, FitsKept
    <3>7. Len(buffers') = b /\ Len(frames') = f
      BY <2>1, <3>1, <3>2
    <3>8. QED
      BY <2>8, <3>4, <3>6, <3>7
  <2>10. SlotsOf(grammar, frames', stack')
    <3>1. SlotsOf(grammar, frames, stack) /\ SameFilled(frames, frames, stack) /\ stack[1].op \notin Fillers
      BY <1>2, <1>5, Kept DEF Started
    <3>2. SlotsOf(grammar, frames, ws \o Tail(stack))
      BY <1>2, <1>5, <2>7, <3>1, SlotsKept
    <3>3. QED
      BY <2>1, <2>8, <3>2
  <2>11. SpansOf(buffers', stack')
    <3>1. SpansOf(buffers, stack) /\ StillStarts(buffers, buffers, stack)
      BY Kept DEF Started
    <3>2. SpansOf(buffers, ws \o Tail(stack))
      BY <1>2, <1>5, <2>7, <3>1, SpansKept
    <3>3. QED
      BY <2>1, <2>8, <3>2
  <2>12. MessagesOf(MessageEffects(grammar), buffers'[Root], message', stack')
    <3>1. PICK msg2 : msg2 = <<Values(frame, Part.arguments)>>
      OBVIOUS
    <3>2. msg2 # <<>>
      BY <3>1
    <3>4. AtRoot(MessageEffects(grammar), a) /\ Pending(MessageEffects(grammar), stack[1])
      BY <1>3, <1>5, <2>4 DEF OwnerReady
    <3>5. PICK effects : effects = MessageEffects(grammar)
      OBVIOUS
    <3>6. MessagesOf(effects, buffers[Root], msg2, ws \o Tail(stack))
      BY <1>2, <1>5, <1>7, <1>9, <2>4, <2>6, <3>2, <3>4, <3>5, MessageTaken
    <3>7. QED
      BY <2>1, <2>8, <3>1, <3>5, <3>6
  <2>13. /\ FramesFit(Len(nodes'), frames')
         /\ SinksFit(request.limits, buffers', sinkScalars', scalars')
         /\ BudgetFits(request.limits, frames', choices', expansions', words')
         /\ UNCHANGED <<authored, grammar, request, outcome, result>>
    BY <2>1, <2>2 DEF Started
  <2>14. QED
    BY <1>2, <2>2, <2>9, <2>10, <2>11, <2>12, <2>13, Proceeded
<1>13. QED
  BY <1>11, <1>12

-----------------------------------------------------------------------------
(* The end of a request. *)

(* A sink holds no more than all sinks.                                     *)
LEMMA CountWithin ==
  ASSUME NEW s \in Seq(Nat), NEW i \in DOMAIN s
  PROVE  s[i] \in Nat /\ Total(s) \in Nat /\ s[i] <= Total(s)
<1>1. PICK u : u = [s EXCEPT ![i] = 0]
  OBVIOUS
<1>2. u \in Seq(Nat)
  BY <1>1
<1>3. 0 \in Nat
  OBVIOUS
<1>4. Total(u) + s[i] = Total(s) + 0
  BY <1>1, <1>3, TotalOfUpdate
<1>5. PICK x \in Nat : x = Total(u)
  BY <1>2, TotalGrows
<1>6. PICK y \in Nat : y = Total(s)
  BY TotalGrows
<1>7. PICK z \in Nat : z = s[i]
  OBVIOUS
<1>8. x + z = y + 0
  BY <1>4, <1>5, <1>6, <1>7
<1>9. QED
  BY <1>6, <1>7, <1>8

(* A step that ends a request, or formats its message. *)
LEMMA Ended ==
  ASSUME Started,
         UNCHANGED <<authored, grammar, request, stack, buffers, sinkScalars, frames, scalars, expansions,
                     words, message, choices>>,
         NodesFit(request.limits.depth, nodes'), Len(nodes') = Len(nodes),
         outcome' \in {"text", "message", "formatted"},
         outcome' = "text" => 1 \notin MessageEffects(grammar),
         outcome' # "text" => 1 \in MessageEffects(grammar),
         ResultFits(request.limits, result')
  PROVE  Started'
<1>1. RequestFits(request)' /\ IsCompiled'
  BY DEF Started, IsCompiled
<1>2. OutcomesForeseen'
  BY DEF OutcomesForeseen, NoInternalError, MessagesAreForeseen
<1>3. outcome' \notin {"source", "compiled"} /\ outcome' # "running"
  OBVIOUS
<1>4. /\ FitsOf(grammar, Len(buffers), Len(frames), Len(nodes), request.limits.depth, stack)'
      /\ FramesFit(Len(nodes), frames)'
      /\ SinksFit(request.limits, buffers, sinkScalars, scalars)'
      /\ BudgetFits(request.limits, frames, choices, expansions, words)'
      /\ SlotsOf(grammar, frames, stack)'
      /\ SpansOf(buffers, stack)'
      /\ MessagesOf(MessageEffects(grammar), buffers[Root], message, stack)'
  BY DEF Started
<1>5. NodesFit(request.limits.depth, nodes)' /\ ResultFits(request.limits, result)'
  OBVIOUS
<1>6. QED
  BY <1>1, <1>2, <1>3, <1>4, <1>5 DEF Started

(* A derivation that has no more work is a text or a message, as its first  *)
(* rule says.                                                               *)
LEMMA CompleteKeeps ==
  ASSUME authored \in Authored, Started, Complete
  PROVE  Started'
<1>1. /\ outcome = "running" /\ stack = <<>>
      /\ UNCHANGED <<authored, grammar, request, stack, buffers, sinkScalars, frames, scalars, expansions,
                     words, message, choices, nodes>>
  BY DEF Complete, run
<1>2. MessagesOf(MessageEffects(grammar), buffers[Root], message, stack)
  BY DEF Started
<1>3. NodesFit(request.limits.depth, nodes') /\ Len(nodes') = Len(nodes)
  BY <1>1 DEF Started
<1>4. CASE message = <<>>
  <2>1. outcome' = "text" /\ result' = buffers[Root]
    BY <1>4 DEF Complete
  <2>2. 1 \notin MessageEffects(grammar)
    <3>1. DOMAIN stack = {}
      BY <1>1
    <3>2. QED
      BY <1>2, <1>4, <3>1 DEF MessagesOf
  <2>3. ResultFits(request.limits, buffers[Root])
    <3>1. /\ buffers \in Seq(Text) /\ buffers # <<>> /\ sinkScalars \in Seq(Nat)
          /\ Len(sinkScalars) = Len(buffers) /\ \A s \in DOMAIN buffers : sinkScalars[s] = Len(buffers[s])
          /\ scalars \in Nat /\ Total(sinkScalars) <= scalars /\ scalars <= request.limits.scalars
          /\ \A s \in DOMAIN buffers : Bytes(buffers[s]) <= request.limits.bytes
          /\ request.limits.scalars \in Nat
      BY DEF Started, SinksFit, RequestFits, Limits
    <3>2. Root \in DOMAIN buffers /\ Root \in DOMAIN sinkScalars
      BY <3>1 DEF Root
    <3>3. sinkScalars[Root] \in Nat /\ Total(sinkScalars) \in Nat /\ sinkScalars[Root] <= Total(sinkScalars)
      BY <3>1, <3>2, CountWithin
    <3>4. Len(buffers[Root]) <= request.limits.scalars
      <4>1. PICK x \in Nat : x = sinkScalars[Root]
        BY <3>3
      <4>2. PICK y \in Nat : y = Total(sinkScalars)
        BY <3>3
      <4>3. PICK z \in Nat : z = request.limits.scalars
        BY <3>1
      <4>4. PICK w \in Nat : w = scalars
        BY <3>1
      <4>5. x <= y /\ y <= w /\ w <= z
        BY <3>1, <3>3, <4>1, <4>2, <4>3, <4>4
      <4>6. x <= z
        BY <4>5
      <4>7. QED
        BY <3>1, <3>2, <4>1, <4>3, <4>6
    <3>5. buffers[Root] \in Text
      BY <3>1, <3>2
    <3>6. QED
      BY <3>1, <3>2, <3>4, <3>5 DEF ResultFits
  <2>4. ResultFits(request.limits, result')
    BY <2>1, <2>3
  <2>5. QED
    BY <1>1, <1>3, <2>1, <2>2, <2>4, Ended
<1>5. CASE message # <<>>
  <2>1. 1 \in MessageEffects(grammar) /\ buffers[Root] = <<>>
    BY <1>2, <1>5 DEF MessagesOf
  <2>2. outcome' = "message" /\ result' = result
    BY <1>5, <2>1 DEF Complete
  <2>3. ResultFits(request.limits, result')
    BY <2>2 DEF Started
  <2>4. QED
    BY <1>1, <1>3, <2>1, <2>2, <2>3, Ended
<1>6. QED
  BY <1>4, <1>5

(* Spreading a formatted message over the nodes keeps them.                 *)
LEMMA SpreadFits ==
  ASSUME NEW d, NodesFit(d, nodes), NEW text \in Text, NEW ns, ns = Spread(text)
  PROVE  NodesFit(d, ns) /\ Len(ns) = Len(nodes)
<1>1. PICK n \in Nat : n = Len(nodes) /\ DOMAIN nodes = 1 .. n
  BY DEF NodesFit
<1>2. PICK range \in Seq(Nat) : range = <<0, Len(text)>>
  <2>1. PICK x \in Nat : x = Len(text)
    BY DEF Text
  <2>2. <<0, x>> \in Seq(Nat)
    OBVIOUS
  <2>3. QED
    BY <2>1, <2>2
<1>3. DOMAIN ns = 1 .. n /\ \A k \in 1 .. n : ns[k] = nodes[k] \/ ns[k] = [nodes[k] EXCEPT !.range = range]
  BY <1>1, <1>2 DEF Spread
<1>4. ASSUME NEW k \in 1 .. n
      PROVE  ns[k] \in Nodes /\ ns[k].parent = nodes[k].parent /\ ns[k].depth = nodes[k].depth
  <2>1. PICK node \in Nodes : node = nodes[k]
    BY <1>1 DEF NodesFit
  <2>2. PICK x : x = [node EXCEPT !.range = range]
    OBVIOUS
  <2>3. x \in Nodes /\ x.parent = node.parent /\ x.depth = node.depth
    BY <2>2 DEF Nodes
  <2>4. ns[k] = node \/ ns[k] = x
    BY <1>3, <2>1, <2>2
  <2>5. QED
    BY <2>1, <2>3, <2>4
<1>5. ns = [k \in 1 .. n |-> ns[k]]
  BY <1>1, <1>3 DEF Spread
<1>6. ns \in Seq(Nodes) /\ Len(ns) = n
  <2> HIDE DEF Nodes
  <2>1. QED
    BY ONLY n \in Nat, <1>4, <1>5, SMTT(30)
<1>7. \A k \in DOMAIN ns : ns[k].parent \in 0 .. k - 1 /\ ns[k].depth <= d
  BY <1>1, <1>3, <1>4 DEF NodesFit
<1>8. QED
  BY <1>1, <1>6, <1>7 DEF NodesFit

(* A formatted message, within the limits or refused.                       *)
LEMMA FormatKeeps ==
  ASSUME authored \in Authored, Started, NEW text \in Formatted, NEW valid, Format(text, valid)
  PROVE  Started'
<1>1. outcome = "message" /\ text \in Text
  BY FormattedAssumption DEF Format
<1>2. 1 \in MessageEffects(grammar)
  BY <1>1 DEF Started, OutcomesForeseen, MessagesAreForeseen
<1>3. CASE valid /\ Len(text) <= request.limits.scalars /\ Bytes(text) <= request.limits.bytes
  <2>1. /\ outcome' = "formatted" /\ result' = text /\ nodes' = Spread(text)
        /\ UNCHANGED <<authored, grammar, request, stack, buffers, sinkScalars, frames, scalars,
                       expansions, words, message, choices>>
    BY <1>3 DEF Format
  <2>2. NodesFit(request.limits.depth, nodes)
    BY DEF Started
  <2>3. PICK ns : ns = nodes'
    OBVIOUS
  <2>4. NodesFit(request.limits.depth, ns) /\ Len(ns) = Len(nodes)
    BY <1>1, <2>1, <2>2, <2>3, SpreadFits
  <2>5. ResultFits(request.limits, result')
    BY <1>1, <1>3, <2>1 DEF ResultFits
  <2>6. QED
    BY <1>2, <2>1, <2>3, <2>4, <2>5, Ended
<1>4. CASE ~ (valid /\ Len(text) <= request.limits.scalars /\ Bytes(text) <= request.limits.bytes)
  <2>1. PICK code : code = IF valid THEN "limit-output" ELSE "formatter"
    OBVIOUS
  <2>2. Fail(code)
    BY <1>4, <2>1 DEF Format
  <2>3. code \in Errors /\ code # "locale"
    BY <2>1 DEF Errors
  <2>4. QED
    BY <2>2, <2>3, Failed
<1>5. QED
  BY <1>3, <1>4

-----------------------------------------------------------------------------
(* The invariant. *)

(* Before anything is compiled.                                             *)
LEMMA InitIsSound ==
  ASSUME Init
  PROVE  IInv
<1>1. NotStarted
  BY DEF Init, NotStarted
<1>2. Compiling
  BY DEF Init, Compiling
<1>3. authored \in Authored
  BY DEF Init
<1>4. QED
  BY <1>1, <1>2, <1>3 DEF IInv

(* compile_package.                                                         *)
LEMMA CompileKeeps ==
  ASSUME authored \in Authored, NotStarted, Compiling, Compile
  PROVE  IInv'
<1>1. outcome = "source"
  BY DEF Compile
<1>2. CASE Accepted(authored)
  <2>1. Verifies(Lower(authored))
    BY <1>2, AcceptedVerifies
  <2>2. /\ grammar' = Lower(authored) /\ outcome' = "compiled"
        /\ UNCHANGED <<authored, request, run, result>>
    BY <1>2, <2>1 DEF Compile
  <2>3. IsCompiled'
    BY <1>2, <2>1, <2>2 DEF IsCompiled
  <2>4. NotStarted'
    BY <2>2 DEF NotStarted, run
  <2>5. Compiling'
    BY <2>2, <2>3 DEF Compiling
  <2>6. authored' \in Authored
    BY <2>2
  <2>7. QED
    BY <2>4, <2>5, <2>6 DEF IInv
<1>3. CASE ~ Accepted(authored)
  <2>1. outcome' = "refused" /\ UNCHANGED <<authored, grammar, request, run, result>>
    BY <1>3 DEF Compile, Fail
  <2>2. NotStarted'
    BY <2>1 DEF NotStarted, run
  <2>3. Compiling'
    BY <2>1 DEF Compiling
  <2>4. QED
    BY <2>1, <2>2, <2>3 DEF IInv
<1>4. QED
  BY <1>2, <1>3

(* A request: the work is the first rule, and its output one empty sink.    *)
LEMMA BeginKeeps ==
  ASSUME authored \in Authored, NotStarted, Compiling,
         NEW api \in {"weighted", "structural", "formatter"}, NEW locale \in {"none", "valid", "invalid"},
         NEW r \in Requests(authored), Begin(api, locale, r.limits, r.data)
  PROVE  IInv'
<1> DEFINE x == ExpandWork(1, <<>>, <<>>, Root, 1, None)
<1>1. /\ outcome = "compiled"
      /\ request' = [api |-> api, locale |-> locale, limits |-> r.limits, data |-> r.data]
      /\ outcome' = IF api = "weighted" /\ 1 \in MessageEffects(grammar)
                    THEN "formatter-required" ELSE "running"
      /\ stack' = <<x>> /\ buffers' = <<<<>>>> /\ sinkScalars' = <<0>>
      /\ UNCHANGED <<authored, grammar, frames, scalars, expansions, words, message, nodes, bound, choices, result>>
  BY DEF Begin
<1>2. IsCompiled
  BY <1>1 DEF Compiling
<1>3. Sound(grammar)
  BY <1>2, CompiledIsSound
<1>4. RequestFits(request')
  <2>1. r.limits \in Limits /\ r.data \in Seq(Text) /\ Len(r.data) = Len(Inputs)
    BY RequestsAssumption DEF Limits
  <2>2. QED
    BY <1>1, <2>1 DEF RequestFits
<1>5. PICK limits \in Limits : limits = request'.limits
  BY <1>4 DEF RequestFits
<1>6. /\ limits.depth \in Nat /\ limits.expansions \in Nat /\ limits.scalars \in Nat
      /\ limits.bytes \in Nat /\ limits.words \in Nat
  BY DEF Limits
<1>7. /\ scalars' = 0 /\ expansions' = 0 /\ words' = 0 /\ message' = <<>> /\ nodes' = <<>>
      /\ frames' = <<>> /\ choices' = <<>> /\ result' = <<>>
  BY <1>1 DEF NotStarted
<1>8. 1 \in DOMAIN grammar /\ grammar[1].parameters = 0
  <2>1. IsList(grammar) /\ grammar # <<>> /\ DOMAIN grammar = DOMAIN authored
    <3>1. IsPackage(authored)
      BY PackageAssumption
    <3>2. LoweredRules(grammar) /\ grammar = Lower(authored)
      BY <1>2, <1>3 DEF Sound, IsCompiled
    <3>3. QED
      BY <3>2 DEF LoweredRules, Lower
  <2>2. 1 \in DOMAIN grammar
    <3>1. PICK n \in Nat : n = Len(grammar) /\ DOMAIN grammar = 1 .. n
      BY <2>1, ListIs
    <3>2. n # 0
      <4>1. ASSUME n = 0 PROVE FALSE
        <5>1. grammar \in Seq({})
          BY <2>1, <3>1, <4>1 DEF IsList
        <5>2. QED
          BY <2>1, <5>1
      <4>2. QED
        BY <4>1
    <3>3. QED
      BY <3>1, <3>2
  <2>3. authored[1].parameters = <<>>
    BY <1>2 DEF IsCompiled, Accepted, Lowers
  <2>4. grammar[1].parameters = Len(authored[1].parameters)
    BY <1>2, <2>1, <2>2 DEF IsCompiled, Lower
  <2>5. QED
    BY <2>2, <2>3, <2>4
<1>9. PICK e : e = <<>>
  OBVIOUS
<1>10. PICK w : w = x
  OBVIOUS
<1>11. /\ WorkFits(grammar, 1, 0, 0, limits.depth, w) /\ ArityFits(grammar, w)
       /\ w.op = "Expand" /\ w.rule = 1 /\ w.sink = Root
  <2>1. e \in Seq(Text) /\ e \in Seq(OriginsTo(0)) /\ Len(e) = 0
    BY <1>9
  <2>2. ExpandFits(grammar, 1, 0, 1, e, e, Root, 1, None)
    BY <1>8, <2>1 DEF ExpandFits, Root, None
  <2>3. w = ExpandWork(1, e, e, Root, 1, None)
    BY <1>9, <1>10
  <2>4. QED
    BY ONLY <2>2, <2>3, ExpandIs
<1> HIDE DEF x
<1>12. PICK s : s = <<w>>
  OBVIOUS
<1>13. IsList(s) /\ DOMAIN s = {1} /\ s[1] = w
  <2>1. IsList(s) /\ s[1] = w
    BY <1>12, Tops
  <2>2. DOMAIN s = {1}
    BY <1>12
  <2>3. QED
    BY <2>1, <2>2
<1>14. FitsOf(grammar, 1, 0, 0, limits.depth, s)
  BY <1>11, <1>13 DEF FitsOf
<1>15. SlotsOf(grammar, <<>>, s)
  BY <1>11, <1>13 DEF SlotsOf, OwnerFits, FillerFits, Apart, Owners, Fillers
<1>16. SpansOf(<<<<>>>>, s)
  BY <1>11, <1>13 DEF SpansOf, Starts, Temporary
<1>17. MessagesOf(MessageEffects(grammar), <<>>, <<>>, s)
  <2>1. AtRoot(MessageEffects(grammar), w)
    BY <1>11 DEF AtRoot
  <2>2. Pending(MessageEffects(grammar), w) <=> 1 \in MessageEffects(grammar)
    BY <1>11 DEF Pending
  <2>3. QED
    BY <1>13, <2>1, <2>2 DEF MessagesOf
<1>18. FramesFit(0, <<>>)
  BY DEF FramesFit
<1>19. NodesFit(limits.depth, <<>>)
  BY DEF NodesFit
<1>20. SinksFit(limits, <<<<>>>>, <<0>>, 0)
  <2>1. <<<<>>>> \in Seq(Text) /\ <<<<>>>> # <<>> /\ <<0>> \in Seq(Nat) /\ Len(<<0>>) = Len(<<<<>>>>)
    BY BytesOfNothing
  <2>2. \A i \in DOMAIN <<<<>>>> : <<0>>[i] = Len(<<<<>>>>[i]) /\ Bytes(<<<<>>>>[i]) <= limits.bytes
    BY <1>6, BytesOfNothing
  <2>3. Total(<<0>>) <= 0
    BY TotalOfOne
  <2>4. QED
    BY <1>6, <2>1, <2>2, <2>3 DEF SinksFit
<1>21. BudgetFits(limits, <<>>, <<>>, 0, 0)
  BY <1>6 DEF BudgetFits
<1>22. ResultFits(limits, <<>>)
  BY <1>6, BytesOfNothing DEF ResultFits
<1>23. stack' = s /\ Len(buffers') = 1 /\ Len(frames') = 0 /\ Len(nodes') = 0 /\ buffers'[Root] = <<>>
  BY <1>1, <1>7, <1>10, <1>12 DEF Root
<1>24. /\ FitsOf(grammar', Len(buffers'), Len(frames'), Len(nodes'), request'.limits.depth, stack')
       /\ FramesFit(Len(nodes'), frames') /\ NodesFit(request'.limits.depth, nodes')
       /\ SinksFit(request'.limits, buffers', sinkScalars', scalars')
       /\ BudgetFits(request'.limits, frames', choices', expansions', words')
       /\ ResultFits(request'.limits, result')
       /\ SlotsOf(grammar', frames', stack') /\ SpansOf(buffers', stack')
       /\ MessagesOf(MessageEffects(grammar'), buffers'[Root], message', stack')
  BY <1>1, <1>5, <1>7, <1>14, <1>15, <1>16, <1>17, <1>18, <1>19, <1>20, <1>21, <1>22, <1>23
<1>25. outcome' \in {"running", "formatter-required"}
       /\ (outcome' = "running" => ~ (request'.api = "weighted" /\ 1 \in MessageEffects(grammar')))
  BY <1>1
<1>26. OutcomesForeseen' /\ IsCompiled' /\ RequestFits(request)'
  <2>1. OutcomesForeseen'
    BY <1>25 DEF OutcomesForeseen, NoInternalError, MessagesAreForeseen
  <2>2. IsCompiled'
    BY <1>1, <1>2 DEF IsCompiled
  <2>3. QED
    BY <1>4, <2>1, <2>2
<1>27. outcome' \notin {"source", "compiled"}
  BY <1>25
<1>28. Started'
  BY <1>24, <1>25, <1>26, <1>27 DEF Started
<1>29. authored' \in Authored
  BY <1>1
<1>30. QED
  BY <1>28, <1>29 DEF IInv

(* The handler of a work item, or the end of the request.                   *)
LEMMA MachineKeeps ==
  ASSUME authored \in Authored, Started, Machine
  PROVE  Started' /\ authored' \in Authored
<1>1. authored' = authored
  BY DEF Machine, RefuseExpansion, ExhaustSampler, Fail, Expand, Chosen, FinishProduction, StartBinding,
         FinishBinding, StartBody, EndBody, EmitLiteral, EmitValue, Emit, CallRule, StartCapture,
         FinishCapture, SelectMessage, Complete
<1>2. CASE RefuseExpansion
  BY <1>1, <1>2, RefuseKeeps
<1>3. CASE ExhaustSampler
  BY <1>1, <1>3, ExhaustKeeps
<1>4. CASE Expand
  BY <1>1, <1>4, ExpandKeeps
<1>5. CASE FinishProduction
  BY <1>1, <1>5, FinishProductionKeeps
<1>6. CASE StartBinding
  BY <1>1, <1>6, StartBindingKeeps
<1>7. CASE FinishBinding
  BY <1>1, <1>7, FinishBindingKeeps
<1>8. CASE StartBody
  BY <1>1, <1>8, StartBodyKeeps
<1>9. CASE EndBody
  BY <1>1, <1>9, EndBodyKeeps
<1>10. CASE EmitLiteral
  BY <1>1, <1>10, EmitLiteralKeeps
<1>11. CASE EmitValue
  BY <1>1, <1>11, EmitValueKeeps
<1>12. CASE CallRule
  BY <1>1, <1>12, CallRuleKeeps
<1>13. CASE StartCapture
  BY <1>1, <1>13, StartCaptureKeeps
<1>14. CASE FinishCapture
  BY <1>1, <1>14, FinishCaptureKeeps
<1>15. CASE SelectMessage
  BY <1>1, <1>15, SelectMessageKeeps
<1>16. CASE Complete
  BY <1>1, <1>16, CompleteKeeps
<1>17. QED
  BY <1>2, <1>3, <1>4, <1>5, <1>6, <1>7, <1>8, <1>9, <1>10, <1>11, <1>12, <1>13, <1>14, <1>15, <1>16
     DEF Machine

(* The invariant is inductive.                                              *)
LEMMA StepKeeps ==
  ASSUME IInv, [Next]_vars
  PROVE  IInv'
<1>1. authored \in Authored
  BY DEF IInv
<1>2. CASE NotStarted /\ Compiling
  <2>1. outcome \in {"source", "compiled", "refused"} /\ stack = <<>>
    BY <1>2 DEF NotStarted, Compiling
  <2>2. ~ Machine
    BY <2>1 DEF Machine, Running, AtPart, RefuseExpansion, ExhaustSampler, Expand, FinishProduction,
                StartBinding, FinishBinding, StartBody, EndBody, EmitLiteral, EmitValue, CallRule,
                StartCapture, FinishCapture, SelectMessage, Complete
  <2>3. \A text, valid : ~ Format(text, valid)
    BY <2>1 DEF Format
  <2>4. CASE Compile
    BY <1>1, <1>2, <2>4, CompileKeeps
  <2>5. ASSUME NEW api \in {"weighted", "structural", "formatter"}, NEW locale \in {"none", "valid", "invalid"},
               NEW r \in Requests(authored), Begin(api, locale, r.limits, r.data)
        PROVE  IInv'
    BY <1>1, <1>2, <2>5, BeginKeeps
  <2>6. CASE UNCHANGED vars
    <3>1. NotStarted' /\ authored' = authored
      BY <1>2, <2>6 DEF vars, run, NotStarted
    <3>2. Compiling'
      BY <1>2, <2>6 DEF vars, run, Compiling, IsCompiled
    <3>3. QED
      BY <1>1, <1>2, <3>1, <3>2 DEF IInv
  <2>7. QED
    BY <2>2, <2>3, <2>4, <2>5, <2>6 DEF Next
<1>3. CASE Started
  <2>1. outcome \notin {"source", "compiled"}
    BY <1>3 DEF Started
  <2>2. ~ Compile /\ \A api, locale, limits, data : ~ Begin(api, locale, limits, data)
    BY <2>1 DEF Compile, Begin
  <2>3. CASE Machine
    BY <1>1, <1>3, <2>3, MachineKeeps DEF IInv
  <2>4. ASSUME NEW text \in Formatted, NEW valid \in BOOLEAN, Format(text, valid) PROVE IInv'
    <3>1. Started'
      BY <1>1, <1>3, <2>4, FormatKeeps
    <3>2. authored' = authored
      BY <2>4 DEF Format, Fail
    <3>3. QED
      BY <1>1, <3>1, <3>2 DEF IInv
  <2>5. CASE UNCHANGED vars
    <3>1. UNCHANGED <<authored, grammar, request, outcome, stack, buffers, sinkScalars, frames, scalars,
                      expansions, words, message, nodes, choices, result>>
      BY <2>5 DEF vars, run
    <3>2. IsCompiled' /\ OutcomesForeseen'
      BY <1>3, <3>1 DEF Started, IsCompiled, OutcomesForeseen, NoInternalError, MessagesAreForeseen
    <3>3. Started'
      BY <1>3, <3>1, <3>2 DEF Started
    <3>4. QED
      BY <1>1, <3>1, <3>3 DEF IInv
  <2>6. QED
    BY <2>2, <2>3, <2>4, <2>5 DEF Next
<1>4. QED
  BY <1>2, <1>3 DEF IInv

(* In every state of a request the work stack, the frames, the sinks and    *)
(* the nodes are as execute_rules relies on: each owner of a frame has      *)
(* bound exactly the slots it has passed, or has what fills the next one    *)
(* directly above it; every start lies within its sink; and exactly one     *)
(* item is to select the message of a message rule.                         *)
THEOREM GeneratorInvariant == Spec => []IInv
<1>1. Init => IInv
  BY InitIsSound
<1>2. IInv /\ [Next]_vars => IInv'
  BY StepKeeps
<1>3. QED
  BY <1>1, <1>2, PTL DEF Spec

(* It excludes the internal errors.                                         *)
LEMMA InvariantForesees ==
  ASSUME IInv
  PROVE  OutcomesForeseen
<1>1. CASE NotStarted /\ Compiling
  BY <1>1 DEF NotStarted, Compiling, OutcomesForeseen, NoInternalError, MessagesAreForeseen
<1>2. CASE Started
  BY <1>2 DEF Started
<1>3. QED
  BY <1>1, <1>2 DEF IInv

(* It counts exactly.                                                       *)
LEMMA InvariantAccounts ==
  ASSUME IInv
  PROVE  Accounting
<1>1. authored \in Authored
  BY DEF IInv
<1>2. CASE NotStarted
  <2>1. <<>> \in Text
    BY BytesOfNothing
  <2>2. TypeOK
    BY <1>1, <1>2, <2>1 DEF NotStarted, TypeOK
  <2>3. Total(sinkScalars) <= scalars
    <3>1. sinkScalars = <<>> /\ <<>> \in Seq(Nat)
      BY <1>2 DEF NotStarted
    <3>2. Total(<<>>) = 0
      <4>1. PICK t : Sums(<<>>, t) /\ Total(<<>>) = t[Len(<<>>)]
        BY <3>1, TotalIs
      <4>2. QED
        BY <4>1 DEF Sums
    <3>3. QED
      BY <1>2, <3>1, <3>2 DEF NotStarted
  <2>4. request.api = "none" /\ DOMAIN sinkScalars = DOMAIN buffers
    BY <1>2 DEF NotStarted
  <2>5. (\A s \in DOMAIN buffers : sinkScalars[s] = Len(buffers[s]))
        /\ Len(frames) = expansions /\ Len(choices) = expansions /\ expansions <= words
    BY <1>2 DEF NotStarted
  <2>6. QED
    BY <2>2, <2>3, <2>4, <2>5 DEF Accounting
<1>3. CASE Started
  <2>1. /\ FitsOf(grammar, Len(buffers), Len(frames), Len(nodes), request.limits.depth, stack)
        /\ FramesFit(Len(nodes), frames) /\ NodesFit(request.limits.depth, nodes)
        /\ SinksFit(request.limits, buffers, sinkScalars, scalars)
        /\ BudgetFits(request.limits, frames, choices, expansions, words)
        /\ ResultFits(request.limits, result)
    BY <1>3 DEF Started
  <2>2. /\ buffers \in Seq(Text) /\ sinkScalars \in Seq(Nat) /\ Len(sinkScalars) = Len(buffers)
        /\ \A s \in DOMAIN buffers : sinkScalars[s] = Len(buffers[s])
        /\ scalars \in Nat /\ Total(sinkScalars) <= scalars /\ scalars <= request.limits.scalars
        /\ \A s \in DOMAIN buffers : Bytes(buffers[s]) <= request.limits.bytes
    BY <2>1 DEF SinksFit
  <2>3. DOMAIN buffers = 1 .. Len(buffers) /\ DOMAIN sinkScalars = DOMAIN buffers
    BY <2>2
  <2>4. \A w \in DOMAIN stack :
          /\ stack[w].sink \in DOMAIN buffers
          /\ stack[w].op \notin {"Expand", "FinishProduction"} => stack[w].frame \in DOMAIN frames
    <3>1. ASSUME NEW w \in DOMAIN stack
          PROVE  /\ stack[w].sink \in DOMAIN buffers
                 /\ stack[w].op \notin {"Expand", "FinishProduction"} => stack[w].frame \in DOMAIN frames
      <4>1. WorkFits(grammar, Len(buffers), Len(frames), Len(nodes), request.limits.depth, stack[w])
        BY <2>1 DEF FitsOf
      <4>2. stack[w].sink \in 1 .. Len(buffers)
            /\ stack[w].op \in {"Expand", "FinishProduction"} \cup Owners \cup Fillers
        BY <4>1 DEF WorkFits
      <4>3. stack[w].op \in Owners \cup Fillers => stack[w].frame \in 1 .. Len(frames)
        BY <4>1 DEF WorkFits
      <4>4. DOMAIN frames = 1 .. Len(frames)
        BY <2>1 DEF FramesFit
      <4>5. QED
        BY <2>3, <4>2, <4>3, <4>4
    <3>2. QED
      BY <3>1
  <2>5. /\ \A f \in DOMAIN frames : Len(frames[f].values) = Len(frames[f].origins)
        /\ \A n \in DOMAIN nodes : nodes[n].parent \in 0 .. n - 1 /\ nodes[n].depth <= request.limits.depth
        /\ \A s \in DOMAIN buffers : buffers[s] \in Text
    BY <2>1, <2>2 DEF FramesFit, NodesFit
  <2>6. /\ expansions \in Nat /\ words \in Nat /\ Len(frames) = expansions /\ Len(choices) = expansions
        /\ expansions <= words /\ expansions <= request.limits.expansions /\ words <= request.limits.words
    BY <2>1 DEF BudgetFits
  <2>7. result \in Text /\ Len(result) <= request.limits.scalars /\ Bytes(result) <= request.limits.bytes
    BY <2>1 DEF ResultFits
  <2>8. TypeOK
    BY <1>1, <2>2, <2>4, <2>5, <2>6, <2>7 DEF TypeOK
  <2>9. QED
    BY <2>2, <2>3, <2>5, <2>6, <2>7, <2>8 DEF Accounting
<1>4. QED
  BY <1>2, <1>3 DEF IInv

(* In every state of every request, whatever the package, its inputs and    *)
(* the limits: each sink holds as many scalars as its counter says, the     *)
(* counters never add up to more than the budget has been charged, there is *)
(* one frame and one selection per expansion, and no limit of the request   *)
(* (depth, expansions, scalars, bytes, selection words) is ever exceeded,   *)
(* in a temporary sink or in the result. This is the bookkeeping of         *)
(* execute_rules, emit and the expansion budget, which only ever adds.      *)
THEOREM AccountingAlways == Spec => []Accounting
<1>1. IInv => Accounting
  BY InvariantAccounts
<1>2. QED
  BY <1>1, GeneratorInvariant, PTL

(* What an accepted package runs into is what its lowering allows: no       *)
(* request ends with a slot filled out of order, an unbound name, a wrong   *)
(* arity, a capture past the end of its sink or a message mixed with text,  *)
(* and it ends as a message exactly if validate_message_effects calls its   *)
(* first rule a message. The generator reports these as errors of its own;  *)
(* the theorem says that its checks can never fire.                         *)
THEOREM OutcomesForeseenAlways == Spec => []OutcomesForeseen
<1>1. IInv => OutcomesForeseen
  BY InvariantForesees
<1>2. QED
  BY <1>1, GeneratorInvariant, PTL

-----------------------------------------------------------------------------
(* The analyses of the compiler against the run.  First what their fixed    *)
(* points are closed under, then what the run keeps: the lineage of the     *)
(* nodes, and what each production still owes its sink.                     *)

(* Fixed points. *)

(* A chain of subsets of a finite set, each determined by the one before,   *)
(* stands still after as many steps as there are elements.                  *)
Determined(W, F, n) ==
  /\ W \in [0 .. n + 1 -> SUBSET F]
  /\ \A k \in 0 .. n : W[k] \subseteq W[k + 1]
  /\ \A j, k \in 0 .. n : W[j] = W[k] => W[j + 1] = W[k + 1]

(* Somewhere it stands still, since it can't grow by one element each time. *)
LEMMA ChainStops ==
  ASSUME NEW F, IsFiniteSet(F), NEW n \in Nat, Cardinality(F) = n, NEW W, Determined(W, F, n)
  PROVE  W[n + 1] = W[n]
<1> USE DEF Determined
<1>1. \A k \in 0 .. n + 1 : IsFiniteSet(W[k]) /\ Cardinality(W[k]) \in Nat /\ Cardinality(W[k]) <= n
  BY FS_Subset, FS_CardinalityType
<1>2. PICK k \in 0 .. n : W[k + 1] = W[k]
  <2> SUFFICES ASSUME \A k \in 0 .. n : W[k + 1] # W[k] PROVE FALSE
    OBVIOUS
  <2> DEFINE T == {k \in 0 .. n + 1 : Cardinality(W[k]) >= k}
  <2>1. 0 \in T
    BY <1>1
  <2>2. ASSUME NEW k \in 0 .. n + 1, k \in T, k < n + 1 PROVE k + 1 \in T
    <3>1. k \in 0 .. n /\ k + 1 \in 0 .. n + 1
      BY <2>2
    <3>2. PICK a, b : a = W[k] /\ b = W[k + 1]
      OBVIOUS
    <3>3. Cardinality(W[k]) <= Cardinality(W[k + 1]) /\ Cardinality(W[k + 1]) # Cardinality(W[k])
      <4>1. IsFiniteSet(b) /\ a \in SUBSET b /\ a # b
        BY <1>1, <3>1, <3>2
      <4>2. Cardinality(a) <= Cardinality(b) /\ Cardinality(b) # Cardinality(a)
        BY ONLY <4>1, FS_Subset
      <4>3. QED
        BY <3>2, <4>2
    <3>4. Cardinality(W[k]) \in Nat /\ Cardinality(W[k + 1]) \in Nat /\ Cardinality(W[k]) >= k
      BY <1>1, <2>2, <3>1
    <3>5. QED
      BY <3>1, <3>3, <3>4
  <2>3. \A k \in 0 .. n + 1 : k \in T
    <3> HIDE DEF T
    <3>1. n + 1 \in Nat
      OBVIOUS
    <3>2. QED
      BY <2>1, <2>2, <3>1, StepByStep
  <2>4. Cardinality(W[n + 1]) >= n + 1
    BY <2>3
  <2>5. QED
    BY <1>1, <2>4
<1>3. \A j \in 0 .. n + 1 : j >= k => W[j] = W[k]
  <2> DEFINE T == {j \in 0 .. n + 1 : j >= k => W[j] = W[k]}
  <2>1. 0 \in T
    BY <1>2
  <2>2. ASSUME NEW j \in 0 .. n + 1, j \in T, j < n + 1 PROVE j + 1 \in T
    <3>1. CASE j >= k
      <4>1. W[j] = W[k] /\ j \in 0 .. n
        BY <2>2, <3>1
      <4>2. W[j + 1] = W[k + 1]
        BY <4>1
      <4>3. QED
        BY <1>2, <2>2, <4>2
    <3>2. CASE j < k
      BY <2>2, <3>2
    <3>3. QED
      BY <3>1, <3>2
  <2>3. \A j \in 0 .. n + 1 : j \in T
    <3> HIDE DEF T
    <3>1. n + 1 \in Nat
      OBVIOUS
    <3>2. QED
      BY <2>1, <2>2, <3>1, StepByStep
  <2>4. QED
    BY <2>3
<1>4. QED
  BY <1>3

(* A step on the subsets of D that makes more of more. *)
Monotone(D, step) ==
  /\ step \in [SUBSET D -> SUBSET D]
  /\ \A S, T \in SUBSET D : S \subseteq T => step[S] \subseteq step[T]

(* n rounds, from nothing. *)
Rounds(D, step, n, f) ==
  /\ f[0] = {}
  /\ \A k \in 1 .. n : f[k - 1] \in SUBSET D => f[k] = step[f[k - 1]]

(* As many rounds as there are elements reach a fixed point. *)
LEMMA RoundsClose ==
  ASSUME NEW n \in Nat, NEW D, IsFiniteSet(D), Cardinality(D) = n,
         NEW step, Monotone(D, step), NEW f, Rounds(D, step, n, f)
  PROVE  f[n] \in SUBSET D /\ step[f[n]] = f[n]
<1> DEFINE g == [k \in 0 .. n + 1 |-> IF k <= n THEN f[k] ELSE step[f[n]]]
<1>1. \A k \in 0 .. n : f[k] \in SUBSET D
  <2> DEFINE T == {k \in 0 .. n : f[k] \in SUBSET D}
  <2>1. 0 \in T
    BY DEF Rounds
  <2>2. ASSUME NEW k \in 0 .. n, k \in T, k < n PROVE k + 1 \in T
    <3>1. k + 1 \in 1 .. n /\ (k + 1) - 1 = k /\ f[k] \in SUBSET D
      BY <2>2
    <3>2. f[k + 1] = step[f[k]]
      BY <3>1 DEF Rounds
    <3>3. QED
      BY <3>1, <3>2 DEF Monotone
  <2>3. \A k \in 0 .. n : k \in T
    <3> HIDE DEF T
    <3>1. QED
      BY <2>1, <2>2, StepByStep
  <2>4. QED
    BY <2>3
<1>2. \A k \in 0 .. n : k \in 0 .. n + 1 /\ k + 1 \in 0 .. n + 1 /\ g[k] = f[k] /\ g[k + 1] = step[f[k]]
  <2> SUFFICES ASSUME NEW k \in 0 .. n
               PROVE  k \in 0 .. n + 1 /\ k + 1 \in 0 .. n + 1 /\ g[k] = f[k] /\ g[k + 1] = step[f[k]]
    OBVIOUS
  <2>1. k \in 0 .. n + 1 /\ k + 1 \in 0 .. n + 1 /\ k <= n
    OBVIOUS
  <2>2. CASE k = n
    BY <2>1, <2>2
  <2>3. CASE k # n
    <3>1. k + 1 \in 1 .. n /\ (k + 1) - 1 = k /\ k + 1 <= n
      BY <2>1, <2>3
    <3>2. f[k + 1] = step[f[k]]
      BY <1>1, <3>1 DEF Rounds
    <3>3. QED
      BY <2>1, <3>1, <3>2
  <2>4. QED
    BY <2>2, <2>3
<1>3. g \in [0 .. n + 1 -> SUBSET D]
  <2>1. step[f[n]] \in SUBSET D
    BY <1>1 DEF Monotone
  <2>2. \A k \in 0 .. n + 1 : k <= n => k \in 0 .. n
    OBVIOUS
  <2>3. QED
    BY <1>1, <2>1, <2>2
<1> HIDE DEF g
<1>4. \A k \in 0 .. n : g[k + 1] = step[g[k]] /\ g[k] \in SUBSET D
  BY <1>1, <1>2
<1>5. \A k \in 0 .. n : g[k] \subseteq g[k + 1]
  <2> DEFINE T == {k \in 0 .. n : g[k] \subseteq g[k + 1]}
  <2>1. 0 \in T
    BY <1>2 DEF Rounds
  <2>2. ASSUME NEW k \in 0 .. n, k \in T, k < n PROVE k + 1 \in T
    <3>1. k + 1 \in 0 .. n
      BY <2>2
    <3>2. g[k] \subseteq g[k + 1] /\ g[k] \in SUBSET D /\ g[k + 1] \in SUBSET D
      BY <1>4, <2>2, <3>1
    <3>3. step[g[k]] \subseteq step[g[k + 1]]
      BY <3>2 DEF Monotone
    <3>4. QED
      BY <1>4, <3>1, <3>3
  <2>3. \A k \in 0 .. n : k \in T
    <3> HIDE DEF T
    <3>1. QED
      BY <2>1, <2>2, StepByStep
  <2>4. QED
    BY <2>3
<1>6. Determined(g, D, n)
  BY <1>3, <1>4, <1>5 DEF Determined
<1>7. g[n + 1] = g[n]
  BY <1>6, ChainStops
<1>8. QED
  BY <1>1, <1>2, <1>7

-----------------------------------------------------------------------------
(* The analyses.                                                            *)

(* One round of nullable_rules. *)
MayVanish(p) == \A j \in DOMAIN p.parts : p.parts[j].kind \notin {"literal", "message"}

VanishRound(rules, S) ==
  {r \in DOMAIN rules : \E i \in DOMAIN rules[r].productions :
     MayVanish(rules[r].productions[i]) /\ BodyRules(rules[r].productions[i]) \subseteq S}

(* More rules make more rules nullable.                                     *)
LEMMA VanishesMore ==
  ASSUME NEW rules, NEW S, NEW T, S \subseteq T
  PROVE  VanishRound(rules, S) \subseteq VanishRound(rules, T)
BY DEF VanishRound

(* Nullable is a fixed point of its rounds. *)
LEMMA NullableIs ==
  ASSUME NEW rules, IsList(rules)
  PROVE  VanishRound(rules, Nullable(rules)) = Nullable(rules)
<1>1. PICK n \in Nat : n = Len(rules) /\ DOMAIN rules = 1 .. n
  BY ListIs
<1> DEFINE D == DOMAIN rules
           U == SUBSET D
           step == [S \in U |-> VanishRound(rules, S)]
           steps == [k \in 1 .. n |-> step]
           Rec(f) == [k \in 0 .. n |-> IF k = 0 THEN {} ELSE VanishRound(rules, f[k - 1])]
<1>2. \A S \in U : VanishRound(rules, S) \in U
  BY DEF VanishRound
<1>3. step \in [U -> U] /\ \A S \in U : step[S] = VanishRound(rules, S)
  <2> HIDE DEF U
  <2>1. QED
    BY <1>2
<1>4. {} \in U /\ steps \in [1 .. n -> [U -> U]] /\ \A k \in 1 .. n : steps[k] = step
  <2> HIDE DEF step
  <2>1. QED
    BY <1>3
<1> HIDE DEF U, steps, step
<1>5. PICK w : RunOf(w, U, {}, steps, n)
  BY <1>4, RunsExist
<1>6. w = Rec(w)
  <2>1. ASSUME NEW k \in 0 .. n PROVE w[k] = IF k = 0 THEN {} ELSE VanishRound(rules, w[k - 1])
    <3>1. CASE k = 0
      BY <1>5, <3>1 DEF RunOf
    <3>2. CASE k # 0
      <4>1. k \in 1 .. n /\ k - 1 \in 0 .. n
        BY <3>2
      <4>2. w[k - 1] \in U /\ w[k] = steps[k][w[k - 1]]
        BY <1>5, <4>1 DEF RunOf
      <4>3. QED
        BY <1>3, <1>4, <3>2, <4>1, <4>2
    <3>3. QED
      BY <3>1, <3>2
  <2>2. w = [k \in 0 .. n |-> w[k]]
    BY <1>5 DEF RunOf
  <2>3. QED
    BY <2>1, <2>2
<1>7. Nullable(rules) = LET after == CHOOSE f : f = Rec(f) IN after[n]
  BY <1>1 DEF Nullable, Fixpoint, VanishRound, MayVanish
<1>8. PICK f : Nullable(rules) = f[n] /\ f = Rec(f)
  <2> HIDE DEF Rec
  <2>1. QED
    BY <1>6, <1>7
<1>9. f[0] = {} /\ \A k \in 1 .. n : f[k] = VanishRound(rules, f[k - 1])
  <2>1. 0 \in 0 .. n /\ \A k \in 1 .. n : k \in 0 .. n /\ k # 0
    OBVIOUS
  <2>2. QED
    BY <1>8, <2>1
<1>10. Rounds(D, step, n, f)
  BY <1>3, <1>9 DEF Rounds, U
<1>11. Monotone(D, step)
  BY <1>3, VanishesMore DEF Monotone, U
<1>12. IsFiniteSet(D) /\ Cardinality(D) = n
  BY <1>1, UpToIs
<1>13. f[n] \in U /\ step[f[n]] = f[n]
  <2> HIDE DEF D
  <2>1. QED
    BY <1>10, <1>11, <1>12, RoundsClose DEF U
<1>14. QED
  BY <1>3, <1>8, <1>13

(* One round of reachability. *)
ReachRound(rules, sources, S) == sources \cup S \cup UNION {Edges(rules, r) : r \in S}

(* A rule mentions rules that exist. *)
LEMMA EdgesKnown ==
  ASSUME NEW rules, LoweredRules(rules), NEW r \in DOMAIN rules
  PROVE  Edges(rules, r) \subseteq DOMAIN rules
<1> SUFFICES ASSUME NEW i \in DOMAIN rules[r].productions
             PROVE  BodyRules(rules[r].productions[i]) \cup BindingRules(rules[r].productions[i])
                      \subseteq DOMAIN rules
  BY DEF Edges
<1>1. LoweredProduction(rules, rules[r].productions[i])
  BY DEF LoweredRules
<1>2. QED
  BY <1>1 DEF LoweredProduction, LoweredPart, BodyRules, BindingRules, HasRule

(* More rules reach more.                                                   *)
LEMMA ReachesMore ==
  ASSUME NEW rules, NEW sources, NEW S, NEW T, S \subseteq T
  PROVE  ReachRound(rules, sources, S) \subseteq ReachRound(rules, sources, T)
BY DEF ReachRound

(* What is reachable from some rules is closed under what rules mention. *)
LEMMA ReachesIs ==
  ASSUME NEW rules, LoweredRules(rules), NEW sources, sources \subseteq DOMAIN rules
  PROVE  /\ ReachableFrom(rules, sources) \subseteq DOMAIN rules
         /\ sources \subseteq ReachableFrom(rules, sources)
         /\ \A r \in ReachableFrom(rules, sources) :
              Edges(rules, r) \subseteq ReachableFrom(rules, sources)
<1>1. PICK n \in Nat : n = Len(rules) /\ DOMAIN rules = 1 .. n
  BY ListIs DEF LoweredRules
<1> DEFINE D == DOMAIN rules
           U == SUBSET D
           step == [S \in U |-> ReachRound(rules, sources, S)]
           steps == [k \in 1 .. n |-> step]
           Rec(f) == [k \in 0 .. n |-> IF k = 0 THEN {} ELSE ReachRound(rules, sources, f[k - 1])]
<1>2. \A S \in U : ReachRound(rules, sources, S) \in U
  BY EdgesKnown DEF ReachRound
<1>3. step \in [U -> U] /\ \A S \in U : step[S] = ReachRound(rules, sources, S)
  <2> HIDE DEF U
  <2>1. QED
    BY <1>2
<1>4. {} \in U /\ steps \in [1 .. n -> [U -> U]] /\ \A k \in 1 .. n : steps[k] = step
  <2> HIDE DEF step
  <2>1. QED
    BY <1>3
<1> HIDE DEF U, steps, step
<1>5. PICK w : RunOf(w, U, {}, steps, n)
  BY <1>4, RunsExist
<1>6. w = Rec(w)
  <2>1. ASSUME NEW k \in 0 .. n PROVE w[k] = IF k = 0 THEN {} ELSE ReachRound(rules, sources, w[k - 1])
    <3>1. CASE k = 0
      BY <1>5, <3>1 DEF RunOf
    <3>2. CASE k # 0
      <4>1. k \in 1 .. n /\ k - 1 \in 0 .. n
        BY <3>2
      <4>2. w[k - 1] \in U /\ w[k] = steps[k][w[k - 1]]
        BY <1>5, <4>1 DEF RunOf
      <4>3. QED
        BY <1>3, <1>4, <3>2, <4>1, <4>2
    <3>3. QED
      BY <3>1, <3>2
  <2>2. w = [k \in 0 .. n |-> w[k]]
    BY <1>5 DEF RunOf
  <2>3. QED
    BY <2>1, <2>2
<1>7. ReachableFrom(rules, sources) = LET after == CHOOSE f : f = Rec(f) IN after[n]
  BY <1>1 DEF ReachableFrom, Fixpoint, ReachRound
<1>8. PICK f : ReachableFrom(rules, sources) = f[n] /\ f = Rec(f)
  <2> HIDE DEF Rec
  <2>1. QED
    BY <1>6, <1>7
<1>9. f[0] = {} /\ \A k \in 1 .. n : f[k] = ReachRound(rules, sources, f[k - 1])
  <2>1. 0 \in 0 .. n /\ \A k \in 1 .. n : k \in 0 .. n /\ k # 0
    OBVIOUS
  <2>2. QED
    BY <1>8, <2>1
<1>10. Rounds(D, step, n, f)
  BY <1>3, <1>9 DEF Rounds, U
<1>11. Monotone(D, step)
  BY <1>3, ReachesMore DEF Monotone, U
<1>12. IsFiniteSet(D) /\ Cardinality(D) = n
  BY <1>1, UpToIs
<1>13. f[n] \in U /\ step[f[n]] = f[n]
  <2> HIDE DEF D
  <2>1. QED
    BY <1>10, <1>11, <1>12, RoundsClose DEF U
<1>14. QED
  <2>1. ReachableFrom(rules, sources) = f[n] /\ ReachRound(rules, sources, f[n]) = f[n] /\ f[n] \subseteq D
    BY <1>3, <1>8, <1>13 DEF U
  <2>2. QED
    BY <2>1 DEF ReachRound

-----------------------------------------------------------------------------
(* Who expanded whom.                                                       *)

Own(ns, m) == IF ns[m].kind = "production" THEN {m} ELSE {}

(* f holds the production nodes above each of the first n nodes. *)
AboveOf(ns, n, f) ==
  /\ f = [m \in 0 .. n |-> f[m]] /\ f[0] = {}
  /\ \A m \in 1 .. n : f[m] = f[ns[m].parent] \cup Own(ns, m)

(* Since a node comes after its parent, the nodes above it can be found. *)
LEMMA AboveExists ==
  ASSUME NEW n \in Nat, NEW ns, \A m \in 1 .. n : ns[m].parent \in 0 .. m - 1
  PROVE  \E f : AboveOf(ns, n, f)
<1> DEFINE U == [0 .. n -> SUBSET Nat]
           Put(k, g) == [g EXCEPT ![k] = g[ns[k].parent] \cup Own(ns, k)]
           step == [k \in 1 .. n |-> [g \in U |-> Put(k, g)]]
           start == [m \in 0 .. n |-> {}]
<1>1. start \in U /\ \A m \in 0 .. n : start[m] = {}
  OBVIOUS
<1>2. \A k \in 1 .. n, g \in U :
        /\ [g EXCEPT ![k] = g[ns[k].parent] \cup Own(ns, k)] \in U
        /\ [g EXCEPT ![k] = g[ns[k].parent] \cup Own(ns, k)][k] = g[ns[k].parent] \cup Own(ns, k)
        /\ \A m \in 0 .. n : m # k => [g EXCEPT ![k] = g[ns[k].parent] \cup Own(ns, k)][m] = g[m]
  <2> SUFFICES ASSUME NEW k \in 1 .. n, NEW g \in U
               PROVE  /\ [g EXCEPT ![k] = g[ns[k].parent] \cup Own(ns, k)] \in U
                      /\ [g EXCEPT ![k] = g[ns[k].parent] \cup Own(ns, k)][k] = g[ns[k].parent] \cup Own(ns, k)
                      /\ \A m \in 0 .. n : m # k => [g EXCEPT ![k] = g[ns[k].parent] \cup Own(ns, k)][m] = g[m]
    OBVIOUS
  <2>1. k \in 0 .. n /\ k \in Nat /\ ns[k].parent \in 0 .. n
    OBVIOUS
  <2>2. PICK x : x = g[ns[k].parent] \cup Own(ns, k)
    OBVIOUS
  <2>3. x \in SUBSET Nat
    BY <2>1, <2>2 DEF Own
  <2>4. /\ [g EXCEPT ![k] = x] \in U /\ [g EXCEPT ![k] = x][k] = x
        /\ \A m \in 0 .. n : m # k => [g EXCEPT ![k] = x][m] = g[m]
    BY <2>1, <2>3
  <2>5. QED
    BY <2>2, <2>4
<1>3. /\ \A k \in 1 .. n, g \in U : Put(k, g) \in U
      /\ \A k \in 1 .. n, g \in U :
           /\ Put(k, g)[k] = g[ns[k].parent] \cup Own(ns, k)
           /\ \A m \in 0 .. n : m # k => Put(k, g)[m] = g[m]
  BY <1>2
<1> HIDE DEF Put
<1>4. /\ step \in [1 .. n -> [U -> U]]
      /\ \A k \in 1 .. n, g \in U : step[k][g] = Put(k, g)
  <2> HIDE DEF U
  <2>1. QED
    BY <1>3
<1> HIDE DEF step, start, U
<1>5. PICK w : RunOf(w, U, start, step, n)
  BY <1>1, <1>4, RunsExist
<1>6. \A k \in 0 .. n : w[k] \in U
  BY <1>5 DEF RunOf
<1>7. \A k \in 1 .. n :
        /\ w[k][k] = w[k - 1][ns[k].parent] \cup Own(ns, k)
        /\ \A m \in 0 .. n : m # k => w[k][m] = w[k - 1][m]
  <2> SUFFICES ASSUME NEW k \in 1 .. n
               PROVE  /\ w[k][k] = w[k - 1][ns[k].parent] \cup Own(ns, k)
                      /\ \A m \in 0 .. n : m # k => w[k][m] = w[k - 1][m]
    OBVIOUS
  <2>1. k - 1 \in 0 .. n
    OBVIOUS
  <2>2. PICK g : g = w[k - 1]
    OBVIOUS
  <2>3. w[k] = step[k][g] /\ g \in U
    BY <1>5, <1>6, <2>1, <2>2 DEF RunOf
  <2>4. w[k] = Put(k, g)
    BY <1>4, <2>3
  <2>5. w[k][k] = g[ns[k].parent] \cup Own(ns, k) /\ \A m \in 0 .. n : m # k => w[k][m] = g[m]
    BY <1>3, <2>3, <2>4
  <2>6. QED
    BY <2>2, <2>5
<1> DEFINE T == {k \in 0 .. n : \A j \in 0 .. k : \A m \in 0 .. j : w[k][m] = w[j][m]}
<1>8. \A k \in 0 .. n : k \in T
  <2>1. 0 \in T
    OBVIOUS
  <2>2. ASSUME NEW k \in 0 .. n, k \in T, k < n PROVE k + 1 \in T
    <3> SUFFICES ASSUME NEW j \in 0 .. k + 1, NEW m \in 0 .. j PROVE w[k + 1][m] = w[j][m]
      BY <2>2
    <3>1. CASE j = k + 1
      BY <3>1
    <3>2. CASE j # k + 1
      <4>1. j \in 0 .. k /\ m # k + 1 /\ m \in 0 .. n /\ k + 1 \in 1 .. n /\ (k + 1) - 1 = k
        BY <2>2, <3>2
      <4>2. w[k + 1][m] = w[k][m]
        BY <1>7, <4>1
      <4>3. w[k][m] = w[j][m]
        BY <2>2, <4>1
      <4>4. QED
        BY <4>2, <4>3
    <3>3. QED
      BY <3>1, <3>2
  <2>3. QED
    <3> HIDE DEF T
    <3>1. QED
      BY <2>1, <2>2, StepByStep
<1>9. n \in 0 .. n
  OBVIOUS
<1>10. \A j \in 0 .. n : \A m \in 0 .. j : w[n][m] = w[j][m]
  BY <1>8, <1>9
<1>11. PICK f : f = w[n]
  OBVIOUS
<1>12. f = [m \in 0 .. n |-> f[m]]
  BY <1>6, <1>9, <1>11 DEF U
<1>13. f[0] = {}
  <2>1. 0 \in 0 .. n /\ 0 \in 0 .. 0
    OBVIOUS
  <2>2. w[n][0] = w[0][0] /\ w[0] = start
    BY <1>5, <1>10, <2>1 DEF RunOf
  <2>3. QED
    BY <1>1, <1>11, <2>1, <2>2
<1>14. ASSUME NEW m \in 1 .. n PROVE f[m] = f[ns[m].parent] \cup Own(ns, m)
  <2>1. m \in 0 .. n /\ m \in 0 .. m /\ m - 1 \in 0 .. n /\ ns[m].parent \in 0 .. m - 1
    OBVIOUS
  <2>2. w[n][m] = w[m][m] /\ w[n][ns[m].parent] = w[m - 1][ns[m].parent]
    BY <1>10, <2>1
  <2>3. QED
    BY <1>7, <1>11, <2>2
<1>15. QED
  BY <1>12, <1>13, <1>14 DEF AboveOf

(* Expanding, for a list of nodes. *)
LEMMA ExpandingIs ==
  ASSUME NEW n \in DOMAIN nodes, IsList(nodes), \A m \in DOMAIN nodes : nodes[m].parent \in 0 .. m - 1
  PROVE  n \in Nat /\ \E f : AboveOf(nodes, n, f) /\ Expanding(n) = f[n]
<1>1. n \in Nat /\ \A m \in 1 .. n : m \in DOMAIN nodes /\ m # 0 /\ m \in 0 .. n
  BY ListIs
<1> DEFINE Rec(f) == [m \in 0 .. n |-> IF m = 0 THEN {}
                                       ELSE f[nodes[m].parent] \cup (IF nodes[m].kind = "production" THEN {m} ELSE {})]
<1>2. PICK g : AboveOf(nodes, n, g)
  BY <1>1, AboveExists
<1>3. g = Rec(g)
  <2>1. ASSUME NEW m \in 0 .. n
        PROVE  g[m] = IF m = 0 THEN {} ELSE g[nodes[m].parent] \cup (IF nodes[m].kind = "production" THEN {m} ELSE {})
    <3>1. CASE m = 0
      BY <1>2, <3>1 DEF AboveOf
    <3>2. CASE m # 0
      <4>1. m \in 1 .. n
        BY <1>1, <3>2
      <4>2. QED
        BY <1>2, <3>2, <4>1 DEF AboveOf, Own
    <3>3. QED
      BY <3>1, <3>2
  <2>2. g = [m \in 0 .. n |-> g[m]]
    BY <1>2 DEF AboveOf
  <2>3. QED
    BY <2>1, <2>2
<1>4. Expanding(n) = LET above == CHOOSE f : f = Rec(f) IN above[n]
  BY DEF Expanding
<1>5. PICK f : Expanding(n) = f[n] /\ f = Rec(f)
  <2> HIDE DEF Rec
  <2>1. QED
    BY <1>3, <1>4
<1>6. AboveOf(nodes, n, f)
  <2>1. f[0] = {}
    <3>1. 0 \in 0 .. n
      BY <1>1
    <3>2. QED
      BY <1>5, <3>1
  <2>2. f = [m \in 0 .. n |-> f[m]]
    BY <1>5
  <2>3. ASSUME NEW m \in 1 .. n PROVE f[m] = f[nodes[m].parent] \cup Own(nodes, m)
    BY <1>1, <1>5 DEF Own
  <2>4. QED
    BY <2>1, <2>2, <2>3 DEF AboveOf
<1>7. QED
  BY <1>1, <1>5, <1>6

(* Kinds of nodes that others are below, emissions of bound values apart. *)
Parents == {"production", "binding", "capture"}

(* A node is a child of the production it belongs to, and a production of   *)
(* one that mentions its rule.                                              *)
Descends(rules, ns, n) ==
  /\ ns[n].kind = "production" =>
       /\ ns[n].rule \in DOMAIN rules
       /\ ns[n].parent # None =>
            ns[ns[n].parent].kind \in Parents /\ ns[n].rule \in Edges(rules, ns[ns[n].parent].rule)
  /\ ns[n].kind \in {"binding", "capture"} =>
       /\ ns[n].parent # None
       /\ ns[ns[n].parent].kind = "production" /\ ns[ns[n].parent].rule = ns[n].rule

(* Reachable in at least one step. *)
Beyond(rules, r) == ReachableFrom(rules, Edges(rules, r))

(* S is a line of descent, m its end. *)
Line(rules, ns, S) ==
  \A i, j \in S : i < j => ns[i].rule \in DOMAIN rules /\ ns[j].rule \in Beyond(rules, ns[i].rule)

EndsAt(ns, S, m) == \E i \in S : ns[i].rule = ns[m].rule /\ \A j \in S : j <= i

Lineage(rules, ns, S, m) ==
  /\ S \subseteq 1 .. m /\ \A j \in S : ns[j].rule \in DOMAIN rules
  /\ Line(rules, ns, S)
  /\ m # None /\ ns[m].kind \in Parents => EndsAt(ns, S, m)

(* Beyond a rule are the rules it mentions, and what is beyond them.        *)
LEMMA BeyondIs ==
  ASSUME NEW rules, LoweredRules(rules), NEW r \in DOMAIN rules
  PROVE  /\ Edges(rules, r) \subseteq Beyond(rules, r)
         /\ \A x \in Beyond(rules, r) : x \in DOMAIN rules /\ Edges(rules, x) \subseteq Beyond(rules, r)
BY EdgesKnown, ReachesIs DEF Beyond

(* One generation more. *)
LEMMA LineageGrows ==
  ASSUME NEW rules, LoweredRules(rules), NEW ns, NEW m \in Nat \ {0}, Descends(rules, ns, m),
         NEW p, p = ns[m].parent, p \in 0 .. m - 1,
         NEW S, Lineage(rules, ns, S, p), p = 0 => S = {}
  PROVE  Lineage(rules, ns, S \cup Own(ns, m), m)
<1>1. S \subseteq 1 .. m - 1 /\ S \subseteq 1 .. m /\ \A j \in S : ns[j].rule \in DOMAIN rules /\ j < m /\ j \in Nat
  BY DEF Lineage
<1>2. CASE ns[m].kind = "production"
  <2>1. S \cup Own(ns, m) = S \cup {m} /\ ns[m].rule \in DOMAIN rules
    BY <1>2 DEF Own, Descends
  <2>2. ASSUME NEW i \in S PROVE ns[m].rule \in Beyond(rules, ns[i].rule)
    <3>1. p # 0 /\ ns[p].kind \in Parents /\ ns[m].rule \in Edges(rules, ns[p].rule)
      BY <1>2, <2>2 DEF Descends, None
    <3>2. PICK e \in S : ns[e].rule = ns[p].rule /\ \A j \in S : j <= e
      BY <3>1 DEF Lineage, EndsAt, None
    <3>3. i <= e /\ i \in Nat /\ e \in Nat /\ ns[i].rule \in DOMAIN rules /\ ns[e].rule \in DOMAIN rules
      BY <1>1, <3>2
    <3>4. CASE i = e
      BY <3>1, <3>2, <3>3, <3>4, BeyondIs
    <3>5. CASE i # e
      <4>1. i < e
        BY <3>3, <3>5
      <4>2. ns[e].rule \in Beyond(rules, ns[i].rule)
        BY <3>2, <4>1 DEF Lineage, Line
      <4>3. QED
        BY <3>1, <3>2, <3>3, <4>2, BeyondIs
    <3>6. QED
      BY <3>4, <3>5
  <2>3. Line(rules, ns, S \cup {m})
    <3> SUFFICES ASSUME NEW i \in S \cup {m}, NEW j \in S \cup {m}, i < j
                 PROVE  ns[i].rule \in DOMAIN rules /\ ns[j].rule \in Beyond(rules, ns[i].rule)
      BY DEF Line
    <3>1. i # m
      BY <1>1
    <3>2. CASE j = m
      BY <1>1, <2>2, <3>1, <3>2
    <3>3. CASE j # m
      BY <3>1, <3>3 DEF Lineage, Line
    <3>4. QED
      BY <3>2, <3>3
  <2>4. EndsAt(ns, S \cup {m}, m)
    <3>1. \A j \in S \cup {m} : j <= m
      BY <1>1
    <3>2. QED
      BY <3>1 DEF EndsAt
  <2>5. S \cup {m} \subseteq 1 .. m /\ \A j \in S \cup {m} : ns[j].rule \in DOMAIN rules
    BY <1>1, <2>1
  <2>6. QED
    BY <2>1, <2>3, <2>4, <2>5 DEF Lineage
<1>3. CASE ns[m].kind # "production"
  <2>1. S \cup Own(ns, m) = S
    BY <1>3 DEF Own
  <2>2. ASSUME ns[m].kind \in Parents PROVE EndsAt(ns, S, m)
    <3>1. p # 0 /\ ns[p].kind = "production" /\ ns[p].rule = ns[m].rule
      BY <1>3, <2>2 DEF Descends, Parents, None
    <3>2. EndsAt(ns, S, p)
      BY <3>1 DEF Lineage, Parents, None
    <3>3. QED
      BY <3>1, <3>2 DEF EndsAt
  <2>3. QED
    BY <1>1, <2>1, <2>2 DEF Lineage
<1>4. QED
  BY <1>2, <1>3

(* So a rule that occurs twice above a node is recursive. *)
LEMMA NoneRepeats ==
  ASSUME LoweredRules(grammar), IsList(nodes), \A m \in DOMAIN nodes : nodes[m].parent \in 0 .. m - 1,
         \A m \in DOMAIN nodes : Descends(grammar, nodes, m)
  PROVE  RecursiveIsSound
<1> SUFFICES ASSUME NEW n \in DOMAIN nodes, NEW m1 \in Expanding(n), NEW m2 \in Expanding(n),
                    nodes[m1].rule = nodes[m2].rule, m1 # m2
             PROVE  nodes[m1].rule \in Recursive(grammar)
  BY DEF RecursiveIsSound
<1>1. n \in Nat /\ \A m \in 1 .. n : m \in DOMAIN nodes /\ m \in Nat \ {0} /\ nodes[m].parent \in 0 .. m - 1
  BY ListIs
<1>2. PICK f : AboveOf(nodes, n, f) /\ Expanding(n) = f[n]
  BY ExpandingIs
<1> DEFINE T == {k \in 0 .. n : \A m \in 0 .. k : Lineage(grammar, nodes, f[m], m) /\ (m = 0 => f[m] = {})}
<1>3. 0 \in T
  <2>1. f[0] = {} /\ 0 \in 0 .. n
    BY <1>1, <1>2 DEF AboveOf
  <2>2. Lineage(grammar, nodes, {}, 0)
    BY DEF Lineage, Line, None
  <2>3. \A m \in 0 .. 0 : m = 0
    OBVIOUS
  <2>4. QED
    BY <2>1, <2>2, <2>3
<1>4. ASSUME NEW k \in 0 .. n, k \in T, k < n PROVE k + 1 \in T
  <2>1. PICK q : q = k + 1
    OBVIOUS
  <2>2. q \in 1 .. n /\ q \in 0 .. n /\ q \in Nat \ {0} /\ q - 1 = k
    BY <1>1, <1>4, <2>1
  <2>3. PICK p : p = nodes[q].parent
    OBVIOUS
  <2>4. p \in 0 .. k /\ p \in 0 .. q - 1
    BY <1>1, <2>2, <2>3
  <2>5. f[q] = f[p] \cup Own(nodes, q)
    BY <1>2, <2>2, <2>3 DEF AboveOf
  <2>6. Lineage(grammar, nodes, f[p], p) /\ (p = 0 => f[p] = {})
    BY <1>4, <2>4
  <2>7. Descends(grammar, nodes, q)
    BY <1>1, <2>2
  <2>8. Lineage(grammar, nodes, f[q], q)
    <3>1. PICK S : S = f[p]
      OBVIOUS
    <3>2. Lineage(grammar, nodes, S, p) /\ (p = 0 => S = {})
      BY <2>6, <3>1
    <3>3. Lineage(grammar, nodes, S \cup Own(nodes, q), q)
      BY ONLY LoweredRules(grammar), <2>2, <2>3, <2>4, <2>7, <3>2, LineageGrows
    <3>4. QED
      BY <2>5, <3>1, <3>3
  <2>9. \A m \in 0 .. q : m \in 0 .. k \/ (m = q /\ m # 0)
    BY <2>1, <2>2
  <2>10. \A m \in 0 .. k : Lineage(grammar, nodes, f[m], m) /\ (m = 0 => f[m] = {})
    BY <1>4
  <2>11. \A m \in 0 .. q : Lineage(grammar, nodes, f[m], m) /\ (m = 0 => f[m] = {})
    BY <2>8, <2>9, <2>10
  <2>12. QED
    BY <2>1, <2>2, <2>11
<1>5. n \in T
  <2> HIDE DEF T
  <2>1. \A k \in 0 .. n : k \in T
    BY <1>1, <1>3, <1>4, StepByStep
  <2>2. QED
    BY <1>1, <2>1
<1>6. Lineage(grammar, nodes, f[n], n)
  BY <1>1, <1>5
<1>7. ASSUME NEW i \in f[n], NEW j \in f[n], i < j, nodes[i].rule = nodes[j].rule
      PROVE  nodes[i].rule \in Recursive(grammar)
  BY <1>6, <1>7 DEF Lineage, Line, Beyond, Recursive
<1>8. m1 \in f[n] /\ m2 \in f[n] /\ m1 \in Nat /\ m2 \in Nat
  BY <1>2, <1>6 DEF Lineage
<1>9. m1 < m2 \/ m2 < m1
  BY <1>8
<1>10. QED
  BY <1>7, <1>8, <1>9

-----------------------------------------------------------------------------
(* What a rule that is not nullable owes its sink.                          *)

(* lower_parts drops empty literals. *)
LiteralsEmit(rules) ==
  \A r \in DOMAIN rules : \A i \in DOMAIN rules[r].productions :
    \A j \in DOMAIN rules[r].productions[i].parts :
      rules[r].productions[i].parts[j].kind = "literal" => rules[r].productions[i].parts[j].text # <<>>

(* What is selected is an element of the list that was to be kept.          *)
LEMMA SelectedKept ==
  ASSUME NEW s, IsList(s), NEW stay, NEW j \in DOMAIN Select(s, stay)
  PROVE  \E i \in DOMAIN s : i \in stay /\ Select(s, stay)[j] = s[i]
<1> DEFINE E == {s[i] : i \in {k \in DOMAIN s : k \in stay}}
<1>1. \A i \in DOMAIN s : i \in stay => s[i] \in E
  OBVIOUS
<1>2. \A x \in E : \E i \in DOMAIN s : i \in stay /\ x = s[i]
  OBVIOUS
<1> HIDE DEF E
<1>3. PICK n \in Nat : n = Len(s)
  BY ListIs
<1>4. PICK u \in [0 .. n -> Seq(E)] : Select(s, stay) = u[n]
  BY <1>1, <1>3, SelectRuns
<1>5. Select(s, stay) \in Seq(E)
  BY <1>4
<1>6. Select(s, stay)[j] \in E
  BY <1>5
<1>7. QED
  BY <1>2, <1>6

(* lower_parts leaves no empty literal.                                     *)
LEMMA BodyEmits ==
  ASSUME NEW p, IsList(p.parts), NEW j \in DOMAIN Body(p), Body(p)[j].kind = "literal"
  PROVE  Body(p)[j].text # <<>>
<1> DEFINE stay == {k \in DOMAIN p.parts : p.parts[k].kind # "literal" \/ p.parts[k].text # <<>>}
<1>1. Body(p) = Select(p.parts, stay)
  BY DEF Body
<1> HIDE DEF stay
<1>2. IsList(p.parts) /\ j \in DOMAIN Select(p.parts, stay)
  BY <1>1
<1>3. PICK i \in DOMAIN p.parts : i \in stay /\ Select(p.parts, stay)[j] = p.parts[i]
  BY <1>2, SelectedKept
<1>4. QED
  BY <1>1, <1>3 DEF stay

(* So no rule that runs has one.                                            *)
LEMMA CompiledEmits ==
  ASSUME authored \in Authored, IsCompiled
  PROVE  LiteralsEmit(grammar)
<1>1. grammar = Lower(authored) /\ Accepted(authored) /\ IsPackage(authored)
  BY PackageAssumption DEF IsCompiled
<1>2. Authoring(authored)
  BY <1>1 DEF Accepted, Authoring
<1> SUFFICES ASSUME NEW r \in DOMAIN Lower(authored), NEW i \in DOMAIN Lower(authored)[r].productions,
                    NEW j \in DOMAIN Lower(authored)[r].productions[i].parts,
                    Lower(authored)[r].productions[i].parts[j].kind = "literal"
             PROVE  Lower(authored)[r].productions[i].parts[j].text # <<>>
  BY <1>1 DEF LiteralsEmit
<1>3. r \in DOMAIN authored
  BY DEF Lower
<1>4. /\ DOMAIN Lower(authored)[r].productions = DOMAIN authored[r].productions
      /\ \A k \in DOMAIN authored[r].productions :
           Lower(authored)[r].productions[k] = LowerProduction(authored, authored[r], authored[r].productions[k])
  BY <1>1, <1>3, LoweredRule
<1>5. PICK p : p = authored[r].productions[i]
  OBVIOUS
<1>6. Lower(authored)[r].productions[i] = LowerProduction(authored, authored[r], p) /\ i \in DOMAIN authored[r].productions
  BY <1>4, <1>5
<1>7. j \in DOMAIN Body(p) /\ Lower(authored)[r].productions[i].parts[j] = LowerPart(authored, authored[r], p, j)
  BY <1>6 DEF LowerProduction
<1>8. SameKind(LowerPart(authored, authored[r], p, j), Body(p)[j])
  BY <1>2, <1>3, <1>5, <1>6, <1>7, LoweredPartIs
<1>9. Body(p)[j].kind = "literal"
  BY <1>7, <1>8 DEF SameKind
<1>10. LowerPart(authored, authored[r], p, j) = Body(p)[j]
  BY <1>9 DEF LowerPart
<1>11. IsList(p.parts)
  BY <1>1, <1>3, <1>5, <1>6 DEF IsPackage, IsProduction
<1>12. QED
  BY <1>7, <1>9, <1>10, <1>11, BodyEmits

(* A part that will add to its sink, or select the message. *)
Produces(rules, part) ==
  part.kind \in {"literal", "message"} \/ (HasRule(part) /\ part.rule \notin Nullable(rules))

(* Work with such a part ahead. *)
Producing(rules, w) ==
  \/ w.op = "Expand" /\ w.rule \notin Nullable(rules)
  \/ /\ w.op \in Owners
     /\ \E j \in DOMAIN rules[w.rule].productions[w.production].parts :
          /\ w.op = "Continue" => j >= w.next
          /\ Produces(rules, rules[w.rule].productions[w.production].parts[j])

(* Every production of a rule that is not nullable has such a part. *)
LEMMA MustProduce ==
  ASSUME NEW rules, IsList(rules), NEW r \in DOMAIN rules, r \notin Nullable(rules),
         NEW i \in DOMAIN rules[r].productions
  PROVE  \E j \in DOMAIN rules[r].productions[i].parts : Produces(rules, rules[r].productions[i].parts[j])
<1>1. r \notin VanishRound(rules, Nullable(rules))
  BY NullableIs
<1>2. ~ MayVanish(rules[r].productions[i]) \/ ~ (BodyRules(rules[r].productions[i]) \subseteq Nullable(rules))
  BY <1>1 DEF VanishRound
<1>3. CASE ~ MayVanish(rules[r].productions[i])
  BY <1>3 DEF MayVanish, Produces
<1>4. CASE ~ (BodyRules(rules[r].productions[i]) \subseteq Nullable(rules))
  BY <1>4 DEF BodyRules, Produces
<1>5. QED
  BY <1>2, <1>3, <1>4

(* Item k of the stack has got what its rule owes, or someone above works   *)
(* on it.                                                                   *)
Served(rules, s, k) == \E j \in DOMAIN s : j < k /\ Producing(rules, s[j]) /\ s[j].sink = s[k].sink

Owes(rules, ns, w) == w.op = "FinishProduction" /\ ns[w.node].rule \notin Nullable(rules)

Paid(ss, msg, w) == msg # <<>> \/ ss[w.sink] > w.start

Owing(rules, ns, ss, msg, s) ==
  \A k \in DOMAIN s : Owes(rules, ns, s[k]) => Paid(ss, msg, s[k]) \/ Served(rules, s, k)

WorkDescends(rules, ns, w) ==
  /\ w.op = "Expand" /\ w.parent # None =>
       ns[w.parent].kind \in Parents /\ w.rule \in Edges(rules, ns[w.parent].rule)
  /\ w.op \in Owners => ns[w.node].kind = "production" /\ ns[w.node].rule = w.rule

Family(rules, ns, s) ==
  /\ \A n \in DOMAIN ns : Descends(rules, ns, n)
  /\ \A k \in DOMAIN s : WorkDescends(rules, ns, s[k])

Analysed == Family(grammar, nodes, stack) /\ Owing(grammar, nodes, sinkScalars, message, stack)

(* Both analyses follow. *)
LEMMA AnalysedSound ==
  ASSUME authored \in Authored, Started, Analysed
  PROVE  AnalysesAreSound
<1>1. LoweredRules(grammar) /\ NodesFit(request.limits.depth, nodes)
  BY CompiledIsSound DEF Started, Sound
<1>2. IsList(nodes) /\ \A m \in DOMAIN nodes : nodes[m].parent \in 0 .. m - 1
  BY <1>1, ListOf DEF NodesFit
<1>3. RecursiveIsSound
  BY <1>1, <1>2, NoneRepeats DEF Analysed, Family
<1>4. NullableIsSound
  <2> SUFFICES ASSUME Running("FinishProduction"), nodes[Top.node].rule \notin Nullable(grammar)
               PROVE  sinkScalars[Top.sink] > Top.start \/ message # <<>>
    BY DEF NullableIsSound
  <2>1. stack # <<>> /\ Top.op = "FinishProduction"
    BY DEF Running, Top
  <2>2. Top = stack[1] /\ 1 \in DOMAIN stack /\ DOMAIN stack \subseteq Nat \ {0}
    BY <2>1, AtTop, ListIs
  <2>3. Owes(grammar, nodes, stack[1])
    BY <2>1, <2>2 DEF Owes
  <2>4. ~ Served(grammar, stack, 1)
    BY <2>2 DEF Served
  <2>5. QED
    BY <2>2, <2>3, <2>4 DEF Analysed, Owing, Paid
<1>5. QED
  BY <1>3, <1>4 DEF AnalysesAreSound

-----------------------------------------------------------------------------
(* What a step keeps of the lineage and of what is owed.                    *)

(* Nodes are only ever added; closing one changes its range. *)
SameNode(a, b) == a.kind = b.kind /\ a.rule = b.rule /\ a.parent = b.parent

SameNodes(ns, ns2) ==
  /\ IsList(ns) /\ IsList(ns2) /\ Len(ns) <= Len(ns2)
  /\ \A n \in DOMAIN ns : SameNode(ns[n], ns2[n])

(* Work refers to nodes that exist. *)
Refers(n, w) ==
  /\ w.op = "Expand" => w.parent \in 0 .. n
  /\ w.op \in Owners \cup {"FinishProduction"} => w.node \in 1 .. n

(* A node descends as it did before nodes were added or closed.             *)
LEMMA DescendsSame ==
  ASSUME NEW rules, NEW ns, NEW ns2, SameNodes(ns, ns2),
         NEW n \in DOMAIN ns, ns[n].parent \in 0 .. n - 1, Descends(rules, ns, n)
  PROVE  Descends(rules, ns2, n)
<1>1. DOMAIN ns = 1 .. Len(ns) /\ Len(ns) \in Nat
  BY ListIs DEF SameNodes
<1>2. PICK p : p = ns[n].parent
  OBVIOUS
<1>3. p # None => p \in DOMAIN ns
  BY <1>1, <1>2 DEF None
<1>4. SameNode(ns[n], ns2[n]) /\ (p # None => SameNode(ns[p], ns2[p]))
  BY <1>3 DEF SameNodes
<1>5. QED
  BY <1>2, <1>4 DEF SameNode, Descends

(* So does the work that waits.                                             *)
LEMMA WorkDescendsSame ==
  ASSUME NEW rules, NEW ns, NEW ns2, SameNodes(ns, ns2),
         NEW w, Refers(Len(ns), w), WorkDescends(rules, ns, w)
  PROVE  WorkDescends(rules, ns2, w)
<1>1. DOMAIN ns = 1 .. Len(ns) /\ Len(ns) \in Nat
  BY ListIs DEF SameNodes
<1>2. PICK p, m : p = w.parent /\ m = w.node
  OBVIOUS
<1>3. CASE w.op = "Expand"
  <2>1. p # None => p \in DOMAIN ns
    BY <1>1, <1>2, <1>3 DEF None, Refers
  <2>2. p # None => SameNode(ns[p], ns2[p])
    BY <2>1 DEF SameNodes
  <2>3. QED
    BY <1>2, <1>3, <2>2 DEF SameNode, WorkDescends, Owners
<1>4. CASE w.op \in Owners
  <2>1. m \in DOMAIN ns
    BY <1>1, <1>2, <1>4 DEF Refers
  <2>2. SameNode(ns[m], ns2[m])
    BY <2>1 DEF SameNodes
  <2>3. QED
    BY <1>2, <1>4, <2>2 DEF SameNode, WorkDescends, Owners
<1>5. QED
  BY <1>3, <1>4 DEF WorkDescends

(* A step keeps the lineage, if its new nodes and its new work descend.     *)
LEMMA FamilyKept ==
  ASSUME NEW rules, NEW ns, NEW ns2, SameNodes(ns, ns2), NEW s, IsList(s), s # <<>>, NEW ws, IsList(ws),
         Family(rules, ns, s), \A k \in DOMAIN s : Refers(Len(ns), s[k]),
         \A n \in DOMAIN ns : ns[n].parent \in 0 .. n - 1,
         \A n \in DOMAIN ns2 : n \in DOMAIN ns \/ Descends(rules, ns2, n),
         \A k \in DOMAIN ws : WorkDescends(rules, ns2, ws[k])
  PROVE  Family(rules, ns2, ws \o Tail(s))
<1>1. \A n \in DOMAIN ns2 : Descends(rules, ns2, n)
  BY DescendsSame DEF Family
<1>2. PICK t : t = ws \o Tail(s)
  OBVIOUS
<1>3. \A k \in DOMAIN t : (k \in DOMAIN ws /\ t[k] = ws[k]) \/ FromRest(s, ws, t, k)
  BY <1>2, ItemsOf
<1>4. \A k \in DOMAIN t : FromRest(s, ws, t, k) => \E i \in DOMAIN s : t[k] = s[i]
  BY DEF FromRest
<1>5. \A i \in DOMAIN s : WorkDescends(rules, ns2, s[i])
  BY WorkDescendsSame DEF Family
<1>6. \A k \in DOMAIN t : WorkDescends(rules, ns2, t[k])
  BY <1>3, <1>4, <1>5
<1>7. QED
  BY <1>1, <1>2, <1>6 DEF Family

(* A step hands on what the head was about to produce, and takes nothing    *)
(* back. *)
Handed(rules, ns2, ss, ss2, msg, msg2, s, ws) ==
  /\ msg # <<>> => msg2 # <<>>
  /\ \A k \in 2 .. Len(s) : s[k].op = "FinishProduction" => ss2[s[k].sink] >= ss[s[k].sink]
  /\ Producing(rules, s[1]) =>
       \/ msg2 # <<>>
       \/ ss2[s[1].sink] > ss[s[1].sink]
       \/ \E j \in DOMAIN ws : Producing(rules, ws[j]) /\ ws[j].sink = s[1].sink
  /\ \A k \in DOMAIN ws : Owes(rules, ns2, ws[k]) => Served(rules, ws, k)

(* A production started within its sink. *)
Began(ss, w) ==
  w.op = "FinishProduction" => w.start \in Nat /\ ss[w.sink] \in Nat /\ w.start <= ss[w.sink]

(* What a step hands on is still paid, or still worked on.                  *)
LEMMA OwingKept ==
  ASSUME NEW rules, NEW ns, NEW ns2, SameNodes(ns, ns2), NEW s, IsList(s), s # <<>>, NEW ws, IsList(ws),
         NEW ss, NEW ss2, NEW msg, NEW msg2,
         \A k \in DOMAIN s : Refers(Len(ns), s[k]) /\ Began(ss, s[k]),
         \A k \in 2 .. Len(s) : s[k].op = "FinishProduction" => ss2[s[k].sink] \in Nat,
         Owing(rules, ns, ss, msg, s), Handed(rules, ns2, ss, ss2, msg, msg2, s, ws)
  PROVE  Owing(rules, ns2, ss2, msg2, ws \o Tail(s))
<1>1. PICK t : t = ws \o Tail(s)
  OBVIOUS
<1>2. \A k \in DOMAIN t : (k \in DOMAIN ws /\ t[k] = ws[k]) \/ FromRest(s, ws, t, k)
  BY <1>1, ItemsOf
<1>3. PICK m \in Nat, n \in Nat : m = Len(ws) /\ DOMAIN ws = 1 .. m /\ n = Len(s) /\ DOMAIN s = 1 .. n
  BY ListIs
<1>4. /\ IsList(t) /\ Len(t) = m + n - 1 /\ \A k \in 1 .. m : t[k] = ws[k]
      /\ \A k \in m + 1 .. Len(t) : t[k] = s[k - m + 1]
  BY <1>1, <1>3, HeadReplaced DEF Replaced
<1>5. DOMAIN t = 1 .. m + n - 1
  BY <1>4, ListIs
<1>6. \A j \in DOMAIN ws : j \in DOMAIN t /\ t[j] = ws[j]
  <2>1. n >= 1
    BY <1>1, <1>3, HeadReplaced
  <2>2. QED
    BY <1>3, <1>4, <1>5, <2>1
<1>7. \A j \in 2 .. n : m + j - 1 \in DOMAIN t /\ t[m + j - 1] = s[j]
  <2> SUFFICES ASSUME NEW j \in 2 .. n PROVE m + j - 1 \in DOMAIN t /\ t[m + j - 1] = s[j]
    OBVIOUS
  <2>1. PICK k : k = m + j - 1
    OBVIOUS
  <2>2. k \in m + 1 .. m + n - 1 /\ k \in 1 .. m + n - 1 /\ k - m + 1 = j
    BY <2>1
  <2>3. QED
    BY <1>4, <1>5, <2>1, <2>2
<1> SUFFICES ASSUME NEW k \in DOMAIN t, Owes(rules, ns2, t[k])
             PROVE  Paid(ss2, msg2, t[k]) \/ Served(rules, t, k)
  BY <1>1 DEF Owing
<1>8. CASE k \in DOMAIN ws /\ t[k] = ws[k]
  <2>1. Served(rules, ws, k)
    BY <1>8 DEF Handed
  <2>2. Served(rules, t, k)
    BY <1>6, <1>8, <2>1 DEF Served
  <2>3. QED
    BY <2>2
<1>9. CASE FromRest(s, ws, t, k)
  <2>1. PICK i \in 2 .. n : k = m + i - 1 /\ t[k] = s[i] /\ i \in DOMAIN s
    BY <1>3, <1>9 DEF FromRest
  <2>2. PICK w : w = s[i]
    OBVIOUS
  <2>3. w.op = "FinishProduction" /\ w.node \in DOMAIN ns
    <3>1. w.op = "FinishProduction" /\ DOMAIN ns = 1 .. Len(ns)
      BY <2>1, <2>2, ListIs DEF Owes, SameNodes
    <3>2. QED
      BY <2>1, <2>2, <3>1 DEF Refers
  <2>4. Owes(rules, ns, w)
    <3>1. PICK q : q = w.node
      OBVIOUS
    <3>2. SameNode(ns[q], ns2[q])
      BY <2>3, <3>1 DEF SameNodes
    <3>3. QED
      BY <2>1, <2>2, <2>3, <3>1, <3>2 DEF Owes, SameNode
  <2>5. PICK x, a, b : x = w.sink /\ a = ss[x] /\ b = ss2[x]
    OBVIOUS
  <2>6. a \in Nat /\ b \in Nat /\ b >= a /\ w.start \in Nat /\ w.start <= a
    BY <1>3, <2>1, <2>2, <2>3, <2>5 DEF Began, Handed
  <2>7. Paid(ss, msg, w) \/ Served(rules, s, i)
    BY <2>1, <2>2, <2>4 DEF Owing
  <2>8. CASE Paid(ss, msg, w)
    <3>1. Paid(ss2, msg2, w)
      BY <2>5, <2>6, <2>8 DEF Paid, Handed
    <3>2. QED
      BY <2>1, <2>2, <3>1
  <2>9. CASE Served(rules, s, i)
    <3>1. PICK j \in DOMAIN s : j < i /\ Producing(rules, s[j]) /\ s[j].sink = w.sink
      BY <2>2, <2>9 DEF Served
    <3>2. CASE j = 1
      <4>1. \/ msg2 # <<>>
            \/ b > a
            \/ \E h \in DOMAIN ws : Producing(rules, ws[h]) /\ ws[h].sink = w.sink
        BY <2>5, <3>1, <3>2 DEF Handed
      <4>2. CASE msg2 # <<>> \/ b > a
        BY <2>1, <2>2, <2>5, <2>6, <4>2 DEF Paid
      <4>3. CASE \E h \in DOMAIN ws : Producing(rules, ws[h]) /\ ws[h].sink = w.sink
        <5>1. PICK h \in DOMAIN ws : Producing(rules, ws[h]) /\ ws[h].sink = w.sink
          BY <4>3
        <5>2. h \in DOMAIN t /\ t[h] = ws[h] /\ h < k
          BY <1>3, <1>6, <2>1, <5>1
        <5>3. Served(rules, t, k)
          BY <2>1, <2>2, <5>1, <5>2 DEF Served
        <5>4. QED
          BY <5>3
      <4>4. QED
        BY <4>1, <4>2, <4>3
    <3>3. CASE j # 1
      <4>1. j \in 2 .. n
        BY <1>3, <3>1, <3>3
      <4>2. PICK h : h = m + j - 1
        OBVIOUS
      <4>3. h \in DOMAIN t /\ t[h] = s[j] /\ h < k
        BY <1>7, <2>1, <3>1, <4>1, <4>2
      <4>4. Served(rules, t, k)
        BY <2>1, <2>2, <3>1, <4>3 DEF Served
      <4>5. QED
        BY <4>4
    <3>4. QED
      BY <3>2, <3>3
  <2>10. QED
    BY <2>7, <2>8, <2>9
<1>10. QED
  BY <1>2, <1>8, <1>9

(* push_node, as far as the lineage goes. *)
LEMMA NodePushed ==
  ASSUME NEW ns, IsList(ns), NEW x, NEW t, t = Append(ns, x)
  PROVE  /\ SameNodes(ns, t) /\ t[Len(ns) + 1] = x
         /\ \A n \in DOMAIN t : n \in DOMAIN ns \/ n = Len(ns) + 1
<1>1. PICK n \in Nat : n = Len(ns) /\ DOMAIN ns = 1 .. n
  BY ListIs
<1>2. PICK S : ns \in Seq(S)
  BY ListIs
<1> DEFINE U == S \cup {x}
<1>3. ns \in Seq(U) /\ x \in U
  BY <1>2
<1> HIDE DEF U
<1>4. t \in Seq(U) /\ Len(t) = n + 1 /\ DOMAIN t = 1 .. n + 1 /\ t[n + 1] = x /\ \A k \in 1 .. n : t[k] = ns[k]
  BY <1>1, <1>3
<1>5. IsList(t)
  BY <1>4, ListOf
<1>6. SameNodes(ns, t)
  BY <1>1, <1>4, <1>5 DEF SameNodes, SameNode
<1>7. QED
  BY <1>1, <1>4, <1>6

(* A node that is closed, as far as the lineage goes. *)
LEMMA NodeClosed ==
  ASSUME NEW ns \in Seq(Nodes), NEW i, NEW range, NEW t, Closes(ns, i, range, t)
  PROVE  SameNodes(ns, t) /\ DOMAIN t = DOMAIN ns
<1>1. PICK n \in Nat : n = Len(ns) /\ DOMAIN ns = 1 .. n
  OBVIOUS
<1>2. t = [ns EXCEPT ![i].range = range]
  BY DEF Closes
<1>3. PICK x : x = [ns[i] EXCEPT !.range = range]
  OBVIOUS
<1>4. t = [ns EXCEPT ![i] = x]
  BY <1>2, <1>3
<1>5. t = [k \in 1 .. n |-> IF k = i THEN x ELSE ns[k]]
  BY <1>1, <1>4
<1>6. IsList(t) /\ Len(t) = n /\ DOMAIN t = 1 .. n
  <2>1. t = [k \in 1 .. n |-> t[k]]
    BY <1>5
  <2>2. IsList(t) /\ Len(t) = n
    BY <1>1, <2>1, MadeList
  <2>3. QED
    BY <1>5, <2>2
<1>7. \A k \in 1 .. n : SameNode(ns[k], t[k])
  <2> SUFFICES ASSUME NEW k \in 1 .. n PROVE SameNode(ns[k], t[k])
    OBVIOUS
  <2>1. CASE k = i
    <3>1. PICK node \in Nodes : node = ns[i]
      BY <1>1, <2>1
    <3>2. x = [node EXCEPT !.range = range]
      BY <1>3, <3>1
    <3>3. x.kind = node.kind /\ x.rule = node.rule /\ x.parent = node.parent
      BY <3>2 DEF Nodes
    <3>4. t[k] = x
      BY <1>5, <2>1
    <3>5. QED
      BY <2>1, <3>1, <3>3, <3>4 DEF SameNode
  <2>2. CASE k # i
    BY <1>5, <2>2 DEF SameNode
  <2>3. QED
    BY <2>1, <2>2
<1>8. IsList(ns)
  BY ListOf
<1>9. QED
  BY <1>1, <1>6, <1>7, <1>8 DEF SameNodes

(* Nodes left alone.                                                        *)
LEMMA NodesStay ==
  ASSUME NEW ns, IsList(ns)
  PROVE  SameNodes(ns, ns)
<1>1. Len(ns) \in Nat
  BY ListIs
<1>2. QED
  BY <1>1 DEF SameNodes, SameNode

(* What the invariant says of the work and the nodes. *)
LEMMA WorkIs ==
  ASSUME Started
  PROVE  /\ IsList(stack) /\ nodes \in Seq(Nodes) /\ IsList(nodes)
         /\ \A n \in DOMAIN nodes : nodes[n].parent \in 0 .. n - 1
         /\ \A k \in DOMAIN stack : Refers(Len(nodes), stack[k]) /\ Began(sinkScalars, stack[k])
         /\ \A k \in DOMAIN stack : sinkScalars[stack[k].sink] \in Nat
<1>1. IsList(stack) /\ nodes \in Seq(Nodes) /\ \A n \in DOMAIN nodes : nodes[n].parent \in 0 .. n - 1
  BY DEF Started, FitsOf, NodesFit
<1>2. IsList(nodes)
  BY <1>1, ListOf
<1>3. /\ buffers \in Seq(Text) /\ sinkScalars \in Seq(Nat) /\ Len(sinkScalars) = Len(buffers)
      /\ \A s \in DOMAIN buffers : sinkScalars[s] = Len(buffers[s])
  BY DEF Started, SinksFit
<1>4. DOMAIN buffers = 1 .. Len(buffers) /\ DOMAIN sinkScalars = 1 .. Len(buffers)
  BY <1>3
<1>5. ASSUME NEW k \in DOMAIN stack
      PROVE  Refers(Len(nodes), stack[k]) /\ Began(sinkScalars, stack[k]) /\ sinkScalars[stack[k].sink] \in Nat
  <2>1. PICK w : w = stack[k]
    OBVIOUS
  <2>2. WorkFits(grammar, Len(buffers), Len(frames), Len(nodes), request.limits.depth, w) /\ Starts(buffers, w)
    BY <1>5, <2>1 DEF Started, FitsOf, SpansOf
  <2>3. Refers(Len(nodes), w)
    BY <2>2 DEF WorkFits, Refers, Owners
  <2>4. w.sink \in 1 .. Len(buffers) /\ (w.op = "FinishProduction" => w.start \in Nat /\ w.start <= Len(buffers[w.sink]))
    BY <2>2 DEF WorkFits, Starts
  <2>5. sinkScalars[w.sink] = Len(buffers[w.sink]) /\ sinkScalars[w.sink] \in Nat
    BY <1>3, <1>4, <2>4
  <2>6. Began(sinkScalars, w)
    BY <2>4, <2>5 DEF Began
  <2>7. QED
    BY <2>1, <2>3, <2>5, <2>6
<1>6. QED
  BY <1>1, <1>2, <1>5

(* A step that replaces the head. *)
LEMMA AnalysedOn ==
  ASSUME authored \in Authored, Started, Started', Analysed, stack # <<>>, grammar' = grammar,
         NEW ws, IsList(ws), stack' = ws \o Tail(stack),
         SameNodes(nodes, nodes'), \A n \in DOMAIN nodes' : n \in DOMAIN nodes \/ Descends(grammar, nodes', n),
         \A k \in DOMAIN ws : WorkDescends(grammar, nodes', ws[k]),
         Handed(grammar, nodes', sinkScalars, sinkScalars', message, message', stack, ws)
  PROVE  Analysed'
<1>1. /\ IsList(stack) /\ IsList(nodes)
      /\ \A n \in DOMAIN nodes : nodes[n].parent \in 0 .. n - 1
      /\ \A k \in DOMAIN stack : Refers(Len(nodes), stack[k]) /\ Began(sinkScalars, stack[k])
  BY WorkIs
<1>2. Family(grammar, nodes, stack) /\ Owing(grammar, nodes, sinkScalars, message, stack)
  BY DEF Analysed
<1>3. PICK t, ss2 : t = stack' /\ ss2 = sinkScalars'
  OBVIOUS
<1>4. \A k \in DOMAIN t : ss2[t[k].sink] \in Nat
  <2>1. PICK bs2 : bs2 = buffers'
    OBVIOUS
  <2>2. bs2 \in Seq(Text) /\ ss2 \in Seq(Nat) /\ Len(ss2) = Len(bs2) /\ \A k \in DOMAIN t : t[k].sink \in 1 .. Len(bs2)
    BY <1>3, <2>1 DEF Started, SinksFit, FitsOf, WorkFits
  <2>3. DOMAIN ss2 = 1 .. Len(bs2)
    BY <2>2
  <2>4. QED
    BY <2>2, <2>3
<1>5. PICK ns, ns2, s, ss, msg, msg2 :
        /\ ns = nodes /\ ns2 = nodes' /\ s = stack /\ ss = sinkScalars
        /\ msg = message /\ msg2 = message'
  OBVIOUS
<1>6. \A k \in 2 .. Len(s) : ss2[s[k].sink] \in Nat
  <2> SUFFICES ASSUME NEW k \in 2 .. Len(s) PROVE ss2[s[k].sink] \in Nat
    OBVIOUS
  <2>1. Replaced(s, ws, t)
    BY <1>1, <1>3, <1>5, HeadReplaced
  <2>2. PICK m \in Nat, n \in Nat : m = Len(ws) /\ n = Len(s)
    BY <1>1, <1>5, ListIs
  <2>3. IsList(t) /\ Len(t) = m + n - 1 /\ \A h \in m + 1 .. Len(t) : t[h] = s[h - m + 1]
    BY <2>1, <2>2 DEF Replaced
  <2>4. PICK h : h = m + k - 1
    OBVIOUS
  <2>5. h \in m + 1 .. m + n - 1 /\ h \in 1 .. m + n - 1 /\ h - m + 1 = k
    BY <2>2, <2>4
  <2>6. h \in DOMAIN t /\ t[h] = s[k]
    BY <2>3, <2>5, ListIs
  <2>7. QED
    BY <1>4, <2>6
<1>7. Family(grammar, ns2, ws \o Tail(s))
  BY <1>1, <1>2, <1>5, FamilyKept
<1>8. Owing(grammar, ns2, ss2, msg2, ws \o Tail(s))
  BY <1>1, <1>2, <1>3, <1>5, <1>6, OwingKept
<1>9. QED
  BY <1>3, <1>5, <1>7, <1>8 DEF Analysed

(* A step that moves no sink and no message: it suffices that what is about *)
(* to produce is handed on. *)
Passed(rules, ns2, s, ws) ==
  /\ Producing(rules, s[1]) => \E j \in DOMAIN ws : Producing(rules, ws[j]) /\ ws[j].sink = s[1].sink
  /\ \A k \in DOMAIN ws : Owes(rules, ns2, ws[k]) => Served(rules, ws, k)

(* It moves no sink of the work below, hence takes nothing back.            *)
LEMMA PassedOn ==
  ASSUME Started, NEW rules, NEW ns2, NEW ws, Passed(rules, ns2, stack, ws),
         NEW ss2, \A k \in 2 .. Len(stack) : ss2[stack[k].sink] = sinkScalars[stack[k].sink]
  PROVE  Handed(rules, ns2, sinkScalars, ss2, message, message, stack, ws)
<1>1. IsList(stack) /\ \A k \in DOMAIN stack : sinkScalars[stack[k].sink] \in Nat
  BY WorkIs
<1>2. \A k \in 2 .. Len(stack) : k \in DOMAIN stack
  BY <1>1, ListIs
<1>3. \A k \in 2 .. Len(stack) : ss2[stack[k].sink] >= sinkScalars[stack[k].sink]
  BY <1>1, <1>2
<1>4. QED
  BY <1>3 DEF Handed, Passed

(* The request over. *)
LEMMA AnalysedStays ==
  ASSUME Started, Analysed, UNCHANGED <<grammar, stack, sinkScalars, message>>,
         SameNodes(nodes, nodes'), DOMAIN nodes' = DOMAIN nodes
  PROVE  Analysed'
<1>1. /\ IsList(stack) /\ IsList(nodes)
      /\ \A n \in DOMAIN nodes : nodes[n].parent \in 0 .. n - 1
      /\ \A k \in DOMAIN stack : Refers(Len(nodes), stack[k])
  BY WorkIs
<1>2. Family(grammar, nodes, stack) /\ Owing(grammar, nodes, sinkScalars, message, stack)
  BY DEF Analysed
<1>3. PICK ns2 : ns2 = nodes'
  OBVIOUS
<1>4. SameNodes(nodes, ns2) /\ DOMAIN ns2 = DOMAIN nodes
  BY <1>3
<1>5. Family(grammar, ns2, stack)
  <2>1. \A n \in DOMAIN nodes : Descends(grammar, ns2, n)
    BY <1>1, <1>2, <1>4, DescendsSame DEF Family
  <2>2. \A k \in DOMAIN stack : WorkDescends(grammar, ns2, stack[k])
    BY <1>1, <1>2, <1>4, WorkDescendsSame DEF Family
  <2>3. QED
    BY <1>4, <2>1, <2>2 DEF Family
<1>6. Owing(grammar, ns2, sinkScalars, message, stack)
  <2> SUFFICES ASSUME NEW k \in DOMAIN stack, Owes(grammar, ns2, stack[k])
               PROVE  Owes(grammar, nodes, stack[k])
    BY <1>2 DEF Owing
  <2>1. PICK q : q = stack[k].node
    OBVIOUS
  <2>2. stack[k].op = "FinishProduction" /\ DOMAIN nodes = 1 .. Len(nodes)
    BY <1>1, ListIs DEF Owes
  <2>3. q \in DOMAIN nodes
    BY <1>1, <2>1, <2>2 DEF Refers
  <2>4. SameNode(nodes[q], ns2[q])
    BY <1>4, <2>3 DEF SameNodes
  <2>5. QED
    BY <2>1, <2>2, <2>4 DEF Owes, SameNode
<1>7. QED
  BY <1>3, <1>5, <1>6 DEF Analysed

(* The items that replace the head, by position. *)
LEMMA TopsAre ==
  ASSUME NEW a, NEW b
  PROVE  /\ IsList(<<>>) /\ DOMAIN <<>> = {}
         /\ IsList(<<a>>) /\ DOMAIN <<a>> = {1} /\ <<a>>[1] = a
         /\ IsList(<<a, b>>) /\ DOMAIN <<a, b>> = {1, 2} /\ <<a, b>>[1] = a /\ <<a, b>>[2] = b
<1>1. 1 .. 0 = {} /\ 1 .. 1 = {1} /\ 1 .. 2 = {1, 2}
  OBVIOUS
<1>2. /\ IsList(<<>>) /\ Len(<<>>) = 0 /\ IsList(<<a>>) /\ Len(<<a>>) = 1 /\ <<a>>[1] = a
      /\ IsList(<<a, b>>) /\ Len(<<a, b>>) = 2 /\ <<a, b>>[1] = a /\ <<a, b>>[2] = b
  BY Tops
<1>3. QED
  BY <1>1, <1>2, ListIs

(* And three of them.                                                       *)
LEMMA ThreeTops ==
  ASSUME NEW a, NEW b, NEW c, NEW ws, ws = <<a, b, c>>
  PROVE  IsList(ws) /\ DOMAIN ws = {1, 2, 3} /\ ws[1] = a /\ ws[2] = b /\ ws[3] = c
<1>1. IsList(ws) /\ Len(ws) = 3 /\ ws[1] = a /\ ws[2] = b /\ ws[3] = c
  BY Tops
<1>2. DOMAIN ws = 1 .. 3
  BY <1>1, ListIs
<1>3. 1 .. 3 = {1, 2, 3}
  OBVIOUS
<1>4. QED
  BY ONLY <1>1, <1>2, <1>3

-----------------------------------------------------------------------------
(* The owner on top, and the nodes it pushes. *)

(* The node of an owner is the production it expands. *)
LEMMA OwnerNode ==
  ASSUME authored \in Authored, Started, Analysed, stack # <<>>, Top.op \in Owners
  PROVE  /\ IsList(stack) /\ Top = stack[1]
         /\ Top.node \in DOMAIN nodes /\ nodes[Top.node].kind = "production" /\ nodes[Top.node].rule = Top.rule
         /\ Top.rule \in DOMAIN grammar /\ Top.production \in DOMAIN grammar[Top.rule].productions
         /\ IsList(grammar[Top.rule].productions[Top.production].parts)
         /\ Top.next \in Nat \ {0} /\ Top.node \in Nat
<1>1. /\ IsList(stack) /\ 1 \in DOMAIN stack /\ Top = stack[1] /\ Sound(grammar)
  BY AtTop
<1>2. /\ Top \in [op : Owners, rule : DOMAIN grammar, production : Nat, next : Nat \ {0},
                   frame : 1 .. Len(frames), sink : 1 .. Len(buffers),
                   depth : 0 .. request.limits.depth, node : 1 .. Len(nodes)]
      /\ Top.rule \in DOMAIN grammar /\ Top.production \in DOMAIN grammar[Top.rule].productions
      /\ Top.node \in DOMAIN nodes
  BY TopOwner
<1>3. WorkDescends(grammar, nodes, Top)
  BY <1>1 DEF Analysed, Family
<1>4. nodes[Top.node].kind = "production" /\ nodes[Top.node].rule = Top.rule
  BY <1>3 DEF WorkDescends
<1>5. IsList(grammar[Top.rule].productions[Top.production].parts)
  BY <1>1, <1>2, ProductionIs
<1>6. Top.next \in Nat \ {0} /\ Top.node \in Nat
  BY <1>2
<1>7. QED
  BY <1>1, <1>2, <1>4, <1>5, <1>6

(* A node pushed below it. *)
LEMMA OwnerPushes ==
  ASSUME authored \in Authored, Started, Analysed, stack # <<>>, Top.op \in Owners,
         NEW x, x.kind # "production", x.kind \in {"binding", "capture"} => x.rule = Top.rule /\ x.parent = Top.node,
         NEW ns2, ns2 = Append(nodes, x)
  PROVE  /\ SameNodes(nodes, ns2) /\ \A n \in DOMAIN ns2 : n \in DOMAIN nodes \/ Descends(grammar, ns2, n)
         /\ ns2[Len(nodes) + 1] = x
         /\ ns2[Top.node].kind = "production" /\ ns2[Top.node].rule = Top.rule
<1>1. Top.node \in DOMAIN nodes /\ nodes[Top.node].kind = "production" /\ nodes[Top.node].rule = Top.rule /\ Top.node \in Nat
  BY OwnerNode
<1>2. IsList(nodes)
  BY WorkIs
<1>3. SameNodes(nodes, ns2) /\ ns2[Len(nodes) + 1] = x /\ \A n \in DOMAIN ns2 : n \in DOMAIN nodes \/ n = Len(nodes) + 1
  <2>1. ns2 = Append(nodes, x)
    OBVIOUS
  <2>2. QED
    BY ONLY <1>2, <2>1, NodePushed
<1>4. PICK m : m = Top.node
  OBVIOUS
<1>5. SameNode(nodes[m], ns2[m])
  BY <1>1, <1>3, <1>4 DEF SameNodes
<1>6. ns2[m].kind = "production" /\ ns2[m].rule = Top.rule /\ m # None
  <2>1. m \in 1 .. Len(nodes)
    BY <1>1, <1>2, <1>4, ListIs
  <2>2. QED
    BY <1>1, <1>4, <1>5, <2>1 DEF SameNode, None
<1>7. PICK n : n = Len(nodes) + 1
  OBVIOUS
<1>8. Descends(grammar, ns2, n)
  <2>1. ns2[n] = x
    BY <1>3, <1>7
  <2>2. CASE x.kind \in {"binding", "capture"}
    BY <1>4, <1>6, <2>1, <2>2 DEF Descends
  <2>3. CASE x.kind \notin {"binding", "capture"}
    BY <2>1, <2>3 DEF Descends
  <2>4. QED
    BY <2>2, <2>3
<1>9. QED
  BY <1>3, <1>4, <1>6, <1>7, <1>8

(* Past its next part, the owner is what it was. *)
LEMMA OwnerOnward ==
  ASSUME authored \in Authored, Started, Analysed, NEW kind, AtPart(kind), NEW a, a = Onward
  PROVE  /\ stack # <<>> /\ Top.op = "Continue" /\ Top.op \in Owners
         /\ a.op = "Continue" /\ a.rule = Top.rule /\ a.production = Top.production
         /\ a.sink = Top.sink /\ a.node = Top.node
         /\ Producing(grammar, Top) => Producing(grammar, a) \/ Produces(grammar, Part)
         /\ Part.kind = kind
         /\ HasRule(Part) => Part.rule \in Edges(grammar, Top.rule)
         /\ \E j \in DOMAIN grammar[Top.rule].productions[Top.production].parts :
              Part = grammar[Top.rule].productions[Top.production].parts[j]
<1>1. stack # <<>> /\ Top.op = "Continue" /\ Top.op \in Owners /\ Part.kind = kind
  BY AtPartIs
<1>2. Top \in [op : Owners, rule : DOMAIN grammar, production : Nat, next : Nat \ {0},
               frame : 1 .. Len(frames), sink : 1 .. Len(buffers),
               depth : 0 .. request.limits.depth, node : 1 .. Len(nodes)]
  BY <1>1, TopOwner
<1>3. PICK w : w = Top
  OBVIOUS
<1>4. a = [w EXCEPT !.next = @ + 1]
  BY <1>3 DEF Onward
<1>5. /\ a.op = w.op /\ a.rule = w.rule /\ a.production = w.production /\ a.sink = w.sink /\ a.node = w.node
      /\ a.next = w.next + 1
  BY <1>2, <1>3, <1>4
<1>6. /\ Top.rule \in DOMAIN grammar /\ Top.production \in DOMAIN grammar[Top.rule].productions
      /\ IsList(grammar[Top.rule].productions[Top.production].parts) /\ Top.next \in Nat \ {0}
  BY <1>1, OwnerNode
<1>7. PICK p : p = grammar[Top.rule].productions[Top.production]
  OBVIOUS
<1>8. PICK i \in Nat : i = Top.next
  BY <1>6
<1>9. i \in DOMAIN p.parts /\ Part = p.parts[i]
  BY <1>7, <1>8 DEF AtPart, Part, Production
<1>10. ASSUME Producing(grammar, Top) PROVE Producing(grammar, a) \/ Produces(grammar, Part)
  <2>1. PICK j \in DOMAIN p.parts : j >= i /\ Produces(grammar, p.parts[j])
    BY <1>1, <1>7, <1>8, <1>10 DEF Producing, Owners
  <2>2. CASE j = i
    BY <1>9, <2>1, <2>2
  <2>3. CASE j # i
    <3>1. j \in Nat
      BY <1>6, <1>7, ListIs
    <3>2. j >= i + 1
      BY <2>1, <2>3, <3>1
    <3>3. a.op \in Owners /\ a.next = i + 1 /\ grammar[a.rule].productions[a.production] = p
      BY <1>1, <1>3, <1>5, <1>7, <1>8
    <3>4. QED
      BY <2>1, <3>2, <3>3 DEF Producing
  <2>4. QED
    BY <2>2, <2>3
<1>11. HasRule(Part) => Part.rule \in Edges(grammar, Top.rule)
  <2> SUFFICES ASSUME HasRule(Part) PROVE Part.rule \in Edges(grammar, Top.rule)
    OBVIOUS
  <2>1. Part.rule \in BodyRules(p)
    BY <1>9 DEF BodyRules
  <2>2. QED
    BY <1>6, <1>7, <2>1 DEF Edges
<1>12. QED
  BY <1>1, <1>3, <1>5, <1>7, <1>9, <1>10, <1>11

-----------------------------------------------------------------------------
(* The steps, one by one.                                                   *)

(* An error, or the end. *)
LEMMA AnalysedIdle ==
  ASSUME Started, Analysed, UNCHANGED <<grammar, stack, sinkScalars, message, nodes>>
  PROVE  Analysed'
<1>1. SameNodes(nodes, nodes)
  BY WorkIs, NodesStay
<1>2. QED
  BY <1>1, AnalysedStays

(* Expand: the production owes what its body will produce.                  *)
LEMMA AnalysedExpand ==
  ASSUME authored \in Authored, Started, Started', Analysed, Expand
  PROVE  Analysed'
<1>1. stack # <<>> /\ Top.op = "Expand"
  BY DEF Expand, Running, Top
<1>2. PICK production \in Eligible(Top.rule, NewFrame), drawn \in 1 .. request.limits.words - words :
        Chosen(production, drawn)
  BY DEF Expand
<1>3. /\ IsList(stack) /\ 1 \in DOMAIN stack /\ Top = stack[1] /\ Sound(grammar)
      /\ WorkFits(grammar, Len(buffers), Len(frames), Len(nodes), request.limits.depth, Top)
  BY <1>1, AtTop
<1>4. Top.rule \in DOMAIN grammar /\ Top.parent \in 0 .. Len(nodes)
  BY <1>1, <1>3 DEF WorkFits
<1>5. production \in DOMAIN grammar[Top.rule].productions
  BY <1>2 DEF Eligible
<1>6. PICK ns2, n, a, z, x :
        /\ ns2 = nodes' /\ n = Len(nodes) + 1 /\ x = Node(Top.parent, "production", Top)
        /\ a = [op |-> "PrepareBinding", rule |-> Top.rule, production |-> production, next |-> 1,
                frame |-> Len(frames) + 1, sink |-> Top.sink, depth |-> Top.depth, node |-> n]
        /\ z = [op |-> "FinishProduction", sink |-> Top.sink, start |-> sinkScalars[Top.sink], node |-> n]
  OBVIOUS
<1>7. /\ ns2 = Append(nodes, x) /\ stack' = <<a, z>> \o Tail(stack)
      /\ UNCHANGED <<grammar, sinkScalars, message>>
  BY <1>2, <1>6 DEF Chosen, Then, Rest
<1>8. /\ a.op = "PrepareBinding" /\ a.rule = Top.rule /\ a.production = production /\ a.sink = Top.sink /\ a.node = n
      /\ z.op = "FinishProduction" /\ z.sink = Top.sink /\ z.node = n
      /\ x.kind = "production" /\ x.rule = Top.rule /\ x.parent = Top.parent
  BY <1>6 DEF Node
<1>9. IsList(nodes)
  BY WorkIs
<1>10. SameNodes(nodes, ns2) /\ ns2[n] = x /\ \A m \in DOMAIN ns2 : m \in DOMAIN nodes \/ m = n
  BY ZenonT(40), <1>6, <1>7, <1>9, NodePushed
<1>11. Descends(grammar, ns2, n)
  <2>1. WorkDescends(grammar, nodes, Top)
    BY <1>3 DEF Analysed, Family
  <2>2. Refers(Len(nodes), Top)
    BY <1>3, WorkIs
  <2>3. WorkDescends(grammar, ns2, Top)
    BY <1>10, <2>1, <2>2, WorkDescendsSame
  <2>4. QED
    BY <1>1, <1>4, <1>8, <1>10, <2>3 DEF WorkDescends, Descends
<1>12. PICK ws : ws = <<a, z>>
  OBVIOUS
<1>13. IsList(ws) /\ DOMAIN ws = {1, 2} /\ ws[1] = a /\ ws[2] = z
  BY <1>12, TopsAre
<1>14. \A k \in DOMAIN ws : WorkDescends(grammar, ns2, ws[k])
  <2>1. WorkDescends(grammar, ns2, a)
    BY <1>8, <1>10 DEF WorkDescends
  <2>2. WorkDescends(grammar, ns2, z)
    BY <1>8 DEF WorkDescends, Owners
  <2>3. QED
    BY <1>13, <2>1, <2>2
<1>15. Top.rule \notin Nullable(grammar) => Producing(grammar, a)
  <2>1. IsList(grammar)
    BY <1>3 DEF Sound, LoweredRules
  <2>2. Top.rule \notin Nullable(grammar) =>
          \E j \in DOMAIN grammar[Top.rule].productions[production].parts :
            Produces(grammar, grammar[Top.rule].productions[production].parts[j])
    BY <1>4, <1>5, <2>1, MustProduce
  <2>3. QED
    BY <1>8, <2>2 DEF Producing, Owners
<1>16. Passed(grammar, ns2, stack, ws)
  <2>1. Producing(grammar, stack[1]) => Top.rule \notin Nullable(grammar)
    BY <1>1, <1>3 DEF Producing, Owners
  <2>2. Owes(grammar, ns2, z) => Top.rule \notin Nullable(grammar)
    BY <1>8, <1>10 DEF Owes
  <2>3. ~ Owes(grammar, ns2, a)
    BY <1>8 DEF Owes
  <2>4. \A k \in DOMAIN ws : Owes(grammar, ns2, ws[k]) => Served(grammar, ws, k)
    <3> SUFFICES ASSUME NEW k \in DOMAIN ws, Owes(grammar, ns2, ws[k]) PROVE Served(grammar, ws, k)
      OBVIOUS
    <3>1. k = 2
      BY <1>13, <2>3
    <3>2. Producing(grammar, ws[1]) /\ ws[1].sink = ws[2].sink /\ 1 \in DOMAIN ws /\ 1 < 2
      BY <1>8, <1>13, <1>15, <2>2, <3>1
    <3>3. QED
      BY <3>1, <3>2 DEF Served
  <2>5. Producing(grammar, stack[1]) => \E j \in DOMAIN ws : Producing(grammar, ws[j]) /\ ws[j].sink = stack[1].sink
    BY <1>3, <1>8, <1>13, <1>15, <2>1
  <2>6. QED
    BY <2>4, <2>5 DEF Passed
<1>17. Handed(grammar, ns2, sinkScalars, sinkScalars, message, message, stack, ws)
  BY <1>16, PassedOn
<1>18. /\ Handed(grammar, nodes', sinkScalars, sinkScalars', message, message', stack, ws)
       /\ grammar' = grammar /\ stack' = ws \o Tail(stack) /\ SameNodes(nodes, nodes')
       /\ \A m \in DOMAIN nodes' : m \in DOMAIN nodes \/ Descends(grammar, nodes', m)
       /\ \A k \in DOMAIN ws : WorkDescends(grammar, nodes', ws[k])
  BY <1>6, <1>7, <1>10, <1>11, <1>12, <1>14, <1>17
<1>19. QED
  BY <1>1, <1>13, <1>18, AnalysedOn

(* A step that takes the head away, when it was about to produce nothing. *)
LEMMA AnalysedTaken ==
  ASSUME authored \in Authored, Started, Started', Analysed, stack # <<>>, UNCHANGED <<grammar, message>>,
         stack' = <<>> \o Tail(stack), ~ Producing(grammar, Top),
         SameNodes(nodes, nodes'), DOMAIN nodes' = DOMAIN nodes,
         \A k \in 2 .. Len(stack) : sinkScalars'[stack[k].sink] = sinkScalars[stack[k].sink]
  PROVE  Analysed'
<1>1. Top = stack[1]
  BY AtTop
<1>2. PICK ws : ws = <<>>
  OBVIOUS
<1>3. IsList(ws) /\ DOMAIN ws = {}
  BY <1>2, TopsAre
<1>4. PICK ns2, ss2 : ns2 = nodes' /\ ss2 = sinkScalars'
  OBVIOUS
<1>5. Passed(grammar, ns2, stack, ws)
  BY <1>1, <1>3 DEF Passed
<1>6. Handed(grammar, ns2, sinkScalars, ss2, message, message, stack, ws)
  BY <1>4, <1>5, PassedOn
<1>7. /\ Handed(grammar, nodes', sinkScalars, sinkScalars', message, message', stack, ws)
      /\ grammar' = grammar /\ stack' = ws \o Tail(stack)
      /\ \A m \in DOMAIN nodes' : m \in DOMAIN nodes \/ Descends(grammar, nodes', m)
      /\ \A k \in DOMAIN ws : WorkDescends(grammar, nodes', ws[k])
  BY <1>2, <1>3, <1>4, <1>6
<1>8. QED
  BY <1>3, <1>7, AnalysedOn

(* A node is closed.                                                        *)
LEMMA TopClosed ==
  ASSUME Started, nodes' = Closed(Top)
  PROVE  SameNodes(nodes, nodes') /\ DOMAIN nodes' = DOMAIN nodes
<1>1. nodes \in Seq(Nodes)
  BY WorkIs
<1>2. PICK i, range, t : /\ i = Top.node /\ range = RangeIn(Top.sink, Top.start, sinkScalars[Top.sink])
                         /\ t = nodes'
  OBVIOUS
<1>3. Closes(nodes, i, range, t)
  BY <1>2 DEF Closed, Closes
<1>4. SameNodes(nodes, t) /\ DOMAIN t = DOMAIN nodes
  BY ONLY <1>1, <1>3, NodeClosed
<1>5. QED
  BY <1>2, <1>4

(* FinishProduction.                                                        *)
LEMMA AnalysedFinishProduction ==
  ASSUME authored \in Authored, Started, Started', Analysed, FinishProduction
  PROVE  Analysed'
<1>1. /\ stack # <<>> /\ Top.op = "FinishProduction" /\ stack' = <<>> \o Tail(stack) /\ nodes' = Closed(Top)
      /\ UNCHANGED <<grammar, message>> /\ sinkScalars' = sinkScalars
  BY DEF FinishProduction, Running, Top, Then, Rest
<1>2. ~ Producing(grammar, Top)
  BY <1>1 DEF Producing, Owners
<1>3. SameNodes(nodes, nodes') /\ DOMAIN nodes' = DOMAIN nodes
  BY <1>1, TopClosed
<1>4. QED
  BY <1>1, <1>2, <1>3, AnalysedTaken

(* FinishCapture.                                                           *)
LEMMA AnalysedFinishCapture ==
  ASSUME authored \in Authored, Started, Started', Analysed, FinishCapture
  PROVE  Analysed'
<1>1. stack # <<>> /\ Top.op = "FinishCapture"
  BY DEF FinishCapture, Running, Top
<1>2. ~ Producing(grammar, Top)
  BY <1>1 DEF Producing, Owners
<1>3. CASE UNCHANGED <<grammar, stack, sinkScalars, message, nodes>>
  BY <1>3, AnalysedIdle
<1>4. CASE /\ stack' = <<>> \o Tail(stack) /\ nodes' = Closed(Top)
           /\ UNCHANGED <<grammar, message>> /\ sinkScalars' = sinkScalars
  <2>1. SameNodes(nodes, nodes') /\ DOMAIN nodes' = DOMAIN nodes
    BY <1>4, TopClosed
  <2>2. QED
    BY <1>1, <1>2, <1>4, <2>1, AnalysedTaken
<1>5. QED
  BY <1>3, <1>4 DEF FinishCapture, Fail, Then, Rest, run

(* Continue, past the last part: nothing is left to produce.                *)
LEMMA AnalysedEndBody ==
  ASSUME authored \in Authored, Started, Started', Analysed, EndBody
  PROVE  Analysed'
<1>1. /\ stack # <<>> /\ Top.op = "Continue" /\ stack' = <<>> \o Tail(stack)
      /\ Top.next \notin DOMAIN Production(Top).parts
      /\ UNCHANGED <<grammar, message, nodes>> /\ sinkScalars' = sinkScalars
  BY DEF EndBody, Running, Top, Then, Rest
<1>2. Top.op \in Owners
  BY <1>1 DEF Owners
<1>3. ~ Producing(grammar, Top)
  <2>1. PICK p : p = grammar[Top.rule].productions[Top.production]
    OBVIOUS
  <2>2. IsList(p.parts)
    BY <1>1, <1>2, <2>1, OwnerNode
  <2>3. PICK n \in Nat : n = Len(p.parts) /\ DOMAIN p.parts = 1 .. n
    BY <2>2, ListIs
  <2>4. NextFits(grammar, Top)
    BY <1>1, <1>2, TopOwner
  <2>5. Top.next \in 1 .. n + 1 /\ Top.next \notin 1 .. n
    BY <1>1, <2>1, <2>3, <2>4 DEF NextFits, Production
  <2>6. PICK i : i = Top.next
    OBVIOUS
  <2>7. i = n + 1
    BY <2>5, <2>6
  <2>8. ~ \E j \in DOMAIN p.parts : j >= i
    BY <2>3, <2>7
  <2>9. QED
    BY <1>1, <2>1, <2>6, <2>8 DEF Producing, Owners
<1>4. SameNodes(nodes, nodes') /\ DOMAIN nodes' = DOMAIN nodes
  BY <1>1, WorkIs, NodesStay
<1>5. QED
  BY <1>1, <1>3, <1>4, AnalysedTaken

(* FinishBinding clears a sink that no work below writes to.                *)
LEMMA AnalysedFinishBinding ==
  ASSUME authored \in Authored, Started, Started', Analysed, FinishBinding
  PROVE  Analysed'
<1>1. stack # <<>> /\ Top.op = "FinishBinding"
  BY DEF FinishBinding, Running, Top
<1>2. ~ Producing(grammar, Top)
  BY <1>1 DEF Producing, Owners
<1>3. CASE UNCHANGED <<grammar, stack, sinkScalars, message, nodes>>
  BY <1>3, AnalysedIdle
<1>4. CASE /\ stack' = <<>> \o Tail(stack) /\ UNCHANGED <<grammar, message, nodes>>
           /\ sinkScalars' = [sinkScalars EXCEPT ![Top.sink] = 0]
  <2>1. SameNodes(nodes, nodes') /\ DOMAIN nodes' = DOMAIN nodes
    BY <1>4, WorkIs, NodesStay
  <2>2. ASSUME NEW k \in 2 .. Len(stack) PROVE sinkScalars'[stack[k].sink] = sinkScalars[stack[k].sink]
    <3>1. k \in DOMAIN stack /\ stack[k].sink \in 1 .. Len(buffers)
      BY <1>1, BelowFits
    <3>2. 1 \in DOMAIN stack /\ Top = stack[1] /\ 1 < k
      BY <1>1, AtTop
    <3>3. Temporary(stack[1], stack[k])
      BY <3>1, <3>2 DEF Started, SpansOf
    <3>4. stack[k].sink # Top.sink
      BY <1>1, <3>2, <3>3 DEF Temporary
    <3>5. sinkScalars \in Seq(Nat)
      BY DEF Started, SinksFit
    <3>6. DOMAIN sinkScalars = 1 .. Len(buffers)
      BY <3>5 DEF Started, SinksFit
    <3>7. QED
      BY <1>4, <3>1, <3>4, <3>6
  <2>3. QED
    BY <1>1, <1>2, <1>4, <2>1, <2>2, AnalysedTaken
<1>5. QED
  BY <1>3, <1>4 DEF FinishBinding, Fail, Then, Rest, run

(* PrepareBinding, past the last binding: the whole body is ahead.          *)
LEMMA AnalysedStartBody ==
  ASSUME authored \in Authored, Started, Started', Analysed, StartBody
  PROVE  Analysed'
<1>1. /\ stack # <<>> /\ Top.op = "PrepareBinding"
      /\ stack' = <<[Top EXCEPT !.op = "Continue", !.next = 1]>> \o Tail(stack)
      /\ UNCHANGED <<grammar, message, nodes, sinkScalars>>
  BY DEF StartBody, Running, Top, Then, Rest
<1>2. Top.op \in Owners /\ "Continue" \in Owners
  BY <1>1 DEF Owners
<1>3. PICK a : a = Moved(Top, "Continue", 1)
  OBVIOUS
<1>4. a.op = "Continue" /\ a.rule = Top.rule /\ a.production = Top.production /\ a.next = 1
      /\ a.sink = Top.sink /\ a.node = Top.node
  BY <1>1, <1>2, <1>3, OwnerMoves
<1>5. /\ Top = stack[1] /\ nodes[Top.node].kind = "production" /\ nodes[Top.node].rule = Top.rule
      /\ IsList(grammar[Top.rule].productions[Top.production].parts)
  BY <1>1, <1>2, OwnerNode
<1>6. PICK ws : ws = <<a>>
  OBVIOUS
<1>7. IsList(ws) /\ DOMAIN ws = {1} /\ ws[1] = a
  BY <1>6, TopsAre
<1>8. WorkDescends(grammar, nodes, a)
  BY <1>4, <1>5 DEF WorkDescends
<1>9. Producing(grammar, Top) => Producing(grammar, a)
  <2>1. PICK p : p = grammar[Top.rule].productions[Top.production]
    OBVIOUS
  <2>2. \A j \in DOMAIN p.parts : j >= 1
    BY SMTT(40), <1>5, <2>1, ListIs
  <2>3. Producing(grammar, Top) => \E j \in DOMAIN p.parts : Produces(grammar, p.parts[j])
    BY <1>1, <2>1 DEF Producing
  <2>4. a.op \in Owners /\ a.next = 1 /\ grammar[a.rule].productions[a.production] = p
    BY <1>2, <1>4, <2>1
  <2>5. QED
    BY <2>2, <2>3, <2>4 DEF Producing
<1>10. ~ Owes(grammar, nodes, a)
  BY <1>4 DEF Owes
<1>11. Passed(grammar, nodes, stack, ws)
  BY <1>4, <1>5, <1>7, <1>9, <1>10 DEF Passed
<1>12. Handed(grammar, nodes, sinkScalars, sinkScalars, message, message, stack, ws)
  BY <1>11, PassedOn
<1>13. SameNodes(nodes, nodes)
  BY WorkIs, NodesStay
<1>14. /\ Handed(grammar, nodes', sinkScalars, sinkScalars', message, message', stack, ws)
       /\ grammar' = grammar /\ stack' = ws \o Tail(stack) /\ SameNodes(nodes, nodes')
       /\ \A m \in DOMAIN nodes' : m \in DOMAIN nodes \/ Descends(grammar, nodes', m)
       /\ \A k \in DOMAIN ws : WorkDescends(grammar, nodes', ws[k])
  BY <1>1, <1>3, <1>6, <1>7, <1>8, <1>12, <1>13 DEF Moved
<1>15. QED
  BY <1>1, <1>7, <1>14, AnalysedOn

(* emit: a literal adds to its sink, a value may not.                       *)
LEMMA AnalysedEmit ==
  ASSUME authored \in Authored, Started, Started', Analysed, NEW part, AtPart(part), part \notin {"message", "call", "capture"},
         NEW text \in Text, part = "literal" => text # <<>>,
         NEW kind \in {"text", "host", "bound"}, NEW parent, Emit(text, kind, parent)
  PROVE  Analysed'
<1>1. CASE ~ OutputFits(Top.sink, text)
  <2>1. UNCHANGED <<grammar, stack, sinkScalars, message, nodes>>
    BY <1>1 DEF Emit, Fail, run
  <2>2. QED
    BY <2>1, AnalysedIdle
<1>2. CASE OutputFits(Top.sink, text)
  <2>1. PICK x : x = [Node(parent, kind, Top) EXCEPT !.range =
                        RangeIn(Top.sink, sinkScalars[Top.sink], sinkScalars[Top.sink] + Len(text))]
    OBVIOUS
  <2>2. /\ sinkScalars' = [sinkScalars EXCEPT ![Top.sink] = @ + Len(text)]
        /\ nodes' = Append(nodes, x) /\ stack' = <<Onward>> \o Tail(stack) /\ UNCHANGED <<grammar, message>>
    BY <1>2, <2>1 DEF Emit, Then, Rest
  <2>3. x.kind = kind
    BY <2>1 DEF Node
  <2>4. PICK a, ws, ns2, ss2 : a = Onward /\ ws = <<a>> /\ ns2 = nodes' /\ ss2 = sinkScalars'
    OBVIOUS
  <2>5. /\ stack # <<>> /\ Top.op \in Owners
        /\ a.op = "Continue" /\ a.rule = Top.rule /\ a.sink = Top.sink /\ a.node = Top.node
        /\ Producing(grammar, Top) => Producing(grammar, a) \/ Produces(grammar, Part)
        /\ Part.kind = part
    BY <2>4, OwnerOnward
  <2>6. /\ SameNodes(nodes, ns2) /\ \A n \in DOMAIN ns2 : n \in DOMAIN nodes \/ Descends(grammar, ns2, n)
        /\ ns2[Top.node].kind = "production" /\ ns2[Top.node].rule = Top.rule
    <3>1. x.kind # "production" /\ x.kind \notin {"binding", "capture"}
      BY <2>3
    <3>2. QED
      BY ZenonT(40), <2>2, <2>4, <2>5, <3>1, OwnerPushes
  <2>7. IsList(ws) /\ DOMAIN ws = {1} /\ ws[1] = a
    BY <2>4, TopsAre
  <2>8. \A k \in DOMAIN ws : WorkDescends(grammar, ns2, ws[k])
    <3>1. WorkDescends(grammar, ns2, a)
      BY <2>5, <2>6 DEF WorkDescends
    <3>2. QED
      BY <2>7, <3>1
  <2>9. Handed(grammar, ns2, sinkScalars, ss2, message, message, stack, ws)
    <3>1. PICK n, i : n \in Nat /\ n = Len(text) /\ i = Top.sink /\ (part = "literal" => n > 0)
      <4>1. Len(text) \in Nat /\ (text # <<>> => Len(text) > 0)
        BY DEF Text
      <4>2. QED
        BY <4>1
    <3>2. PICK v \in Nat : v = sinkScalars[i]
      BY <2>5, <3>1, AtTop
    <3>3. Top = stack[1] /\ IsList(stack)
      BY <2>5, AtTop
    <3>4. sinkScalars \in Seq(Nat) /\ DOMAIN sinkScalars = DOMAIN buffers /\ i \in DOMAIN buffers
      <4>1. sinkScalars \in Seq(Nat) /\ buffers \in Seq(Text) /\ Len(sinkScalars) = Len(buffers)
        BY DEF Started, SinksFit
      <4>2. QED
        BY <2>5, <3>1, <4>1, AtTop
    <3>5. ss2 = [sinkScalars EXCEPT ![i] = v + n]
      BY <2>2, <2>4, <3>1, <3>2
    <3>6. ss2[i] = v + n /\ \A y \in DOMAIN sinkScalars : y # i => ss2[y] = sinkScalars[y]
      BY <3>4, <3>5
    <3>7. ASSUME NEW k \in 2 .. Len(stack) PROVE ss2[stack[k].sink] >= sinkScalars[stack[k].sink]
      <4>1. k \in DOMAIN stack /\ stack[k].sink \in 1 .. Len(buffers)
        BY <2>5, BelowFits
      <4>2. PICK y : y = stack[k].sink
        OBVIOUS
      <4>3. y \in DOMAIN sinkScalars /\ sinkScalars[y] \in Nat
        BY SMTT(40), <3>4, <4>1, <4>2 DEF Started, SinksFit
      <4>4. CASE y = i
        BY <3>1, <3>2, <3>6, <4>2, <4>4
      <4>5. CASE y # i
        BY <3>6, <4>2, <4>3, <4>5
      <4>6. QED
        BY <4>4, <4>5
    <3>8. Produces(grammar, Part) => part = "literal"
      BY <2>5 DEF Produces, HasRule
    <3>9. part = "literal" => ss2[stack[1].sink] > sinkScalars[stack[1].sink]
      BY <3>1, <3>2, <3>3, <3>6
    <3>10. ~ Owes(grammar, ns2, a)
      BY <2>5 DEF Owes
    <3>11. Producing(grammar, stack[1]) => ss2[stack[1].sink] > sinkScalars[stack[1].sink]
                                            \/ \E j \in DOMAIN ws : Producing(grammar, ws[j]) /\ ws[j].sink = stack[1].sink
      BY <2>5, <2>7, <3>3, <3>8, <3>9
    <3>12. \A k \in DOMAIN ws : ~ Owes(grammar, ns2, ws[k])
      BY <2>7, <3>10
    <3>13. QED
      BY <3>7, <3>11, <3>12 DEF Handed
  <2>10. /\ Handed(grammar, nodes', sinkScalars, sinkScalars', message, message', stack, ws)
         /\ grammar' = grammar /\ stack' = ws \o Tail(stack) /\ SameNodes(nodes, nodes')
         /\ \A m \in DOMAIN nodes' : m \in DOMAIN nodes \/ Descends(grammar, nodes', m)
         /\ \A k \in DOMAIN ws : WorkDescends(grammar, nodes', ws[k])
    BY <2>2, <2>4, <2>6, <2>8, <2>9
  <2>11. QED
    BY <2>5, <2>7, <2>10, AnalysedOn
<1>3. QED
  BY <1>1, <1>2

(* Continue, at a literal.                                                  *)
LEMMA AnalysedEmitLiteral ==
  ASSUME authored \in Authored, Started, Started', Analysed, EmitLiteral
  PROVE  Analysed'
<1>1. AtPart("literal") /\ Emit(Part.text, "text", Top.node)
  BY DEF EmitLiteral
<1>2. stack # <<>> /\ Top.op \in Owners /\ Part.kind = "literal" /\ LoweredPart(grammar, Part)
  BY <1>1, AtPartIs
<1>3. PICK text \in Text : text = Part.text
  BY <1>2 DEF LoweredPart
<1>4. text # <<>>
  <2>1. LiteralsEmit(grammar)
    BY CompiledEmits DEF Started
  <2>2. /\ Top.rule \in DOMAIN grammar /\ Top.production \in DOMAIN grammar[Top.rule].productions
    BY <1>2, OwnerNode
  <2>3. PICK j \in DOMAIN grammar[Top.rule].productions[Top.production].parts :
               Part = grammar[Top.rule].productions[Top.production].parts[j]
    BY <1>1, OwnerOnward
  <2>4. QED
    BY <1>2, <1>3, <2>1, <2>2, <2>3 DEF LiteralsEmit
<1>5. Emit(text, "text", Top.node)
  BY <1>1, <1>3
<1>6. "literal" \notin {"message", "call", "capture"} /\ "text" \in {"text", "host", "bound"}
  OBVIOUS
<1>7. QED
  BY <1>1, <1>4, <1>5, <1>6, AnalysedEmit

(* Continue, at a value.                                                    *)
LEMMA AnalysedEmitValue ==
  ASSUME authored \in Authored, Started, Started', Analysed, EmitValue
  PROVE  Analysed'
<1> DEFINE frame == frames[Top.frame]
           origin == Origin(frame, Part.value)
           kind == IF origin.kind = "host" THEN "host" ELSE "bound"
           parent == IF origin.kind = "derived" /\ origin.node # None THEN origin.node ELSE Top.node
<1>1. /\ AtPart("value")
      /\ IF Available(frame, Part.value) THEN Emit(Evaluate(frame, Part.value), kind, parent) ELSE Fail("value-name")
  BY DEF EmitValue
<1>2. kind \in {"text", "host", "bound"}
  OBVIOUS
<1>3. /\ stack # <<>> /\ Top.op \in Owners /\ Part.kind = "value" /\ LoweredPart(grammar, Part)
      /\ PartVerifies(grammar, Part, Len(frame.values))
  BY <1>1, AtPartIs
<1>4. Operand(Part.value) /\ OperandFits(Part.value, Len(frame.values))
  BY <1>3 DEF LoweredPart, PartVerifies
<1>5. /\ frame \in FramesTo(Len(nodes)) /\ Len(frame.values) = Len(frame.origins)
      /\ Len(nodes) \in Nat /\ RequestFits(request)
  BY <1>3, TopOwner, AtTop DEF Started
<1>6. Available(frame, Part.value) /\ Evaluate(frame, Part.value) \in Text
  <2> HIDE DEF frame
  <2>1. QED
    BY <1>4, <1>5, ValueIs
<1> HIDE DEF frame, origin, kind, parent
<1>7. PICK text \in Text : text = Evaluate(frame, Part.value)
  BY <1>6
<1>8. Emit(text, kind, parent)
  BY <1>1, <1>6, <1>7
<1>9. "value" \notin {"message", "call", "capture"} /\ "value" # "literal"
  OBVIOUS
<1>10. QED
  BY <1>1, <1>2, <1>8, <1>9, AnalysedEmit

(* Continue, at a call: the callee takes over what the part owes.           *)
LEMMA AnalysedCallRule ==
  ASSUME authored \in Authored, Started, Started', Analysed, CallRule
  PROVE  Analysed'
<1>1. AtPart("call")
  BY DEF CallRule
<1>2. PICK vs, os : vs = Values(frames[Top.frame], Part.arguments) /\ os = Origins(frames[Top.frame], Part.arguments)
  OBVIOUS
<1>3. PICK x, a, ws : /\ x = ExpandWork(Part.rule, vs, os, Top.sink, Top.depth + 1, Top.node)
                      /\ a = Onward /\ ws = <<x, a>>
  OBVIOUS
<1>4. CASE UNCHANGED <<grammar, stack, sinkScalars, message, nodes>>
  BY <1>4, AnalysedIdle
<1>5. CASE stack' = ws \o Tail(stack) /\ UNCHANGED <<grammar, sinkScalars, message, nodes>>
  <2>1. /\ stack # <<>> /\ Top.op \in Owners
        /\ a.op = "Continue" /\ a.rule = Top.rule /\ a.sink = Top.sink /\ a.node = Top.node
        /\ Producing(grammar, Top) => Producing(grammar, a) \/ Produces(grammar, Part)
        /\ Part.kind = "call"
        /\ HasRule(Part) => Part.rule \in Edges(grammar, Top.rule)
    BY <1>1, <1>3, OwnerOnward
  <2>2. x.op = "Expand" /\ x.rule = Part.rule /\ x.sink = Top.sink /\ x.parent = Top.node
    BY <1>3 DEF ExpandWork
  <2>3. Top = stack[1] /\ nodes[Top.node].kind = "production" /\ nodes[Top.node].rule = Top.rule
    BY <2>1, OwnerNode
  <2>4. IsList(ws) /\ DOMAIN ws = {1, 2} /\ ws[1] = x /\ ws[2] = a
    BY <1>3, TopsAre
  <2>5. WorkDescends(grammar, nodes, x)
    <3>1. Part.rule \in Edges(grammar, Top.rule)
      BY <2>1 DEF HasRule
    <3>2. QED
      BY <2>2, <2>3, <3>1 DEF WorkDescends, Parents, Owners
  <2>6. WorkDescends(grammar, nodes, a)
    BY <2>1, <2>3 DEF WorkDescends
  <2>7. Produces(grammar, Part) => Producing(grammar, x)
    BY <2>1, <2>2 DEF Produces, Producing
  <2>8. ~ Owes(grammar, nodes, x) /\ ~ Owes(grammar, nodes, a)
    BY <2>1, <2>2 DEF Owes
  <2>9. Passed(grammar, nodes, stack, ws)
    BY <2>1, <2>2, <2>3, <2>4, <2>7, <2>8 DEF Passed
  <2>10. Handed(grammar, nodes, sinkScalars, sinkScalars, message, message, stack, ws)
    BY <2>9, PassedOn
  <2>11. SameNodes(nodes, nodes)
    BY WorkIs, NodesStay
  <2>12. /\ Handed(grammar, nodes', sinkScalars, sinkScalars', message, message', stack, ws)
         /\ grammar' = grammar /\ stack' = ws \o Tail(stack) /\ SameNodes(nodes, nodes')
         /\ \A m \in DOMAIN nodes' : m \in DOMAIN nodes \/ Descends(grammar, nodes', m)
         /\ \A k \in DOMAIN ws : WorkDescends(grammar, nodes', ws[k])
    BY <1>5, <2>4, <2>5, <2>6, <2>10, <2>11
  <2>13. QED
    BY <2>1, <2>4, <2>12, AnalysedOn
<1>6. QED
  BY <1>2, <1>3, <1>4, <1>5 DEF CallRule, Fail, Then, Rest, run

(* Continue, at a capture: so does what is captured, in the same sink.      *)
LEMMA AnalysedStartCapture ==
  ASSUME authored \in Authored, Started, Started', Analysed, StartCapture
  PROVE  Analysed'
<1>1. AtPart("capture")
  BY DEF StartCapture
<1>2. PICK n, x, w, z, a, ws, ns2 :
        /\ n = Len(nodes) + 1 /\ x = Node(Top.node, "capture", Top) /\ ns2 = nodes'
        /\ w = ExpandWork(Part.rule, <<>>, <<>>, Top.sink, Top.depth + 1, n)
        /\ z = [op |-> "FinishCapture", frame |-> Top.frame, slot |-> Part.slot, name |-> Part.name,
                sink |-> Top.sink, start |-> sinkScalars[Top.sink], node |-> n]
        /\ a = Onward /\ ws = <<w, z, a>>
  OBVIOUS
<1>3. /\ ns2 = Append(nodes, x) /\ stack' = ws \o Tail(stack) /\ UNCHANGED <<grammar, sinkScalars, message>>
  BY <1>2 DEF StartCapture, Then, Rest
<1>4. /\ stack # <<>> /\ Top.op \in Owners
      /\ a.op = "Continue" /\ a.rule = Top.rule /\ a.sink = Top.sink /\ a.node = Top.node
      /\ Producing(grammar, Top) => Producing(grammar, a) \/ Produces(grammar, Part)
      /\ Part.kind = "capture"
      /\ HasRule(Part) => Part.rule \in Edges(grammar, Top.rule)
  BY <1>1, <1>2, OwnerOnward
<1>5. /\ w.op = "Expand" /\ w.rule = Part.rule /\ w.sink = Top.sink /\ w.parent = n
      /\ z.op = "FinishCapture"
      /\ x.kind = "capture" /\ x.rule = Top.rule /\ x.parent = Top.node
  BY <1>2 DEF ExpandWork, Node
<1>6. Top = stack[1]
  BY <1>4, OwnerNode
<1>7. /\ SameNodes(nodes, ns2) /\ \A m \in DOMAIN ns2 : m \in DOMAIN nodes \/ Descends(grammar, ns2, m)
      /\ ns2[n] = x
      /\ ns2[Top.node].kind = "production" /\ ns2[Top.node].rule = Top.rule
  <2>1. x.kind # "production" /\ (x.kind \in {"binding", "capture"} => x.rule = Top.rule /\ x.parent = Top.node)
    BY <1>5
  <2>2. ns2 = Append(nodes, x)
    BY <1>3
  <2>3. /\ SameNodes(nodes, ns2) /\ \A m \in DOMAIN ns2 : m \in DOMAIN nodes \/ Descends(grammar, ns2, m)
        /\ ns2[Len(nodes) + 1] = x
        /\ ns2[Top.node].kind = "production" /\ ns2[Top.node].rule = Top.rule
    BY <1>4, <2>1, <2>2, OwnerPushes
  <2>4. QED
    BY <1>2, <2>3
<1>8. IsList(ws) /\ DOMAIN ws = {1, 2, 3} /\ ws[1] = w /\ ws[2] = z /\ ws[3] = a
  <2>1. ws = <<w, z, a>>
    BY <1>2
  <2>2. QED
    BY ONLY <2>1, ThreeTops
<1>9. \A k \in DOMAIN ws : WorkDescends(grammar, ns2, ws[k])
  <2>1. WorkDescends(grammar, ns2, w)
    <3>1. Part.rule \in Edges(grammar, Top.rule)
      BY <1>4 DEF HasRule
    <3>2. QED
      BY <1>5, <1>7, <3>1 DEF WorkDescends, Parents, Owners
  <2>2. WorkDescends(grammar, ns2, z)
    BY <1>5 DEF WorkDescends, Owners
  <2>3. WorkDescends(grammar, ns2, a)
    BY <1>4, <1>7 DEF WorkDescends
  <2>4. QED
    BY <1>8, <2>1, <2>2, <2>3
<1>10. Produces(grammar, Part) => Producing(grammar, w)
  BY <1>4, <1>5 DEF Produces, Producing
<1>11. ~ Owes(grammar, ns2, w) /\ ~ Owes(grammar, ns2, z) /\ ~ Owes(grammar, ns2, a)
  BY <1>4, <1>5 DEF Owes
<1>12. Passed(grammar, ns2, stack, ws)
  BY <1>4, <1>5, <1>6, <1>8, <1>10, <1>11 DEF Passed
<1>13. Handed(grammar, ns2, sinkScalars, sinkScalars, message, message, stack, ws)
  BY <1>12, PassedOn
<1>14. /\ Handed(grammar, nodes', sinkScalars, sinkScalars', message, message', stack, ws)
       /\ grammar' = grammar /\ SameNodes(nodes, nodes')
       /\ \A m \in DOMAIN nodes' : m \in DOMAIN nodes \/ Descends(grammar, nodes', m)
       /\ \A k \in DOMAIN ws : WorkDescends(grammar, nodes', ws[k])
  BY <1>2, <1>3, <1>7, <1>9, <1>13
<1>15. QED
  BY <1>3, <1>4, <1>8, <1>14, AnalysedOn

(* Continue, at a message.                                                  *)
LEMMA AnalysedSelectMessage ==
  ASSUME authored \in Authored, Started, Started', Analysed, SelectMessage
  PROVE  Analysed'
<1>1. AtPart("message")
  BY DEF SelectMessage
<1>2. PICK x, a, ws, ns2, msg2 :
        /\ x = Node(Top.node, "message", Top) /\ ns2 = nodes' /\ msg2 = message'
        /\ a = Onward /\ ws = <<a>>
  OBVIOUS
<1>3. CASE UNCHANGED <<grammar, stack, sinkScalars, message, nodes>>
  BY <1>3, AnalysedIdle
<1>4. CASE /\ ns2 = Append(nodes, x) /\ stack' = ws \o Tail(stack) /\ UNCHANGED <<grammar, sinkScalars>>
           /\ msg2 # <<>>
  <2>1. /\ stack # <<>> /\ Top.op \in Owners
        /\ a.op = "Continue" /\ a.rule = Top.rule /\ a.node = Top.node
    BY <1>1, <1>2, OwnerOnward
  <2>2. x.kind = "message"
    BY <1>2 DEF Node
  <2>3. /\ SameNodes(nodes, ns2) /\ \A m \in DOMAIN ns2 : m \in DOMAIN nodes \/ Descends(grammar, ns2, m)
        /\ ns2[Top.node].kind = "production" /\ ns2[Top.node].rule = Top.rule
    <3>1. x.kind # "production" /\ x.kind \notin {"binding", "capture"}
      BY <2>2
    <3>2. QED
      BY <1>4, <2>1, <3>1, OwnerPushes
  <2>4. IsList(ws) /\ DOMAIN ws = {1} /\ ws[1] = a
    BY <1>2, TopsAre
  <2>5. \A k \in DOMAIN ws : WorkDescends(grammar, ns2, ws[k])
    <3>1. WorkDescends(grammar, ns2, a)
      BY <2>1, <2>3 DEF WorkDescends
    <3>2. QED
      BY <2>4, <3>1
  <2>6. \A k \in DOMAIN ws : ~ Owes(grammar, ns2, ws[k])
    BY <2>1, <2>4 DEF Owes
  <2>7. Handed(grammar, ns2, sinkScalars, sinkScalars, message, msg2, stack, ws)
    <3>1. IsList(stack) /\ \A k \in DOMAIN stack : sinkScalars[stack[k].sink] \in Nat
      BY WorkIs
    <3>2. \A k \in 2 .. Len(stack) : sinkScalars[stack[k].sink] >= sinkScalars[stack[k].sink]
      BY <3>1, ListIs
    <3>3. QED
      BY <1>4, <2>6, <3>2 DEF Handed
  <2>8. /\ Handed(grammar, nodes', sinkScalars, sinkScalars', message, message', stack, ws)
        /\ grammar' = grammar /\ SameNodes(nodes, nodes')
        /\ \A m \in DOMAIN nodes' : m \in DOMAIN nodes \/ Descends(grammar, nodes', m)
        /\ \A k \in DOMAIN ws : WorkDescends(grammar, nodes', ws[k])
    BY <1>2, <1>4, <2>3, <2>5, <2>7
  <2>9. QED
    BY <1>4, <2>1, <2>4, <2>8, AnalysedOn
<1>5. QED
  <2>1. CASE MessageError = "none"
    <3>1. /\ message' = <<Values(frames[Top.frame], Part.arguments)>>
          /\ nodes' = Append(nodes, x) /\ stack' = ws \o Tail(stack) /\ UNCHANGED <<grammar, sinkScalars>>
      BY <1>2, <2>1 DEF SelectMessage, Then, Rest
    <3>2. message' # <<>>
      BY <3>1
    <3>3. QED
      BY <1>2, <1>4, <3>1, <3>2
  <2>2. CASE MessageError # "none"
    BY <1>3, <2>2 DEF SelectMessage, Fail, run
  <2>3. QED
    BY <2>1, <2>2

(* PrepareBinding: a binding writes to a sink of its own, and pays nothing. *)
LEMMA AnalysedStartBinding ==
  ASSUME authored \in Authored, Started, Started', Analysed, StartBinding
  PROVE  Analysed'
<1>1. /\ stack # <<>> /\ Top.op = "PrepareBinding" /\ Top.next \in DOMAIN Production(Top).bindings
  BY DEF StartBinding, Running, Top
<1>2. Top.op \in Owners
  BY <1>1 DEF Owners
<1>3. PICK b, sink, n : /\ b = Production(Top).bindings[Top.next] /\ sink = Len(buffers) + 1 /\ n = Len(nodes) + 1
  OBVIOUS
<1>4. PICK vs, os : vs = Values(frames[Top.frame], b.arguments) /\ os = Origins(frames[Top.frame], b.arguments)
  OBVIOUS
<1>5. PICK x, w, z, a, ws, ns2, ss2 :
        /\ x = Node(Top.node, "binding", Top) /\ ns2 = nodes' /\ ss2 = sinkScalars'
        /\ w = ExpandWork(b.rule, vs, os, sink, Top.depth + 1, n)
        /\ z = [op |-> "FinishBinding", frame |-> Top.frame, slot |-> b.slot, name |-> b.name,
                sink |-> sink, node |-> n]
        /\ a = [Top EXCEPT !.next = @ + 1] /\ ws = <<w, z, a>>
  OBVIOUS
<1>6. CASE UNCHANGED <<grammar, stack, sinkScalars, message, nodes>>
  BY <1>6, AnalysedIdle
<1>7. CASE /\ ss2 = Append(sinkScalars, 0) /\ ns2 = Append(nodes, x) /\ stack' = ws \o Tail(stack)
           /\ UNCHANGED <<grammar, message>>
  <2>1. /\ a.op = "PrepareBinding" /\ a.rule = Top.rule /\ a.production = Top.production
        /\ a.sink = Top.sink /\ a.node = Top.node
    <3>1. PICK t : t = Top
      OBVIOUS
    <3>2. t \in [op : Owners, rule : DOMAIN grammar, production : Nat, next : Nat \ {0},
                 frame : 1 .. Len(frames), sink : 1 .. Len(buffers),
                 depth : 0 .. request.limits.depth, node : 1 .. Len(nodes)]
      BY <1>1, <1>2, <3>1, TopOwner
    <3>3. a = [t EXCEPT !.next = @ + 1]
      BY <1>5, <3>1
    <3>4. a.op = t.op /\ a.rule = t.rule /\ a.production = t.production /\ a.sink = t.sink /\ a.node = t.node
      BY <3>2, <3>3
    <3>5. QED
      BY <1>1, <3>1, <3>4
  <2>2. /\ w.op = "Expand" /\ w.rule = b.rule /\ w.parent = n /\ z.op = "FinishBinding"
        /\ x.kind = "binding" /\ x.rule = Top.rule /\ x.parent = Top.node
    BY <1>5 DEF ExpandWork, Node
  <2>3. Top = stack[1] /\ IsList(stack) /\ Top.rule \in DOMAIN grammar /\ Top.production \in DOMAIN grammar[Top.rule].productions
    BY <1>1, <1>2, OwnerNode
  <2>4. b.rule \in Edges(grammar, Top.rule)
    <3>1. b.rule \in BindingRules(Production(Top))
      BY <1>1, <1>3 DEF BindingRules
    <3>2. QED
      BY <2>3, <3>1 DEF Edges, Production
  <2>5. /\ SameNodes(nodes, ns2) /\ \A m \in DOMAIN ns2 : m \in DOMAIN nodes \/ Descends(grammar, ns2, m)
        /\ ns2[n] = x
        /\ ns2[Top.node].kind = "production" /\ ns2[Top.node].rule = Top.rule
    <3>1. x.kind # "production" /\ (x.kind \in {"binding", "capture"} => x.rule = Top.rule /\ x.parent = Top.node)
      BY <2>2
    <3>2. ns2 = Append(nodes, x)
      BY <1>7
    <3>3. /\ SameNodes(nodes, ns2) /\ \A m \in DOMAIN ns2 : m \in DOMAIN nodes \/ Descends(grammar, ns2, m)
          /\ ns2[Len(nodes) + 1] = x
          /\ ns2[Top.node].kind = "production" /\ ns2[Top.node].rule = Top.rule
      BY <1>1, <1>2, <3>1, <3>2, OwnerPushes
    <3>4. QED
      BY <1>3, <3>3
  <2>6. IsList(ws) /\ DOMAIN ws = {1, 2, 3} /\ ws[1] = w /\ ws[2] = z /\ ws[3] = a
    <3>1. ws = <<w, z, a>>
      BY <1>5
    <3>2. QED
      BY ONLY <3>1, ThreeTops
  <2>7. \A k \in DOMAIN ws : WorkDescends(grammar, ns2, ws[k])
    <3>1. WorkDescends(grammar, ns2, w)
      BY <2>2, <2>4, <2>5 DEF WorkDescends, Parents, Owners
    <3>2. WorkDescends(grammar, ns2, z)
      BY <2>2 DEF WorkDescends, Owners
    <3>3. WorkDescends(grammar, ns2, a)
      BY <2>1, <2>5 DEF WorkDescends
    <3>4. QED
      BY <2>6, <3>1, <3>2, <3>3
  <2>8. Producing(grammar, Top) => Producing(grammar, a)
    BY <1>1, <1>2, <2>1 DEF Producing
  <2>9. ~ Owes(grammar, ns2, w) /\ ~ Owes(grammar, ns2, z) /\ ~ Owes(grammar, ns2, a)
    BY <2>1, <2>2 DEF Owes
  <2>10. Passed(grammar, ns2, stack, ws)
    BY <2>1, <2>3, <2>6, <2>8, <2>9 DEF Passed
  <2>11. ASSUME NEW k \in 2 .. Len(stack) PROVE ss2[stack[k].sink] = sinkScalars[stack[k].sink]
    <3>1. stack[k].sink \in 1 .. Len(buffers)
      BY <1>1, BelowFits
    <3>2. sinkScalars \in Seq(Nat) /\ Len(sinkScalars) = Len(buffers)
      BY DEF Started, SinksFit
    <3>3. \A y \in 1 .. Len(sinkScalars) : ss2[y] = sinkScalars[y]
      BY <1>7, <3>2
    <3>4. QED
      BY <3>1, <3>2, <3>3
  <2>12. Handed(grammar, ns2, sinkScalars, ss2, message, message, stack, ws)
    BY <2>10, <2>11, PassedOn
  <2>13. /\ Handed(grammar, nodes', sinkScalars, sinkScalars', message, message', stack, ws)
         /\ grammar' = grammar /\ SameNodes(nodes, nodes')
         /\ \A m \in DOMAIN nodes' : m \in DOMAIN nodes \/ Descends(grammar, nodes', m)
         /\ \A k \in DOMAIN ws : WorkDescends(grammar, nodes', ws[k])
    BY <1>5, <1>7, <2>5, <2>7, <2>12
  <2>14. QED
    BY <1>1, <1>7, <2>6, <2>13, AnalysedOn
<1>8. QED
  BY <1>3, <1>4, <1>5, <1>6, <1>7 DEF StartBinding, Fail, Then, Rest, run

(* The handler of a work item, or the end of the request.                   *)
LEMMA AnalysedMachine ==
  ASSUME authored \in Authored, Started, Analysed, Machine
  PROVE  Analysed'
<1>1. Started'
  BY MachineKeeps
<1>2. CASE RefuseExpansion \/ ExhaustSampler \/ Complete
  <2>1. UNCHANGED <<grammar, stack, sinkScalars, message, nodes>>
    BY <1>2 DEF RefuseExpansion, ExhaustSampler, Complete, Fail, run
  <2>2. QED
    BY <2>1, AnalysedIdle
<1>3. CASE Expand
  BY <1>1, <1>3, AnalysedExpand
<1>4. CASE FinishProduction
  BY <1>1, <1>4, AnalysedFinishProduction
<1>5. CASE StartBinding
  BY <1>1, <1>5, AnalysedStartBinding
<1>6. CASE FinishBinding
  BY <1>1, <1>6, AnalysedFinishBinding
<1>7. CASE StartBody
  BY <1>1, <1>7, AnalysedStartBody
<1>8. CASE EndBody
  BY <1>1, <1>8, AnalysedEndBody
<1>9. CASE EmitLiteral
  BY <1>1, <1>9, AnalysedEmitLiteral
<1>10. CASE EmitValue
  BY <1>1, <1>10, AnalysedEmitValue
<1>11. CASE CallRule
  BY <1>1, <1>11, AnalysedCallRule
<1>12. CASE StartCapture
  BY <1>1, <1>12, AnalysedStartCapture
<1>13. CASE FinishCapture
  BY <1>1, <1>13, AnalysedFinishCapture
<1>14. CASE SelectMessage
  BY <1>1, <1>14, AnalysedSelectMessage
<1>15. QED
  BY <1>2, <1>3, <1>4, <1>5, <1>6, <1>7, <1>8, <1>9, <1>10, <1>11, <1>12, <1>13, <1>14 DEF Machine

(* A formatted message.                                                     *)
LEMMA AnalysedFormat ==
  ASSUME Started, Analysed, NEW text, NEW valid, Format(text, valid)
  PROVE  Analysed'
<1>1. CASE UNCHANGED <<grammar, stack, sinkScalars, message, nodes>>
  BY <1>1, AnalysedIdle
<1>2. CASE nodes' = Spread(text) /\ UNCHANGED <<grammar, stack, sinkScalars, message>>
  <2>1. PICK n \in Nat : n = Len(nodes) /\ DOMAIN nodes = 1 .. n
    BY WorkIs, ListIs
  <2>2. PICK range, ns : range = <<0, Len(text)>> /\ ns = Spread(text)
    OBVIOUS
  <2>3. DOMAIN ns = 1 .. n /\ \A k \in 1 .. n : ns[k] = nodes[k] \/ ns[k] = [nodes[k] EXCEPT !.range = range]
    BY <2>1, <2>2 DEF Spread
  <2>4. ns = [k \in 1 .. n |-> ns[k]]
    BY <2>1, <2>2, <2>3 DEF Spread
  <2>5. IsList(ns) /\ Len(ns) = n
    BY <2>4, MadeList
  <2>6. ASSUME NEW k \in 1 .. n PROVE SameNode(nodes[k], ns[k])
    <3>1. PICK node \in Nodes : node = nodes[k]
      BY <2>1, WorkIs
    <3>2. PICK x : x = [node EXCEPT !.range = range]
      OBVIOUS
    <3>3. x.kind = node.kind /\ x.rule = node.rule /\ x.parent = node.parent
      BY <3>2 DEF Nodes
    <3>4. ns[k] = node \/ ns[k] = x
      BY <2>3, <3>1, <3>2
    <3>5. QED
      BY <3>1, <3>3, <3>4 DEF SameNode
  <2>7. IsList(nodes)
    BY WorkIs
  <2>8. SameNodes(nodes, ns) /\ DOMAIN ns = DOMAIN nodes
    BY <2>1, <2>3, <2>5, <2>6, <2>7 DEF SameNodes
  <2>9. SameNodes(nodes, nodes') /\ DOMAIN nodes' = DOMAIN nodes
    BY <1>2, <2>2, <2>8
  <2>10. QED
    BY <1>2, <2>9, AnalysedStays
<1>3. QED
  BY <1>1, <1>2 DEF Format, Fail, run

(* Nothing has been expanded. *)
LEMMA AnalysedStart ==
  ASSUME NEW s, \A k \in DOMAIN s : s[k].op = "Expand" /\ s[k].parent = None,
         NEW rules, NEW ns, ns = <<>>, NEW ss, NEW msg
  PROVE  Family(rules, ns, s) /\ Owing(rules, ns, ss, msg, s)
<1>1. DOMAIN ns = {}
  OBVIOUS
<1>2. \A k \in DOMAIN s : WorkDescends(rules, ns, s[k])
  BY DEF WorkDescends, Owners
<1>3. \A k \in DOMAIN s : ~ Owes(rules, ns, s[k])
  BY DEF Owes
<1>4. QED
  BY <1>1, <1>2, <1>3 DEF Family, Owing

(* No step breaks the lineage, or a promise to a sink.                      *)
LEMMA AnalysedStep ==
  ASSUME IInv, Analysed, [Next]_vars
  PROVE  Analysed'
<1>1. authored \in Authored
  BY DEF IInv
<1>2. CASE UNCHANGED <<grammar, stack, sinkScalars, message, nodes>>
  <2>1. PICK ns : ns = nodes
    OBVIOUS
  <2>2. QED
    BY <1>2 DEF Analysed, Family, Owing, Owes, Paid, Served, Descends, WorkDescends
<1>3. CASE NotStarted
  <2>1. /\ stack = <<>> /\ nodes = <<>> /\ outcome \in {"source", "compiled", "refused", "bytecode-corrupt"}
    BY <1>3 DEF NotStarted
  <2>2. ~ Machine /\ \A text, valid : ~ Format(text, valid)
    BY <2>1 DEF Machine, Running, AtPart, RefuseExpansion, ExhaustSampler, Expand, FinishProduction,
                StartBinding, FinishBinding, StartBody, EndBody, EmitLiteral, EmitValue, CallRule,
                StartCapture, FinishCapture, SelectMessage, Complete, Format
  <2>3. CASE Compile
    <3>1. stack' = <<>> /\ nodes' = <<>>
      BY <2>1, <2>3 DEF Compile, Fail, run
    <3>2. PICK s, ns, rules, ss, msg : s = stack' /\ ns = nodes' /\ rules = grammar' /\ ss = sinkScalars' /\ msg = message'
      OBVIOUS
    <3>3. ns = <<>> /\ DOMAIN s = {}
      BY <3>1, <3>2, TopsAre
    <3>4. Family(rules, ns, s) /\ Owing(rules, ns, ss, msg, s)
      BY <3>3, AnalysedStart
    <3>5. QED
      BY <3>2, <3>4 DEF Analysed
  <2>4. ASSUME NEW api, NEW locale, NEW limits, NEW data, Begin(api, locale, limits, data)
        PROVE  Analysed'
    <3>1. PICK x : x = ExpandWork(1, <<>>, <<>>, Root, 1, None)
      OBVIOUS
    <3>2. stack' = <<x>> /\ nodes' = <<>>
      BY <2>1, <2>4, <3>1 DEF Begin
    <3>3. x.op = "Expand" /\ x.parent = None
      BY <3>1 DEF ExpandWork
    <3>4. PICK s, ns, rules, ss, msg : s = stack' /\ ns = nodes' /\ rules = grammar' /\ ss = sinkScalars' /\ msg = message'
      OBVIOUS
    <3>5. ns = <<>> /\ DOMAIN s = {1} /\ s[1] = x
      BY <3>2, <3>4, TopsAre
    <3>6. \A k \in DOMAIN s : s[k].op = "Expand" /\ s[k].parent = None
      BY <3>3, <3>5
    <3>7. Family(rules, ns, s) /\ Owing(rules, ns, ss, msg, s)
      BY <3>5, <3>6, AnalysedStart
    <3>8. QED
      BY <3>4, <3>7 DEF Analysed
  <2>5. QED
    BY <1>2, <2>2, <2>3, <2>4 DEF Next, vars, run
<1>4. CASE Started
  <2>1. ~ Compile /\ \A api, locale, limits, data : ~ Begin(api, locale, limits, data)
    BY <1>4 DEF Started, Compile, Begin
  <2>2. CASE Machine
    BY <1>1, <1>4, <2>2, AnalysedMachine
  <2>3. ASSUME NEW text, NEW valid, Format(text, valid) PROVE Analysed'
    BY <1>4, <2>3, AnalysedFormat
  <2>4. QED
    BY <1>2, <2>1, <2>2, <2>3 DEF Next, vars, run
<1>5. QED
  BY <1>3, <1>4 DEF IInv

(* Both analyses hold in every state of a request.                          *)
LEMMA AnalysesFollow ==
  ASSUME IInv, Analysed
  PROVE  AnalysesAreSound
<1>1. CASE NotStarted
  <2>1. stack = <<>> /\ DOMAIN nodes = {}
    BY <1>1 DEF NotStarted
  <2>2. QED
    BY <2>1 DEF AnalysesAreSound, NullableIsSound, RecursiveIsSound, Running
<1>2. CASE Started
  BY <1>2, AnalysedSound DEF IInv
<1>3. QED
  BY <1>1, <1>2 DEF IInv

(* What nullable_rules and the recursive flag say of a rule holds in every  *)
(* run. A rule that is not nullable has appended to its sink when its       *)
(* production ends, or the message is selected: every production of such a  *)
(* rule has a literal, a message, or a call of another such rule, and until *)
(* that has paid, work that will is above it on the stack, for the same     *)
(* sink. And a rule that expands itself, through calls, bindings or         *)
(* captures, is one that the flag calls recursive: a node is the child of a *)
(* production that mentions its rule. diverse_eligible_weights never cools  *)
(* a production of a rule that either flag marks (compiler.rs:3431), and    *)
(* both flags are computed at compile time, for every input.                *)
THEOREM AnalysesSoundAlways == Spec => []AnalysesAreSound
<1>1. Init => Analysed
  <2> SUFFICES ASSUME Init PROVE Analysed
    OBVIOUS
  <2>1. nodes = <<>> /\ stack = <<>>
    BY DEF Init
  <2>2. DOMAIN stack = {}
    BY <2>1, TopsAre
  <2>3. QED
    BY <2>1, <2>2, AnalysedStart DEF Analysed
<1>2. IInv /\ Analysed /\ [Next]_vars => Analysed'
  BY AnalysedStep
<1>3. IInv /\ Analysed => AnalysesAreSound
  BY AnalysesFollow
<1>4. Spec => []IInv
  BY GeneratorInvariant
<1>5. QED
  BY <1>1, <1>2, <1>3, <1>4, PTL DEF Spec

=============================================================================
