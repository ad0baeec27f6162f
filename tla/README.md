# A formal model of Mecojoni

Mecojoni compiles `.meco` grammars and generates text from them. This directory
holds TLA+ modules that model its stateful parts, TLC configurations that check
them on small instances, and TLAPS proofs of what holds for every instance. All
paths below are relative to the repository root.

## The system

| Component | Source | State | Operations |
|---|---|---|---|
| Source frontend | `crates/mecojoni-core/src/{front_matter,parser,source,span,ast}.rs` | the line it is at, the header and rule being built, diagnostics | parse text to an AST, recover after faults |
| Compiler | `compiler.rs` | rule table under construction | resolve imports and names, type, message effects, static selections |
| Graph analyses | `compiler.rs` 3959–4245 | worklists, DFS stacks | reachable, productive, nullable, recursive rules |
| Weights and random numbers | `rational.rs`, `profile.rs`, `prng.rs`, `compiler.rs` 3268–3483 | a PRNG cursor | normalise weights, draw below a bound under a word budget |
| Generator | `compiler.rs` 826–1368 | a work stack, frames, sinks, limits | expand, continue, bind, capture |
| Counters | `diverse.rs` 303–427 | open-addressing table | increment, decrement, rehash |
| Histories | `diverse.rs` 442–528 | ring, byte total, counters | push with eviction |
| Diverse transaction | `diverse.rs` 530–920, `compiler.rs` 3426–3483 | session cursor, repetition store, candidate deltas | generate: attempts, ranking, commit |
| Roots and snapshots | `diverse.rs` 28–300, 577–706 | `Rc` roots | clone, commit, capture, restore, export, import |
| Compiled artifacts | `artifact.rs`, `compiler.rs` 351–594 | a decoder's position and tallies | encode, decode within limits, inspect |
| Formatter contract, provenance, audit | `formatter.rs`, `provenance.rs`, `audit.rs` | none | validation, traces |
| WebAssembly boundary | `crates/mecojoni-wasm/src/lib.rs` | handle table, linear-memory allocations | ABI calls, claim, dispose |
| JavaScript host | `js/mecojoni.ts` | objects owning handles, registers of a call | public methods over `invoke` |
| Native C ABI | `engines/godot/mecojoni-ffi/src/lib.rs` | native objects behind pointers | builder, compile, decode, encode, generate, free |
| Engine bindings | `engines/unity/**/Mecojoni.cs`, `engines/godot/gdextension`, `engines/defold` | wrappers that own native objects | the same, `Dispose`, finalizers |
| Command line, package loader | `crates/mecojoni-cli/src` | worklist of files, temporary file | load, generate, write atomically |
| MCP server | `mcp/server.ts` | none | runs the command line |

How they interact: the compiler turns modules into a `CompiledGrammar`, which is
immutable afterwards. The generator runs over it. A `SamplerSession` runs the
generator several times per call, each time with a `DiverseCandidateState` that
reads the `RepetitionStore` and collects selections; it commits the best
candidate. A store holds its histories in an `Rc` root which snapshots and clones
share; each history keeps counters in a `CountMap`. Grammars, sessions and stores
reach a JavaScript host as numbers in the handle table of the WebAssembly module,
and the wrapper objects of `mecojoni.ts` own those numbers. They reach game engines
as pointers of the C ABI, owned by managed wrappers. The command line reads packages
from files and keeps compiled grammars in files. The core is single-threaded (`Rc` is
not `Send`, the ABI is not re-entered); the difficulty lies in long sequences of
calls, in state shared by aliases, in budgets that evict, in failures halfway through
a call, and in numbers that run out. Two things do run side by side: processes that
write one file, and the finalizer thread of a managed engine.

What makes each modelled component correct:

- *Counters*: stored keys are always found, never twice; loops end; the books
  agree with the slots; a rehash loses nothing; together, the table is a bag.
- *Histories*: the ring is the longest run of most recent entries within both
  budgets, and counters and byte total describe exactly that ring.
- *Transaction*: a call is atomic; only returned outputs are remembered; the hard
  gap holds over everything ever returned; the least repeated candidate wins.
- *Roots*: sharing is invisible, and a root is freed with its last owner.
- *Generator*: a text is what the recorded choices derive; every limit holds on every
  path text can take; provenance describes the text; every request ends; a package
  that compiles never meets an internal error.
- *Graph analyses*: each computes the set it is defined to, and a package is accepted
  exactly when every rule its entries reach can finish.
- *Weights and random numbers*: productions are drawn exactly in proportion, whatever
  path draws them; overflow is reported only when it is unavoidable.
- *Package loader*: a package is what its imports reach, each file once, and is
  accepted exactly when imports are acyclic.
- *Writing an artifact*: readers see a whole artifact or none, whoever is killed when.
- *Handle table*: numbers are never reused, no value becomes unreachable, a handle
  keeps its meaning, whatever the host does.
- *Source frontend*: a module reads back as what it was written to mean, whatever its
  layout; the diagnostics are the independent faults, once each and in order; every
  step moves on.
- *Artifacts*: what was written is what is read, within exact limits; no damage is
  read as a grammar, and nothing is accepted that the generator could stumble over.
- *Native C ABI and Unity*: every native object has one owner, no call and no borrowed
  view outlives its object, and a failed call changes nothing but its error object.
- *JavaScript host*: a finished call leaves nothing behind that no object owns,
  whatever step failed, and no object outlives its value.

## Modules

| Module | Models | Notes |
|---|---|---|
| `CountBag` | what a history expects of its counters | abstract specification |
| `CountMap` | `CountMap` | implements `CountBag` |
| `HistoryWindow` | the window a history promises | operators only |
| `BoundedHistory` | `FragmentHistory`, `CountedHistory` | runs over the table of `CountMap`; the ring against `HistoryWindow` |
| `HistoryWindow_proofs` | | lemmas about windows |
| `AtomicGeneration` | what `generate` promises | abstract specification |
| `DiverseTransaction` | `SamplerSession::generate` over a `RepetitionStore` | uses `HistoryWindow`; implements `AtomicGeneration` |
| `DiverseTransaction_proofs` | | theorems about it |
| `RepetitionDomain` | stores and snapshots as values | abstract specification |
| `RepetitionRoots` | `Rc` roots, copy on write | implements `RepetitionDomain` |
| `Repetition_proofs` | | theorems about `CountMap`, `BoundedHistory` and `RepetitionRoots` |
| `HandleTable` | `State` of `mecojoni-wasm` and its ABI | arbitrary host |
| `JsWrapper` | `Mecojoni.invoke` and its callers | drives the actions of `HandleTable` |
| `JsWrapper_proofs` | | theorems about `HandleTable` and `JsWrapper` |
| `Grammar` | lowering, slots, verification, message effects | what the compiler makes of a package, as operators |
| `Generator` | `generate_weighted_structural_internal` and its callers | uses `Grammar` |
| `Derivation` | | reference semantics of an authored package |
| `Generator_proofs` | | theorems about `Grammar` and `Generator` |
| `RuleProperty` | `solve_monotone_rule_property` | worklist |
| `Components` | `strongly_connected_components` | two passes |
| `GraphAnalysis` | `analyze_graph` | composes `RuleProperty`, twice, and `Components` |
| `Sampling` | weights, selection, rejection sampling | machine integers of any width |
| `Compiler_proofs` | | theorems about `RuleProperty`, `Components`, `GraphAnalysis` and `Sampling` |
| `PackageLoader` | `load_package`, `validate_acyclic_imports` | files may vanish |
| `AtomicWrite` | `write_atomic` | processes, crashes |
| `CommandLine` | `compile_artifact_command` | composes `PackageLoader` and `AtomicWrite` |
| `CommandLine_proofs` | | theorems about both |
| `SourceText` | lines, identifiers, escapes, strings | operators on lexemes |
| `Expressions` | weight and guard expressions | two recursive-descent parsers |
| `ProductionSyntax` | headings, clauses, bodies, calls, blocks | what the lines of one production mean |
| `FrontMatter` | the header | what each header line does to the header |
| `SourceParser` | `parse_front_matter`, `parse_module` | the loop over lines, recovery |
| `SourceLayout` | | the other direction, independent of the parser: how a tree may be written |
| `ArtifactFormat` | the records of an artifact | the writer's layouts and, apart from them, the decoder's |
| `Artifact` | `encode_artifact`, `decode_artifact`, `inspect_artifact`, verification | files, damage, limits |
| `NativeAbi` | the functions of `mecojoni.h` | heap, status, out parameters |
| `UnityHost` | `MecoGrammar`, `MecoPackageBuilder` | one application thread and finalizers over `NativeAbi` |
| `UnityHost_proofs` | | theorems about both |
| `MC*` | | constants of the instances TLC checks |

Some modules are composed whole: `BoundedHistory` runs `CountMap` inside its pushes,
`JsWrapper` drives `HandleTable`, `UnityHost` calls `NativeAbi`, `CommandLine` joins
`PackageLoader` and `AtomicWrite`, `GraphAnalysis` runs `RuleProperty` and
`Components`. The others meet in abstract specifications. `DiverseTransaction` takes its
histories to be the windows that `BoundedHistory` maintains; `RepetitionRoots`
takes a commit to append one output, which is what `DiverseTransaction` does to a
store. `Generator` takes a draw to yield any
eligible production after any number of words rejection allows, which is what
`Sampling` shows of a draw; `Grammar` defines recursive, productive and nullable
rules by fixpoints, which are what `GraphAnalysis` shows the code to compute; and
`DiverseTransaction` takes the expansion of a candidate to be any sequence of
selections, of which `Generator` is the detail.

### How state and actions correspond to the code

*CountMap.* `slot[i]` merges `slots[i].key` and `.tombstone`, which are never both
set. `Find` and `Target` say where the probing loops stop. `increment` and
`decrement` are one step, except that the loop of `rehash` takes a step per old
slot, so that each intermediate table is a state: `BeginRehash`, `RehashSlot`,
`FinishIncrement`. The hash is an arbitrary function. A decrement is only called
for a key the history holds; that `find` then succeeds is the theorem
`StoredKeysFound`. `MayIncrement` bounds the number of live keys by what the
owning history holds.

*BoundedHistory.* `push` is run as the code runs it: `Push` enters it, `CountFragment`
is a turn of the counting loop (an increment of `CountMap`, with its rehash when one is
due), `Enqueue`, then `Pop` and `UncountFragment` for each entry over a budget, and
`Return`. `UncountFragment` and `Pop` are disabled where the code would panic, so a
panic is a push that never ends. `pushed` is a history variable for the property. The
window is defined by `HistoryWindow` over everything ever pushed, not by evictions.

*DiverseTransaction.* `Begin` is the reservation and the snapshot taken by
`generate_transaction`; `Select` is one expansion, restricted by
`diverse_eligible_weights`; `Succeed` ranks a candidate, `Disqualify` drops one;
`Commit` and `Fail` end the call. The set `E` of `Select` is what guards and base
weights leave, so it is arbitrary and nonempty. Soft cooldown and diversity
factors are positive and only set probabilities, so they do not appear. `Gap` is
a parameter where the code has `hard_minimum_gap = 1`. A cancelled or refused call
changes nothing. `returned` and `chosen` are history variables.

*RepetitionRoots.* `strong` is the reference count, `heap` the data of a root,
`store` and `snapshot` the handles. `Commit` is `Rc::make_mut` followed by the
update. Session and profile contents of a snapshot are values and left out.

*HandleTable.* Each ABI call is one step because calls are synchronous and not
re-entered. `Refuse` is any call that fails to decode, to find its handles, or in
the core. `gone` and `told` are history variables: numbers that were live, and
values whose handle the host has seen.

*JsWrapper.* One variable `pc` for the running call; each step that can throw has
a failing twin that runs the code's `catch` and `finally`. `decoded` is the
register (`valueHandle`, `decoded.valueHandle`) a `catch` block would dispose of.

*Grammar.* `Lower` is what `compile_package_with_manifest` makes of authored rules:
it walks bindings and parts with the scope the code has at each point and numbers
local slots by order of introduction, orders the arguments of calls by the
parameters of the rule called, and translates guards. `Lowers` is every refusal on
the way, `MessageEffects` and `MessagesStandAlone` the message pass, and `Verifies`
the second opinion of `validate_lowered_invariants`, which artifacts loaded from
bytes also pass. Values are texts: the other value types change neither slots nor
control. Guards test equality with a constant.

*Generator.* `stack` is the vector of work items with its top first; one action per
kind of item, with the error returns of the code as further disjuncts, in the order
the code tests them. `outcome` names how the request ended. A sink is a text;
`sinkScalars` is the code's redundant count of it. A frame is `values` and
`origins`; `nodes`, `bound` and `choices` are the traces, which the model always
records (the code records them on request). The random words of a draw are counted,
and what they choose is arbitrary. A provenance range counts scalars where the code
also has bytes. `Format` is the whole of `generate_weighted_with_formatter` after the
derivation: the answer of the host is any text, valid or not.

*GraphAnalysis.* `phase` is the line of `analyze_graph` that runs. The worklist takes
a step per occurrence struck off (`Skip`, `Strike`), the searches a step per edge or
node. The reverse lists are sets, so their order is left open, and so is the order
of rules that start in the queue: the results do not depend on either.

*Sampling.* One selection: `Weigh` is `eligible_weights` with
`normalize_rationals`, or the selection prepared at compilation; `Draw` is a turn of
the loop of `uniform_below`. `Half` stands for 2^63: it gives the bounds of an `i64`, a
`u64` and a `u128`, and `Overflows` names where the checked arithmetic of
`normalize_rationals` fails. A `Rational` is a reduced fraction (`WeightsAssumption`). A
random word is arbitrary: the arithmetic of SplitMix64 is left out.

*PackageLoader.* `Read` is one turn of the loop over `pending`; files that `MayVanish`
may be deleted before they are read. `Sort` is the canonical order and the start of
`validate_acyclic_imports`, `Strike` a turn of its loop.

*AtomicWrite.* `fs::write` is one step to create or truncate and one per piece; the
name of the temporary file is its owner's process number, and numbers are given away
again. `Kill` stops a process anywhere, and every step of the file system may fail.

*CommandLine.* `Load` is a step of the loader and of the import check, `Write` one of
`write_atomic` by this process, once its package is accepted, or by another one at any
time. Encoding and the decoding that checks it change no file and are `Artifact`.

*SourceParser.* One action per turn of the two loops of `parse_module`: `SkipBlank`,
`ReadComment`, `Orphan`, `ReadHeading`, `Stray`, `ReadProduction`, `EndRule`,
`EndModule`, and three for the header. `at` is the index into `lines`; `open` the rule
being read. A text is a sequence of lexemes: one for each spelling some scan of the
code looks for, one per identifier or number, one for other characters, so that the
searches, splits and trims of the code are those of the model. The identifier and
number tests are parameters. Spans are left out, so are tabs and control characters
beyond what the header tests, and expressions nest to `MaxExpressionDepth` 1 where the
code has 256.

*Artifact.* `ArtifactFormat` states the order of fields twice, once from the encoder and
once from the decoder, as tables of fields; `Encode` and `Read` walk them. A file is a
sequence of tokens with the width of each. `Read` carries the decoder's position and
tallies; `Enter`, `TakeText`, `ReadField` and `Close` hold the limit checks at the points
where the code has them. The content hash is taken to have no collisions, so the
model keeps whether it matches. The section directory is right or wrong.

*NativeAbi.* Each function is an operator from a heap to the heap it leaves, its status
and what it wrote through its out parameters, with the early returns of the code in
order. Pointers are never used again in the model, so that a stale one is seen. What
the core answers to a compile, a decode or a request is a parameter; the checks of
`validate_package_input` on identifiers and targets are not, since the builder's state
decides them.

*UnityHost.* `frame` is the call in progress. `Enter` reads the `Handle` property,
`Run*` is the native function, then one of `ConsumeError`, `CopyAndFree`, `Adopt` and
`LeavePlain`. `Forget` drops the last reference, `Finalize` may run at any moment at
which nothing reaches the wrapper; `Reachable` contains the call in progress because of
`GC.KeepAlive`. Arguments range over what `mecojoni.h` lets a host pass, which includes
some that `Mecojoni.cs` stops itself.

## Runs

| Run | Question | Bounds, and why they suffice |
|---|---|---|
| `BoundedHistory_tables` | Is a history its window, over a table that loses nothing? | five fragments with colliding homes, one chain around the end; capacities 4, 8, 16; three entries or five bytes; five phrases, empty, repeated and one over the byte budget; five pushes, so both budgets evict, tombstones pile up and two rehashes happen, one inside a push (32,518 states) |
| `DiverseTransaction_calls` | Gap, atomicity, memory of returned outputs, novelty | two sessions, two attempts, two selections each, gap 2, horizon 3, two returned outputs: gaps span attempts, calls and sessions, and the horizon overflows; two texts, one too long for the exact history and with the other's fragment twice, so both criteria of novelty decide somewhere |
| `DiverseTransaction_namespace` (violated) | Is cooldown namespaced by grammar? | two grammars, one rule |
| `RepetitionRoots_sharing` | Is sharing invisible, and counted right? | two stores, one snapshot, one exported file, four roots (one more than handles), two commits per lineage |
| `JsWrapper_calls` | Does every call clean up after itself, and do numbers keep their meaning? | eight numbers, enough for the three objects a diverse call needs, its result, and failures, and then for exhaustion; two commits. Deadlock is checked (250,827 states) |
| `Generator_requests` | Do compiled packages run as their analyses say, and do runs return what they derived? | 1,305 packages of three rules under tight limits, and five larger ones under two sets of limits and two inputs, through every interface; texts of one- and two-byte scalars |
| `GraphAnalysis_packages` | Do the four analyses compute what they are defined to? | 3,456 graphs of four rules and five productions |
| `Sampling_exact` | Are draws exact, and overflows real? | words of 32 values (`Half` = 16), all lists of up to three weights of a set that holds zero, negatives and fractions; two words |
| `CommandLine_artifacts` | Is a package what its imports reach, and the output never torn? | four files, up to two imports each, repeated ones and two equal identities included; one file may vanish; two processes, two process numbers, artifacts of two pieces (1,407,942 states) |
| `SourceParser_sources` | Do sources read back, and are faults independent? | 9,116 sources: headers of every set and order of fields and with each fault, weight and guard trees of depth two, every kind of body in eight layouts, every fault of a production, heading or comment in context, and all sequences of up to four of eight pieces, with and without faults; CRLF and a missing last line end. Deadlock is checked |
| `UnityHost_calls` | Who owns what, and does a call outlive its object? | two wrappers, five native objects, three edits of builders: two objects alive beside the error or result of a call, one builder with two modules and an import (2,259,742 states) |
| `Artifact_files` | Do writer and decoder agree, and is damage caught? | five grammars that together hold every kind of record, one with a string too long and one too deep; every limit at what the file needs and one below; every token changed to each of up to six values, cut, extended, sealed or not (17,124 states) |

`CHECK_DEADLOCK FALSE` is set where behaviours end: a request, an analysis, a load, a file
read or a process that is over, or a bound (`MaxPushes`, `MaxReturned`, `MaxObjects`,
`MaxEdits`).

Fairness is assumed where one synchronous call on one thread runs a loop, which
nothing can stop: a push with its rehashes (`Step` of `BoundedHistory`), the work
stack of a request (`Machine` in `Generator`; a client need not make requests), the
searches of `analyze_graph`, and the steps of the loader (a file need not vanish, and
no process need start or finish writing). The parser needs none: `Advances` bounds the
steps of a parse, and deadlock is checked, so every source is decided.

Every property of a passing run has a mutant in `PROJECT.json`: a definition that
differs from the code's the way a plausible bug would, under which TLC finds that
property violated. Their operators are marked `Mutation:` in the modules. The type
invariants are part of the invariants the runs check (`CountsOwners`, `NeverReused`,
`NothingLeaks`, `Accounting` and so on) or stand beside them; those of the modules
with theorems are proved.

### Where the code and its documents disagree

`DiverseTransaction_namespace`: structural cooldown is keyed by rule name only;
`SPECIFICATION.md` says it is namespaced by grammar artifact, production schema and
sampler version. The run generates with one grammar and then finds a production of
another one withheld.

More things the models show and no run records. `reserve_entry` doubles the table
whenever keys and tombstones reach seven tenths, and tombstones are what a bounded
window produces all the time, so a table grows with the number of distinct strings
ever pushed and never shrinks. And `generate_diverse` commits before its answer has a
handle and before the wrapper has a buffer for it; when either cannot be had, the
commit stands although its output is not returned: `DeliveredUnlessStarved` holds
only under its premise.

In the frontend: recovery looks for headings and productions line by line, so that
what stands inside a multi-line comment after a fault is parsed, and may cascade,
against `SYNTAX.md:339`; the sources of the run have no such comment after a fault,
so `FaultsAreIndependent` says nothing of that case. A second `<!--` on the opening line of a whole-line comment is no
error, against `SYNTAX.md:285` (`parser.rs:1678`). Argument lists are split at every
comma and clauses at ` as ` and the first `}`, inside quoted strings too
(`parser.rs:1011`, `508`); the trees of the run have no such strings. `E_BINDING_SYNTAX`
is documented (`SYNTAX.md:328`) and never raised.

In artifacts: `BYTECODE_FORMAT.md:113` asks that decoding and re-encoding be
byte-identical, but a rational not in lowest terms is accepted and reduced, so a file
of another writer may change; `DamageCaught` states the exact exception. Cached facts (reachable,
productive, nullable, recursive) are read and not compared with the grammar. The writer
enforces neither the decoder's limit on strings nor its tallies, so it can write what no
decoder takes (`RoundTrip` allows it: such a file is refused for its limits). And
`inspect_artifact` looks at the container before the limits, `decode_artifact` after.

## Proofs

Each theorem below holds for every value of the constants under the assumptions the
modules name. The arguments have one shape: an invariant that is inductive, of which
the property is a part or a consequence. What makes each one inductive is said here.

**`Repetition_proofs`, the table.** For every key set, hash function, initial
capacity of two or more and bounds, the invariants of the table hold and it implements
`CountBag`. Hashes are naturals and the markers are not keys. None of the invariants is
inductive alone; their conjunction with `LoadBounded` is (`IInv`):

- `ProbeFinds` needs `Unique` and the fact that an insertion fills the *first* slot
  without a key on the chain (`Target`), so that no other chain is cut; a deletion
  leaves a tombstone, so chains stay whole.
- `Unique` needs `ProbeFinds`: `increment` inserts only when `find` fails, and only
  `ProbeFinds` lets one conclude from this that the key is not stored.
- `LoopsTerminate` (`ProbingTerminates`) follows from `CountersExact` and
  `LoadBounded`: fewer than seven tenths of the slots are occupied. `LoadBounded`
  during a rehash counts the keys that still wait in the old table.
- The refinement maps the count of a key to its slot in the new table or, if it was
  not moved yet, in the old one; a `RehashSlot` then changes no count.

**`Repetition_proofs`, the ring.** `HistoryKeepsWindow`: between pushes, the ring is
the longest suffix of everything pushed that fits both budgets, and table and byte
total describe exactly that ring. During a push the table is off by what is still to be
counted or uncounted, which the ring invariant says fragment by fragment; that evicting
from the front until both budgets hold yields the window is a fact about windows
(`HistoryWindow_proofs`: the window of a window with one entry more is the window of
the whole). From the same invariant, counts of the ring's fragments are positive, so
`decrement` finds what it looks for, the ring is not empty when it is popped, and no
probing loop runs around (`PushesGoThrough`, the property `NeverStuck`): nothing keeps
a push from its end but time.

**`Repetition_proofs`, the roots.** The count of a root is the number of its owners, and
sharing is invisible (`ImplementsDomain`): a commit through a shared root copies, and
with the counts exact, a root that is written in place has one owner.

**`DiverseTransaction_proofs`.** For any number of sessions, attempts and outputs: only
returned outputs are remembered, the hard gap holds over all of them, the winner is
least repeated, and the calls implement `AtomicGeneration`. Besides the properties, the
invariant says what holds within a call (`CallSound`): candidates are ranked by the
store as it was when the call began, and each candidate keeps the gap to that store and
within itself. The gap over all outputs then follows from the horizon being at least the
gap, so that what fell out of the history is far enough away. The assumptions are that
and that budgets and byte lengths are naturals.

**`HistoryWindow_proofs`** holds the lemmas on windows, sums and suffixes that
`Repetition_proofs` and `DiverseTransaction_proofs` share.

**`Compiler_proofs`, the analyses.** For every finite set of rules and productions, every
package over them and every order of work: the worklist computes the least closed set
(`LeastClosedSet`), the component search finds the sets of rules that reach each other
(`ComponentsAreMutual`), and a package is accepted exactly when all that its entries lead
to can finish (`VerdictIsRight`).

*The worklist.* A rule is queued once, nothing is marked that lies outside some closed
set, and nothing is missed at the end. `NoneMissed` says nothing about a queue that is
not empty, so it is not inductive. The invariant says what a count counts: as long as the
owner of a candidate is not marked, its count is the number of children whose rule has
not left the queue or whose occurrence is still to be struck off, and that number is not
zero (`Counted`); and only rules that left the queue are being struck off (`TodoTaken`).
A count of one is then the last such child (`LastChild`), which makes marking the owner
sound.

*Reachability and derivability* are defined by counted growth, `Within[N]` and
`Derivable[N]`, since a path has no bounded length. That `N` rounds suffice is a
pigeonhole argument on a growing chain of subsets of a finite set (`ChainStops`,
`LeastInChain`); `RecursionRuns` gives the value of a bounded recursive function round by
round.

*The first pass* keeps that every node met has finished or is on the stack and that the
children of finished nodes were met (`Met`), that the stack is a path without repetitions
(`OnWay`), and, of each finished node, that a node mutual with it is on the stack, or one
finished later, or everything it leads to finished before it (`Finishing`). Leaving a node
is the step that disturbs the last (`WalkLeaves`). At the end `FinishOrder` follows: the
last rule of a component to finish does so after every rule the component leads to.

*The second pass* keeps that the component being swept is that of a node after which only
nodes of earlier components finished (`RootOf`), and that the parents of a swept node are
assigned, to this component or an earlier one, or waiting (`ParentsKnown`). An unassigned
parent is in the same component (`ParentIsMutual`): otherwise its component would have
finished later and been swept before.

*The verdict.* What the reachability loop has met lies within `LeadsTo` and what it has
met and does not hold pending is closed (`Visiting`); `Judging` keeps the result of the
first worklist run, which is `Derivable[N]`, and what the verdict says of it.

**`Compiler_proofs`, a selection.** For every width, every list of reduced weights and
every budget: draws are exact (`ExactProportions`), both searches agree (`PathsAgree`) and
overflow is reported exactly when no integers fit (`OverflowIsReal`). The inductive
invariant `SelectionKnown` is short: what is drawn from is the normalization of the
positive weights of the rule, and it did not overflow. The work is in what that computes.

*Divisors.* `gcd` is a recursive function on pairs. A number whose divisors are the common
divisors of two others exists (`GreatestExists`), and choosing it solves the equation of
`gcd`, which therefore has a solution (`GcdRecursion`); that the divisors of `gcd`'s own
value are the common divisors (`GcdIs`) follows from a least counterexample. `DividesOther`, what divides a product and has nothing
in common with one factor divides the other, follows from `GcdTimes`. `DenominatorIs`
and `DivisorIs` carry this over to lists.

*Words.* The words from `Threshold` on are a whole number of rounds through the residues
(`ThresholdIs`), a production is found for the residues between two running totals
(`PlaceFound`), and a window of residues is hit once per place and round
(`WordsInWindow`, a bijection). So `Hits(k)` is the number of rounds times the integer
weight (`HitsAre`), and the integer weights are in proportion (`InProportion`).

*Overflow.* Integers in proportion are a multiple of the normalized ones, since those have
no common divisor (`SharesAreMultiples`); so if any fit, these do. For the intermediate
results: as the weights are reduced, the common denominator and what is divided out at
the end have no divisor in common (`DivisorApart`), so each is at most a product of
integers that fit an `i64`, which fits a `u128` (`NoneTooLarge`). Without the assumption
that weights are reduced this fails.

**`JsWrapper_proofs`.** First the table, for a host that may do anything: numbers are
never reused, no value is out of reach, and handles keep their meaning. Every call to
dispatch is an `Extension` of the table: it adds entries under unused numbers, each a
result or announced by one, so one argument serves all calls. `NoOrphans` needs two
more facts: a result that says its value was claimed was really asked for it
(`ClaimsTold`), or disposing of a claimed result could lose its value; and a result
announces a value made before it, never another result (`ResultsAnnounceValues`), or
disposing of one result could take along the result that announces a third value.
Then the wrapper: its steps are steps of that table (`WrapperUsesTable`), a finished
call leaves nothing that no object owns, and an output that was committed is delivered
unless numbers ran out. The invariant names, for each line of a call, the entries the
call holds (`HeldByCall`), what its registers mean (`Registers`) and what it still owes
the caller (`Owed`).

**`UnityHost_proofs`.** Every native object has one owner, no call and no borrowed view
outlives its object, and statuses mean what `mecojoni.h` says. A native function is an
operator on heaps, so each has a lemma on what it allocates, frees and writes; the
invariant relates the heap to owners (`Owned`, `Apart`), finalized wrappers to freed
objects (`Released`) and the call in progress to what it holds (`CallHolds`).

**`CommandLine_proofs`.** Two theorems about `compile-artifact`. `OutputNeverTorn`: a
process number belongs to one live process at a time (`NumbersApart`), and a temporary
file that is being written holds its writer's pieces only (`OwnPieces`), whatever a
killed process left there. `PackageLoadedRight`: the package is exactly what the root
reaches, each file once and in canonical order, and is refused as circular if and only
if some file reaches itself. That the closure is reached within as many steps as there
are files is a pigeonhole argument (`ChainStops`), since induction over files is out of
reach; the walk keeps that what was read or waits is closed (`Walked`). Kahn's algorithm
is treated on any finite graph (`Kahn`): counts are those of the edges from nodes not
yet taken, the queue holds the free nodes not yet taken, and a circular set of nodes is
never entered. One lemma shows that the loop queues each freed target once although an
import may be listed twice (`LastFrees`). Of what is left over, every node has an
importer that is left over too; a file among them that reaches as many files as any lies
on a circle (`CircularHasCircle`).

**`Generator_proofs`, lowering.** For every package as parsing and `resolve_rule` leave it
(`PackageAssumption`: lists, texts, and rules that exist): what the compiler accepts
passes the verifier of artifacts (`AcceptedVerifies`). The compiler works on scopes of
names and the verifier on numbers of slots, and the two agree because a scope is a list
whose length is the number of slots bound so far: parameters, bindings passed, captures
passed, counted in the body without its empty literals (`PartScopeIs`,
`LoweredCaptures`). `EffectsAreKnown` says what `validate_message_effects` leaves: a rule
is a message exactly if each production is one message part, and what bindings and
captures call is not a message. `MessageEffects` is a greatest set, and `EffectsGrow` is
all that is needed of it.

**`Generator_proofs`, running.** For every package, inputs, request and limits, the
accounts are exact and no limit is exceeded (`AccountingAlways`), and no internal error is
ever reported (`OutcomesForeseenAlways`). Neither is inductive: whether `bind_slot`
meets the slot it expects depends on work pushed long before. The invariant `IInv`
(`GeneratorInvariant`) says of the whole stack, not of its top:

- *shapes*: sinks, frames, nodes and rules that work items refer to exist (`FitsOf`,
  `FramesFit`, `NodesFit`), and counts are those of `Accounting` (`SinksFit`,
  `BudgetFits`, `ResultFits`);
- *slots* (`SlotsOf`): an owner of a frame has bound the parameters and the bindings and
  captures it has passed; if the last one is still to come, the item that will fill it is
  directly above the owner and names the next slot of the owner's frame; and no two
  owners share a frame, so that filling one disturbs no other;
- *spans* (`SpansOf`): every start of a production or capture lies within its sink. The
  only step that takes text away is `FinishBinding`, and nothing below a
  `FinishBinding` writes to its sink;
- *messages* (`MessagesOf`): if the first rule is a message, every work on the root sink
  is of a message rule, the sink is empty, and until the message is selected exactly one
  item is to select it; if not, there never is a message.

A step replaces the top of the stack by nothing or by one, two or three items. Each part
of the invariant has one lemma on this (`FitsKept`, `SlotsKept`, `SlotsFilled`,
`SpansKept`, `MessagesKept`), the shapes of what is pushed have one each (`OneWork`,
`CallWork`, `ExpandedWork`, `FillingWork`), and a handler then only has to show that it
pushes one of these.

**`Generator_proofs`, the analyses.** For every package, inputs, request and limits,
what `nullable_rules` and the recursive flag say of a rule holds in the run
(`AnalysesSoundAlways`). This relates a fixed point over the package to a stack of work,
so it has three parts:

- *fixed points*: as many rounds as there are rules reach one, for a monotone step on the
  subsets of a finite set (`RoundsClose`, by the pigeonhole argument of `ChainStops`).
  Hence every production of a rule that is not nullable has a literal, a message, or a
  call or capture of another such rule (`NullableIs`, `MustProduce`), and what a rule
  mentions, directly or not, is reached from it (`ReachesIs`);
- *lineage* (`Family`): every node is the child of a production, binding or capture whose
  rule mentions its own, and its parent is older. So of two productions of one rule on
  one path, the rule reaches itself (`NoneRepeats`);
- *debts* (`Owing`): each `FinishProduction` of a rule that is not nullable has been paid,
  its sink being longer than where the production started, or work above it for the same
  sink still has a part ahead that will pay (`Served`). An item that leaves the stack
  hands the debts it served to what it pushes, or pays them; `FinishBinding`, which takes
  text away, cannot take back a payment, by *spans* above.

The invariant is `IInv /\ Analysed`.

Model-checked only: liveness (`PushesEnd`, `Terminates`, `Ends`), which is out of the
prover's reach as fairness is; the frontend, the artifact codec and the reference
semantics of the generator, whose recursion over data is out of its reach too
(`SourceText`, `Expressions`, `ProductionSyntax`, `FrontMatter`, `SourceParser`,
`SourceLayout`, `ArtifactFormat`, `Artifact`, `Derivation` declare RECURSIVE operators);
and, of the generator, `ProvenanceExact`. It is not out of reach, but it needs one more
invariant, of the ranges of nodes that are still open and of the values bound from them,
and what the formatter leaves of them.

## Not modelled, and the plan

Done: counters inside histories, transaction, roots, handle table, calls of the
JavaScript host, generator with lowering and message effects, graph analyses, weights
and draws, `compile-artifact` from load to write, source frontend, artifacts, native C
ABI and Unity. Left, in this order:

1. Proofs: `Generator` (`ProvenanceExact`).
2. Snapshot codec: canonical round trip and revalidation on import; session snapshots.
3. Compound calls of the JavaScript host (`compilePackage`, `openEmbeddedGrammar`, the
   formatter callback of `generateWeighted`), and the pointer checks of linear memory.
4. `validate_request_data` and the other value types; schemas, entries and names across
   modules; rational arithmetic of weight expressions.

Parts of modelled components left out: spans and the wording of diagnostics; the
disassembly of artifacts; the growth of a table by tombstones, for which the code gives
no bound to state; saturation of a counter at 2^32 - 1, out of reach of a history of at
most 50,000 entries; two application threads on one managed wrapper, which
`Mecojoni.cs` does not claim to allow; a failed managed allocation between the return of
a native call and the adoption of its result, which would leak that result.

Left out for good: the Godot and Defold bindings, which add destructors on one thread
and nothing the C ABI model does not show, the audit, the benchmarks, and the MCP
server, which keeps nothing between requests.
