--------------------------- MODULE GraphAnalysis ---------------------------
(***************************************************************************)
(* analyze_graph of compiler.rs, the last check of a package before it     *)
(* becomes a grammar.  One graph of rules goes through four analyses in    *)
(* turn: which rules the entries reach, which can finish a text, which can *)
(* finish an empty one, and which components they form.  A package with a  *)
(* rule that is reached but never finishes is refused.                     *)
(*                                                                         *)
(* The second and third analyses are runs of RuleProperty, one after the   *)
(* other in its variables; the fourth is Components.                       *)
(***************************************************************************)
EXTENDS RuleProperty, SequencesExt

CONSTANT Packages  (* [owner, bindings, calls, voiced, entries]: `voiced`  *)
                   (* productions have a message or a literal with text    *)

N == Cardinality(Rule)

VARIABLES
  package,       (* the package                                            *)
  phase,         (* the analysis that runs, then the verdict               *)
  edges,         (* graph_edges                                            *)
  pending,       (* first analysis: rules to be visited                    *)
  reachable,     (* its result                                             *)
  productive,    (* result of the second                                   *)
  nullable,      (* result of the third                                    *)
  visited, stack, order, components, component, sweep  (* see Components   *)

solver == vars
search == <<visited, stack, order, components, component, sweep>>
all == <<package, phase, edges, pending, reachable, productive, nullable, solver, search>>

C == INSTANCE Components

Mentioned(pkg, p) == pkg.bindings[p] \o pkg.calls[p]

(* Productions in ascending order.                                          *)
InOrder(S) == [k \in 1 .. Cardinality(S) |-> CHOOSE p \in S : Cardinality({q \in S : q <= p}) = k]

(* The rules a rule mentions, production by production.                     *)
EdgesOf(pkg) ==
  [r \in Rule |->
     LET own == InOrder({p \in Production : pkg.owner[p] = r})
     IN  FlattenSeq([i \in DOMAIN own |-> Mentioned(pkg, own[i])])]

(* Mutation: what productions bind is not asked to finish. *)
ProductivityOfBodies(pkg) ==
  [owner |-> pkg.owner, children |-> pkg.calls, candidate |-> [p \in Production |-> TRUE]]

(* productive_rules: every production may do, bindings count.               *)
Productivity(pkg) ==
  [owner |-> pkg.owner, children |-> [p \in Production |-> Mentioned(pkg, p)],
   candidate |-> [p \in Production |-> TRUE]]

(* nullable_rules: productions without text, by their bodies alone.         *)
Nullability(pkg) ==
  [owner |-> pkg.owner, children |-> pkg.calls,
   candidate |-> [p \in Production |-> p \notin pkg.voiced]]

ASSUME RuleAssumption     == Rule = 1 .. N
ASSUME ProductionAssumption == Production \subseteq Nat
ASSUME PackagesAssumption ==
  \A pkg \in Packages : /\ {Productivity(pkg), Nullability(pkg)} \subseteq Grammars
                        /\ pkg.entries \in Seq(Rule)

AnalysisInit ==
  /\ package \in Packages
  /\ phase = "reachable"
  /\ edges = EdgesOf(package)
  /\ pending = package.entries
  /\ reachable = {} /\ productive = {} /\ nullable = {}
  /\ grammar = Productivity(package)
  /\ Init
  /\ C!Fresh

(* reachable_rules takes a rule from its queue.                             *)
Visit ==
  LET rule == Head(pending) IN
  /\ phase = "reachable" /\ pending # <<>>
  /\ reachable' = reachable \cup {rule}
  /\ pending' = Tail(pending) \o (IF rule \in reachable THEN <<>> ELSE edges[rule])
  /\ UNCHANGED <<package, phase, edges, productive, nullable, solver, search>>

Reached ==
  /\ phase = "reachable" /\ pending = <<>>
  /\ phase' = "productive"
  /\ UNCHANGED <<package, edges, pending, reachable, productive, nullable, solver, search>>

Solve ==
  /\ phase \in {"productive", "nullable"}
  /\ Next
  /\ UNCHANGED <<package, phase, edges, pending, reachable, productive, nullable, search>>

(* productive_rules returns, and nullable_rules sets out.                   *)
SolveAgain ==
  /\ phase = "productive" /\ Done
  /\ phase' = "nullable"
  /\ productive' = property
  /\ grammar' = Nullability(package)
  /\ property' = ChildlessRules'
  /\ remaining' = Counts'
  /\ queue' \in Listings(ChildlessRules')
  /\ taken' = {}
  /\ UNCHANGED <<package, edges, pending, reachable, nullable, todo, search>>

Solved ==
  /\ phase = "nullable" /\ Done
  /\ phase' = "components"
  /\ nullable' = property
  /\ UNCHANGED <<package, edges, pending, reachable, productive, solver, search>>

Search ==
  /\ phase = "components"
  /\ C!Next
  /\ UNCHANGED <<package, phase, pending, reachable, productive, nullable, solver>>

Judge ==
  /\ phase = "components" /\ C!Done
  /\ phase' = IF reachable \subseteq productive THEN "analysed" ELSE "refused"
  /\ UNCHANGED <<package, edges, pending, reachable, productive, nullable, solver, search>>

AnalysisNext == Visit \/ Reached \/ Solve \/ SolveAgain \/ Solved \/ Search \/ Judge

AnalysisSpec == AnalysisInit /\ [][AnalysisNext]_all /\ WF_all(AnalysisNext)

---------------------------------------------------------------------------
(* The reference: derivation trees by their height.  Derivable[k] holds the
   rules that finish a text with a tree of at most k levels; a tree of least
   height repeats no rule on a path.                                        *)
Derivable ==
  LET within[k \in 0 .. N] ==
        IF k = 0 THEN {}
        ELSE {package.owner[p] : p \in {q \in Production :
                Elements(Mentioned(package, q)) \subseteq within[k - 1]}}
  IN  within

(* Rules on a path from an entry.                                           *)
LeadsTo == UNION {C!Reaches[package.entries[i]] : i \in DOMAIN package.entries}

(* A package is accepted exactly when every rule its entries lead to can
   finish: no request against an accepted grammar runs into a rule that no
   choice of productions ever ends.                                         *)
VerdictIsRight ==
  /\ phase = "analysed" => LeadsTo \subseteq Derivable[N]
  /\ phase = "refused"  => ~(LeadsTo \subseteq Derivable[N])

(* The component search, in the graph of this package.                      *)
ComponentsAreMutual == C!FinishOrder /\ C!ComponentsAreMutual

(* The four analyses end, whatever circles the rules form.                  *)
Ends == <>[](phase \in {"analysed", "refused"})
============================================================================
