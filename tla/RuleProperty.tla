---------------------------- MODULE RuleProperty ----------------------------
(***************************************************************************)
(* solve_monotone_rule_property of compiler.rs: which rules have a         *)
(* property that a rule has as soon as one candidate production of it has  *)
(* only children with the property.  productive_rules and nullable_rules   *)
(* are instances: they differ in the candidates and in whether bindings    *)
(* count as children.                                                      *)
(*                                                                         *)
(* Every candidate production counts the occurrences of children that are  *)
(* not known to have the property; a rule enters the queue when one of its *)
(* counts reaches zero, and leaving it strikes its occurrences off, one by *)
(* one.  The order of the reverse lists is left open.                      *)
(***************************************************************************)
EXTENDS Integers, Sequences, FiniteSets

CONSTANTS
  Rule,          (* rules                                                  *)
  Production     (* productions of all rules                               *)

ASSUME FiniteAssumption == IsFiniteSet(Rule) /\ IsFiniteSet(Production)

(* What the analysis looks at: who owns a production, the rules it mentions
   in order, whether it is a candidate.                                     *)
Grammars ==
  [owner : [Production -> Rule], children : [Production -> Seq(Rule)],
   candidate : [Production -> BOOLEAN]]

VARIABLES
  grammar,       (* the grammar analysed                                   *)
  property,      (* rules marked so far                                    *)
  remaining,     (* occurrences left to strike off each candidate          *)
  queue,         (* marked rules whose occurrences are still to be struck  *)
  todo,          (* occurrences of the rule taken last that are left       *)
  taken          (* history: rules that have left the queue                *)

vars == <<grammar, property, remaining, queue, todo, taken>>

Candidates == {p \in Production : grammar.candidate[p]}
Children(p) == grammar.children[p]

(* An occurrence is a production and a position in it.                      *)
Positions == UNION {{p} \X DOMAIN Children(p) : p \in Candidates}

(* reverse[child] *)
Occurrences(child) == {o \in Positions : Children(o[1])[o[2]] = child}

Elements(s) == {s[i] : i \in DOMAIN s}
Distinct(s) == \A i, j \in DOMAIN s : s[i] = s[j] => i = j

ChildlessRules == {grammar.owner[p] : p \in {q \in Candidates : Children(q) = <<>>}}

(* Mutation: remaining counts distinct children. *)
CountDistinct(p) == Cardinality(Elements(Children(p)))
Count(p) == Len(Children(p))

Counts == [p \in Candidates |-> Count(p)]

Listings(S) == {s \in [1 .. Cardinality(S) -> S] : Distinct(s)}

Init ==
  /\ grammar \in Grammars
  /\ property = ChildlessRules
  /\ remaining = Counts
  /\ queue \in Listings(ChildlessRules)
  /\ todo = {}
  /\ taken = {}

Take ==
  /\ todo = {} /\ queue # <<>>
  /\ todo' = Occurrences(Head(queue))
  /\ queue' = Tail(queue)
  /\ taken' = taken \cup {Head(queue)}
  /\ UNCHANGED <<grammar, property, remaining>>

(* Mutation: an occurrence of a marked owner stays on the list. *)
SkipKeeping(p, k) ==
  /\ <<p, k>> \in todo
  /\ grammar.owner[p] \in property
  /\ UNCHANGED vars

Skip(p, k) ==
  /\ <<p, k>> \in todo
  /\ grammar.owner[p] \in property
  /\ todo' = todo \ {<<p, k>>}
  /\ UNCHANGED <<grammar, property, remaining, queue, taken>>

Strike(p, k) ==
  /\ <<p, k>> \in todo
  /\ grammar.owner[p] \notin property
  /\ todo' = todo \ {<<p, k>>}
  /\ remaining' = [remaining EXCEPT ![p] = @ - 1]
  /\ IF remaining[p] = 1
     THEN /\ property' = property \cup {grammar.owner[p]}
          /\ queue' = Append(queue, grammar.owner[p])
     ELSE UNCHANGED <<property, queue>>
  /\ UNCHANGED <<grammar, taken>>

Next == Take \/ \E o \in todo : Skip(o[1], o[2]) \/ Strike(o[1], o[2])

Spec == Init /\ [][Next]_vars

Done == queue = <<>> /\ todo = {}

---------------------------------------------------------------------------
TypeOK ==
  /\ grammar \in Grammars
  /\ property \in SUBSET Rule
  /\ remaining \in [Candidates -> Nat]
  /\ queue \in Seq(Rule)
  /\ todo \subseteq Positions
  /\ taken \in SUBSET Rule

(* A rule is in the queue once in its life: its occurrences are struck off
   once, so no count goes below zero and none is struck twice.              *)
QueuedOnce ==
  /\ Distinct(queue)
  /\ taken \cup Elements(queue) = property
  /\ taken \cap Elements(queue) = {}

(* A set of rules closed under the property: it holds the owner of every
   candidate whose children it holds.                                       *)
ClosedUnder(S) ==
  \A p \in Candidates : Elements(Children(p)) \subseteq S => grammar.owner[p] \in S

(* Nothing is marked that does not have to be: at any moment the marked rules
   lie in every closed set, so a cycle of rules without a way out is never
   marked.                                                                  *)
NoneInvented == \A S \in SUBSET Rule : ClosedUnder(S) => property \subseteq S

(* Nothing is missed at the end, by whatever order the occurrences were
   struck off.                                                              *)
NoneMissed == Done => ClosedUnder(property)

(* The worklist computes the least closed set, and every step on the way is
   sound.                                                                   *)
LeastClosedSet == TypeOK /\ QueuedOnce /\ NoneInvented /\ NoneMissed
============================================================================
