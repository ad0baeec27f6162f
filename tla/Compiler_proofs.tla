-------------------------- MODULE Compiler_proofs --------------------------
(***************************************************************************)
(* Proofs about the compiler's two algorithms: analyze_graph and weighted  *)
(* selection.                                                              *)
(*                                                                         *)
(* GraphAnalysis, for any number of rules and productions, any package     *)
(* built of them and any order of the worklists.  First the worklist of    *)
(* RuleProperty: it marks nothing it need not mark and, when it ends, has  *)
(* missed nothing.  Then paths in a graph, as what a bounded recursion     *)
(* computes.  On them stands the component search: what the first pass     *)
(* leaves behind, why the second never leaves a component.  Then the four  *)
(* analyses together, and the verdict.                                     *)
(*                                                                         *)
(* Sampling, for any weights and any width of the machine integers.  First *)
(* divisors: Euclid's algorithm, least common multiples, and that what     *)
(* divides a product and has nothing in common with one factor divides the *)
(* other.  Then the integers normalize_rationals computes, the words that  *)
(* select a production, and which weights have no integers that fit.       *)
(***************************************************************************)
EXTENDS GraphAnalysis, Sampling, FiniteSetTheorems, FunctionTheorems, SequenceTheorems, WellFoundedInduction, TLAPS

(* Children of a candidate that still count: their rule has not left the   *)
(* queue, or this occurrence of it is yet to be struck off.                *)
Open(p) == {k \in DOMAIN Children(p) : Children(p)[k] \notin taken \/ <<p, k>> \in todo}

(* What a count counts, as long as its owner is not marked. *)
Counted ==
  \A p \in Candidates :
    grammar.owner[p] \notin property => remaining[p] = Cardinality(Open(p)) /\ Open(p) # {}

(* Only occurrences of rules that left the queue are being struck off. *)
TodoTaken == \A o \in todo : Children(o[1])[o[2]] \in taken

IInv == TypeOK /\ QueuedOnce /\ NoneInvented /\ Counted /\ TodoTaken

-----------------------------------------------------------------------------
(* Sequences and counts.                                                    *)

LEMMA TailElements ==
  ASSUME NEW S, NEW s \in Seq(S), s # <<>>
  PROVE  /\ Elements(s) = Elements(Tail(s)) \cup {Head(s)}
         /\ Head(s) \in S
         /\ Distinct(s) => Distinct(Tail(s)) /\ Head(s) \notin Elements(Tail(s))
<1>1. Len(s) \in Nat /\ Len(s) > 0
  OBVIOUS
<1>2. /\ Tail(s) \in Seq(S) /\ Len(Tail(s)) = Len(s) - 1
      /\ \A i \in 1 .. Len(s) - 1 : Tail(s)[i] = s[i + 1]
  OBVIOUS
<1>3. DOMAIN s = 1 .. Len(s) /\ DOMAIN Tail(s) = 1 .. Len(s) - 1
  BY <1>2
<1>4. Head(s) = s[1] /\ Head(s) \in S
  BY <1>1
<1>5. Elements(s) \subseteq Elements(Tail(s)) \cup {Head(s)}
  <2> SUFFICES ASSUME NEW i \in 1 .. Len(s), i # 1
               PROVE  s[i] \in Elements(Tail(s))
    BY <1>3, <1>4 DEF Elements
  <2>1. i - 1 \in 1 .. Len(s) - 1 /\ (i - 1) + 1 = i
    BY <1>1
  <2>2. QED
    BY <2>1, <1>2, <1>3 DEF Elements
<1>6. Elements(Tail(s)) \cup {Head(s)} \subseteq Elements(s)
  BY <1>1, <1>2, <1>3, <1>4 DEF Elements
<1>7. ASSUME Distinct(s)
      PROVE  Distinct(Tail(s)) /\ Head(s) \notin Elements(Tail(s))
  BY <1>1, <1>2, <1>3, <1>4, <1>7 DEF Elements, Distinct
<1>8. QED
  BY <1>4, <1>5, <1>6, <1>7

LEMMA AppendElements ==
  ASSUME NEW S, NEW s \in Seq(S), NEW x \in S
  PROVE  /\ Append(s, x) \in Seq(S)
         /\ Elements(Append(s, x)) = Elements(s) \cup {x}
         /\ Distinct(s) /\ x \notin Elements(s) => Distinct(Append(s, x))
<1>1. Len(s) \in Nat /\ DOMAIN s = 1 .. Len(s)
  OBVIOUS
<1>2. /\ Append(s, x) \in Seq(S) /\ DOMAIN Append(s, x) = 1 .. Len(s) + 1
      /\ \A i \in 1 .. Len(s) : Append(s, x)[i] = s[i]
      /\ Append(s, x)[Len(s) + 1] = x
  OBVIOUS
<1>3. Elements(Append(s, x)) = Elements(s) \cup {x}
  BY <1>1, <1>2 DEF Elements
<1>4. ASSUME Distinct(s), x \notin Elements(s)
      PROVE  Distinct(Append(s, x))
  BY <1>1, <1>2, <1>4 DEF Elements, Distinct
<1>5. QED
  BY <1>2, <1>3, <1>4

(* A listing of a finite set names each of its elements. *)
LEMMA ListingElements ==
  ASSUME NEW S, IsFiniteSet(S), NEW s \in Listings(S)
  PROVE  s \in Seq(S) /\ Elements(s) = S /\ Distinct(s)
<1>1. Cardinality(S) \in Nat
  BY FS_CardinalityType
<1>2. s \in [1 .. Cardinality(S) -> S] /\ Distinct(s)
  BY DEF Listings
<1>3. s \in Injection(1 .. Cardinality(S), S)
  BY <1>2 DEF Distinct, Injection, IsInjective
<1>4. Cardinality(1 .. Cardinality(S)) = Cardinality(S)
  BY <1>1, FS_Interval
<1>5. s \in Surjection(1 .. Cardinality(S), S)
  BY <1>3, <1>4, FS_Injection
<1>6. Elements(s) = S
  BY <1>2, <1>5 DEF Elements, Surjection
<1>7. QED
  BY <1>1, <1>2, <1>6

(* The positions of a production's children are finitely many. *)
LEMMA OpenFinite ==
  ASSUME TypeOK, NEW p \in Candidates
  PROVE  /\ Children(p) \in Seq(Rule)
         /\ IsFiniteSet(Open(p)) /\ Cardinality(Open(p)) \in Nat
<1>1. Children(p) \in Seq(Rule)
  BY DEF TypeOK, Grammars, Candidates, Children
<1>2. DOMAIN Children(p) = 1 .. Len(Children(p)) /\ Len(Children(p)) \in Nat
  BY <1>1
<1>3. IsFiniteSet(DOMAIN Children(p))
  BY <1>2, FS_Interval
<1>4. IsFiniteSet(Open(p))
  BY <1>3, FS_Subset DEF Open
<1>5. QED
  BY <1>1, <1>4, FS_CardinalityType

-----------------------------------------------------------------------------
(* Type correctness, and the parts of the invariant.                        *)

(* What a step leaves of the definitions when the grammar stands still. *)
LEMMA Standing ==
  ASSUME grammar' = grammar
  PROVE  /\ Candidates' = Candidates /\ Positions' = Positions
         /\ \A p : Children(p)' = Children(p)
         /\ \A S : ClosedUnder(S)' <=> ClosedUnder(S)
<1>1. Candidates' = Candidates /\ \A p : Children(p)' = Children(p)
  BY DEF Candidates, Children
<1>2. QED
  BY <1>1 DEF Positions, ClosedUnder

LEMMA InitInvariant == Init => IInv
<1> SUFFICES ASSUME Init PROVE IInv
  OBVIOUS
<1>1. ChildlessRules \subseteq Rule /\ IsFiniteSet(ChildlessRules)
  <2>1. ChildlessRules \subseteq Rule
    BY DEF Init, Grammars, ChildlessRules, Candidates
  <2>2. QED
    BY <2>1, FiniteAssumption, FS_Subset
<1>2. queue \in Seq(ChildlessRules) /\ Elements(queue) = ChildlessRules /\ Distinct(queue)
  BY <1>1, ListingElements DEF Init
<1>3. queue \in Seq(Rule)
  BY <1>1, <1>2
<1>4. \A p \in Candidates : Children(p) \in Seq(Rule)
  BY DEF Init, Grammars, Candidates, Children
<1>5. remaining \in [Candidates -> Nat]
  BY <1>4 DEF Init, Counts, Count
<1>6. TypeOK
  BY <1>1, <1>3, <1>5 DEF TypeOK, Init
<1>7. QueuedOnce
  BY <1>2 DEF QueuedOnce, Init
<1>8. NoneInvented
  <2> SUFFICES ASSUME NEW S \in SUBSET Rule, ClosedUnder(S),
                      NEW p \in Candidates, Children(p) = <<>>
               PROVE  grammar.owner[p] \in S
    BY DEF NoneInvented, Init, ChildlessRules
  <2>1. Elements(Children(p)) = {}
    BY DEF Elements
  <2>2. QED
    BY <2>1 DEF ClosedUnder
<1>9. Counted
  <2> SUFFICES ASSUME NEW p \in Candidates, grammar.owner[p] \notin property
               PROVE  remaining[p] = Cardinality(Open(p)) /\ Open(p) # {}
    BY DEF Counted
  <2>1. Children(p) # <<>>
    BY DEF Init, ChildlessRules
  <2>2. /\ Len(Children(p)) \in Nat /\ Len(Children(p)) > 0
        /\ DOMAIN Children(p) = 1 .. Len(Children(p))
    BY <1>4, <2>1
  <2>3. Open(p) = 1 .. Len(Children(p))
    BY <2>2 DEF Init, Open
  <2>4. Cardinality(Open(p)) = Len(Children(p))
    BY <2>2, <2>3, FS_Interval
  <2>5. QED
    BY <2>2, <2>3, <2>4 DEF Init, Counts, Count
<1>10. TodoTaken
  BY DEF TodoTaken, Init
<1>11. QED
  BY <1>6, <1>7, <1>8, <1>9, <1>10 DEF IInv

LEMMA TakeInvariant == IInv /\ Take => IInv'
<1> SUFFICES ASSUME IInv, Take PROVE IInv'
  OBVIOUS
<1> DEFINE h == Head(queue)
<1>1. /\ Candidates' = Candidates /\ Positions' = Positions
      /\ \A p : Children(p)' = Children(p)
      /\ \A S : ClosedUnder(S)' <=> ClosedUnder(S)
  BY Standing DEF Take
<1>2. /\ h \in Rule /\ Elements(queue) = Elements(Tail(queue)) \cup {h}
      /\ Distinct(Tail(queue)) /\ h \notin Elements(Tail(queue)) /\ h \notin taken
      /\ Tail(queue) \in Seq(Rule)
  <2>1. queue \in Seq(Rule) /\ queue # <<>> /\ Distinct(queue)
    BY DEF IInv, TypeOK, QueuedOnce, Take
  <2>2. QED
    BY <2>1, TailElements DEF IInv, QueuedOnce
<1>3. TypeOK'
  BY <1>1, <1>2 DEF IInv, TypeOK, Take, Occurrences
<1>4. QueuedOnce'
  BY <1>2 DEF IInv, QueuedOnce, Take
<1>5. NoneInvented'
  BY <1>1 DEF IInv, NoneInvented, Take
<1>6. Counted'
  <2>1. ASSUME NEW p \in Candidates
        PROVE  Open(p)' = Open(p)
    <3>1. \A k \in DOMAIN Children(p) : <<p, k>> \in Positions
      BY DEF Positions
    <3>2. \A k \in DOMAIN Children(p) : <<p, k>> \in todo' <=> Children(p)[k] = h
      BY <3>1 DEF Take, Occurrences
    <3>3. todo = {} /\ taken' = taken \cup {h}
      BY DEF Take
    <3>4. QED
      BY <1>1, <1>2, <3>2, <3>3 DEF Open
  <2>2. QED
    BY <1>1, <2>1 DEF IInv, Counted, Take
<1>7. TodoTaken'
  BY <1>1 DEF TodoTaken, Take, Occurrences
<1>8. QED
  BY <1>3, <1>4, <1>5, <1>6, <1>7 DEF IInv

LEMMA SkipInvariant == \A o \in todo : IInv /\ Skip(o[1], o[2]) => IInv'
<1> SUFFICES ASSUME NEW o \in todo, IInv, Skip(o[1], o[2]) PROVE IInv'
  OBVIOUS
<1> DEFINE q == o[1]
           j == o[2]
<1>1. /\ Candidates' = Candidates /\ Positions' = Positions
      /\ \A p : Children(p)' = Children(p)
      /\ \A S : ClosedUnder(S)' <=> ClosedUnder(S)
  BY Standing DEF Skip
<1>2. TypeOK'
  BY <1>1 DEF IInv, TypeOK, Skip
<1>3. QueuedOnce'
  BY DEF IInv, QueuedOnce, Skip
<1>4. NoneInvented'
  BY <1>1 DEF IInv, NoneInvented, Skip
<1>5. Counted'
  <2>1. ASSUME NEW p \in Candidates, grammar.owner[p] \notin property
        PROVE  Open(p)' = Open(p)
    <3>1. p # q
      BY <2>1 DEF Skip
    <3>2. \A k : <<p, k>> \in todo' <=> <<p, k>> \in todo
      BY <3>1 DEF Skip
    <3>3. QED
      BY <1>1, <3>2 DEF Open, Skip
  <2>2. QED
    BY <1>1, <2>1 DEF IInv, Counted, Skip
<1>6. TodoTaken'
  BY <1>1 DEF IInv, TodoTaken, Skip
<1>7. QED
  BY <1>2, <1>3, <1>4, <1>5, <1>6 DEF IInv

(* A count of one is the last open child: the others' rules left the queue  *)
(* and are struck off, so every closed set that holds the marked rules      *)
(* holds the owner.                                                         *)
LEMMA LastChild ==
  ASSUME IInv, NEW q \in Candidates, NEW j, <<q, j>> \in todo, j \in DOMAIN Children(q),
         grammar.owner[q] \notin property, remaining[q] = 1
  PROVE  Elements(Children(q)) \subseteq taken
<1>1. IsFiniteSet(Open(q)) /\ Cardinality(Open(q)) = 1
  BY OpenFinite DEF IInv, Counted
<1>2. j \in Open(q)
  BY DEF Open
<1>3. Open(q) = {j}
  BY <1>1, <1>2, FS_Singleton
<1>4. Children(q)[j] \in taken
  <2>1. Children(<<q, j>>[1])[<<q, j>>[2]] \in taken
    BY DEF IInv, TodoTaken
  <2>2. QED
    BY <2>1
<1>5. \A k \in DOMAIN Children(q) : Children(q)[k] \in taken
  BY <1>3, <1>4 DEF Open
<1>6. QED
  BY <1>5 DEF Elements

LEMMA StrikeInvariant == \A o \in todo : IInv /\ Strike(o[1], o[2]) => IInv'
<1> SUFFICES ASSUME NEW o \in todo, IInv, Strike(o[1], o[2]) PROVE IInv'
  OBVIOUS
<1>a. PICK q \in Candidates : \E j \in DOMAIN Children(q) : o = <<q, j>>
  BY DEF IInv, TypeOK, Positions
<1>b. PICK j \in DOMAIN Children(q) : o = <<q, j>>
  BY <1>a
<1> DEFINE r == grammar.owner[q]
<1>1. /\ Candidates' = Candidates /\ Positions' = Positions
      /\ \A p : Children(p)' = Children(p)
      /\ \A S : ClosedUnder(S)' <=> ClosedUnder(S)
  BY Standing DEF Strike
<1>2. /\ <<q, j>> \in todo /\ r \notin property
      /\ todo' = todo \ {<<q, j>>}
      /\ remaining' = [remaining EXCEPT ![q] = @ - 1]
      /\ IF remaining[q] = 1 THEN property' = property \cup {r} /\ queue' = Append(queue, r)
                             ELSE property' = property /\ queue' = queue
      /\ grammar' = grammar /\ taken' = taken
  BY <1>b DEF Strike
<1>3. r \in Rule
  BY DEF IInv, TypeOK, Grammars, Candidates
<1>4. /\ remaining[q] = Cardinality(Open(q)) /\ Cardinality(Open(q)) \in Nat
      /\ IsFiniteSet(Open(q)) /\ j \in Open(q)
  BY <1>2, OpenFinite DEF IInv, Counted, Open
<1>5. remaining[q] \in Nat /\ remaining[q] >= 1
  BY <1>4, FS_EmptySet
<1>6. Append(queue, r) \in Seq(Rule) /\ Elements(Append(queue, r)) = Elements(queue) \cup {r}
      /\ (r \notin Elements(queue) => Distinct(Append(queue, r)))
  BY <1>3, AppendElements DEF IInv, TypeOK, QueuedOnce
<1>7. TypeOK'
  <2>1. remaining' \in [Candidates -> Nat]
    <3>1. remaining[q] - 1 \in Nat
      BY <1>5
    <3>2. QED
      BY <1>2, <3>1 DEF IInv, TypeOK
  <2>2. queue' \in Seq(Rule) /\ property' \in SUBSET Rule
    BY <1>2, <1>3, <1>6 DEF IInv, TypeOK
  <2>3. grammar' \in Grammars /\ taken' \in SUBSET Rule /\ todo' \subseteq Positions
    BY <1>2 DEF IInv, TypeOK
  <2>4. QED
    BY <1>1, <2>1, <2>2, <2>3 DEF TypeOK
<1>8. QueuedOnce'
  BY <1>2, <1>6 DEF IInv, QueuedOnce
<1>9. NoneInvented'
  <2> SUFFICES ASSUME NEW S \in SUBSET Rule, ClosedUnder(S)
               PROVE  property' \subseteq S
    BY <1>1 DEF NoneInvented
  <2>1. property \subseteq S
    BY DEF IInv, NoneInvented
  <2>2. ASSUME remaining[q] = 1 PROVE r \in S
    <3>1. Elements(Children(q)) \subseteq taken
      BY <1>2, <2>2, LastChild
    <3>2. taken \subseteq S
      BY <2>1 DEF IInv, QueuedOnce
    <3>3. QED
      BY <3>1, <3>2 DEF ClosedUnder
  <2>3. QED
    BY <1>2, <2>1, <2>2
<1>10. Counted'
  <2> SUFFICES ASSUME NEW p \in Candidates, grammar.owner[p] \notin property'
               PROVE  remaining'[p] = Cardinality(Open(p)') /\ Open(p)' # {}
    BY <1>1, <1>2 DEF Counted
  <2>1. grammar.owner[p] \notin property
    BY <1>2
  <2>2. CASE p # q
    <3>1. \A k : <<p, k>> \in todo' <=> <<p, k>> \in todo
      BY <1>2, <2>2
    <3>2. Open(p)' = Open(p)
      BY <1>1, <1>2, <3>1 DEF Open
    <3>3. remaining'[p] = remaining[p]
      BY <1>2, <2>2 DEF IInv, TypeOK
    <3>4. QED
      BY <2>1, <3>2, <3>3 DEF IInv, Counted
  <2>3. CASE p = q
    <3>1. remaining[q] # 1
      BY <1>2, <2>3
    <3>2. Children(q)[j] \in taken
      <4>1. Children(<<q, j>>[1])[<<q, j>>[2]] \in taken
        BY <1>2 DEF IInv, TodoTaken
      <4>2. QED
        BY <4>1
    <3>3. Open(q)' = Open(q) \ {j}
      BY <1>1, <1>2, <3>2 DEF Open
    <3>4. IsFiniteSet(Open(q)') /\ Cardinality(Open(q)') = remaining[q] - 1
      BY <1>4, <3>3, FS_RemoveElement
    <3>5. remaining'[q] = remaining[q] - 1
      BY <1>2 DEF IInv, TypeOK
    <3>6. remaining[q] - 1 # 0
      BY <1>5, <3>1
    <3>7. Open(q)' # {}
      BY <3>4, <3>6, FS_EmptySet
    <3>8. QED
      BY <2>3, <3>4, <3>5, <3>7
  <2>4. QED
    BY <2>2, <2>3
<1>11. TodoTaken'
  BY <1>1, <1>2 DEF IInv, TodoTaken
<1>12. QED
  BY <1>7, <1>8, <1>9, <1>10, <1>11 DEF IInv

LEMMA StutterInvariant == IInv /\ UNCHANGED vars => IInv'
<1> SUFFICES ASSUME IInv, UNCHANGED vars PROVE IInv'
  OBVIOUS
<1>1. /\ Candidates' = Candidates /\ Positions' = Positions
      /\ \A p : Children(p)' = Children(p)
      /\ \A S : ClosedUnder(S)' <=> ClosedUnder(S)
  BY Standing DEF vars
<1>2. \A p : Open(p)' = Open(p)
  BY <1>1 DEF Open, vars
<1>3. QED
  BY <1>1, <1>2 DEF IInv, TypeOK, QueuedOnce, NoneInvented, Counted, TodoTaken, vars

-----------------------------------------------------------------------------
(* The worklist is empty only if nothing is open for a production all of   *)
(* whose children are marked.                                              *)
LEMMA InvariantImplies == IInv => LeastClosedSet
<1> SUFFICES ASSUME IInv PROVE LeastClosedSet
  OBVIOUS
<1>1. NoneMissed
  <2> SUFFICES ASSUME Done, NEW p \in Candidates, Elements(Children(p)) \subseteq property,
                      grammar.owner[p] \notin property
               PROVE  FALSE
    BY DEF NoneMissed, ClosedUnder
  <2>1. taken = property
    BY DEF IInv, QueuedOnce, Done, Elements
  <2>2. Open(p) = {}
    BY <2>1 DEF Open, Done, Elements
  <2>3. QED
    BY <2>2 DEF IInv, Counted
<1>2. QED
  BY <1>1 DEF IInv, LeastClosedSet

(* Counts stay naturals and queues hold rules: solve_monotone_rule_property *)
(* never strikes off more than it counted.                                  *)
THEOREM TypeCorrect == Spec => []TypeOK
<1>1. IInv /\ [Next]_vars => IInv'
  BY TakeInvariant, SkipInvariant, StrikeInvariant, StutterInvariant DEF Next
<1>2. IInv => TypeOK
  BY DEF IInv
<1>3. QED
  BY InitInvariant, <1>1, <1>2, PTL DEF Spec

(* What solve_monotone_rule_property marks is, at its end, the least set    *)
(* closed under the property, for every grammar and every order of work.    *)
THEOREM LeastClosedSetAlways == Spec => []LeastClosedSet
<1>1. IInv /\ [Next]_vars => IInv'
  BY TakeInvariant, SkipInvariant, StrikeInvariant, StutterInvariant DEF Next
<1>2. QED
  BY InitInvariant, <1>1, InvariantImplies, PTL DEF Spec

-----------------------------------------------------------------------------
(* Repetition: steps, chains, recursive functions.                          *)

(* Induction up to a bound, over a set of numbers.                          *)
LEMMA StepByStep ==
  ASSUME NEW n \in Nat, NEW T, 0 \in T, \A k \in 0 .. n : k \in T /\ k < n => k + 1 \in T
  PROVE  \A k \in 0 .. n : k \in T
<1> DEFINE Missing == {k \in 0 .. n : k \notin T}
<1>1. CASE Missing # {}
  <2>1. Missing \subseteq Nat
    OBVIOUS
  <2>2. PICK k \in Missing : \A j \in Missing : ~(<<j, k>> \in OpToRel(<, Nat))
    BY <1>1, <2>1, WFMin, NatLessThanWellFounded
  <2>3. k \in Nat /\ k # 0 /\ k <= n
    OBVIOUS
  <2>4. k - 1 \in 0 .. n /\ k - 1 < n /\ k - 1 < k /\ (k - 1) + 1 = k
    BY <2>3
  <2>5. k - 1 \in T
    <3>1. ASSUME k - 1 \notin T PROVE FALSE
      <4>1. k - 1 \in Missing
        BY <2>4, <3>1
      <4>2. <<k - 1, k>> \in OpToRel(<, Nat)
        BY <2>3, <2>4 DEF OpToRel
      <4>3. QED
        BY <2>2, <4>1, <4>2
    <3>2. QED
      BY <3>1
  <2>6. k \in T
    BY <2>4, <2>5
  <2>7. QED
    BY <2>6
<1>2. QED
  BY <1>1

(* A chain of subsets of a finite set, each determined by the one before,   *)
(* stands still after as many steps as there are elements.                  *)
Determined(W, F, n) ==
  /\ W \in [0 .. n + 1 -> SUBSET F]
  /\ \A k \in 0 .. n : W[k] \subseteq W[k + 1]
  /\ \A j, k \in 0 .. n : W[j] = W[k] => W[j + 1] = W[k + 1]

LEMMA ChainStops ==
  ASSUME NEW F, IsFiniteSet(F), NEW n \in Nat, Cardinality(F) = n, NEW W, Determined(W, F, n)
  PROVE  W[n + 1] = W[n]
<1> USE DEF Determined
<1>1. \A k \in 0 .. n + 1 : IsFiniteSet(W[k]) /\ Cardinality(W[k]) \in Nat /\ Cardinality(W[k]) <= n
  BY FS_Subset, FS_CardinalityType
<1>2. PICK k \in 0 .. n : W[k + 1] = W[k]
  <2> SUFFICES ASSUME \A k \in 0 .. n : W[k + 1] # W[k] PROVE FALSE
    OBVIOUS
  <2> DEFINE T == {k \in 0 .. n + 1 : Cardinality(W[k]) >= k}
  <2>1. 0 \in T
    BY <1>1
  <2>2. ASSUME NEW k \in 0 .. n + 1, k \in T, k < n + 1 PROVE k + 1 \in T
    <3>1. k \in 0 .. n /\ k + 1 \in 0 .. n + 1
      BY <2>2
    <3>2. PICK a, b : a = W[k] /\ b = W[k + 1]
      OBVIOUS
    <3>3. Cardinality(W[k]) <= Cardinality(W[k + 1]) /\ Cardinality(W[k + 1]) # Cardinality(W[k])
      <4>1. IsFiniteSet(b) /\ a \in SUBSET b /\ a # b
        BY <1>1, <3>1, <3>2
      <4>2. Cardinality(a) <= Cardinality(b) /\ Cardinality(b) # Cardinality(a)
        BY ONLY <4>1, FS_Subset
      <4>3. QED
        BY <3>2, <4>2
    <3>4. Cardinality(W[k]) \in Nat /\ Cardinality(W[k + 1]) \in Nat /\ Cardinality(W[k]) >= k
      BY <1>1, <2>2, <3>1
    <3>5. QED
      BY <3>1, <3>3, <3>4
  <2>3. \A k \in 0 .. n + 1 : k \in T
    <3> HIDE DEF T
    <3>1. n + 1 \in Nat
      OBVIOUS
    <3>2. QED
      BY <2>1, <2>2, <3>1, StepByStep
  <2>4. Cardinality(W[n + 1]) >= n + 1
    BY <2>3
  <2>5. QED
    BY <1>1, <2>4
<1>3. \A j \in 0 .. n + 1 : j >= k => W[j] = W[k]
  <2> DEFINE T == {j \in 0 .. n + 1 : j >= k => W[j] = W[k]}
  <2>1. 0 \in T
    BY <1>2
  <2>2. ASSUME NEW j \in 0 .. n + 1, j \in T, j < n + 1 PROVE j + 1 \in T
    <3>1. CASE j >= k
      <4>1. W[j] = W[k] /\ j \in 0 .. n
        BY <2>2, <3>1
      <4>2. W[j + 1] = W[k + 1]
        BY <4>1
      <4>3. QED
        BY <1>2, <2>2, <4>2
    <3>2. CASE j < k
      BY <2>2, <3>2
    <3>3. QED
      BY <3>1, <3>2
  <2>3. \A j \in 0 .. n + 1 : j \in T
    <3> HIDE DEF T
    <3>1. n + 1 \in Nat
      OBVIOUS
    <3>2. QED
      BY <2>1, <2>2, <3>1, StepByStep
  <2>4. QED
    BY <2>3
<1>4. QED
  BY <1>3

(* w is what n steps make of a, one after the other.                        *)
RunOf(w, U, a, step, n) ==
  /\ w \in [0 .. n -> U]
  /\ w[0] = a
  /\ \A k \in 1 .. n : w[k] = step[k][w[k - 1]]

(* All steps can be taken.                                                  *)
LEMMA RunsExist ==
  ASSUME NEW U, NEW a \in U, NEW n \in Nat, NEW step \in [1 .. n -> [U -> U]]
  PROVE  \E w : RunOf(w, U, a, step, n)
<1> DEFINE T == {k \in 0 .. n : \E w : RunOf(w, U, a, step, k)}
<1>1. 0 \in T
  <2> DEFINE w == [k \in 0 .. 0 |-> a]
  <2>1. RunOf(w, U, a, step, 0)
    BY DEF RunOf
  <2>2. QED
    BY <2>1
<1>2. ASSUME NEW k \in 0 .. n, k \in T, k < n PROVE k + 1 \in T
  <2>1. PICK w : RunOf(w, U, a, step, k)
    BY <1>2
  <2> DEFINE v == [j \in 0 .. k + 1 |-> IF j = k + 1 THEN step[k + 1][w[k]] ELSE w[j]]
  <2>2. k \in Nat /\ k + 1 \in 0 .. n
    BY <1>2
  <2>3. w[k] \in U /\ k + 1 \in 1 .. n /\ step[k + 1] \in [U -> U] /\ step[k + 1][w[k]] \in U
    BY <2>1, <2>2 DEF RunOf
  <2>4. v \in [0 .. k + 1 -> U]
    BY <2>1, <2>2, <2>3 DEF RunOf
  <2>5. ASSUME NEW j \in 1 .. k + 1 PROVE v[j] = step[j][v[j - 1]]
    <3>1. j - 1 \in 0 .. k /\ j \in 0 .. k + 1 /\ j - 1 \in 0 .. k + 1 /\ j - 1 # k + 1
      BY <2>2
    <3>2. v[j - 1] = w[j - 1]
      BY <3>1
    <3>3. CASE j = k + 1
      BY <2>2, <3>1, <3>2, <3>3
    <3>4. CASE j # k + 1
      <4>1. j \in 1 .. k
        BY <2>2, <3>4
      <4>2. v[j] = w[j]
        BY <3>1, <3>4
      <4>3. QED
        BY <2>1, <3>2, <4>1, <4>2 DEF RunOf
    <3>5. QED
      BY <3>3, <3>4
  <2>6. v[0] = a
    BY <2>1, <2>2 DEF RunOf
  <2>7. RunOf(v, U, a, step, k + 1)
    <3> HIDE DEF v
    <3>1. QED
      BY <2>4, <2>5, <2>6 DEF RunOf
  <2>8. QED
    BY <2>2, <2>7
<1>3. \A k \in 0 .. n : k \in T
  <2> HIDE DEF T
  <2>1. QED
    BY <1>1, <1>2, StepByStep
<1>4. QED
  BY <1>3

(* A function defined by recursion, once some function satisfies its        *)
(* definition, is the run of its steps.                                     *)
LEMMA RecursionRuns ==
  ASSUME NEW U, NEW a \in U, NEW n \in Nat, NEW step \in [1 .. n -> [U -> U]],
         NEW f, f = [k \in 0 .. n |-> f[k]], f[0] = a,
         \A k \in 1 .. n : f[k - 1] \in U => f[k] = step[k][f[k - 1]]
  PROVE  RunOf(f, U, a, step, n)
<1>1. \A k \in 0 .. n : f[k] \in U
  <2> DEFINE T == {k \in 0 .. n : f[k] \in U}
  <2>1. 0 \in T
    OBVIOUS
  <2>2. ASSUME NEW k \in 0 .. n, k \in T, k < n PROVE k + 1 \in T
    <3>1. k + 1 \in 1 .. n /\ (k + 1) - 1 = k /\ k + 1 \in 0 .. n
      BY <2>2
    <3>2. f[k + 1] = step[k + 1][f[k]]
      BY <2>2, <3>1
    <3>3. QED
      BY <2>2, <3>1, <3>2
  <2>3. \A k \in 0 .. n : k \in T
    <3> HIDE DEF T
    <3>1. QED
      BY <2>1, <2>2, StepByStep
  <2>4. QED
    BY <2>3
<1>2. f \in [0 .. n -> U]
  BY <1>1
<1>3. \A k \in 1 .. n : k - 1 \in 0 .. n
  OBVIOUS
<1>4. QED
  BY <1>1, <1>2, <1>3 DEF RunOf

(* A growing step on the subsets of a finite set reaches its least fixed    *)
(* point above the start in as many steps as there are elements.            *)
Growing(F, step, A) ==
  /\ step \in [SUBSET F -> SUBSET F]
  /\ \A S, T \in SUBSET F : S \subseteq T => step[S] \subseteq step[T]
  /\ A \in SUBSET F /\ A \subseteq step[A]

ChainOf(W, F, A, step, n) ==
  /\ W \in [0 .. n -> SUBSET F] /\ W[0] = A
  /\ \A k \in 1 .. n : W[k] = step[W[k - 1]]

LEMMA LeastInChain ==
  ASSUME NEW F, IsFiniteSet(F), NEW step, NEW A, Growing(F, step, A),
         NEW W, ChainOf(W, F, A, step, Cardinality(F))
  PROVE  LET L == W[Cardinality(F)]
         IN  /\ L \in SUBSET F /\ A \subseteq L /\ step[L] = L
             /\ \A S \in SUBSET F : A \subseteq S /\ step[S] \subseteq S => L \subseteq S
<1>1. PICK n \in Nat : n = Cardinality(F)
  BY FS_CardinalityType
<1>2. ChainOf(W, F, A, step, n)
  BY <1>1
<1>3. PICK L : L = W[n]
  OBVIOUS
<1>4. \A k \in 0 .. n : W[k] \in SUBSET F
  BY <1>2 DEF ChainOf
<1>5. \A k \in 0 .. n : k < n => k + 1 \in 0 .. n /\ W[k + 1] = step[W[k]]
  <2>1. ASSUME NEW k \in 0 .. n, k < n PROVE k + 1 \in 0 .. n /\ W[k + 1] = step[W[k]]
    <3>1. k + 1 \in 1 .. n /\ (k + 1) - 1 = k
      BY <2>1
    <3>2. QED
      BY <1>2, <3>1 DEF ChainOf
  <2>2. QED
    BY <2>1
<1>6. \A k \in 0 .. n : W[k] \subseteq step[W[k]]
  <2> DEFINE T == {k \in 0 .. n : W[k] \subseteq step[W[k]]}
  <2>1. 0 \in T
    BY <1>2 DEF Growing, ChainOf
  <2>2. ASSUME NEW k \in 0 .. n, k \in T, k < n PROVE k + 1 \in T
    <3>1. W[k + 1] = step[W[k]] /\ k + 1 \in 0 .. n
      BY <1>5, <2>2
    <3>2. W[k] \in SUBSET F /\ W[k + 1] \in SUBSET F /\ W[k] \subseteq W[k + 1]
      BY <1>4, <2>2, <3>1
    <3>3. step[W[k]] \subseteq step[W[k + 1]]
      BY <3>2 DEF Growing
    <3>4. QED
      BY <3>1, <3>3
  <2>3. \A k \in 0 .. n : k \in T
    <3> HIDE DEF T
    <3>1. QED
      BY <2>1, <2>2, StepByStep
  <2>4. QED
    BY <2>3
<1>7. L \in SUBSET F
  BY <1>3, <1>4
<1>8. step[L] = L
  <2> DEFINE V == [k \in 0 .. n + 1 |-> IF k = n + 1 THEN step[L] ELSE W[k]]
  <2>1. V \in [0 .. n + 1 -> SUBSET F]
    BY <1>4, <1>7 DEF Growing
  <2>2. ASSUME NEW k \in 0 .. n PROVE V[k] = W[k] /\ V[k + 1] = step[W[k]]
    <3>1. k \in 0 .. n + 1 /\ k + 1 \in 0 .. n + 1 /\ k # n + 1
      OBVIOUS
    <3>2. CASE k = n
      BY <1>3, <3>1, <3>2
    <3>3. CASE k # n
      <4>1. k < n /\ k + 1 # n + 1
        BY <3>3
      <4>2. V[k + 1] = W[k + 1]
        BY <3>1, <4>1
      <4>3. QED
        BY <1>5, <3>1, <4>1, <4>2
    <3>4. QED
      BY <3>2, <3>3
  <2>3. n \in 0 .. n
    OBVIOUS
  <2> HIDE DEF V
  <2>4. \A k \in 0 .. n : V[k] \subseteq V[k + 1]
    BY <1>6, <2>2
  <2>5. \A j, k \in 0 .. n : V[j] = V[k] => V[j + 1] = V[k + 1]
    BY <2>2
  <2>6. V[n + 1] = V[n]
    <3>1. Determined(V, F, n)
      BY <2>1, <2>4, <2>5 DEF Determined
    <3>2. QED
      BY <1>1, <3>1, ChainStops
  <2>7. QED
    BY <1>3, <2>2, <2>3, <2>6
<1>9. A \subseteq L
  <2> DEFINE T == {k \in 0 .. n : A \subseteq W[k]}
  <2>1. 0 \in T
    BY <1>2 DEF ChainOf
  <2>2. ASSUME NEW k \in 0 .. n, k \in T, k < n PROVE k + 1 \in T
    BY <1>5, <1>6, <2>2
  <2>3. \A k \in 0 .. n : k \in T
    <3> HIDE DEF T
    <3>1. QED
      BY <2>1, <2>2, StepByStep
  <2>4. n \in 0 .. n
    OBVIOUS
  <2>5. QED
    BY <1>3, <2>3, <2>4
<1>10. ASSUME NEW S \in SUBSET F, A \subseteq S, step[S] \subseteq S PROVE L \subseteq S
  <2> DEFINE T == {k \in 0 .. n : W[k] \subseteq S}
  <2>1. 0 \in T
    BY <1>2, <1>10 DEF ChainOf
  <2>2. ASSUME NEW k \in 0 .. n, k \in T, k < n PROVE k + 1 \in T
    <3>1. W[k] \in SUBSET F /\ W[k] \subseteq S
      BY <1>4, <2>2
    <3>2. step[W[k]] \subseteq step[S]
      BY <3>1 DEF Growing
    <3>3. QED
      BY <1>5, <1>10, <2>2, <3>2
  <2>3. \A k \in 0 .. n : k \in T
    <3> HIDE DEF T
    <3>1. QED
      BY <2>1, <2>2, StepByStep
  <2>4. n \in 0 .. n
    OBVIOUS
  <2>5. QED
    BY <1>3, <2>3, <2>4
<1>11. QED
  BY <1>1, <1>3, <1>7, <1>8, <1>9, <1>10

-----------------------------------------------------------------------------
(* The graph of a package.                                                  *)

LEMMA UpToIs ==
  ASSUME NEW n \in Nat
  PROVE  IsFiniteSet(1 .. n) /\ Cardinality(1 .. n) = n
<1>1. 1 \in Int /\ n \in Int
  OBVIOUS
<1>2. IsFiniteSet(1 .. n) /\ Cardinality(1 .. n) = IF 1 > n THEN 0 ELSE n - 1 + 1
  BY <1>1, FS_Interval
<1>3. QED
  BY <1>2

(* Numbering a finite set by the sizes of what comes before each member     *)
(* gives every number once.                                                 *)
LEMMA Numbering ==
  ASSUME NEW S, NEW n \in Nat, IsFiniteSet(S), Cardinality(S) = n,
         NEW r \in [S -> 1 .. n], \A i, j \in S : r[i] = r[j] => i = j
  PROVE  \A k \in 1 .. n : \E i \in S : r[i] = k
<1>1. r \in Injection(S, 1 .. n)
  BY Fun_IsInj
<1>2. IsFiniteSet(1 .. n) /\ Cardinality(1 .. n) = n
  BY UpToIs
<1>3. r \in Surjection(S, 1 .. n)
  BY <1>1, <1>2, FS_Injection
<1>4. QED
  BY <1>3 DEF Surjection

LEMMA InOrderLists ==
  ASSUME NEW S, IsFiniteSet(S), S \subseteq Nat
  PROVE  InOrder(S) \in Seq(S) /\ Elements(InOrder(S)) = S
<1> DEFINE upTo(i) == {j \in S : j <= i}
           n == Cardinality(S)
           r == [i \in S |-> Cardinality(upTo(i))]
<1>1. IsFiniteSet(S) /\ n \in Nat
  BY FS_CardinalityType
<1>2. ASSUME NEW i \in S
      PROVE  IsFiniteSet(upTo(i)) /\ Cardinality(upTo(i)) \in 1 .. n
  <2>1. upTo(i) \in SUBSET S /\ i \in upTo(i)
    OBVIOUS
  <2> HIDE DEF upTo
  <2>2. IsFiniteSet(upTo(i)) /\ Cardinality(upTo(i)) <= n
    BY <1>1, <2>1, FS_Subset
  <2>3. Cardinality(upTo(i)) \in Nat /\ Cardinality(upTo(i)) # 0
    BY <2>1, <2>2, FS_CardinalityType, FS_EmptySet
  <2>4. QED
    BY <1>1, <2>2, <2>3
<1>3. ASSUME NEW i \in S, NEW j \in S, i < j
      PROVE  Cardinality(upTo(i)) < Cardinality(upTo(j))
  <2>1. upTo(i) \in SUBSET upTo(j) /\ upTo(j) # upTo(i)
    <3>1. i \in Nat /\ j \in Nat /\ \A h \in S : h \in Nat
      OBVIOUS
    <3>2. \A h \in upTo(i) : h \in upTo(j)
      BY <1>3, <3>1
    <3>3. j \in upTo(j) /\ j \notin upTo(i)
      BY <1>3, <3>1
    <3>4. QED
      BY <3>2, <3>3
  <2> HIDE DEF upTo
  <2>2. /\ Cardinality(upTo(i)) <= Cardinality(upTo(j))
        /\ Cardinality(upTo(j)) # Cardinality(upTo(i))
    BY <1>2, <2>1, FS_Subset
  <2>3. Cardinality(upTo(i)) \in Nat /\ Cardinality(upTo(j)) \in Nat
    BY <1>1, <1>2
  <2>4. QED
    BY <2>2, <2>3
<1>4. r \in [S -> 1 .. n] /\ \A i \in S : r[i] = Cardinality(upTo(i))
  BY <1>2
<1>5. \A i, j \in S : r[i] = r[j] => i = j
  <2>1. ASSUME NEW i \in S, NEW j \in S, r[i] = r[j] PROVE i = j
    <3>1. i \in Nat /\ j \in Nat
      OBVIOUS
    <3>2. ~ (i < j)
      BY <1>1, <1>3, <1>4, <2>1
    <3>3. ~ (j < i)
      BY <1>1, <1>3, <1>4, <2>1
    <3>4. QED
      BY <3>1, <3>2, <3>3
  <2>2. QED
    BY <2>1
<1> DEFINE at(k) == CHOOSE i \in S : Cardinality({j \in S : j <= i}) = k
           chosen(k) == CHOOSE i \in S : r[i] = k
<1>6. \A k : at(k) = chosen(k)
  BY <1>4
<1> HIDE DEF r, n
<1>7. /\ \A k \in 1 .. n : chosen(k) \in S /\ r[chosen(k)] = k
      /\ \A i \in S : chosen(r[i]) = i
  <2>1. Cardinality(S) = n
    BY DEF n
  <2>2. r \in [S -> 1 .. n]
    BY <1>4
  <2> HIDE DEF at, upTo, chosen
  <2>3. \A k \in 1 .. n : \E i \in S : r[i] = k
    <3>1. IsFiniteSet(S)
      BY <1>1
    <3>2. n \in Nat
      BY <1>1
    <3>3. \A i, j \in S : r[i] = r[j] => i = j
      BY <1>5
    <3>4. QED
      BY ONLY <2>1, <2>2, <3>1, <3>2, <3>3, Numbering
  <2>4. QED
    BY <1>5, <2>2, <2>3 DEF chosen
<1> HIDE DEF chosen
<1>8. /\ \A k \in 1 .. n : at(k) \in S /\ r[at(k)] = k
      /\ \A i \in S : r[i] \in 1 .. n /\ at(r[i]) = i
  BY <1>4, <1>6, <1>7
<1>9. InOrder(S) = [k \in 1 .. n |-> at(k)]
  BY DEF InOrder, n
<1> HIDE DEF at
<1>10. PICK s : s = InOrder(S)
  OBVIOUS
<1>11. DOMAIN s = 1 .. n /\ \A k \in 1 .. n : s[k] = at(k)
  BY <1>9, <1>10
<1>12. s \in Seq(S)
  <2>1. s \in [1 .. n -> S]
    BY <1>8, <1>9, <1>10
  <2>2. QED
    BY <1>1, <2>1
<1>13. Elements(s) = S
  <2>1. \A i \in S : \E k \in 1 .. n : s[k] = i
    BY <1>8, <1>11
  <2>2. S \subseteq Elements(s)
    BY <1>11, <2>1 DEF Elements
  <2>3. Elements(s) \subseteq S
    BY <1>8, <1>11 DEF Elements
  <2>4. QED
    BY <2>2, <2>3
<1>14. QED
  BY <1>10, <1>12, <1>13

LEMMA ElementsOfConcat ==
  ASSUME NEW S, NEW s \in Seq(S), NEW t \in Seq(S)
  PROVE  s \o t \in Seq(S) /\ Elements(s \o t) = Elements(s) \cup Elements(t)
<1>1. /\ s \o t \in Seq(S) /\ Len(s \o t) = Len(s) + Len(t)
      /\ \A i \in 1 .. Len(s) + Len(t) : (s \o t)[i] = IF i <= Len(s) THEN s[i] ELSE t[i - Len(s)]
  BY ConcatProperties
<1>2. Len(s) \in Nat /\ Len(t) \in Nat /\ DOMAIN s = 1 .. Len(s) /\ DOMAIN t = 1 .. Len(t)
      /\ DOMAIN (s \o t) = 1 .. Len(s) + Len(t)
  BY <1>1, LenProperties
<1> DEFINE u == s \o t
<1>3. u = s \o t
  OBVIOUS
<1> HIDE DEF u
<1>4. ASSUME NEW i \in 1 .. Len(s) + Len(t) PROVE u[i] \in Elements(s) \cup Elements(t)
  <2>1. CASE i <= Len(s)
    <3>1. i \in 1 .. Len(s) /\ u[i] = s[i]
      BY <1>1, <1>2, <1>3, <2>1
    <3>2. QED
      BY <1>2, <3>1 DEF Elements
  <2>2. CASE ~ (i <= Len(s))
    <3>1. i - Len(s) \in 1 .. Len(t) /\ u[i] = t[i - Len(s)]
      BY <1>1, <1>2, <1>3, <2>2
    <3>2. QED
      BY <1>2, <3>1 DEF Elements
  <2>3. QED
    BY <2>1, <2>2
<1>5. ASSUME NEW i \in 1 .. Len(s) PROVE s[i] \in Elements(u)
  <2>1. i \in 1 .. Len(s) + Len(t) /\ u[i] = s[i]
    BY <1>1, <1>2, <1>3
  <2>2. QED
    BY <1>2, <1>3, <2>1 DEF Elements
<1>6. ASSUME NEW i \in 1 .. Len(t) PROVE t[i] \in Elements(u)
  <2>1. Len(s) + i \in 1 .. Len(s) + Len(t) /\ ~ (Len(s) + i <= Len(s)) /\ (Len(s) + i) - Len(s) = i
    BY <1>2
  <2>2. u[Len(s) + i] = t[i]
    BY <1>1, <1>3, <2>1
  <2>3. QED
    BY <1>2, <1>3, <2>1, <2>2 DEF Elements
<1>7. Elements(u) = Elements(s) \cup Elements(t)
  <2>1. Elements(u) \subseteq Elements(s) \cup Elements(t)
    BY <1>2, <1>3, <1>4 DEF Elements
  <2>2. Elements(s) \subseteq Elements(u)
    BY <1>2, <1>5 DEF Elements
  <2>3. Elements(t) \subseteq Elements(u)
    BY <1>2, <1>6 DEF Elements
  <2>4. QED
    BY <2>1, <2>2, <2>3
<1>8. QED
  BY <1>1, <1>3, <1>7

(* FlattenSeq strings sequences together.                                   *)
LEMMA FlattenIs ==
  ASSUME NEW S, NEW ss \in Seq(Seq(S))
  PROVE  /\ FlattenSeq(ss) \in Seq(S)
         /\ Elements(FlattenSeq(ss)) = UNION {Elements(ss[i]) : i \in DOMAIN ss}
<1>1. CASE Len(ss) = 0
  <2>1. FlattenSeq(ss) = ss
    BY <1>1 DEF FlattenSeq
  <2>2. DOMAIN ss = {} /\ ss \in Seq(S)
    BY <1>1
  <2>3. QED
    BY <2>1, <2>2 DEF Elements
<1>2. CASE Len(ss) # 0
  <2>1. PICK n \in Nat : Len(ss) = n + 1 /\ DOMAIN ss = 1 .. n + 1
    <3>1. Len(ss) - 1 \in Nat /\ Len(ss) = (Len(ss) - 1) + 1 /\ DOMAIN ss = 1 .. Len(ss)
      BY <1>2
    <3>2. QED
      BY <3>1
  <2>2. \A i \in 1 .. n + 1 : ss[i] \in Seq(S)
    BY <2>1
  <2> DEFINE step == [k \in 1 .. n |-> [s \in Seq(S) |-> s \o ss[k + 1]]]
  <2>3. step \in [1 .. n -> [Seq(S) -> Seq(S)]]
    <3>1. ASSUME NEW k \in 1 .. n, NEW s \in Seq(S) PROVE s \o ss[k + 1] \in Seq(S)
      <4>1. ss[k + 1] \in Seq(S)
        BY <2>2
      <4>2. QED
        BY <4>1
    <3>2. QED
      BY <3>1
  <2>4. ss[1] \in Seq(S)
    BY <2>2
  <2>5. PICK w : RunOf(w, Seq(S), ss[1], step, n)
    <3> HIDE DEF step
    <3>1. QED
      BY <2>3, <2>4, RunsExist
  <2> DEFINE v == [i \in 1 .. n + 1 |-> w[i - 1]]
  <2>6. \A k \in 1 .. n : w[k - 1] \in Seq(S) /\ w[k] = w[k - 1] \o ss[k + 1]
    <3>1. ASSUME NEW k \in 1 .. n PROVE w[k - 1] \in Seq(S) /\ w[k] = w[k - 1] \o ss[k + 1]
      <4>1. k - 1 \in 0 .. n
        OBVIOUS
      <4>2. w[k - 1] \in Seq(S) /\ w[k] = step[k][w[k - 1]]
        BY <2>5, <4>1 DEF RunOf
      <4>3. QED
        BY <4>2
    <3>2. QED
      BY <3>1
  <2>7. v = [i \in 1 .. n + 1 |-> IF i = 1 THEN ss[i] ELSE v[i - 1] \o ss[i]]
    <3>1. ASSUME NEW i \in 1 .. n + 1 PROVE v[i] = IF i = 1 THEN ss[i] ELSE v[i - 1] \o ss[i]
      <4>1. CASE i = 1
        BY <2>5, <4>1 DEF RunOf
      <4>2. CASE i # 1
        <5>1. i - 1 \in 1 .. n /\ (i - 1) + 1 = i /\ i - 1 \in 1 .. n + 1
          BY <4>2
        <5>2. w[i - 1] = w[(i - 1) - 1] \o ss[i]
          BY <2>6, <5>1
        <5>3. QED
          BY <4>2, <5>1, <5>2
      <4>3. QED
        BY <4>1, <4>2
    <3>2. QED
      BY <3>1
  <2> HIDE DEF v
  <2> DEFINE flatten == CHOOSE u : u = [i \in 1 .. Len(ss) |-> IF i = 1 THEN ss[i] ELSE u[i - 1] \o ss[i]]
  <2>8. FlattenSeq(ss) = flatten[n + 1]
    BY <1>2, <2>1 DEF FlattenSeq
  <2>9. flatten = [i \in 1 .. n + 1 |-> IF i = 1 THEN ss[i] ELSE flatten[i - 1] \o ss[i]]
    BY <2>1, <2>7
  <2> HIDE DEF flatten
  <2>10. /\ flatten[1] = ss[1]
         /\ \A k \in 1 .. n : flatten[k + 1] = flatten[k] \o ss[k + 1]
    <3>1. 1 \in 1 .. n + 1
      OBVIOUS
    <3>2. \A k \in 1 .. n : k + 1 \in 1 .. n + 1 /\ k + 1 # 1 /\ (k + 1) - 1 = k
      OBVIOUS
    <3>3. \A i \in 1 .. n + 1 : flatten[i] = IF i = 1 THEN ss[i] ELSE flatten[i - 1] \o ss[i]
      BY <2>9
    <3>4. QED
      BY <3>1, <3>2, <3>3
  <2> DEFINE upTo(k) == UNION {Elements(ss[i]) : i \in 1 .. k + 1}
             T == {k \in 0 .. n : flatten[k + 1] \in Seq(S) /\ Elements(flatten[k + 1]) = upTo(k)}
  <2>11. 0 \in T
    <3>1. {i : i \in 1 .. 0 + 1} = {1}
      OBVIOUS
    <3>2. upTo(0) = Elements(ss[1])
      BY <3>1
    <3>3. 0 \in 0 .. n /\ 0 + 1 = 1
      OBVIOUS
    <3> HIDE DEF upTo
    <3>4. QED
      BY <2>4, <2>10, <3>2, <3>3
  <2>12. ASSUME NEW k \in 0 .. n, k \in T, k < n PROVE k + 1 \in T
    <3>1. k + 1 \in 1 .. n /\ k + 1 \in 0 .. n /\ (k + 1) + 1 \in 1 .. n + 1
      BY <2>12
    <3>2. /\ flatten[k + 1] \in Seq(S) /\ ss[(k + 1) + 1] \in Seq(S)
          /\ flatten[(k + 1) + 1] = flatten[k + 1] \o ss[(k + 1) + 1]
          /\ Elements(flatten[k + 1]) = upTo(k)
      BY <2>2, <2>10, <2>12, <3>1
    <3>3. /\ flatten[(k + 1) + 1] \in Seq(S)
          /\ Elements(flatten[(k + 1) + 1]) = Elements(flatten[k + 1]) \cup Elements(ss[(k + 1) + 1])
      BY <3>2, ElementsOfConcat
    <3>4. \A i : i \in 1 .. (k + 1) + 1 <=> i \in 1 .. k + 1 \/ i = (k + 1) + 1
      BY <3>1
    <3>5. upTo(k + 1) = upTo(k) \cup Elements(ss[(k + 1) + 1])
      BY <3>4
    <3>6. QED
      BY <3>1, <3>2, <3>3, <3>5
  <2>13. \A k \in 0 .. n : k \in T
    <3> HIDE DEF T
    <3>1. QED
      BY <2>11, <2>12, StepByStep
  <2>14. n \in 0 .. n
    OBVIOUS
  <2>15. flatten[n + 1] \in Seq(S) /\ Elements(flatten[n + 1]) = upTo(n)
    BY <2>13, <2>14
  <2>16. QED
    BY <2>1, <2>8, <2>15
<1>3. QED
  BY <1>1, <1>2

(* What a package is made of.                                               *)
LEMMA PackageTypes ==
  ASSUME NEW pkg \in Packages
  PROVE  /\ \A p \in Production : Mentioned(pkg, p) \in Seq(Rule) /\ pkg.owner[p] \in Rule
         /\ pkg.entries \in Seq(Rule)
         /\ Productivity(pkg) \in Grammars /\ Nullability(pkg) \in Grammars
<1>1. Productivity(pkg) \in Grammars /\ Nullability(pkg) \in Grammars /\ pkg.entries \in Seq(Rule)
  BY PackagesAssumption
<1>2. \A p \in Production : Mentioned(pkg, p) \in Seq(Rule) /\ pkg.owner[p] \in Rule
  BY <1>1 DEF Productivity, Grammars
<1>3. QED
  BY <1>1, <1>2

LEMMA NodeIs == C!Node = Rule /\ N \in Nat /\ IsFiniteSet(Rule)
  BY FiniteAssumption, FS_CardinalityType, RuleAssumption DEF C!Node, N

(* graph_edges: a rule's edges are the rules its productions mention.       *)
LEMMA EdgesMention ==
  ASSUME NEW pkg \in Packages
  PROVE  /\ EdgesOf(pkg) \in [Rule -> Seq(Rule)]
         /\ \A r \in Rule : Elements(EdgesOf(pkg)[r])
              = UNION {Elements(Mentioned(pkg, p)) : p \in {q \in Production : pkg.owner[q] = r}}
<1>1. ASSUME NEW r \in Rule
      PROVE  /\ EdgesOf(pkg)[r] \in Seq(Rule)
             /\ Elements(EdgesOf(pkg)[r])
                  = UNION {Elements(Mentioned(pkg, p)) : p \in {q \in Production : pkg.owner[q] = r}}
  <2> DEFINE mine == {q \in Production : pkg.owner[q] = r}
             own == InOrder(mine)
             bodies == [i \in DOMAIN own |-> Mentioned(pkg, own[i])]
  <2>1. IsFiniteSet(mine) /\ mine \subseteq Nat
    BY FiniteAssumption, FS_Subset, ProductionAssumption
  <2>2. own \in Seq(mine) /\ Elements(own) = mine
    <3> HIDE DEF mine
    <3>1. QED
      BY <2>1, InOrderLists
  <2>3. EdgesOf(pkg)[r] = FlattenSeq(bodies)
    BY DEF EdgesOf
  <2> HIDE DEF own
  <2>4. PICK n \in Nat : DOMAIN own = 1 .. n
    BY <2>2
  <2>5. \A i \in 1 .. n : own[i] \in mine
    BY <2>2, <2>4
  <2>6. bodies \in [1 .. n -> Seq(Rule)]
    BY <2>4, <2>5, PackageTypes
  <2>7. bodies \in Seq(Seq(Rule))
    BY <2>6
  <2>8. /\ FlattenSeq(bodies) \in Seq(Rule)
        /\ Elements(FlattenSeq(bodies)) = UNION {Elements(bodies[i]) : i \in DOMAIN bodies}
    <3> HIDE DEF bodies
    <3>1. QED
      BY <2>7, FlattenIs
  <2>9. DOMAIN bodies = 1 .. n /\ \A i \in 1 .. n : bodies[i] = Mentioned(pkg, own[i])
    BY <2>4
  <2>10. \A p \in mine : \E i \in 1 .. n : own[i] = p
    BY <2>2, <2>4 DEF Elements
  <2> HIDE DEF bodies, mine
  <2>11. UNION {Elements(bodies[i]) : i \in DOMAIN bodies} = UNION {Elements(Mentioned(pkg, p)) : p \in mine}
    BY <2>5, <2>9, <2>10
  <2>12. QED
    BY <2>3, <2>8, <2>11 DEF mine
<1>2. EdgesOf(pkg) = [r \in Rule |-> EdgesOf(pkg)[r]]
  BY DEF EdgesOf
<1>3. EdgesOf(pkg) \in [Rule -> Seq(Rule)]
  BY <1>1, <1>2
<1>4. QED
  BY <1>1, <1>3

-----------------------------------------------------------------------------
(* Paths.                                                                   *)

EdgesTyped == edges \in [Rule -> Seq(Rule)]

Succ(n) == C!Elements(edges[n])
Grow(S) == S \cup UNION {Succ(m) : m \in S}
Closed(S) == \A n \in S : Succ(n) \subseteq S

LEMMA SuccIs ==
  ASSUME EdgesTyped
  PROVE  /\ \A n \in Rule : Succ(n) \in SUBSET Rule /\ Succ(n) = Elements(edges[n])
         /\ \A S \in SUBSET Rule : Grow(S) \in SUBSET Rule
<1>1. ASSUME NEW n \in Rule PROVE Succ(n) \in SUBSET Rule /\ Succ(n) = Elements(edges[n])
  <2>1. edges[n] \in Seq(Rule)
    BY DEF EdgesTyped
  <2>2. \A i \in DOMAIN edges[n] : edges[n][i] \in Rule
    BY <2>1
  <2>3. QED
    BY <2>2 DEF Succ, C!Elements, Elements
<1>2. QED
  BY <1>1 DEF Grow

(* The recursive definition of Within defines a function.                   *)
LEMMA WithinRuns ==
  ASSUME EdgesTyped
  PROVE  /\ C!Within \in [0 .. N -> [Rule -> SUBSET Rule]]
         /\ \A n \in Rule : C!Within[0][n] = {n}
         /\ \A k \in 1 .. N : \A n \in Rule : C!Within[k][n] = Grow(C!Within[k - 1][n])
<1> DEFINE U == [Rule -> SUBSET Rule]
           a == [n \in Rule |-> {n}]
           step == [k \in 1 .. N |-> [g \in U |-> [n \in Rule |-> Grow(g[n])]]]
           Rec(w) == [k \in 0 .. N |-> [n \in Rule |-> IF k = 0 THEN {n} ELSE Grow(w[k - 1][n])]]
<1>1. N \in Nat /\ C!Node = Rule
  BY NodeIs
<1>2. a \in U
  OBVIOUS
<1>3. step \in [1 .. N -> [U -> U]]
  <2>1. ASSUME NEW g \in U PROVE [n \in Rule |-> Grow(g[n])] \in U
    BY SuccIs
  <2>2. QED
    BY <2>1
<1>4. PICK w : RunOf(w, U, a, step, N)
  <2> HIDE DEF U, a, step
  <2>1. QED
    BY <1>1, <1>2, <1>3, RunsExist
<1>5. \A k \in 1 .. N, g \in U : step[k][g] = [n \in Rule |-> Grow(g[n])]
  OBVIOUS
<1>6. w = Rec(w)
  <2>1. ASSUME NEW k \in 0 .. N PROVE w[k] = [n \in Rule |-> IF k = 0 THEN {n} ELSE Grow(w[k - 1][n])]
    <3>1. CASE k = 0
      BY <1>4, <3>1 DEF RunOf
    <3>2. CASE k # 0
      <4>1. k \in 1 .. N /\ k - 1 \in 0 .. N
        BY <1>1, <3>2
      <4>2. w[k - 1] \in U /\ w[k] = step[k][w[k - 1]]
        BY <1>4, <4>1 DEF RunOf
      <4>3. w[k] = [n \in Rule |-> Grow(w[k - 1][n])]
        <5> HIDE DEF step, U
        <5>1. QED
          BY <1>5, <4>1, <4>2
      <4>4. QED
        BY <3>2, <4>3
    <3>3. QED
      BY <3>1, <3>2
  <2>2. w = [k \in 0 .. N |-> w[k]]
    BY <1>4 DEF RunOf
  <2>3. QED
    BY <2>1, <2>2
<1>7. C!Within = CHOOSE f : f = Rec(f)
  BY <1>1 DEF C!Within, Grow, Succ
<1>8. C!Within = Rec(C!Within)
  <2> HIDE DEF Rec
  <2>1. QED
    BY <1>6, <1>7
<1>9. PICK f : f = C!Within
  OBVIOUS
<1>10. f = Rec(f)
  BY <1>8, <1>9
<1>11. \A k \in 0 .. N : f[k] = [n \in Rule |-> IF k = 0 THEN {n} ELSE Grow(f[k - 1][n])]
  BY <1>10
<1>12. f = [k \in 0 .. N |-> f[k]] /\ f[0] = a
  <2>1. DOMAIN f = 0 .. N
    BY <1>10
  <2>2. f = [k \in DOMAIN f |-> f[k]]
    BY <1>10
  <2>3. 0 \in 0 .. N
    BY <1>1
  <2>4. QED
    BY <1>11, <2>1, <2>2, <2>3
<1>13. ASSUME NEW k \in 1 .. N
       PROVE  f[k] = [n \in Rule |-> Grow(f[k - 1][n])]
  <2>1. k \in 0 .. N /\ k # 0
    BY <1>1
  <2>2. QED
    BY <1>11, <2>1
<1>14. \A k \in 1 .. N : f[k - 1] \in U => f[k] = step[k][f[k - 1]]
  BY <1>5, <1>13
<1>15. RunOf(f, U, a, step, N)
  <2> HIDE DEF U, a, step
  <2>1. QED
    BY <1>1, <1>2, <1>3, <1>12, <1>14, RecursionRuns
<1>16. f \in [0 .. N -> U] /\ \A n \in Rule : f[0][n] = {n}
  BY <1>12, <1>15 DEF RunOf
<1>17. \A k \in 1 .. N : \A n \in Rule : f[k][n] = Grow(f[k - 1][n])
  BY <1>13
<1>18. QED
  BY <1>9, <1>16, <1>17

(* Reaches[n] is the least set that holds n and is closed under edges.      *)
LEMMA ReachesIs ==
  ASSUME EdgesTyped, NEW n \in Rule
  PROVE  /\ C!Reaches[n] \in SUBSET Rule /\ n \in C!Reaches[n]
         /\ Closed(C!Reaches[n])
         /\ \A S : n \in S /\ Closed(S) => C!Reaches[n] \subseteq S
<1> DEFINE grow == [S \in SUBSET Rule |-> Grow(S)]
           W == [k \in 0 .. N |-> C!Within[k][n]]
<1>1. N \in Nat /\ IsFiniteSet(Rule) /\ N = Cardinality(Rule)
  BY NodeIs DEF N
<1>2. grow \in [SUBSET Rule -> SUBSET Rule] /\ \A S \in SUBSET Rule : grow[S] = Grow(S)
  BY SuccIs
<1>3. Growing(Rule, grow, {n})
  <2>1. \A S, T \in SUBSET Rule : S \subseteq T => Grow(S) \subseteq Grow(T)
    BY DEF Grow
  <2>2. {n} \subseteq Grow({n})
    BY DEF Grow
  <2>3. QED
    BY <1>2, <2>1, <2>2 DEF Growing
<1>4. ChainOf(W, Rule, {n}, grow, N)
  <2>1. W \in [0 .. N -> SUBSET Rule] /\ W[0] = {n}
    BY <1>1, WithinRuns
  <2>2. ASSUME NEW k \in 1 .. N PROVE W[k] = grow[W[k - 1]]
    <3>1. k \in 0 .. N /\ k - 1 \in 0 .. N
      BY <1>1
    <3>2. W[k] = C!Within[k][n] /\ W[k - 1] = C!Within[k - 1][n] /\ W[k - 1] \in SUBSET Rule
      BY <2>1, <3>1
    <3>3. C!Within[k][n] = Grow(C!Within[k - 1][n])
      BY WithinRuns
    <3> HIDE DEF W, grow
    <3>4. QED
      BY <1>2, <3>2, <3>3
  <2> HIDE DEF W, grow
  <2>3. QED
    BY <2>1, <2>2 DEF ChainOf
<1>5. W[N] = C!Reaches[n]
  BY <1>1 DEF C!Reaches
<1>6. PICK L : L = C!Reaches[n]
  OBVIOUS
<1>7. /\ L \in SUBSET Rule /\ {n} \subseteq L /\ grow[L] = L
      /\ \A S \in SUBSET Rule : {n} \subseteq S /\ grow[S] \subseteq S => L \subseteq S
  <2> HIDE DEF W, grow
  <2>1. ChainOf(W, Rule, {n}, grow, Cardinality(Rule)) /\ W[Cardinality(Rule)] = L
    BY <1>1, <1>4, <1>5, <1>6
  <2>2. QED
    BY <1>1, <1>3, <2>1, LeastInChain
<1>8. Closed(L)
  BY <1>2, <1>7 DEF Grow, Closed
<1>9. ASSUME NEW S, n \in S, Closed(S) PROVE L \subseteq S
  <2>1. S \cap Rule \in SUBSET Rule /\ {n} \subseteq S \cap Rule
    BY <1>9
  <2>2. Grow(S \cap Rule) \subseteq S \cap Rule
    BY <1>9, SuccIs DEF Grow, Closed
  <2>3. L \subseteq S \cap Rule
    BY <1>2, <1>7, <2>1, <2>2
  <2>4. QED
    BY <2>3
<1>10. QED
  BY <1>6, <1>7, <1>8, <1>9

(* Paths go on; a path that leads elsewhere has a first edge.               *)
LEMMA Paths ==
  ASSUME EdgesTyped, NEW n \in Rule, NEW m \in C!Reaches[n]
  PROVE  /\ m \in Rule /\ C!Reaches[m] \subseteq C!Reaches[n]
         /\ Succ(m) \subseteq C!Reaches[n]
         /\ m = n \/ \E child \in Succ(n) : m \in C!Reaches[child]
<1>1. /\ m \in Rule /\ Closed(C!Reaches[n]) /\ C!Reaches[n] \in SUBSET Rule
      /\ Succ(n) \subseteq Rule
  BY ReachesIs, SuccIs
<1>2. C!Reaches[m] \subseteq C!Reaches[n]
  BY <1>1, ReachesIs
<1>3. Succ(m) \subseteq C!Reaches[n]
  BY <1>1 DEF Closed
<1> DEFINE S == {n} \cup UNION {C!Reaches[child] : child \in Succ(n)}
<1>4. \A child \in Succ(n) : Closed(C!Reaches[child]) /\ child \in C!Reaches[child]
  BY <1>1, ReachesIs
<1>5. Closed(S)
  <2> SUFFICES ASSUME NEW x \in S, NEW y \in Succ(x) PROVE y \in S
    BY DEF Closed
  <2>1. CASE x = n
    BY <1>4, <2>1
  <2>2. CASE x # n
    BY <1>4, <2>2 DEF Closed
  <2>3. QED
    BY <2>1, <2>2
<1>6. n \in S
  OBVIOUS
<1>7. C!Reaches[n] \subseteq S
  <2> HIDE DEF S
  <2>1. QED
    BY <1>5, <1>6, ReachesIs
<1>8. QED
  BY <1>1, <1>2, <1>3, <1>7

-----------------------------------------------------------------------------
(* The component search, over any graph E whose paths are R.                *)

PathsOf(E, R) ==
  /\ E \in [Rule -> Seq(Rule)] /\ R \in [Rule -> SUBSET Rule]
  /\ \A n \in Rule : n \in R[n]
  /\ \A n \in Rule : \A m \in R[n] :
       /\ R[m] \subseteq R[n] /\ Elements(E[m]) \subseteq R[n]
       /\ m = n \/ \E child \in Elements(E[n]) : m \in R[child]
  /\ \A n \in Rule, S \in SUBSET Rule :
       n \in S /\ (\A x \in S : Elements(E[x]) \subseteq S) => R[n] \subseteq S

Both(R, n, m) == m \in R[n] /\ n \in R[m]

LEMMA PathsOfEdges == EdgesTyped => PathsOf(edges, C!Reaches)
<1> SUFFICES ASSUME EdgesTyped PROVE PathsOf(edges, C!Reaches)
  OBVIOUS
<1>1. C!Reaches \in [Rule -> SUBSET Rule]
  <2>1. N \in 0 .. N
    BY NodeIs
  <2>2. QED
    BY <2>1, WithinRuns DEF C!Reaches
<1>2. \A n \in Rule : Succ(n) = Elements(edges[n])
  BY SuccIs
<1>3. ASSUME NEW n \in Rule, NEW S \in SUBSET Rule, n \in S, \A x \in S : Elements(edges[x]) \subseteq S
      PROVE  C!Reaches[n] \subseteq S
  BY <1>2, <1>3, ReachesIs DEF Closed
<1>4. ASSUME NEW n \in Rule, NEW m \in C!Reaches[n]
      PROVE  /\ C!Reaches[m] \subseteq C!Reaches[n] /\ Elements(edges[m]) \subseteq C!Reaches[n]
             /\ m = n \/ \E child \in Elements(edges[n]) : m \in C!Reaches[child]
  BY <1>2, Paths
<1>5. QED
  BY <1>1, <1>3, <1>4, ReachesIs DEF EdgesTyped, PathsOf

LEMMA BothIs ==
  ASSUME NEW E, NEW R, PathsOf(E, R)
  PROVE  /\ \A n \in Rule : Both(R, n, n)
         /\ \A n, m \in Rule : Both(R, n, m) => Both(R, m, n)
         /\ \A n, m, k \in Rule : Both(R, n, m) /\ Both(R, m, k) => Both(R, n, k)
BY DEF PathsOf, Both

(* The nodes on the stack of the first pass.                                *)
Nodes(s) == {s[i][1] : i \in DOMAIN s}

WalkTypes(vis, s, ord) ==
  vis \in SUBSET Rule /\ s \in Seq(Rule \X (Nat \ {0})) /\ ord \in Seq(Rule)

(* The stack is a path without repetitions.                                 *)
OnWay(R, s) == \A i, j \in DOMAIN s : i < j => s[i][1] # s[j][1] /\ s[j][1] \in R[s[i][1]]

(* Every node met has finished or is on the stack; the children of the      *)
(* finished ones were met, and so were those that the stack has followed.   *)
Met(E, vis, s, ord) ==
  /\ vis = Elements(ord) \cup Nodes(s) /\ Elements(ord) \cap Nodes(s) = {}
  /\ Distinct(ord)
  /\ \A n \in Elements(ord) : Elements(E[n]) \subseteq vis
  /\ \A i \in DOMAIN s : \A k \in DOMAIN E[s[i][1]] : k < s[i][2] => E[s[i][1]][k] \in vis

(* The last node of a component to finish finishes after everything that    *)
(* it leads to.                                                             *)
Finishing(R, s, ord) ==
  \A i \in DOMAIN ord :
    \/ \E a \in Nodes(s) : Both(R, a, ord[i])
    \/ \E j \in DOMAIN ord : j > i /\ Both(R, ord[j], ord[i])
    \/ R[ord[i]] \subseteq {ord[j] : j \in 1 .. i}

WalkOf(E, R, vis, s, ord) ==
  WalkTypes(vis, s, ord) /\ OnWay(R, s) /\ Met(E, vis, s, ord) /\ Finishing(R, s, ord)

LEMMA WalkStarts ==
  ASSUME NEW E, NEW R, PathsOf(E, R)
  PROVE  WalkOf(E, R, {}, <<>>, <<>>)
<1>1. WalkTypes({}, <<>>, <<>>)
  BY DEF WalkTypes
<1>2. DOMAIN <<>> = {}
  OBVIOUS
<1>3. QED
  BY <1>1, <1>2 DEF WalkOf, OnWay, Met, Finishing, Nodes, Elements, Distinct

(* The outer loop finds a node that was not met.                            *)
LEMMA WalkResumes ==
  ASSUME NEW E, NEW R, PathsOf(E, R), NEW vis, NEW ord, WalkOf(E, R, vis, <<>>, ord),
         NEW start \in Rule, start \notin vis
  PROVE  WalkOf(E, R, vis \cup {start}, <<<<start, 1>>>>, ord)
<1>1. PICK s : s = <<<<start, 1>>>>
  OBVIOUS
<1>2. s \in Seq(Rule \X (Nat \ {0})) /\ DOMAIN s = {1} /\ s[1] = <<start, 1>> /\ s[1][1] = start /\ s[1][2] = 1
  <2>1. Len(s) = 1 /\ s[1] = <<start, 1>>
    BY <1>1
  <2>2. <<start, 1>> \in Rule \X (Nat \ {0})
    OBVIOUS
  <2>3. s \in Seq(Rule \X (Nat \ {0}))
    BY <1>1, <2>2
  <2>4. DOMAIN s = {1}
    BY <1>1
  <2>5. QED
    BY <2>1, <2>3, <2>4
<1>3. Nodes(s) = {start}
  BY <1>2 DEF Nodes
<1>4. Nodes(<<>>) = {}
  BY DEF Nodes
<1>5. WalkTypes(vis \cup {start}, s, ord)
  BY <1>2 DEF WalkOf, WalkTypes
<1>6. OnWay(R, s)
  BY <1>2 DEF OnWay
<1>7. Met(E, vis \cup {start}, s, ord)
  <2>1. /\ vis = Elements(ord) /\ Distinct(ord)
        /\ \A n \in Elements(ord) : Elements(E[n]) \subseteq vis
    BY <1>4 DEF WalkOf, Met
  <2>2. DOMAIN E[start] \subseteq Nat
    <3>1. E[start] \in Seq(Rule)
      BY DEF PathsOf
    <3>2. QED
      BY <3>1
  <2>3. \A k \in DOMAIN E[start] : ~ (k < 1)
    <3>1. E[start] \in Seq(Rule)
      BY DEF PathsOf
    <3>2. QED
      BY <3>1
  <2>4. \A i \in DOMAIN s : \A k \in DOMAIN E[s[i][1]] : ~ (k < s[i][2])
    BY <1>2, <2>3
  <2>5. QED
    BY <1>3, <2>1, <2>4 DEF Met
<1>8. Finishing(R, s, ord)
  BY <1>4 DEF WalkOf, Finishing
<1>9. QED
  BY <1>1, <1>5, <1>6, <1>7, <1>8 DEF WalkOf

(* The top of a stack, and what is below.                                   *)
LEMMA TopApart ==
  ASSUME NEW P, NEW s \in Seq(P), s # <<>>
  PROVE  \E h \in Nat \ {0} :
           /\ Len(s) = h /\ DOMAIN s = 1 .. h /\ s[h] \in P
           /\ SubSeq(s, 1, h - 1) \in Seq(P) /\ DOMAIN SubSeq(s, 1, h - 1) = 1 .. h - 1
           /\ \A i \in 1 .. h - 1 : SubSeq(s, 1, h - 1)[i] = s[i]
<1>1. PICK h \in Nat : h = Len(s) /\ h >= 1 /\ DOMAIN s = 1 .. h
  BY EmptySeq, LenProperties
<1>2. PICK r : r = SubSeq(s, 1, h - 1)
  OBVIOUS
<1>3. \A i \in 1 .. h : s[i] \in P
  BY <1>1
<1>4. r \in Seq(P) /\ Len(r) = h - 1 /\ \A i \in 1 .. h - 1 : r[i] = s[i]
  BY <1>1, <1>2
<1>5. DOMAIN r = 1 .. h - 1
  BY <1>4, LenProperties
<1>6. h \in Nat \ {0} /\ h \in 1 .. h
  BY <1>1
<1>7. QED
  BY <1>1, <1>2, <1>3, <1>4, <1>5, <1>6

(* t has the nodes of s and one more place above them.                      *)
Above(n, s, t, node) ==
  /\ DOMAIN s = 1 .. n /\ DOMAIN t = 1 .. n + 1
  /\ \A i \in 1 .. n : t[i][1] = s[i][1]
  /\ t[n + 1][1] = node

LEMMA NodesAbove ==
  ASSUME NEW n \in Nat, NEW s, NEW t, NEW node, Above(n, s, t, node)
  PROVE  Nodes(t) = Nodes(s) \cup {node}
<1> USE DEF Above
<1>1. ASSUME NEW a \in Nodes(t) PROVE a \in Nodes(s) \cup {node}
  <2>1. PICK i \in 1 .. n + 1 : a = t[i][1]
    BY DEF Nodes
  <2>2. CASE i = n + 1
    BY <2>1, <2>2
  <2>3. CASE i # n + 1
    <3>1. i \in 1 .. n
      BY <2>3
    <3>2. a = s[i][1]
      BY <2>1, <3>1
    <3>3. QED
      BY <3>1, <3>2 DEF Nodes
  <2>4. QED
    BY <2>2, <2>3
<1>2. ASSUME NEW a \in Nodes(s) PROVE a \in Nodes(t)
  <2>1. PICK i \in 1 .. n : a = s[i][1]
    BY DEF Nodes
  <2>2. i \in 1 .. n + 1 /\ a = t[i][1]
    BY <2>1
  <2>3. QED
    BY <2>2 DEF Nodes
<1>3. node \in Nodes(t)
  <2>1. n + 1 \in 1 .. n + 1
    OBVIOUS
  <2>2. QED
    BY <2>1 DEF Nodes
<1>4. QED
  BY <1>1, <1>2, <1>3

(* A stack has the nodes of one with the same nodes at the same places.     *)
Alike(n, s, t) ==
  /\ DOMAIN s = 1 .. n /\ DOMAIN t = 1 .. n
  /\ \A i \in 1 .. n : t[i][1] = s[i][1]

LEMMA NodesAlike ==
  ASSUME NEW n \in Nat, NEW s, NEW t, Alike(n, s, t)
  PROVE  Nodes(t) = Nodes(s)
<1> USE DEF Alike
<1>1. ASSUME NEW a \in Nodes(t) PROVE a \in Nodes(s)
  <2>1. PICK i \in 1 .. n : a = t[i][1]
    BY DEF Nodes
  <2>2. a = s[i][1]
    BY <2>1
  <2>3. QED
    BY <2>2 DEF Nodes
<1>2. ASSUME NEW a \in Nodes(s) PROVE a \in Nodes(t)
  <2>1. PICK i \in 1 .. n : a = s[i][1]
    BY DEF Nodes
  <2>2. a = t[i][1]
    BY <2>1
  <2>3. QED
    BY <2>2 DEF Nodes
<1>3. QED
  BY <1>1, <1>2

(* The stack after a step of Follow: the top has advanced, and a child that *)
(* was not met is above it.                                                 *)
Advanced(s, h, child, new, t) ==
  /\ DOMAIN t = IF new THEN 1 .. h + 1 ELSE 1 .. h
  /\ \A i \in 1 .. h : t[i][1] = s[i][1]
  /\ \A i \in 1 .. h - 1 : t[i][2] = s[i][2]
  /\ t[h][2] = s[h][2] + 1
  /\ new => t[h + 1][1] = child /\ t[h + 1][2] = 1

LEMMA WalkFollows ==
  ASSUME NEW E, NEW R, PathsOf(E, R), NEW vis, NEW s, NEW ord, WalkOf(E, R, vis, s, ord),
         NEW h \in Nat \ {0}, DOMAIN s = 1 .. h, s[h][2] \in DOMAIN E[s[h][1]],
         NEW child, child = E[s[h][1]][s[h][2]],
         NEW t \in Seq(Rule \X (Nat \ {0})), Advanced(s, h, child, child \notin vis, t)
  PROVE  WalkOf(E, R, vis \cup {child}, t, ord)
<1>1. s \in Seq(Rule \X (Nat \ {0})) /\ vis \in SUBSET Rule /\ ord \in Seq(Rule)
  BY DEF WalkOf, WalkTypes
<1>2. \A i \in 1 .. h : s[i][1] \in Rule /\ s[i][2] \in Nat /\ s[i][2] # 0
  <2>1. \A i \in 1 .. h : s[i] \in Rule \X (Nat \ {0})
    BY <1>1
  <2>2. QED
    BY <2>1
<1>3. PICK x : x = s[h][1]
  OBVIOUS
<1>4. h \in 1 .. h /\ x \in Rule /\ E[x] \in Seq(Rule) /\ child \in Elements(E[x]) /\ child \in Rule
  <2>1. h \in 1 .. h
    OBVIOUS
  <2>2. x \in Rule
    BY <1>2, <1>3, <2>1
  <2>3. E[x] \in Seq(Rule)
    BY <2>2 DEF PathsOf
  <2>4. QED
    BY <1>3, <2>1, <2>2, <2>3 DEF Elements
<1>5. WalkTypes(vis \cup {child}, t, ord)
  BY <1>1, <1>4 DEF WalkTypes
<1>6. child \in R[x] /\ \A n \in Rule : x \in R[n] => child \in R[n]
  BY <1>4 DEF PathsOf
<1>7. \A i, j \in 1 .. h : i < j => s[i][1] # s[j][1] /\ s[j][1] \in R[s[i][1]]
  BY DEF WalkOf, OnWay
<1>8. \A i \in 1 .. h : x \in R[s[i][1]]
  <2>1. ASSUME NEW i \in 1 .. h PROVE x \in R[s[i][1]]
    <3>1. CASE i = h
      BY <1>3, <1>4, <3>1 DEF PathsOf
    <3>2. CASE i # h
      <4>1. i < h
        BY <3>2
      <4>2. QED
        BY <1>3, <1>4, <1>7, <4>1
    <3>3. QED
      BY <3>1, <3>2
  <2>2. QED
    BY <2>1
<1>9. Nodes(s) = {s[i][1] : i \in 1 .. h}
  BY DEF Nodes
<1>10. Nodes(t) = IF child \in vis THEN Nodes(s) ELSE Nodes(s) \cup {child}
  <2>1. CASE child \in vis
    <3>1. DOMAIN t = 1 .. h /\ \A i \in 1 .. h : t[i][1] = s[i][1]
      BY <2>1 DEF Advanced
    <3>2. h \in Nat /\ Alike(h, s, t)
      BY <3>1 DEF Alike
    <3>3. Nodes(t) = Nodes(s)
      BY ONLY <3>2, NodesAlike
    <3>4. QED
      BY <2>1, <3>3
  <2>2. CASE child \notin vis
    <3>1. DOMAIN t = 1 .. h + 1 /\ t[h + 1][1] = child /\ \A i \in 1 .. h : t[i][1] = s[i][1]
      BY <2>2 DEF Advanced
    <3>2. h \in Nat /\ Above(h, s, t, child)
      BY <3>1 DEF Above
    <3>3. Nodes(t) = Nodes(s) \cup {child}
      BY ONLY <3>2, NodesAbove
    <3>4. QED
      BY <2>2, <3>3
  <2>3. QED
    BY <2>1, <2>2
<1>11. OnWay(R, t)
  <2> SUFFICES ASSUME NEW i \in DOMAIN t, NEW j \in DOMAIN t, i < j
               PROVE  t[i][1] # t[j][1] /\ t[j][1] \in R[t[i][1]]
    BY DEF OnWay
  <2>1. \A k \in 1 .. h : t[k][1] = s[k][1]
    BY DEF Advanced
  <2>2. CASE j \in 1 .. h
    <3>1. i \in 1 .. h
      <4>1. i \in Nat /\ i >= 1
        <5>1. DOMAIN t = 1 .. h + 1 \/ DOMAIN t = 1 .. h
          BY DEF Advanced
        <5>2. QED
          BY <5>1
      <4>2. QED
        BY <2>2, <4>1
    <3>2. QED
      BY <1>7, <2>1, <2>2, <3>1
  <2>3. CASE j \notin 1 .. h
    <3>1. child \notin vis /\ DOMAIN t = 1 .. h + 1 /\ t[h + 1][1] = child
      BY <2>3 DEF Advanced
    <3>2. j = h + 1 /\ i \in 1 .. h
      BY <2>3, <3>1
    <3>3. s[i][1] \in vis
      BY <1>9, <3>2 DEF WalkOf, Met
    <3>4. QED
      BY <1>2, <1>6, <1>8, <2>1, <3>1, <3>2, <3>3
  <2>4. QED
    BY <2>2, <2>3
<1>12. Met(E, vis \cup {child}, t, ord)
  <2>1. /\ vis = Elements(ord) \cup Nodes(s) /\ Elements(ord) \cap Nodes(s) = {}
        /\ Distinct(ord)
        /\ \A n \in Elements(ord) : Elements(E[n]) \subseteq vis
        /\ \A i \in 1 .. h : \A k \in DOMAIN E[s[i][1]] : k < s[i][2] => E[s[i][1]][k] \in vis
    BY DEF WalkOf, Met
  <2>2. vis \cup {child} = Elements(ord) \cup Nodes(t) /\ Elements(ord) \cap Nodes(t) = {}
    BY <1>10, <2>1
  <2>3. ASSUME NEW i \in DOMAIN t, NEW k \in DOMAIN E[t[i][1]], k < t[i][2]
        PROVE  E[t[i][1]][k] \in vis \cup {child}
    <3>1. CASE i \in 1 .. h
      <4>1. t[i][1] = s[i][1]
        BY <3>1 DEF Advanced
      <4>2. k \in DOMAIN E[s[i][1]] /\ k \in Nat
        <5>1. E[s[i][1]] \in Seq(Rule)
          BY <1>2, <3>1 DEF PathsOf
        <5>2. QED
          BY <2>3, <4>1, <5>1
      <4>3. CASE i # h
        <5>1. i \in 1 .. h - 1
          BY <3>1, <4>3
        <5>2. t[i][2] = s[i][2]
          BY <5>1 DEF Advanced
        <5>3. QED
          BY <2>1, <2>3, <3>1, <4>1, <4>2, <5>2
      <4>4. CASE i = h
        <5>1. t[i][2] = s[h][2] + 1 /\ s[h][2] \in Nat
          BY <1>2, <1>4, <4>4 DEF Advanced
        <5>2. E[t[i][1]][k] = E[s[h][1]][k] /\ k \in DOMAIN E[s[h][1]]
          BY <4>1, <4>2, <4>4
        <5>3. CASE k = s[h][2]
          BY ONLY <5>2, <5>3, child = E[s[h][1]][s[h][2]]
        <5>4. CASE k # s[h][2]
          <6>1. k < t[i][2]
            BY <2>3
          <6>2. k < s[h][2]
            BY ONLY <4>2, <5>1, <5>4, <6>1
          <6>3. E[s[h][1]][k] \in vis
            BY <1>4, <2>1, <5>2, <6>2
          <6>4. QED
            BY <5>2, <6>3
        <5>5. QED
          BY <5>3, <5>4
      <4>5. QED
        BY <4>3, <4>4
    <3>2. CASE i \notin 1 .. h
      <4>1. i = h + 1 /\ t[i][2] = 1 /\ t[i][1] = child
        <5>1. child \notin vis /\ DOMAIN t = 1 .. h + 1
          BY <3>2 DEF Advanced
        <5>2. t[h + 1][1] = child /\ t[h + 1][2] = 1
          BY <5>1 DEF Advanced
        <5>3. i = h + 1
          BY <3>2, <5>1
        <5>4. QED
          BY <5>2, <5>3
      <4>2. E[child] \in Seq(Rule)
        <5>1. \A n \in Rule : E[n] \in Seq(Rule)
          BY DEF PathsOf
        <5>2. QED
          BY <1>4, <5>1
      <4>3. k \in DOMAIN E[child] /\ k < 1
        <5>1. k \in DOMAIN E[t[i][1]] /\ k < t[i][2]
          BY <2>3
        <5>2. QED
          BY ONLY <4>1, <5>1
      <4>4. k \in Nat /\ k >= 1
        <5>1. PICK l : l = E[child]
          OBVIOUS
        <5>2. l \in Seq(Rule) /\ k \in DOMAIN l
          BY <4>2, <4>3, <5>1
        <5>3. k \in 1 .. Len(l) /\ Len(l) \in Nat
          BY ONLY <5>2, LenProperties
        <5>4. QED
          BY ONLY <5>3
      <4>5. QED
        BY ONLY <4>3, <4>4
    <3>3. QED
      BY <3>1, <3>2
  <2>4. QED
    BY <2>1, <2>2, <2>3 DEF Met
<1>13. Finishing(R, t, ord)
  <2>1. Nodes(s) \subseteq Nodes(t)
    BY <1>10
  <2>2. QED
    BY <2>1 DEF WalkOf, Finishing
<1>14. QED
  BY <1>5, <1>11, <1>12, <1>13 DEF WalkOf

(* A node leaves the stack: either a node below is in a circle with it, or  *)
(* everything it leads to has finished.                                     *)
LEMMA WalkLeaves ==
  ASSUME NEW E, NEW R, PathsOf(E, R), NEW vis, NEW s, NEW ord, WalkOf(E, R, vis, s, ord),
         NEW h \in Nat \ {0}, DOMAIN s = 1 .. h,
         \A k \in DOMAIN E[s[h][1]] : k < s[h][2],
         NEW t \in Seq(Rule \X (Nat \ {0})), DOMAIN t = 1 .. h - 1,
         \A i \in 1 .. h - 1 : t[i] = s[i]
  PROVE  WalkOf(E, R, vis, t, Append(ord, s[h][1]))
<1>1. s \in Seq(Rule \X (Nat \ {0})) /\ vis \in SUBSET Rule /\ ord \in Seq(Rule)
  BY DEF WalkOf, WalkTypes
<1>2. \A i \in 1 .. h : s[i][1] \in Rule
  <2>1. \A i \in 1 .. h : s[i] \in Rule \X (Nat \ {0})
    BY <1>1
  <2>2. QED
    BY <2>1
<1>3. PICK x \in Rule : x = s[h][1] /\ h \in 1 .. h
  BY <1>2
<1>4. PICK l \in Nat : DOMAIN ord = 1 .. l /\ Len(ord) = l
  BY <1>1
<1>5. PICK u : u = Append(ord, x)
  OBVIOUS
<1>6. u \in Seq(Rule) /\ DOMAIN u = 1 .. l + 1 /\ u[l + 1] = x /\ \A i \in 1 .. l : u[i] = ord[i]
  BY <1>1, <1>4, <1>5
<1>7. /\ vis = Elements(ord) \cup Nodes(s) /\ Elements(ord) \cap Nodes(s) = {}
      /\ Distinct(ord)
      /\ \A n \in Elements(ord) : Elements(E[n]) \subseteq vis
      /\ \A i \in 1 .. h : \A k \in DOMAIN E[s[i][1]] : k < s[i][2] => E[s[i][1]][k] \in vis
  BY DEF WalkOf, Met
<1>8. Nodes(s) = Nodes(t) \cup {x} /\ x \notin Nodes(t) /\ \A a \in Nodes(t) : x \in R[a]
  <2>1. h - 1 \in Nat /\ (h - 1) + 1 = h
    OBVIOUS
  <2>2. Nodes(s) = Nodes(t) \cup {x}
    <3>1. Above(h - 1, t, s, x)
      BY <1>3, <2>1 DEF Above
    <3>2. QED
      BY <2>1, <3>1, NodesAbove
  <2>3. \A i \in 1 .. h - 1 : i < h /\ i \in 1 .. h
    OBVIOUS
  <2>4. \A i \in 1 .. h - 1 : t[i][1] # x /\ x \in R[t[i][1]]
    BY <1>3, <2>3 DEF WalkOf, OnWay
  <2>5. QED
    BY <2>2, <2>4 DEF Nodes
<1>9. x \notin Elements(ord) /\ Elements(u) = Elements(ord) \cup {x} /\ Distinct(u)
  <2>1. x \notin Elements(ord)
    BY <1>7, <1>8
  <2>2. QED
    BY <1>1, <1>5, <1>7, <2>1, AppendElements
<1>10. WalkTypes(vis, t, u)
  BY <1>1, <1>6 DEF WalkTypes
<1>11. OnWay(R, t)
  <2>1. \A i \in 1 .. h - 1 : i \in 1 .. h
    OBVIOUS
  <2>2. QED
    BY <2>1 DEF WalkOf, OnWay
<1>12. Elements(E[x]) \subseteq vis
  BY <1>3, <1>7 DEF Elements
<1>13. Met(E, vis, t, u)
  <2>1. vis = Elements(u) \cup Nodes(t) /\ Elements(u) \cap Nodes(t) = {}
    BY <1>7, <1>8, <1>9
  <2>2. \A n \in Elements(u) : Elements(E[n]) \subseteq vis
    BY <1>7, <1>9, <1>12
  <2>3. \A i \in DOMAIN t : \A k \in DOMAIN E[t[i][1]] : k < t[i][2] => E[t[i][1]][k] \in vis
    <3>1. \A i \in 1 .. h - 1 : i \in 1 .. h
      OBVIOUS
    <3>2. QED
      BY <1>7, <3>1
  <2>4. QED
    BY <1>9, <2>1, <2>2, <2>3 DEF Met
<1>14. ASSUME ~ \E a \in Nodes(t) : Both(R, a, x)
       PROVE  R[x] \subseteq Elements(u)
  <2> DEFINE S == R[x] \cap Elements(u)
  <2>1. S \in SUBSET Rule /\ x \in S
    BY <1>9 DEF PathsOf
  <2>2. ASSUME NEW y \in S PROVE Elements(E[y]) \subseteq S
    <3> SUFFICES ASSUME NEW z \in Elements(E[y]) PROVE z \in S
      OBVIOUS
    <3>1. z \in R[x]
      BY DEF PathsOf
    <3>2. z \in vis
      BY <1>7, <1>9, <1>12
    <3>3. z \notin Nodes(t)
      BY <1>8, <1>14, <3>1 DEF Both
    <3>4. QED
      BY <1>7, <1>8, <1>9, <3>1, <3>2, <3>3
  <2>3. R[x] \subseteq S
    <3> HIDE DEF S
    <3>1. QED
      BY <2>1, <2>2 DEF PathsOf
  <2>4. QED
    BY <2>3
<1>15. Finishing(R, t, u)
  <2> SUFFICES ASSUME NEW i \in 1 .. l + 1
               PROVE  \/ \E a \in Nodes(t) : Both(R, a, u[i])
                      \/ \E j \in 1 .. l + 1 : j > i /\ Both(R, u[j], u[i])
                      \/ R[u[i]] \subseteq {u[j] : j \in 1 .. i}
    BY <1>6 DEF Finishing
  <2>1. CASE i = l + 1
    <3>1. u[i] = x /\ Elements(u) = {u[j] : j \in 1 .. i}
      BY <1>6, <2>1 DEF Elements
    <3>2. QED
      BY <1>14, <3>1
  <2>2. CASE i # l + 1
    <3>0. i \in 1 .. l
      BY <2>2
    <3>1. i \in 1 .. l /\ u[i] = ord[i]
      BY <1>6, <3>0
    <3>2. \/ \E a \in Nodes(s) : Both(R, a, ord[i])
          \/ \E j \in 1 .. l : j > i /\ Both(R, ord[j], ord[i])
          \/ R[ord[i]] \subseteq {ord[j] : j \in 1 .. i}
      BY <1>4, <3>1 DEF WalkOf, Finishing
    <3>3. ASSUME NEW a \in Nodes(s), Both(R, a, ord[i])
          PROVE  \/ \E b \in Nodes(t) : Both(R, b, u[i])
                 \/ \E j \in 1 .. l + 1 : j > i /\ Both(R, u[j], u[i])
      <4>1. CASE a = x
        <5>1. l + 1 \in 1 .. l + 1 /\ l + 1 > i
          BY <3>1
        <5>2. QED
          BY <1>6, <3>1, <3>3, <4>1, <5>1
      <4>2. CASE a # x
        BY <1>8, <3>1, <3>3, <4>2
      <4>3. QED
        BY <4>1, <4>2
    <3>4. ASSUME NEW j \in 1 .. l, j > i, Both(R, ord[j], ord[i])
          PROVE  \E k \in 1 .. l + 1 : k > i /\ Both(R, u[k], u[i])
      <4>1. j \in 1 .. l + 1 /\ u[j] = ord[j]
        BY <1>6
      <4>2. QED
        BY <3>1, <3>4, <4>1
    <3>5. {ord[j] : j \in 1 .. i} = {u[j] : j \in 1 .. i}
      <4>1. \A j \in 1 .. i : u[j] = ord[j]
        BY <1>6, <3>1
      <4>2. QED
        BY <4>1
    <3>6. QED
      BY <3>1, <3>2, <3>3, <3>4, <3>5
  <2>3. QED
    BY <2>1, <2>2
<1>16. QED
  BY <1>3, <1>5, <1>10, <1>11, <1>13, <1>15 DEF WalkOf

-----------------------------------------------------------------------------
(* Why a sweep never leaves its component.                                  *)

LEMMA HighestOf ==
  ASSUME NEW n \in Nat, NEW S, S \subseteq 1 .. n, S # {}
  PROVE  \E i \in S : \A j \in S : j <= i
<1> DEFINE T == {k \in 0 .. n : (\A j \in S : j > k) \/ \E i \in S : \A j \in S : j <= k => j <= i}
<1>1. 0 \in T
  OBVIOUS
<1>2. ASSUME NEW k \in 0 .. n, k \in T, k < n PROVE k + 1 \in T
  <2>1. CASE k + 1 \in S
    <3>1. \A j \in S : j <= k + 1 => j <= k + 1
      OBVIOUS
    <3>2. QED
      BY <1>2, <2>1, <3>1
  <2>2. CASE k + 1 \notin S
    <3>1. \A j \in S : j <= k + 1 <=> j <= k
      <4>1. \A j \in S : j \in Nat /\ j # k + 1
        BY <2>2
      <4>2. QED
        BY <1>2, <4>1
    <3>2. \A j \in S : j > k + 1 <=> j > k
      <4>1. \A j \in S : j \in Nat /\ j # k + 1
        BY <2>2
      <4>2. QED
        BY <1>2, <4>1
    <3>3. QED
      BY <1>2, <3>1, <3>2
  <2>3. QED
    BY <2>1, <2>2
<1>3. \A k \in 0 .. n : k \in T
  <2> HIDE DEF T
  <2>1. QED
    BY <1>1, <1>2, StepByStep
<1>4. n \in 0 .. n /\ \A j \in S : j <= n
  OBVIOUS
<1>5. n \in T
  BY <1>3, <1>4
<1>6. PICK k \in S : TRUE
  OBVIOUS
<1>7. ~ \A j \in S : j > n
  BY <1>4, <1>6
<1>8. QED
  BY <1>4, <1>5, <1>7

(* When the first pass is over, a component that leads to another one       *)
(* finishes after it.                                                       *)
LEMMA FinishesAfter ==
  ASSUME NEW E, NEW R, PathsOf(E, R), NEW ord, WalkOf(E, R, Rule, <<>>, ord),
         NEW n \in Rule, NEW m \in R[n], n \notin R[m]
  PROVE  \E i \in DOMAIN ord : /\ Both(R, ord[i], n)
                               /\ \A j \in i .. Len(ord) : ~ Both(R, ord[j], m)
<1>1. Nodes(<<>>) = {}
  BY DEF Nodes
<1>2. ord \in Seq(Rule) /\ Elements(ord) = Rule /\ Distinct(ord)
  BY <1>1 DEF WalkOf, WalkTypes, Met
<1>3. PICK l \in Nat : DOMAIN ord = 1 .. l /\ Len(ord) = l
  BY <1>2
<1> DEFINE S == {i \in 1 .. l : Both(R, ord[i], n)}
<1>4. S # {}
  <2>1. PICK i \in 1 .. l : ord[i] = n
    BY <1>2, <1>3 DEF Elements
  <2>2. QED
    BY <2>1, BothIs
<1>5. PICK i \in S : \A j \in S : j <= i
  <2> HIDE DEF S
  <2>1. S \subseteq 1 .. l
    BY DEF S
  <2>2. QED
    BY <1>4, <2>1, HighestOf
<1>6. i \in 1 .. l /\ Both(R, ord[i], n) /\ ord[i] \in Rule /\ m \in Rule
  BY <1>2, <1>3 DEF PathsOf
<1>7. R[ord[i]] \subseteq {ord[j] : j \in 1 .. i}
  <2>1. ASSUME NEW j \in 1 .. l, j > i, Both(R, ord[j], ord[i]) PROVE FALSE
    <3>1. ord[j] \in Rule
      BY <1>2, <1>3
    <3>2. Both(R, ord[j], n)
      BY <1>6, <2>1, <3>1, BothIs
    <3>3. j <= i
      BY <1>5, <3>2
    <3>4. QED
      BY <1>6, <2>1, <3>3
  <2>2. QED
    BY <1>1, <1>3, <1>6, <2>1 DEF WalkOf, Finishing
<1>8. ASSUME NEW j \in i .. l, Both(R, ord[j], m) PROVE FALSE
  <2>1. j \in 1 .. l /\ ord[j] \in Rule
    <3>1. j \in 1 .. l
      BY <1>6
    <3>2. QED
      BY <1>2, <1>3, <3>1
  <2>2. ord[j] \in R[m] /\ m \in R[ord[j]] /\ m \in R[n] /\ n \in R[ord[i]] /\ ord[i] \in R[n]
    BY <1>6, <1>8 DEF Both
  <2>3. ord[j] \in R[ord[i]]
    BY <1>6, <2>2 DEF PathsOf
  <2>4. PICK k \in 1 .. i : ord[j] = ord[k]
    BY <1>7, <2>3
  <2>5. k \in 1 .. l
    BY <1>6
  <2>6. j = k
    BY <1>2, <1>3, <2>1, <2>4, <2>5 DEF Distinct
  <2>7. j = i
    BY <1>6, <2>6
  <2>8. n \in R[m]
    BY <1>6, <2>1, <2>2, <2>7 DEF PathsOf
  <2>9. QED
    BY <2>8
<1>9. QED
  BY <1>3, <1>6, <1>8

(* The second pass.  A node that was swept has its parents in components    *)
(* that are no later.                                                       *)
ParentsKnown(E, comp, sw) ==
  \A n \in Rule : comp[n] # 0 /\ n \notin Elements(sw) =>
    \A p \in Rule : n \in Elements(E[p]) => comp[p] # 0 /\ comp[p] <= comp[n]

(* The component that is being swept is the one of a node after which only  *)
(* nodes of earlier components finished.                                    *)
RootOf(R, ord, comp, c) ==
  \E r \in DOMAIN ord :
    /\ comp[ord[r]] = c
    /\ \A n \in Rule : comp[n] = c => Both(R, n, ord[r])
    /\ \A j \in DOMAIN ord : j > r => comp[ord[j]] # 0 /\ comp[ord[j]] < c

SweepOf(E, R, ord, comp, next, sw) ==
  /\ comp \in [Rule -> Nat] /\ next \in Nat \ {0} /\ sw \in Seq(Rule)
  /\ \A n \in Rule : comp[n] < next
  /\ ParentsKnown(E, comp, sw)
  /\ \A n \in Elements(sw) : comp[n] = next - 1 /\ comp[n] # 0
  /\ next > 1 => RootOf(R, ord, comp, next - 1)
  /\ \A n, m \in Rule : comp[n] # 0 /\ comp[n] = comp[m] => Both(R, n, m)

LEMMA SweepStarts ==
  ASSUME NEW E, NEW R, NEW ord
  PROVE  SweepOf(E, R, ord, [n \in Rule |-> 0], 1, <<>>)
<1>1. Elements(<<>>) = {}
  BY DEF Elements
<1>2. <<>> \in Seq(Rule)
  OBVIOUS
<1>3. QED
  BY <1>1, <1>2 DEF SweepOf, ParentsKnown

LEMMA SweepResumes ==
  ASSUME NEW E, NEW R, PathsOf(E, R), NEW ord \in Seq(Rule), NEW comp, NEW next,
         SweepOf(E, R, ord, comp, next, <<>>),
         NEW r \in DOMAIN ord, comp[ord[r]] = 0, \A j \in DOMAIN ord : j > r => comp[ord[j]] # 0
  PROVE  SweepOf(E, R, ord, [comp EXCEPT ![ord[r]] = next], next + 1, <<ord[r]>>)
<1>1. /\ comp \in [Rule -> Nat] /\ next \in Nat \ {0}
      /\ \A n \in Rule : comp[n] < next
      /\ \A n, m \in Rule : comp[n] # 0 /\ comp[n] = comp[m] => Both(R, n, m)
  BY DEF SweepOf
<1>2. PICK x \in Rule : x = ord[r]
  OBVIOUS
<1>3. PICK c : c = [comp EXCEPT ![x] = next]
  OBVIOUS
<1>4. c \in [Rule -> Nat] /\ c[x] = next /\ \A n \in Rule : n # x => c[n] = comp[n]
  BY <1>1, <1>3
<1>5. Elements(<<x>>) = {x} /\ <<x>> \in Seq(Rule) /\ Elements(<<>>) = {}
  BY DEF Elements
<1>6. ASSUME NEW n \in Rule PROVE c[n] < next + 1
  <2>1. comp[n] \in Nat /\ next \in Nat /\ comp[n] < next
    BY <1>1
  <2>2. c[n] = next \/ c[n] = comp[n]
    BY <1>4
  <2>3. QED
    BY <2>1, <2>2
<1>7. ParentsKnown(E, c, <<x>>)
  <2> SUFFICES ASSUME NEW n \in Rule, c[n] # 0, n # x, NEW p \in Rule, n \in Elements(E[p])
               PROVE  c[p] # 0 /\ c[p] <= c[n]
    BY <1>5 DEF ParentsKnown
  <2>1. comp[n] # 0
    BY <1>4
  <2>2. comp[p] # 0 /\ comp[p] <= comp[n]
    BY <1>5, <2>1 DEF SweepOf, ParentsKnown
  <2>3. p # x
    BY <1>2, <2>2
  <2>4. QED
    BY <1>4, <2>2, <2>3
<1>8. \A n \in Elements(<<x>>) : c[n] = (next + 1) - 1 /\ c[n] # 0
  BY <1>1, <1>4, <1>5
<1>9. \A n \in Rule : c[n] = next => n = x
  BY <1>1, <1>4
<1>10. RootOf(R, ord, c, (next + 1) - 1)
  <2>1. (next + 1) - 1 = next
    BY <1>1
  <2>2. \A n \in Rule : c[n] = next => Both(R, n, ord[r])
    BY <1>2, <1>9, BothIs
  <2>3. ASSUME NEW j \in DOMAIN ord, j > r PROVE c[ord[j]] # 0 /\ c[ord[j]] < next
    <3>1. comp[ord[j]] # 0 /\ ord[j] \in Rule
      BY <2>3
    <3>2. ord[j] # x
      BY <1>2, <3>1
    <3>3. QED
      BY <1>1, <1>4, <3>1, <3>2
  <2>4. QED
    BY <1>2, <1>4, <2>1, <2>2, <2>3 DEF RootOf
<1>11. \A n, m \in Rule : c[n] # 0 /\ c[n] = c[m] => Both(R, n, m)
  <2> SUFFICES ASSUME NEW n \in Rule, NEW m \in Rule, c[n] # 0, c[n] = c[m]
               PROVE  Both(R, n, m)
    OBVIOUS
  <2>1. CASE n = x \/ m = x
    <3>1. n = x /\ m = x
      BY <1>4, <1>9, <2>1
    <3>2. QED
      BY <3>1, BothIs
  <2>2. CASE n # x /\ m # x
    BY <1>1, <1>4, <2>2
  <2>3. QED
    BY <2>1, <2>2
<1>12. next + 1 \in Nat \ {0}
  BY <1>1
<1>13. SweepOf(E, R, ord, c, next + 1, <<x>>)
  BY <1>4, <1>5, <1>6, <1>7, <1>8, <1>10, <1>11, <1>12 DEF SweepOf
<1>14. QED
  BY <1>2, <1>3, <1>13

FinishOrderOf(R, ord) ==
  \A n \in Rule : \A m \in R[n] : n \notin R[m] =>
    \E i \in DOMAIN ord : Both(R, ord[i], n) /\ \A j \in i .. Len(ord) : ~ Both(R, ord[j], m)

(* An unassigned parent of a node of the component that is being swept is   *)
(* in a circle with its root: otherwise its own component would have        *)
(* finished later, and been swept before.                                   *)
LEMMA ParentIsMutual ==
  ASSUME NEW E, NEW R, PathsOf(E, R), NEW ord \in Seq(Rule), FinishOrderOf(R, ord),
         NEW comp, NEW next, NEW sw, SweepOf(E, R, ord, comp, next, sw), next > 1,
         NEW r \in DOMAIN ord, comp[ord[r]] = next - 1,
         \A j \in DOMAIN ord : j > r => comp[ord[j]] # 0 /\ comp[ord[j]] < next - 1,
         NEW p \in Rule, comp[p] = 0, ord[r] \in R[p]
  PROVE  Both(R, p, ord[r])
<1> SUFFICES ASSUME p \notin R[ord[r]] PROVE FALSE
  BY DEF Both
<1>1. PICK i \in DOMAIN ord : Both(R, ord[i], p) /\ \A j \in i .. Len(ord) : ~ Both(R, ord[j], ord[r])
  BY DEF FinishOrderOf
<1>2. PICK l \in Nat : DOMAIN ord = 1 .. l /\ Len(ord) = l
  OBVIOUS
<1>3. ord[i] \in Rule /\ ord[r] \in Rule /\ i \in Nat /\ r \in Nat
  BY <1>2
<1>4. i > r
  <2>1. Both(R, ord[r], ord[r])
    BY <1>3, BothIs
  <2>2. r \notin i .. l
    BY <1>1, <1>2, <2>1
  <2>3. QED
    BY <1>2, <2>2
<1> DEFINE Late == {n \in Rule : comp[n] = 0 \/ comp[n] >= next - 1}
<1>5. comp \in [Rule -> Nat] /\ next \in Nat
  BY DEF SweepOf
<1>6. ord[i] \notin Late
  BY <1>3, <1>4, <1>5
<1>7. ASSUME NEW x \in Late PROVE Elements(E[x]) \subseteq Late
  <2> SUFFICES ASSUME NEW y \in Elements(E[x]), y \notin Late PROVE FALSE
    OBVIOUS
  <2>1. y \in Rule
    BY DEF PathsOf, Elements
  <2>2. comp[y] # 0 /\ comp[y] < next - 1
    BY <1>5, <2>1
  <2>3. y \notin Elements(sw)
    BY <1>5, <2>2 DEF SweepOf
  <2>4. comp[x] # 0 /\ comp[x] <= comp[y]
    BY <2>1, <2>2, <2>3 DEF SweepOf, ParentsKnown
  <2>5. QED
    BY <1>5, <2>1, <2>2, <2>4
<1>8. R[p] \subseteq Late
  <2>1. p \in Late /\ Late \in SUBSET Rule
    OBVIOUS
  <2> HIDE DEF Late
  <2>2. QED
    BY <1>7, <2>1 DEF PathsOf
<1>9. QED
  BY <1>1, <1>6, <1>8 DEF Both

NewParents(E, comp, node) == {p \in Rule : node \in Elements(E[p]) /\ comp[p] = 0}
Spread(comp, new, node)   == [n \in Rule |-> IF n \in new THEN comp[node] ELSE comp[n]]

LEMMA SweepSpreads ==
  ASSUME NEW E, NEW R, PathsOf(E, R), NEW ord \in Seq(Rule), FinishOrderOf(R, ord),
         NEW comp, NEW next, NEW sw, SweepOf(E, R, ord, comp, next, sw),
         NEW node \in Elements(sw), NEW new, new = NewParents(E, comp, node),
         NEW sw2 \in Seq(Rule), new \subseteq Elements(sw2), Elements(sw2) \subseteq Elements(sw) \cup new,
         \A n \in Elements(sw) : n # node => n \in Elements(sw2)
  PROVE  SweepOf(E, R, ord, Spread(comp, new, node), next, sw2)
<1>1. /\ comp \in [Rule -> Nat] /\ next \in Nat \ {0} /\ sw \in Seq(Rule)
      /\ \A n \in Rule : comp[n] < next
      /\ \A n \in Elements(sw) : comp[n] = next - 1 /\ comp[n] # 0
      /\ \A n, m \in Rule : comp[n] # 0 /\ comp[n] = comp[m] => Both(R, n, m)
  BY DEF SweepOf
<1>2. node \in Rule /\ comp[node] = next - 1 /\ next > 1
  <2>1. node \in Rule
    BY <1>1 DEF Elements
  <2>2. QED
    BY <1>1, <2>1
<1>3. PICK c : c = Spread(comp, new, node)
  OBVIOUS
<1>4. /\ c \in [Rule -> Nat]
      /\ \A n \in new : n \in Rule /\ c[n] = next - 1 /\ comp[n] = 0
      /\ \A n \in Rule : n \notin new => c[n] = comp[n]
  BY <1>1, <1>2, <1>3 DEF Spread, NewParents
<1>5. PICK r \in DOMAIN ord :
        /\ comp[ord[r]] = next - 1
        /\ \A n \in Rule : comp[n] = next - 1 => Both(R, n, ord[r])
        /\ \A j \in DOMAIN ord : j > r => comp[ord[j]] # 0 /\ comp[ord[j]] < next - 1
  BY <1>2 DEF SweepOf, RootOf
<1>6. ord[r] \in Rule
  OBVIOUS
<1>7. ASSUME NEW p \in new PROVE Both(R, p, ord[r])
  <2>1. p \in Rule /\ comp[p] = 0 /\ node \in Elements(E[p])
    BY DEF NewParents
  <2>2. node \in R[p]
    BY <2>1 DEF PathsOf
  <2>3. ord[r] \in R[node]
    BY <1>2, <1>5 DEF Both
  <2>4. ord[r] \in R[p]
    BY <2>1, <2>2, <2>3 DEF PathsOf
  <2>5. QED
    BY <1>2, <1>5, <2>1, <2>4, ParentIsMutual
<1>8. ASSUME NEW n \in Rule PROVE c[n] < next
  <2>1. comp[n] \in Nat /\ next \in Nat /\ comp[n] < next
    BY <1>1
  <2>2. c[n] = next - 1 \/ c[n] = comp[n]
    BY <1>4
  <2>3. QED
    BY <2>1, <2>2
<1>9. ParentsKnown(E, c, sw2)
  <2> SUFFICES ASSUME NEW n \in Rule, c[n] # 0, n \notin Elements(sw2), NEW p \in Rule, n \in Elements(E[p])
               PROVE  c[p] # 0 /\ c[p] <= c[n]
    BY DEF ParentsKnown
  <2>1. n \notin new /\ c[n] = comp[n]
    BY <1>4
  <2>2. CASE n = node
    <3>1. CASE p \in new
      BY <1>1, <1>2, <1>4, <2>1, <2>2, <3>1
    <3>2. CASE p \notin new
      <4>1. comp[p] # 0 /\ c[p] = comp[p] /\ comp[p] < next
        BY <1>1, <1>4, <2>2, <3>2 DEF NewParents
      <4>2. c[n] = next - 1
        BY <1>2, <2>1, <2>2
      <4>3. comp[p] \in Nat
        BY <1>1
      <4>4. QED
        BY <1>1, <4>1, <4>2, <4>3
    <3>3. QED
      BY <3>1, <3>2
  <2>3. CASE n # node
    <3>1. n \notin Elements(sw)
      BY <2>3
    <3>2. comp[p] # 0 /\ comp[p] <= comp[n]
      BY <2>1, <3>1 DEF SweepOf, ParentsKnown
    <3>3. p \notin new
      BY <3>2 DEF NewParents
    <3>4. QED
      BY <1>4, <2>1, <3>2, <3>3
  <2>4. QED
    BY <2>2, <2>3
<1>10. \A n \in Elements(sw2) : c[n] = next - 1 /\ c[n] # 0
  <2> SUFFICES ASSUME NEW n \in Elements(sw2) PROVE c[n] = next - 1
    BY <1>1, <1>2
  <2>1. CASE n \in new
    BY <1>4, <2>1
  <2>2. CASE n \notin new
    <3>1. n \in Elements(sw)
      BY <2>2
    <3>2. n \in Rule
      BY <1>1, <3>1 DEF Elements
    <3>3. QED
      BY <1>1, <1>4, <2>2, <3>1, <3>2
  <2>3. QED
    BY <2>1, <2>2
<1>11. RootOf(R, ord, c, next - 1)
  <2>1. c[ord[r]] = next - 1
    BY <1>4, <1>5, <1>6
  <2>2. \A n \in Rule : c[n] = next - 1 => Both(R, n, ord[r])
    BY <1>4, <1>5, <1>7
  <2>3. ASSUME NEW j \in DOMAIN ord, j > r PROVE c[ord[j]] # 0 /\ c[ord[j]] < next - 1
    <3>1. comp[ord[j]] # 0 /\ comp[ord[j]] < next - 1 /\ ord[j] \in Rule
      BY <1>5, <2>3
    <3>2. ord[j] \notin new
      BY <3>1 DEF NewParents
    <3>3. QED
      BY <1>4, <3>1, <3>2
  <2>4. QED
    BY <2>1, <2>2, <2>3 DEF RootOf
<1>12. \A n, m \in Rule : c[n] # 0 /\ c[n] = c[m] => Both(R, n, m)
  <2> SUFFICES ASSUME NEW n \in Rule, NEW m \in Rule, c[n] # 0, c[n] = c[m]
               PROVE  Both(R, n, m)
    OBVIOUS
  <2>1. CASE c[n] = next - 1
    <3>1. \A x \in Rule : c[x] = next - 1 => Both(R, x, ord[r])
      BY <1>4, <1>5, <1>7
    <3>2. QED
      BY <1>6, <2>1, <3>1, BothIs
  <2>2. CASE c[n] # next - 1
    BY <1>1, <1>4, <2>2
  <2>3. QED
    BY <2>1, <2>2
<1>13. SweepOf(E, R, ord, c, next, sw2)
  BY <1>1, <1>4, <1>8, <1>9, <1>10, <1>11, <1>12 DEF SweepOf
<1>14. QED
  BY <1>3, <1>13

(* When every node has a component, edges lead to no earlier one.           *)
LEMMA SweepEnds ==
  ASSUME NEW E, NEW R, PathsOf(E, R), NEW ord, NEW comp, NEW next,
         SweepOf(E, R, ord, comp, next, <<>>), \A n \in Rule : comp[n] # 0,
         NEW n \in Rule, NEW m \in Rule, Both(R, n, m)
  PROVE  comp[n] = comp[m]
<1>1. comp \in [Rule -> Nat]
  BY DEF SweepOf
<1>2. \A x, y \in Rule : y \in Elements(E[x]) => comp[x] <= comp[y]
  <2>1. Elements(<<>>) = {}
    BY DEF Elements
  <2>2. QED
    BY <2>1 DEF SweepOf, ParentsKnown
<1>3. ASSUME NEW x \in Rule, NEW y \in R[x] PROVE comp[x] <= comp[y]
  <2> DEFINE S == {z \in Rule : comp[x] <= comp[z]}
  <2>1. x \in S /\ S \in SUBSET Rule
    BY <1>1
  <2>2. ASSUME NEW z \in S PROVE Elements(E[z]) \subseteq S
    <3>1. \A w \in Elements(E[z]) : w \in Rule
      BY DEF PathsOf, Elements
    <3>2. ASSUME NEW w \in Elements(E[z]) PROVE w \in S
      <4>1. w \in Rule /\ comp[z] <= comp[w] /\ comp[x] <= comp[z]
        BY <1>2, <3>1
      <4>2. comp[x] \in Nat /\ comp[z] \in Nat /\ comp[w] \in Nat
        BY <1>1, <4>1
      <4>3. QED
        BY <4>1, <4>2
    <3>3. QED
      BY <3>2
  <2>3. R[x] \subseteq S
    <3> HIDE DEF S
    <3>1. QED
      BY <2>1, <2>2 DEF PathsOf
  <2>4. QED
    BY <2>3
<1>4. comp[n] <= comp[m] /\ comp[m] <= comp[n]
  BY <1>3 DEF Both
<1>5. QED
  BY <1>1, <1>4

-----------------------------------------------------------------------------
(* Stacks.                                                                  *)

(* The last element of a sequence, and the others.                          *)
LEMMA LastApart ==
  ASSUME NEW S, NEW s \in Seq(S), s # <<>>
  PROVE  /\ s[Len(s)] \in S /\ SubSeq(s, 1, Len(s) - 1) \in Seq(S)
         /\ Elements(s) = Elements(SubSeq(s, 1, Len(s) - 1)) \cup {s[Len(s)]}
<1>1. PICK n \in Nat : n = Len(s) /\ n >= 1 /\ DOMAIN s = 1 .. n
  BY EmptySeq, LenProperties
<1>2. PICK r : r = SubSeq(s, 1, Len(s) - 1)
  OBVIOUS
<1>3. \A i \in 1 .. n : s[i] \in S
  BY <1>1
<1>4. r \in Seq(S) /\ Len(r) = n - 1 /\ \A i \in 1 .. n - 1 : r[i] = s[i]
  BY <1>1, <1>2
<1>5. DOMAIN r = 1 .. n - 1
  BY <1>4, LenProperties
<1>6. \A i : i \in 1 .. n <=> i \in 1 .. n - 1 \/ i = n
  BY <1>1
<1>7. Elements(s) = Elements(r) \cup {s[n]}
  BY <1>1, <1>4, <1>5, <1>6 DEF Elements
<1>8. s[n] \in S
  BY <1>3, <1>6
<1>9. QED
  BY <1>1, <1>2, <1>4, <1>7, <1>8

LEMMA LeastOf ==
  ASSUME NEW S, S \subseteq Nat, S # {}
  PROVE  \E n \in S : \A m \in S : n <= m
<1>1. PICK n \in S : \A m \in S : ~ (<<m, n>> \in OpToRel(<, Nat))
  BY WFMin, NatLessThanWellFounded
<1>2. \A m \in S : ~ (m < n)
  BY <1>1 DEF OpToRel
<1>3. \A m \in S : m \in Nat /\ n \in Nat
  OBVIOUS
<1>4. QED
  BY <1>2, <1>3

LEMMA PairIs ==
  ASSUME NEW A, NEW B, NEW v \in A \X B
  PROVE  v[1] \in A /\ v[2] \in B /\ v = <<v[1], v[2]>>
OBVIOUS

LEMMA AppendIs ==
  ASSUME NEW S, NEW s \in Seq(S), NEW x \in S, NEW n \in Nat, Len(s) = n
  PROVE  /\ Append(s, x) \in Seq(S) /\ DOMAIN Append(s, x) = 1 .. n + 1
         /\ Append(s, x)[n + 1] = x /\ Len(Append(s, x)) = n + 1
         /\ \A i \in 1 .. n : Append(s, x)[i] = s[i]
OBVIOUS

LEMMA FollowedStack ==
  ASSUME NEW s \in Seq(Rule \X (Nat \ {0})), NEW h \in Nat \ {0}, Len(s) = h, DOMAIN s = 1 .. h,
         NEW child \in Rule, NEW new \in BOOLEAN, NEW t, NEW adv,
         adv = Append(SubSeq(s, 1, Len(s) - 1), <<s[h][1], s[h][2] + 1>>),
         t = IF new THEN Append(adv, <<child, 1>>) ELSE adv
  PROVE  t \in Seq(Rule \X (Nat \ {0})) /\ Advanced(s, h, child, new, t)
<1>1. PICK b : b = SubSeq(s, 1, h - 1)
  OBVIOUS
<1>2. s # <<>>
  OBVIOUS
<1>3. PICK P : P = Rule \X (Nat \ {0})
  OBVIOUS
<1>4. \E g \in Nat \ {0} :
        /\ Len(s) = g /\ DOMAIN s = 1 .. g /\ s[g] \in P
        /\ SubSeq(s, 1, g - 1) \in Seq(P) /\ DOMAIN SubSeq(s, 1, g - 1) = 1 .. g - 1
        /\ \A i \in 1 .. g - 1 : SubSeq(s, 1, g - 1)[i] = s[i]
  BY <1>2, <1>3, TopApart
<1>5. /\ s[h] \in P /\ b \in Seq(P) /\ DOMAIN b = 1 .. h - 1
      /\ \A i \in 1 .. h - 1 : b[i] = s[i]
  BY <1>1, <1>4
<1>6. PICK x, e : x = s[h][1] /\ e = s[h][2]
  OBVIOUS
<1>e. x \in Rule /\ e \in Nat \ {0} /\ s[h] = <<x, e>>
  BY <1>3, <1>5, <1>6, PairIs
<1>7. <<x, e + 1>> \in P /\ <<child, 1>> \in P
  BY <1>3, <1>e
<1>8. adv = Append(b, <<x, e + 1>>)
  BY <1>1, <1>e
<1>9. Len(b) = h - 1
  BY <1>5
<1>10. /\ adv \in Seq(P) /\ Len(adv) = h /\ DOMAIN adv = 1 .. h /\ adv[h] = <<x, e + 1>>
       /\ \A i \in 1 .. h - 1 : adv[i] = s[i]
  <2>1. PICK g \in Nat : g = h - 1 /\ g + 1 = h
    OBVIOUS
  <2>2. PICK y : y = <<x, e + 1>>
    OBVIOUS
  <2>3. y \in P /\ adv = Append(b, y) /\ Len(b) = g
    BY <1>7, <1>8, <1>9, <2>1, <2>2
  <2>4. /\ adv \in Seq(P) /\ DOMAIN adv = 1 .. g + 1 /\ adv[g + 1] = y /\ Len(adv) = g + 1
        /\ \A i \in 1 .. g : adv[i] = b[i]
    <3>1. g \in Nat /\ b \in Seq(P)
      BY <1>5
    <3>2. QED
      BY ONLY <2>3, <3>1, AppendIs
  <2>5. QED
    BY <1>5, <2>1, <2>2, <2>4
<1>11. \A i \in 1 .. h : i \in 1 .. h - 1 \/ i = h
  OBVIOUS
<1>12. \A i \in 1 .. h : adv[i][1] = s[i][1]
  BY <1>e, <1>10, <1>11
<1>13. adv[h][2] = s[h][2] + 1
  BY <1>e, <1>10
<1>14. \A i \in 1 .. h - 1 : adv[i][2] = s[i][2]
  BY <1>10
<1>15. CASE ~ new
  BY <1>3, <1>10, <1>12, <1>13, <1>14, <1>15 DEF Advanced
<1>16. CASE new
  <2>1. PICK y : y = <<child, 1>>
    OBVIOUS
  <2>2. t = Append(adv, y) /\ y \in P /\ y[1] = child /\ y[2] = 1
    BY <1>7, <1>16, <2>1
  <2>3. /\ t \in Seq(P) /\ DOMAIN t = 1 .. h + 1 /\ t[h + 1] = y
        /\ \A i \in 1 .. h : t[i] = adv[i]
    <3>1. h \in Nat /\ adv \in Seq(P) /\ Len(adv) = h
      BY <1>10
    <3>2. QED
      BY ONLY <2>2, <3>1, AppendIs
  <2>5. h \in 1 .. h /\ \A i \in 1 .. h - 1 : i \in 1 .. h
    OBVIOUS
  <2>6. QED
    BY <1>3, <1>12, <1>13, <1>14, <1>16, <2>2, <2>3, <2>5 DEF Advanced
<1>17. QED
  BY <1>15, <1>16

-----------------------------------------------------------------------------
(* The invariant of the component search.                                   *)

SearchInv ==
  /\ EdgesTyped
  /\ WalkOf(edges, C!Reaches, visited, stack, order)
  /\ SweepOf(edges, C!Reaches, order, components, component, sweep)
  /\ ~ C!Walked => component = 1 /\ sweep = <<>> /\ components = [n \in Rule |-> 0]

(* Components counts with its own copy of the standard definition.          *)
LEMMA SameSize == \A S : C!Cardinality(S) = Cardinality(S)
BY DEF C!Cardinality, Cardinality

LEMMA EdgesStay == edges' = edges => C!Reaches' = C!Reaches
BY DEF C!Reaches, C!Within, C!Node, C!Elements

LEMMA SearchStays == SearchInv /\ UNCHANGED <<edges, search>> => SearchInv'
BY EdgesStay DEF SearchInv, EdgesTyped, search, C!Walked, C!Unvisited, C!Node

LEMMA SearchStarts == EdgesTyped /\ C!Fresh => SearchInv
<1> SUFFICES ASSUME EdgesTyped, C!Fresh PROVE SearchInv
  OBVIOUS
<1>1. PathsOf(edges, C!Reaches)
  BY PathsOfEdges
<1>2. components = [n \in Rule |-> 0]
  BY NodeIs DEF C!Fresh
<1>3. visited = {} /\ stack = <<>> /\ order = <<>> /\ component = 1 /\ sweep = <<>>
  BY DEF C!Fresh
<1>4. WalkOf(edges, C!Reaches, visited, stack, order)
  BY <1>1, <1>3, WalkStarts
<1>5. SweepOf(edges, C!Reaches, order, components, component, sweep)
  BY <1>2, <1>3, SweepStarts
<1>6. QED
  BY <1>2, <1>3, <1>4, <1>5 DEF SearchInv

(* A step of the first pass leaves the second where it starts.              *)
LEMMA FirstPassStep ==
  ASSUME SearchInv, ~ C!Walked, edges' = edges, components' = components,
         component' = component, sweep' = sweep,
         WalkOf(edges, C!Reaches, visited', stack', order')
  PROVE  SearchInv'
<1>1. C!Reaches' = C!Reaches
  BY EdgesStay
<1>2. WalkOf(edges, C!Reaches, visited, stack, order)'
  BY <1>1
<1>3. components' = [n \in Rule |-> 0] /\ component' = 1 /\ sweep' = <<>>
  BY DEF SearchInv
<1>4. SweepOf(edges, C!Reaches, order, components, component, sweep)'
  BY <1>3, SweepStarts
<1>5. EdgesTyped'
  BY DEF SearchInv, EdgesTyped
<1>6. QED
  BY <1>2, <1>3, <1>4, <1>5 DEF SearchInv

LEMMA StartWalkStep == SearchInv /\ C!StartWalk => SearchInv'
<1> SUFFICES ASSUME SearchInv, C!StartWalk PROVE SearchInv'
  OBVIOUS
<1>1. C!Unvisited = Rule \ visited
  BY NodeIs DEF C!Unvisited
<1> DEFINE start == CHOOSE n \in C!Unvisited : \A m \in C!Unvisited : n <= m
<1>2. start \in Rule /\ start \notin visited
  <2>1. C!Unvisited \subseteq Nat /\ C!Unvisited # {}
    BY <1>1, NodeIs, RuleAssumption DEF C!StartWalk
  <2>2. \E n \in C!Unvisited : \A m \in C!Unvisited : n <= m
    BY <2>1, LeastOf
  <2>3. start \in C!Unvisited
    BY <2>2
  <2>4. QED
    BY <1>1, <2>3
<1>3. /\ stack = <<>> /\ C!Unvisited # {} /\ visited' = visited \cup {start} /\ stack' = <<<<start, 1>>>>
      /\ edges' = edges /\ order' = order /\ components' = components
      /\ component' = component /\ sweep' = sweep
  BY DEF C!StartWalk
<1> HIDE DEF start
<1>4. PathsOf(edges, C!Reaches) /\ WalkOf(edges, C!Reaches, visited, <<>>, order)
  BY <1>3, PathsOfEdges DEF SearchInv
<1>5. WalkOf(edges, C!Reaches, visited \cup {start}, <<<<start, 1>>>>, order)
  BY <1>2, <1>4, WalkResumes
<1>6. WalkOf(edges, C!Reaches, visited', stack', order')
  BY <1>3, <1>5
<1>7. ~ C!Walked
  BY <1>3 DEF C!Walked
<1>8. QED
  BY <1>3, <1>6, <1>7, FirstPassStep

(* The top of the stack of the first pass.                                  *)
LEMMA TopIs ==
  ASSUME SearchInv, stack # <<>>
  PROVE  \E h \in Nat \ {0} :
           /\ Len(stack) = h /\ DOMAIN stack = 1 .. h /\ C!Top = stack[h]
           /\ C!Below = SubSeq(stack, 1, h - 1) /\ C!Below \in Seq(Rule \X (Nat \ {0}))
           /\ DOMAIN C!Below = 1 .. h - 1 /\ \A i \in 1 .. h - 1 : C!Below[i] = stack[i]
           /\ stack[h][1] \in Rule /\ stack[h][2] \in Nat \ {0}
           /\ edges[stack[h][1]] \in Seq(Rule)
<1>1. PICK P : P = Rule \X (Nat \ {0})
  OBVIOUS
<1>2. stack \in Seq(P)
  BY <1>1 DEF SearchInv, WalkOf, WalkTypes
<1>3. PICK h \in Nat \ {0} :
        /\ Len(stack) = h /\ DOMAIN stack = 1 .. h /\ stack[h] \in P
        /\ SubSeq(stack, 1, h - 1) \in Seq(P) /\ DOMAIN SubSeq(stack, 1, h - 1) = 1 .. h - 1
        /\ \A i \in 1 .. h - 1 : SubSeq(stack, 1, h - 1)[i] = stack[i]
  BY <1>2, TopApart
<1>4. C!Top = stack[h] /\ C!Below = SubSeq(stack, 1, h - 1)
  BY <1>3 DEF C!Top, C!Below
<1>5. stack[h][1] \in Rule /\ stack[h][2] \in Nat \ {0}
  BY <1>1, <1>3
<1>6. edges[stack[h][1]] \in Seq(Rule)
  BY <1>5 DEF SearchInv, EdgesTyped
<1>7. QED
  BY <1>1, <1>3, <1>4, <1>5, <1>6

LEMMA FollowStep == SearchInv /\ C!Follow => SearchInv'
<1> SUFFICES ASSUME SearchInv, C!Follow PROVE SearchInv'
  OBVIOUS
<1>1. stack # <<>>
  BY DEF C!Follow
<1>2. PICK h \in Nat \ {0} :
        /\ Len(stack) = h /\ DOMAIN stack = 1 .. h /\ C!Top = stack[h]
        /\ C!Below = SubSeq(stack, 1, h - 1)
        /\ stack[h][1] \in Rule /\ stack[h][2] \in Nat \ {0}
        /\ edges[stack[h][1]] \in Seq(Rule)
  BY <1>1, TopIs
<1> DEFINE x == stack[h][1]
           e == stack[h][2]
<1>3. PICK child : child = edges[x][e]
  OBVIOUS
<1>4. PICK adv : adv = Append(SubSeq(stack, 1, Len(stack) - 1), <<stack[h][1], stack[h][2] + 1>>)
  OBVIOUS
<1>5. /\ e <= Len(edges[x])
      /\ stack' = IF child \notin visited THEN Append(adv, <<child, 1>>) ELSE adv
      /\ visited' = visited \cup {child}
      /\ edges' = edges /\ order' = order /\ components' = components
      /\ component' = component /\ sweep' = sweep
  BY <1>2, <1>3, <1>4 DEF C!Follow
<1>6. stack[h][2] \in DOMAIN edges[stack[h][1]] /\ child \in Rule
  BY <1>2, <1>3, <1>5
<1>7. PICK new \in BOOLEAN : new = (child \notin visited)
  OBVIOUS
<1>8. PICK t : t = IF new THEN Append(adv, <<child, 1>>) ELSE adv
  OBVIOUS
<1>9. PathsOf(edges, C!Reaches) /\ WalkOf(edges, C!Reaches, visited, stack, order)
  BY PathsOfEdges DEF SearchInv
<1>10. stack \in Seq(Rule \X (Nat \ {0}))
  BY <1>9 DEF WalkOf, WalkTypes
<1>11. t \in Seq(Rule \X (Nat \ {0})) /\ Advanced(stack, h, child, new, t)
  BY <1>2, <1>4, <1>6, <1>8, <1>10, FollowedStack
<1>12. Advanced(stack, h, child, child \notin visited, t)
  BY <1>7, <1>11 DEF Advanced
<1>13. WalkOf(edges, C!Reaches, visited \cup {child}, t, order)
  BY <1>2, <1>3, <1>6, <1>9, <1>11, <1>12, WalkFollows
<1>14. WalkOf(edges, C!Reaches, visited', stack', order')
  BY <1>5, <1>7, <1>8, <1>13
<1>15. ~ C!Walked
  BY <1>1 DEF C!Walked
<1>16. QED
  BY <1>5, <1>14, <1>15, FirstPassStep

LEMMA LeaveStep == SearchInv /\ C!Leave => SearchInv'
<1> SUFFICES ASSUME SearchInv, C!Leave PROVE SearchInv'
  OBVIOUS
<1>1. stack # <<>>
  BY DEF C!Leave
<1>2. PICK h \in Nat \ {0} :
        /\ Len(stack) = h /\ DOMAIN stack = 1 .. h /\ C!Top = stack[h]
        /\ C!Below \in Seq(Rule \X (Nat \ {0}))
        /\ DOMAIN C!Below = 1 .. h - 1 /\ \A i \in 1 .. h - 1 : C!Below[i] = stack[i]
        /\ stack[h][1] \in Rule /\ stack[h][2] \in Nat \ {0}
        /\ edges[stack[h][1]] \in Seq(Rule)
  BY <1>1, TopIs
<1>3. /\ stack[h][2] > Len(edges[stack[h][1]])
      /\ order' = Append(order, stack[h][1]) /\ stack' = C!Below
      /\ edges' = edges /\ visited' = visited /\ components' = components
      /\ component' = component /\ sweep' = sweep
  BY <1>2 DEF C!Leave
<1>4. \A k \in DOMAIN edges[stack[h][1]] : k < stack[h][2]
  BY <1>2, <1>3
<1>5. PICK t : t = C!Below
  OBVIOUS
<1>6. /\ t \in Seq(Rule \X (Nat \ {0})) /\ DOMAIN t = 1 .. h - 1
      /\ \A i \in 1 .. h - 1 : t[i] = stack[i]
  BY <1>2, <1>5
<1>7. PathsOf(edges, C!Reaches) /\ WalkOf(edges, C!Reaches, visited, stack, order)
  BY PathsOfEdges DEF SearchInv
<1>8. WalkOf(edges, C!Reaches, visited, t, Append(order, stack[h][1]))
  BY <1>2, <1>4, <1>6, <1>7, WalkLeaves
<1>9. WalkOf(edges, C!Reaches, visited', stack', order')
  BY <1>3, <1>5, <1>8
<1>10. ~ C!Walked
  BY <1>1 DEF C!Walked
<1>11. QED
  BY <1>3, <1>9, <1>10, FirstPassStep

(* When the first pass is over.                                             *)
LEMMA WalkedIs ==
  ASSUME SearchInv, C!Walked
  PROVE  /\ PathsOf(edges, C!Reaches) /\ WalkOf(edges, C!Reaches, Rule, <<>>, order)
         /\ order \in Seq(Rule) /\ Elements(order) = Rule
         /\ FinishOrderOf(C!Reaches, order)
         /\ visited = Rule /\ stack = <<>>
<1>1. PathsOf(edges, C!Reaches)
  BY PathsOfEdges DEF SearchInv
<1>2. visited = Rule /\ stack = <<>>
  BY NodeIs DEF SearchInv, WalkOf, WalkTypes, C!Walked, C!Unvisited
<1>3. WalkOf(edges, C!Reaches, Rule, <<>>, order)
  BY <1>2 DEF SearchInv
<1>4. order \in Seq(Rule) /\ Elements(order) = Rule
  BY <1>3 DEF WalkOf, WalkTypes, Met, Nodes
<1>5. FinishOrderOf(C!Reaches, order)
  <2> SUFFICES ASSUME NEW n \in Rule, NEW m \in C!Reaches[n], n \notin C!Reaches[m]
               PROVE  \E i \in DOMAIN order :
                        Both(C!Reaches, order[i], n) /\ \A j \in i .. Len(order) : ~ Both(C!Reaches, order[j], m)
    BY DEF FinishOrderOf
  <2>1. QED
    BY <1>1, <1>3, FinishesAfter
<1>6. QED
  BY <1>1, <1>2, <1>3, <1>4, <1>5

LEMMA SecondPassStep ==
  ASSUME SearchInv, C!Walked, UNCHANGED <<edges, visited, stack, order>>,
         SweepOf(edges, C!Reaches, order, components', component', sweep')
  PROVE  SearchInv'
<1>1. C!Reaches' = C!Reaches
  BY EdgesStay
<1>2. SweepOf(edges, C!Reaches, order, components, component, sweep)'
  BY <1>1
<1>3. C!Walked'
  BY DEF C!Walked, C!Unvisited, C!Node
<1>4. QED
  BY <1>1, <1>2, <1>3 DEF SearchInv, EdgesTyped

LEMMA StartSweepStep == SearchInv /\ C!StartSweep => SearchInv'
<1> SUFFICES ASSUME SearchInv, C!StartSweep PROVE SearchInv'
  OBVIOUS
<1>1. C!Walked /\ sweep = <<>> /\ C!Unassigned # {}
  BY DEF C!StartSweep
<1>2. PathsOf(edges, C!Reaches) /\ order \in Seq(Rule) /\ Elements(order) = Rule
  BY <1>1, WalkedIs
<1>3. PICK l \in Nat : DOMAIN order = 1 .. l /\ Len(order) = l
  BY <1>2
<1>4. C!Unassigned = {n \in Rule : components[n] = 0}
  BY NodeIs DEF C!Unassigned
<1> DEFINE S == {i \in 1 .. l : order[i] \in C!Unassigned}
           pick(i) == order[i] \in C!Unassigned /\ \A j \in i + 1 .. Len(order) : order[j] \notin C!Unassigned
<1>5. S # {} /\ S \subseteq 1 .. l
  BY <1>1, <1>2, <1>3, <1>4 DEF Elements
<1>6. PICK i \in S : \A j \in S : j <= i
  <2> HIDE DEF S
  <2>1. QED
    BY <1>5, HighestOf
<1>7. pick(i)
  <2>1. ASSUME NEW j \in i + 1 .. l, order[j] \in C!Unassigned PROVE FALSE
    <3>1. i \in 1 .. l
      OBVIOUS
    <3>2. j \in 1 .. l
      BY <2>1, <3>1
    <3>3. j \in S
      BY <2>1, <3>2
    <3>4. QED
      BY <1>6, <2>1, <3>1, <3>3
  <2>2. QED
    BY <1>3, <2>1
<1>8. i \in DOMAIN order
  BY <1>3
<1>9. PICK r : r = CHOOSE k \in DOMAIN order : pick(k)
  OBVIOUS
<1>10. r \in DOMAIN order /\ pick(r)
  <2> HIDE DEF pick
  <2>1. QED
    BY <1>7, <1>8, <1>9
<1>11. C!Latest = order[r]
  BY <1>9 DEF C!Latest
<1>12. components[order[r]] = 0
  BY <1>4, <1>10
<1>13. \A j \in DOMAIN order : j > r => components[order[j]] # 0
  <2> SUFFICES ASSUME NEW j \in DOMAIN order, j > r PROVE components[order[j]] # 0
    OBVIOUS
  <2>1. j \in r + 1 .. Len(order) /\ order[j] \in Rule
    BY <1>2, <1>3, <1>10
  <2>2. QED
    BY <1>4, <1>10, <2>1
<1>14. SweepOf(edges, C!Reaches, order, components, component, <<>>)
  BY <1>1 DEF SearchInv
<1>15. SweepOf(edges, C!Reaches, order, [components EXCEPT ![order[r]] = component], component + 1, <<order[r]>>)
  <2> HIDE DEF pick
  <2>1. r \in DOMAIN order
    BY <1>10
  <2>2. QED
    BY <1>2, <1>12, <1>13, <1>14, <2>1, SweepResumes
<1>16. SweepOf(edges, C!Reaches, order, components', component', sweep')
  BY <1>11, <1>15 DEF C!StartSweep
<1>17. UNCHANGED <<edges, visited, stack, order>>
  BY DEF C!StartSweep
<1>18. QED
  BY <1>1, <1>16, <1>17, SecondPassStep

LEMMA SweepStep == SearchInv /\ C!Sweep => SearchInv'
<1> SUFFICES ASSUME SearchInv, C!Sweep PROVE SearchInv'
  OBVIOUS
<1>1. C!Walked /\ sweep # <<>> /\ UNCHANGED <<edges, visited, stack, order>> /\ component' = component
  BY DEF C!Sweep
<1>2. /\ PathsOf(edges, C!Reaches) /\ order \in Seq(Rule)
      /\ FinishOrderOf(C!Reaches, order)
  BY <1>1, WalkedIs
<1>3. PICK node : node = sweep[Len(sweep)]
  OBVIOUS
<1>4. PICK below : below = SubSeq(sweep, 1, Len(sweep) - 1)
  OBVIOUS
<1>5. sweep \in Seq(Rule) /\ SweepOf(edges, C!Reaches, order, components, component, sweep)
  BY DEF SearchInv, SweepOf
<1>6. node \in Rule /\ below \in Seq(Rule) /\ Elements(sweep) = Elements(below) \cup {node}
  BY <1>1, <1>3, <1>4, <1>5, LastApart
<1>7. PICK new : new = NewParents(edges, components, node)
  OBVIOUS
<1>8. C!Parents(node) \cap C!Unassigned = new
  BY <1>7, NodeIs DEF NewParents, C!Parents, C!Unassigned, C!Elements, Elements
<1>9. components' = Spread(components, new, node)
  BY <1>3, <1>8, NodeIs DEF C!Sweep, Spread
<1>10. PICK pushed \in [1 .. Cardinality(new) -> new] : C!Elements(pushed) = new /\ sweep' = below \o pushed
  BY <1>3, <1>4, <1>8, SameSize DEF C!Sweep
<1>11. pushed \in Seq(Rule) /\ Elements(pushed) = new
  <2>1. new \subseteq Rule /\ IsFiniteSet(new)
    BY <1>7, NodeIs, FS_Subset DEF NewParents
  <2>2. Cardinality(new) \in Nat
    BY <2>1, FS_CardinalityType
  <2>3. pushed \in [1 .. Cardinality(new) -> Rule]
    BY <2>1
  <2>4. C!Elements(pushed) = Elements(pushed)
    BY DEF C!Elements, Elements
  <2>5. QED
    BY <1>10, <2>2, <2>3, <2>4
<1>12. PICK sw2 : sw2 = below \o pushed
  OBVIOUS
<1>13. sw2 \in Seq(Rule) /\ Elements(sw2) = Elements(below) \cup new
  BY <1>6, <1>11, <1>12, ElementsOfConcat
<1>14. /\ node \in Elements(sweep) /\ new \subseteq Elements(sw2) /\ Elements(sw2) \subseteq Elements(sweep) \cup new
       /\ \A n \in Elements(sweep) : n # node => n \in Elements(sw2)
  BY <1>6, <1>13
<1>15. SweepOf(edges, C!Reaches, order, Spread(components, new, node), component, sw2)
  BY <1>2, <1>5, <1>7, <1>13, <1>14, SweepSpreads
<1>16. SweepOf(edges, C!Reaches, order, components', component', sweep')
  BY <1>1, <1>9, <1>10, <1>12, <1>15
<1>17. QED
  BY <1>1, <1>16, SecondPassStep

LEMMA SearchStep == SearchInv /\ C!Next => SearchInv'
BY StartWalkStep, FollowStep, LeaveStep, StartSweepStep, SweepStep DEF C!Next

(* What the invariant says of the components.                               *)
LEMMA ComponentsFollow == SearchInv => ComponentsAreMutual
<1> SUFFICES ASSUME SearchInv PROVE ComponentsAreMutual
  OBVIOUS
<1>1. C!Node = Rule /\ PathsOf(edges, C!Reaches)
  BY NodeIs, PathsOfEdges DEF SearchInv
<1>2. \A n, m : C!Mutual(n, m) <=> Both(C!Reaches, n, m)
  BY DEF C!Mutual, Both
<1>3. C!FinishOrder
  <2> SUFFICES ASSUME C!Walked, NEW n \in Rule, NEW m \in C!Reaches[n], n \notin C!Reaches[m]
               PROVE  \E i \in DOMAIN order : /\ C!Mutual(order[i], n)
                                              /\ \A j \in i .. Len(order) : ~ C!Mutual(order[j], m)
    BY <1>1 DEF C!FinishOrder
  <2>1. FinishOrderOf(C!Reaches, order)
    BY WalkedIs
  <2>2. QED
    BY <1>2, <2>1 DEF FinishOrderOf
<1>4. C!TypeOK
  <2>1. EdgesTyped /\ WalkTypes(visited, stack, order)
    BY DEF SearchInv, WalkOf
  <2>2. components \in [Rule -> Nat] /\ component \in Nat \ {0} /\ sweep \in Seq(Rule)
    BY DEF SearchInv, SweepOf
  <2>3. QED
    BY <1>1, <2>1, <2>2 DEF C!TypeOK, EdgesTyped, WalkTypes
<1>5. \A n, m \in Rule : components[n] # 0 /\ components[n] = components[m] => C!Mutual(n, m)
  BY <1>2 DEF SearchInv, SweepOf
<1>6. ASSUME C!Done, NEW n \in Rule, NEW m \in Rule
      PROVE  /\ C!Mutual(n, m) => components[n] = components[m]
             /\ C!IsRecursive(n) <=> \E child \in C!Elements(edges[n]) : n \in C!Reaches[child]
  <2>1. sweep = <<>> /\ \A x \in Rule : components[x] # 0
    BY <1>1, <1>6 DEF C!Done, C!Unassigned
  <2>2. \A x, y \in Rule : C!Mutual(x, y) => components[x] = components[y]
    <3>1. SweepOf(edges, C!Reaches, order, components, component, <<>>)
      BY <2>1 DEF SearchInv
    <3>2. QED
      BY <1>1, <1>2, <2>1, <3>1, SweepEnds
  <2>3. C!Elements(edges[n]) = Elements(edges[n]) /\ Elements(edges[n]) \subseteq Rule
    <3>1. edges[n] \in Seq(Rule)
      BY DEF SearchInv, EdgesTyped
    <3>2. QED
      BY <3>1 DEF C!Elements, Elements
  <2> DEFINE mine == {x \in Rule : components[x] = components[n]}
  <2>4. IsFiniteSet(mine) /\ n \in mine /\ Cardinality(mine) \in Nat
    <3>1. IsFiniteSet(mine)
      BY NodeIs, FS_Subset
    <3> HIDE DEF mine
    <3>2. QED
      BY <3>1, FS_CardinalityType DEF mine
  <2>5. C!IsRecursive(n) <=> Cardinality(mine) > 1 \/ n \in Elements(edges[n])
    BY <1>1, <2>3, SameSize DEF C!IsRecursive
  <2>6. Cardinality(mine) > 1 <=> \E x \in mine : x # n
    <3>1. CASE \E x \in mine : x # n
      <4>1. PICK x \in mine : x # n
        BY <3>1
      <4> HIDE DEF mine
      <4>2. Cardinality(mine) # 1
        <5>1. ASSUME Cardinality(mine) = 1 PROVE FALSE
          <6>1. \E y : mine = {y}
            BY <2>4, <5>1, FS_Singleton
          <6>2. QED
            BY <2>4, <4>1, <6>1
        <5>2. QED
          BY <5>1
      <4>3. Cardinality(mine) # 0
        BY <2>4, FS_EmptySet
      <4>4. QED
        BY <2>4, <4>1, <4>2, <4>3
    <3>2. CASE ~ \E x \in mine : x # n
      <4>1. mine = {n}
        BY <2>4, <3>2
      <4>2. Cardinality(mine) = 1
        BY <4>1, FS_Singleton
      <4>3. QED
        BY <3>2, <4>2
    <3>3. QED
      BY <3>1, <3>2
  <2>7. ASSUME NEW x \in mine, x # n
        PROVE  \E child \in Elements(edges[n]) : n \in C!Reaches[child]
    <3>1. x \in Rule /\ components[n] = components[x] /\ components[n] # 0
      BY <2>1
    <3>2. x \in C!Reaches[n] /\ n \in C!Reaches[x]
      BY <1>5, <3>1 DEF C!Mutual
    <3>3. PICK child \in Elements(edges[n]) : x \in C!Reaches[child]
      BY <1>1, <2>7, <3>2 DEF PathsOf
    <3>4. n \in C!Reaches[child]
      BY <1>1, <2>3, <3>2, <3>3 DEF PathsOf
    <3>5. QED
      BY <3>4
  <2>8. ASSUME n \in Elements(edges[n])
        PROVE  \E child \in Elements(edges[n]) : n \in C!Reaches[child]
    BY <1>1, <2>8 DEF PathsOf
  <2>9. ASSUME NEW child \in Elements(edges[n]), n \in C!Reaches[child], n \notin Elements(edges[n])
        PROVE  \E x \in mine : x # n
    <3>1. child \in Rule /\ child # n
      BY <2>3, <2>9
    <3>2. child \in C!Reaches[n]
      BY <1>1 DEF PathsOf
    <3>3. C!Mutual(n, child)
      BY <2>9, <3>2 DEF C!Mutual
    <3>4. child \in mine
      BY <2>2, <3>1, <3>3
    <3>5. QED
      BY <3>1, <3>4
  <2>10. C!IsRecursive(n) <=> \E child \in Elements(edges[n]) : n \in C!Reaches[child]
    <3> HIDE DEF mine
    <3>1. QED
      BY <2>5, <2>6, <2>7, <2>8, <2>9
  <2>11. QED
    BY <2>2, <2>3, <2>10
<1>7. C!ComponentsAreMutual
  BY <1>1, <1>4, <1>5, <1>6 DEF C!ComponentsAreMutual
<1>8. QED
  BY <1>3, <1>7 DEF ComponentsAreMutual

-----------------------------------------------------------------------------
(* What can finish a text.                                                  *)

Finishers(pkg, S) ==
  {pkg.owner[p] : p \in {q \in Production : Elements(Mentioned(pkg, q)) \subseteq S}}

LEMMA FinishersGrow ==
  ASSUME NEW pkg \in Packages
  PROVE  /\ \A S \in SUBSET Rule : Finishers(pkg, S) \in SUBSET Rule
         /\ \A S, T \in SUBSET Rule : S \subseteq T => Finishers(pkg, S) \subseteq Finishers(pkg, T)
<1>1. \A p \in Production : pkg.owner[p] \in Rule
  BY PackageTypes
<1>2. QED
  BY <1>1 DEF Finishers

(* The recursive definition of Derivable defines a function.                *)
LEMMA DerivableRuns ==
  ASSUME package \in Packages
  PROVE  /\ Derivable \in [0 .. N -> SUBSET Rule] /\ Derivable[0] = {}
         /\ \A k \in 1 .. N : Derivable[k] = Finishers(package, Derivable[k - 1])
<1> DEFINE U == SUBSET Rule
           step == [k \in 1 .. N |-> [S \in U |-> Finishers(package, S)]]
           Rec(w) == [k \in 0 .. N |-> IF k = 0 THEN {} ELSE Finishers(package, w[k - 1])]
<1>1. N \in Nat /\ {} \in U
  BY NodeIs
<1>2. step \in [1 .. N -> [U -> U]]
  BY FinishersGrow
<1>3. \A k \in 1 .. N, S \in U : step[k][S] = Finishers(package, S)
  OBVIOUS
<1>4. PICK w : RunOf(w, U, {}, step, N)
  <2> HIDE DEF U, step
  <2>1. QED
    BY <1>1, <1>2, RunsExist
<1>5. w = Rec(w)
  <2>1. ASSUME NEW k \in 0 .. N PROVE w[k] = IF k = 0 THEN {} ELSE Finishers(package, w[k - 1])
    <3>1. CASE k = 0
      BY <1>4, <3>1 DEF RunOf
    <3>2. CASE k # 0
      <4>1. k \in 1 .. N /\ k - 1 \in 0 .. N
        BY <1>1, <3>2
      <4>2. w[k - 1] \in U /\ w[k] = step[k][w[k - 1]]
        BY <1>4, <4>1 DEF RunOf
      <4>3. w[k] = Finishers(package, w[k - 1])
        <5> HIDE DEF step, U
        <5>1. QED
          BY <1>3, <4>1, <4>2
      <4>4. QED
        BY <3>2, <4>3
    <3>3. QED
      BY <3>1, <3>2
  <2>2. w = [k \in 0 .. N |-> w[k]]
    BY <1>4 DEF RunOf
  <2>3. QED
    BY <2>1, <2>2
<1>6. Derivable = CHOOSE f : f = Rec(f)
  BY DEF Derivable, Finishers
<1>7. Derivable = Rec(Derivable)
  <2> HIDE DEF Rec
  <2>1. QED
    BY <1>5, <1>6
<1>8. PICK f : f = Derivable
  OBVIOUS
<1>9. f = Rec(f)
  BY <1>7, <1>8
<1>10. \A k \in 0 .. N : f[k] = IF k = 0 THEN {} ELSE Finishers(package, f[k - 1])
  BY <1>9
<1>11. f = [k \in 0 .. N |-> f[k]]
  <2>1. DOMAIN f = 0 .. N
    BY <1>9
  <2>2. f = [k \in DOMAIN f |-> f[k]]
    BY <1>9
  <2>3. QED
    BY <2>1, <2>2
<1>12. f[0] = {}
  BY <1>1, <1>10
<1>13. ASSUME NEW k \in 1 .. N PROVE f[k] = Finishers(package, f[k - 1])
  <2>1. k \in 0 .. N /\ k # 0
    BY <1>1
  <2>2. QED
    BY <1>10, <2>1
<1>14. \A k \in 1 .. N : f[k - 1] \in U => f[k] = step[k][f[k - 1]]
  BY <1>3, <1>13
<1>15. RunOf(f, U, {}, step, N)
  <2> HIDE DEF U, step
  <2>1. QED
    BY <1>1, <1>2, <1>11, <1>12, <1>14, RecursionRuns
<1>16. f \in [0 .. N -> SUBSET Rule]
  BY <1>15 DEF RunOf
<1>17. QED
  BY <1>8, <1>12, <1>13, <1>16

(* The rules that finish are the least set with every rule one of whose     *)
(* productions mentions only its members.                                   *)
LEMMA DerivableIs ==
  ASSUME package \in Packages
  PROVE  /\ Derivable[N] \in SUBSET Rule
         /\ Finishers(package, Derivable[N]) \subseteq Derivable[N]
         /\ \A S \in SUBSET Rule : Finishers(package, S) \subseteq S => Derivable[N] \subseteq S
<1> DEFINE grow == [S \in SUBSET Rule |-> Finishers(package, S)]
<1>1. N = Cardinality(Rule) /\ IsFiniteSet(Rule) /\ N \in Nat
  BY NodeIs DEF N
<1>2. grow \in [SUBSET Rule -> SUBSET Rule] /\ \A S \in SUBSET Rule : grow[S] = Finishers(package, S)
  BY FinishersGrow
<1>3. Growing(Rule, grow, {})
  BY <1>2, FinishersGrow DEF Growing
<1>4. PICK W : W = Derivable
  OBVIOUS
<1>5. /\ W \in [0 .. N -> SUBSET Rule] /\ W[0] = {}
      /\ \A k \in 1 .. N : W[k] = Finishers(package, W[k - 1])
  BY <1>4, DerivableRuns
<1>6. ChainOf(W, Rule, {}, grow, N)
  <2>1. ASSUME NEW k \in 1 .. N PROVE W[k] = grow[W[k - 1]]
    <3>1. k - 1 \in 0 .. N
      BY <1>1
    <3>2. W[k - 1] \in SUBSET Rule
      BY <1>5, <3>1
    <3> HIDE DEF grow
    <3>3. QED
      BY <1>2, <1>5, <3>2
  <2> HIDE DEF grow
  <2>2. QED
    BY <1>5, <2>1 DEF ChainOf
<1>7. PICK L : L = W[N]
  OBVIOUS
<1>8. /\ L \in SUBSET Rule /\ grow[L] = L
      /\ \A S \in SUBSET Rule : {} \subseteq S /\ grow[S] \subseteq S => L \subseteq S
  <2> HIDE DEF grow
  <2>1. ChainOf(W, Rule, {}, grow, Cardinality(Rule)) /\ W[Cardinality(Rule)] = L
    BY <1>1, <1>6, <1>7
  <2>2. QED
    BY <1>1, <1>3, <2>1, LeastInChain
<1>9. QED
  <2> HIDE DEF grow
  <2>1. QED
    BY <1>2, <1>4, <1>7, <1>8

(* The worklist of the second analysis computes them.                       *)
LEMMA SolvedIsDerivable ==
  ASSUME package \in Packages, IInv, Done, grammar = Productivity(package)
  PROVE  property = Derivable[N]
<1>1. Candidates = Production
  BY DEF Candidates, Productivity
<1>2. \A p \in Production : Children(p) = Mentioned(package, p) /\ grammar.owner[p] = package.owner[p]
  BY DEF Children, Productivity
<1>3. \A S : ClosedUnder(S) <=> Finishers(package, S) \subseteq S
  BY <1>1, <1>2 DEF ClosedUnder, Finishers
<1>4. ClosedUnder(property) /\ property \in SUBSET Rule
  BY InvariantImplies DEF LeastClosedSet, NoneMissed, TypeOK
<1>5. Derivable[N] \subseteq property
  BY <1>3, <1>4, DerivableIs
<1>6. property \subseteq Derivable[N]
  BY <1>3, DerivableIs DEF IInv, NoneInvented
<1>7. QED
  BY <1>5, <1>6

-----------------------------------------------------------------------------
(* The four analyses, one after the other.                                  *)

(* What the entries lead to is visited or waits, and what the visited rules *)
(* mention as well.                                                         *)
Visiting ==
  /\ pending \in Seq(Rule) /\ reachable \in SUBSET Rule
  /\ reachable \cup Elements(pending) \subseteq LeadsTo
  /\ Elements(package.entries) \subseteq reachable \cup Elements(pending)
  /\ \A r \in reachable : Elements(edges[r]) \subseteq reachable \cup Elements(pending)
  /\ phase # "reachable" => pending = <<>>

Judging ==
  /\ phase \in {"reachable", "productive"} => grammar = Productivity(package)
  /\ phase \notin {"reachable", "productive"} => productive = Derivable[N]
  /\ phase = "analysed" => reachable \subseteq productive
  /\ phase = "refused" => ~ (reachable \subseteq productive)

AnalysisInv ==
  /\ package \in Packages /\ edges = EdgesOf(package)
  /\ SearchInv
  /\ IInv
  /\ Visiting
  /\ Judging

LEMMA LeadsToIs ==
  ASSUME package \in Packages, EdgesTyped
  PROVE  /\ LeadsTo \in SUBSET Rule /\ Elements(package.entries) \subseteq LeadsTo
         /\ \A r \in LeadsTo : Elements(edges[r]) \subseteq LeadsTo
         /\ \A S \in SUBSET Rule :
              Elements(package.entries) \subseteq S /\ (\A r \in S : Elements(edges[r]) \subseteq S)
                => LeadsTo \subseteq S
<1>1. PathsOf(edges, C!Reaches)
  BY PathsOfEdges
<1>2. \A i \in DOMAIN package.entries : package.entries[i] \in Rule
  <2>1. package.entries \in Seq(Rule)
    BY PackageTypes
  <2>2. QED
    BY <2>1
<1>3. LeadsTo \in SUBSET Rule
  BY <1>1, <1>2 DEF LeadsTo, PathsOf
<1>4. Elements(package.entries) \subseteq LeadsTo
  BY <1>1, <1>2 DEF LeadsTo, PathsOf, Elements
<1>5. ASSUME NEW r \in LeadsTo PROVE Elements(edges[r]) \subseteq LeadsTo
  <2>1. PICK i \in DOMAIN package.entries : r \in C!Reaches[package.entries[i]]
    BY DEF LeadsTo
  <2>2. Elements(edges[r]) \subseteq C!Reaches[package.entries[i]]
    BY <1>1, <1>2, <2>1 DEF PathsOf
  <2>3. QED
    BY <2>2 DEF LeadsTo
<1>6. ASSUME NEW S \in SUBSET Rule, Elements(package.entries) \subseteq S,
             \A r \in S : Elements(edges[r]) \subseteq S
      PROVE  LeadsTo \subseteq S
  <2>1. ASSUME NEW i \in DOMAIN package.entries PROVE C!Reaches[package.entries[i]] \subseteq S
    <3>1. package.entries[i] \in S
      BY <1>6 DEF Elements
    <3>2. QED
      BY <1>1, <1>2, <1>6, <3>1 DEF PathsOf
  <2>2. QED
    BY <2>1 DEF LeadsTo
<1>7. QED
  BY <1>3, <1>4, <1>5, <1>6

LEMMA AnalysisStarts == AnalysisInit => AnalysisInv
<1> SUFFICES ASSUME AnalysisInit PROVE AnalysisInv
  OBVIOUS
<1>1. package \in Packages /\ edges = EdgesOf(package) /\ C!Fresh /\ Init /\ grammar = Productivity(package)
      /\ phase = "reachable" /\ pending = package.entries /\ reachable = {}
  BY DEF AnalysisInit
<1>2. EdgesTyped
  BY <1>1, EdgesMention DEF EdgesTyped
<1>3. SearchInv
  BY <1>1, <1>2, SearchStarts
<1>4. IInv
  BY <1>1, InitInvariant
<1>5. Visiting
  <2>1. pending \in Seq(Rule)
    BY <1>1, PackageTypes
  <2>2. Elements(package.entries) \subseteq LeadsTo
    BY <1>1, <1>2, LeadsToIs
  <2>3. QED
    BY <1>1, <2>1, <2>2 DEF Visiting
<1>6. Judging
  BY <1>1 DEF Judging
<1>7. QED
  BY <1>1, <1>3, <1>4, <1>5, <1>6 DEF AnalysisInv

(* What stands still while the package and its edges do.                    *)
LEMMA PackageStays ==
  ASSUME package' = package, edges' = edges
  PROVE  LeadsTo' = LeadsTo /\ Derivable' = Derivable
<1>1. C!Reaches' = C!Reaches
  BY EdgesStay
<1>2. QED
  BY <1>1 DEF LeadsTo, Derivable

LEMMA VisitStep == AnalysisInv /\ Visit => AnalysisInv'
<1> SUFFICES ASSUME AnalysisInv, Visit PROVE AnalysisInv'
  OBVIOUS
<1> DEFINE rule == Head(pending)
<1>1. /\ phase = "reachable" /\ pending # <<>> /\ phase' = phase
      /\ reachable' = reachable \cup {rule}
      /\ pending' = Tail(pending) \o (IF rule \in reachable THEN <<>> ELSE edges[rule])
      /\ UNCHANGED <<package, edges, productive, solver, search>>
  BY DEF Visit
<1>2. SearchInv'
  BY <1>1, SearchStays DEF AnalysisInv
<1>3. IInv'
  BY <1>1, StutterInvariant DEF AnalysisInv, solver
<1>4. LeadsTo' = LeadsTo /\ Derivable' = Derivable
  BY <1>1, PackageStays
<1>5. /\ pending \in Seq(Rule) /\ reachable \in SUBSET Rule /\ EdgesTyped /\ package \in Packages
      /\ reachable \cup Elements(pending) \subseteq LeadsTo
      /\ Elements(package.entries) \subseteq reachable \cup Elements(pending)
      /\ \A r \in reachable : Elements(edges[r]) \subseteq reachable \cup Elements(pending)
  BY DEF AnalysisInv, Visiting, SearchInv
<1>6. rule \in Rule /\ Elements(pending) = Elements(Tail(pending)) \cup {rule} /\ Tail(pending) \in Seq(Rule)
  BY <1>1, <1>5, TailElements
<1> HIDE DEF rule
<1>7. PICK more : more = IF rule \in reachable THEN <<>> ELSE edges[rule]
  OBVIOUS
<1>m. more \in Seq(Rule)
  <2>1. edges[rule] \in Seq(Rule)
    BY <1>5, <1>6 DEF EdgesTyped
  <2>2. <<>> \in Seq(Rule)
    OBVIOUS
  <2>3. QED
    BY <1>7, <2>1, <2>2
<1>8. pending' \in Seq(Rule) /\ Elements(pending') = Elements(Tail(pending)) \cup Elements(more)
  <2>1. pending' = Tail(pending) \o more
    BY <1>1, <1>7
  <2>2. PICK rest \in Seq(Rule) : rest = Tail(pending)
    BY <1>6
  <2>3. rest \o more \in Seq(Rule) /\ Elements(rest \o more) = Elements(rest) \cup Elements(more)
    BY <1>m, ElementsOfConcat
  <2>4. QED
    BY <2>1, <2>2, <2>3
<1>9. Elements(more) = IF rule \in reachable THEN {} ELSE Elements(edges[rule])
  BY <1>7 DEF Elements
<1>10. Elements(edges[rule]) \subseteq LeadsTo
  BY <1>5, <1>6, LeadsToIs
<1>11. reachable' \cup Elements(pending') \subseteq LeadsTo
  BY <1>1, <1>5, <1>6, <1>8, <1>9, <1>10
<1>12. reachable \cup Elements(pending) \subseteq reachable' \cup Elements(pending')
  BY <1>1, <1>6, <1>8
<1>13. \A r \in reachable' : Elements(edges[r]) \subseteq reachable' \cup Elements(pending')
  <2>1. CASE rule \in reachable
    BY <1>1, <1>5, <1>12, <2>1
  <2>2. CASE rule \notin reachable
    BY <1>1, <1>5, <1>8, <1>9, <1>12, <2>2
  <2>3. QED
    BY <2>1, <2>2
<1>14. Visiting'
  <2>1. \A s : (Elements(s))' = Elements(s')
    BY DEF Elements
  <2>2. reachable' \in SUBSET Rule /\ Elements(package.entries) \subseteq reachable' \cup Elements(pending')
    BY <1>1, <1>5, <1>6, <1>12
  <2>3. QED
    BY <1>1, <1>4, <1>8, <1>11, <1>13, <2>2 DEF Visiting
<1>15. Judging'
  BY <1>1, <1>4 DEF AnalysisInv, Judging, solver, vars
<1>16. QED
  BY <1>1, <1>2, <1>3, <1>14, <1>15 DEF AnalysisInv

(* Visiting stays when the walk is over and the phase goes on.              *)
LEMMA VisitingStays ==
  ASSUME AnalysisInv, UNCHANGED <<package, edges, pending, reachable>>,
         phase' # "reachable" => pending = <<>>
  PROVE  Visiting'
BY PackageStays DEF AnalysisInv, Visiting

LEMMA SolverStep == IInv /\ [Next]_vars => IInv'
BY TakeInvariant, SkipInvariant, StrikeInvariant, StutterInvariant DEF Next

LEMMA SolverGrammar == [Next]_vars => grammar' = grammar
BY DEF Next, Take, Skip, Strike, vars

LEMMA ReachedStep == AnalysisInv /\ Reached => AnalysisInv'
<1> SUFFICES ASSUME AnalysisInv, Reached PROVE AnalysisInv'
  OBVIOUS
<1>1. /\ phase = "reachable" /\ pending = <<>> /\ phase' = "productive"
      /\ UNCHANGED <<package, edges, pending, reachable, productive, solver, search>>
  BY DEF Reached
<1>2. SearchInv' /\ IInv' /\ Visiting'
  BY <1>1, SearchStays, StutterInvariant, VisitingStays DEF AnalysisInv, solver
<1>3. Judging'
  BY <1>1 DEF AnalysisInv, Judging, solver, vars
<1>4. QED
  BY <1>1, <1>2, <1>3 DEF AnalysisInv

LEMMA SolveStep == AnalysisInv /\ Solve => AnalysisInv'
<1> SUFFICES ASSUME AnalysisInv, Solve PROVE AnalysisInv'
  OBVIOUS
<1>1. /\ phase \in {"productive", "nullable"} /\ Next /\ phase' = phase
      /\ UNCHANGED <<package, edges, pending, reachable, productive, search>>
  BY DEF Solve
<1>2. SearchInv' /\ IInv' /\ Visiting'
  BY <1>1, SearchStays, SolverStep, VisitingStays DEF AnalysisInv, Visiting
<1>3. grammar' = grammar /\ Derivable' = Derivable
  BY <1>1, SolverGrammar, PackageStays
<1>4. Judging'
  BY <1>1, <1>3 DEF AnalysisInv, Judging
<1>5. QED
  BY <1>1, <1>2, <1>4 DEF AnalysisInv

LEMMA SolveAgainStep == AnalysisInv /\ SolveAgain => AnalysisInv'
<1> SUFFICES ASSUME AnalysisInv, SolveAgain PROVE AnalysisInv'
  OBVIOUS
<1>1. /\ phase = "productive" /\ Done /\ phase' = "nullable" /\ productive' = property
      /\ UNCHANGED <<package, edges, pending, reachable, search>>
  BY DEF SolveAgain
<1>2. SearchInv' /\ Visiting'
  BY <1>1, SearchStays, VisitingStays DEF AnalysisInv, Visiting
<1>3. Init'
  BY <1>1, PackageTypes DEF SolveAgain, Init, Done, AnalysisInv
<1>4. IInv'
  BY <1>3, InitInvariant, PTL
<1>5. productive' = Derivable[N] /\ Derivable' = Derivable
  <2>1. property = Derivable[N]
    BY <1>1, SolvedIsDerivable DEF AnalysisInv, Judging
  <2>2. QED
    BY <1>1, <2>1, PackageStays
<1>6. Judging'
  BY <1>1, <1>5 DEF Judging
<1>7. QED
  BY <1>1, <1>2, <1>4, <1>6 DEF AnalysisInv

LEMMA SolvedStep == AnalysisInv /\ Solved => AnalysisInv'
<1> SUFFICES ASSUME AnalysisInv, Solved PROVE AnalysisInv'
  OBVIOUS
<1>1. /\ phase = "nullable" /\ phase' = "components"
      /\ UNCHANGED <<package, edges, pending, reachable, productive, solver, search>>
  BY DEF Solved
<1>2. SearchInv' /\ IInv' /\ Visiting'
  BY <1>1, SearchStays, StutterInvariant, VisitingStays DEF AnalysisInv, Visiting, solver
<1>3. Derivable' = Derivable
  BY <1>1, PackageStays
<1>4. Judging'
  BY <1>1, <1>3 DEF AnalysisInv, Judging
<1>5. QED
  BY <1>1, <1>2, <1>4 DEF AnalysisInv

LEMMA ComponentStep == AnalysisInv /\ Search => AnalysisInv'
<1> SUFFICES ASSUME AnalysisInv, Search PROVE AnalysisInv'
  OBVIOUS
<1>1. /\ phase = "components" /\ C!Next /\ phase' = phase
      /\ UNCHANGED <<package, pending, reachable, productive, solver>>
  BY DEF Search
<1>2. edges' = edges
  BY <1>1 DEF C!Next, C!StartWalk, C!Follow, C!Leave, C!StartSweep, C!Sweep
<1>3. SearchInv' /\ IInv' /\ Visiting'
  BY <1>1, <1>2, SearchStep, StutterInvariant, VisitingStays DEF AnalysisInv, Visiting, solver
<1>4. Derivable' = Derivable
  BY <1>1, <1>2, PackageStays
<1>5. Judging'
  BY <1>1, <1>4 DEF AnalysisInv, Judging
<1>6. QED
  BY <1>1, <1>2, <1>3, <1>5 DEF AnalysisInv

LEMMA JudgeStep == AnalysisInv /\ Judge => AnalysisInv'
<1> SUFFICES ASSUME AnalysisInv, Judge PROVE AnalysisInv'
  OBVIOUS
<1>1. /\ phase = "components"
      /\ phase' = IF reachable \subseteq productive THEN "analysed" ELSE "refused"
      /\ UNCHANGED <<package, edges, pending, reachable, productive, solver, search>>
  BY DEF Judge
<1>2. SearchInv' /\ IInv' /\ Visiting'
  BY <1>1, SearchStays, StutterInvariant, VisitingStays DEF AnalysisInv, Visiting, solver
<1>3. Derivable' = Derivable
  BY <1>1, PackageStays
<1>4. Judging'
  BY <1>1, <1>3 DEF AnalysisInv, Judging
<1>5. QED
  BY <1>1, <1>2, <1>4 DEF AnalysisInv

LEMMA AnalysisStutters == AnalysisInv /\ UNCHANGED all => AnalysisInv'
<1> SUFFICES ASSUME AnalysisInv, UNCHANGED all PROVE AnalysisInv'
  OBVIOUS
<1>1. UNCHANGED <<package, phase, edges, pending, reachable, productive, solver, search>>
  BY DEF all
<1>2. SearchInv' /\ IInv' /\ Visiting'
  BY <1>1, SearchStays, StutterInvariant, VisitingStays DEF AnalysisInv, Visiting, solver
<1>3. Derivable' = Derivable
  BY <1>1, PackageStays
<1>4. Judging'
  BY <1>1, <1>3 DEF AnalysisInv, Judging, solver, vars
<1>5. QED
  BY <1>1, <1>2, <1>4 DEF AnalysisInv

LEMMA AnalysisStep == AnalysisInv /\ [AnalysisNext]_all => AnalysisInv'
BY VisitStep, ReachedStep, SolveStep, SolveAgainStep, SolvedStep, ComponentStep, JudgeStep,
   AnalysisStutters DEF AnalysisNext

(* Once nothing waits, the reachable rules are those the entries lead to.   *)
LEMMA VerdictFollows == AnalysisInv => VerdictIsRight
<1> SUFFICES ASSUME AnalysisInv, phase \in {"analysed", "refused"}
             PROVE  VerdictIsRight
  BY DEF VerdictIsRight
<1>1. pending = <<>> /\ Elements(<<>>) = {}
  BY DEF AnalysisInv, Visiting, Elements
<1>2. package \in Packages /\ EdgesTyped
  BY DEF AnalysisInv, SearchInv
<1>3. reachable = LeadsTo
  <2>1. reachable \in SUBSET Rule /\ reachable \subseteq LeadsTo
    BY DEF AnalysisInv, Visiting
  <2>2. /\ Elements(package.entries) \subseteq reachable
        /\ \A r \in reachable : Elements(edges[r]) \subseteq reachable
    BY <1>1 DEF AnalysisInv, Visiting
  <2>3. LeadsTo \subseteq reachable
    BY <1>2, <2>1, <2>2, LeadsToIs
  <2>4. QED
    BY <2>1, <2>3
<1>4. productive = Derivable[N]
  BY DEF AnalysisInv, Judging
<1>5. QED
  BY <1>3, <1>4 DEF AnalysisInv, Judging, VerdictIsRight

-----------------------------------------------------------------------------
(* analyze_graph accepts a package if and only if every rule its entries    *)
(* lead to can finish: for any number of rules and productions, any edges   *)
(* between them and any order of the worklists.                             *)
THEOREM PackageJudgedRight == AnalysisSpec => []VerdictIsRight
BY AnalysisStarts, AnalysisStep, VerdictFollows, PTL DEF AnalysisSpec

(* strongly_connected_components finds the components of every graph: when  *)
(* it ends two rules share one if and only if each derives the other, and   *)
(* the recursive flag is right.                                             *)
THEOREM ComponentsFound == AnalysisSpec => []ComponentsAreMutual
<1>1. AnalysisInv => ComponentsAreMutual
  BY ComponentsFollow DEF AnalysisInv
<1>2. QED
  BY AnalysisStarts, AnalysisStep, <1>1, PTL DEF AnalysisSpec

(* Both runs of solve_monotone_rule_property inside analyze_graph end with  *)
(* the least closed set.                                                    *)
THEOREM BothSolved == AnalysisSpec => []LeastClosedSet
<1>1. AnalysisInv => LeastClosedSet
  BY InvariantImplies DEF AnalysisInv
<1>2. QED
  BY AnalysisStarts, AnalysisStep, <1>1, PTL DEF AnalysisSpec

-----------------------------------------------------------------------------
(* Arithmetic of naturals.                                                  *)

LEMMA Times ==
  ASSUME NEW a \in Nat, NEW b \in Nat
  PROVE  a * b \in Nat /\ a * b = b * a
OBVIOUS

LEMMA TimesAssoc ==
  ASSUME NEW a \in Nat, NEW b \in Nat, NEW c \in Nat
  PROVE  (a * b) * c = a * (b * c)
OBVIOUS

LEMMA TimesPlus ==
  ASSUME NEW a \in Nat, NEW b \in Nat, NEW c \in Nat
  PROVE  a * (b + c) = a * b + a * c
OBVIOUS

LEMMA TimesPositive ==
  ASSUME NEW a \in Nat \ {0}, NEW b \in Nat
  PROVE  b <= a * b /\ (b # 0 => a * b # 0)
OBVIOUS

LEMMA TimesGrows ==
  ASSUME NEW a \in Nat, NEW b \in Nat, NEW c \in Nat, b <= c
  PROVE  a * b <= a * c
OBVIOUS

LEMMA TimesCancels ==
  ASSUME NEW a \in Nat \ {0}, NEW b \in Nat, NEW c \in Nat, a * b = a * c
  PROVE  b = c
OBVIOUS

LEMMA Dividing ==
  ASSUME NEW a \in Nat, NEW b \in Nat \ {0}
  PROVE  /\ a \div b \in Nat /\ a % b \in Nat /\ a % b < b
         /\ a = b * (a \div b) + (a % b)
OBVIOUS

LEMMA DividingExact ==
  ASSUME NEW b \in Nat \ {0}, NEW q \in Nat, NEW r \in Nat, r < b
  PROVE  (b * q + r) \div b = q /\ (b * q + r) % b = r
OBVIOUS

-----------------------------------------------------------------------------
(* Divisors.                                                                *)

Divides(d, n) == \E q \in Nat : n = d * q

Divisors(n) == {d \in Nat \ {0} : Divides(d, n)}

LEMMA DividesSelf ==
  ASSUME NEW n \in Nat
  PROVE  Divides(n, n) /\ Divides(n, 0) /\ Divides(1, n)
<1>1. n = n * 1 /\ 0 = n * 0 /\ n = 1 * n
  OBVIOUS
<1>2. QED
  BY <1>1 DEF Divides

LEMMA DividesTimes ==
  ASSUME NEW d \in Nat, NEW n \in Nat, NEW m \in Nat, Divides(d, n)
  PROVE  Divides(d, n * m) /\ Divides(d, m * n) /\ Divides(d * m, n * m) /\ Divides(m * d, m * n)
<1>1. PICK q \in Nat : n = d * q
  BY DEF Divides
<1>2. n * m = d * (q * m) /\ m * n = d * (q * m) /\ q * m \in Nat
  BY <1>1, TimesAssoc, Times
<1>3. n * m = (d * m) * q /\ m * n = (m * d) * q
  BY <1>1, TimesAssoc, Times
<1>4. QED
  BY <1>2, <1>3 DEF Divides

LEMMA DividesThrough ==
  ASSUME NEW d \in Nat, NEW n \in Nat, NEW m \in Nat, Divides(d, n), Divides(n, m)
  PROVE  Divides(d, m)
<1>1. PICK q \in Nat : n = d * q
  BY DEF Divides
<1>2. PICK r \in Nat : m = n * r
  BY DEF Divides
<1>3. m = d * (q * r) /\ q * r \in Nat
  BY <1>1, <1>2, TimesAssoc, Times
<1>4. QED
  BY <1>3 DEF Divides

LEMMA DividesCancels ==
  ASSUME NEW d \in Nat, NEW n \in Nat, NEW m \in Nat \ {0}, Divides(m * d, m * n)
  PROVE  Divides(d, n)
<1>1. PICK q \in Nat : m * n = (m * d) * q
  BY DEF Divides
<1>2. m * n = m * (d * q) /\ d * q \in Nat
  BY <1>1, TimesAssoc, Times
<1>3. n = d * q
  BY <1>2, TimesCancels
<1>4. QED
  BY <1>3 DEF Divides

LEMMA DividesBounds ==
  ASSUME NEW d \in Nat, NEW n \in Nat \ {0}, Divides(d, n)
  PROVE  d # 0 /\ d <= n
<1>1. PICK q \in Nat : n = d * q
  BY DEF Divides
<1>2. d # 0 /\ q # 0
  BY <1>1
<1>3. q \in Nat \ {0} /\ n = q * d
  BY <1>1, <1>2, Times
<1>4. QED
  BY <1>2, <1>3, TimesPositive

LEMMA DividesBoth ==
  ASSUME NEW a \in Nat, NEW b \in Nat, Divides(a, b), Divides(b, a)
  PROVE  a = b
<1>1. CASE a = 0
  BY <1>1 DEF Divides
<1>2. CASE b = 0
  BY <1>2 DEF Divides
<1>3. CASE a # 0 /\ b # 0
  <2>1. a <= b /\ b <= a
    BY <1>3, DividesBounds
  <2>2. QED
    BY <2>1
<1>4. QED
  BY <1>1, <1>2, <1>3

LEMMA DividesSum ==
  ASSUME NEW d \in Nat \ {0}, NEW a \in Nat, NEW b \in Nat, Divides(d, a)
  PROVE  Divides(d, a + b) <=> Divides(d, b)
<1>1. PICK q \in Nat : a = d * q
  BY DEF Divides
<1>2. ASSUME Divides(d, b) PROVE Divides(d, a + b)
  <2>1. PICK r \in Nat : b = d * r
    BY <1>2 DEF Divides
  <2>2. a + b = d * (q + r) /\ q + r \in Nat
    BY <1>1, <2>1, TimesPlus
  <2>3. QED
    BY <2>2 DEF Divides
<1>3. ASSUME Divides(d, a + b) PROVE Divides(d, b)
  <2>1. PICK r \in Nat : a + b = d * r
    BY <1>3 DEF Divides
  <2>2. q <= r
    <3>1. CASE r < q
      <4>1. r + 1 <= q /\ r + 1 \in Nat
        BY <3>1
      <4>2. d * (r + 1) <= d * q
        BY <4>1, TimesGrows
      <4>3. d * (r + 1) = d * r + d * 1 /\ d * 1 = d
        BY TimesPlus
      <4>4. d * r \in Nat /\ d * q \in Nat
        BY Times
      <4>5. QED
        BY <1>1, <2>1, <4>2, <4>3, <4>4
    <3>2. QED
      BY <3>1
  <2>3. r - q \in Nat /\ r = q + (r - q)
    BY <2>2
  <2>4. d * r = d * q + d * (r - q)
    BY <2>3, TimesPlus
  <2>5. b = d * (r - q)
    <3>1. d * r \in Nat /\ d * q \in Nat /\ d * (r - q) \in Nat
      BY <2>3, Times
    <3>2. QED
      BY <1>1, <2>1, <2>4, <3>1
  <2>6. QED
    BY <2>3, <2>5 DEF Divides
<1>4. QED
  BY <1>2, <1>3

LEMMA DivisorsDetermine ==
  ASSUME NEW a \in Nat, NEW b \in Nat, Divisors(a) = Divisors(b)
  PROVE  a = b
<1>1. ASSUME NEW x \in Nat, NEW y \in Nat, Divisors(x) = Divisors(y), x # 0 PROVE Divides(x, y)
  <2>1. x \in Divisors(x)
    BY <1>1, DividesSelf DEF Divisors
  <2>2. QED
    BY <1>1, <2>1 DEF Divisors
<1>2. CASE a # 0 /\ b # 0
  BY <1>1, <1>2, DividesBoth
<1>3. ASSUME NEW x \in Nat \ {0} PROVE Divisors(0) # Divisors(x)
  <2>1. x + 1 \in Nat \ {0}
    OBVIOUS
  <2>2. x + 1 \in Divisors(0)
    BY <2>1, DividesSelf DEF Divisors
  <2>3. x + 1 \notin Divisors(x)
    BY <2>1, DividesBounds DEF Divisors
  <2>4. QED
    BY <2>2, <2>3
<1>4. QED
  BY <1>2, <1>3

-----------------------------------------------------------------------------
(* Greatest common divisors.                                                *)

CommonDivisors(a, b) == Divisors(a) \cap Divisors(b)

LEMMA CommonWithNone ==
  ASSUME NEW a \in Nat
  PROVE  CommonDivisors(a, 0) = Divisors(a) /\ CommonDivisors(0, a) = Divisors(a)
<1>1. \A d \in Nat \ {0} : Divides(d, 0)
  BY DividesSelf
<1>2. QED
  BY <1>1 DEF CommonDivisors, Divisors

(* A round of Euclid's algorithm keeps the common divisors.                 *)
LEMMA EuclidKeeps ==
  ASSUME NEW a \in Nat, NEW b \in Nat \ {0}
  PROVE  /\ a % b \in Nat /\ a % b < b
         /\ CommonDivisors(a, b) = CommonDivisors(b, a % b)
<1>1. PICK q \in Nat, r \in Nat : q = a \div b /\ r = a % b /\ r < b /\ a = b * q + r
  BY Dividing
<1>2. ASSUME NEW d \in Nat \ {0}, Divides(d, b) PROVE Divides(d, a) <=> Divides(d, r)
  <2>1. Divides(d, b * q) /\ b * q \in Nat
    BY <1>2, DividesTimes, Times
  <2>2. QED
    BY <1>1, <2>1, DividesSum
<1>3. CommonDivisors(a, b) = CommonDivisors(b, r)
  BY <1>2 DEF CommonDivisors, Divisors
<1>4. QED
  BY <1>1, <1>3

LEMMA GreatestExists ==
  ASSUME NEW a \in Nat, NEW b \in Nat
  PROVE  \E g \in Nat : Divisors(g) = CommonDivisors(a, b)
<1> DEFINE Without == {n \in Nat : \E x \in Nat : \A g \in Nat : Divisors(g) # CommonDivisors(x, n)}
<1>1. CASE Without # {}
  <2>1. PICK n \in Without : \A m \in Without : n <= m
    <3>1. Without \subseteq Nat
      OBVIOUS
    <3> HIDE DEF Without
    <3>2. QED
      BY <1>1, <3>1, LeastOf
  <2>2. PICK x \in Nat : \A g \in Nat : Divisors(g) # CommonDivisors(x, n)
    OBVIOUS
  <2>3. n # 0
    BY <2>2, CommonWithNone
  <2>4. n \in Nat \ {0}
    BY <2>3
  <2>5. x % n \in Nat /\ x % n < n /\ CommonDivisors(x, n) = CommonDivisors(n, x % n)
    BY <2>4, EuclidKeeps
  <2>6. x % n \notin Without
    BY <2>1, <2>5
  <2>7. \E g \in Nat : Divisors(g) = CommonDivisors(n, x % n)
    BY <2>4, <2>5, <2>6
  <2>8. QED
    BY <2>2, <2>5, <2>7
<1>2. QED
  BY <1>1

(* Euclid's recursion has a solution, so gcd obeys its definition.          *)
LEMMA GcdRecursion ==
  ASSUME NEW a \in Nat, NEW b \in Nat
  PROVE  gcd[<<a, b>>] = IF b = 0 THEN a ELSE gcd[<<b, a % b>>]
<1> DEFINE Rec(f) == [pair \in Nat \X Nat |-> IF pair[2] = 0 THEN pair[1] ELSE f[<<pair[2], pair[1] % pair[2]>>]]
           greatest == [pair \in Nat \X Nat |-> CHOOSE g \in Nat : Divisors(g) = CommonDivisors(pair[1], pair[2])]
<1>1. ASSUME NEW x \in Nat, NEW y \in Nat
      PROVE  greatest[<<x, y>>] \in Nat /\ Divisors(greatest[<<x, y>>]) = CommonDivisors(x, y)
  <2>1. \E g \in Nat : Divisors(g) = CommonDivisors(x, y)
    BY GreatestExists
  <2>2. greatest[<<x, y>>] = CHOOSE g \in Nat : Divisors(g) = CommonDivisors(x, y)
    OBVIOUS
  <2> HIDE DEF greatest
  <2>3. QED
    BY <2>1, <2>2
<1>2. ASSUME NEW pair \in Nat \X Nat
      PROVE  greatest[pair] = IF pair[2] = 0 THEN pair[1] ELSE greatest[<<pair[2], pair[1] % pair[2]>>]
  <2>1. PICK x \in Nat, y \in Nat : pair = <<x, y>>
    OBVIOUS
  <2>2. pair[1] = x /\ pair[2] = y
    BY <2>1
  <2>3. CASE y = 0
    <3>1. Divisors(greatest[<<x, y>>]) = Divisors(x) /\ greatest[<<x, y>>] \in Nat
      <4> HIDE DEF greatest
      <4>1. QED
        BY <1>1, <2>3, CommonWithNone
    <3>2. greatest[<<x, y>>] = x
      <4> HIDE DEF greatest
      <4>1. QED
        BY <3>1, DivisorsDetermine
    <3> HIDE DEF greatest
    <3>3. QED
      BY <2>1, <2>2, <2>3, <3>2
  <2>4. CASE y # 0
    <3>1. y \in Nat \ {0}
      BY <2>4
    <3>2. x % y \in Nat /\ CommonDivisors(x, y) = CommonDivisors(y, x % y)
      BY <3>1, EuclidKeeps
    <3> HIDE DEF greatest
    <3>3. /\ Divisors(greatest[<<x, y>>]) = Divisors(greatest[<<y, x % y>>])
          /\ greatest[<<x, y>>] \in Nat /\ greatest[<<y, x % y>>] \in Nat
      BY <1>1, <3>2
    <3>4. greatest[<<x, y>>] = greatest[<<y, x % y>>]
      BY <3>3, DivisorsDetermine
    <3>5. QED
      BY <2>1, <2>2, <2>4, <3>4
  <2>5. QED
    BY <2>3, <2>4
<1>3. greatest = Rec(greatest)
  <2>1. greatest = [pair \in Nat \X Nat |-> greatest[pair]]
    OBVIOUS
  <2> HIDE DEF greatest
  <2>2. QED
    BY <1>2, <2>1
<1>4. gcd = CHOOSE f : f = Rec(f)
  BY DEF gcd
<1>5. gcd = Rec(gcd)
  <2> HIDE DEF Rec, greatest
  <2>1. QED
    BY <1>3, <1>4
<1>6. <<a, b>> \in Nat \X Nat /\ <<a, b>>[1] = a /\ <<a, b>>[2] = b
  OBVIOUS
<1>7. PICK f : f = gcd
  OBVIOUS
<1>8. f = Rec(f)
  BY <1>5, <1>7
<1>9. f[<<a, b>>] = IF b = 0 THEN a ELSE f[<<b, a % b>>]
  BY <1>6, <1>8
<1>10. QED
  BY <1>7, <1>9

(* The common divisors of two numbers are the divisors of their gcd.        *)
LEMMA GcdIs ==
  ASSUME NEW a \in Nat, NEW b \in Nat
  PROVE  gcd[<<a, b>>] \in Nat /\ Divisors(gcd[<<a, b>>]) = CommonDivisors(a, b)
<1> DEFINE Right(x, n) == gcd[<<x, n>>] \in Nat /\ Divisors(gcd[<<x, n>>]) = CommonDivisors(x, n)
           Wrong == {n \in Nat : \E x \in Nat : ~ Right(x, n)}
<1>1. CASE Wrong # {}
  <2>1. PICK n \in Wrong : \A m \in Wrong : n <= m
    <3>1. Wrong \subseteq Nat
      OBVIOUS
    <3> HIDE DEF Wrong
    <3>2. QED
      BY <1>1, <3>1, LeastOf
  <2>2. PICK x \in Nat : ~ Right(x, n)
    <3> HIDE DEF Right
    <3>1. QED
      OBVIOUS
  <2>3. n # 0
    <3>1. ASSUME n = 0 PROVE FALSE
      <4>1. gcd[<<x, n>>] = x
        BY <3>1, GcdRecursion
      <4>2. CommonDivisors(x, n) = Divisors(x)
        BY <3>1, CommonWithNone
      <4>3. QED
        BY <2>2, <4>1, <4>2
    <3>2. QED
      BY <3>1
  <2>4. n \in Nat \ {0}
    BY <2>3
  <2>5. x % n \in Nat /\ x % n < n /\ CommonDivisors(x, n) = CommonDivisors(n, x % n)
    BY <2>4, EuclidKeeps
  <2>6. x % n \notin Wrong
    <3> HIDE DEF Wrong
    <3>1. n \in Nat
      BY <2>4
    <3>2. QED
      BY <2>1, <2>5, <3>1
  <2>7. Right(n, x % n)
    <3> HIDE DEF Right
    <3>1. QED
      BY <2>4, <2>5, <2>6
  <2>8. gcd[<<x, n>>] = gcd[<<n, x % n>>]
    BY <2>4, <2>5, GcdRecursion
  <2>9. QED
    BY <2>2, <2>5, <2>7, <2>8
<1>2. CASE Wrong = {}
  <2>1. Right(a, b)
    <3> HIDE DEF Right
    <3>1. QED
      BY <1>2
  <2>2. QED
    BY <2>1
<1>3. QED
  BY <1>1, <1>2

LEMMA GcdDivides ==
  ASSUME NEW a \in Nat, NEW b \in Nat, a # 0 \/ b # 0
  PROVE  LET g == gcd[<<a, b>>]
         IN  /\ g \in Nat \ {0} /\ Divides(g, a) /\ Divides(g, b)
             /\ \A d \in Nat \ {0} : Divides(d, a) /\ Divides(d, b) <=> Divides(d, g)
<1>1. PICK g : g = gcd[<<a, b>>]
  OBVIOUS
<1>2. g \in Nat /\ Divisors(g) = CommonDivisors(a, b)
  BY <1>1, GcdIs
<1>3. g # 0
  <2>1. ASSUME NEW n \in Nat, n # 0, Divisors(0) \subseteq Divisors(n) PROVE FALSE
    <3>1. n + 1 \in Nat \ {0} /\ n \in Nat \ {0}
      BY <2>1
    <3>2. n + 1 \in Divisors(0)
      BY <3>1, DividesSelf DEF Divisors
    <3>3. Divides(n + 1, n)
      BY <2>1, <3>2 DEF Divisors
    <3>4. n + 1 <= n
      BY <3>1, <3>3, DividesBounds
    <3>5. QED
      BY <3>4
  <2>2. CommonDivisors(a, b) \subseteq Divisors(a) /\ CommonDivisors(a, b) \subseteq Divisors(b)
    BY DEF CommonDivisors
  <2>3. QED
    BY <1>2, <2>1, <2>2
<1>4. \A d \in Nat \ {0} : Divides(d, a) /\ Divides(d, b) <=> Divides(d, g)
  BY <1>2 DEF CommonDivisors, Divisors
<1>5. Divides(g, a) /\ Divides(g, b)
  BY <1>2, <1>3, <1>4, DividesSelf
<1>6. QED
  BY <1>1, <1>2, <1>3, <1>4, <1>5

(* gcd is linear.                                                           *)
LEMMA GcdTimes ==
  ASSUME NEW a \in Nat, NEW b \in Nat, a # 0 \/ b # 0, NEW w \in Nat \ {0}
  PROVE  gcd[<<w * a, w * b>>] = w * gcd[<<a, b>>]
<1>1. PICK g \in Nat \ {0} :
        /\ g = gcd[<<a, b>>] /\ Divides(g, a) /\ Divides(g, b)
        /\ \A d \in Nat \ {0} : Divides(d, a) /\ Divides(d, b) <=> Divides(d, g)
  BY GcdDivides
<1>2. w * a \in Nat /\ w * b \in Nat /\ (w * a # 0 \/ w * b # 0) /\ w * g \in Nat \ {0}
  BY <1>1, Times, TimesPositive
<1>3. PICK G \in Nat \ {0} :
        /\ G = gcd[<<w * a, w * b>>]
        /\ \A d \in Nat \ {0} : Divides(d, w * a) /\ Divides(d, w * b) <=> Divides(d, G)
  BY <1>2, GcdDivides
<1>4. Divides(w, w * a) /\ Divides(w, w * b)
  BY DividesSelf, DividesTimes
<1>5. PICK h \in Nat : G = w * h
  BY <1>3, <1>4 DEF Divides
<1>6. h # 0
  BY <1>3, <1>5
<1>7. Divides(w * h, w * a) /\ Divides(w * h, w * b)
  BY <1>3, <1>5, DividesSelf
<1>8. Divides(h, a) /\ Divides(h, b)
  BY <1>7, DividesCancels
<1>9. Divides(h, g)
  BY <1>1, <1>6, <1>8
<1>10. Divides(w * g, w * a) /\ Divides(w * g, w * b)
  BY <1>1, DividesTimes
<1>11. Divides(w * g, w * h)
  BY <1>2, <1>3, <1>5, <1>10
<1>12. Divides(g, h)
  BY <1>1, <1>11, DividesCancels
<1>13. g = h
  BY <1>1, <1>9, <1>12, DividesBoth
<1>14. QED
  BY <1>1, <1>3, <1>5, <1>13

(* What divides a product and has nothing in common with one factor divides *)
(* the other.                                                               *)
LEMMA DividesOther ==
  ASSUME NEW a \in Nat \ {0}, NEW b \in Nat, NEW c \in Nat, gcd[<<a, b>>] = 1, Divides(a, b * c)
  PROVE  Divides(a, c)
<1>1. CASE c = 0
  BY <1>1, DividesSelf
<1>2. CASE c # 0
  <2>1. c * a \in Nat \ {0} /\ c * b \in Nat /\ c * b = b * c
    BY <1>2, Times, TimesPositive
  <2>2. Divides(a, c * a) /\ Divides(a, c * b)
    BY <2>1, DividesSelf, DividesTimes
  <2>3. gcd[<<c * a, c * b>>] = c * gcd[<<a, b>>]
    BY <1>2, GcdTimes
  <2>4. gcd[<<c * a, c * b>>] = c
    BY <2>3
  <2>5. Divides(a, gcd[<<c * a, c * b>>])
    BY <2>1, <2>2, GcdDivides
  <2>6. QED
    BY <2>4, <2>5
<1>3. QED
  BY <1>1, <1>2

(* The least common multiple, as normalize_rationals computes it.           *)
LEMMA LeastMultiple ==
  ASSUME NEW a \in Nat \ {0}, NEW b \in Nat \ {0},
         NEW m, m = (a \div gcd[<<a, b>>]) * b
  PROVE  /\ m \in Nat \ {0} /\ Divides(a, m) /\ Divides(b, m)
         /\ \A n \in Nat : Divides(a, n) /\ Divides(b, n) => Divides(m, n)
<1>1. PICK g \in Nat \ {0} : g = gcd[<<a, b>>] /\ Divides(g, a) /\ Divides(g, b)
  BY GcdDivides
<1>2. PICK x \in Nat : a = g * x
  BY <1>1 DEF Divides
<1>3. PICK y \in Nat : b = g * y
  BY <1>1 DEF Divides
<1>4. x # 0 /\ y # 0
  BY <1>2, <1>3
<1>5. a \div g = x
  <2>1. (g * x + 0) \div g = x
    BY DividingExact
  <2>2. g * x + 0 = a
    BY <1>2
  <2>3. QED
    BY <2>1, <2>2
<1>6. m = x * b
  BY <1>1, <1>5
<1>7. m \in Nat \ {0} /\ Divides(b, m)
  <2>1. x * b \in Nat \ {0}
    BY <1>4, Times, TimesPositive
  <2>2. Divides(b, x * b)
    BY DividesSelf, DividesTimes
  <2>3. QED
    BY <1>6, <2>1, <2>2
<1>8. m = a * y
  <2>1. x * (g * y) = (x * g) * y /\ x * g = g * x
    BY TimesAssoc, Times
  <2>2. QED
    BY <1>2, <1>3, <1>6, <2>1
<1>9. Divides(a, m)
  BY <1>8 DEF Divides
<1>10. gcd[<<x, y>>] = 1
  <2>1. gcd[<<g * x, g * y>>] = g * gcd[<<x, y>>]
    BY <1>4, GcdTimes
  <2>2. gcd[<<g * x, g * y>>] = g
    BY <1>1, <1>2, <1>3
  <2>3. gcd[<<x, y>>] \in Nat
    BY GcdIs
  <2>4. g * 1 = g * gcd[<<x, y>>]
    BY <2>1, <2>2
  <2>5. QED
    BY <2>3, <2>4, TimesCancels
<1>11. ASSUME NEW n \in Nat, Divides(a, n), Divides(b, n) PROVE Divides(m, n)
  <2>1. PICK p \in Nat : n = a * p
    BY <1>11 DEF Divides
  <2>2. PICK q \in Nat : n = b * q
    BY <1>11 DEF Divides
  <2>3. g * (x * p) = g * (y * q) /\ x * p \in Nat /\ y * q \in Nat
    BY <1>2, <1>3, <2>1, <2>2, TimesAssoc, Times
  <2>4. x * p = y * q
    BY <2>3, TimesCancels
  <2>5. Divides(x, y * q)
    BY <2>4 DEF Divides
  <2>6. Divides(x, q)
    BY <1>4, <1>10, <2>5, DividesOther
  <2>7. Divides(b * x, b * q)
    BY <2>6, DividesTimes
  <2>8. b * x = m
    BY <1>6, Times
  <2>9. QED
    BY <2>2, <2>7, <2>8
<1>12. QED
  BY <1>7, <1>9, <1>11

-----------------------------------------------------------------------------
(* Weights of a rule become integers.                                       *)

LEMMA FractionIs ==
  ASSUME NEW list \in Seq(Fractions), NEW k \in 1 .. Len(list)
  PROVE  /\ list[k].num \in Int /\ list[k].num <= I64Max
         /\ list[k].den \in Nat \ {0} /\ list[k].den <= I64Max
<1>1. list[k] \in Fractions
  OBVIOUS
<1>2. Half \in Nat /\ I64Max \in Int /\ -I64Max \in Int
  BY WidthAssumption DEF I64Max
<1>3. list[k].num \in -I64Max .. I64Max /\ list[k].den \in 1 .. I64Max
  BY <1>1 DEF Fractions
<1>4. QED
  BY <1>2, <1>3

LEMMA DenominatorRuns ==
  ASSUME NEW list \in Seq(Fractions)
  PROVE  LET D == CommonDenominator(list)
         IN  /\ D[0] = 1
             /\ \A k \in 0 .. Len(list) : D[k] \in Nat \ {0}
             /\ \A k \in 1 .. Len(list) :
                  D[k] = (D[k - 1] \div gcd[<<D[k - 1], list[k].den>>]) * list[k].den
<1>1. PICK n \in Nat : n = Len(list)
  OBVIOUS
<1> DEFINE U == Nat \ {0}
           next(u, k) == (u \div gcd[<<u, list[k].den>>]) * list[k].den
           step == [k \in 1 .. n |-> [u \in U |-> next(u, k)]]
           Rec(f) == [k \in 0 .. n |-> IF k = 0 THEN 1 ELSE next(f[k - 1], k)]
<1>2. ASSUME NEW k \in 1 .. n, NEW u \in U PROVE next(u, k) \in U
  <2>1. list[k].den \in Nat \ {0}
    BY <1>1, FractionIs
  <2>2. QED
    BY <2>1, LeastMultiple
<1>3. step \in [1 .. n -> [U -> U]] /\ \A k \in 1 .. n, u \in U : step[k][u] = next(u, k)
  <2> HIDE DEF next, U
  <2>1. QED
    BY <1>2
<1>4. PICK w : RunOf(w, U, 1, step, n)
  <2> HIDE DEF step
  <2>1. 1 \in U
    OBVIOUS
  <2> HIDE DEF U
  <2>2. QED
    BY <1>3, <2>1, RunsExist
<1>5. w = Rec(w)
  <2> HIDE DEF step, next, U
  <2>1. ASSUME NEW k \in 0 .. n PROVE w[k] = IF k = 0 THEN 1 ELSE next(w[k - 1], k)
    <3>1. CASE k = 0
      BY <1>4, <3>1 DEF RunOf
    <3>2. CASE k # 0
      <4>1. k \in 1 .. n /\ k - 1 \in 0 .. n
        BY <3>2
      <4>2. w[k - 1] \in U /\ w[k] = step[k][w[k - 1]]
        BY <1>4, <4>1 DEF RunOf
      <4>3. QED
        BY <1>3, <3>2, <4>1, <4>2
    <3>3. QED
      BY <3>1, <3>2
  <2>2. w = [k \in 0 .. n |-> w[k]]
    BY <1>4 DEF RunOf
  <2>3. QED
    BY <2>1, <2>2
<1>6. CommonDenominator(list) = CHOOSE f : f = Rec(f)
  BY <1>1 DEF CommonDenominator
<1>7. PICK f : f = CommonDenominator(list) /\ f = Rec(f)
  <2> HIDE DEF Rec
  <2>1. QED
    BY <1>5, <1>6
<1>8. /\ f = [k \in 0 .. n |-> f[k]] /\ f[0] = 1
      /\ \A k \in 1 .. n : f[k] = next(f[k - 1], k)
  <2> HIDE DEF next
  <2>1. 0 \in 0 .. n /\ \A k \in 1 .. n : k \in 0 .. n /\ k # 0
    OBVIOUS
  <2>2. QED
    BY <1>7, <2>1
<1>9. RunOf(f, U, 1, step, n)
  <2> HIDE DEF step, next
  <2>1. 1 \in U
    OBVIOUS
  <2> HIDE DEF U
  <2>2. \A k \in 1 .. n : f[k - 1] \in U => f[k] = step[k][f[k - 1]]
    BY <1>3, <1>8
  <2>3. QED
    BY <1>3, <1>8, <2>1, <2>2, RecursionRuns
<1>10. \A k \in 0 .. n : f[k] \in U
  BY <1>9 DEF RunOf
<1>11. QED
  BY <1>1, <1>7, <1>8, <1>10

Denominators(list, k, m) == \A j \in 1 .. k : Divides(list[j].den, m)

(* After k fractions: the least common multiple of their denominators.      *)
LEMMA DenominatorIs ==
  ASSUME NEW list \in Seq(Fractions), NEW k \in 0 .. Len(list)
  PROVE  LET D == CommonDenominator(list)
         IN  /\ D[k] \in Nat \ {0} /\ Denominators(list, k, D[k])
             /\ \A m \in Nat : Denominators(list, k, m) => Divides(D[k], m)
<1>1. PICK n \in Nat : n = Len(list)
  OBVIOUS
<1>2. PICK D : D = CommonDenominator(list)
  OBVIOUS
<1>3. /\ D[0] = 1 /\ \A i \in 0 .. n : D[i] \in Nat \ {0}
      /\ \A i \in 1 .. n : D[i] = (D[i - 1] \div gcd[<<D[i - 1], list[i].den>>]) * list[i].den
  BY <1>1, <1>2, DenominatorRuns
<1> DEFINE Least(i) == /\ Denominators(list, i, D[i])
                       /\ \A m \in Nat : Denominators(list, i, m) => Divides(D[i], m)
           T == {i \in 0 .. n : Least(i)}
<1>4. 0 \in T
  <2>1. Denominators(list, 0, D[0])
    BY DEF Denominators
  <2>2. \A m \in Nat : Divides(D[0], m)
    BY <1>3, DividesSelf
  <2>3. QED
    BY <2>1, <2>2
<1>5. ASSUME NEW i \in 0 .. n, i \in T, i < n PROVE i + 1 \in T
  <2>1. i + 1 \in 1 .. n /\ (i + 1) - 1 = i /\ i + 1 \in 0 .. n
    BY <1>5
  <2>2. PICK a \in Nat \ {0} : a = D[i]
    BY <1>3, <1>5
  <2>3. PICK b \in Nat \ {0} : b = list[i + 1].den
    BY <1>1, <2>1, FractionIs
  <2>4. D[i + 1] = (a \div gcd[<<a, b>>]) * b
    BY <1>3, <2>1, <2>2, <2>3
  <2>5. PICK c \in Nat \ {0} :
          /\ c = D[i + 1] /\ Divides(a, c) /\ Divides(b, c)
          /\ \A m \in Nat : Divides(a, m) /\ Divides(b, m) => Divides(c, m)
    BY <2>4, LeastMultiple
  <2>6. \A j \in 1 .. i + 1 : j \in 1 .. i \/ j = i + 1
    OBVIOUS
  <2>7. Denominators(list, i + 1, c)
    <3>1. ASSUME NEW j \in 1 .. i + 1 PROVE Divides(list[j].den, c)
      <4>1. CASE j = i + 1
        BY <2>3, <2>5, <4>1
      <4>2. CASE j \in 1 .. i
        <5>1. Divides(list[j].den, a)
          BY <1>5, <2>2, <4>2 DEF Denominators
        <5>2. j \in 1 .. Len(list)
          BY <1>1, <2>1, <4>2
        <5>3. list[j].den \in Nat
          BY <5>2, FractionIs
        <5>4. QED
          BY <2>5, <5>1, <5>3, DividesThrough
      <4>3. QED
        BY <2>6, <4>1, <4>2
    <3>2. QED
      BY <3>1 DEF Denominators
  <2>8. ASSUME NEW m \in Nat, Denominators(list, i + 1, m) PROVE Divides(c, m)
    <3>1. i + 1 \in 1 .. i + 1 /\ \A j \in 1 .. i : j \in 1 .. i + 1
      BY <1>5
    <3>2. Denominators(list, i, m) /\ Divides(b, m)
      BY <2>3, <2>8, <3>1 DEF Denominators
    <3>3. Divides(a, m)
      BY <1>5, <2>2, <3>2
    <3>4. QED
      BY <2>5, <3>2, <3>3
  <2>9. QED
    BY <2>1, <2>5, <2>7, <2>8
<1>6. \A i \in 0 .. n : i \in T
  <2> HIDE DEF T
  <2>1. QED
    BY <1>4, <1>5, StepByStep
<1>7. Least(k)
  BY <1>1, <1>6
<1>8. QED
  BY <1>1, <1>2, <1>3, <1>7

(* Divisor's recursion has a solution.                                      *)
LEMMA DivisorRuns ==
  ASSUME NEW s \in Seq(Nat)
  PROVE  \E f : /\ f[0] = 0 /\ \A k \in 0 .. Len(s) : f[k] \in Nat
                /\ \A k \in 1 .. Len(s) : f[k] = gcd[<<f[k - 1], s[k]>>]
                /\ Divisor(s) = f[Len(s)]
<1>1. PICK n \in Nat : n = Len(s)
  OBVIOUS
<1> DEFINE next(u, k) == gcd[<<u, s[k]>>]
           step == [k \in 1 .. n |-> [u \in Nat |-> next(u, k)]]
           Rec(f) == [k \in 0 .. n |-> IF k = 0 THEN 0 ELSE next(f[k - 1], k)]
<1>2. ASSUME NEW k \in 1 .. n, NEW u \in Nat PROVE next(u, k) \in Nat
  <2>1. s[k] \in Nat
    BY <1>1
  <2>2. QED
    BY <2>1, GcdIs
<1>3. step \in [1 .. n -> [Nat -> Nat]] /\ \A k \in 1 .. n, u \in Nat : step[k][u] = next(u, k)
  <2> HIDE DEF next
  <2>1. QED
    BY <1>2
<1>4. PICK w : RunOf(w, Nat, 0, step, n)
  <2> HIDE DEF step
  <2>1. QED
    BY <1>3, RunsExist
<1>5. w = Rec(w)
  <2> HIDE DEF step, next
  <2>1. ASSUME NEW k \in 0 .. n PROVE w[k] = IF k = 0 THEN 0 ELSE next(w[k - 1], k)
    <3>1. CASE k = 0
      BY <1>4, <3>1 DEF RunOf
    <3>2. CASE k # 0
      <4>1. k \in 1 .. n /\ k - 1 \in 0 .. n
        BY <3>2
      <4>2. w[k - 1] \in Nat /\ w[k] = step[k][w[k - 1]]
        BY <1>4, <4>1 DEF RunOf
      <4>3. QED
        BY <1>3, <3>2, <4>1, <4>2
    <3>3. QED
      BY <3>1, <3>2
  <2>2. w = [k \in 0 .. n |-> w[k]]
    BY <1>4 DEF RunOf
  <2>3. QED
    BY <2>1, <2>2
<1>6. Divisor(s) = (CHOOSE f : f = Rec(f))[n]
  BY <1>1 DEF Divisor
<1>7. PICK f : Divisor(s) = f[n] /\ f = Rec(f)
  <2> HIDE DEF Rec
  <2>1. QED
    BY <1>5, <1>6
<1>8. /\ f = [k \in 0 .. n |-> f[k]] /\ f[0] = 0
      /\ \A k \in 1 .. n : f[k] = next(f[k - 1], k)
  <2> HIDE DEF next
  <2>1. 0 \in 0 .. n /\ \A k \in 1 .. n : k \in 0 .. n /\ k # 0
    OBVIOUS
  <2>2. QED
    BY <1>7, <2>1
<1>9. RunOf(f, Nat, 0, step, n)
  <2> HIDE DEF step, next
  <2>1. \A k \in 1 .. n : f[k - 1] \in Nat => f[k] = step[k][f[k - 1]]
    BY <1>3, <1>8
  <2>2. QED
    BY <1>3, <1>8, <2>1, RecursionRuns
<1>10. \A k \in 0 .. n : f[k] \in Nat
  BY <1>9 DEF RunOf
<1>11. QED
  BY <1>1, <1>7, <1>8, <1>10

DividesAll(d, s, k) == \A j \in 1 .. k : Divides(d, s[j])

(* The common divisors of a sequence are the divisors of its Divisor.       *)
LEMMA DivisorIs ==
  ASSUME NEW s \in Seq(Nat)
  PROVE  /\ Divisor(s) \in Nat
         /\ \A d \in Nat \ {0} : Divides(d, Divisor(s)) <=> DividesAll(d, s, Len(s))
         /\ \A j \in 1 .. Len(s) : s[j] # 0 => Divisor(s) # 0
<1>1. PICK n \in Nat : n = Len(s)
  OBVIOUS
<1>2. PICK f : /\ f[0] = 0 /\ \A k \in 0 .. n : f[k] \in Nat
               /\ \A k \in 1 .. n : f[k] = gcd[<<f[k - 1], s[k]>>]
               /\ Divisor(s) = f[n]
  BY <1>1, DivisorRuns
<1> DEFINE Common(i) == \A d \in Nat \ {0} : Divides(d, f[i]) <=> DividesAll(d, s, i)
           T == {i \in 0 .. n : Common(i)}
<1>3. 0 \in T
  <2>1. \A d \in Nat \ {0} : Divides(d, f[0]) /\ DividesAll(d, s, 0)
    BY <1>2, DividesSelf DEF DividesAll
  <2>2. QED
    BY <2>1
<1>4. ASSUME NEW i \in 0 .. n, i \in T, i < n PROVE i + 1 \in T
  <2>1. i + 1 \in 1 .. n /\ (i + 1) - 1 = i /\ i + 1 \in 0 .. n
    BY <1>4
  <2>2. PICK a \in Nat : a = f[i]
    BY <1>2
  <2>3. PICK b \in Nat : b = s[i + 1]
    BY <1>1, <2>1
  <2>4. PICK c \in Nat : c = f[i + 1] /\ Divisors(c) = CommonDivisors(a, b)
    <3>1. f[i + 1] = gcd[<<a, b>>]
      BY <1>2, <2>1, <2>2, <2>3
    <3>2. QED
      BY <3>1, GcdIs
  <2>5. \A d \in Nat \ {0} : Divides(d, c) <=> Divides(d, a) /\ Divides(d, b)
    BY <2>4 DEF Divisors, CommonDivisors
  <2>6. \A d : DividesAll(d, s, i + 1) <=> DividesAll(d, s, i) /\ Divides(d, b)
    <3>1. \A j : j \in 1 .. i + 1 <=> j \in 1 .. i \/ j = i + 1
      OBVIOUS
    <3>2. QED
      BY <2>3, <3>1 DEF DividesAll
  <2>7. \A d \in Nat \ {0} : Divides(d, a) <=> DividesAll(d, s, i)
    BY <1>4, <2>2
  <2>8. QED
    BY <2>1, <2>4, <2>5, <2>6, <2>7
<1>5. \A i \in 0 .. n : i \in T
  <2> HIDE DEF T
  <2>1. QED
    BY <1>3, <1>4, StepByStep
<1>6. Common(n)
  BY <1>5
<1>7. ASSUME NEW j \in 1 .. n, s[j] # 0 PROVE Divisor(s) # 0
  <2>1. PICK m \in Nat : m = s[j] /\ m # 0
    BY <1>1, <1>7
  <2>2. CASE f[n] = 0
    <3>1. m + 1 \in Nat \ {0}
      OBVIOUS
    <3>2. Divides(m + 1, f[n])
      BY <2>2, <3>1, DividesSelf
    <3>3. Divides(m + 1, m)
      BY <1>6, <2>1, <3>1, <3>2 DEF DividesAll
    <3>4. m + 1 <= m
      BY <2>1, <3>1, <3>3, DividesBounds
    <3>5. QED
      BY <3>4
  <2>3. QED
    BY <1>2, <2>2
<1>8. Divisor(s) \in Nat
  BY <1>2
<1>9. QED
  BY <1>1, <1>2, <1>6, <1>7, <1>8

(* Weights that are positive, at least one of them.                         *)
Weighing(list) ==
  /\ list \in Seq(Fractions) /\ list # <<>>
  /\ \A k \in 1 .. Len(list) : list[k].num > 0

Common(list) == CommonDenominator(list)[Len(list)]

LEMMA WeightIs ==
  ASSUME NEW list, Weighing(list), NEW k \in 1 .. Len(list)
  PROVE  /\ list[k].num \in Nat \ {0} /\ list[k].num <= I64Max
         /\ list[k].den \in Nat \ {0} /\ list[k].den <= I64Max
BY FractionIs DEF Weighing

LEMMA LengthIs ==
  ASSUME NEW list, Weighing(list)
  PROVE  /\ Len(list) \in Nat \ {0} /\ DOMAIN list = 1 .. Len(list)
         /\ list \in Seq(Fractions)
BY DEF Weighing

(* Scaled weights are integers.                                             *)
LEMMA ScaledIs ==
  ASSUME NEW list, Weighing(list)
  PROVE  /\ Common(list) \in Nat \ {0}
         /\ Scaled(list) \in Seq(Nat \ {0}) /\ Len(Scaled(list)) = Len(list)
         /\ \A k \in 1 .. Len(list) :
              /\ Divides(list[k].den, Common(list))
              /\ \E e \in Nat \ {0} : /\ Common(list) = list[k].den * e
                                      /\ Scaled(list)[k] = list[k].num * e
         /\ \A k \in 1 .. Len(list) : Scaled(list)[k] * list[k].den = list[k].num * Common(list)
<1>1. PICK n \in Nat \ {0} : n = Len(list) /\ DOMAIN list = 1 .. n
  BY LengthIs
<1>2. PICK M \in Nat \ {0} : M = Common(list) /\ Denominators(list, n, M)
  BY <1>1, LengthIs, DenominatorIs DEF Common
<1>3. \A k \in 1 .. n : Scaled(list)[k] = list[k].num * (M \div list[k].den)
  BY <1>1, <1>2 DEF Scaled, Common
<1>4. ASSUME NEW k \in 1 .. n
      PROVE  \E e \in Nat \ {0} : /\ M = list[k].den * e /\ Scaled(list)[k] = list[k].num * e
                                  /\ Scaled(list)[k] \in Nat \ {0}
                                  /\ Scaled(list)[k] * list[k].den = list[k].num * M
  <2>1. PICK d \in Nat \ {0} : d = list[k].den
    BY <1>1, WeightIs
  <2>2. PICK w \in Nat \ {0} : w = list[k].num
    BY <1>1, WeightIs
  <2>3. PICK e \in Nat : M = d * e
    BY <1>2, <2>1 DEF Denominators, Divides
  <2>4. e # 0
    BY <2>3
  <2>5. M \div d = e
    <3>1. (d * e + 0) \div d = e
      BY <2>3, DividingExact
    <3>2. d * e + 0 = M
      BY <2>3
    <3>3. QED
      BY <3>1, <3>2
  <2>6. Scaled(list)[k] = w * e
    BY <1>3, <2>1, <2>2, <2>5
  <2>7. w * e \in Nat \ {0}
    BY <2>4, Times, TimesPositive
  <2>8. (w * e) * d = w * M
    BY <2>3, TimesAssoc, Times
  <2>9. QED
    BY <2>1, <2>2, <2>3, <2>4, <2>6, <2>7, <2>8
<1>5. Scaled(list) \in Seq(Nat \ {0}) /\ Len(Scaled(list)) = n
  <2>1. Scaled(list) = [k \in 1 .. n |-> Scaled(list)[k]]
    BY <1>1 DEF Scaled
  <2>2. \A k \in 1 .. n : Scaled(list)[k] \in Nat \ {0}
    BY <1>4
  <2>3. PICK s : s = Scaled(list)
    OBVIOUS
  <2>4. s = [k \in 1 .. n |-> s[k]] /\ \A k \in 1 .. n : s[k] \in Nat \ {0}
    BY <2>1, <2>2, <2>3
  <2>5. s \in Seq(Nat \ {0}) /\ Len(s) = n
    BY <2>4
  <2>6. QED
    BY <2>3, <2>5
<1>6. \A k \in 1 .. n : Divides(list[k].den, M)
  BY <1>2 DEF Denominators
<1>7. QED
  BY <1>1, <1>2, <1>4, <1>5, <1>6

(* The division by the common divisor is exact.                             *)
LEMMA NormalizedIs ==
  ASSUME NEW list, Weighing(list)
  PROVE  /\ Normalize(list) \in Seq(Nat \ {0}) /\ Len(Normalize(list)) = Len(list)
         /\ Divisor(Scaled(list)) \in Nat \ {0}
         /\ \A k \in 1 .. Len(list) :
              /\ Normalize(list)[k] \in Nat \ {0}
              /\ Scaled(list)[k] = Divisor(Scaled(list)) * Normalize(list)[k]
<1>1. PICK n \in Nat \ {0} : n = Len(list) /\ DOMAIN list = 1 .. n
  BY LengthIs
<1>2. PICK s : s = Scaled(list)
  OBVIOUS
<1>3. s \in Seq(Nat \ {0}) /\ Len(s) = n
  BY <1>1, <1>2, ScaledIs
<1>4. \A k \in 1 .. n : s[k] \in Nat \ {0}
  BY <1>3
<1>5. s \in Seq(Nat)
  BY <1>3
<1>6. PICK D \in Nat \ {0} : D = Divisor(s) /\ DividesAll(D, s, n)
  <2>1. 1 \in 1 .. n /\ s[1] # 0
    BY <1>4
  <2>2. Divisor(s) \in Nat \ {0}
    BY <1>3, <1>5, <2>1, DivisorIs
  <2>3. Divides(Divisor(s), Divisor(s))
    BY <2>2, DividesSelf
  <2>4. DividesAll(Divisor(s), s, n)
    BY <1>3, <1>5, <2>2, <2>3, DivisorIs
  <2>5. QED
    BY <2>2, <2>4
<1>7. PICK t : t = Normalize(list)
  OBVIOUS
<1>8. t = [k \in 1 .. n |-> s[k] \div D]
  BY <1>1, <1>2, <1>6, <1>7 DEF Normalize
<1>9. ASSUME NEW k \in 1 .. n PROVE t[k] \in Nat \ {0} /\ s[k] = D * t[k]
  <2>1. PICK m \in Nat \ {0} : m = s[k]
    BY <1>4
  <2>2. PICK q \in Nat : m = D * q
    BY <1>6, <2>1 DEF DividesAll, Divides
  <2>3. (D * q + 0) \div D = q /\ D * q + 0 = m
    BY <2>2, DividingExact
  <2>4. t[k] = q /\ q # 0
    <3>1. t[k] = m \div D
      BY <1>8, <2>1
    <3>2. q # 0
      BY <2>2
    <3>3. QED
      BY <2>2, <2>3, <3>1, <3>2
  <2>5. QED
    BY <2>1, <2>2, <2>4
<1>10. t \in Seq(Nat \ {0}) /\ Len(t) = n
  <2>1. t = [k \in 1 .. n |-> t[k]] /\ \A k \in 1 .. n : t[k] \in Nat \ {0}
    BY <1>8, <1>9
  <2>2. QED
    BY <2>1
<1>11. QED
  BY <1>1, <1>2, <1>6, <1>7, <1>9, <1>10

(* The integer weights have no common divisor.                              *)
LEMMA NormalizedApart ==
  ASSUME NEW list, Weighing(list)
  PROVE  Divisor(Normalize(list)) = 1
<1>1. PICK n \in Nat \ {0} : n = Len(list)
  BY LengthIs
<1>2. PICK s, t, D : s = Scaled(list) /\ t = Normalize(list) /\ D = Divisor(s)
  OBVIOUS
<1>3. s \in Seq(Nat) /\ Len(s) = n
  <2>1. s \in Seq(Nat \ {0}) /\ Len(s) = n
    BY <1>1, <1>2, ScaledIs
  <2>2. QED
    BY <2>1
<1>4. D \in Nat \ {0} /\ \A k \in 1 .. n : s[k] = D * t[k]
  BY <1>1, <1>2, NormalizedIs
<1>5. t \in Seq(Nat) /\ Len(t) = n /\ \A k \in 1 .. n : t[k] \in Nat \ {0}
  <2>1. t \in Seq(Nat \ {0}) /\ Len(t) = n
    BY <1>1, <1>2, NormalizedIs
  <2>2. QED
    BY <2>1
<1>6. PICK g \in Nat \ {0} : g = Divisor(t) /\ DividesAll(g, t, n)
  <2>1. 1 \in 1 .. n /\ t[1] # 0
    BY <1>5
  <2>2. Divisor(t) \in Nat \ {0}
    BY <1>5, <2>1, DivisorIs
  <2>3. Divides(Divisor(t), Divisor(t))
    BY <2>2, DividesSelf
  <2>4. DividesAll(Divisor(t), t, n)
    BY <1>5, <2>2, <2>3, DivisorIs
  <2>5. QED
    BY <2>2, <2>4
<1>7. D * g \in Nat \ {0}
  BY <1>4, Times, TimesPositive
<1>8. DividesAll(D * g, s, n)
  <2>1. ASSUME NEW k \in 1 .. n PROVE Divides(D * g, s[k])
    <3>1. PICK m \in Nat : m = t[k]
      BY <1>5
    <3>2. Divides(g, m)
      BY <1>6, <3>1 DEF DividesAll
    <3>3. Divides(D * g, D * m)
      BY <1>4, <3>2, DividesTimes
    <3>4. QED
      BY <1>4, <3>1, <3>3
  <2>2. QED
    BY <2>1 DEF DividesAll
<1>9. Divides(D * g, D)
  BY <1>2, <1>3, <1>7, <1>8, DivisorIs
<1>10. Divides(g, 1)
  <2>1. D = D * 1
    BY <1>4
  <2>2. QED
    BY <1>4, <1>9, <2>1, DividesCancels
<1>11. g = 1
  <2>1. g <= 1
    BY <1>10, DividesBounds
  <2>2. QED
    BY <2>1
<1>12. QED
  BY <1>2, <1>6, <1>11

(* They are in the proportion of the weights.                               *)
LEMMA InProportion ==
  ASSUME NEW list, Weighing(list), NEW j \in 1 .. Len(list), NEW k \in 1 .. Len(list)
  PROVE  LET t == Normalize(list)
         IN  t[j] * list[k].num * list[j].den = t[k] * list[j].num * list[k].den
<1>1. PICK M \in Nat \ {0}, D \in Nat \ {0} : M = Common(list) /\ D = Divisor(Scaled(list))
  BY ScaledIs, NormalizedIs
<1> DEFINE x == Normalize(list)[j]  a == list[j].num  p == list[j].den
           y == Normalize(list)[k]  b == list[k].num  q == list[k].den
<1>2. x \in Nat \ {0} /\ a \in Nat \ {0} /\ p \in Nat \ {0}
  BY NormalizedIs, WeightIs
<1>3. y \in Nat \ {0} /\ b \in Nat \ {0} /\ q \in Nat \ {0}
  BY NormalizedIs, WeightIs
<1>4. (D * x) * p = a * M /\ (D * y) * q = b * M
  <2>1. Scaled(list)[j] = D * x /\ Scaled(list)[k] = D * y
    BY <1>1, NormalizedIs
  <2>2. Scaled(list)[j] * p = a * M /\ Scaled(list)[k] * q = b * M
    BY <1>1, ScaledIs
  <2> HIDE DEF x, a, p, y, b, q
  <2>3. QED
    BY ONLY <2>1, <2>2
<1> HIDE DEF x, a, p, y, b, q
<1>5. D * (x * b * p) = D * (y * a * q)
  <2>1. D * (x * b * p) = ((D * x) * p) * b
    BY <1>1, <1>2, <1>3
  <2>2. D * (y * a * q) = ((D * y) * q) * a
    BY <1>1, <1>2, <1>3
  <2>3. (a * M) * b = (b * M) * a
    BY <1>1, <1>2, <1>3
  <2>4. QED
    BY <1>4, <2>1, <2>2, <2>3
<1>6. x * b * p \in Nat /\ y * a * q \in Nat
  BY <1>2, <1>3
<1>7. x * b * p = y * a * q
  BY <1>5, <1>6, TimesCancels
<1>8. QED
  BY <1>7 DEF x, a, p, y, b, q

-----------------------------------------------------------------------------
(* Selecting.                                                               *)

(* sum holds the running totals of s.                                       *)
Totals(s, sum) ==
  /\ sum \in [0 .. Len(s) -> Nat] /\ sum[0] = 0
  /\ \A k \in 1 .. Len(s) : sum[k] = sum[k - 1] + s[k]

(* Cumulative's recursion has a solution: the running totals.               *)
LEMMA CumulativeIs ==
  ASSUME NEW s \in Seq(Nat)
  PROVE  \E sum : Totals(s, sum) /\ Cumulative(s) = [k \in 1 .. Len(s) |-> sum[k]]
<1>1. PICK n \in Nat : n = Len(s) /\ DOMAIN s = 1 .. n
  OBVIOUS
<1> DEFINE step == [k \in 1 .. n |-> [u \in Nat |-> u + s[k]]]
           Rec(f) == [k \in 0 .. n |-> IF k = 0 THEN 0 ELSE f[k - 1] + s[k]]
<1>2. \A k \in 1 .. n : s[k] \in Nat
  BY <1>1
<1>3. step \in [1 .. n -> [Nat -> Nat]] /\ \A k \in 1 .. n, u \in Nat : step[k][u] = u + s[k]
  BY <1>2
<1>4. PICK w : RunOf(w, Nat, 0, step, n)
  <2> HIDE DEF step
  <2>1. QED
    BY <1>3, RunsExist
<1>5. w = Rec(w)
  <2> HIDE DEF step
  <2>1. ASSUME NEW k \in 0 .. n PROVE w[k] = IF k = 0 THEN 0 ELSE w[k - 1] + s[k]
    <3>1. CASE k = 0
      BY <1>4, <3>1 DEF RunOf
    <3>2. CASE k # 0
      <4>1. k \in 1 .. n /\ k - 1 \in 0 .. n
        BY <3>2
      <4>2. w[k - 1] \in Nat /\ w[k] = step[k][w[k - 1]]
        BY <1>4, <4>1 DEF RunOf
      <4>3. QED
        BY <1>3, <3>2, <4>1, <4>2
    <3>3. QED
      BY <3>1, <3>2
  <2>2. w = [k \in 0 .. n |-> w[k]]
    BY <1>4 DEF RunOf
  <2>3. QED
    BY <2>1, <2>2
<1>6. Cumulative(s) = LET sum == CHOOSE f : f = Rec(f) IN [k \in 1 .. n |-> sum[k]]
  BY <1>1 DEF Cumulative
<1>7. PICK f : Cumulative(s) = [k \in 1 .. n |-> f[k]] /\ f = Rec(f)
  <2> HIDE DEF Rec
  <2>1. QED
    BY <1>5, <1>6
<1>8. /\ f = [k \in 0 .. n |-> f[k]] /\ f[0] = 0
      /\ \A k \in 1 .. n : f[k] = f[k - 1] + s[k]
  <2>1. 0 \in 0 .. n /\ \A k \in 1 .. n : k \in 0 .. n /\ k # 0
    OBVIOUS
  <2>2. QED
    BY <1>7, <2>1
<1>9. RunOf(f, Nat, 0, step, n)
  <2> HIDE DEF step
  <2>1. \A k \in 1 .. n : f[k - 1] \in Nat => f[k] = step[k][f[k - 1]]
    BY <1>3, <1>8
  <2>2. QED
    BY <1>3, <1>8, <2>1, RecursionRuns
<1>10. Totals(s, f)
  BY <1>1, <1>8, <1>9 DEF RunOf, Totals
<1>11. QED
  BY <1>1, <1>7, <1>10

LEMMA TotalsGrow ==
  ASSUME NEW s \in Seq(Nat \ {0}), NEW sum, Totals(s, sum)
  PROVE  \A k \in 0 .. Len(s) : \A j \in 0 .. Len(s) : j < k => sum[j] < sum[k]
<1>1. PICK n \in Nat : n = Len(s)
  OBVIOUS
<1>2. \A k \in 1 .. n : s[k] \in Nat /\ s[k] > 0 /\ sum[k] = sum[k - 1] + s[k]
  <2>1. \A k \in 1 .. n : s[k] \in Nat \ {0}
    BY <1>1
  <2>2. QED
    BY <1>1, <2>1 DEF Totals
<1>3. \A k \in 0 .. n : sum[k] \in Nat
  BY <1>1 DEF Totals
<1> DEFINE T == {k \in 0 .. n : \A j \in 0 .. n : j < k => sum[j] < sum[k]}
<1>4. 0 \in T
  OBVIOUS
<1>5. ASSUME NEW k \in 0 .. n, k \in T, k < n PROVE k + 1 \in T
  <2>1. k + 1 \in 1 .. n /\ (k + 1) - 1 = k /\ k + 1 \in 0 .. n
    BY <1>5
  <2>2. sum[k] < sum[k + 1] /\ sum[k] \in Nat /\ sum[k + 1] \in Nat
    BY <1>2, <1>3, <2>1
  <2>3. ASSUME NEW j \in 0 .. n, j < k + 1 PROVE sum[j] < sum[k + 1]
    <3>1. CASE j = k
      BY <2>2, <3>1
    <3>2. CASE j # k
      <4>1. j < k
        BY <2>3, <3>2
      <4>2. sum[j] < sum[k] /\ sum[j] \in Nat
        BY <1>3, <1>5, <4>1
      <4>3. QED
        BY <2>2, <4>2
    <3>3. QED
      BY <3>1, <3>2
  <2>4. QED
    BY <2>1, <2>3
<1>6. \A k \in 0 .. n : k \in T
  <2> HIDE DEF T
  <2>1. QED
    BY <1>4, <1>5, StepByStep
<1>7. QED
  BY <1>1, <1>6

(* The subtraction of weights one after the other leaves the choice minus   *)
(* their running total.                                                     *)
LEMMA ScanIs ==
  ASSUME normalized \in Seq(Nat), NEW sum, Totals(normalized, sum), NEW choice \in Nat
  PROVE  LET found == {k \in 1 .. Len(normalized) : choice < sum[k]}
         IN  Scan(choice) = CHOOSE k \in found : \A j \in found : k <= j
<1>1. PICK n \in Nat : n = Len(normalized) /\ DOMAIN normalized = 1 .. n
  OBVIOUS
<1> DEFINE step == [k \in 1 .. n |-> [u \in Int |-> u - normalized[k]]]
           Rec(f) == [k \in 0 .. n |-> IF k = 0 THEN choice ELSE f[k - 1] - normalized[k]]
<1>2. \A k \in 1 .. n : normalized[k] \in Nat
  BY <1>1
<1>3. step \in [1 .. n -> [Int -> Int]] /\ \A k \in 1 .. n, u \in Int : step[k][u] = u - normalized[k]
  BY <1>2
<1>4. PICK w : RunOf(w, Int, choice, step, n)
  <2> HIDE DEF step
  <2>1. choice \in Int
    OBVIOUS
  <2>2. QED
    BY <1>3, <2>1, RunsExist
<1>5. w = Rec(w)
  <2> HIDE DEF step
  <2>1. ASSUME NEW k \in 0 .. n PROVE w[k] = IF k = 0 THEN choice ELSE w[k - 1] - normalized[k]
    <3>1. CASE k = 0
      BY <1>4, <3>1 DEF RunOf
    <3>2. CASE k # 0
      <4>1. k \in 1 .. n /\ k - 1 \in 0 .. n
        BY <3>2
      <4>2. w[k - 1] \in Int /\ w[k] = step[k][w[k - 1]]
        BY <1>4, <4>1 DEF RunOf
      <4>3. QED
        BY <1>3, <3>2, <4>1, <4>2
    <3>3. QED
      BY <3>1, <3>2
  <2>2. w = [k \in 0 .. n |-> w[k]]
    BY <1>4 DEF RunOf
  <2>3. QED
    BY <2>1, <2>2
<1> DEFINE Below(f) == {k \in 1 .. n : f[k - 1] < normalized[k]}
<1>6. Scan(choice) = LET found == Below(CHOOSE f : f = Rec(f))
                     IN  CHOOSE k \in found : \A j \in found : k <= j
  BY <1>1 DEF Scan
<1>7. PICK f : /\ Scan(choice) = LET found == Below(f) IN CHOOSE k \in found : \A j \in found : k <= j
               /\ f = Rec(f)
  <2> HIDE DEF Rec, Below
  <2>1. PICK f : f = CHOOSE g : g = Rec(g)
    OBVIOUS
  <2>2. f = Rec(f)
    BY <1>5, <2>1
  <2>3. QED
    BY <1>6, <2>1, <2>2
<1>8. /\ f[0] = choice
      /\ \A k \in 1 .. n : f[k] = f[k - 1] - normalized[k]
  <2>1. 0 \in 0 .. n /\ \A k \in 1 .. n : k \in 0 .. n /\ k # 0
    OBVIOUS
  <2>2. QED
    BY <1>7, <2>1
<1>9. \A k \in 0 .. n : sum[k] \in Nat
  BY <1>1 DEF Totals
<1>10. \A k \in 0 .. n : f[k] = choice - sum[k]
  <2> DEFINE T == {k \in 0 .. n : f[k] = choice - sum[k]}
  <2>1. 0 \in T
    BY <1>8 DEF Totals
  <2>2. ASSUME NEW k \in 0 .. n, k \in T, k < n PROVE k + 1 \in T
    <3>1. k + 1 \in 1 .. n /\ (k + 1) - 1 = k /\ k + 1 \in 0 .. n
      BY <2>2
    <3>2. f[k + 1] = f[k] - normalized[k + 1] /\ sum[k + 1] = sum[k] + normalized[k + 1]
      BY <1>1, <1>8, <3>1 DEF Totals
    <3>3. PICK a \in Nat : a = sum[k]
      BY <1>9
    <3>4. PICK b \in Nat : b = normalized[k + 1]
      BY <1>2, <3>1
    <3>5. f[k] = choice - a
      BY <2>2, <3>3
    <3>6. f[k + 1] = (choice - a) - b /\ sum[k + 1] = a + b
      BY <3>2, <3>3, <3>4, <3>5
    <3>7. f[k + 1] = choice - (a + b)
      BY <3>6
    <3>8. QED
      BY <3>1, <3>6, <3>7
  <2>3. \A k \in 0 .. n : k \in T
    <3> HIDE DEF T
    <3>1. QED
      BY <2>1, <2>2, StepByStep
  <2>4. QED
    BY <2>3
<1>11. \A k \in 1 .. n : f[k - 1] < normalized[k] <=> choice < sum[k]
  <2>1. ASSUME NEW k \in 1 .. n PROVE f[k - 1] < normalized[k] <=> choice < sum[k]
    <3>1. k - 1 \in 0 .. n /\ k \in 0 .. n
      OBVIOUS
    <3>2. f[k - 1] = choice - sum[k - 1] /\ sum[k] = sum[k - 1] + normalized[k]
      BY <1>1, <1>10, <3>1 DEF Totals
    <3>3. sum[k] \in Nat /\ sum[k - 1] \in Nat /\ normalized[k] \in Nat
      BY <1>2, <1>9, <3>1
    <3>4. QED
      BY <3>2, <3>3
  <2>2. QED
    BY <2>1
<1>12. Below(f) = {k \in 1 .. n : choice < sum[k]}
  BY <1>11
<1>13. QED
  <2> HIDE DEF Below
  <2>1. QED
    BY <1>1, <1>7, <1>12

(* Of a choice below the total, both searches find the production in whose  *)
(* part of the running totals it lies.                                      *)
LEMMA PlaceFound ==
  ASSUME normalized \in Seq(Nat \ {0}), normalized # <<>>, NEW sum, Totals(normalized, sum),
         NEW choice \in Nat, choice < sum[Len(normalized)]
  PROVE  /\ Scan(choice) \in 1 .. Len(normalized)
         /\ sum[Scan(choice) - 1] <= choice /\ choice < sum[Scan(choice)]
         /\ \A k \in 1 .. Len(normalized) :
              sum[k - 1] <= choice /\ choice < sum[k] <=> k = Scan(choice)
<1>1. PICK n \in Nat \ {0} : n = Len(normalized)
  OBVIOUS
<1> DEFINE found == {k \in 1 .. n : choice < sum[k]}
<1>2. normalized \in Seq(Nat)
  OBVIOUS
<1>3. Scan(choice) = CHOOSE k \in found : \A j \in found : k <= j
  BY <1>1, <1>2, ScanIs
<1>4. n \in found /\ found \subseteq Nat
  BY <1>1
<1>5. PICK m \in found : \A j \in found : m <= j
  <2> HIDE DEF found
  <2>1. QED
    BY <1>4, LeastOf
<1>6. \A k, l \in found : (\A j \in found : k <= j) /\ (\A j \in found : l <= j) => k = l
  OBVIOUS
<1>7. Scan(choice) = m
  <2> HIDE DEF found
  <2>1. QED
    BY <1>3, <1>5, <1>6
<1>8. m \in 1 .. n /\ choice < sum[m]
  OBVIOUS
<1>9. \A k \in 0 .. n : sum[k] \in Nat
  BY <1>1 DEF Totals
<1>10. sum[m - 1] <= choice
  <2>1. CASE m = 1
    BY <2>1 DEF Totals
  <2>2. CASE m # 1
    <3>1. m - 1 \in 1 .. n /\ m - 1 \in 0 .. n /\ ~ (m <= m - 1)
      BY <1>8, <2>2
    <3>2. m - 1 \notin found
      <4> HIDE DEF found
      <4>1. QED
        BY <1>5, <3>1
    <3>3. ~ (choice < sum[m - 1]) /\ sum[m - 1] \in Nat
      BY <1>9, <3>1, <3>2
    <3>4. QED
      BY <3>3
  <2>3. QED
    BY <2>1, <2>2
<1>11. ASSUME NEW k \in 1 .. n, sum[k - 1] <= choice, choice < sum[k] PROVE k = m
  <2>1. m <= k
    BY <1>5, <1>11
  <2>2. CASE m < k
    <3>1. m <= k - 1 /\ m \in 0 .. n /\ k - 1 \in 0 .. n
      BY <1>8, <2>2
    <3>2. sum[m] <= sum[k - 1]
      <4>1. CASE m = k - 1
        BY <1>9, <3>1, <4>1
      <4>2. CASE m # k - 1
        <5>1. m < k - 1
          BY <3>1, <4>2
        <5>2. sum[m] < sum[k - 1]
          BY <1>1, <3>1, <5>1, TotalsGrow
        <5>3. QED
          BY <1>9, <3>1, <5>2
      <4>3. QED
        BY <4>1, <4>2
    <3>3. sum[m] \in Nat /\ sum[k - 1] \in Nat
      BY <1>9, <3>1
    <3>4. QED
      BY <1>8, <1>11, <3>2, <3>3
  <2>3. QED
    BY <1>8, <2>1, <2>2
<1>12. QED
  BY <1>1, <1>7, <1>8, <1>10, <1>11

(* The static selection counts the running totals that are not above the    *)
(* choice: those of the productions before the one the scan finds.          *)
LEMMA SearchesAgree ==
  ASSUME normalized \in Seq(Nat \ {0}), normalized # <<>>, NEW choice \in 0 .. Total - 1
  PROVE  PartitionPoint(choice) = Scan(choice)
<1>1. PICK n \in Nat \ {0} : n = Len(normalized) /\ DOMAIN normalized = 1 .. n
  OBVIOUS
<1>2. normalized \in Seq(Nat)
  OBVIOUS
<1>3. PICK sum : Totals(normalized, sum) /\ Cumulative(normalized) = [k \in 1 .. n |-> sum[k]]
  BY <1>1, <1>2, CumulativeIs
<1>4. \A k \in 1 .. n : Cumulative(normalized)[k] = sum[k]
  BY <1>3
<1>5. \A k \in 0 .. n : sum[k] \in Nat
  BY <1>1, <1>3 DEF Totals
<1>6. Total = sum[n] /\ Total \in Nat
  BY <1>1, <1>4, <1>5 DEF Total, TotalOf
<1>7. choice \in Nat /\ choice < sum[n]
  BY <1>6
<1>8. PICK m \in 1 .. n : m = Scan(choice) /\ sum[m - 1] <= choice /\ choice < sum[m]
  BY <1>1, <1>3, <1>7, PlaceFound
<1>9. {k \in DOMAIN normalized : Cumulative(normalized)[k] <= choice} = 1 .. m - 1
  <2>1. ASSUME NEW k \in 1 .. n, sum[k] <= choice PROVE k <= m - 1
    <3>1. CASE m <= k
      <4>1. sum[m] <= sum[k]
        <5>1. CASE m = k
          BY <1>5, <5>1
        <5>2. CASE m # k
          <6>1. m < k /\ m \in 0 .. n /\ k \in 0 .. n
            BY <3>1, <5>2
          <6>2. sum[m] < sum[k]
            BY <1>1, <1>3, <6>1, TotalsGrow
          <6>3. QED
            BY <1>5, <6>1, <6>2
        <5>3. QED
          BY <5>1, <5>2
      <4>2. sum[m] \in Nat /\ sum[k] \in Nat
        BY <1>5
      <4>3. QED
        BY <1>7, <1>8, <2>1, <4>1, <4>2
    <3>2. QED
      BY <3>1
  <2>2. ASSUME NEW k \in 1 .. n, k <= m - 1 PROVE sum[k] <= choice
    <3>1. sum[k] <= sum[m - 1]
      <4>1. CASE k = m - 1
        BY <1>5, <4>1
      <4>2. CASE k # m - 1
        <5>1. k < m - 1 /\ k \in 0 .. n /\ m - 1 \in 0 .. n
          BY <2>2, <4>2
        <5>2. sum[k] < sum[m - 1]
          BY <1>1, <1>3, <5>1, TotalsGrow
        <5>3. QED
          BY <1>5, <5>1, <5>2
      <4>3. QED
        BY <4>1, <4>2
    <3>2. sum[k] \in Nat /\ sum[m - 1] \in Nat
      BY <1>5
    <3>3. QED
      BY <1>7, <1>8, <3>1, <3>2
  <2>3. \A k : k \in 1 .. m - 1 <=> k \in 1 .. n /\ k <= m - 1
    OBVIOUS
  <2>4. QED
    BY <1>1, <1>4, <2>1, <2>2, <2>3
<1>10. Cardinality(1 .. m - 1) = m - 1
  <2>1. m - 1 \in Nat
    OBVIOUS
  <2>2. QED
    BY <2>1, UpToIs
<1>11. PartitionPoint(choice) = (m - 1) + 1
  BY <1>9, <1>10 DEF PartitionPoint
<1>12. QED
  BY <1>8, <1>11

-----------------------------------------------------------------------------
(* Words that select a production.                                          *)

(* Renaming the elements of a finite set does not change its cardinality.   *)
Renaming(f, S, T) ==
  /\ f \in [S -> T]
  /\ \A x, y \in S : f[x] = f[y] => x = y
  /\ \A v \in T : \E x \in S : f[x] = v

LEMMA Renamed ==
  ASSUME NEW S, NEW T, IsFiniteSet(S), NEW f, Renaming(f, S, T)
  PROVE  IsFiniteSet(T) /\ Cardinality(T) = Cardinality(S)
<1>1. f \in Surjection(S, T) /\ f \in Injection(S, T)
  BY Fun_IsInj, Fun_IsSurj DEF Renaming
<1>2. QED
  BY <1>1, FS_Surjection

Landing(total, q, t, low, high) ==
  {word \in t .. total * q + t - 1 : low <= word % total /\ word % total < high}

(* Of the words from t on there are as many in each residue class.          *)
LEMMA WordsInWindow ==
  ASSUME NEW total \in Nat \ {0}, NEW q \in Nat, NEW t \in 0 .. total - 1,
         NEW low \in Nat, NEW high \in Nat, low <= high, high <= total
  PROVE  Cardinality(Landing(total, q, t, low, high)) = q * (high - low)
<1> DEFINE Blocks == 0 .. q - 1
           Window == low .. high - 1
           Inside == {word \in t .. total * q + t - 1 : low <= word % total /\ word % total < high}
           word(i, c) == IF c >= t THEN total * i + c ELSE total * (i + 1) + c
           f == [p \in Blocks \X Window |-> word(p[1], p[2])]
<1>1. IsFiniteSet(Blocks) /\ Cardinality(Blocks) = q
  <2>1. 0 \in Int /\ q - 1 \in Int
    OBVIOUS
  <2>2. QED
    BY <2>1, FS_Interval
<1>2. IsFiniteSet(Window) /\ Cardinality(Window) = high - low
  <2>1. low \in Int /\ high - 1 \in Int
    OBVIOUS
  <2>2. /\ IsFiniteSet(low .. high - 1)
        /\ Cardinality(low .. high - 1) = IF low > high - 1 THEN 0 ELSE (high - 1) - low + 1
    BY ONLY <2>1, FS_Interval
  <2>3. QED
    BY <2>2
<1>3. ASSUME NEW i \in Blocks, NEW c \in Window
      PROVE  /\ word(i, c) \in t .. total * q + t - 1
             /\ word(i, c) % total = c
             /\ i = IF c >= t THEN word(i, c) \div total ELSE word(i, c) \div total - 1
  <2>1. /\ i \in Nat /\ i + 1 \in Nat /\ i + 1 <= q /\ c \in Nat /\ c < total /\ low <= c /\ c < high
        /\ t \in Nat /\ t < total
    OBVIOUS
  <2>2. total * (i + 1) = total * i + total /\ total * (i + 1) <= total * q
    <3>1. total * (i + 1) = total * i + total * 1
      BY <2>1, TimesPlus
    <3>2. QED
      BY <2>1, <3>1, TimesGrows
  <2>3. total * i \in Nat /\ total * (i + 1) \in Nat /\ total * q \in Nat
    BY <2>1, Times
  <2>4. CASE c >= t
    <3>1. word(i, c) = total * i + c
      BY <2>4
    <3>2. word(i, c) \in t .. total * q + t - 1
      <4> HIDE DEF word
      <4>1. QED
        BY <2>1, <2>2, <2>3, <2>4, <3>1
    <3>3. (total * i + c) % total = c /\ (total * i + c) \div total = i
      BY <2>1, DividingExact
    <3> HIDE DEF word
    <3>4. QED
      BY <2>4, <3>1, <3>2, <3>3
  <2>5. CASE ~ (c >= t)
    <3>1. word(i, c) = total * (i + 1) + c
      BY <2>5
    <3>2. word(i, c) \in t .. total * q + t - 1
      <4> HIDE DEF word
      <4>1. QED
        BY <2>1, <2>2, <2>3, <2>5, <3>1
    <3>3. (total * (i + 1) + c) % total = c /\ (total * (i + 1) + c) \div total = i + 1
      BY <2>1, DividingExact
    <3> HIDE DEF word
    <3>4. QED
      BY <2>1, <2>5, <3>1, <3>2, <3>3
  <2>6. QED
    BY <2>4, <2>5
<1>4. ASSUME NEW v \in Inside PROVE \E i \in Blocks, c \in Window : v = word(i, c)
  <2>1. v \in Nat /\ t <= v /\ v <= total * q + t - 1 /\ low <= v % total /\ v % total < high /\ t \in Nat
    <3>1. total * q \in Nat
      BY Times
    <3>2. QED
      BY <3>1
  <2>2. PICK a \in Nat, c \in Nat : c = v % total /\ a = v \div total /\ v = total * a + c /\ c < total
    BY <2>1, Dividing
  <2>3. c \in Window
    BY <2>1, <2>2
  <2>4. total * q \in Nat /\ total * a \in Nat
    BY <2>2, Times
  <2>5. CASE c >= t
    <3>1. a < q
      <4>1. CASE q <= a
        <5>1. total * q <= total * a
          BY <2>2, <4>1, TimesGrows
        <5>2. QED
          BY <2>1, <2>2, <2>4, <2>5, <5>1
      <4>2. QED
        BY <2>2, <4>1
    <3>2. a \in Blocks /\ v = word(a, c)
      BY <2>2, <2>5, <3>1
    <3> HIDE DEF word, Window, Blocks
    <3>3. QED
      BY <2>3, <3>2
  <2>6. CASE ~ (c >= t)
    <3>1. a # 0
      BY <2>1, <2>2, <2>6
    <3>2. a - 1 \in Nat /\ (a - 1) + 1 = a
      BY <2>2, <3>1
    <3>3. a <= q
      <4>1. CASE q + 1 <= a
        <5>1. total * (q + 1) <= total * a /\ total * (q + 1) = total * q + total * 1
          BY <2>2, <4>1, TimesGrows, TimesPlus
        <5>2. QED
          BY <2>1, <2>2, <2>4, <5>1
      <4>2. QED
        BY <2>2, <4>1
    <3>4. a - 1 \in Blocks
      BY <3>2, <3>3
    <3>5. v = word(a - 1, c)
      <4>1. word(a - 1, c) = total * ((a - 1) + 1) + c
        BY <2>6
      <4> HIDE DEF word
      <4>2. QED
        BY <2>2, <3>2, <4>1
    <3> HIDE DEF word, Window, Blocks
    <3>6. QED
      BY <2>3, <3>4, <3>5
  <2>7. QED
    BY <2>5, <2>6
<1>5. ASSUME NEW i \in Blocks, NEW c \in Window PROVE word(i, c) \in Inside
  <2>1. low <= c /\ c < high
    OBVIOUS
  <2>2. word(i, c) \in t .. total * q + t - 1 /\ word(i, c) % total = c
    <3> HIDE DEF word, Blocks, Window
    <3>1. QED
      BY ONLY <1>3, i \in Blocks, c \in Window
  <2> HIDE DEF word
  <2>3. QED
    BY <2>1, <2>2
<1>6. \A p \in Blocks \X Window : p[1] \in Blocks /\ p[2] \in Window /\ f[p] = word(p[1], p[2]) /\ p = <<p[1], p[2]>>
  <2> HIDE DEF word, Window, Blocks
  <2>1. QED
    OBVIOUS
<1>7. f \in [Blocks \X Window -> Inside]
  <2> HIDE DEF word, Window, Blocks, Inside
  <2>1. QED
    BY <1>5, <1>6
<1>8. ASSUME NEW x \in Blocks \X Window, NEW y \in Blocks \X Window, f[x] = f[y] PROVE x = y
  <2>1. word(x[1], x[2]) = word(y[1], y[2])
    <3> HIDE DEF word, Window, Blocks
    <3>1. QED
      BY <1>6, <1>8
  <2>2. x[2] = y[2]
    <3> HIDE DEF word, Window, Blocks
    <3>1. QED
      BY <1>3, <1>6, <2>1
  <2>3. x[1] = y[1]
    <3> HIDE DEF word, Window, Blocks
    <3>1. QED
      BY <1>3, <1>6, <2>1, <2>2
  <2> HIDE DEF word, Window, Blocks
  <2>4. QED
    BY <1>6, <2>2, <2>3
<1>9. ASSUME NEW v \in Inside PROVE \E x \in Blocks \X Window : f[x] = v
  <2> HIDE DEF word, Window, Blocks, Inside
  <2>1. PICK i \in Blocks, c \in Window : v = word(i, c)
    BY <1>4
  <2>2. <<i, c>> \in Blocks \X Window /\ f[<<i, c>>] = v
    BY <2>1
  <2>3. QED
    BY <2>2
<1>10. IsFiniteSet(Blocks \X Window) /\ Cardinality(Blocks \X Window) = q * (high - low)
  <2> HIDE DEF Window, Blocks
  <2>1. /\ IsFiniteSet(Blocks \X Window)
        /\ Cardinality(Blocks \X Window) = Cardinality(Blocks) * Cardinality(Window)
    BY ONLY <1>1, <1>2, FS_Product
  <2>2. Cardinality(Blocks) * Cardinality(Window) = q * (high - low)
    BY ONLY <1>1, <1>2
  <2>3. QED
    BY ONLY <2>1, <2>2
<1>11. Cardinality(Inside) = Cardinality(Blocks \X Window)
  <2> HIDE DEF f, Window, Blocks, Inside
  <2>1. \A x, y \in Blocks \X Window : f[x] = f[y] => x = y
    BY ONLY <1>8
  <2>2. \A v \in Inside : \E x \in Blocks \X Window : f[x] = v
    BY ONLY <1>9
  <2>3. Renaming(f, Blocks \X Window, Inside)
    BY ONLY <1>7, <2>1, <2>2 DEF Renaming
  <2>4. QED
    BY ONLY <1>10, <2>3, Renamed
<1>12. Inside = Landing(total, q, t, low, high)
  BY DEF Landing
<1> HIDE DEF Inside, Blocks, Window
<1>13. QED
  BY <1>10, <1>11, <1>12

(* The words below the threshold are what U64 leaves when divided by the    *)
(* total: the others are a whole number of rounds through the residues.     *)
LEMMA ThresholdIs ==
  ASSUME Total \in Nat \ {0}, Total <= I64Max
  PROVE  \E q \in Nat \ {0} : /\ Threshold \in 0 .. Total - 1
                              /\ U64 = Total * q + Threshold
                              /\ 2 * Threshold <= U64
<1>1. PICK total \in Nat \ {0} : total = Total
  OBVIOUS
<1>2. U64 \in Nat /\ total < U64 /\ U64 = 2 * Half
  BY <1>1, WidthAssumption DEF U64, I64Max
<1>3. PICK u \in Nat : u = U64
  BY <1>2
<1>4. u - total \in Nat /\ u # 0 /\ u - total < u
  BY <1>2, <1>3
<1>5. (u - total) % u = u - total
  <2>1. PICK v \in Nat : v = u - total
    BY <1>4
  <2>2. u * 0 + v = v
    BY <2>1
  <2>3. (u * 0 + v) % u = v
    BY <1>4, <2>1, DividingExact
  <2>4. QED
    BY <2>1, <2>2, <2>3
<1>6. Threshold = (u - total) % total
  BY <1>1, <1>3, <1>5 DEF Threshold
<1>7. PICK v \in Nat : v = u - total
  BY <1>4
<1>8. PICK a \in Nat, r \in Nat : r = v % total /\ r < total /\ v = total * a + r
  BY Dividing
<1>9. total * (a + 1) = total * a + total /\ total * a \in Nat
  <2>1. total * (a + 1) = total * a + total * 1
    BY TimesPlus
  <2>2. QED
    BY <2>1, Times
<1>10. u = total * (a + 1) + r
  BY <1>7, <1>8, <1>9
<1>11. 2 * r <= u
  BY <1>7, <1>8, <1>9
<1>12. a + 1 \in Nat \ {0} /\ Threshold = r
  BY <1>6, <1>7, <1>8
<1>13. r \in 0 .. total - 1
  BY <1>8
<1>14. QED
  BY <1>1, <1>3, <1>10, <1>11, <1>12, <1>13

(* As many words select a production as its integer weight times the number *)
(* of rounds.                                                               *)
LEMMA HitsAre ==
  ASSUME normalized \in Seq(Nat \ {0}), normalized # <<>>, Total <= I64Max
  PROVE  /\ \E q \in Nat \ {0} : \A k \in 1 .. Len(normalized) : Hits(k) = q * normalized[k]
         /\ Total \in 1 .. I64Max /\ 2 * Threshold <= U64
<1>1. PICK n \in Nat \ {0} : n = Len(normalized) /\ DOMAIN normalized = 1 .. n
  OBVIOUS
<1>2. normalized \in Seq(Nat)
  OBVIOUS
<1>3. PICK sum : Totals(normalized, sum) /\ Cumulative(normalized) = [k \in 1 .. n |-> sum[k]]
  BY <1>1, <1>2, CumulativeIs
<1>4. \A k \in 0 .. n : sum[k] \in Nat
  BY <1>1, <1>3 DEF Totals
<1>5. sum[0] = 0 /\ \A k \in 1 .. n : sum[k] = sum[k - 1] + normalized[k]
  BY <1>1, <1>3 DEF Totals
<1>6. \A j, k \in 0 .. n : j < k => sum[j] < sum[k]
  BY <1>1, <1>3, TotalsGrow
<1>7. Total = sum[n] /\ Total \in Nat \ {0}
  BY <1>1, <1>3, <1>4, <1>5, <1>6 DEF Total, TotalOf
<1>8. I64Max \in Int
  BY WidthAssumption DEF I64Max
<1>9. PICK q \in Nat \ {0} : /\ Threshold \in 0 .. Total - 1
                             /\ U64 = Total * q + Threshold
                             /\ 2 * Threshold <= U64
  BY <1>7, ThresholdIs
<1>20. PICK total \in Nat \ {0} : total = Total
  BY <1>7
<1>21. PICK t \in 0 .. total - 1 : t = Threshold
  BY <1>9, <1>20
<1>10. t \in Nat /\ t = Threshold /\ total = Total /\ U64 = total * q + t
  BY <1>9, <1>20, <1>21
<1>11. total * q \in Nat
  BY <1>10, Times
<1>12. ASSUME NEW k \in 1 .. n PROVE Hits(k) = q * normalized[k]
  <2>8. k - 1 \in 0 .. n /\ k \in 0 .. n /\ n \in 0 .. n /\ normalized[k] \in Nat
    BY <1>1
  <2>9. PICK low \in Nat : low = sum[k - 1]
    BY <1>4, <2>8
  <2>10. PICK high \in Nat : high = sum[k]
    BY <1>4, <2>8
  <2>11. PICK w \in Nat : w = normalized[k]
    BY <2>8
  <2>12. high = low + w
    BY <1>5, <2>9, <2>10, <2>11
  <2>13. high <= total
    <3>1. CASE k = n
      BY <1>7, <1>10, <2>10, <3>1
    <3>2. CASE k # n
      <4>1. sum[k] < sum[n]
        BY <1>6, <2>8, <3>2
      <4>2. QED
        BY <1>7, <1>10, <2>10, <4>1
    <3>3. QED
      BY <3>1, <3>2
  <2>1. low = sum[k - 1] /\ high = sum[k] /\ low <= high /\ high - low = normalized[k] /\ high <= total
    BY <2>9, <2>10, <2>11, <2>12, <2>13
  <2>2. ASSUME NEW choice \in Nat, choice < total
        PROVE  Scan(choice) = k <=> low <= choice /\ choice < high
    <3>1. \A i \in 1 .. n : sum[i - 1] <= choice /\ choice < sum[i] <=> i = Scan(choice)
      BY <1>1, <1>3, <1>7, <1>10, <2>2, PlaceFound
    <3>2. QED
      BY <2>1, <3>1
  <2>3. ASSUME NEW word
        PROVE  word \in Word /\ word >= t /\ Scan(word % total) = k
               <=> word \in t .. total * q + t - 1 /\ low <= word % total /\ word % total < high
    <3>1. word \in Word /\ word >= t <=> word \in t .. total * q + t - 1
      BY <1>10, <1>11 DEF Word
    <3>2. CASE word \in t .. total * q + t - 1
      <4>1. word \in Nat
        BY <1>10, <1>11, <3>2
      <4>2. word % total \in Nat /\ word % total < total
        BY <4>1, Dividing
      <4>3. Scan(word % total) = k <=> low <= word % total /\ word % total < high
        BY <2>2, <4>2
      <4>4. QED
        BY <3>1, <3>2, <4>3
    <3>3. QED
      BY <3>1, <3>2
  <2>4. {word \in Word : word >= t /\ Scan(word % total) = k} = Landing(total, q, t, low, high)
    BY <2>3 DEF Landing
  <2>5. Cardinality(Landing(total, q, t, low, high)) = q * (high - low)
    <3>1. low <= high /\ high <= total /\ q \in Nat
      BY <2>1
    <3>2. QED
      BY ONLY <3>1, total \in Nat \ {0}, t \in 0 .. total - 1, low \in Nat, high \in Nat, WordsInWindow
  <2>6. Hits(k) = Cardinality({word \in Word : word >= t /\ Scan(word % total) = k})
    BY <1>10 DEF Hits
  <2>7. QED
    BY <2>1, <2>4, <2>5, <2>6
<1>13. \E i \in Nat \ {0} : \A k \in 1 .. Len(normalized) : Hits(k) = i * normalized[k]
  <2>1. \A k \in 1 .. Len(normalized) : Hits(k) = q * normalized[k]
    BY ONLY <1>1, <1>12
  <2>2. QED
    BY ONLY <2>1, q \in Nat \ {0}
<1>14. Total \in 1 .. I64Max
  BY ONLY <1>7, <1>8, Total <= I64Max
<1>16. 2 * Threshold <= U64
  BY ONLY <1>9
<1>15. QED
  BY ONLY <1>13, <1>14, <1>16

-----------------------------------------------------------------------------
(* Weights whose integers do not fit.                                       *)

(* Weights that are in lowest terms.                                        *)
Reduced(list) == \A k \in 1 .. Len(list) : gcd[<<list[k].num, list[k].den>>] = 1

LEMMA GcdSwaps ==
  ASSUME NEW a \in Nat, NEW b \in Nat
  PROVE  gcd[<<a, b>>] = gcd[<<b, a>>]
<1>1. gcd[<<a, b>>] \in Nat /\ gcd[<<b, a>>] \in Nat
  BY GcdIs
<1>2. Divisors(gcd[<<a, b>>]) = CommonDivisors(a, b) /\ Divisors(gcd[<<b, a>>]) = CommonDivisors(b, a)
  BY GcdIs
<1>3. CommonDivisors(a, b) = CommonDivisors(b, a)
  BY DEF CommonDivisors
<1>4. QED
  BY <1>1, <1>2, <1>3, DivisorsDetermine

(* The common denominator and what the scaled weights are divided by have   *)
(* no divisor in common: the weights are reduced.                           *)
LEMMA DivisorApart ==
  ASSUME NEW list, Weighing(list), Reduced(list)
  PROVE  gcd[<<Divisor(Scaled(list)), Common(list)>>] = 1
<1>1. PICK n \in Nat \ {0} : n = Len(list)
  BY LengthIs
<1>2. list \in Seq(Fractions)
  BY LengthIs
<1>3. PICK d \in Nat \ {0} : d = Divisor(Scaled(list))
  BY NormalizedIs
<1>4. PICK c \in Nat \ {0} : c = Common(list)
  BY ScaledIs
<1>5. PICK e \in Nat \ {0} : e = gcd[<<d, c>>] /\ Divides(e, d) /\ Divides(e, c)
  BY GcdDivides
<1>6. PICK x \in Nat : c = e * x
  BY <1>5 DEF Divides
<1>7. x # 0
  BY <1>6, Times
<1>8. ASSUME NEW k \in 1 .. n PROVE Divides(list[k].den, x)
  <2>1. PICK num \in Nat \ {0}, den \in Nat \ {0} : num = list[k].num /\ den = list[k].den
    BY <1>1, WeightIs
  <2>2. PICK f \in Nat \ {0} : c = den * f /\ Scaled(list)[k] = num * f
    BY <1>1, <1>4, <2>1, ScaledIs
  <2>3. PICK t \in Nat : num * f = d * t
    <3>1. Normalize(list)[k] \in Nat \ {0} /\ Scaled(list)[k] = d * Normalize(list)[k]
      BY <1>1, <1>3, NormalizedIs
    <3>2. QED
      BY <2>2, <3>1
  <2>4. PICK y \in Nat : num * f = e * y
    <3>1. num * f \in Nat
      BY Times
    <3>2. Divides(d, num * f)
      BY <2>3 DEF Divides
    <3>3. Divides(e, num * f)
      BY <1>5, <3>1, <3>2, DividesThrough
    <3>4. QED
      BY <3>3 DEF Divides
  <2>5. num * x = den * y
    <3>1. num * (den * f) = den * (num * f)
      BY TimesAssoc, Times
    <3>2. num * (e * x) = e * (num * x)
      BY TimesAssoc, Times
    <3>3. den * (e * y) = e * (den * y)
      BY TimesAssoc, Times
    <3>4. e * (num * x) = e * (den * y)
      BY <1>6, <2>2, <2>4, <3>1, <3>2, <3>3
    <3>5. num * x \in Nat /\ den * y \in Nat
      BY Times
    <3>6. QED
      BY <3>4, <3>5, TimesCancels
  <2>6. gcd[<<den, num>>] = 1
    <3>1. gcd[<<num, den>>] = 1
      BY <1>1, <2>1 DEF Reduced
    <3>2. QED
      BY <3>1, GcdSwaps
  <2>7. Divides(den, num * x)
    BY <2>5 DEF Divides
  <2>8. QED
    BY <2>1, <2>6, <2>7, DividesOther
<1>9. Denominators(list, n, x)
  BY <1>8 DEF Denominators
<1>10. Divides(c, x)
  <2>1. n \in 0 .. Len(list)
    BY <1>1
  <2>2. \A m \in Nat : Denominators(list, n, m) => Divides(CommonDenominator(list)[n], m)
    BY <1>2, <2>1, DenominatorIs
  <2>3. QED
    BY <1>1, <1>4, <1>9, <2>2 DEF Common
<1>11. Divides(x, c)
  <2>1. c = x * e
    BY <1>6, Times
  <2>2. QED
    BY <2>1 DEF Divides
<1>12. c = x
  BY <1>10, <1>11, DividesBoth
<1>13. x * e = x * 1
  BY <1>6, <1>12, Times
<1>14. e = 1
  BY <1>7, <1>13, TimesCancels
<1>15. QED
  BY <1>3, <1>4, <1>5, <1>14

(* So the division by it undoes nothing but what the common denominator     *)
(* did: scaled weights and denominators are products of two i64s.           *)
LEMMA NoneTooLarge ==
  ASSUME NEW list, Weighing(list), Reduced(list), NEW k \in 1 .. Len(list),
         Normalize(list)[k] <= I64Max
  PROVE  /\ Scaled(list)[k] <= I64Max * I64Max
         /\ Common(list) <= I64Max * I64Max
         /\ \A j \in 1 .. Len(list) : CommonDenominator(list)[j] <= Common(list)
<1>1. PICK n \in Nat \ {0} : n = Len(list)
  BY LengthIs
<1>2. list \in Seq(Fractions)
  BY LengthIs
<1>3. PICK d \in Nat \ {0} : d = Divisor(Scaled(list))
  BY NormalizedIs
<1>4. PICK c \in Nat \ {0} : c = Common(list)
  BY ScaledIs
<1>5. PICK max \in Nat : max = I64Max
  BY WidthAssumption DEF I64Max
<1>6. PICK num \in Nat \ {0} : num = list[k].num /\ num <= max
  BY <1>5, WeightIs
<1>7. PICK den \in Nat \ {0} : den = list[k].den /\ den <= max
  BY <1>5, WeightIs
<1>8. PICK t \in Nat \ {0} : t = Normalize(list)[k] /\ Scaled(list)[k] = d * t
  BY <1>3, NormalizedIs
<1>9. t <= max
  BY <1>5, <1>8
<1>10. (d * t) * den = num * c
  BY <1>4, <1>6, <1>7, <1>8, ScaledIs
<1>11. gcd[<<d, c>>] = 1
  BY <1>3, <1>4, DivisorApart
<1>12. d * (t * den) = c * num /\ t * den \in Nat
  BY <1>10, TimesAssoc, Times
<1>13. Divides(d, c * num)
  BY <1>12 DEF Divides
<1>14. Divides(d, num)
  BY <1>11, <1>13, DividesOther
<1>15. PICK h \in Nat : num = d * h
  BY <1>14 DEF Divides
<1>16. h # 0
  BY <1>15, Times
<1>17. d <= max
  <2>1. d <= num
    BY <1>14, DividesBounds
  <2>2. QED
    BY <1>6, <2>1
<1>18. t * den = h * c
  <2>1. c * num = d * (h * c)
    BY <1>15, TimesAssoc, Times
  <2>2. h * c \in Nat
    BY Times
  <2>3. QED
    BY <1>12, <2>1, <2>2, TimesCancels
<1>19. d * t <= max * max
  <2>1. d * t <= d * max
    BY <1>9, TimesGrows
  <2>2. max * d <= max * max
    BY <1>17, TimesGrows
  <2>3. d * max = max * d /\ d * max \in Nat /\ d * t \in Nat /\ max * max \in Nat
    BY Times
  <2>4. QED
    BY <2>1, <2>2, <2>3
<1>20. c <= max * max
  <2>1. c <= h * c
    BY <1>16, TimesPositive
  <2>2. t * den <= t * max
    BY <1>7, TimesGrows
  <2>3. max * t <= max * max
    BY <1>9, TimesGrows
  <2>4. /\ t * max = max * t /\ t * max \in Nat /\ t * den \in Nat /\ max * max \in Nat /\ h * c \in Nat
    BY Times
  <2>5. QED
    BY <1>18, <2>1, <2>2, <2>3, <2>4
<1>21. ASSUME NEW j \in 1 .. n PROVE CommonDenominator(list)[j] <= c
  <2>1. j \in 0 .. Len(list)
    BY <1>1
  <2>2. \A i \in 1 .. n : Divides(list[i].den, c)
    BY <1>1, <1>4, ScaledIs
  <2>3. Denominators(list, j, c)
    BY <2>2 DEF Denominators
  <2>4. CommonDenominator(list)[j] \in Nat \ {0} /\ Divides(CommonDenominator(list)[j], c)
    BY <1>2, <2>1, <2>3, DenominatorIs
  <2>5. QED
    BY <2>4, DividesBounds
<1>22. QED
  BY <1>1, <1>4, <1>5, <1>8, <1>19, <1>20, <1>21

(* No weight is larger than the sum of all.                                 *)
LEMMA TotalBounds ==
  ASSUME NEW s \in Seq(Nat), s # <<>>
  PROVE  TotalOf(s) \in Nat /\ \A k \in 1 .. Len(s) : s[k] <= TotalOf(s)
<1>1. PICK n \in Nat \ {0} : n = Len(s)
  OBVIOUS
<1>2. PICK sum : Totals(s, sum) /\ Cumulative(s) = [k \in 1 .. n |-> sum[k]]
  BY <1>1, CumulativeIs
<1>3. \A k \in 0 .. n : sum[k] \in Nat
  BY <1>1, <1>2 DEF Totals
<1>8. \A k \in 1 .. n : sum[k] = sum[k - 1] + s[k]
  BY <1>1, <1>2 DEF Totals
<1>9. \A k \in 1 .. n : s[k] \in Nat
  BY <1>1
<1>4. TotalOf(s) = sum[n]
  BY <1>1, <1>2 DEF TotalOf
<1>5. ASSUME NEW k \in 1 .. n PROVE s[k] <= sum[n]
  <2> DEFINE T == {j \in 0 .. n : k <= j => s[k] <= sum[j]}
  <2>1. 0 \in T
    OBVIOUS
  <2>2. ASSUME NEW j \in 0 .. n, j \in T, j < n PROVE j + 1 \in T
    <3>1. j + 1 \in 1 .. n /\ j + 1 \in 0 .. n /\ (j + 1) - 1 = j
      BY <2>2
    <3>9. PICK a \in Nat : a = sum[j]
      BY <1>3
    <3>10. PICK b \in Nat : b = sum[j + 1]
      BY <1>3, <3>1
    <3>11. PICK c \in Nat : c = s[j + 1]
      BY <1>9, <3>1
    <3>3. b = a + c
      BY <1>8, <3>1, <3>9, <3>10, <3>11
    <3>4. PICK v \in Nat : v = s[k]
      BY <1>9
    <3>5. CASE k <= j
      <4>1. v <= a
        BY <2>2, <3>4, <3>5, <3>9
      <4>2. v <= b
        BY <3>3, <4>1
      <4>3. QED
        BY <3>1, <3>4, <3>10, <4>2
    <3>6. CASE ~ (k <= j)
      <4>1. CASE k <= j + 1
        <5>1. k = j + 1
          BY <3>6, <4>1
        <5>2. v = c /\ v <= b
          BY <3>3, <3>4, <3>11, <5>1
        <5>3. QED
          BY <3>1, <3>4, <3>10, <5>2
      <4>2. QED
        BY <3>1, <4>1
    <3>7. QED
      BY <3>5, <3>6
  <2>3. n \in T
    <3> HIDE DEF T
    <3>1. \A j \in 0 .. n : j \in T
      BY <2>1, <2>2, StepByStep
    <3>2. QED
      BY <3>1
  <2>4. QED
    BY <2>3
<1>6. n \in 0 .. n
  OBVIOUS
<1>7. QED
  BY <1>1, <1>3, <1>4, <1>5, <1>6

(* Larger weights have a larger sum.                                        *)
LEMMA TotalsCompare ==
  ASSUME NEW s \in Seq(Nat), NEW t \in Seq(Nat), s # <<>>, Len(s) = Len(t),
         \A k \in 1 .. Len(s) : s[k] <= t[k]
  PROVE  TotalOf(s) <= TotalOf(t)
<1>1. PICK n \in Nat \ {0} : n = Len(s) /\ n = Len(t)
  OBVIOUS
<1>2. PICK sum : Totals(s, sum) /\ Cumulative(s) = [k \in 1 .. n |-> sum[k]]
  BY <1>1, CumulativeIs
<1>3. PICK tum : Totals(t, tum) /\ Cumulative(t) = [k \in 1 .. n |-> tum[k]]
  BY <1>1, CumulativeIs
<1>11. \A k \in 0 .. n : sum[k] \in Nat
  BY <1>1, <1>2 DEF Totals
<1>12. \A k \in 1 .. n : sum[k] = sum[k - 1] + s[k]
  BY <1>1, <1>2 DEF Totals
<1>13. \A k \in 0 .. n : tum[k] \in Nat
  BY <1>1, <1>3 DEF Totals
<1>14. \A k \in 1 .. n : tum[k] = tum[k - 1] + t[k]
  BY <1>1, <1>3 DEF Totals
<1>15. sum[0] = 0 /\ tum[0] = 0
  BY <1>2, <1>3 DEF Totals
<1>16. \A k \in 1 .. n : s[k] \in Nat /\ t[k] \in Nat
  BY <1>1
<1>6. TotalOf(s) = sum[n] /\ TotalOf(t) = tum[n]
  BY <1>1, <1>2, <1>3 DEF TotalOf
<1> DEFINE T == {j \in 0 .. n : sum[j] <= tum[j]}
<1>7. 0 \in T
  BY <1>15
<1>8. ASSUME NEW j \in 0 .. n, j \in T, j < n PROVE j + 1 \in T
  <2>1. j + 1 \in 1 .. n /\ (j + 1) - 1 = j /\ j + 1 \in 0 .. n
    BY <1>8
  <2>2. PICK a \in Nat : a = sum[j]
    BY <1>11
  <2>3. PICK b \in Nat : b = s[j + 1]
    BY <1>16, <2>1
  <2>7. PICK c \in Nat : c = tum[j]
    BY <1>13
  <2>8. PICK d \in Nat : d = t[j + 1]
    BY <1>16, <2>1
  <2>4. sum[j + 1] = a + b /\ tum[j + 1] = c + d
    BY <1>12, <1>14, <2>1, <2>2, <2>3, <2>7, <2>8
  <2>5. a <= c /\ b <= d
    BY <1>1, <1>8, <2>1, <2>2, <2>3, <2>7, <2>8
  <2>6. QED
    BY <2>1, <2>4, <2>5
<1>9. n \in T
  <2> HIDE DEF T
  <2>1. \A j \in 0 .. n : j \in T
    BY <1>7, <1>8, StepByStep
  <2>2. QED
    BY <2>1
<1>10. QED
  BY <1>6, <1>9

(* What the sum of the integer weights bounds.                              *)
LEMMA WeightsFit ==
  ASSUME NEW list, Weighing(list), Reduced(list), TotalOf(Normalize(list)) <= I64Max
  PROVE  /\ ~Overflows(list)
         /\ \A k \in 1 .. Len(list) : Normalize(list)[k] \in 1 .. I64Max
         /\ TotalOf(Normalize(list)) \in 1 .. I64Max
<1>1. PICK n \in Nat \ {0} : n = Len(list) /\ DOMAIN list = 1 .. n
  BY LengthIs
<1>2. PICK s \in Seq(Nat \ {0}) : s = Normalize(list) /\ Len(s) = n
  BY <1>1, NormalizedIs
<1>3. s \in Seq(Nat) /\ s # <<>>
  BY <1>1, <1>2
<1>4. PICK total \in Nat : total = TotalOf(s) /\ \A k \in 1 .. n : s[k] <= total
  BY <1>2, <1>3, TotalBounds
<1>5. PICK max \in Nat : max = I64Max
  BY WidthAssumption DEF I64Max
<1>6. total <= max
  BY <1>2, <1>4, <1>5
<1>7. ASSUME NEW k \in 1 .. n PROVE s[k] \in 1 .. max
  <2>1. s[k] \in Nat \ {0} /\ s[k] <= total
    BY <1>2, <1>4
  <2>2. QED
    BY <1>6, <2>1
<1>8. max * max <= U128Max
  <2>1. PICK u \in Nat : u = U64 /\ max < u
    BY <1>5, WidthAssumption DEF U64, I64Max
  <2>2. max + 1 <= u /\ max + 1 \in Nat
    BY <2>1
  <2>3. max * (max + 1) = max * max + max * 1
    BY TimesPlus
  <2>4. max * (max + 1) <= max * u /\ u * (max + 1) <= u * u
    BY <2>2, TimesGrows
  <2>5. u * (max + 1) = u * max + u * 1
    BY TimesPlus
  <2>6. max * u = u * max /\ max * max \in Nat /\ u * u \in Nat /\ u * max \in Nat
    BY Times
  <2>7. max * max <= u * u - 1
    BY <2>1, <2>3, <2>4, <2>5, <2>6
  <2>8. QED
    BY <2>1, <2>7 DEF U128Max
<1>9. ASSUME NEW k \in 1 .. n
      PROVE  CommonDenominator(list)[k] <= U128Max /\ Scaled(list)[k] <= U128Max
  <2>1. Normalize(list)[k] <= I64Max
    BY <1>2, <1>5, <1>7
  <2>2. /\ Scaled(list)[k] <= max * max /\ Common(list) <= max * max
        /\ CommonDenominator(list)[k] <= Common(list)
    BY <1>1, <1>5, <2>1, NoneTooLarge
  <2>3. k \in 0 .. Len(list) /\ list \in Seq(Fractions)
    BY <1>1, LengthIs
  <2>4. CommonDenominator(list)[k] \in Nat
    BY <2>3, DenominatorIs
  <2>5. Common(list) \in Nat /\ Scaled(list)[k] \in Nat
    BY <1>1, ScaledIs
  <2>6. max * max \in Nat /\ U128Max \in Int
    BY Times, WidthAssumption DEF U128Max, U64
  <2>7. QED
    BY <1>8, <2>2, <2>4, <2>5, <2>6
<1>10. ~Overflows(list)
  <2>1. U128Max \in Int
    BY WidthAssumption DEF U128Max, U64
  <2>2. ASSUME NEW k \in 1 .. n
        PROVE  ~ (CommonDenominator(list)[k] > U128Max) /\ ~ (Scaled(list)[k] > U128Max)
    <3>1. k \in 0 .. Len(list) /\ list \in Seq(Fractions)
      BY <1>1, LengthIs
    <3>2. CommonDenominator(list)[k] \in Nat
      BY <3>1, DenominatorIs
    <3>3. Scaled(list)[k] \in Nat
      BY <1>1, ScaledIs
    <3>4. QED
      BY <1>9, <2>1, <3>2, <3>3
  <2>3. ~ (TotalOf(Normalize(list)) > I64Max)
    BY <1>2, <1>4, <1>5, <1>6
  <2>4. QED
    BY <1>1, <2>2, <2>3 DEF Overflows
<1>11. total # 0
  BY <1>1, <1>4, <1>7
<1>12. QED
  BY <1>1, <1>2, <1>4, <1>5, <1>6, <1>7, <1>10, <1>11

(* Integers in the proportion of the weights, the first of which is given.  *)
Share(list, first, k) == (first * list[k].num * list[1].den) \div (list[1].num * list[k].den)

Shares(list, first) ==
  \A k \in 1 .. Len(list) : (first * list[k].num * list[1].den) % (list[1].num * list[k].den) = 0

(* They have the proportions of the normalized weights.                     *)
LEMMA ShareIs ==
  ASSUME NEW list, Weighing(list), NEW first \in Nat \ {0}, Shares(list, first),
         NEW k \in 1 .. Len(list)
  PROVE  /\ Share(list, first, k) \in Nat
         /\ Normalize(list)[1] * Share(list, first, k) = first * Normalize(list)[k]
<1>1. 1 \in 1 .. Len(list)
  BY LengthIs
<1>2. PICK num \in Nat \ {0} : num = list[k].num
  BY WeightIs
<1>3. PICK den \in Nat \ {0} : den = list[k].den
  BY WeightIs
<1>4. PICK num1 \in Nat \ {0} : num1 = list[1].num
  BY <1>1, WeightIs
<1>5. PICK den1 \in Nat \ {0} : den1 = list[1].den
  BY <1>1, WeightIs
<1>6. PICK t \in Nat \ {0} : t = Normalize(list)[k]
  BY NormalizedIs
<1>7. PICK t1 \in Nat \ {0} : t1 = Normalize(list)[1]
  BY <1>1, NormalizedIs
<1>8. t1 * num * den1 = t * num1 * den
  BY <1>1, <1>2, <1>3, <1>4, <1>5, <1>6, <1>7, InProportion
<1>9. PICK x \in Nat : x = first * num * den1
  <2>1. first * num \in Nat
    BY Times
  <2>2. first * num * den1 \in Nat
    BY <2>1, Times
  <2>3. QED
    BY <2>2
<1>10. PICK y \in Nat \ {0} : y = num1 * den
  BY Times, TimesPositive
<1>11. PICK w \in Nat : w = x \div y /\ x = y * w
  <2>1. x % y = 0
    BY <1>2, <1>3, <1>4, <1>5, <1>9, <1>10 DEF Shares
  <2>2. x \div y \in Nat /\ x = y * (x \div y) + (x % y)
    BY Dividing
  <2>3. y * (x \div y) \in Nat
    BY <2>2, Times
  <2>4. QED
    BY <2>1, <2>2, <2>3
<1>12. Share(list, first, k) = w
  BY <1>2, <1>3, <1>4, <1>5, <1>9, <1>10, <1>11 DEF Share
<1>13. y * (t1 * w) = y * (first * t)
  <2>1. PICK z \in Nat : z = num * den1
    BY Times
  <2>2. x = first * z /\ t1 * num * den1 = t1 * z
    BY <1>9, <2>1, TimesAssoc
  <2>3. t * num1 * den = t * y
    BY <1>10, TimesAssoc
  <2>4. t1 * z = t * y
    BY <1>8, <2>2, <2>3
  <2>5. y * (t1 * w) = t1 * (first * z)
    <3>1. y * (t1 * w) = t1 * (y * w)
      BY TimesAssoc, Times
    <3>2. QED
      BY <1>11, <2>2, <3>1
  <2>6. t1 * (first * z) = first * (t1 * z)
    BY TimesAssoc, Times
  <2>7. first * (t * y) = y * (first * t)
    BY TimesAssoc, Times
  <2>8. QED
    BY <2>4, <2>5, <2>6, <2>7
<1>14. t1 * w \in Nat /\ first * t \in Nat
  BY Times
<1>15. t1 * w = first * t
  BY <1>13, <1>14, TimesCancels
<1>16. QED
  BY <1>6, <1>7, <1>12, <1>15

(* The same multiple for all: integers in the proportion are a multiple of  *)
(* the normalized weights, which have no divisor in common.                 *)
LEMMA SharesAreMultiples ==
  ASSUME NEW list, Weighing(list), NEW first \in Nat \ {0}, Shares(list, first)
  PROVE  \E m \in Nat \ {0} : \A k \in 1 .. Len(list) :
           Share(list, first, k) = m * Normalize(list)[k]
<1>1. PICK n \in Nat \ {0} : n = Len(list)
  BY LengthIs
<1>2. PICK s \in Seq(Nat \ {0}) : s = Normalize(list) /\ Len(s) = n
  BY <1>1, NormalizedIs
<1>3. 1 \in 1 .. n
  OBVIOUS
<1>4. PICK t \in Nat \ {0} : t = s[1]
  BY <1>2, <1>3
<1>5. PICK g \in Nat \ {0} : g = gcd[<<t, first>>] /\ Divides(g, t) /\ Divides(g, first)
  BY GcdDivides
<1>6. PICK a \in Nat : t = g * a
  BY <1>5 DEF Divides
<1>7. PICK b \in Nat : first = g * b
  BY <1>5 DEF Divides
<1>8. a # 0 /\ b # 0
  BY <1>6, <1>7, Times
<1>9. gcd[<<a, b>>] = 1
  <2>1. g = g * gcd[<<a, b>>]
    <3>1. a # 0 \/ b # 0
      BY <1>8
    <3>2. gcd[<<g * a, g * b>>] = g * gcd[<<a, b>>]
      BY ONLY <3>1, g \in Nat \ {0}, a \in Nat, b \in Nat, GcdTimes
    <3>3. QED
      BY <1>5, <1>6, <1>7, <3>2
  <2>2. gcd[<<a, b>>] \in Nat
    BY GcdIs
  <2>3. g * 1 = g * gcd[<<a, b>>]
    BY <2>1
  <2>4. QED
    BY <2>2, <2>3, TimesCancels
<1>10. ASSUME NEW k \in 1 .. n
       PROVE  Share(list, first, k) \in Nat /\ a * Share(list, first, k) = b * s[k] /\ Divides(a, s[k])
  <2>1. Share(list, first, k) \in Nat /\ t * Share(list, first, k) = first * s[k]
    BY <1>1, <1>2, <1>4, ShareIs
  <2>2. PICK w \in Nat : w = Share(list, first, k)
    BY <2>1
  <2>3. PICK v \in Nat \ {0} : v = s[k]
    BY <1>2
  <2>4. g * (a * w) = g * (b * v)
    BY <1>6, <1>7, <2>1, <2>2, <2>3, TimesAssoc
  <2>5. a * w \in Nat /\ b * v \in Nat
    BY Times
  <2>6. a * w = b * v
    BY <2>4, <2>5, TimesCancels
  <2>7. Divides(a, b * v)
    BY <2>6 DEF Divides
  <2>8. Divides(a, v)
    BY <1>8, <1>9, <2>7, DividesOther
  <2>9. QED
    BY <2>2, <2>3, <2>6, <2>8
<1>11. Divides(a, 1)
  <2>1. s \in Seq(Nat)
    BY <1>2
  <2>2. DividesAll(a, s, Len(s))
    BY <1>2, <1>10 DEF DividesAll
  <2>3. Divides(a, Divisor(s))
    BY <1>8, <2>1, <2>2, DivisorIs
  <2>4. QED
    BY <1>2, <2>3, NormalizedApart
<1>12. a = 1
  <2>1. a <= 1
    BY <1>11, DividesBounds
  <2>2. QED
    BY <1>8, <2>1
<1>13. ASSUME NEW k \in 1 .. n PROVE Share(list, first, k) = b * s[k]
  BY <1>10, <1>12
<1>14. QED
  BY <1>1, <1>2, <1>8, <1>13

(* Integer weights fit exactly when the normalized ones do.                 *)
LEMMA RepresentableIs ==
  ASSUME NEW list, Weighing(list)
  PROVE  Representable(list) <=> TotalOf(Normalize(list)) <= I64Max
<1>1. PICK n \in Nat \ {0} : n = Len(list) /\ DOMAIN list = 1 .. n
  BY LengthIs
<1>2. PICK s \in Seq(Nat \ {0}) : s = Normalize(list) /\ Len(s) = n
  BY <1>1, NormalizedIs
<1>3. s \in Seq(Nat) /\ s # <<>>
  BY <1>1, <1>2
<1>4. PICK max \in Nat : max = I64Max
  BY WidthAssumption DEF I64Max
<1> DEFINE shares(first) == [k \in 1 .. n |-> Share(list, first, k)]
<1>5. Representable(list) <=> \E first \in 1 .. max : Shares(list, first) /\ TotalOf(shares(first)) <= max
  BY <1>1, <1>4 DEF Representable, Shares, Share
<1>6. ASSUME NEW first \in 1 .. max, Shares(list, first), TotalOf(shares(first)) <= max
      PROVE  TotalOf(s) <= max
  <2>1. first \in Nat \ {0}
    OBVIOUS
  <2>2. PICK m \in Nat \ {0} : \A k \in 1 .. n : Share(list, first, k) = m * s[k]
    <3>1. \E m \in Nat \ {0} : \A k \in 1 .. Len(list) :
            Share(list, first, k) = m * Normalize(list)[k]
      BY ONLY Weighing(list), Shares(list, first), <1>6, <2>1, SharesAreMultiples
    <3>2. QED
      BY ONLY <1>1, <1>2, <3>1
  <2>3. ASSUME NEW k \in 1 .. n PROVE Share(list, first, k) \in Nat /\ s[k] <= Share(list, first, k)
    <3>1. PICK v \in Nat : v = s[k]
      BY <1>2
    <3>2. v <= m * v /\ m * v \in Nat
      BY Times, TimesPositive
    <3>3. QED
      BY <2>2, <3>1, <3>2
  <2>4. PICK w : w = shares(first)
    OBVIOUS
  <2>5. w \in Seq(Nat) /\ Len(w) = n
    <3>1. w \in [1 .. n -> Nat]
      BY <2>3, <2>4
    <3>2. QED
      BY <3>1
  <2>6. \A k \in 1 .. Len(s) : s[k] <= w[k]
    BY <1>2, <2>3, <2>4
  <2>7. TotalOf(s) <= TotalOf(w)
    BY <1>2, <1>3, <2>5, <2>6, TotalsCompare
  <2>8. TotalOf(s) \in Nat
    BY <1>3, TotalBounds
  <2>9. TotalOf(w) \in Nat
    <3>1. w # <<>>
      BY <2>5
    <3>2. QED
      BY <2>5, <3>1, TotalBounds
  <2>10. QED
    BY <1>6, <2>4, <2>7, <2>8, <2>9
<1>7. ASSUME TotalOf(s) <= max
      PROVE  \E first \in 1 .. max : Shares(list, first) /\ TotalOf(shares(first)) <= max
  <2>1. 1 \in 1 .. n
    OBVIOUS
  <2>2. PICK t \in Nat \ {0} : t = s[1]
    BY <1>2, <2>1
  <2>3. t \in 1 .. max
    <3>1. TotalOf(s) \in Nat /\ t <= TotalOf(s)
      BY <1>2, <1>3, <2>1, <2>2, TotalBounds
    <3>2. QED
      BY <1>7, <3>1
  <2>4. ASSUME NEW k \in 1 .. n
        PROVE  /\ (t * list[k].num * list[1].den) % (list[1].num * list[k].den) = 0
               /\ Share(list, t, k) = s[k]
    <3>1. t * list[k].num * list[1].den = s[k] * list[1].num * list[k].den
      BY <1>1, <1>2, <2>1, <2>2, InProportion
    <3>2. PICK num \in Nat \ {0} : num = list[1].num
      BY <1>1, <2>1, WeightIs
    <3>3. PICK den \in Nat \ {0} : den = list[k].den
      BY <1>1, WeightIs
    <3>4. PICK v \in Nat : v = s[k]
      BY <1>2
    <3>5. PICK y \in Nat \ {0} : y = num * den
      BY Times, TimesPositive
    <3>6. v * num * den = y * v + 0
      <4>1. v * num * den = v * y
        BY <3>5, TimesAssoc
      <4>2. v * y = y * v /\ y * v \in Nat
        BY Times
      <4>3. QED
        BY <4>1, <4>2
    <3>7. (y * v + 0) \div y = v /\ (y * v + 0) % y = 0
      BY DividingExact
    <3>8. QED
      BY <3>1, <3>2, <3>3, <3>4, <3>5, <3>6, <3>7 DEF Share
  <2>5. Shares(list, t)
    BY <1>1, <2>4 DEF Shares
  <2>6. shares(t) = s
    BY <1>2, <2>4
  <2>7. QED
    BY <1>7, <2>3, <2>5, <2>6
<1>8. QED
  BY <1>2, <1>4, <1>5, <1>6, <1>7

(* Overflow is reported exactly when no integers fit.                       *)
LEMMA OverflowIs ==
  ASSUME NEW list, Weighing(list), Reduced(list)
  PROVE  Overflows(list) <=> ~Representable(list)
<1>1. Representable(list) <=> TotalOf(Normalize(list)) <= I64Max
  BY RepresentableIs
<1>2. TotalOf(Normalize(list)) \in Nat
  <2>1. PICK s : s = Normalize(list)
    OBVIOUS
  <2>2. s \in Seq(Nat \ {0}) /\ Len(s) = Len(list) /\ Len(list) \in Nat \ {0}
    BY <2>1, NormalizedIs, LengthIs
  <2>3. s \in Seq(Nat) /\ s # <<>>
    BY <2>2
  <2>4. QED
    BY <2>1, <2>3, TotalBounds
<1>3. I64Max \in Int
  BY WidthAssumption DEF I64Max
<1>4. CASE TotalOf(Normalize(list)) <= I64Max
  BY <1>1, <1>4, WeightsFit
<1>5. CASE ~ (TotalOf(Normalize(list)) <= I64Max)
  <2>1. TotalOf(Normalize(list)) > I64Max
    BY <1>2, <1>3, <1>5
  <2>2. QED
    BY <1>1, <1>5, <2>1 DEF Overflows
<1>6. QED
  BY <1>4, <1>5

-----------------------------------------------------------------------------
(* The invariant of a selection.                                            *)

(* Productions with a positive weight.                                      *)
PositiveIn(p) == p \in Seq(1 .. Len(weights)) /\ \A k \in 1 .. Len(p) : weights[p[k]].num > 0

(* The loop of eligible_weights collects positive weights.                  *)
LEMMA PositiveIs ==
  ASSUME weights \in Seq(Fractions)
  PROVE  PositiveIn(Positive)
<1>1. PICK n \in Nat : n = Len(weights) /\ DOMAIN weights = 1 .. n
  OBVIOUS
<1> DEFINE U == {p \in Seq(1 .. n) : \A k \in 1 .. Len(p) : weights[p[k]].num > 0}
           next(u, k) == IF weights[k].num > 0 THEN Append(u, k) ELSE u
           step == [k \in 1 .. n |-> [u \in U |-> next(u, k)]]
           Rec(f) == [k \in 0 .. n |-> IF k = 0 THEN <<>> ELSE next(f[k - 1], k)]
<1>2. ASSUME NEW k \in 1 .. n, NEW u \in U PROVE next(u, k) \in U
  <2>1. CASE weights[k].num > 0
    <3>1. PICK m \in Nat : m = Len(u)
      OBVIOUS
    <3>5. u \in Seq(1 .. n)
      OBVIOUS
    <3>6. Append(u, k) \in Seq(1 .. n) /\ Len(Append(u, k)) = Len(u) + 1
      BY ONLY <3>5, k \in 1 .. n
    <3>2. PICK v \in Seq(1 .. n) : v = Append(u, k) /\ Len(v) = m + 1
      BY <3>1, <3>6
    <3>3. ASSUME NEW j \in 1 .. m + 1 PROVE weights[v[j]].num > 0
      <4>1. CASE j = m + 1
        <5>1. v[m + 1] = k
          BY <3>1, <3>2
        <5>2. QED
          BY <2>1, <4>1, <5>1
      <4>2. CASE j # m + 1
        <5>1. j \in 1 .. m
          BY <4>2
        <5>2. v[j] = u[j]
          BY <3>1, <3>2, <5>1
        <5>3. QED
          BY <3>1, <5>1, <5>2
      <4>3. QED
        BY <4>1, <4>2
    <3>4. QED
      BY <2>1, <3>2, <3>3
  <2>2. CASE ~ (weights[k].num > 0)
    BY <2>2
  <2>3. QED
    BY <2>1, <2>2
<1>3. step \in [1 .. n -> [U -> U]] /\ \A k \in 1 .. n, u \in U : step[k][u] = next(u, k)
  <2> HIDE DEF U, next
  <2>1. QED
    BY <1>2
<1>4. <<>> \in U
  OBVIOUS
<1>5. PICK w : RunOf(w, U, <<>>, step, n)
  <2> HIDE DEF step, U
  <2>1. QED
    BY <1>3, <1>4, RunsExist
<1>6. w = Rec(w)
  <2> HIDE DEF step, U, next
  <2>1. ASSUME NEW k \in 0 .. n PROVE w[k] = IF k = 0 THEN <<>> ELSE next(w[k - 1], k)
    <3>1. CASE k = 0
      BY <1>5, <3>1 DEF RunOf
    <3>2. CASE k # 0
      <4>1. k \in 1 .. n /\ k - 1 \in 0 .. n
        BY <3>2
      <4>2. w[k - 1] \in U /\ w[k] = step[k][w[k - 1]]
        BY <1>5, <4>1 DEF RunOf
      <4>3. QED
        BY <1>3, <3>2, <4>1, <4>2
    <3>3. QED
      BY <3>1, <3>2
  <2>2. w = [k \in 0 .. n |-> w[k]]
    BY <1>5 DEF RunOf
  <2>3. QED
    BY <2>1, <2>2
<1>7. Positive = LET indices == CHOOSE f : f = [k \in 0 .. n |-> IF k = 0 THEN <<>>
                                    ELSE IF weights[k].num > 0 THEN Append(f[k - 1], k) ELSE f[k - 1]]
                 IN  indices[n]
  BY <1>1 DEF Positive
<1>8. PICK f : Positive = f[n] /\ f = Rec(f)
  <2>1. \A f : [k \in 0 .. n |-> IF k = 0 THEN <<>>
                                    ELSE IF weights[k].num > 0 THEN Append(f[k - 1], k) ELSE f[k - 1]]
               = Rec(f)
    OBVIOUS
  <2>2. Positive = LET indices == CHOOSE f : f = Rec(f) IN indices[n]
    BY <1>7
  <2> HIDE DEF Rec
  <2>3. QED
    BY <1>6, <2>2
<1>9. /\ f = [k \in 0 .. n |-> f[k]] /\ f[0] = <<>>
      /\ \A k \in 1 .. n : f[k] = next(f[k - 1], k)
  <2> HIDE DEF next
  <2>1. 0 \in 0 .. n /\ \A k \in 1 .. n : k \in 0 .. n /\ k # 0
    OBVIOUS
  <2>2. QED
    BY <1>8, <2>1
<1>10. RunOf(f, U, <<>>, step, n)
  <2> HIDE DEF step, U, next
  <2>1. \A k \in 1 .. n : f[k - 1] \in U => f[k] = step[k][f[k - 1]]
    BY <1>3, <1>9
  <2>2. QED
    BY <1>3, <1>4, <1>9, <2>1, RecursionRuns
<1>11. f[n] \in U
  <2> HIDE DEF U
  <2>1. n \in 0 .. n
    OBVIOUS
  <2>2. QED
    BY <1>10, <2>1 DEF RunOf
<1>12. QED
  BY <1>1, <1>8, <1>11 DEF PositiveIn

(* They are what normalize_rationals is given.                              *)
LEMMA PositiveWeightsAre ==
  ASSUME weights \in WeightLists, Positive # <<>>
  PROVE  /\ Weighing(PositiveWeights) /\ Reduced(PositiveWeights)
         /\ Len(PositiveWeights) = Len(Positive)
         /\ \A k \in 1 .. Len(Positive) : PositiveWeights[k] = weights[Positive[k]]
<1>1. weights \in Seq(Fractions)
  BY WeightsAssumption
<1>2. PICK p : p = Positive /\ p \in Seq(1 .. Len(weights)) /\ \A k \in 1 .. Len(p) : weights[p[k]].num > 0
  BY <1>1, PositiveIs DEF PositiveIn
<1>3. PICK n \in Nat \ {0} : n = Len(p) /\ DOMAIN p = 1 .. n
  BY <1>2
<1>4. PICK list : list = PositiveWeights
  OBVIOUS
<1>5. list = [k \in 1 .. n |-> weights[p[k]]]
  BY <1>2, <1>3, <1>4 DEF PositiveWeights
<1>6. ASSUME NEW k \in 1 .. n
      PROVE  /\ list[k] \in Fractions /\ list[k].num > 0 /\ list[k] = weights[p[k]]
             /\ gcd[<<list[k].num, list[k].den>>] = 1
  <2>1. p[k] \in 1 .. Len(weights) /\ p[k] \in DOMAIN weights
    BY <1>1, <1>2, <1>3
  <2>2. weights[p[k]] \in Fractions /\ weights[p[k]].num > 0
    BY <1>1, <1>2, <1>3, <2>1
  <2>3. gcd[<<weights[p[k]].num, weights[p[k]].den>>] = 1
    BY <2>1, <2>2, WeightsAssumption
  <2>4. QED
    BY <1>5, <2>2, <2>3
<1>7. list \in Seq(Fractions) /\ Len(list) = n
  <2>1. list \in [1 .. n -> Fractions]
    BY <1>5, <1>6
  <2>2. QED
    BY <2>1
<1>8. Weighing(list)
  BY <1>6, <1>7 DEF Weighing
<1>9. Reduced(list)
  BY <1>6, <1>7 DEF Reduced
<1>10. QED
  BY <1>2, <1>3, <1>4, <1>6, <1>7, <1>8, <1>9

(* What is known of a selection: an invariant.                              *)
SelectionKnown ==
  /\ weights \in WeightLists
  /\ words \in 0 .. Budget /\ Len(eligible) = Len(normalized)
  /\ Drawing => /\ Positive # <<>> /\ ~Overflows(PositiveWeights)
                /\ eligible = Positive /\ normalized = Normalize(PositiveWeights)
  /\ outcome = "weight-overflow" => Positive # <<>> /\ Overflows(PositiveWeights)

LEMMA KnownInit == SelectionInit => SelectionKnown
<1>1. 0 \in 0 .. Budget
  BY BudgetAssumption
<1>2. QED
  BY <1>1 DEF SelectionInit, SelectionKnown, Drawing

LEMMA KnownNext == SelectionKnown /\ [SelectionNext]_selection => SelectionKnown'
<1> SUFFICES ASSUME SelectionKnown, [SelectionNext]_selection PROVE SelectionKnown'
  OBVIOUS
<1>1. weights' = weights
  BY DEF SelectionNext, selection, Weigh, Draw, Exhaust
<1>2. Positive' = Positive
  BY <1>1 DEF Positive
<1>3. PositiveWeights' = PositiveWeights
  BY <1>1, <1>2 DEF PositiveWeights
<1>4. CASE Weigh
  <2>1. outcome = "weighing" /\ words' = words
    BY <1>4 DEF Weigh
  <2>2. CASE outcome' = "drawing"
    <3>1. Positive # <<>> /\ ~Overflows(PositiveWeights)
      BY <1>4, <2>2 DEF Weigh
    <3>2. eligible' = Positive /\ normalized' = Normalize(PositiveWeights)
      BY <1>4, <2>2 DEF Weigh
    <3>3. Len(Positive) = Len(Normalize(PositiveWeights))
      <4>1. weights \in WeightLists
        BY DEF SelectionKnown
      <4>2. Weighing(PositiveWeights) /\ Len(PositiveWeights) = Len(Positive)
        BY <3>1, <4>1, PositiveWeightsAre
      <4>3. QED
        BY <4>2, NormalizedIs
    <3>4. QED
      BY <1>1, <1>2, <1>3, <2>1, <2>2, <3>1, <3>2, <3>3 DEF SelectionKnown, Drawing
  <2>3. CASE outcome' # "drawing"
    <3>1. UNCHANGED <<eligible, normalized>>
      BY <1>4, <2>3 DEF Weigh
    <3>2. outcome' = "weight-overflow" => Positive # <<>> /\ Overflows(PositiveWeights)
      BY <1>4 DEF Weigh
    <3>3. QED
      BY <1>1, <1>2, <1>3, <2>1, <2>3, <3>1, <3>2 DEF SelectionKnown, Drawing
  <2>4. QED
    BY <2>2, <2>3
<1>5. ASSUME NEW word \in Word, Draw(word) PROVE SelectionKnown'
  <2>1. outcome = "drawing" /\ words < Budget /\ words' = words + 1 /\ UNCHANGED <<eligible, normalized>>
    BY <1>5 DEF Draw
  <2>2. outcome' \in {"selected", outcome}
    BY <1>5 DEF Draw
  <2>3. words' \in 0 .. Budget
    BY <2>1, BudgetAssumption DEF SelectionKnown
  <2>4. QED
    BY <1>1, <1>2, <1>3, <2>1, <2>2, <2>3 DEF SelectionKnown, Drawing
<1>6. CASE Exhaust
  <2>1. outcome' = "sampler-budget" /\ UNCHANGED <<eligible, normalized, words>>
    BY <1>6 DEF Exhaust
  <2>2. QED
    BY <1>1, <2>1 DEF SelectionKnown, Drawing
<1>7. CASE UNCHANGED selection
  BY <1>1, <1>2, <1>3, <1>7 DEF SelectionKnown, Drawing, selection
<1>8. QED
  BY <1>4, <1>5, <1>6, <1>7 DEF SelectionNext

LEMMA KnownAlways == SelectionSpec => []SelectionKnown
BY KnownInit, KnownNext, PTL DEF SelectionSpec

(* What holds of every draw.                                                *)
LEMMA DrawnKnown ==
  ASSUME SelectionKnown, Drawing
  PROVE  /\ normalized \in Seq(Nat \ {0}) /\ normalized # <<>> /\ Total <= I64Max
         /\ Weighing(PositiveWeights) /\ Reduced(PositiveWeights)
         /\ Len(PositiveWeights) = Len(normalized)
         /\ normalized = Normalize(PositiveWeights)
         /\ \A k \in 1 .. Len(normalized) : PositiveWeights[k] = weights[eligible[k]]
         /\ Representable(PositiveWeights)
<1>1. /\ weights \in WeightLists /\ Positive # <<>> /\ ~Overflows(PositiveWeights)
      /\ eligible = Positive /\ normalized = Normalize(PositiveWeights)
      /\ Len(eligible) = Len(normalized)
  BY DEF SelectionKnown
<1>2. /\ Weighing(PositiveWeights) /\ Reduced(PositiveWeights)
      /\ Len(PositiveWeights) = Len(Positive)
      /\ \A k \in 1 .. Len(Positive) : PositiveWeights[k] = weights[Positive[k]]
  BY <1>1, PositiveWeightsAre
<1>3. Representable(PositiveWeights)
  BY <1>1, <1>2, OverflowIs
<1>4. normalized \in Seq(Nat \ {0}) /\ Len(normalized) \in Nat \ {0}
  BY <1>1, <1>2, NormalizedIs, LengthIs
<1>5. normalized # <<>>
  BY <1>4
<1>6. Total <= I64Max
  BY <1>1, <1>2, <1>3, RepresentableIs DEF Total
<1>7. QED
  BY <1>1, <1>2, <1>3, <1>4, <1>5, <1>6

LEMMA KnownExact == SelectionKnown => ExactProportions
<1> SUFFICES ASSUME SelectionKnown PROVE ExactProportions
  OBVIOUS
<1>1. words \in 0 .. Budget /\ Len(eligible) = Len(normalized)
  BY DEF SelectionKnown
<1>2. CASE ~Drawing
  BY <1>1, <1>2 DEF ExactProportions, SelectionTyped
<1>3. CASE Drawing
  <2>1. /\ normalized \in Seq(Nat \ {0}) /\ normalized # <<>> /\ Total <= I64Max
        /\ Weighing(PositiveWeights) /\ Reduced(PositiveWeights)
        /\ Len(PositiveWeights) = Len(normalized)
        /\ normalized = Normalize(PositiveWeights)
        /\ \A k \in 1 .. Len(normalized) : PositiveWeights[k] = weights[eligible[k]]
    BY <1>3, DrawnKnown
  <2>2. PICK n \in Nat \ {0} : n = Len(normalized) /\ DOMAIN normalized = 1 .. n
    BY <2>1
  <2>3. SelectionTyped
    <3>1. TotalOf(Normalize(PositiveWeights)) <= I64Max
      BY <2>1 DEF Total
    <3>2. /\ \A k \in 1 .. n : normalized[k] \in 1 .. I64Max
          /\ Total \in 1 .. I64Max
      BY <2>1, <2>2, <3>1, WeightsFit DEF Total
    <3>3. Divisor(normalized) = 1
      BY <2>1, NormalizedApart
    <3>4. QED
      BY <1>1, <2>2, <3>2, <3>3 DEF SelectionTyped
  <2>4. PICK q \in Nat \ {0} : \A k \in 1 .. n : Hits(k) = q * normalized[k]
    BY <2>1, <2>2, HitsAre
  <2>5. 2 * Threshold <= U64
    BY <2>1, HitsAre
  <2>6. ASSUME NEW k \in 1 .. n PROVE Hits(k) > 0
    <3>1. PICK v \in Nat \ {0} : v = normalized[k]
      BY <2>1, <2>2
    <3>2. q * v \in Nat /\ q * v # 0
      BY Times, TimesPositive
    <3>3. QED
      BY <2>4, <3>1, <3>2
  <2>7. ASSUME NEW j \in 1 .. n, NEW k \in 1 .. n
        PROVE  Hits(j) * weights[eligible[k]].num * weights[eligible[j]].den
               = Hits(k) * weights[eligible[j]].num * weights[eligible[k]].den
    <3>1. normalized[j] * PositiveWeights[k].num * PositiveWeights[j].den
          = normalized[k] * PositiveWeights[j].num * PositiveWeights[k].den
      BY <2>1, <2>2, InProportion
    <3>2. PICK a \in Nat, b \in Nat : a = normalized[j] /\ b = normalized[k]
      BY <2>1, <2>2
    <3>3. PICK c \in Nat : c = weights[eligible[j]].num /\ c = PositiveWeights[j].num
      BY <2>1, <2>2, WeightIs
    <3>4. PICK d \in Nat : d = weights[eligible[j]].den /\ d = PositiveWeights[j].den
      BY <2>1, <2>2, WeightIs
    <3>5. PICK e \in Nat : e = weights[eligible[k]].num /\ e = PositiveWeights[k].num
      BY <2>1, <2>2, WeightIs
    <3>6. PICK f \in Nat : f = weights[eligible[k]].den /\ f = PositiveWeights[k].den
      BY <2>1, <2>2, WeightIs
    <3>7. a * e * d = b * c * f
      BY <3>1, <3>2, <3>3, <3>4, <3>5, <3>6
    <3>8. Hits(j) = q * a /\ Hits(k) = q * b
      BY <2>4, <3>2
    <3>9. a * e \in Nat /\ b * c \in Nat
      BY Times
    <3>10. (q * a) * e * d = q * (a * e * d)
      BY <3>9, TimesAssoc
    <3>11. (q * b) * c * f = q * (b * c * f)
      BY <3>9, TimesAssoc
    <3>12. QED
      BY <3>3, <3>4, <3>5, <3>6, <3>7, <3>8, <3>10, <3>11
  <2>8. QED
    BY <2>2, <2>3, <2>5, <2>6, <2>7 DEF ExactProportions
<1>4. QED
  BY <1>2, <1>3

LEMMA KnownAgrees == SelectionKnown => PathsAgree
<1> SUFFICES ASSUME SelectionKnown, Drawing, NEW choice \in 0 .. Total - 1
             PROVE  PartitionPoint(choice) = Scan(choice)
  BY DEF PathsAgree
<1>1. normalized \in Seq(Nat \ {0}) /\ normalized # <<>>
  BY DrawnKnown
<1>2. QED
  BY <1>1, SearchesAgree

LEMMA KnownReal == SelectionKnown => OverflowIsReal
<1> SUFFICES ASSUME SelectionKnown PROVE OverflowIsReal
  OBVIOUS
<1>1. ASSUME outcome = "weight-overflow" PROVE ~Representable(PositiveWeights)
  <2>1. weights \in WeightLists /\ Positive # <<>> /\ Overflows(PositiveWeights)
    BY <1>1 DEF SelectionKnown
  <2>2. Weighing(PositiveWeights) /\ Reduced(PositiveWeights)
    BY <2>1, PositiveWeightsAre
  <2>3. QED
    BY <2>1, <2>2, OverflowIs
<1>2. ASSUME Drawing PROVE Representable(PositiveWeights)
  BY <1>2, DrawnKnown
<1>3. QED
  BY <1>1, <1>2 DEF OverflowIsReal

(* Each eligible production is drawn exactly in proportion to its weight.   *)
THEOREM DrawsExact == SelectionSpec => []ExactProportions
BY KnownAlways, KnownExact, PTL

(* The prepared selection and the scan draw the same production.            *)
THEOREM SelectionsAgree == SelectionSpec => []PathsAgree
BY KnownAlways, KnownAgrees, PTL

(* The overflow error is reported exactly when no integer weights fit.      *)
THEOREM OverflowsReal == SelectionSpec => []OverflowIsReal
BY KnownAlways, KnownReal, PTL
=============================================================================
