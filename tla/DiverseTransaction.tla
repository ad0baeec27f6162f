------------------------- MODULE DiverseTransaction -------------------------
(***************************************************************************)
(* SamplerSession::generate of diverse.rs over one RepetitionStore: a call *)
(* reserves the random words of all its attempts, expands one candidate    *)
(* per attempt against the store as it was when the call began, ranks the  *)
(* candidates that succeeded, and commits the best one or nothing at all.  *)
(*                                                                         *)
(* The expansion of a candidate is the generator's business: here it is    *)
(* any sequence of selections that diverse_eligible_weights allows, then   *)
(* any text or an error.  One transaction runs at a time: generate holds   *)
(* both objects by &mut, and `busy` refuses what the borrow checker cannot *)
(* see.  A refused or cancelled call changes nothing and is a stutter.     *)
(***************************************************************************)
EXTENDS Integers, Sequences, SequencesExt, FiniteSets

CONSTANTS
  Session,            (* sampler sessions sharing the store                *)
  Grammar,            (* compiled grammars generating into the store       *)
  Rule,               (* qualified rule names                              *)
  Exempt,             (* rules that are nullable or recursive              *)
  Production,         (* production IDs                                    *)
  Order,              (* rank of a production ID in string order           *)
  Text,               (* texts a candidate may produce                     *)
  ExactText,          (* normalized texts                                  *)
  Normal,             (* normalize_text: Text to ExactText                 *)
  Fragment,           (* edge fragments                                    *)
  Edges,              (* edge_fragments: Text to Seq(Fragment)             *)
  TextBytes,          (* UTF-8 length of a normalized text                 *)
  FragmentBytes,      (* UTF-8 length of a fragment                        *)
  ExactCapacity, ExactByteCapacity,
  EdgeCapacity, EdgeByteCapacity,
  Attempts,           (* candidate_attempts                                *)
  Gap,                (* hard_minimum_gap                                  *)
  Horizon,            (* soft_cooldown_horizon                             *)
  Idle,               (* no call is running                                *)
  MaxSelections,      (* bound: selections of one candidate                *)
  MaxReturned         (* bound: calls that return an output                *)

ASSUME RuleAssumption    == Exempt \subseteq Rule
ASSUME OrderAssumption   == Order \in [Production -> Nat] /\ IsInjective(Order)
ASSUME TextAssumption    == Normal \in [Text -> ExactText] /\ Edges \in [Text -> Seq(Fragment)]
ASSUME BytesAssumption   == TextBytes \in [ExactText -> Nat] /\ FragmentBytes \in [Fragment -> Nat]
ASSUME BudgetAssumption  == {ExactCapacity, ExactByteCapacity, EdgeCapacity, EdgeByteCapacity} \subseteq Nat
ASSUME ProfileAssumption == Attempts \in Nat /\ Gap \in Nat /\ Horizon \in Nat /\ Gap <= Horizon

Exact == INSTANCE HistoryWindow WITH
           Fragment <- ExactText, Bytes <- TextBytes,
           Capacity <- ExactCapacity, ByteCapacity <- ExactByteCapacity

Edge == INSTANCE HistoryWindow WITH
          Bytes <- FragmentBytes,
          Capacity <- EdgeCapacity, ByteCapacity <- EdgeByteCapacity

VARIABLES
  words,       (* random words consumed by each session: its cursor        *)
  store,       (* [revision, structural, exact, edges]                     *)
  call,        (* the running transaction, or Idle                         *)
  returned,    (* history: outputs returned, with the rivals they beat     *)
  chosen       (* history: selections of the returned outputs              *)

vars == <<words, store, call, returned, chosen>>

-----------------------------------------------------------------------------
(* Structural selection.                                                    *)

(* selections of `made` for rule r, in their order, as production IDs. *)
Of(r, made) ==
  LET mine == {i \in DOMAIN made : made[i].rule = r}
      Nth(n) == CHOOSE i \in mine : Cardinality({j \in mine : j <= i}) = n
  IN [n \in 1 .. Cardinality(mine) |-> made[Nth(n)].production]

(* Mutation: a candidate does not see its own pending selections. *)
RecentCommitted(r) == store.structural[r]

(* recent: the committed history of r, then the candidate's own selections. *)
Recent(r) == store.structural[r] \o Of(r, call.selections)

LastOf(s, n) == IF Len(s) <= n THEN s ELSE SubSeq(s, Len(s) - n + 1, Len(s))

(* selection_age: 1 for the latest selection; 0 stands for never. *)
Age(s, p) ==
  IF \E i \in 1 .. Len(s) : s[i] = p
  THEN Len(s) + 1 - CHOOSE i \in 1 .. Len(s) : s[i] = p /\ \A j \in i + 1 .. Len(s) : s[j] # p
  ELSE 0

(* p is re-enabled before q: never selected, else older, else smaller ID. *)
Older(s, p, q) ==
  \/ Age(s, p) = 0 /\ Age(s, q) # 0
  \/ Age(s, p) > Age(s, q) /\ Age(s, q) # 0
  \/ Age(s, p) = Age(s, q) /\ Order[p] <= Order[q]

(* diverse_eligible_weights: what may be selected of the guard-eligible     *)
(* productions E of rule r, given the recent selections s.  Cooldown and    *)
(* diversity weights are positive, so they only set probabilities.          *)
Available(r, E, s) ==
  LET warm == E \ ToSet(LastOf(s, Gap)) IN
  IF r \in Exempt THEN E
  ELSE IF warm # {} THEN warm
  ELSE {p \in E : \A q \in E : Older(s, p, q)}

-----------------------------------------------------------------------------
(* A call.                                                                  *)

Begin(s, g) ==
  /\ call = Idle
  /\ Len(returned) < MaxReturned
  /\ call' = [session |-> s, grammar |-> g, attempt |-> 0,
              selections |-> <<>>, viable |-> <<>>]
  /\ UNCHANGED <<words, store, returned, chosen>>

Expanding == call # Idle /\ call.attempt < Attempts

(* One rule is expanded; E is what its guards and base weights leave.       *)
Select(r, E, p) ==
  /\ Expanding
  /\ Len(call.selections) < MaxSelections
  /\ E # {}
  /\ p \in Available(r, E, Recent(r))
  /\ call' = [call EXCEPT !.selections =
                Append(@, [rule |-> r, production |-> p, eligible |-> E,
                           grammar |-> call.grammar])]
  /\ UNCHANGED <<words, store, returned, chosen>>

(* exact_count of a text in a history of texts. *)
ExactCount(texts, t) == Exact!Occurrences(texts, Normal[t])

(* edge_score in a history of phrases: each fragment of the text, repeated  *)
(* ones too, counts where it occurs.                                        *)
EdgeScore(phrases, t) ==
  Cardinality({q \in (DOMAIN Edges[t]) \X Edge!Positions(phrases) :
                 Edge!FragmentAt(phrases, q[2]) = Edges[t][q[1]]})

(* The candidate is a text: it is ranked and kept. *)
Succeed(t) ==
  /\ Expanding
  /\ call' = [call EXCEPT
       !.attempt = @ + 1,
       !.selections = <<>>,
       !.viable = Append(@, [exact |-> ExactCount(store.exact, t),
                             edge |-> EdgeScore(store.edges, t),
                             attempt |-> call.attempt, text |-> t,
                             selections |-> call.selections])]
  /\ UNCHANGED <<words, store, returned, chosen>>

(* Mutation: a failed attempt takes its word from the live cursor. *)
DisqualifySpendingWord ==
  /\ Expanding
  /\ call' = [call EXCEPT !.attempt = @ + 1, !.selections = <<>>]
  /\ words' = [words EXCEPT ![call.session] = @ + 1]
  /\ UNCHANGED <<store, returned, chosen>>

(* The candidate fails (no eligible production, a limit, a message): it is  *)
(* disqualified, its selections are forgotten.                              *)
Disqualify ==
  /\ Expanding
  /\ call' = [call EXCEPT !.attempt = @ + 1, !.selections = <<>>]
  /\ UNCHANGED <<words, store, returned, chosen>>

(* Mutation: edge fragments are compared before exact texts. *)
BetterByEdges(a, b) ==
  \/ a.edge < b.edge
  \/ a.edge = b.edge /\ a.exact < b.exact
  \/ a.edge = b.edge /\ a.exact = b.exact /\ a.attempt < b.attempt

(* Lexicographic order of the rankings. *)
Better(a, b) ==
  \/ a.exact < b.exact
  \/ a.exact = b.exact /\ a.edge < b.edge
  \/ a.exact = b.exact /\ a.edge = b.edge /\ a.attempt < b.attempt

(* Mutation: the phrase's edge fragments are not remembered. *)
CommittedForgettingEdges(made, t) ==
  [revision   |-> store.revision + 1,
   structural |-> [r \in Rule |-> LastOf(store.structural[r] \o Of(r, made), Horizon)],
   exact      |-> Exact!Window(Append(store.exact, <<Normal[t]>>)),
   edges      |-> store.edges]

(* commit: the store once t, made by the selections `made`, is returned.    *)
(* The revision counter wraps at 2^64, out of the model's reach.            *)
Committed(made, t) ==
  [revision   |-> store.revision + 1,
   structural |-> [r \in Rule |-> LastOf(store.structural[r] \o Of(r, made), Horizon)],
   exact      |-> Exact!Window(Append(store.exact, <<Normal[t]>>)),
   edges      |-> Edge!Window(Append(store.edges, Edges[t]))]

Finished == call # Idle /\ call.attempt = Attempts

(* The best candidate is committed and returned. *)
Commit ==
  /\ Finished
  /\ \E i \in DOMAIN call.viable :
       LET best == call.viable[i] IN
       /\ \A j \in DOMAIN call.viable \ {i} : Better(best, call.viable[j])
       /\ store' = Committed(best.selections, best.text)
       /\ returned' = Append(returned,
            [session |-> call.session, text |-> best.text,
             rivals |-> {call.viable[j].text : j \in DOMAIN call.viable}])
       /\ chosen' = chosen \o best.selections
  /\ words' = [words EXCEPT ![call.session] = @ + Attempts]
  /\ call' = Idle

(* Every candidate was disqualified: the first error is returned. *)
Fail ==
  /\ Finished
  /\ call.viable = <<>>
  /\ call' = Idle
  /\ UNCHANGED <<words, store, returned, chosen>>

Init ==
  /\ words = [s \in Session |-> 0]
  /\ store = [revision |-> 0, structural |-> [r \in Rule |-> <<>>],
              exact |-> <<>>, edges |-> <<>>]
  /\ call = Idle
  /\ returned = <<>>
  /\ chosen = <<>>

Next ==
  \/ \E s \in Session, g \in Grammar : Begin(s, g)
  \/ \E r \in Rule, E \in SUBSET Production, p \in Production : Select(r, E, p)
  \/ \E t \in Text : Succeed(t)
  \/ Disqualify
  \/ Commit
  \/ Fail

Spec == Init /\ [][Next]_vars

-----------------------------------------------------------------------------
(* Properties.                                                              *)

Selection == [rule : Rule, production : Production,
              eligible : SUBSET Production, grammar : Grammar]

Candidate == [exact : Nat, edge : Nat, attempt : 0 .. Attempts - 1,
              text : Text, selections : Seq(Selection)]

(* Types; candidates are listed by attempt, no attempt twice. *)
TypeOK ==
  /\ words \in [Session -> Nat]
  /\ store \in [revision : Nat, structural : [Rule -> Seq(Production)],
                exact : Seq(Seq(ExactText)), edges : Seq(Seq(Fragment))]
  /\ call = Idle \/
       /\ call \in [session : Session, grammar : Grammar, attempt : 0 .. Attempts,
                    selections : Seq(Selection), viable : Seq(Candidate)]
       /\ \A i, j \in DOMAIN call.viable :
            i < j => call.viable[i].attempt < call.viable[j].attempt
  /\ returned \in Seq([session : Session, text : Text, rivals : SUBSET Text])
  /\ chosen \in Seq(Selection)

(* The texts and the phrases of the first n outputs, as entries.            *)
TextsOf(n) == [i \in 1 .. n |-> <<Normal[returned[i].text]>>]
PhrasesOf(n) == [i \in 1 .. n |-> Edges[returned[i].text]]

(* Only returned output changes visible-output history (invariant 2 of      *)
(* SPECIFICATION.md): at every moment, in the middle of a call too, the     *)
(* store is what the returned outputs alone make of it.                     *)
OnlyReturnedOutputRemembered ==
  /\ TypeOK
  /\ store = [revision   |-> Len(returned),
              structural |-> [r \in Rule |-> LastOf(Of(r, chosen), Horizon)],
              exact      |-> Exact!Window(TextsOf(Len(returned))),
              edges      |-> Edge!Window(PhrasesOf(Len(returned)))]

(* A production of an ordinary rule comes back within Gap selections of the *)
(* rule only if nothing else was eligible, and then it is the one selected  *)
(* longest ago.                                                             *)
KeepsGap(made) ==
  \A i \in DOMAIN made :
    LET c == made[i]
        before == Of(c.rule, SubSeq(made, 1, i - 1))
        cooled == ToSet(LastOf(before, Gap))
    IN c.rule \notin Exempt /\ c.production \in cooled =>
         /\ c.eligible \subseteq cooled
         /\ \A q \in c.eligible : Age(before, c.production) >= Age(before, q)

(* The hard minimum gap holds over everything ever returned, across calls   *)
(* and within one, although a call sees only the horizon of the store and   *)
(* what it selected itself.                                                 *)
HardGap == KeepsGap(chosen)

(* The text returned is among the least repeated the call had to offer, by  *)
(* the texts returned before it that the exact window still holds, and for  *)
(* equal counts by the fragments of the phrases in the edge window.         *)
LeastRepeatedReturned ==
  \A i \in DOMAIN returned :
    LET Repeats(t) == ExactCount(Exact!Window(TextsOf(i - 1)), t)
        Echoes(t) == EdgeScore(Edge!Window(PhrasesOf(i - 1)), t)
        t == returned[i].text
    IN \A u \in returned[i].rivals :
         \/ Repeats(t) < Repeats(u)
         \/ Repeats(t) = Repeats(u) /\ Echoes(t) <= Echoes(u)

Atomic == INSTANCE AtomicGeneration WITH
            outputs <- [i \in DOMAIN returned |->
                          [session |-> returned[i].session, text |-> returned[i].text]]

(* Every call is atomic to its callers: it returns an output and advances   *)
(* its session by the words of all its attempts, or nothing changes; no     *)
(* discarded attempt and no failed call spends a word of its own.           *)
ImplementsAtomic == Atomic!Spec

(* "Structural cooldown is likewise namespaced by grammar artifact ...      *)
(* stale rule IDs never silently influence selection" (SPECIFICATION.md):   *)
(* what a call may select depends only on selections its own grammar made.  *)
CooldownNamespaced ==
  Expanding =>
    \A r \in Rule, E \in SUBSET Production \ {{}} :
      LET own == SelectSeq(chosen \o call.selections, LAMBDA c : c.grammar = call.grammar)
      IN Available(r, E, Recent(r)) = Available(r, E, LastOf(Of(r, own), Horizon))
=============================================================================
