------------------------------ MODULE Sampling ------------------------------
(***************************************************************************)
(* One selection of the weighted/1 sampler: the exact rational weights of  *)
(* a rule's productions become the smallest integers in their proportion   *)
(* (eligible_weights, normalize_rationals), and random words become one of *)
(* the productions by rejection (uniform_below, select_eligible_production *)
(* or, for rules prepared at compilation, StaticSelection::select).        *)
(*                                                                         *)
(* Machine integers have any even number of values for the code's 2^64;    *)
(* a word is any of them, so what holds of all words holds of the stream   *)
(* of any seed.                                                            *)
(***************************************************************************)
EXTENDS Integers, Sequences, FiniteSets

CONSTANTS
  Half,          (* 2^63: half the values of a u64                         *)
  WeightLists,   (* weights of a rule: reduced fractions [num, den]        *)
  Budget         (* random words the selection may take                    *)

ASSUME WidthAssumption   == Half \in Nat \ {0}
ASSUME BudgetAssumption  == Budget \in Nat

U64  == 2 * Half
I64Max  == Half - 1
U128Max == U64 * U64 - 1
Word == 0 .. U64 - 1

VARIABLES
  weights,       (* evaluated weights of the productions                   *)
  eligible,      (* indices of the productions with a positive weight      *)
  normalized,    (* their integer weights                                  *)
  words,         (* random words taken                                     *)
  selected,      (* the production selected, 0 before                      *)
  outcome        (* "weighing", "drawing", "selected", or an error         *)

selection == <<weights, eligible, normalized, words, selected, outcome>>

---------------------------------------------------------------------------
(* normalize_rationals.                                                    *)

gcd[pair \in Nat \X Nat] == IF pair[2] = 0 THEN pair[1] ELSE gcd[<<pair[2], pair[1] % pair[2]>>]

Fractions == [num : -I64Max .. I64Max, den : 1 .. I64Max]

(* A weight is a Rational, which is always reduced.                         *)
ASSUME WeightsAssumption ==
  /\ WeightLists \subseteq Seq(Fractions)
  /\ \A list \in WeightLists : \A i \in DOMAIN list :
       list[i].num > 0 => gcd[<<list[i].num, list[i].den>>] = 1

(* common_denominator after the first k fractions.                          *)
CommonDenominator(list) ==
  LET common[k \in 0 .. Len(list)] ==
        IF k = 0 THEN 1
        ELSE (common[k - 1] \div gcd[<<common[k - 1], list[k].den>>]) * list[k].den
  IN  common

Scaled(list) ==
  LET common == CommonDenominator(list)[Len(list)]
  IN  [k \in DOMAIN list |-> list[k].num * (common \div list[k].den)]

Divisor(s) ==
  LET common[k \in 0 .. Len(s)] == IF k = 0 THEN 0 ELSE gcd[<<common[k - 1], s[k]>>]
  IN  common[Len(s)]

Normalize(list) ==
  LET divisor == Divisor(Scaled(list)) IN [k \in DOMAIN list |-> Scaled(list)[k] \div divisor]

(* Running totals: prepare_static_selection's cumulative weights.           *)
Cumulative(s) ==
  LET sum[k \in 0 .. Len(s)] == IF k = 0 THEN 0 ELSE sum[k - 1] + s[k]
  IN  [k \in DOMAIN s |-> sum[k]]

TotalOf(s) == Cumulative(s)[Len(s)]

(* Mutation: the total is checked before the division. *)
OverflowsUndivided(list) == TotalOf(Scaled(list)) > I64Max

Overflows(list) ==
  \/ \E k \in DOMAIN list : \/ CommonDenominator(list)[k] > U128Max
                            \/ Scaled(list)[k] > U128Max
  \/ TotalOf(Normalize(list)) > I64Max

---------------------------------------------------------------------------
(* Selecting a production.                                                 *)

(* select_eligible_production: subtract weights until the choice is below.  *)
Scan(choice) ==
  LET cursor[k \in 0 .. Len(normalized)] ==
        IF k = 0 THEN choice ELSE cursor[k - 1] - normalized[k]
      found == {k \in DOMAIN normalized : cursor[k - 1] < normalized[k]}
  IN  CHOOSE k \in found : \A j \in found : k <= j

(* Mutation: < for <= in partition_point. *)
PartitionPointStrict(choice) ==
  Cardinality({k \in DOMAIN normalized : Cumulative(normalized)[k] < choice}) + 1

(* StaticSelection::select: how many cumulative weights are <= the choice.  *)
PartitionPoint(choice) ==
  Cardinality({k \in DOMAIN normalized : Cumulative(normalized)[k] <= choice}) + 1

Total == TotalOf(normalized)

(* Mutation: no word is rejected. *)
ThresholdNone == 0

(* uniform_below: 2^W mod total, from a wrapping negation.                  *)
Threshold == ((U64 - Total) % U64) % Total

(* Indices of the positive weights, in order.                               *)
Positive ==
  LET taken[k \in 0 .. Len(weights)] ==
        IF k = 0 THEN <<>>
        ELSE IF weights[k].num > 0 THEN Append(taken[k - 1], k) ELSE taken[k - 1]
  IN  taken[Len(weights)]

PositiveWeights == [k \in DOMAIN Positive |-> weights[Positive[k]]]

SelectionInit ==
  /\ weights \in WeightLists
  /\ eligible = <<>> /\ normalized = <<>> /\ words = 0 /\ selected = 0
  /\ outcome = "weighing"

Weigh ==
  LET error == IF \E i \in DOMAIN weights : weights[i].num < 0 THEN "weight-value"
               ELSE IF Positive = <<>> THEN "no-eligible-production"
               ELSE IF Overflows(PositiveWeights) THEN "weight-overflow"
               ELSE "none"
  IN
  /\ outcome = "weighing"
  /\ IF error = "none"
     THEN /\ eligible' = Positive /\ normalized' = Normalize(PositiveWeights)
          /\ outcome' = "drawing"
     ELSE outcome' = error /\ UNCHANGED <<eligible, normalized>>
  /\ UNCHANGED <<weights, words, selected>>

Draw(word) ==
  /\ outcome = "drawing" /\ words < Budget
  /\ words' = words + 1
  /\ IF word >= Threshold
     THEN outcome' = "selected" /\ selected' = eligible[Scan(word % Total)]
     ELSE UNCHANGED <<outcome, selected>>
  /\ UNCHANGED <<weights, eligible, normalized>>

Exhaust ==
  /\ outcome = "drawing" /\ words = Budget
  /\ outcome' = "sampler-budget"
  /\ UNCHANGED <<weights, eligible, normalized, words, selected>>

SelectionNext == Weigh \/ (\E word \in Word : Draw(word)) \/ Exhaust

SelectionSpec == SelectionInit /\ [][SelectionNext]_selection

---------------------------------------------------------------------------
Drawing == outcome = "drawing"

(* Integer weights fit an i64 with their sum and have no common divisor.    *)
SelectionTyped ==
  /\ words \in 0 .. Budget
  /\ Len(eligible) = Len(normalized)
  /\ Drawing => /\ \A k \in DOMAIN normalized : normalized[k] \in 1 .. I64Max
                /\ Total \in 1 .. I64Max
                /\ Divisor(normalized) = 1

Hits(k) == Cardinality({word \in Word : word >= Threshold /\ Scan(word % Total) = k})

(* "Exact weighted": over the words that are not rejected, each eligible
   production is selected exactly in proportion to its rational weight, with
   no modulo bias; and no word is rejected in more than half of the cases,
   which is what a budget of words per request counts on.                   *)
ExactProportions ==
  SelectionTyped /\ (Drawing =>
    /\ \A j, k \in DOMAIN normalized :
         LET a == weights[eligible[j]]
             b == weights[eligible[k]]
         IN  Hits(j) * b.num * a.den = Hits(k) * a.num * b.den
    /\ \A k \in DOMAIN normalized : Hits(k) > 0
    /\ 2 * Threshold <= U64)

(* The selection prepared at compilation draws the same production as the
   scan of the eligible list for every choice, so tracing selections or
   sampling with a repetition store does not change which word means what.  *)
PathsAgree == Drawing => \A choice \in 0 .. Total - 1 : PartitionPoint(choice) = Scan(choice)

(* Integers in the proportion of the weights, summing to at most i64::MAX:
   the first one determines the others.                                     *)
Representable(list) ==
  \E first \in 1 .. I64Max :
    LET num(k) == first * list[k].num * list[1].den
        den(k) == list[1].num * list[k].den
    IN  /\ \A k \in DOMAIN list : num(k) % den(k) = 0
        /\ TotalOf([k \in DOMAIN list |-> num(k) \div den(k)]) <= I64Max

(* The overflow error means what it says: it is reported exactly when no
   integer weights in this proportion fit, never because an intermediate
   product, common denominator or unreduced total was too large.            *)
OverflowIsReal ==
  /\ outcome = "weight-overflow" => ~Representable(PositiveWeights)
  /\ Drawing => Representable(PositiveWeights)
============================================================================
