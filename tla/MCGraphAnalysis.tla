-------------------------- MODULE MCGraphAnalysis --------------------------
(* Four rules and five productions; rule 1 has two.  Children that repeat,
   rings inside rings, islands, self-mentions, rules without a way out,
   productions with bindings, voiced ones, one entry or two.                *)
EXTENDS GraphAnalysis

FourRules == 1 .. 4
FiveProductions == 1 .. 5
Owner == [p \in FiveProductions |-> IF p = 5 THEN 1 ELSE p]

Bodies ==
  << {<<2, 3>>, <<2>>, <<3, 1, 3>>},
     {<<>>, <<1>>, <<2, 4>>, <<3, 3>>},
     {<<>>, <<4, 2>>, <<2>>},
     {<<>>, <<1>>, <<4, 4>>, <<3>>},
     {<<>>, <<4>>, <<1, 2>>} >>

SmallPackages ==
  {[owner |-> Owner, calls |-> <<c1, c2, c3, c4, c5>>, entries |-> entries, voiced |-> voiced,
    bindings |-> <<<<>>, bound, <<>>, <<>>, <<>>>>] :
     c1 \in Bodies[1], c2 \in Bodies[2], c3 \in Bodies[3], c4 \in Bodies[4], c5 \in Bodies[5],
     bound \in {<<>>, <<4>>}, entries \in {<<1>>, <<2, 4>>}, voiced \in {{3}, {1, 4}}}
============================================================================
