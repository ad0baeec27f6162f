----------------------------- MODULE MCSampling -----------------------------
(* Up to three weights with words of 32 values: an i64 reaches 15, and the
   fractions include its largest numerator and denominators whose product,
   but not whose least common multiple, is large.                          *)
EXTENDS Sampling

Proper == {[num |-> n, den |-> d] : n \in {1, 2, 3, 5, 15}, d \in {1, 2, 3, 4, 15}}
Reduced   == {f \in Proper : gcd[<<f.num, f.den>>] = 1}
SmallWeights == Reduced \cup {[num |-> 0, den |-> 1], [num |-> -1, den |-> 2]}

Lists == UNION {[1 .. n -> SmallWeights] : n \in 1 .. 3}
============================================================================
