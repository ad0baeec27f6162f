-------------------------- MODULE MCBoundedHistory --------------------------
(* Small instances of BoundedHistory for TLC. *)
EXTENDS BoundedHistory, TLC

CONSTANTS k1, k2, k3, k4, k5

(* Homes in tables of 4, 8 and 16 slots.  k1 and k2 collide in every table  *)
(* and wrap around the end of the smallest onto the home of k5; k3 and k4   *)
(* have the slots around them.                                              *)
CollidingHash == k1 :> 3 @@ k2 :> 19 @@ k3 :> 13 @@ k4 :> 2 @@ k5 :> 8

FragmentBytes == k1 :> 1 @@ k2 :> 1 @@ k3 :> 2 @@ k4 :> 0 @@ k5 :> 3

(* Edge fragments: none, one, repeated and mixed; one entry is over the     *)
(* byte budget by itself.                                                   *)
SomePhrases == {<<>>, <<k3, k4>>, <<k1, k5>>, <<k2, k2, k3>>, <<k5, k5>>}
=============================================================================
