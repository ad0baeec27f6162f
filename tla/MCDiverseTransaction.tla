------------------------ MODULE MCDiverseTransaction ------------------------
(* Small instances of DiverseTransaction for TLC. *)
EXTENDS DiverseTransaction, TLC

CONSTANTS s1, s2, g, h, r, p, q, chorus, echo, uu, vv, e, f

ProductionOrder == p :> 1 @@ q :> 2

(* chorus opens and ends with the fragment that echo has once, and its       *)
(* normalized text is too long for the byte budget of the exact history.    *)
NormalForm == [w \in Text |-> IF w = chorus THEN uu ELSE vv]
EdgeForm == [w \in Text |-> IF w = chorus THEN <<e, f, f>> ELSE <<f>>]
NormalBytes == uu :> 3 @@ vv :> 1
EdgeBytes == e :> 1 @@ f :> 1
=============================================================================
