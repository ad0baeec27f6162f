-------------------------- MODULE AtomicGeneration --------------------------
(***************************************************************************)
(* What diverse generation promises its callers: a call is one atomic      *)
(* step.  It either returns one output and consumes the fixed number of    *)
(* random words of a call, or it fails and leaves everything as it was     *)
(* (SPECIFICATION.md, "Transactional diverse sampling").                   *)
(***************************************************************************)
EXTENDS Integers, Sequences

CONSTANTS
  Session,       (* sampler sessions sharing the store                     *)
  Text,          (* texts a grammar can generate                           *)
  Attempts       (* candidate attempts per call                            *)

VARIABLES
  words,         (* random words each session has consumed                 *)
  outputs        (* outputs returned, oldest first                         *)

Init == words = [s \in Session |-> 0] /\ outputs = <<>>

Generate(s, t) ==
  /\ outputs' = Append(outputs, [session |-> s, text |-> t])
  /\ words' = [words EXCEPT ![s] = @ + Attempts]

Next == \E s \in Session, t \in Text : Generate(s, t)

Spec == Init /\ [][Next]_<<words, outputs>>
=============================================================================
