------------------------------ MODULE MCGateway ------------------------------
(***************************************************************************)
(* Instances of Gateway for TLC: who is accepted by which generation.      *)
(***************************************************************************)
EXTENDS Gateway, TLC

\* A reload takes away the gateway key that everybody uses.
AcceptBefore == [g \in 0..MaxGeneration |-> IF g = 0 THEN Requests ELSE {}]

RequestSymmetry == Permutations(Requests)
=============================================================================
