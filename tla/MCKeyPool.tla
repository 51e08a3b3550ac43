------------------------------ MODULE MCKeyPool ------------------------------
(***************************************************************************)
(* Instances of KeyPool for TLC.                                           *)
(***************************************************************************)
EXTENDS KeyPool, TLC

CONSTANTS k1, k2

OneKey == {<<k1>>}

\* Reloads that keep, drop and re-add a key and move the other one.
Reloads == {<<k1, k2>>, <<k2>>}

Interchangeable == Permutations(Requests) \cup Permutations(Models)
=============================================================================
