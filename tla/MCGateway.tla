----------------------------- MODULE MCGateway ------------------------------
(***************************************************************************)
(* Turns and sessions are interchangeable.                                 *)
(***************************************************************************)
EXTENDS Gateway, TLC

Interchangeable == Permutations(Turns) \cup Permutations(Ids)
=============================================================================
