----------------------------- MODULE MCSessions -----------------------------
(***************************************************************************)
(* Model values for Sessions: identifiers and threads are interchangeable. *)
(***************************************************************************)
EXTENDS Sessions, TLC

Interchangeable == Permutations(Ids) \cup Permutations(Threads)
=============================================================================
