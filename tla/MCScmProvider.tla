--------------------------- MODULE MCScmProvider ----------------------------
(***************************************************************************)
(* Calls are interchangeable, and so are the calls of close().             *)
(***************************************************************************)
EXTENDS ScmProvider, TLC

Interchangeable == Permutations(Calls) \cup Permutations(Closers)
=============================================================================
