---------------------------- MODULE MCThreadQueue ----------------------------
(* TLC instances of ThreadQueue.                                             *)
EXTENDS ThreadQueue

Symmetry == Permutations(Requests)
=============================================================================
