---------------------------- MODULE MCSimpleList ----------------------------
(* A small instance of SimpleList for TLC.  The nodes are interchangeable. *)
EXTENDS SimpleList, TLC

Symmetry == Permutations(Nodes)
=============================================================================
