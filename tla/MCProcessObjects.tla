--------------------------- MODULE MCProcessObjects ----------------------------
(***************************************************************************)
(* A small instance of ProcessObjects: nothing tells the objects apart.    *)
(***************************************************************************)
EXTENDS ProcessObjects, TLC

Symmetry == Permutations(Objects)
=============================================================================
