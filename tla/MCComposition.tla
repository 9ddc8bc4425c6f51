--------------------------- MODULE MCComposition ----------------------------
(* One composition; two creators of it. *)
EXTENDS Composition, TLC

CONSTANTS c1, c2
Symmetry == Permutations(Creators)
=============================================================================
