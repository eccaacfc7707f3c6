--------------------------- MODULE MCLegacyChapters ---------------------------
(***************************************************************************)
(* A small instance of LegacyChapters: two requests in one process and a   *)
(* project of two chapters, which may be lowered to one.                   *)
(***************************************************************************)
EXTENDS LegacyChapters, TLC

CONSTANTS p1, w1, w2, d1, e1

OneProcess == [w \in Workers |-> p1]

Symmetry == Permutations(Workers)
=============================================================================
