---------------------------- MODULE MCProjectFiles ----------------------------
(***************************************************************************)
(* An instance of ProjectFiles: three saves, of three contents, and two      *)
(* deletions.                                                              *)
(***************************************************************************)
EXTENDS ProjectFiles, TLC
CONSTANTS s1, s2, s3, d1, d2, c1, c2, c3

Symmetry == Permutations({s1, s2, s3}) \union Permutations({d1, d2}) \union Permutations({c1, c2, c3})
=============================================================================
