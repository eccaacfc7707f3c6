--------------------------- MODULE MCLoreExtraction ---------------------------
(***************************************************************************)
(* A small instance of LoreExtraction: one name that the project knows     *)
(* already, replies of one item and of two items of that name, one of them *)
(* with a field to confirm.                                                *)
(***************************************************************************)
EXTENDS LoreExtraction, TLC

CONSTANTS p1, p2, k1, k2, d1, d2, w1, w2, n1, e1

Plain == [name |-> n1, open |-> FALSE]
Open == [name |-> n1, open |-> TRUE]
Nameless == [name |-> Nothing, open |-> FALSE]

TwoReplies == {<<Open>>, <<Plain, Plain>>}
TwoEdits == {Plain, Open}
OneElement == [e \in {e1} |-> Plain]
Symmetry == Permutations(Posters) \cup Permutations(Docs) \cup Permutations(Reviewers)
=============================================================================
