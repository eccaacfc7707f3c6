-------------------------- MODULE MCCandidateHistory --------------------------
(***************************************************************************)
(* A small instance of CandidateHistory: two requests in flight, one root  *)
(* and two edits in the chapter's own run, a root in the run of another    *)
(* chapter, a lineage limit of two nodes.                                  *)
(***************************************************************************)
EXTENDS CandidateHistory, TLC

CONSTANTS w1, w2, k1, k2, g1, g2, r1, r2, draft, t1, t2

Edit(k, p, n, t) == [kind |-> "edit", key |-> k, run |-> r1, target |-> p,
                     no |-> n, version |-> 0, text |-> t]
Select(k, r, c, n, v) == [kind |-> "select", key |-> k, run |-> r, target |-> c,
                          no |-> n, version |-> v, text |-> draft]

\* Two edits of the root, one key with two texts, and an edit of the edit, which
\* exceeds the depth limit.
EditBodies == {Edit(k1, g1, 1, t1), Edit(k2, g1, 1, t1), Edit(k1, g1, 1, t2), Edit(k2, k1, 2, draft)}

\* First selections that race, a second one, a return to the first, and the root of
\* another chapter's run.
SelectBodies == {Select(k1, r1, g1, 1, 0), Select(k2, r1, k1, 2, 0), Select(k2, r1, k1, 2, 1),
                 Select(k1, r1, g1, 1, 1), Select(k2, r2, g2, 1, 0)}

AllBodies == EditBodies \cup SelectBodies

\* The workers are interchangeable in every action and property.
WorkerSymmetry == Permutations(Workers)
=============================================================================
