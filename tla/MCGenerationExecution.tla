------------------------ MODULE MCGenerationExecution ------------------------
(***************************************************************************)
(* Small instances of GenerationExecution.  Two requests in flight are     *)
(* enough for every race on one row; the request bodies are chosen so that *)
(* the same key comes twice with the same body, once with another body,    *)
(* and a second key targets the same run.                                  *)
(***************************************************************************)
EXTENDS GenerationExecution, TLC

CONSTANTS w1, w2, k1, k2, r1, r2, c1, c2

Body(k, r, x, c) == [key |-> k, run |-> r, ctx |-> x, cap |-> c]

\* Two keys for one run, and the first key again with another capability.
RacingBodies == {Body(k1, r1, r1, c1), Body(k2, r1, r1, c1), Body(k1, r1, r1, c2)}

\* Two keys that contend for the locks of one run.
TwoKeyBodies == {Body(k1, r1, r1, c1), Body(k2, r1, r1, c1)}

\* The workers are interchangeable in every action and property.
WorkerSymmetry == Permutations(Workers)
=============================================================================
