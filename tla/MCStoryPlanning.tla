---------------------------- MODULE MCStoryPlanning ----------------------------
(* Instances of StoryPlanning for TLC. *)
EXTENDS StoryPlanning, TLC

Symmetric == Permutations(Parts) \cup Permutations(Chapters)

\* The position of an archived node is overwritten before it is read again, so
\* states that differ in it only are the same to every action and property.
Positions(node) ==
    [x \in DOMAIN node |-> IF node[x].status = "active" THEN node[x] ELSE [node[x] EXCEPT !.pos = 0]]
ActivePositions == <<Positions(part), Positions(chapter), lore, life, items, fact, assigned>>

=============================================================================
