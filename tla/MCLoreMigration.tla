---------------------------- MODULE MCLoreMigration ----------------------------
EXTENDS LoreRehearsal
CONSTANTS k1, k2, t1, t2

\* Two items of one name, one of which has no type yet and a field that may have
\* no place, and an item that needs no decision.
TwoWorldviews == [twins |-> <<[name |-> "a", type |-> "character", fields |-> {}],
                              [name |-> "a", type |-> None, fields |-> {"goal"}]>>,
                  plain |-> <<[name |-> "b", type |-> "location", fields |-> {}]>>]

TypeFields == [character |-> {"goal"}, location |-> {}]

Symmetry == Permutations({k1, k2}) \union Permutations({t1, t2})

\* A preview that no longer agrees with the decisions never will again, so of
\* such a request only the operations it matches count.
Distinct ==
    LET now == [w \in Worldviews |-> Semantic(w, decisions)]
        View(body) ==
            IF body = now[body.source] THEN body.source
            ELSE <<body.source, {k \in Keys \ Unused : operation[k].body = body}>>
    IN <<mode, source, decisions, lore, migration, frozen,
         [k \in Keys |-> IF k \in Unused THEN None
                         ELSE <<operation[k].status, View(operation[k].body)>>],
         [t \in Requests |->
             IF request[t].pc = "idle" \/ request[t].answer \notin {"none", "ready", "failed"} THEN None
             ELSE <<request[t].pc, request[t].key, request[t].answer, View(request[t].body)>>]>>
=============================================================================
