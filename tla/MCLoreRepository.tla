---------------------------- MODULE MCLoreRepository ----------------------------
EXTENDS LoreRepository
CONSTANTS x1, x2

Plain == [name |-> "n", fact |-> "f", open |-> FALSE]

\* Two contents of one name that contradict each other, one with a field left to confirm.
SameName == {Plain, [name |-> "n", fact |-> "g", open |-> TRUE]}
OneContent == {Plain}

\* Versions only grow, so a preview that no longer agrees with them is as good as none.
Distinct == <<element, past, relation, suggestion, seen,
              IF preview = None THEN None
              ELSE IF preview.claims = Claims(preview.s, preview.survivor, preview.merged)
                   THEN <<preview.s, preview.survivor, preview.final>> ELSE None>>
=============================================================================
