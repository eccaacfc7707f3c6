---------------------------- MODULE LoreRepository ----------------------------
(***************************************************************************)
(* The lore of one project in relational mode: elements with their         *)
(* versions, relations between them, the review of possible duplicates and *)
(* the merge of a reviewed pair (backend/app/api/lore.py,                  *)
(* core/lore_write.py, core/lore_review.py, core/lore_merge_preview.py,    *)
(* core/lore_merge_commit.py).                                             *)
(*                                                                         *)
(* Every operation locks the rows it checks FOR UPDATE until it commits    *)
(* (LoreLocks shows what that takes), so each is one action; what a client *)
(* holds between two requests is a merge preview.  A request that carries  *)
(* an expected version other than the row's, is refused, or repeats an     *)
(* operation key changes nothing and is no step.                           *)
(*                                                                         *)
(* Abstractions: one type, active, as no operation retires a type; an      *)
(* element's content is a value that has a name, a fact and perhaps a      *)
(* field left to confirm; a relation's labels and description are its      *)
(* text; the two versions of a relation always move together and are one   *)
(* number; a fingerprint stands for the versions it is made of, as         *)
(* histories only grow; sources, the enabled switch and the foreshadows,   *)
(* which StoryPlanning has, and the size limits of a scan are left out.    *)
(***************************************************************************)
EXTENDS LoreIds, Sequences, FiniteSetsExt

CONSTANTS
    Contents,     \* [name, fact, open] an author saves
    Keys,         \* kinds of relations: "directed", "symmetric"
    Texts,        \* labels and description of a relation
    Decisions,    \* what reviewers decide
    Rules,        \* where suggestions come from: "scan", "manual"
    MaxVersion,   \* bound of TLC: the last version an edit makes
    MaxWork,      \* bound of TLC: changes of elements and relations in all
    MaxReview     \* bound of TLC: lock_version of a suggestion

VARIABLES
    element,     \* setting_elements: state and lock_version
    past,        \* element_versions, oldest first; the last is the content
    relation,    \* element_relations
    suggestion,  \* lore_review_suggestions, by pair and rule
    preview,     \* the last merge preview, as its token claims it
    seen         \* history: the content versions last confirmed as duplicates

vars == <<element, past, relation, suggestion, preview, seen>>

Pairs == {p \in Elements \X Elements : p[1] < p[2]}
Suggestions == Pairs \X Rules
ElementRows == [conf : {"confirmed", "rejected"}, status : {"active", "archived", "merged"},
                into : Elements \cup {None}, lock : Nat]
RelationRows == [src : Elements, tgt : Elements, key : Keys, text : Texts,
                 status : {"active", "archived"}, ver : Nat]
SuggestionRows ==
    [kind : {"possible_duplicate", "possible_conflict"}, found : {"active", "stale"},
     review : Decisions \cup {"pending"}, left : Nat, right : Nat,
     rev : Nat, decided : Nat, lock : Nat]

ASSUME LoreAssumption ==
    /\ Keys \subseteq {"directed", "symmetric"}
    /\ None \notin ElementRows \cup RelationRows \cup SuggestionRows

Exists(e) == element[e] # None
Content(e) == past[e][Len(past[e])]
Related == {r \in RelationIds : relation[r] # None}
Ends(r) == {relation[r].src, relation[r].tgt}

\* How far the versions have moved, against the bound.
Work ==
    MapThenSumSet(LAMBDA e : IF Exists(e) THEN element[e].lock - 1 ELSE 0, Elements)
    + MapThenSumSet(LAMBDA r : IF r \in Related THEN relation[r].ver - 1 ELSE 0, RelationIds)

Init ==
    /\ element = [e \in Elements |-> None]
    /\ past = [e \in Elements |-> <<>>]
    /\ relation = [r \in RelationIds |-> None]
    /\ suggestion = [s \in Suggestions |-> None]
    /\ preview = None
    /\ seen = [s \in Suggestions |-> <<0, 0>>]

-----------------------------------------------------------------------------
(* Elements *)

CreateElement(e, c) ==
    /\ ~Exists(e)
    /\ element' = [element EXCEPT ![e] =
            [conf |-> "confirmed", status |-> "active", into |-> None, lock |-> 1]]
    /\ past' = [past EXCEPT ![e] = <<c>>]
    /\ UNCHANGED <<relation, suggestion, preview, seen>>

\* _load_relational_element: a merged element is closed to every operation.
Open(e) == Exists(e) /\ element[e].status # "merged"

\* _claim_lock_version
Claimed(e, row) ==
    /\ Work < MaxWork
    /\ element' = [element EXCEPT ![e] = [row EXCEPT !.lock = @ + 1]]

EditElement(e, c) ==
    /\ Open(e) /\ Len(past[e]) < MaxVersion
    /\ Claimed(e, element[e])
    /\ past' = [past EXCEPT ![e] = Append(@, c)]
    /\ UNCHANGED <<relation, suggestion, preview, seen>>

\* restore_element_version_content: an old content becomes a new version.
RestoreVersion(e, i) ==
    /\ Open(e) /\ Len(past[e]) < MaxVersion
    /\ Claimed(e, element[e])
    /\ past' = [past EXCEPT ![e] = Append(@, @[i])]
    /\ UNCHANGED <<relation, suggestion, preview, seen>>

ChangeState(e, row) ==
    /\ Open(e)
    /\ Claimed(e, row)
    /\ UNCHANGED <<past, relation, suggestion, preview, seen>>

Confirm(e) == Open(e) /\ ~Content(e).open /\ ChangeState(e, [element[e] EXCEPT !.conf = "confirmed"])
Reject(e) == ChangeState(e, [element[e] EXCEPT !.conf = "rejected"])
RestoreElement(e) == ChangeState(e, [element[e] EXCEPT !.status = "active"])

\* archive_lore_element: not while one of its relations is active.
ArchiveElement(e) ==
    /\ \A r \in Related : e \in Ends(r) => relation[r].status # "active"
    /\ ChangeState(e, [element[e] EXCEPT !.status = "archived"])

-----------------------------------------------------------------------------
(* Relations *)

Active(e) == Exists(e) /\ element[e].status = "active"

\* The two ends of a symmetric relation are kept in the order of their ids.
Canonical(a, b, key) == IF key = "symmetric" /\ b < a THEN <<b, a>> ELSE <<a, b>>

CreateRelation(r, a, b, key, text) ==
    LET ends == Canonical(a, b, key)
    IN /\ relation[r] = None
       /\ a # b /\ Active(a) /\ Active(b)
       /\ ~\E q \in Related : /\ <<relation[q].src, relation[q].tgt>> = ends
                              /\ relation[q].key = key
       /\ relation' = [relation EXCEPT ![r] = [src |-> ends[1], tgt |-> ends[2],
               key |-> key, text |-> text, status |-> "active", ver |-> 1]]
       /\ UNCHANGED <<element, past, suggestion, preview, seen>>

\* The row with its next version and snapshot (_add_relation_snapshot).
ChangeRelation(r, row) ==
    /\ Work < MaxWork
    /\ relation' = [relation EXCEPT ![r] = [row EXCEPT !.ver = @ + 1]]
    /\ UNCHANGED <<element, past, suggestion, preview, seen>>

\* update_relation: the same text again changes nothing.
EditRelation(r, text) ==
    /\ r \in Related
    /\ relation[r].status = "active" /\ relation[r].text # text
    /\ ChangeRelation(r, [relation[r] EXCEPT !.text = text])

ArchiveRelation(r) ==
    /\ r \in Related
    /\ relation[r].status = "active"
    /\ ChangeRelation(r, [relation[r] EXCEPT !.status = "archived"])

\* Mutant: a relation is restored whatever became of its ends.
RestoreRelationAnyEnds(r) ==
    /\ r \in Related
    /\ relation[r].status = "archived"
    /\ ChangeRelation(r, [relation[r] EXCEPT !.status = "active"])

\* Both ends have to be active again.
RestoreRelation(r) ==
    /\ r \in Related
    /\ relation[r].status = "archived"
    /\ \A e \in Ends(r) : Active(e)
    /\ ChangeRelation(r, [relation[r] EXCEPT !.status = "active"])

-----------------------------------------------------------------------------
(* Review *)

Formal(e) == Open(e) /\ element[e].conf = "confirmed"
VersionsOf(p) == <<Len(past[p[1]]), Len(past[p[2]])>>

\* _evidence: two given facts that differ make a conflict.
KindOf(p) ==
    LET a == Content(p[1]).fact  b == Content(p[2]).fact
    IN IF None \notin {a, b} /\ a # b THEN "possible_conflict" ELSE "possible_duplicate"

NewSuggestion(p, kind) ==
    [kind |-> kind, found |-> "active", review |-> "pending",
     left |-> Len(past[p[1]]), right |-> Len(past[p[2]]), rev |-> 1, decided |-> 0, lock |-> 1]

\* The evidence is the one the suggestion was made from.
UpToDate(row, p) == row.found = "active" /\ <<row.left, row.right>> = VersionsOf(p)

\* New evidence for a pair that was found before; the decision stays on the row.
Renewed(row, p, kind) ==
    [row EXCEPT !.kind = kind, !.found = "active", !.left = Len(past[p[1]]),
                !.right = Len(past[p[2]]), !.rev = @ + 1, !.lock = @ + 1]

\* scan_lore_review_suggestions over every pair of one name.
Scan ==
    LET found == {p \in Pairs : /\ Formal(p[1]) /\ Formal(p[2])
                                /\ Content(p[1]).name = Content(p[2]).name}
        next(p) ==
            LET row == suggestion[<<p, "scan">>]
            IN IF p \in found
               THEN IF row = None THEN NewSuggestion(p, KindOf(p))
                    ELSE IF UpToDate(row, p) THEN row ELSE Renewed(row, p, KindOf(p))
               ELSE IF row # None /\ row.found = "active"
                    THEN [row EXCEPT !.found = "stale", !.lock = @ + 1] ELSE row
    IN /\ "scan" \in Rules
       /\ suggestion' = [s \in Suggestions |-> IF s[2] = "scan" THEN next(s[1]) ELSE suggestion[s]]
       /\ \A s \in Suggestions : suggestion'[s] # None => suggestion'[s].lock <= MaxReview
       /\ UNCHANGED <<element, past, relation, preview, seen>>

\* create_manual_lore_review: the author reports a pair, perhaps again.
Report(p, kind) ==
    LET s == <<p, "manual">>  row == suggestion[s]
    IN /\ "manual" \in Rules
       /\ Formal(p[1]) /\ Formal(p[2])
       /\ \/ row = None
             /\ suggestion' = [suggestion EXCEPT ![s] = NewSuggestion(p, kind)]
          \/ row # None /\ row.kind = kind /\ ~UpToDate(row, p) /\ row.lock < MaxReview
             /\ suggestion' = [suggestion EXCEPT ![s] = Renewed(row, p, kind)]
       /\ UNCHANGED <<element, past, relation, preview, seen>>

\* decide_lore_review, on evidence that is up to date.
Decide(s, decision) ==
    LET row == suggestion[s]
    IN /\ row # None
       /\ UpToDate(row, s[1])
       /\ Open(s[1][1]) /\ Open(s[1][2])
       /\ ~(row.review = decision /\ row.decided = row.rev)
       /\ row.lock < MaxReview
       /\ suggestion' = [suggestion EXCEPT ![s] =
               [row EXCEPT !.review = decision, !.decided = row.rev, !.lock = @ + 1]]
       /\ seen' = [seen EXCEPT ![s] =
               IF decision = "confirmed_duplicate" THEN VersionsOf(s[1]) ELSE <<0, 0>>]
       /\ UNCHANGED <<element, past, relation, preview>>

-----------------------------------------------------------------------------
(* Merge *)

\* What a merge does to a relation of the merged element (_plan_relations): its
\* planned ends, and the relations that have these already.
Planned(r, survivor, merged) ==
    LET to(e) == IF e = merged THEN survivor ELSE e
    IN Canonical(to(relation[r].src), to(relation[r].tgt), relation[r].key)

Affected(merged) == {r \in Related : merged \in Ends(r)}

SameIdentity(q, r, survivor, merged) ==
    /\ relation[q].key = relation[r].key
    /\ Planned(q, survivor, merged) = Planned(r, survivor, merged)

Occupants(r, survivor, merged) ==
    LET same == {q \in Related \ {r} : SameIdentity(q, r, survivor, merged)}
        first == {q \in same : q < r /\ \A x \in same : q <= x}
    IN IF same \ Affected(merged) # {} THEN same \ Affected(merged) ELSE first

ActionOn(r, survivor, merged) ==
    LET ends == Planned(r, survivor, merged)
        there == Occupants(r, survivor, merged)
    IN IF ends[1] = ends[2] THEN "self_loop_archive"
       ELSE IF there = {} THEN "rewire"
       ELSE IF \A q \in there : /\ relation[q].text = relation[r].text
                                /\ relation[q].status = relation[r].status
            THEN "exact_duplicate_archive" ELSE "blocker"

Plan(survivor, merged) == [r \in Affected(merged) |-> ActionOn(r, survivor, merged)]

\* Mutant: a decision counts although the evidence was renewed after it.
ReviewedOnce(s) ==
    /\ suggestion[s].kind = "possible_duplicate" /\ suggestion[s].found = "active"
    /\ suggestion[s].review = "confirmed_duplicate"

\* The duplicate was confirmed on the evidence the suggestion has now.
Reviewed(s) ==
    /\ suggestion[s].kind = "possible_duplicate" /\ suggestion[s].found = "active"
    /\ suggestion[s].review = "confirmed_duplicate"
    /\ suggestion[s].decided = suggestion[s].rev

\* What build_merge_preview asks, both to preview and to commit.
Mergeable(s) ==
    /\ suggestion[s] # None
    /\ Reviewed(s)
    /\ <<suggestion[s].left, suggestion[s].right>> = VersionsOf(s[1])
    /\ \A e \in {s[1][1], s[1][2]} : Formal(e) /\ Active(e)

\* stable_merge_claims
Claims(s, survivor, merged) ==
    [suggestion |-> suggestion[s].lock, evidence |-> suggestion[s].rev,
     elements |-> [e \in {survivor, merged} |-> <<element[e].lock, Len(past[e])>>],
     relations |-> [r \in {q \in Related : {survivor, merged} \cap Ends(q) # {}} |-> relation[r]],
     plan |-> Plan(survivor, merged)]

\* The two roles in a pair.
Roles(p) == {<<p[1], p[2]>>, <<p[2], p[1]>>}

Preview(s, survivor, merged, final) ==
    /\ Mergeable(s)
    /\ preview' = [s |-> s, survivor |-> survivor, merged |-> merged, final |-> final,
                   claims |-> Claims(s, survivor, merged)]
    /\ UNCHANGED <<element, past, relation, suggestion, seen>>

\* Mutant: an element that others were merged into is merged itself.
NoMatterAliases(e) == TRUE

\* LORE_MERGE_CHAIN_UNSUPPORTED
WithoutAliases(e) == \A x \in Elements : Exists(x) => element[x].into # e

\* What becomes of a relation.
Disposed(r, survivor, merged) ==
    LET row == relation[r]  ends == Planned(r, survivor, merged)
    IN IF ActionOn(r, survivor, merged) = "rewire"
       THEN [row EXCEPT !.src = ends[1], !.tgt = ends[2], !.ver = @ + 1]
       ELSE [row EXCEPT !.status = "archived", !.ver = @ + 1]

\* commit_lore_merge
Merge ==
    LET s == preview.s  a == preview.survivor  b == preview.merged
        plan == Plan(a, b)
    IN /\ preview # None
       /\ Mergeable(s)
       /\ WithoutAliases(b)
       /\ preview.claims = Claims(s, a, b)
       /\ \A r \in DOMAIN plan : plan[r] # "blocker"
       /\ suggestion[s].lock < MaxReview
       /\ Work + 2 + Cardinality(DOMAIN plan) <= MaxWork
       /\ element' = [element EXCEPT ![a].lock = @ + 1,
               ![b].status = "merged", ![b].into = a, ![b].lock = @ + 1]
       /\ past' = [past EXCEPT ![a] = Append(@, preview.final)]
       /\ relation' = [r \in RelationIds |->
               IF r \in DOMAIN plan THEN Disposed(r, a, b) ELSE relation[r]]
       /\ suggestion' = [suggestion EXCEPT ![s].found = "stale", ![s].lock = @ + 1]
       /\ UNCHANGED <<preview, seen>>

-----------------------------------------------------------------------------
ElementStep ==
    \E e \in Elements :
        \/ \E c \in Contents : CreateElement(e, c) \/ EditElement(e, c)
        \/ \E i \in DOMAIN past[e] : RestoreVersion(e, i)
        \/ Confirm(e) \/ Reject(e) \/ ArchiveElement(e) \/ RestoreElement(e)

RelationStep ==
    \E r \in RelationIds :
        \/ \E a, b \in Elements, key \in Keys, text \in Texts : CreateRelation(r, a, b, key, text)
        \/ \E text \in Texts : EditRelation(r, text)
        \/ ArchiveRelation(r) \/ RestoreRelation(r)

ReviewStep ==
    \/ Scan
    \/ \E p \in Pairs, kind \in {"possible_duplicate", "possible_conflict"} : Report(p, kind)
    \/ \E s \in Suggestions, decision \in Decisions : Decide(s, decision)

MergeStep ==
    \/ \E s \in Suggestions, c \in Contents : \E x \in Roles(s[1]) : Preview(s, x[1], x[2], c)
    \/ Merge

Next == ElementStep \/ RelationStep \/ ReviewStep \/ MergeStep

Spec == Init /\ [][Next]_vars

-----------------------------------------------------------------------------
(* Properties *)

TypeOK ==
    /\ element \in [Elements -> ElementRows \cup {None}]
    /\ \A e \in Elements : past[e] \in Seq(Contents)
    /\ relation \in [RelationIds -> RelationRows \cup {None}]
    /\ suggestion \in [Suggestions -> SuggestionRows \cup {None}]
    /\ seen \in [Suggestions -> Nat \X Nat]

\* However elements are archived, merged and restored and relations rewired and
\* restored, an active relation joins two different active elements, and no two
\* relations say the same of the same two (uq_element_relation_key never has to
\* refuse what a merge plans).
RelationsSound ==
    /\ \A r \in Related : relation[r].status = "active" =>
        relation[r].src # relation[r].tgt /\ \A e \in Ends(r) : Active(e)
    /\ \A q, r \in Related :
        q # r /\ relation[q].key = relation[r].key /\ Ends(q) = Ends(r)
        => relation[q].key = "directed" /\ relation[q].src # relation[r].src

\* An element that was merged leads to one that was not, in one step.
MergedLeadsOn ==
    \A e \in Elements : Exists(e) /\ element[e].status = "merged" =>
        /\ element[e].into \in Elements \ {e}
        /\ Open(element[e].into)

\* Two elements are merged only with the very contents of which a reviewer last
\* said that they are duplicates, through rescans, restored versions, renewed
\* reports and previews of any age.
MergedAsJudged ==
    [][\A e \in Elements : Open(e) /\ element'[e].status = "merged" =>
        \E s \in Suggestions :
            /\ {s[1][1], s[1][2]} = {e, element'[e].into}
            /\ seen[s] = VersionsOf(s[1])]_vars
=============================================================================
