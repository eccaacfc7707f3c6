------------------------------ MODULE LoreProofs ------------------------------
(***************************************************************************)
(* Proofs about LoreRepository and about the locks that let it take each   *)
(* request as one step, LoreLocks.                                         *)
(*                                                                         *)
(* LoreInv adds to the types of LoreRepository that a preview names the    *)
(* pair of its suggestion, that a confirmed suggestion still has the       *)
(* versions its history recorded, that no two relations have one identity, *)
(* and that active relations join active elements.                         *)
(*                                                                         *)
(* LockInv says of every transaction of LoreLocks what it holds: the rows  *)
(* of the statements it has run, as they would find them now, taken class  *)
(* by class and id by id until a merge comes back for aliases; that what   *)
(* it has checked still holds; and that aliases are merged elements.       *)
(***************************************************************************)
EXTENDS LoreRepository, LoreLocks, WellFoundedInduction, FiniteSetTheorems, TLAPS

\* A set of numbers has a smallest one.
LEMMA Smallest ==
    ASSUME NEW S \in SUBSET Nat, S # {}
    PROVE  \E n \in S : \A m \in S : n <= m
  <1> DEFINE Less == OpToRel(<, Nat)
  <1>1. IsWellFoundedOn(Less, Nat)
    BY NatLessThanWellFounded
  <1> HIDE DEF Less
  <1>2. PICK n \in S : \A m \in S : <<m, n>> \notin Less
    BY <1>1, WFMin
  <1>3. ASSUME NEW m \in Nat, NEW k \in Nat, m < k
        PROVE  <<m, k>> \in Less
    BY <1>3 DEF Less, OpToRel
  <1>4. \A m \in S : n \in Nat /\ m \in Nat /\ ~(m < n)
    BY <1>2, <1>3
  <1> QED
    BY <1>4

-----------------------------------------------------------------------------
(* LoreRepository *)

\* What a preview names is a suggestion and the two elements of its pair.
PreviewOK ==
    preview # None =>
        /\ preview.s \in Suggestions
        /\ <<preview.survivor, preview.merged>> \in Roles(preview.s[1])
        /\ preview.final \in Contents

\* A decision that counts was made on the versions the suggestion names now.
JudgedOK ==
    \A s \in Suggestions : suggestion[s] # None =>
        LET row == suggestion[s]
        IN  /\ row.decided <= row.rev
            /\ row.decided = row.rev /\ row.review = "confirmed_duplicate"
               => seen[s] = <<row.left, row.right>>

\* Of every relation, archived ones too: two different ends in their canonical order,
\* and no other relation of this identity.
Identity(row) == <<row.src, row.tgt, row.key>>
IdentityOK ==
    /\ \A r \in Related : /\ relation[r].src # relation[r].tgt
                          /\ Canonical(relation[r].src, relation[r].tgt, relation[r].key)
                             = <<relation[r].src, relation[r].tgt>>
    /\ \A q, r \in Related : Identity(relation[q]) = Identity(relation[r]) => q = r

ActiveOK ==
    \A r \in Related : relation[r].status = "active" => \A e \in Ends(r) : Active(e)

LoreInv == TypeOK /\ PreviewOK /\ JudgedOK /\ IdentityOK /\ ActiveOK /\ MergedLeadsOn

USE DEF LoreInv

LEMMA PairsAreElements ==
    ASSUME NEW s \in Suggestions, NEW a, NEW b, <<a, b>> \in Roles(s[1])
    PROVE  /\ a \in Elements /\ b \in Elements /\ a # b
           /\ {s[1][1], s[1][2]} = {a, b}
           /\ s[1] \in Pairs /\ s[1][1] \in Elements /\ s[1][2] \in Elements
  <1>1. s[1] \in Elements \X Elements /\ s[1][1] < s[1][2] /\ s[1] \in Pairs
    BY DEF Suggestions, Pairs
  <1>2. PICK x \in Elements, y \in Elements : x = s[1][1] /\ y = s[1][2] /\ x < y
    BY <1>1
  <1>3. x \in Nat /\ y \in Nat /\ x # y
    BY <1>2, IdsAssumption
  <1>4. (a = x /\ b = y) \/ (a = y /\ b = x)
    BY <1>2 DEF Roles
  <1> QED
    BY <1>1, <1>2, <1>3, <1>4

LEMMA InitLore == Init => LoreInv
  <1> SUFFICES ASSUME Init PROVE LoreInv
    OBVIOUS
  <1>1. TypeOK
    BY DEF Init, TypeOK
  <1>2. PreviewOK /\ JudgedOK
    BY DEF Init, PreviewOK, JudgedOK
  <1>3. Related = {}
    BY DEF Init, Related
  <1> QED
    BY <1>1, <1>2, <1>3 DEF Init, IdentityOK, ActiveOK, MergedLeadsOn, Exists

\* A step that leaves relations, suggestions, previews and history alone, keeps every
\* merged element as it is, merges none and takes no active one out of use while it has
\* active relations.
LEMMA ElementsKeep ==
    ASSUME LoreInv, UNCHANGED <<relation, suggestion, preview, seen>>,
           element' \in [Elements -> ElementRows \cup {None}],
           \A e \in Elements : past'[e] \in Seq(Contents),
           \A e \in Elements : Exists(e) =>
              /\ Exists(e)'
              /\ element[e].status = "merged" => element'[e] = element[e]
              /\ element[e].status # "merged" => element'[e].status # "merged",
           \A e \in Elements : ~Exists(e) /\ Exists(e)' => element'[e].status # "merged",
           \A e \in Elements : Active(e) =>
              \/ Active(e)'
              \/ \A r \in Related : e \in Ends(r) => relation[r].status # "active"
    PROVE  LoreInv'
  <1>1. TypeOK' /\ PreviewOK' /\ JudgedOK' /\ IdentityOK'
    BY DEF TypeOK, PreviewOK, JudgedOK, IdentityOK, Related
  <1>2. ActiveOK'
    <2> SUFFICES ASSUME NEW r \in Related, relation[r].status = "active", NEW e \in Ends(r)
                 PROVE  Active(e)'
      BY DEF ActiveOK, Related, Ends
    <2>1. Active(e)
      BY DEF ActiveOK
    <2>2. e \in Elements
      BY DEF TypeOK, Related, RelationRows, Ends
    <2> QED
      BY <2>1, <2>2
  <1>3. MergedLeadsOn'
    <2> SUFFICES ASSUME NEW e \in Elements, Exists(e)', element'[e].status = "merged"
                 PROVE  (element[e].into \in Elements \ {e} /\ Open(element[e].into))'
      BY DEF MergedLeadsOn
    <2>1. Exists(e) /\ element[e].status = "merged" /\ element'[e] = element[e]
      OBVIOUS
    <2>2. element[e].into \in Elements \ {e} /\ Open(element[e].into)
      BY <2>1 DEF MergedLeadsOn
    <2> QED
      BY <2>1, <2>2 DEF Open
  <1> QED
    BY <1>1, <1>2, <1>3

\* An existing element that is not merged gets another row of its kind.
LEMMA OpenElementKeeps ==
    ASSUME LoreInv, NEW e \in Elements, Open(e), NEW row \in ElementRows,
           Claimed(e, row), row.status # "merged",
           row.status = element[e].status \/ row.status = "active" \/
              \A r \in Related : e \in Ends(r) => relation[r].status # "active",
           \A x \in Elements : past'[x] \in Seq(Contents),
           UNCHANGED <<relation, suggestion, preview, seen>>
    PROVE  LoreInv'
  <1>1. PICK new : new = [row EXCEPT !.lock = @ + 1]
    OBVIOUS
  <1>a. new \in ElementRows
    BY <1>1 DEF ElementRows
  <1>2. new.status = row.status
    BY <1>1 DEF ElementRows
  <1>3. element' = [element EXCEPT ![e] = new]
    BY <1>1 DEF Claimed
  <1>4. new # None
    BY <1>a, LoreAssumption
  <1>5. element' \in [Elements -> ElementRows \cup {None}]
    BY <1>a, <1>3 DEF TypeOK
  <1>6. \A x \in Elements : element'[x] = IF x = e THEN new ELSE element[x]
    BY <1>3 DEF TypeOK
  <1> QED
    BY <1>2, <1>4, <1>5, <1>6, ElementsKeep DEF Open, Exists, Active

LEMMA ElementStepKeeps == LoreInv /\ ElementStep => LoreInv'
  <1> SUFFICES ASSUME LoreInv, NEW e \in Elements,
                      \/ \E c \in Contents : CreateElement(e, c) \/ EditElement(e, c)
                      \/ \E i \in DOMAIN past[e] : RestoreVersion(e, i)
                      \/ Confirm(e) \/ Reject(e) \/ ArchiveElement(e) \/ RestoreElement(e)
               PROVE  LoreInv'
    BY DEF ElementStep
  <1>0. past[e] \in Seq(Contents)
    BY DEF TypeOK
  <1>1. Open(e) => element[e] \in ElementRows /\ element[e].status # "merged"
    BY DEF TypeOK, Open, Exists
  <1>2. ASSUME NEW c \in Contents, CreateElement(e, c) PROVE LoreInv'
    <2>1. PICK row \in ElementRows : row = [conf |-> "confirmed", status |-> "active", into |-> None, lock |-> 1]
      BY DEF ElementRows
    <2>2. element' = [element EXCEPT ![e] = row] /\ row.status = "active"
      BY <1>2, <2>1 DEF CreateElement
    <2>3. past' = [past EXCEPT ![e] = <<c>>] /\ <<c>> \in Seq(Contents)
      BY <1>2 DEF CreateElement
    <2>4. \A x \in Elements : past'[x] \in Seq(Contents)
      BY <2>3 DEF TypeOK
    <2>5. element' \in [Elements -> ElementRows \cup {None}] /\ row # None
      BY <2>2, LoreAssumption DEF TypeOK
    <2>6. \A x \in Elements : element'[x] = IF x = e THEN row ELSE element[x]
      BY <2>2 DEF TypeOK
    <2> QED
      BY <1>2, <2>2, <2>4, <2>5, <2>6, ElementsKeep DEF CreateElement, Exists, Active
  <1>3. ASSUME NEW c \in Contents, Open(e), Claimed(e, element[e]),
               past' = [past EXCEPT ![e] = Append(@, c)],
               UNCHANGED <<relation, suggestion, preview, seen>>
        PROVE  LoreInv'
    <2>1. \A x \in Elements : past'[x] \in Seq(Contents)
      BY <1>0, <1>3 DEF TypeOK
    <2> QED
      BY <1>1, <1>3, <2>1, OpenElementKeeps
  <1>4. ASSUME NEW c \in Contents, EditElement(e, c) PROVE LoreInv'
    BY <1>3, <1>4 DEF EditElement
  <1>5. ASSUME NEW i \in DOMAIN past[e], RestoreVersion(e, i) PROVE LoreInv'
    <2>1. past[e][i] \in Contents
      BY <1>0
    <2> QED
      BY <1>3, <1>5, <2>1 DEF RestoreVersion
  <1>6. ASSUME NEW row, ChangeState(e, row), row \in ElementRows, row.status # "merged",
               row.status = element[e].status \/ row.status = "active" \/
                  \A r \in Related : e \in Ends(r) => relation[r].status # "active"
        PROVE  LoreInv'
    BY <1>6, OpenElementKeeps DEF ChangeState, TypeOK
  <1>7. CASE Confirm(e)
    <2>1. Open(e) /\ ChangeState(e, [element[e] EXCEPT !.conf = "confirmed"])
      BY <1>7 DEF Confirm
    <2>2. PICK row \in ElementRows : row = [element[e] EXCEPT !.conf = "confirmed"] /\ row.status = element[e].status
      BY <1>1, <2>1 DEF ElementRows
    <2> QED
      BY <1>1, <1>6, <2>1, <2>2
  <1>8. CASE Reject(e)
    <2>1. Open(e) /\ ChangeState(e, [element[e] EXCEPT !.conf = "rejected"])
      BY <1>8 DEF Reject, ChangeState
    <2>2. PICK row \in ElementRows : row = [element[e] EXCEPT !.conf = "rejected"] /\ row.status = element[e].status
      BY <1>1, <2>1 DEF ElementRows
    <2> QED
      BY <1>1, <1>6, <2>1, <2>2
  <1>9. CASE RestoreElement(e)
    <2>1. Open(e) /\ ChangeState(e, [element[e] EXCEPT !.status = "active"])
      BY <1>9 DEF RestoreElement, ChangeState
    <2>2. PICK row \in ElementRows : row = [element[e] EXCEPT !.status = "active"] /\ row.status = "active"
      BY <1>1, <2>1 DEF ElementRows
    <2> QED
      BY <1>6, <2>1, <2>2
  <1>10. CASE ArchiveElement(e)
    <2>1. Open(e) /\ ChangeState(e, [element[e] EXCEPT !.status = "archived"])
          /\ \A r \in Related : e \in Ends(r) => relation[r].status # "active"
      BY <1>10 DEF ArchiveElement, ChangeState
    <2>2. PICK row \in ElementRows : row = [element[e] EXCEPT !.status = "archived"] /\ row.status = "archived"
      BY <1>1, <2>1 DEF ElementRows
    <2> QED
      BY <1>6, <2>1, <2>2
  <1> QED
    BY <1>2, <1>4, <1>5, <1>7, <1>8, <1>9, <1>10

-----------------------------------------------------------------------------
\* A relation gets a row of another identity than all others, with active ends if it is
\* active.
LEMMA RelationKeeps ==
    ASSUME LoreInv, NEW r \in RelationIds, NEW row \in RelationRows,
           relation' = [relation EXCEPT ![r] = row],
           row.src # row.tgt, Canonical(row.src, row.tgt, row.key) = <<row.src, row.tgt>>,
           \A q \in Related \ {r} : Identity(relation[q]) # Identity(row),
           row.status = "active" => Active(row.src) /\ Active(row.tgt),
           UNCHANGED <<element, past, suggestion, preview, seen>>
    PROVE  LoreInv'
  <1>1. TypeOK' /\ PreviewOK' /\ JudgedOK' /\ MergedLeadsOn'
    BY DEF TypeOK, PreviewOK, JudgedOK, MergedLeadsOn, Exists, Open
  <1>2. \A q \in RelationIds : relation'[q] = IF q = r THEN row ELSE relation[q]
    BY DEF TypeOK
  <1>3. \A q \in Related' : q = r \/ q \in Related
    BY <1>2 DEF Related
  <1>4. IdentityOK'
    <2>1. \A q \in Related' : /\ relation'[q].src # relation'[q].tgt
                             /\ Canonical(relation'[q].src, relation'[q].tgt, relation'[q].key)
                                = <<relation'[q].src, relation'[q].tgt>>
      BY <1>2, <1>3 DEF IdentityOK, Related
    <2>2. \A q, x \in Related' : Identity(relation'[q]) = Identity(relation'[x]) => q = x
      BY <1>2, <1>3 DEF IdentityOK, Related
    <2> QED
      BY <2>1, <2>2 DEF IdentityOK
  <1>5. ActiveOK'
    BY <1>2, <1>3 DEF ActiveOK, Related, Ends, Active, Exists
  <1> QED
    BY <1>1, <1>4, <1>5

\* The canonical ends of a relation are its ends, and are in canonical order.
LEMMA CanonicalEnds ==
    ASSUME NEW a \in Elements, NEW b \in Elements, NEW key
    PROVE  /\ Canonical(a, b, key) \in {<<a, b>>, <<b, a>>}
           /\ LET ends == Canonical(a, b, key)
              IN  Canonical(ends[1], ends[2], key) = ends
  <1>1. a \in Nat /\ b \in Nat
    BY IdsAssumption
  <1> QED
    BY <1>1 DEF Canonical

LEMMA RelationStepKeeps == LoreInv /\ RelationStep => LoreInv'
  <1> SUFFICES ASSUME LoreInv, NEW r \in RelationIds,
                      \/ \E a, b \in Elements, key \in Keys, text \in Texts :
                            CreateRelation(r, a, b, key, text)
                      \/ \E text \in Texts : EditRelation(r, text)
                      \/ ArchiveRelation(r) \/ RestoreRelation(r)
               PROVE  LoreInv'
    BY DEF RelationStep
  <1>1. ASSUME NEW a \in Elements, NEW b \in Elements, NEW key \in Keys, NEW text \in Texts,
               CreateRelation(r, a, b, key, text)
        PROVE  LoreInv'
    <2>1. PICK ends \in {<<a, b>>, <<b, a>>} :
              ends = Canonical(a, b, key) /\ Canonical(ends[1], ends[2], key) = ends
      BY CanonicalEnds
    <2>2. PICK row : row = [src |-> ends[1], tgt |-> ends[2],
               key |-> key, text |-> text, status |-> "active", ver |-> 1]
      OBVIOUS
    <2>3. row \in RelationRows
      BY <2>1, <2>2 DEF RelationRows
    <2>4. relation' = [relation EXCEPT ![r] = row]
      BY <1>1, <2>1, <2>2 DEF CreateRelation
    <2>5. \A q \in Related : ~(<<relation[q].src, relation[q].tgt>> = ends /\ relation[q].key = key)
      BY <1>1, <2>1 DEF CreateRelation
    <2>6. \A q \in Related : Identity(relation[q]) # Identity(row)
      BY <2>1, <2>2, <2>5 DEF Identity
    <2>7. row.src # row.tgt /\ Active(row.src) /\ Active(row.tgt)
      BY <1>1, <2>1, <2>2 DEF CreateRelation
    <2>8. Canonical(row.src, row.tgt, row.key) = <<row.src, row.tgt>>
      BY <2>1, <2>2
    <2> QED
      BY <1>1, <2>3, <2>4, <2>6, <2>7, <2>8, RelationKeeps DEF CreateRelation
  <1>2. ASSUME NEW row, r \in Related, ChangeRelation(r, row), row \in RelationRows,
               row.src = relation[r].src, row.tgt = relation[r].tgt, row.key = relation[r].key,
               row.status = "active" =>
                  relation[r].status = "active" \/ \A e \in Ends(r) : Active(e)
        PROVE  LoreInv'
    <2>1. PICK new : new = [row EXCEPT !.ver = @ + 1]
      OBVIOUS
    <2>2. new \in RelationRows /\ Identity(new) = Identity(relation[r])
          /\ new.src = relation[r].src /\ new.tgt = relation[r].tgt /\ new.key = relation[r].key
          /\ new.status = row.status
      BY <1>2, <2>1 DEF RelationRows, Identity
    <2>3. new.status = "active" => Active(new.src) /\ Active(new.tgt)
      BY <1>2, <2>2 DEF ActiveOK, Ends
    <2>4. relation' = [relation EXCEPT ![r] = new]
          /\ UNCHANGED <<element, past, suggestion, preview, seen>>
      BY <1>2, <2>1 DEF ChangeRelation
    <2>5. new.src # new.tgt /\ Canonical(new.src, new.tgt, new.key) = <<new.src, new.tgt>>
      BY <1>2, <2>2 DEF IdentityOK
    <2>6. \A q \in Related \ {r} : Identity(relation[q]) # Identity(new)
      BY <1>2, <2>2 DEF IdentityOK
    <2> QED
      BY <2>2, <2>3, <2>4, <2>5, <2>6, RelationKeeps
  <1>3. r \in Related => relation[r] \in RelationRows
    BY DEF TypeOK, Related
  <1>4. ASSUME NEW text \in Texts, EditRelation(r, text) PROVE LoreInv'
    <2>1. PICK row : row = [relation[r] EXCEPT !.text = text]
      OBVIOUS
    <2>2. r \in Related /\ relation[r].status = "active" /\ ChangeRelation(r, row)
      BY <1>4, <2>1 DEF EditRelation
    <2>3. row \in RelationRows /\ row.src = relation[r].src /\ row.tgt = relation[r].tgt
          /\ row.key = relation[r].key
      BY <1>3, <2>1, <2>2 DEF RelationRows
    <2> QED
      BY <1>2, <2>2, <2>3
  <1>5. CASE ArchiveRelation(r)
    <2>1. PICK row : row = [relation[r] EXCEPT !.status = "archived"]
      OBVIOUS
    <2>2. r \in Related /\ ChangeRelation(r, row)
      BY <1>5, <2>1 DEF ArchiveRelation
    <2>3. row \in RelationRows /\ row.src = relation[r].src /\ row.tgt = relation[r].tgt
          /\ row.key = relation[r].key /\ row.status = "archived"
      BY <1>3, <2>1, <2>2 DEF RelationRows
    <2> QED
      BY <1>2, <2>2, <2>3
  <1>6. CASE RestoreRelation(r)
    <2>1. PICK row : row = [relation[r] EXCEPT !.status = "active"]
      OBVIOUS
    <2>2. r \in Related /\ ChangeRelation(r, row) /\ \A e \in Ends(r) : Active(e)
      BY <1>6, <2>1 DEF RestoreRelation
    <2>3. row \in RelationRows /\ row.src = relation[r].src /\ row.tgt = relation[r].tgt
          /\ row.key = relation[r].key
      BY <1>3, <2>1, <2>2 DEF RelationRows
    <2> QED
      BY <1>2, <2>2, <2>3
  <1> QED
    BY <1>1, <1>4, <1>5, <1>6

-----------------------------------------------------------------------------
\* What a suggestion must be beside what was seen.
Judged(row, versions) ==
    /\ row.decided <= row.rev
    /\ row.decided = row.rev /\ row.review = "confirmed_duplicate"
       => versions = <<row.left, row.right>>

LEMMA SuggestionsKeep ==
    ASSUME LoreInv, UNCHANGED <<element, past, relation>>, PreviewOK',
           suggestion' \in [Suggestions -> SuggestionRows \cup {None}],
           seen' \in [Suggestions -> Nat \X Nat],
           \A s \in Suggestions : suggestion'[s] # None => Judged(suggestion'[s], seen'[s])
    PROVE  LoreInv'
  <1>1. TypeOK' /\ JudgedOK'
    BY DEF TypeOK, JudgedOK, Judged
  <1> QED
    BY <1>1 DEF IdentityOK, ActiveOK, MergedLeadsOn, Related, Ends, Exists, Open, Active

LEMMA LengthsAreNumbers ==
    ASSUME TypeOK, NEW p \in Pairs
    PROVE  Len(past[p[1]]) \in Nat /\ Len(past[p[2]]) \in Nat
           /\ VersionsOf(p) = <<Len(past[p[1]]), Len(past[p[2]])>>
  <1>1. PICK a \in Elements, b \in Elements : p[1] = a /\ p[2] = b
    BY DEF Pairs
  <1>2. past[a] \in Seq(Contents) /\ past[b] \in Seq(Contents)
    BY DEF TypeOK
  <1> QED
    BY <1>1, <1>2 DEF VersionsOf

LEMMA SuggestionNumbers ==
    ASSUME NEW row \in SuggestionRows
    PROVE  /\ row.lock + 1 \in Nat /\ row.rev + 1 \in Nat
           /\ row.rev \in Nat /\ row.decided \in Nat
  BY DEF SuggestionRows

LEMMA NewIsJudged ==
    ASSUME TypeOK, NEW p \in Pairs, NEW kind \in {"possible_duplicate", "possible_conflict"},
           NEW versions
    PROVE  /\ NewSuggestion(p, kind) \in SuggestionRows
           /\ Judged(NewSuggestion(p, kind), versions)
  BY LengthsAreNumbers DEF NewSuggestion, SuggestionRows, Judged

LEMMA RenewedIsJudged ==
    ASSUME TypeOK, NEW p \in Pairs, NEW kind \in {"possible_duplicate", "possible_conflict"},
           NEW versions, NEW row \in SuggestionRows, Judged(row, versions)
    PROVE  /\ Renewed(row, p, kind) \in SuggestionRows
           /\ Judged(Renewed(row, p, kind), versions)
  <1>1. PICK a \in Nat, b \in Nat : a = Len(past[p[1]]) /\ b = Len(past[p[2]])
    BY LengthsAreNumbers
  <1>2. PICK n \in Nat, l \in Nat : n = row.rev + 1 /\ l = row.lock + 1
    BY SuggestionNumbers
  <1>3. PICK new : new = [row EXCEPT !.kind = kind, !.found = "active", !.left = a,
                                     !.right = b, !.rev = n, !.lock = l]
    OBVIOUS
  <1>4. new = Renewed(row, p, kind)
    BY <1>1, <1>2, <1>3 DEF Renewed
  <1>5. new \in SuggestionRows
    BY <1>3 DEF SuggestionRows
  <1>6. new.decided = row.decided /\ new.rev = row.rev + 1
    BY <1>2, <1>3 DEF SuggestionRows
  <1>7. row.decided \in Nat /\ row.rev \in Nat /\ row.decided <= row.rev
    BY SuggestionNumbers DEF Judged
  <1> QED
    BY <1>4, <1>5, <1>6, <1>7 DEF Judged

LEMMA ReviewStepKeeps == LoreInv /\ ReviewStep => LoreInv'
  <1> SUFFICES ASSUME LoreInv, ReviewStep PROVE LoreInv'
    OBVIOUS
  <1>0. \A s \in Suggestions :
            /\ s[1] \in Pairs /\ seen[s] \in Nat \X Nat
            /\ suggestion[s] # None => suggestion[s] \in SuggestionRows
                                      /\ Judged(suggestion[s], seen[s])
    BY DEF TypeOK, Suggestions, JudgedOK, Judged
  <1>1. \A p \in Pairs : KindOf(p) \in {"possible_duplicate", "possible_conflict"}
    BY DEF KindOf
  <1>2. ASSUME UNCHANGED <<element, past, relation, preview, seen>>, NEW rows,
               suggestion' = [s \in Suggestions |-> rows[s]],
               \A s \in Suggestions : rows[s] # None =>
                                      rows[s] \in SuggestionRows /\ Judged(rows[s], seen[s])
        PROVE  LoreInv'
    <2>1. PreviewOK'
      BY <1>2 DEF PreviewOK
    <2> QED
      BY <1>2, <2>1, SuggestionsKeep DEF TypeOK
  <1>3. CASE Scan
    <2> DEFINE found == {p \in Pairs : /\ Formal(p[1]) /\ Formal(p[2])
                                       /\ Content(p[1]).name = Content(p[2]).name}
        next(p) ==
            LET row == suggestion[<<p, "scan">>]
            IN IF p \in found
               THEN IF row = None THEN NewSuggestion(p, KindOf(p))
                    ELSE IF UpToDate(row, p) THEN row ELSE Renewed(row, p, KindOf(p))
               ELSE IF row # None /\ row.found = "active"
                    THEN [row EXCEPT !.found = "stale", !.lock = @ + 1] ELSE row
        new(s) == IF s[2] = "scan" THEN next(s[1]) ELSE suggestion[s]
    <2>1. suggestion' = [s \in Suggestions |-> new(s)]
          /\ UNCHANGED <<element, past, relation, preview, seen>>
      BY <1>3 DEF Scan
    <2>2. ASSUME NEW s \in Suggestions
          PROVE  new(s) # None => new(s) \in SuggestionRows /\ Judged(new(s), seen[s])
      <3>1. CASE s[2] # "scan"
        BY <1>0, <3>1
      <3>2. CASE s[2] = "scan"
        <4>1. PICK p \in Pairs : s = <<p, "scan">>
          BY <3>2 DEF Suggestions
        <4>2. PICK row : row = suggestion[s]
          OBVIOUS
        <4>3. row # None => row \in SuggestionRows /\ Judged(row, seen[s])
          BY <1>0, <4>2
        <4>4. PICK kind \in {"possible_duplicate", "possible_conflict"} : kind = KindOf(p)
          BY <1>1
        <4>5. NewSuggestion(p, kind) \in SuggestionRows /\ Judged(NewSuggestion(p, kind), seen[s])
          BY NewIsJudged
        <4>6. row # None => /\ Renewed(row, p, kind) \in SuggestionRows
                            /\ Judged(Renewed(row, p, kind), seen[s])
          BY <4>3, RenewedIsJudged
        <4>7. PICK stale : stale = [row EXCEPT !.found = "stale", !.lock = @ + 1]
          OBVIOUS
        <4>8. row # None => stale \in SuggestionRows /\ Judged(stale, seen[s])
          <5>1. row # None => stale \in SuggestionRows
            <6> SUFFICES ASSUME row \in SuggestionRows PROVE stale \in SuggestionRows
              BY <4>3
            <6>1. PICK l \in Nat : l = row.lock + 1
              BY SuggestionNumbers
            <6>2. stale = [row EXCEPT !.found = "stale", !.lock = l]
              BY <4>7, <6>1
            <6> QED
              BY <6>2 DEF SuggestionRows
          <5>2. row # None => /\ stale.decided = row.decided /\ stale.rev = row.rev
                              /\ stale.review = row.review
                              /\ stale.left = row.left /\ stale.right = row.right
            BY <4>3, <4>7 DEF SuggestionRows
          <5> QED
            BY <4>3, <5>1, <5>2 DEF Judged
        <4>9. \/ new(s) \in {NewSuggestion(p, kind), row}
              \/ row # None /\ new(s) \in {Renewed(row, p, kind), stale}
          BY <3>2, <4>1, <4>2, <4>4, <4>7
        <4> QED
          BY <4>3, <4>5, <4>6, <4>8, <4>9
      <3> QED
        BY <3>1, <3>2
    <2> HIDE DEF new
    <2>3. PICK rows : rows = [s \in Suggestions |-> new(s)]
      OBVIOUS
    <2> QED
      BY <1>2, <2>1, <2>2, <2>3
  <1>4. ASSUME UNCHANGED <<element, past, relation, preview, seen>>,
               NEW s \in Suggestions, NEW row \in SuggestionRows, Judged(row, seen[s]),
               suggestion' = [suggestion EXCEPT ![s] = row]
        PROVE  LoreInv'
    <2>1. PICK rows : rows = [suggestion EXCEPT ![s] = row]
      OBVIOUS
    <2>2. \A x \in Suggestions : rows[x] = IF x = s THEN row ELSE suggestion[x]
      BY <2>1 DEF TypeOK
    <2>3. suggestion' = [x \in Suggestions |-> rows[x]]
      BY <1>4, <2>1, <2>2 DEF TypeOK
    <2>4. \A x \in Suggestions : rows[x] # None =>
                                   rows[x] \in SuggestionRows /\ Judged(rows[x], seen[x])
      BY <1>0, <1>4, <2>2
    <2> QED
      BY <1>2, <1>4, <2>3, <2>4
  <1>5. ASSUME NEW p \in Pairs, NEW kind \in {"possible_duplicate", "possible_conflict"},
               Report(p, kind)
        PROVE  LoreInv'
    <2>1. PICK s \in Suggestions : s = <<p, "manual">>
      BY <1>5 DEF Report, Suggestions
    <2>2. \/ suggestion' = [suggestion EXCEPT ![s] = NewSuggestion(p, kind)]
          \/ suggestion[s] # None /\ suggestion' = [suggestion EXCEPT ![s] = Renewed(suggestion[s], p, kind)]
      BY <1>5, <2>1 DEF Report
    <2>3. UNCHANGED <<element, past, relation, preview, seen>>
      BY <1>5 DEF Report
    <2>4. NewSuggestion(p, kind) \in SuggestionRows /\ Judged(NewSuggestion(p, kind), seen[s])
      BY NewIsJudged
    <2>5. suggestion[s] # None => /\ Renewed(suggestion[s], p, kind) \in SuggestionRows
                                  /\ Judged(Renewed(suggestion[s], p, kind), seen[s])
      BY <1>0, RenewedIsJudged
    <2>6. PICK row : row \in SuggestionRows /\ Judged(row, seen[s])
                     /\ suggestion' = [suggestion EXCEPT ![s] = row]
      BY <2>2, <2>4, <2>5
    <2> QED
      BY <1>4, <2>3, <2>6
  <1>6. ASSUME NEW s \in Suggestions, NEW decision \in Decisions, Decide(s, decision)
        PROVE  LoreInv'
    <2>1. PICK row : row = suggestion[s]
      OBVIOUS
    <2>2. PICK new : new = [row EXCEPT !.review = decision, !.decided = row.rev, !.lock = @ + 1]
      OBVIOUS
    <2>3. PICK judged : judged = IF decision = "confirmed_duplicate" THEN VersionsOf(s[1]) ELSE <<0, 0>>
      OBVIOUS
    <2>4. /\ row \in SuggestionRows /\ UpToDate(row, s[1])
          /\ suggestion' = [suggestion EXCEPT ![s] = new] /\ seen' = [seen EXCEPT ![s] = judged]
          /\ UNCHANGED <<element, past, relation, preview>>
      BY <1>0, <1>6, <2>1, <2>2, <2>3 DEF Decide
    <2>5. judged \in Nat \X Nat
      BY <1>0, <2>3, LengthsAreNumbers
    <2>5a. new \in SuggestionRows
      <3>1. PICK n \in Nat, l \in Nat : n = row.rev /\ l = row.lock + 1
        BY <2>4, SuggestionNumbers
      <3>2. new = [row EXCEPT !.review = decision, !.decided = n, !.lock = l]
        BY <2>2, <3>1
      <3> QED
        BY <2>4, <3>2 DEF SuggestionRows
    <2>6. /\ new.review = decision /\ new.decided = row.rev
          /\ new.rev = row.rev /\ new.left = row.left /\ new.right = row.right /\ row.rev \in Nat
      BY <2>2, <2>4 DEF SuggestionRows
    <2>7. Judged(new, judged)
      BY <2>3, <2>4, <2>6 DEF Judged, UpToDate
    <2>8. \A x \in Suggestions : /\ suggestion'[x] = IF x = s THEN new ELSE suggestion[x]
                                 /\ seen'[x] = IF x = s THEN judged ELSE seen[x]
      BY <2>4 DEF TypeOK
    <2>9. suggestion' \in [Suggestions -> SuggestionRows \cup {None}]
          /\ seen' \in [Suggestions -> Nat \X Nat]
      BY <2>4, <2>5, <2>5a DEF TypeOK
    <2>10. \A x \in Suggestions : suggestion'[x] # None => Judged(suggestion'[x], seen'[x])
      BY <1>0, <2>7, <2>8
    <2>11. PreviewOK'
      BY <2>4 DEF PreviewOK
    <2> QED
      BY <2>4, <2>9, <2>10, <2>11, SuggestionsKeep
  <1> QED
    BY <1>3, <1>5, <1>6 DEF ReviewStep

-----------------------------------------------------------------------------
(* The merge of b into a *)

Rewired(a, b) == {r \in Affected(b) : ActionOn(r, a, b) = "rewire"}

\* What becomes of a relation, by cases.
LEMMA FateOf ==
    ASSUME LoreInv, NEW a \in Elements, NEW b \in Elements, a # b, NEW r \in Affected(b)
    PROVE  LET new == Disposed(r, a, b)  ends == Planned(r, a, b)
           IN  /\ new \in RelationRows /\ new.key = relation[r].key
               /\ r \in Rewired(a, b) =>
                    /\ new.src = ends[1] /\ new.tgt = ends[2] /\ new.src # new.tgt
                    /\ ends = <<new.src, new.tgt>> /\ b \notin {new.src, new.tgt}
                    /\ {new.src, new.tgt} \subseteq Ends(r) \cup {a}
                    /\ new.status = relation[r].status
                    /\ Canonical(new.src, new.tgt, new.key) = <<new.src, new.tgt>>
               /\ r \notin Rewired(a, b) =>
                    /\ new.src = relation[r].src /\ new.tgt = relation[r].tgt
                    /\ new.status = "archived"
  <1>1. PICK row \in RelationRows : row = relation[r]
    BY DEF TypeOK, Affected, Related
  <1>2. PICK n \in Nat : n = row.ver + 1
    BY DEF RelationRows
  <1>3. PICK x \in Elements, y \in Elements :
            /\ x = IF row.src = b THEN a ELSE row.src
            /\ y = IF row.tgt = b THEN a ELSE row.tgt
    BY DEF RelationRows
  <1>4. PICK ends \in {<<x, y>>, <<y, x>>} :
            ends = Canonical(x, y, row.key) /\ Canonical(ends[1], ends[2], row.key) = ends
    BY CanonicalEnds
  <1>5. ends = Planned(r, a, b)
    BY <1>1, <1>3, <1>4 DEF Planned
  <1>6. PICK u \in Elements, v \in Elements : ends = <<u, v>> /\ {u, v} = {x, y}
    BY <1>4
  <1>7. CASE r \in Rewired(a, b)
    <2>1. PICK new : new = [row EXCEPT !.src = u, !.tgt = v, !.ver = n]
      OBVIOUS
    <2>2. new = Disposed(r, a, b)
      BY <1>1, <1>2, <1>5, <1>6, <1>7, <2>1 DEF Disposed, Rewired
    <2>3. new \in RelationRows
      BY <2>1 DEF RelationRows
    <2>4. /\ new.key = row.key /\ new.src = u /\ new.tgt = v /\ new.status = row.status
      BY <2>1 DEF RelationRows
    <2>5. u # v
      <3>1. Planned(r, a, b)[1] = u /\ Planned(r, a, b)[2] = v
        BY <1>5, <1>6
      <3>2. ActionOn(r, a, b) = "rewire"
        BY <1>7 DEF Rewired
      <3> QED
        BY <3>1, <3>2 DEF ActionOn
    <2>6. b \notin {u, v} /\ {u, v} \subseteq Ends(r) \cup {a}
      BY <1>1, <1>3, <1>6 DEF Ends
    <2>7. Canonical(u, v, row.key) = <<u, v>>
      BY <1>4, <1>6
    <2> QED
      BY <1>1, <1>5, <1>6, <1>7, <2>2, <2>3, <2>4, <2>5, <2>6, <2>7
  <1>8. CASE r \notin Rewired(a, b)
    <2>1. PICK new : new = [row EXCEPT !.status = "archived", !.ver = n]
      OBVIOUS
    <2>2. new = Disposed(r, a, b)
      BY <1>1, <1>2, <1>8, <2>1 DEF Disposed, Rewired
    <2>3. new \in RelationRows
      BY <2>1 DEF RelationRows
    <2>4. /\ new.key = row.key /\ new.src = row.src /\ new.tgt = row.tgt
          /\ new.status = "archived"
      BY <2>1 DEF RelationRows
    <2> QED
      BY <1>1, <1>8, <2>2, <2>3, <2>4
  <1> QED
    BY <1>7, <1>8

\* A relation that is rewired gets ends that no other relation has or gets.
LEMMA RewiredAlone ==
    ASSUME LoreInv, NEW a \in Elements, NEW b \in Elements, a # b,
           NEW r \in Rewired(a, b), NEW q \in Related, q # r, SameIdentity(q, r, a, b)
    PROVE  q \in Affected(b) \ Rewired(a, b)
  <1> DEFINE same(y) == {x \in Related \ {y} : SameIdentity(x, y, a, b)}
             first(y) == {x \in same(y) : x < y /\ \A z \in same(y) : x <= z}
  <1>1. ASSUME NEW y \in Rewired(a, b)
        PROVE  same(y) \ Affected(b) = {} /\ first(y) = {} /\ y \in Related
    <2>1. Occupants(y, a, b) = {}
      BY <1>1 DEF Rewired, ActionOn
    <2> QED
      BY <1>1, <2>1 DEF Occupants, Rewired, Affected
  <1> HIDE DEF first
  <1>2. q \in same(r)
    OBVIOUS
  <1>3. q \in Affected(b)
    BY <1>1, <1>2
  <1>4. ASSUME NEW y \in Rewired(a, b), NEW x \in same(y), x < y
        PROVE  FALSE
    <2>1. same(y) \in SUBSET Nat
      BY IdsAssumption DEF Related
    <2>2. PICK m \in same(y) : \A z \in same(y) : m <= z
      BY <1>4, <2>1, Smallest
    <2>3. m \in Nat /\ x \in Nat /\ y \in Nat /\ m <= x
      BY <1>1, <1>4, <2>1, <2>2, IdsAssumption DEF Related
    <2>4. m \in first(y)
      BY <1>4, <2>2, <2>3 DEF first
    <2> QED
      BY <1>1, <2>4
  <1>5. ASSUME q \in Rewired(a, b)
        PROVE  FALSE
    <2>1. r \in Related /\ r \in same(q)
      BY <1>1 DEF SameIdentity
    <2>2. q \in Nat /\ r \in Nat
      BY <2>1, IdsAssumption DEF Related
    <2>3. q < r \/ r < q
      BY <2>2
    <2> QED
      BY <1>2, <1>4, <1>5, <2>1, <2>3
  <1> QED
    BY <1>3, <1>5

\* Ends that the merge does not concern are planned as they are.
LEMMA PlannedAsIs ==
    ASSUME LoreInv, NEW a, NEW b, NEW q \in Related \ Affected(b)
    PROVE  Planned(q, a, b) = <<relation[q].src, relation[q].tgt>>
  BY DEF Planned, Affected, Ends, IdentityOK

LEMMA MergeFacts ==
    ASSUME LoreInv, Merge
    PROVE  /\ preview.s \in Suggestions
           /\ preview.survivor \in Elements /\ preview.merged \in Elements
           /\ preview.survivor # preview.merged
           /\ {preview.s[1][1], preview.s[1][2]} = {preview.survivor, preview.merged}
           /\ Mergeable(preview.s) /\ preview.final \in Contents
           /\ Active(preview.survivor) /\ Active(preview.merged)
  <1>1. preview # None /\ Mergeable(preview.s)
    BY DEF Merge
  <1>2. preview.s \in Suggestions /\ preview.final \in Contents
        /\ <<preview.survivor, preview.merged>> \in Roles(preview.s[1])
    BY <1>1 DEF PreviewOK
  <1> QED
    BY <1>1, <1>2, PairsAreElements DEF Mergeable

\* The two elements of a merge.
LEMMA MergedElements ==
    ASSUME LoreInv, Merge
    PROVE  LET a == preview.survivor  b == preview.merged
           IN  /\ element' \in [Elements -> ElementRows \cup {None}]
               /\ \A e \in Elements : /\ e \notin {a, b} => element'[e] = element[e]
                                      /\ Exists(e) => Exists(e)'
                                      /\ ~Exists(e) => ~Exists(e)'
               /\ element'[a].status = "active"
               /\ element'[b].status = "merged" /\ element'[b].into = a
  <1>1. PICK a \in Elements, b \in Elements : a = preview.survivor /\ b = preview.merged
    BY MergeFacts
  <1>2. a # b /\ Active(a) /\ Active(b)
    BY <1>1, MergeFacts
  <1>3. element[a] \in ElementRows /\ element[b] \in ElementRows
    BY <1>2 DEF TypeOK, Active, Exists
  <1>4. PICK n \in Nat, k \in Nat : n = element[a].lock + 1 /\ k = element[b].lock + 1
    BY <1>3 DEF ElementRows
  <1>5. PICK ra : ra = [element[a] EXCEPT !.lock = n]
    OBVIOUS
  <1>6. PICK rb : rb = [element[b] EXCEPT !.status = "merged", !.into = a, !.lock = k]
    OBVIOUS
  <1>7. ra \in ElementRows /\ rb \in ElementRows
    BY <1>3, <1>5, <1>6 DEF ElementRows
  <1>8. ra.status = "active" /\ rb.status = "merged" /\ rb.into = a
    BY <1>2, <1>3, <1>5, <1>6 DEF ElementRows, Active
  <1>9. element' = [element EXCEPT ![a] = ra, ![b] = rb]
    BY <1>1, <1>2, <1>4, <1>5, <1>6 DEF Merge, TypeOK
  <1>10. \A e \in Elements : element'[e] = IF e = b THEN rb ELSE IF e = a THEN ra ELSE element[e]
    BY <1>2, <1>9 DEF TypeOK
  <1>11. element' \in [Elements -> ElementRows \cup {None}]
    BY <1>7, <1>9 DEF TypeOK
  <1>12. ra # None /\ rb # None
    BY <1>7, LoreAssumption
  <1> QED
    BY <1>1, <1>2, <1>8, <1>10, <1>11, <1>12 DEF Active, Exists

LEMMA MergeKeeps == LoreInv /\ Merge => LoreInv'
  <1> SUFFICES ASSUME LoreInv, Merge PROVE LoreInv'
    OBVIOUS
  <1>1. PICK s \in Suggestions, a \in Elements, b \in Elements :
            s = preview.s /\ a = preview.survivor /\ b = preview.merged
    BY MergeFacts
  <1>2. /\ a # b /\ Active(a) /\ Active(b) /\ Mergeable(s) /\ preview.final \in Contents
        /\ WithoutAliases(b) /\ UNCHANGED <<preview, seen>>
    BY <1>1, MergeFacts DEF Merge
  <1>3. /\ element' \in [Elements -> ElementRows \cup {None}]
        /\ \A e \in Elements : /\ e \notin {a, b} => element'[e] = element[e]
                               /\ Exists(e) => Exists(e)'
                               /\ ~Exists(e) => ~Exists(e)'
        /\ element'[a].status = "active"
        /\ element'[b].status = "merged" /\ element'[b].into = a
    BY <1>1, MergedElements
  <1>4. relation' = [r \in RelationIds |->
            IF r \in Affected(b) THEN Disposed(r, a, b) ELSE relation[r]]
    BY <1>1 DEF Merge, Plan
  <1>5. /\ Related' = Related
        /\ relation' \in [RelationIds -> RelationRows \cup {None}]
        /\ \A r \in Related \ Affected(b) : relation'[r] = relation[r]
    <2>1. \A r \in Affected(b) : Disposed(r, a, b) \in RelationRows /\ r \in Related
      BY <1>2, FateOf DEF Affected
    <2>2. \A r \in Affected(b) : Disposed(r, a, b) # None
      BY <2>1, LoreAssumption
    <2> QED
      BY <1>4, <2>1, <2>2 DEF TypeOK, Related
  <1>6. \A r \in Rewired(a, b) :
            /\ r \in Affected(b) /\ relation'[r].key = relation[r].key
            /\ Planned(r, a, b) = <<relation'[r].src, relation'[r].tgt>>
            /\ relation'[r].src # relation'[r].tgt
            /\ b \notin {relation'[r].src, relation'[r].tgt}
            /\ {relation'[r].src, relation'[r].tgt} \subseteq Ends(r) \cup {a}
            /\ relation'[r].status = relation[r].status
            /\ Canonical(relation'[r].src, relation'[r].tgt, relation'[r].key)
               = <<relation'[r].src, relation'[r].tgt>>
    <2> SUFFICES ASSUME NEW r \in Affected(b), r \in Rewired(a, b)
                 PROVE  /\ relation'[r].key = relation[r].key
                        /\ Planned(r, a, b) = <<relation'[r].src, relation'[r].tgt>>
                        /\ relation'[r].src # relation'[r].tgt
                        /\ b \notin {relation'[r].src, relation'[r].tgt}
                        /\ {relation'[r].src, relation'[r].tgt} \subseteq Ends(r) \cup {a}
                        /\ relation'[r].status = relation[r].status
                        /\ Canonical(relation'[r].src, relation'[r].tgt, relation'[r].key)
                           = <<relation'[r].src, relation'[r].tgt>>
      BY DEF Rewired
    <2>1. relation'[r] = Disposed(r, a, b)
      BY <1>4 DEF Affected, Related
    <2> QED
      BY <1>2, <2>1, FateOf
  <1>7. \A r \in Affected(b) \ Rewired(a, b) :
            /\ relation'[r].key = relation[r].key
            /\ relation'[r].src = relation[r].src /\ relation'[r].tgt = relation[r].tgt
            /\ relation'[r].status = "archived"
    BY <1>2, <1>4, FateOf DEF Affected, Related
  <1>8. TypeOK' /\ PreviewOK' /\ JudgedOK'
    <2>1. \A e \in Elements : past'[e] \in Seq(Contents)
      BY <1>1, <1>2 DEF Merge, TypeOK
    <2>2. suggestion[s] \in SuggestionRows
      BY <1>2 DEF TypeOK, Mergeable
    <2>3. PICK n \in Nat : n = suggestion[s].lock + 1
      BY <2>2, SuggestionNumbers
    <2>4. PICK stale : stale = [suggestion[s] EXCEPT !.found = "stale", !.lock = n]
      OBVIOUS
    <2>5. stale \in SuggestionRows
      BY <2>2, <2>4 DEF SuggestionRows
    <2>6. /\ stale.decided = suggestion[s].decided /\ stale.rev = suggestion[s].rev
          /\ stale.review = suggestion[s].review
          /\ stale.left = suggestion[s].left /\ stale.right = suggestion[s].right
      BY <2>2, <2>4 DEF SuggestionRows
    <2>7. suggestion' = [suggestion EXCEPT ![s] = stale]
      BY <1>1, <2>3, <2>4 DEF Merge, TypeOK
    <2>8. suggestion' \in [Suggestions -> SuggestionRows \cup {None}]
          /\ \A x \in Suggestions : suggestion'[x] = IF x = s THEN stale ELSE suggestion[x]
      BY <2>5, <2>7 DEF TypeOK
    <2>9. suggestion[s] # None
      BY <1>2 DEF Mergeable
    <2>10. JudgedOK'
      BY <1>2, <2>6, <2>8, <2>9 DEF JudgedOK
    <2>11. PreviewOK'
      BY <1>2 DEF PreviewOK
    <2> QED
      BY <1>2, <1>3, <1>5, <2>1, <2>8, <2>10, <2>11 DEF TypeOK
  <1>9. IdentityOK'
    <2>1. \A r \in Related : /\ relation'[r].src # relation'[r].tgt
                            /\ Canonical(relation'[r].src, relation'[r].tgt, relation'[r].key)
                               = <<relation'[r].src, relation'[r].tgt>>
      BY <1>5, <1>6, <1>7 DEF IdentityOK
    <2>2. ASSUME NEW r \in Rewired(a, b), NEW q \in Related, q # r,
                 Identity(relation'[q]) = Identity(relation'[r])
          PROVE  FALSE
      <3>1. /\ relation'[q].src = relation'[r].src /\ relation'[q].tgt = relation'[r].tgt
            /\ relation'[q].key = relation'[r].key
        BY <2>2 DEF Identity
      <3>2. ASSUME SameIdentity(q, r, a, b)
            PROVE  q \in Affected(b) \ Rewired(a, b)
        BY <1>2, <2>2, <3>2, RewiredAlone
      <3>3. CASE q \in Related \ Affected(b)
        <4>1. relation'[q] = relation[q]
              /\ Planned(q, a, b) = <<relation[q].src, relation[q].tgt>>
          BY <1>5, <3>3, PlannedAsIs
        <4>2. SameIdentity(q, r, a, b)
          BY <1>6, <3>1, <4>1 DEF SameIdentity
        <4> QED
          BY <3>2, <3>3, <4>2
      <3>4. CASE q \in Rewired(a, b)
        <4>1. SameIdentity(q, r, a, b)
          BY <1>6, <3>1, <3>4 DEF SameIdentity
        <4> QED
          BY <3>2, <3>4, <4>1
      <3>5. CASE q \in Affected(b) \ Rewired(a, b)
        <4>1. b \in {relation'[q].src, relation'[q].tgt}
          BY <1>7, <3>5 DEF Affected, Ends
        <4> QED
          BY <1>6, <3>1, <4>1
      <3> QED
        BY <3>3, <3>4, <3>5
    <2>3. ASSUME NEW q \in Related, NEW r \in Related,
                 q \notin Rewired(a, b), r \notin Rewired(a, b),
                 Identity(relation'[q]) = Identity(relation'[r])
          PROVE  q = r
      <3>1. Identity(relation[q]) = Identity(relation[r])
        BY <1>5, <1>7, <2>3 DEF Identity
      <3> QED
        BY <3>1 DEF IdentityOK
    <2>4. \A q, r \in Related : Identity(relation'[q]) = Identity(relation'[r]) => q = r
      BY <2>2, <2>3
    <2> QED
      BY <1>5, <2>1, <2>4 DEF IdentityOK
  <1>10. ActiveOK'
    <2> SUFFICES ASSUME NEW r \in Related, relation'[r].status = "active",
                        NEW e \in {relation'[r].src, relation'[r].tgt}
                 PROVE  element'[e] # None /\ element'[e].status = "active"
      BY <1>5 DEF ActiveOK, Ends, Active, Exists
    <2>1. e # b /\ (e = a \/ (relation[r].status = "active" /\ e \in Ends(r)))
      <3>1. CASE r \in Related \ Affected(b)
        BY <1>5, <3>1 DEF Affected, Ends
      <3>2. CASE r \in Rewired(a, b)
        BY <1>6, <3>2
      <3>3. CASE r \in Affected(b) \ Rewired(a, b)
        BY <1>7, <3>3
      <3> QED
        BY <3>1, <3>2, <3>3
    <2>2. e = a \/ (Active(e) /\ e \in Elements)
      BY <2>1 DEF ActiveOK, Ends, TypeOK, Related, RelationRows
    <2> QED
      BY <1>2, <1>3, <2>1, <2>2 DEF Active, Exists
  <1>11. MergedLeadsOn'
    <2> SUFFICES ASSUME NEW e \in Elements, element'[e] # None, element'[e].status = "merged"
                 PROVE  (element[e].into \in Elements \ {e} /\ Open(element[e].into))'
      BY DEF MergedLeadsOn, Exists
    <2>1. Open(a)'
      BY <1>2, <1>3 DEF Open, Exists, Active
    <2>2. CASE e = b
      BY <1>2, <1>3, <2>1, <2>2
    <2>3. CASE e # b
      <3>1. element'[e] = element[e] /\ Exists(e) /\ element[e].status = "merged" /\ e # a
        BY <1>3, <2>3 DEF Exists
      <3>2. PICK x \in Elements \ {e} : x = element[e].into /\ Open(x)
        BY <3>1 DEF MergedLeadsOn
      <3>3. x # b
        BY <1>2, <3>1, <3>2 DEF WithoutAliases
      <3>4. Open(x)'
        BY <1>3, <2>1, <3>2, <3>3 DEF Open, Exists
      <3> QED
        BY <3>1, <3>2, <3>4
    <2> QED
      BY <2>2, <2>3
  <1> QED
    BY <1>8, <1>9, <1>10, <1>11

LEMMA PreviewKeeps ==
    ASSUME LoreInv, NEW s \in Suggestions, NEW x \in Roles(s[1]), NEW c \in Contents,
           Preview(s, x[1], x[2], c)
    PROVE  LoreInv'
  <1>1. preview' = [s |-> s, survivor |-> x[1], merged |-> x[2], final |-> c,
                    claims |-> Claims(s, x[1], x[2])]
        /\ UNCHANGED <<element, past, relation, suggestion, seen>>
    BY DEF Preview
  <1>2. <<x[1], x[2]>> \in Roles(s[1])
    BY DEF Roles
  <1>3. PreviewOK'
    BY <1>1, <1>2 DEF PreviewOK
  <1> QED
    BY <1>1, <1>3 DEF TypeOK, JudgedOK, IdentityOK, ActiveOK, MergedLeadsOn, Related, Ends,
                     Exists, Open, Active

LEMMA LoreStepHolds == LoreInv /\ [Next]_vars => LoreInv'
  <1> SUFFICES ASSUME LoreInv, [Next]_vars PROVE LoreInv'
    OBVIOUS
  <1>1. CASE UNCHANGED vars
    BY <1>1 DEF vars, TypeOK, PreviewOK, JudgedOK, IdentityOK, ActiveOK, MergedLeadsOn,
                Related, Ends, Exists, Open, Active
  <1> QED
    BY <1>1, ElementStepKeeps, RelationStepKeeps, ReviewStepKeeps, PreviewKeeps, MergeKeeps
       DEF Next, MergeStep

LEMMA LoreInvariance == Spec => []LoreInv
  BY InitLore, LoreStepHolds, PTL DEF Spec

\* Rows, versions and the history have the shapes the schema declares.
THEOREM TypeCorrect == Spec => []TypeOK
  BY LoreInvariance, PTL

\* An active relation joins two different active elements, and no two relations say the
\* same of the same two, however merges rewire them.
THEOREM RelationsStaySound == Spec => []RelationsSound
  <1>1. LoreInv => RelationsSound
    <2> SUFFICES ASSUME LoreInv PROVE RelationsSound
      OBVIOUS
    <2>1. ASSUME NEW q \in Related, NEW r \in Related, q # r,
                 relation[q].key = relation[r].key, Ends(q) = Ends(r)
          PROVE  relation[q].key = "directed" /\ relation[q].src # relation[r].src
      <3>1. relation[q] \in RelationRows /\ relation[r] \in RelationRows
        BY DEF TypeOK, Related
      <3>2. relation[q].src # relation[q].tgt /\ relation[r].src # relation[r].tgt
        BY DEF IdentityOK
      <3>3. relation[q].src # relation[r].src
        BY <2>1, <3>2 DEF IdentityOK, Identity, Ends
      <3>4. relation[q].src = relation[r].tgt /\ relation[q].tgt = relation[r].src
        BY <2>1, <3>2, <3>3 DEF Ends
      <3>5. PICK x \in Nat, y \in Nat : x = relation[q].src /\ y = relation[q].tgt
        BY <3>1, IdsAssumption DEF RelationRows
      <3>6. CASE relation[q].key = "symmetric"
        <4>1. Canonical(x, y, "symmetric") = <<x, y>> /\ Canonical(y, x, "symmetric") = <<y, x>>
          BY <2>1, <3>4, <3>5, <3>6 DEF IdentityOK
        <4>2. ~(y < x) /\ ~(x < y) /\ x # y
          BY <3>2, <3>5, <4>1 DEF Canonical
        <4> QED
          BY <4>2
      <3>7. relation[q].key \in {"directed", "symmetric"}
        BY <3>1, LoreAssumption DEF RelationRows
      <3> QED
        BY <3>3, <3>6, <3>7
    <2> QED
      BY <2>1 DEF RelationsSound, IdentityOK, ActiveOK
  <1> QED
    BY <1>1, LoreInvariance, PTL

\* An element that was merged leads to one that was not, in one step.
THEOREM MergedStayResolved == Spec => []MergedLeadsOn
  BY LoreInvariance, PTL

\* The status of an element becomes "merged" in a merge only.
LEMMA OnlyMergesMerge ==
    ASSUME LoreInv, [Next]_vars, NEW e \in Elements, Open(e), element'[e].status = "merged"
    PROVE  Merge
  <1>1. element[e] \in ElementRows
    BY DEF Open, Exists, TypeOK
  <1>2. UNCHANGED element => FALSE
    BY DEF Open
  <1>3. ASSUME NEW x \in Elements, NEW row, element' = [element EXCEPT ![x] = row],
               row.status # "merged"
        PROVE  FALSE
    BY <1>3 DEF Open, TypeOK
  <1>4. ASSUME NEW x \in Elements, NEW row \in ElementRows, row.status # "merged", Claimed(x, row)
        PROVE  FALSE
    <2>1. PICK new : new = [row EXCEPT !.lock = @ + 1]
      OBVIOUS
    <2>2. new.status = row.status
      BY <2>1 DEF ElementRows
    <2> QED
      BY <1>3, <1>4, <2>1, <2>2 DEF Claimed
  <1>5. CASE ElementStep
    <2> SUFFICES ASSUME NEW x \in Elements,
                      \/ \E c \in Contents : CreateElement(x, c) \/ EditElement(x, c)
                      \/ \E i \in DOMAIN past[x] : RestoreVersion(x, i)
                      \/ Confirm(x) \/ Reject(x) \/ ArchiveElement(x) \/ RestoreElement(x)
                 PROVE  FALSE
      BY <1>5 DEF ElementStep
    <2>1. Open(x) => element[x] \in ElementRows /\ element[x].status # "merged"
      BY DEF TypeOK, Open, Exists
    <2>2. ASSUME NEW c \in Contents, CreateElement(x, c) PROVE FALSE
      <3>1. PICK row : row = [conf |-> "confirmed", status |-> "active", into |-> None, lock |-> 1]
        OBVIOUS
      <3>2. element' = [element EXCEPT ![x] = row] /\ row.status # "merged"
        BY <2>2, <3>1 DEF CreateElement
      <3> QED
        BY <1>3, <3>2
    <2>3. ASSUME NEW row, ChangeState(x, row), Open(x) => row \in ElementRows /\ row.status # "merged"
          PROVE  FALSE
      BY <1>4, <2>3 DEF ChangeState
    <2>4. ~Confirm(x)
      <3>1. PICK row : row = [element[x] EXCEPT !.conf = "confirmed"]
        OBVIOUS
      <3>2. Open(x) => row \in ElementRows /\ row.status # "merged"
        BY <2>1, <3>1 DEF ElementRows
      <3> QED
        BY <2>3, <3>1, <3>2 DEF Confirm
    <2>5. ~Reject(x)
      <3>1. PICK row : row = [element[x] EXCEPT !.conf = "rejected"]
        OBVIOUS
      <3>2. Open(x) => row \in ElementRows /\ row.status # "merged"
        BY <2>1, <3>1 DEF ElementRows
      <3> QED
        BY <2>3, <3>1, <3>2 DEF Reject
    <2>6. \A way \in {"active", "archived"} :
             ~ChangeState(x, [element[x] EXCEPT !.status = way])
      <3> SUFFICES ASSUME NEW way \in {"active", "archived"},
                          ChangeState(x, [element[x] EXCEPT !.status = way])
                   PROVE  FALSE
        OBVIOUS
      <3>1. PICK row : row = [element[x] EXCEPT !.status = way]
        OBVIOUS
      <3>2. Open(x) => row \in ElementRows /\ row.status # "merged"
        BY <2>1, <3>1 DEF ElementRows
      <3> QED
        BY <2>3, <3>1, <3>2
    <2>7. (\E c \in Contents : EditElement(x, c)) \/ (\E i \in DOMAIN past[x] : RestoreVersion(x, i)) => FALSE
      BY <1>4, <2>1 DEF EditElement, RestoreVersion
    <2> QED
      BY <2>2, <2>4, <2>5, <2>6, <2>7 DEF ArchiveElement, RestoreElement
  <1>6. RelationStep \/ ReviewStep => UNCHANGED element
    BY DEF RelationStep, CreateRelation, EditRelation, ArchiveRelation, RestoreRelation,
           ChangeRelation, ReviewStep, Scan, Report, Decide
  <1>7. (\E s \in Suggestions, c \in Contents : \E x \in Roles(s[1]) : Preview(s, x[1], x[2], c))
        => UNCHANGED element
    BY DEF Preview
  <1>8. UNCHANGED vars => UNCHANGED element
    BY DEF vars
  <1> QED
    BY <1>2, <1>5, <1>6, <1>7, <1>8 DEF Next, MergeStep

\* Two elements are merged only with the very contents of which a reviewer last said that
\* they are duplicates.
THEOREM MergedStayJudged == Spec => MergedAsJudged
  <1> DEFINE Step == \A e \in Elements : Open(e) /\ element'[e].status = "merged" =>
                \E s \in Suggestions : /\ {s[1][1], s[1][2]} = {e, element'[e].into}
                                       /\ seen[s] = VersionsOf(s[1])
  <1>1. LoreInv /\ [Next]_vars => Step
    <2> SUFFICES ASSUME LoreInv, [Next]_vars, NEW e \in Elements, Open(e),
                        element'[e].status = "merged"
                 PROVE  \E s \in Suggestions : /\ {s[1][1], s[1][2]} = {e, element'[e].into}
                                               /\ seen[s] = VersionsOf(s[1])
      OBVIOUS
    <2>1. Merge
      BY OnlyMergesMerge
    <2>2. PICK s \in Suggestions, a \in Elements, b \in Elements :
              s = preview.s /\ a = preview.survivor /\ b = preview.merged
      BY <2>1, MergeFacts
    <2>3. {s[1][1], s[1][2]} = {a, b} /\ Mergeable(s)
      BY <2>1, <2>2, MergeFacts
    <2>4. e = b /\ element'[b].into = a
      BY <2>1, <2>2, MergedElements DEF Open
    <2>5. seen[s] = VersionsOf(s[1])
      BY <2>3 DEF Mergeable, Reviewed, JudgedOK
    <2> QED
      BY <2>3, <2>4, <2>5
  <1>2. LoreInv /\ [Next]_vars => [Step]_vars
    BY <1>1
  <1> QED
    BY <1>2, LoreInvariance, PTL DEF Spec, MergedAsJudged

-----------------------------------------------------------------------------
(* LoreLocks *)

HIDE DEF LoreInv

\* The classes of rows that the statements of a request lock, in their order.
Order(op) ==
    CASE op = "archive" -> <<"element", "relation">>
      [] op = "restore" -> <<"element">>
      [] op = "create" -> <<"element", "relation", "share">>
      [] op = "edit" -> <<"relation">>
      [] op \in {"relation_archive", "relation_restore"} -> <<"element", "relation">>
      [] op = "merge" -> <<"project", "suggestion", "element", "relation", "element">>
      [] op = "decide" -> <<"suggestion", "element", "share">>
      [] op = "scan" -> <<"project", "element", "suggestion">>
      [] op = "report" -> <<"project", "element", "suggestion">>

\* What a request is about.  The relation it has read was so once, and is so still
\* if its version is.
Subject(x) ==
    /\ x.op \in {"merge", "decide", "report"} => \E s \in SuggestionIds : x.on = Pair[s]
    /\ x.op = "merge" => x.gone \in x.on
    /\ x.op \in {"archive", "restore"} => \E e \in Elements : x.on = {e}
    /\ x.op = "create" => x.rel \in RelationIds /\ x.on # {}
    /\ x.op \in {"edit", "relation_archive", "relation_restore"} =>
          /\ x.rel \in Linked /\ x.read \in LinkRows /\ x.on = x.read.ends
          /\ x.read.ver <= link[x.rel].ver
          /\ x.read.ver = link[x.rel].ver => x.read = link[x.rel]

\* The rows of the statements so far are held, those of the last one held or waited for.
Covered(x) ==
    /\ x.step <= Len(Statements(x))
    /\ \A k \in 1 .. x.step :
          Statements(x)[k] \subseteq x.holds \cup (IF k = x.step THEN x.wants ELSE {})

\* A merge comes back to elements to lock the aliases.
Rechecks(x) == x.op = "merge" /\ x.step = 5

\* Locks are taken statement by statement and in the order of the ids.
Ordered(x) ==
    /\ \A h \in x.holds : \E k \in 1 .. x.step : h[1] = Order(x.op)[k]
    /\ \A w \in x.wants : x.step > 0 /\ w[1] = Order(x.op)[x.step]
    /\ ~Rechecks(x) => \A h \in x.holds, w \in x.wants : h[1] = w[1] => h[2] < w[2]

\* The elements that are locked: those the request is about, but for scans and merges;
\* none that is merged when an archive goes on to relations; merged ones when a merge
\* comes to the aliases.
Aimed(x) ==
    /\ x.op \notin {"scan", "merge"} =>
          \A h \in x.holds \cup x.wants : h[1] = "element" => h[2] \in x.on
    /\ x.op = "archive" /\ x.step > 1 => \A e \in x.on : status[e] # "merged"
    /\ Rechecks(x) => \A w \in x.wants : w[2] \in Elements /\ status[w[2]] = "merged"

TransactionOK(x) ==
    x # Idle => /\ x.op \in Ops
                /\ Subject(x) /\ Covered(x) /\ Ordered(x) /\ Aimed(x)
                /\ x.checked => Finished(x) /\ Passes(x)

\* No two transactions hold a lock, but for key share locks of the project.
Exclusive == \A t, u \in Transactions : t # u => tx[t].holds \cap tx[u].holds \subseteq Share

AliasesMerged == \A e \in Elements : into[e] # None => status[e] = "merged"

LockInv ==
    /\ LockTypeOK
    /\ Exclusive
    /\ \A t \in Transactions : TransactionOK(tx[t])
    /\ AliasesMerged
    /\ ActiveEnds

LEMMA RowIs ==
    ASSUME NEW w \in Rows
    PROVE  /\ w = <<w[1], w[2]>> /\ w[2] \in Nat
           /\ w[1] \in {"project", "share", "suggestion", "element", "relation"}
           /\ w[1] = "project" => w \in Project
           /\ w[1] = "share" => w \in Share
  <1>1. CASE w \in Project \cup Share
    BY <1>1 DEF Project, Share
  <1>2. CASE w \in {"element"} \X Elements
    <2>1. PICK e \in Elements : w = <<"element", e>>
      BY <1>2
    <2> QED
      BY <2>1, IdsAssumption
  <1>3. CASE w \in {"relation"} \X RelationIds
    <2>1. PICK r \in RelationIds : w = <<"relation", r>>
      BY <1>3
    <2> QED
      BY <2>1, IdsAssumption
  <1>4. CASE w \in {"suggestion"} \X SuggestionIds
    <2>1. PICK s \in SuggestionIds : w = <<"suggestion", s>>
      BY <1>4
    <2> QED
      BY <2>1, LocksAssumption
  <1> QED
    BY <1>1, <1>2, <1>3, <1>4 DEF Rows

LEMMA NextRowIs ==
    ASSUME NEW t \in Transactions, tx[t].wants \subseteq Rows, tx[t].wants # {}
    PROVE  /\ NextRow(t) \in tx[t].wants
           /\ \A v \in tx[t].wants : v[1] = NextRow(t)[1] /\ v # NextRow(t) => NextRow(t)[2] < v[2]
  <1> DEFINE ids == {w[2] : w \in tx[t].wants}
  <1>1. \A w \in tx[t].wants : w = <<w[1], w[2]>> /\ w[2] \in Nat
    <2> SUFFICES ASSUME NEW w \in tx[t].wants PROVE w = <<w[1], w[2]>> /\ w[2] \in Nat
      OBVIOUS
    <2> QED
      BY RowIs
  <1>2. PICK n \in ids : \A m \in ids : n <= m
    <2>1. ids \in SUBSET Nat /\ ids # {}
      BY <1>1
    <2> QED
      BY <2>1, Smallest
  <1>3. NextRow(t) \in tx[t].wants /\ \A v \in tx[t].wants : NextRow(t)[2] <= v[2]
    BY <1>2 DEF NextRow
  <1> HIDE DEF ids
  <1>4. ASSUME NEW v \in tx[t].wants, v[1] = NextRow(t)[1], v # NextRow(t)
        PROVE  NextRow(t)[2] < v[2]
    <2>1. PICK w \in tx[t].wants : w = NextRow(t)
      BY <1>3
    <2>2. /\ v = <<v[1], v[2]>> /\ v[2] \in Nat
          /\ w = <<w[1], w[2]>> /\ w[2] \in Nat
      BY <1>1
    <2>3. v[2] # w[2]
      BY <1>4, <2>1, <2>2
    <2> QED
      BY <1>3, <2>1, <2>2, <2>3
  <1> QED
    BY <1>3, <1>4

\* The statements of a request, by its kind.
LEMMA StatementsOf ==
    ASSUME NEW x
    PROVE  /\ x.op = "archive" => Statements(x) = <<ElementLocks(x.on), RelationLocks(x.on)>>
           /\ x.op = "restore" => Statements(x) = <<ElementLocks(x.on)>>
           /\ x.op = "create" => Statements(x) = <<ElementLocks(x.on), SameEnds(x.on), Share>>
           /\ x.op = "edit" => Statements(x) = <<{<<"relation", x.rel>>}>>
           /\ x.op \in {"relation_archive", "relation_restore"} =>
                Statements(x) = <<ElementLocks(x.on), {<<"relation", x.rel>>}>>
           /\ x.op = "merge" =>
                Statements(x) = <<Project, SuggestionLocks(x.on), ElementLocks(x.on), RelationLocks(x.on), ElementLocks(Aliases(x.gone))>>
           /\ x.op = "decide" => Statements(x) = <<SuggestionLocks(x.on), ElementLocks(x.on), Share>>
           /\ x.op = "scan" =>
                Statements(x) = <<Project, ElementLocks(Present), {"suggestion"} \X SuggestionIds>>
           /\ x.op = "report" =>
                Statements(x) = <<Project, ElementLocks(x.on), SuggestionLocks(x.on)>>
  BY DEF Statements, EndsOfNew, EndsFirst

LEMMA RowsLocked ==
    ASSUME NEW x, x.on \subseteq Elements
    PROVE  /\ \A w \in ElementLocks(x.on) : w[1] = "element" /\ w \in Rows
           /\ \A w \in ElementLocks(Present) : w[1] = "element" /\ w \in Rows
           /\ \A w \in ElementLocks(Aliases(x.gone)) : w[1] = "element" /\ w \in Rows
           /\ \A w \in RelationLocks(x.on) : w[1] = "relation" /\ w \in Rows
           /\ \A w \in SameEnds(x.on) : w[1] = "relation" /\ w \in Rows
           /\ \A w \in SuggestionLocks(x.on) : w[1] = "suggestion" /\ w \in Rows
           /\ \A w \in {"suggestion"} \X SuggestionIds : w[1] = "suggestion" /\ w \in Rows
           /\ \A w \in Project : w[1] = "project" /\ w \in Rows
           /\ \A w \in Share : w[1] = "share" /\ w \in Rows
           /\ x.rel \in RelationIds => \A w \in {<<"relation", x.rel>>} : w[1] = "relation" /\ w \in Rows
  BY DEF ElementLocks, RelationLocks, SameEnds, SuggestionLocks, Present, Aliases, Project, Share, Rows, Linked

LEMMA OrderOf ==
    ASSUME NEW x, x.op \in Ops, x.on \subseteq Elements, Subject(x)
    PROVE  /\ Len(Statements(x)) \in Nat /\ Len(Order(x.op)) = Len(Statements(x))
           /\ \A k \in 1 .. Len(Statements(x)) :
                 /\ Statements(x)[k] \subseteq Rows
                 /\ \A w \in Statements(x)[k] : w[1] = Order(x.op)[k]
                 /\ x.op \notin {"scan", "merge"} /\ Order(x.op)[k] = "element" =>
                         Statements(x)[k] = ElementLocks(x.on)
           /\ \A j, k \in 1 .. Len(Statements(x)) :
                 Order(x.op)[j] = Order(x.op)[k] => j = k \/ (x.op = "merge" /\ (j = 5 \/ k = 5))
  <1>0. /\ \A w \in ElementLocks(x.on) : w[1] = "element" /\ w \in Rows
        /\ \A w \in ElementLocks(Present) : w[1] = "element" /\ w \in Rows
        /\ \A w \in ElementLocks(Aliases(x.gone)) : w[1] = "element" /\ w \in Rows
        /\ \A w \in RelationLocks(x.on) : w[1] = "relation" /\ w \in Rows
        /\ \A w \in SameEnds(x.on) : w[1] = "relation" /\ w \in Rows
        /\ \A w \in SuggestionLocks(x.on) : w[1] = "suggestion" /\ w \in Rows
        /\ \A w \in {"suggestion"} \X SuggestionIds : w[1] = "suggestion" /\ w \in Rows
        /\ \A w \in Project : w[1] = "project" /\ w \in Rows
        /\ \A w \in Share : w[1] = "share" /\ w \in Rows
        /\ x.rel \in RelationIds => \A w \in {<<"relation", x.rel>>} : w[1] = "relation" /\ w \in Rows
    BY RowsLocked
  <1>1. CASE x.op = "archive"
    <2>1. Statements(x) = <<ElementLocks(x.on), RelationLocks(x.on)>>
      BY <1>1, StatementsOf
    <2>2. Order(x.op) = <<"element", "relation">>
      BY <1>1 DEF Order
    <2>4. Len(Statements(x)) = 2 /\ Len(Order(x.op)) = 2 /\ \A k \in 1 .. 2 : k = 1 \/ k = 2
      BY <2>1, <2>2
    <2>5. /\ Statements(x)[1] \subseteq Rows /\ Order(x.op)[1] = "element"
          /\ \A w \in Statements(x)[1] : w[1] = Order(x.op)[1]
          /\ Statements(x)[1] = ElementLocks(x.on)
      BY <1>0, <2>1, <2>2
    <2>6. /\ Statements(x)[2] \subseteq Rows /\ Order(x.op)[2] = "relation"
          /\ \A w \in Statements(x)[2] : w[1] = Order(x.op)[2]
          /\ Statements(x)[2] = RelationLocks(x.on)
      BY <1>0, <2>1, <2>2
    <2> QED
      BY <1>1, <2>4, <2>5, <2>6
  <1>2. CASE x.op = "restore"
    <2>1. Statements(x) = <<ElementLocks(x.on)>>
      BY <1>2, StatementsOf
    <2>2. Order(x.op) = <<"element">>
      BY <1>2 DEF Order
    <2>4. Len(Statements(x)) = 1 /\ Len(Order(x.op)) = 1 /\ \A k \in 1 .. 1 : k = 1
      BY <2>1, <2>2
    <2>5. /\ Statements(x)[1] \subseteq Rows /\ Order(x.op)[1] = "element"
          /\ \A w \in Statements(x)[1] : w[1] = Order(x.op)[1]
          /\ Statements(x)[1] = ElementLocks(x.on)
      BY <1>0, <2>1, <2>2
    <2> QED
      BY <1>2, <2>4, <2>5
  <1>3. CASE x.op = "create"
    <2>1. Statements(x) = <<ElementLocks(x.on), SameEnds(x.on), Share>>
      BY <1>3, StatementsOf
    <2>2. Order(x.op) = <<"element", "relation", "share">>
      BY <1>3 DEF Order
    <2>4. Len(Statements(x)) = 3 /\ Len(Order(x.op)) = 3 /\ \A k \in 1 .. 3 : k = 1 \/ k = 2 \/ k = 3
      BY <2>1, <2>2
    <2>5. /\ Statements(x)[1] \subseteq Rows /\ Order(x.op)[1] = "element"
          /\ \A w \in Statements(x)[1] : w[1] = Order(x.op)[1]
          /\ Statements(x)[1] = ElementLocks(x.on)
      BY <1>0, <2>1, <2>2
    <2>6. /\ Statements(x)[2] \subseteq Rows /\ Order(x.op)[2] = "relation"
          /\ \A w \in Statements(x)[2] : w[1] = Order(x.op)[2]
          /\ Statements(x)[2] = SameEnds(x.on)
      BY <1>0, <2>1, <2>2
    <2>7. /\ Statements(x)[3] \subseteq Rows /\ Order(x.op)[3] = "share"
          /\ \A w \in Statements(x)[3] : w[1] = Order(x.op)[3]
          /\ Statements(x)[3] = Share
      BY <1>0, <2>1, <2>2
    <2> QED
      BY <1>3, <2>4, <2>5, <2>6, <2>7
  <1>4. CASE x.op = "edit"
    <2>1. Statements(x) = <<{<<"relation", x.rel>>}>>
      BY <1>4, StatementsOf
    <2>2. Order(x.op) = <<"relation">>
      BY <1>4 DEF Order
    <2>3. x.rel \in RelationIds
      BY <1>4 DEF Subject, Linked
    <2>4. Len(Statements(x)) = 1 /\ Len(Order(x.op)) = 1 /\ \A k \in 1 .. 1 : k = 1
      BY <2>1, <2>2
    <2>5. /\ Statements(x)[1] \subseteq Rows /\ Order(x.op)[1] = "relation"
          /\ \A w \in Statements(x)[1] : w[1] = Order(x.op)[1]
          /\ Statements(x)[1] = {<<"relation", x.rel>>}
      BY <1>0, <2>1, <2>2, <2>3
    <2> QED
      BY <1>4, <2>4, <2>5
  <1>5. CASE x.op \in {"relation_archive", "relation_restore"}
    <2>1. Statements(x) = <<ElementLocks(x.on), {<<"relation", x.rel>>}>>
      BY <1>5, StatementsOf
    <2>2. Order(x.op) = <<"element", "relation">>
      BY <1>5 DEF Order
    <2>3. x.rel \in RelationIds
      BY <1>5 DEF Subject, Linked
    <2>4. Len(Statements(x)) = 2 /\ Len(Order(x.op)) = 2 /\ \A k \in 1 .. 2 : k = 1 \/ k = 2
      BY <2>1, <2>2
    <2>5. /\ Statements(x)[1] \subseteq Rows /\ Order(x.op)[1] = "element"
          /\ \A w \in Statements(x)[1] : w[1] = Order(x.op)[1]
          /\ Statements(x)[1] = ElementLocks(x.on)
      BY <1>0, <2>1, <2>2, <2>3
    <2>6. /\ Statements(x)[2] \subseteq Rows /\ Order(x.op)[2] = "relation"
          /\ \A w \in Statements(x)[2] : w[1] = Order(x.op)[2]
          /\ Statements(x)[2] = {<<"relation", x.rel>>}
      BY <1>0, <2>1, <2>2, <2>3
    <2> QED
      BY <1>5, <2>4, <2>5, <2>6
  <1>6. CASE x.op = "merge"
    <2>1. Statements(x) = <<Project, SuggestionLocks(x.on), ElementLocks(x.on), RelationLocks(x.on), ElementLocks(Aliases(x.gone))>>
      BY <1>6, StatementsOf
    <2>2. Order(x.op) = <<"project", "suggestion", "element", "relation", "element">>
      BY <1>6 DEF Order
    <2>4. Len(Statements(x)) = 5 /\ Len(Order(x.op)) = 5 /\ \A k \in 1 .. 5 : k = 1 \/ k = 2 \/ k = 3 \/ k = 4 \/ k = 5
      BY <2>1, <2>2
    <2>5. /\ Statements(x)[1] \subseteq Rows /\ Order(x.op)[1] = "project"
          /\ \A w \in Statements(x)[1] : w[1] = Order(x.op)[1]
          /\ Statements(x)[1] = Project
      BY <1>0, <2>1, <2>2
    <2>6. /\ Statements(x)[2] \subseteq Rows /\ Order(x.op)[2] = "suggestion"
          /\ \A w \in Statements(x)[2] : w[1] = Order(x.op)[2]
          /\ Statements(x)[2] = SuggestionLocks(x.on)
      BY <1>0, <2>1, <2>2
    <2>7. /\ Statements(x)[3] \subseteq Rows /\ Order(x.op)[3] = "element"
          /\ \A w \in Statements(x)[3] : w[1] = Order(x.op)[3]
          /\ Statements(x)[3] = ElementLocks(x.on)
      BY <1>0, <2>1, <2>2
    <2>8. /\ Statements(x)[4] \subseteq Rows /\ Order(x.op)[4] = "relation"
          /\ \A w \in Statements(x)[4] : w[1] = Order(x.op)[4]
          /\ Statements(x)[4] = RelationLocks(x.on)
      BY <1>0, <2>1, <2>2
    <2>9. /\ Statements(x)[5] \subseteq Rows /\ Order(x.op)[5] = "element"
          /\ \A w \in Statements(x)[5] : w[1] = Order(x.op)[5]
          /\ Statements(x)[5] = ElementLocks(Aliases(x.gone))
      BY <1>0, <2>1, <2>2
    <2> QED
      BY <1>6, <2>4, <2>5, <2>6, <2>7, <2>8, <2>9
  <1>7. CASE x.op = "decide"
    <2>1. Statements(x) = <<SuggestionLocks(x.on), ElementLocks(x.on), Share>>
      BY <1>7, StatementsOf
    <2>2. Order(x.op) = <<"suggestion", "element", "share">>
      BY <1>7 DEF Order
    <2>4. Len(Statements(x)) = 3 /\ Len(Order(x.op)) = 3 /\ \A k \in 1 .. 3 : k = 1 \/ k = 2 \/ k = 3
      BY <2>1, <2>2
    <2>5. /\ Statements(x)[1] \subseteq Rows /\ Order(x.op)[1] = "suggestion"
          /\ \A w \in Statements(x)[1] : w[1] = Order(x.op)[1]
          /\ Statements(x)[1] = SuggestionLocks(x.on)
      BY <1>0, <2>1, <2>2
    <2>6. /\ Statements(x)[2] \subseteq Rows /\ Order(x.op)[2] = "element"
          /\ \A w \in Statements(x)[2] : w[1] = Order(x.op)[2]
          /\ Statements(x)[2] = ElementLocks(x.on)
      BY <1>0, <2>1, <2>2
    <2>7. /\ Statements(x)[3] \subseteq Rows /\ Order(x.op)[3] = "share"
          /\ \A w \in Statements(x)[3] : w[1] = Order(x.op)[3]
          /\ Statements(x)[3] = Share
      BY <1>0, <2>1, <2>2
    <2> QED
      BY <1>7, <2>4, <2>5, <2>6, <2>7
  <1>8. CASE x.op = "scan"
    <2>1. Statements(x) = <<Project, ElementLocks(Present), {"suggestion"} \X SuggestionIds>>
      BY <1>8, StatementsOf
    <2>2. Order(x.op) = <<"project", "element", "suggestion">>
      BY <1>8 DEF Order
    <2>4. Len(Statements(x)) = 3 /\ Len(Order(x.op)) = 3 /\ \A k \in 1 .. 3 : k = 1 \/ k = 2 \/ k = 3
      BY <2>1, <2>2
    <2>5. /\ Statements(x)[1] \subseteq Rows /\ Order(x.op)[1] = "project"
          /\ \A w \in Statements(x)[1] : w[1] = Order(x.op)[1]
          /\ Statements(x)[1] = Project
      BY <1>0, <2>1, <2>2
    <2>6. /\ Statements(x)[2] \subseteq Rows /\ Order(x.op)[2] = "element"
          /\ \A w \in Statements(x)[2] : w[1] = Order(x.op)[2]
          /\ Statements(x)[2] = ElementLocks(Present)
      BY <1>0, <2>1, <2>2
    <2>7. /\ Statements(x)[3] \subseteq Rows /\ Order(x.op)[3] = "suggestion"
          /\ \A w \in Statements(x)[3] : w[1] = Order(x.op)[3]
          /\ Statements(x)[3] = {"suggestion"} \X SuggestionIds
      BY <1>0, <2>1, <2>2
    <2> QED
      BY <1>8, <2>4, <2>5, <2>6, <2>7
  <1>9. CASE x.op = "report"
    <2>1. Statements(x) = <<Project, ElementLocks(x.on), SuggestionLocks(x.on)>>
      BY <1>9, StatementsOf
    <2>2. Order(x.op) = <<"project", "element", "suggestion">>
      BY <1>9 DEF Order
    <2>4. Len(Statements(x)) = 3 /\ Len(Order(x.op)) = 3 /\ \A k \in 1 .. 3 : k = 1 \/ k = 2 \/ k = 3
      BY <2>1, <2>2
    <2>5. /\ Statements(x)[1] \subseteq Rows /\ Order(x.op)[1] = "project"
          /\ \A w \in Statements(x)[1] : w[1] = Order(x.op)[1]
          /\ Statements(x)[1] = Project
      BY <1>0, <2>1, <2>2
    <2>6. /\ Statements(x)[2] \subseteq Rows /\ Order(x.op)[2] = "element"
          /\ \A w \in Statements(x)[2] : w[1] = Order(x.op)[2]
          /\ Statements(x)[2] = ElementLocks(x.on)
      BY <1>0, <2>1, <2>2
    <2>7. /\ Statements(x)[3] \subseteq Rows /\ Order(x.op)[3] = "suggestion"
          /\ \A w \in Statements(x)[3] : w[1] = Order(x.op)[3]
          /\ Statements(x)[3] = SuggestionLocks(x.on)
      BY <1>0, <2>1, <2>2
    <2> QED
      BY <1>9, <2>4, <2>5, <2>6, <2>7
  <1> QED
    BY <1>1, <1>2, <1>3, <1>4, <1>5, <1>6, <1>7, <1>8, <1>9 DEF Ops


\* The classes of rows that a request holds or waits for.
LEMMA ClassesOf ==
    ASSUME NEW x \in TransactionRows, x.op \in Ops, x.on \subseteq Elements,
           Subject(x), Covered(x), Ordered(x), NEW h \in x.holds \cup x.wants
    PROVE  /\ h[1] = "project" => x.op \in {"merge", "scan", "report"}
           /\ h[1] = "share" => x.op \in {"create", "decide"}
           /\ h[1] = "suggestion" => x.op \in {"merge", "scan", "report", "decide"}
           /\ h[1] = "element" => x.op # "edit"
  <1>1. PICK n \in Nat : n = x.step
    BY DEF TransactionRows
  <1>2. n <= Len(Order(x.op)) /\ Len(Order(x.op)) \in Nat
    BY <1>1, OrderOf DEF Covered
  <1>3. PICK k \in 1 .. n : h[1] = Order(x.op)[k]
    <2>1. n > 0 => n \in 1 .. n
      OBVIOUS
    <2> QED
      BY <1>1, <2>1 DEF Ordered
  <1>4. CASE x.op = "archive"
    <2>1. Order(x.op) = <<"element", "relation">>
      BY <1>4 DEF Order
    <2>2. k = 1 \/ k = 2
      BY <1>2, <1>3, <2>1
    <2>3. Order(x.op)[1] = "element"
      BY <2>1
    <2>4. Order(x.op)[2] = "relation"
      BY <2>1
    <2> QED
      BY <1>4, <1>3, <2>2, <2>3, <2>4
  <1>5. CASE x.op = "restore"
    <2>1. Order(x.op) = <<"element">>
      BY <1>5 DEF Order
    <2>2. k = 1
      BY <1>2, <1>3, <2>1
    <2>3. Order(x.op)[1] = "element"
      BY <2>1
    <2> QED
      BY <1>5, <1>3, <2>2, <2>3
  <1>6. CASE x.op = "create"
    <2>1. Order(x.op) = <<"element", "relation", "share">>
      BY <1>6 DEF Order
    <2>2. k = 1 \/ k = 2 \/ k = 3
      BY <1>2, <1>3, <2>1
    <2>3. Order(x.op)[1] = "element"
      BY <2>1
    <2>4. Order(x.op)[2] = "relation"
      BY <2>1
    <2>5. Order(x.op)[3] = "share"
      BY <2>1
    <2> QED
      BY <1>6, <1>3, <2>2, <2>3, <2>4, <2>5
  <1>7. CASE x.op = "edit"
    <2>1. Order(x.op) = <<"relation">>
      BY <1>7 DEF Order
    <2>2. k = 1
      BY <1>2, <1>3, <2>1
    <2>3. Order(x.op)[1] = "relation"
      BY <2>1
    <2> QED
      BY <1>7, <1>3, <2>2, <2>3
  <1>8. CASE x.op \in {"relation_archive", "relation_restore"}
    <2>1. Order(x.op) = <<"element", "relation">>
      BY <1>8 DEF Order
    <2>2. k = 1 \/ k = 2
      BY <1>2, <1>3, <2>1
    <2>3. Order(x.op)[1] = "element"
      BY <2>1
    <2>4. Order(x.op)[2] = "relation"
      BY <2>1
    <2> QED
      BY <1>8, <1>3, <2>2, <2>3, <2>4
  <1>9. CASE x.op = "merge"
    <2>1. Order(x.op) = <<"project", "suggestion", "element", "relation", "element">>
      BY <1>9 DEF Order
    <2>2. k = 1 \/ k = 2 \/ k = 3 \/ k = 4 \/ k = 5
      BY <1>2, <1>3, <2>1
    <2>3. Order(x.op)[1] = "project"
      BY <2>1
    <2>4. Order(x.op)[2] = "suggestion"
      BY <2>1
    <2>5. Order(x.op)[3] = "element"
      BY <2>1
    <2>6. Order(x.op)[4] = "relation"
      BY <2>1
    <2>7. Order(x.op)[5] = "element"
      BY <2>1
    <2> QED
      BY <1>9, <1>3, <2>2, <2>3, <2>4, <2>5, <2>6, <2>7
  <1>10. CASE x.op = "decide"
    <2>1. Order(x.op) = <<"suggestion", "element", "share">>
      BY <1>10 DEF Order
    <2>2. k = 1 \/ k = 2 \/ k = 3
      BY <1>2, <1>3, <2>1
    <2>3. Order(x.op)[1] = "suggestion"
      BY <2>1
    <2>4. Order(x.op)[2] = "element"
      BY <2>1
    <2>5. Order(x.op)[3] = "share"
      BY <2>1
    <2> QED
      BY <1>10, <1>3, <2>2, <2>3, <2>4, <2>5
  <1>11. CASE x.op = "scan"
    <2>1. Order(x.op) = <<"project", "element", "suggestion">>
      BY <1>11 DEF Order
    <2>2. k = 1 \/ k = 2 \/ k = 3
      BY <1>2, <1>3, <2>1
    <2>3. Order(x.op)[1] = "project"
      BY <2>1
    <2>4. Order(x.op)[2] = "element"
      BY <2>1
    <2>5. Order(x.op)[3] = "suggestion"
      BY <2>1
    <2> QED
      BY <1>11, <1>3, <2>2, <2>3, <2>4, <2>5
  <1>12. CASE x.op = "report"
    <2>1. Order(x.op) = <<"project", "element", "suggestion">>
      BY <1>12 DEF Order
    <2>2. k = 1 \/ k = 2 \/ k = 3
      BY <1>2, <1>3, <2>1
    <2>3. Order(x.op)[1] = "project"
      BY <2>1
    <2>4. Order(x.op)[2] = "element"
      BY <2>1
    <2>5. Order(x.op)[3] = "suggestion"
      BY <2>1
    <2> QED
      BY <1>12, <1>3, <2>2, <2>3, <2>4, <2>5
  <1> QED
    BY <1>4, <1>5, <1>6, <1>7, <1>8, <1>9, <1>10, <1>11, <1>12 DEF Ops


\* What holds of a transaction does not depend on the others.
LEMMA SameTables ==
    ASSUME NEW x, UNCHANGED tables
    PROVE  TransactionOK(x)' <=> TransactionOK(x)
  <1>1. /\ Linked' = Linked /\ \A r : EndsOf(r)' = EndsOf(r)
        /\ status' = status /\ into' = into /\ link' = link
    BY DEF tables, Linked, EndsOf
  <1>2. Statements(x)' = Statements(x)
    BY <1>1 DEF Statements, EndsOfNew, EndsFirst, RelationLocks, ElementLocks, SameEnds,
                SuggestionLocks, Present, Aliases, Project, Share
  <1>3. \A a, b : CanMerge(a, b)' <=> CanMerge(a, b)
    BY <1>1 DEF CanMerge, There, Moved, Aliases
  <1>4. Passes(x)' <=> Passes(x)
    BY <1>1, <1>3 DEF Passes, Claimable, SameEnds
  <1> QED
    BY <1>1, <1>2, <1>4 DEF TransactionOK, Subject, Covered, Ordered, Aimed, Rechecks, Finished

LEMMA OneMoves ==
    ASSUME LockInv, NEW t \in Transactions, NEW y \in TransactionRows,
           tx' = [tx EXCEPT ![t] = y], UNCHANGED tables, TransactionOK(y),
           \A u \in Transactions \ {t} : y.holds \cap tx[u].holds \subseteq Share
    PROVE  LockInv'
  <1>1. \A u \in Transactions : tx'[u] = IF u = t THEN y ELSE tx[u]
    BY DEF LockInv, LockTypeOK
  <1>2. LockTypeOK'
    BY DEF LockInv, LockTypeOK, tables
  <1>3. Exclusive'
    BY <1>1 DEF LockInv, Exclusive
  <1>4. \A u \in Transactions : TransactionOK(tx[u])'
    <2> SUFFICES ASSUME NEW u \in Transactions PROVE TransactionOK(tx[u])'
      OBVIOUS
    <2>1. PICK x : x = tx'[u]
      OBVIOUS
    <2>2. TransactionOK(x)
      BY <1>1, <2>1 DEF LockInv
    <2>3. TransactionOK(x)'
      BY <2>2, SameTables
    <2> QED
      BY <2>1, <2>3
  <1>5. ActiveEnds' /\ AliasesMerged'
    BY DEF LockInv, ActiveEnds, AliasesMerged, Linked, EndsOf, tables
  <1> QED
    BY <1>2, <1>3, <1>4, <1>5 DEF LockInv

LEMMA IdleRow == Idle \in TransactionRows /\ Idle.holds = {} /\ TransactionOK(Idle)
  BY DEF Idle, TransactionRows, TransactionOK

LEMMA InitLocks == LockInit => LockInv
  <1> SUFFICES ASSUME LockInit PROVE LockInv
    OBVIOUS
  <1>1. \A t \in Transactions : tx[t] = Idle
    BY DEF LockInit
  <1>2. LockTypeOK
    BY IdleRow DEF LockInit, LockTypeOK
  <1>3. Exclusive /\ \A t \in Transactions : TransactionOK(tx[t])
    BY <1>1, IdleRow DEF Exclusive
  <1>4. ActiveEnds /\ AliasesMerged
    BY DEF LockInit, ActiveEnds, AliasesMerged, Linked
  <1> QED
    BY <1>2, <1>3, <1>4 DEF LockInv

LEMMA SameRequest ==
    ASSUME NEW x, NEW y, x.op = y.op, x.on = y.on, x.gone = y.gone, x.rel = y.rel, x.read = y.read
    PROVE  /\ Statements(x) = Statements(y)
           /\ Subject(x) <=> Subject(y)
           /\ Passes(x) <=> Passes(y)
  <1>1. Statements(x) = Statements(y)
    BY DEF Statements, EndsOfNew, EndsFirst
  <1>2. Subject(x) <=> Subject(y)
    BY DEF Subject
  <1>3. Passes(x) <=> Passes(y)
    BY DEF Passes, Claimable
  <1> QED
    BY <1>1, <1>2, <1>3

\* What the invariant says of one transaction that runs.
LEMMA RunningRow ==
    ASSUME LockInv, NEW t \in Transactions, tx[t] # Idle
    PROVE  \E x \in TransactionRows :
              /\ x = tx[t] /\ x.op \in Ops /\ x.on \subseteq Elements
              /\ Subject(x) /\ Covered(x) /\ Ordered(x) /\ Aimed(x)
              /\ x.checked => Finished(x) /\ Passes(x)
              /\ Len(Statements(x)) \in Nat
  <1>1. PICK x \in TransactionRows : x = tx[t]
    BY DEF LockInv, LockTypeOK
  <1>2. /\ x.op \in Ops /\ Subject(x) /\ Covered(x) /\ Ordered(x) /\ Aimed(x)
        /\ x.checked => Finished(x) /\ Passes(x)
    BY <1>1 DEF LockInv, TransactionOK
  <1>3. x.on \subseteq Elements
    BY DEF TransactionRows
  <1>4. Len(Statements(x)) \in Nat
    BY <1>2, <1>3, OrderOf
  <1> QED
    BY <1>1, <1>2, <1>3, <1>4

LEMMA BeginLocks ==
    ASSUME LockInv, NEW t \in Transactions, NEW op \in Ops, NEW on \in SUBSET Elements,
           NEW b \in Elements \cup {None}, NEW r \in RelationIds \cup {None}, Begin(t, op, on, b, r)
    PROVE  LockInv'
  <1>1. PICK y : y = [Idle EXCEPT !.op = op, !.on = on, !.gone = b, !.rel = r,
                          !.read = IF r = None THEN None ELSE link[r]]
    OBVIOUS
  <1>2. /\ y.op = op /\ y.on = on /\ y.gone = b /\ y.rel = r /\ y.step = 0 /\ y.checked = FALSE
        /\ y.wants = {} /\ y.holds = {}
        /\ y.read = IF r = None THEN None ELSE link[r]
    BY <1>1 DEF Idle
  <1>3. y.read \in LinkRows \cup {None}
    BY <1>2 DEF LockInv, LockTypeOK
  <1>4. y \in TransactionRows
    BY <1>1, <1>3 DEF Idle, TransactionRows
  <1>5. Subject(y)
    <2>1. op \in {"archive", "restore"} => \E e \in Elements : on = {e}
      BY DEF Begin
    <2>2. op = "create" => on # {}
      BY FS_EmptySet DEF Begin
    <2>3. ASSUME op \in {"edit", "relation_archive", "relation_restore"}
          PROVE  r \in Linked /\ y.read \in LinkRows /\ on = y.read.ends
                 /\ y.read = link[r] /\ y.read.ver <= link[r].ver
      <3>1. r \in Linked /\ on = EndsOf(r)
        BY <2>3 DEF Begin
      <3>2. r # None /\ link[r] # None
        BY <3>1, IdsAssumption DEF Linked
      <3>3. y.read = link[r]
        BY <1>2, <3>2
      <3>4. y.read \in LinkRows
        BY <1>3, <3>2, <3>3
      <3>5. y.read.ver \in Nat
        BY <3>4 DEF LinkRows
      <3> QED
        BY <3>1, <3>3, <3>4, <3>5 DEF EndsOf
    <2>4. op \in {"merge", "decide", "report"} => \E s \in SuggestionIds : on = Pair[s]
      BY DEF Begin
    <2>5. op = "create" => r \in RelationIds
      BY DEF Begin
    <2>6. op = "merge" => b \in on
      BY DEF Begin
    <2> QED
      BY <1>2, <2>1, <2>2, <2>3, <2>4, <2>5, <2>6 DEF Subject
  <1>6. Covered(y)
    <2>1. Len(Statements(y)) \in Nat
      BY <1>2, <1>5, OrderOf
    <2> QED
      BY <1>2, <2>1 DEF Covered
  <1>7. TransactionOK(y)
    BY <1>2, <1>5, <1>6 DEF TransactionOK, Ordered, Aimed, Rechecks
  <1>8. tx' = [tx EXCEPT ![t] = y] /\ UNCHANGED tables
    BY <1>1 DEF Begin
  <1> QED
    BY <1>2, <1>4, <1>7, <1>8, OneMoves

LEMMA ExecuteLocks ==
    ASSUME LockInv, NEW t \in Transactions, Execute(t)
    PROVE  LockInv'
  <1>1. PICK x \in TransactionRows :
              /\ x = tx[t] /\ x.op \in Ops /\ x.on \subseteq Elements
              /\ Subject(x) /\ Covered(x) /\ Ordered(x) /\ Aimed(x)
              /\ x.checked => Finished(x) /\ Passes(x)
              /\ Len(Statements(x)) \in Nat
    BY RunningRow DEF Execute
  <1>2. PICK n \in Nat : n = x.step
    BY DEF TransactionRows
  <1>3. PICK s : s = Statements(x)[n + 1]
    OBVIOUS
  <1>4. x # Idle /\ x.wants = {} /\ n < Len(Statements(x))
    BY <1>1, <1>2 DEF Execute
  <1>5. n + 1 \in 1 .. Len(Statements(x))
    BY <1>1, <1>4
  <1>6. /\ s \subseteq Rows /\ \A w \in s : w[1] = Order(x.op)[n + 1]
        /\ x.op \notin {"scan", "merge"} /\ Order(x.op)[n + 1] = "element" => s = ElementLocks(x.on)
    BY <1>1, <1>3, <1>5, OrderOf
  <1>7. PICK y : y = [x EXCEPT !.step = n + 1, !.wants = s \ x.holds]
    OBVIOUS
  <1>8. /\ y.op = x.op /\ y.on = x.on /\ y.gone = x.gone /\ y.rel = x.rel /\ y.read = x.read
        /\ y.step = n + 1 /\ y.checked = x.checked /\ y.wants = s \ x.holds /\ y.holds = x.holds
    BY <1>7 DEF TransactionRows
  <1>9. y \in TransactionRows
    <2>1. n + 1 \in Nat
      OBVIOUS
    <2>2. s \ x.holds \in SUBSET Rows
      BY <1>6
    <2> QED
      BY <1>7, <2>1, <2>2 DEF TransactionRows
  <1>10. ~x.checked
    BY <1>1, <1>2, <1>4 DEF Finished
  <1>11. Subject(y) /\ Statements(y) = Statements(x)
    BY <1>1, <1>8, SameRequest
  <1>12. Covered(y)
    <2>1. \A k \in 1 .. n : Statements(x)[k] \subseteq x.holds
      BY <1>1, <1>2, <1>4 DEF Covered
    <2>2. \A k \in 1 .. n + 1 : Statements(y)[k] \subseteq
               y.holds \cup (IF k = y.step THEN y.wants ELSE {})
      <3> SUFFICES ASSUME NEW k \in 1 .. n + 1
                   PROVE  Statements(x)[k] \subseteq x.holds \cup (IF k = n + 1 THEN s \ x.holds ELSE {})
        BY <1>8, <1>11
      <3>1. CASE k = n + 1
        BY <1>3, <3>1
      <3>2. CASE k # n + 1
        BY <2>1, <3>2
      <3> QED
        BY <3>1, <3>2
    <2> QED
      BY <1>5, <1>8, <1>11, <2>2 DEF Covered
  <1>13. Ordered(y)
    <2>1. \A h \in x.holds : \E k \in 1 .. n : h[1] = Order(x.op)[k]
      BY <1>1, <1>2 DEF Ordered
    <2>2. \A k \in 1 .. n : k \in 1 .. n + 1 /\ k \in 1 .. Len(Statements(x)) /\ k # n + 1
      BY <1>1, <1>4
    <2>3. ~Rechecks(y) => \A k \in 1 .. n : Order(x.op)[k] # Order(x.op)[n + 1]
      <3> SUFFICES ASSUME ~(x.op = "merge" /\ n + 1 = 5), NEW k \in 1 .. n,
                          Order(x.op)[k] = Order(x.op)[n + 1]
                   PROVE  FALSE
        BY <1>8 DEF Rechecks
      <3>1. x.op = "merge" => Len(Statements(x)) = 5
        BY StatementsOf
      <3>2. ~(x.op = "merge" /\ (k = 5 \/ n + 1 = 5))
        <4>1. x.op = "merge" => n < 5 /\ n + 1 # 5
          BY <1>4, <3>1
        <4>2. x.op = "merge" => k # 5
          BY <4>1
        <4> QED
          BY <4>1, <4>2
      <3> QED
        BY <1>1, <1>5, <2>2, <3>2, OrderOf
    <2>4. \A w \in y.wants : w[1] = Order(x.op)[n + 1]
      BY <1>6, <1>8
    <2>5. ~Rechecks(y) => \A h \in y.holds, w \in y.wants : h[1] # w[1]
      BY <1>8, <2>1, <2>3, <2>4
    <2>6. \A h \in y.holds : \E k \in 1 .. y.step : h[1] = Order(y.op)[k]
      BY <1>8, <2>1, <2>2
    <2>7. \A w \in y.wants : y.step > 0 /\ w[1] = Order(y.op)[y.step]
      BY <1>8, <2>4
    <2> QED
      BY <2>5, <2>6, <2>7 DEF Ordered
  <1>14. Aimed(y)
    <2>1. ASSUME x.op \notin {"scan", "merge"}, NEW h \in y.holds \cup y.wants, h[1] = "element"
          PROVE  h[2] \in x.on
      <3>1. CASE h \in x.holds
        BY <1>1, <2>1, <3>1 DEF Aimed
      <3>2. CASE h \in s
        <4>1. h \in ElementLocks(x.on)
          BY <1>6, <2>1, <3>2
        <4> QED
          BY <4>1 DEF ElementLocks
      <3> QED
        BY <1>8, <2>1, <3>1, <3>2
    <2>2. ASSUME x.op = "archive", n + 1 > 1
          PROVE  \A e \in x.on : status[e] # "merged"
      <3>1. Len(Statements(x)) = 2
        BY <2>2, StatementsOf
      <3>2. n = 1
        BY <1>4, <2>2, <3>1
      <3> QED
        BY <1>1, <1>2, <2>2, <3>2 DEF Execute, Proceeds
    <2>3. ASSUME Rechecks(y), NEW w \in y.wants
          PROVE  w[2] \in Elements /\ status[w[2]] = "merged"
      <3>1. x.op = "merge" /\ n + 1 = 5 /\ x.gone \in x.on
        BY <1>1, <1>8, <2>3 DEF Rechecks, Subject
      <3>2. Statements(x) = <<Project, SuggestionLocks(x.on), ElementLocks(x.on),
                              RelationLocks(x.on), ElementLocks(Aliases(x.gone))>>
        BY <3>1, StatementsOf
      <3>3. s = ElementLocks(Aliases(x.gone))
        BY <1>3, <3>1, <3>2
      <3>4. PICK e \in Aliases(x.gone) : w = <<"element", e>>
        BY <1>8, <3>3 DEF ElementLocks
      <3>5. e \in Elements /\ into[e] # None
        BY <1>1, <3>1, IdsAssumption DEF Aliases
      <3> QED
        BY <3>4, <3>5 DEF LockInv, AliasesMerged
    <2> QED
      BY <1>8, <2>1, <2>2, <2>3 DEF Aimed
  <1>15. TransactionOK(y)
    BY <1>1, <1>8, <1>10, <1>11, <1>12, <1>13, <1>14 DEF TransactionOK
  <1>16. tx' = [tx EXCEPT ![t] = y] /\ UNCHANGED tables
    BY <1>1, <1>2, <1>3, <1>7 DEF Execute
  <1>17. \A u \in Transactions \ {t} : y.holds \cap tx[u].holds \subseteq Share
    BY <1>1, <1>8 DEF LockInv, Exclusive
  <1> QED
    BY <1>9, <1>15, <1>16, <1>17, OneMoves

LEMMA LockLocks ==
    ASSUME LockInv, NEW t \in Transactions, Lock(t)
    PROVE  LockInv'
  <1>1. PICK x \in TransactionRows :
              /\ x = tx[t] /\ x.op \in Ops /\ x.on \subseteq Elements
              /\ Subject(x) /\ Covered(x) /\ Ordered(x) /\ Aimed(x)
              /\ x.checked => Finished(x) /\ Passes(x)
              /\ Len(Statements(x)) \in Nat
    BY RunningRow DEF Lock, Idle
  <1>2. PICK n : n = NextRow(t)
    OBVIOUS
  <1>3. /\ n \in x.wants /\ n \in Rows
        /\ \A v \in x.wants : v[1] = n[1] /\ v # n => n[2] < v[2]
    <2>1. x.wants \subseteq Rows
      BY DEF TransactionRows
    <2> QED
      BY <1>1, <1>2, <2>1, NextRowIs DEF Lock
  <1>4. PICK y : y = [x EXCEPT !.wants = x.wants \ {n}, !.holds = x.holds \cup {n}]
    OBVIOUS
  <1>5. /\ y.op = x.op /\ y.on = x.on /\ y.gone = x.gone /\ y.rel = x.rel /\ y.read = x.read
        /\ y.step = x.step /\ y.checked = x.checked
        /\ y.wants = x.wants \ {n} /\ y.holds = x.holds \cup {n}
    BY <1>4 DEF TransactionRows
  <1>6. y \in TransactionRows
    BY <1>3, <1>4 DEF TransactionRows
  <1>7. ~x.checked
    BY <1>1, <1>3 DEF Finished
  <1>8. Subject(y) /\ Statements(y) = Statements(x)
    BY <1>1, <1>5, SameRequest
  <1>9. Covered(y)
    BY <1>1, <1>3, <1>5, <1>8 DEF Covered
  <1>10. Ordered(y)
    <2>1. PICK k \in Nat : k = x.step /\ k > 0 /\ n[1] = Order(x.op)[k]
      BY <1>1, <1>3 DEF Ordered, TransactionRows
    <2>2. k \in 1 .. k
      BY <2>1
    <2>3. \A h \in y.holds : \E j \in 1 .. y.step : h[1] = Order(y.op)[j]
      BY <1>1, <1>5, <2>1, <2>2 DEF Ordered
    <2>4. ~Rechecks(y) => \A h \in y.holds, w \in y.wants : h[1] = w[1] => h[2] < w[2]
      BY <1>1, <1>3, <1>5 DEF Ordered, Rechecks
    <2> QED
      BY <1>1, <1>5, <2>3, <2>4 DEF Ordered
  <1>11. Aimed(y)
    BY <1>1, <1>3, <1>5 DEF Aimed, Rechecks
  <1>12. TransactionOK(y)
    BY <1>1, <1>5, <1>7, <1>8, <1>9, <1>10, <1>11 DEF TransactionOK
  <1>13. tx' = [tx EXCEPT ![t] = y] /\ UNCHANGED tables
    BY <1>1, <1>2, <1>4 DEF Lock
  <1>14. \A u \in Transactions \ {t} : n \notin tx[u].holds \/ n \in Share
    BY <1>2 DEF Lock, Blockers, Against
  <1>15. \A u \in Transactions \ {t} : y.holds \cap tx[u].holds \subseteq Share
    BY <1>1, <1>5, <1>14 DEF LockInv, Exclusive
  <1> QED
    BY <1>6, <1>12, <1>13, <1>15, OneMoves

LEMMA CheckLocks ==
    ASSUME LockInv, NEW t \in Transactions, Check(t)
    PROVE  LockInv'
  <1>1. PICK x \in TransactionRows :
              /\ x = tx[t] /\ x.op \in Ops /\ x.on \subseteq Elements
              /\ Subject(x) /\ Covered(x) /\ Ordered(x) /\ Aimed(x)
              /\ x.checked => Finished(x) /\ Passes(x)
              /\ Len(Statements(x)) \in Nat
    BY RunningRow DEF Check
  <1>2. PICK y : y = [x EXCEPT !.checked = TRUE]
    OBVIOUS
  <1>3. /\ y.op = x.op /\ y.on = x.on /\ y.gone = x.gone /\ y.rel = x.rel /\ y.read = x.read
        /\ y.step = x.step /\ y.wants = x.wants /\ y.holds = x.holds
    BY <1>2 DEF TransactionRows
  <1>4. y \in TransactionRows
    BY <1>2 DEF TransactionRows
  <1>5. Subject(y) /\ Statements(y) = Statements(x) /\ Passes(y)
    BY <1>1, <1>3, SameRequest DEF Check
  <1>6. Covered(y) /\ Ordered(y) /\ Aimed(y) /\ Finished(y)
    BY <1>1, <1>3, <1>5 DEF Covered, Ordered, Aimed, Rechecks, Finished, Check
  <1>7. TransactionOK(y)
    BY <1>1, <1>3, <1>5, <1>6 DEF TransactionOK
  <1>8. tx' = [tx EXCEPT ![t] = y] /\ UNCHANGED tables
    BY <1>1, <1>2 DEF Check
  <1>9. \A u \in Transactions \ {t} : y.holds \cap tx[u].holds \subseteq Share
    BY <1>1, <1>3 DEF LockInv, Exclusive
  <1> QED
    BY <1>4, <1>7, <1>8, <1>9, OneMoves

LEMMA RollbackLocks ==
    ASSUME LockInv, NEW t \in Transactions, Rollback(t)
    PROVE  LockInv'
  <1>1. tx' = [tx EXCEPT ![t] = Idle] /\ UNCHANGED tables
    BY DEF Rollback
  <1>2. \A u \in Transactions \ {t} : Idle.holds \cap tx[u].holds \subseteq Share
    BY IdleRow
  <1> QED
    BY <1>1, <1>2, IdleRow, OneMoves

\* What a commit writes lies under the locks of its transaction: elements and
\* relations that change, what an element is merged into, and the ends a relation
\* gains.  What is merged stays so.
Guarded(x) ==
    /\ \A e \in Elements :
          /\ status'[e] # status[e] => <<"element", e>> \in x.holds
          /\ status[e] = "merged" => status'[e] = "merged"
          /\ into'[e] # into[e] => {<<"element", e>>, <<"element", into'[e]>>} \subseteq x.holds
    /\ \A r \in Linked :
          /\ r \in Linked'
          /\ link'[r] # link[r] => <<"relation", r>> \in x.holds /\ link[r].ver < link'[r].ver
          /\ EndsOf(r)' # EndsOf(r) => \E a \in EndsOf(r)' : <<"element", a>> \in x.holds
    /\ \A r \in Linked' : \A e \in EndsOf(r)' :
          (r \in Linked /\ e \in EndsOf(r)) \/ <<"element", e>> \in x.holds

\* What a commit leaves of the tables.
Written(x) ==
    /\ status' \in [Elements -> {"active", "archived", "merged"}]
    /\ into' \in [Elements -> Elements \cup {None}]
    /\ link' \in [RelationIds -> LinkRows \cup {None}]
    /\ Guarded(x) /\ ActiveEnds' /\ AliasesMerged'

\* A transaction that has run its statements holds the rows they name.
LEMMA Secured ==
    ASSUME NEW x \in TransactionRows, x.op \in Ops, Covered(x), Finished(x)
    PROVE  /\ x.op \notin {"edit", "scan"} => ElementLocks(x.on) \subseteq x.holds
           /\ x.op \in {"archive", "merge"} => RelationLocks(x.on) \subseteq x.holds
           /\ x.op \in {"edit", "relation_archive", "relation_restore"} =>
                 <<"relation", x.rel>> \in x.holds
  <1>1. PICK n \in Nat : n = x.step
    BY DEF TransactionRows
  <1>2. n = Len(Statements(x)) /\ \A k \in 1 .. n : Statements(x)[k] \subseteq x.holds
    BY <1>1 DEF Covered, Finished
  <1>3. CASE x.op = "archive"
    <2>1. Statements(x) = <<ElementLocks(x.on), RelationLocks(x.on)>>
      BY <1>3, StatementsOf
    <2>2. 1 \in 1 .. n /\ 2 \in 1 .. n
      BY <1>2, <2>1
    <2> QED
      BY <1>2, <1>3, <2>1, <2>2
  <1>4. CASE x.op = "restore"
    <2>1. Statements(x) = <<ElementLocks(x.on)>>
      BY <1>4, StatementsOf
    <2>2. 1 \in 1 .. n
      BY <1>2, <2>1
    <2> QED
      BY <1>2, <1>4, <2>1, <2>2
  <1>5. CASE x.op = "create"
    <2>1. Statements(x) = <<ElementLocks(x.on), SameEnds(x.on), Share>>
      BY <1>5, StatementsOf
    <2>2. 1 \in 1 .. n
      BY <1>2, <2>1
    <2> QED
      BY <1>2, <1>5, <2>1, <2>2
  <1>6. CASE x.op = "edit"
    <2>1. Statements(x) = <<{<<"relation", x.rel>>}>>
      BY <1>6, StatementsOf
    <2>2. 1 \in 1 .. n
      BY <1>2, <2>1
    <2> QED
      BY <1>2, <1>6, <2>1, <2>2
  <1>7. CASE x.op \in {"relation_archive", "relation_restore"}
    <2>1. Statements(x) = <<ElementLocks(x.on), {<<"relation", x.rel>>}>>
      BY <1>7, StatementsOf
    <2>2. 1 \in 1 .. n /\ 2 \in 1 .. n
      BY <1>2, <2>1
    <2> QED
      BY <1>2, <1>7, <2>1, <2>2
  <1>8. CASE x.op = "merge"
    <2>1. Statements(x) = <<Project, SuggestionLocks(x.on), ElementLocks(x.on), RelationLocks(x.on), ElementLocks(Aliases(x.gone))>>
      BY <1>8, StatementsOf
    <2>2. 3 \in 1 .. n /\ 4 \in 1 .. n
      BY <1>2, <2>1
    <2> QED
      BY <1>2, <1>8, <2>1, <2>2
  <1>9. CASE x.op = "decide"
    <2>1. Statements(x) = <<SuggestionLocks(x.on), ElementLocks(x.on), Share>>
      BY <1>9, StatementsOf
    <2>2. 2 \in 1 .. n
      BY <1>2, <2>1
    <2> QED
      BY <1>2, <1>9, <2>1, <2>2
  <1>10. CASE x.op = "report"
    <2>1. Statements(x) = <<Project, ElementLocks(x.on), SuggestionLocks(x.on)>>
      BY <1>10, StatementsOf
    <2>2. 2 \in 1 .. n
      BY <1>2, <2>1
    <2> QED
      BY <1>2, <1>10, <2>1, <2>2
  <1>11. CASE x.op = "scan"
    BY <1>11
  <1> QED
    BY <1>3, <1>4, <1>5, <1>6, <1>7, <1>8, <1>9, <1>10, <1>11 DEF Ops


\* A row of element_relations.
LEMMA LinkRow ==
    ASSUME LockTypeOK, NEW r \in Linked
    PROVE  /\ r \in RelationIds /\ link[r] \in LinkRows /\ EndsOf(r) = link[r].ends
           /\ EndsOf(r) \subseteq Elements /\ link[r].ver \in Nat
           /\ link[r].status \in {"active", "archived"}
  <1>1. link[r] \in LinkRows
    BY DEF LockTypeOK, Linked
  <1> QED
    BY <1>1 DEF Linked, EndsOf, LinkRows

\* What each write does to the rows: it keeps their types, stays under the
\* locks, and leaves active relations between active elements.
LEMMA ElementsWritten ==
    ASSUME LockTypeOK, ActiveEnds, AliasesMerged, NEW x \in TransactionRows, x.op \in Ops,
           Covered(x), Finished(x), Passes(x), WriteElements(x)
    PROVE  Written(x)
  <1>1. x.op \in {"archive", "restore"} /\ link' = link /\ into' = into
    BY DEF WriteElements
  <1>2. Linked' = Linked /\ \A r \in Linked : EndsOf(r)' = EndsOf(r) /\ link'[r] = link[r]
    BY <1>1 DEF Linked, EndsOf
  <1>3. \A e \in Elements : status'[e] =
            IF e \notin x.on THEN status[e] ELSE IF x.op = "archive" THEN "archived" ELSE "active"
    BY DEF WriteElements
  <1>4. \A e \in x.on : <<"element", e>> \in x.holds
    BY <1>1, Secured DEF ElementLocks
  <1>5. Guarded(x)
    <2>1. \A e \in Elements : status[e] = "merged" => status'[e] = "merged"
      BY <1>1, <1>3 DEF Passes
    <2> QED
      BY <1>1, <1>2, <1>3, <1>4, <2>1 DEF Guarded
  <1>6. ActiveEnds'
    <2> SUFFICES ASSUME NEW r \in Linked, link[r].status = "active", NEW e \in EndsOf(r)
                 PROVE  status'[e] = "active"
      BY <1>2 DEF ActiveEnds
    <2>1. e \in Elements /\ status[e] = "active"
      BY LinkRow DEF ActiveEnds
    <2>2. x.op = "archive" => e \notin x.on
      BY DEF Passes
    <2> QED
      BY <1>1, <1>3, <2>1, <2>2
  <1>7. status' \in [Elements -> {"active", "archived", "merged"}]
    BY DEF WriteElements, LockTypeOK
  <1>8. AliasesMerged'
    BY <1>1, <1>5 DEF AliasesMerged, Guarded
  <1> QED
    BY <1>1, <1>5, <1>6, <1>7, <1>8 DEF LockTypeOK, Written

LEMMA RelationInserted ==
    ASSUME LockTypeOK, ActiveEnds, AliasesMerged, NEW x \in TransactionRows, x.op \in Ops, Subject(x),
           x.on \subseteq Elements,
           Covered(x), Finished(x), Passes(x), InsertRelation(x)
    PROVE  Written(x)
  <1>1. x.op = "create" /\ status' = status /\ into' = into /\ x.rel \in RelationIds /\ link[x.rel] = None
    BY DEF InsertRelation, Subject
  <1>2. PICK row : row = [ends |-> x.on, status |-> "active", ver |-> 1]
    OBVIOUS
  <1>3. row \in LinkRows /\ row # None /\ row.ends = x.on
    BY <1>2, LocksAssumption DEF LinkRows
  <1>4. \A r \in RelationIds : link'[r] = IF r = x.rel THEN row ELSE link[r]
    BY <1>1, <1>2 DEF InsertRelation, LockTypeOK
  <1>5. Linked' = Linked \cup {x.rel} /\ x.rel \notin Linked
    BY <1>1, <1>3, <1>4 DEF Linked
  <1>6. \A r \in Linked : link'[r] = link[r] /\ EndsOf(r)' = EndsOf(r)
    BY <1>4, <1>5 DEF Linked, EndsOf
  <1>7. EndsOf(x.rel)' = x.on
    BY <1>1, <1>3, <1>4 DEF EndsOf
  <1>8. \A e \in x.on : <<"element", e>> \in x.holds
    BY <1>1, Secured DEF ElementLocks
  <1>9. Guarded(x)
    BY <1>1, <1>5, <1>6, <1>7, <1>8 DEF Guarded
  <1>10. ActiveEnds'
    <2>1. \A e \in x.on : status[e] = "active"
      BY <1>1 DEF Passes
    <2> QED
      BY <1>1, <1>5, <1>6, <1>7, <2>1 DEF ActiveEnds
  <1>11. link' \in [RelationIds -> LinkRows \cup {None}]
    BY <1>1, <1>2, <1>3 DEF InsertRelation, LockTypeOK
  <1> QED
    BY <1>1, <1>9, <1>10, <1>11 DEF LockTypeOK, Written, AliasesMerged

LEMMA RelationWritten ==
    ASSUME LockTypeOK, ActiveEnds, AliasesMerged, NEW x \in TransactionRows, x.op \in Ops, Subject(x),
           Covered(x), Finished(x), Passes(x), WriteRelation(x)
    PROVE  Written(x)
  <1>1. /\ x.op \in {"edit", "relation_archive", "relation_restore"} /\ status' = status /\ into' = into
        /\ x.rel \in Linked /\ x.rel \in RelationIds
    BY DEF WriteRelation, Subject, Linked
  <1>2. PICK row \in LinkRows : row = link[x.rel]
    BY <1>1, LinkRow
  <1>3. PICK n \in Nat : n = row.ver
    BY DEF LinkRows
  <1>4. PICK s \in {"active", "archived"} :
            s = CASE x.op = "relation_archive" -> "archived"
                  [] x.op = "relation_restore" -> "active"
                  [] OTHER -> row.status
    BY DEF LinkRows
  <1>5. PICK new : new = [row EXCEPT !.ver = n + 1, !.status = s]
    OBVIOUS
  <1>6. /\ new \in LinkRows /\ new # None /\ new.ends = row.ends
        /\ new.status = s /\ new.ver = n + 1
    <2>1. n + 1 \in Nat
      OBVIOUS
    <2>2. new \in LinkRows /\ new.ends = row.ends /\ new.status = s /\ new.ver = n + 1
      BY <1>5, <2>1 DEF LinkRows
    <2> QED
      BY <2>2, LocksAssumption
  <1>7. link' = [link EXCEPT ![x.rel] = new]
    <2>1. link' = [link EXCEPT ![x.rel].ver = n + 1, ![x.rel].status = s]
      BY <1>1, <1>2, <1>3, <1>4 DEF WriteRelation, LockTypeOK
    <2> QED
      BY <1>1, <1>2, <1>5, <2>1 DEF LockTypeOK
  <1>8. \A r \in RelationIds : link'[r] = IF r = x.rel THEN new ELSE link[r]
    BY <1>7 DEF LockTypeOK
  <1>9. Linked' = Linked
    BY <1>1, <1>6, <1>8 DEF Linked
  <1>10. \A r \in Linked : EndsOf(r)' = EndsOf(r)
    BY <1>2, <1>6, <1>8 DEF EndsOf, Linked
  <1>11. <<"relation", x.rel>> \in x.holds
    BY <1>1, Secured
  <1>12. Guarded(x)
    <2>1. ASSUME NEW r \in Linked, link'[r] # link[r]
          PROVE  <<"relation", r>> \in x.holds /\ link[r].ver < link'[r].ver
      <3>1. r = x.rel /\ link'[r] = new
        BY <1>8, <2>1 DEF Linked
      <3> QED
        BY <1>2, <1>3, <1>6, <1>11, <3>1
    <2> QED
      BY <1>1, <1>9, <1>10, <2>1 DEF Guarded
  <1>13. ActiveEnds'
    <2> SUFFICES ASSUME NEW r \in Linked, link'[r].status = "active", NEW e \in EndsOf(r)
                 PROVE  status[e] = "active"
      BY <1>1, <1>9, <1>10 DEF ActiveEnds
    <2>1. CASE r # x.rel
      BY <1>8, <2>1 DEF ActiveEnds, Linked
    <2>2. CASE r = x.rel /\ x.op = "relation_restore"
      <3>1. x.read.ver = link[x.rel].ver
        BY <2>2 DEF Passes, Claimable
      <3>2. x.on = EndsOf(r)
        BY <2>2, <3>1 DEF Subject, EndsOf
      <3> QED
        BY <2>2, <3>2 DEF Passes
    <2>3. CASE r = x.rel /\ x.op # "relation_restore"
      <3>1. new.status = "active"
        BY <1>1, <1>8, <2>3
      <3>2. row.status = "active"
        BY <1>1, <1>4, <1>6, <2>3, <3>1
      <3> QED
        BY <1>2, <2>3, <3>2 DEF ActiveEnds
    <2> QED
      BY <2>1, <2>2, <2>3
  <1>14. link' \in [RelationIds -> LinkRows \cup {None}]
    BY <1>6, <1>7 DEF LockTypeOK
  <1> QED
    BY <1>1, <1>12, <1>13, <1>14 DEF LockTypeOK, Written, AliasesMerged

LEMMA MergeWritten ==
    ASSUME LockTypeOK, ActiveEnds, AliasesMerged, NEW x \in TransactionRows, x.op \in Ops,
           x.on \subseteq Elements, Subject(x),
           Covered(x), Finished(x), WriteMerge(x)
    PROVE  Written(x)
  <1>1. PICK a \in x.on, b \in x.on :
            /\ CanMerge(a, b)
            /\ status' = [status EXCEPT ![b] = "merged"]
            /\ into' = [into EXCEPT ![b] = a]
            /\ link' = [r \in RelationIds |->
                    IF r \notin Linked \/ b \notin EndsOf(r) THEN link[r]
                    ELSE IF Cardinality(Moved(r, a, b)) = 2 /\ There(r, a, b) = {}
                    THEN [link[r] EXCEPT !.ends = Moved(r, a, b), !.ver = @ + 1]
                    ELSE [link[r] EXCEPT !.status = "archived", !.ver = @ + 1]]
    BY DEF WriteMerge, Subject
  <1>2. a \in Elements /\ b \in Elements /\ a # b /\ status[a] = "active" /\ status[b] = "active"
    BY <1>1 DEF CanMerge
  <1>3. /\ <<"element", a>> \in x.holds /\ <<"element", b>> \in x.holds
        /\ \A r \in Linked : b \in EndsOf(r) => <<"relation", r>> \in x.holds
    <2>1. x.op = "merge"
      BY DEF WriteMerge
    <2> QED
      BY <2>1, Secured DEF ElementLocks, RelationLocks
  <1>4. \A e \in Elements : /\ status'[e] = IF e = b THEN "merged" ELSE status[e]
                            /\ into'[e] = IF e = b THEN a ELSE into[e]
    BY <1>1 DEF LockTypeOK
  \* A relation of b: moved to a, or archived.
  <1>5. ASSUME NEW r \in Linked, b \in EndsOf(r)
        PROVE  /\ link'[r] \in LinkRows /\ link[r].ver < link'[r].ver
               /\ \/ link'[r].ends = Moved(r, a, b) /\ link'[r].status = link[r].status
                  \/ link'[r].ends = EndsOf(r) /\ link'[r].status = "archived"
    <2>1. PICK row \in LinkRows : row = link[r] /\ row.ends = EndsOf(r)
      BY LinkRow
    <2>2. PICK n \in Nat : n = row.ver
      BY DEF LinkRows
    <2>3. n + 1 \in Nat /\ n < n + 1 /\ Moved(r, a, b) \in SUBSET Elements
      BY <1>2, LinkRow DEF Moved
    <2>4. link'[r] = IF Cardinality(Moved(r, a, b)) = 2 /\ There(r, a, b) = {}
                     THEN [link[r] EXCEPT !.ends = Moved(r, a, b), !.ver = @ + 1]
                     ELSE [link[r] EXCEPT !.status = "archived", !.ver = @ + 1]
      BY <1>1, <1>5 DEF Linked
    <2>5. CASE link'[r] = [link[r] EXCEPT !.ends = Moved(r, a, b), !.ver = @ + 1]
      <3>1. PICK m \in SUBSET Elements : m = Moved(r, a, b)
        BY <2>3
      <3>2. link'[r] = [row EXCEPT !.ends = m, !.ver = n + 1]
        BY <2>1, <2>2, <2>5, <3>1
      <3>3. /\ link'[r] \in LinkRows /\ link'[r].ends = m
            /\ link'[r].ver = n + 1 /\ link'[r].status = row.status
        BY <2>3, <3>2 DEF LinkRows
      <3> QED
        BY <2>1, <2>2, <2>3, <3>1, <3>3
    <2>6. CASE link'[r] = [link[r] EXCEPT !.status = "archived", !.ver = @ + 1]
      <3>1. link'[r] = [row EXCEPT !.status = "archived", !.ver = n + 1]
        BY <2>1, <2>2, <2>6
      <3>2. /\ link'[r] \in LinkRows /\ link'[r].ends = row.ends
            /\ link'[r].ver = n + 1 /\ link'[r].status = "archived"
        BY <2>3, <3>1 DEF LinkRows
      <3> QED
        BY <2>1, <2>2, <2>3, <3>2
    <2> QED
      BY <2>4, <2>5, <2>6
  <1>6. \A r \in RelationIds : r \notin Linked \/ b \notin EndsOf(r) => link'[r] = link[r]
    BY <1>1
  <1>7. Linked' = Linked
    <2>1. \A r \in RelationIds : link'[r] # None <=> link[r] # None
      BY <1>5, <1>6, LocksAssumption DEF Linked
    <2> QED
      BY <2>1 DEF Linked
  <1>8. \A r \in Linked : EndsOf(r)' = EndsOf(r) \/ (b \in EndsOf(r) /\ EndsOf(r)' = Moved(r, a, b))
    BY <1>5, <1>6 DEF EndsOf, Linked
  <1>9. \A r \in Linked : b \in EndsOf(r) =>
            /\ a \in Moved(r, a, b)
            /\ \A e \in Moved(r, a, b) : e = a \/ (e \in EndsOf(r) /\ e # b)
    BY DEF Moved
  <1>10. Guarded(x)
    <2>1. \A e \in Elements :
              /\ status'[e] # status[e] => <<"element", e>> \in x.holds
              /\ status[e] = "merged" => status'[e] = "merged"
              /\ into'[e] # into[e] => {<<"element", e>>, <<"element", into'[e]>>} \subseteq x.holds
      BY <1>3, <1>4
    <2>2. ASSUME NEW r \in Linked
          PROVE  /\ r \in Linked'
                 /\ link'[r] # link[r] => <<"relation", r>> \in x.holds /\ link[r].ver < link'[r].ver
                 /\ EndsOf(r)' # EndsOf(r) => \E d \in EndsOf(r)' : <<"element", d>> \in x.holds
      <3>1. link'[r] # link[r] => b \in EndsOf(r)
        BY <1>6 DEF Linked
      <3>2. EndsOf(r)' # EndsOf(r) => a \in EndsOf(r)'
        BY <1>8, <1>9
      <3> QED
        BY <1>3, <1>5, <1>7, <3>1, <3>2
    <2>3. \A r \in Linked' : \A e \in EndsOf(r)' :
              (r \in Linked /\ e \in EndsOf(r)) \/ <<"element", e>> \in x.holds
      BY <1>3, <1>7, <1>8, <1>9
    <2> QED
      BY <2>1, <2>2, <2>3 DEF Guarded
  <1>11. ActiveEnds'
    <2> SUFFICES ASSUME NEW r \in Linked, link'[r].status = "active", NEW e \in EndsOf(r)'
                 PROVE  status'[e] = "active"
      BY <1>7 DEF ActiveEnds
    <2>1. EndsOf(r)' = link'[r].ends
      BY DEF EndsOf
    <2>2. CASE b \in EndsOf(r)
      <3>1. link'[r].ends = Moved(r, a, b) /\ link[r].status = "active"
        BY <1>5, <2>2
      <3>2. \A d \in EndsOf(r) : d \in Elements /\ status[d] = "active"
        BY <3>1, LinkRow DEF ActiveEnds
      <3>3. e \in Elements /\ e # b /\ status[e] = "active"
        BY <1>2, <1>9, <2>1, <2>2, <3>1, <3>2
      <3> QED
        BY <1>4, <3>3
    <2>3. CASE b \notin EndsOf(r)
      <3>1. link'[r] = link[r]
        BY <1>6, <2>3 DEF Linked
      <3>2. e \in EndsOf(r) /\ e \in Elements /\ e # b /\ status[e] = "active"
        BY <2>1, <2>3, <3>1, LinkRow DEF ActiveEnds
      <3> QED
        BY <1>4, <3>2
    <2> QED
      BY <2>2, <2>3
  <1>12. status' \in [Elements -> {"active", "archived", "merged"}]
    BY <1>1 DEF LockTypeOK
  <1>13. link' \in [RelationIds -> LinkRows \cup {None}]
    <2>1. \A r \in RelationIds : link'[r] \in LinkRows \cup {None}
      BY <1>5, <1>6 DEF LockTypeOK
    <2>2. \E f : link' = [r \in RelationIds |-> f[r]]
      <3>1. link' = [r \in RelationIds |-> link'[r]]
        BY <1>1
      <3> QED
        BY <3>1
    <2> QED
      BY <2>1, <2>2
  <1>14. into' \in [Elements -> Elements \cup {None}] /\ AliasesMerged'
    BY <1>1, <1>2, <1>4 DEF LockTypeOK, AliasesMerged
  <1> QED
    BY <1>10, <1>11, <1>12, <1>13, <1>14 DEF Written

\* What a commit leaves of the rows that another transaction y has locked.
LEMMA Untouched ==
    ASSUME NEW x, NEW y, Guarded(x), y.holds \cap x.holds \subseteq Share
    PROVE  /\ \A e \in Elements : <<"element", e>> \in y.holds => status'[e] = status[e]
           /\ \A e \in Elements : <<"element", into'[e]>> \in y.holds => into'[e] = into[e]
           /\ \A r \in Linked : <<"relation", r>> \in y.holds => link'[r] = link[r]
           /\ \A r \in Linked' : \A e \in EndsOf(r)' :
                 <<"element", e>> \in y.holds => r \in Linked /\ e \in EndsOf(r)
           /\ \A r \in Linked : (\A e \in EndsOf(r)' : <<"element", e>> \in y.holds)
                                    => EndsOf(r)' = EndsOf(r)
  <1>1. \A c, i : c \in {"element", "relation"} => <<c, i>> \notin Share
    BY DEF Share
  <1>2. \A c, i : c \in {"element", "relation"} => ~(<<c, i>> \in y.holds /\ <<c, i>> \in x.holds)
    BY <1>1
  <1>3. \A i : ~(<<"element", i>> \in y.holds /\ <<"element", i>> \in x.holds)
    BY <1>2
  <1>4. \A i : ~(<<"relation", i>> \in y.holds /\ <<"relation", i>> \in x.holds)
    BY <1>2
  <1>5. \A e \in Elements : <<"element", e>> \in y.holds => status'[e] = status[e]
    BY <1>3 DEF Guarded
  <1>6. \A e \in Elements : <<"element", into'[e]>> \in y.holds => into'[e] = into[e]
    BY <1>3 DEF Guarded
  <1>7. \A r \in Linked : <<"relation", r>> \in y.holds => link'[r] = link[r]
    BY <1>4 DEF Guarded
  <1>8. \A r \in Linked' : \A e \in EndsOf(r)' :
            <<"element", e>> \in y.holds => r \in Linked /\ e \in EndsOf(r)
    BY <1>3 DEF Guarded
  <1>9. ASSUME NEW r \in Linked, \A e \in EndsOf(r)' : <<"element", e>> \in y.holds
        PROVE  EndsOf(r)' = EndsOf(r)
    BY <1>3, <1>9 DEF Guarded
  <1> QED
    BY <1>5, <1>6, <1>7, <1>8, <1>9

\* The rows that a request has locked are those it would lock now.
LEMMA CoverStays ==
    ASSUME LockTypeOK, NEW x, NEW y \in TransactionRows, Guarded(x), y.holds \cap x.holds \subseteq Share,
           y.op \in Ops, Subject(y), Covered(y)
    PROVE  Covered(y)' /\ Len(Statements(y))' = Len(Statements(y))
  <1>1. PICK n \in Nat : n = y.step
    BY DEF TransactionRows
  <1>2. ElementLocks(y.on)' = ElementLocks(y.on) /\ SuggestionLocks(y.on)' = SuggestionLocks(y.on)
    BY DEF ElementLocks, SuggestionLocks
  <1>3. ElementLocks(y.on) \subseteq y.holds => RelationLocks(y.on)' \subseteq RelationLocks(y.on)
    BY Untouched DEF ElementLocks, RelationLocks
  <1>4. ElementLocks(y.on) \subseteq y.holds /\ y.op = "create" => SameEnds(y.on)' \subseteq SameEnds(y.on)
    <2> SUFFICES ASSUME ElementLocks(y.on) \subseteq y.holds, y.op = "create",
                        NEW r \in Linked', EndsOf(r)' = y.on
                 PROVE  r \in Linked /\ EndsOf(r) = y.on
      BY DEF SameEnds
    <2>1. \A e \in y.on : <<"element", e>> \in y.holds
      BY DEF ElementLocks
    <2>2. PICK e \in y.on : TRUE
      BY DEF Subject
    <2>3. r \in Linked
      BY <2>1, <2>2, Untouched
    <2> QED
      BY <2>1, <2>3, Untouched
  <1>5. ElementLocks(y.on) \subseteq y.holds /\ y.op = "merge" =>
            ElementLocks(Aliases(y.gone))' \subseteq ElementLocks(Aliases(y.gone))
    <2> SUFFICES ASSUME ElementLocks(y.on) \subseteq y.holds, y.op = "merge",
                        NEW e \in Elements, into'[e] = y.gone
                 PROVE  into[e] = y.gone
      BY DEF ElementLocks, Aliases
    <2>1. <<"element", y.gone>> \in y.holds
      BY DEF ElementLocks, Subject
    <2> QED
      BY <2>1, Untouched
  <1>6. ElementLocks(Present)' \subseteq ElementLocks(Present)
    BY DEF ElementLocks, Present, Guarded
  <1>7. ASSUME Len(Statements(y))' = Len(Statements(y)),
               \A k \in 1 .. n : Statements(y)'[k] \subseteq Statements(y)[k]
        PROVE  Covered(y)' /\ Len(Statements(y))' = Len(Statements(y))
    BY <1>1, <1>7 DEF Covered
  <1>8. CASE y.op \in {"restore", "edit", "relation_archive", "relation_restore", "decide", "report"}
    <2>1. Statements(y)' = Statements(y)
      BY <1>2, <1>8 DEF Statements, EndsOfNew, EndsFirst, Project, Share
    <2> QED
      BY <1>7, <2>1
  <1>9. CASE y.op = "archive"
    <2>1. /\ Statements(y) = <<ElementLocks(y.on), RelationLocks(y.on)>>
          /\ Statements(y)' = <<ElementLocks(y.on), RelationLocks(y.on)'>>
      BY <1>2, <1>9 DEF Statements, EndsOfNew, Project, Share
    <2>2. n <= 2 /\ \A k \in 1 .. n : k = 1 \/ k = 2
      BY <1>1, <2>1 DEF Covered
    <2>3. n > 1 => ElementLocks(y.on) \subseteq y.holds
      <3>1. n > 1 => 1 \in 1 .. n /\ 1 # n
        OBVIOUS
      <3> QED
        BY <1>1, <2>1, <3>1 DEF Covered
    <2>4. \A k \in 1 .. n : Statements(y)'[k] \subseteq Statements(y)[k]
      <3> SUFFICES ASSUME NEW k \in 1 .. n PROVE Statements(y)'[k] \subseteq Statements(y)[k]
        OBVIOUS
      <3>1. CASE k = 1
        BY <2>1, <3>1
      <3>2. CASE k = 2
        BY <2>1, <3>2, <1>9, <1>3, <2>3
      <3> QED
        BY <2>2, <3>1, <3>2
    <2>5. Len(Statements(y))' = Len(Statements(y))
      BY <2>1
    <2> QED
      BY <1>7, <2>4, <2>5
  <1>10. CASE y.op = "create"
    <2>1. /\ Statements(y) = <<ElementLocks(y.on), SameEnds(y.on), Share>>
          /\ Statements(y)' = <<ElementLocks(y.on), SameEnds(y.on)', Share>>
      BY <1>2, <1>10 DEF Statements, EndsOfNew, Project, Share
    <2>2. n <= 3 /\ \A k \in 1 .. n : k = 1 \/ k = 2 \/ k = 3
      BY <1>1, <2>1 DEF Covered
    <2>3. n > 1 => ElementLocks(y.on) \subseteq y.holds
      <3>1. n > 1 => 1 \in 1 .. n /\ 1 # n
        OBVIOUS
      <3> QED
        BY <1>1, <2>1, <3>1 DEF Covered
    <2>4. \A k \in 1 .. n : Statements(y)'[k] \subseteq Statements(y)[k]
      <3> SUFFICES ASSUME NEW k \in 1 .. n PROVE Statements(y)'[k] \subseteq Statements(y)[k]
        OBVIOUS
      <3>1. CASE k = 1
        BY <2>1, <3>1
      <3>2. CASE k = 2
        BY <2>1, <3>2, <1>10, <1>4, <2>3
      <3>3. CASE k = 3
        BY <2>1, <3>3
      <3> QED
        BY <2>2, <3>1, <3>2, <3>3
    <2>5. Len(Statements(y))' = Len(Statements(y))
      BY <2>1
    <2> QED
      BY <1>7, <2>4, <2>5
  <1>11. CASE y.op = "merge"
    <2>1. /\ Statements(y) = <<Project, SuggestionLocks(y.on), ElementLocks(y.on), RelationLocks(y.on), ElementLocks(Aliases(y.gone))>>
          /\ Statements(y)' = <<Project, SuggestionLocks(y.on), ElementLocks(y.on), RelationLocks(y.on)', ElementLocks(Aliases(y.gone))'>>
      BY <1>2, <1>11 DEF Statements, EndsOfNew, Project, Share
    <2>2. n <= 5 /\ \A k \in 1 .. n : k = 1 \/ k = 2 \/ k = 3 \/ k = 4 \/ k = 5
      BY <1>1, <2>1 DEF Covered
    <2>3. n > 3 => ElementLocks(y.on) \subseteq y.holds
      <3>1. n > 3 => 3 \in 1 .. n /\ 3 # n
        OBVIOUS
      <3> QED
        BY <1>1, <2>1, <3>1 DEF Covered
    <2>4. \A k \in 1 .. n : Statements(y)'[k] \subseteq Statements(y)[k]
      <3> SUFFICES ASSUME NEW k \in 1 .. n PROVE Statements(y)'[k] \subseteq Statements(y)[k]
        OBVIOUS
      <3>1. CASE k = 1
        BY <2>1, <3>1
      <3>2. CASE k = 2
        BY <2>1, <3>2
      <3>3. CASE k = 3
        BY <2>1, <3>3
      <3>4. CASE k = 4
        BY <2>1, <3>4, <1>11, <1>3, <2>3
      <3>5. CASE k = 5
        BY <2>1, <3>5, <1>11, <1>5, <2>3
      <3> QED
        BY <2>2, <3>1, <3>2, <3>3, <3>4, <3>5
    <2>5. Len(Statements(y))' = Len(Statements(y))
      BY <2>1
    <2> QED
      BY <1>7, <2>4, <2>5
  <1>12. CASE y.op = "scan"
    <2>1. /\ Statements(y) = <<Project, ElementLocks(Present), {"suggestion"} \X SuggestionIds>>
          /\ Statements(y)' = <<Project, ElementLocks(Present)', {"suggestion"} \X SuggestionIds>>
      BY <1>2, <1>12 DEF Statements, EndsOfNew, Project, Share
    <2>2. n <= 3 /\ \A k \in 1 .. n : k = 1 \/ k = 2 \/ k = 3
      BY <1>1, <2>1 DEF Covered
    <2>3. \A k \in 1 .. n : Statements(y)'[k] \subseteq Statements(y)[k]
      <3> SUFFICES ASSUME NEW k \in 1 .. n PROVE Statements(y)'[k] \subseteq Statements(y)[k]
        OBVIOUS
      <3>1. CASE k = 1
        BY <2>1, <3>1
      <3>2. CASE k = 2
        BY <2>1, <3>2, <1>12, <1>6
      <3>3. CASE k = 3
        BY <2>1, <3>3
      <3> QED
        BY <2>2, <3>1, <3>2, <3>3
    <2>4. Len(Statements(y))' = Len(Statements(y))
      BY <2>1
    <2> QED
      BY <1>7, <2>3, <2>4
  <1> QED
    BY <1>8, <1>9, <1>10, <1>11, <1>12 DEF Ops


\* The elements it aims at stay as they are.
LEMMA AimStays ==
    ASSUME NEW x, NEW y \in TransactionRows, Guarded(x), y.holds \cap x.holds \subseteq Share,
           y.op \in Ops, y.on \subseteq Elements, Covered(y), Aimed(y)
    PROVE  Aimed(y)'
  <1>1. PICK n \in Nat : n = y.step
    BY DEF TransactionRows
  <1>2. ASSUME y.op = "archive", n > 1
        PROVE  \A e \in y.on : status'[e] # "merged"
    <2>1. Statements(y) = <<ElementLocks(y.on), RelationLocks(y.on)>>
      BY <1>2, StatementsOf
    <2>2. 1 \in 1 .. n /\ 1 # n
      BY <1>2
    <2>3. ElementLocks(y.on) \subseteq y.holds
      BY <1>1, <2>1, <2>2 DEF Covered
    <2>4. \A e \in y.on : status'[e] = status[e]
      BY <2>3, Untouched DEF ElementLocks
    <2> QED
      BY <1>1, <1>2, <2>4 DEF Aimed
  <1>3. ASSUME Rechecks(y), NEW w \in y.wants
        PROVE  w[2] \in Elements /\ status'[w[2]] = "merged"
    BY <1>3 DEF Aimed, Guarded
  <1> QED
    BY <1>1, <1>2, <1>3 DEF Aimed, Rechecks

LEMMA SubjectStays ==
    ASSUME LockTypeOK, LockTypeOK', NEW x, NEW y \in TransactionRows, Guarded(x), Subject(y)
    PROVE  Subject(y)'
  <1>1. ASSUME y.op \in {"edit", "relation_archive", "relation_restore"}
        PROVE  /\ y.rel \in Linked'
               /\ y.read.ver <= link'[y.rel].ver
               /\ y.read.ver = link'[y.rel].ver => y.read = link'[y.rel]
    <2>1. /\ y.rel \in Linked /\ y.read \in LinkRows /\ y.read.ver <= link[y.rel].ver
          /\ y.read.ver = link[y.rel].ver => y.read = link[y.rel]
      BY <1>1 DEF Subject
    <2>2. y.rel \in Linked' /\ (link'[y.rel] = link[y.rel] \/ link[y.rel].ver < link'[y.rel].ver)
      BY <2>1 DEF Guarded
    <2>3. link'[y.rel].ver \in Nat
      BY <2>2, LinkRow DEF LockTypeOK, Linked, LinkRows
    <2>4. link[y.rel].ver \in Nat /\ y.read.ver \in Nat
      BY <2>1, LinkRow DEF LinkRows
    <2> QED
      BY <2>1, <2>2, <2>3, <2>4
  <1> QED
    BY <1>1 DEF Subject

\* What a request has checked stays true while others commit, because it holds
\* the elements and relations it checked, and every relation that could join
\* its elements needs one of them.
LEMMA PassesStays ==
    ASSUME LockTypeOK, NEW x, NEW y \in TransactionRows, Guarded(x),
           y.holds \cap x.holds \subseteq Share,
           y.op \in Ops, y.on \subseteq Elements, Subject(y), Covered(y), Finished(y), Passes(y)
    PROVE  Passes(y)'
  <1>1. y.op \notin {"edit", "scan"} => \A e \in y.on : <<"element", e>> \in y.holds /\ status'[e] = status[e]
    BY Secured, Untouched DEF ElementLocks
  <1>2. y.op \in {"archive", "merge"} =>
            \A r \in Linked : EndsOf(r) \cap y.on # {} => link'[r] = link[r]
    BY Secured, Untouched DEF RelationLocks
  <1>3. y.op \notin {"edit", "scan"} =>
            \A r \in Linked' : \A e \in EndsOf(r)' \cap y.on : r \in Linked /\ e \in EndsOf(r)
    BY <1>1, Untouched
  <1>4. CASE y.op = "archive"
    <2>1. \A e \in y.on : \A r \in Linked' : e \in EndsOf(r)' => link'[r].status # "active"
      BY <1>2, <1>3, <1>4 DEF Passes
    <2>2. \A e \in y.on : status'[e] # "merged"
      BY <1>1, <1>4 DEF Passes
    <2> QED
      BY <1>4, <2>1, <2>2 DEF Passes
  <1>5. CASE y.op = "restore"
    BY <1>1, <1>5 DEF Passes
  <1>6. CASE y.op = "create"
    <2>1. \A e \in y.on : status'[e] = "active"
      BY <1>1, <1>6 DEF Passes
    <2>2. ASSUME NEW q \in Linked', EndsOf(q)' = y.on
          PROVE  q \in Linked /\ EndsOf(q) = y.on
      <3>1. PICK e \in y.on : TRUE
        BY <1>6 DEF Subject
      <3>2. q \in Linked
        BY <1>3, <1>6, <2>2, <3>1
      <3>3. EndsOf(q)' = EndsOf(q)
        BY <1>1, <1>6, <2>2, <3>2, Untouched
      <3> QED
        BY <2>2, <3>2, <3>3
    <2>3. SameEnds(y.on) = {}
      BY <1>6 DEF Passes
    <2>4. SameEnds(y.on)' = {}
      BY <2>2, <2>3 DEF SameEnds
    <2> QED
      BY <1>6, <2>1, <2>4 DEF Passes
  <1>7. CASE y.op \in {"edit", "relation_archive", "relation_restore"}
    <2>1. link'[y.rel] = link[y.rel]
      BY <1>7, Secured, Untouched DEF Subject
    <2>2. Claimable(y)' <=> Claimable(y)
      BY <2>1 DEF Claimable
    <2> QED
      BY <1>1, <1>7, <2>2 DEF Passes
  <1>8. CASE y.op = "merge"
    <2>1. PICK a \in y.on, b \in y.on : CanMerge(a, b) /\ b = y.gone
      BY <1>8 DEF Passes, Subject
    <2>2. a # b /\ status'[a] = "active" /\ status'[b] = "active"
      BY <1>1, <1>8, <2>1 DEF CanMerge
    <2>5. Aliases(b)' = {}
      <3> SUFFICES ASSUME NEW e \in Elements, into'[e] = b PROVE FALSE
        BY DEF Aliases
      <3>1. into[e] = b
        BY <1>1, <1>8, Untouched
      <3> QED
        BY <2>1, <3>1 DEF CanMerge, Aliases
    <2>3. ASSUME NEW r \in Linked', b \in EndsOf(r)'
          PROVE  /\ link'[r].ver < MaxChange
                 /\ \A q \in There(r, a, b)' : link'[q].status = link'[r].status
      <3>1. r \in Linked /\ b \in EndsOf(r)
        BY <1>3, <1>8, <2>3
      <3>2. link'[r] = link[r]
        BY <1>2, <1>8, <3>1
      <3>3. link[r].ver < MaxChange /\ \A q \in There(r, a, b) : link[q].status = link[r].status
        BY <2>1, <3>1 DEF CanMerge
      <3>4. Moved(r, a, b)' = Moved(r, a, b) /\ a \in Moved(r, a, b)
        BY <3>1, <3>2 DEF Moved, EndsOf
      <3>5. ASSUME NEW q \in There(r, a, b)'
            PROVE  q \in There(r, a, b) /\ link'[q] = link[q]
        <4>1. q \in Linked' /\ b \notin EndsOf(q)' /\ EndsOf(q)' = Moved(r, a, b)
          BY <3>4 DEF There
        <4>2. q \in Linked /\ a \in EndsOf(q)
          BY <1>3, <1>8, <3>4, <4>1
        <4>3. link'[q] = link[q]
          BY <1>2, <1>8, <4>2
        <4> QED
          BY <4>1, <4>2, <4>3 DEF There, EndsOf
      <3> QED
        BY <3>2, <3>3, <3>5
    <2>4. CanMerge(a, b)'
      BY <2>2, <2>3, <2>5 DEF CanMerge
    <2> QED
      BY <1>8, <2>1, <2>4 DEF Passes
  <1>9. CASE y.op \in {"decide", "scan", "report"}
    BY <1>9 DEF Passes
  <1> QED
    BY <1>4, <1>5, <1>6, <1>7, <1>8, <1>9 DEF Ops

LEMMA CommitLocks ==
    ASSUME LockInv, NEW t \in Transactions, Commit(t)
    PROVE  LockInv'
  <1>1. PICK x \in TransactionRows : x = tx[t] /\ x.checked /\ x # Idle
    BY DEF LockInv, LockTypeOK, Commit, Idle
  <1>2. /\ x.op \in Ops /\ x.on \subseteq Elements
        /\ Subject(x) /\ Covered(x) /\ Finished(x) /\ Passes(x)
    BY <1>1, RunningRow
  <1>3. Written(x)
    <2>1. LockTypeOK /\ ActiveEnds /\ AliasesMerged
      BY DEF LockInv
    <2>2. CASE WriteElements(x)
      BY <1>2, <2>1, <2>2, ElementsWritten
    <2>3. CASE InsertRelation(x)
      BY <1>2, <2>1, <2>3, RelationInserted
    <2>4. CASE WriteRelation(x)
      BY <1>2, <2>1, <2>4, RelationWritten
    <2>5. CASE WriteMerge(x)
      BY <1>2, <2>1, <2>5, MergeWritten
    <2>6. CASE WriteSuggestion(x)
      BY <2>1, <2>6 DEF WriteSuggestion, LockTypeOK, Written, Guarded, ActiveEnds, AliasesMerged,
                        Linked, EndsOf, tables
    <2> QED
      BY <1>1, <2>2, <2>3, <2>4, <2>5, <2>6 DEF Commit
  <1>4. \A u \in Transactions : tx'[u] = IF u = t THEN Idle ELSE tx[u]
    BY <1>1 DEF Commit, LockInv, LockTypeOK
  <1>5. LockTypeOK'
    <2>1. tx' \in [Transactions -> TransactionRows]
      BY IdleRow DEF LockInv, LockTypeOK, Commit
    <2> QED
      BY <1>3, <2>1 DEF LockTypeOK, Written
  <1>6. Exclusive'
    BY <1>4, IdleRow DEF LockInv, Exclusive
  <1>7. \A u \in Transactions : TransactionOK(tx[u])'
    <2> SUFFICES ASSUME NEW u \in Transactions, u # t, tx[u] # Idle
                 PROVE  TransactionOK(tx[u])'
      BY <1>4 DEF TransactionOK, Idle
    <2>1. PICK y \in TransactionRows :
              /\ y = tx[u] /\ y.op \in Ops /\ y.on \subseteq Elements
              /\ Subject(y) /\ Covered(y) /\ Ordered(y) /\ Aimed(y)
              /\ y.checked => Finished(y) /\ Passes(y)
              /\ Len(Statements(y)) \in Nat
      BY RunningRow
    <2>2. y.holds \cap x.holds \subseteq Share
      BY <1>1, <2>1 DEF LockInv, Exclusive
    <2>3. LockTypeOK /\ Guarded(x)
      BY <1>3 DEF LockInv, Written
    <2>4. Subject(y)'
      BY <1>5, <2>1, <2>3, SubjectStays
    <2>5. Covered(y)' /\ Len(Statements(y))' = Len(Statements(y))
      BY <2>1, <2>2, <2>3, CoverStays
    <2>6. Ordered(y)' /\ Aimed(y)'
      BY <2>1, <2>2, <2>3, AimStays DEF Ordered, Order, Rechecks
    <2>7. y.checked => Finished(y)' /\ Passes(y)'
      BY <2>1, <2>2, <2>3, <2>5, PassesStays DEF Finished
    <2>8. TransactionOK(y)'
      BY <2>1, <2>4, <2>5, <2>6, <2>7 DEF TransactionOK
    <2> QED
      BY <1>4, <2>1, <2>8
  <1> QED
    BY <1>3, <1>5, <1>6, <1>7 DEF LockInv, Written

LEMMA NextLocks == LockInv /\ [LockNext]_lockVars => LockInv'
  <1> SUFFICES ASSUME LockInv, [LockNext]_lockVars PROVE LockInv'
    OBVIOUS
  <1>1. CASE UNCHANGED lockVars
    <2>1. UNCHANGED tables /\ tx' = tx
      BY <1>1 DEF lockVars, tables
    <2>2. \A t \in Transactions : TransactionOK(tx[t])'
      <3> SUFFICES ASSUME NEW t \in Transactions PROVE TransactionOK(tx[t])'
        OBVIOUS
      <3>1. PICK x : x = tx[t]
        OBVIOUS
      <3>2. TransactionOK(x)'
        BY <2>1, <3>1, SameTables DEF LockInv
      <3> QED
        BY <2>1, <3>1, <3>2
    <2> QED
      BY <2>1, <2>2 DEF LockInv, LockTypeOK, Exclusive, ActiveEnds, AliasesMerged, Linked, EndsOf, tables
  <1>2. ASSUME NEW t \in Transactions, NEW op \in Ops, NEW on \in SUBSET Elements,
               NEW b \in Elements \cup {None}, NEW r \in RelationIds \cup {None}, Begin(t, op, on, b, r)
        PROVE  LockInv'
    BY <1>2, BeginLocks
  <1>3. ASSUME NEW t \in Transactions, Execute(t) PROVE LockInv'
    BY <1>3, ExecuteLocks
  <1>4. ASSUME NEW t \in Transactions, Lock(t) PROVE LockInv'
    BY <1>4, LockLocks
  <1>5. ASSUME NEW t \in Transactions, Check(t) PROVE LockInv'
    BY <1>5, CheckLocks
  <1>6. ASSUME NEW t \in Transactions, Commit(t) PROVE LockInv'
    BY <1>6, CommitLocks
  <1>7. ASSUME NEW t \in Transactions, Rollback(t) PROVE LockInv'
    BY <1>7, RollbackLocks
  <1> QED
    BY <1>1, <1>2, <1>3, <1>4, <1>5, <1>6, <1>7 DEF LockNext

LEMMA LocksInvariant == LockSpec => []LockInv
  BY InitLocks, NextLocks, PTL DEF LockSpec

\* A finite set of numbers has a bound.
LEMMA Bounded ==
    ASSUME NEW S \in SUBSET Nat, IsFiniteSet(S)
    PROVE  \E m \in Nat : \A s \in S : s <= m
  <1>1. PICK n \in Nat : ExistsBijection(1 .. n, S)
    BY FS_NatBijection
  <1>2. PICK f \in [1 .. n -> S] : \A s \in S : \E i \in 1 .. n : f[i] = s
    BY <1>1 DEF ExistsBijection, Bijection, Surjection
  <1>3. \A i \in 1 .. n : f[i] \in Nat
    OBVIOUS
  <1> DEFINE open == {k \in 0 .. n : \A m \in Nat : \E i \in 1 .. k : ~(f[i] <= m)}
  <1>4. open = {}
    <2> SUFFICES ASSUME open # {} PROVE FALSE
      OBVIOUS
    <2>1. open \in SUBSET Nat
      OBVIOUS
    <2>2. PICK k \in open : \A j \in open : k <= j
      BY <2>1, Smallest
    <2>3. k \in 0 .. n /\ \A m \in Nat : \E i \in 1 .. k : ~(f[i] <= m)
      BY <2>2
    <2>4. k # 0
      BY <2>3
    <2>5. k - 1 \in 0 .. n /\ k \in 1 .. n /\ ~(k <= k - 1)
      BY <2>3, <2>4
    <2>6. k - 1 \notin open
      BY <2>2, <2>5
    <2>7. PICK m \in Nat : \A i \in 1 .. k - 1 : f[i] <= m
      BY <2>5, <2>6
    <2>8. PICK s \in Nat : s = f[k]
      BY <1>3, <2>5
    <2>9. m + s \in Nat /\ m <= m + s /\ s <= m + s
      OBVIOUS
    <2>10. \A i \in 1 .. k : i = k \/ i \in 1 .. k - 1
      BY <2>5
    <2>11. PICK i \in 1 .. k : ~(f[i] <= m + s)
      BY <2>3, <2>9
    <2>12. i \in 1 .. n
      BY <2>3
    <2>13. PICK v \in Nat : v = f[i]
      BY <1>3, <2>12
    <2>14. v <= m \/ v = s
      BY <2>7, <2>8, <2>10, <2>13
    <2>15. ~(v <= m + s)
      BY <2>11, <2>13
    <2> QED
      BY <2>14, <2>15
  <1>5. PICK m \in Nat : \A i \in 1 .. n : f[i] <= m
    <2>1. n \in 0 .. n
      OBVIOUS
    <2>2. ~\A m \in Nat : \E i \in 1 .. n : ~(f[i] <= m)
      BY <1>4, <2>1
    <2> QED
      BY <2>2
  <1> QED
    BY <1>2, <1>5

LEMMA RowsBounded == \E m \in Nat : \A w \in Rows : w[2] <= m
  <1>1. PICK m \in Nat : \A e \in Elements : e <= m
    BY IdsAssumption, Bounded
  <1>2. PICK n \in Nat : \A r \in RelationIds : r <= n
    BY IdsAssumption, Bounded
  <1>3. PICK q \in Nat : \A s \in SuggestionIds : s <= q
    BY LocksAssumption, Bounded
  <1>4. PICK p \in Nat : p >= m /\ p >= n /\ p >= q
    <2>1. m + n + q \in Nat /\ m + n + q >= m /\ m + n + q >= n /\ m + n + q >= q
      OBVIOUS
    <2> QED
      BY <2>1
  <1>5. \A w \in Rows : w[2] = 0 \/ w[2] \in Elements \/ w[2] \in RelationIds \/ w[2] \in SuggestionIds
    BY DEF Rows, Project, Share
  <1>6. \A e \in Elements : e \in Nat
    BY IdsAssumption
  <1>7. \A r \in RelationIds : r \in Nat
    BY IdsAssumption
  <1>8. \A s \in SuggestionIds : s \in Nat
    BY LocksAssumption
  <1>9. \A w \in Rows : w[2] <= p
    BY <1>1, <1>2, <1>3, <1>4, <1>5, <1>6, <1>7, <1>8
  <1> QED
    BY <1>9

Classes == {"project", "share", "suggestion", "element", "relation"}

\* A transaction waits for rows that come after those it holds, if the classes of
\* rows have these ranks.
Ascends(x, rank) ==
    \A h \in x.holds, w \in x.wants :
        rank[h[1]] < rank[w[1]] \/ (h[1] = w[1] /\ h[2] < w[2])

\* Transactions that lock the classes of rows in a common order do not deadlock:
\* along the waits the rows come later and later, and there are finitely many.
LEMMA NoCycle ==
    ASSUME LockInv, NEW group \in SUBSET Transactions, Deadlocked(group),
           \A t \in group : \E u \in group : NextRow(t) \in tx[u].holds,
           NEW rank \in [Classes -> 0 .. 4],
           \A t \in group : Ascends(tx[t], rank)
    PROVE  FALSE
  <1> DEFINE row(t) == NextRow(t)
  <1>1. \A t \in group : /\ row(t) \in tx[t].wants /\ row(t) \in Rows
                         /\ row(t)[1] \in Classes /\ row(t)[2] \in Nat
    <2> SUFFICES ASSUME NEW t \in group
                 PROVE  /\ row(t) \in tx[t].wants /\ row(t) \in Rows
                        /\ row(t)[1] \in Classes /\ row(t)[2] \in Nat
      OBVIOUS
    <2>1. tx[t].wants \subseteq Rows
      BY DEF LockInv, LockTypeOK, TransactionRows
    <2>2. tx[t].wants # {}
      BY DEF Deadlocked
    <2>3. row(t) \in tx[t].wants /\ row(t) \in Rows
      BY <2>1, <2>2, NextRowIs
    <2> QED
      BY <2>3, RowIs DEF Classes
  <1>2. ASSUME NEW t \in group
        PROVE  \E u \in group : \/ rank[row(t)[1]] < rank[row(u)[1]]
                                \/ row(t)[1] = row(u)[1] /\ row(t)[2] < row(u)[2]
    <2>1. PICK u \in group : row(t) \in tx[u].holds
      OBVIOUS
    <2>2. row(u) \in tx[u].wants
      BY <1>1
    <2> QED
      BY <2>1, <2>2 DEF Ascends
  <1> HIDE DEF row
  <1> DEFINE height(t) == rank[row(t)[1]]
  <1>3. \A t \in group : height(t) \in 0 .. 4
    BY <1>1
  <1>4. PICK t \in group : \A u \in group : height(u) <= height(t)
    <2> DEFINE depths == {4 - height(u) : u \in group}
    <2>1. depths \in SUBSET Nat /\ depths # {}
      <3>1. \A u \in group : 4 - height(u) \in Nat
        <4> HIDE DEF height
        <4> QED
          BY <1>3
      <3>2. group # {}
        BY DEF Deadlocked
      <3> HIDE DEF height
      <3> QED
        BY <3>1, <3>2
    <2>2. PICK d \in depths : \A m \in depths : d <= m
      BY <2>1, Smallest
    <2>3. PICK u \in group : d = 4 - height(u)
      BY <2>2
    <2>4. \A v \in group : 4 - height(u) <= 4 - height(v)
      BY <2>2, <2>3
    <2>5. \A v \in group : height(v) <= height(u)
      <3> HIDE DEF height
      <3> QED
        BY <1>3, <2>4
    <2> QED
      BY <2>5
  <1> DEFINE top == {u \in group : height(u) = height(t)}
  <1>5. \A u \in top : \E v \in top : row(u)[2] < row(v)[2]
    <2> SUFFICES ASSUME NEW u \in group, height(u) = height(t)
                 PROVE  \E v \in group : height(v) = height(t) /\ row(u)[2] < row(v)[2]
      OBVIOUS
    <2>1. PICK v \in group : \/ height(u) < height(v)
                             \/ row(u)[1] = row(v)[1] /\ row(u)[2] < row(v)[2]
      BY <1>2
    <2>2. ~(height(u) < height(v))
      <3> HIDE DEF height
      <3> QED
        BY <1>3, <1>4
    <2> QED
      BY <2>1, <2>2
  <1>6. PICK m \in Nat : \A w \in Rows : w[2] <= m
    BY RowsBounded
  <1>7. \A u \in top : row(u)[2] \in Nat /\ row(u)[2] <= m
    BY <1>1, <1>6
  <1> HIDE DEF height
  <1> DEFINE rests == {m - row(u)[2] : u \in top}
  <1>8. rests \in SUBSET Nat /\ rests # {}
    BY <1>4, <1>7
  <1>9. PICK d \in rests : \A e \in rests : d <= e
    BY <1>8, Smallest
  <1>10. PICK u \in top : d = m - row(u)[2]
    BY <1>9
  <1>11. PICK v \in top : row(u)[2] < row(v)[2]
    BY <1>5, <1>10
  <1>12. m - row(u)[2] <= m - row(v)[2]
    BY <1>9, <1>10, <1>11
  <1> QED
    BY <1>7, <1>10, <1>11, <1>12

\* Every request locks the classes of rows in the order of their ranks, but for the
\* last statement of a merge, which comes back to elements, and that of a scan or a
\* report, which come to the suggestion after the elements.
Rank == [c \in Classes |->
    CASE c = "project" -> 0 [] c = "suggestion" -> 1 [] c = "element" -> 2
      [] c = "relation" -> 3 [] OTHER -> 4]
Late(x) == Rechecks(x) \/ (x.op \in {"scan", "report"} /\ x.step = 3)

LEMMA Ranked ==
    ASSUME NEW x \in TransactionRows, x.op \in Ops, x.on \subseteq Elements,
           Subject(x), Covered(x), Ordered(x), ~Late(x)
    PROVE  Ascends(x, Rank)
  <1>1. PICK n \in Nat : n = x.step
    BY DEF TransactionRows
  <1>2. n <= Len(Order(x.op)) /\ Len(Order(x.op)) \in Nat
    BY <1>1, OrderOf DEF Covered
  <1>3. /\ Rank["project"] = 0 /\ Rank["suggestion"] = 1 /\ Rank["element"] = 2
        /\ Rank["relation"] = 3 /\ Rank["share"] = 4
    BY DEF Rank, Classes
  <1>4. ASSUME \A j \in 1 .. n, k \in 1 .. n : j < k => Rank[Order(x.op)[j]] < Rank[Order(x.op)[k]]
        PROVE  Ascends(x, Rank)
    <2> SUFFICES ASSUME NEW h \in x.holds, NEW w \in x.wants
                 PROVE  Rank[h[1]] < Rank[w[1]] \/ (h[1] = w[1] /\ h[2] < w[2])
      BY DEF Ascends
    <2>1. PICK j \in 1 .. n : h[1] = Order(x.op)[j]
      BY <1>1 DEF Ordered
    <2>2. n > 0 /\ w[1] = Order(x.op)[n] /\ (h[1] = w[1] => h[2] < w[2])
      BY <1>1 DEF Ordered, Late
    <2>3. n \in 1 .. n /\ (j < n \/ j = n)
      BY <2>2
    <2> QED
      BY <1>4, <2>1, <2>2, <2>3
  <1>5. CASE x.op = "archive"
    <2>1. Order(x.op) = <<"element", "relation">>
      BY <1>5 DEF Order
    <2>2. n <= 2 /\ \A k \in 1 .. n : k = 1 \/ k = 2
      BY <1>2, <2>1
    <2>3. Order(x.op)[1] = "element" /\ Order(x.op)[2] = "relation"
      BY <2>1
    <2>4. \A j \in 1 .. n, k \in 1 .. n : j < k => Rank[Order(x.op)[j]] < Rank[Order(x.op)[k]]
      BY <1>3, <2>2, <2>3
    <2> QED
      BY <1>4, <2>4
  <1>6. CASE x.op = "restore"
    <2>1. Order(x.op) = <<"element">>
      BY <1>6 DEF Order
    <2>2. n <= 1 /\ \A k \in 1 .. n : k = 1
      BY <1>2, <2>1
    <2>3. Order(x.op)[1] = "element"
      BY <2>1
    <2>4. \A j \in 1 .. n, k \in 1 .. n : j < k => Rank[Order(x.op)[j]] < Rank[Order(x.op)[k]]
      BY <1>3, <2>2, <2>3
    <2> QED
      BY <1>4, <2>4
  <1>7. CASE x.op = "create"
    <2>1. Order(x.op) = <<"element", "relation", "share">>
      BY <1>7 DEF Order
    <2>2. n <= 3 /\ \A k \in 1 .. n : k = 1 \/ k = 2 \/ k = 3
      BY <1>2, <2>1
    <2>3. Order(x.op)[1] = "element" /\ Order(x.op)[2] = "relation" /\ Order(x.op)[3] = "share"
      BY <2>1
    <2>4. \A j \in 1 .. n, k \in 1 .. n : j < k => Rank[Order(x.op)[j]] < Rank[Order(x.op)[k]]
      BY <1>3, <2>2, <2>3
    <2> QED
      BY <1>4, <2>4
  <1>8. CASE x.op = "edit"
    <2>1. Order(x.op) = <<"relation">>
      BY <1>8 DEF Order
    <2>2. n <= 1 /\ \A k \in 1 .. n : k = 1
      BY <1>2, <2>1
    <2>3. Order(x.op)[1] = "relation"
      BY <2>1
    <2>4. \A j \in 1 .. n, k \in 1 .. n : j < k => Rank[Order(x.op)[j]] < Rank[Order(x.op)[k]]
      BY <1>3, <2>2, <2>3
    <2> QED
      BY <1>4, <2>4
  <1>9. CASE x.op \in {"relation_archive", "relation_restore"}
    <2>1. Order(x.op) = <<"element", "relation">>
      BY <1>9 DEF Order
    <2>2. n <= 2 /\ \A k \in 1 .. n : k = 1 \/ k = 2
      BY <1>2, <2>1
    <2>3. Order(x.op)[1] = "element" /\ Order(x.op)[2] = "relation"
      BY <2>1
    <2>4. \A j \in 1 .. n, k \in 1 .. n : j < k => Rank[Order(x.op)[j]] < Rank[Order(x.op)[k]]
      BY <1>3, <2>2, <2>3
    <2> QED
      BY <1>4, <2>4
  <1>10. CASE x.op = "merge"
    <2>1. Order(x.op) = <<"project", "suggestion", "element", "relation", "element">>
      BY <1>10 DEF Order
    <2>2. n <= 4 /\ \A k \in 1 .. n : k = 1 \/ k = 2 \/ k = 3 \/ k = 4
      <3>1. n <= 5
        BY <1>2, <2>1
      <3>2. n # 5
        BY <1>1, <1>10 DEF Late, Rechecks
      <3>3. n <= 4
        BY <3>1, <3>2
      <3> QED
        BY <3>3
    <2>3. Order(x.op)[1] = "project" /\ Order(x.op)[2] = "suggestion" /\ Order(x.op)[3] = "element" /\ Order(x.op)[4] = "relation"
      BY <2>1
    <2>4. \A j \in 1 .. n, k \in 1 .. n : j < k => Rank[Order(x.op)[j]] < Rank[Order(x.op)[k]]
      BY <1>3, <2>2, <2>3
    <2> QED
      BY <1>4, <2>4
  <1>11. CASE x.op = "decide"
    <2>1. Order(x.op) = <<"suggestion", "element", "share">>
      BY <1>11 DEF Order
    <2>2. n <= 3 /\ \A k \in 1 .. n : k = 1 \/ k = 2 \/ k = 3
      BY <1>2, <2>1
    <2>3. Order(x.op)[1] = "suggestion" /\ Order(x.op)[2] = "element" /\ Order(x.op)[3] = "share"
      BY <2>1
    <2>4. \A j \in 1 .. n, k \in 1 .. n : j < k => Rank[Order(x.op)[j]] < Rank[Order(x.op)[k]]
      BY <1>3, <2>2, <2>3
    <2> QED
      BY <1>4, <2>4
  <1>12. CASE x.op = "scan"
    <2>1. Order(x.op) = <<"project", "element", "suggestion">>
      BY <1>12 DEF Order
    <2>2. n <= 2 /\ \A k \in 1 .. n : k = 1 \/ k = 2
      <3>1. n <= 3
        BY <1>2, <2>1
      <3>2. n # 3
        BY <1>1, <1>12 DEF Late, Rechecks
      <3>3. n <= 2
        BY <3>1, <3>2
      <3> QED
        BY <3>3
    <2>3. Order(x.op)[1] = "project" /\ Order(x.op)[2] = "element"
      BY <2>1
    <2>4. \A j \in 1 .. n, k \in 1 .. n : j < k => Rank[Order(x.op)[j]] < Rank[Order(x.op)[k]]
      BY <1>3, <2>2, <2>3
    <2> QED
      BY <1>4, <2>4
  <1>13. CASE x.op = "report"
    <2>1. Order(x.op) = <<"project", "element", "suggestion">>
      BY <1>13 DEF Order
    <2>2. n <= 2 /\ \A k \in 1 .. n : k = 1 \/ k = 2
      <3>1. n <= 3
        BY <1>2, <2>1
      <3>2. n # 3
        BY <1>1, <1>13 DEF Late, Rechecks
      <3>3. n <= 2
        BY <3>1, <3>2
      <3> QED
        BY <3>3
    <2>3. Order(x.op)[1] = "project" /\ Order(x.op)[2] = "element"
      BY <2>1
    <2>4. \A j \in 1 .. n, k \in 1 .. n : j < k => Rank[Order(x.op)[j]] < Rank[Order(x.op)[k]]
      BY <1>3, <2>2, <2>3
    <2> QED
      BY <1>4, <2>4
  <1> QED
    BY <1>5, <1>6, <1>7, <1>8, <1>9, <1>10, <1>11, <1>12, <1>13 DEF Ops


\* Merges, scans and reports lock the project before anything else.
LEMMA ProjectFirst ==
    ASSUME NEW x \in TransactionRows, x.op \in {"merge", "scan", "report"}, x.on \subseteq Elements,
           x.holds # {}, Covered(x), Ordered(x)
    PROVE  Project \subseteq x.holds
  <1>1. PICK n \in Nat : n = x.step
    BY DEF TransactionRows
  <1>2. Statements(x)[1] = Project /\ Order(x.op)[1] = "project"
    <2>1. x.op = "merge" => Statements(x)[1] = Project /\ Order(x.op)[1] = "project"
      BY DEF Statements, Order
    <2>2. x.op \in {"scan", "report"} => Statements(x)[1] = Project /\ Order(x.op)[1] = "project"
      BY DEF Statements, Order
    <2> QED
      BY <2>1, <2>2
  <1>3. PICK h \in x.holds, k \in 1 .. n : h[1] = Order(x.op)[k]
    BY <1>1 DEF Ordered
  <1>4. CASE n = 1
    <2>1. h[1] = "project" /\ h \in Rows
      BY <1>2, <1>3, <1>4 DEF TransactionRows
    <2> QED
      BY <1>3, <2>1, RowIs DEF Project
  <1>5. CASE n # 1
    <2>1. 1 \in 1 .. n
      BY <1>3
    <2> QED
      BY <1>1, <1>2, <1>5, <2>1 DEF Covered
  <1> QED
    BY <1>4, <1>5

\* The transactions of a deadlock, without those that only wait.
LEMMA DeadlockRows ==
    ASSUME LockInv, NEW all \in SUBSET Transactions, Deadlocked(all)
    PROVE  \E group \in SUBSET all :
              /\ Deadlocked(group)
              /\ \A t \in group : \E x \in TransactionRows :
                    /\ x = tx[t] /\ x.op \in Ops /\ x.on \subseteq Elements
                    /\ x.holds # {} /\ x.wants # {}
                    /\ Subject(x) /\ Covered(x) /\ Ordered(x) /\ Aimed(x)
                    /\ NextRow(t) \in x.wants /\ NextRow(t) \in Rows
                    /\ \E u \in group \ {t} : tx[u].holds \cap Against(NextRow(t)) # {}
  <1> DEFINE group == {t \in all : tx[t].holds # {}}
  <1>1. \A t \in all : \E u \in group \ {t} : tx[u].holds \cap Against(NextRow(t)) # {}
    BY DEF Deadlocked, Blockers
  <1>2. group # {} /\ \A t \in group : Blockers(t) \cap group # {} /\ tx[t].wants # {}
    BY <1>1 DEF Deadlocked, Blockers
  <1>3. Deadlocked(group)
    BY <1>2 DEF Deadlocked
  <1>4. ASSUME NEW t \in group
        PROVE  \E x \in TransactionRows :
                    /\ x = tx[t] /\ x.op \in Ops /\ x.on \subseteq Elements
                    /\ x.holds # {} /\ x.wants # {}
                    /\ Subject(x) /\ Covered(x) /\ Ordered(x) /\ Aimed(x)
                    /\ NextRow(t) \in x.wants /\ NextRow(t) \in Rows
                    /\ \E u \in group \ {t} : tx[u].holds \cap Against(NextRow(t)) # {}
    <2>1. PICK x \in TransactionRows :
              /\ x = tx[t] /\ x.op \in Ops /\ x.on \subseteq Elements
              /\ Subject(x) /\ Covered(x) /\ Ordered(x) /\ Aimed(x)
      BY RunningRow DEF Idle
    <2>2. x.holds # {} /\ x.wants # {} /\ x.wants \subseteq Rows
      BY <1>2, <2>1 DEF TransactionRows
    <2>3. NextRow(t) \in x.wants
      BY <2>1, <2>2, NextRowIs
    <2>4. \E u \in group \ {t} : tx[u].holds \cap Against(NextRow(t)) # {}
      BY <1>1
    <2> HIDE DEF group
    <2> QED
      BY <2>1, <2>2, <2>3, <2>4
  <1> HIDE DEF group
  <1>5. group \in SUBSET all
    BY DEF group
  <1> QED
    BY <1>3, <1>4, <1>5

\* Without a merge, a scan and a report.
LEMMA NeedsProject ==
    ASSUME LockInv, NEW all \in SUBSET Transactions, Deadlocked(all),
           \A t \in all : tx[t].op \notin {"merge", "scan", "report"}
    PROVE  FALSE
  <1>1. PICK group \in SUBSET all :
              /\ Deadlocked(group)
              /\ \A t \in group : \E x \in TransactionRows :
                    /\ x = tx[t] /\ x.op \in Ops /\ x.on \subseteq Elements
                    /\ x.holds # {} /\ x.wants # {}
                    /\ Subject(x) /\ Covered(x) /\ Ordered(x) /\ Aimed(x)
                    /\ NextRow(t) \in x.wants /\ NextRow(t) \in Rows
                    /\ \E u \in group \ {t} : tx[u].holds \cap Against(NextRow(t)) # {}
    BY DeadlockRows
  <1>2. \A t \in group : \A h \in tx[t].holds \cup tx[t].wants : h[1] # "project"
    BY <1>1, ClassesOf
  <1>3. \A t \in group : \E u \in group : NextRow(t) \in tx[u].holds
    <2> SUFFICES ASSUME NEW t \in group PROVE \E u \in group : NextRow(t) \in tx[u].holds
      OBVIOUS
    <2>1. NextRow(t) \in tx[t].wants
      BY <1>1
    <2>2. NextRow(t) \notin Project
      BY <1>2, <2>1 DEF Project
    <2>3. PICK u \in group \ {t} : tx[u].holds \cap Against(NextRow(t)) # {}
      BY <1>1
    <2>4. tx[u].holds \cap Project = {}
      BY <1>2 DEF Project
    <2> QED
      BY <2>2, <2>3, <2>4 DEF Against
  <1>4. \A t \in group : Ascends(tx[t], Rank)
    BY <1>1, Ranked DEF Late, Rechecks
  <1>5. Rank \in [Classes -> 0 .. 4]
    BY DEF Rank
  <1> QED
    BY <1>1, <1>3, <1>4, <1>5, NoCycle

\* Without a new relation, a decision, and a change of a relation of an alias.
LEMMA NeedsShare ==
    ASSUME LockInv, NEW all \in SUBSET Transactions, Deadlocked(all),
           \A t \in all :
              /\ tx[t].op \notin {"create", "decide"}
              /\ tx[t].op \in {"relation_archive", "relation_restore"} =>
                    \A e \in tx[t].on : status[e] # "merged"
    PROVE  FALSE
  <1>1. PICK group \in SUBSET all :
              /\ Deadlocked(group)
              /\ \A t \in group : \E x \in TransactionRows :
                    /\ x = tx[t] /\ x.op \in Ops /\ x.on \subseteq Elements
                    /\ x.holds # {} /\ x.wants # {}
                    /\ Subject(x) /\ Covered(x) /\ Ordered(x) /\ Aimed(x)
                    /\ NextRow(t) \in x.wants /\ NextRow(t) \in Rows
                    /\ \E u \in group \ {t} : tx[u].holds \cap Against(NextRow(t)) # {}
    BY DeadlockRows
  <1>2. \A t \in group : \A h \in tx[t].holds \cup tx[t].wants : h \in Rows /\ h[1] # "share"
    BY <1>1, ClassesOf DEF TransactionRows
  <1>3. \A t \in group : \E u \in group \ {t} : NextRow(t) \in tx[u].holds
    <2> SUFFICES ASSUME NEW t \in group PROVE \E u \in group \ {t} : NextRow(t) \in tx[u].holds
      OBVIOUS
    <2>1. NextRow(t) \in tx[t].wants /\ NextRow(t) \notin Share
      BY <1>1, <1>2 DEF Share
    <2>2. PICK u \in group \ {t} : tx[u].holds \cap Against(NextRow(t)) # {}
      BY <1>1
    <2>3. tx[u].holds \cap Share = {}
      BY <1>2 DEF Share
    <2> QED
      BY <2>1, <2>2, <2>3 DEF Against, Project
  \* One request holds the project at a time.
  <1>4. \A t \in group : \A u \in group \ {t} :
            tx[t].op \in {"merge", "scan", "report"} => tx[u].op \notin {"merge", "scan", "report"}
    <2>1. \A t \in group : tx[t].op \in {"merge", "scan", "report"} => Project \subseteq tx[t].holds
      BY <1>1, ProjectFirst
    <2> QED
      BY <2>1 DEF LockInv, Exclusive, Project, Share
  <1>5. \A t \in group : ~Late(tx[t])
    <2> SUFFICES ASSUME NEW t \in group, Late(tx[t]) PROVE FALSE
      OBVIOUS
    <2>1. PICK x \in TransactionRows :
              /\ x = tx[t] /\ x.op \in Ops /\ x.on \subseteq Elements
              /\ Subject(x) /\ Covered(x) /\ Ordered(x) /\ Aimed(x)
              /\ NextRow(t) \in x.wants /\ NextRow(t) \in Rows
      BY <1>1
    <2>2. PICK u \in group \ {t} : NextRow(t) \in tx[u].holds
      BY <1>3
    <2>3. PICK y \in TransactionRows :
              /\ y = tx[u] /\ y.op \in Ops /\ y.on \subseteq Elements /\ y.wants # {}
              /\ Subject(y) /\ Covered(y) /\ Ordered(y) /\ Aimed(y)
      BY <1>1
    <2>4. PICK w : w = NextRow(t) /\ w \in x.wants /\ w \in y.holds
      BY <2>1, <2>2, <2>3
    <2>5. x.op \in {"merge", "scan", "report"} /\ y.op \notin {"merge", "scan", "report", "create", "decide"}
      BY <1>4, <2>1, <2>3 DEF Late, Rechecks
    <2>6. CASE x.op \in {"scan", "report"} /\ x.step = 3
      <3>1. Order(x.op) = <<"project", "element", "suggestion">>
        BY <2>6 DEF Order
      <3>2. w[1] = "suggestion"
        BY <2>1, <2>4, <2>6, <3>1 DEF Ordered
      <3> QED
        BY <2>3, <2>4, <2>5, <3>2, ClassesOf
    <2>7. CASE Rechecks(x)
      <3>1. Order(x.op) = <<"project", "suggestion", "element", "relation", "element">>
        BY <2>7 DEF Order, Rechecks
      <3>2. w[1] = "element" /\ w[2] \in Elements /\ status[w[2]] = "merged"
        BY <2>1, <2>4, <2>7, <3>1 DEF Ordered, Aimed, Rechecks
      <3>3. w[2] \in y.on
        BY <2>3, <2>4, <2>5, <3>2 DEF Aimed
      <3>4. y.op \in {"archive", "restore"}
        <4>1. y.op # "edit"
          BY <2>3, <2>4, <3>2, ClassesOf
        <4> QED
          BY <2>3, <2>5, <3>2, <3>3, <4>1 DEF Ops
      <3>5. PICK n \in Nat : n = y.step
        BY DEF TransactionRows
      <3>6. n = 1
        <4>1. PICK v \in y.wants : TRUE
          BY <2>3
        <4>2. n > 0
          BY <2>3, <3>5, <4>1 DEF Ordered
        <4>3. ~(y.op = "archive" /\ n > 1)
          BY <2>3, <3>2, <3>3, <3>5 DEF Aimed
        <4>4. y.op = "restore" => n <= 1
          <5>1. y.op = "restore" => Len(Statements(y)) = 1
            BY StatementsOf
          <5> QED
            BY <2>3, <3>5, <5>1 DEF Covered
        <4> QED
          BY <3>4, <4>2, <4>3, <4>4
      <3>7. PICK v \in y.wants : v[1] = "element" /\ v[2] \in y.on
        <4>1. PICK v \in y.wants : v[1] = Order(y.op)[1]
          BY <2>3, <3>5, <3>6 DEF Ordered
        <4>2. Order(y.op)[1] = "element"
          <5>1. y.op = "archive" => Order(y.op)[1] = "element"
            BY DEF Order
          <5>2. y.op = "restore" => Order(y.op)[1] = "element"
            BY DEF Order
          <5> QED
            BY <3>4, <5>1, <5>2
        <4>3. v \in y.holds \cup y.wants
          OBVIOUS
        <4> QED
          BY <2>3, <2>5, <4>1, <4>2, <4>3 DEF Aimed
      <3>8. v[2] = w[2]
        BY <2>3, <3>3, <3>4, <3>7 DEF Subject
      <3>9. w[2] < v[2]
        BY <2>3, <2>4, <2>5, <3>2, <3>7 DEF Ordered, Rechecks
      <3>10. w[2] \in Nat
        BY <3>2, IdsAssumption
      <3> QED
        BY <3>8, <3>9, <3>10
    <2> QED
      BY <2>1, <2>6, <2>7 DEF Late
  <1>6. \A t \in group : Ascends(tx[t], Rank)
    BY <1>1, <1>5, Ranked
  <1>7. Rank \in [Classes -> 0 .. 4]
    BY DEF Rank
  <1> QED
    BY <1>1, <1>3, <1>6, <1>7, NoCycle

LEMMA LocksOrdered == LockInv => DeadlockNeedsProjectLock
  BY NeedsProject, NeedsShare DEF DeadlockNeedsProjectLock

-----------------------------------------------------------------------------
\* What a request has checked under its locks still holds when it commits, whatever
\* the others committed in between.
ChecksStillHold == \A t \in Transactions : tx[t].checked => Passes(tx[t])

\* A request that has run its statements holds every row they would find now: no
\* relation has come to its elements since it locked their relations.
NoPhantoms ==
    \A t \in Transactions : tx[t] # Idle /\ Finished(tx[t]) =>
        \A k \in 1 .. Len(Statements(tx[t])) : Statements(tx[t])[k] \subseteq tx[t].holds

\* The requests as LoreRepository has them: checked and carried out in one step, which
\* for a change of a relation compares the version that the client has seen.
OneRequest ==
    \E x \in TransactionRows :
        /\ x.op \in Ops /\ Subject(x) /\ Passes(x)
        /\ \/ WriteElements(x) \/ InsertRelation(x) \/ WriteRelation(x)
           \/ WriteMerge(x) \/ WriteSuggestion(x)
RequestsOneByOne == [][OneRequest]_tables

\* Rows and transactions keep the shapes the schema and the handlers give them.
THEOREM LocksTypeCorrect == LockSpec => []LockTypeOK
  <1>1. LockInv => LockTypeOK
    BY DEF LockInv
  <1> QED
    BY <1>1, LocksInvariant, PTL

\* Active relations join active elements whatever requests are interleaved: archiving,
\* restoring, creating and merging lock enough rows for their checks.
THEOREM ActiveStayJoined == LockSpec => []ActiveEnds
  <1>1. LockInv => ActiveEnds
    BY DEF LockInv
  <1> QED
    BY <1>1, LocksInvariant, PTL

\* The checks of _archive, _restore, create_lore_relation, _change_relation and
\* commit_lore_merge are not stale when they are acted upon.
THEOREM ChecksNeverStale == LockSpec => []ChecksStillHold
  <1>1. LockInv => ChecksStillHold
    <2> SUFFICES ASSUME LockInv, NEW t \in Transactions, tx[t].checked PROVE Passes(tx[t])
      BY DEF ChecksStillHold
    <2>1. tx[t] # Idle
      BY DEF Idle
    <2> QED
      BY <2>1 DEF LockInv, TransactionOK
  <1> QED
    BY <1>1, LocksInvariant, PTL

\* The locks on the relations of an element, taken after the element, are all of them.
THEOREM LocksLeaveNoPhantoms == LockSpec => []NoPhantoms
  <1>1. LockInv => NoPhantoms
    <2> SUFFICES ASSUME LockInv, NEW t \in Transactions, tx[t] # Idle, Finished(tx[t]),
                        NEW k \in 1 .. Len(Statements(tx[t]))
                 PROVE  Statements(tx[t])[k] \subseteq tx[t].holds
      BY DEF NoPhantoms
    <2>1. Covered(tx[t])
      BY DEF LockInv, TransactionOK
    <2> QED
      BY <2>1 DEF Covered, Finished
  <1> QED
    BY <1>1, LocksInvariant, PTL

\* However many requests run, those that wait for each other in a circle include one that
\* holds the project and one that the project locks against.
THEOREM OnlyProjectLocksDeadlock == LockSpec => []DeadlockNeedsProjectLock
  BY LocksInvariant, LocksOrdered, PTL

\* Whatever requests are interleaved, the tables change as if each one that commits had run
\* alone, check and write, at its commit: what LoreRepository assumes.
THEOREM RequestsAreAtomic == LockSpec => RequestsOneByOne
  <1>1. LockInv /\ [LockNext]_lockVars => [OneRequest]_tables
    <2> SUFFICES ASSUME LockInv, LockNext, ~UNCHANGED tables
                 PROVE  OneRequest
      BY DEF lockVars, tables
    <2>1. PICK t \in Transactions : Commit(t)
      BY DEF LockNext, Begin, Execute, Lock, Check, Rollback
    <2>2. tx[t] # Idle
      BY <2>1 DEF Commit, Idle
    <2>3. PICK x \in TransactionRows :
              x = tx[t] /\ x.op \in Ops /\ Subject(x) /\ Passes(x)
      BY <2>1, <2>2, RunningRow DEF Commit
    <2>4. \/ WriteElements(x) \/ InsertRelation(x) \/ WriteRelation(x)
          \/ WriteMerge(x) \/ WriteSuggestion(x)
      BY <2>1, <2>3 DEF Commit
    <2> QED
      BY <2>3, <2>4 DEF OneRequest
  <1> QED
    BY <1>1, LocksInvariant, PTL DEF LockSpec, RequestsOneByOne
=============================================================================
