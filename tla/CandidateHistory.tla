--------------------------- MODULE CandidateHistory ---------------------------
(***************************************************************************)
(* The immutable candidate versions of one planning chapter and the one    *)
(* the author has adopted: manual edits                                    *)
(* (backend/app/core/generation_candidates.py) and the selection with its  *)
(* receipts (backend/app/core/generation_candidate_selection.py).          *)
(*                                                                         *)
(* A worker is one HTTP request in create_manual_edit_candidate or         *)
(* select_generation_candidate.  Both look their operation key up without  *)
(* a lock, look it up again under row locks, check, write, and fall back   *)
(* on a replay when a unique constraint refuses the write.  As in          *)
(* GenerationExecution, which locks are held follows from the pcs; on      *)
(* SQLite (locking = FALSE) only the constraints are left.                 *)
(*                                                                         *)
(* Abstractions: one owner; a text stands for its checksum, size and word  *)
(* count, a run for the checksum of its context; candidates of origin      *)
(* "generated" and "technical_demo" are roots and arrive in one step,      *)
(* their own protocols are elsewhere.  The maintenance switch cannot       *)
(* change while a request is served (GenerationExecution!Restart) and the  *)
(* module describes what happens while it is off.                          *)
(***************************************************************************)
EXTENDS Naturals

CONSTANTS
    Workers,    \* requests in flight
    Keys,       \* operation keys; the id of a manual edit is derived from its key
    Roots,      \* ids of generated and technical-demo candidates
    Runs,       \* prepared generation runs
    OwnRuns,    \* those of them that belong to the chapter
    Texts,      \* contents
    Draft,      \* the content of the roots
    Requests,   \* the bodies the clients send
    MaxDepth,   \* MAX_CANDIDATE_LINEAGE_DEPTH
    Crashes,    \* a process may die, a commit may go unacknowledged
    Nobody      \* no candidate

Ids == Keys \cup Roots

ASSUME HistoryConstants ==
    /\ Keys \cap Roots = {} /\ Nobody \notin Ids
    /\ OwnRuns \subseteq Runs /\ Draft \in Texts
    /\ MaxDepth \in Nat \ {0}
    /\ Crashes \in BOOLEAN

\* One shape for both kinds of body.  target and no are the parent, or the candidate
\* to adopt, with the version number the client saw; version is the selection
\* version it saw; text is the edited content.
Bodies == [kind : {"edit", "select"}, key : Keys, run : Runs, target : Ids,
           no : Nat, version : Nat, text : Texts]

ASSUME RequestsAreBodies == Requests # {} /\ Requests \subseteq Bodies

VARIABLES
    locking,     \* the database takes row locks: PostgreSQL does, SQLite does not
    candidate,   \* chapter_generation_candidates, by id
    operation,   \* ..._candidate_selection_operations (receipts), by key
    selection,   \* ..._candidate_selections, version 0: no row
    active,      \* status of the planning chapter
    task         \* the handler of each worker

rows == <<locking, candidate, operation, selection, active>>
vars == <<rows, task>>

NoRow == [absent |-> TRUE]
Candidates == [run : Runs, no : Nat \ {0}, parent : Ids \cup {Nobody}, text : Texts]
Selections == [version : Nat, shows : Ids \cup {Nobody}]
Receipts == [request : Bodies, previous : Selections]

Stored == {i \in Ids : candidate[i] # NoRow}
Receipted == {k \in Keys : operation[k] # NoRow}
At(w, p) == task[w].pc = p
Asked(w) == task[w].req
Is(w, kind) == Asked(w).kind = kind

PCs == {"idle", "lookup", "lock", "write", "raced"}
Answers == {"none", "done", "key_reused", "refused", "version_conflict", "corrupt", "error"}
Tasks == [pc : PCs, req : Bodies, no : Nat, seen : Selections, reply : Answers]

Unselected == [version |-> 0, shows |-> Nobody]
Started(p, q) == [pc |-> p, req |-> q, no |-> 0, seen |-> Unselected, reply |-> "none"]
Goto(w, p) == task' = [task EXCEPT ![w].pc = p]
Answer(w, a) == task' = [task EXCEPT ![w] = [Started("idle", @.req) EXCEPT !.reply = a]]

(* Locks: an edit holds its run from "lock" to its commit, a selection the  *)
(* planning chapter.                                                        *)
RunFree(r) ==
    locking => \A v \in Workers : ~(At(v, "write") /\ Is(v, "edit") /\ Asked(v).run = r)
ChapterFree == locking => \A v \in Workers : ~(At(v, "write") /\ Is(v, "select"))

-----------------------------------------------------------------------------
Numbers(r) == {candidate[i].no : i \in {j \in Stored : candidate[j].run = r}}
NextNumber(r) ==
    IF Numbers(r) = {} THEN 1 ELSE 1 + CHOOSE n \in Numbers(r) : \A m \in Numbers(r) : m <= n

\* validate_candidate_lineage walks from candidate i to its root in at most
\* MaxDepth nodes of the same run, each parent with a smaller number and another text.
Link(rows_, i) ==
    LET c == rows_[i]
        p == rows_[c.parent]
    IN  /\ rows_[c.parent] # NoRow
        /\ p.run = c.run /\ p.no < c.no /\ p.text # c.text
Ancestors(rows_, i) ==
    LET walk[n \in 0 .. MaxDepth - 1] ==
          IF n = 0 THEN i
          ELSE LET j == walk[n - 1] IN IF j = Nobody THEN Nobody ELSE rows_[j].parent
    IN  walk
Valid(rows_, i) ==
    \E n \in 0 .. MaxDepth - 1 :
        LET a == Ancestors(rows_, i)
        IN  /\ a[n] # Nobody /\ rows_[a[n]].parent = Nobody
            /\ \A m \in 0 .. n - 1 : Link(rows_, a[m])

-----------------------------------------------------------------------------
Init ==
    /\ locking \in BOOLEAN
    /\ candidate = [i \in Ids |-> NoRow]
    /\ operation = [k \in Keys |-> NoRow]
    /\ selection = Unselected
    /\ active = TRUE
    /\ task = [w \in Workers |-> Started("idle", CHOOSE q \in Requests : TRUE)]

\* A client names a selection version that it has read.
Begin(w, q) ==
    /\ At(w, "idle")
    /\ q.version <= selection.version
    /\ task' = [task EXCEPT ![w] = Started("lookup", q)]
    /\ UNCHANGED rows

\* The paid call or the technical demo stores its candidate.
Generate(g, r) ==
    /\ candidate[g] = NoRow
    /\ RunFree(r)
    /\ candidate' = [candidate EXCEPT
         ![g] = [run |-> r, no |-> NextNumber(r), parent |-> Nobody, text |-> Draft]]
    /\ UNCHANGED <<locking, operation, selection, active, task>>

\* Planning archives or restores the chapter.
SetActive(a) ==
    /\ ChapterFree
    /\ active' = a
    /\ UNCHANGED <<locking, candidate, operation, selection, task>>

-----------------------------------------------------------------------------
(* create_manual_edit_candidate                                            *)

\* Mutant of SameEdit: the text is not compared.
SameEditAnyText(q) ==
    /\ candidate[q.key].parent = q.target /\ candidate[q.key].run = q.run
    /\ candidate[q.target] # NoRow /\ candidate[q.target].no = q.no

\* _validate_manual_edit_replay: the stored edit is the one this body asks for.
SameEdit(q) ==
    /\ candidate[q.key].parent = q.target /\ candidate[q.key].run = q.run
    /\ candidate[q.key].text = q.text
    /\ candidate[q.target] # NoRow /\ candidate[q.target].no = q.no

ReplayEdit(w) ==
    LET q == Asked(w)
    IN  Answer(w, CASE ~Valid(candidate, q.key) -> "corrupt"
                    [] Valid(candidate, q.key) /\ SameEdit(q) -> "done"
                    [] OTHER -> "key_reused")

LookupEdit(w) ==
    /\ At(w, "lookup") /\ Is(w, "edit")
    /\ IF Asked(w).key \in Stored THEN ReplayEdit(w) ELSE Goto(w, "lock")
    /\ UNCHANGED rows

\* The parent is in the run, sound, the one the client saw, and really changed.
Editable(q) ==
    /\ q.target \in Stored /\ candidate[q.target].run = q.run
    /\ Valid(candidate, q.target)
    /\ candidate[q.target].no = q.no
    /\ candidate[q.target].text # q.text

LockRun(w) ==
    LET q == Asked(w)
    IN  /\ At(w, "lock") /\ Is(w, "edit")
        /\ RunFree(q.run)
        /\ IF q.key \in Stored THEN ReplayEdit(w)
           ELSE IF Editable(q)
           THEN task' = [task EXCEPT ![w].pc = "write", ![w].no = NextNumber(q.run)]
           ELSE Answer(w, "refused")
        /\ UNCHANGED rows

Edited(w) == [run |-> Asked(w).run, no |-> task[w].no,
              parent |-> Asked(w).target, text |-> Asked(w).text]

\* The primary key and uq_generation_candidate_run_version.
Insertable(w) == Asked(w).key \notin Stored /\ task[w].no \notin Numbers(Asked(w).run)

\* Mutant of WriteEdit: the new version's own lineage is not validated.
WriteEditUnread(w) ==
    /\ At(w, "write") /\ Is(w, "edit")
    /\ Insertable(w)
    /\ candidate' = [candidate EXCEPT ![Asked(w).key] = Edited(w)]
    /\ Answer(w, "done")
    /\ UNCHANGED <<locking, operation, selection, active>>

\* INSERT, then the response, which validates the new version before the commit and
\* rolls it back when its lineage has become too deep.
WriteEdit(w) ==
    LET k == Asked(w).key
        after == [candidate EXCEPT ![k] = Edited(w)]
    IN  /\ At(w, "write") /\ Is(w, "edit")
        /\ IF ~Insertable(w) THEN Goto(w, "raced") /\ UNCHANGED candidate
           ELSE IF ~Valid(after, k) THEN Answer(w, "corrupt") /\ UNCHANGED candidate
           ELSE /\ candidate' = after
                /\ Answer(w, "done") \/ (Crashes /\ Answer(w, "error"))
        /\ UNCHANGED <<locking, operation, selection, active>>

RacedEdit(w) ==
    /\ At(w, "raced") /\ Is(w, "edit")
    /\ IF Asked(w).key \in Stored THEN ReplayEdit(w) ELSE Answer(w, "version_conflict")
    /\ UNCHANGED rows

-----------------------------------------------------------------------------
(* select_generation_candidate                                             *)

\* _validate_operation_replay: the receipt is that of this very body.
ReplaySelect(w) ==
    Answer(w, IF operation[Asked(w).key].request = Asked(w) THEN "done" ELSE "key_reused")

LookupSelect(w) ==
    /\ At(w, "lookup") /\ Is(w, "select")
    /\ IF Asked(w).key \in Receipted THEN ReplaySelect(w) ELSE Goto(w, "lock")
    /\ UNCHANGED rows

\* The target is a sound candidate of this chapter, as the client saw it, and new.
Adoptable(q) ==
    /\ q.target \in Stored /\ candidate[q.target].run = q.run
    /\ Valid(candidate, q.target)
    /\ q.run \in OwnRuns
    /\ candidate[q.target].no = q.no
    /\ selection.shows # q.target

LockChapter(w) ==
    LET q == Asked(w)
    IN  /\ At(w, "lock") /\ Is(w, "select")
        /\ ChapterFree
        /\ IF ~active THEN Answer(w, "refused")
           ELSE IF q.key \in Receipted THEN ReplaySelect(w)
           ELSE IF selection.version # q.version THEN Answer(w, "version_conflict")
           ELSE IF Adoptable(q)
           THEN task' = [task EXCEPT ![w].pc = "write", ![w].seen = selection]
           ELSE Answer(w, "refused")
        /\ UNCHANGED rows

\* Mutant of Receiptable: no unique constraint on (chapter, result version).
ReceiptableTwice(w) == Asked(w).key \notin Receipted

\* The receipt's key and uq_candidate_selection_operation_chapter_version.
Receiptable(w) ==
    /\ Asked(w).key \notin Receipted
    /\ \A k \in Receipted : operation[k].previous.version # task[w].seen.version

\* INSERT of the receipt, then INSERT or UPDATE of the selection, in one commit.
WriteSelect(w) ==
    LET q == Asked(w)
    IN  /\ At(w, "write") /\ Is(w, "select")
        /\ IF ~Receiptable(w)
           THEN Goto(w, "raced") /\ UNCHANGED <<operation, selection>>
           ELSE /\ operation' = [operation EXCEPT
                     ![q.key] = [request |-> q, previous |-> task[w].seen]]
                /\ selection' = [version |-> task[w].seen.version + 1, shows |-> q.target]
                /\ Answer(w, "done") \/ (Crashes /\ Answer(w, "error"))
        /\ UNCHANGED <<locking, candidate, active>>

\* Mutant of RacedSelect: the operation is not looked up again.
RacedSelectGivesUp(w) ==
    /\ At(w, "raced") /\ Is(w, "select")
    /\ Answer(w, "version_conflict")
    /\ UNCHANGED rows

RacedSelect(w) ==
    /\ At(w, "raced") /\ Is(w, "select")
    /\ IF Asked(w).key \in Receipted THEN ReplaySelect(w) ELSE Answer(w, "version_conflict")
    /\ UNCHANGED rows

\* The request's process dies, or its commit fails: rolled back.
Die(w) ==
    /\ Crashes
    /\ ~At(w, "idle")
    /\ Answer(w, "none")
    /\ UNCHANGED rows

-----------------------------------------------------------------------------
Worker(w) ==
    \/ \E q \in Requests : Begin(w, q)
    \/ LookupEdit(w) \/ LockRun(w) \/ WriteEdit(w) \/ RacedEdit(w)
    \/ LookupSelect(w) \/ LockChapter(w) \/ WriteSelect(w) \/ RacedSelect(w)
    \/ Die(w)

Next ==
    \/ \E w \in Workers : Worker(w)
    \/ \E g \in Roots, r \in Runs : Generate(g, r)
    \/ \E a \in BOOLEAN : SetActive(a)

Spec == Init /\ [][Next]_vars

-----------------------------------------------------------------------------
(* Properties.                                                             *)

\* Rows and handlers have the shapes the schema declares.
TypeOK ==
    /\ candidate \in [Ids -> Candidates \cup {NoRow}]
    /\ operation \in [Keys -> Receipts \cup {NoRow}]
    /\ selection \in Selections
    /\ active \in BOOLEAN /\ locking \in BOOLEAN
    /\ task \in [Workers -> Tasks]

\* Every stored version can be read back: its lineage reaches a root within the
\* depth limit.  One version that could not would make every list of its run fail.
EveryVersionReadable == \A i \in Stored : Valid(candidate, i)

\* Whatever races for a number, the versions of a run are numbered 1, 2, 3, ...
\* without duplicate and without gap.
NumbersAreDense ==
    \A i, j \in Stored : candidate[i].run = candidate[j].run =>
        /\ candidate[i].no = candidate[j].no => i = j
        /\ \A n \in 1 .. candidate[i].no : n \in Numbers(candidate[i].run)

\* What a client was told was done, by its own request or a replay of it, is what it
\* asked for, and stays: a key never covers another body.
DoneStaysDone ==
    \A w \in Workers : At(w, "idle") /\ task[w].reply = "done" =>
        IF Is(w, "edit")
        THEN LET q == Asked(w)
             IN  /\ q.key \in Stored
                 /\ candidate[q.key].run = q.run /\ candidate[q.key].text = q.text
                 /\ candidate[q.key].parent = q.target /\ candidate[q.target].no = q.no
        ELSE Asked(w).key \in Receipted /\ operation[Asked(w).key].request = Asked(w)

\* A version conflict on a selection is final, as its retryable = False says: that
\* body has not been applied and never will be.
ConflictIsFinal ==
    \A w \in Workers : At(w, "idle") /\ Is(w, "select") /\ task[w].reply = "version_conflict" =>
        /\ Asked(w).key \in Receipted => operation[Asked(w).key].request # Asked(w)
        /\ selection.version # Asked(w).version

\* The adopted version moves only for an author who saw the version it moves from,
\* to a candidate of this chapter with the number that author saw.
ConfirmedMove ==
    selection' # selection =>
        \E w \in Workers :
            LET q == Asked(w) IN
            /\ At(w, "write") /\ q.kind = "select" /\ q.version = selection.version
            /\ selection' = [version |-> q.version + 1, shows |-> q.target]
            /\ q.run \in OwnRuns
            /\ q.target \in Stored /\ candidate[q.target].no = q.no
MovesAsConfirmed == [][ConfirmedMove]_vars

\* With row locks the adopted version never moves while its chapter is archived.
ArchivedStaysPut == [][locking /\ ~active => selection' = selection]_vars

\* Receipts and pointer together are the author's register of adopted versions.
Register == INSTANCE SelectionRegister WITH
    Values <- Ids,
    Nothing <- Nobody,
    pointer <- selection,
    history <- {<<operation[k].previous.version + 1, operation[k].request.target>> :
                  k \in Receipted}
ImplementsRegister == Register!Spec
=============================================================================
