---------------------------- MODULE LegacyChapters ----------------------------
(***************************************************************************)
(* The chapters of one project whose planning is the legacy outline        *)
(* (backend/app/api/chapters.py): streamed generation of one chapter or a  *)
(* batch, edits beside it, and what hangs on the chapters: the continuity  *)
(* memory (backend/app/core/memory_store.py) and the project's status.     *)
(*                                                                         *)
(* A worker is one request.  A stream lives for minutes in one database    *)
(* session, whose objects stay as they were first loaded: a later SELECT   *)
(* does not refresh them and an UPDATE holds only the columns that differ  *)
(* from what was loaded (Column).  The set of active generations belongs   *)
(* to one process.                                                         *)
(*                                                                         *)
(* A save is one step: from its flush on it holds the row of the memory,   *)
(* which every other save and every edit of a text writes too, so that     *)
(* nothing it counts can change before its commit.                         *)
(*                                                                         *)
(* Abstractions: a text stands for its summary and timeline entry; titles, *)
(* word counts, revealed elements and prompts are left out, and whether an *)
(* outline, a worldview or a memory can be read is a choice of the step    *)
(* that reads it; the creation of the memory row is atomic; the            *)
(* maintenance switch is off.                                              *)
(***************************************************************************)
EXTENDS Naturals, FiniteSets

CONSTANTS
    Processes,
    Workers,        \* requests in flight
    Home,           \* the process each of them runs in
    Last,           \* the highest chapter number
    Total,          \* total_chapters when the project was created
    Totals,         \* the values a later edit of the project gives it
    Drafts,         \* texts the model writes
    Edits,          \* texts the author writes
    Regenerates,    \* kinds of streams that are asked for chapters that exist already
    SavesWorldview, \* the worldview is saved while chapters are written
    Fails,          \* a commit may fail, a client may disconnect
    Nothing         \* no row, not loaded, no text

ASSUME LegacyConstants ==
    /\ Home \in [Workers -> Processes]
    /\ Last \in Nat /\ Total \in 1 .. Last /\ Totals \subseteq 1 .. Last
    /\ Regenerates \subseteq {"single", "all"} /\ SavesWorldview \in BOOLEAN /\ Fails \in BOOLEAN
    /\ Nothing \notin Drafts \cup Edits

VARIABLES
    project,   \* status and total_chapters
    planned,   \* history: the values that total_chapters has had
    chapter,   \* chapters, by number
    memory,    \* story_memories: the text each summary and event was made from
    active,    \* _active_generation_projects, by process
    task       \* the request of each worker, with its session

db == <<project, chapter, memory>>
vars == <<db, planned, active, task>>

Nums == 1 .. Last
Texts == Drafts \cup Edits
Statuses == {"worldview_set", "writing", "completed"}
Projects == [status : Statuses, total : Nums]
Chapters == [text : Texts, status : {"generated", "edited"}]
Memories == [Nums -> Texts \cup {Nothing}]

ASSUME NothingIsNoRow == Nothing \notin Chapters \cup Projects

Kinds == {"single", "missing", "all", "content", "title"}
PCs == {"idle", "open", "begin", "stream", "save", "write", "loaded", "held"}

\* todo: the chapters still to generate, the current one included, or the one edited;
\* proj, rows and mem: the session's copies.
Tasks == [pc : PCs, kind : Kinds, todo : SUBSET Nums, text : Texts \cup {Nothing},
          proj : Projects \cup {Nothing},
          rows : [Nums -> Chapters \cup {Nothing}],
          mem : Memories \cup {Nothing}]

At(w, p) == task[w].pc = p
Num(w) == CHOOSE n \in task[w].todo : \A m \in task[w].todo : n <= m
Unread == [n \in Nums |-> Nothing]
Idle == [pc |-> "idle", kind |-> "single", todo |-> {}, text |-> Nothing,
         proj |-> Nothing, rows |-> Unread, mem |-> Nothing]
Streams == {"single", "missing", "all"}

\* What an UPDATE leaves in a column that held now, when the session loaded old and set new.
Column(old, new, now) == IF new = old THEN now ELSE new

\* Every stored chapter is usable: its status is generated or edited.
Stored == {n \in Nums : chapter[n] # Nothing}

\* Mutant of Completion: one chapter early.
CompletionEarly(count, total) == IF count + 1 >= total THEN "completed" ELSE "writing"

\* Mutant of Completion: one chapter late.
CompletionLate(count, total) == IF count > total THEN "completed" ELSE "writing"

\* _refresh_project_completion_status
Completion(count, total) == IF count >= total THEN "completed" ELSE "writing"

-----------------------------------------------------------------------------
Init ==
    /\ project = [status |-> "worldview_set", total |-> Total]
    /\ planned = {Total}
    /\ chapter = [n \in Nums |-> Nothing]
    /\ memory = Nothing
    /\ active = [p \in Processes |-> FALSE]
    /\ task = [w \in Workers |-> Idle]

(* Streams.                                                                *)

Admitted(w) == ~active[Home[w]]

Todo(kind, n) ==
    CASE kind = "single"  -> {n}
      [] kind = "missing" -> (1 .. project.total) \ Stored
      [] kind = "all"     -> 1 .. project.total

\* The active set is checked and joined without an await.  Then the session loads the
\* project, a batch also its chapters; with nothing to do it ends at once, and so does a
\* batch without a readable outline and worldview.
Open(w, kind, n) ==
    /\ At(w, "idle") /\ kind \in Streams
    /\ n <= project.total
    /\ kind \in Regenerates \/ kind = "missing" \/ (kind = "single" /\ n \notin Stored)
    /\ Admitted(w) /\ Todo(kind, n) # {}
    /\ active' = [active EXCEPT ![Home[w]] = TRUE]
    /\ task' = [task EXCEPT ![w] =
         [Idle EXCEPT !.pc = IF kind = "single" THEN "begin" ELSE "open",
                      !.kind = kind, !.todo = Todo(kind, n),
                      !.proj = project, !.rows = IF kind = "single" THEN Unread ELSE chapter]]
    /\ UNCHANGED db

\* Mutant of Leave: no finally block.
LeaveActive(w) == task' = [task EXCEPT ![w] = Idle] /\ UNCHANGED active

\* The generator is finished or closed, the session with it.
Leave(w) ==
    /\ task' = [task EXCEPT ![w] = Idle]
    /\ active' = IF task[w].kind \in Streams THEN [active EXCEPT ![Home[w]] = FALSE] ELSE active

\* On to the next chapter with session t, or the end.  The memory was a local variable
\* of the chapter's generator; the project and the chapters loaded by Open stay alive.
Proceed(w, t) ==
    LET rest == task[w].todo \ {Num(w)}
    IN  IF rest = {} THEN Leave(w)
        ELSE /\ task' = [task EXCEPT ![w] =
                  [t EXCEPT !.pc = "begin", !.todo = rest, !.text = Nothing, !.mem = Nothing]]
             /\ UNCHANGED active

\* A project that is written to is writing, unless it is completed already.
WritingStatus(p) == IF p.status = "completed" THEN "completed" ELSE "writing"

\* A batch sets the project writing and commits before its first chapter.
OpenBatch(w) ==
    LET p == task[w].proj
        status == WritingStatus(p)
    IN  /\ At(w, "open")
        /\ project' = [project EXCEPT !.status = Column(p.status, status, @)]
        /\ task' = [task EXCEPT ![w].pc = "begin", ![w].proj.status = status]
        /\ UNCHANGED <<chapter, memory, active>>

\* Get or create the memory, set the project writing, commit.  Objects that a rollback
\* expired are loaded again.  A number out of range, an outline or a worldview that cannot
\* be read ends the chapter before, a memory that cannot be read with a rollback.
Begin(w) ==
    LET p == IF task[w].proj = Nothing THEN project ELSE task[w].proj
        status == WritingStatus(p)
        m == IF memory = Nothing THEN Unread ELSE memory
    IN  /\ At(w, "begin")
        /\ \/ /\ Num(w) <= p.total
              /\ memory' = m
              /\ project' = [project EXCEPT !.status = Column(p.status, status, @)]
              /\ task' = [task EXCEPT
                   ![w].pc = "stream", ![w].proj = [p EXCEPT !.status = status], ![w].mem = m]
              /\ UNCHANGED <<chapter, active>>
           \/ Proceed(w, [task[w] EXCEPT !.proj = p]) /\ UNCHANGED db
           \/ Proceed(w, [task[w] EXCEPT !.proj = Nothing, !.rows = Unread]) /\ UNCHANGED db

\* The model answers with a text, or the answer is empty, cut off or broken and nothing
\* is saved.
Stream(w) ==
    /\ At(w, "stream")
    /\ \/ /\ \E d \in Drafts : task' = [task EXCEPT ![w].pc = "save", ![w].text = d]
          /\ UNCHANGED active
       \/ Proceed(w, task[w])
    /\ UNCHANGED db

\* SELECT of the chapter: one that the session holds already stays as it was loaded.
Save(w) ==
    /\ At(w, "save")
    /\ task' = [task EXCEPT
         ![w].pc = "write", ![w].rows[Num(w)] = IF @ = Nothing THEN chapter[Num(w)] ELSE @]
    /\ UNCHANGED <<db, active>>

\* An edit holds the row of its chapter from its first flush to its commit.
RowFree(w, n) == \A v \in Workers \ {w} : ~(At(v, "held") /\ n \in task[v].todo)

\* The row that writing new leaves, by a session that loaded old.
Updated(n, old, new) ==
    IF old = Nothing THEN new
    ELSE [text |-> Column(old.text, new.text, chapter[n].text),
          status |-> Column(old.status, new.status, chapter[n].status)]

\* Flush, count, commit.  An INSERT that meets the unique constraint is raised by the
\* count's autoflush, outside the handlers of a failed save, and ends the stream; a
\* commit that fails expires the session and a batch goes on.
Write(w) ==
    LET t == task[w]
        n == Num(w)
        new == [text |-> t.text, status |-> "generated"]
        mem == [t.mem EXCEPT ![n] = t.text]
        status == Completion(Cardinality(Stored \cup {n}), t.proj.total)
    IN  /\ At(w, "write")
        /\ RowFree(w, n)
        /\ IF t.rows[n] = Nothing /\ n \in Stored THEN Leave(w) /\ UNCHANGED db
           ELSE \/ /\ chapter' = [chapter EXCEPT ![n] = Updated(n, t.rows[n], new)]
                   /\ memory' = Column(t.mem, mem, memory)
                   /\ project' = [project EXCEPT !.status = Column(t.proj.status, status, @)]
                   /\ Proceed(w, [t EXCEPT !.rows[n] = new, !.proj.status = status])
                \/ /\ Fails
                   /\ Proceed(w, [t EXCEPT !.rows = Unread, !.proj = Nothing])
                   /\ UNCHANGED db

-----------------------------------------------------------------------------
(* update_chapter                                                          *)

EditLoad(w, kind, n, text) ==
    /\ At(w, "idle") /\ kind \in {"content", "title"}
    /\ n \in Stored
    /\ task' = [task EXCEPT ![w] =
         [Idle EXCEPT !.pc = "loaded", !.kind = kind, !.todo = {n}, !.text = text,
                      !.proj = project, !.rows[n] = chapter[n]]]
    /\ UNCHANGED <<db, active>>

\* The SELECT of the memory flushes the new text first, which locks the chapter's row.
EditHold(w) ==
    /\ At(w, "loaded") /\ task[w].kind = "content"
    /\ RowFree(w, Num(w))
    /\ task' = [task EXCEPT ![w].pc = "held", ![w].mem = memory]
    /\ UNCHANGED <<db, active>>

EditSave(w) ==
    LET t == task[w]
        n == Num(w)
        old == t.rows[n]
        new == [text |-> IF t.kind = "content" THEN t.text ELSE old.text, status |-> "edited"]
        status == Completion(Cardinality(Stored), t.proj.total)
    IN  /\ At(w, "held") \/ (At(w, "loaded") /\ t.kind = "title")
        /\ RowFree(w, n)
        /\ chapter' = [chapter EXCEPT ![n] = Updated(n, old, new)]
        /\ memory' = IF t.kind = "content"
                     THEN Column(t.mem, [t.mem EXCEPT ![n] = t.text], memory)
                     ELSE memory
        /\ project' = [project EXCEPT !.status = Column(t.proj.status, status, @)]
        /\ Leave(w)

-----------------------------------------------------------------------------
\* The client disconnects or the request fails: what was not committed is rolled back.
Drop(w) ==
    /\ Fails
    /\ ~At(w, "idle")
    /\ Leave(w)
    /\ UNCHANGED db

\* update_project
SetTotal(t) ==
    /\ project' = [project EXCEPT !.total = t]
    /\ planned' = planned \cup {t}
    /\ UNCHANGED <<chapter, memory, active, task>>

\* set_worldview
SaveWorldview ==
    /\ SavesWorldview
    /\ project' = [project EXCEPT !.status = "worldview_set"]
    /\ UNCHANGED <<planned, chapter, memory, active, task>>

Handler(w) ==
    \/ OpenBatch(w) \/ Begin(w) \/ Stream(w) \/ Save(w) \/ Write(w)
    \/ EditHold(w) \/ EditSave(w)

Next ==
    \/ /\ \E w \in Workers :
            \/ \E kind \in Streams, n \in Nums : Open(w, kind, n)
            \/ \E kind \in {"content", "title"}, n \in Nums, text \in Edits :
                 EditLoad(w, kind, n, text)
            \/ Handler(w)
            \/ Drop(w)
       /\ UNCHANGED planned
    \/ \E t \in Totals : SetTotal(t)
    \/ SaveWorldview

Spec == Init /\ [][Next]_vars

-----------------------------------------------------------------------------
(* Properties.                                                             *)

\* Rows, sessions and the active set have their shapes.
TypeOK ==
    /\ project \in Projects
    /\ planned \in SUBSET Nums
    /\ chapter \in [Nums -> Chapters \cup {Nothing}]
    /\ memory \in Memories \cup {Nothing}
    /\ active \in [Processes -> BOOLEAN]
    /\ task \in [Workers -> Tasks]

AllUsable == 1 .. project.total \subseteq Stored

\* A project that is shown as completed has as many chapters as some number that was planned
\* asks for, and if the number was never edited it has all of them, whatever streams, edits
\* and worldview saves left stale in their sessions.
CompletedAsPlanned ==
    project.status = "completed" =>
        /\ \E t \in planned : Cardinality(Stored) >= t
        /\ planned = {Total} => AllUsable

\* The save of the last missing chapter marks the project completed in its own commit, as
\* long as the number of chapters was not edited.
LastSave ==
    AllUsable' /\ ~AllUsable /\ planned' = {Total} => project'.status = "completed"
LastSaveCompletes == [][LastSave]_vars

\* However a stream ends, the project can be generated again; and while one runs, no
\* other starts in that process.
ActiveIsOneStream ==
    \A p \in Processes :
        Cardinality({w \in Workers : Home[w] = p /\ ~At(w, "idle") /\ task[w].kind \in Streams})
            = IF active[p] THEN 1 ELSE 0
=============================================================================
