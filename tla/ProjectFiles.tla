----------------------------- MODULE ProjectFiles -----------------------------
(***************************************************************************)
(* The files of one project beside its rows: the worldview that is saved   *)
(* into the database and exported into the project's directory             *)
(* (backend/app/api/worldview.py), and the deletion of the project, which  *)
(* moves that directory away first and removes it last                     *)
(* (backend/app/api/projects.py, core/project_files.py).                   *)
(*                                                                         *)
(* A save and a deletion lock the project row FOR UPDATE.  A save checks   *)
(* and commits under the lock in one step; its export comes after it, the  *)
(* row read again and the file written, each in a step of its own.  A      *)
(* deletion holds the lock while it moves the directory and until its      *)
(* commit; what it does to the files after that is outside.                *)
(*                                                                         *)
(* Abstractions: one owner, who saves from pages loaded at any time; a     *)
(* content stands for its checksum; the maintenance gate, the upgrade      *)
(* (LoreMigration) and a generation under way (GenerationExecution), which *)
(* refuse a request before it has done anything, are no steps; a temporary *)
(* file left behind is not seen.                                           *)
(***************************************************************************)
EXTENDS Naturals

CONSTANTS
    Saves,      \* requests that save the worldview
    Deletions,  \* requests that delete the project
    Contents,   \* worldviews
    None        \* no row, no directory, no file

ASSUME NoneIsNothing ==
    None \notin Contents /\ \A c \in Contents \cup {None} : [file |-> c] # None

VARIABLES
    live,      \* the projects row exists
    row,       \* the worldviews row
    dir,       \* the project's directory, with its worldview.json
    staged,    \* what each deletion moved to the staging directory
    save,      \* the saves: how far, what was seen, what is saved and read again
    deletion,  \* how far each deletion is, or how it ended
    exported   \* history: what was last written to worldview.json

vars == <<live, row, dir, staged, save, deletion, exported>>

Directories == [file : Contents \cup {None}]
SaveStages == {"idle", "sent", "refresh", "export",
               "saved", "stale", "gone", "error", "lost"}
DeleteStages == {"idle", "archive", "commit", "restore", "finalize", "deleted", "kept",
                 "restore_failed", "cleanup_failed", "gone", "lost"}
SaveRows == [stage : SaveStages, seen : Contents \cup {None},
             draft : Contents \cup {None}, read : Contents \cup {None}]

At(t, stage) == save[t].stage = stage
Goto(t, stage) == save' = [save EXCEPT ![t].stage = stage]
Proceed(d, stage) == deletion' = [deletion EXCEPT ![d] = stage]

\* Nobody holds the project FOR UPDATE.
LockFree == \A d \in Deletions : deletion[d] \notin {"archive", "commit"}

Init ==
    /\ live = TRUE /\ row = None /\ dir = None /\ exported = None
    /\ staged = [d \in Deletions |-> None]
    /\ save = [t \in Saves |-> [stage |-> "idle", seen |-> None, draft |-> None, read |-> None]]
    /\ deletion = [d \in Deletions |-> "idle"]

-----------------------------------------------------------------------------
(* Files (core/project_files.py) *)

\* save_worldview_file replaces the file as a whole; an error is logged only, and
\* the directory may have been made.
Export(c) ==
    \/ dir' = [file |-> c] /\ exported' = c
    \/ dir' \in {dir, IF dir = None THEN [file |-> None] ELSE dir} /\ UNCHANGED exported

\* archive_project_files: one rename, or nothing.
MoveAway(d) == staged' = [staged EXCEPT ![d] = dir] /\ dir' = None

\* restore_project_files, never onto a directory that is there again.
MoveBack(d) == dir = None /\ dir' = staged[d] /\ staged' = [staged EXCEPT ![d] = None]

\* finalize_project_file_delete
Remove(d) == staged' = [staged EXCEPT ![d] = None]

-----------------------------------------------------------------------------
(* Saving the worldview (set_worldview) *)

\* The author edits the worldview he sees, or sends again what he sent before.
Send(t, content) ==
    /\ At(t, "idle") /\ live
    /\ \E seen \in {row} \cup {save[u].seen : u \in {v \in Saves : ~At(v, "idle")}} :
          save' = [save EXCEPT ![t] = [stage |-> "sent", seen |-> seen,
                                       draft |-> content, read |-> None]]
    /\ UNCHANGED <<live, row, dir, staged, deletion, exported>>

\* Mutant: a draft is taken whatever it was made from.
AnyDraft(t) == TRUE

\* The row is the one the draft was made from (expected_source_checksum).
Current(t) == row = None \/ save[t].seen = row

\* Under the lock: the check and the commit, which may apply and yet fail.
Save(t) ==
    /\ At(t, "sent") /\ LockFree /\ live
    /\ Current(t)
    /\ row' = save[t].draft
    /\ Goto(t, "refresh") \/ Goto(t, "lost")
    /\ UNCHANGED <<live, dir, staged, deletion, exported>>

\* A draft that is saved already is exported once more, any other is refused.
SaveAgain(t) ==
    /\ At(t, "sent") /\ LockFree /\ live
    /\ ~Current(t)
    /\ \/ save[t].draft = row /\ Export(row) /\ Goto(t, "saved")
       \/ save[t].draft # row /\ Goto(t, "stale") /\ UNCHANGED <<dir, exported>>
    /\ UNCHANGED <<live, row, staged, deletion>>

SaveNothing(t) ==
    /\ At(t, "sent") /\ LockFree /\ ~live
    /\ Goto(t, "gone")
    /\ UNCHANGED <<live, row, dir, staged, deletion, exported>>

\* db.refresh: the row as it is now, perhaps another save's.
Refresh(t) ==
    /\ At(t, "refresh")
    /\ IF live THEN save' = [save EXCEPT ![t].stage = "export", ![t].read = row]
       ELSE Goto(t, "error")
    /\ UNCHANGED <<live, row, dir, staged, deletion, exported>>

ExportSaved(t) ==
    /\ At(t, "export")
    /\ Export(save[t].read)
    /\ Goto(t, "saved")
    /\ UNCHANGED <<live, row, staged, deletion>>

\* The process dies or the request is cancelled, before its commit or after.
LoseSave(t) ==
    /\ \/ At(t, "sent") /\ Goto(t, "gone")
       \/ (At(t, "refresh") \/ At(t, "export")) /\ Goto(t, "lost")
    /\ UNCHANGED <<live, row, dir, staged, deletion, exported>>

-----------------------------------------------------------------------------
(* Deleting the project (delete_project) *)

Lock(d) ==
    /\ deletion[d] = "idle" /\ LockFree
    /\ Proceed(d, IF live THEN "archive" ELSE "gone")
    /\ UNCHANGED <<live, row, dir, staged, save, exported>>

\* A directory that cannot be moved leaves the project as it was.
Archive(d) ==
    /\ deletion[d] = "archive"
    /\ \/ MoveAway(d) /\ Proceed(d, "commit")
       \/ dir # None /\ Proceed(d, "kept") /\ UNCHANGED <<dir, staged>>
    /\ UNCHANGED <<live, row, save, exported>>

\* Mutant: the staged files are removed before the commit.
CommitAfterRemoval(d) ==
    /\ deletion[d] = "commit"
    /\ Remove(d)
    /\ \/ live' = FALSE /\ row' = None /\ (Proceed(d, "finalize") \/ Proceed(d, "restore"))
       \/ Proceed(d, "restore") /\ UNCHANGED <<live, row>>
    /\ UNCHANGED <<dir, save, exported>>

\* The rows go with the project; a commit may apply and yet be reported failed.
Commit(d) ==
    /\ deletion[d] = "commit"
    /\ \/ live' = FALSE /\ row' = None /\ (Proceed(d, "finalize") \/ Proceed(d, "restore"))
       \/ Proceed(d, "restore") /\ UNCHANGED <<live, row>>
    /\ UNCHANGED <<dir, staged, save, exported>>

\* Mutant: files that cannot be moved back are not spoken of.
RestoreInSilence(d) ==
    /\ deletion[d] = "restore"
    /\ \/ staged[d] # None /\ MoveBack(d)
       \/ UNCHANGED <<dir, staged>>
    /\ Proceed(d, "kept")
    /\ UNCHANGED <<live, row, save, exported>>

\* After the rollback, when the lock is gone.
Restore(d) ==
    /\ deletion[d] = "restore"
    /\ \/ staged[d] = None /\ Proceed(d, "kept") /\ UNCHANGED <<dir, staged>>
       \/ staged[d] # None /\ MoveBack(d) /\ Proceed(d, "kept")
       \/ staged[d] # None /\ Proceed(d, "restore_failed") /\ UNCHANGED <<dir, staged>>
    /\ UNCHANGED <<live, row, save, exported>>

Finalize(d) ==
    /\ deletion[d] = "finalize"
    /\ \/ Remove(d) /\ Proceed(d, "deleted")
       \/ staged[d] # None /\ Proceed(d, "cleanup_failed") /\ UNCHANGED staged
    /\ UNCHANGED <<live, row, dir, save, exported>>

\* The process dies or the request is cancelled; its transaction is rolled back.
LoseDeletion(d) ==
    /\ deletion[d] \in {"archive", "commit", "restore", "finalize"}
    /\ Proceed(d, "lost")
    /\ UNCHANGED <<live, row, dir, staged, save, exported>>

-----------------------------------------------------------------------------
Saving(t) ==
    \/ \E c \in Contents : Send(t, c)
    \/ Save(t) \/ SaveAgain(t) \/ SaveNothing(t) \/ Refresh(t) \/ ExportSaved(t) \/ LoseSave(t)

Deleting(d) ==
    Lock(d) \/ Archive(d) \/ Commit(d) \/ Restore(d) \/ Finalize(d) \/ LoseDeletion(d)

Next == (\E t \in Saves : Saving(t)) \/ (\E d \in Deletions : Deleting(d))

Spec == Init /\ [][Next]_vars

-----------------------------------------------------------------------------
(* Properties *)

\* Rows, directories and requests have their shapes.
TypeOK ==
    /\ live \in BOOLEAN
    /\ row \in Contents \cup {None} /\ exported \in Contents \cup {None}
    /\ dir \in Directories \cup {None}
    /\ staged \in [Deletions -> Directories \cup {None}]
    /\ save \in [Saves -> SaveRows]
    /\ deletion \in [Deletions -> DeleteStages]

\* While the project lives the worldview exported last is still on disk, in place
\* or in staging, however deletions fail, race or die and saves make the
\* directory anew beneath them.
ExportSurvives ==
    live /\ exported # None =>
        \/ dir = [file |-> exported]
        \/ \E d \in Deletions : staged[d] = [file |-> exported]

\* Files that a deletion moved away come back or are removed, or somebody was told
\* that they did not (or the process died): a project is never said to be kept
\* while its files are in staging.
StagedIsTold ==
    \A d \in Deletions : staged[d] # None =>
        deletion[d] \in {"commit", "restore", "finalize", "restore_failed", "cleanup_failed", "lost"}

Committed(t) == save[t].stage \in {"refresh", "export", "saved", "error", "lost"}

\* What an author saved is only replaced by somebody who had it before him,
\* through retries, lost answers and pages of any age.
NoLostDraft ==
    \A t \in Saves : Committed(t) /\ live /\ row # save[t].draft =>
        \E u \in Saves :
            Committed(u) /\ save[u].seen = save[t].draft /\ save[u].draft # save[t].draft
=============================================================================
