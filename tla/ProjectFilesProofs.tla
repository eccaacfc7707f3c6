--------------------------- MODULE ProjectFilesProofs ---------------------------
(***************************************************************************)
(* Proofs about ProjectFiles for any numbers of saves, deletions and       *)
(* contents.  The inductive invariant adds to the three properties what    *)
(* they rest on: a deletion that is past its commit has no project left, a *)
(* draft on its way is a content, and the row a committed draft was put in *)
(* shows it until somebody who had seen it saves another.                  *)
(***************************************************************************)
EXTENDS ProjectFiles, TLAPS

\* A deletion that committed leaves no project.
PastCommit ==
    \A d \in Deletions : deletion[d] \in {"finalize", "deleted", "cleanup_failed"} => ~live

\* What was sent is a content.
DraftIsContent == \A t \in Saves : ~At(t, "idle") => save[t].draft \in Contents

IInv == TypeOK /\ PastCommit /\ DraftIsContent /\ ExportSurvives /\ StagedIsTold /\ NoLostDraft

LEMMA InitHolds == Init => IInv
  BY SMT, NoneIsNothing DEF Init, IInv, TypeOK, PastCommit, DraftIsContent, ExportSurvives,
     StagedIsTold, NoLostDraft, Committed, At, SaveRows, SaveStages, DeleteStages, Directories

-----------------------------------------------------------------------------
(* Types *)

LEMMA SaveTyped ==
  ASSUME TypeOK, NEW t \in Saves, Saving(t)
  PROVE  TypeOK'
<1>1. ASSUME NEW c \in Contents, Send(t, c) PROVE TypeOK'
  BY <1>1 DEF TypeOK, Send, At, SaveRows, SaveStages
<1>2. CASE Save(t)
  BY <1>2, NoneIsNothing DEF TypeOK, Save, Goto, At, SaveRows, SaveStages
<1>3. CASE SaveAgain(t)
  <2>1. save' \in [Saves -> SaveRows]
    BY <1>3 DEF TypeOK, SaveAgain, Goto, At, SaveRows, SaveStages
  <2>2. row \in Contents
    BY <1>3 DEF TypeOK, SaveAgain, Current, Goto
  <2>3. dir' \in Directories \cup {None} /\ exported' \in Contents \cup {None}
    BY <1>3, <2>2 DEF TypeOK, SaveAgain, Export, Directories
  <2> QED BY <1>3, <2>1, <2>3 DEF TypeOK, SaveAgain
<1>4. CASE SaveNothing(t)
  BY <1>4 DEF TypeOK, SaveNothing, Goto, SaveRows, SaveStages
<1>5. CASE Refresh(t)
  BY <1>5 DEF TypeOK, Refresh, Goto, At, SaveRows, SaveStages
<1>6. CASE ExportSaved(t)
  <2>1. save' \in [Saves -> SaveRows]
    BY <1>6 DEF TypeOK, ExportSaved, Goto, At, SaveRows, SaveStages
  <2>2. save[t].read \in Contents \cup {None}
    BY DEF TypeOK, SaveRows
  <2>3. dir' \in Directories \cup {None} /\ exported' \in Contents \cup {None}
    BY <1>6, <2>2 DEF TypeOK, ExportSaved, Export, Directories
  <2> QED BY <1>6, <2>1, <2>3 DEF TypeOK, ExportSaved
<1>7. CASE LoseSave(t)
  BY <1>7 DEF TypeOK, LoseSave, Goto, At, SaveRows, SaveStages
<1> QED BY <1>1, <1>2, <1>3, <1>4, <1>5, <1>6, <1>7 DEF Saving

LEMMA DeletionTyped ==
  ASSUME TypeOK, NEW d \in Deletions, Deleting(d)
  PROVE  TypeOK'
<1>1. CASE Lock(d) BY <1>1 DEF TypeOK, Lock, Proceed, DeleteStages
<1>2. CASE Archive(d) BY <1>2 DEF TypeOK, Archive, MoveAway, Proceed, DeleteStages
<1>3. CASE Commit(d) BY <1>3 DEF TypeOK, Commit, Proceed, DeleteStages
<1>4. CASE Restore(d) BY <1>4 DEF TypeOK, Restore, MoveBack, Proceed, DeleteStages
<1>5. CASE Finalize(d) BY <1>5 DEF TypeOK, Finalize, Remove, Proceed, DeleteStages
<1>6. CASE LoseDeletion(d) BY <1>6 DEF TypeOK, LoseDeletion, Proceed, DeleteStages
<1> QED BY <1>1, <1>2, <1>3, <1>4, <1>5, <1>6 DEF Deleting

-----------------------------------------------------------------------------
(* Deletions: none of them touches a save, and the row goes with the project. *)

LEMMA DeletionKeeps ==
  ASSUME IInv, NEW d \in Deletions, Deleting(d)
  PROVE  PastCommit' /\ DraftIsContent' /\ ExportSurvives' /\ StagedIsTold' /\ NoLostDraft'
<1> USE DEF IInv
<1>0. TypeOK /\ deletion \in [Deletions -> DeleteStages]
  BY DEF TypeOK
<1>1. UNCHANGED save /\ (UNCHANGED row \/ ~live') /\ (live' => live) /\ UNCHANGED exported
  BY DEF Deleting, Lock, Archive, Commit, Restore, Finalize, LoseDeletion
<1>2. DraftIsContent' BY <1>1 DEF DraftIsContent, At
<1>3. NoLostDraft' BY <1>1 DEF NoLostDraft, Committed
<1>4. PastCommit'
  <2>1. \A x \in Deletions \ {d} : deletion'[x] = deletion[x]
    BY <1>0 DEF Deleting, Lock, Archive, Commit, Restore, Finalize, LoseDeletion, Proceed
  <2>2. deletion'[d] \in {"finalize", "deleted", "cleanup_failed"} => ~live'
    BY <1>0 DEF Deleting, Lock, Archive, Commit, Restore, Finalize, LoseDeletion, Proceed, PastCommit
  <2> QED BY <1>1, <2>1, <2>2 DEF PastCommit
<1>5. StagedIsTold'
  <2>0. staged \in [Deletions -> Directories \cup {None}]
    BY DEF TypeOK
  <2>1. \A x \in Deletions \ {d} : deletion'[x] = deletion[x] /\ staged'[x] = staged[x]
    BY <1>0, <2>0 DEF Deleting, Lock, Archive, Commit, Restore, Finalize, LoseDeletion, Proceed,
       MoveAway, MoveBack, Remove
  <2>2. staged'[d] # None => deletion'[d] \in
          {"commit", "restore", "finalize", "restore_failed", "cleanup_failed", "lost"}
    <3>1. CASE Lock(d) BY <3>1, <1>0 DEF Lock, StagedIsTold
    <3>2. CASE Archive(d) BY <3>2, <1>0, <2>0 DEF Archive, MoveAway, Proceed, StagedIsTold
    <3>3. CASE Commit(d) BY <3>3, <1>0 DEF Commit, Proceed
    <3>4. CASE Restore(d) BY <3>4, <1>0, <2>0 DEF Restore, MoveBack, Proceed
    <3>5. CASE Finalize(d) BY <3>5, <1>0, <2>0 DEF Finalize, Remove, Proceed
    <3>6. CASE LoseDeletion(d) BY <3>6, <1>0 DEF LoseDeletion, Proceed
    <3> QED BY <3>1, <3>2, <3>3, <3>4, <3>5, <3>6 DEF Deleting
  <2> QED BY <2>1, <2>2 DEF StagedIsTold
<1>6. ExportSurvives'
  <2> SUFFICES ASSUME live', exported # None
               PROVE  \/ dir' = [file |-> exported]
                      \/ \E x \in Deletions : staged'[x] = [file |-> exported]
    BY <1>1 DEF ExportSurvives
  <2>0. staged \in [Deletions -> Directories \cup {None}] /\ [file |-> exported] # None
    BY NoneIsNothing, <1>0 DEF TypeOK
  <2>1. dir = [file |-> exported] \/ \E x \in Deletions : staged[x] = [file |-> exported]
    BY <1>1 DEF ExportSurvives
  <2>2. CASE Lock(d) BY <2>1, <2>2 DEF Lock
  <2>3. CASE Archive(d)
    <3>1. CASE MoveAway(d)
      <4>1. staged[d] = None BY <2>3 DEF Archive, StagedIsTold
      <4>2. dir = [file |-> exported] => staged'[d] = [file |-> exported]
        BY <3>1, <2>0 DEF MoveAway
      <4>3. \A x \in Deletions : staged[x] = [file |-> exported] => staged'[x] = [file |-> exported]
        BY <3>1, <4>1, <2>0 DEF MoveAway
      <4> QED BY <2>1, <4>2, <4>3
    <3>2. CASE UNCHANGED <<dir, staged>> BY <2>1, <3>2
    <3> QED BY <2>3, <3>1, <3>2 DEF Archive
  <2>4. CASE Commit(d) BY <2>1, <2>4 DEF Commit
  <2>5. CASE Restore(d)
    <3>1. CASE MoveBack(d)
      <4>1. PICK x \in Deletions : staged[x] = [file |-> exported]
        BY <2>1, <3>1, <2>0 DEF MoveBack
      <4>2. CASE x = d BY <3>1, <4>1, <4>2 DEF MoveBack
      <4>3. CASE x # d BY <3>1, <4>1, <4>3, <2>0 DEF MoveBack
      <4> QED BY <4>2, <4>3
    <3>2. CASE UNCHANGED <<dir, staged>> BY <2>1, <3>2
    <3> QED BY <2>5, <3>1, <3>2 DEF Restore
  <2>6. ~Finalize(d) BY <1>1 DEF Finalize, PastCommit
  <2>7. CASE LoseDeletion(d) BY <2>1, <2>7 DEF LoseDeletion
  <2> QED BY <2>2, <2>3, <2>4, <2>5, <2>6, <2>7 DEF Deleting
<1> QED BY <1>2, <1>3, <1>4, <1>5, <1>6

-----------------------------------------------------------------------------
(* Saves: none of them touches a deletion. *)

LEMMA ExportKeeps ==
  ASSUME TypeOK, ExportSurvives, NEW c \in Contents \cup {None}, Export(c),
         UNCHANGED <<live, staged>>
  PROVE  ExportSurvives'
<1>1. CASE dir' = [file |-> c] /\ exported' = c
  BY <1>1 DEF ExportSurvives
<1>2. CASE dir' \in {dir, IF dir = None THEN [file |-> None] ELSE dir} /\ UNCHANGED exported
  <2>1. exported \in Contents \cup {None} BY DEF TypeOK
  <2>2. dir = [file |-> exported] => dir' = dir BY <1>2, <2>1, NoneIsNothing
  <2> QED BY <1>2, <2>2 DEF ExportSurvives
<1> QED BY <1>1, <1>2 DEF Export

\* A save that is put in the row was made from what it replaces.
LEMMA RowReplaced ==
  ASSUME TypeOK, DraftIsContent, NoLostDraft, NEW t \in Saves, Save(t)
  PROVE  NoLostDraft'
<1>0. save \in [Saves -> SaveRows] /\ save[t].draft \in Contents /\ row' = save[t].draft
  BY DEF TypeOK, DraftIsContent, Save, At
<1>1. \A u \in Saves \ {t} : save'[u] = save[u]
  BY <1>0 DEF Save, Goto
<1>2. /\ save'[t].draft = save[t].draft /\ save'[t].seen = save[t].seen
      /\ Committed(t)' /\ ~Committed(t)
  BY <1>0 DEF Save, Goto, At, Committed, SaveRows
<1>3. ASSUME NEW v \in Saves, Committed(v)', live', row' # save'[v].draft
      PROVE  \E u \in Saves : Committed(u)' /\ save'[u].seen = save'[v].draft
                                /\ save'[u].draft # save'[v].draft
  <2>1. v # t /\ save'[v] = save[v] /\ Committed(v)
    BY <1>0, <1>1, <1>2, <1>3 DEF Committed
  <2>2. save[v].draft \in Contents
    BY <2>1 DEF DraftIsContent, Committed, At
  <2>3. CASE row = save[v].draft
    <3>1. save[t].seen = save[v].draft
      BY <2>2, <2>3, NoneIsNothing DEF Save, Current
    <3> QED BY <1>0, <1>2, <1>3, <2>1, <3>1
  <2>4. CASE row # save[v].draft
    <3>1. PICK u \in Saves : Committed(u) /\ save[u].seen = save[v].draft /\ save[u].draft # save[v].draft
      BY <1>3, <2>1, <2>4 DEF NoLostDraft, Save
    <3>2. u # t BY <3>1, <1>2
    <3>3. save'[u] = save[u] BY <1>1, <3>2
    <3>4. Committed(u)' BY <3>1, <3>3 DEF Committed
    <3> QED BY <2>1, <3>1, <3>3, <3>4
  <2> QED BY <2>3, <2>4
<1> QED BY <1>3 DEF NoLostDraft

\* A save whose stage moves on without the row.
LEMMA RowStays ==
  ASSUME NoLostDraft, UNCHANGED <<live, row>>, NEW t \in Saves,
         \A u \in Saves \ {t} : save'[u] = save[u],
         save'[t].draft = save[t].draft, save'[t].seen = save[t].seen,
         Committed(t) => Committed(t)',
         Committed(t)' => Committed(t) \/ row = save[t].draft
  PROVE  NoLostDraft'
<1>1. ASSUME NEW v \in Saves, Committed(v)', live', row' # save'[v].draft
      PROVE  \E u \in Saves : Committed(u)' /\ save'[u].seen = save'[v].draft
                                /\ save'[u].draft # save'[v].draft
  <2>1. Committed(v) /\ save'[v].draft = save[v].draft
    <3>1. CASE v = t BY <1>1, <3>1
    <3>2. CASE v # t BY <1>1, <3>2 DEF Committed
    <3> QED BY <3>1, <3>2
  <2>2. PICK u \in Saves : Committed(u) /\ save[u].seen = save[v].draft /\ save[u].draft # save[v].draft
    BY <1>1, <2>1 DEF NoLostDraft
  <2>3. Committed(u)' /\ save'[u].seen = save[u].seen /\ save'[u].draft = save[u].draft
    <3>1. CASE u = t BY <2>2, <3>1
    <3>2. CASE u # t BY <2>2, <3>2 DEF Committed
    <3> QED BY <3>1, <3>2
  <2> QED BY <2>1, <2>2, <2>3
<1> QED BY <1>1 DEF NoLostDraft

LEMMA SaveKeeps ==
  ASSUME IInv, NEW t \in Saves, Saving(t)
  PROVE  PastCommit' /\ DraftIsContent' /\ ExportSurvives' /\ StagedIsTold' /\ NoLostDraft'
<1> USE DEF IInv
<1>0. save \in [Saves -> SaveRows] BY DEF TypeOK
<1>1. UNCHANGED <<live, staged, deletion>>
  BY DEF Saving, Send, Save, SaveAgain, SaveNothing, Refresh, ExportSaved, LoseSave
<1>2. PastCommit' /\ StagedIsTold'
  BY <1>1 DEF PastCommit, StagedIsTold
<1>3. DraftIsContent'
  BY <1>0 DEF Saving, Send, Save, SaveAgain, SaveNothing, Refresh, ExportSaved, LoseSave, Goto,
     DraftIsContent, At, SaveRows
<1>4. ExportSurvives'
  <2>1. CASE UNCHANGED <<dir, exported>> BY <1>1, <2>1 DEF ExportSurvives
  <2>2. CASE SaveAgain(t) /\ Export(row)
    BY <1>1, <2>2, ExportKeeps DEF TypeOK
  <2>3. CASE ExportSaved(t)
    <3>1. save[t].read \in Contents \cup {None} BY <1>0 DEF SaveRows
    <3> QED BY <1>1, <2>3, <3>1, ExportKeeps DEF ExportSaved
  <2> QED BY <2>1, <2>2, <2>3 DEF Saving, Send, Save, SaveAgain, SaveNothing, Refresh, LoseSave
<1>5. NoLostDraft'
  <2>1. ASSUME NEW c \in Contents, Send(t, c) PROVE NoLostDraft'
    <3>1. \A u \in Saves \ {t} : save'[u] = save[u]
      BY <1>0, <2>1 DEF Send
    <3>2. ~Committed(t) /\ ~Committed(t)'
      BY <1>0, <2>1 DEF Send, At, Committed
    <3>3. \A u \in Saves : (Committed(u)' <=> Committed(u)) /\ (Committed(u) => save'[u] = save[u])
      BY <3>1, <3>2 DEF Committed
    <3> QED BY <2>1, <3>3 DEF NoLostDraft, Send
  <2>2. CASE Save(t) BY <2>2, RowReplaced
  <2>3. CASE ~Save(t) /\ UNCHANGED row /\ ~\E c \in Contents : Send(t, c)
    <3>1. \A u \in Saves \ {t} : save'[u] = save[u]
      BY <1>0, <2>3 DEF Saving, SaveAgain, SaveNothing, Refresh, ExportSaved, LoseSave, Goto
    <3>2. save'[t].draft = save[t].draft /\ save'[t].seen = save[t].seen
      BY <1>0, <2>3 DEF Saving, SaveAgain, SaveNothing, Refresh, ExportSaved, LoseSave, Goto, SaveRows
    <3>3. Committed(t) => Committed(t)'
      BY <1>0, <2>3 DEF Saving, SaveAgain, SaveNothing, Refresh, ExportSaved, LoseSave, Goto, At,
         Committed, SaveRows
    <3>4. Committed(t)' => Committed(t) \/ row = save[t].draft
      BY <1>0, <2>3 DEF Saving, SaveAgain, SaveNothing, Refresh, ExportSaved, LoseSave, Goto, At,
         Committed, SaveRows
    <3> QED BY <1>1, <2>3, <3>1, <3>2, <3>3, <3>4, RowStays
  <2>4. Save(t) \/ UNCHANGED row
    BY DEF Saving, Send, SaveAgain, SaveNothing, Refresh, ExportSaved, LoseSave
  <2> QED BY <2>1, <2>2, <2>3, <2>4
<1> QED BY <1>2, <1>3, <1>4, <1>5

-----------------------------------------------------------------------------
LEMMA StepHolds == IInv /\ [Next]_vars => IInv'
<1> SUFFICES ASSUME IInv, [Next]_vars PROVE IInv'
  OBVIOUS
<1>1. ASSUME NEW t \in Saves, Saving(t) PROVE IInv'
  BY <1>1, SaveTyped, SaveKeeps DEF IInv
<1>2. ASSUME NEW d \in Deletions, Deleting(d) PROVE IInv'
  BY <1>2, DeletionTyped, DeletionKeeps DEF IInv
<1>3. CASE UNCHANGED vars
  BY <1>3 DEF vars, IInv, TypeOK, PastCommit, DraftIsContent, ExportSurvives, StagedIsTold,
     NoLostDraft, Committed, At
<1> QED BY <1>1, <1>2, <1>3 DEF Next

LEMMA Invariance == Spec => []IInv
<1>1. Init => IInv BY InitHolds
<1>2. IInv /\ [Next]_vars => IInv' BY StepHolds
<1> QED BY <1>1, <1>2, PTL DEF Spec

\* Rows, directories and requests keep their shapes.
THEOREM TypeCorrect == Spec => []TypeOK
<1>1. IInv => TypeOK BY DEF IInv
<1> QED BY <1>1, Invariance, PTL

\* Whatever deletions and saves do to the directory, the worldview exported last
\* is on disk as long as the project lives.
THEOREM ExportStays == Spec => []ExportSurvives
<1>1. IInv => ExportSurvives BY DEF IInv
<1> QED BY <1>1, Invariance, PTL

\* Files in staging are those of a deletion that is under way, that died, or that
\* said so.
THEOREM StagedTold == Spec => []StagedIsTold
<1>1. IInv => StagedIsTold BY DEF IInv
<1> QED BY <1>1, Invariance, PTL

\* A saved worldview is replaced only by somebody who had seen it.
THEOREM DraftsSurvive == Spec => []NoLostDraft
<1>1. IInv => NoLostDraft BY DEF IInv
<1> QED BY <1>1, Invariance, PTL
=============================================================================
