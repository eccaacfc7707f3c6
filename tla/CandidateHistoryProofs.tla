------------------------ MODULE CandidateHistoryProofs ------------------------
(***************************************************************************)
(* Proofs about CandidateHistory for every number of requests, keys, runs  *)
(* and candidates, with and without row locks.  They rest on one inductive *)
(* invariant, Inv: the numbers of a run are 1..n, the receipts lead from   *)
(* version 0 to the selection without a gap, and what each handler has     *)
(* read under its locks is still true or is excluded by a unique           *)
(* constraint when it writes.                                              *)
(***************************************************************************)
EXTENDS CandidateHistory, WellFoundedInduction, TLAPS

\* The body q of an edit, or of a selection, is stored as it was asked for.
Done(q) ==
    IF q.kind = "edit"
    THEN /\ q.key \in Stored
         /\ candidate[q.key].run = q.run /\ candidate[q.key].text = q.text
         /\ candidate[q.key].parent = q.target /\ candidate[q.target].no = q.no
         /\ q.target \in Stored
    ELSE q.key \in Receipted /\ operation[q.key].request = q

NumbersOK ==
    /\ \A r \in Runs : \E n \in Nat : Numbers(r) = 1 .. n
    /\ \A i, j \in Stored :
          candidate[i].run = candidate[j].run /\ candidate[i].no = candidate[j].no => i = j

ReceiptsOK ==
    /\ \A k \in Receipted :
          /\ operation[k].request.key = k
          /\ operation[k].request.version = operation[k].previous.version
          /\ operation[k].previous.version < selection.version
    /\ \A n \in Nat : n < selection.version =>
          \E k \in Receipted : operation[k].previous.version = n

\* What an edit about to be written has read.
EditOK(t) ==
    t.pc = "write" /\ t.req.kind = "edit" =>
        /\ t.no > 0 /\ 1 .. (t.no - 1) \subseteq Numbers(t.req.run)
        /\ t.req.target \in Stored /\ candidate[t.req.target].no = t.req.no

\* What a selection about to be written has read.
SelectOK(t) ==
    t.pc = "write" /\ t.req.kind = "select" =>
        /\ t.seen.version = t.req.version
        /\ t.seen.version = selection.version => t.seen = selection
        /\ t.seen.shows # t.req.target
        /\ t.req.run \in OwnRuns
        /\ t.req.target \in Stored /\ candidate[t.req.target].no = t.req.no
        /\ locking => active

Missed(q) ==
    /\ q.version < selection.version
    /\ \A k \in Receipted : operation[k].request # q

ReplyOK(t) ==
    /\ t.pc # "idle" => t.req.version <= selection.version
    /\ t.pc = "raced" /\ t.req.kind = "select" =>
          t.req.key \in Receipted \/ t.req.version < selection.version
    /\ t.pc = "idle" /\ t.reply = "done" => Done(t.req)
    /\ t.pc = "idle" /\ t.reply = "version_conflict" /\ t.req.kind = "select" => Missed(t.req)

TaskOK(t) == EditOK(t) /\ SelectOK(t) /\ ReplyOK(t)

Inv == TypeOK /\ NumbersOK /\ ReceiptsOK /\ \A w \in Workers : TaskOK(task[w])

-----------------------------------------------------------------------------
(* Steps that change no row: only the task of one worker has to be looked  *)
(* at.                                                                     *)

LEMMA TaskStep ==
    ASSUME Inv, NEW w \in Workers, NEW t \in Tasks, TaskOK(t),
           task' = [task EXCEPT ![w] = t], UNCHANGED rows
    PROVE  Inv'
  <1> USE DEF Inv, rows
  <1>1. TypeOK'
    BY DEF TypeOK
  <1>2. NumbersOK' /\ ReceiptsOK'
    BY DEF NumbersOK, ReceiptsOK, Numbers, Stored, Receipted
  <1>3. ASSUME NEW u, TaskOK(u)
        PROVE  TaskOK(u)'
    BY <1>3 DEF TaskOK, EditOK, SelectOK, ReplyOK, Done, Missed, Numbers, Stored, Receipted
  <1>4. \A v \in Workers : task'[v] = IF v = w THEN t ELSE task[v]
    BY DEF TypeOK
  <1>5. \A v \in Workers : TaskOK(task[v])'
    <2> TAKE v \in Workers
    <2>1. CASE v = w
      BY <1>3, <1>4, <2>1 DEF TaskOK, EditOK, SelectOK, ReplyOK
    <2>2. CASE v # w
      BY <1>3, <1>4, <2>2 DEF TaskOK, EditOK, SelectOK, ReplyOK
    <2> QED
      BY <2>1, <2>2
  <1> QED
    BY <1>1, <1>2, <1>5

LEMMA AnswerKeeps ==
    ASSUME Inv, NEW w \in Workers, NEW a \in Answers, Answer(w, a), UNCHANGED rows,
           a = "done" => Done(Asked(w)),
           a = "version_conflict" /\ Is(w, "select") => Missed(Asked(w))
    PROVE  Inv'
  <1>1. task \in [Workers -> Tasks] /\ task[w] \in Tasks
    BY DEF Inv, TypeOK
  <1> DEFINE t == [Started("idle", task[w].req) EXCEPT !.reply = a]
  <1>2. t \in Tasks /\ t.pc = "idle" /\ t.req = task[w].req /\ t.reply = a
    BY <1>1 DEF Started, Tasks, PCs, Unselected, Selections
  <1>3. task' = [task EXCEPT ![w] = t]
    BY DEF Answer
  <1> HIDE DEF t
  <1>4. TaskOK(t)
    BY <1>2 DEF TaskOK, EditOK, SelectOK, ReplyOK, Asked, Is
  <1> QED
    BY <1>2, <1>3, <1>4, TaskStep

LEMMA GotoKeeps ==
    ASSUME Inv, NEW w \in Workers, NEW p \in {"lock", "raced"}, Goto(w, p), UNCHANGED rows,
           ~At(w, "idle"),
           p = "raced" /\ Is(w, "select") =>
               Asked(w).key \in Receipted \/ Asked(w).version < selection.version
    PROVE  Inv'
  <1>1. task \in [Workers -> Tasks] /\ task[w] \in Tasks /\ TaskOK(task[w])
    BY DEF Inv, TypeOK
  <1> DEFINE t == [task[w] EXCEPT !.pc = p]
  <1>2. t \in Tasks /\ t.pc = p /\ t.req = task[w].req
    BY <1>1 DEF Tasks, PCs
  <1>3. task' = [task EXCEPT ![w] = t]
    BY DEF Goto
  <1> HIDE DEF t
  <1>4. TaskOK(t)
    BY <1>1, <1>2 DEF TaskOK, EditOK, SelectOK, ReplyOK, Asked, Is, At
  <1> QED
    BY <1>2, <1>3, <1>4, TaskStep

LEMMA BeginKeeps ==
    ASSUME Inv, NEW w \in Workers, NEW q \in Requests, Begin(w, q)
    PROVE  Inv'
  <1>1. Started("lookup", q) \in Tasks
    BY RequestsAreBodies DEF Started, Tasks, PCs, Unselected, Selections, Answers
  <1>2. TaskOK(Started("lookup", q))
    BY DEF Begin, Started, TaskOK, EditOK, SelectOK, ReplyOK
  <1> QED
    BY <1>1, <1>2, TaskStep DEF Begin

LEMMA DieKeeps ==
    ASSUME Inv, NEW w \in Workers, Die(w)
    PROVE  Inv'
  BY AnswerKeeps DEF Die, Answers

-----------------------------------------------------------------------------
(* Edits.                                                                  *)

LEMMA ReplayEditKeeps ==
    ASSUME Inv, NEW w \in Workers, Is(w, "edit"), Asked(w).key \in Stored,
           ReplayEdit(w), UNCHANGED rows
    PROVE  Inv'
  <1>1. Asked(w) \in Bodies
    BY DEF Inv, TypeOK, Tasks, Asked
  <1>2. SameEdit(Asked(w)) => Done(Asked(w))
    BY <1>1 DEF SameEdit, Done, Is, Stored, Bodies
  <1>3. CASE Answer(w, "done") /\ SameEdit(Asked(w))
    BY <1>2, <1>3, AnswerKeeps DEF Answers
  <1>4. CASE Answer(w, "key_reused") \/ Answer(w, "corrupt")
    BY <1>4, AnswerKeeps DEF Answers
  <1> QED
    BY <1>3, <1>4 DEF ReplayEdit

LEMMA LookupEditKeeps ==
    ASSUME Inv, NEW w \in Workers, LookupEdit(w)
    PROVE  Inv'
  BY ReplayEditKeeps, GotoKeeps DEF LookupEdit, At

LEMMA RacedEditKeeps ==
    ASSUME Inv, NEW w \in Workers, RacedEdit(w)
    PROVE  Inv'
  <1>1. ~Is(w, "select")
    BY DEF RacedEdit, Is
  <1> QED
    BY <1>1, ReplayEditKeeps, AnswerKeeps DEF RacedEdit, Answers

LEMMA NextNumberIsSuccessor ==
    ASSUME NEW r \in Runs, NEW n \in Nat, Numbers(r) = 1 .. n
    PROVE  NextNumber(r) = n + 1
  <1>1. CASE n = 0
    BY <1>1 DEF NextNumber
  <1>2. CASE n > 0
    <2> DEFINE top == CHOOSE x \in Numbers(r) : \A m \in Numbers(r) : m <= x
    <2>1. n \in Numbers(r) /\ \A m \in Numbers(r) : m <= n
      BY <1>2
    <2>2. top \in Numbers(r) /\ \A m \in Numbers(r) : m <= top
      BY <2>1
    <2>3. NextNumber(r) = 1 + top
      BY <2>1 DEF NextNumber
    <2> HIDE DEF top
    <2>4. top = n
      BY <2>1, <2>2
    <2> QED
      BY <2>3, <2>4
  <1> QED
    BY <1>1, <1>2

LEMMA NextNumberFits ==
    ASSUME Inv, NEW r \in Runs
    PROVE  /\ NextNumber(r) \in Nat \ {0}
           /\ NextNumber(r) \notin Numbers(r)
           /\ 1 .. (NextNumber(r) - 1) \subseteq Numbers(r)
  <1>1. PICK n \in Nat : Numbers(r) = 1 .. n
    BY DEF Inv, NumbersOK
  <1>2. NextNumber(r) = n + 1
    BY <1>1, NextNumberIsSuccessor
  <1> QED
    BY <1>1, <1>2

LEMMA LockRunKeeps ==
    ASSUME Inv, NEW w \in Workers, LockRun(w)
    PROVE  Inv'
  <1>1. task \in [Workers -> Tasks] /\ task[w] \in Tasks /\ TaskOK(task[w])
    BY DEF Inv, TypeOK
  <1>2. Asked(w) \in Bodies /\ Asked(w).run \in Runs
    BY <1>1 DEF Tasks, Asked, Bodies
  <1>3. CASE Editable(Asked(w)) /\ task' = [task EXCEPT ![w].pc = "write", ![w].no = NextNumber(Asked(w).run)]
    <2> DEFINE t == [[task[w] EXCEPT !.pc = "write"] EXCEPT !.no = NextNumber(Asked(w).run)]
    <2>1. /\ t \in Tasks /\ t.pc = "write" /\ t.req = Asked(w)
          /\ t.no = NextNumber(Asked(w).run)
      BY <1>1, <1>2, NextNumberFits DEF Tasks, PCs, Asked
    <2>2. task' = [task EXCEPT ![w] = t]
      BY <1>1, <1>3
    <2> HIDE DEF t
    <2>3. t.req.kind = "edit" /\ t.req.version <= selection.version
      BY <1>1, <2>1 DEF LockRun, Is, At, TaskOK, ReplyOK, Asked
    <2>4. TaskOK(t)
      BY <1>2, <1>3, <2>1, <2>3, NextNumberFits
         DEF TaskOK, EditOK, SelectOK, ReplyOK, Editable
    <2> QED
      BY <2>1, <2>2, <2>4, TaskStep DEF LockRun
  <1>4. CASE Answer(w, "refused")
    BY <1>4, AnswerKeeps DEF LockRun, Answers
  <1>5. CASE Asked(w).key \in Stored /\ ReplayEdit(w)
    BY <1>5, ReplayEditKeeps DEF LockRun
  <1> QED
    BY <1>3, <1>4, <1>5 DEF LockRun

\* A new candidate that continues the numbers of its run disturbs no row and nothing
\* that a handler has read.
LEMMA NewCandidate ==
    ASSUME Inv, NEW i \in Ids, i \notin Stored, NEW c \in Candidates,
           candidate' = [candidate EXCEPT ![i] = c],
           c.no \notin Numbers(c.run), 1 .. (c.no - 1) \subseteq Numbers(c.run),
           UNCHANGED <<locking, operation, selection, active>>
    PROVE  /\ candidate' \in [Ids -> Candidates \cup {NoRow}]
           /\ NumbersOK' /\ ReceiptsOK'
           /\ Stored' = Stored \cup {i}
           /\ \A t \in Tasks : TaskOK(t) => TaskOK(t)'
  <1>1. candidate \in [Ids -> Candidates \cup {NoRow}] /\ c.run \in Runs /\ c.no \in Nat \ {0}
    BY DEF Inv, TypeOK, Candidates
  <1>2. c # NoRow
    <2>1. DOMAIN c = {"run", "no", "parent", "text"} /\ DOMAIN NoRow = {"absent"}
      BY DEF Candidates, NoRow
    <2>2. "run" \in DOMAIN c /\ "run" \notin DOMAIN NoRow
      BY <2>1
    <2> QED
      BY <2>2
  <1>3. \A j \in Ids : candidate'[j] = IF j = i THEN c ELSE candidate[j]
    BY <1>1
  <1>4. Stored' = Stored \cup {i}
    BY <1>2, <1>3 DEF Stored
  <1>5. \A r \in Runs : Numbers(r)' = IF r = c.run THEN Numbers(r) \cup {c.no} ELSE Numbers(r)
    BY <1>3, <1>4 DEF Numbers, Stored
  <1>6. \A r \in Runs : \E n \in Nat : Numbers(r)' = 1 .. n
    <2> TAKE r \in Runs
    <2>1. PICK n \in Nat : Numbers(r) = 1 .. n
      BY DEF Inv, NumbersOK
    <2>2. CASE r = c.run
      <3>1. c.no = n + 1
        <4>1. c.no > n
          BY <1>1, <2>1, <2>2
        <4>2. ~(c.no > n + 1)
          <5>1. n + 1 \notin Numbers(c.run)
            BY <2>1, <2>2
          <5> QED
            BY <1>1, <5>1
        <4> QED
          BY <1>1, <4>1, <4>2
      <3>2. Numbers(r)' = 1 .. (n + 1)
        <4>1. 1 .. (n + 1) = (1 .. n) \cup {n + 1}
          OBVIOUS
        <4>2. Numbers(r)' = (1 .. n) \cup {n + 1}
          BY <1>5, <2>1, <2>2, <3>1
        <4> QED
          BY <4>1, <4>2
      <3> QED
        BY <3>2
    <2>3. CASE r # c.run
      BY <1>5, <2>1, <2>3
    <2> QED
      BY <2>2, <2>3
  <1>7. NumbersOK'
    <2>1. \A j \in Stored : candidate[j].run = c.run => candidate[j].no # c.no
      BY DEF Numbers
    <2>2. \A j, k \in Stored' :
             candidate'[j].run = candidate'[k].run /\ candidate'[j].no = candidate'[k].no => j = k
      BY <1>3, <1>4, <2>1 DEF Inv, NumbersOK, Stored
    <2> QED
      BY <1>6, <2>2 DEF NumbersOK
  <1>8. ReceiptsOK'
    BY DEF Inv, ReceiptsOK, Receipted
  <1>9. ASSUME NEW t \in Tasks, TaskOK(t)
        PROVE  TaskOK(t)'
    <2>1. t.req.run \in Runs /\ t.req.target \in Ids /\ t.req.key \in Ids
      BY DEF Tasks, Bodies, Ids
    <2>2. EditOK(t)'
      BY <1>3, <1>4, <1>5, <1>9, <2>1 DEF TaskOK, EditOK, Stored
    <2>3. SelectOK(t)'
      BY <1>3, <1>4, <1>9, <2>1 DEF TaskOK, SelectOK, Stored
    <2>4. Done(t.req) => Done(t.req)'
      BY <1>3, <1>4, <2>1 DEF Done, Stored, Receipted
    <2>5. ReplyOK(t)'
      BY <1>9, <2>4 DEF TaskOK, ReplyOK, Missed, Receipted
    <2> QED
      BY <2>2, <2>3, <2>5 DEF TaskOK
  <1>10. candidate' \in [Ids -> Candidates \cup {NoRow}]
    BY <1>1
  <1> QED
    BY <1>4, <1>7, <1>8, <1>9, <1>10

\* A handler that ends in task t, while the rows change as far as the others can bear.
LEMMA RowStep ==
    ASSUME Inv, NEW w \in Workers, NEW t \in Tasks, task' = [task EXCEPT ![w] = t],
           candidate' \in [Ids -> Candidates \cup {NoRow}],
           operation' \in [Keys -> Receipts \cup {NoRow}],
           selection' \in Selections, UNCHANGED <<locking, active>>,
           NumbersOK', ReceiptsOK', TaskOK(t)',
           \A u \in Tasks : \A v \in Workers \ {w} : u = task[v] /\ TaskOK(u) => TaskOK(u)'
    PROVE  Inv'
  <1>1. task \in [Workers -> Tasks] /\ \A v \in Workers : TaskOK(task[v])
    BY DEF Inv, TypeOK
  <1>2. \A v \in Workers : task'[v] = IF v = w THEN t ELSE task[v]
    BY <1>1
  <1>3. ASSUME NEW v \in Workers
        PROVE  TaskOK(task[v])'
    <2>1. CASE v = w
      BY <1>2, <2>1 DEF TaskOK, EditOK, SelectOK, ReplyOK
    <2>2. CASE v # w
      <3>1. PICK u \in Tasks : u = task[v]
        BY <1>1
      <3>2. TaskOK(u)' /\ u = task'[v]
        BY <1>1, <1>2, <2>2, <3>1
      <3> QED
        BY <3>2 DEF TaskOK, EditOK, SelectOK, ReplyOK
    <2> QED
      BY <2>1, <2>2
  <1>4. TypeOK'
    BY <1>1 DEF Inv, TypeOK
  <1> QED
    BY <1>3, <1>4 DEF Inv

LEMMA AnsweredTask ==
    ASSUME TypeOK, NEW w \in Workers, NEW a \in Answers, Answer(w, a)
    PROVE  \E t \in Tasks : /\ t.pc = "idle" /\ t.req = Asked(w) /\ t.reply = a
                            /\ task' = [task EXCEPT ![w] = t]
  <1> DEFINE t == [Started("idle", task[w].req) EXCEPT !.reply = a]
  <1>1. task[w] \in Tasks
    BY DEF TypeOK
  <1>2. t \in Tasks /\ t.pc = "idle" /\ t.req = task[w].req /\ t.reply = a
    BY <1>1 DEF Started, Tasks, PCs, Unselected, Selections
  <1>3. task' = [task EXCEPT ![w] = t]
    BY DEF Answer
  <1> QED
    BY <1>2, <1>3 DEF Asked

LEMMA WriteEditKeeps ==
    ASSUME Inv, NEW w \in Workers, WriteEdit(w)
    PROVE  Inv'
  <1>1. task \in [Workers -> Tasks] /\ task[w] \in Tasks /\ TaskOK(task[w])
    BY DEF Inv, TypeOK
  <1>2. PICK q \in Bodies : q = Asked(w)
    BY <1>1 DEF Tasks, Asked
  <1>3. q.kind = "edit" /\ At(w, "write") /\ task[w].req = q /\ ~Is(w, "select") /\ ~At(w, "idle")
    BY <1>2 DEF WriteEdit, Is, Asked, At
  <1>4. CASE Goto(w, "raced") /\ UNCHANGED candidate
    BY <1>3, <1>4, GotoKeeps DEF WriteEdit, rows
  <1>5. CASE Answer(w, "corrupt") /\ UNCHANGED candidate
    BY <1>3, <1>5, AnswerKeeps DEF WriteEdit, rows, Answers
  <1>6. ASSUME Insertable(w), candidate' = [candidate EXCEPT ![q.key] = Edited(w)],
               NEW a \in {"done", "error"}, Answer(w, a)
        PROVE  Inv'
    <2>1. /\ task[w].no \in Nat \ {0} /\ 1 .. (task[w].no - 1) \subseteq Numbers(q.run)
          /\ q.target \in Stored /\ candidate[q.target].no = q.no
      BY <1>1, <1>3 DEF TaskOK, EditOK, ReplyOK, Tasks, At
    <2>2. PICK c \in Candidates : c = Edited(w)
      BY <1>2, <2>1 DEF Edited, Candidates, Bodies
    <2>3. c.no = task[w].no /\ c.run = q.run /\ c.parent = q.target /\ c.text = q.text
      BY <1>2, <2>2 DEF Edited
    <2>4. q.key \in Ids /\ q.key \notin Stored /\ c.no \notin Numbers(c.run)
      BY <1>2, <1>6, <2>3 DEF Insertable, Bodies, Ids
    <2>5. UNCHANGED <<locking, operation, selection, active>>
      BY DEF WriteEdit
    <2>6. /\ candidate' \in [Ids -> Candidates \cup {NoRow}]
          /\ NumbersOK' /\ ReceiptsOK'
          /\ Stored' = Stored \cup {q.key}
          /\ \A t \in Tasks : TaskOK(t) => TaskOK(t)'
      BY <1>6, <2>1, <2>2, <2>3, <2>4, <2>5, NewCandidate
    <2>7. candidate'[q.key] = c /\ candidate'[q.target] = candidate[q.target]
      BY <1>6, <2>1, <2>2, <2>4 DEF Inv, TypeOK, Stored
    <2>8. Done(q)'
      BY <1>3, <2>1, <2>3, <2>6, <2>7 DEF Done
    <2>9. PICK t \in Tasks : /\ t.pc = "idle" /\ t.req = q /\ t.reply = a
                             /\ task' = [task EXCEPT ![w] = t]
      BY <1>2, <1>6, AnsweredTask DEF Inv, Answers
    <2>10. TaskOK(t)'
      BY <1>3, <2>8, <2>9 DEF TaskOK, EditOK, SelectOK, ReplyOK
    <2> QED
      BY <2>5, <2>6, <2>9, <2>10, RowStep DEF Inv, TypeOK
  <1> QED
    BY <1>2, <1>4, <1>5, <1>6 DEF WriteEdit

LEMMA GenerateKeeps ==
    ASSUME Inv, NEW g \in Roots, NEW r \in Runs, Generate(g, r)
    PROVE  Inv'
  <1> DEFINE c == [run |-> r, no |-> NextNumber(r), parent |-> Nobody, text |-> Draft]
  <1>1. c \in Candidates /\ c.run = r /\ c.no = NextNumber(r)
    BY NextNumberFits, HistoryConstants DEF Candidates
  <1>2. candidate' = [candidate EXCEPT ![g] = c] /\ g \in Ids /\ g \notin Stored
        /\ UNCHANGED <<locking, operation, selection, active, task>>
    BY DEF Generate, Ids, Stored
  <1> HIDE DEF c
  <1>3. /\ candidate' \in [Ids -> Candidates \cup {NoRow}]
        /\ NumbersOK' /\ ReceiptsOK'
        /\ \A t \in Tasks : TaskOK(t) => TaskOK(t)'
    BY <1>1, <1>2, NewCandidate, NextNumberFits
  <1>4. \A v \in Workers : task[v] \in Tasks /\ TaskOK(task[v]) /\ task'[v] = task[v]
    BY <1>2 DEF Inv, TypeOK
  <1>5. \A v \in Workers : TaskOK(task[v])'
    BY <1>3, <1>4 DEF TaskOK, EditOK, SelectOK, ReplyOK
  <1> QED
    BY <1>2, <1>3, <1>5 DEF Inv, TypeOK

-----------------------------------------------------------------------------
(* Selections.                                                             *)

LEMMA ReplaySelectKeeps ==
    ASSUME Inv, NEW w \in Workers, Is(w, "select"), Asked(w).key \in Receipted,
           ReplaySelect(w), UNCHANGED rows
    PROVE  Inv'
  <1>1. CASE operation[Asked(w).key].request = Asked(w) /\ Answer(w, "done")
    <2>1. Done(Asked(w))
      BY <1>1 DEF Done, Is
    <2> QED
      BY <1>1, <2>1, AnswerKeeps DEF Answers
  <1>2. CASE Answer(w, "key_reused")
    BY <1>2, AnswerKeeps DEF Answers
  <1> QED
    BY <1>1, <1>2 DEF ReplaySelect

LEMMA LookupSelectKeeps ==
    ASSUME Inv, NEW w \in Workers, LookupSelect(w)
    PROVE  Inv'
  BY ReplaySelectKeeps, GotoKeeps DEF LookupSelect, At

\* A body whose version is over and whose key has no receipt is missed for good.
LEMMA UnreceiptedIsMissed ==
    ASSUME Inv, NEW q, q.key \notin Receipted, q.version < selection.version
    PROVE  Missed(q)
  BY DEF Inv, ReceiptsOK, Missed

LEMMA RacedSelectKeeps ==
    ASSUME Inv, NEW w \in Workers, RacedSelect(w)
    PROVE  Inv'
  <1>1. TaskOK(task[w])
    BY DEF Inv
  <1>2. CASE Asked(w).key \in Receipted
    BY <1>2, ReplaySelectKeeps DEF RacedSelect
  <1>3. CASE Asked(w).key \notin Receipted
    <2>1. Asked(w).version < selection.version
      BY <1>1, <1>3 DEF TaskOK, ReplyOK, RacedSelect, At, Is, Asked
    <2>2. Missed(Asked(w))
      BY <1>3, <2>1, UnreceiptedIsMissed
    <2> QED
      BY <1>3, <2>2, AnswerKeeps DEF RacedSelect, Answers
  <1> QED
    BY <1>2, <1>3

LEMMA LockChapterKeeps ==
    ASSUME Inv, NEW w \in Workers, LockChapter(w)
    PROVE  Inv'
  <1>1. task \in [Workers -> Tasks] /\ task[w] \in Tasks /\ TaskOK(task[w])
    BY DEF Inv, TypeOK
  <1>2. /\ Asked(w) \in Bodies /\ Asked(w).version \in Nat
        /\ selection \in Selections /\ selection.version \in Nat
    BY <1>1 DEF Inv, TypeOK, Tasks, Asked, Bodies, Selections
  <1>3. CASE Answer(w, "refused")
    BY <1>3, AnswerKeeps DEF LockChapter, Answers
  <1>4. CASE Asked(w).key \in Receipted /\ ReplaySelect(w)
    BY <1>4, ReplaySelectKeeps DEF LockChapter
  <1>5. CASE Asked(w).key \notin Receipted /\ selection.version # Asked(w).version
             /\ Answer(w, "version_conflict")
    <2>1. Asked(w).version < selection.version
      BY <1>1, <1>2, <1>5 DEF TaskOK, ReplyOK, LockChapter, At, Asked
    <2>2. Missed(Asked(w))
      BY <1>5, <2>1, UnreceiptedIsMissed
    <2> QED
      BY <1>5, <2>2, AnswerKeeps DEF LockChapter, Answers
  <1>6. CASE active /\ selection.version = Asked(w).version /\ Adoptable(Asked(w))
             /\ task' = [task EXCEPT ![w].pc = "write", ![w].seen = selection]
    <2> DEFINE t == [[task[w] EXCEPT !.pc = "write"] EXCEPT !.seen = selection]
    <2>1. t \in Tasks /\ t.pc = "write" /\ t.req = Asked(w) /\ t.seen = selection
      BY <1>1, <1>2 DEF Tasks, PCs, Asked
    <2>2. task' = [task EXCEPT ![w] = t]
      BY <1>1, <1>6
    <2> HIDE DEF t
    <2>3. t.req.kind = "select" /\ t.req.version <= selection.version
      BY <1>1, <2>1 DEF LockChapter, Is, At, TaskOK, ReplyOK, Asked
    <2>4. TaskOK(t)
      BY <1>6, <2>1, <2>3 DEF TaskOK, EditOK, SelectOK, ReplyOK, Adoptable
    <2> QED
      BY <2>1, <2>2, <2>4, TaskStep DEF LockChapter
  <1> QED
    BY <1>3, <1>4, <1>5, <1>6 DEF LockChapter

\* Who may write its receipt still sees the current selection: a later version
\* would have left a receipt that takes the place.
LEMMA WriterIsCurrent ==
    ASSUME Inv, NEW w \in Workers, At(w, "write"), Is(w, "select"), Receiptable(w)
    PROVE  /\ task[w].seen = selection
           /\ Asked(w).version = selection.version
           /\ selection.version \in Nat
           /\ selection.shows # Asked(w).target
           /\ Asked(w).run \in OwnRuns
           /\ Asked(w).target \in Stored /\ candidate[Asked(w).target].no = Asked(w).no
           /\ locking => active
  <1>1. /\ task[w] \in Tasks /\ TaskOK(task[w])
        /\ task[w].seen.version \in Nat /\ selection.version \in Nat
    BY DEF Inv, TypeOK, Tasks, Selections
  <1>2. SelectOK(task[w]) /\ ReplyOK(task[w])
    BY <1>1 DEF TaskOK
  <1>3. task[w].seen.version <= selection.version /\ task[w].seen.version = Asked(w).version
    BY <1>2 DEF SelectOK, ReplyOK, At, Is, Asked
  <1>4. ~(task[w].seen.version < selection.version)
    BY <1>1 DEF Inv, ReceiptsOK, Receiptable
  <1>5. task[w].seen.version = selection.version
    BY <1>1, <1>3, <1>4
  <1> QED
    BY <1>1, <1>2, <1>3, <1>5 DEF SelectOK, At, Is, Asked

LEMMA WriteSelectKeeps ==
    ASSUME Inv, NEW w \in Workers, WriteSelect(w)
    PROVE  Inv'
  <1>1. task \in [Workers -> Tasks] /\ task[w] \in Tasks /\ TaskOK(task[w])
    BY DEF Inv, TypeOK
  <1>2. PICK q \in Bodies : q = Asked(w)
    BY <1>1 DEF Tasks, Asked
  <1>3. q.kind = "select" /\ At(w, "write") /\ Is(w, "select") /\ ~At(w, "idle") /\ task[w].req = q
    BY <1>2 DEF WriteSelect, Is, Asked, At
  <1>4. CASE ~Receiptable(w) /\ Goto(w, "raced") /\ UNCHANGED <<operation, selection>>
    <2>1. q.key \in Receipted \/ q.version < selection.version
      BY <1>1, <1>2, <1>3, <1>4 DEF Receiptable, TaskOK, SelectOK, Inv, ReceiptsOK, At
    <2> QED
      BY <1>2, <1>3, <1>4, <2>1, GotoKeeps DEF WriteSelect, rows
  <1>5. ASSUME Receiptable(w), NEW a \in {"done", "error"}, Answer(w, a),
               operation' = [operation EXCEPT ![q.key] = [request |-> q, previous |-> task[w].seen]],
               selection' = [version |-> task[w].seen.version + 1, shows |-> q.target],
               UNCHANGED <<locking, candidate, active>>
        PROVE  Inv'
    <2>1. /\ task[w].seen = selection /\ q.version = selection.version
          /\ selection.version \in Nat
      BY <1>2, <1>3, <1>5, WriterIsCurrent
    <2>2. q.key \in Keys /\ q.target \in Ids /\ q.key \notin Receipted /\ selection \in Selections
      BY <1>2, <1>5 DEF Bodies, Receiptable, Inv, TypeOK
    <2>3. PICK n \in Nat : n = selection.version
      BY <2>1
    <2>4. PICK c \in Receipts : c = [request |-> q, previous |-> selection]
      BY <2>2 DEF Receipts
    <2>5. c.request = q /\ c.previous.version = n /\ selection'.version = n + 1
          /\ selection' \in Selections /\ selection'.shows = q.target
      BY <1>5, <2>1, <2>2, <2>3, <2>4 DEF Selections
    <2>6. c # NoRow
      <3>1. "request" \in DOMAIN c /\ "request" \notin DOMAIN NoRow
        BY <2>4 DEF NoRow
      <3> QED
        BY <3>1
    <2>7. /\ operation \in [Keys -> Receipts \cup {NoRow}]
          /\ \A k \in Keys : operation'[k] = IF k = q.key THEN c ELSE operation[k]
          /\ operation' \in [Keys -> Receipts \cup {NoRow}]
      BY <1>5, <2>1, <2>2, <2>4 DEF Inv, TypeOK
    <2>8. Receipted' = Receipted \cup {q.key}
      BY <2>2, <2>6, <2>7 DEF Receipted
    <2>9. NumbersOK' /\ Stored' = Stored
      BY <1>5 DEF Inv, NumbersOK, Numbers, Stored
    <2>10. ReceiptsOK'
      <3>1. ASSUME NEW k \in Receipted'
            PROVE  /\ operation'[k].request.key = k
                   /\ operation'[k].request.version = operation'[k].previous.version
                   /\ operation'[k].previous.version < n + 1
        <4>1. CASE k = q.key
          BY <2>1, <2>3, <2>5, <2>7, <4>1, <2>2
        <4>2. CASE k # q.key
          <5>1. k \in Receipted /\ k \in Keys /\ operation'[k] = operation[k]
                /\ operation[k].previous.version \in Nat
            BY <2>7, <2>8, <4>2 DEF Receipted, Receipts, Selections
          <5> QED
            BY <2>3, <5>1 DEF Inv, ReceiptsOK
        <4> QED
          BY <4>1, <4>2
      <3>2. ASSUME NEW m \in Nat, m < n + 1
            PROVE  \E k \in Receipted' : operation'[k].previous.version = m
        <4>1. CASE m = n
          BY <2>2, <2>5, <2>7, <2>8, <4>1
        <4>2. CASE m < n
          <5>1. PICK k \in Receipted : operation[k].previous.version = m
            BY <2>3, <4>2 DEF Inv, ReceiptsOK
          <5> QED
            BY <2>2, <2>7, <2>8, <5>1 DEF Receipted
        <4> QED
          BY <3>2, <4>1, <4>2
      <3> QED
        BY <2>5, <3>1, <3>2 DEF ReceiptsOK
    <2>11. Done(q)'
      BY <1>3, <2>2, <2>5, <2>7, <2>8 DEF Done
    <2>12. PICK t \in Tasks : /\ t.pc = "idle" /\ t.req = q /\ t.reply = a
                              /\ task' = [task EXCEPT ![w] = t]
      BY <1>2, <1>5, AnsweredTask DEF Inv, Answers
    <2>13. TaskOK(t)'
      BY <1>3, <2>11, <2>12 DEF TaskOK, EditOK, SelectOK, ReplyOK
    <2>14. ASSUME NEW u \in Tasks, TaskOK(u)
           PROVE  TaskOK(u)'
      <3>1. u.req \in Bodies /\ u.req.version \in Nat /\ u.seen.version \in Nat
            /\ u.req.key \in Keys
        BY DEF Tasks, Bodies, Selections
      <3>2. EditOK(u)'
        BY <1>5, <2>9, <2>14 DEF TaskOK, EditOK, Numbers
      <3>3. u.pc = "write" => u.seen.version <= selection.version \/ u.req.kind = "edit"
        BY <2>14, <3>1 DEF TaskOK, SelectOK, ReplyOK, Bodies
      <3>4. SelectOK(u)'
        BY <1>5, <2>3, <2>5, <2>9, <2>14, <3>1, <3>3 DEF TaskOK, SelectOK
      <3>5. Done(u.req) => Done(u.req)'
        BY <1>5, <2>2, <2>7, <2>8, <2>9, <3>1 DEF Done
      <3>6. u.pc # "idle" => u.req.version <= n + 1
        BY <2>3, <2>14, <3>1 DEF TaskOK, ReplyOK
      <3>7. Missed(u.req) => Missed(u.req)'
        <4>1. SUFFICES ASSUME Missed(u.req) PROVE Missed(u.req)'
          OBVIOUS
        <4>2. u.req.version < n /\ u.req # q
          BY <2>1, <2>3, <3>1, <4>1 DEF Missed
        <4> QED
          BY <2>5, <2>7, <2>8, <3>1, <4>1, <4>2 DEF Missed, Receipted
      <3>8. u.req.version < n => u.req.version < n + 1
        BY <3>1
      <3>9. ReplyOK(u)'
        BY <2>3, <2>5, <2>8, <2>14, <3>5, <3>6, <3>7, <3>8 DEF TaskOK, ReplyOK
      <3> QED
        BY <3>2, <3>4, <3>9 DEF TaskOK
    <2> QED
      BY <1>5, <2>5, <2>7, <2>9, <2>10, <2>12, <2>13, <2>14, RowStep DEF Inv, TypeOK
  <1> QED
    BY <1>2, <1>4, <1>5 DEF WriteSelect

LEMMA SetActiveKeeps ==
    ASSUME Inv, NEW a \in BOOLEAN, SetActive(a)
    PROVE  Inv'
  <1>1. \A w \in Workers : locking => ~(task[w].pc = "write" /\ task[w].req.kind = "select")
    BY DEF SetActive, ChapterFree, At, Is, Asked
  <1>2. NumbersOK' /\ ReceiptsOK' /\ TypeOK'
    BY DEF SetActive, Inv, TypeOK, NumbersOK, ReceiptsOK, Numbers, Stored, Receipted
  <1>3. ASSUME NEW w \in Workers
        PROVE  TaskOK(task[w])'
    <2>1. EditOK(task[w])' /\ ReplyOK(task[w])'
      BY DEF SetActive, Inv, TaskOK, EditOK, ReplyOK, Done, Missed, Numbers, Stored, Receipted
    <2>2. SelectOK(task[w])'
      BY <1>1 DEF SetActive, Inv, TaskOK, SelectOK, Stored
    <2> QED
      BY <2>1, <2>2 DEF TaskOK
  <1> QED
    BY <1>2, <1>3 DEF Inv

-----------------------------------------------------------------------------
(* The invariant.                                                          *)

LEMMA InitInv == Init => Inv
  <1> SUFFICES ASSUME Init PROVE Inv
    OBVIOUS
  <1>1. /\ Stored = {} /\ Receipted = {}
        /\ selection = Unselected /\ selection.version = 0
    BY DEF Init, Stored, Receipted, Unselected
  <1>2. PICK t \in Tasks : t.pc = "idle" /\ t.reply = "none" /\ task = [w \in Workers |-> t]
    <2> DEFINE q == CHOOSE x \in Requests : TRUE
    <2>1. q \in Bodies
      BY RequestsAreBodies
    <2>2. task = [w \in Workers |-> Started("idle", q)]
      BY DEF Init
    <2> HIDE DEF q
    <2> QED
      BY <2>1, <2>2 DEF Started, Tasks, PCs, Answers, Unselected, Selections
  <1>3. TypeOK
    BY <1>1, <1>2 DEF Init, TypeOK, Unselected, Selections
  <1>4. NumbersOK
    <2>1. \A r \in Runs : Numbers(r) = {}
      BY <1>1 DEF Numbers
    <2>2. 1 .. 0 = {} /\ 0 \in Nat
      OBVIOUS
    <2>3. \A r \in Runs : \E n \in Nat : Numbers(r) = 1 .. n
      BY <2>1, <2>2
    <2> QED
      BY <1>1, <2>3 DEF NumbersOK
  <1>5. ReceiptsOK
    BY <1>1 DEF ReceiptsOK
  <1>6. \A w \in Workers : TaskOK(task[w])
    BY <1>2 DEF TaskOK, EditOK, SelectOK, ReplyOK
  <1> QED
    BY <1>3, <1>4, <1>5, <1>6 DEF Inv

LEMMA StutterKeeps == Inv /\ UNCHANGED vars => Inv'
  <1> SUFFICES ASSUME Inv, UNCHANGED vars PROVE Inv'
    OBVIOUS
  <1>1. TypeOK' /\ NumbersOK' /\ ReceiptsOK'
    BY DEF Inv, vars, rows, TypeOK, NumbersOK, ReceiptsOK, Numbers, Stored, Receipted
  <1>2. \A w \in Workers : TaskOK(task[w])'
    BY DEF Inv, vars, rows, TaskOK, EditOK, SelectOK, ReplyOK, Done, Missed,
           Numbers, Stored, Receipted
  <1> QED
    BY <1>1, <1>2 DEF Inv

LEMMA NextInv == Inv /\ [Next]_vars => Inv'
  <1> SUFFICES ASSUME Inv, [Next]_vars PROVE Inv'
    OBVIOUS
  <1>1. ASSUME NEW w \in Workers, NEW q \in Requests, Begin(w, q) PROVE Inv'
    BY <1>1, BeginKeeps
  <1>2. ASSUME NEW w \in Workers,
               LookupEdit(w) \/ LockRun(w) \/ WriteEdit(w) \/ RacedEdit(w)
        PROVE  Inv'
    BY <1>2, LookupEditKeeps, LockRunKeeps, WriteEditKeeps, RacedEditKeeps
  <1>3. ASSUME NEW w \in Workers,
               LookupSelect(w) \/ LockChapter(w) \/ WriteSelect(w) \/ RacedSelect(w)
        PROVE  Inv'
    BY <1>3, LookupSelectKeeps, LockChapterKeeps, WriteSelectKeeps, RacedSelectKeeps
  <1>4. ASSUME NEW w \in Workers, Die(w) PROVE Inv'
    BY <1>4, DieKeeps
  <1>5. ASSUME NEW g \in Roots, NEW r \in Runs, Generate(g, r) PROVE Inv'
    BY <1>5, GenerateKeeps
  <1>6. ASSUME NEW a \in BOOLEAN, SetActive(a) PROVE Inv'
    BY <1>6, SetActiveKeeps
  <1> QED
    BY <1>1, <1>2, <1>3, <1>4, <1>5, <1>6, StutterKeeps DEF Next, Worker

\* The invariant holds in every reachable state.
THEOREM Invariance == Spec => []Inv
  BY InitInv, NextInv, PTL DEF Spec

-----------------------------------------------------------------------------
(* What it means for the reader.                                           *)

\* Rows and handlers keep the shapes the schema declares.
THEOREM TypeCorrect == Spec => []TypeOK
  <1>1. Inv => TypeOK
    BY DEF Inv
  <1> QED
    BY <1>1, Invariance, PTL

\* The versions of a run are numbered 1, 2, 3, ... whatever edits and generations
\* race, with row locks or only the unique constraint.
THEOREM DenseNumbers == Spec => []NumbersAreDense
  <1>1. Inv => NumbersAreDense
    <2> SUFFICES ASSUME Inv, NEW i \in Stored, NEW j \in Stored, candidate[i].run = candidate[j].run
                 PROVE  /\ candidate[i].no = candidate[j].no => i = j
                        /\ \A m \in 1 .. candidate[i].no : m \in Numbers(candidate[i].run)
      BY DEF NumbersAreDense
    <2>1. candidate[i].run \in Runs /\ candidate[i].no \in Nat
      BY DEF Inv, TypeOK, Stored, Candidates
    <2>2. candidate[i].no \in Numbers(candidate[i].run)
      BY DEF Numbers
    <2>3. PICK n \in Nat : Numbers(candidate[i].run) = 1 .. n
      BY <2>1 DEF Inv, NumbersOK
    <2>4. \A m \in 1 .. candidate[i].no : m \in 1 .. n
      BY <2>1, <2>2, <2>3
    <2> QED
      BY <2>3, <2>4 DEF Inv, NumbersOK
  <1> QED
    BY <1>1, Invariance, PTL

-----------------------------------------------------------------------------
(* EveryVersionReadable: the walk to the root, by least counterexample.    *)

\* A set of numbers has a smallest one.  What must hold of every number is proved
\* below by supposing that there is a smallest one of which it does not.
LEMMA Smallest ==
    ASSUME NEW S \in SUBSET Nat, S # {}
    PROVE  \E n \in S : \A m \in S : n <= m
  <1> DEFINE Less == OpToRel(<, Nat)
  <1>1. IsWellFoundedOn(Less, Nat)
    BY NatLessThanWellFounded
  <1> HIDE DEF Less
  <1>2. PICK n \in S : \A m \in S : <<m, n>> \notin Less
    BY <1>1, WFMin
  <1>3. ASSUME NEW m \in Nat, NEW k \in Nat, m < k
        PROVE  <<m, k>> \in Less
    BY <1>3 DEF Less, OpToRel
  <1>4. \A m \in S : n \in Nat /\ m \in Nat /\ ~(m < n)
    BY <1>2, <1>3
  <1> QED
    BY <1>4

\* One step of a walk towards the root.
Up(rows_, j) == IF j = Nobody THEN Nobody ELSE rows_[j].parent

\* The function in Ancestors, over 0 .. N.
IsWalk(f, rows_, i, N) == f = [n \in 0 .. N |-> IF n = 0 THEN i ELSE Up(rows_, f[n - 1])]

\* There is a function with the recursive definition in Ancestors.
LEMMA WalkExists ==
    ASSUME NEW rows_, NEW i, NEW N \in Nat
    PROVE  \E f : IsWalk(f, rows_, i, N)
  <1> DEFINE Bad == {M \in Nat : ~\E f : IsWalk(f, rows_, i, M)}
  <1> SUFFICES ASSUME Bad # {} PROVE FALSE
    OBVIOUS
  <1>1. PICK M \in Bad : \A K \in Bad : M <= K
    BY Smallest
  <1>2. M # 0
    <2>1. IsWalk([n \in 0 .. 0 |-> i], rows_, i, 0)
      BY DEF IsWalk
    <2> QED
      BY <1>1, <2>1
  <1>3. M - 1 \in Nat /\ M - 1 \notin Bad
    BY <1>1, <1>2
  <1>4. PICK f : IsWalk(f, rows_, i, M - 1)
    BY <1>3
  <1> DEFINE g == [n \in 0 .. M |-> IF n = 0 THEN i ELSE Up(rows_, f[n - 1])]
  <1>5. \A n \in 0 .. M - 1 : g[n] = f[n]
    BY <1>3, <1>4 DEF IsWalk
  <1>6. IsWalk(g, rows_, i, M)
    <2>1. \A n \in 0 .. M : n # 0 => n - 1 \in 0 .. M - 1
      BY <1>3
    <2>2. \A n \in 0 .. M : n # 0 => g[n - 1] = f[n - 1]
      BY <1>5, <2>1
    <2> QED
      BY <2>2 DEF IsWalk
  <1> QED
    BY <1>1, <1>6

\* What the recursive function in Ancestors computes.
LEMMA Walk ==
    ASSUME NEW rows_, NEW i
    PROVE  LET a == Ancestors(rows_, i)
           IN  /\ a[0] = i
               /\ \A n \in 1 .. MaxDepth - 1 : a[n] = Up(rows_, a[n - 1])
  <1> DEFINE a == Ancestors(rows_, i)
  <1>1. MaxDepth - 1 \in Nat
    BY HistoryConstants
  <1>2. \E f : IsWalk(f, rows_, i, MaxDepth - 1)
    BY <1>1, WalkExists
  <1>3. a = CHOOSE f : IsWalk(f, rows_, i, MaxDepth - 1)
    BY DEF Ancestors, IsWalk, Up
  <1>4. IsWalk(a, rows_, i, MaxDepth - 1)
    BY <1>2, <1>3
  <1> HIDE DEF a
  <1>5. a = [n \in 0 .. MaxDepth - 1 |-> IF n = 0 THEN i ELSE Up(rows_, a[n - 1])]
    BY <1>4 DEF IsWalk
  <1>6. a[0] = i /\ \A n \in 1 .. MaxDepth - 1 : a[n] = Up(rows_, a[n - 1])
    BY <1>1, <1>5
  <1> QED
    BY <1>6 DEF a

\* The walk of a valid version stays among the stored ones until its root.
LEMMA WalkStored ==
    ASSUME NEW rows_ \in [Ids -> Candidates \cup {NoRow}], NEW i \in Ids, rows_[i] # NoRow,
           NEW n \in 0 .. MaxDepth - 1,
           Ancestors(rows_, i)[n] # Nobody,
           \A m \in 0 .. n - 1 : Link(rows_, Ancestors(rows_, i)[m])
    PROVE  \A m \in 0 .. n : /\ Ancestors(rows_, i)[m] \in Ids
                             /\ rows_[Ancestors(rows_, i)[m]] # NoRow
  <1>0. n \in Nat /\ MaxDepth \in Nat /\ n < MaxDepth
    BY HistoryConstants
  <1>1. PICK a : a = Ancestors(rows_, i)
    OBVIOUS
  <1>2. a[0] = i /\ \A m \in 1 .. MaxDepth - 1 : a[m] = Up(rows_, a[m - 1])
    BY <1>1, Walk
  <1> DEFINE Bad == {m \in 0 .. n : ~(a[m] \in Ids /\ rows_[a[m]] # NoRow)}
  <1> SUFFICES ASSUME Bad # {} PROVE FALSE
    BY <1>1
  <1>3. PICK m \in Bad : \A k \in Bad : m <= k
    <2>1. Bad \in SUBSET Nat
      BY <1>0
    <2> QED
      BY <2>1, Smallest
  <1>4. m \in 1 .. n /\ m - 1 \in 0 .. n - 1 /\ m - 1 \notin Bad
    BY <1>0, <1>2, <1>3
  <1>5. a[m - 1] \in Ids /\ a[m - 1] # Nobody /\ Link(rows_, a[m - 1])
    BY <1>1, <1>4, HistoryConstants
  <1>6. a[m] = rows_[a[m - 1]].parent
    BY <1>0, <1>2, <1>4, <1>5 DEF Up
  <1>7. rows_[a[m]] # NoRow /\ a[m] \in Ids \cup {Nobody}
    <2>1. rows_[a[m - 1]] \in Candidates
      BY <1>4, <1>5
    <2> QED
      BY <1>5, <1>6, <2>1 DEF Link, Candidates
  <1>8. a[m] = Nobody
    BY <1>3, <1>7
  <1> DEFINE Late == {k \in m .. n : a[k] # Nobody}
  <1>9. Late # {}
    BY <1>0, <1>1, <1>4
  <1>10. PICK k \in Late : \A l \in Late : k <= l
    <2>1. Late \in SUBSET Nat
      BY <1>0, <1>4
    <2> QED
      BY <1>9, <2>1, Smallest
  <1>11. k \in 1 .. MaxDepth - 1 /\ k - 1 \in m .. n /\ k - 1 \notin Late
    BY <1>0, <1>4, <1>8, <1>10
  <1> QED
    BY <1>2, <1>10, <1>11 DEF Up

\* A version that was valid stays valid when a version is added.
LEMMA ValidStays ==
    ASSUME NEW old \in [Ids -> Candidates \cup {NoRow}], NEW new,
           \A j \in Ids : old[j] # NoRow => new[j] = old[j],
           NEW i \in Ids, old[i] # NoRow, Valid(old, i)
    PROVE  Valid(new, i)
  <1>1. PICK n \in 0 .. MaxDepth - 1 :
            /\ Ancestors(old, i)[n] # Nobody /\ old[Ancestors(old, i)[n]].parent = Nobody
            /\ \A m \in 0 .. n - 1 : Link(old, Ancestors(old, i)[m])
    BY DEF Valid
  <1>0. n \in Nat /\ MaxDepth \in Nat /\ n < MaxDepth
    BY HistoryConstants
  <1>2. PICK a, b : a = Ancestors(old, i) /\ b = Ancestors(new, i)
    OBVIOUS
  <1>3. /\ a[0] = i /\ b[0] = i
        /\ \A m \in 1 .. MaxDepth - 1 : a[m] = Up(old, a[m - 1]) /\ b[m] = Up(new, b[m - 1])
    BY <1>2, Walk
  <1>4. \A m \in 0 .. n : a[m] \in Ids /\ old[a[m]] # NoRow /\ new[a[m]] = old[a[m]]
    BY <1>1, <1>2, WalkStored
  <1>5. \A m \in 0 .. n : b[m] = a[m]
    <2> DEFINE Bad == {m \in 0 .. n : b[m] # a[m]}
    <2> SUFFICES ASSUME Bad # {} PROVE FALSE
      OBVIOUS
    <2>0. Bad \in SUBSET Nat
      BY <1>0
    <2>1. PICK m \in Bad : \A k \in Bad : m <= k
      BY <2>0, Smallest
    <2>2. m \in 1 .. MaxDepth - 1 /\ m - 1 \in 0 .. n /\ b[m - 1] = a[m - 1]
      BY <1>0, <1>3, <2>1
    <2> QED
      BY <1>3, <1>4, <2>1, <2>2 DEF Up
  <1>6. \A m \in 0 .. n - 1 : Link(new, b[m])
    <2> SUFFICES ASSUME NEW m \in 0 .. n - 1 PROVE Link(new, b[m])
      OBVIOUS
    <2>1. m \in 0 .. n /\ m + 1 \in 1 .. MaxDepth - 1 /\ m + 1 \in 0 .. n /\ (m + 1) - 1 = m
      BY <1>0
    <2>2. a[m + 1] = Up(old, a[m]) /\ b[m] = a[m] /\ Link(old, a[m])
      BY <1>1, <1>2, <1>3, <1>5, <2>1
    <2>3. a[m + 1] = old[a[m]].parent
      BY <1>4, <2>1, <2>2, HistoryConstants DEF Up
    <2>4. new[a[m]] = old[a[m]] /\ new[a[m + 1]] = old[a[m + 1]]
      BY <1>4, <2>1
    <2> QED
      BY <2>2, <2>3, <2>4 DEF Link
  <1>7. b[n] = a[n] /\ new[a[n]] = old[a[n]]
    BY <1>0, <1>4, <1>5
  <1> QED
    BY <1>1, <1>2, <1>6, <1>7 DEF Valid

\* A generated version is its own root.
LEMMA RootValid ==
    ASSUME NEW rows_, NEW g, g # Nobody, rows_[g].parent = Nobody
    PROVE  Valid(rows_, g)
  <1>1. Ancestors(rows_, g)[0] = g /\ 0 \in 0 .. MaxDepth - 1
    BY Walk, HistoryConstants
  <1> QED
    BY <1>1 DEF Valid

\* Rows are only added, and each one added is validated or is a root.
LEMMA ReadableKept ==
    ASSUME TypeOK, EveryVersionReadable, [Next]_vars
    PROVE  EveryVersionReadable'
  <1> USE DEF EveryVersionReadable
  <1>1. candidate \in [Ids -> Candidates \cup {NoRow}]
    BY DEF TypeOK
  <1>2. CASE UNCHANGED candidate
    BY <1>2 DEF Stored
  <1>3. ASSUME NEW k \in Ids, candidate[k] = NoRow, NEW row,
               candidate' = [candidate EXCEPT ![k] = row], Valid(candidate', k)
        PROVE  EveryVersionReadable'
    <2>1. \A j \in Ids : candidate[j] # NoRow => candidate'[j] = candidate[j]
      BY <1>1, <1>3
    <2>2. \A i \in Stored : Valid(candidate', i)
      BY <1>1, <2>1, ValidStays DEF Stored
    <2>3. \A i \in Stored' : i = k \/ i \in Stored
      BY <1>1, <1>3 DEF Stored
    <2> QED
      BY <1>3, <2>2, <2>3
  <1>4. ASSUME NEW w \in Workers, WriteEdit(w), candidate' # candidate
        PROVE  EveryVersionReadable'
    <2>1. Asked(w).key \in Keys
      BY RequestsAreBodies DEF TypeOK, Tasks, Asked, Bodies
    <2>2. /\ Asked(w).key \in Ids \ Stored
          /\ candidate' = [candidate EXCEPT ![Asked(w).key] = Edited(w)]
          /\ Valid(candidate', Asked(w).key)
      BY <1>4, <2>1 DEF WriteEdit, Insertable, Ids
    <2> QED
      BY <1>3, <2>2 DEF Stored
  <1>5. ASSUME NEW g \in Roots, NEW r \in Runs, Generate(g, r)
        PROVE  EveryVersionReadable'
    <2>1. g \in Ids /\ g # Nobody
      BY HistoryConstants DEF Ids
    <2> DEFINE row == [run |-> r, no |-> NextNumber(r), parent |-> Nobody, text |-> Draft]
    <2>2. candidate' = [candidate EXCEPT ![g] = row] /\ candidate[g] = NoRow /\ row.parent = Nobody
      BY <1>5 DEF Generate
    <2> HIDE DEF row
    <2>3. Valid(candidate', g)
      BY <1>1, <2>1, <2>2, RootValid
    <2> QED
      BY <1>3, <2>1, <2>2, <2>3
  <1>6. ASSUME ~(\E w \in Workers : WriteEdit(w)), ~(\E g \in Roots, r \in Runs : Generate(g, r))
        PROVE  UNCHANGED candidate
    BY <1>6 DEF Next, Worker, Begin, LookupEdit, LockRun, RacedEdit, LookupSelect, LockChapter,
                WriteSelect, RacedSelect, Die, SetActive, vars, rows
  <1> QED
    BY <1>2, <1>4, <1>5, <1>6

\* Every stored version can be read back: its lineage reaches a root within the depth
\* limit.  WriteEdit validates the new version before its commit and stored rows never
\* change.
THEOREM VersionsReadable == Spec => []EveryVersionReadable
  <1>1. Init => EveryVersionReadable
    BY DEF Init, EveryVersionReadable, Stored
  <1> QED
    BY <1>1, ReadableKept, TypeCorrect, PTL DEF Spec

-----------------------------------------------------------------------------
\* An answer "done" stays true: the edit or the receipt is stored as it was asked for.
THEOREM DoneStays == Spec => []DoneStaysDone
  <1>1. Inv => DoneStaysDone
    BY DEF Inv, TaskOK, ReplyOK, Done, DoneStaysDone, At, Is, Asked
  <1> QED
    BY <1>1, Invariance, PTL

\* A selection that was told version_conflict has not been applied and never will be.
THEOREM ConflictFinal == Spec => []ConflictIsFinal
  <1>1. Inv => ConflictIsFinal
    <2> SUFFICES ASSUME Inv, NEW w \in Workers, At(w, "idle"), Is(w, "select"),
                        task[w].reply = "version_conflict"
                 PROVE  /\ Asked(w).key \in Receipted =>
                              operation[Asked(w).key].request # Asked(w)
                        /\ selection.version # Asked(w).version
      BY DEF ConflictIsFinal
    <2>1. Missed(Asked(w))
      BY DEF Inv, TaskOK, ReplyOK, At, Is, Asked
    <2>2. Asked(w).version \in Nat /\ selection.version \in Nat
      BY DEF Inv, TypeOK, Tasks, Bodies, Selections, Asked
    <2> QED
      BY <2>1, <2>2 DEF Missed
  <1> QED
    BY <1>1, Invariance, PTL

\* Only the write of a selection touches receipts and selection, and it then continues
\* the selection the handler has seen.
LEMMA OnlyWritesMove ==
    ASSUME Inv, [Next]_vars
    PROVE  \/ UNCHANGED <<operation, selection>>
           \/ \E w \in Workers :
                 /\ At(w, "write") /\ Is(w, "select") /\ Receiptable(w)
                 /\ operation' = [operation EXCEPT
                      ![Asked(w).key] = [request |-> Asked(w), previous |-> task[w].seen]]
                 /\ selection' = [version |-> task[w].seen.version + 1,
                                   shows |-> Asked(w).target]
                 /\ UNCHANGED locking
  <1>1. CASE UNCHANGED vars
    BY <1>1 DEF vars, rows
  <1>2. ASSUME NEW w \in Workers, WriteSelect(w), Receiptable(w)
        PROVE  /\ operation' = [operation EXCEPT
                     ![Asked(w).key] = [request |-> Asked(w), previous |-> task[w].seen]]
               /\ selection' = [version |-> task[w].seen.version + 1,
                                 shows |-> Asked(w).target]
               /\ At(w, "write") /\ Is(w, "select") /\ UNCHANGED locking
    BY <1>2 DEF WriteSelect
  <1>3. ASSUME NEW w \in Workers, WriteSelect(w), ~Receiptable(w)
        PROVE  UNCHANGED <<operation, selection>>
    BY <1>3 DEF WriteSelect
  <1>4. ASSUME NEW w \in Workers, Worker(w), ~WriteSelect(w)
        PROVE  UNCHANGED <<operation, selection>>
    BY <1>4 DEF Worker, rows, Begin, LookupEdit, LockRun, WriteEdit, RacedEdit,
                LookupSelect, LockChapter, RacedSelect, Die
  <1>5. CASE \/ \E g \in Roots, r \in Runs : Generate(g, r)
             \/ \E a \in BOOLEAN : SetActive(a)
    BY <1>5 DEF Generate, SetActive
  <1> QED
    BY <1>1, <1>2, <1>3, <1>4, <1>5 DEF Next

\* The adopted version moves only as an author who saw the current one asked, whether
\* the rows are locked or not.
THEOREM MovesConfirmed == Spec => MovesAsConfirmed
  <1>1. Inv /\ [Next]_vars => ConfirmedMove
    <2> SUFFICES ASSUME Inv, [Next]_vars, selection' # selection
                 PROVE  ConfirmedMove
      BY DEF ConfirmedMove
    <2>1. PICK w \in Workers :
             /\ At(w, "write") /\ Is(w, "select") /\ Receiptable(w)
             /\ selection' = [version |-> task[w].seen.version + 1,
                               shows |-> Asked(w).target]
      BY OnlyWritesMove
    <2> QED
      BY <2>1, WriterIsCurrent DEF ConfirmedMove, Is
  <1>2. Inv /\ [Next]_vars => [ConfirmedMove]_vars
    BY <1>1
  <1> QED
    BY <1>2, Invariance, PTL DEF Spec, MovesAsConfirmed

\* With row locks the adopted version never moves while its chapter is archived.
THEOREM ArchivedStays == Spec => ArchivedStaysPut
  <1>1. Inv /\ [Next]_vars => [locking /\ ~active => selection' = selection]_vars
    BY OnlyWritesMove, WriterIsCurrent
  <1> QED
    BY <1>1, Invariance, PTL DEF Spec, ArchivedStaysPut

\* Receipts and selection implement the register of adopted versions: no history entry
\* is lost or rewritten and no move repeats what is shown.
THEOREM RegisterRefinement == Spec => ImplementsRegister
  <1>1. Init => Register!Init
    BY DEF Init, Register!Init, Receipted, Unselected
  <1>2. Inv /\ [Next]_vars => [Register!Next]_(Register!register)
    <2> SUFFICES ASSUME Inv, [Next]_vars PROVE [Register!Next]_(Register!register)
      OBVIOUS
    <2>1. CASE UNCHANGED <<operation, selection>>
      BY <2>1 DEF Register!register, Receipted
    <2>2. ASSUME NEW w \in Workers, At(w, "write"), Is(w, "select"), Receiptable(w),
                 operation' = [operation EXCEPT
                   ![Asked(w).key] = [request |-> Asked(w), previous |-> task[w].seen]],
                 selection' = [version |-> task[w].seen.version + 1, shows |-> Asked(w).target]
          PROVE  Register!Next
      <3>1. task[w].seen = selection /\ selection.shows # Asked(w).target
        BY <2>2, WriterIsCurrent
      <3>2. PICK q \in Bodies : q = Asked(w)
        BY DEF Inv, TypeOK, Tasks, Asked
      <3>3. q.key \in Keys /\ q.target \in Ids /\ q.key \notin Receipted
        BY <2>2, <3>2 DEF Bodies, Receiptable
      <3>4. PICK c : c = [request |-> q, previous |-> selection]
        OBVIOUS
      <3>5. \A k \in Keys : operation'[k] = IF k = q.key THEN c ELSE operation[k]
        BY <2>2, <3>1, <3>2, <3>4 DEF Inv, TypeOK
      <3>6. c # NoRow
        <4>1. "request" \in DOMAIN c /\ "request" \notin DOMAIN NoRow
          BY <3>4 DEF NoRow
        <4> QED
          BY <4>1
      <3>7. Receipted' = Receipted \cup {q.key}
        BY <3>3, <3>5, <3>6 DEF Receipted
      <3>8. {<<operation'[k].previous.version + 1, operation'[k].request.target>> : k \in Receipted'}
            = {<<operation[k].previous.version + 1, operation[k].request.target>> : k \in Receipted}
              \cup {<<selection.version + 1, q.target>>}
        <4>1. \A k \in Receipted : operation'[k] = operation[k]
          BY <3>3, <3>5 DEF Receipted
        <4>2. operation'[q.key].previous.version = selection.version
              /\ operation'[q.key].request.target = q.target
          BY <3>3, <3>4, <3>5
        <4> QED
          BY <3>7, <4>1, <4>2
      <3> QED
        BY <2>2, <3>1, <3>2, <3>3, <3>8 DEF Register!Next, Register!Move
    <2> QED
      BY <2>1, <2>2, OnlyWritesMove
  <1> QED
    BY <1>1, <1>2, Invariance, PTL DEF Spec, ImplementsRegister, Register!Spec
=============================================================================
