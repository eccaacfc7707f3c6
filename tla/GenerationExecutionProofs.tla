---------------------- MODULE GenerationExecutionProofs ----------------------
(***************************************************************************)
(* Proofs about GenerationExecution for all values of its constants.  They *)
(* rest on one inductive invariant, Inv: who is past the reservation of a  *)
(* key and not done owns its attempt (OwnerOK), the attempt is where the   *)
(* owner's pc says (StageOK), and rows, calls, candidates and the deletion *)
(* agree (RowOK, HistoryOK, StoredOK, VersionOK, DeletionOK).              *)
(***************************************************************************)
EXTENDS GenerationExecution, FiniteSetTheorems, TLAPS

Calling == {"verify", "claim", "call", "wait", "persist", "store"}
Owns(w) == task[w].pc \in Calling \cup Marking

OwnerOK ==
    /\ \A v, w \in Workers : Owns(v) /\ Owns(w) /\ Key(v) = Key(w) => v = w
    /\ \A w \in Workers : Owns(w) /\ live =>
          Exists(Key(w)) /\ attempt[Key(w)].print = Fingerprint(task[w].req)

StageOK ==
    \A w \in Workers :
        /\ task[w].pc \in Calling \cup {"insert"} => live
        /\ task[w].pc \in {"insert", "verify", "claim", "call"} =>
              task[w].cfg = task[w].req.cap
        /\ task[w].pc \in {"verify", "claim"} => attempt[Key(w)].status = "reserved"
        /\ task[w].pc \in {"call", "wait", "persist", "store"} =>
              attempt[Key(w)].status = "calling"
        /\ task[w].pc = "call" => calls[Key(w)] = 0
        /\ task[w].pc \in {"wait", "persist", "store"} => calls[Key(w)] = 1

RowOK ==
    \A k \in Keys : Exists(k) =>
        /\ StateShape(attempt[k])
        /\ attempt[k].status = "reserved" => attempt[k].lock = 1
        /\ attempt[k].status = "calling" => attempt[k].lock = 2

HistoryOK ==
    \A k \in Keys :
        /\ calls[k] <= 1
        /\ calls[k] = 1 /\ live => Exists(k) /\ attempt[k].invoked

DeletionOK ==
    /\ deleting => /\ Deletes /\ live
                   /\ \A k \in Keys : attempt[k].status \notin Active
                   /\ \A w \in Workers : ~At(w, "insert")
    /\ ~live => candidates = {} /\ \A k \in Keys : attempt[k] = NoRow

VersionOK ==
    /\ \A r \in Runs : \E n \in Nat : VersionNos(r) = 1 .. n
    /\ \A w \in Workers : At(w, "store") =>
          task[w].no > 0 /\ 1 .. (task[w].no - 1) \subseteq VersionNos(task[w].req.run)

StoredOK ==
    /\ \A k \in Keys : attempt[k].status = "succeeded" <=> \E c \in candidates : c.key = k
    /\ \A c, d \in candidates : c.key = d.key \/ (c.run = d.run /\ c.no = d.no) => c = d

Inv == /\ TypeOK /\ OwnerOK /\ StageOK /\ RowOK /\ HistoryOK
       /\ DeletionOK /\ VersionOK /\ StoredOK

-----------------------------------------------------------------------------
(* What the control operators of a handler do to its task.                 *)

\* In these states a handler holds no lock and owns no attempt.
Passive == {"idle", "lookup", "lock", "raced", "respond"}

\* The task of w moves to p, for the same request unless p is passive.
Moved(w, p) ==
    /\ task' \in [Workers -> Tasks]
    /\ task'[w].pc = p
    /\ p \in Passive \/ task'[w].req = task[w].req
    /\ \A v \in Workers : v # w => task'[v] = task[v]

LEMMA GotoMoves ==
    ASSUME TypeOK, NEW w \in Workers, NEW p \in PCs, Goto(w, p)
    PROVE  /\ Moved(w, p)
           /\ task'[w].req = task[w].req
           /\ task'[w].cfg = task[w].cfg
           /\ task'[w].no = task[w].no
  <1>1. task \in [Workers -> Tasks] /\ task[w] \in Tasks
    BY DEF TypeOK
  <1>2. [task[w] EXCEPT !.pc = p] \in Tasks
    BY <1>1 DEF Tasks
  <1>3. task' = [task EXCEPT ![w] = [task[w] EXCEPT !.pc = p]]
    BY DEF Goto
  <1> QED
    BY <1>1, <1>2, <1>3 DEF Moved, Tasks

LEMMA LeaveMoves ==
    ASSUME TypeOK, NEW w \in Workers, NEW p \in {"idle", "respond"}, NEW a \in Answers,
           Leave(w, p, a)
    PROVE  Moved(w, p)
  <1>1. task \in [Workers -> Tasks] /\ task[w] \in Tasks
    BY DEF TypeOK
  <1>2. task[w].req \in Requests /\ task[w].req.cap \in Configs
    BY <1>1, RequestsAreBodies DEF Tasks
  <1> DEFINE t == [Started(p, task[w].req, task[w].req.cap) EXCEPT !.reply = a]
  <1>3. t \in Tasks /\ t.pc = p /\ t.req = task[w].req
    BY <1>2 DEF Tasks, Started, PCs
  <1>4. task' = [task EXCEPT ![w] = t]
    BY DEF Leave
  <1> HIDE DEF t
  <1> QED
    BY <1>1, <1>3, <1>4 DEF Moved

LEMMA AnswerMoves ==
    ASSUME TypeOK, NEW w \in Workers, NEW a \in Answers
    PROVE  /\ Answer(w, a) => Moved(w, "idle")
           /\ Report(w, a) => Moved(w, "respond")
  BY LeaveMoves DEF Answer, Report

LEMMA RaiseMoves ==
    ASSUME TypeOK, NEW w \in Workers
    PROVE  /\ \A v \in {"failed", "outcome_unknown"} : Raise(w, v) => Moved(w, "mark")
           /\ Settle(w) => Moved(w, "settle")
           /\ Shield(w) => Moved(w, "shielded")
  <1>1. task \in [Workers -> Tasks] /\ task[w] \in Tasks
    BY DEF TypeOK
  <1>2. ASSUME NEW v \in {"failed", "outcome_unknown"}, NEW p \in Marking,
               task' = [task EXCEPT ![w].pc = p, ![w].verdict = v]
        PROVE  Moved(w, p)
    <2> DEFINE t == [[task[w] EXCEPT !.pc = p] EXCEPT !.verdict = v]
    <2>1. t \in Tasks /\ t.pc = p /\ t.req = task[w].req
      BY <1>1 DEF Tasks, PCs, Marking
    <2>2. task' = [task EXCEPT ![w] = t]
      BY <1>1, <1>2
    <2> HIDE DEF t
    <2> QED
      BY <1>1, <2>1, <2>2 DEF Moved
  <1> QED
    BY <1>2 DEF Raise, Settle, Shield, Marking

-----------------------------------------------------------------------------
(* A handler that answers, or falls back to a state in which it holds no   *)
(* lock and no claim, disturbs nothing.                                    *)

LEMMA Retreat ==
    ASSUME Inv, NEW w \in Workers, NEW p \in Passive \cup Marking,
           Moved(w, p), p \in Passive \/ Owns(w),
           UNCHANGED <<db, env, calls>>
    PROVE  Inv'
  <1> USE DEF Inv, Moved, db, env
  <1>1. TypeOK'
    BY DEF TypeOK, Rows, NoRow
  <1>2. OwnerOK'
    BY DEF OwnerOK, Owns, Key, Exists, Fingerprint, Calling, Marking, Passive
  <1>3. StageOK'
    BY DEF StageOK, Key, Calling, Marking, Passive
  <1>4. RowOK' /\ HistoryOK'
    BY DEF RowOK, HistoryOK, Exists, StateShape
  <1>5. DeletionOK'
    BY DEF DeletionOK, At, Passive, Marking
  <1>6. VersionOK' /\ StoredOK'
    BY DEF VersionOK, VersionNos, At, Passive, Marking, StoredOK
  <1> QED
    BY <1>1, <1>2, <1>3, <1>4, <1>5, <1>6

LEMMA BeginStep ==
    ASSUME Inv, NEW w \in Workers, NEW q \in Requests, Begin(w, q)
    PROVE  Inv'
  <1>1. Started("lookup", q, config) \in Tasks
    BY DEF Inv, TypeOK, Tasks, PCs, Started, Answers
  <1>2. Moved(w, "lookup")
    BY <1>1 DEF Inv, TypeOK, Begin, Moved, Passive, Started
  <1> QED
    BY <1>2, Retreat DEF Begin, Passive, db, env

LEMMA ReplayMoves ==
    ASSUME TypeOK, NEW w \in Workers, Exists(Key(w))
    PROVE  /\ Replay(w) => Moved(w, "idle") \/ Moved(w, "respond")
           /\ attempt[Key(w)].status \in Answers
  <1>1. Key(w) \in Keys
    BY RequestsAreBodies DEF TypeOK, Tasks, Key
  <1>2. attempt[Key(w)] \in Rows
    BY <1>1 DEF TypeOK, Exists
  <1>3. attempt[Key(w)].status \in Answers /\ "key_reused" \in Answers
    BY <1>2 DEF Answers, Rows
  <1> QED
    BY <1>3, AnswerMoves DEF Replay

LEMMA LookupStep ==
    ASSUME Inv, NEW w \in Workers, Lookup(w)
    PROVE  Inv'
  <1> USE DEF Lookup
  <1>1. CASE Exists(Key(w))
    <2>1. Moved(w, "idle") \/ Moved(w, "respond")
      BY <1>1, ReplayMoves DEF Inv
    <2> QED
      BY <2>1, Retreat DEF Passive, db, env
  <1>2. CASE ~Exists(Key(w))
    <2>1. Moved(w, "lock")
      BY <1>2, GotoMoves DEF Inv, PCs
    <2> QED
      BY <2>1, Retreat DEF Passive, db, env
  <1> QED
    BY <1>1, <1>2

LEMMA LockScopeStep ==
    ASSUME Inv, NEW w \in Workers, LockScope(w)
    PROVE  Inv'
  <1> USE DEF LockScope
  <1>1. CASE Admissible(task[w].req, task[w].cfg)
    <2>1. Moved(w, "insert") /\ task'[w].cfg = task[w].cfg
      BY <1>1, GotoMoves DEF Inv, PCs
    <2>2. live /\ task[w].req.cap = task[w].cfg
      BY <1>1 DEF Admissible
    <2>3. ~deleting
      BY LocksOrNoDeletion DEF PlanFree, Inv, DeletionOK
    <2> USE DEF Inv, Moved, Passive, db, env
    <2>4. TypeOK' /\ RowOK' /\ HistoryOK'
      BY <2>1 DEF TypeOK, Rows, NoRow, RowOK, HistoryOK, Exists, StateShape
    <2>5. OwnerOK'
      BY <2>1 DEF OwnerOK, Owns, Key, Exists, Fingerprint, Calling, Marking
    <2>6. StageOK'
      BY <2>1, <2>2 DEF StageOK, Key, Calling, Marking
    <2>7. DeletionOK' /\ VersionOK' /\ StoredOK'
      BY <2>1, <2>3 DEF DeletionOK, At, VersionOK, VersionNos, StoredOK
    <2> QED
      BY <2>4, <2>5, <2>6, <2>7
  <1>2. CASE ~Admissible(task[w].req, task[w].cfg)
    <2>1. Moved(w, "idle")
      BY <1>2, AnswerMoves DEF Inv, Answers
    <2> QED
      BY <2>1, Retreat DEF Passive, db, env
  <1> QED
    BY <1>1, <1>2

LEMMA InsertStep ==
    ASSUME Inv, NEW w \in Workers, Insert(w)
    PROVE  Inv'
  <1> USE DEF Insert
  <1>1. CASE Exists(Key(w))
    <2>1. Moved(w, "raced") /\ UNCHANGED attempt
      BY <1>1, GotoMoves DEF Inv, PCs
    <2> QED
      BY <2>1, Retreat DEF Passive, db, env
  <1>2. CASE ~Exists(Key(w))
    <2>1. Moved(w, "verify") /\ task'[w].req = task[w].req /\ task'[w].cfg = task[w].cfg
      BY <1>2, GotoMoves DEF Inv, PCs
    <2>2. task[w].req \in [key : Keys, run : Runs, ctx : Runs, cap : Configs]
      BY RequestsAreBodies DEF Inv, TypeOK, Tasks
    <2> DEFINE row == Reserved(task[w].req)
    <2>3. row \in Rows /\ row.status = "reserved" /\ row.print = Fingerprint(task[w].req)
               /\ StateShape(row) /\ row.lock = 1
      BY <2>2 DEF Reserved, Rows, Fingerprint, Fingerprints, Active, Usages, StateShape
    <2>4. attempt' = [attempt EXCEPT ![Key(w)] = row] /\ Key(w) \in Keys
      BY <1>2, <2>2 DEF Key
    <2>5. row # NoRow
      BY <2>3 DEF NoRow
    <2>6. live /\ task[w].cfg = task[w].req.cap /\ ~deleting
      BY DEF Inv, StageOK, DeletionOK, At, Calling, Marking
    <2> HIDE DEF row
    <2> USE DEF Inv, Moved, Passive, db, env
    <2>7. TypeOK'
      BY <2>1, <2>3, <2>4 DEF TypeOK
    <2>8. OwnerOK'
      BY <1>2, <2>1, <2>3, <2>4, <2>5, <2>6 DEF OwnerOK, Owns, Key, Exists, TypeOK
    <2>9. StageOK'
      BY <1>2, <2>1, <2>3, <2>4, <2>6 DEF StageOK, Key, TypeOK, Exists, NoRow, Calling, Marking, HistoryOK
    <2>10. RowOK' /\ HistoryOK'
      BY <1>2, <2>3, <2>4, <2>5, <2>6 DEF RowOK, HistoryOK, Exists, TypeOK
    <2>11. DeletionOK' /\ VersionOK'
      BY <2>1, <2>6 DEF DeletionOK, At, VersionOK, VersionNos
    <2>12. StoredOK'
      BY <1>2, <2>3, <2>4 DEF StoredOK, TypeOK, Exists, NoRow
    <2> QED
      BY <2>7, <2>8, <2>9, <2>10, <2>11, <2>12
  <1> QED
    BY <1>1, <1>2

LEMMA RacedStep ==
    ASSUME Inv, NEW w \in Workers, Raced(w)
    PROVE  Inv'
  <1>1. Moved(w, "idle") \/ Moved(w, "respond")
    BY ReplayMoves, AnswerMoves DEF Raced, Inv, Answers
  <1> QED
    BY <1>1, Retreat DEF Raced, Passive, db, env

LEMMA RespondStep ==
    ASSUME Inv, NEW w \in Workers, Respond(w)
    PROVE  Inv'
  <1>1. task[w].reply \in Answers /\ "corrupt" \in Answers
    BY DEF Inv, TypeOK, Tasks, Answers
  <1>2. Moved(w, "idle")
    BY <1>1, AnswerMoves DEF Respond, Inv
  <1> QED
    BY <1>2, Retreat DEF Respond, Passive, db, env

\* Moving on within the handler, the attempt untouched.
LEMMA Advance ==
    ASSUME Inv, NEW w \in Workers, UNCHANGED <<db, env, calls>>,
           NEW p \in {"claim", "persist"},
           task[w].pc = (IF p = "claim" THEN "verify" ELSE "wait"),
           Moved(w, p), task'[w].cfg = task[w].cfg
    PROVE  Inv'
  <1> USE DEF Inv, Moved, Passive, db, env
  <1>1. TypeOK' /\ RowOK' /\ HistoryOK'
    BY DEF TypeOK, Rows, NoRow, RowOK, HistoryOK, Exists, StateShape
  <1>2. OwnerOK'
    BY DEF OwnerOK, Owns, Key, Exists, Fingerprint, Calling, Marking
  <1>3. StageOK'
    BY DEF StageOK, Key, Calling, Marking
  <1>4. DeletionOK' /\ VersionOK' /\ StoredOK'
    BY DEF DeletionOK, At, VersionOK, VersionNos, StoredOK
  <1> QED
    BY <1>1, <1>2, <1>3, <1>4

LEMMA VerifyStep ==
    ASSUME Inv, NEW w \in Workers, Verify(w)
    PROVE  Inv'
  <1> USE DEF Verify, db, env
  <1>1. CASE config = task[w].cfg
    <2>1. Moved(w, "claim") /\ task'[w].cfg = task[w].cfg
      BY <1>1, GotoMoves DEF Inv, PCs
    <2> QED
      BY <2>1, Advance DEF At
  <1>2. CASE config # task[w].cfg
    <2>1. Moved(w, "settle")
      BY <1>2, RaiseMoves DEF Inv
    <2> QED
      BY <2>1, Retreat DEF Owns, At, Calling, Marking
  <1> QED
    BY <1>1, <1>2

LEMMA ClaimStep ==
    ASSUME Inv, NEW w \in Workers, Claim(w)
    PROVE  Inv'
  <1> USE DEF Claim, db, env
  <1>1. /\ Exists(Key(w)) /\ Key(w) \in Keys /\ attempt[Key(w)] \in Rows
        /\ attempt[Key(w)].status = "reserved" /\ attempt[Key(w)].lock = 1
        /\ live /\ task[w].cfg = task[w].req.cap
    BY RequestsAreBodies
       DEF Inv, StageOK, OwnerOK, Owns, Calling, Marking, At, RowOK, TypeOK, Tasks, Key, Exists
  <1>0. CASE Raise(w, "outcome_unknown") /\ UNCHANGED attempt
    <2>1. Moved(w, "mark")
      BY <1>0, RaiseMoves DEF Inv
    <2> QED
      BY <1>0, <2>1, Retreat DEF Owns, At, Calling, Marking
  <1> DEFINE row == Claimed(attempt[Key(w)])
  <1>2. row \in Rows /\ row.status = "calling" /\ row.invoked /\ row.lock = 2
             /\ StateShape(row) /\ row.print = attempt[Key(w)].print
    <2>1. attempt[Key(w)].print \in Fingerprints
      BY <1>1 DEF Rows
    <2> QED
      BY <2>1 DEF Claimed, Rows, Active, Usages, StateShape
  <1>3. ASSUME attempt' = [attempt EXCEPT ![Key(w)] = row],
               Goto(w, "call") \/ Raise(w, "outcome_unknown")
        PROVE  Inv'
    <2>1. PICK p \in {"call", "mark"} :
              Moved(w, p) /\ task'[w].req = task[w].req /\ (p = "call" => task'[w].cfg = task[w].cfg)
      BY <1>3, GotoMoves, RaiseMoves DEF Inv, PCs, Moved, Passive
    <2>2. row # NoRow
      BY <1>2 DEF NoRow
    <2>3. ~deleting
      BY <1>1 DEF Inv, DeletionOK, Active
    <2>4. calls[Key(w)] = 0
      BY <1>1 DEF Inv, HistoryOK, RowOK, StateShape, TypeOK
    <2> HIDE DEF row
    <2> USE DEF Inv, Moved, Passive
    <2>5. TypeOK'
      BY <1>1, <1>2, <1>3, <2>1 DEF TypeOK
    <2>6. OwnerOK'
      BY <1>1, <1>2, <1>3, <2>1, <2>2 DEF OwnerOK, Owns, Key, Exists, TypeOK, Fingerprint, Calling, Marking, At
    <2>7. StageOK'
      BY <1>1, <1>2, <1>3, <2>1, <2>4 DEF StageOK, OwnerOK, Owns, Key, TypeOK, Calling, Marking, At
    <2>8. RowOK' /\ HistoryOK'
      BY <1>1, <1>2, <1>3, <2>2 DEF RowOK, HistoryOK, Exists, TypeOK
    <2>9. DeletionOK' /\ VersionOK'
      BY <1>1, <2>1, <2>3 DEF DeletionOK, At, VersionOK, VersionNos
    <2>10. StoredOK'
      BY <1>1, <1>2, <1>3 DEF StoredOK, TypeOK
    <2> QED
      BY <2>5, <2>6, <2>7, <2>8, <2>9, <2>10
  <1> QED
    BY <1>0, <1>1, <1>3

LEMMA CallProviderStep ==
    ASSUME Inv, NEW w \in Workers, CallProvider(w)
    PROVE  Inv'
  <1> USE DEF CallProvider, db, env
  <1>1. CASE config # task[w].cfg
    <2>1. Moved(w, "mark") /\ UNCHANGED calls
      BY <1>1, RaiseMoves DEF Inv
    <2> QED
      BY <2>1, Retreat DEF Owns, At, Calling, Marking
  <1>2. CASE config = task[w].cfg
    <2>1. Moved(w, "wait") /\ task'[w].req = task[w].req /\ task'[w].cfg = task[w].cfg
      BY <1>2, GotoMoves DEF Inv, PCs
    <2>2. /\ Key(w) \in Keys /\ live /\ attempt[Key(w)].status = "calling"
          /\ Exists(Key(w)) /\ calls[Key(w)] = 0
      BY RequestsAreBodies
         DEF Inv, StageOK, OwnerOK, Owns, Calling, Marking, At, TypeOK, Tasks, Key, Exists
    <2>3. attempt[Key(w)].invoked
      BY <2>2 DEF Inv, RowOK, StateShape
    <2>4. calls' = [calls EXCEPT ![Key(w)] = 1]
      BY <1>2, <2>2
    <2> USE DEF Inv, Moved, Passive
    <2>5. TypeOK'
      BY <2>1, <2>2, <2>4 DEF TypeOK, Rows, NoRow
    <2>6. OwnerOK'
      BY <2>1, <2>2 DEF OwnerOK, Owns, Key, Exists, Fingerprint, Calling, Marking, At
    <2>7. StageOK'
      BY <2>1, <2>2, <2>4 DEF StageOK, OwnerOK, Owns, Key, TypeOK, Calling, Marking, At
    <2>8. RowOK' /\ HistoryOK'
      BY <2>2, <2>3, <2>4 DEF RowOK, HistoryOK, Exists, TypeOK, StateShape
    <2>9. DeletionOK' /\ VersionOK' /\ StoredOK'
      BY <2>1, <2>2 DEF DeletionOK, At, VersionOK, VersionNos, StoredOK
    <2> QED
      BY <2>5, <2>6, <2>7, <2>8, <2>9
  <1> QED
    BY <1>1, <1>2

LEMMA ProviderAnswersStep ==
    ASSUME Inv, NEW w \in Workers, ProviderAnswers(w)
    PROVE  Inv'
  <1> USE DEF ProviderAnswers, db, env
  <1>1. CASE Goto(w, "persist")
    <2>1. Moved(w, "persist") /\ task'[w].cfg = task[w].cfg
      BY <1>1, GotoMoves DEF Inv, PCs
    <2> QED
      BY <2>1, Advance DEF At
  <1>2. CASE Raise(w, "failed") \/ Raise(w, "outcome_unknown")
    <2>1. Moved(w, "mark")
      BY <1>2, RaiseMoves DEF Inv
    <2> QED
      BY <2>1, Retreat DEF Owns, At, Calling, Marking
  <1> QED
    BY <1>1, <1>2

LEMMA NextVersionIsSuccessor ==
    ASSUME NEW r \in Runs, NEW n \in Nat, VersionNos(r) = 1 .. n
    PROVE  NextVersion(r) = n + 1
  <1>1. CASE n = 0
    <2>1. VersionNos(r) = {}
      BY <1>1
    <2> QED
      BY <1>1, <2>1 DEF NextVersion
  <1>2. CASE n # 0
    <2> DEFINE Largest(x) == x \in VersionNos(r) /\ \A m \in VersionNos(r) : m <= x
    <2>1. n \in VersionNos(r) /\ VersionNos(r) # {}
      BY <1>2
    <2>2. \A x : Largest(x) <=> x = n
      BY <2>1
    <2>3. (CHOOSE x : Largest(x)) = n
      BY <2>2, Zenon
    <2>4. (CHOOSE x \in VersionNos(r) : \A m \in VersionNos(r) : m <= x) = n
      BY <2>3
    <2> QED
      BY <2>1, <2>4 DEF NextVersion
  <1> QED
    BY <1>1, <1>2

LEMMA LockRunStep ==
    ASSUME Inv, NEW w \in Workers, LockRun(w)
    PROVE  Inv'
  <1> USE DEF LockRun, db, env
  <1>1. /\ Key(w) \in Keys /\ task[w].req.run \in Runs /\ Exists(Key(w))
        /\ attempt[Key(w)].status = "calling" /\ live
    BY RequestsAreBodies
       DEF Inv, StageOK, OwnerOK, Owns, Calling, Marking, At, TypeOK, Tasks, Key, Exists
  <1>2. CASE Settle(w)
    <2>1. Moved(w, "settle")
      BY <1>2, RaiseMoves DEF Inv
    <2> QED
      BY <2>1, Retreat DEF Owns, At, Calling, Marking
  <1>3. CASE task' = [task EXCEPT ![w].pc = "store", ![w].no = NextVersion(task[w].req.run)]
    <2> DEFINE r == task[w].req.run
               new == NextVersion(r)
    <2>1. PICK n \in Nat : VersionNos(r) = 1 .. n
      BY <1>1 DEF Inv, VersionOK
    <2>2. new = n + 1
      BY <1>1, <2>1, NextVersionIsSuccessor
    <2>3. new \in Nat /\ new > 0 /\ 1 .. (new - 1) \subseteq VersionNos(r)
      BY <2>1, <2>2
    <2> DEFINE t == [[task[w] EXCEPT !.pc = "store"] EXCEPT !.no = new]
    <2>4. task \in [Workers -> Tasks] /\ task[w] \in Tasks
      BY DEF Inv, TypeOK
    <2> HIDE DEF new
    <2>5. t \in Tasks /\ t.pc = "store" /\ t.req = task[w].req /\ t.no = new
      BY <2>3, <2>4 DEF Tasks, PCs
    <2>6. task' = [task EXCEPT ![w] = t]
      BY <1>3, <2>4 DEF new
    <2> HIDE DEF t
    <2>7. Moved(w, "store") /\ task'[w].req = task[w].req /\ task'[w].no = new
      BY <2>4, <2>5, <2>6 DEF Moved
    <2> USE DEF Inv, Moved, Passive
    <2>8. TypeOK' /\ RowOK' /\ HistoryOK'
      BY <2>7 DEF TypeOK, Rows, NoRow, RowOK, HistoryOK, Exists, StateShape
    <2>9. OwnerOK'
      BY <1>1, <2>7 DEF OwnerOK, Owns, Key, Exists, Fingerprint, Calling, Marking, At
    <2>10. StageOK'
      BY <1>1, <2>7 DEF StageOK, Key, Calling, Marking, At
    <2>11. DeletionOK' /\ StoredOK'
      BY <1>1, <2>7 DEF DeletionOK, At, StoredOK
    <2>12. VersionOK'
      BY <2>3, <2>7 DEF VersionOK, VersionNos, At
    <2> QED
      BY <2>8, <2>9, <2>10, <2>11, <2>12
  <1> QED
    BY <1>1, <1>2, <1>3

LEMMA StoreStep ==
    ASSUME Inv, NEW w \in Workers, Store(w)
    PROVE  Inv'
  <1> USE DEF Store, db, env
  <1>1. /\ Key(w) \in Keys /\ task[w].req.run \in Runs /\ Exists(Key(w))
        /\ attempt[Key(w)].status = "calling" /\ live /\ attempt[Key(w)] \in Rows
        /\ task[w].no \in Nat \ {0} /\ attempt[Key(w)].invoked /\ attempt[Key(w)].lock = 2
    BY RequestsAreBodies
       DEF Inv, StageOK, OwnerOK, Owns, Calling, Marking, At, TypeOK, Tasks, Key, Exists, RowOK,
           StateShape, VersionOK
  <1>2. CASE /\ Raise(w, "outcome_unknown") \/ Answer(w, "error")
             /\ UNCHANGED <<attempt, candidates>>
    <2>1. PICK p \in {"mark", "idle"} : Moved(w, p)
      BY <1>2, RaiseMoves, AnswerMoves DEF Inv, Answers
    <2> QED
      BY <1>2, <2>1, Retreat DEF Owns, At, Calling, Marking, Passive
  <1>3. ASSUME Storable(w), candidates' = candidates \cup {Candidate(w)},
               NEW u \in {"reported", "unavailable"},
               attempt' = [attempt EXCEPT ![Key(w)] = Succeeded(@, u)],
               Report(w, "succeeded") \/ Raise(w, "outcome_unknown") \/ Shield(w)
        PROVE  Inv'
    <2> DEFINE row == Succeeded(attempt[Key(w)], u)
    <2>1. row \in Rows /\ row.status = "succeeded" /\ row.invoked
               /\ StateShape(row) /\ row.print = attempt[Key(w)].print
      <3>1. attempt[Key(w)].print \in Fingerprints /\ attempt[Key(w)].invoked \in BOOLEAN
        BY <1>1 DEF Rows
      <3> QED
        BY <1>1, <3>1 DEF Succeeded, Rows, Terminal, Usages, StateShape
    <2>2. attempt' = [attempt EXCEPT ![Key(w)] = row]
      BY <1>3
    <2>3. row # NoRow
      BY <2>1 DEF NoRow
    <2>4. PICK p \in {"respond", "mark", "shielded"} : Moved(w, p)
      BY <1>3, AnswerMoves, RaiseMoves DEF Inv, Answers, Terminal
    <2>5. ~deleting
      BY <1>1 DEF Inv, DeletionOK, Active
    <2> HIDE DEF row
    <2>6. PICK c0 \in [key : Keys, run : Runs, no : Nat \ {0}] :
             /\ c0.key = Key(w) /\ c0.run = task[w].req.run /\ c0.no = task[w].no
             /\ candidates' = candidates \cup {c0}
      BY <1>1, <1>3 DEF Candidate
    <2>7. candidates' = candidates \cup {c0}
      BY <2>6
    <2>8. \A c \in candidates : c.key # c0.key /\ ~(c.run = c0.run /\ c.no = c0.no)
      BY <1>3, <2>6 DEF Storable
    <2> USE DEF Inv, Moved, Passive
    <2>9. TypeOK'
      BY <1>1, <2>1, <2>2, <2>4, <2>6, <2>7 DEF TypeOK
    <2>10. OwnerOK'
      BY <1>1, <2>1, <2>2, <2>3, <2>4 DEF OwnerOK, Owns, Key, Exists, TypeOK, Fingerprint, Calling, Marking, At
    <2>11. StageOK'
      BY <1>1, <2>1, <2>2, <2>4 DEF StageOK, OwnerOK, Owns, Key, TypeOK, Calling, Marking, At
    <2>12. RowOK' /\ HistoryOK'
      BY <1>1, <2>1, <2>2, <2>3 DEF RowOK, HistoryOK, Exists, TypeOK
    <2>13. DeletionOK'
      BY <1>1, <2>4, <2>5 DEF DeletionOK, At
    <2>14. StoredOK'
      BY <1>1, <2>1, <2>2, <2>6, <2>7, <2>8 DEF StoredOK, TypeOK
    <2>15. \A r \in Runs : r # c0.run => VersionNos(r)' = VersionNos(r)
      BY <2>7 DEF VersionNos
    <2>16. VersionNos(c0.run)' = VersionNos(c0.run) \cup {c0.no}
      BY <2>7 DEF VersionNos
    <2>17. c0.no \notin VersionNos(c0.run)
      BY <2>8 DEF VersionNos
    <2>18. \E n \in Nat : VersionNos(c0.run)' = 1 .. n
      <3>1. PICK n \in Nat : VersionNos(c0.run) = 1 .. n
        BY <1>1, <2>6 DEF VersionOK
      <3>2. 1 .. (c0.no - 1) \subseteq 1 .. n /\ c0.no \notin 1 .. n /\ c0.no \in Nat \ {0}
        BY <1>1, <2>6, <2>17, <3>1 DEF VersionOK, At
      <3>3. c0.no = n + 1
        <4>1. c0.no > n
          BY <3>2
        <4>2. c0.no - 1 = 0 \/ c0.no - 1 \in 1 .. n
          BY <3>2
        <4> QED
          BY <3>2, <4>1, <4>2
      <3>4. VersionNos(c0.run)' = 1 .. (n + 1)
        BY <2>16, <3>1, <3>3
      <3> QED
        BY <3>4
    <2>19. VersionOK'
      <3>1. \A r \in Runs : \E n \in Nat : VersionNos(r)' = 1 .. n
        <4>1. \A r \in Runs : r # c0.run => \E n \in Nat : VersionNos(r)' = 1 .. n
          BY <2>15 DEF VersionOK
        <4> QED
          BY <2>18, <4>1
      <3>2. \A r \in Runs : VersionNos(r) \subseteq VersionNos(r)'
        BY <2>15, <2>16
      <3>3. \A v \in Workers : At(v, "store")' => v # w /\ task'[v] = task[v]
        BY <2>4 DEF At
      <3>4. \A v \in Workers : task[v].req.run \in Runs
        BY RequestsAreBodies DEF TypeOK, Tasks
      <3> QED
        BY <3>1, <3>2, <3>3, <3>4 DEF VersionOK, At
    <2> QED
      BY <2>9, <2>10, <2>11, <2>12, <2>13, <2>14, <2>19
  <1> QED
    BY <1>2, <1>3

LEMMA MarkStep ==
    ASSUME Inv, NEW w \in Workers, Mark(w)
    PROVE  Inv'
  <1> USE DEF Mark, db, env
  <1>1. /\ Key(w) \in Keys /\ task[w].verdict \in {"failed", "outcome_unknown"}
        /\ Exists(Key(w)) => attempt[Key(w)] \in Rows
    BY RequestsAreBodies DEF Inv, TypeOK, Tasks, Key, Exists
  <1>2. PICK p \in {"idle", "respond"} : Moved(w, p)
    BY <1>1, AnswerMoves, ReplayMoves DEF Inv, Answers, Terminal
  <1>3. CASE UNCHANGED attempt
    BY <1>2, <1>3, Retreat DEF Passive
  <1>4. CASE /\ Exists(Key(w)) /\ attempt[Key(w)].status \in Active
             /\ StateShape(Failed(attempt[Key(w)], task[w].verdict))
             /\ attempt' = [attempt EXCEPT ![Key(w)] = Failed(@, task[w].verdict)]
    <2> DEFINE row == Failed(attempt[Key(w)], task[w].verdict)
    <2>1. row \in Rows /\ row.status \in {"failed", "outcome_unknown"}
               /\ StateShape(row) /\ row.print = attempt[Key(w)].print
               /\ row.invoked = attempt[Key(w)].invoked
      <3>1. /\ attempt[Key(w)].print \in Fingerprints /\ attempt[Key(w)].invoked \in BOOLEAN
            /\ attempt[Key(w)].lock \in 1 .. 2
        BY <1>1, <1>4 DEF Rows, Inv, RowOK, Active
      <3> QED
        BY <1>1, <1>4, <3>1 DEF Failed, Rows, Terminal, Usages
    <2>2. attempt' = [attempt EXCEPT ![Key(w)] = row]
      BY <1>4
    <2>3. row # NoRow
      BY <2>1 DEF NoRow
    <2>4. live /\ ~deleting
      BY <1>1, <1>4 DEF Inv, DeletionOK, Exists
    <2> HIDE DEF row
    <2> USE DEF Inv, Moved, Passive
    <2>5. TypeOK'
      BY <1>1, <1>2, <2>1, <2>2 DEF TypeOK
    <2>6. OwnerOK'
      BY <1>1, <1>2, <2>1, <2>2, <2>3 DEF OwnerOK, Owns, Key, Exists, TypeOK, Fingerprint, Calling, Marking, At
    <2>7. StageOK'
      BY <1>1, <1>2, <2>1, <2>2 DEF StageOK, OwnerOK, Owns, Key, TypeOK, Calling, Marking, At
    <2>8. RowOK' /\ HistoryOK'
      BY <1>1, <2>1, <2>2, <2>3 DEF RowOK, HistoryOK, Exists, TypeOK
    <2>9. DeletionOK' /\ VersionOK'
      BY <1>2, <2>4 DEF DeletionOK, At, VersionOK, VersionNos
    <2>10. StoredOK'
      BY <1>1, <1>4, <2>1, <2>2 DEF StoredOK, TypeOK, Active
    <2> QED
      BY <2>5, <2>6, <2>7, <2>8, <2>9, <2>10
  <1> QED
    BY <1>3, <1>4

LEMMA CancelOrDieStep ==
    ASSUME Inv, NEW w \in Workers, Cancel(w) \/ Die(w)
    PROVE  Inv'
  <1>1. CASE Answer(w, "none")
    <2>1. Moved(w, "idle")
      BY <1>1, AnswerMoves DEF Inv, Answers
    <2> QED
      BY <2>1, Retreat DEF Cancel, Die, Passive
  <1>2. CASE Shield(w) /\ task[w].pc \in {"claim", "call", "wait", "persist", "store", "settle"}
    <2>1. Moved(w, "shielded")
      BY <1>2, RaiseMoves DEF Inv
    <2> QED
      BY <1>2, <2>1, Retreat DEF Cancel, Die, Owns, Calling, Marking, At, Answer
  <1> QED
    BY <1>1, <1>2 DEF Cancel, Die

LEMMA PrepareStep ==
    ASSUME Inv, NEW r \in Runs, Prepare(r)
    PROVE  Inv'
  <1> USE DEF Prepare, env, Inv
  <1>1. TypeOK' /\ RowOK' /\ HistoryOK'
    BY DEF TypeOK, Rows, NoRow, RowOK, HistoryOK, Exists, StateShape
  <1>2. OwnerOK' /\ StageOK' /\ DeletionOK'
    BY DEF OwnerOK, StageOK, DeletionOK, Owns, Key, Exists, Fingerprint, Calling, Marking, At
  <1>3. VersionOK' /\ StoredOK'
    BY DEF VersionOK, VersionNos, StoredOK, At
  <1> QED
    BY <1>1, <1>2, <1>3

LEMMA PlanningOrSettingsStep ==
    ASSUME Inv,
           \/ \E a \in BOOLEAN : EditPlanning(a)
           \/ \E c \in Configs : SaveSettings(c)
           \/ Restart
    PROVE  Inv'
  <1> USE DEF EditPlanning, SaveSettings, Restart, db, env, Inv
  <1>0. UNCHANGED <<attempt, candidates, prepared, live, deleting, task, calls>>
    OBVIOUS
  <1>1. TypeOK' /\ RowOK' /\ HistoryOK'
    <2>1. scope' \in [version : Nat, active : BOOLEAN]
      BY DEF TypeOK
    <2>2. config' \in Configs /\ frozen' \in BOOLEAN
      BY DEF TypeOK
    <2> QED
      BY <1>0, <2>1, <2>2 DEF TypeOK, Rows, NoRow, RowOK, HistoryOK, Exists, StateShape
  <1>2. OwnerOK' /\ StageOK' /\ DeletionOK'
    BY <1>0 DEF OwnerOK, StageOK, DeletionOK, Owns, Key, Exists, Fingerprint, Calling, Marking, At
  <1>3. VersionOK' /\ StoredOK'
    BY <1>0 DEF VersionOK, VersionNos, StoredOK, At
  <1> QED
    BY <1>1, <1>2, <1>3

LEMMA DeleteCheckStep ==
    ASSUME Inv, DeleteCheck \/ DeleteAbort
    PROVE  Inv'
  <1> USE DEF DeleteCheck, DeleteAbort, env, Inv
  <1>0. UNCHANGED <<attempt, candidates, prepared, scope, live, config, frozen, task, calls>>
        /\ deleting' \in BOOLEAN
    OBVIOUS
  <1>1. TypeOK' /\ RowOK' /\ HistoryOK'
    <2>1. TypeOK'
      BY <1>0 DEF TypeOK
    <2>2. RowOK' /\ HistoryOK'
      BY <1>0 DEF RowOK, HistoryOK, Exists, StateShape
    <2> QED
      BY <2>1, <2>2
  <1>2. OwnerOK' /\ StageOK'
    BY DEF OwnerOK, StageOK, Owns, Key, Exists, Fingerprint, Calling, Marking
  <1>3. DeletionOK'
    BY LocksOrNoDeletion DEF DeletionOK, PlanFree, HoldsScope, At
  <1>4. VersionOK' /\ StoredOK'
    BY DEF VersionOK, VersionNos, StoredOK, At
  <1> QED
    BY <1>1, <1>2, <1>3, <1>4

LEMMA DeleteCommitStep ==
    ASSUME Inv, DeleteCommit
    PROVE  Inv'
  <1> USE DEF DeleteCommit, env, Inv
  <1>1. \A w \in Workers : task[w].pc \notin Calling \cup {"insert"}
    BY RequestsAreBodies DEF StageOK, DeletionOK, At, Calling, Marking, Active, TypeOK, Tasks, Key
  <1>2. TypeOK'
    BY DEF TypeOK
  <1>3. OwnerOK' /\ StageOK' /\ DeletionOK'
    BY <1>1 DEF OwnerOK, StageOK, DeletionOK, Owns, Key, Calling, Marking
  <1>4. RowOK' /\ HistoryOK'
    BY DEF RowOK, HistoryOK, Exists
  <1>5. VersionOK'
    <2>1. \A r \in Runs : VersionNos(r)' = 1 .. 0
      BY DEF VersionNos
    <2> QED
      BY <1>1, <2>1 DEF VersionOK, At, Calling, Marking
  <1>6. StoredOK'
    BY DEF StoredOK, NoRow
  <1> QED
    BY <1>2, <1>3, <1>4, <1>5, <1>6

LEMMA InitInv ==
    ASSUME Init
    PROVE  Inv
  <1>1. /\ (CHOOSE q \in Requests : TRUE) \in Requests
        /\ config \in Configs
    BY RequestsAreBodies DEF Init
  <1>2. \A w \in Workers : task[w] \in Tasks /\ task[w].pc = "idle"
    BY <1>1 DEF Init, Started, Tasks, PCs, Answers
  <1>3. TypeOK
    BY <1>2 DEF Init, TypeOK
  <1>4. OwnerOK /\ StageOK
    BY <1>2 DEF OwnerOK, StageOK, Owns, Calling, Marking
  <1>5. RowOK /\ HistoryOK /\ StoredOK /\ DeletionOK
    BY DEF Init, RowOK, HistoryOK, StoredOK, Exists, DeletionOK, NoRow
  <1>6. VersionOK
    <2>1. \A r \in Runs : VersionNos(r) = 1 .. 0
      BY DEF VersionNos, Init
    <2> QED
      BY <1>2, <2>1 DEF VersionOK, At
  <1> QED
    BY <1>3, <1>4, <1>5, <1>6 DEF Inv

LEMMA StutterInv ==
    ASSUME Inv, UNCHANGED vars
    PROVE  Inv'
  <1> USE DEF vars, db, env, Inv
  <1>1. TypeOK' /\ RowOK' /\ HistoryOK'
    BY DEF TypeOK, Rows, NoRow, RowOK, HistoryOK, Exists, StateShape
  <1>2. OwnerOK' /\ StageOK' /\ DeletionOK'
    BY DEF OwnerOK, StageOK, DeletionOK, Owns, Key, Exists, Fingerprint, Calling, Marking, At
  <1>3. VersionOK' /\ StoredOK'
    BY DEF VersionOK, VersionNos, StoredOK, At
  <1> QED
    BY <1>1, <1>2, <1>3

LEMMA NextInv ==
    ASSUME Inv, [Next]_vars
    PROVE  Inv'
  <1>1. ASSUME NEW w \in Workers, Handler(w) PROVE Inv'
    BY <1>1, LookupStep, LockScopeStep, InsertStep, RacedStep, VerifyStep, ClaimStep,
       CallProviderStep, ProviderAnswersStep, LockRunStep, StoreStep, MarkStep,
       RespondStep DEF Handler
  <1>2. ASSUME NEW w \in Workers, Worker(w) PROVE Inv'
    BY <1>1, <1>2, BeginStep, CancelOrDieStep DEF Worker
  <1>3. CASE Environment
    BY <1>3, PrepareStep, PlanningOrSettingsStep, DeleteCheckStep, DeleteCommitStep
       DEF Environment
  <1> QED
    BY <1>2, <1>3, StutterInv DEF Next

\* The invariant holds in every reachable state.
THEOREM Invariance == Spec => []Inv
  BY InitInv, NextInv, PTL DEF Spec

\* The rows, handlers and history always have the shapes the schema declares.
THEOREM TypeCorrect == Spec => []TypeOK
  <1>1. Inv => TypeOK
    BY DEF Inv
  <1> QED
    BY <1>1, Invariance, PTL

\* For any number of requests, keys and runs, under crashes, cancellations and
\* repeated requests, no operation key ever pays for a second provider call.
THEOREM SingleCall == Spec => []AtMostOneCall
  <1>1. Inv => AtMostOneCall
    BY DEF Inv, HistoryOK, AtMostOneCall
  <1> QED
    BY <1>1, Invariance, PTL

\* A row that claims nothing was billed is one whose key was never called.
THEOREM UnbilledTruth == Spec => []UnbilledMeansUncalled
  <1>1. Inv => UnbilledMeansUncalled
    BY DEF Inv, HistoryOK, DeletionOK, UnbilledMeansUncalled, Exists, TypeOK
  <1> QED
    BY <1>1, Invariance, PTL

\* Whoever has reserved and is on the way to the provider or back still has a project.
THEOREM DeletionWaits == Spec => []NoDeletionUnderCall
  <1>1. Inv => NoDeletionUnderCall
    BY DEF Inv, StageOK, NoDeletionUnderCall, Calling, Marking
  <1> QED
    BY <1>1, Invariance, PTL

\* A success is never shown without its text, nor a text kept under a failed attempt.
THEOREM SuccessIsStored == Spec => []SucceededIffStored
  <1>1. ASSUME Inv PROVE SucceededIffStored
    <2> SUFFICES ASSUME NEW k \in Keys
                 PROVE  Cardinality({c \in candidates : c.key = k})
                            = IF attempt[k].status = "succeeded" THEN 1 ELSE 0
      BY DEF SucceededIffStored
    <2> USE <1>1 DEF Inv, StoredOK
    <2>1. CASE attempt[k].status = "succeeded"
      <3>1. PICK c \in candidates : c.key = k
        BY <2>1
      <3>2. {d \in candidates : d.key = k} = {c}
        BY <3>1
      <3> QED
        BY <2>1, <3>2, FS_Singleton
    <2>2. CASE attempt[k].status # "succeeded"
      <3>1. {d \in candidates : d.key = k} = {}
        BY <2>2
      <3> QED
        BY <2>2, <3>1, FS_EmptySet
    <2> QED
      BY <2>1, <2>2
  <1> QED
    BY <1>1, Invariance, PTL

\* The numbers of the generated texts of a run (MAX(version_no) + 1) have no gap.
VersionsGapless ==
    \A r \in Runs :
        VersionNos(r) = 1 .. Cardinality({c \in candidates : c.run = r})

\* The versions of a run are numbered 1..n without gap or duplicate, n its number of
\* generated texts, with and without row locks.
THEOREM VersionsDense == Spec => []VersionsGapless
  <1>1. ASSUME Inv PROVE VersionsGapless
    <2> SUFFICES ASSUME NEW r \in Runs
                 PROVE  VersionNos(r) = 1 .. Cardinality({c \in candidates : c.run = r})
      BY DEF VersionsGapless
    <2>1. PICK n \in Nat : VersionNos(r) = 1 .. n
      BY <1>1 DEF Inv, VersionOK
    <2>2. PICK S : S = {c \in candidates : c.run = r}
      OBVIOUS
    <2>3. IsFiniteSet(1 .. n) /\ Cardinality(1 .. n) = n
      BY FS_Interval
    <2> DEFINE f == [i \in 1 .. n |-> CHOOSE c \in S : c.no = i]
    <2>4. \A i \in 1 .. n : \E c \in S : c.no = i
      BY <2>1, <2>2 DEF VersionNos
    <2>5. \A i \in 1 .. n : f[i] \in S /\ f[i].no = i
      BY <2>4
    <2>6. \A c \in S : c.no \in 1 .. n
      BY <2>1, <2>2 DEF VersionNos
    <2>7. \A c \in S : \A d \in S : c.no = d.no => c = d
      BY <1>1, <2>2 DEF Inv, StoredOK
    <2>8. f \in [1 .. n -> S]
      BY <2>4
    <2> HIDE DEF f
    <2>9. f \in Bijection(1 .. n, S)
      BY <2>5, <2>6, <2>7, <2>8 DEF Bijection, Injection, Surjection, IsInjective
    <2>10. Cardinality(S) = n
      BY <2>3, <2>9, FS_Bijection DEF ExistsBijection
    <2> QED
      BY <2>1, <2>2, <2>10
  <1> QED
    BY <1>1, Invariance, PTL

LEMMA OnlyCallProviderCalls ==
    ASSUME [Next]_vars
    PROVE  UNCHANGED calls \/ \E w \in Workers : CallProvider(w)
  <1>1. ASSUME NEW w \in Workers, Worker(w), ~CallProvider(w) PROVE UNCHANGED calls
    BY <1>1 DEF Worker, Handler, Begin, Lookup, LockScope, Insert, Raced, Verify, Claim,
                ProviderAnswers, LockRun, Store, Mark, Respond, Cancel, Die
  <1>2. CASE Environment
    BY <1>2 DEF Environment, Prepare, EditPlanning, SaveSettings, Restart, DeleteCheck,
                DeleteCommit, DeleteAbort
  <1> QED
    BY <1>1, <1>2 DEF Next, vars

\* Every provider call is made for a claimed attempt of an existing project, under
\* the settings its owner confirmed.
THEOREM ConfirmedCalls == Spec => CallsAsConfirmed
  <1>1. ASSUME Inv, [Next]_vars PROVE ConfirmedCall
    <2>1. CASE UNCHANGED calls
      BY <2>1 DEF ConfirmedCall
    <2>2. ASSUME NEW w \in Workers, CallProvider(w) PROVE ConfirmedCall
      <3>1. \A k \in Keys : calls'[k] # calls[k] => k = Key(w) /\ config = task[w].cfg
        BY <1>1, <2>2 DEF CallProvider, Inv, TypeOK
      <3>2. /\ live /\ attempt[Key(w)].status = "calling" /\ task[w].cfg = task[w].req.cap
            /\ attempt[Key(w)].print = Fingerprint(task[w].req)
        BY <1>1, <2>2 DEF Inv, StageOK, OwnerOK, Owns, Calling, Marking, CallProvider, At
      <3>3. attempt[Key(w)].print.cap = task[w].req.cap
        BY <3>2 DEF Fingerprint
      <3> QED
        BY <3>1, <3>2, <3>3 DEF ConfirmedCall
    <2> QED
      BY <1>1, <2>1, <2>2, OnlyCallProviderCalls
  <1> QED
    BY <1>1, Invariance, PTL DEF Spec, CallsAsConfirmed

LEMMA AttemptWriters ==
    ASSUME [Next]_vars
    PROVE  \/ UNCHANGED attempt
           \/ DeleteCommit
           \/ \E w \in Workers : Insert(w) \/ Claim(w) \/ Store(w) \/ Mark(w)
  <1>1. ASSUME NEW w \in Workers, Worker(w), ~(Insert(w) \/ Claim(w) \/ Store(w) \/ Mark(w))
        PROVE  UNCHANGED attempt
    BY <1>1 DEF Worker, Handler, Begin, Lookup, LockScope, Raced, Verify, CallProvider,
                ProviderAnswers, LockRun, Respond, Cancel, Die, db
  <1>2. CASE Environment
    BY <1>2 DEF Environment, Prepare, EditPlanning, SaveSettings, Restart, DeleteCheck,
                DeleteAbort, db
  <1> QED
    BY <1>1, <1>2 DEF Next, vars, db

LEMMA TerminalKept ==
    ASSUME Inv, [Next]_vars
    PROVE  KeepsTerminal
  <1> USE DEF KeepsTerminal, Terminal
  <1>1. CASE UNCHANGED attempt
    BY <1>1
  <1>2. CASE DeleteCommit
    BY <1>2 DEF DeleteCommit, NoRow
  <1>3. ASSUME NEW w \in Workers, Insert(w) \/ Claim(w) \/ Store(w) \/ Mark(w)
        PROVE  KeepsTerminal
    <2> SUFFICES ASSUME NEW k \in Keys
                 PROVE  /\ attempt[k].status \in Terminal => attempt'[k] = attempt[k]
                        /\ attempt[k].status = "calling" => attempt'[k].status # "reserved"
      OBVIOUS
    <2>0. attempt \in [Keys -> Rows \cup {NoRow}]
      BY DEF Inv, TypeOK
    <2>1. CASE Insert(w)
      BY <2>0, <2>1 DEF Insert, Exists, NoRow
    <2>2. CASE Claim(w)
      BY <2>0, <2>2 DEF Claim, Claimed
    <2>3. CASE Store(w)
      <3>1. attempt[Key(w)].status = "calling"
        BY <2>3 DEF Store, Inv, StageOK, At
      <3> QED
        BY <2>0, <2>3, <3>1 DEF Store, Succeeded
    <2>4. CASE Mark(w)
      <3>1. task[w].verdict \in {"failed", "outcome_unknown"}
        BY DEF Inv, TypeOK, Tasks
      <3> QED
        BY <2>0, <2>4, <3>1 DEF Mark, Failed, Active
    <2> QED
      BY <1>3, <2>1, <2>2, <2>3, <2>4
  <1> QED
    BY <1>1, <1>2, <1>3, AttemptWriters

\* A terminal attempt never changes, and a claimed one never becomes reserved again.
THEOREM TerminalStays == Spec => TerminalIsFinal
  BY TerminalKept, Invariance, PTL DEF Spec, TerminalIsFinal

-----------------------------------------------------------------------------
(* What a client is told of a terminal status stays true.  A handler that  *)
(* has it in hand reads two more rows before it answers ("respond"), so    *)
(* the invariant is about both states.                                     *)

TrueReply(w) ==
    task[w].pc \in {"idle", "respond"} /\ task[w].reply \in Terminal /\ live =>
        /\ attempt[Key(w)].status = task[w].reply
        /\ attempt[Key(w)].print = Fingerprint(task[w].req)

ReplyOK == \A w \in Workers : TrueReply(w)

LEMMA LeaveReplies ==
    ASSUME TypeOK, NEW w \in Workers, NEW p, NEW a, Leave(w, p, a)
    PROVE  task'[w].req = task[w].req /\ task'[w].reply = a
  <1>1. task \in [Workers -> Tasks]
    BY DEF TypeOK
  <1> QED
    BY <1>1 DEF Leave, Started

\* A handler that is under way, or that answers something else, claims nothing.
LEMMA SilentReply ==
    ASSUME TypeOK, NEW w \in Workers
    PROVE  /\ \A p \in PCs \ {"idle", "respond"} : Goto(w, p) => TrueReply(w)'
           /\ \A v \in {"failed", "outcome_unknown"} : Raise(w, v) => TrueReply(w)'
           /\ Settle(w) \/ Shield(w) => TrueReply(w)'
           /\ \A a \in Answers \ Terminal : Answer(w, a) => TrueReply(w)'
  <1>1. \A p \in PCs \ {"idle", "respond"} : Goto(w, p) => TrueReply(w)'
    BY GotoMoves DEF Moved, TrueReply
  <1>2. \A v \in {"failed", "outcome_unknown"} : Raise(w, v) => TrueReply(w)'
    BY RaiseMoves DEF Moved, TrueReply
  <1>3. Settle(w) \/ Shield(w) => TrueReply(w)'
    BY RaiseMoves DEF Moved, TrueReply
  <1>4. \A a \in Answers \ Terminal : Answer(w, a) => TrueReply(w)'
    BY LeaveReplies DEF Answer, TrueReply
  <1> QED
    BY <1>1, <1>2, <1>3, <1>4

\* A handler that reports the status its attempt has after the step.
LEMMA ReportedReply ==
    ASSUME TypeOK, NEW w \in Workers, NEW a, Report(w, a),
           live' => /\ a \in Terminal => attempt'[Key(w)].status = a
                    /\ attempt'[Key(w)].print = Fingerprint(task[w].req)
    PROVE  TrueReply(w)'
  <1>1. task'[w].req = task[w].req /\ task'[w].reply = a
    BY LeaveReplies DEF Report
  <1> QED
    BY <1>1 DEF TrueReply, Key, Fingerprint

LEMMA ReplayReply ==
    ASSUME TypeOK, NEW w \in Workers, Replay(w), UNCHANGED attempt
    PROVE  TrueReply(w)'
  <1>1. CASE attempt[Key(w)].print = Fingerprint(task[w].req)
    BY <1>1, ReportedReply DEF Replay
  <1>2. CASE attempt[Key(w)].print # Fingerprint(task[w].req)
    <2>1. "key_reused" \in Answers \ Terminal
      BY DEF Answers, Terminal
    <2> QED
      BY <1>2, <2>1, SilentReply DEF Replay
  <1> QED
    BY <1>1, <1>2

LEMMA StoreReply ==
    ASSUME Inv, NEW w \in Workers, Store(w)
    PROVE  TrueReply(w)'
  <1> USE DEF Inv
  <1>1. attempt \in [Keys -> Rows \cup {NoRow}] /\ Key(w) \in Keys
    BY RequestsAreBodies DEF TypeOK, Tasks, Key
  <1>2. live => attempt[Key(w)].print = Fingerprint(task[w].req)
    BY DEF OwnerOK, Owns, Calling, Marking, Store, At
  <1>3. ASSUME Report(w, "succeeded"), NEW u, attempt' = [attempt EXCEPT ![Key(w)] = Succeeded(@, u)]
        PROVE  TrueReply(w)'
    <2>1. attempt'[Key(w)].status = "succeeded" /\ attempt'[Key(w)].print = attempt[Key(w)].print
      BY <1>1, <1>3 DEF Succeeded
    <2>2. live' => live
      BY DEF Store
    <2> QED
      BY <1>2, <1>3, <2>1, <2>2, ReportedReply
  <1>4. Raise(w, "outcome_unknown") \/ Shield(w) \/ Answer(w, "error") => TrueReply(w)'
    BY SilentReply DEF Answers, Terminal
  <1> QED
    BY <1>3, <1>4 DEF Store

LEMMA MarkReply ==
    ASSUME Inv, NEW w \in Workers, Mark(w)
    PROVE  TrueReply(w)'
  <1> USE DEF Inv
  <1>1. attempt \in [Keys -> Rows \cup {NoRow}] /\ Key(w) \in Keys
    BY RequestsAreBodies DEF TypeOK, Tasks, Key
  <1>2. live => attempt[Key(w)].print = Fingerprint(task[w].req)
    BY DEF OwnerOK, Owns, Marking, Mark
  <1>3. UNCHANGED live
    BY DEF Mark
  <1>4. \A a \in {"none", "corrupt", "error"} : Answer(w, a) => TrueReply(w)'
    BY SilentReply DEF Answers, Terminal
  <1>5. Report(w, attempt[Key(w)].status) /\ UNCHANGED attempt => TrueReply(w)'
    BY <1>2, <1>3, ReportedReply
  <1>6. Report(w, task[w].verdict) /\ attempt' = [attempt EXCEPT ![Key(w)] = Failed(@, task[w].verdict)]
          => TrueReply(w)'
    <2> SUFFICES ASSUME Report(w, task[w].verdict),
                        attempt' = [attempt EXCEPT ![Key(w)] = Failed(@, task[w].verdict)]
                 PROVE  TrueReply(w)'
      OBVIOUS
    <2>1. /\ attempt'[Key(w)].status = task[w].verdict
          /\ attempt'[Key(w)].print = attempt[Key(w)].print
      BY <1>1 DEF Failed
    <2> QED
      BY <1>2, <1>3, <2>1, ReportedReply
  <1> QED
    BY <1>4, <1>5, <1>6 DEF Mark

\* What a request leaves its own client with.
LEMMA OwnReply ==
    ASSUME Inv, ReplyOK, NEW w \in Workers, Worker(w)
    PROVE  TrueReply(w)'
  <1> USE DEF Inv
  <1>1. \A p \in PCs \ {"idle", "respond"} : Goto(w, p) => TrueReply(w)'
    BY SilentReply
  <1>2. \A v \in {"failed", "outcome_unknown"} : Raise(w, v) => TrueReply(w)'
    BY SilentReply
  <1>3. Settle(w) \/ Shield(w) => TrueReply(w)'
    BY SilentReply
  <1>4. \A a \in {"none", "refused", "conflict", "corrupt", "error"} : Answer(w, a) => TrueReply(w)'
    BY SilentReply DEF Answers, Terminal
  <1>5. task[w].pc \in {"claim", "persist"} /\ live =>
          attempt[Key(w)].print = Fingerprint(task[w].req)
    BY DEF OwnerOK, Owns, Calling, Marking
  <1>6. ASSUME NEW q \in Requests, Begin(w, q) PROVE TrueReply(w)'
    <2>1. task'[w].pc = "lookup"
      BY <1>6 DEF Begin, Started, TypeOK
    <2> QED
      BY <2>1 DEF TrueReply
  <1>7. CASE Lookup(w)
    BY <1>1, <1>7, ReplayReply DEF Lookup, PCs, db
  <1>8. CASE LockScope(w)
    BY <1>1, <1>4, <1>8 DEF LockScope, PCs
  <1>9. CASE Insert(w)
    BY <1>1, <1>9 DEF Insert, PCs
  <1>10. CASE Raced(w)
    BY <1>4, <1>10, ReplayReply DEF Raced, db
  <1>11. CASE Verify(w)
    BY <1>1, <1>3, <1>11 DEF Verify, PCs
  <1>12. CASE Claim(w)
    <2>1. Report(w, attempt[Key(w)].status) /\ UNCHANGED attempt => TrueReply(w)'
      BY <1>5, <1>12, ReportedReply DEF Claim, At
    <2> QED
      BY <1>1, <1>2, <1>4, <1>12, <2>1 DEF Claim, PCs
  <1>13. CASE CallProvider(w)
    BY <1>1, <1>2, <1>13 DEF CallProvider, PCs
  <1>14. CASE ProviderAnswers(w)
    BY <1>1, <1>2, <1>14 DEF ProviderAnswers, PCs
  <1>15. CASE LockRun(w)
    <2>1. Report(w, attempt[Key(w)].status) /\ UNCHANGED <<attempt, live>> => TrueReply(w)'
      BY <1>5, <1>15, ReportedReply DEF LockRun, At
    <2>2. task' = [task EXCEPT ![w].pc = "store", ![w].no = NextVersion(task[w].req.run)]
            => TrueReply(w)'
      BY DEF TrueReply, TypeOK, Tasks
    <2> QED
      BY <1>2, <1>3, <1>15, <2>1, <2>2 DEF LockRun, db
  <1>16. CASE Store(w)
    BY <1>16, StoreReply
  <1>17. CASE Mark(w)
    BY <1>17, MarkReply
  <1>18. CASE Respond(w)
    <2>1. CASE Answer(w, "corrupt")
      BY <1>4, <2>1
    <2>2. CASE Answer(w, task[w].reply)
      <3>1. task'[w].req = task[w].req /\ task'[w].reply = task[w].reply
        BY <2>2, LeaveReplies DEF Answer
      <3>2. TrueReply(w) /\ At(w, "respond") /\ UNCHANGED <<attempt, live>>
        BY <1>18 DEF ReplyOK, Respond, db
      <3> QED
        BY <3>1, <3>2 DEF TrueReply, At, Key, Fingerprint
    <2> QED
      BY <1>18, <2>1, <2>2 DEF Respond
  <1>19. CASE Cancel(w)
    BY <1>3, <1>4, <1>19 DEF Cancel
  <1>20. CASE Die(w)
    BY <1>4, <1>20 DEF Die
  <1> QED
    BY <1>6, <1>7, <1>8, <1>9, <1>10, <1>11, <1>12, <1>13, <1>14, <1>15, <1>16, <1>17,
       <1>18, <1>19, <1>20 DEF Worker, Handler

LEMMA WorkerTouchesItself ==
    ASSUME NEW w \in Workers, Worker(w), task \in [Workers -> Tasks]
    PROVE  \A v \in Workers : v # w => task'[v] = task[v]
  BY DEF Worker, Handler, Begin, Lookup, LockScope, Insert, Raced, Verify, Claim, CallProvider,
         ProviderAnswers, LockRun, Store, Mark, Respond, Cancel, Die, Replay, Goto, Raise,
         Settle, Shield, Answer, Report, Leave

\* What was told before: a terminal attempt stays as it is while the project lives.
LEMMA OldReply ==
    ASSUME Inv, ReplyOK, [Next]_vars, NEW v \in Workers, task'[v] = task[v]
    PROVE  TrueReply(v)'
  <1>1. Key(v) \in Keys
    BY RequestsAreBodies DEF Inv, TypeOK, Tasks, Key
  <1>2. attempt[Key(v)].status \in Terminal => attempt'[Key(v)] = attempt[Key(v)] \/ ~live'
    BY <1>1, TerminalKept DEF KeepsTerminal
  <1>3. live' => live
    <2>1. ASSUME NEW w \in Workers, Worker(w) PROVE UNCHANGED live
      BY <2>1 DEF Worker, Handler, Begin, Lookup, LockScope, Insert, Raced, Verify, Claim,
                  CallProvider, ProviderAnswers, LockRun, Store, Mark, Respond, Cancel, Die, db
    <2>2. CASE Environment
      BY <2>2 DEF Environment, Prepare, EditPlanning, SaveSettings, Restart, DeleteCheck,
                  DeleteCommit, DeleteAbort, db
    <2> QED
      BY <2>1, <2>2 DEF Next, vars, db
  <1>4. TrueReply(v)
    BY DEF ReplyOK
  <1> QED
    BY <1>2, <1>3, <1>4 DEF TrueReply, Key, Fingerprint

LEMMA RepliesKept ==
    ASSUME Inv, ReplyOK, [Next]_vars
    PROVE  ReplyOK'
  <1>1. ASSUME NEW w \in Workers, Worker(w) PROVE ReplyOK'
    BY <1>1, OwnReply, WorkerTouchesItself, OldReply DEF ReplyOK, Inv, TypeOK
  <1>2. CASE UNCHANGED task
    BY <1>2, OldReply DEF ReplyOK
  <1>3. Environment => UNCHANGED task
    BY DEF Environment, Prepare, EditPlanning, SaveSettings, Restart, DeleteCheck,
           DeleteCommit, DeleteAbort
  <1> QED
    BY <1>1, <1>2, <1>3 DEF Next, vars

\* A terminal status that a client was told is that of its own request body, and it
\* stays the attempt's status until the project is deleted.
THEOREM RepliesStayTrue == Spec => []AnswersStayTrue
  <1>1. Init => ReplyOK
    <2>1. ASSUME Init, NEW w \in Workers PROVE task[w].reply = "none"
      BY <2>1 DEF Init, Started
    <2> QED
      BY <2>1 DEF ReplyOK, TrueReply, Terminal
  <1>2. Inv /\ ReplyOK /\ [Next]_vars => ReplyOK'
    BY RepliesKept
  <1>3. ReplyOK => AnswersStayTrue
    BY DEF ReplyOK, TrueReply, AnswersStayTrue, At
  <1> QED
    BY <1>1, <1>2, <1>3, Invariance, PTL DEF Spec

-----------------------------------------------------------------------------
(* Where rows are locked, what a handler found of the scope in             *)
(* _load_locked_execution_scope is still so when its reservation commits:  *)
(* the locks it holds keep planning, preparation and deletion out, and the *)
(* maintenance switch only changes with the processes.                     *)

ReservationReady ==
    \A w \in Workers : At(w, "insert") => Admissible(task[w].req, task[w].cfg)

LEMMA WhereTo ==
    ASSUME NEW w \in Workers, task \in [Workers -> Tasks]
    PROVE  /\ \A p : Goto(w, p) => task'[w].pc = p /\ task'[w].req = task[w].req
                                                  /\ task'[w].cfg = task[w].cfg
           /\ \A a : (Answer(w, a) => task'[w].pc = "idle")
                     /\ (Report(w, a) => task'[w].pc = "respond")
           /\ \A v : Raise(w, v) => task'[w].pc = "mark"
           /\ (Settle(w) => task'[w].pc = "settle") /\ (Shield(w) => task'[w].pc = "shielded")
  BY DEF Tasks, Goto, Answer, Report, Leave, Started, Raise, Settle, Shield

\* A handler comes to its INSERT from the check of the locked scope only.
LEMMA OnlyLockScopeAdmits ==
    ASSUME TypeOK, NEW w \in Workers, Worker(w), At(w, "insert")'
    PROVE  Admissible(task[w].req, task[w].cfg)
           /\ task'[w].req = task[w].req /\ task'[w].cfg = task[w].cfg
  <1>0. task \in [Workers -> Tasks]
    BY DEF TypeOK
  <1>1. LockScope(w) => Admissible(task[w].req, task[w].cfg) /\ Goto(w, "insert")
    BY <1>0, WhereTo DEF LockScope, At
  <1>2. ~(\E q \in Requests : Begin(w, q))
    BY <1>0 DEF Begin, Started, At
  <1>3. ~Lookup(w) /\ ~Raced(w) /\ ~Respond(w)
    BY <1>0, WhereTo DEF Lookup, Raced, Respond, Replay, At
  <1>4. ~Insert(w) /\ ~Verify(w) /\ ~Claim(w) /\ ~CallProvider(w) /\ ~ProviderAnswers(w)
    BY <1>0, WhereTo DEF Insert, Verify, Claim, CallProvider, ProviderAnswers, At
  <1>5. ~LockRun(w)
    BY <1>0, WhereTo DEF LockRun, At, Tasks
  <1>6. ~Store(w) /\ ~Mark(w)
    BY <1>0, WhereTo DEF Store, Mark, At
  <1>7. ~Cancel(w) /\ ~Die(w)
    BY <1>0, WhereTo DEF Cancel, Die, At
  <1> QED
    BY <1>0, <1>1, <1>2, <1>3, <1>4, <1>5, <1>6, <1>7, WhereTo DEF Worker, Handler

LEMMA ReadyKept ==
    ASSUME RowLocks, Inv, ReservationReady, [Next]_vars
    PROVE  ReservationReady'
  <1> USE DEF ReservationReady, Admissible
  <1>1. ASSUME NEW w \in Workers, Worker(w)
        PROVE  ReservationReady'
    <2>1. UNCHANGED <<prepared, scope, live, frozen>>
      BY <1>1 DEF Worker, Handler, Begin, Lookup, LockScope, Insert, Raced, Verify, Claim,
                  CallProvider, ProviderAnswers, LockRun, Store, Mark, Respond, Cancel, Die, db, env
    <2>2. \A v \in Workers : v # w => task'[v] = task[v]
      BY <1>1, WorkerTouchesItself DEF Inv, TypeOK
    <2>3. At(w, "insert")' => Admissible(task[w].req, task[w].cfg)
                              /\ task'[w].req = task[w].req /\ task'[w].cfg = task[w].cfg
      BY <1>1, OnlyLockScopeAdmits DEF Inv
    <2> QED
      BY <2>1, <2>2, <2>3 DEF At
  <1>2. CASE Environment
    <2>1. UNCHANGED task
      BY <1>2 DEF Environment, Prepare, EditPlanning, SaveSettings, Restart, DeleteCheck,
                  DeleteCommit, DeleteAbort
    <2>2. (\E w \in Workers : At(w, "insert")) => UNCHANGED <<prepared, scope, live, frozen>>
      BY <1>2 DEF Environment, Prepare, EditPlanning, SaveSettings, Restart, DeleteCheck,
                  DeleteCommit, DeleteAbort, PlanFree, HoldsScope, At, db, Inv, DeletionOK
    <2> QED
      BY <2>1, <2>2 DEF At
  <1>3. CASE UNCHANGED vars
    BY <1>3 DEF vars, db, env, At
  <1> QED
    BY <1>1, <1>2, <1>3 DEF Next

\* With row locks, a reservation commits only while the planning is still the one its
\* run was prepared from, nothing of it archived and no maintenance freeze in force.
THEOREM ReservedCurrent ==
    ASSUME RowLocks PROVE Spec => ReservedOnCurrentPlan
  <1>1. Init => ReservationReady
    BY DEF Init, ReservationReady, At, Started
  <1>2. Inv /\ ReservationReady /\ [Next]_vars => ReservationReady'
    BY ReadyKept
  <1>3. Inv /\ ReservationReady /\ [Next]_vars => [CurrentReservation]_vars
    <2> SUFFICES ASSUME Inv, ReservationReady, [Next]_vars, NEW k \in Keys,
                        attempt[k] = NoRow, attempt'[k] # NoRow
                 PROVE  /\ live /\ ~frozen /\ scope.active
                        /\ prepared[attempt'[k].print.run] = scope.version
      BY DEF CurrentReservation
    <2>1. PICK w \in Workers : Insert(w) \/ Claim(w) \/ Store(w) \/ Mark(w)
      BY AttemptWriters DEF DeleteCommit
    <2>2. attempt \in [Keys -> Rows \cup {NoRow}] /\ task[w].req \in Requests
      BY DEF Inv, TypeOK, Tasks
    <2>3. ~Claim(w) /\ ~Store(w) /\ ~Mark(w)
      BY <2>2, RequestsAreBodies DEF Claim, Store, Mark, Storable, Exists, NoRow, Active
    <2>4. attempt'[k] = Reserved(task[w].req) /\ At(w, "insert")
      BY <2>1, <2>2, <2>3 DEF Insert
    <2>5. Admissible(task[w].req, task[w].cfg)
      BY <2>4 DEF ReservationReady
    <2> QED
      BY <2>4, <2>5 DEF Admissible, Reserved, Fingerprint
  <1> QED
    BY <1>1, <1>2, <1>3, Invariance, PTL DEF Spec, ReservedOnCurrentPlan

-----------------------------------------------------------------------------
(* Where rows are locked, the lock of the run carries a version number     *)
(* from MAX(version_no) + 1 to the commit.                                 *)

StoreReady ==
    \A w \in Workers : At(w, "store") =>
        /\ \A v \in Workers : At(v, "store") /\ task[v].req.run = task[w].req.run => v = w
        /\ \A n \in VersionNos(task[w].req.run) : n < task[w].no

\* A handler comes to its INSERT of a text from the lock of its run only, with a
\* number above all that are taken.
LEMMA OnlyLockRunNumbers ==
    ASSUME Inv, NEW w \in Workers, Worker(w), At(w, "store")'
    PROVE  /\ LockRun(w) /\ RunFree(task[w].req.run)
           /\ UNCHANGED candidates /\ task'[w].req = task[w].req
           /\ \A n \in VersionNos(task[w].req.run) : n < task'[w].no
  <1>0. task \in [Workers -> Tasks]
    BY DEF Inv, TypeOK
  <1>1. ~(\E q \in Requests : Begin(w, q))
    BY <1>0 DEF Begin, Started, At
  <1>2. ~Lookup(w) /\ ~LockScope(w) /\ ~Raced(w) /\ ~Respond(w)
    BY <1>0, WhereTo DEF Lookup, LockScope, Raced, Respond, Replay, At
  <1>3. ~Insert(w) /\ ~Verify(w) /\ ~Claim(w) /\ ~CallProvider(w) /\ ~ProviderAnswers(w)
    BY <1>0, WhereTo DEF Insert, Verify, Claim, CallProvider, ProviderAnswers, At
  <1>4. ~Store(w) /\ ~Mark(w) /\ ~Cancel(w) /\ ~Die(w)
    BY <1>0, WhereTo DEF Store, Mark, Cancel, Die, At
  <1>5. LockRun(w)
    BY <1>1, <1>2, <1>3, <1>4 DEF Worker, Handler
  <1>6. task' = [task EXCEPT ![w].pc = "store", ![w].no = NextVersion(task[w].req.run)]
    BY <1>0, <1>5, WhereTo DEF LockRun, At
  <1>7. task'[w].no = NextVersion(task[w].req.run) /\ task'[w].req = task[w].req
    BY <1>0, <1>6 DEF Tasks
  <1>8. task[w].req.run \in Runs
    BY <1>0, RequestsAreBodies DEF Tasks
  <1>9. PICK n \in Nat : VersionNos(task[w].req.run) = 1 .. n
    BY <1>8 DEF Inv, VersionOK
  <1>10. NextVersion(task[w].req.run) = n + 1
    BY <1>8, <1>9, NextVersionIsSuccessor
  <1> QED
    BY <1>5, <1>7, <1>9, <1>10 DEF LockRun, db

\* Only a handler that stores its text adds one, to its own run.
LEMMA OthersNumbersStay ==
    ASSUME NEW w \in Workers, Worker(w)
    PROVE  UNCHANGED candidates
             \/ (At(w, "store") /\ \A r : r # task[w].req.run => VersionNos(r)' = VersionNos(r))
  <1>1. CASE Store(w)
    <2>1. Candidate(w).run = task[w].req.run
      BY DEF Candidate
    <2> QED
      BY <1>1, <2>1 DEF Store, VersionNos
  <1>2. CASE ~Store(w)
    BY <1>2 DEF Worker, Handler, Begin, Lookup, LockScope, Insert, Raced, Verify, Claim,
                CallProvider, ProviderAnswers, LockRun, Mark, Respond, Cancel, Die, db
  <1> QED
    BY <1>1, <1>2

LEMMA NumbersKept ==
    ASSUME RowLocks, Inv, StoreReady, [Next]_vars
    PROVE  StoreReady'
  <1>1. ASSUME NEW w \in Workers, Worker(w)
        PROVE  StoreReady'
    <2>1. \A v \in Workers : v # w => task'[v] = task[v]
      BY <1>1, WorkerTouchesItself DEF Inv, TypeOK
    <2>2. At(w, "store")' =>
             /\ \A v \in Workers : v # w /\ At(v, "store") => task[v].req.run # task[w].req.run
             /\ UNCHANGED candidates /\ task'[w].req = task[w].req
             /\ \A n \in VersionNos(task[w].req.run) : n < task'[w].no
      BY <1>1, OnlyLockRunNumbers DEF RunFree, HoldsRun
    <2>3. UNCHANGED candidates
            \/ (At(w, "store") /\ \A r : r # task[w].req.run => VersionNos(r)' = VersionNos(r))
      BY <1>1, OthersNumbersStay
    <2>4. UNCHANGED candidates => \A r : VersionNos(r)' = VersionNos(r)
      BY DEF VersionNos
    <2> SUFFICES ASSUME NEW u \in Workers, At(u, "store")'
                 PROVE  /\ \A v \in Workers :
                              At(v, "store")' /\ task'[v].req.run = task'[u].req.run => v = u
                        /\ \A n \in VersionNos(task[u].req.run)' : n < task'[u].no
      BY DEF StoreReady
    <2>5. CASE u = w
      <3>1. \A n \in VersionNos(task[u].req.run)' : n < task'[u].no
        BY <2>2, <2>4, <2>5
      <3> QED
        BY <2>1, <2>2, <2>5, <3>1 DEF At
    <2>6. CASE u # w
      <3>1. At(u, "store") /\ task'[u] = task[u]
        BY <2>1, <2>6 DEF At
      <3>2. At(w, "store") => task[w].req.run # task[u].req.run
        BY <2>6, <3>1 DEF StoreReady
      <3>3. VersionNos(task[u].req.run)' = VersionNos(task[u].req.run)
        <4>1. PICK r : r = task[u].req.run
          OBVIOUS
        <4>2. {c.no : c \in {d \in candidates' : d.run = r}} = {c.no : c \in {d \in candidates : d.run = r}}
          BY <2>3, <3>2, <4>1 DEF VersionNos
        <4> QED
          BY <3>1, <4>1, <4>2 DEF VersionNos
      <3>4. \A n \in VersionNos(task[u].req.run)' : n < task'[u].no
        BY <3>1, <3>3 DEF StoreReady
      <3> QED
        BY <2>1, <2>2, <3>1, <3>4 DEF StoreReady, At
    <2> QED
      BY <2>5, <2>6
  <1>2. CASE Environment
    <2>1. UNCHANGED task /\ candidates' \subseteq candidates
      BY <1>2 DEF Environment, Prepare, EditPlanning, SaveSettings, Restart, DeleteCheck,
                  DeleteCommit, DeleteAbort, db
    <2>2. \A r : VersionNos(r)' \subseteq VersionNos(r)
      BY <2>1 DEF VersionNos
    <2> QED
      BY <2>1, <2>2 DEF StoreReady, At
  <1>3. CASE UNCHANGED vars
    BY <1>3 DEF vars, db, StoreReady, At, VersionNos
  <1> QED
    BY <1>1, <1>2, <1>3 DEF Next

\* With row locks, a text that was paid for always fits where it is to be stored: no
\* other text of its run has taken its number, and its attempt has none yet.
THEOREM PaidTextsFit ==
    ASSUME RowLocks PROVE Spec => []PaidTextFits
  <1>1. Init => StoreReady
    BY DEF Init, StoreReady, At, Started
  <1>2. Inv /\ StoreReady /\ [Next]_vars => StoreReady'
    BY NumbersKept
  <1>3. Inv /\ StoreReady => PaidTextFits
    <2> SUFFICES ASSUME Inv, StoreReady, NEW w \in Workers, At(w, "store")
                 PROVE  Storable(w)
      BY DEF PaidTextFits
    <2>1. Key(w) \in Keys
      BY RequestsAreBodies DEF Inv, TypeOK, Tasks, Key
    <2>2. live /\ attempt[Key(w)].status = "calling"
      BY DEF Inv, StageOK, At, Calling
    <2>3. Exists(Key(w))
      BY <2>2 DEF Inv, OwnerOK, Owns, Calling, At
    <2>4. \A c \in candidates : c.key # Key(w)
      BY <2>1, <2>2 DEF Inv, StoredOK
    <2>5. \A c \in candidates : c.run = task[w].req.run => c.no \in Nat /\ c.no < task[w].no
      BY DEF StoreReady, VersionNos, Inv, TypeOK
    <2>6. task[w].no \in Nat
      BY DEF Inv, TypeOK, Tasks
    <2> QED
      BY <2>3, <2>4, <2>5, <2>6 DEF Storable
  <1> QED
    BY <1>1, <1>2, <1>3, Invariance, PTL DEF Spec

-----------------------------------------------------------------------------
(* The detailed handlers implement the abstract ledger.                    *)

LEMMA OutcomeOf ==
    ASSUME NEW k \in Keys, NEW r, attempt[k] = r
    PROVE  /\ r.status = "absent" => Outcome[k] = "none"
           /\ r.status \in Active => Outcome[k] = "open"
           /\ r.status \in Terminal => Outcome[k] = r.status
  BY DEF Outcome, Active, Terminal

LEMMA SameLedger ==
    ASSUME UNCHANGED <<candidates, live, calls>>,
           \A k \in Keys : attempt'[k].status = attempt[k].status
                             \/ (attempt[k].status \in Active /\ attempt'[k].status \in Active)
    PROVE  UNCHANGED Ledger!ledger
  <1>1. \A k \in Keys : Outcome[k]' = Outcome[k]
    BY DEF Outcome, Active
  <1>2. Outcome' = Outcome
    BY <1>1 DEF Outcome
  <1> QED
    BY <1>2 DEF Ledger!ledger

\* One attempt changes its status; every other entry of the ledger stays.
LEMMA OneEntry ==
    ASSUME attempt \in [Keys -> Rows \cup {NoRow}], NEW k \in Keys, NEW r,
           attempt' = [attempt EXCEPT ![k] = r],
           NEW o, o = IF r.status \in Active THEN "open" ELSE r.status,
           r.status # "absent"
    PROVE  Outcome' = [Outcome EXCEPT ![k] = o]
  <1>1. \A j \in Keys : Outcome'[j] = IF j = k THEN o ELSE Outcome[j]
    BY DEF Outcome, Active
  <1> QED
    BY <1>1 DEF Outcome

LEMMA InsertRefines ==
    ASSUME Inv, NEW w \in Workers, Insert(w)
    PROVE  [Ledger!Next]_(Ledger!ledger)
  <1>1. CASE Exists(Key(w))
    BY <1>1, SameLedger DEF Insert, env
  <1>2. CASE ~Exists(Key(w))
    <2>1. Key(w) \in Keys /\ live /\ attempt \in [Keys -> Rows \cup {NoRow}]
      BY RequestsAreBodies DEF Inv, TypeOK, Tasks, Key, StageOK, Insert, At
    <2>0. PICK k \in Keys : k = Key(w)
      BY <2>1
    <2>2. Outcome' = [Outcome EXCEPT ![k] = "open"]
      BY <1>2, <2>0, <2>1, OneEntry DEF Insert, Reserved, Active
    <2>3. Outcome[k] = "none"
      <3>1. attempt[k].status = "absent"
        BY <1>2, <2>0 DEF Exists, NoRow
      <3> QED
        BY <3>1, OutcomeOf
    <2>4. Ledger!Open(k)
      BY <2>1, <2>2, <2>3 DEF Ledger!Open, Insert, env
    <2> QED
      BY <2>0, <2>4 DEF Ledger!Next
  <1> QED
    BY <1>1, <1>2

LEMMA CallRefines ==
    ASSUME Inv, NEW w \in Workers, CallProvider(w)
    PROVE  [Ledger!Next]_(Ledger!ledger)
  <1>1. CASE UNCHANGED calls
    BY <1>1, SameLedger DEF CallProvider, env, db
  <1>2. CASE ~ UNCHANGED calls
    <2>0. PICK k \in Keys : k = Key(w)
      BY RequestsAreBodies DEF Inv, TypeOK, Tasks, Key
    <2>1. attempt[k].status = "calling" /\ calls[k] = 0 /\ calls \in [Keys -> Nat]
      BY <2>0 DEF Inv, TypeOK, StageOK, CallProvider, At
    <2>2. calls' = [calls EXCEPT ![k] = 1]
      BY <1>2, <2>0, <2>1 DEF CallProvider
    <2>3. Outcome[k] = "open" /\ UNCHANGED Outcome
      BY <2>1 DEF Outcome, Active, CallProvider, db
    <2>4. {j \in Keys : calls'[j] > 0} = {j \in Keys : calls[j] > 0} \cup {k}
      BY <2>1, <2>2
    <2>5. Ledger!Pay(k)
      BY <2>1, <2>3, <2>4 DEF Ledger!Pay, CallProvider, db
    <2> QED
      BY <2>1, <2>5 DEF Ledger!Next
  <1> QED
    BY <1>1, <1>2

LEMMA StoreRefines ==
    ASSUME Inv, NEW w \in Workers, Store(w)
    PROVE  [Ledger!Next]_(Ledger!ledger)
  <1>1. CASE UNCHANGED <<attempt, candidates>>
    BY <1>1, SameLedger DEF Store, env
  <1>2. CASE ~ UNCHANGED <<attempt, candidates>>
    <2>0. PICK k \in Keys : k = Key(w)
      BY RequestsAreBodies DEF Inv, TypeOK, Tasks, Key
    <2>1. /\ attempt[k].status = "calling" /\ calls[k] = 1
          /\ attempt \in [Keys -> Rows \cup {NoRow}]
      BY <2>0 DEF Inv, TypeOK, StageOK, Store, At
    <2>2. PICK u : attempt' = [attempt EXCEPT ![k] = Succeeded(@, u)]
      BY <1>2, <2>0 DEF Store
    <2>3. candidates' = candidates \cup {Candidate(w)} /\ Candidate(w).key = k
      BY <1>2, <2>0 DEF Store, Candidate
    <2>4. Outcome' = [Outcome EXCEPT ![k] = "succeeded"]
      <3> DEFINE row == Succeeded(attempt[k], u)
      <3>1. attempt' = [attempt EXCEPT ![k] = row] /\ row.status = "succeeded"
        BY <2>2 DEF Succeeded
      <3> HIDE DEF row
      <3>2. \A j \in Keys : Outcome'[j] = IF j = k THEN "succeeded" ELSE Outcome[j]
        BY <2>1, <3>1 DEF Outcome, Active
      <3> QED
        BY <3>2 DEF Outcome
    <2>5. Outcome[k] = "open"
      BY <2>1 DEF Outcome, Active
    <2>6. {c.key : c \in candidates'} = {c.key : c \in candidates} \cup {k}
      BY <2>3
    <2>7. k \in {j \in Keys : calls[j] > 0} /\ UNCHANGED <<calls, live>>
      BY <2>1 DEF Store
    <2>8. Ledger!Settle(k, "succeeded")
      BY <2>4, <2>5, <2>6, <2>7 DEF Ledger!Settle
    <2> QED
      BY <2>1, <2>8 DEF Ledger!Next, Ledger!Settlements
  <1> QED
    BY <1>1, <1>2

LEMMA MarkRefines ==
    ASSUME Inv, NEW w \in Workers, Mark(w)
    PROVE  [Ledger!Next]_(Ledger!ledger)
  <1>1. CASE UNCHANGED attempt
    BY <1>1, SameLedger DEF Mark, env
  <1>2. CASE ~ UNCHANGED attempt
    <2>0. PICK k \in Keys, v \in {"failed", "outcome_unknown"} :
              k = Key(w) /\ v = task[w].verdict
      BY RequestsAreBodies DEF Inv, TypeOK, Tasks, Key
    <2>1. attempt \in [Keys -> Rows \cup {NoRow}]
      BY DEF Inv, TypeOK
    <2>2. attempt[k].status \in Active /\ attempt' = [attempt EXCEPT ![k] = Failed(@, v)]
      BY <1>2, <2>0 DEF Mark
    <2>3. Outcome' = [Outcome EXCEPT ![k] = v]
      <3> DEFINE row == Failed(attempt[k], v)
      <3>1. attempt' = [attempt EXCEPT ![k] = row] /\ row.status = v
        BY <2>2 DEF Failed
      <3> HIDE DEF row
      <3> QED
        BY <2>1, <3>1, OneEntry DEF Active
    <2>4. Outcome[k] = "open"
      BY <2>1, <2>2 DEF Outcome, Active
    <2>5. Ledger!Settle(k, v)
      BY <2>1, <2>3, <2>4 DEF Ledger!Settle, Mark, env
    <2> QED
      BY <2>1, <2>5 DEF Ledger!Next, Ledger!Settlements
  <1> QED
    BY <1>1, <1>2

LEMMA DeleteRefines ==
    ASSUME Inv, DeleteCommit
    PROVE  [Ledger!Next]_(Ledger!ledger)
  <1>1. live /\ \A k \in Keys : attempt[k].status \notin Active
    BY DEF Inv, DeletionOK, DeleteCommit
  <1>2. \A k \in Keys : Outcome[k] # "open"
    BY <1>1 DEF Outcome, Inv, TypeOK, Rows, NoRow, Terminal, Active
  <1>3. Outcome' = [k \in Keys |-> "none"]
    <2>1. \A k \in Keys : attempt'[k].status = "absent"
      BY DEF DeleteCommit, NoRow
    <2>2. \A k \in Keys : Outcome'[k] = "none"
      BY <2>1 DEF Outcome, Active
    <2> QED
      BY <2>2 DEF Outcome
  <1>4. Ledger!Close
    BY <1>1, <1>2, <1>3 DEF Ledger!Close, DeleteCommit
  <1> QED
    BY <1>4 DEF Ledger!Next

LEMMA OtherStepsRefine ==
    ASSUME Inv, [Next]_vars, ~DeleteCommit,
           \A w \in Workers : ~(Insert(w) \/ CallProvider(w) \/ Store(w) \/ Mark(w))
    PROVE  UNCHANGED Ledger!ledger
  <1>1. ASSUME NEW w \in Workers, Claim(w) PROVE UNCHANGED Ledger!ledger
    <2>1. attempt[Key(w)].status \in Active /\ attempt \in [Keys -> Rows \cup {NoRow}]
      BY <1>1 DEF Inv, StageOK, TypeOK, Claim, At, Active
    <2>2. \A k \in Keys : attempt'[k].status = attempt[k].status
             \/ (attempt[k].status \in Active /\ attempt'[k].status \in Active)
      BY <1>1, <2>1 DEF Claim, Claimed, Active
    <2> QED
      BY <1>1, <2>2, SameLedger DEF Claim, env
  <1>2. ASSUME NEW w \in Workers, Worker(w), ~Claim(w)
        PROVE  UNCHANGED <<attempt, candidates, live, calls>>
    BY <1>2 DEF Worker, Handler, Begin, Lookup, LockScope, Raced, Verify,
                ProviderAnswers, LockRun, Respond, Cancel, Die, db
  <1>3. CASE Environment
    <2>1. UNCHANGED <<attempt, candidates, live, calls>>
      BY <1>3 DEF Environment, Prepare, EditPlanning, SaveSettings, Restart, DeleteCheck,
                  DeleteAbort, db
    <2> QED
      BY <2>1, SameLedger
  <1>4. CASE UNCHANGED vars
    BY <1>4, SameLedger DEF vars, db
  <1> QED
    BY <1>1, <1>2, <1>3, <1>4, SameLedger DEF Next

\* Whatever requests, crashes, cancellations and the deletion do together, each
\* operation key is opened once, paid for at most once and settled at most once.
THEOREM Refinement == Spec => ImplementsLedger
  <1>1. Init => Ledger!Init
    <2> SUFFICES ASSUME Init PROVE Ledger!Init
      OBVIOUS
    <2>1. \A k \in Keys : attempt[k].status = "absent"
      BY DEF Init, NoRow
    <2>2. \A k \in Keys : Outcome[k] = "none"
      BY <2>1, OutcomeOf
    <2>3. Outcome = [k \in Keys |-> "none"]
      BY <2>2 DEF Outcome
    <2> QED
      BY <2>3 DEF Init, Ledger!Init
  <1>2. Inv /\ [Next]_vars => [Ledger!Next]_(Ledger!ledger)
    <2> SUFFICES ASSUME Inv, [Next]_vars PROVE [Ledger!Next]_(Ledger!ledger)
      OBVIOUS
    <2>1. CASE \E w \in Workers : Insert(w) \/ CallProvider(w) \/ Store(w) \/ Mark(w)
      BY <2>1, InsertRefines, CallRefines, StoreRefines, MarkRefines
    <2> QED
      BY <2>1, DeleteRefines, OtherStepsRefine
  <1> QED
    BY <1>1, <1>2, Invariance, PTL DEF Spec, ImplementsLedger, Ledger!Spec
=============================================================================
