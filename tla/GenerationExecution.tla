------------------------- MODULE GenerationExecution -------------------------
(***************************************************************************)
(* Paid single-call chapter generation of one project                      *)
(* (backend/app/core/generation_execution.py), together with the other     *)
(* transactions that touch the same rows: preparing a run, editing the     *)
(* planning, saving the provider settings and deleting the project.        *)
(*                                                                         *)
(* A worker is one HTTP request inside execute_generation_attempt; a step  *)
(* of a worker is what it does between two awaits at which another request *)
(* can be served.  Rows that a PostgreSQL transaction has locked FOR       *)
(* UPDATE or FOR KEY SHARE are not a variable: which locks a worker holds  *)
(* follows from its pc.  RowLocks = FALSE is SQLite, where FOR UPDATE does *)
(* nothing and only the unique constraints are left.                       *)
(*                                                                         *)
(* Abstractions: one owner, one plan with one part and one chapter, whose  *)
(* three version counters are the single scope.version (the run compares   *)
(* all three for equality and each edit bumps at least one); a provider    *)
(* configuration stands for its own digest and capability checksum; a run  *)
(* stands for the checksum of its frozen context.                          *)
(***************************************************************************)
EXTENDS Naturals, FiniteSets

CONSTANTS
    Workers,          \* requests that can be in flight at once
    Keys,             \* operation keys chosen by the clients
    Runs,             \* prepared generation runs (ids)
    Configs,          \* provider configurations
    Requests,         \* the request bodies the clients send
    MaxScopeVersion,  \* bound on the planning edits
    RowLocks,         \* PostgreSQL (TRUE) or SQLite (FALSE)
    Crashes,          \* a process may die, a commit may go unacknowledged
    Cancels,          \* the server may cancel a request's task
    Deletes           \* the owner may try to delete the project

ASSUME BooleanSwitches ==
    /\ RowLocks \in BOOLEAN /\ Crashes \in BOOLEAN
    /\ Cancels \in BOOLEAN /\ Deletes \in BOOLEAN
\* Without row locks nothing orders delete_project's check against a reservation,
\* so on SQLite the module is about a project that nobody deletes meanwhile.
ASSUME LocksOrNoDeletion == RowLocks \/ ~Deletes
ASSUME BoundIsNatural == MaxScopeVersion \in Nat
ASSUME RequestsAreBodies ==
    /\ Requests # {}
    /\ Requests \subseteq [key : Keys, run : Runs, ctx : Runs, cap : Configs]

VARIABLES
    attempt,     \* chapter_generation_attempts, by operation key
    candidates,  \* chapter_generation_candidates of origin "generated"
    prepared,    \* chapter_generation_runs: the scope version each one froze, 0: no row
    scope,       \* novel_plans / planning_parts / planning_chapters
    live,        \* the projects row exists
    deleting,    \* delete_project has passed its check and not yet committed
    config,      \* what load_settings() returns
    frozen,      \* LEGACY_JSON_WRITES_FROZEN of the running processes
    task,        \* the handler of each worker
    calls        \* history: provider calls made for each operation key

db == <<attempt, candidates, prepared, scope, live, deleting>>
env == <<config, frozen>>
vars == <<db, env, task, calls>>

Active == {"reserved", "calling"}
Terminal == {"succeeded", "failed", "outcome_unknown"}
Usages == {"reported", "unavailable", "unknown"}
Fingerprints == [run : Runs, ctx : Runs, cap : Configs]

\* ai_invoked, billing_effect = "possible" and claimed_at are one bit, invoked.
Rows == [status : Active \cup Terminal, print : Fingerprints,
         invoked : BOOLEAN, usage : Usages, lock : 1 .. 3]
NoRow == [status |-> "absent"]

\* The CHECK constraint ck_generation_attempt_state_shape.
StateShape(r) ==
    \/ r.status = "reserved" /\ ~r.invoked /\ r.usage = "unavailable"
    \/ r.status = "calling" /\ r.invoked /\ r.usage = "unknown"
    \/ r.status = "succeeded" /\ r.invoked /\ r.usage \in {"reported", "unavailable"}
    \/ r.status = "failed" /\ r.usage = "unavailable"
    \/ r.status = "outcome_unknown" /\ r.invoked /\ r.usage = "unknown"

Exists(k) == attempt[k] # NoRow
Fingerprint(q) == [run |-> q.run, ctx |-> q.ctx, cap |-> q.cap]
Key(w) == task[w].req.key
At(w, p) == task[w].pc = p

PCs == {"idle", "lookup", "lock", "insert", "raced", "verify", "claim", "call",
        "wait", "persist", "store", "settle", "mark", "shielded", "respond"}
Answers == Terminal \cup Active
             \cup {"none", "key_reused", "refused", "conflict", "corrupt", "error"}
Tasks == [pc : PCs, req : Requests, cfg : Configs, no : Nat,
          verdict : {"failed", "outcome_unknown"}, reply : Answers]

-----------------------------------------------------------------------------
(* The handler's control: start, go on, mark a failure from within the     *)
(* try block (Settle), raise into one of its except clauses (Raise, and    *)
(* Shield for a cancellation), report the attempt it has read or written,  *)
(* or answer.  The last two leave only the request and the reply.          *)

Started(p, q, c) == [pc |-> p, req |-> q, cfg |-> c, no |-> 0,
                     verdict |-> "failed", reply |-> "none"]
Goto(w, p) == task' = [task EXCEPT ![w].pc = p]
Leave(w, p, a) ==
    task' = [task EXCEPT ![w] = [Started(p, @.req, @.req.cap) EXCEPT !.reply = a]]
Answer(w, a) == Leave(w, "idle", a)
Report(w, status) == Leave(w, "respond", status)
Raise(w, v) == task' = [task EXCEPT ![w].pc = "mark", ![w].verdict = v]
Settle(w) == task' = [task EXCEPT ![w].pc = "settle", ![w].verdict = "failed"]
Shield(w) == task' = [task EXCEPT ![w].pc = "shielded", ![w].verdict = "outcome_unknown"]

\* Mutant of Replay: the fingerprint is not compared.
ReplayUnchecked(w) == Report(w, attempt[Key(w)].status)

\* The attempt found under the key is the answer, unless it is that of another body.
Replay(w) ==
    IF attempt[Key(w)].print = Fingerprint(task[w].req)
    THEN Report(w, attempt[Key(w)].status)
    ELSE Answer(w, "key_reused")

\* What generation_attempt_response takes for a whole record: the run row is there
\* and a candidate goes with a success, and with nothing else.
Whole(k, status) == live /\ (status = "succeeded" <=> \E c \in candidates : c.key = k)

(* Locks.  From _load_locked_execution_scope to its commit a worker holds  *)
(* project (KEY SHARE), plan, part, chapter and run; inside                *)
(* _persist_success it holds run and attempt, and the candidate's foreign  *)
(* key needs KEY SHARE of the project.  delete_project holds the project   *)
(* FOR UPDATE while deleting.                                              *)
HoldsScope(w) == At(w, "insert")
HoldsRun(w, r) == (At(w, "insert") \/ At(w, "store")) /\ task[w].req.run = r
PlanUnlocked == TRUE    \* mutant of PlanFree: the plan is read without FOR UPDATE
PlanFree == RowLocks => ~deleting /\ \A v \in Workers : ~HoldsScope(v)
RunUnlocked(r) == TRUE  \* mutant of RunFree: _persist_success reads the run without FOR UPDATE
RunFree(r) == RowLocks => \A v \in Workers : ~HoldsRun(v, r)
ProjectShareable == RowLocks => ~deleting

-----------------------------------------------------------------------------
Init ==
    /\ attempt = [k \in Keys |-> NoRow]
    /\ candidates = {}
    /\ prepared = [r \in Runs |-> 0]
    /\ scope = [version |-> 1, active |-> TRUE]
    /\ live = TRUE
    /\ deleting = FALSE
    /\ config \in Configs
    /\ frozen = FALSE
    /\ task = [w \in Workers |-> Started("idle", CHOOSE q \in Requests : TRUE, config)]
    /\ calls = [k \in Keys |-> 0]

\* A request arrives; its transport freezes the provider settings of that moment.
Begin(w, q) ==
    /\ At(w, "idle")
    /\ task' = [task EXCEPT ![w] = Started("lookup", q, config)]
    /\ UNCHANGED <<db, env, calls>>

\* find_generation_attempt_by_key before anything else, without a lock.
Lookup(w) ==
    /\ At(w, "lookup")
    /\ IF Exists(Key(w)) THEN Replay(w) ELSE Goto(w, "lock")
    /\ UNCHANGED <<db, env, calls>>

\* What must hold of the locked scope, the context and the capability.
Admissible(q, cfg) ==
    /\ ~frozen
    /\ live
    /\ prepared[q.run] # 0
    /\ scope.active
    /\ prepared[q.run] = scope.version
    /\ q.ctx = q.run
    /\ q.cap = cfg

LockScope(w) ==
    /\ At(w, "lock")
    /\ PlanFree
    /\ RunFree(task[w].req.run)
    /\ IF Admissible(task[w].req, task[w].cfg) THEN Goto(w, "insert") ELSE Answer(w, "refused")
    /\ UNCHANGED <<db, env, calls>>

Reserved(q) == [status |-> "reserved", print |-> Fingerprint(q), invoked |-> FALSE,
                usage |-> "unavailable", lock |-> 1]

\* Mutant of Insert: no unique constraint on the operation key.
InsertUnconstrained(w) ==
    /\ At(w, "insert")
    /\ attempt' = [attempt EXCEPT ![Key(w)] = Reserved(task[w].req)]
    /\ Goto(w, "verify")
    /\ UNCHANGED <<candidates, prepared, scope, live, deleting, env, calls>>

\* INSERT and COMMIT of the reservation; uq_generation_attempt_operation_key is
\* what decides between two requests that both saw no row.
Insert(w) ==
    /\ At(w, "insert")
    /\ IF Exists(Key(w))
       THEN /\ Goto(w, "raced")
            /\ UNCHANGED attempt
       ELSE /\ attempt' = [attempt EXCEPT ![Key(w)] = Reserved(task[w].req)]
            /\ Goto(w, "verify")
    /\ UNCHANGED <<candidates, prepared, scope, live, deleting, env, calls>>

\* Mutant of Raced: insert again instead of replaying the winner.
RacedRetries(w) ==
    /\ At(w, "raced")
    /\ Goto(w, "insert")
    /\ UNCHANGED <<db, env, calls>>

\* After IntegrityError: roll back, look the key up again, replay or give up.
Raced(w) ==
    /\ At(w, "raced")
    /\ IF Exists(Key(w)) THEN Replay(w) ELSE Answer(w, "conflict")
    /\ UNCHANGED <<db, env, calls>>

\* Mutants of Verify: the call comes before the claim; a changed configuration is
\* refused without marking the reservation.
VerifyThenCall(w) ==
    /\ At(w, "verify")
    /\ IF config = task[w].cfg THEN Goto(w, "call") ELSE Raise(w, "failed")
    /\ UNCHANGED <<db, env, calls>>

VerifyUnmarked(w) ==
    /\ At(w, "verify")
    /\ IF config = task[w].cfg THEN Goto(w, "claim") ELSE Answer(w, "refused")
    /\ UNCHANGED <<db, env, calls>>

\* transport.verify_capability_current on the durable reservation.
Verify(w) ==
    /\ At(w, "verify")
    /\ IF config = task[w].cfg THEN Goto(w, "claim") ELSE Settle(w)
    /\ UNCHANGED <<db, env, calls>>

Claimed(r) == [status |-> "calling", print |-> r.print, invoked |-> TRUE,
               usage |-> "unknown", lock |-> 2]

\* _claim_attempt: compare-and-set from reserved to calling.  The UPDATE or its
\* commit can fail, applied or not, and the request goes on to the marking.
Claim(w) ==
    /\ At(w, "claim")
    /\ \/ /\ ~Exists(Key(w))
          /\ Answer(w, "corrupt")
          /\ UNCHANGED attempt
       \/ /\ Exists(Key(w)) /\ attempt[Key(w)].status # "reserved"
          /\ Report(w, attempt[Key(w)].status)
          /\ UNCHANGED attempt
       \/ /\ attempt[Key(w)].status = "reserved"
          /\ attempt' = [attempt EXCEPT ![Key(w)] = Claimed(@)]
          /\ Goto(w, "call") \/ (Crashes /\ Raise(w, "outcome_unknown"))
       \/ /\ Crashes
          /\ Raise(w, "outcome_unknown")
          /\ UNCHANGED attempt
    /\ UNCHANGED <<candidates, prepared, scope, live, deleting, env, calls>>

\* Mutant of CallProvider: the settings are not verified again.
CallUnverified(w) ==
    /\ At(w, "call")
    /\ Goto(w, "wait")
    /\ calls' = [calls EXCEPT ![Key(w)] = @ + 1]
    /\ UNCHANGED <<db, env>>

\* transport.generate: verify the settings once more, then the one call.
CallProvider(w) ==
    /\ At(w, "call")
    /\ IF config = task[w].cfg
       THEN Goto(w, "wait") /\ calls' = [calls EXCEPT ![Key(w)] = @ + 1]
       ELSE Raise(w, "failed") /\ UNCHANGED calls
    /\ UNCHANGED <<db, env>>

\* Content, a definite LLMSingleCallError, or one with outcome_unknown (timeout).
ProviderAnswers(w) ==
    /\ At(w, "wait")
    /\ \/ Goto(w, "persist")
       \/ Raise(w, "failed")
       \/ Raise(w, "outcome_unknown")
    /\ UNCHANGED <<db, env, calls>>

VersionNos(r) == {c.no : c \in {d \in candidates : d.run = r}}
NextVersion(r) == IF VersionNos(r) = {} THEN 1
                  ELSE 1 + CHOOSE n \in VersionNos(r) : \A m \in VersionNos(r) : m <= n

\* _persist_success up to MAX(version_no) + 1: run and attempt rows locked, the
\* content checked (it may be empty or oversized, its usage inconsistent).
LockRun(w) ==
    /\ At(w, "persist")
    /\ RunFree(task[w].req.run)
    /\ IF ~Exists(Key(w))
       THEN Raise(w, "failed")
       ELSE IF attempt[Key(w)].status # "calling"
       THEN Report(w, attempt[Key(w)].status)
       ELSE \/ Settle(w)
            \/ task' = [task EXCEPT ![w].pc = "store", ![w].no = NextVersion(task[w].req.run)]
    /\ UNCHANGED <<db, env, calls>>

Candidate(w) == [key |-> Key(w), run |-> task[w].req.run, no |-> task[w].no]
Succeeded(r, u) == [status |-> "succeeded", print |-> r.print, invoked |-> r.invoked,
                    usage |-> u, lock |-> r.lock + 1]

\* What the database accepts: the attempt row is still there, and the version
\* number and the source attempt are unused (the two unique constraints).
Storable(w) ==
    /\ Exists(Key(w))
    /\ \A c \in candidates : c.key # Key(w) /\ <<c.run, c.no>> # <<task[w].req.run, task[w].no>>

\* INSERT of the candidate and UPDATE of the attempt in one commit.  A commit
\* that applied can still be reported as failed; a failed one is rolled back.  A
\* failed flush also expires the attempt object, and the except clause that then
\* reads attempt.id raises before it marks anything ("error").
Store(w) ==
    /\ At(w, "store")
    /\ ProjectShareable
    /\ \/ /\ Storable(w)
          /\ candidates' = candidates \cup {Candidate(w)}
          /\ \E u \in {"reported", "unavailable"} :
             attempt' = [attempt EXCEPT ![Key(w)] = Succeeded(@, u)]
          /\ \/ Report(w, "succeeded")
             \/ Crashes /\ Raise(w, "outcome_unknown")
             \/ Cancels /\ Shield(w)
       \/ /\ ~Storable(w) \/ Crashes
          /\ Raise(w, "outcome_unknown") \/ Answer(w, "error")
          /\ UNCHANGED <<attempt, candidates>>
    /\ UNCHANGED <<prepared, scope, live, deleting, env, calls>>

Failed(r, v) == [status |-> v, print |-> r.print, invoked |-> r.invoked,
                 usage |-> IF v = "failed" THEN "unavailable" ELSE "unknown",
                 lock |-> r.lock + 1]

Marking == {"settle", "mark", "shielded"}

\* Mutant of Mark: the status of the locked row is not looked at.
MarkUnguarded(w) ==
    /\ task[w].pc \in Marking
    /\ Exists(Key(w))
    /\ StateShape(Failed(attempt[Key(w)], task[w].verdict))
    /\ attempt' = [attempt EXCEPT ![Key(w)] = Failed(@, task[w].verdict)]
    /\ Report(w, task[w].verdict)
    /\ UNCHANGED <<candidates, prepared, scope, live, deleting, env, calls>>

\* _mark_terminal_failure: only an active row is changed, and the database
\* refuses a row that ck_generation_attempt_state_shape does not allow.  After a
\* cancellation nobody is there to be answered.
Mark(w) ==
    LET k == Key(w)
        v == task[w].verdict
        Tell(status) == IF At(w, "shielded") THEN Answer(w, "none") ELSE Report(w, status)
    IN  /\ task[w].pc \in Marking
        /\ IF ~Exists(k)
           THEN Answer(w, IF At(w, "shielded") THEN "none" ELSE "corrupt") /\ UNCHANGED attempt
           ELSE IF attempt[k].status \notin Active
           THEN Tell(attempt[k].status) /\ UNCHANGED attempt
           ELSE IF StateShape(Failed(attempt[k], v))
           THEN Tell(v) /\ attempt' = [attempt EXCEPT ![k] = Failed(@, v)]
           ELSE Answer(w, "error") /\ UNCHANGED attempt
        /\ UNCHANGED <<candidates, prepared, scope, live, deleting, env, calls>>

\* generation_attempt_response reads run and candidate after the attempt, in
\* statements of their own: other transactions commit in between.
Respond(w) ==
    /\ At(w, "respond")
    /\ Answer(w, IF Whole(Key(w), task[w].reply) THEN task[w].reply ELSE "corrupt")
    /\ UNCHANGED <<db, env, calls>>

\* asyncio.CancelledError at an await.  Only the second try block catches it, the
\* markings of its own included, and shields one more marking; before that block
\* (the reservation may just have committed: "verify") and in its except clauses
\* the handler simply ends.
Cancel(w) ==
    /\ Cancels
    /\ \/ /\ task[w].pc \in {"lookup", "lock", "insert", "raced", "verify", "mark",
                           "respond"}
          /\ Answer(w, "none")
       \/ /\ task[w].pc \in {"claim", "call", "wait", "persist", "store", "settle"}
          /\ Shield(w)
    /\ UNCHANGED <<db, env, calls>>

\* The process of one request dies: its transaction rolls back, nobody answers.
Die(w) ==
    /\ Crashes
    /\ ~At(w, "idle")
    /\ Answer(w, "none")
    /\ UNCHANGED <<db, env, calls>>

-----------------------------------------------------------------------------
(* Other transactions on the same rows.                                    *)

\* What a run may be prepared from: nothing of the scope is archived, and it is at
\* the versions of the page the author asks from.
Preparable(seen) == live /\ ~frozen /\ scope.active /\ scope.version = seen

\* prepare_generation_run freezes the current versions into a new run.
Prepare(r) ==
    /\ PlanFree
    /\ \E seen \in 1 .. MaxScopeVersion : Preparable(seen)
    /\ prepared[r] = 0
    /\ prepared' = [prepared EXCEPT ![r] = scope.version]
    /\ UNCHANGED <<attempt, candidates, scope, live, deleting, env, task, calls>>

\* Any structure, assignment or chapter edit: versions rise, and archiving or
\* restoring changes whether the plan, the part and the chapter are active.
EditPlanning(a) ==
    /\ PlanFree
    /\ live /\ ~frozen
    /\ scope.version < MaxScopeVersion
    /\ scope' = [version |-> scope.version + 1, active |-> a]
    /\ UNCHANGED <<attempt, candidates, prepared, live, deleting, env, task, calls>>

SaveSettings(c) ==
    /\ config' = c
    /\ UNCHANGED <<db, frozen, task, calls>>

\* All processes restarted with another LEGACY_JSON_WRITES_FROZEN.
Restart ==
    /\ ~deleting /\ \A w \in Workers : At(w, "idle")
    /\ frozen' = ~frozen
    /\ UNCHANGED <<db, config, task, calls>>

\* Mutant of DeleteCheck: a reservation does not count as active.
DeleteCheckCalling ==
    /\ Deletes
    /\ PlanFree
    /\ live /\ ~frozen /\ ~deleting
    /\ \A k \in Keys : attempt[k].status # "calling"
    /\ deleting' = TRUE
    /\ UNCHANGED <<attempt, candidates, prepared, scope, live, env, task, calls>>

\* delete_project: lock the project row, refuse while an attempt is active.
DeleteCheck ==
    /\ Deletes
    /\ PlanFree
    /\ live /\ ~frozen /\ ~deleting
    /\ \A k \in Keys : attempt[k].status \notin Active
    /\ deleting' = TRUE
    /\ UNCHANGED <<attempt, candidates, prepared, scope, live, env, task, calls>>

DeleteCommit ==
    /\ deleting
    /\ deleting' = FALSE
    /\ live' = FALSE
    /\ attempt' = [k \in Keys |-> NoRow]
    /\ candidates' = {}
    /\ prepared' = [r \in Runs |-> 0]
    /\ UNCHANGED <<scope, env, task, calls>>

\* Archiving the files or the commit failed: rolled back, the project stays.
DeleteAbort ==
    /\ deleting
    /\ deleting' = FALSE
    /\ UNCHANGED <<attempt, candidates, prepared, scope, live, env, task, calls>>

-----------------------------------------------------------------------------
Handler(w) ==
    \/ Lookup(w) \/ LockScope(w) \/ Insert(w) \/ Raced(w) \/ Verify(w) \/ Claim(w)
    \/ CallProvider(w) \/ ProviderAnswers(w) \/ LockRun(w) \/ Store(w) \/ Mark(w)
    \/ Respond(w)

Worker(w) == Handler(w) \/ Cancel(w) \/ Die(w) \/ \E q \in Requests : Begin(w, q)

Environment ==
    \/ \E r \in Runs : Prepare(r)
    \/ \E a \in BOOLEAN : EditPlanning(a)
    \/ \E c \in Configs : SaveSettings(c)
    \/ Restart \/ DeleteCheck \/ DeleteCommit \/ DeleteAbort

Next == (\E w \in Workers : Worker(w)) \/ Environment

Spec == Init /\ [][Next]_vars

\* The event loop runs every ready handler; PostgreSQL serves a lock queue in
\* order, so a request that keeps finding its rows free gets them.
Fairness ==
    /\ \A w \in Workers : WF_vars(Handler(w)) /\ SF_vars(LockScope(w))
    /\ WF_vars(DeleteCommit \/ DeleteAbort)

FairSpec == Spec /\ Fairness

-----------------------------------------------------------------------------
(* Properties.                                                             *)

\* The rows, the handlers and the history have the shapes the schema declares.
TypeOK ==
    /\ attempt \in [Keys -> Rows \cup {NoRow}]
    /\ candidates \subseteq [key : Keys, run : Runs, no : Nat \ {0}]
    /\ prepared \in [Runs -> Nat]
    /\ scope \in [version : Nat, active : BOOLEAN]
    /\ live \in BOOLEAN /\ deleting \in BOOLEAN /\ frozen \in BOOLEAN
    /\ config \in Configs
    /\ task \in [Workers -> Tasks]
    /\ calls \in [Keys -> Nat]

\* The operation key is the idempotency boundary of the paid call: however often
\* a request is repeated, raced, cancelled or cut off by a crash, the provider is
\* called at most once for its key.
AtMostOneCall == \A k \in Keys : calls[k] <= 1

\* An attempt that says "no model was invoked, nothing billed" tells the truth.
UnbilledMeansUncalled ==
    \A k \in Keys : Exists(k) /\ ~attempt[k].invoked => calls[k] = 0

\* An attempt is succeeded exactly when its one candidate is stored: a success is
\* never shown without its text, nor a text kept under a failed attempt.
SucceededIffStored ==
    \A k \in Keys :
        Cardinality({c \in candidates : c.key = k})
            = IF attempt[k].status = "succeeded" THEN 1 ELSE 0

\* The text of a call that has been paid is never lost to another one: the version
\* number it was given under the lock of its run is still free when it is stored,
\* its attempt is still there and has no text yet.
PaidTextFits == \A w \in Workers : At(w, "store") => Storable(w)

\* A terminal status a client has been told stays true, and it is that of the
\* client's own request body, until the project is deleted.
AnswersStayTrue ==
    \A w \in Workers :
        At(w, "idle") /\ task[w].reply \in Terminal /\ live =>
            /\ attempt[Key(w)].status = task[w].reply
            /\ attempt[Key(w)].print = Fingerprint(task[w].req)

\* delete_project never removes the project under a request that has reserved and
\* is on its way to the provider or back (the comment in delete_project).
NoDeletionUnderCall ==
    \A w \in Workers :
        task[w].pc \in {"verify", "claim", "call", "wait", "persist", "store"} => live

\* A step that calls the provider does so for a claimed attempt of an existing
\* project, with the settings in force being those the user confirmed.
ConfirmedCall ==
    \A k \in Keys : calls'[k] # calls[k] =>
        live /\ attempt[k].status = "calling" /\ attempt[k].print.cap = config
CallsAsConfirmed == [][ConfirmedCall]_vars

\* A reservation commits only while the planning is still exactly the one the run
\* was prepared from, nothing of it archived and no maintenance freeze in force.
CurrentReservation ==
    \A k \in Keys : attempt[k] = NoRow /\ attempt'[k] # NoRow =>
        /\ live /\ ~frozen /\ scope.active
        /\ prepared[attempt'[k].print.run] = scope.version
ReservedOnCurrentPlan == [][CurrentReservation]_vars

\* An attempt that reached a terminal status never changes again, and no attempt
\* goes back to reserved; only deleting the project removes it.
KeepsTerminal ==
    \A k \in Keys :
        /\ attempt[k].status \in Terminal => attempt'[k] = attempt[k] \/ ~live'
        /\ attempt[k].status = "calling" => attempt'[k].status # "reserved"
TerminalIsFinal == [][KeepsTerminal]_vars

\* Every request is answered.
EveryRequestAnswered ==
    \A w \in Workers : ~At(w, "idle") ~> At(w, "idle")

\* Every active attempt settles.  This is what delete_project tells an owner whose
\* project it refuses to delete: retryable, wait_for_generation_result.
ActiveAttemptSettles ==
    \A k \in Keys : attempt[k].status \in Active ~> attempt[k].status \notin Active

-----------------------------------------------------------------------------
(* The abstract ledger: an absent row is no entry, an active one is open.  *)
Outcome == [k \in Keys |->
    CASE attempt[k].status = "absent" -> "none"
      [] attempt[k].status \in Active -> "open"
      [] OTHER -> attempt[k].status]

Ledger == INSTANCE SingleCallLedger WITH
    outcome <- Outcome,
    paid <- {k \in Keys : calls[k] > 0},
    stored <- {c.key : c \in candidates},
    closed <- ~live

\* The handlers and the deletion together keep the ledger's promise.
ImplementsLedger == Ledger!Spec
=============================================================================
