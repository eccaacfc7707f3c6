# A verification project for maxNovel

maxNovel ("满分小说") is an AI novel platform: a FastAPI backend on SQLAlchemy 2
(`backend/app`), with PostgreSQL in production and SQLite for development and
the demo, and a React frontend (`frontend/src`).  Several browser tabs and
several server processes work on the same rows, most user actions are optimistic
(a version or a checksum the client read is sent back), and some of them cost
money: the provider of the language model bills every call.  This directory holds
TLA+ modules of the parts where the order of steps matters, the TLC
configurations that check them on small instances, and TLAPS proofs.

All paths below are relative to `backend/app` unless they start otherwise.

## Inventory

| Component | State it keeps | Operations | Hard behaviour | What makes it correct |
|---|---|---|---|---|
| Paid single-call generation (`core/generation_execution.py`, `api/generation.py`) | attempts, generated candidates; reads runs, planning, settings | reserve, claim, call, persist, mark, replay | same key raced and retried, crash and cancellation between any two steps, settings changed meanwhile, lost commit acknowledgement | one call per key, truthful billing record, a success has its text, terminal states final |
| Generation preflight (`core/generation_preflight.py`) | runs with frozen versions and checksums | prepare | the planning moves between preparing and executing | a reservation uses exactly the planning that was prepared |
| Manual edits of candidates (`core/generation_candidates.py`) | candidate rows: version number, parent, depth | create edit, validate lineage | two edits of one parent, an edit against a generated success, depth limit | versions without gap or duplicate, acyclic lineage, one result per operation |
| Candidate selection (`core/generation_candidate_selection.py`) | selection row per chapter, receipts | select | stale expected version, repeated operation id | every pointer move has one receipt, receipts chain |
| Planning structure (`core/planning_write.py`, `api/planning.py`) | plan with two versions, parts, chapters with positions and versions, operation receipts | create, edit, archive, restore, reorder | pages of any age, the same key delivered twice, a reorder under plans and facts | no shared position, chapters in active parts, one effect per operation, a refusal is final |
| Planning assignments (`core/planning_assignment.py`) | assignments of lore elements to parts and chapters | assign, remove, restore | the scope or the element is archived | an assignment names a scope in force |
| Foreshadows (`core/foreshadow_lifecycle.py`, `api/foreshadows.py`) | lifecycles, plan items, facts, operation receipts | bind, plan, cancel, record, retract, archive, restore | what was ordered when it was planned is reordered, archived and restored later | planted before resolved; nothing points at what is archived |
| Legacy chapters (`api/chapters.py`, `core/memory_store.py`) | `outline.chapters`, chapters, story memory, set of active generations | stream one, stream batch, edit | a stream of minutes holding objects loaded before it, edits meanwhile | a project is completed by the chapter it still lacked and not before; one stream at a time; no edit lost, which the memory does not keep (see Observations) |
| Lore extraction (`core/lore_extraction.py`, `api/lore_extraction.py`) | batches, candidates, revisions | extract, edit, accept, reject | a paid call, two reviewers, checks made before the row is claimed | one call per key, each candidate decided once, what is accepted was judged whole |
| Lore elements, relations and review (`core/lore_write.py`, `core/lore_review.py`, `api/lore.py`) | elements with versions, relations with versions, suggestions with evidence and decisions | create, edit, confirm, reject, archive, restore, scan, report, decide | checks on rows of others, several lock orders | active relations join active elements, edits never block each other for good, decisions belong to their evidence |
| Lore merge (`core/lore_merge_preview.py`, `core/lore_merge_commit.py`) | merges, redirected relations | preview, commit | a preview of any age | what is merged is what a reviewer judged; no relation is lost or doubled |
| Upgrade to relational lore (`core/lore_migration*.py`) | decisions about issues, receipts, generated lore rows, the project's mode | preview, decide, revoke, commit in two transactions, compensate, rehearse, roll back | interrupted between the transactions, raced, repeated, decided meanwhile | always resumable, exactly what was confirmed, never half, never undone |
| Worldview (`api/worldview.py`) | worldview row and file | set, get | checksum compare-and-set, file after commit | no lost update |
| Project files and deletion (`api/projects.py`, `core/project_files.py`) | project row, directory, staging directory | delete, archive, restore, finalise, export | crash or failure between files and commit, an export after the deletion began | no file lost while the project lives, nobody told a lie |
| Provider client and settings (`core/llm_client.py`, `core/settings_store.py`) | settings file, HTTP calls | load, save, stream with retries, one frozen call | settings change under a call | the call is the confirmed one |
| Community (`api/community.py`) | published novels, tags, counters, likes | like, use tag, view | read-modify-write of JSON and counters | one like per user |
| Demo material and generation (`core/demo_*.py`) | seeded project, demo attempts | seed, execute | repeated requests | seeded once, executed once |
| Authentication, rate limits, export, outline, schemas, logging, JSON preflight | tokens, counters, none | — | — | — |
| Frontend request sequencing (`frontend/src/services`) | pending operation keys in the browser | submit, poll, recover | lost response | a lost answer is asked for again under the same key |

How they interact.  Everything meets in the database.  Preflight writes runs that
execution reads and compares with the planning; execution writes candidates that
manual edits extend and selection points to; foreshadows refer to planning
chapters; extraction and merge create and redirect lore elements; the migration
moves a worldview from its JSON column to lore rows and then closes the worldview;
deleting a project takes all of it.  There are no messages and no background
workers: concurrency is between HTTP requests, in one process (they interleave at
`await`) or in several.  On PostgreSQL transactions run at READ COMMITTED and
`SELECT ... FOR UPDATE` orders them; on SQLite it does nothing.  SQLAlchemy keeps
loaded objects in the session's identity map, and a later locked read does not
refresh them unless `populate_existing` is asked for.

## Plan

The order in which the modules were made, the ones about money and about loss first:

1. `GenerationExecution` with the abstract `SingleCallLedger`: money is spent here.
2. `CandidateHistory` with the abstract `SelectionRegister`: what the author adopts.
3. `LegacyChapters`: streams of minutes beside edits.
4. `LoreExtraction`: the other paid call, and the review of what it finds.
5. `StoryPlanning`, and `PlanningRequests` for the way requests reach it.
6. `LoreRepository`, and `LoreLocks` for the locks that let it treat an operation as one step.
7. `LoreMigration`, and `LoreRehearsal` which extends it.
8. `ProjectFiles`.

All of these are done.  Two pairs split one subject: `StoryPlanning` has the rules of the
structure with one action per operation, and `PlanningRequests` the keys, versions
and receipts with the structure left out; `LoreRepository` has the operations on lore,
`LoreLocks` their statements and row locks.  What would come next, with the most to
gain first: the retry loop of `chat_stream` (`core/llm_client.py` 462) composed with
`LegacyChapters`; `StoryPlanning` with the merge of `LoreRepository` as its
environment; a refinement mapping from `LoreLocks` with suggestions and contents to `LoreRepository`
(so far `RequestsAreAtomic` for elements and relations).

The proofs about a component are in a module of their own (`...Proofs`); `PlanningProofs`
has those about both planning modules and `LoreProofs` those about both lore modules,
which share the ids of rows (`LoreIds`).

## Modules

### GenerationExecution

One HTTP request inside `execute_generation_attempt` is a *worker*.  Its `pc` is
the place where it waits; each action is what the handler does from one such place to the next.

| Action | Code (`core/generation_execution.py` unless named) |
|---|---|
| `Begin` | a request arrives, its transport freezes the settings (110-132) |
| `Lookup`, `Replay`, `Raced` | `find_generation_attempt_by_key` and the replay of what it finds (1076-1082, 1149-1163, 464-469) |
| `LockScope` | `_load_locked_execution_scope` (770-887) and its refusals |
| `Insert` | INSERT and COMMIT of the reservation (1106-1148) |
| `Verify` | `verify_capability_current` on the durable row (1165-1176) |
| `Claim` | `_claim_attempt`, the compare-and-set reserved → calling (890-915) |
| `CallProvider`, `ProviderAnswers` | `transport.generate` (163-170) and `chat_once_frozen` (`core/llm_client.py` 175-249) |
| `LockRun`, `Store` | `_persist_success` up to the version number, then its flush and commit (953-1056) |
| `Mark` | `_mark_terminal_failure` (918-950): from within the try block (`Settle`), from its except clauses (`Raise`), shielded after a cancellation (`Shield`) |
| `Respond` | the later reads of `generation_attempt_response` (470-677) |
| `Cancel`, `Die` | `asyncio.CancelledError` at an await, caught in the try block and its own markings (987, 1040, 1169) by 1204-1214, but not in the except clauses; the process is gone |
| `Prepare` | `prepare_generation_run` |
| `EditPlanning` | any operation of `core/planning_write.py` |
| `SaveSettings`, `Restart` | `save_settings`; the maintenance switch, fixed for the life of a process |
| `DeleteCheck`, `DeleteCommit`, `DeleteAbort` | `delete_project` (`api/projects.py` 112-205) |

Row locks are a function of the `pc`s (`HoldsScope`, `HoldsRun`, `PlanFree`,
`RunFree`), so a transaction that ends in any way, crash included, releases them.
Data are abstracted to what the guards compare: a plan with one part and one
chapter has one version counter, a configuration is its own digest, a run is its
own context checksum.  A commit may be applied and still be reported as failed
(`Store`, `Claim`), and a flush error expires the ORM object so that the except
branch raises in its turn (`Store`, answer `"error"`).

`calls` counts the provider calls per key; it is a history variable that the code
does not have.

### SingleCallLedger

What paid generation promises, without handlers: per key an entry that is opened
once, paid at most once while it is open, settled once, and holds a text exactly
when it succeeded; the project closes only while nothing is open.
`GenerationExecution!ImplementsLedger` maps the rows to it (an absent row is no
entry, `reserved` and `calling` are open).

### CandidateHistory

One HTTP request inside `create_manual_edit_candidate` or
`select_generation_candidate` is a *worker*; both handlers look their operation up
without locks, again under locks, check, write, and fall back on a replay when a
unique constraint refuses the write.

| Action | Code |
|---|---|
| `Begin` | a request arrives; it names a selection version that was read before |
| `LookupEdit`, `ReplayEdit` | the first `db.get` and `_validate_manual_edit_replay` (`core/generation_candidates.py` 614-635, 495-575) |
| `LockRun` | project and run locked, second lookup, checks of the parent, `MAX(version_no) + 1` (636-736) |
| `WriteEdit` | INSERT, validated response, COMMIT (737-761) |
| `RacedEdit` | the `IntegrityError` branch (762-784) |
| `LookupSelect`, `ReplaySelect` | the first `db.get` and `_validate_operation_replay` (`core/generation_candidate_selection.py` 461-483, 397-444) |
| `LockChapter` | project, chapter and selection locked, second lookup, version and target checks (484-603) |
| `WriteSelect` | INSERT of the receipt, INSERT or UPDATE of the selection, COMMIT (604-688) |
| `RacedSelect` | the `IntegrityError` branch (689-714) |
| `Die` | the process is gone, or a commit fails: rolled back |
| `Generate` | `_persist_success` or the technical demo adds a root candidate |
| `SetActive` | `_change_chapter_archive_state` (`api/planning.py` 643-790) |

`Valid` is `validate_candidate_lineage` (191-327): a walk to the root in at most
`MaxDepth` nodes, each parent in the same run, with a smaller number and another
text.  Both stores may be acknowledged or not (`"error"` after an applied commit).
A text stands for its checksum, size and word count; creation times are left out.

### SelectionRegister

What the author is promised about the adopted version: a register that moves one
version at a time, never to what it already shows, with a history of every value.
`CandidateHistory!ImplementsRegister` maps the selection row to the pointer and the
receipts to the history.

### LegacyChapters

Projects that are planned by the old outline write their chapters by streams of
minutes (`api/chapters.py`).  A *worker* is one request: a stream of a single chapter,
of the missing chapters or of all chapters, or an edit of a chapter's text or title.

| Action | Code (`api/chapters.py` unless named) |
|---|---|
| `Open` | the set of active generations checked and joined, the project and for a batch its chapters loaded (555-703) |
| `OpenBatch` | the batch sets the project writing and commits before its first chapter (704-714) |
| `Begin` | one chapter's checks and the errors that end it here, the memory read or created, the project set writing, first commit (783-960) |
| `Stream` | the provider's stream and what is refused of its answer (1018-1082) |
| `Save` | SELECT of the chapter in the stream's session (1084-1098) |
| `Write` | INSERT or UPDATE of the chapter, memory, completion, commit, and the two ways it fails (1098-1165) |
| `Leave`, `Proceed` | the `finally` of both streams; the batch's loop |
| `EditLoad`, `EditHold`, `EditSave` | `update_chapter` up to its first flush, up to the memory, and the rest (448-498) |
| `Drop` | a disconnection or an exception: rolled back |
| `SetTotal`, `SaveWorldview` | `update_project` (`api/projects.py` 208-231), `set_worldview` (`api/worldview.py` 276-376) |

The session is part of the state (`task[w].proj`, `rows`, `mem`), because the
hard behaviour is its staleness.  Sessions are made with `expire_on_commit=False`, so
an object stays as it was first loaded, a SELECT that finds it again does not
refresh it, and an UPDATE holds only the columns whose value differs from the
loaded one: `Column(old, new, now)`.  A rollback expires them all.  `Write` is
one step since it has written the memory row when it counts the chapters, and
every other writer of a text waits for that row until the commit.

The author may change the number of chapters at any time (`SetTotal`), below the chapters that
exist too.  The history variable `planned` keeps the numbers the project has had, so that the
properties can say what its status is still worth then: there are as many chapters as some
planned number asks for, and all of them if the number was never edited.

### LoreExtraction

A *poster* is one POST of a document, a *reviewer* one client that decides candidates.

| Action | Code (`api/lore_extraction.py` unless named) |
|---|---|
| `Begin`, `Reserve` | the look at the key, the INSERT of the batch or the `IntegrityError` and the second look |
| `Call`, `CallFails` | the one call and every way it ends without a readable reply |
| `Prepare` | `prepare_candidates` (`core/lore_extraction.py`): exact matches with elements and siblings |
| `Save`, `SaveFails` | candidates, first revisions and the completed batch in one commit |
| `Die` | the process is gone: the batch stays running |
| `LoadEdit`, `LoadAccept`, `LoadReject` | each handler up to its claim, with its checks on the row it loaded |
| `Claim` | `_claim_candidate_revision`, an UPDATE that waits for the row and compares the revision |
| `WriteEdit`, `WriteAccept`, `WriteReject` | the rest of each transaction; accepting makes the element (`create_element`) |
| `Abandon` | an error or a lost client |

`calls` and `told` are history.

### StoryPlanning

One action per operation of `api/planning.py`, `core/planning_assignment.py` and
`api/foreshadows.py`; each runs under the row lock of the plan.

| Actions | Code |
|---|---|
| `CreatePart` ... `RestoreChapter` | creation, archive and restore of nodes, with `next_active_position` |
| `Reorder` | `reorder_active_structure`: a complete request, checked against every active thread, and refused when the positions do not suffice to park the rows that move (`Parkable`) |
| `Assign`, `Unassign` | assignments and their restore |
| `EnableLore` ... `RestoreLore` | the operations on an element that planning depends on (`api/lore.py`, merge) |
| `Bind`, `ArchiveThread`, `RestoreThread` | the lifecycle, with `_validate_lifecycle_restore` |
| `CreatePlan`, `CancelPlan`, `RestorePlan` | plan items, with `_validate_plan_order` |
| `RecordPlanted`, `RecordResolved`, `RetractFact` | confirmed facts |

### PlanningRequests

`Prepare` makes a draft with the versions its page shows; `Deliver` is the first
`find_operation`; `Execute` is what the three executors do under the lock of the plan
(receipt again, versions, change, receipt, commit); `Abort` a request that dies.
`Abort` stands also for a conflict that is answered as retryable, such as the `IntegrityError` of
two binds: nothing is written, and the client may come again.
`Restructure`, `Reassign` and `Develop` move the versions.  `applied` and `told` are history.

### LoreRepository

| Actions | Code |
|---|---|
| `CreateElement`, `EditElement`, `RestoreVersion`, `Confirm`, `Reject`, `ArchiveElement`, `RestoreElement` | `core/lore_write.py` and its endpoints |
| `CreateRelation`, `EditRelation`, `ArchiveRelation`, `RestoreRelation` | the relation endpoints of `api/lore.py` |
| `Scan`, `Report`, `Decide` | `core/lore_review.py`, `create_manual_lore_review`, `decide_lore_review` |
| `Preview`, `Merge` | `build_merge_preview`, `commit_lore_merge`, with the plan for each relation (`ActionOn`) |

`seen` is history: the content versions a pair had when it was last judged.

### LoreLocks

A *transaction* runs the statements of its request (`Statements`), each of which locks
rows in the order of their ids (`Lock`), checks what it read (`Check`), and
commits (`Commit`) or is rolled back (`Rollback`).  What a request read before its
first lock (`read`) is part of it: the version is compared in the UPDATE itself.
`Proceeds` are the refusals between two statements.

Rows are locked FOR UPDATE, in the classes project, suggestion, element and relation.  `Share`
is the key share lock of the project that an INSERT of a relation or of a review event takes
for its foreign key (`models/lore.py` 638, 843): many may hold it, none while a merge, a scan
or a report holds the project (`Against`).  A merge locks the aliases of the element it takes
away after everything else (`core/lore_merge_commit.py` 331).  Left out are rows of types and
sources, which of these requests only merges and scans lock, and only while they hold the
project; relation keys, so that a new relation looks for any relation of its ends; and
edits of an element's content, which lock that element only.

### LoreMigration and LoreRehearsal

| Action | Code (`core/lore_migration_commit.py` unless named) |
|---|---|
| `SaveWorldview` | `set_worldview`, closed while a receipt is validating or ready |
| `Decide`, `Revoke` | `core/lore_migration_resolution.py` |
| `ToggleFreeze`, `EditLore` | a restart into or out of maintenance; any change of the new lore |
| `Begin` | the author confirms the preview he sees, or repeats a request |
| `Resume`, `Prepare` | `_prepare_or_resume`: the receipt and the rows in the first transaction |
| `Verify`, `Compare` | the check between the transactions, without locks, in two reads |
| `Finalize` | the second transaction: checked again under the lock, then the switch |
| `Fault`, `Compensate` | a failure between them, and the removal of the rows |
| `Lose` | a crash, or an answer that is lost |
| `CommitRehearsal`, `RollBack` | `core/lore_migration_rehearsal.py` |

The preview (`ReasonsOf`, `Unresolved`, `Ready`, `Semantic`) and the plan made of it
(`PlanOf`) are operators on a worldview and its decisions.

### ProjectFiles

| Action | Code |
|---|---|
| `Send` | the author edits what he sees, or repeats a save |
| `Save`, `SaveAgain`, `SaveNothing` | `set_worldview` under the project's lock (`api/worldview.py`) |
| `Refresh`, `ExportSaved` | the row read again and written to `worldview.json` after the commit |
| `Lock`, `Archive`, `Commit`, `Restore`, `Finalize` | `delete_project` (`api/projects.py`) with `core/project_files.py` |
| `LoseSave`, `LoseDeletion` | a crash or a cancellation anywhere |

## Runs

| Run | What it shows |
|---|---|
| `gen_exec_postgres` | single call, truthful billing record, success has its text, a paid text keeps its number, truthful answers, no deletion under a call, calls as confirmed, reservations on the current plan: two requests with racing bodies, crashes, cancellations, edits, settings changes, a restart into maintenance and a deletion |
| `gen_exec_liveness` | without crash and cancellation every request is answered and every attempt settles; refinement of `SingleCallLedger` |
| `cand_history` | edits and selections of one chapter: readable versions, truthful and final answers, refinement of `SelectionRegister`; with row locks and without |
| `legacy_chapters` | streams, batches, edits, worldview saves and an author who lowers the number of chapters, in one process: what a completed project still has, that the last missing chapter completes it in its own commit, and that the active set holds exactly the running streams |
| `lore_extraction` | one call per key whoever posts it; histories of candidates whole and answers true; nothing open or undecided becomes an element |
| `story_planning` | positions and parents stay whole, nothing in force points at what is archived, a thread is planted before it is resolved |
| `planning_requests` | "done" means done once, a refusal is final |
| `lore_repository` | relations stay sound and merged elements lead on, through merges of merges that are refused, restores and rewired relations |
| `lore_review` | a merge commits only what a reviewer judged, while contents change and come back |
| `lore_locks` | checks on rows of others hold until the commit; a deadlock needs a merge, a scan or a report, and a new relation, a decision or a change of a relation with a merged end |
| `lore_migration` | an upgrade is resumable, exactly as confirmed, never undone; its answers are true; rehearsals leave nothing |
| `project_files` | no exported file is lost while the project lives, files in staging are told of, no draft is overwritten unseen |

### Bounds of the generation runs

Two workers: every property about rows relates one request to one other (races on
a key, on a version number, on a lock), and a third request meets the same rows
as the second did, since a worker that ends begins again with any body.  Two keys:
one to race on, one that shares only the run.  Bodies (`RacingBodies`): the same key with the same
body, the same key with another capability, another key for the same run; the liveness
run has two keys for one run (`TwoKeyBodies`).  `MaxScopeVersion = 2` is one edit after the
prepared version, enough to make every run stale; at 1 the planning stays as it
is, which the ledger and the liveness properties do not depend on.  Two configurations: the
confirmed one and another.  Version numbers need no bound: a candidate belongs to
a key, so a run has at most as many as there are keys.  Workers are
interchangeable in every action and property, hence the symmetry; the liveness
run does without it.  Databases without row locks (SQLite) are covered by the theorems,
which hold for both values of `RowLocks`.

Deadlock is checked where a new request can always begin; the modules whose requests or
ids are used up once (`LoreExtraction`, `StoryPlanning`, `LoreRepository`, `LoreLocks`,
`ProjectFiles`) may stop.

### Bounds of the history run

Two workers and two keys, as above: the races are between two requests for a
number, for a key or for a selection version.  The bodies (`AllBodies`) contain two
edits of the root, one key with two texts, an edit of the edit, and selections that
race from version 0, follow at version 1, return to the first candidate or name
another chapter's root.  `MaxDepth = 2` makes the edit of the edit one node too
deep, so that the limit is met; the code has 100, which differs in nothing but length.
Versions need no bound: an edit belongs to a key and a move to a receipt.
`locking` takes both values from the initial state on, so that one run covers
PostgreSQL and SQLite.

### Bounds of the legacy run

Two workers, interchangeable (`SYMMETRY`): a stream and an edit, or two streams of which one is
refused.  Two chapters: one that a batch has passed and one it still has to write.  One text of
each kind is enough for properties that compare numbers and presence.  `Totals = {1}`: the author
may lower the number of chapters below chapters that exist, while sessions hold the old
one; raising it again would be the same staleness the other way round, and the theorems allow both.
There is one process.  A consequence is that the INSERT that meets the unique constraint in `Write`
happens in none of the run's behaviours, since in one process only one stream inserts at a
time; the theorems are for any number of processes.
`Regenerates = {"single"}`: a single stream may replace a chapter; a batch that replaces them is a
sequence of these with older copies, which the theorems include.

### Bounds of the other runs

* `lore_extraction`: one key with two documents and two posters has every race and
  every conflict of a key; two items of one name that the project also knows are matches both
  ways and with an element; two reviewers race for one row; `MaxRevision = 2` lets an edit come
  before a decision.
* `story_planning`: two parts and two chapters are the least that can be reordered,
  moved between parts and left behind; one thread, because threads meet only in
  what they point at, and each property quantifies over single threads; two plan items
  are one of each kind, or a cancelled and an active one.  `MaxPosition = 5` is the least with which a reorder can
  exchange two parts or two chapters, since it parks both beyond the last position, and it is met
  by restores and by reorders.  The position of an archived node is never read again, so the
  run identifies states that differ in it alone (`VIEW`).
* `planning_requests`: three drafts, two of which can carry one key, and two of which
  compare one version; two requests at once.  Versions need no bound, since a draft is
  committed at most once.
* `lore_repository`: three elements are a merge of a merge and a relation to a
  third; two relations collide after a merge; `MaxWork = 4` allows archive, restore,
  judge and merge in one behaviour.  `MaxReview = 3` allows scan, decide, merge.
  The view forgets a preview that the versions have left behind.
* `lore_review`: one pair whose contents change up to `MaxVersion = 3`, so that an old
  content can come back between a judgement and a commit.
* `lore_locks`: two transactions, so that groups of more which block each other
  are left to the theorem `OnlyProjectLocksDeadlock`.  Three elements and the pairs {1, 2}
  and {2, 3} allow a merge into an element that is merged itself later, which is when
  aliases are locked; one relation has then a merged end and a surviving one.  Three versions
  allow a relation to be archived and restored.
* `lore_migration`: a worldview with two items of one name, one without a type and
  with a field that only one type has a place for, meets every issue, and deciding one
  changes another; four changes of decisions decide all, revoke one and decide it again; two
  keys and two requests; one failure.
* `project_files`: three saves are a chain of two and one from an old page; two
  deletions race for one directory.

### Fairness

`WF(Handler(w))`: the event loop runs every handler that can go on, and a call to
the provider ends because the client has a timeout.  `SF(LockScope(w))`: a request
that waits for row locks is granted them when they keep becoming free, since
PostgreSQL queues waiters; weak fairness would not do because others take the same locks in
between.  `WF(DeleteCommit \/ DeleteAbort)`: a deletion that holds the project row
ends one way or the other.  Nothing is assumed of users (`Begin`, `Prepare`,
`EditPlanning`, `SaveSettings`, `DeleteCheck`), of restarts, crashes and
cancellations.

## Proofs

`GenerationExecutionProofs` proves for all values of the constants (any sets of
workers, keys, runs, configurations and bodies, any bound, with or without row
locks, crashes, cancellations and deletions) under the assumptions the module
names: the switches are Booleans, `RowLocks \/ ~Deletes`, the bound is a natural
number, the bodies are well formed.

The properties are not inductive.  The invariant `Inv` that carries them is a
conjunction of

* `TypeOK`;
* `OwnerOK`: at most one worker is past the reservation of a key and not yet done with it; it follows
  from the unique constraint and the claim;
* `StageOK`: what the owner's `pc` says of the row (`"claim"` a reservation nobody has
  claimed, `"call"` a claimed one without a call, `"wait"`, `"persist"` and `"store"` one with exactly one call);
* `RowOK`: every row satisfies the table's CHECK constraint, and its lock version is
  1 while it is reserved and 2 while it is calling;
* `HistoryOK`: `calls` is at most 1, and 1 only for a key whose row is marked as
  invoked (as long as the project lives);
* `DeletionOK`: while a deletion is between check and commit no attempt is active,
  because the project lock keeps reservations out, and a deleted project has no rows;
* `VersionOK`: the version numbers of a run are exactly 1..n for some n, and a number
  about to be stored is positive with all smaller ones present;
* `StoredOK`: the succeeded attempts are those with a candidate, and no two candidates
  share a key, or a run and a number.

Each theorem follows the same argument: `Init => Inv`, one lemma per action for
`Inv /\ Next => Inv'`, the property from `Inv`, and the temporal step by PTL.
`Refinement` uses `Inv` as the hypothesis of the step simulation: every action
maps to one ledger step or to a stutter.  `ReservedCurrent` adds `ReservationReady`: what
a worker found under the locks of `_load_locked_execution_scope` is still so at its INSERT.
`PaidTextsFit` adds `StoreReady`: under the lock of its run, a worker that is about to store is the
only one there, and its number is above all that are taken.

| Theorem | Property |
|---|---|
| `TypeCorrect` | `TypeOK` |
| `SingleCall` | `AtMostOneCall` |
| `UnbilledTruth` | `UnbilledMeansUncalled` |
| `DeletionWaits` | `NoDeletionUnderCall` |
| `SuccessIsStored` | `SucceededIffStored` |
| `VersionsDense` | the versions of a run are 1..n (`VersionsGapless`, stated beside the proof) |
| `PaidTextsFit` (with row locks) | `PaidTextFits` |
| `ConfirmedCalls` | `CallsAsConfirmed` |
| `TerminalStays` | `TerminalIsFinal` |
| `RepliesStayTrue` | `AnswersStayTrue` |
| `ReservedCurrent` (with row locks) | `ReservedOnCurrentPlan` |
| `Refinement` | `ImplementsLedger` |

`CandidateHistoryProofs` proves for any sets of workers, keys, roots, runs, texts and
bodies, any depth limit, with or without row locks and crashes, under
`HistoryConstants` (ids of edits and roots are disjoint) and `RequestsAreBodies`.
Its invariant `Inv` is a conjunction of

* `TypeOK`;
* `NumbersOK`: the numbers of a run are 1..n for some n, and no two of its candidates share one;
* `ReceiptsOK`: a receipt names its own key and the version its request named, and
  the receipts lead from version 0 to the selection without a gap;
* `TaskOK` for each handler: `EditOK`, an edit about to be written has a positive
  number with all smaller ones present and a stored parent; `SelectOK`, what a
  selection about to be written has read is the present selection, or a receipt
  already stands in its place; `ReplyOK`, an answer `"done"` is true and a
  `"version_conflict"` names a version that is over and a body without receipt.

The central step is the lemma `WriterIsCurrent`: who may still write its receipt
sees the current selection, because every later version has left a receipt at the
version it came from.  That is why the moves stay confirmed even without row locks.
`VersionsReadable` is an induction over the lineage of a version, by its least
counterexample (`Smallest`): every parent on the walk is stored, and the walk reaches a root
within the depth limit that the edit was checked against.

| Theorem | Property |
|---|---|
| `TypeCorrect` | `TypeOK` |
| `DenseNumbers` | `NumbersAreDense` |
| `VersionsReadable` | `EveryVersionReadable` |
| `DoneStays` | `DoneStaysDone` |
| `ConflictFinal` | `ConflictIsFinal` |
| `MovesConfirmed` | `MovesAsConfirmed` |
| `ArchivedStays` | `ArchivedStaysPut` |
| `RegisterRefinement` | `ImplementsRegister` |

`LegacyChaptersProofs` proves for any sets of workers, processes and texts and any number of
chapters, under `LegacyConstants` and `NothingIsNoRow` (the absent row is not a row).
Its invariant `Inv` is a conjunction of

* `TypeOK`;
* `StreamsOK`: the projects in a process's active set are those with a running stream there,
  and no two streams of one process run at once;
* `RowsOK`: the memory exists when a chapter does, the current number of chapters is one of
  `planned`, a completed project has enough chapters for one of them (`Enough`), and if the
  number was never edited (`Kept`) only planned chapters exist;
* `TaskOK` for each request: `ShapeOK`, what its session holds at each place;
  `ReadOK`, chapters its session has read are still stored, the number it has read is one of
  `planned`, and if it has read the project as completed there are enough chapters.

The step that needs care is the UPDATE of the status by a session that is minutes
old: it holds the status only when it differs from the one that was loaded.  `ReadOK`
says that a status loaded as completed is still worth as much, since chapters are never
deleted and `planned` only grows (`EnoughStays`), so that leaving the column out is harmless
(`LastWriteCompletes`); `EnoughIsAll` says that with the number the project was created with,
enough chapters are all of them.  The theorems have no assumption but those on the constants: an edit of
the number of chapters is a step like the others, and the properties say in terms of `planned` what
it leaves true.

| Theorem | Property |
|---|---|
| `TypeCorrect` | `TypeOK` |
| `OneStreamPerProcess` | `ActiveIsOneStream` |
| `CompletedIsPlanned` | `CompletedAsPlanned` |
| `CompletionInTime` | `LastSaveCompletes` |

`LoreExtractionProofs` proves for any posters, keys, documents, reviewers, replies and
elements, under `RepliesAreShort`, `ContentsAreOpenOrNot`, `OldElementsAreNamed` and
`NothingIsNoRow`.  The invariant `IInv` adds to `TypeOK` who owns a key (`PostsOK`), that a reply
about to be saved was compared with the elements (`ComparedOK`), that a batch which is not completed
has no candidates (`Unsaved`), the history, matches and element of each candidate
(`HistoryOK`, `MatchesOK`, `ElementOK`), and what reviewers hold and were told
(`ReviewsOK`, `ToldOK`).  The point is that a check made before the claim is still
true at the write, because the claim compares the revision and then holds the row.

| Theorem | Property |
|---|---|
| `TypeCorrect` | `TypeOK` |
| `PaidOnce` | `OneCallPerKey` |
| `DecisionsStay` | `DecisionsWhole` |
| `AcceptedStands` | `AcceptedAsJudged` |

`PlanningProofs` proves about `StoryPlanning` for any finite sets of parts and chapters and any threads
(`PositionAssumption`, `NodeAssumption`).  The three properties need each other: a node
can only be moved by archive and restore when nothing in force points at it
(`PointersLive`), so the order of what is in force (`StoryOrder`) changes in a reorder alone, which checks
it, and a chapter's order is its part's first (`StructureWhole`).  The invariant adds only that a thread
which was never bound has nothing (`UnboundIsEmpty`).

| Theorem | Property |
|---|---|
| `TypeCorrect` | `TypeOK` |
| `StructureStays` | `StructureWhole` |
| `PointersStay` | `PointersLive` |
| `OrderStays` | `StoryOrder` |

`PlanningProofs` proves about `PlanningRequests` for any drafts, deliveries, keys and foreshadows, under
`NothingAssumption`.  Its invariant says what an answer stands for (`AnswersStand`): "done" for a receipt of
this draft, "reused" for one of another, "conflict" for a version that has moved past the
draft's (`Outdated`); receipts stay (`OnRecord`, `ReceiptsFit`) and versions only grow (`SeenBefore`).

| Theorem | Property |
|---|---|
| `RequestsTypeCorrect` | `RequestTypeOK` |
| `DoneStays` | `DoneIsTrue` |
| `RefusalStays` | `RefusedIsFinal` |

`LoreProofs` proves about `LoreRepository` for any finitely many elements and relations and
any contents, texts and bounds, under `IdsAssumption` (ids are numbers and none is the
absent row) and `LoreAssumption` (the two kinds of relations; the absent row is not a
row).  The properties are not inductive; `LoreInv` adds that a preview names the pair of its
suggestion (`PreviewOK`), that a decision that counts was made on the versions the
suggestion names (`JudgedOK`), and, for archived relations too, that their ends differ, are in
canonical order and that no two have one identity (`IdentityOK`).  The long step is
the merge: `RewiredAlone` shows that of the relations it moves no two come to have one
identity, nor one of those it leaves, since a relation is moved only as the
smallest of its group and into a free place.

| Theorem | Property |
|---|---|
| `TypeCorrect` | `TypeOK` |
| `RelationsStaySound` | `RelationsSound` |
| `MergedStayResolved` | `MergedLeadsOn` |
| `MergedStayJudged` | `MergedAsJudged` |

`LoreProofs` proves about `LoreLocks` for any transactions, finitely many elements and
relations, any suggestions and any bound, under `IdsAssumption` and `LocksAssumption`.
Its invariant `LockInv` is a conjunction of

* `LockTypeOK` and `Exclusive`: a row is held by one transaction, but for `Share`;
* `TransactionOK` for each transaction: what its request is about (`Subject`); it holds
  the rows of the statements it has run as they would find them *now* (`Covered`), taken
  class by class and id by id until a merge comes back for aliases (`Ordered`); which
  elements it locks (`Aimed`); what it has checked still holds;
* `AliasesMerged` and `ActiveEnds`.

It was checked by TLC on the instance of the run before it was proved.  A commit
disturbs the other transactions only in what `Guarded` leaves open: elements and
relations it writes are locked by it, and a relation that gains an end gains one it has
locked.  So a request that holds an element keeps seeing all its relations, although a
statement locks only those there are when it runs (`CoverStays`), and what it has checked
stays true (`PassesStays`).  For the deadlocks, `NoCycle` orders the rows by
the rank of their class and by id: along the waits of a circle they would ascend for
ever among finitely many.  Requests that do not lock the project follow this ranking, and
without the project a key share lock waits for nothing (`NeedsProject`).  Merges, scans and
reports leave the ranking only with their last statement, holding the project, so a circle
has only one of them that is waited for.  The others have a suggestion only if they decide; and an alias
only if they create a relation, decide, or change a relation, since an archive refuses a
merged element before it goes on to relations (`NeedsShare`).

| Theorem | Property |
|---|---|
| `LocksTypeCorrect` | `LockTypeOK` |
| `ActiveStayJoined` | `ActiveEnds` |
| `ChecksNeverStale` | `ChecksStillHold` |
| `LocksLeaveNoPhantoms` | `NoPhantoms` |
| `OnlyProjectLocksDeadlock` | `DeadlockNeedsProjectLock` |
| `RequestsAreAtomic` | `RequestsOneByOne` |

`RequestsAreAtomic` is what `LoreRepository` rests on: the tables change as if each request that
commits had been checked and carried out in one step.

`LoreMigrationProofs` proves about `RehearsalSpec`, the upgrade beside rehearsals, for any
worldviews, items, types, decisions, keys and requests, under `KeysAssumption` (keys are
not worldviews, which rehearsals use as keys) and `ItemsAssumption` (a worldview has finitely
many items).  The invariant `Inv` is `Shapes`, `RequestOK` (what a request holds and was told, by
its receipt), and `ModeOK`: the mode says everything.  A legacy project has no rows and only closed
receipts; one that is being upgraded has exactly one open receipt, whose confirmed preview is still the preview of now,
since worldview and decisions are closed; one that has switched was switched by one operation or by one
rehearsal.  That rests on `SaveGuard` and `DecisionGuard` as much as on the upgrade itself.

| Theorem | Property |
|---|---|
| `UpgradesResumable` | `StillResumable` |
| `UpgradesAsConfirmed` | `UpgradedAsConfirmed` |
| `TwinsJudged` | `TwinsWereJudged` |
| `AnswersStayTrue` | `AnswersTrue` |
| `LegacyStaysClean` | `LegacyIsClean` |
| `NoReturn` | `NoWayBack` |

`ProjectFilesProofs` proves for any saves, deletions and contents, under
`NoneIsNothing`.  The invariant adds that a deletion past its commit has left no project
(`PastCommit`) and that what was sent is a content.

| Theorem | Property |
|---|---|
| `TypeCorrect` | `TypeOK` |
| `ExportStays` | `ExportSurvives` |
| `StagedTold` | `StagedIsTold` |
| `DraftsSurvive` | `NoLostDraft` |

Theorems without a run of their own, because they say little beyond the invariants that
are checked: the type invariants, `TerminalIsFinal`, `NumbersAreDense`, `MovesAsConfirmed`,
`ArchivedStaysPut`, `LastSaveCompletes`; and `ChecksStillHold`, `NoPhantoms` and `RequestsOneByOne`,
which are why `ActiveEnds` holds.

Only model-checked: the two liveness properties, which rest on fairness and
`ENABLED`.

## Observations

What the models show of the code that its properties do not forbid, or that falls
outside the bounds of a run.  None of it contradicts a promise the
repository makes in so many words, except where a text is quoted.

* **A cancelled claim cannot be marked** (`core/generation_execution.py` 1204).  If the task is
  cancelled while `_claim_attempt` has not taken effect, or while a reservation is being marked
  because the settings changed (1169), the shielded marking writes
  `outcome_unknown` over a `reserved` row; `ck_generation_attempt_state_shape`
  requires `ai_invoked` there.  The row stays `reserved`.
* **An abandoned attempt never settles** (1177).  Nothing moves a row whose request is gone, and
  `delete_project` goes on answering that the owner should wait.
* **A sound attempt reported as corrupt** (606).  The response reads the attempt and its
  candidate in two statements; a success committed in between looks like a candidate without success.
* **An edit lost from the memory** (`api/chapters.py` 1123).  The stream reads the memory's
  lists before the provider call and writes them back whole after it; an edit of an
  earlier chapter saved in between stays in the chapter, but the memory goes back to the old summary.
* **Completed with a chapter missing** (119).  The docstring says "Mark the project complete only
  when every planned chapter is usable" (112).  The test counts all stored chapters and compares
  with the `total_chapters` its session loaded; `update_project` may have lowered the number
  since, or lower it below chapters that exist: of two chapters the second is written, the number
  is lowered to one, and saving a new title of chapter 2 marks the project completed
  although chapter 1, the only planned one, does not exist.  `CompletedAsPlanned` says what does hold.
* **A skipped chapter replaced** (1098).  The comment says "Database uniqueness constraints provide
  the final guard across multiple processes" (84).  The active set is per process, and the
  constraint refuses an INSERT only: the batch of a second process finds the row of the first and
  updates it, although it skips existing chapters.  No property is stated of two processes' texts.
* **A planned resolution before the confirmed planting** (`core/planning_write.py` 525).  The order
  check of a reorder compares plans with plans and facts with facts, so a plan that
  `_validate_resolve_target_after_planted_fact` would refuse can come about.
* **A merge that is offered and refused** (`api/lore.py` 2032).  A possible conflict that was
  judged a duplicate is offered for merging; `build_merge_preview`
  (`core/lore_merge_preview.py` 394) asks for a possible duplicate.
* **Requests that can deadlock.**  `_lock_relation_endpoints` (`api/lore.py` 1788) fixes "a stable
  global order", since "otherwise a concurrent restore can deadlock with archival and
  surface an avoidable HTTP 500".  That holds for the edits of elements and relations among
  themselves (`DeadlockNeedsProjectLock`), but not against the requests that lock the project.  A
  decision locks the suggestion before the elements, a scan and a report after them.
  A new relation and a decision insert a row that refers to the project while they hold elements
  (`models/lore.py` 638, 843), and a merge, a scan and a report want elements while they hold the project.
  A merge locks aliases after relations and out of the order of ids
  (`core/lore_merge_commit.py` 331), while a change of a relation locks its ends, merged or not.  The database aborts one of the two.
* **The file behind the row** (`api/worldview.py` 331).  Two saves can export in the other order
  than they committed, or not at all.
* **A late export** makes the directory of a deleted project anew, and makes the restore of a
  failed deletion fail (`core/project_files.py` 145).
* **Deleted although kept.**  After a failed commit the lock is gone before the files are
  restored, so a second deletion may commit first; a commit that was applied without
  acknowledgement is the same.  The owner is told that the project was kept, and files come back for a project that is gone.
* **Who can resume an upgrade.**  Only the request with the original key and body; the query
  by key answers whatever body was confirmed, so it can be found again.
* **A rehearsal after maintenance.**  Once maintenance ends a worldview save is
  accepted, and the rollback of the rehearsal is then refused.

## Not modelled

Every component is listed in `PROJECT.json` with its status and the reason.  In short:

* read-only projections (generation audit, versions of the new chapters, lists, details, overviews, cursors),
  which change nothing;
* single inserts, updates or deletes beside no other protocol: community pages, custom
  types, outline, export, creation of a project;
* demo fixtures, written once by a command, and the demo's execution, which has the shape
  of paid generation without its call;
* the stream client's retry loop, which is sequential; a stream is one step of `LegacyChapters`;
* pure text and number helpers, the JSON preflight, token encoding, a library's rate counters;
* schema migrations (their constraints appear as guards), schemas (their bounds appear where a
  guard depends on them), wiring, logging, the frontend, documents and scripts.

In the modelled parts the text of a chapter, prompts, wording of errors, paging and
logging are left out, and the checksums are assumed to tell different contents apart.
