----------------------------- MODULE LoreMigration -----------------------------
(***************************************************************************)
(* The upgrade of one project from the legacy worldview to the relational  *)
(* lore (backend/app/core/lore_migration_commit.py,                        *)
(* lore_migration_resolution.py, lore_migration_preview.py,                *)
(* lore_migration.py, api/lore.py, api/worldview.py).  The author saves    *)
(* the worldview, sees in a preview which of its items cannot be mapped    *)
(* yet, decides these issues, and confirms one ready preview with an       *)
(* operation key.  In maintenance the upgrade runs in two transactions:    *)
(* the first writes the relational rows and a receipt, the second switches *)
(* the project after a fresh check; a failure between them removes the     *)
(* rows again.  Requests race, die and are repeated.                       *)
(*                                                                         *)
(* Every transaction locks the project row first and is one action; the    *)
(* check between the two reads without locks and is two.  A write that is  *)
(* refused is no step.                                                     *)
(*                                                                         *)
(* Abstractions: one author; an item is its name, the type its category    *)
(* maps to and its fields; a checksum is what it is made of; the rows of   *)
(* an upgrade (types, elements, sources, versions, maps, events) are its   *)
(* plan; the issues about sources, which are decided like types, and those *)
(* no decision resolves are left out, but for the empty worldview.         *)
(***************************************************************************)
EXTENDS Naturals, Sequences, FiniteSetsExt, Functions, TLC

CONSTANTS
    Requests,     \* upgrade requests in flight
    Keys,         \* operation keys
    Worldviews,   \* contents of the worldview an author saves
    Items,        \* the items of each: a sequence of [name, type, fields]
    Types,        \* types an author may give to an item
    FieldsOf,     \* the fields each type has a place for
    MaxChanges,   \* bound of TLC: lock_versions of all decisions together
    MaxFailures,  \* bound of TLC: operations that failed
    None          \* nothing; the type of an item whose category has none

ASSUME KeysAssumption == Keys \cap Worldviews = {} /\ None \notin Keys \union Worldviews
ASSUME ItemsAssumption == \A w \in Worldviews : IsFiniteSet(DOMAIN Items[w])

VARIABLES
    mode,       \* projects.lore_storage_mode
    source,     \* the worldview
    decisions,  \* legacy_lore_resolutions, by issue <<worldview, position, reason>>
    lore,       \* the relational rows and whether the author edited them since
    operation,  \* project_lore_migration_operations, by key
    migration,  \* project_lore_migrations: the keys they were made by
    frozen,     \* LEGACY_JSON_WRITES_FROZEN
    request     \* upgrade requests: what was confirmed, and the answer

vars == <<mode, source, decisions, lore, operation, migration, frozen, request>>

Reasons == {"type_confirmation_required", "unmapped_fields",
            "duplicate_name_same_type", "duplicate_name_cross_type"}
Positions == UNION {DOMAIN Items[w] : w \in Worldviews}

-----------------------------------------------------------------------------
(* The preview (build_migration_preview) *)

Active(w, d, i, r) == <<w, i, r>> \in DOMAIN d /\ d[<<w, i, r>>].status = "active"

\* The type an item gets: its category's, or the one the author confirmed.
TypeOf(w, d, i) ==
    IF Items[w][i].type = None /\ Active(w, d, i, "type_confirmation_required")
    THEN d[<<w, i, "type_confirmation_required">>].choice ELSE Items[w][i].type

\* The fields the type of an item has no place for.
Unmapped(w, d, i) ==
    Items[w][i].fields \ UNION {FieldsOf[t] : t \in {TypeOf(w, d, i)} \ {None}}

\* The items of one name with the types they get: the group fingerprint.
Group(w, d, i) == {<<j, TypeOf(w, d, j)>> : j \in {x \in DOMAIN Items[w] : Items[w][x].name = Items[w][i].name}}

DuplicateReason(w, d, i) ==
    IF \A x, y \in Group(w, d, i) : x[2] = y[2]
    THEN "duplicate_name_same_type" ELSE "duplicate_name_cross_type"

ReasonsOf(w, d, i) ==
    {r \in Reasons :
        \/ r = "type_confirmation_required" /\ Items[w][i].type = None
        \/ r = "unmapped_fields" /\ Unmapped(w, d, i) # {}
        \/ r = DuplicateReason(w, d, i) /\ Cardinality(Group(w, d, i)) > 1}

\* What an author may decide about an issue.
Options(w, d, i, r) ==
    CASE r = "type_confirmation_required" -> Types
      [] r = "unmapped_fields" -> {Unmapped(w, d, i)}
      [] OTHER -> {Group(w, d, i)}

\* Mutant: items judged distinct stay so whatever types they get.
StillFitsAnyTypes(w, d, i, r) ==
    \/ d[<<w, i, r>>].choice \in Options(w, d, i, r)
    \/ r \in {"duplicate_name_same_type", "duplicate_name_cross_type"}

\* A decision counts in the context it was made in.
StillFits(w, d, i, r) == d[<<w, i, r>>].choice \in Options(w, d, i, r)

Unresolved(w, d, i) ==
    {r \in ReasonsOf(w, d, i) : ~(Active(w, d, i, r) /\ StillFits(w, d, i, r))}

Ready(w, d) == Items[w] # <<>> /\ \A i \in DOMAIN Items[w] : Unresolved(w, d, i) = {}

\* What the preview says, and so its checksum: every decision about a
\* position the worldview has is in it, counted or not.
Semantic(w, d) ==
    [source |-> w, states |-> Restrict(d, {q \in DOMAIN d : q[2] \in DOMAIN Items[w]})]

\* What an upgrade makes of each item.
PlanOf(w, d) == [i \in DOMAIN Items[w] |->
    [name |-> Items[w][i].name, type |-> TypeOf(w, d, i), fields |-> Items[w][i].fields \ Unmapped(w, d, i)]]

\* The rows it writes, under ids made of the key.
Rows(key, w, d) == [key |-> key, plan |-> PlanOf(w, d), edited |-> FALSE]

NoRows == [key |-> None, plan |-> <<>>, edited |-> FALSE]

NoRelationalState == lore = NoRows /\ migration = {}

-----------------------------------------------------------------------------
(* The author and the operator before and after the upgrade *)

Unused == {k \in Keys : operation[k].status = "none"}

\* Mutant: the worldview stays open until the project has switched.
SaveGuardOnlyReady == \A k \in Keys \ Unused : operation[k].status # "ready"

SaveGuard ==
    mode # "migrating" /\ \A k \in Keys \ Unused : operation[k].status \notin {"validating", "ready"}

SaveWorldview(w) ==
    /\ ~frozen /\ SaveGuard
    /\ source' = w
    /\ UNCHANGED <<mode, decisions, lore, operation, migration, frozen, request>>

Changes == MapThenSumSet(LAMBDA q : decisions[q].version, DOMAIN decisions)

DecisionGuard == mode = "legacy" /\ ~frozen

Version(q) == IF q \in DOMAIN decisions THEN decisions[q].version ELSE 0

Row(q, c) == q :> [choice |-> c, status |-> "active", version |-> Version(q) + 1]

\* The preview of now still shows the issue, and shows it open.
Open(i, r) == i \in DOMAIN Items[source] /\ r \in Unresolved(source, decisions, i)

\* A new decision, or one in the place of a revoked or an expired one.
Decide(i, r) ==
    /\ DecisionGuard /\ Open(i, r)
    /\ Changes < MaxChanges
    /\ \E c \in Options(source, decisions, i, r) :
          decisions' = Row(<<source, i, r>>, c) @@ decisions
    /\ UNCHANGED <<mode, source, lore, operation, migration, frozen, request>>

Revoke(i, r) ==
    /\ DecisionGuard
    /\ i \in DOMAIN Items[source] /\ Active(source, decisions, i, r)
    /\ Changes < MaxChanges
    /\ decisions' = [decisions EXCEPT ![<<source, i, r>>].status = "revoked",
                                      ![<<source, i, r>>].version = @ + 1]
    /\ UNCHANGED <<mode, source, lore, operation, migration, frozen, request>>

Resolve(i, r) == Decide(i, r) \/ Revoke(i, r)

\* The service restarts into maintenance, or out of it.
ToggleFreeze ==
    /\ frozen' = ~frozen
    /\ UNCHANGED <<mode, source, decisions, lore, operation, migration, request>>

\* Any change of the relational lore (LoreRepository).
EditLore ==
    /\ mode = "relational" /\ ~lore.edited
    /\ lore' = [lore EXCEPT !.edited = TRUE]
    /\ UNCHANGED <<mode, source, decisions, operation, migration, frozen, request>>

-----------------------------------------------------------------------------
(* The upgrade (commit_lore_migration) *)

Preview == Semantic(source, decisions)

\* Mutant: that the preview of now is ready is enough.
ConfirmedReady(body, w) == Ready(w, decisions)

\* The preview of now is ready and is the one the author confirmed.
Confirmed(body, w) == Ready(w, decisions) /\ body = Semantic(w, decisions)

\* What the tables hold for the project.
Snapshot == lore

\* The rows are those the operation wrote, field by field.
Intact(k, w) == Snapshot # NoRows /\ Snapshot = Rows(k, w, decisions)

Key(t) == request[t].key
Body(t) == request[t].body
Receipt(t) == operation[Key(t)]

GoTo(t, pc) == request' = [request EXCEPT ![t].pc = pc]
Answer(t, a) == request' = [request EXCEPT ![t].pc = "done", ![t].answer = a]

\* The author confirms the ready preview he sees, or repeats a request.
Begin(t, k) ==
    /\ request[t].pc \in {"idle", "done"}
    /\ \E body \in {Preview} \union {operation[x].body : x \in {k} \ Unused} :
          /\ body = Preview /\ k \in Unused => mode = "legacy" /\ Ready(source, decisions)
          /\ request' = [request EXCEPT ![t] =
                 [pc |-> "prepare", key |-> k, body |-> body, answer |-> "none"]]
    /\ UNCHANGED <<mode, source, decisions, lore, operation, migration, frozen>>

\* Mutant: a key is enough to resume an operation.
SameKey(receipt, body) == TRUE

SameRequest(receipt, body) == receipt.body = body

Resume(t) ==
    /\ request[t].pc = "prepare" /\ Receipt(t).status # "none"
    /\ \/ ~SameRequest(Receipt(t), Body(t)) /\ Answer(t, "conflict")
       \/ /\ SameRequest(Receipt(t), Body(t))
          /\ \/ Receipt(t).status \in {"ready", "failed"} /\ Answer(t, Receipt(t).status)
             \/ Receipt(t).status = "validating" /\ GoTo(t, "verify")
    /\ UNCHANGED <<mode, source, decisions, lore, operation, migration, frozen>>

CanPrepare(t) ==
    /\ frozen /\ mode = "legacy" /\ NoRelationalState
    /\ \A k \in Keys \ Unused : operation[k].status # "validating"
    /\ Confirmed(Body(t), source)

\* The first transaction: the rows and the receipt.
Prepare(t) ==
    /\ request[t].pc = "prepare" /\ Receipt(t).status = "none"
    /\ \/ /\ CanPrepare(t)
          /\ operation' = [operation EXCEPT ![Key(t)] = [status |-> "validating", body |-> Body(t)]]
          /\ lore' = Rows(Key(t), source, decisions)
          /\ mode' = "migrating"
          /\ GoTo(t, "verify")
       \/ ~CanPrepare(t) /\ Answer(t, "refused") /\ UNCHANGED <<operation, lore, mode>>
    /\ UNCHANGED <<source, decisions, migration, frozen>>

\* The check reads the project, the worldview and the receipt ...
Verify(t) ==
    /\ request[t].pc = "verify"
    /\ \/ ~frozen /\ Answer(t, "unknown")
       \/ frozen /\ Receipt(t).status # "validating" /\ Answer(t, Receipt(t).status)
       \/ /\ frozen /\ Receipt(t).status = "validating"
          /\ \/ mode = "migrating" /\ source = Body(t).source /\ GoTo(t, "compare")
             \/ ~(mode = "migrating" /\ source = Body(t).source) /\ Answer(t, "unknown")
    /\ UNCHANGED <<mode, source, decisions, lore, operation, migration, frozen>>

\* ... and then the decisions and the rows, which may be later ones.
Compare(t) ==
    /\ request[t].pc = "compare"
    /\ \/ ~Confirmed(Body(t), Body(t).source) /\ GoTo(t, "compensate")
       \/ Confirmed(Body(t), Body(t).source) /\ ~Intact(Key(t), source) /\ Answer(t, "unknown")
       \/ Confirmed(Body(t), Body(t).source) /\ Intact(Key(t), source) /\ GoTo(t, "finalize")
    /\ UNCHANGED <<mode, source, decisions, lore, operation, migration, frozen>>

\* A fault after the check, or in the second transaction before its commit.
Fault(t) ==
    /\ request[t].pc = "finalize"
    /\ Cardinality({k \in Keys \ Unused : operation[k].status = "failed"}) < MaxFailures
    /\ GoTo(t, "compensate")
    /\ UNCHANGED <<mode, source, decisions, lore, operation, migration, frozen>>

\* Mutant: under the lock only the content is checked again.
RecheckContent(t) == Confirmed(Body(t), source) /\ Intact(Key(t), source)

\* What both closing transactions check again under the project's lock.
Recheck(t) ==
    /\ Receipt(t).status = "validating" /\ mode = "migrating" /\ source = Body(t).source
    /\ Confirmed(Body(t), source) /\ Intact(Key(t), source)

\* The second transaction: the switch.
Finalize(t) ==
    /\ request[t].pc = "finalize"
    /\ \/ /\ frozen /\ Recheck(t)
          /\ operation' = [operation EXCEPT ![Key(t)].status = "ready"]
          /\ migration' = migration \union {Key(t)}
          /\ mode' = "relational"
          /\ Answer(t, "ready")
       \/ /\ Receipt(t).status # "validating" /\ Answer(t, Receipt(t).status)
          /\ UNCHANGED <<operation, migration, mode>>
       \/ /\ Receipt(t).status = "validating" /\ ~(frozen /\ Recheck(t))
          /\ Answer(t, "unknown")
          /\ UNCHANGED <<operation, migration, mode>>
    /\ UNCHANGED <<source, decisions, lore, frozen>>

\* Rows the author has not seen yet are removed; the receipt says so.
Compensate(t) ==
    /\ request[t].pc = "compensate"
    /\ \/ /\ Recheck(t)
          /\ operation' = [operation EXCEPT ![Key(t)].status = "failed"]
          /\ lore' = NoRows
          /\ mode' = "legacy"
          /\ Answer(t, "failed")
       \/ ~Recheck(t) /\ Answer(t, "unknown") /\ UNCHANGED <<operation, lore, mode>>
    /\ UNCHANGED <<source, decisions, migration, frozen>>

\* A crash, or an answer (a commit's, too) that is lost.
Lose(t) ==
    /\ request[t].pc \notin {"idle", "done"}
    /\ Answer(t, "unknown")
    /\ UNCHANGED <<mode, source, decisions, lore, operation, migration, frozen>>

-----------------------------------------------------------------------------
Init ==
    /\ mode = "legacy" /\ source \in Worldviews /\ decisions = <<>>
    /\ lore = NoRows /\ migration = {} /\ frozen = FALSE
    /\ operation = [k \in Keys |-> [status |-> "none", body |-> None]]
    /\ request = [t \in Requests |-> [pc |-> "idle", key |-> None, body |-> None, answer |-> "none"]]

Next ==
    \/ \E w \in Worldviews \ {source} : SaveWorldview(w)
    \/ \E i \in Positions, r \in Reasons : Resolve(i, r)
    \/ ToggleFreeze
    \/ EditLore
    \/ \E t \in Requests :
          \/ \E k \in Keys : Begin(t, k)
          \/ Resume(t) \/ Prepare(t) \/ Verify(t) \/ Compare(t) \/ Fault(t)
          \/ Finalize(t) \/ Compensate(t) \/ Lose(t)

Spec == Init /\ [][Next]_vars

-----------------------------------------------------------------------------
(* Properties *)

\* A project that is being upgraded is never stuck: while the receipt says
\* "validating" the worldview, the decisions and the rows are those the author
\* confirmed, so that the request repeated in maintenance can finish, whatever
\* was saved or decided meanwhile (api/worldview.py:280).
StillResumable ==
    \A k \in Keys \ Unused : operation[k].status = "validating" =>
        mode = "migrating" /\ Confirmed(operation[k].body, source) /\ Intact(k, source)

\* The rows of an upgrade are the plan of the very preview the author confirmed,
\* not of what was saved or decided since, and one operation makes them: it alone
\* can have switched the project.
UpgradedAsConfirmed ==
    lore # NoRows /\ lore.key \in Keys =>
        LET receipt == operation[lore.key]
        IN /\ lore.plan = PlanOf(receipt.body.source, receipt.body.states)
           /\ {k \in Keys \ Unused : operation[k].status # "failed"} = {lore.key}
           /\ mode = "relational" => receipt.status = "ready" /\ migration = {lore.key}

\* Two elements of one name come out of an upgrade only where the author judged
\* each of them distinct among just these items with just the types they got.
TwinsWereJudged ==
    lore # NoRows => \A i, j \in DOMAIN lore.plan :
        i # j /\ lore.plan[i].name = lore.plan[j].name =>
            \E r \in {"duplicate_name_same_type", "duplicate_name_cross_type"} :
                /\ Active(source, decisions, i, r)
                /\ decisions[<<source, i, r>>].choice =
                       {<<x, lore.plan[x].type>> :
                            x \in {y \in DOMAIN lore.plan : lore.plan[y].name = lore.plan[i].name}}

\* A project that an operation switched, or whose new lore the author edited,
\* stays switched and keeps its rows, and a receipt that says how an upgrade
\* ended never changes: a repeated request that fails late does not undo what
\* another finished, nor does a rehearsal taken back.
NoWayBack ==
    [][/\ mode = "relational" /\ (lore.key \in Keys \/ lore.edited) =>
             mode' = "relational" /\ lore' # NoRows
       /\ \A k \in Keys \ Unused : operation[k].status # "validating" => operation'[k] = operation[k]]_vars

\* What a request is told of the end of the upgrade is so, of the preview that
\* request confirmed: "ready" of a project that has switched to it, "failed" of
\* one that this operation never switches.
AnswersTrue ==
    \A t \in Requests : request[t].answer \in {"ready", "failed"} =>
        /\ operation[request[t].key] = [status |-> request[t].answer, body |-> request[t].body]
        /\ request[t].answer = "ready" => mode = "relational" /\ migration = {request[t].key}
=============================================================================
