------------------------------ MODULE LoreLocks ------------------------------
(***************************************************************************)
(* The row locks under which LoreRepository may treat each operation as    *)
(* one step (backend/app/api/lore.py, core/lore_review.py,                 *)
(* core/lore_merge_commit.py).  A transaction runs statements that lock    *)
(* rows FOR UPDATE, each in the order of their ids, waits for the rows     *)
(* others hold, checks what it read, writes, and commits with all its      *)
(* locks.  A row that refers to the project is inserted under a key share  *)
(* lock of the project, which many transactions may hold, but not while    *)
(* another holds the project FOR UPDATE.  The database aborts one          *)
(* transaction of a deadlock; here any transaction may be aborted at any   *)
(* time.                                                                   *)
(*                                                                         *)
(* Abstractions: an element is its status and what it was merged into, a   *)
(* relation its ends, status and version; the rows of types and sources,   *)
(* which of these requests only merges and scans lock, and only after the  *)
(* project, are left out; a merge's preview is fresh when it commits; the  *)
(* suggestions and their pairs are given, and a scan updates all of them;  *)
(* every element stays confirmed; creating a relation takes an id whose    *)
(* row was never made.                                                     *)
(***************************************************************************)
EXTENDS LoreIds, Sequences

CONSTANTS
    Transactions,
    Pair,      \* of each suggestion, the two elements
    MaxChange  \* bound of TLC: version of a relation

VARIABLES
    status,  \* of each element
    into,    \* merged_into_element_id of each element
    link,    \* rows of element_relations
    tx       \* what each transaction runs, has read, holds and wants

tables == <<status, into, link>>
lockVars == <<status, into, link, tx>>

Ops == {"archive", "restore", "create", "edit", "relation_archive", "relation_restore",
        "merge", "decide", "scan", "report"}
SuggestionIds == DOMAIN Pair
Project == {<<"project", 0>>}
Share == {<<"share", 0>>} \* the key share lock of the project
Rows == Project \cup Share \cup ({"suggestion"} \X SuggestionIds)
        \cup ({"element"} \X Elements) \cup ({"relation"} \X RelationIds)
LinkRows == [ends : SUBSET Elements, status : {"active", "archived"}, ver : Nat]

ASSUME LocksAssumption ==
    /\ SuggestionIds \subseteq Nat /\ IsFiniteSet(SuggestionIds)
    /\ \A s \in SuggestionIds : Pair[s] \subseteq Elements
    /\ None \notin Ops \cup LinkRows

Idle == [op |-> None, on |-> {}, gone |-> None, rel |-> None, read |-> None,
         step |-> 0, checked |-> FALSE, wants |-> {}, holds |-> {}]
TransactionRows ==
    [op : Ops \cup {None}, on : SUBSET Elements, gone : Elements \cup {None},
     rel : RelationIds \cup {None}, read : LinkRows \cup {None}, step : Nat, checked : BOOLEAN,
     wants : SUBSET Rows, holds : SUBSET Rows]
Linked == {r \in RelationIds : link[r] # None}
EndsOf(r) == link[r].ends

LockInit ==
    /\ status = [e \in Elements |-> "active"]
    /\ into = [e \in Elements |-> None]
    /\ link = [r \in RelationIds |-> None]
    /\ tx = [t \in Transactions |-> Idle]

-----------------------------------------------------------------------------
\* A request begins: the elements it is about, the one a merge takes away, and for a
\* relation the row as the client's version and _load_relational_relation have it,
\* which is not locked yet.
Begin(t, op, on, b, r) ==
    /\ \/ op \in {"archive", "restore"} /\ (\E e \in Elements : on = {e}) /\ r = None
       \/ op = "create" /\ Cardinality(on) = 2 /\ r \in RelationIds
       \/ op \in {"edit", "relation_archive", "relation_restore"} /\ r \in Linked /\ on = EndsOf(r)
       \/ op \in {"merge", "decide", "report"} /\ (\E s \in SuggestionIds : on = Pair[s]) /\ r = None
       \/ op = "scan" /\ on = {} /\ r = None
    /\ IF op = "merge" THEN b \in on ELSE b = None
    /\ tx' = [tx EXCEPT ![t] = [Idle EXCEPT !.op = op, !.on = on, !.gone = b, !.rel = r,
            !.read = IF r = None THEN None ELSE link[r]]]
    /\ UNCHANGED tables

ElementLocks(on) == {<<"element", e>> : e \in on}
RelationLocks(on) == {<<"relation", r>> : r \in {x \in Linked : EndsOf(x) \cap on # {}}}
SameEnds(on) == {<<"relation", r>> : r \in {x \in Linked : EndsOf(x) = on}}
SuggestionLocks(on) == {<<"suggestion", s>> : s \in {x \in SuggestionIds : Pair[x] = on}}

Present == {e \in Elements : status[e] # "merged"}
Aliases(b) == {e \in Elements : into[e] = b}

\* Mutant: a relation is created without a lock on its ends.
EndsUnlocked(x) == <<{}, SameEnds(x.on), Share>>

\* create_lore_relation locks both ends, create_relation a relation of the same ends.
EndsOfNew(x) == <<ElementLocks(x.on), SameEnds(x.on), Share>>

\* Mutant: a relation is locked before its ends.
RelationFirst(x) == <<{<<"relation", x.rel>>}, ElementLocks(x.on)>>

\* _lock_relation_endpoints, then the relation.
EndsFirst(x) == <<ElementLocks(x.on), {<<"relation", x.rel>>}>>

\* The rows each statement of a transaction locks, as the tables are when it runs.
Statements(x) ==
    CASE x.op = "archive" -> <<ElementLocks(x.on), RelationLocks(x.on)>>
      [] x.op = "restore" -> <<ElementLocks(x.on)>>
      [] x.op = "create" -> EndsOfNew(x)
      [] x.op = "edit" -> <<{<<"relation", x.rel>>}>>
      [] x.op \in {"relation_archive", "relation_restore"} -> EndsFirst(x)
      [] x.op = "merge" -> <<Project, SuggestionLocks(x.on), ElementLocks(x.on),
                             RelationLocks(x.on), ElementLocks(Aliases(x.gone))>>
      [] x.op = "decide" -> <<SuggestionLocks(x.on), ElementLocks(x.on), Share>>
      [] x.op = "scan" -> <<Project, ElementLocks(Present), {"suggestion"} \X SuggestionIds>>
      [] x.op = "report" -> <<Project, ElementLocks(x.on), SuggestionLocks(x.on)>>

Finished(x) == x.step = Len(Statements(x)) /\ x.wants = {}

\* The refusals between two statements: _load_relational_element and
\* create_manual_lore_review refuse what is merged, create_relation ends that are not
\* active and a relation that exists.
Proceeds(x) ==
    /\ x.op = "archive" /\ x.step = 1 => \A e \in x.on : status[e] # "merged"
    /\ x.op = "create" /\ x.step = 1 => \A e \in x.on : status[e] = "active"
    /\ x.op = "create" /\ x.step = 2 => SameEnds(x.on) = {}
    /\ x.op = "report" /\ x.step = 2 => \A e \in x.on : status[e] # "merged"

\* The next statement finds its rows.
Execute(t) ==
    LET x == tx[t]
    IN /\ x # Idle /\ x.wants = {}
       /\ x.step < Len(Statements(x)) /\ Proceeds(x)
       /\ tx' = [tx EXCEPT ![t].step = @ + 1,
                           ![t].wants = Statements(x)[x.step + 1] \ x.holds]
       /\ UNCHANGED tables

\* Rows of one statement are locked in the order of their ids.
NextRow(t) == CHOOSE w \in tx[t].wants : \A v \in tx[t].wants : w[2] <= v[2]

\* The locks that a lock of row w waits for, and the transactions that hold them.
Against(w) ==
    IF w \in Project THEN Project \cup Share
    ELSE IF w \in Share THEN Project
    ELSE {w}
Blockers(t) == {u \in Transactions \ {t} : tx[u].holds \cap Against(NextRow(t)) # {}}

Lock(t) ==
    /\ tx[t].wants # {}
    /\ Blockers(t) = {}
    /\ tx' = [tx EXCEPT ![t].wants = @ \ {NextRow(t)}, ![t].holds = @ \cup {NextRow(t)}]
    /\ UNCHANGED tables

-----------------------------------------------------------------------------
(* What a transaction checks and writes once it has its locks *)

\* _claim_lock_version compares the version in the UPDATE itself, whatever the
\* row was when it was first read.
Claimable(x) == link[x.rel].ver = x.read.ver /\ x.read.ver < MaxChange

\* The fate of the relations of b in a merge of b into a.
Moved(r, a, b) == {IF e = b THEN a ELSE e : e \in EndsOf(r)}
There(r, a, b) == {q \in Linked : b \notin EndsOf(q) /\ EndsOf(q) = Moved(r, a, b)}

CanMerge(a, b) ==
    /\ a # b /\ status[a] = "active" /\ status[b] = "active" /\ Aliases(b) = {}
    /\ \A r \in Linked : b \in EndsOf(r) =>
           /\ link[r].ver < MaxChange
           /\ \A q \in There(r, a, b) : link[q].status = link[r].status

\* The checks of a request, on rows it holds and on rows it does not.
Passes(x) ==
    CASE x.op = "archive" ->
            \A e \in x.on : /\ status[e] # "merged"
                            /\ \A r \in Linked : e \in EndsOf(r) => link[r].status # "active"
      [] x.op = "restore" -> \A e \in x.on : status[e] # "merged"
      [] x.op = "create" -> /\ \A e \in x.on : status[e] = "active"
                            /\ SameEnds(x.on) = {}
      [] x.op = "edit" -> x.read.status = "active" /\ Claimable(x)
      [] x.op = "relation_archive" -> x.read.status = "active" /\ Claimable(x)
      [] x.op = "relation_restore" -> /\ x.read.status = "archived" /\ Claimable(x)
                                      /\ \A e \in x.on : status[e] = "active"
      [] x.op = "merge" -> \E a \in x.on : CanMerge(a, x.gone)
      [] OTHER -> TRUE

Check(t) ==
    /\ tx[t] # Idle /\ Finished(tx[t]) /\ ~tx[t].checked
    /\ Passes(tx[t])
    /\ tx' = [tx EXCEPT ![t].checked = TRUE]
    /\ UNCHANGED tables

WriteElements(x) ==
    /\ x.op \in {"archive", "restore"}
    /\ status' = [e \in Elements |->
            IF e \notin x.on THEN status[e]
            ELSE IF x.op = "archive" THEN "archived" ELSE "active"]
    /\ UNCHANGED <<into, link>>

\* The unique key of element_relations refuses a second row for the same ends.
InsertRelation(x) ==
    /\ x.op = "create"
    /\ link[x.rel] = None /\ SameEnds(x.on) = {}
    /\ link' = [link EXCEPT ![x.rel] = [ends |-> x.on, status |-> "active", ver |-> 1]]
    /\ UNCHANGED <<status, into>>

WriteRelation(x) ==
    /\ x.op \in {"edit", "relation_archive", "relation_restore"}
    /\ link' = [link EXCEPT ![x.rel].ver = @ + 1,
            ![x.rel].status = CASE x.op = "relation_archive" -> "archived"
                                [] x.op = "relation_restore" -> "active"
                                [] OTHER -> @]
    /\ UNCHANGED <<status, into>>

\* A relation that says something new moves to a, the rest is archived.
WriteMerge(x) ==
    /\ x.op = "merge"
    /\ \E a \in x.on : LET b == x.gone IN
        /\ CanMerge(a, b)
        /\ status' = [status EXCEPT ![b] = "merged"]
        /\ into' = [into EXCEPT ![b] = a]
        /\ link' = [r \in RelationIds |->
                IF r \notin Linked \/ b \notin EndsOf(r) THEN link[r]
                ELSE IF Cardinality(Moved(r, a, b)) = 2 /\ There(r, a, b) = {}
                THEN [link[r] EXCEPT !.ends = Moved(r, a, b), !.ver = @ + 1]
                ELSE [link[r] EXCEPT !.status = "archived", !.ver = @ + 1]]

\* Decisions, scans and reports write the suggestion only.
WriteSuggestion(x) ==
    /\ x.op \in {"decide", "scan", "report"}
    /\ UNCHANGED tables

Commit(t) ==
    LET x == tx[t]
    IN /\ x.checked
       /\ WriteElements(x) \/ InsertRelation(x) \/ WriteRelation(x) \/ WriteMerge(x) \/ WriteSuggestion(x)
       /\ tx' = [tx EXCEPT ![t] = Idle]

\* A refusal, an error, a lost client, or the victim of a deadlock.
Rollback(t) ==
    /\ tx[t] # Idle
    /\ tx' = [tx EXCEPT ![t] = Idle]
    /\ UNCHANGED tables

LockNext ==
    \E t \in Transactions :
        \/ /\ tx[t] = Idle
           /\ \E op \in Ops, on \in SUBSET Elements, b \in Elements \cup {None},
                r \in RelationIds \cup {None} : Begin(t, op, on, b, r)
        \/ Execute(t) \/ Lock(t) \/ Check(t) \/ Commit(t) \/ Rollback(t)

LockSpec == LockInit /\ [][LockNext]_lockVars

-----------------------------------------------------------------------------
(* Properties *)

\* Rows and transactions have the shapes the schema and the handlers give them.
LockTypeOK ==
    /\ status \in [Elements -> {"active", "archived", "merged"}]
    /\ into \in [Elements -> Elements \cup {None}]
    /\ link \in [RelationIds -> LinkRows \cup {None}]
    /\ tx \in [Transactions -> TransactionRows]

\* Transactions that wait for each other, each for one of them.
Deadlocked(group) == group # {} /\ \A t \in group : tx[t].wants # {} /\ Blockers(t) \cap group # {}

\* An active relation joins active elements in every interleaving of the
\* requests, although each of them checks the rows of others.
ActiveEnds ==
    \A r \in Linked : link[r].status = "active" => \A e \in EndsOf(r) : status[e] = "active"

\* The edits of elements and relations never block each other for good, as
\* _lock_relation_endpoints means to ensure.  A deadlock needs a request that locks the
\* project, a merge, a scan or a report, and one that the project locks against: a new
\* relation, a decision, or a change of a relation whose end is an alias by now.
DeadlockNeedsProjectLock ==
    \A group \in SUBSET Transactions : Deadlocked(group) =>
        /\ \E t \in group : tx[t].op \in {"merge", "scan", "report"}
        /\ \E u \in group :
              \/ tx[u].op \in {"create", "decide"}
              \/ /\ tx[u].op \in {"relation_archive", "relation_restore"}
                 /\ \E e \in tx[u].on : status[e] = "merged"

=============================================================================
