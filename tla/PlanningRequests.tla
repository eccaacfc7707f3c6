---------------------------- MODULE PlanningRequests ----------------------------
(***************************************************************************)
(* How requests reach the plan that StoryPlanning describes: the operation *)
(* keys, expected versions and receipts of execute_operation               *)
(* (core/planning_write.py), execute_assignment_operation                  *)
(* (core/planning_assignment.py) and execute_operation                     *)
(* (core/foreshadow_lifecycle.py).                                         *)
(*                                                                         *)
(* A draft is one change an author prepared on a page, with the versions   *)
(* the page showed and an operation key; a delivery is one HTTP request    *)
(* that carries a draft.  A draft may be delivered any number of times, at *)
(* once, late, or after its answer was lost, and two drafts may carry one  *)
(* key.  A request looks for its receipt, waits for the row of the plan,   *)
(* looks again, compares versions, writes and commits; from the lock to    *)
(* the commit nothing else moves the plan, so that is one step (Execute).  *)
(*                                                                         *)
(* Abstractions: what a change does to the structure is StoryPlanning's; a *)
(* draft stands for its fingerprint; one thread per lifecycle; the         *)
(* maintenance switch is off.                                              *)
(***************************************************************************)
EXTENDS Naturals

CONSTANTS
    Drafts,      \* changes prepared by authors
    Deliveries,  \* requests under way at once
    Keys,        \* operation keys
    Foreshadows, \* foreshadows
    Nothing      \* no draft, no receipt

VARIABLES
    structure,   \* novel_plans.structure_version
    assignment,  \* novel_plans.assignment_version
    lifecycle,   \* foreshadow_lifecycles.lock_version, 0 while there is none
    receipt,     \* the draft of each row of the two operation tables
    draft,       \* what was prepared
    delivery,    \* the draft a request waits for the plan with
    applied,     \* history: how often a draft was committed
    told         \* history: the answers about a draft

plan == <<structure, assignment, lifecycle, receipt>>
requestVars == <<plan, draft, delivery, applied, told>>

\* What a draft changes.  "retract" stands for the two operations that compare
\* the lifecycle's version only: archive_foreshadow and retract_fact.
Kinds == {"structure", "assignment", "bind", "plan", "retract"}
ThreadKinds == {"bind", "plan", "retract"}
\* planning_mutation_operations and foreshadow_operations are unique by key.
Tables == {"planning", "foreshadow"}
Table(x) == IF draft[x].kind \in ThreadKinds THEN "foreshadow" ELSE "planning"
DraftRows == [key : Keys, kind : Kinds, thread : Foreshadows,
              structure : Nat, assignment : Nat, life : Nat]
Answers == {"done", "conflict", "reused"}

ASSUME NothingAssumption == Nothing \notin Drafts \cup DraftRows

RequestInit ==
    /\ structure = 1
    /\ assignment = 1
    /\ lifecycle = [t \in Foreshadows |-> 0]
    /\ receipt = [r \in Tables \X Keys |-> Nothing]
    /\ draft = [x \in Drafts |-> Nothing]
    /\ delivery = [d \in Deliveries |-> Nothing]
    /\ applied = [x \in Drafts |-> 0]
    /\ told = [x \in Drafts |-> {}]

Prepare(x, k, kind, t) ==
    /\ draft[x] = Nothing
    /\ draft' = [draft EXCEPT ![x] = [key |-> k, kind |-> kind, thread |-> t,
            structure |-> structure, assignment |-> assignment, life |-> lifecycle[t]]]
    /\ UNCHANGED <<plan, delivery, applied, told>>

-----------------------------------------------------------------------------
Found(x) == receipt[<<Table(x), draft[x].key>>]

\* Mutant: a receipt under the key answers for every request.
ReplayAnyBody(x) == "done"

\* replay_operation: the receipt must be of the same request.
Replayed(x) == IF Found(x) = x THEN "done" ELSE "reused"

\* The answer reaches the client, or is lost on the way.
Answer(x, a) == told' \in {told, [told EXCEPT ![x] = @ \cup {a}]}

\* The first find_operation, before any lock.
Deliver(d, x) ==
    /\ delivery[d] = Nothing
    /\ draft[x] # Nothing
    /\ \/ /\ Found(x) = Nothing
          /\ delivery' = [delivery EXCEPT ![d] = x]
          /\ told' = told
       \/ /\ Found(x) # Nothing
          /\ Answer(x, Replayed(x))
          /\ delivery' = delivery
    /\ UNCHANGED <<plan, draft, applied>>

\* The versions each kind of change compares.
Current(x) ==
    LET b == draft[x]
    IN /\ b.kind \in {"structure", "bind", "plan"} => b.structure = structure
       /\ b.kind = "assignment" => b.assignment = assignment
       /\ b.kind = "bind" => lifecycle[b.thread] = 0
       /\ b.kind \in {"plan", "retract"} => lifecycle[b.thread] # 0 /\ b.life = lifecycle[b.thread]

\* The version that each of the three executors moves.
Restructure(x) ==
    /\ draft[x].kind = "structure"
    /\ structure' = structure + 1
    /\ UNCHANGED <<assignment, lifecycle>>

Reassign(x) ==
    /\ draft[x].kind = "assignment"
    /\ assignment' = assignment + 1
    /\ UNCHANGED <<structure, lifecycle>>

Develop(x) ==
    /\ draft[x].kind \in ThreadKinds
    /\ lifecycle' = [lifecycle EXCEPT ![draft[x].thread] = @ + 1]
    /\ UNCHANGED <<structure, assignment>>

\* One transaction: the change, its version and its receipt.
Commit(x) ==
    /\ Restructure(x) \/ Reassign(x) \/ Develop(x)
    /\ receipt' = [receipt EXCEPT ![<<Table(x), draft[x].key>>] = x]
    /\ applied' = [applied EXCEPT ![x] = @ + 1]

\* Mutant: the receipt is not looked for again once the plan is locked.
ExecuteUnchecked(d) ==
    LET x == delivery[d]
    IN /\ x # Nothing
       /\ \/ /\ ~Current(x)
             /\ Answer(x, "conflict")
             /\ UNCHANGED <<plan, applied>>
          \/ /\ Current(x)
             /\ Commit(x)
             /\ Answer(x, "done")
       /\ delivery' = [delivery EXCEPT ![d] = Nothing]
       /\ UNCHANGED draft

\* Under the lock of the plan: the second find_operation, the versions, the
\* change, its receipt and the commit.
Execute(d) ==
    LET x == delivery[d]
    IN /\ x # Nothing
       /\ \/ /\ Found(x) # Nothing
             /\ Answer(x, Replayed(x))
             /\ UNCHANGED <<plan, applied>>
          \/ /\ Found(x) = Nothing
             /\ ~Current(x)
             /\ Answer(x, "conflict")
             /\ UNCHANGED <<plan, applied>>
          \/ /\ Found(x) = Nothing
             /\ Current(x)
             /\ Commit(x)
             /\ Answer(x, "done")
       /\ delivery' = [delivery EXCEPT ![d] = Nothing]
       /\ UNCHANGED draft

\* The request dies, or its transaction is rolled back by an error.
Abort(d) ==
    /\ delivery[d] # Nothing
    /\ delivery' = [delivery EXCEPT ![d] = Nothing]
    /\ UNCHANGED <<plan, draft, applied, told>>

RequestNext ==
    \/ \E x \in Drafts, k \in Keys, kind \in Kinds, t \in Foreshadows : Prepare(x, k, kind, t)
    \/ \E d \in Deliveries : (\E x \in Drafts : Deliver(d, x)) \/ Execute(d) \/ Abort(d)

RequestSpec == RequestInit /\ [][RequestNext]_requestVars

-----------------------------------------------------------------------------
(* Properties *)

RequestTypeOK ==
    /\ structure \in Nat /\ assignment \in Nat
    /\ lifecycle \in [Foreshadows -> Nat]
    /\ receipt \in [Tables \X Keys -> Drafts \cup {Nothing}]
    /\ draft \in [Drafts -> DraftRows \cup {Nothing}]
    /\ delivery \in [Deliveries -> Drafts \cup {Nothing}]
    /\ applied \in [Drafts -> Nat]
    /\ told \in [Drafts -> SUBSET Answers]

\* An author who is told that a change was made can rely on it: the very
\* change was committed, and once, however often and however late its request
\* was delivered and whoever else used the key.
DoneIsTrue ==
    \A x \in Drafts : applied[x] <= 1 /\ ("done" \in told[x] => applied[x] = 1)

\* An author who is told of a conflict may prepare the change anew: the change
\* was not made and no delayed delivery of it will ever make it.
RefusedIsFinal ==
    \A x \in Drafts : told[x] \cap {"conflict", "reused"} # {} => applied[x] = 0

=============================================================================
