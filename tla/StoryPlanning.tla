---------------------------- MODULE StoryPlanning ----------------------------
(***************************************************************************)
(* The plan of one novel: parts and chapters, lore assigned to them, and   *)
(* the foreshadows ("threads") that are planned for and confirmed in them  *)
(* (backend/app/api/planning.py, core/planning_write.py,                   *)
(* core/planning_assignment.py, api/foreshadows.py,                        *)
(* core/foreshadow_lifecycle.py), with the five operations on a lore       *)
(* element that decide whether it may be planned (api/lore.py).            *)
(*                                                                         *)
(* Every operation of the first three groups runs while it holds the row   *)
(* of the plan FOR UPDATE, and every operation that looks at or archives a *)
(* lore element while it holds the element's row, so each is one action;   *)
(* how requests get there (operation keys, expected versions, retries) is  *)
(* the subject of PlanningRequests.  A request that is refused changes     *)
(* nothing and is no step.                                                 *)
(*                                                                         *)
(* Abstractions: a thread stands for its lore element and its lifecycle;   *)
(* titles, notes and conditions are left out; an assignment that was       *)
(* removed and one that never was are the same; a fact that was retracted  *)
(* is gone, as nothing reads it again; the whole novel as a scope, which   *)
(* is always active, is left out; an element switched on or off while it   *)
(* is archived shows that when it is restored; the positions at which a    *)
(* reorder parks the rows it moves are out of sight, but must be there.    *)
(***************************************************************************)
EXTENDS Naturals, FiniteSets

CONSTANTS
    Parts, Chapters,   \* the rows of planning_parts and planning_chapters
    Threads,           \* foreshadow elements and their lifecycles
    None,              \* no part, no chapter
    MaxPosition,       \* _MAX_POSITION
    MaxItems,          \* bound of TLC: plan items of one thread
    MaxAssigned        \* bound of TLC: active assignments of one element

ASSUME PositionAssumption == MaxPosition \in Nat /\ MaxItems \in Nat /\ MaxAssigned \in Nat
ASSUME NodeAssumption ==
    /\ IsFiniteSet(Parts) /\ IsFiniteSet(Chapters)
    /\ Parts \cap Chapters = {} /\ None \notin Parts \cup Chapters

VARIABLES
    part,      \* planning_parts: status and position
    chapter,   \* planning_chapters: status, position and part_id
    lore,      \* setting_elements: enabled and lifecycle_status
    life,      \* foreshadow_lifecycles: status
    items,     \* foreshadow_plan_items of each thread
    fact,      \* the chapter of the active fact of each kind, or None
    assigned   \* the scopes of the active assignments of each element

vars == <<part, chapter, lore, life, items, fact, assigned>>

Targets == Parts \cup Chapters
Statuses == {"none", "active", "archived"}
PartRows == [status : Statuses, pos : Nat]
ChapterRows == [status : Statuses, pos : Nat, in : Parts \cup {None}]
Actions == {"plant", "resolve"}
PlanItems == [kind : Actions, target : Targets, status : {"active", "cancelled"}]
FactKinds == {"planted", "resolved"}
FactOf(k) == IF k = "plant" THEN "planted" ELSE "resolved"

Init ==
    /\ part = [p \in Parts |-> [status |-> "none", pos |-> 0]]
    /\ chapter = [c \in Chapters |-> [status |-> "none", pos |-> 0, in |-> None]]
    /\ lore = [t \in Threads |-> "enabled"]
    /\ life = [t \in Threads |-> "none"]
    /\ items = [t \in Threads |-> {}]
    /\ fact = [t \in Threads |-> [k \in FactKinds |-> None]]
    /\ assigned = [t \in Threads |-> {}]

-----------------------------------------------------------------------------
(* Positions *)

ActiveParts == {p \in Parts : part[p].status = "active"}
ActiveChapters == {c \in Chapters : chapter[c].status = "active"}
ActiveIn(p) == {c \in ActiveChapters : chapter[c].in = p}

\* Mutant: the number of active siblings plus one.
IsNextCount(n, used) == n \in 1 .. MaxPosition /\ n = Cardinality(used) + 1

\* next_active_position: one past the last active position.
IsNext(n, used) ==
    /\ n \in 1 .. MaxPosition
    /\ \A m \in used : m < n
    /\ n = 1 \/ n - 1 \in used

NextPart(n) == IsNext(n, {part[p].pos : p \in ActiveParts})
NextIn(n, q) == IsNext(n, {chapter[c].pos : c \in ActiveIn(q)})

\* _target_order: a part comes before its own chapters.
Before(prt, chp, a, b) ==
    LET top(x) == IF x \in Parts THEN prt[x].pos ELSE prt[chp[x].in].pos
        sub(x) == IF x \in Parts THEN 0 ELSE chp[x].pos
    IN top(a) < top(b) \/ (top(a) = top(b) /\ sub(a) < sub(b))

-----------------------------------------------------------------------------
(* What a thread has planned and confirmed *)

ActiveItems(t) == {i \in items[t] : i.status = "active"}
Plans(t, k) == {i \in ActiveItems(t) : i.kind = k}
Confirmed(t, k) == fact[t][k] # None
LiveThreads == {t \in Threads : life[t] = "active"}

Uses(t, x) ==
    \/ \E i \in ActiveItems(t) : i.target = x
    \/ \E k \in FactKinds : fact[t][k] = x

\* Mutant: archiving a node looks at the plans only.
UsedByPlan(x) == \E t \in LiveThreads : \E i \in ActiveItems(t) : i.target = x

UsedByThread(x) == \E t \in LiveThreads : Uses(t, x)

Assigned(x) == \E t \in Threads : x \in assigned[t]

PlansOrdered(prt, chp, t) ==
    \A i \in Plans(t, "plant"), j \in Plans(t, "resolve") : Before(prt, chp, i.target, j.target)
FactsOrdered(prt, chp, t) ==
    Confirmed(t, "planted") /\ Confirmed(t, "resolved") =>
        Before(prt, chp, fact[t]["planted"], fact[t]["resolved"])

-----------------------------------------------------------------------------
(* Structure: parts, chapters and their order *)

CreatePart(p) ==
    /\ part[p].status = "none"
    /\ \E n \in 1 .. MaxPosition :
        /\ NextPart(n)
        /\ part' = [part EXCEPT ![p] = [status |-> "active", pos |-> n]]
    /\ UNCHANGED <<chapter, lore, life, items, fact, assigned>>

\* No chapter of any status may be left in a part that is archived.
Emptied(p) == \A c \in Chapters : chapter[c].in # p

ArchivePart(p) ==
    /\ part[p].status = "active"
    /\ Emptied(p)
    /\ ~Assigned(p)
    /\ ~UsedByThread(p)
    /\ part' = [part EXCEPT ![p].status = "archived"]
    /\ UNCHANGED <<chapter, lore, life, items, fact, assigned>>

RestorePart(p) ==
    /\ part[p].status = "archived"
    /\ \E n \in 1 .. MaxPosition :
        /\ NextPart(n)
        /\ part' = [part EXCEPT ![p] = [status |-> "active", pos |-> n]]
    /\ UNCHANGED <<chapter, lore, life, items, fact, assigned>>

CreateChapter(c, p) ==
    /\ chapter[c].status = "none"
    /\ part[p].status = "active"
    /\ \E n \in 1 .. MaxPosition :
        /\ NextIn(n, p)
        /\ chapter' = [chapter EXCEPT ![c] = [status |-> "active", pos |-> n, in |-> p]]
    /\ UNCHANGED <<part, lore, life, items, fact, assigned>>

ArchiveChapter(c) ==
    /\ chapter[c].status = "active"
    /\ ~Assigned(c)
    /\ ~UsedByThread(c)
    /\ chapter' = [chapter EXCEPT ![c].status = "archived"]
    /\ UNCHANGED <<part, lore, life, items, fact, assigned>>

RestoreChapter(c) ==
    /\ chapter[c].status = "archived"
    /\ part[chapter[c].in].status = "active"
    /\ \E n \in 1 .. MaxPosition :
        /\ NextIn(n, chapter[c].in)
        /\ chapter' = [chapter EXCEPT ![c].status = "active", ![c].pos = n]
    /\ UNCHANGED <<part, lore, life, items, fact, assigned>>

\* A request is complete: every active part once, in a sequence, and under
\* them every active chapter once, each part's chapters in a sequence.
PartOrders ==
    {f \in [ActiveParts -> 1 .. Cardinality(ActiveParts)] :
        \A p, q \in ActiveParts : p # q => f[p] # f[q]}
Placings ==
    {g \in [ActiveChapters -> ActiveParts \X (1 .. Cardinality(ActiveChapters))] :
        \A c \in ActiveChapters :
            LET mates == {d \in ActiveChapters : g[d][1] = g[c][1]}
            IN /\ g[c][2] <= Cardinality(mates)
               /\ \A d \in mates \ {c} : g[d][2] # g[c][2]}

\* Mutant: the confirmed facts are not looked at.
OrderKeptOfPlans(prt, chp) == \A t \in LiveThreads : PlansOrdered(prt, chp, t)

\* The order check of a reorder, over threads that are active.
OrderKept(prt, chp) ==
    \A t \in LiveThreads : PlansOrdered(prt, chp, t) /\ FactsOrdered(prt, chp, t)

\* The rows that move are parked one after the other beyond the last position, and
\* the request is refused where the numbers do not reach that far.
Parkable(f, g) ==
    LET moved == {p \in ActiveParts : f[p] # part[p].pos}
                   \cup {c \in ActiveChapters : g[c] # <<chapter[c].in, chapter[c].pos>>}
        used == {part[p].pos : p \in ActiveParts} \cup {chapter[c].pos : c \in ActiveChapters}
    IN used \cup {0} \subseteq 0 .. (MaxPosition - Cardinality(moved) - 1)

\* reorder_active_structure
Reorder ==
    /\ \A c \in ActiveChapters : part[chapter[c].in].status = "active"
    /\ \E f \in PartOrders, g \in Placings :
        /\ Parkable(f, g)
        /\ part' = [p \in Parts |-> IF p \in ActiveParts THEN [part[p] EXCEPT !.pos = f[p]] ELSE part[p]]
        /\ chapter' = [c \in Chapters |->
                IF c \in ActiveChapters
                THEN [chapter[c] EXCEPT !.pos = g[c][2], !.in = g[c][1]] ELSE chapter[c]]
        /\ OrderKept(part', chapter')
    /\ UNCHANGED <<lore, life, items, fact, assigned>>

-----------------------------------------------------------------------------
(* Lore elements and their assignment to a scope *)

Eligible(t) == lore[t] = "enabled"

ScopeActive(s) ==
    \/ s \in Parts /\ part[s].status = "active"
    \/ s \in Chapters /\ chapter[s].status = "active" /\ part[chapter[s].in].status = "active"

\* create_lore_assignment, and the restore of an assignment that was removed.
Assign(t, s) ==
    /\ Cardinality(assigned[t]) < MaxAssigned
    /\ s \notin assigned[t]
    /\ ScopeActive(s)
    /\ Eligible(t)
    /\ assigned' = [assigned EXCEPT ![t] = @ \cup {s}]
    /\ UNCHANGED <<part, chapter, lore, life, items, fact>>

Unassign(t, s) ==
    /\ s \in assigned[t]
    /\ assigned' = [assigned EXCEPT ![t] = @ \ {s}]
    /\ UNCHANGED <<part, chapter, lore, life, items, fact>>

EnableLore(t) ==
    /\ lore[t] = "disabled"
    /\ lore' = [lore EXCEPT ![t] = "enabled"]
    /\ UNCHANGED <<part, chapter, life, items, fact, assigned>>

DisableLore(t) ==
    /\ lore[t] = "enabled"
    /\ lore' = [lore EXCEPT ![t] = "disabled"]
    /\ UNCHANGED <<part, chapter, life, items, fact, assigned>>

\* archive_lore_element: an active foreshadow keeps its element.
ArchiveLore(t) ==
    /\ lore[t] \in {"enabled", "disabled"}
    /\ life[t] # "active"
    /\ lore' = [lore EXCEPT ![t] = "archived"]
    /\ UNCHANGED <<part, chapter, life, items, fact, assigned>>

\* commit_lore_merge of the element into another: for good, and not while the
\* foreshadow is active either.
MergeLore(t) ==
    /\ lore[t] \in {"enabled", "disabled"}
    /\ life[t] # "active"
    /\ lore' = [lore EXCEPT ![t] = "merged"]
    /\ UNCHANGED <<part, chapter, life, items, fact, assigned>>

RestoreLore(t) ==
    /\ lore[t] = "archived"
    /\ lore' \in {[lore EXCEPT ![t] = "enabled"], [lore EXCEPT ![t] = "disabled"]}
    /\ UNCHANGED <<part, chapter, life, items, fact, assigned>>

-----------------------------------------------------------------------------
(* The lifecycle of a thread *)

Bind(t) ==
    /\ Eligible(t)
    /\ life[t] = "none"
    /\ life' = [life EXCEPT ![t] = "active"]
    /\ UNCHANGED <<part, chapter, lore, items, fact, assigned>>

ArchiveThread(t) ==
    /\ life[t] = "active"
    /\ life' = [life EXCEPT ![t] = "archived"]
    /\ UNCHANGED <<part, chapter, lore, items, fact, assigned>>

TargetActive(x) == IF x \in Parts THEN part[x].status = "active" ELSE chapter[x].status = "active"

\* _validate_resolve_target_after_planted_fact
AfterPlanted(t, x) == Confirmed(t, "planted") => Before(part, chapter, fact[t]["planted"], x)

\* _validate_lifecycle_restore
Restorable(t) ==
    /\ \A i \in ActiveItems(t) : TargetActive(i.target)
    /\ PlansOrdered(part, chapter, t)
    /\ \A i \in Plans(t, "resolve") : AfterPlanted(t, i.target)
    /\ \A k \in FactKinds : Confirmed(t, k) => TargetActive(fact[t][k])
    /\ Confirmed(t, "resolved") => Confirmed(t, "planted")
    /\ FactsOrdered(part, chapter, t)

RestoreThread(t) ==
    /\ life[t] = "archived"
    /\ Eligible(t)
    /\ Restorable(t)
    /\ life' = [life EXCEPT ![t] = "active"]
    /\ UNCHANGED <<part, chapter, lore, items, fact, assigned>>

-----------------------------------------------------------------------------
(* Plans and confirmed facts of a thread *)

\* _validate_plan_order and the check against the planted fact.
Placeable(t, k, x) ==
    /\ k = "plant" => \A j \in Plans(t, "resolve") : Before(part, chapter, x, j.target)
    /\ k = "resolve" => /\ \A j \in Plans(t, "plant") : Before(part, chapter, j.target, x)
                        /\ AfterPlanted(t, x)

Plannable(t, k, x) ==
    /\ life[t] = "active"
    /\ Eligible(t)
    /\ Plans(t, k) = {}
    /\ ~Confirmed(t, FactOf(k))
    /\ TargetActive(x)
    /\ Placeable(t, k, x)

CreatePlan(t, k, x) ==
    /\ Cardinality(items[t]) < MaxItems
    /\ Plannable(t, k, x)
    /\ items' = [items EXCEPT ![t] = @ \cup {[kind |-> k, target |-> x, status |-> "active"]}]
    /\ UNCHANGED <<part, chapter, lore, life, fact, assigned>>

\* A plan may be cancelled while its thread is archived.
CancelPlan(t, i) ==
    /\ i \in ActiveItems(t)
    /\ items' = [items EXCEPT ![t] = (@ \ {i}) \cup {[i EXCEPT !.status = "cancelled"]}]
    /\ UNCHANGED <<part, chapter, lore, life, fact, assigned>>

RestorePlan(t, i) ==
    /\ i \in items[t] \ ActiveItems(t)
    /\ Plannable(t, i.kind, i.target)
    /\ items' = [items EXCEPT ![t] = (@ \ {i}) \cup {[i EXCEPT !.status = "active"]}]
    /\ UNCHANGED <<part, chapter, lore, life, fact, assigned>>

RecordPlanted(t, c) ==
    /\ life[t] = "active"
    /\ Eligible(t)
    /\ ~Confirmed(t, "planted") /\ ~Confirmed(t, "resolved")
    /\ TargetActive(c)
    /\ \A j \in Plans(t, "resolve") : Before(part, chapter, c, j.target)
    /\ fact' = [fact EXCEPT ![t]["planted"] = c]
    /\ UNCHANGED <<part, chapter, lore, life, items, assigned>>

RecordResolved(t, c) ==
    /\ life[t] = "active"
    /\ Eligible(t)
    /\ ~Confirmed(t, "resolved")
    /\ TargetActive(c)
    /\ Confirmed(t, "planted")
    /\ Before(part, chapter, fact[t]["planted"], c)
    /\ fact' = [fact EXCEPT ![t]["resolved"] = c]
    /\ UNCHANGED <<part, chapter, lore, life, items, assigned>>

RetractFact(t, k) ==
    /\ Confirmed(t, k)
    /\ k = "planted" => ~Confirmed(t, "resolved")
    /\ fact' = [fact EXCEPT ![t][k] = None]
    /\ UNCHANGED <<part, chapter, lore, life, items, assigned>>

-----------------------------------------------------------------------------
Structure ==
    \/ \E p \in Parts : CreatePart(p) \/ ArchivePart(p) \/ RestorePart(p)
    \/ \E c \in Chapters : (\E p \in Parts : CreateChapter(c, p)) \/ ArchiveChapter(c) \/ RestoreChapter(c)
    \/ Reorder

LoreStep ==
    \E t \in Threads :
        \/ \E s \in Targets : Assign(t, s) \/ Unassign(t, s)
        \/ EnableLore(t) \/ DisableLore(t) \/ ArchiveLore(t) \/ MergeLore(t) \/ RestoreLore(t)

ThreadStep ==
    \E t \in Threads :
        \/ Bind(t) \/ ArchiveThread(t) \/ RestoreThread(t)
        \/ \E k \in Actions, x \in Targets : CreatePlan(t, k, x)
        \/ \E i \in items[t] : CancelPlan(t, i) \/ RestorePlan(t, i)
        \/ \E c \in Chapters : RecordPlanted(t, c) \/ RecordResolved(t, c)
        \/ \E k \in FactKinds : RetractFact(t, k)

Next == Structure \/ LoreStep \/ ThreadStep

Spec == Init /\ [][Next]_vars

-----------------------------------------------------------------------------
(* Properties *)

TypeOK ==
    /\ part \in [Parts -> PartRows]
    /\ chapter \in [Chapters -> ChapterRows]
    /\ lore \in [Threads -> {"enabled", "disabled", "archived", "merged"}]
    /\ life \in [Threads -> Statuses]
    /\ items \in [Threads -> SUBSET PlanItems]
    /\ fact \in [Threads -> [FactKinds -> Chapters \cup {None}]]
    /\ assigned \in [Threads -> SUBSET Targets]

\* However nodes are archived, restored and reordered, two active siblings
\* never share a position, and every chapter, archived ones included, lies in
\* an active part: a restore or a reorder never meets the archived parent that its
\* "parent archived" answer is about.
StructureWhole ==
    /\ \A p, q \in ActiveParts : p # q => part[p].pos # part[q].pos
    /\ \A c, d \in ActiveChapters :
        c # d /\ chapter[c].in = chapter[d].in => chapter[c].pos # chapter[d].pos
    /\ \A c \in Chapters : chapter[c].status # "none" =>
        chapter[c].in \in Parts /\ part[chapter[c].in].status = "active"

\* Nothing in force points at what was archived: the plans and facts of an
\* active thread and every assignment name active nodes, and an active thread
\* has a lore element that is neither archived nor merged.
PointersLive ==
    /\ \A t \in LiveThreads :
        /\ lore[t] \in {"enabled", "disabled"}
        /\ \A x \in Targets : Uses(t, x) => TargetActive(x)
    /\ \A t \in Threads : \A s \in assigned[t] : ScopeActive(s)

\* An active thread is planted before it is resolved, in what the author
\* planned and in what the author confirmed, after any reorder and any
\* archive and restore of the thread.
StoryOrder ==
    \A t \in LiveThreads :
        /\ PlansOrdered(part, chapter, t)
        /\ FactsOrdered(part, chapter, t)
        /\ Confirmed(t, "resolved") => Confirmed(t, "planted")
=============================================================================
