------------------------- MODULE LegacyChaptersProofs -------------------------
(***************************************************************************)
(* Proofs about LegacyChapters for any number of requests, processes,      *)
(* chapters and texts.  They rest on one inductive invariant, Inv: who is  *)
(* in the set of active generations, and what the copies in a session,     *)
(* however stale, still have in common with the rows and with the numbers  *)
(* of chapters that were planned.                                          *)
(***************************************************************************)
EXTENDS LegacyChapters, FiniteSetTheorems, WellFoundedInduction, TLAPS

\* The number of chapters was never edited.
Kept == planned = {Total}

\* There are as many chapters as some planned number asks for.
Enough == \E t \in planned : Cardinality(Stored) >= t

Streaming(t) == t.pc # "idle" /\ t.kind \in Streams

StreamsOK ==
    /\ \A w \in Workers : Streaming(task[w]) => active[Home[w]]
    /\ \A v, w \in Workers :
          Streaming(task[v]) /\ Streaming(task[w]) /\ Home[v] = Home[w] => v = w
    /\ \A p \in Processes : active[p] => \E w \in Workers : Home[w] = p /\ Streaming(task[w])

RowsOK ==
    /\ memory \in Memories \/ Stored = {}
    /\ project.total \in planned
    /\ project.status = "completed" => Enough
    /\ Kept => Stored \subseteq 1 .. Total

\* What a session holds at each place.
ShapeOK(t) ==
    /\ t.pc # "idle" => t.todo # {}
    /\ t.pc \in {"open", "begin", "stream", "save", "write"} => t.kind \in Streams
    /\ t.pc \in {"stream", "save", "write"} =>
          t.proj \in Projects /\ t.mem \in Memories /\ memory \in Memories
    /\ t.pc \in {"save", "write"} => t.text \in Texts
    /\ t.pc \in {"loaded", "held"} =>
          /\ t.kind \in {"content", "title"}
          /\ t.proj \in Projects /\ t.text \in Texts
          /\ t.todo \subseteq Stored /\ \A n \in t.todo : t.rows[n] \in Chapters
    /\ t.pc = "held" => t.mem \in Memories
    /\ t.pc = "open" => t.proj \in Projects

\* Rows that were read are still there, and a project that was read had a planned number of
\* chapters and, if it was completed, enough of them.
ReadOK(t) ==
    /\ \A n \in Nums : t.rows[n] # Nothing => n \in Stored
    /\ Kept => t.todo \subseteq 1 .. Total
    /\ t.proj # Nothing =>
          /\ t.proj.total \in planned
          /\ t.proj.status = "completed" => Enough

TaskOK(t) == ShapeOK(t) /\ ReadOK(t)

Inv == TypeOK /\ StreamsOK /\ RowsOK /\ \A w \in Workers : TaskOK(task[w])

-----------------------------------------------------------------------------
(* Numbers.                                                                *)

LEMMA Minimum ==
    ASSUME NEW S \in SUBSET Nat, S # {}
    PROVE  \E n \in S : \A m \in S : n <= m
  <1> DEFINE Less == OpToRel(<, Nat)
  <1>1. IsWellFoundedOn(Less, Nat)
    BY NatLessThanWellFounded
  <1> HIDE DEF Less
  <1>2. PICK n \in S : \A m \in S : <<m, n>> \notin Less
    BY <1>1, WFMin
  <1>3. ASSUME NEW m \in Nat, NEW k \in Nat, m < k
        PROVE  <<m, k>> \in Less
    BY <1>3 DEF Less, OpToRel
  <1>4. \A m \in S : n \in Nat /\ m \in Nat /\ ~(m < n)
    BY <1>2, <1>3
  <1> QED
    BY <1>4

\* The current chapter is one of those still to do.
LEMMA NumInTodo ==
    ASSUME NEW w \in Workers, task[w].todo \in SUBSET Nums, task[w].todo # {}
    PROVE  Num(w) \in task[w].todo
  <1>1. task[w].todo \in SUBSET Nat
    BY LegacyConstants DEF Nums
  <1>2. \E n \in task[w].todo : \A m \in task[w].todo : n <= m
    BY <1>1, Minimum
  <1> QED
    BY <1>2 DEF Num

\* _refresh_project_completion_status is right about chapters that are all planned.
LEMMA CompletionIsFull ==
    ASSUME NEW S \in SUBSET (1 .. Total)
    PROVE  /\ Completion(Cardinality(S), Total) \in {"completed", "writing"}
           /\ Completion(Cardinality(S), Total) = "completed" <=> S = 1 .. Total
  <1>1. IsFiniteSet(1 .. Total) /\ Cardinality(1 .. Total) = Total /\ Total \in Nat
    BY LegacyConstants, FS_Interval
  <1>2. /\ IsFiniteSet(S) /\ Cardinality(S) <= Total
        /\ Cardinality(S) = Total => S = 1 .. Total
    BY <1>1, FS_Subset
  <1>3. Cardinality(S) \in Nat
    BY <1>2, FS_CardinalityType
  <1> QED
    BY <1>1, <1>2, <1>3 DEF Completion

\* Chapters and planned numbers only become more.
LEMMA EnoughStays ==
    ASSUME TypeOK, Stored \subseteq Stored', planned \subseteq planned', Enough
    PROVE  Enough'
  <1>1. IsFiniteSet(Nums)
    BY LegacyConstants, FS_Interval DEF Nums
  <1>2. Stored \subseteq Stored' /\ Stored' \subseteq Nums
    BY DEF Stored
  <1>3. /\ IsFiniteSet(Stored') /\ IsFiniteSet(Stored)
        /\ Cardinality(Stored) <= Cardinality(Stored')
    BY <1>1, <1>2, FS_Subset
  <1>4. Cardinality(Stored) \in Nat /\ Cardinality(Stored') \in Nat
    BY <1>3, FS_CardinalityType
  <1>5. PICK t \in planned : Cardinality(Stored) >= t
    BY DEF Enough
  <1>6. t \in Nat /\ t \in planned'
    BY LegacyConstants DEF TypeOK, Nums
  <1>7. Cardinality(Stored') >= t
    BY <1>3, <1>4, <1>5, <1>6
  <1>8. Cardinality(Stored)' = Cardinality(Stored')
    OBVIOUS
  <1> QED
    BY <1>6, <1>7, <1>8 DEF Enough

\* With the number of chapters that the project was created with, enough are all.
LEMMA EnoughIsAll ==
    ASSUME Kept, Enough, Stored \subseteq 1 .. Total
    PROVE  Stored = 1 .. Total
  <1>1. Cardinality(Stored) >= Total
    BY DEF Kept, Enough
  <1>2. Completion(Cardinality(Stored), Total) = "completed"
    BY <1>1 DEF Completion
  <1> QED
    BY <1>2, CompletionIsFull

-----------------------------------------------------------------------------
(* Who is streaming.                                                       *)

LEMMA StreamGoesOn ==
    ASSUME TypeOK, StreamsOK, NEW w \in Workers, NEW t,
           task' = [task EXCEPT ![w] = t], UNCHANGED active,
           Streaming(t) <=> Streaming(task[w])
    PROVE  StreamsOK'
  <1>1. \A v \in Workers : Streaming(task'[v]) <=> Streaming(task[v])
    BY DEF TypeOK
  <1>2. \A v \in Workers : Streaming(task[v])' <=> Streaming(task'[v])
    BY DEF Streaming
  <1> QED
    BY <1>1, <1>2 DEF StreamsOK

LEMMA LeaveKeepsStreams ==
    ASSUME TypeOK, StreamsOK, NEW w \in Workers, ~At(w, "idle"), Leave(w)
    PROVE  StreamsOK'
  <1>1. /\ task' = [task EXCEPT ![w] = Idle] /\ ~Streaming(Idle)
        /\ task \in [Workers -> Tasks] /\ active \in [Processes -> BOOLEAN]
        /\ Home \in [Workers -> Processes]
    BY LegacyConstants DEF Leave, Streaming, Idle, TypeOK
  <1>2. \A v \in Workers : Streaming(task[v])' <=> v # w /\ Streaming(task[v])
    BY <1>1 DEF Streaming
  <1>3. CASE task[w].kind \in Streams
    <2>1. Streaming(task[w])
      BY <1>3 DEF Streaming, At
    <2>2. active' = [active EXCEPT ![Home[w]] = FALSE]
      BY <1>3 DEF Leave
    <2> QED
      BY <1>1, <1>2, <2>1, <2>2 DEF StreamsOK
  <1>4. CASE task[w].kind \notin Streams
    <2>1. ~Streaming(task[w]) /\ UNCHANGED active
      BY <1>4 DEF Streaming, Leave
    <2> QED
      BY <1>2, <2>1 DEF StreamsOK
  <1> QED
    BY <1>3, <1>4

-----------------------------------------------------------------------------
(* The sessions of the other requests, when one of them writes: chapters   *)
(* never disappear, and only a stream adds one.                            *)

LEMMA OthersKeep ==
    ASSUME Inv, UNCHANGED planned, NEW w \in Workers, NEW t \in Tasks,
           task' = [task EXCEPT ![w] = t],
           Stored \subseteq Stored',
           memory \in Memories => memory' \in Memories,
           TaskOK(t)'
    PROVE  \A v \in Workers : TaskOK(task[v])'
  <1>1. task \in [Workers -> Tasks] /\ (Enough => Enough') /\ (Kept' <=> Kept)
    BY EnoughStays DEF Inv, TypeOK, Kept
  <1>2. SUFFICES ASSUME NEW v \in Workers
                 PROVE  TaskOK(task[v])'
    OBVIOUS
  <1>3. CASE v = w
    <2>1. task'[v] = t
      BY <1>1, <1>3
    <2> QED
      BY <2>1 DEF TaskOK, ShapeOK, ReadOK
  <1>4. CASE v # w
    <2>1. task'[v] = task[v]
      BY <1>1, <1>4
    <2>2. TaskOK(task[v])
      BY DEF Inv
    <2>3. ShapeOK(task[v])'
      BY <2>1, <2>2 DEF TaskOK, ShapeOK
    <2>4. ReadOK(task[v])'
      BY <1>1, <2>1, <2>2 DEF TaskOK, ReadOK
    <2> QED
      BY <2>3, <2>4 DEF TaskOK
  <1> QED
    BY <1>3, <1>4

\* A step that changes no row.
LEMMA TaskStep ==
    ASSUME Inv, UNCHANGED planned, NEW w \in Workers, NEW t \in Tasks,
           task' = [task EXCEPT ![w] = t], UNCHANGED db,
           active' \in [Processes -> BOOLEAN], StreamsOK', TaskOK(t)
    PROVE  Inv'
  <1>1. Stored' = Stored /\ RowsOK' /\ (Enough' <=> Enough) /\ (Kept' <=> Kept)
    BY DEF Inv, RowsOK, Stored, Kept, Enough, db
  <1>2. TaskOK(t)'
    BY <1>1 DEF TaskOK, ShapeOK, ReadOK, Streaming, db
  <1>3. TypeOK'
    BY DEF Inv, TypeOK, db
  <1>4. \A v \in Workers : TaskOK(task[v])'
    BY <1>1, <1>2, OthersKeep DEF db
  <1> QED
    BY <1>1, <1>3, <1>4 DEF Inv

LEMMA IdleOK == Idle \in Tasks /\ TaskOK(Idle)
  BY DEF Idle, Tasks, PCs, Kinds, Unread, TaskOK, ShapeOK, ReadOK, Streaming

LEMMA LeaveKeeps ==
    ASSUME Inv, UNCHANGED planned, NEW w \in Workers, ~At(w, "idle"), Leave(w), UNCHANGED db
    PROVE  Inv'
  <1>1. StreamsOK'
    BY LeaveKeepsStreams DEF Inv
  <1>2. active' \in [Processes -> BOOLEAN]
    BY LegacyConstants DEF Leave, Inv, TypeOK
  <1> QED
    BY <1>1, <1>2, IdleOK, TaskStep DEF Leave

\* What a stream does after a chapter: it ends, or begins the next one with session t.
LEMMA Proceeds ==
    ASSUME Inv, UNCHANGED planned, NEW w \in Workers, Streaming(task[w]), NEW t \in Tasks,
           t.kind = task[w].kind, Proceed(w, t)
    PROVE  /\ StreamsOK' /\ active' \in [Processes -> BOOLEAN]
           /\ \E u \in Tasks :
                /\ task' = [task EXCEPT ![w] = u]
                /\ \/ u = Idle
                   \/ /\ u.pc = "begin" /\ u.kind = t.kind
                      /\ u.todo = task[w].todo \ {Num(w)} /\ u.todo # {}
                      /\ u.proj = t.proj /\ u.rows = t.rows
  <1> DEFINE rest == task[w].todo \ {Num(w)}
             u == [t EXCEPT !.pc = "begin", !.todo = rest, !.text = Nothing, !.mem = Nothing]
  <1>1. TypeOK /\ StreamsOK /\ task[w] \in Tasks
    BY DEF Inv, TypeOK
  <1>2. CASE rest = {}
    <2>1. Leave(w)
      BY <1>2 DEF Proceed
    <2>2. StreamsOK'
      BY <1>1, <2>1, LeaveKeepsStreams DEF Streaming, At
    <2> QED
      BY <1>1, <2>1, <2>2, LegacyConstants, IdleOK DEF Leave, TypeOK
  <1>3. CASE rest # {}
    <2>1. task' = [task EXCEPT ![w] = u] /\ UNCHANGED active
      BY <1>3 DEF Proceed
    <2>2. /\ u \in Tasks /\ u.pc = "begin" /\ u.kind = t.kind
          /\ u.todo = rest /\ u.proj = t.proj /\ u.rows = t.rows
      BY <1>1 DEF Tasks, PCs
    <2> HIDE DEF u
    <2>3. StreamsOK'
      <3>1. Streaming(u)
        BY <2>2 DEF Streaming
      <3> QED
        BY <1>1, <2>1, <3>1, StreamGoesOn
    <2> QED
      BY <1>1, <1>3, <2>1, <2>2, <2>3 DEF TypeOK
  <1> QED
    BY <1>2, <1>3

\* The same when the chapter has changed no row.
LEMMA ProceedKeeps ==
    ASSUME Inv, UNCHANGED planned, NEW w \in Workers, Streaming(task[w]), NEW t \in Tasks,
           t.kind = task[w].kind, t.todo = task[w].todo, ReadOK(t), Proceed(w, t), UNCHANGED db
    PROVE  Inv'
  <1>1. /\ StreamsOK' /\ active' \in [Processes -> BOOLEAN]
        /\ \E u \in Tasks :
             /\ task' = [task EXCEPT ![w] = u]
             /\ \/ u = Idle
                \/ /\ u.pc = "begin" /\ u.kind = t.kind
                   /\ u.todo = task[w].todo \ {Num(w)} /\ u.todo # {}
                   /\ u.proj = t.proj /\ u.rows = t.rows
    BY Proceeds
  <1>2. PICK u \in Tasks :
             /\ task' = [task EXCEPT ![w] = u]
             /\ \/ u = Idle
                \/ /\ u.pc = "begin" /\ u.kind = t.kind
                   /\ u.todo = task[w].todo \ {Num(w)} /\ u.todo # {}
                   /\ u.proj = t.proj /\ u.rows = t.rows
    BY <1>1
  <1>3. TaskOK(u)
    BY <1>2, IdleOK DEF TaskOK, ShapeOK, ReadOK, Streaming
  <1> QED
    BY <1>1, <1>2, <1>3, TaskStep

-----------------------------------------------------------------------------
(* One lemma per action.                                                   *)

LEMMA OpenKeeps ==
    ASSUME Inv, UNCHANGED planned, NEW w \in Workers, NEW kind \in Streams, NEW n \in Nums,
           Open(w, kind, n)
    PROVE  Inv'
  <1> DEFINE r == IF kind = "single" THEN Unread ELSE chapter
             pc == IF kind = "single" THEN "begin" ELSE "open"
             t == [Idle EXCEPT !.pc = pc, !.kind = kind, !.todo = Todo(kind, n),
                               !.proj = project, !.rows = r]
  <1>1. /\ TypeOK /\ StreamsOK /\ RowsOK /\ project.total \in Nums /\ n <= project.total
        /\ Home \in [Workers -> Processes] /\ Last \in Nat
    BY LegacyConstants DEF Inv, TypeOK, Projects, Open
  <1>2. Todo(kind, n) \subseteq 1 .. project.total /\ Todo(kind, n) \subseteq Nums
    BY <1>1 DEF Todo, Streams, Nums
  <1>3. t \in Tasks
    BY <1>1, <1>2 DEF Idle, Tasks, PCs, Kinds, Streams, Unread, TypeOK
  <1>4. /\ task' = [task EXCEPT ![w] = t]
        /\ active' = [active EXCEPT ![Home[w]] = TRUE]
        /\ ~active[Home[w]] /\ Todo(kind, n) # {} /\ UNCHANGED db
    BY DEF Open, Admitted
  <1>5. /\ t.pc = pc /\ t.kind = kind /\ t.todo = Todo(kind, n) /\ t.proj = project
        /\ t.rows = r
    BY DEF Idle
  <1> HIDE DEF t
  <1>6. StreamsOK'
    <2>1. Streaming(t) /\ task \in [Workers -> Tasks] /\ active \in [Processes -> BOOLEAN]
      BY <1>1, <1>5 DEF Streaming, TypeOK
    <2>2. \A v \in Workers : Streaming(task[v])' <=> v = w \/ Streaming(task[v])
      BY <1>4, <2>1 DEF Streaming
    <2>3. \A v \in Workers : Streaming(task[v]) => Home[v] # Home[w]
      BY <1>1, <1>4 DEF StreamsOK
    <2> QED
      BY <1>1, <1>4, <2>1, <2>2, <2>3 DEF StreamsOK
  <1>7. TaskOK(t)
    <2>1. ShapeOK(t)
      BY <1>1, <1>2, <1>4, <1>5 DEF ShapeOK, TypeOK
    <2>2. \A m \in Nums : t.rows[m] # Nothing => m \in Stored
      BY <1>5 DEF Unread, Stored
    <2>3. Kept => t.todo \subseteq 1 .. Total
      BY <1>1, <1>2, <1>5 DEF RowsOK, Kept
    <2>4. t.proj.total \in planned /\ (t.proj.status = "completed" => Enough)
      BY <1>1, <1>5 DEF RowsOK
    <2> QED
      BY <2>1, <2>2, <2>3, <2>4 DEF TaskOK, ReadOK
  <1>8. active' \in [Processes -> BOOLEAN]
    BY <1>1, <1>4 DEF TypeOK
  <1> QED
    BY <1>3, <1>4, <1>6, <1>7, <1>8, TaskStep

LEMMA StreamKeeps ==
    ASSUME Inv, UNCHANGED planned, NEW w \in Workers, Stream(w)
    PROVE  Inv'
  <1>1. /\ TypeOK /\ StreamsOK /\ task \in [Workers -> Tasks] /\ task[w] \in Tasks
        /\ TaskOK(task[w]) /\ task[w].pc = "stream" /\ Streaming(task[w])
    BY DEF Inv, TypeOK, Stream, At, TaskOK, ShapeOK, Streaming
  <1>3. ASSUME NEW d \in Drafts,
               task' = [task EXCEPT ![w].pc = "save", ![w].text = d], UNCHANGED <<active, db>>
        PROVE  Inv'
    <2> DEFINE t == [task[w] EXCEPT !.pc = "save", !.text = d]
    <2>1. t \in Tasks
      BY <1>1 DEF Tasks, PCs, Texts
    <2>2. task' = [task EXCEPT ![w] = t]
      BY <1>1, <1>3
    <2>3. /\ t.pc = "save" /\ t.text \in Texts /\ t.kind = task[w].kind /\ t.todo = task[w].todo
          /\ t.proj = task[w].proj /\ t.rows = task[w].rows /\ t.mem = task[w].mem
      BY <1>1 DEF Tasks, Texts
    <2> HIDE DEF t
    <2>4. TaskOK(t)
      BY <1>1, <2>3 DEF TaskOK, ShapeOK, ReadOK, Streaming
    <2>5. StreamsOK'
      BY <1>1, <1>3, <2>2, <2>3, StreamGoesOn DEF Streaming
    <2> QED
      BY <1>1, <1>3, <2>1, <2>2, <2>4, <2>5, TaskStep DEF TypeOK
  <1>4. ASSUME Proceed(w, task[w]), UNCHANGED db
        PROVE  Inv'
    BY <1>1, <1>4, ProceedKeeps DEF TaskOK
  <1> QED
    BY <1>3, <1>4 DEF Stream

LEMMA SaveKeeps ==
    ASSUME Inv, UNCHANGED planned, NEW w \in Workers, Save(w)
    PROVE  Inv'
  <1>1. /\ TypeOK /\ StreamsOK /\ task \in [Workers -> Tasks] /\ task[w] \in Tasks
        /\ TaskOK(task[w]) /\ task[w].pc = "save"
    BY DEF Inv, TypeOK, Save, At
  <1>2. Num(w) \in Nums
    BY <1>1, NumInTodo DEF Tasks, TaskOK, ShapeOK
  <1>3. PICK r : r = [task[w].rows EXCEPT ![Num(w)] = IF @ = Nothing THEN chapter[Num(w)] ELSE @]
    OBVIOUS
  <1> DEFINE t == [task[w] EXCEPT !.pc = "write", !.rows = r]
  <1>4. r \in [Nums -> Chapters \cup {Nothing}]
    BY <1>1, <1>2, <1>3 DEF Tasks, TypeOK
  <1>5. t \in Tasks
    BY <1>1, <1>4 DEF Tasks, PCs
  <1>6. task' = [task EXCEPT ![w] = t] /\ UNCHANGED <<db, active>>
    BY <1>1, <1>3 DEF Save
  <1>7. /\ t.pc = "write" /\ t.kind = task[w].kind /\ t.todo = task[w].todo /\ t.rows = r
        /\ t.proj = task[w].proj /\ t.text = task[w].text /\ t.mem = task[w].mem
    BY <1>1 DEF Tasks
  <1> HIDE DEF t
  <1>8. \A m \in Nums : r[m] # Nothing => m \in Stored
    <2>1. task[w].rows \in [Nums -> Chapters \cup {Nothing}]
      BY <1>1 DEF Tasks
    <2>2. \A m \in Nums : r[m] = IF m = Num(w) /\ task[w].rows[m] = Nothing THEN chapter[m]
                                 ELSE task[w].rows[m]
      BY <1>2, <1>3, <2>1
    <2> QED
      BY <1>1, <2>2 DEF Stored, TaskOK, ReadOK
  <1>9. TaskOK(t)
    BY <1>1, <1>7, <1>8 DEF TaskOK, ShapeOK, ReadOK, Streaming
  <1>10. StreamsOK'
    BY <1>1, <1>6, <1>7, StreamGoesOn DEF Streaming
  <1> QED
    BY <1>1, <1>5, <1>6, <1>9, <1>10, TaskStep DEF TypeOK

LEMMA OpenBatchKeeps ==
    ASSUME Inv, UNCHANGED planned, NEW w \in Workers, OpenBatch(w)
    PROVE  Inv'
  <1>1. /\ TypeOK /\ StreamsOK /\ RowsOK /\ task \in [Workers -> Tasks] /\ task[w] \in Tasks
        /\ TaskOK(task[w]) /\ task[w].pc = "open" /\ Streaming(task[w])
        /\ task[w].proj \in Projects
    BY DEF Inv, TypeOK, OpenBatch, At, TaskOK, ShapeOK, Streaming
  <1>2. PICK status : status = WritingStatus(task[w].proj)
    OBVIOUS
  <1>3. PICK proj : proj = [task[w].proj EXCEPT !.status = status]
    OBVIOUS
  <1>4. PICK t : t = [task[w] EXCEPT !.pc = "begin", !.proj = proj]
    OBVIOUS
  <1>5. /\ status \in Statuses /\ (status = "completed" => task[w].proj.status = "completed")
        /\ proj \in Projects /\ proj.total = task[w].proj.total /\ proj.status = status
    BY <1>1, <1>2, <1>3 DEF WritingStatus, Statuses, Projects
  <1>6. /\ t \in Tasks /\ t.pc = "begin" /\ t.kind = task[w].kind /\ t.todo = task[w].todo
        /\ t.rows = task[w].rows /\ t.proj = proj
    BY <1>1, <1>4, <1>5 DEF Tasks, PCs
  <1>7. /\ project' = [project EXCEPT !.status = Column(task[w].proj.status, status, @)]
        /\ UNCHANGED <<chapter, memory, active>>
        /\ task' = [task EXCEPT ![w].pc = "begin", ![w].proj.status = status]
    BY <1>2 DEF OpenBatch
  <1>8. task' = [task EXCEPT ![w] = t]
    BY <1>1, <1>3, <1>4, <1>7
  <1>9. Stored' = Stored /\ (Enough' <=> Enough) /\ (Kept' <=> Kept)
    BY <1>7 DEF Stored, Enough, Kept
  <1>10. /\ project' \in Projects /\ project'.total = project.total
         /\ project'.status = "completed" => Enough
    <2>1. project'.status \in {project.status, status} /\ project' \in Projects
      BY <1>1, <1>5, <1>7 DEF TypeOK, Projects, Column
    <2>2. project.status = "completed" \/ status = "completed" => Enough
      BY <1>1, <1>5, NothingIsNoRow DEF RowsOK, TaskOK, ReadOK
    <2> QED
      BY <1>1, <1>7, <2>1, <2>2 DEF TypeOK, Projects
  <1>11. TypeOK' /\ RowsOK'
    <2>1. UNCHANGED <<chapter, memory, active, planned>> /\ task' \in [Workers -> Tasks]
      BY <1>1, <1>6, <1>7, <1>8
    <2>2. TypeOK'
      BY <1>1, <1>10, <2>1 DEF TypeOK
    <2>3. RowsOK'
      BY <1>1, <1>9, <1>10, <2>1 DEF RowsOK
    <2> QED
      BY <2>2, <2>3
  <1>12. TaskOK(t)'
    BY <1>1, <1>5, <1>6, <1>9, NothingIsNoRow DEF TaskOK, ShapeOK, ReadOK, Streaming
  <1>13. StreamsOK'
    BY <1>1, <1>6, <1>7, <1>8, StreamGoesOn DEF Streaming
  <1>14. \A v \in Workers : TaskOK(task[v])'
    BY <1>6, <1>7, <1>8, <1>9, <1>12, OthersKeep
  <1> QED
    BY <1>11, <1>13, <1>14 DEF Inv

LEMMA BeginKeeps ==
    ASSUME Inv, UNCHANGED planned, NEW w \in Workers, Begin(w)
    PROVE  Inv'
  <1>1. /\ TypeOK /\ StreamsOK /\ RowsOK /\ task \in [Workers -> Tasks] /\ task[w] \in Tasks
        /\ TaskOK(task[w]) /\ task[w].pc = "begin" /\ Streaming(task[w])
    BY DEF Inv, TypeOK, Begin, At, TaskOK, ShapeOK, Streaming
  <1>2. PICK p : p = IF task[w].proj = Nothing THEN project ELSE task[w].proj
    OBVIOUS
  <1>3. PICK status : status = WritingStatus(p)
    OBVIOUS
  <1>4. PICK m : m = IF memory = Nothing THEN Unread ELSE memory
    OBVIOUS
  <1>5. /\ p \in Projects
        /\ p.total \in planned
        /\ p.status = "completed" => Enough
    BY <1>1, <1>2 DEF Tasks, TypeOK, RowsOK, TaskOK, ReadOK
  <1>6. ASSUME NEW t \in Tasks, t.kind = task[w].kind, t.todo = task[w].todo,
               t.rows \in {task[w].rows, Unread}, t.proj \in {p, Nothing},
               Proceed(w, t), UNCHANGED db
        PROVE  Inv'
    <2>1. ReadOK(t)
      BY <1>1, <1>5, <1>6 DEF TaskOK, ReadOK, Unread
    <2> QED
      BY <1>1, <1>6, <2>1, ProceedKeeps
  <1>7. ASSUME memory' = m,
               project' = [project EXCEPT !.status = Column(p.status, status, @)],
               task' = [task EXCEPT ![w].pc = "stream", ![w].proj = [p EXCEPT !.status = status],
                                    ![w].mem = m],
               UNCHANGED <<chapter, active>>
        PROVE  Inv'
    <2>0. PICK t : t = [task[w] EXCEPT !.pc = "stream", !.proj = [p EXCEPT !.status = status],
                                       !.mem = m]
      OBVIOUS
    <2>1. /\ memory' = m
          /\ project' = [project EXCEPT !.status = Column(p.status, status, @)]
          /\ task' = [task EXCEPT ![w].pc = "stream", ![w].proj = [p EXCEPT !.status = status],
                                  ![w].mem = m]
          /\ UNCHANGED <<chapter, active>>
      BY <1>7
    <2>2. m \in Memories /\ status \in Statuses
      BY <1>1, <1>3, <1>4 DEF TypeOK, Memories, Unread, Statuses, WritingStatus
    <2>3. t \in Tasks
      BY <1>1, <1>5, <2>0, <2>2 DEF Tasks, PCs, Projects
    <2>4. task' = [task EXCEPT ![w] = t]
      BY <1>1, <2>0, <2>1
    <2>5. /\ t.pc = "stream" /\ t.kind = task[w].kind /\ t.todo = task[w].todo
          /\ t.rows = task[w].rows /\ t.mem = m
          /\ t.proj \in Projects /\ t.proj.total = p.total /\ t.proj.status = status
      BY <1>1, <1>5, <2>0, <2>2 DEF Tasks, Projects
    <2>6. Stored' = Stored /\ (Enough' <=> Enough) /\ (Kept' <=> Kept)
      BY <2>1 DEF Stored, Enough, Kept
    <2>7. TypeOK'
      BY <1>1, <1>5, <2>1, <2>2, <2>3, <2>4 DEF TypeOK, Projects, Column
    <2>8. RowsOK'
      BY <1>1, <1>3, <1>5, <2>1, <2>2, <2>6
         DEF RowsOK, TypeOK, Projects, Column, WritingStatus
    <2>9. TaskOK(t)'
      BY <1>1, <1>3, <1>5, <2>1, <2>2, <2>5, <2>6
         DEF TaskOK, ShapeOK, ReadOK, Streaming, WritingStatus
    <2>10. StreamsOK'
      BY <1>1, <2>1, <2>4, <2>5, StreamGoesOn DEF Streaming
    <2>11. \A v \in Workers : TaskOK(task[v])'
      BY <2>1, <2>2, <2>3, <2>4, <2>6, <2>9, OthersKeep
    <2> QED
      BY <2>7, <2>8, <2>10, <2>11 DEF Inv
  <1>8. CASE Proceed(w, [task[w] EXCEPT !.proj = p]) /\ UNCHANGED db
    <2> DEFINE t == [task[w] EXCEPT !.proj = p]
    <2>1. /\ t \in Tasks /\ t.kind = task[w].kind /\ t.todo = task[w].todo
          /\ t.rows = task[w].rows /\ t.proj = p
      BY <1>1, <1>5 DEF Tasks
    <2> QED
      BY <1>6, <1>8, <2>1
  <1>9. CASE Proceed(w, [task[w] EXCEPT !.proj = Nothing, !.rows = Unread]) /\ UNCHANGED db
    <2> DEFINE t == [task[w] EXCEPT !.proj = Nothing, !.rows = Unread]
    <2>1. /\ t \in Tasks /\ t.kind = task[w].kind /\ t.todo = task[w].todo
          /\ t.rows = Unread /\ t.proj = Nothing
      BY <1>1 DEF Tasks, Unread
    <2> QED
      BY <1>6, <1>9, <2>1
  <1> QED
    BY <1>2, <1>3, <1>4, <1>7, <1>8, <1>9 DEF Begin

LEMMA WriteKeeps ==
    ASSUME Inv, UNCHANGED planned, NEW w \in Workers, Write(w)
    PROVE  Inv'
  <1>1. /\ TypeOK /\ StreamsOK /\ RowsOK /\ task \in [Workers -> Tasks] /\ task[w] \in Tasks
        /\ TaskOK(task[w]) /\ task[w].pc = "write" /\ Streaming(task[w])
    BY DEF Inv, TypeOK, Write, At, TaskOK, ShapeOK, Streaming
  <1>2. Num(w) \in Nums /\ Num(w) \in task[w].todo /\ ~At(w, "idle")
    BY <1>1, NumInTodo DEF Tasks, TaskOK, ShapeOK, At
  <1>3. PICK n : n = Num(w)
    OBVIOUS
  <1>4. PICK new : new = [text |-> task[w].text, status |-> "generated"]
    OBVIOUS
  <1>5. PICK mem : mem = [task[w].mem EXCEPT ![n] = task[w].text]
    OBVIOUS
  <1>6. PICK status : status = Completion(Cardinality(Stored \cup {n}), task[w].proj.total)
    OBVIOUS
  <1>7. /\ new \in Chapters /\ mem \in Memories /\ status \in Statuses
        /\ task[w].proj \in Projects /\ task[w].mem \in Memories /\ memory \in Memories
    BY <1>1, <1>2, <1>3, <1>4, <1>5, <1>6
       DEF TaskOK, ShapeOK, Chapters, Memories, Statuses, Completion
  <1>8. ASSUME Leave(w), UNCHANGED db
        PROVE  Inv'
    BY <1>2, <1>8, LeaveKeeps
  <1>9. ASSUME Proceed(w, [task[w] EXCEPT !.rows = Unread, !.proj = Nothing]), UNCHANGED db
        PROVE  Inv'
    <2> DEFINE t == [task[w] EXCEPT !.rows = Unread, !.proj = Nothing]
    <2>1. /\ t \in Tasks /\ t.kind = task[w].kind /\ t.todo = task[w].todo
          /\ t.proj = Nothing /\ t.rows = Unread
      BY <1>1 DEF Tasks, Unread
    <2>2. Proceed(w, t)
      BY <1>9
    <2> HIDE DEF t
    <2>3. ReadOK(t)
      BY <1>1, <2>1 DEF TaskOK, ReadOK, Unread
    <2> QED
      BY <1>1, <1>9, <2>1, <2>2, <2>3, ProceedKeeps
  <1>10. ASSUME chapter' = [chapter EXCEPT ![n] = Updated(n, task[w].rows[n], new)],
                memory' = Column(task[w].mem, mem, memory),
                project' = [project EXCEPT !.status = Column(task[w].proj.status, status, @)],
                Proceed(w, [task[w] EXCEPT !.rows[n] = new, !.proj.status = status])
         PROVE  Inv'
    <2> DEFINE t == [task[w] EXCEPT !.rows[n] = new, !.proj.status = status]
    <2>1. t \in Tasks /\ t.kind = task[w].kind
      BY <1>1, <1>7 DEF Tasks, Projects
    <2>2. /\ t.rows = [task[w].rows EXCEPT ![n] = new]
          /\ t.proj.total = task[w].proj.total /\ t.proj.status = status
      BY <1>1, <1>7 DEF Tasks, Projects
    <2>3. Proceed(w, t)
      BY <1>10
    <2> HIDE DEF t
    <2>4. Updated(n, task[w].rows[n], new) \in Chapters
      <3>1. CASE task[w].rows[n] = Nothing
        BY <1>7, <3>1 DEF Updated
      <3>2. CASE task[w].rows[n] # Nothing
        <4>1. chapter[n] \in Chapters /\ task[w].rows[n] \in Chapters
          BY <1>1, <1>2, <1>3, <3>2 DEF TaskOK, ReadOK, Stored, TypeOK, Tasks
        <4> QED
          BY <1>7, <3>2, <4>1 DEF Updated, Column, Chapters
      <3> QED
        BY <3>1, <3>2
    <2>5. Stored' = Stored \cup {n}
      BY <1>1, <1>2, <1>3, <1>10, <2>4, NothingIsNoRow DEF Stored, TypeOK
    <2>6. /\ Kept => Stored \cup {n} \subseteq 1 .. Total
          /\ task[w].proj.total \in planned
      BY <1>1, <1>2, <1>3, <1>7, NothingIsNoRow DEF RowsOK, TaskOK, ReadOK
    <2>7. /\ status = "completed" => Enough'
          /\ Enough => Enough'
          /\ Kept' <=> Kept
      <3>1. Enough => Enough'
        BY <1>1, <2>5, EnoughStays
      <3>2. Cardinality(Stored)' = Cardinality(Stored \cup {n})
        BY <2>5
      <3>3. status = "completed" => Cardinality(Stored \cup {n}) >= task[w].proj.total
        BY <1>6 DEF Completion
      <3> QED
        BY <2>6, <3>1, <3>2, <3>3 DEF Enough, Kept
    <2>8. /\ StreamsOK' /\ active' \in [Processes -> BOOLEAN]
          /\ \E u \in Tasks :
               /\ task' = [task EXCEPT ![w] = u]
               /\ \/ u = Idle
                  \/ /\ u.pc = "begin" /\ u.kind = t.kind
                     /\ u.todo = task[w].todo \ {Num(w)} /\ u.todo # {}
                     /\ u.proj = t.proj /\ u.rows = t.rows
      BY <1>1, <2>1, <2>3, Proceeds
    <2>9. PICK u \in Tasks :
               /\ task' = [task EXCEPT ![w] = u]
               /\ \/ u = Idle
                  \/ /\ u.pc = "begin" /\ u.kind = t.kind
                     /\ u.todo = task[w].todo \ {Num(w)} /\ u.todo # {}
                     /\ u.proj = t.proj /\ u.rows = t.rows
      BY <2>8
    <2>10. memory' \in Memories /\ project' \in Projects /\ project'.total = project.total
           /\ project'.status \in {project.status, status}
      BY <1>1, <1>7, <1>10 DEF Column, TypeOK, Projects
    <2>11. TypeOK'
      BY <1>1, <1>10, <2>4, <2>8, <2>9, <2>10 DEF TypeOK
    <2>12. RowsOK'
      BY <1>1, <2>5, <2>6, <2>7, <2>10 DEF RowsOK
    <2>13. TaskOK(u)'
      <3>1. CASE u = Idle
        BY <3>1 DEF Idle, Unread, TaskOK, ShapeOK, ReadOK, Streaming
      <3>2. CASE u # Idle
        <4>1. ShapeOK(u)'
          BY <1>1, <2>1, <2>9, <3>2 DEF ShapeOK, Streaming
        <4>2. \A m \in Nums : u.rows[m] # Nothing => m \in Stored'
          BY <1>1, <1>2, <1>3, <2>2, <2>5, <2>9, <3>2 DEF TaskOK, ReadOK, Tasks
        <4>3. ReadOK(u)'
          BY <1>1, <2>2, <2>5, <2>6, <2>7, <2>9, <3>2, <4>2 DEF TaskOK, ReadOK
        <4> QED
          BY <4>1, <4>3 DEF TaskOK
      <3> QED
        BY <3>1, <3>2
    <2>14. \A v \in Workers : TaskOK(task[v])'
      BY <1>1, <2>5, <2>9, <2>10, <2>13, OthersKeep
    <2> QED
      BY <2>8, <2>11, <2>12, <2>14 DEF Inv
  <1> QED
    BY <1>3, <1>4, <1>5, <1>6, <1>8, <1>9, <1>10 DEF Write

LEMMA EditLoadKeeps ==
    ASSUME Inv, UNCHANGED planned, NEW w \in Workers, NEW kind \in {"content", "title"},
           NEW n \in Nums, NEW text \in Edits, EditLoad(w, kind, n, text)
    PROVE  Inv'
  <1>1. TypeOK /\ StreamsOK /\ RowsOK /\ task \in [Workers -> Tasks] /\ n \in Stored
    BY DEF Inv, TypeOK, EditLoad
  <1> DEFINE r == [Idle.rows EXCEPT ![n] = chapter[n]]
             t == [Idle EXCEPT !.pc = "loaded", !.kind = kind, !.todo = {n}, !.text = text,
                               !.proj = project, !.rows = r]
  <1>2. task' = [task EXCEPT ![w] = t] /\ UNCHANGED <<db, active>> /\ task[w].pc = "idle"
    BY DEF EditLoad, Idle, At
  <1>3. chapter[n] \in Chapters
    BY <1>1 DEF Stored, TypeOK
  <1>4. /\ r \in [Nums -> Chapters \cup {Nothing}] /\ r[n] = chapter[n]
        /\ \A m \in Nums : r[m] # Nothing => m = n
    BY <1>3 DEF Idle, Unread
  <1>5. t \in Tasks
    BY <1>1, <1>4 DEF Idle, Tasks, PCs, Kinds, Texts, TypeOK
  <1>6. /\ t.pc = "loaded" /\ t.kind = kind /\ t.todo = {n} /\ t.text = text
        /\ t.proj = project /\ t.rows = r
    BY DEF Idle
  <1> HIDE DEF t
  <1>7. TaskOK(t)
    <2>1. ShapeOK(t)
      BY <1>1, <1>3, <1>4, <1>6 DEF ShapeOK, Texts, TypeOK
    <2>2. ReadOK(t)
      BY <1>1, <1>4, <1>6 DEF ReadOK, Streaming, Streams, RowsOK
    <2> QED
      BY <2>1, <2>2 DEF TaskOK
  <1>8. StreamsOK'
    BY <1>1, <1>2, <1>6, StreamGoesOn DEF Streaming, Streams
  <1> QED
    BY <1>1, <1>2, <1>5, <1>7, <1>8, TaskStep DEF TypeOK

LEMMA EditHoldKeeps ==
    ASSUME Inv, UNCHANGED planned, NEW w \in Workers, EditHold(w)
    PROVE  Inv'
  <1>1. /\ TypeOK /\ StreamsOK /\ RowsOK /\ task \in [Workers -> Tasks] /\ task[w] \in Tasks
        /\ TaskOK(task[w]) /\ task[w].pc = "loaded" /\ task[w].kind = "content"
    BY DEF Inv, TypeOK, EditHold, At
  <1>2. memory \in Memories
    BY <1>1 DEF RowsOK, TaskOK, ShapeOK
  <1> DEFINE t == [task[w] EXCEPT !.pc = "held", !.mem = memory]
  <1>3. t \in Tasks
    BY <1>1, <1>2 DEF Tasks, PCs
  <1>4. task' = [task EXCEPT ![w] = t] /\ UNCHANGED <<db, active>>
    BY <1>1 DEF EditHold
  <1>5. /\ t.pc = "held" /\ t.kind = task[w].kind /\ t.todo = task[w].todo /\ t.mem = memory
        /\ t.proj = task[w].proj /\ t.text = task[w].text /\ t.rows = task[w].rows
    BY <1>1 DEF Tasks
  <1> HIDE DEF t
  <1>6. TaskOK(t)
    BY <1>1, <1>2, <1>5 DEF TaskOK, ShapeOK, ReadOK, Streaming
  <1>7. StreamsOK'
    BY <1>1, <1>4, <1>5, StreamGoesOn DEF Streaming
  <1> QED
    BY <1>1, <1>3, <1>4, <1>6, <1>7, TaskStep DEF TypeOK

LEMMA EditSaveKeeps ==
    ASSUME Inv, UNCHANGED planned, NEW w \in Workers, EditSave(w)
    PROVE  Inv' /\ Stored' = Stored
  <1>1. /\ TypeOK /\ StreamsOK /\ RowsOK /\ task \in [Workers -> Tasks] /\ task[w] \in Tasks
        /\ TaskOK(task[w]) /\ task[w].pc \in {"loaded", "held"}
        /\ task[w].pc = "loaded" => task[w].kind = "title"
        /\ ~At(w, "idle")
    BY DEF Inv, TypeOK, EditSave, At
  <1>2. Num(w) \in Nums /\ Num(w) \in task[w].todo
    BY <1>1, NumInTodo DEF Tasks, TaskOK, ShapeOK
  <1>3. PICK n : n = Num(w)
    OBVIOUS
  <1>4. PICK old : old = task[w].rows[n]
    OBVIOUS
  <1>5. PICK new : new = [text |-> IF task[w].kind = "content" THEN task[w].text ELSE old.text,
                          status |-> "edited"]
    OBVIOUS
  <1>6. PICK status : status = Completion(Cardinality(Stored), task[w].proj.total)
    OBVIOUS
  <1>7. /\ n \in Stored /\ old \in Chapters /\ chapter[n] \in Chapters
        /\ task[w].proj \in Projects /\ task[w].text \in Texts
    BY <1>1, <1>2, <1>3, <1>4 DEF TaskOK, ShapeOK, Stored, TypeOK
  <1>8. new \in Chapters /\ status \in Statuses
    BY <1>5, <1>6, <1>7 DEF Chapters, Completion, Statuses
  <1>9. /\ chapter' = [chapter EXCEPT ![n] = Updated(n, old, new)]
        /\ memory' = IF task[w].kind = "content"
                     THEN Column(task[w].mem, [task[w].mem EXCEPT ![n] = task[w].text], memory)
                     ELSE memory
        /\ project' = [project EXCEPT !.status = Column(task[w].proj.status, status, @)]
        /\ Leave(w)
    BY <1>3, <1>4, <1>5, <1>6 DEF EditSave
  <1>10. Updated(n, old, new) \in Chapters
    BY <1>7, <1>8 DEF Updated, Column, Chapters
  <1>11. Stored' = Stored
    BY <1>1, <1>7, <1>9, <1>10, NothingIsNoRow DEF Stored, TypeOK
  <1>12. memory \in Memories /\ memory' \in Memories
    <2>1. memory \in Memories
      BY <1>1, <1>7 DEF RowsOK
    <2>2. CASE task[w].kind = "content"
      <3>1. task[w].mem \in Memories
        BY <1>1, <2>2 DEF TaskOK, ShapeOK
      <3>2. [task[w].mem EXCEPT ![n] = task[w].text] \in Memories
        BY <1>2, <1>3, <1>7, <3>1 DEF Memories
      <3> QED
        BY <1>9, <2>1, <2>2, <3>2 DEF Column
    <2> QED
      BY <1>9, <2>1, <2>2
  <1>13. /\ status = "completed" => Enough'
         /\ (Enough' <=> Enough) /\ (Kept' <=> Kept)
    <2>1. task[w].proj.total \in planned
      BY <1>1, <1>7, NothingIsNoRow DEF TaskOK, ReadOK
    <2>2. status = "completed" => Cardinality(Stored) >= task[w].proj.total
      BY <1>6 DEF Completion
    <2> QED
      BY <1>11, <2>1, <2>2 DEF Enough, Kept
  <1>14. /\ project' \in Projects /\ project'.total = project.total
         /\ project'.status \in {project.status, status}
    BY <1>1, <1>7, <1>8, <1>9 DEF Column, TypeOK, Projects
  <1>15. RowsOK'
    BY <1>1, <1>11, <1>12, <1>13, <1>14 DEF RowsOK
  <1>16. StreamsOK' /\ active' \in [Processes -> BOOLEAN]
    BY <1>1, <1>9, LeaveKeepsStreams, LegacyConstants DEF Leave, TypeOK
  <1>17. task' = [task EXCEPT ![w] = Idle] /\ Idle \in Tasks
    BY <1>9, IdleOK DEF Leave
  <1>18. TypeOK'
    BY <1>1, <1>9, <1>10, <1>12, <1>14, <1>16, <1>17 DEF TypeOK
  <1>19. \A v \in Workers : TaskOK(task[v])'
    <2>1. PICK t : t = Idle
      OBVIOUS
    <2>2. TaskOK(t)'
      BY <2>1 DEF Idle, Unread, TaskOK, ShapeOK, ReadOK, Streaming
    <2> QED
      BY <1>11, <1>12, <1>17, <2>1, <2>2, OthersKeep
  <1> QED
    BY <1>11, <1>15, <1>16, <1>18, <1>19 DEF Inv

\* update_project and set_worldview: a step of the project's row alone.
LEMMA ProjectKeeps ==
    ASSUME Inv, UNCHANGED <<chapter, memory, active, task>>, project' \in Projects,
           planned \subseteq planned', planned' \in SUBSET Nums, project'.total \in planned',
           project'.status \in {project.status, "worldview_set"}
    PROVE  Inv'
  <1>1. /\ Stored' = Stored /\ (Kept' => Kept) /\ (Enough => Enough')
        /\ project.total \in planned
    <2>1. Stored' = Stored
      BY DEF Stored
    <2>2. project.total \in planned
      BY DEF Inv, RowsOK
    <2> QED
      BY <2>1, <2>2, EnoughStays DEF Kept, Inv
  <1>2. TypeOK' /\ StreamsOK'
    BY DEF Inv, TypeOK, StreamsOK, Streaming
  <1>3. RowsOK'
    BY <1>1 DEF Inv, RowsOK
  <1>4. ASSUME NEW v \in Workers
        PROVE  TaskOK(task[v])'
    <2>1. TaskOK(task[v])
      BY DEF Inv
    <2>2. ShapeOK(task[v])'
      BY <1>1, <2>1 DEF TaskOK, ShapeOK
    <2>3. ReadOK(task[v])'
      BY <1>1, <2>1 DEF TaskOK, ReadOK
    <2> QED
      BY <2>2, <2>3 DEF TaskOK
  <1> QED
    BY <1>2, <1>3, <1>4 DEF Inv

LEMMA SetTotalKeeps ==
    ASSUME Inv, NEW t \in Totals, SetTotal(t)
    PROVE  Inv'
  <1>1. project \in Projects /\ t \in Nums
    BY LegacyConstants DEF Inv, TypeOK, Nums
  <1>2. planned' = planned \cup {t} /\ planned \in SUBSET Nums
    BY DEF SetTotal, Inv, TypeOK
  <1>3. project' \in Projects /\ project'.total = t /\ project'.status = project.status
    BY <1>1 DEF SetTotal, Projects
  <1>4. UNCHANGED <<chapter, memory, active, task>>
    BY DEF SetTotal
  <1>5. planned \subseteq planned' /\ planned' \in SUBSET Nums /\ project'.total \in planned'
    BY <1>1, <1>2, <1>3
  <1> QED
    BY <1>3, <1>4, <1>5, ProjectKeeps

LEMMA SaveWorldviewKeeps ==
    ASSUME Inv, SaveWorldview
    PROVE  Inv'
  <1>1. project \in Projects
    BY DEF Inv, TypeOK
  <1>2. /\ project' \in Projects /\ project'.total = project.total
        /\ project'.status = "worldview_set"
    BY <1>1 DEF SaveWorldview, Projects, Statuses
  <1>3. /\ UNCHANGED <<planned, chapter, memory, active, task>>
        /\ planned \in SUBSET Nums /\ project.total \in planned
    BY DEF SaveWorldview, Inv, TypeOK, RowsOK
  <1>4. planned \subseteq planned' /\ planned' \in SUBSET Nums /\ project'.total \in planned'
    BY <1>2, <1>3
  <1>5. UNCHANGED <<chapter, memory, active, task>>
    BY <1>3
  <1> QED
    BY <1>2, <1>4, <1>5, ProjectKeeps

-----------------------------------------------------------------------------
(* The theorems.                                                           *)

LEMMA InitInv == Init => Inv
  <1> SUFFICES ASSUME Init PROVE Inv
    OBVIOUS
  <1>1. TypeOK
    BY LegacyConstants, IdleOK DEF Init, TypeOK, Projects, Statuses, Nums
  <1>2. \A w \in Workers : task[w] = Idle
    BY DEF Init
  <1>3. StreamsOK
    BY <1>2 DEF Init, StreamsOK, Streaming, Idle
  <1>4. RowsOK
    BY DEF Init, RowsOK, Stored, Kept
  <1>5. \A w \in Workers : TaskOK(task[w])
    BY <1>2, IdleOK
  <1> QED
    BY <1>1, <1>3, <1>4, <1>5 DEF Inv

LEMMA NextInv == Inv /\ [Next]_vars => Inv'
  <1> SUFFICES ASSUME Inv, [Next]_vars PROVE Inv'
    OBVIOUS
  <1>1. ASSUME UNCHANGED planned, NEW w \in Workers, NEW kind \in Streams, NEW n \in Nums,
               Open(w, kind, n)
        PROVE  Inv'
    BY <1>1, OpenKeeps
  <1>2. ASSUME UNCHANGED planned, NEW w \in Workers, NEW kind \in {"content", "title"},
               NEW n \in Nums, NEW text \in Edits, EditLoad(w, kind, n, text)
        PROVE  Inv'
    BY <1>2, EditLoadKeeps
  <1>3. ASSUME UNCHANGED planned, NEW w \in Workers, Handler(w)
        PROVE  Inv'
    BY <1>3, OpenBatchKeeps, BeginKeeps, StreamKeeps, SaveKeeps, WriteKeeps, EditHoldKeeps, EditSaveKeeps
       DEF Handler
  <1>4. ASSUME UNCHANGED planned, NEW w \in Workers, Drop(w)
        PROVE  Inv'
    BY <1>4, LeaveKeeps DEF Drop
  <1>5. ASSUME NEW t \in Totals, SetTotal(t)
        PROVE  Inv'
    BY <1>5, SetTotalKeeps
  <1>6. CASE SaveWorldview
    BY <1>6, SaveWorldviewKeeps
  <1>7. CASE UNCHANGED vars
    <2>1. UNCHANGED <<project, planned, chapter, memory, active, task>>
      BY <1>7 DEF vars, db
    <2> QED
      BY <2>1 DEF Inv, TypeOK, StreamsOK, Streaming, RowsOK, Stored, TaskOK, ShapeOK, ReadOK, Kept, Enough
  <1> QED
    BY <1>1, <1>2, <1>3, <1>4, <1>5, <1>6, <1>7 DEF Next

\* Inv is an invariant of every instance.
THEOREM Invariance == Spec => []Inv
  BY InitInv, NextInv, PTL DEF Spec

\* Rows, sessions and the active set have their shapes for all values of the constants.
THEOREM TypeCorrect == Spec => []TypeOK
  <1>1. Inv => TypeOK
    BY DEF Inv
  <1> QED
    BY <1>1, Invariance, PTL

\* However a stream ends, by an answer, a failure or a disconnection, it leaves the set of
\* active generations, and never are there two of one process in the project.
THEOREM OneStreamPerProcess == Spec => []ActiveIsOneStream
  <1>1. Inv => ActiveIsOneStream
    <2> SUFFICES ASSUME Inv, NEW p \in Processes
                 PROVE  Cardinality({w \in Workers : Home[w] = p /\ ~At(w, "idle")
                                                     /\ task[w].kind \in Streams})
                            = IF active[p] THEN 1 ELSE 0
      BY DEF ActiveIsOneStream
    <2> DEFINE S == {w \in Workers : Home[w] = p /\ ~At(w, "idle") /\ task[w].kind \in Streams}
    <2>1. \A w \in Workers : w \in S <=> Home[w] = p /\ Streaming(task[w])
      BY DEF Streaming, At
    <2>2. S \subseteq Workers
      OBVIOUS
    <2> HIDE DEF S
    <2>3. CASE active[p]
      <3>1. PICK w \in Workers : Home[w] = p /\ Streaming(task[w])
        BY <2>3 DEF Inv, StreamsOK
      <3>2. S = {w}
        BY <2>1, <2>2, <3>1 DEF Inv, StreamsOK
      <3>3. Cardinality({w}) = 1
        BY FS_Singleton
      <3> QED
        BY <2>3, <3>2, <3>3 DEF S
    <2>4. CASE ~active[p]
      <3>1. S = {}
        BY <2>1, <2>2, <2>4 DEF Inv, StreamsOK
      <3>2. Cardinality({}) = 0
        BY FS_EmptySet
      <3> QED
        BY <2>4, <3>1, <3>2 DEF S
    <2> QED
      BY <2>3, <2>4
  <1> QED
    BY <1>1, Invariance, PTL

\* A completed project has as many chapters as some planned number asks for, and all of them
\* if the number was never edited, whatever the sessions of its streams and edits had loaded.
THEOREM CompletedIsPlanned == Spec => []CompletedAsPlanned
  <1>1. Inv => CompletedAsPlanned
    <2> SUFFICES ASSUME Inv, project.status = "completed"
                 PROVE  Enough /\ (Kept => AllUsable)
      BY DEF CompletedAsPlanned, Enough, Kept
    <2>1. Enough
      BY DEF Inv, RowsOK
    <2>2. ASSUME Kept
          PROVE  AllUsable
      <3>1. Stored = 1 .. Total /\ project.total = Total
        BY <2>1, <2>2, EnoughIsAll DEF Inv, RowsOK, Kept
      <3> QED
        BY <3>1 DEF AllUsable
    <2> QED
      BY <2>1, <2>2
  <1> QED
    BY <1>1, Invariance, PTL

\* Only Write adds a chapter.
LEMMA OnlyWriteStores ==
    ASSUME Inv, [Next]_vars, Stored' # Stored
    PROVE  UNCHANGED planned /\ \E w \in Workers : Write(w)
  <1>1. chapter' # chapter
    BY DEF Stored
  <1>2. UNCHANGED planned => \A w \in Workers : ~EditSave(w)
    BY EditSaveKeeps
  <1>3. ASSUME NEW w \in Workers, Begin(w)
        PROVE  FALSE
    <2>1. UNCHANGED chapter
      BY <1>3 DEF Begin, db
    <2> QED
      BY <1>1, <2>1
  <1> QED
    BY <1>1, <1>2, <1>3
       DEF Next, Handler, Open, OpenBatch, Stream, Save, EditLoad, EditHold, Drop, SetTotal, SaveWorldview,
           vars, db

\* The save of the last missing chapter marks the project completed: its session cannot
\* have loaded it as completed already, so that the UPDATE holds the status.
LEMMA LastWriteCompletes ==
    ASSUME Inv, UNCHANGED planned, Kept, NEW w \in Workers, Write(w), ~AllUsable, AllUsable'
    PROVE  project'.status = "completed"
  <1>1. /\ TypeOK /\ RowsOK /\ task[w] \in Tasks /\ TaskOK(task[w]) /\ task[w].pc = "write"
        /\ project.total = Total
    BY DEF Inv, TypeOK, RowsOK, Write, At, Kept
  <1>2. Num(w) \in Nums /\ Num(w) \in task[w].todo
    BY <1>1, NumInTodo DEF Tasks, TaskOK, ShapeOK
  <1>3. PICK n : n = Num(w)
    OBVIOUS
  <1>4. PICK new : new = [text |-> task[w].text, status |-> "generated"]
    OBVIOUS
  <1>5. PICK status : status = Completion(Cardinality(Stored \cup {n}), task[w].proj.total)
    OBVIOUS
  <1>6. ~UNCHANGED db
    BY DEF db, AllUsable, Stored
  <1>7. /\ chapter' = [chapter EXCEPT ![n] = Updated(n, task[w].rows[n], new)]
        /\ project' = [project EXCEPT !.status = Column(task[w].proj.status, status, @)]
    BY <1>3, <1>4, <1>5, <1>6 DEF Write
  <1>8. project'.total = Total
    BY <1>1, <1>7 DEF TypeOK, Projects
  <1>9. Stored' \subseteq Stored \cup {n}
    BY <1>1, <1>2, <1>3, <1>7 DEF Stored, TypeOK
  <1>10. /\ Stored \cup {n} \subseteq 1 .. Total /\ task[w].proj.total = Total
         /\ task[w].proj.status # "completed"
    <2>1. task[w].proj # Nothing
      BY <1>1, NothingIsNoRow DEF TaskOK, ShapeOK
    <2>2. Stored # 1 .. Total
      BY <1>1 DEF AllUsable
    <2>3. Stored \subseteq 1 .. Total
      BY <1>1 DEF RowsOK
    <2>4. ~Enough
      BY <2>2, <2>3, EnoughIsAll
    <2> QED
      BY <1>1, <1>2, <1>3, <2>1, <2>3, <2>4 DEF TaskOK, ReadOK, Kept
  <1>11. Stored \cup {n} = 1 .. Total
    BY <1>8, <1>9, <1>10 DEF AllUsable
  <1>12. status = "completed"
    BY <1>5, <1>10, <1>11, CompletionIsFull
  <1> QED
    BY <1>1, <1>7, <1>10, <1>12 DEF Column, TypeOK, Projects

\* As long as the number of chapters is not edited, the commit that stores the last missing
\* chapter also marks the project completed, however stale its session is.
THEOREM CompletionInTime == Spec => LastSaveCompletes
  <1>1. ASSUME Inv, [Next]_vars, AllUsable', ~AllUsable, planned' = {Total}
        PROVE  project'.status = "completed"
    <2>1. Inv' /\ planned \subseteq planned'
      <3>1. planned \subseteq planned'
        BY <1>1 DEF Next, SetTotal, SaveWorldview, vars
      <3> QED
        BY <1>1, <3>1, NextInv
    <2>2. project.total = Total /\ project'.total = Total /\ Kept
      BY <1>1, <2>1 DEF Inv, RowsOK, Kept
    <2>3. Stored' # Stored
      BY <1>1, <2>2 DEF AllUsable
    <2>4. PICK w \in Workers : Write(w)
      BY <1>1, <2>3, OnlyWriteStores
    <2>5. UNCHANGED planned
      BY <1>1, <2>3, OnlyWriteStores
    <2> QED
      BY <1>1, <2>2, <2>4, <2>5, LastWriteCompletes
  <1>2. Inv /\ [Next]_vars => [LastSave]_vars
    BY <1>1 DEF LastSave
  <1> QED
    BY <1>2, Invariance, PTL DEF Spec, LastSaveCompletes

===============================================================================
