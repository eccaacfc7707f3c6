---------------------------- MODULE PlanningProofs ----------------------------
(***************************************************************************)
(* Proofs about the plan of a novel, for any finite sets of parts and      *)
(* chapters, any threads, drafts, requests and keys: what it may look like *)
(* (StoryPlanning) and how requests reach it (PlanningRequests).           *)
(***************************************************************************)
EXTENDS StoryPlanning, PlanningRequests, FiniteSetTheorems, TLAPS

-----------------------------------------------------------------------------
(* StoryPlanning.  The three properties rest on each other: positions can  *)
(* move under a thread only where nothing in force points, which           *)
(* PointersLive knows, and a chapter's place in the story is its part's    *)
(* first, which StructureWhole keeps active.  The one addition is that a   *)
(* thread that was never bound has nothing planned and nothing confirmed.  *)

UnboundIsEmpty ==
    \A t \in Threads : life[t] = "none" =>
        items[t] = {} /\ \A k \in FactKinds : fact[t][k] = None

IInv == TypeOK /\ StructureWhole /\ PointersLive /\ StoryOrder /\ UnboundIsEmpty

LEMMA InitHolds == Init => IInv
<1> SUFFICES ASSUME Init PROVE IInv
  OBVIOUS
<1>1. TypeOK BY DEF Init, TypeOK, PartRows, ChapterRows, Statuses
<1>2. StructureWhole
  BY DEF Init, StructureWhole, ActiveParts, ActiveChapters
<1>3. LiveThreads = {} BY DEF Init, LiveThreads
<1>4. PointersLive /\ StoryOrder BY <1>3 DEF Init, PointersLive, StoryOrder
<1>5. UnboundIsEmpty BY DEF Init, UnboundIsEmpty
<1> QED BY <1>1, <1>2, <1>4, <1>5 DEF IInv

-----------------------------------------------------------------------------
(* Structure *)

\* Targets in force keep their order when their own rows stay, and their parts'.
LEMMA BeforeKept ==
  ASSUME NEW a \in Targets, NEW b \in Targets,
         \A x \in {a, b} : x \in Parts => part'[x] = part[x],
         \A x \in {a, b} : x \notin Parts =>
             chapter'[x] = chapter[x] /\ part'[chapter[x].in] = part[chapter[x].in]
  PROVE  Before(part, chapter, a, b)' <=> Before(part, chapter, a, b)
  BY DEF Before

LEMMA UsesTargets ==
  ASSUME TypeOK, NEW t \in Threads
  PROVE  /\ \A i \in ActiveItems(t) : i.target \in Targets /\ Uses(t, i.target)
         /\ \A k \in FactKinds : Confirmed(t, k) =>
                fact[t][k] \in Targets /\ fact[t][k] \in Chapters /\ Uses(t, fact[t][k])
<1>1. items[t] \in SUBSET PlanItems /\ fact[t] \in [FactKinds -> Chapters \cup {None}]
  BY DEF TypeOK
<1> QED BY <1>1 DEF ActiveItems, PlanItems, Targets, Uses, Confirmed

\* A change of structure that leaves alone what threads and assignments name.
LEMMA NamedKept ==
  ASSUME IInv, UNCHANGED <<lore, life, items, fact, assigned>>,
         \A t \in LiveThreads : \A x \in Targets : Uses(t, x) =>
             /\ x \in Parts => part'[x] = part[x]
             /\ x \notin Parts => chapter'[x] = chapter[x] /\ part'[chapter[x].in] = part[chapter[x].in],
         \A t \in Threads : \A s \in assigned[t] : ScopeActive(s)'
  PROVE  PointersLive' /\ StoryOrder' /\ UnboundIsEmpty'
<1>1. LiveThreads' = LiveThreads BY DEF LiveThreads
<1>2. PointersLive'
  <2>1. ASSUME NEW t \in LiveThreads, NEW x \in Targets, Uses(t, x)' PROVE TargetActive(x)'
    <3>1. Uses(t, x) BY <2>1 DEF Uses, ActiveItems
    <3>2. TargetActive(x) BY <3>1 DEF IInv, PointersLive
    <3> QED BY <3>1, <3>2 DEF TargetActive
  <2>2. \A t \in LiveThreads : lore'[t] \in {"enabled", "disabled"} BY DEF IInv, PointersLive
  <2> QED BY <1>1, <2>1, <2>2 DEF PointersLive
<1>3. StoryOrder'
  <2> SUFFICES ASSUME NEW t \in LiveThreads
               PROVE  /\ PlansOrdered(part, chapter, t)' /\ FactsOrdered(part, chapter, t)'
                      /\ (Confirmed(t, "resolved") => Confirmed(t, "planted"))'
    BY <1>1 DEF StoryOrder
  <2>0. t \in Threads BY DEF LiveThreads
  <2>1. /\ PlansOrdered(part, chapter, t) /\ FactsOrdered(part, chapter, t)
        /\ Confirmed(t, "resolved") => Confirmed(t, "planted")
    BY DEF IInv, StoryOrder
  <2>2. \A k : Plans(t, k)' = Plans(t, k) /\ Plans(t, k) \subseteq ActiveItems(t)
    BY DEF Plans, ActiveItems
  <2>3. \A x, y \in Targets : Uses(t, x) /\ Uses(t, y) =>
          (Before(part, chapter, x, y)' <=> Before(part, chapter, x, y))
    BY BeforeKept
  <2>4. PlansOrdered(part, chapter, t)'
    BY <2>0, <2>1, <2>2, <2>3, UsesTargets DEF IInv, PlansOrdered
  <2>5. FactsOrdered(part, chapter, t)'
    BY <2>0, <2>1, <2>3, UsesTargets DEF IInv, FactsOrdered, Confirmed, FactKinds
  <2> QED BY <2>1, <2>4, <2>5 DEF Confirmed
<1>4. UnboundIsEmpty' BY DEF IInv, UnboundIsEmpty
<1> QED BY <1>2, <1>3, <1>4

\* Making and restoring nodes touches no active one.
LEMMA ActiveKept ==
  ASSUME IInv, UNCHANGED <<lore, life, items, fact, assigned>>,
         \A p \in ActiveParts : part'[p] = part[p],
         \A c \in ActiveChapters : chapter'[c] = chapter[c]
  PROVE  PointersLive' /\ StoryOrder' /\ UnboundIsEmpty'
<1>1. \A c \in ActiveChapters : chapter[c].in \in ActiveParts
  BY DEF IInv, StructureWhole, ActiveChapters, ActiveParts
<1>2. \A t \in LiveThreads : \A x \in Targets : Uses(t, x) =>
        /\ x \in Parts => x \in ActiveParts
        /\ x \notin Parts => x \in ActiveChapters
  BY DEF IInv, PointersLive, TargetActive, ActiveParts, ActiveChapters, Targets
<1>3. ASSUME NEW t \in Threads, NEW s \in assigned[t] PROVE ScopeActive(s)'
  <2>1. ScopeActive(s) BY DEF IInv, PointersLive
  <2>2. CASE s \in ActiveParts BY <2>2 DEF ScopeActive, ActiveParts
  <2>3. CASE s \in ActiveChapters BY <1>1, <2>3 DEF ScopeActive, ActiveParts, ActiveChapters
  <2> QED BY <2>1, <2>2, <2>3 DEF ScopeActive, ActiveParts, ActiveChapters
<1> QED BY <1>1, <1>2, <1>3, NamedKept

\* A part takes the next position, whatever it was before.
LEMMA PartPlaced ==
  ASSUME IInv, NEW p \in Parts, part[p].status # "active", NEW n \in 1 .. MaxPosition, NextPart(n),
         part' = [part EXCEPT ![p] = [status |-> "active", pos |-> n]],
         UNCHANGED <<chapter, lore, life, items, fact, assigned>>
  PROVE  IInv'
<1>1. n \in Nat BY PositionAssumption
<1>2. TypeOK' BY <1>1 DEF IInv, TypeOK, PartRows, Statuses
<1>3. /\ part'[p] = [status |-> "active", pos |-> n]
      /\ \A q \in Parts \ {p} : part'[q] = part[q]
  BY DEF IInv, TypeOK
<1>4. PointersLive' /\ StoryOrder' /\ UnboundIsEmpty'
  BY <1>3, ActiveKept DEF ActiveParts
<1>5. \A q \in ActiveParts : part[q].pos \in Nat /\ part[q].pos < n
  BY DEF NextPart, IsNext, IInv, TypeOK, PartRows, ActiveParts
<1>6. ActiveParts' = ActiveParts \cup {p} /\ ActiveChapters' = ActiveChapters
  BY <1>3 DEF ActiveParts, ActiveChapters
<1>7. StructureWhole'
  <2>1. \A q, r \in ActiveParts' : q # r => part'[q].pos # part'[r].pos
    BY <1>1, <1>3, <1>5, <1>6 DEF IInv, StructureWhole, ActiveParts
  <2>2. \A c \in Chapters : chapter'[c].status # "none" =>
          chapter'[c].in \in Parts /\ part'[chapter'[c].in].status = "active"
    BY <1>3 DEF IInv, StructureWhole
  <2> QED BY <1>6, <2>1, <2>2 DEF IInv, StructureWhole
<1> QED BY <1>2, <1>4, <1>7 DEF IInv

\* A chapter takes the next position of an active part.
LEMMA ChapterPlaced ==
  ASSUME IInv, NEW c \in Chapters, chapter[c].status # "active", NEW p \in Parts,
         part[p].status = "active", NEW n \in 1 .. MaxPosition, NextIn(n, p),
         NEW r \in ChapterRows, r.status = "active", r.pos = n, r.in = p,
         chapter' = [chapter EXCEPT ![c] = r],
         UNCHANGED <<part, lore, life, items, fact, assigned>>
  PROVE  IInv'
<1>1. n \in Nat BY PositionAssumption
<1>2. TypeOK' BY DEF IInv, TypeOK
<1>3. /\ chapter'[c].status = "active" /\ chapter'[c].pos = n /\ chapter'[c].in = p
      /\ \A d \in Chapters \ {c} : chapter'[d] = chapter[d]
  BY DEF IInv, TypeOK
<1>4. PointersLive' /\ StoryOrder' /\ UnboundIsEmpty'
  BY <1>3, ActiveKept DEF ActiveChapters
<1>5. \A d \in ActiveChapters : chapter[d].in = p => chapter[d].pos \in Nat /\ chapter[d].pos < n
  BY DEF NextIn, IsNext, ActiveIn, IInv, TypeOK, ChapterRows, ActiveChapters
<1>6. ActiveChapters' = ActiveChapters \cup {c} /\ ActiveParts' = ActiveParts
  BY <1>3 DEF ActiveParts, ActiveChapters
<1>7. StructureWhole'
  <2>1. \A d, e \in ActiveChapters' :
          d # e /\ chapter'[d].in = chapter'[e].in => chapter'[d].pos # chapter'[e].pos
    BY <1>1, <1>3, <1>5, <1>6 DEF IInv, StructureWhole, ActiveChapters
  <2>2. \A d \in Chapters : chapter'[d].status # "none" =>
          chapter'[d].in \in Parts /\ part'[chapter'[d].in].status = "active"
    BY <1>3 DEF IInv, StructureWhole
  <2> QED BY <1>6, <2>1, <2>2 DEF IInv, StructureWhole
<1> QED BY <1>2, <1>4, <1>7 DEF IInv

LEMMA PlacingKeeps ==
  ASSUME IInv,
         \/ \E p \in Parts : CreatePart(p) \/ RestorePart(p)
         \/ \E c \in Chapters : (\E p \in Parts : CreateChapter(c, p)) \/ RestoreChapter(c)
  PROVE  IInv'
<1>1. ASSUME NEW p \in Parts, CreatePart(p) \/ RestorePart(p) PROVE IInv'
  BY <1>1, PartPlaced DEF CreatePart, RestorePart
<1>2. ASSUME NEW c \in Chapters, NEW p \in Parts, CreateChapter(c, p) PROVE IInv'
  <2>1. PICK n \in 1 .. MaxPosition :
          /\ NextIn(n, p)
          /\ chapter' = [chapter EXCEPT ![c] = [status |-> "active", pos |-> n, in |-> p]]
    BY <1>2 DEF CreateChapter
  <2>2. [status |-> "active", pos |-> n, in |-> p] \in ChapterRows
    BY PositionAssumption DEF ChapterRows, Statuses
  <2> QED BY <1>2, <2>1, <2>2, ChapterPlaced DEF CreateChapter
<1>3. ASSUME NEW c \in Chapters, RestoreChapter(c) PROVE IInv'
  <2>1. PICK n \in 1 .. MaxPosition :
          /\ NextIn(n, chapter[c].in)
          /\ chapter' = [chapter EXCEPT ![c].status = "active", ![c].pos = n]
    BY <1>3 DEF RestoreChapter
  <2>2. /\ chapter[c] \in ChapterRows /\ chapter[c].in \in Parts /\ chapter[c].status = "archived"
        /\ part[chapter[c].in].status = "active"
    BY <1>3 DEF RestoreChapter, IInv, TypeOK, StructureWhole
  <2> DEFINE r == [chapter[c] EXCEPT !.status = "active", !.pos = n]
  <2>3. n \in Nat BY PositionAssumption
  <2>4. r \in ChapterRows BY <2>2, <2>3 DEF ChapterRows, Statuses
  <2>5. r.status = "active" /\ r.pos = n /\ r.in = chapter[c].in BY <2>2 DEF ChapterRows
  <2>6. chapter' = [chapter EXCEPT ![c] = r] BY <2>1
  <2> HIDE DEF r
  <2>7. chapter[c].status # "active" BY <2>2
  <2>8. UNCHANGED <<part, lore, life, items, fact, assigned>> BY <1>3 DEF RestoreChapter
  <2>9. PICK p \in Parts : p = chapter[c].in BY <2>2
  <2>10. part[p].status = "active" /\ NextIn(n, p) /\ r.in = p BY <2>1, <2>2, <2>5, <2>9
  <2> QED BY <2>4, <2>5, <2>6, <2>7, <2>8, <2>10, ChapterPlaced
<1> QED BY <1>1, <1>2, <1>3

LEMMA ArchivingKeeps ==
  ASSUME IInv, (\E p \in Parts : ArchivePart(p)) \/ (\E c \in Chapters : ArchiveChapter(c))
  PROVE  IInv'
<1>1. ASSUME NEW p \in Parts, ArchivePart(p) PROVE IInv'
  <2>1. /\ part'[p] = [part[p] EXCEPT !.status = "archived"] /\ part[p] \in PartRows
        /\ \A q \in Parts \ {p} : part'[q] = part[q]
        /\ UNCHANGED <<chapter, lore, life, items, fact, assigned>>
    BY <1>1 DEF ArchivePart, IInv, TypeOK
  <2>2. part'[p].status = "archived" /\ part'[p] \in PartRows
    BY <2>1 DEF PartRows, Statuses
  <2>3. TypeOK' BY <1>1, <2>1, <2>2 DEF ArchivePart, IInv, TypeOK
  <2>4. \A c \in Chapters : chapter[c].in # p BY <1>1 DEF ArchivePart, Emptied
  <2>5. ActiveParts' = ActiveParts \ {p} /\ ActiveChapters' = ActiveChapters
    BY <2>1, <2>2 DEF ActiveParts, ActiveChapters
  <2>6. StructureWhole'
    BY <2>1, <2>4, <2>5 DEF IInv, StructureWhole, ActiveParts
  <2>7. \A t \in LiveThreads : \A x \in Targets : Uses(t, x) =>
          /\ x \in Parts => part'[x] = part[x]
          /\ x \notin Parts => chapter'[x] = chapter[x] /\ part'[chapter[x].in] = part[chapter[x].in]
    <3> SUFFICES ASSUME NEW t \in LiveThreads, NEW x \in Targets, Uses(t, x)
                 PROVE  /\ x \in Parts => part'[x] = part[x]
                        /\ x \notin Parts => chapter'[x] = chapter[x] /\ part'[chapter[x].in] = part[chapter[x].in]
      OBVIOUS
    <3>1. x # p BY <1>1 DEF ArchivePart, UsedByThread
    <3>2. x \notin Parts => x \in Chapters /\ chapter[x].in \in Parts
      BY DEF IInv, PointersLive, TargetActive, StructureWhole, Targets
    <3> QED BY <2>1, <2>4, <3>1, <3>2
  <2>8. ASSUME NEW t \in Threads, NEW s \in assigned[t] PROVE ScopeActive(s)'
    <3>1. ScopeActive(s) /\ s # p BY <1>1 DEF IInv, PointersLive, ArchivePart, Assigned
    <3>2. s \in Chapters /\ chapter[s].status = "active" => chapter[s].in \in Parts \ {p}
      BY <2>4 DEF IInv, StructureWhole
    <3> QED BY <2>1, <3>1, <3>2, NodeAssumption DEF ScopeActive
  <2> QED BY <2>1, <2>3, <2>6, <2>7, <2>8, NamedKept DEF IInv
<1>2. ASSUME NEW c \in Chapters, ArchiveChapter(c) PROVE IInv'
  <2>1. /\ chapter'[c] = [chapter[c] EXCEPT !.status = "archived"] /\ chapter[c] \in ChapterRows
        /\ chapter[c].status = "active"
        /\ \A d \in Chapters \ {c} : chapter'[d] = chapter[d]
        /\ UNCHANGED <<part, lore, life, items, fact, assigned>>
    BY <1>2 DEF ArchiveChapter, IInv, TypeOK
  <2>2. chapter'[c].status = "archived" /\ chapter'[c] \in ChapterRows /\ chapter'[c].in = chapter[c].in
    BY <2>1 DEF ChapterRows, Statuses
  <2>3. TypeOK' BY <1>2, <2>1, <2>2 DEF ArchiveChapter, IInv, TypeOK
  <2>4. ActiveParts' = ActiveParts /\ ActiveChapters' = ActiveChapters \ {c}
    BY <2>1, <2>2 DEF ActiveParts, ActiveChapters
  <2>5. StructureWhole'
    <3>1. \A d \in Chapters : /\ chapter'[d].in = chapter[d].in
                              /\ chapter'[d].status # "none" => chapter[d].status # "none"
      BY <2>1, <2>2
    <3>2. \A d \in ActiveChapters' : d \in ActiveChapters /\ chapter'[d].pos = chapter[d].pos
      BY <2>1, <2>4 DEF ActiveChapters
    <3>3. \A d, e \in ActiveChapters' :
            d # e /\ chapter'[d].in = chapter'[e].in => chapter'[d].pos # chapter'[e].pos
      BY <3>1, <3>2 DEF IInv, StructureWhole, ActiveChapters
    <3>4. \A d \in Chapters : chapter'[d].status # "none" =>
            chapter'[d].in \in Parts /\ part'[chapter'[d].in].status = "active"
      BY <2>1, <3>1 DEF IInv, StructureWhole
    <3> QED BY <2>1, <2>4, <3>3, <3>4 DEF IInv, StructureWhole
  <2>6. \A t \in LiveThreads : \A x \in Targets : Uses(t, x) =>
          /\ x \in Parts => part'[x] = part[x]
          /\ x \notin Parts => chapter'[x] = chapter[x] /\ part'[chapter[x].in] = part[chapter[x].in]
    BY <1>2, <2>1 DEF ArchiveChapter, UsedByThread, Targets
  <2>7. ASSUME NEW t \in Threads, NEW s \in assigned[t] PROVE ScopeActive(s)'
    <3>1. ScopeActive(s) /\ s # c BY <1>2 DEF IInv, PointersLive, ArchiveChapter, Assigned
    <3> QED BY <2>1, <3>1 DEF ScopeActive
  <2> QED BY <2>1, <2>3, <2>5, <2>6, <2>7, NamedKept DEF IInv
<1> QED BY <1>1, <1>2

LEMMA ReorderKeeps ==
  ASSUME IInv, Reorder
  PROVE  IInv'
<1>1. PICK f \in PartOrders, g \in Placings :
        /\ part' = [p \in Parts |-> IF p \in ActiveParts THEN [part[p] EXCEPT !.pos = f[p]] ELSE part[p]]
        /\ chapter' = [c \in Chapters |->
                IF c \in ActiveChapters
                THEN [chapter[c] EXCEPT !.pos = g[c][2], !.in = g[c][1]] ELSE chapter[c]]
        /\ OrderKept(part', chapter')
  BY DEF Reorder
<1>2. UNCHANGED <<lore, life, items, fact, assigned>> BY DEF Reorder
<1>3. Cardinality(ActiveParts) \in Nat /\ Cardinality(ActiveChapters) \in Nat
  <2>1. IsFiniteSet(ActiveParts) /\ IsFiniteSet(ActiveChapters)
    BY NodeAssumption, FS_Subset DEF ActiveParts, ActiveChapters
  <2> QED BY <2>1, FS_CardinalityType
<1>4. \A p \in ActiveParts : f[p] \in Nat BY <1>3 DEF PartOrders
<1>5. \A c \in ActiveChapters : g[c][1] \in ActiveParts /\ g[c][2] \in Nat BY <1>3 DEF Placings
<1>6. \A p \in Parts :
        /\ part'[p] \in PartRows /\ part'[p].status = part[p].status
        /\ p \in ActiveParts => part'[p].pos = f[p]
        /\ p \notin ActiveParts => part'[p] = part[p]
  <2>1. \A p \in Parts : part[p] \in PartRows BY DEF IInv, TypeOK
  <2>2. \A p \in ActiveParts : LET r == [part[p] EXCEPT !.pos = f[p]] IN
          r \in PartRows /\ r.status = part[p].status /\ r.pos = f[p]
    BY <1>4, <2>1 DEF PartRows, ActiveParts
  <2> QED BY <1>1, <2>1, <2>2
<1>7. \A c \in Chapters :
        /\ chapter'[c] \in ChapterRows /\ chapter'[c].status = chapter[c].status
        /\ c \in ActiveChapters => chapter'[c].pos = g[c][2] /\ chapter'[c].in = g[c][1]
        /\ c \notin ActiveChapters => chapter'[c] = chapter[c]
  <2>1. \A c \in Chapters : chapter[c] \in ChapterRows BY DEF IInv, TypeOK
  <2>2. \A c \in ActiveChapters :
          LET r == [chapter[c] EXCEPT !.pos = g[c][2], !.in = g[c][1]] IN
          r \in ChapterRows /\ r.status = chapter[c].status /\ r.pos = g[c][2] /\ r.in = g[c][1]
    BY <1>5, <2>1 DEF ChapterRows, ActiveChapters, ActiveParts
  <2> QED BY <1>1, <2>1, <2>2
<1>8. ActiveParts' = ActiveParts /\ ActiveChapters' = ActiveChapters
  BY <1>6, <1>7 DEF ActiveParts, ActiveChapters
<1>9. TypeOK' BY <1>1, <1>2, <1>6, <1>7 DEF IInv, TypeOK
<1>10. StructureWhole'
  <2>1. \A p, q \in ActiveParts : p # q => part'[p].pos # part'[q].pos
    BY <1>6 DEF PartOrders, ActiveParts
  <2>2. \A c, d \in ActiveChapters :
          c # d /\ chapter'[c].in = chapter'[d].in => chapter'[c].pos # chapter'[d].pos
    <3> SUFFICES ASSUME NEW c \in ActiveChapters, NEW d \in ActiveChapters,
                        c # d, chapter'[c].in = chapter'[d].in
                 PROVE  chapter'[c].pos # chapter'[d].pos
      OBVIOUS
    <3>1. c \in Chapters /\ d \in Chapters BY DEF ActiveChapters
    <3>2. g[d][1] = g[c][1] BY <1>7, <3>1
    <3>3. d \in {e \in ActiveChapters : g[e][1] = g[c][1]} \ {c} BY <3>2
    <3>4. g[d][2] # g[c][2] BY <3>3 DEF Placings
    <3> QED BY <1>7, <3>1, <3>4
  <2>3. \A c \in Chapters : chapter'[c].status # "none" =>
          chapter'[c].in \in Parts /\ part'[chapter'[c].in].status = "active"
    BY <1>5, <1>6, <1>7 DEF IInv, StructureWhole, ActiveParts
  <2> QED BY <1>8, <2>1, <2>2, <2>3 DEF StructureWhole
<1>11. PointersLive'
  <2>1. \A x \in Targets : TargetActive(x) => TargetActive(x)'
    BY <1>6, <1>7 DEF TargetActive, Targets
  <2>2. \A s : ScopeActive(s) => ScopeActive(s)'
    <3> SUFFICES ASSUME NEW s, ScopeActive(s) PROVE ScopeActive(s)'
      OBVIOUS
    <3>1. CASE s \in Parts BY <1>6, <3>1, NodeAssumption DEF ScopeActive
    <3>2. CASE s \in Chapters /\ chapter[s].status = "active"
      BY <1>5, <1>6, <1>7, <3>2 DEF ScopeActive, ActiveChapters, ActiveParts
    <3> QED BY <3>1, <3>2 DEF ScopeActive
  <2> QED BY <1>2, <2>1, <2>2 DEF IInv, PointersLive, LiveThreads, Uses, ActiveItems
<1>12. StoryOrder'
  <2>1. \A t \in LiveThreads : PlansOrdered(part', chapter', t) /\ FactsOrdered(part', chapter', t)
    BY <1>1 DEF OrderKept
  <2>2. \A t : /\ PlansOrdered(part, chapter, t)' <=> PlansOrdered(part', chapter', t)
               /\ FactsOrdered(part, chapter, t)' <=> FactsOrdered(part', chapter', t)
               /\ \A k : Confirmed(t, k)' <=> Confirmed(t, k)
    BY <1>2 DEF PlansOrdered, FactsOrdered, Plans, ActiveItems, Confirmed
  <2>3. LiveThreads' = LiveThreads BY <1>2 DEF LiveThreads
  <2> QED BY <2>1, <2>2, <2>3 DEF IInv, StoryOrder
<1>13. UnboundIsEmpty' BY <1>2 DEF IInv, UnboundIsEmpty
<1> QED BY <1>9, <1>10, <1>11, <1>12, <1>13 DEF IInv
-----------------------------------------------------------------------------
(* Lore *)

\* What a change of the lore and its assignments has to see to.
LEMMA LoreKept ==
  ASSUME IInv, UNCHANGED <<part, chapter, life, items, fact>>,
         lore' \in [Threads -> {"enabled", "disabled", "archived", "merged"}],
         assigned' \in [Threads -> SUBSET Targets],
         \A t \in LiveThreads : lore'[t] \in {"enabled", "disabled"},
         \A t \in Threads : \A s \in assigned'[t] : ScopeActive(s)
  PROVE  IInv'
<1>1. TypeOK' BY DEF IInv, TypeOK
<1>2. StructureWhole' BY DEF IInv, StructureWhole, ActiveParts, ActiveChapters
<1>3. LiveThreads' = LiveThreads BY DEF LiveThreads
<1>4. \A t, x : Uses(t, x)' <=> Uses(t, x) BY DEF Uses, ActiveItems
<1>5. \A x : (TargetActive(x)' <=> TargetActive(x)) /\ (ScopeActive(x)' <=> ScopeActive(x))
  BY DEF TargetActive, ScopeActive
<1>6. PointersLive' BY <1>3, <1>4, <1>5 DEF IInv, PointersLive
<1>7. \A t : /\ PlansOrdered(part, chapter, t)' <=> PlansOrdered(part, chapter, t)
             /\ FactsOrdered(part, chapter, t)' <=> FactsOrdered(part, chapter, t)
             /\ \A k : Confirmed(t, k)' <=> Confirmed(t, k)
  BY DEF PlansOrdered, FactsOrdered, Plans, ActiveItems, Confirmed
<1>8. StoryOrder' BY <1>3, <1>7 DEF IInv, StoryOrder
<1>9. UnboundIsEmpty' BY DEF IInv, UnboundIsEmpty
<1> QED BY <1>1, <1>2, <1>6, <1>8, <1>9 DEF IInv

LEMMA LoreStepKeeps ==
  ASSUME IInv, LoreStep
  PROVE  IInv'
<1> USE DEF IInv
<1>1. PICK t \in Threads :
        \/ \E s \in Targets : Assign(t, s) \/ Unassign(t, s)
        \/ EnableLore(t) \/ DisableLore(t) \/ ArchiveLore(t) \/ MergeLore(t) \/ RestoreLore(t)
  BY DEF LoreStep
<1>2. UNCHANGED <<part, chapter, life, items, fact>>
  BY <1>1 DEF Assign, Unassign, EnableLore, DisableLore, ArchiveLore, MergeLore, RestoreLore
<1>3. /\ \A u \in Threads : \A s \in assigned[u] : ScopeActive(s)
      /\ \A u \in LiveThreads : lore[u] \in {"enabled", "disabled"}
  BY DEF PointersLive
<1>4. CASE \E s \in Targets : Assign(t, s) \/ Unassign(t, s)
  <2>1. PICK s \in Targets : Assign(t, s) \/ Unassign(t, s) BY <1>4
  <2>2. /\ assigned'[t] \in SUBSET Targets
        /\ \A x \in assigned'[t] : ScopeActive(x)
        /\ assigned' = [assigned EXCEPT ![t] = assigned'[t]]
    BY <1>3, <2>1 DEF Assign, Unassign, TypeOK
  <2>3. \A u \in Threads : \A x \in assigned'[u] : ScopeActive(x) BY <1>3, <2>2 DEF TypeOK
  <2>4. lore' = lore BY <2>1 DEF Assign, Unassign
  <2>5. assigned' \in [Threads -> SUBSET Targets] BY <2>2 DEF TypeOK
  <2> QED BY <1>2, <1>3, <2>3, <2>4, <2>5, LoreKept DEF TypeOK
<1>5. CASE EnableLore(t) \/ DisableLore(t) \/ ArchiveLore(t) \/ MergeLore(t) \/ RestoreLore(t)
  <2>1. assigned' = assigned /\ lore' \in [Threads -> {"enabled", "disabled", "archived", "merged"}]
    BY <1>5 DEF EnableLore, DisableLore, ArchiveLore, MergeLore, RestoreLore, TypeOK
  <2>2. \A u \in LiveThreads : lore'[u] \in {"enabled", "disabled"}
    <3> SUFFICES ASSUME NEW u \in LiveThreads PROVE lore'[u] \in {"enabled", "disabled"}
      OBVIOUS
    <3>1. u \in Threads /\ life[u] = "active" BY DEF LiveThreads
    <3>2. CASE u # t
      BY <1>3, <1>5, <3>1, <3>2 DEF EnableLore, DisableLore, ArchiveLore, MergeLore, RestoreLore, TypeOK
    <3>3. CASE u = t
      BY <1>5, <3>1, <3>3 DEF EnableLore, DisableLore, ArchiveLore, MergeLore, RestoreLore, TypeOK
    <3> QED BY <3>2, <3>3
  <2> QED BY <1>2, <1>3, <2>1, <2>2, LoreKept DEF TypeOK
<1> QED BY <1>1, <1>4, <1>5

-----------------------------------------------------------------------------
(* Threads *)

\* What a step of one thread has to see to: that thread, if it is active then.
LEMMA OneThread ==
  ASSUME IInv, NEW t \in Threads, UNCHANGED <<part, chapter, lore, assigned>>,
         TypeOK',
         \A u \in Threads \ {t} : life'[u] = life[u] /\ items'[u] = items[u] /\ fact'[u] = fact[u],
         life'[t] = "none" => items'[t] = {} /\ \A k \in FactKinds : fact'[t][k] = None,
         life'[t] = "active" =>
             /\ lore[t] \in {"enabled", "disabled"}
             /\ \A x \in Targets : Uses(t, x)' => TargetActive(x)
             /\ PlansOrdered(part, chapter, t)'
             /\ FactsOrdered(part, chapter, t)'
             /\ (Confirmed(t, "resolved") => Confirmed(t, "planted"))'
  PROVE  IInv'
<1>2. StructureWhole' BY DEF IInv, StructureWhole, ActiveParts, ActiveChapters
<1>3. \A u \in LiveThreads' : u # t => u \in LiveThreads BY DEF LiveThreads
<1>4. \A u \in Threads \ {t} : ActiveItems(u)' = ActiveItems(u) BY DEF ActiveItems
<1>5. \A x : (TargetActive(x)' <=> TargetActive(x)) /\ (ScopeActive(x)' <=> ScopeActive(x))
  BY DEF TargetActive, ScopeActive
<1>6. \A u \in Threads \ {t} :
        /\ \A x : Uses(u, x)' <=> Uses(u, x)
        /\ PlansOrdered(part, chapter, u)' <=> PlansOrdered(part, chapter, u)
        /\ FactsOrdered(part, chapter, u)' <=> FactsOrdered(part, chapter, u)
        /\ \A k : Confirmed(u, k)' <=> Confirmed(u, k)
  BY <1>4 DEF Uses, PlansOrdered, FactsOrdered, Plans, Confirmed
<1>7. LiveThreads' \subseteq Threads /\ (t \in LiveThreads' => life'[t] = "active") BY DEF LiveThreads
<1>8. PointersLive'
  <2>1. \A u \in LiveThreads' : /\ lore'[u] \in {"enabled", "disabled"}
                                /\ \A x \in Targets : Uses(u, x)' => TargetActive(x)'
    BY <1>3, <1>5, <1>6, <1>7 DEF IInv, PointersLive
  <2>2. \A u \in Threads : \A s \in assigned'[u] : ScopeActive(s)' BY <1>5 DEF IInv, PointersLive
  <2> QED BY <2>1, <2>2 DEF PointersLive
<1>9. StoryOrder' BY <1>3, <1>6, <1>7 DEF IInv, StoryOrder
<1>10. UnboundIsEmpty' BY DEF IInv, UnboundIsEmpty
<1> QED BY <1>2, <1>8, <1>9, <1>10 DEF IInv

\* What is known of an active thread.
LEMMA LiveThread ==
  ASSUME IInv, NEW t \in Threads, life[t] = "active"
  PROVE  /\ lore[t] \in {"enabled", "disabled"}
         /\ \A x \in Targets : Uses(t, x) => TargetActive(x)
         /\ PlansOrdered(part, chapter, t) /\ FactsOrdered(part, chapter, t)
         /\ Confirmed(t, "resolved") => Confirmed(t, "planted")
  BY DEF IInv, PointersLive, StoryOrder, LiveThreads

LEMMA LifeKeeps ==
  ASSUME IInv, NEW t \in Threads, Bind(t) \/ ArchiveThread(t) \/ RestoreThread(t)
  PROVE  IInv'
<1>1. UNCHANGED <<part, chapter, lore, assigned, items, fact>>
  BY DEF Bind, ArchiveThread, RestoreThread
<1>2. TypeOK' BY <1>1 DEF IInv, TypeOK, Bind, ArchiveThread, RestoreThread, Statuses
<1>3. \A u \in Threads \ {t} : life'[u] = life[u]
  BY DEF IInv, TypeOK, Bind, ArchiveThread, RestoreThread
<1>4. life'[t] # "none" BY DEF IInv, TypeOK, Bind, ArchiveThread, RestoreThread
<1>5. /\ \A x : Uses(t, x)' <=> Uses(t, x)
      /\ PlansOrdered(part, chapter, t)' <=> PlansOrdered(part, chapter, t)
      /\ FactsOrdered(part, chapter, t)' <=> FactsOrdered(part, chapter, t)
      /\ \A k : Confirmed(t, k)' <=> Confirmed(t, k)
  BY <1>1 DEF Uses, PlansOrdered, FactsOrdered, Plans, ActiveItems, Confirmed
<1>6. CASE Bind(t)
  <2>1. items[t] = {} /\ \A k \in FactKinds : fact[t][k] = None
    BY <1>6 DEF Bind, IInv, UnboundIsEmpty
  <2>2. ~Confirmed(t, "resolved") /\ ActiveItems(t) = {}
    BY <2>1 DEF Confirmed, FactKinds, ActiveItems
  <2>3. PlansOrdered(part, chapter, t) /\ FactsOrdered(part, chapter, t)
    BY <2>2 DEF PlansOrdered, FactsOrdered, Plans
  <2>4. \A x \in Targets : ~Uses(t, x)
    BY <2>1, <2>2, NodeAssumption DEF Uses, Targets
  <2>5. lore[t] = "enabled" BY <1>6 DEF Bind, Eligible
  <2> QED BY <1>1, <1>2, <1>3, <1>4, <1>5, <2>2, <2>3, <2>4, <2>5, OneThread
<1>7. CASE ArchiveThread(t)
  <2>1. life'[t] = "archived" BY <1>7 DEF ArchiveThread, IInv, TypeOK
  <2> QED BY <1>1, <1>2, <1>3, <2>1, OneThread
<1>8. CASE RestoreThread(t)
  <2>1. Restorable(t) /\ lore[t] = "enabled" BY <1>8 DEF RestoreThread, Eligible
  <2>2. \A x \in Targets : Uses(t, x) => TargetActive(x)
    BY <2>1, NodeAssumption DEF Restorable, Uses, Confirmed, Targets
  <2>3. PlansOrdered(part, chapter, t) /\ FactsOrdered(part, chapter, t)
        /\ (Confirmed(t, "resolved") => Confirmed(t, "planted"))
    BY <2>1 DEF Restorable
  <2> QED BY <1>1, <1>2, <1>3, <1>4, <1>5, <2>1, <2>2, <2>3, OneThread
<1> QED BY <1>6, <1>7, <1>8
LEMMA PlanAdded ==
  ASSUME IInv, NEW t \in Threads, NEW i \in PlanItems, i.status = "active",
         Plannable(t, i.kind, i.target),
         UNCHANGED <<part, chapter, lore, life, fact, assigned>>,
         TypeOK', \A u \in Threads \ {t} : items'[u] = items[u],
         ActiveItems(t)' = ActiveItems(t) \cup {i}
  PROVE  IInv'
<1>1. life[t] = "active" /\ TargetActive(i.target) /\ i.target \in Targets
      /\ Placeable(t, i.kind, i.target) /\ Plans(t, i.kind) = {}
  BY DEF Plannable, PlanItems
<1>2. \A x : Uses(t, x)' => Uses(t, x) \/ x = i.target BY DEF Uses
<1>3. PlansOrdered(part, chapter, t)'
  <2> SUFFICES ASSUME NEW a \in Plans(t, "plant")', NEW b \in Plans(t, "resolve")'
               PROVE  Before(part, chapter, a.target, b.target)
    BY DEF PlansOrdered
  <2>1. a = i \/ a \in Plans(t, "plant") BY DEF Plans
  <2>2. b = i \/ b \in Plans(t, "resolve") BY DEF Plans
  <2>3. a.kind = "plant" /\ b.kind = "resolve" BY DEF Plans
  <2>4. CASE a = i
    <3>1. b \in Plans(t, "resolve") BY <2>2, <2>3, <2>4
    <3> QED BY <1>1, <2>3, <2>4, <3>1 DEF Placeable
  <2>5. CASE b = i
    <3>1. a \in Plans(t, "plant") BY <2>1, <2>3, <2>5
    <3> QED BY <1>1, <2>3, <2>5, <3>1 DEF Placeable
  <2>6. CASE a \in Plans(t, "plant") /\ b \in Plans(t, "resolve")
    BY <1>1, <2>6, LiveThread DEF PlansOrdered
  <2> QED BY <2>1, <2>2, <2>4, <2>5, <2>6
<1>4. /\ FactsOrdered(part, chapter, t)' <=> FactsOrdered(part, chapter, t)
      /\ \A k : Confirmed(t, k)' <=> Confirmed(t, k)
  BY DEF FactsOrdered, Confirmed
<1> QED BY <1>1, <1>2, <1>3, <1>4, LiveThread, OneThread

LEMMA PlansKeep ==
  ASSUME IInv, NEW t \in Threads,
         \/ \E k \in Actions, x \in Targets : CreatePlan(t, k, x)
         \/ \E i \in items[t] : CancelPlan(t, i) \/ RestorePlan(t, i)
  PROVE  IInv'
<1>0. items \in [Threads -> SUBSET PlanItems] BY DEF IInv, TypeOK
<1>1. ASSUME NEW k \in Actions, NEW x \in Targets, CreatePlan(t, k, x) PROVE IInv'
  <2>1. PICK i \in PlanItems : i = [kind |-> k, target |-> x, status |-> "active"] BY DEF PlanItems
  <2>2. /\ items' = [items EXCEPT ![t] = @ \cup {i}]
        /\ UNCHANGED <<part, chapter, lore, life, fact, assigned>> /\ Plannable(t, i.kind, i.target)
    BY <1>1, <2>1 DEF CreatePlan
  <2>3. TypeOK' BY <2>2 DEF IInv, TypeOK
  <2>4. ActiveItems(t)' = ActiveItems(t) \cup {i} BY <1>0, <2>1, <2>2 DEF ActiveItems
  <2> QED BY <1>0, <2>1, <2>2, <2>3, <2>4, PlanAdded
<1>2. ASSUME NEW i \in items[t], RestorePlan(t, i) PROVE IInv'
  <2>1. i \in PlanItems BY <1>0
  <2> DEFINE j == [i EXCEPT !.status = "active"]
  <2>2. j \in PlanItems /\ j.kind = i.kind /\ j.target = i.target /\ j.status = "active"
    BY <2>1 DEF PlanItems
  <2>3. /\ items' = [items EXCEPT ![t] = (@ \ {i}) \cup {j}] /\ i.status # "active"
        /\ UNCHANGED <<part, chapter, lore, life, fact, assigned>> /\ Plannable(t, j.kind, j.target)
    BY <1>2, <2>2 DEF RestorePlan, ActiveItems
  <2> HIDE DEF j
  <2>4. TypeOK' BY <2>2, <2>3 DEF IInv, TypeOK
  <2>5. ActiveItems(t)' = ActiveItems(t) \cup {j} BY <1>0, <2>2, <2>3 DEF ActiveItems
  <2> QED BY <1>0, <2>2, <2>3, <2>4, <2>5, PlanAdded
<1>3. ASSUME NEW i \in items[t], CancelPlan(t, i) PROVE IInv'
  <2>1. i \in PlanItems BY <1>0
  <2> DEFINE j == [i EXCEPT !.status = "cancelled"]
  <2>2. j \in PlanItems /\ j.status = "cancelled"
    BY <2>1 DEF PlanItems
  <2>3. /\ items' = [items EXCEPT ![t] = (@ \ {i}) \cup {j}] /\ i \in ActiveItems(t)
        /\ UNCHANGED <<part, chapter, lore, life, fact, assigned>>
    BY <1>3, <2>2 DEF CancelPlan
  <2> HIDE DEF j
  <2>4. TypeOK' BY <2>2, <2>3 DEF IInv, TypeOK
  <2>5. ActiveItems(t)' \subseteq ActiveItems(t) BY <1>0, <2>2, <2>3 DEF ActiveItems
  <2>6. life[t] # "none"
    BY <2>3 DEF IInv, UnboundIsEmpty, ActiveItems
  <2>7. ASSUME life[t] = "active"
        PROVE  PlansOrdered(part, chapter, t)'
    BY <2>3, <2>5, <2>7, LiveThread DEF PlansOrdered, Plans
  <2>8. /\ \A x : Uses(t, x)' => Uses(t, x)
        /\ FactsOrdered(part, chapter, t)' <=> FactsOrdered(part, chapter, t)
        /\ \A k : Confirmed(t, k)' <=> Confirmed(t, k)
    BY <2>3, <2>5 DEF Uses, FactsOrdered, Confirmed
  <2>9. \A u \in Threads \ {t} : items'[u] = items[u] BY <1>0, <2>3
  <2> QED BY <2>3, <2>4, <2>6, <2>7, <2>8, <2>9, LiveThread, OneThread
<1> QED BY <1>1, <1>2, <1>3

LEMMA FactsKeep ==
  ASSUME IInv, NEW t \in Threads,
         \/ \E c \in Chapters : RecordPlanted(t, c) \/ RecordResolved(t, c)
         \/ \E k \in FactKinds : RetractFact(t, k)
  PROVE  IInv'
<1>0. fact \in [Threads -> [FactKinds -> Chapters \cup {None}]] BY DEF IInv, TypeOK
<1>1. UNCHANGED <<part, chapter, lore, life, items, assigned>>
  BY DEF RecordPlanted, RecordResolved, RetractFact
<1>2. PICK k \in FactKinds, z \in Chapters \cup {None} : fact' = [fact EXCEPT ![t][k] = z]
  BY DEF RecordPlanted, RecordResolved, RetractFact, FactKinds
<1>3. TypeOK'
  <2>1. fact' \in [Threads -> [FactKinds -> Chapters \cup {None}]] BY <1>0, <1>2
  <2> QED BY <1>1, <2>1 DEF IInv, TypeOK
<1>4. \A u \in Threads \ {t} : fact'[u] = fact[u] BY <1>0, <1>2
<1>5. PlansOrdered(part, chapter, t)' <=> PlansOrdered(part, chapter, t)
  BY <1>1 DEF PlansOrdered, Plans, ActiveItems
<1>6. life[t] # "none"
  BY <1>0 DEF IInv, UnboundIsEmpty, RecordPlanted, RecordResolved, RetractFact, Confirmed
<1>7. ASSUME NEW c \in Chapters, RecordPlanted(t, c) \/ RecordResolved(t, c) PROVE IInv'
  <2>1. life[t] = "active" /\ TargetActive(c) /\ ~Confirmed(t, "resolved")
    BY <1>7 DEF RecordPlanted, RecordResolved
  <2>2. \A y : Uses(t, y)' => Uses(t, y) \/ y = c
    BY <1>0, <1>1, <1>7 DEF Uses, ActiveItems, RecordPlanted, RecordResolved, FactKinds
  <2>3. /\ FactsOrdered(part, chapter, t)'
        /\ (Confirmed(t, "resolved") => Confirmed(t, "planted"))'
    BY <1>0, <1>1, <1>7, <2>1 DEF FactsOrdered, Confirmed, RecordPlanted, RecordResolved, FactKinds
  <2> QED BY <1>1, <1>3, <1>4, <1>5, <2>1, <2>2, <2>3, LiveThread, OneThread
<1>8. ASSUME NEW j \in FactKinds, RetractFact(t, j) PROVE IInv'
  <2>1. fact'[t][j] = None /\ \A l \in FactKinds \ {j} : fact'[t][l] = fact[t][l]
    BY <1>0, <1>8 DEF RetractFact
  <2>2. \A x \in Targets : Uses(t, x)' => Uses(t, x)
    BY <1>1, <2>1, NodeAssumption DEF Uses, ActiveItems, Targets
  <2>3. ASSUME life[t] = "active"
        PROVE  /\ FactsOrdered(part, chapter, t)'
               /\ (Confirmed(t, "resolved") => Confirmed(t, "planted"))'
    BY <1>1, <1>8, <2>1, <2>3, LiveThread DEF FactsOrdered, Confirmed, RetractFact, FactKinds
  <2> QED BY <1>1, <1>3, <1>4, <1>5, <1>6, <2>2, <2>3, LiveThread, OneThread
<1> QED BY <1>7, <1>8

-----------------------------------------------------------------------------
LEMMA StepHolds == IInv /\ [Next]_vars => IInv'
<1> SUFFICES ASSUME IInv, [Next]_vars PROVE IInv'
  OBVIOUS
<1>1. CASE Structure
  BY <1>1, PlacingKeeps, ArchivingKeeps, ReorderKeeps DEF Structure
<1>2. CASE LoreStep BY <1>2, LoreStepKeeps
<1>3. CASE ThreadStep
  BY <1>3, LifeKeeps, PlansKeep, FactsKeep DEF ThreadStep
<1>4. CASE UNCHANGED vars
  <2>1. /\ UNCHANGED <<part, chapter, life, items, fact>>
        /\ lore' = lore /\ assigned' = assigned
    BY <1>4 DEF vars
  <2> QED BY <2>1, LoreKept DEF IInv, TypeOK, PointersLive
<1> QED BY <1>1, <1>2, <1>3, <1>4 DEF Next

LEMMA Invariance == Spec => []IInv
<1> QED BY InitHolds, StepHolds, PTL DEF Spec

\* Every row, plan, fact and assignment is one the tables can hold: positions
\* are natural numbers, and facts are confirmed in chapters only.
THEOREM TypeCorrect == Spec => []TypeOK
<1>1. IInv => TypeOK BY DEF IInv
<1> QED BY <1>1, Invariance, PTL

\* Siblings in force never share a position, and every chapter lies in an
\* active part, for any number of parts and chapters and every reorder.
THEOREM StructureStays == Spec => []StructureWhole
<1>1. IInv => StructureWhole BY DEF IInv
<1> QED BY <1>1, Invariance, PTL

\* What an active thread or an assignment points at is never archived.
THEOREM PointersStay == Spec => []PointersLive
<1>1. IInv => PointersLive BY DEF IInv
<1> QED BY <1>1, Invariance, PTL

\* What is planned and confirmed of an active thread is planted before it is
\* resolved, after any reorder, archive and restore.
THEOREM OrderStays == Spec => []StoryOrder
<1>1. IInv => StoryOrder BY DEF IInv
<1> QED BY <1>1, Invariance, PTL

-----------------------------------------------------------------------------
(* PlanningRequests.  The inductive invariant says what an answer stands   *)
(* for: "done" for a receipt of this very draft, "reused" for one of       *)
(* another, and "conflict" for a version that has moved past the one the   *)
(* draft was prepared from.  Receipts stay and versions only grow, so none *)
(* of the three is ever taken back.                                        *)

Prepared(x) == draft[x] # Nothing

\* A draft counts as committed exactly when its receipt is there.
OnRecord ==
    \A x \in Drafts :
        /\ applied[x] \in {0, 1}
        /\ applied[x] = 1 <=> Prepared(x) /\ Found(x) = x

\* A receipt lies under the key of its own draft.
ReceiptsFit ==
    \A r \in Tables \X Keys :
        receipt[r] # Nothing =>
            Prepared(receipt[r]) /\ r = <<Table(receipt[r]), draft[receipt[r]].key>>

\* Only what was prepared is delivered or answered.
Delivered == \A d \in Deliveries : delivery[d] # Nothing => Prepared(delivery[d])

\* No page shows a version that is yet to come.
SeenBefore ==
    \A x \in Drafts : Prepared(x) =>
        /\ draft[x].structure <= structure
        /\ draft[x].assignment <= assignment
        /\ draft[x].life <= lifecycle[draft[x].thread]

\* A version that the draft compares has moved past it.
Outdated(x) ==
    LET b == draft[x]
    IN \/ b.kind \in {"structure", "bind", "plan"} /\ b.structure < structure
       \/ b.kind = "assignment" /\ b.assignment < assignment
       \/ b.kind = "bind" /\ 0 < lifecycle[b.thread]
       \/ b.kind \in {"plan", "retract"} /\ (b.life = 0 \/ b.life < lifecycle[b.thread])

AnswersStand ==
    \A x \in Drafts :
        /\ told[x] # {} => Prepared(x)
        /\ "done" \in told[x] => Found(x) = x
        /\ "reused" \in told[x] => Found(x) \notin {Nothing, x}
        /\ "conflict" \in told[x] => Found(x) # x /\ Outdated(x)

RequestInv ==
    /\ RequestTypeOK /\ OnRecord /\ ReceiptsFit /\ Delivered /\ SeenBefore /\ AnswersStand

LEMMA RequestInitHolds == RequestInit => RequestInv
  BY NothingAssumption DEF RequestInit, RequestInv, RequestTypeOK, OnRecord, ReceiptsFit, Delivered, SeenBefore,
     AnswersStand, Prepared

-----------------------------------------------------------------------------
(* Facts about single operators *)

LEMMA RowOf ==
  ASSUME RequestTypeOK, NEW x \in Drafts, Prepared(x)
  PROVE  draft[x] \in DraftRows /\ <<Table(x), draft[x].key>> \in Tables \X Keys
<1>1. draft[x] \in DraftRows BY DEF RequestTypeOK, Prepared
<1>2. draft[x].key \in Keys /\ Table(x) \in Tables BY <1>1 DEF DraftRows, Table, Tables
<1> QED BY <1>1, <1>2

\* Versions compare unequal only because they moved on.
LEMMA CurrentOrOutdated ==
  ASSUME RequestTypeOK, SeenBefore, NEW x \in Drafts, Prepared(x)
  PROVE  Current(x) <=> ~Outdated(x)
<1>1. draft[x] \in DraftRows BY RowOf
<1>2. /\ draft[x].structure \in Nat /\ draft[x].assignment \in Nat /\ draft[x].life \in Nat
      /\ draft[x].kind \in Kinds /\ lifecycle[draft[x].thread] \in Nat
      /\ structure \in Nat /\ assignment \in Nat
  BY <1>1 DEF DraftRows, RequestTypeOK
<1>3. /\ draft[x].structure <= structure /\ draft[x].assignment <= assignment
      /\ draft[x].life <= lifecycle[draft[x].thread]
  BY DEF SeenBefore
<1> QED BY <1>2, <1>3 DEF Current, Outdated, Kinds

\* A step that leaves the drafts, keeps the receipts and does not lower a
\* version keeps a draft outdated.
LEMMA OutdatedStays ==
  ASSUME RequestTypeOK, NEW x \in Drafts, Prepared(x), Outdated(x), draft'[x] = draft[x],
         structure' \in Nat, structure <= structure',
         assignment' \in Nat, assignment <= assignment',
         \A t \in Foreshadows : lifecycle'[t] \in Nat /\ lifecycle[t] <= lifecycle'[t]
  PROVE  Outdated(x)'
<1>1. draft[x] \in DraftRows BY RowOf
<1>2. /\ draft[x].structure \in Nat /\ draft[x].assignment \in Nat /\ draft[x].life \in Nat
      /\ lifecycle[draft[x].thread] \in Nat /\ structure \in Nat /\ assignment \in Nat
      /\ draft[x].thread \in Foreshadows
  BY <1>1 DEF DraftRows, RequestTypeOK
<1>3. lifecycle'[draft[x].thread] \in Nat /\ lifecycle[draft[x].thread] <= lifecycle'[draft[x].thread]
  BY <1>2
<1> QED BY <1>2, <1>3 DEF Outdated

LEMMA AnswerTyped ==
  ASSUME RequestTypeOK, NEW x \in Drafts, NEW a \in Answers, Answer(x, a)
  PROVE  /\ told' \in [Drafts -> SUBSET Answers]
         /\ \A y \in Drafts : y # x => told'[y] = told[y]
         /\ told'[x] \subseteq told[x] \cup {a}
  BY DEF RequestTypeOK, Answer

\* What a receipt says about a draft that asks again.
LEMMA ReplayTells ==
  ASSUME RequestInv, NEW x \in Drafts, Prepared(x), Found(x) # Nothing, Answer(x, Replayed(x)),
         UNCHANGED <<plan, draft, applied>>
  PROVE  told' \in [Drafts -> SUBSET Answers] /\ AnswersStand'
<1>1. Replayed(x) \in Answers BY DEF Replayed, Answers
<1>2. /\ told' \in [Drafts -> SUBSET Answers]
      /\ \A y \in Drafts : y # x => told'[y] = told[y]
      /\ told'[x] \subseteq told[x] \cup {Replayed(x)}
  BY <1>1, AnswerTyped DEF RequestInv
<1>3. \A y \in Drafts : /\ Found(y)' = Found(y) /\ (Outdated(y)' <=> Outdated(y))
                        /\ (Prepared(y)' <=> Prepared(y))
  BY DEF plan, Found, Table, Outdated, Prepared
<1>4. \A y \in Drafts : y # x =>
        /\ told'[y] # {} => Prepared(y)
        /\ "done" \in told'[y] => Found(y) = y
        /\ "reused" \in told'[y] => Found(y) \notin {Nothing, y}
        /\ "conflict" \in told'[y] => Found(y) # y /\ Outdated(y)
  BY <1>2 DEF RequestInv, AnswersStand
<1>5. /\ "done" \in told'[x] => Found(x) = x
      /\ "reused" \in told'[x] => Found(x) \notin {Nothing, x}
      /\ "conflict" \in told'[x] => Found(x) # x /\ Outdated(x)
  BY <1>2 DEF RequestInv, AnswersStand, Replayed
<1> QED BY <1>2, <1>3, <1>4, <1>5 DEF AnswersStand

-----------------------------------------------------------------------------
(* The actions *)

LEMMA PrepareKeeps ==
  ASSUME RequestInv, NEW x \in Drafts, NEW k \in Keys, NEW kind \in Kinds, NEW t \in Foreshadows,
         Prepare(x, k, kind, t)
  PROVE  RequestInv'
<1> DEFINE b == [key |-> k, kind |-> kind, thread |-> t, structure |-> structure,
                 assignment |-> assignment, life |-> lifecycle[t]]
<1>1. b \in DraftRows /\ b # Nothing
  <2>1. b \in DraftRows BY DEF RequestInv, RequestTypeOK, DraftRows
  <2> QED BY <2>1, NothingAssumption
<1>2. /\ draft'[x] = b /\ \A y \in Drafts : y # x => draft'[y] = draft[y]
      /\ draft' \in [Drafts -> DraftRows \cup {Nothing}]
  BY <1>1 DEF Prepare, RequestInv, RequestTypeOK
<1>3. UNCHANGED <<structure, assignment, lifecycle, receipt, delivery, applied, told>> /\ ~Prepared(x)
  BY DEF Prepare, plan, Prepared
<1>4. \A y \in Drafts : y # x =>
        /\ Found(y)' = Found(y) /\ Table(y)' = Table(y)
        /\ (Outdated(y)' <=> Outdated(y)) /\ (Prepared(y)' <=> Prepared(y))
  BY <1>2, <1>3 DEF Found, Table, Outdated, Prepared
<1>5. \A r \in Tables \X Keys : receipt[r] # x
  BY <1>3, NothingAssumption DEF RequestInv, ReceiptsFit
<1>6. Prepared(x)' /\ Found(x)' # x
  <2>1. <<Table(x), draft[x].key>>' \in Tables \X Keys
    BY <1>1, <1>2 DEF Table, Tables, DraftRows
  <2> QED BY <1>1, <1>2, <1>3, <1>5, <2>1 DEF Prepared, Found
<1>7. RequestTypeOK' BY <1>2, <1>3 DEF RequestInv, RequestTypeOK
<1>8. OnRecord'
  <2>1. applied[x] = 0 BY <1>3 DEF RequestInv, OnRecord
  <2> QED BY <1>3, <1>4, <1>6, <2>1 DEF RequestInv, OnRecord
<1>9. ReceiptsFit'
  <2> SUFFICES ASSUME NEW r \in Tables \X Keys, receipt[r] # Nothing
               PROVE  (Prepared(receipt[r]) /\ r = <<Table(receipt[r]), draft[receipt[r]].key>>)'
    BY <1>3 DEF ReceiptsFit
  <2>1. receipt[r] \in Drafts /\ receipt[r] # x BY <1>5 DEF RequestInv, RequestTypeOK
  <2> QED BY <1>2, <1>3, <1>4, <2>1 DEF RequestInv, ReceiptsFit
<1>10. Delivered'
  BY <1>3, <1>4, <1>6 DEF RequestInv, Delivered, RequestTypeOK
<1>11. SeenBefore'
  <2>1. b.structure <= structure /\ b.assignment <= assignment /\ b.life <= lifecycle[b.thread]
    BY DEF RequestInv, RequestTypeOK
  <2> QED BY <1>2, <1>3, <1>4, <2>1 DEF RequestInv, SeenBefore
<1>12. AnswersStand'
  <2>1. told[x] = {} BY <1>3 DEF RequestInv, AnswersStand
  <2> QED BY <1>3, <1>4, <2>1 DEF RequestInv, AnswersStand
<1> QED BY <1>7, <1>8, <1>9, <1>10, <1>11, <1>12 DEF RequestInv

\* A step that changes neither the plan nor the drafts keeps what is said of them.
LEMMA PlanKept ==
  ASSUME RequestInv, UNCHANGED <<plan, draft, applied>>
  PROVE  OnRecord' /\ ReceiptsFit' /\ SeenBefore'
  BY DEF RequestInv, plan, OnRecord, ReceiptsFit, SeenBefore, Prepared, Found, Table

LEMMA DeliverKeeps ==
  ASSUME RequestInv, NEW d \in Deliveries, NEW x \in Drafts, Deliver(d, x)
  PROVE  RequestInv'
<1>0. Prepared(x) /\ UNCHANGED <<plan, draft, applied>> BY DEF Deliver, Prepared
<1>1. OnRecord' /\ ReceiptsFit' /\ SeenBefore' BY <1>0, PlanKept
<1>2. delivery' \in [Deliveries -> Drafts \cup {Nothing}] /\ Delivered'
  BY <1>0 DEF Deliver, RequestInv, RequestTypeOK, Delivered, Prepared
<1>3. told' \in [Drafts -> SUBSET Answers] /\ AnswersStand'
  <2>1. CASE told' = told
    BY <1>0, <2>1 DEF RequestInv, RequestTypeOK, AnswersStand, Prepared, plan, Found, Table, Outdated
  <2>2. CASE Found(x) # Nothing /\ Answer(x, Replayed(x))
    BY <1>0, <2>2, ReplayTells
  <2> QED BY <2>1, <2>2 DEF Deliver
<1>4. RequestTypeOK' BY <1>0, <1>2, <1>3 DEF RequestInv, RequestTypeOK, plan
<1> QED BY <1>1, <1>2, <1>3, <1>4 DEF RequestInv

LEMMA VersionsGrow ==
  ASSUME RequestTypeOK, NEW x \in Drafts, Prepared(x), Commit(x)
  PROVE  /\ structure' \in Nat /\ structure <= structure'
         /\ assignment' \in Nat /\ assignment <= assignment'
         /\ lifecycle' \in [Foreshadows -> Nat] /\ \A t \in Foreshadows : lifecycle[t] <= lifecycle'[t]
<1>1. draft[x].thread \in Foreshadows BY RowOf DEF DraftRows
<1> QED BY <1>1 DEF Commit, Restructure, Reassign, Develop, RequestTypeOK

\* The receipt of a commit lies where there was none.
LEMMA ReceiptWritten ==
  ASSUME RequestInv, NEW x \in Drafts, Prepared(x), Found(x) = Nothing, Commit(x), UNCHANGED draft
  PROVE  /\ receipt' \in [Tables \X Keys -> Drafts \cup {Nothing}]
         /\ Found(x)' = x
         /\ \A r \in Tables \X Keys : receipt[r] # Nothing => receipt'[r] = receipt[r]
         /\ \A r \in Tables \X Keys : receipt'[r] \in {receipt[r], x}
         /\ \A y \in Drafts : y # x /\ Prepared(y) /\ Found(y)' # Found(y) => Found(y)' = x
<1>1. <<Table(x), draft[x].key>> \in Tables \X Keys BY RowOf DEF RequestInv
<1>2. /\ receipt' = [receipt EXCEPT ![<<Table(x), draft[x].key>>] = x]
      /\ receipt \in [Tables \X Keys -> Drafts \cup {Nothing}]
  BY DEF Commit, RequestInv, RequestTypeOK
<1>3. \A y \in Drafts : Table(y)' = Table(y) BY DEF Table
<1>4. \A y \in Drafts : Prepared(y) => <<Table(y), draft[y].key>> \in Tables \X Keys
  BY RowOf DEF RequestInv
<1>5. Found(x)' = x BY <1>1, <1>2, <1>3 DEF Found
<1>6. \A r \in Tables \X Keys : receipt[r] # Nothing => receipt'[r] = receipt[r]
  BY <1>1, <1>2 DEF Found
<1>7. \A r \in Tables \X Keys : receipt'[r] \in {receipt[r], x}
  BY <1>1, <1>2
<1>8. \A y \in Drafts : Prepared(y) => Found(y)' \in {Found(y), x}
  BY <1>3, <1>4, <1>7 DEF Found
<1> QED BY <1>1, <1>2, <1>5, <1>6, <1>7, <1>8

LEMMA CommitKeeps ==
  ASSUME RequestInv, NEW d \in Deliveries, NEW x \in Drafts, delivery[d] = x, Prepared(x),
         Found(x) = Nothing, Current(x), Commit(x), Answer(x, "done"),
         delivery' = [delivery EXCEPT ![d] = Nothing], UNCHANGED draft
  PROVE  RequestInv'
<1>1. /\ structure' \in Nat /\ structure <= structure'
      /\ assignment' \in Nat /\ assignment <= assignment'
      /\ lifecycle' \in [Foreshadows -> Nat] /\ \A t \in Foreshadows : lifecycle[t] <= lifecycle'[t]
  BY VersionsGrow DEF RequestInv
<1>2. /\ receipt' \in [Tables \X Keys -> Drafts \cup {Nothing}]
      /\ Found(x)' = x
      /\ \A r \in Tables \X Keys : receipt[r] # Nothing => receipt'[r] = receipt[r]
      /\ \A r \in Tables \X Keys : receipt'[r] \in {receipt[r], x}
      /\ \A y \in Drafts : y # x /\ Prepared(y) /\ Found(y)' # Found(y) => Found(y)' = x
  BY ReceiptWritten
<1>3. /\ told' \in [Drafts -> SUBSET Answers]
      /\ \A y \in Drafts : y # x => told'[y] = told[y]
      /\ told'[x] \subseteq told[x] \cup {"done"}
  BY AnswerTyped DEF RequestInv, Answers
<1>4. applied' = [applied EXCEPT ![x] = @ + 1] /\ applied \in [Drafts -> Nat]
  BY DEF Commit, RequestInv, RequestTypeOK
<1>5. x # Nothing /\ \A y \in Drafts : (Prepared(y)' <=> Prepared(y)) /\ Table(y)' = Table(y)
  BY NothingAssumption DEF Prepared, Table
<1>6. \A y \in Drafts : Prepared(y) /\ Found(y) # Nothing => Found(y)' = Found(y)
  <2>1. \A y \in Drafts : Prepared(y) => <<Table(y), draft[y].key>> \in Tables \X Keys
    BY RowOf DEF RequestInv
  <2> QED BY <1>2, <1>5, <2>1 DEF Found
<1>7. RequestTypeOK'
  BY <1>1, <1>2, <1>3, <1>4 DEF RequestInv, RequestTypeOK
<1>8. OnRecord'
  <2>1. applied[x] = 0 BY <1>5 DEF RequestInv, OnRecord
  <2>2. applied'[x] = 1 BY <1>4, <2>1
  <2>3. \A y \in Drafts : y # x => applied'[y] = applied[y] BY <1>4
  <2>4. \A y \in Drafts : y # x /\ Prepared(y) => (Found(y)' = y <=> Found(y) = y)
    BY <1>2, <1>5, <1>6, NothingAssumption
  <2> QED BY <1>2, <1>5, <2>2, <2>3, <2>4 DEF RequestInv, OnRecord
<1>9. ReceiptsFit'
  <2> SUFFICES ASSUME NEW r \in Tables \X Keys, receipt'[r] # Nothing
               PROVE  (Prepared(receipt[r]) /\ r = <<Table(receipt[r]), draft[receipt[r]].key>>)'
    BY DEF ReceiptsFit
  <2>1. CASE receipt'[r] = receipt[r]
    <3>1. receipt[r] \in Drafts /\ Prepared(receipt[r]) /\ r = <<Table(receipt[r]), draft[receipt[r]].key>>
      BY <2>1 DEF RequestInv, RequestTypeOK, ReceiptsFit
    <3> QED BY <1>5, <2>1, <3>1
  <2>2. CASE receipt'[r] # receipt[r]
    <3>1. receipt'[r] = x BY <1>2, <2>2
    <3>2. r = <<Table(x), draft[x].key>> BY <2>2, RowOf DEF Commit, RequestInv, RequestTypeOK
    <3> QED BY <1>5, <3>1, <3>2
  <2> QED BY <2>1, <2>2
<1>10. Delivered'
  BY <1>5 DEF RequestInv, Delivered, RequestTypeOK
<1>11. SeenBefore'
  <2> SUFFICES ASSUME NEW y \in Drafts, Prepared(y)
               PROVE  /\ draft[y].structure <= structure' /\ draft[y].assignment <= assignment'
                      /\ draft[y].life <= lifecycle'[draft[y].thread]
    BY <1>5 DEF SeenBefore
  <2>1. draft[y] \in DraftRows BY RowOf DEF RequestInv
  <2>2. /\ draft[y].structure \in Nat /\ draft[y].assignment \in Nat /\ draft[y].life \in Nat
        /\ draft[y].thread \in Foreshadows
    BY <2>1 DEF DraftRows
  <2>3. lifecycle[draft[y].thread] \in Nat /\ lifecycle'[draft[y].thread] \in Nat
        /\ lifecycle[draft[y].thread] <= lifecycle'[draft[y].thread]
    BY <1>1, <2>2 DEF RequestInv, RequestTypeOK
  <2>4. /\ draft[y].structure <= structure /\ draft[y].assignment <= assignment
        /\ draft[y].life <= lifecycle[draft[y].thread]
    BY DEF RequestInv, SeenBefore
  <2> QED BY <1>1, <2>2, <2>3, <2>4 DEF RequestInv, RequestTypeOK
<1>12. AnswersStand'
  <2>1. ~Outdated(x) BY CurrentOrOutdated DEF RequestInv
  <2>2. told[x] = {} \/ told[x] = {"done"}
    <3>1. "reused" \notin told[x] /\ "conflict" \notin told[x]
      BY <2>1 DEF RequestInv, AnswersStand
    <3> QED BY <3>1 DEF RequestInv, RequestTypeOK, Answers
  <2>3. ASSUME NEW y \in Drafts, y # x
        PROVE  /\ told'[y] # {} => Prepared(y)'
               /\ "done" \in told'[y] => Found(y)' = y
               /\ "reused" \in told'[y] => Found(y)' \notin {Nothing, y}
               /\ "conflict" \in told'[y] => Found(y)' # y /\ Outdated(y)'
    <3>1. told'[y] = told[y] BY <1>3, <2>3
    <3>2. told[y] # {} => Prepared(y) BY DEF RequestInv, AnswersStand
    <3>3. "done" \in told[y] => Found(y)' = y
      BY <1>5, <1>6, <3>2, NothingAssumption DEF RequestInv, AnswersStand
    <3>4. "reused" \in told[y] => Found(y)' \notin {Nothing, y}
      BY <1>6, <3>2 DEF RequestInv, AnswersStand
    <3>5. "conflict" \in told[y] => Found(y)' # y /\ Outdated(y)'
      <4> SUFFICES ASSUME "conflict" \in told[y] PROVE Found(y)' # y /\ Outdated(y)'
        OBVIOUS
      <4>1. Prepared(y) /\ Found(y) # y /\ Outdated(y) BY DEF RequestInv, AnswersStand
      <4>2. Found(y)' # y BY <1>2, <2>3, <4>1
      <4>3. Outdated(y)' BY <1>1, <4>1, OutdatedStays DEF RequestInv
      <4> QED BY <4>2, <4>3
    <3> QED BY <1>5, <3>1, <3>2, <3>3, <3>4, <3>5
  <2>4. told'[x] \subseteq {"done"} BY <1>3, <2>2
  <2> QED BY <1>2, <1>5, <2>3, <2>4 DEF AnswersStand
<1> QED BY <1>7, <1>8, <1>9, <1>10, <1>11, <1>12 DEF RequestInv

LEMMA ExecuteKeeps ==
  ASSUME RequestInv, NEW d \in Deliveries, Execute(d)
  PROVE  RequestInv'
<1> DEFINE x == delivery[d]
<1>1. x \in Drafts /\ Prepared(x)
  BY DEF Execute, RequestInv, RequestTypeOK, Delivered
<1>2. CASE UNCHANGED <<plan, applied>>
  <2>0. UNCHANGED <<plan, draft, applied>> BY <1>2 DEF Execute
  <2>1. OnRecord' /\ ReceiptsFit' /\ SeenBefore' BY <2>0, PlanKept
  <2>2. delivery' \in [Deliveries -> Drafts \cup {Nothing}] /\ Delivered'
    BY DEF Execute, RequestInv, RequestTypeOK, Delivered, Prepared
  <2>3. told' \in [Drafts -> SUBSET Answers] /\ AnswersStand'
    <3>1. CASE Found(x) # Nothing /\ Answer(x, Replayed(x))
      BY <1>1, <2>0, <3>1, ReplayTells
    <3>2. CASE Found(x) = Nothing /\ ~Current(x) /\ Answer(x, "conflict")
      <4>1. /\ told' \in [Drafts -> SUBSET Answers]
            /\ \A y \in Drafts : y # x => told'[y] = told[y]
            /\ told'[x] \subseteq told[x] \cup {"conflict"}
        BY <1>1, <3>2, AnswerTyped DEF RequestInv, Answers
      <4>2. Outdated(x) /\ Found(x) # x
        BY <1>1, <3>2, CurrentOrOutdated, NothingAssumption DEF RequestInv
      <4>3. \A y \in Drafts : /\ Found(y)' = Found(y) /\ (Outdated(y)' <=> Outdated(y))
                              /\ (Prepared(y)' <=> Prepared(y))
        BY <2>0 DEF plan, Found, Table, Outdated, Prepared
      <4>4. \A y \in Drafts :
              /\ told'[y] # {} => Prepared(y)
              /\ "done" \in told'[y] => Found(y) = y
              /\ "reused" \in told'[y] => Found(y) \notin {Nothing, y}
              /\ "conflict" \in told'[y] => Found(y) # y /\ Outdated(y)
        BY <1>1, <4>1, <4>2 DEF RequestInv, AnswersStand
      <4> QED BY <4>1, <4>3, <4>4 DEF AnswersStand
    <3>3. ~(Found(x) = Nothing /\ Current(x) /\ Commit(x))
      <4>1. applied[x] \in Nat BY <1>1 DEF RequestInv, RequestTypeOK
      <4> QED BY <1>1, <1>2, <4>1 DEF Commit, RequestInv, RequestTypeOK
    <3> QED BY <3>1, <3>2, <3>3 DEF Execute
  <2>4. RequestTypeOK' BY <2>0, <2>2, <2>3 DEF RequestInv, RequestTypeOK, plan
  <2> QED BY <2>1, <2>2, <2>3, <2>4 DEF RequestInv
<1>3. CASE Found(x) = Nothing /\ Current(x) /\ Commit(x) /\ Answer(x, "done")
  <2>1. delivery' = [delivery EXCEPT ![d] = Nothing] /\ UNCHANGED draft BY DEF Execute
  <2> QED BY <1>1, <1>3, <2>1, CommitKeeps
<1> QED BY <1>2, <1>3 DEF Execute

LEMMA AbortKeeps ==
  ASSUME RequestInv, NEW d \in Deliveries, Abort(d)
  PROVE  RequestInv'
<1>1. UNCHANGED <<plan, draft, applied, told>> BY DEF Abort
<1>2. OnRecord' /\ ReceiptsFit' /\ SeenBefore' BY <1>1, PlanKept
<1>3. RequestTypeOK' /\ Delivered' BY <1>1 DEF Abort, RequestInv, RequestTypeOK, Delivered, Prepared, plan
<1>4. AnswersStand'
  BY <1>1 DEF RequestInv, AnswersStand, Prepared, plan, Found, Table, Outdated
<1> QED BY <1>2, <1>3, <1>4 DEF RequestInv

LEMMA RequestStepHolds == RequestInv /\ [RequestNext]_requestVars => RequestInv'
<1> SUFFICES ASSUME RequestInv, [RequestNext]_requestVars PROVE RequestInv'
  OBVIOUS
<1>1. ASSUME NEW x \in Drafts, NEW k \in Keys, NEW kind \in Kinds, NEW t \in Foreshadows,
             Prepare(x, k, kind, t)
      PROVE  RequestInv'
  BY <1>1, PrepareKeeps
<1>2. ASSUME NEW d \in Deliveries, NEW x \in Drafts, Deliver(d, x) PROVE RequestInv'
  BY <1>2, DeliverKeeps
<1>3. ASSUME NEW d \in Deliveries, Execute(d) PROVE RequestInv'
  BY <1>3, ExecuteKeeps
<1>4. ASSUME NEW d \in Deliveries, Abort(d) PROVE RequestInv'
  BY <1>4, AbortKeeps
<1>5. CASE UNCHANGED requestVars
  BY <1>5 DEF requestVars, plan, RequestInv, RequestTypeOK, OnRecord, ReceiptsFit, Delivered, SeenBefore,
     AnswersStand, Prepared, Found, Table, Outdated
<1> QED BY <1>1, <1>2, <1>3, <1>4, <1>5 DEF RequestNext

LEMMA RequestInvariance == RequestSpec => []RequestInv
<1>1. RequestInit => RequestInv BY RequestInitHolds
<1>2. RequestInv /\ [RequestNext]_requestVars => RequestInv' BY RequestStepHolds
<1> QED BY <1>1, <1>2, PTL DEF RequestSpec

\* Versions, receipts, drafts and answers keep their shapes.
THEOREM RequestsTypeCorrect == RequestSpec => []RequestTypeOK
<1>1. RequestInv => RequestTypeOK BY DEF RequestInv
<1> QED BY <1>1, RequestInvariance, PTL

\* A planning change that was reported done was committed, and once.
THEOREM DoneStays == RequestSpec => []DoneIsTrue
<1>1. RequestInv => DoneIsTrue
  <2> SUFFICES ASSUME RequestInv, NEW x \in Drafts
               PROVE  applied[x] <= 1 /\ ("done" \in told[x] => applied[x] = 1)
    BY DEF DoneIsTrue
  <2>1. applied[x] \in {0, 1} BY DEF RequestInv, OnRecord
  <2>2. "done" \in told[x] => Prepared(x) /\ Found(x) = x BY DEF RequestInv, AnswersStand
  <2> QED BY <2>1, <2>2 DEF RequestInv, OnRecord
<1> QED BY <1>1, RequestInvariance, PTL

\* A planning change that was refused is never made by a delayed delivery.
THEOREM RefusalStays == RequestSpec => []RefusedIsFinal
<1>1. RequestInv => RefusedIsFinal
  <2> SUFFICES ASSUME RequestInv, NEW x \in Drafts, told[x] \cap {"conflict", "reused"} # {}
               PROVE  applied[x] = 0
    BY DEF RefusedIsFinal
  <2>1. Found(x) # x BY DEF RequestInv, AnswersStand
  <2> QED BY <2>1 DEF RequestInv, OnRecord
<1> QED BY <1>1, RequestInvariance, PTL

=============================================================================
