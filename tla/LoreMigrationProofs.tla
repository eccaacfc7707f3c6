-------------------------- MODULE LoreMigrationProofs --------------------------
(***************************************************************************)
(* Proofs about the upgrade and its rehearsal for any worldviews, types,   *)
(* decisions, keys and requests.  What carries them is that the mode says  *)
(* everything (ModeOK): a legacy project has no rows, one that is being    *)
(* upgraded has one open receipt whose preview is still the preview of     *)
(* now, and one that has switched was switched by one operation or by one  *)
(* rehearsal.  RequestOK ties what a request holds to its receipt.         *)
(***************************************************************************)
EXTENDS LoreRehearsal, FiniteSetTheorems, TLAPS

Shapes ==
    /\ source \in Worldviews
    /\ mode \in {"legacy", "migrating", "relational"}
    /\ lore = [key |-> lore.key, plan |-> lore.plan, edited |-> lore.edited]
    /\ operation = [k \in Keys |-> [status |-> operation[k].status, body |-> operation[k].body]]
    /\ \A k \in Keys : operation[k].status \in {"none", "validating", "ready", "failed"}
    /\ request = [t \in Requests |->
           [pc |-> request[t].pc, key |-> request[t].key,
            body |-> request[t].body, answer |-> request[t].answer]]

\* The operations other than k are over.
Over(k) == \A x \in Keys \ {k} : operation[x].status \in {"none", "failed"}

UpgradedBy(k) ==
    /\ k \in Keys /\ Over(k)
    /\ lore.key = k /\ lore.plan = PlanOf(source, decisions)
    /\ Confirmed(operation[k].body, source)

RehearsedBy(w) ==
    /\ w \in Worldviews /\ Over(None)
    /\ lore.key = w /\ lore.plan = PlanOf(w, NoDecisions)
    /\ Ready(w, NoDecisions)

ModeOK ==
    /\ mode = "legacy" => lore = NoRows /\ migration = {} /\ Over(None)
    /\ mode = "migrating" =>
           /\ UpgradedBy(lore.key) /\ operation[lore.key].status = "validating"
           /\ lore.edited = FALSE /\ migration = {}
    /\ mode = "relational" =>
           /\ migration = {lore.key}
           /\ \/ UpgradedBy(lore.key) /\ operation[lore.key].status = "ready"
              \/ RehearsedBy(lore.key)

\* What a request may be at and may have been told, by its receipt.
Sound(q, receipts) ==
    /\ q.pc \in {"idle", "done"} \/ q.key \in Keys
    /\ q.pc \in {"verify", "compare", "finalize", "compensate"} =>
           receipts[q.key].status # "none" /\ receipts[q.key].body = q.body
    /\ q.answer \in {"ready", "failed"} =>
           q.key \in Keys /\ receipts[q.key].status = q.answer /\ receipts[q.key].body = q.body

RequestOK == \A t \in Requests : Sound(request[t], operation)

Inv == Shapes /\ ModeOK /\ RequestOK

LEMMA InitHolds == Init => Inv
<1> SUFFICES ASSUME Init PROVE Inv
  OBVIOUS
<1>1. Shapes BY DEF Init, Shapes, NoRows
<1>2. ModeOK
  <2>1. \A k \in Keys : operation[k].status = "none" BY DEF Init
  <2>2. Over(None) BY <2>1 DEF Over
  <2> QED BY <2>2 DEF Init, ModeOK
<1>3. RequestOK BY DEF Init, RequestOK, Sound
<1> QED BY <1>1, <1>2, <1>3 DEF Inv

-----------------------------------------------------------------------------
(* Receipts *)

\* What no step does to a receipt.
ReceiptsKept ==
    \A k \in Keys :
        /\ operation[k].status # "none" =>
               operation'[k].status # "none" /\ operation'[k].body = operation[k].body
        /\ operation[k].status \in {"ready", "failed"} => operation'[k] = operation[k]

\* What a request holds stays true when others move.
LEMMA SoundKept ==
  ASSUME ReceiptsKept, NEW q, Sound(q, operation)
  PROVE  Sound(q, operation')
  BY DEF ReceiptsKept, Sound

LEMMA NobodyMoves ==
  ASSUME Inv, UNCHANGED <<operation, request>>
  PROVE  RequestOK'
  BY DEF Inv, RequestOK, Sound

\* A step of one request that leaves the receipts alone.
LEMMA OneMoves ==
  ASSUME Inv, ReceiptsKept, NEW t \in Requests, NEW q, request' = [request EXCEPT ![t] = q],
         Sound(q, operation')
  PROVE  RequestOK'
<1>1. \A u \in Requests : request'[u] = IF u = t THEN q ELSE request[u] BY DEF Inv, Shapes
<1> QED BY <1>1, SoundKept DEF Inv, RequestOK

-----------------------------------------------------------------------------
(* Before and after the upgrade *)

LEMMA ModeKept ==
  ASSUME Inv, UNCHANGED <<mode, source, decisions, lore, operation, migration>>
  PROVE  ModeOK'
<1>1. \A k : Over(k)' <=> Over(k) BY DEF Over
<1>2. UpgradedBy(lore.key)' <=> UpgradedBy(lore.key) BY <1>1 DEF UpgradedBy, Confirmed
<1>3. RehearsedBy(lore.key)' <=> RehearsedBy(lore.key) BY <1>1 DEF RehearsedBy
<1> QED BY <1>1, <1>2, <1>3 DEF Inv, ModeOK

LEMMA AuthorKeeps ==
  ASSUME Inv,
         \/ \E w \in Worldviews : SaveWorldview(w)
         \/ \E i \in Positions, r \in Reasons : Resolve(i, r)
         \/ ToggleFreeze \/ EditLore
  PROVE  Inv'
<1>0. UNCHANGED <<mode, operation, migration, request>>
  BY DEF SaveWorldview, Resolve, Decide, Revoke, ToggleFreeze, EditLore
<1>1. RequestOK' BY <1>0, NobodyMoves
<1>2. \A k : Over(k)' <=> Over(k) BY <1>0 DEF Over
<1>3. ASSUME NEW w \in Worldviews, SaveWorldview(w) PROVE Inv'
  <2>1. /\ UNCHANGED <<decisions, lore>> /\ source' = w /\ mode # "migrating"
        /\ \A k \in Keys : operation[k].status \notin {"validating", "ready"}
    BY <1>3 DEF SaveWorldview, SaveGuard, Unused
  <2>2. Shapes' BY <1>0, <2>1 DEF Inv, Shapes
  <2>3. ~UpgradedBy(lore.key) \/ operation[lore.key].status # "ready" BY <2>1 DEF UpgradedBy
  <2>4. RehearsedBy(lore.key)' <=> RehearsedBy(lore.key) BY <1>2, <2>1 DEF RehearsedBy
  <2>5. ModeOK' BY <1>0, <1>2, <2>1, <2>3, <2>4 DEF Inv, ModeOK
  <2> QED BY <1>1, <2>2, <2>5 DEF Inv
<1>4. ASSUME NEW i \in Positions, NEW r \in Reasons, Resolve(i, r) PROVE Inv'
  <2>1. UNCHANGED <<source, lore>> /\ mode = "legacy"
    BY <1>4 DEF Resolve, Decide, Revoke, DecisionGuard
  <2>2. Shapes' BY <1>0, <2>1 DEF Inv, Shapes
  <2>3. ModeOK' BY <1>0, <1>2, <2>1 DEF Inv, ModeOK, NoRows
  <2> QED BY <1>1, <2>2, <2>3 DEF Inv
<1>5. CASE ToggleFreeze
  <2>1. UNCHANGED <<source, decisions, lore>> BY <1>5 DEF ToggleFreeze
  <2>2. Shapes' BY <1>0, <2>1 DEF Inv, Shapes
  <2> QED BY <1>0, <1>1, <2>1, <2>2, ModeKept DEF Inv
<1>6. CASE EditLore
  <2>1. UNCHANGED <<source, decisions>> /\ mode = "relational" /\ lore' = [lore EXCEPT !.edited = TRUE]
    BY <1>6 DEF EditLore
  <2>2. /\ lore' = [key |-> lore.key, plan |-> lore.plan, edited |-> TRUE]
        /\ lore'.key = lore.key /\ lore'.plan = lore.plan
    <3>1. lore = [key |-> lore.key, plan |-> lore.plan, edited |-> lore.edited] BY DEF Inv, Shapes
    <3> QED BY <2>1, <3>1
  <2>3. Shapes' BY <1>0, <2>1, <2>2 DEF Inv, Shapes
  <2>4. /\ UpgradedBy(lore.key)' <=> UpgradedBy(lore.key)
        /\ RehearsedBy(lore.key)' <=> RehearsedBy(lore.key)
    BY <1>0, <1>2, <2>1, <2>2 DEF UpgradedBy, RehearsedBy, Confirmed
  <2>5. ModeOK' BY <1>0, <2>1, <2>2, <2>4 DEF Inv, ModeOK
  <2> QED BY <1>1, <2>3, <2>5 DEF Inv
<1> QED BY <1>3, <1>4, <1>5, <1>6

-----------------------------------------------------------------------------
(* Requests that move alone *)

AtPc(t, pc) == [pc |-> pc, key |-> Key(t), body |-> Body(t), answer |-> request[t].answer]
Told(t, a) == [pc |-> "done", key |-> Key(t), body |-> Body(t), answer |-> a]

LEMMA RequestRows ==
  ASSUME Inv, NEW t \in Requests
  PROVE  /\ \A pc : GoTo(t, pc) => request' = [request EXCEPT ![t] = AtPc(t, pc)]
         /\ \A a : Answer(t, a) => request' = [request EXCEPT ![t] = Told(t, a)]
<1> DEFINE r == request[t]
<1>1. r = [pc |-> r.pc, key |-> r.key, body |-> r.body, answer |-> r.answer] BY DEF Inv, Shapes
<1>2. ASSUME NEW pc, GoTo(t, pc) PROVE request' = [request EXCEPT ![t] = AtPc(t, pc)]
  <2>1. [r EXCEPT !.pc = pc] = AtPc(t, pc) BY <1>1 DEF AtPc, Key, Body
  <2> QED BY <1>2, <2>1 DEF GoTo
<1>3. ASSUME NEW a, Answer(t, a) PROVE request' = [request EXCEPT ![t] = Told(t, a)]
  <2> DEFINE q == [r EXCEPT !.pc = "done"]
  <2>1. q = [pc |-> "done", key |-> r.key, body |-> r.body, answer |-> r.answer] BY <1>1
  <2>2. [q EXCEPT !.answer = a] = Told(t, a)
    <3> HIDE DEF q
    <3> QED BY <2>1 DEF Told, Key, Body
  <2> QED BY <1>3, <2>2 DEF Answer
<1> QED BY <1>2, <1>3

LEMMA SoundNow ==
  ASSUME Inv, NEW t \in Requests
  PROVE  Sound(request[t], operation)
  BY DEF Inv, RequestOK

LEMMA RequestShapes ==
  ASSUME Inv, NEW t \in Requests, NEW pc, NEW key, NEW body, NEW answer,
         request' = [request EXCEPT ![t] = [pc |-> pc, key |-> key, body |-> body, answer |-> answer]]
  PROVE  request' = [u \in Requests |->
             [pc |-> request'[u].pc, key |-> request'[u].key,
              body |-> request'[u].body, answer |-> request'[u].answer]]
  BY DEF Inv, Shapes

\* A request goes on or is told something, and nothing else happens.
LEMMA MovesAlone ==
  ASSUME Inv, NEW t \in Requests,
         UNCHANGED <<mode, source, decisions, lore, operation, migration>>,
         \/ \E pc : GoTo(t, pc) /\ Sound(AtPc(t, pc), operation)
         \/ \E a : Answer(t, a) /\ Sound(Told(t, a), operation)
  PROVE  Inv'
<1>1. PICK q : /\ request' = [request EXCEPT ![t] = q] /\ Sound(q, operation)
               /\ \/ \E pc : q = AtPc(t, pc)
                  \/ \E a : q = Told(t, a)
  BY RequestRows
<1>2. ReceiptsKept BY DEF ReceiptsKept
<1>3. RequestOK' BY <1>1, <1>2, OneMoves
<1>4. request' = [u \in Requests |->
             [pc |-> request'[u].pc, key |-> request'[u].key,
              body |-> request'[u].body, answer |-> request'[u].answer]]
  BY <1>1, RequestShapes DEF AtPc, Told
<1>5. Shapes' BY <1>4 DEF Inv, Shapes
<1> QED BY <1>3, <1>5, ModeKept DEF Inv

LEMMA ReadersKeep ==
  ASSUME Inv, NEW t \in Requests,
         Resume(t) \/ Verify(t) \/ Compare(t) \/ Fault(t) \/ Lose(t)
  PROVE  Inv'
<1>1. UNCHANGED <<mode, source, decisions, lore, operation, migration>>
  BY DEF Resume, Verify, Compare, Fault, Lose
<1>2. /\ Key(t) \in Keys
      /\ request[t].pc \in {"verify", "compare", "finalize", "compensate"} =>
             Receipt(t).status # "none" /\ Receipt(t).body = Body(t)
      /\ request[t].answer \in {"ready", "failed"} =>
             Receipt(t).status = request[t].answer /\ Receipt(t).body = Body(t)
  BY SoundNow DEF Sound, Key, Body, Receipt, Resume, Verify, Compare, Fault, Lose
<1>3. \A a : (a \in {"ready", "failed"} => Receipt(t).status = a /\ Receipt(t).body = Body(t))
             => Sound(Told(t, a), operation)
  BY <1>2 DEF Sound, Told, Receipt, Key, Body
<1>4. \A pc : Receipt(t).status # "none" /\ Receipt(t).body = Body(t) => Sound(AtPc(t, pc), operation)
  BY <1>2 DEF Sound, AtPc, Receipt, Key, Body
<1>5. CASE Resume(t)
  <2>1. \/ Answer(t, "conflict")
        \/ /\ Receipt(t).body = Body(t)
           /\ \/ Receipt(t).status \in {"ready", "failed"} /\ Answer(t, Receipt(t).status)
              \/ Receipt(t).status = "validating" /\ GoTo(t, "verify")
    BY <1>5 DEF Resume, SameRequest
  <2> QED BY <1>1, <1>3, <1>4, <2>1, MovesAlone
<1>6. CASE Verify(t)
  <2>1. \/ Answer(t, "unknown") \/ Answer(t, Receipt(t).status) \/ GoTo(t, "compare")
    BY <1>6 DEF Verify
  <2> QED BY <1>1, <1>2, <1>3, <1>4, <1>6, <2>1, MovesAlone DEF Verify
<1>7. CASE Compare(t)
  <2>1. \/ Answer(t, "unknown") \/ GoTo(t, "compensate") \/ GoTo(t, "finalize")
    BY <1>7 DEF Compare
  <2> QED BY <1>1, <1>2, <1>3, <1>4, <1>7, <2>1, MovesAlone DEF Compare
<1>8. CASE Fault(t) BY <1>1, <1>2, <1>4, <1>8, MovesAlone DEF Fault
<1>9. CASE Lose(t) BY <1>1, <1>3, <1>9, MovesAlone DEF Lose
<1> QED BY <1>5, <1>6, <1>7, <1>8, <1>9

LEMMA BeginKeeps ==
  ASSUME Inv, NEW t \in Requests, NEW k \in Keys, Begin(t, k)
  PROVE  Inv'
<1>1. PICK body : request' = [request EXCEPT ![t] =
            [pc |-> "prepare", key |-> k, body |-> body, answer |-> "none"]]
  BY DEF Begin
<1>2. UNCHANGED <<mode, source, decisions, lore, operation, migration>> BY DEF Begin
<1>3. Sound([pc |-> "prepare", key |-> k, body |-> body, answer |-> "none"], operation) BY DEF Sound
<1>4. ReceiptsKept BY <1>2 DEF ReceiptsKept
<1>5. RequestOK' BY <1>1, <1>2, <1>3, <1>4, OneMoves
<1>6. Shapes' BY <1>1, <1>2, RequestShapes DEF Inv, Shapes
<1> QED BY <1>2, <1>5, <1>6, ModeKept DEF Inv

-----------------------------------------------------------------------------
(* The transactions *)

\* A receipt that is written, by a request that goes on or is told its status.
LEMMA ReceiptWritten ==
  ASSUME Inv, NEW t \in Requests, Key(t) \in Keys,
         NEW status \in {"validating", "ready", "failed"},
         Receipt(t).status \in {"none", "validating"},
         Receipt(t).status # "none" => Receipt(t).body = Body(t),
         operation' = [operation EXCEPT ![Key(t)] = [status |-> status, body |-> Body(t)]],
         \/ status = "validating" /\ GoTo(t, "verify")
         \/ Answer(t, status)
  PROVE  /\ RequestOK'
         /\ operation' = [k \in Keys |-> [status |-> operation'[k].status, body |-> operation'[k].body]]
         /\ \A k \in Keys : operation'[k].status \in {"none", "validating", "ready", "failed"}
         /\ request' = [u \in Requests |->
                [pc |-> request'[u].pc, key |-> request'[u].key,
                 body |-> request'[u].body, answer |-> request'[u].answer]]
<1>0. operation = [k \in Keys |-> [status |-> operation[k].status, body |-> operation[k].body]]
  BY DEF Inv, Shapes
<1>1. \A k \in Keys : operation'[k] = IF k = Key(t) THEN [status |-> status, body |-> Body(t)]
                                      ELSE operation[k]
  BY <1>0
<1>2. ReceiptsKept BY <1>1 DEF ReceiptsKept, Receipt
<1>3. operation'[Key(t)].status = status /\ operation'[Key(t)].body = Body(t) BY <1>1
<1>4. /\ operation' = [k \in Keys |-> [status |-> operation'[k].status, body |-> operation'[k].body]]
      /\ \A k \in Keys : operation'[k].status \in {"none", "validating", "ready", "failed"}
  BY <1>0, <1>1 DEF Inv, Shapes
<1>5. CASE status = "validating" /\ GoTo(t, "verify")
  <2>1. request' = [request EXCEPT ![t] = AtPc(t, "verify")] BY <1>5, RequestRows
  <2>2. request[t].answer \notin {"ready", "failed"} BY SoundNow DEF Sound, Receipt, Key
  <2>3. Sound(AtPc(t, "verify"), operation') BY <1>3, <1>5, <2>2 DEF Sound, AtPc
  <2> QED BY <1>2, <1>4, <2>1, <2>3, OneMoves, RequestShapes DEF AtPc
<1>6. CASE Answer(t, status)
  <2>1. request' = [request EXCEPT ![t] = Told(t, status)] BY <1>6, RequestRows
  <2>2. Sound(Told(t, status), operation') BY <1>3 DEF Sound, Told
  <2> QED BY <1>2, <1>4, <2>1, <2>2, OneMoves, RequestShapes DEF Told
<1> QED BY <1>5, <1>6

LEMMA PrepareKeeps ==
  ASSUME Inv, NEW t \in Requests, Prepare(t)
  PROVE  Inv'
<1>0. PICK k \in Keys : k = Key(t) BY SoundNow DEF Prepare, Sound, Key
<1>1. CASE ~CanPrepare(t)
  <2>1. Answer(t, "refused") /\ UNCHANGED <<mode, source, decisions, lore, operation, migration>>
    BY <1>1 DEF Prepare
  <2>2. Sound(Told(t, "refused"), operation) BY DEF Sound, Told
  <2> QED BY <2>1, <2>2, MovesAlone
<1>2. CASE CanPrepare(t)
  <2>1. PICK b : b = Body(t) OBVIOUS
  <2>2. /\ operation' = [operation EXCEPT ![k] = [status |-> "validating", body |-> b]]
        /\ lore' = Rows(k, source, decisions)
        /\ mode' = "migrating" /\ UNCHANGED <<source, decisions, migration>>
        /\ GoTo(t, "verify") /\ Receipt(t).status = "none"
    BY <1>0, <1>2, <2>1 DEF Prepare
  <2>3. mode = "legacy" /\ migration = {} /\ Over(None) /\ Confirmed(b, source)
    BY <1>2, <2>1 DEF CanPrepare, NoRelationalState, Inv, ModeOK
  <2>4. /\ operation'[k].status = "validating" /\ operation'[k].body = b
        /\ \A x \in Keys \ {k} : operation'[x] = operation[x]
    BY <2>2 DEF Inv, Shapes
  <2>5. \A x \in Keys \ {k} : operation'[x].status \in {"none", "failed"}
    BY <2>3, <2>4, KeysAssumption DEF Over
  <2>6. /\ lore'.key = k /\ lore'.plan = PlanOf(source, decisions) /\ lore'.edited = FALSE
        /\ lore' = [key |-> lore'.key, plan |-> lore'.plan, edited |-> lore'.edited]
    BY <2>2 DEF Rows
  <2>7. Confirmed(b, source)' BY <2>2, <2>3 DEF Confirmed
  <2>8. UpgradedBy(lore.key)' BY <2>2, <2>4, <2>5, <2>6, <2>7 DEF UpgradedBy, Over
  <2>9. ModeOK' BY <2>2, <2>3, <2>4, <2>6, <2>8 DEF ModeOK
  <2>10. RequestOK' /\ Shapes' BY <1>0, <2>1, <2>2, <2>6, ReceiptWritten DEF Inv, Shapes
  <2> QED BY <2>9, <2>10 DEF Inv
<1> QED BY <1>1, <1>2

\* What both closing transactions know once they have checked again.
LEMMA Rechecked ==
  ASSUME Inv, NEW t \in Requests, Key(t) \in Keys, Recheck(t)
  PROVE  /\ mode = "migrating" /\ migration = {} /\ Over(Key(t)) /\ lore.key = Key(t)
         /\ UpgradedBy(lore.key) /\ Receipt(t).status = "validating"
  BY DEF Recheck, Receipt, Inv, ModeOK, UpgradedBy, Over

LEMMA FinalizeKeeps ==
  ASSUME Inv, NEW t \in Requests, Finalize(t)
  PROVE  Inv'
<1>0. PICK k \in Keys : k = Key(t) BY SoundNow DEF Finalize, Sound, Key
<1>1. Receipt(t).status # "none" /\ Receipt(t).body = Body(t)
  BY SoundNow DEF Finalize, Sound, Key, Body, Receipt
<1>2. CASE UNCHANGED <<operation, migration, mode>> /\ Answer(t, Receipt(t).status)
  <2>1. UNCHANGED <<source, decisions, lore>> BY DEF Finalize
  <2>2. Sound(Told(t, Receipt(t).status), operation)
    BY <1>0, <1>1 DEF Sound, Told, Receipt
  <2> QED BY <1>2, <2>1, <2>2, MovesAlone
<1>3. CASE UNCHANGED <<operation, migration, mode>> /\ Answer(t, "unknown")
  <2>1. UNCHANGED <<source, decisions, lore>> BY DEF Finalize
  <2>2. Sound(Told(t, "unknown"), operation) BY DEF Sound, Told
  <2> QED BY <1>3, <2>1, <2>2, MovesAlone
<1>4. CASE /\ Recheck(t) /\ operation' = [operation EXCEPT ![Key(t)].status = "ready"]
           /\ migration' = migration \union {Key(t)} /\ mode' = "relational" /\ Answer(t, "ready")
  <2>1. PICK b : b = Body(t) OBVIOUS
  <2>2. /\ mode = "migrating" /\ migration = {} /\ Over(k) /\ lore.key = k
        /\ UpgradedBy(k) /\ operation[k].status = "validating" /\ operation[k].body = b
    BY <1>0, <1>1, <1>4, <2>1, Rechecked DEF Receipt
  <2>3. operation' = [operation EXCEPT ![k] = [status |-> "ready", body |-> b]]
    <3>1. operation[k] = [status |-> "validating", body |-> b] BY <2>2 DEF Inv, Shapes
    <3>2. [operation[k] EXCEPT !.status = "ready"] = [status |-> "ready", body |-> b] BY <3>1
    <3> QED BY <1>0, <1>4, <3>2
  <2>4. /\ operation'[k].status = "ready" /\ operation'[k].body = b
        /\ \A x \in Keys \ {k} : operation'[x] = operation[x]
    BY <2>3 DEF Inv, Shapes
  <2>5. UNCHANGED <<source, decisions, lore>> BY DEF Finalize
  <2>6. Confirmed(b, source)' BY <2>2, <2>5 DEF UpgradedBy, Confirmed
  <2>7. UpgradedBy(lore.key)' BY <2>2, <2>4, <2>5, <2>6 DEF UpgradedBy, Over
  <2>8. ModeOK' BY <1>0, <1>4, <2>2, <2>4, <2>5, <2>7 DEF ModeOK
  <2>9. RequestOK' /\ Shapes' BY <1>0, <1>1, <1>4, <2>1, <2>2, <2>3, <2>5, ReceiptWritten DEF Inv, Shapes, Receipt
  <2> QED BY <2>8, <2>9 DEF Inv
<1> QED BY <1>2, <1>3, <1>4 DEF Finalize

LEMMA CompensateKeeps ==
  ASSUME Inv, NEW t \in Requests, Compensate(t)
  PROVE  Inv'
<1>0. PICK k \in Keys : k = Key(t) BY SoundNow DEF Compensate, Sound, Key
<1>1. Receipt(t).status # "none" /\ Receipt(t).body = Body(t)
  BY SoundNow DEF Compensate, Sound, Key, Body, Receipt
<1>2. CASE UNCHANGED <<operation, lore, mode>> /\ Answer(t, "unknown")
  <2>1. UNCHANGED <<source, decisions, migration>> BY DEF Compensate
  <2>2. Sound(Told(t, "unknown"), operation) BY DEF Sound, Told
  <2> QED BY <1>2, <2>1, <2>2, MovesAlone
<1>3. CASE /\ Recheck(t) /\ operation' = [operation EXCEPT ![Key(t)].status = "failed"]
           /\ lore' = NoRows /\ mode' = "legacy" /\ Answer(t, "failed")
  <2>1. PICK b : b = Body(t) OBVIOUS
  <2>2. /\ migration = {} /\ Over(k)
        /\ operation[k].status = "validating" /\ operation[k].body = b
    BY <1>0, <1>1, <1>3, <2>1, Rechecked DEF Receipt
  <2>3. operation' = [operation EXCEPT ![k] = [status |-> "failed", body |-> b]]
    <3>1. operation[k] = [status |-> "validating", body |-> b] BY <2>2 DEF Inv, Shapes
    <3>2. [operation[k] EXCEPT !.status = "failed"] = [status |-> "failed", body |-> b] BY <3>1
    <3> QED BY <1>0, <1>3, <3>2
  <2>4. /\ operation'[k].status = "failed"
        /\ \A x \in Keys \ {k} : operation'[x] = operation[x]
    BY <2>3 DEF Inv, Shapes
  <2>5. UNCHANGED <<source, decisions, migration>> BY DEF Compensate
  <2>6. Over(None)' BY <2>2, <2>4 DEF Over
  <2>7. ModeOK' BY <1>3, <2>2, <2>5, <2>6 DEF ModeOK
  <2>8. lore' = [key |-> lore'.key, plan |-> lore'.plan, edited |-> lore'.edited] BY <1>3 DEF NoRows
  <2>9. RequestOK' /\ Shapes'
    BY <1>0, <1>1, <1>3, <2>1, <2>2, <2>3, <2>5, <2>8, ReceiptWritten DEF Inv, Shapes, Receipt
  <2> QED BY <2>7, <2>9 DEF Inv
<1> QED BY <1>2, <1>3 DEF Compensate

-----------------------------------------------------------------------------
(* Rehearsals *)

LEMMA RehearsalKeeps ==
  ASSUME Inv, NEW w \in Worldviews, CommitRehearsal(w) \/ RollBack(w)
  PROVE  Inv'
<1>0. UNCHANGED <<source, decisions, operation, request>> BY DEF CommitRehearsal, RollBack
<1>1. RequestOK' BY <1>0, NobodyMoves
<1>2. \A k : Over(k)' <=> Over(k) BY <1>0 DEF Over
<1>3. CASE CommitRehearsal(w)
  <2>1. /\ lore' = RehearsalRows(w) /\ migration' = {w} /\ mode' = "relational"
        /\ mode = "legacy" /\ Ready(w, NoDecisions)
    BY <1>3 DEF CommitRehearsal, CanRehearse, Anchored
  <2>2. /\ lore'.key = w /\ lore'.plan = PlanOf(w, NoDecisions)
        /\ lore' = [key |-> lore'.key, plan |-> lore'.plan, edited |-> lore'.edited]
    BY <2>1 DEF RehearsalRows, Rows
  <2>3. Over(None)' BY <1>2, <2>1 DEF Inv, ModeOK
  <2>4. RehearsedBy(lore.key)' BY <2>1, <2>2, <2>3 DEF RehearsedBy
  <2>5. ModeOK' BY <2>1, <2>2, <2>4 DEF ModeOK
  <2>6. Shapes' BY <1>0, <2>1, <2>2 DEF Inv, Shapes
  <2> QED BY <1>1, <2>5, <2>6 DEF Inv
<1>4. CASE RollBack(w)
  <2>1. /\ lore' = NoRows /\ migration' = {} /\ mode' = "legacy"
        /\ mode = "relational" /\ migration = {w}
    BY <1>4 DEF RollBack, Valid
  <2>2. RehearsedBy(w)
    BY <2>1, KeysAssumption DEF Inv, ModeOK, UpgradedBy
  <2>3. ModeOK' BY <1>2, <2>1, <2>2 DEF ModeOK, RehearsedBy
  <2>4. Shapes' BY <1>0, <2>1 DEF Inv, Shapes, NoRows
  <2> QED BY <1>1, <2>3, <2>4 DEF Inv
<1> QED BY <1>3, <1>4

-----------------------------------------------------------------------------
LEMMA StepHolds == Inv /\ [RehearsalNext]_vars => Inv'
<1> SUFFICES ASSUME Inv, [RehearsalNext]_vars PROVE Inv'
  OBVIOUS
<1>1. CASE \E w \in Worldviews : CommitRehearsal(w) \/ RollBack(w)
  BY <1>1, RehearsalKeeps
<1>2. CASE Next
  BY <1>2, AuthorKeeps, BeginKeeps, ReadersKeep, PrepareKeeps, FinalizeKeeps, CompensateKeeps DEF Next
<1>3. CASE UNCHANGED vars
  <2>1. UNCHANGED <<mode, source, decisions, lore, operation, migration, request>> BY <1>3 DEF vars
  <2>2. Shapes' BY <2>1 DEF Inv, Shapes
  <2> QED BY <2>1, <2>2, ModeKept, NobodyMoves DEF Inv
<1> QED BY <1>1, <1>2, <1>3 DEF RehearsalNext

LEMMA Invariance == RehearsalSpec => []Inv
<1> QED BY InitHolds, StepHolds, PTL DEF RehearsalSpec

-----------------------------------------------------------------------------
(* What decides a plan *)

\* The preview carries every decision its plan was made of.
LEMMA PlanOfPreview ==
  ASSUME NEW w, NEW d
  PROVE  PlanOf(w, Semantic(w, d).states) = PlanOf(w, d)
<1> DEFINE e == Semantic(w, d).states
           S == {q \in DOMAIN d : q[2] \in DOMAIN Items[w]}
<1>1. e = [q \in S |-> d[q]] BY DEF Semantic, Restrict
<1>2. \A i \in DOMAIN Items[w] : \A r : <<w, i, r>> \in S <=> <<w, i, r>> \in DOMAIN d OBVIOUS
<1>3. \A i \in DOMAIN Items[w] : \A r :
        /\ <<w, i, r>> \in DOMAIN e <=> <<w, i, r>> \in DOMAIN d
        /\ <<w, i, r>> \in DOMAIN d => e[<<w, i, r>>] = d[<<w, i, r>>]
  BY <1>1, <1>2
<1> HIDE DEF e, S
<1>4. \A i \in DOMAIN Items[w] : \A r : Active(w, e, i, r) <=> Active(w, d, i, r)
  BY <1>3 DEF Active
<1>5. \A i \in DOMAIN Items[w] : TypeOf(w, e, i) = TypeOf(w, d, i)
  BY <1>3, <1>4 DEF TypeOf, Active
<1>6. \A i \in DOMAIN Items[w] : Unmapped(w, e, i) = Unmapped(w, d, i)
  BY <1>5 DEF Unmapped
<1>7. PlanOf(w, e) = PlanOf(w, d) BY <1>5, <1>6 DEF PlanOf
<1> QED BY <1>7 DEF e

LEMMA Twins ==
  ASSUME NEW w \in Worldviews, NEW d, Ready(w, d),
         NEW i \in DOMAIN Items[w], NEW j \in DOMAIN Items[w], i # j, Items[w][i].name = Items[w][j].name
  PROVE  \E r \in {"duplicate_name_same_type", "duplicate_name_cross_type"} :
             Active(w, d, i, r) /\ d[<<w, i, r>>].choice = Group(w, d, i)
<1> DEFINE r == DuplicateReason(w, d, i)
<1>1. r \in {"duplicate_name_same_type", "duplicate_name_cross_type"} BY DEF DuplicateReason
<1>2. Cardinality(Group(w, d, i)) > 1
  <2> DEFINE G == Group(w, d, i)
             N == {x \in DOMAIN Items[w] : Items[w][x].name = Items[w][i].name}
             a == <<i, TypeOf(w, d, i)>>
             b == <<j, TypeOf(w, d, j)>>
  <2>1. IsFiniteSet(N) BY ItemsAssumption, FS_Subset
  <2>2. IsFiniteSet({<<x, TypeOf(w, d, x)>> : x \in N})
    <3> DEFINE T == {<<x, TypeOf(w, d, x)>> : x \in N}
               f == [x \in N |-> <<x, TypeOf(w, d, x)>>]
    <3> HIDE DEF N
    <3>1. f \in Surjection(N, T) BY DEF Surjection
    <3> HIDE DEF f, T
    <3>2. IsFiniteSet(T) BY <2>1, <3>1, FS_Surjection
    <3> QED BY <3>2 DEF T
  <2>3. a \in G /\ b \in G /\ a # b BY DEF Group
  <2>4. IsFiniteSet(G) BY <2>2 DEF Group
  <2>5. IsFiniteSet({a, b}) /\ Cardinality({a, b}) = 2
    <3>1. IsFiniteSet({b}) /\ Cardinality({b}) = 1 BY FS_Singleton
    <3>2. {a, b} = {b} \union {a} /\ a \notin {b} BY <2>3
    <3> HIDE DEF a, b
    <3>3. IsFiniteSet({b} \union {a}) /\ Cardinality({b} \union {a}) = 1 + 1
      BY <3>1, <3>2, FS_AddElement
    <3> QED BY <3>2, <3>3
  <2>6. {a, b} \subseteq G BY <2>3
  <2>7. Cardinality({a, b}) <= Cardinality(G) BY <2>4, <2>6, FS_Subset
  <2>8. Cardinality(G) \in Nat BY <2>4, FS_CardinalityType
  <2> QED BY <2>5, <2>7, <2>8
<1>3. r \in ReasonsOf(w, d, i) BY <1>1, <1>2 DEF ReasonsOf, Reasons
<1>4. Unresolved(w, d, i) = {} BY DEF Ready
<1>5. Active(w, d, i, r) /\ StillFits(w, d, i, r) BY <1>3, <1>4 DEF Unresolved
<1>6. Options(w, d, i, r) = {Group(w, d, i)} BY <1>1 DEF Options
<1>7. d[<<w, i, r>>].choice = Group(w, d, i) BY <1>5, <1>6 DEF StillFits
<1> QED BY <1>1, <1>5, <1>7

-----------------------------------------------------------------------------
\* An upgrade that is under way can be finished by its request, for any number of
\* worldviews, decisions, keys and requests and whatever they do meanwhile.
THEOREM UpgradesResumable == RehearsalSpec => []StillResumable
<1>1. Inv => StillResumable
  <2> SUFFICES ASSUME Inv, NEW k \in Keys \ Unused, operation[k].status = "validating"
               PROVE  mode = "migrating" /\ Confirmed(operation[k].body, source) /\ Intact(k, source)
    BY DEF StillResumable
  <2>1. ~Over(None) BY KeysAssumption DEF Over
  <2>2. ~RehearsedBy(lore.key) BY <2>1 DEF RehearsedBy
  <2>3. mode = "migrating"
    <3>1. ASSUME UpgradedBy(lore.key) PROVE k = lore.key BY <3>1 DEF UpgradedBy, Over
    <3> QED BY <2>1, <2>2, <3>1 DEF Inv, ModeOK, Shapes
  <2>4. k = lore.key /\ Confirmed(operation[k].body, source) /\ lore.plan = PlanOf(source, decisions)
        /\ lore.edited = FALSE
    BY <2>3 DEF Inv, ModeOK, UpgradedBy, Over
  <2>5. lore = Rows(k, source, decisions) BY <2>4 DEF Inv, Shapes, Rows
  <2>6. lore # NoRows BY <2>4, KeysAssumption DEF NoRows
  <2> QED BY <2>3, <2>4, <2>5, <2>6 DEF Intact, Snapshot
<1> QED BY <1>1, Invariance, PTL

\* The rows of an upgrade are the plan of the preview its author confirmed, whatever
\* was decided and saved before and after.
THEOREM UpgradesAsConfirmed == RehearsalSpec => []UpgradedAsConfirmed
<1>1. Inv => UpgradedAsConfirmed
  <2> SUFFICES ASSUME Inv, lore # NoRows, lore.key \in Keys
               PROVE  LET receipt == operation[lore.key]
                      IN /\ lore.plan = PlanOf(receipt.body.source, receipt.body.states)
                         /\ {k \in Keys \ Unused : operation[k].status # "failed"} = {lore.key}
                         /\ mode = "relational" => receipt.status = "ready" /\ migration = {lore.key}
    BY DEF UpgradedAsConfirmed
  <2>1. ~RehearsedBy(lore.key) BY KeysAssumption DEF RehearsedBy
  <2>2. /\ UpgradedBy(lore.key) /\ operation[lore.key].status \in {"validating", "ready"}
        /\ mode = "relational" => operation[lore.key].status = "ready" /\ migration = {lore.key}
    BY <2>1 DEF Inv, ModeOK, Shapes
  <2>3. operation[lore.key].body = Semantic(source, decisions) BY <2>2 DEF UpgradedBy, Confirmed
  <2>4. operation[lore.key].body.source = source BY <2>3 DEF Semantic
  <2>5. lore.plan = PlanOf(source, operation[lore.key].body.states)
    BY <2>2, <2>3, PlanOfPreview DEF UpgradedBy
  <2>6. {k \in Keys \ Unused : operation[k].status # "failed"} = {lore.key}
    BY <2>2 DEF UpgradedBy, Over, Unused
  <2> QED BY <2>2, <2>4, <2>5, <2>6
<1> QED BY <1>1, Invariance, PTL

\* Elements of one name come only out of upgrades whose author judged them.
THEOREM TwinsJudged == RehearsalSpec => []TwinsWereJudged
<1>1. Inv => TwinsWereJudged
  <2> SUFFICES ASSUME Inv, lore # NoRows, NEW i \in DOMAIN lore.plan, NEW j \in DOMAIN lore.plan,
                      i # j, lore.plan[i].name = lore.plan[j].name
               PROVE  \E r \in {"duplicate_name_same_type", "duplicate_name_cross_type"} :
                          /\ Active(source, decisions, i, r)
                          /\ decisions[<<source, i, r>>].choice =
                                 {<<x, lore.plan[x].type>> :
                                      x \in {y \in DOMAIN lore.plan : lore.plan[y].name = lore.plan[i].name}}
    BY DEF TwinsWereJudged
  <2>0. \A w, d : /\ DOMAIN PlanOf(w, d) = DOMAIN Items[w]
                  /\ \A x \in DOMAIN Items[w] : /\ PlanOf(w, d)[x].name = Items[w][x].name
                                               /\ PlanOf(w, d)[x].type = TypeOf(w, d, x)
    BY DEF PlanOf
  <2>1. UpgradedBy(lore.key) \/ RehearsedBy(lore.key) BY DEF Inv, ModeOK, Shapes
  <2>2. CASE UpgradedBy(lore.key)
    <3>1. Ready(source, decisions) /\ lore.plan = PlanOf(source, decisions) /\ source \in Worldviews
      BY <2>2 DEF UpgradedBy, Confirmed, Inv, Shapes
    <3>2. {<<x, lore.plan[x].type>> : x \in {y \in DOMAIN lore.plan : lore.plan[y].name = lore.plan[i].name}}
            = Group(source, decisions, i)
      BY <2>0, <3>1 DEF Group
    <3> QED BY <2>0, <3>1, <3>2, Twins
  <2>3. CASE RehearsedBy(lore.key)
    <3>1. PICK w \in Worldviews : Ready(w, NoDecisions) /\ lore.plan = PlanOf(w, NoDecisions)
      BY <2>3 DEF RehearsedBy
    <3>2. i \in DOMAIN Items[w] /\ j \in DOMAIN Items[w] /\ Items[w][i].name = Items[w][j].name
      BY <2>0, <3>1
    <3>4. \E r : Active(w, NoDecisions, i, r) BY <3>1, <3>2, Twins
    <3>3. DOMAIN NoDecisions = {} BY DEF NoDecisions
    <3> QED BY <3>3, <3>4 DEF Active
  <2> QED BY <2>1, <2>2, <2>3
<1> QED BY <1>1, Invariance, PTL

\* What a request is told of the end of its upgrade is so, and stays so.
THEOREM AnswersStayTrue == RehearsalSpec => []AnswersTrue
<1>1. Inv => AnswersTrue
  <2> SUFFICES ASSUME Inv, NEW t \in Requests, request[t].answer \in {"ready", "failed"}
               PROVE  /\ operation[request[t].key] = [status |-> request[t].answer, body |-> request[t].body]
                      /\ request[t].answer = "ready" => mode = "relational" /\ migration = {request[t].key}
    BY DEF AnswersTrue
  <2>1. PICK k \in Keys : /\ k = request[t].key /\ operation[k].status = request[t].answer
                          /\ operation[k].body = request[t].body
    BY SoundNow DEF Sound
  <2>2. operation[k] = [status |-> operation[k].status, body |-> operation[k].body] BY DEF Inv, Shapes
  <2>3. ASSUME operation[k].status = "ready" PROVE mode = "relational" /\ migration = {k}
    <3>1. ~Over(None) BY <2>3, KeysAssumption DEF Over
    <3>2. ~RehearsedBy(lore.key) BY <3>1 DEF RehearsedBy
    <3>3. ASSUME UpgradedBy(lore.key) PROVE k = lore.key BY <2>3, <3>3 DEF UpgradedBy, Over
    <3> QED BY <2>3, <3>1, <3>2, <3>3 DEF Inv, ModeOK, Shapes
  <2> QED BY <2>1, <2>2, <2>3
<1> QED BY <1>1, Invariance, PTL

\* A legacy project bears no trace of an upgrade or a rehearsal.
THEOREM LegacyStaysClean == RehearsalSpec => []LegacyIsClean
<1>1. Inv => LegacyIsClean BY DEF Inv, ModeOK, LegacyIsClean, NoResidue
<1> QED BY <1>1, Invariance, PTL

\* A project that an operation switched, or whose author works in the new lore,
\* is never taken back, and a receipt that is closed stays as it is.
THEOREM NoReturn == RehearsalSpec => NoWayBack
<1>1. ASSUME Inv, RehearsalNext
      PROVE  /\ mode = "relational" /\ (lore.key \in Keys \/ lore.edited) =>
                   mode' = "relational" /\ lore' # NoRows
             /\ \A k \in Keys \ Unused : operation[k].status # "validating" => operation'[k] = operation[k]
  <2>1. CASE UNCHANGED <<mode, lore, operation>>
    <3>1. mode = "relational" /\ (lore.key \in Keys \/ lore.edited) => lore # NoRows
      BY KeysAssumption DEF NoRows
    <3> QED BY <2>1, <3>1
  <2>2. CASE EditLore
    <3>1. lore = [key |-> lore.key, plan |-> lore.plan, edited |-> lore.edited] BY <1>1 DEF Inv, Shapes
    <3>2. lore' = [key |-> lore.key, plan |-> lore.plan, edited |-> TRUE] BY <2>2, <3>1 DEF EditLore
    <3>3. lore' # NoRows BY <3>2 DEF NoRows
    <3> QED BY <2>2, <3>3 DEF EditLore
  <2>3. CASE \E w \in Worldviews : CommitRehearsal(w)
    <3>1. mode = "legacy" /\ operation' = operation BY <2>3 DEF CommitRehearsal, CanRehearse
    <3> QED BY <3>1
  <2>4. ASSUME NEW w \in Worldviews, RollBack(w)
        PROVE  lore.key \notin Keys /\ ~lore.edited /\ operation' = operation
    <3>1. lore = Rows(w, w, NoDecisions) /\ operation' = operation
      BY <2>4 DEF RollBack, Valid, Untouched, Written, RehearsalRows
    <3>2. lore.key = w /\ lore.edited = FALSE BY <3>1 DEF Rows
    <3> QED BY <3>1, <3>2, KeysAssumption
  <2>5. ASSUME NEW t \in Requests, Prepare(t), ~UNCHANGED <<mode, lore, operation>>
        PROVE  mode = "legacy" /\ \A k \in Keys \ Unused : operation'[k] = operation[k]
    <3>1. /\ mode = "legacy" /\ operation[Key(t)].status = "none"
          /\ operation' = [operation EXCEPT ![Key(t)] = [status |-> "validating", body |-> Body(t)]]
      BY <2>5 DEF Prepare, CanPrepare, Receipt
    <3>2. \A k \in Keys \ Unused : k # Key(t) BY <3>1 DEF Unused
    <3> QED BY <1>1, <3>1, <3>2 DEF Inv, Shapes
  <2>6. ASSUME NEW t \in Requests, Finalize(t) \/ Compensate(t), ~UNCHANGED <<mode, lore, operation>>
        PROVE  /\ mode = "migrating"
               /\ \A k \in Keys \ Unused : operation[k].status # "validating" => operation'[k] = operation[k]
    <3>1. Recheck(t) BY <2>6 DEF Finalize, Compensate
    <3>2. mode = "migrating" /\ operation[Key(t)].status = "validating" BY <3>1 DEF Recheck, Receipt
    <3>3. \E s : operation' = [operation EXCEPT ![Key(t)].status = s] BY <2>6 DEF Finalize, Compensate
    <3> QED BY <1>1, <3>2, <3>3 DEF Inv, Shapes
  <2>7. ASSUME NEW t \in Requests, Resume(t) \/ Verify(t) \/ Compare(t) \/ Fault(t) \/ Lose(t)
        PROVE  UNCHANGED <<mode, lore, operation>>
    BY <2>7 DEF Resume, Verify, Compare, Fault, Lose
  <2>8. ASSUME NEW t \in Requests, NEW k \in Keys, Begin(t, k)
        PROVE  UNCHANGED <<mode, lore, operation>>
    BY <2>8 DEF Begin
  <2>9. ASSUME \/ \E w \in Worldviews : SaveWorldview(w)
               \/ \E i \in Positions, r \in Reasons : Resolve(i, r)
               \/ ToggleFreeze
        PROVE  UNCHANGED <<mode, lore, operation>>
    BY <2>9 DEF SaveWorldview, Resolve, Decide, Revoke, ToggleFreeze
  <2> QED
    BY <1>1, <2>1, <2>2, <2>3, <2>4, <2>5, <2>6, <2>7, <2>8, <2>9 DEF RehearsalNext, Next
<1>2. ASSUME UNCHANGED vars, Inv
      PROVE  /\ mode = "relational" /\ (lore.key \in Keys \/ lore.edited) =>
                   mode' = "relational" /\ lore' # NoRows
             /\ \A k \in Keys \ Unused : operation[k].status # "validating" => operation'[k] = operation[k]
  BY <1>2, KeysAssumption DEF vars, NoRows
<1> QED BY <1>1, <1>2, Invariance, PTL DEF RehearsalSpec, NoWayBack

=============================================================================
