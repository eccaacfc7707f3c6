------------------------- MODULE LoreExtractionProofs -------------------------
(***************************************************************************)
(* Proofs about LoreExtraction for any numbers of posters, keys, documents *)
(* and reviewers and any replies.  The inductive invariant has one part    *)
(* for the posters (PostsOK: who is past the reservation owns its key),    *)
(* one that keeps the two halves apart (Unsaved: a batch that is not       *)
(* completed has no candidates, so nobody reviews them), and one part each *)
(* for the history of a candidate, its element, its matches, the reviewers *)
(* and what they were told.                                                *)
(***************************************************************************)
EXTENDS LoreExtraction, TLAPS

Paying(p) == post[p].pc \in {"call", "wait", "save"}

\* A key is bound to one document, paid for by one poster, and called once.
PostsOK ==
    /\ \A k \in Keys : calls[k] <= 1 /\ (batch[k] = Nothing => calls[k] = 0)
    /\ \A p \in Posters : post[p].pc # "idle" => post[p].key \in Keys /\ post[p].doc \in Docs
    /\ \A p \in Posters : Paying(p) =>
           /\ batch[post[p].key] # Nothing
           /\ batch[post[p].key].doc = post[p].doc /\ batch[post[p].key].status = "running"
    /\ \A p \in Posters : post[p].pc = "call" => calls[post[p].key] = 0
    /\ \A p \in Posters : post[p].pc = "answered" =>
           batch[post[p].key] # Nothing /\ batch[post[p].key].doc = post[p].doc
    /\ \A p, q \in Posters : p # q /\ Paying(p) /\ Paying(q) => post[p].key # post[q].key

\* A reply that is about to be saved was compared with the elements of before.
ComparedOK ==
    \A p \in Posters : post[p].pc = "save" =>
        post[p].reply \in Replies /\ \A e \in OldIds : <<e, OldElements[e].name>> \in post[p].names

Unsettled(k) == batch[k] = Nothing \/ batch[k].status = "running"
Unsaved == \A c \in Candidates : Unsettled(c[1]) => candidate[c] = Nothing

HistoryOf(c) ==
    IF candidate[c] = Nothing THEN revision[c] = <<>>
    ELSE LET row == candidate[c]  h == revision[c] IN
         /\ Len(h) = row.revision
         /\ h[1].kind = "extracted" /\ h[Len(h)].content = row.content
         /\ \A i \in 2 .. Len(h) - 1 : h[i].kind = "edited"
         /\ row.status # "pending_review" => h[Len(h)].kind = row.status
         /\ row.status = "pending_review" => \A i \in 2 .. Len(h) : h[i].kind = "edited"
HistoryOK == \A c \in Candidates : HistoryOf(c)

FirstName(c) == revision[c][1].content.name

\* The matches of a candidate are all that bore its first name.
MatchesOf(c) ==
    candidate[c] # Nothing =>
        /\ \A d \in Candidates \ {c} :
               d[1] = c[1] /\ revision[d] # <<>> /\ FirstName(d) = FirstName(c)
                   /\ FirstName(c) # Nothing => d \in candidate[c].suggestions
        /\ \A e \in OldIds : OldElements[e].name = FirstName(c) => e \in candidate[c].suggestions
MatchesOK == \A c \in Candidates : MatchesOf(c)

\* An element is its accepted candidate, with nothing left open.
ElementOf(c) ==
    /\ element[c] # Nothing <=> candidate[c] # Nothing /\ candidate[c].status = "accepted"
    /\ element[c] # Nothing =>
           /\ element[c].name # Nothing /\ ~element[c].content.open
           /\ element[c].content = candidate[c].content
           /\ candidate[c].suggestions \subseteq element[c].resolved
ElementOK == \A c \in Candidates : ElementOf(c)

\* What a request under way has checked is still so if it can claim the row.
Judged(w) ==
    LET r == review[w]  row == candidate[r.cand] IN
    /\ r.cand \in Candidates /\ row # Nothing /\ r.op \in {"edited", "accepted", "rejected"}
    /\ r.op = "edited" => r.content \in ContentSet
    /\ r.expected <= row.revision
    /\ r.op = "accepted" /\ Claimable(w) => Acceptable(row, r.resolved)
ReviewsOK ==
    /\ \A w \in Reviewers : review[w].pc # "idle" => Judged(w)
    /\ \A w \in Reviewers : review[w].pc = "write" => Claimable(w)
    /\ \A v, w \in Reviewers :
           review[v].pc = "write" /\ review[w].pc = "write" /\ review[v].cand = review[w].cand => v = w

ToldOK ==
    \A t \in told : /\ candidate[t[1]] # Nothing /\ candidate[t[1]].status = t[2]
                    /\ t[2] \in {"accepted", "rejected"}

IInv ==
    /\ TypeOK /\ PostsOK /\ ComparedOK /\ Unsaved
    /\ HistoryOK /\ MatchesOK /\ ElementOK /\ ReviewsOK /\ ToldOK

LEMMA InitHolds == Init => IInv
<1> SUFFICES ASSUME Init PROVE IInv
  OBVIOUS
<1>1. TypeOK
  BY DEF Init, TypeOK, Posts, Reviews, Idle
<1>2. \A p \in Posters : post[p].pc = "idle"
  BY DEF Init
<1>3. \A w \in Reviewers : review[w].pc = "idle"
  BY DEF Init, Idle
<1>4. PostsOK /\ ComparedOK
  BY <1>2 DEF Init, PostsOK, ComparedOK, Paying
<1>5. Unsaved /\ HistoryOK /\ MatchesOK /\ ElementOK /\ ToldOK
  BY DEF Init, Unsaved, HistoryOK, HistoryOf, MatchesOK, MatchesOf, ElementOK, ElementOf, ToldOK
<1>6. ReviewsOK
  BY <1>3 DEF ReviewsOK
<1> QED BY <1>1, <1>4, <1>5, <1>6 DEF IInv

-----------------------------------------------------------------------------
(* Posters *)

\* Steps of a poster that save nothing leave everything about candidates alone.
LEMMA RowsKept ==
  ASSUME IInv, UNCHANGED <<candidate, revision, element, review, told>>
  PROVE  HistoryOK' /\ MatchesOK' /\ ElementOK' /\ ReviewsOK' /\ ToldOK'
<1>1. HistoryOK' BY DEF IInv, HistoryOK, HistoryOf
<1>2. MatchesOK' BY DEF IInv, MatchesOK, MatchesOf, FirstName
<1>3. ElementOK' BY DEF IInv, ElementOK, ElementOf
<1>4. ReviewsOK' BY DEF IInv, ReviewsOK, Judged, Claimable, Acceptable
<1>5. ToldOK' BY DEF IInv, ToldOK
<1> QED BY <1>1, <1>2, <1>3, <1>4, <1>5

\* A poster that moves without touching its batch or its calls.
LEMMA PosterMoves ==
  ASSUME IInv, NEW p \in Posters, UNCHANGED <<rows, review, calls, told>>,
         post' \in [Posters -> Posts],
         \A q \in Posters : q # p => post'[q] = post[q],
         post'[p].pc # "idle" => post'[p].key \in Keys /\ post'[p].doc \in Docs,
         Paying(p)' => Paying(p) /\ post'[p].key = post[p].key /\ post'[p].doc = post[p].doc,
         post'[p].pc # "call",
         post'[p].pc = "answered" =>
             batch[post'[p].key] # Nothing /\ batch[post'[p].key].doc = post'[p].doc,
         post'[p].pc = "save" =>
             /\ post'[p].reply \in Replies
             /\ \A e \in OldIds : <<e, OldElements[e].name>> \in post'[p].names
  PROVE  IInv'
<1>1. HistoryOK' /\ MatchesOK' /\ ElementOK' /\ ReviewsOK' /\ ToldOK'
  BY RowsKept DEF rows
<1>2. TypeOK' BY DEF IInv, TypeOK, rows
<1>3. PostsOK'
  <2>1. \A q \in Posters : Paying(q)' =>
          Paying(q) /\ post'[q].key = post[q].key /\ post'[q].doc = post[q].doc
    BY DEF Paying
  <2>2. \A k \in Keys : calls'[k] <= 1 /\ (batch'[k] = Nothing => calls'[k] = 0)
    BY DEF IInv, PostsOK, rows
  <2>3. \A q \in Posters : post'[q].pc # "idle" => post'[q].key \in Keys /\ post'[q].doc \in Docs
    BY DEF IInv, PostsOK
  <2>4. \A q \in Posters : post'[q].pc = "call" => calls'[post'[q].key] = 0
    BY DEF IInv, PostsOK
  <2>5. \A q \in Posters : post'[q].pc = "answered" =>
          batch'[post'[q].key] # Nothing /\ batch'[post'[q].key].doc = post'[q].doc
    BY DEF IInv, PostsOK, rows
  <2> QED BY <2>1, <2>2, <2>3, <2>4, <2>5 DEF IInv, PostsOK, rows
<1>4. ComparedOK' BY DEF IInv, ComparedOK
<1>5. Unsaved' BY DEF IInv, Unsaved, Unsettled, rows
<1> QED BY <1>1, <1>2, <1>3, <1>4, <1>5 DEF IInv

\* A poster whose row is replaced.
LEMMA PosterSet ==
  ASSUME TypeOK, NEW p \in Posters, NEW t \in Posts, post' = [post EXCEPT ![p] = t]
  PROVE  /\ post' \in [Posters -> Posts] /\ post'[p] = t
         /\ \A q \in Posters : q # p => post'[q] = post[q]
  BY DEF TypeOK

\* A poster that only goes on.
LEMMA PosterGoes ==
  ASSUME TypeOK, NEW p \in Posters,
         NEW s \in {"insert", "call", "wait", "answered", "conflict"},
         post' = [post EXCEPT ![p].pc = s]
  PROVE  /\ post' \in [Posters -> Posts]
         /\ post'[p].pc = s /\ post'[p].key = post[p].key /\ post'[p].doc = post[p].doc
         /\ \A q \in Posters : q # p => post'[q] = post[q]
<1> DEFINE t == [post[p] EXCEPT !.pc = s]
<1>1. post[p] \in Posts BY DEF TypeOK
<1>2. t \in Posts /\ t.pc = s /\ t.key = post[p].key /\ t.doc = post[p].doc
  BY <1>1 DEF Posts
<1>3. post' = [post EXCEPT ![p] = t] BY DEF TypeOK
<1> HIDE DEF t
<1> QED BY <1>2, <1>3, PosterSet

\* A poster that is done and forgets its reply.
LEMMA PosterEnds ==
  ASSUME TypeOK, NEW p \in Posters, NEW s \in {"answered", "dead"},
         post' = [post EXCEPT ![p].pc = s, ![p].reply = <<>>, ![p].names = {}]
  PROVE  /\ post' \in [Posters -> Posts]
         /\ post'[p].pc = s /\ post'[p].key = post[p].key /\ post'[p].doc = post[p].doc
         /\ \A q \in Posters : q # p => post'[q] = post[q]
<1> DEFINE t == [[[post[p] EXCEPT !.pc = s] EXCEPT !.reply = <<>>] EXCEPT !.names = {}]
<1>1. post[p] \in Posts BY DEF TypeOK
<1>2. t \in Posts /\ t.pc = s /\ t.key = post[p].key /\ t.doc = post[p].doc
  BY <1>1 DEF Posts
<1>3. post' = [post EXCEPT ![p] = t] BY DEF TypeOK
<1> HIDE DEF t
<1> QED BY <1>2, <1>3, PosterSet

LEMMA BeginKeeps ==
  ASSUME IInv, NEW p \in Posters, NEW k \in Keys, NEW d \in Docs, Begin(p, k, d)
  PROVE  IInv'
<1> DEFINE next == IF batch[k] = Nothing THEN "insert" ELSE Bound(k, d)
           t == [[[post[p] EXCEPT !.key = k] EXCEPT !.doc = d] EXCEPT !.pc = next]
<1>1. post[p] \in Posts BY DEF IInv, TypeOK
<1>2. t \in Posts /\ t.key = k /\ t.doc = d /\ t.pc = next
  BY <1>1 DEF Posts, Bound
<1>3. post' = [post EXCEPT ![p] = t] BY DEF Begin, IInv, TypeOK
<1> HIDE DEF t
<1>4. /\ post'[p].key = k /\ post'[p].doc = d /\ post'[p].pc = next
      /\ \A q \in Posters : q # p => post'[q] = post[q]
      /\ post' \in [Posters -> Posts]
  BY <1>2, <1>3, PosterSet DEF IInv
<1> QED BY <1>4, PosterMoves DEF Begin, Bound, Paying

LEMMA PrepareKeeps ==
  ASSUME IInv, NEW p \in Posters, NEW reply \in Replies, Prepare(p, reply)
  PROVE  IInv'
<1> DEFINE found == {<<e, OldElements[e].name>> : e \in OldIds} \cup
                    {<<<<"element", c>>, element[c].name>> :
                        c \in {x \in Candidates : element[x] # Nothing}}
<1>1. found \in SUBSET (Ids \X Names)
  <2>1. ASSUME NEW e \in OldIds PROVE <<e, OldElements[e].name>> \in Ids \X Names
    BY DEF Ids, Names, ContentSet
  <2>2. ASSUME NEW c \in Candidates, element[c] # Nothing
        PROVE  <<<<"element", c>>, element[c].name>> \in Ids \X Names
    BY <2>2 DEF Ids, IInv, TypeOK, Elements
  <2> QED BY <2>1, <2>2
<1>2. \A e \in OldIds : <<e, OldElements[e].name>> \in found
  OBVIOUS
<1> HIDE DEF found
<1> DEFINE t == [[[post[p] EXCEPT !.pc = "save"] EXCEPT !.reply = reply] EXCEPT !.names = found]
<1>3. post[p] \in Posts BY DEF IInv, TypeOK
<1>4. /\ t \in Posts /\ t.pc = "save" /\ t.reply = reply /\ t.names = found
      /\ t.key = post[p].key /\ t.doc = post[p].doc
  BY <1>3, <1>1 DEF Posts
<1>5. post' = [post EXCEPT ![p] = t] BY DEF Prepare, found, IInv, TypeOK
<1> HIDE DEF t
<1>6. /\ post'[p].pc = "save" /\ post'[p].reply = reply /\ post'[p].names = found
      /\ post'[p].key = post[p].key /\ post'[p].doc = post[p].doc
      /\ \A q \in Posters : q # p => post'[q] = post[q]
      /\ post' \in [Posters -> Posts]
  BY <1>4, <1>5, PosterSet DEF IInv
<1>7. Paying(p) /\ post[p].key \in Keys /\ post[p].doc \in Docs
  BY DEF Prepare, Paying, IInv, PostsOK
<1>8. UNCHANGED <<rows, review, calls, told>> BY DEF Prepare
<1>9. \A e \in OldIds : <<e, OldElements[e].name>> \in post'[p].names
  BY <1>2, <1>6
<1>10. post'[p].pc # "call" /\ post'[p].pc # "answered" BY <1>6
<1> QED BY <1>6, <1>7, <1>8, <1>9, <1>10, PosterMoves

LEMMA DieKeeps ==
  ASSUME IInv, NEW p \in Posters, Die(p)
  PROVE  IInv'
<1>1. /\ post'[p].pc = "dead" /\ post'[p].key = post[p].key /\ post'[p].doc = post[p].doc
      /\ \A q \in Posters : q # p => post'[q] = post[q]
      /\ post' \in [Posters -> Posts]
  BY PosterEnds DEF Die, IInv
<1>2. post[p].key \in Keys /\ post[p].doc \in Docs
  BY DEF Die, IInv, PostsOK
<1> QED BY <1>1, <1>2, PosterMoves DEF Die, Paying

LEMMA ReserveKeeps ==
  ASSUME IInv, NEW p \in Posters, Reserve(p)
  PROVE  IInv'
<1> DEFINE k == post[p].key  d == post[p].doc
           new == [doc |-> d, status |-> "running", retryable |-> FALSE]
<1>1. k \in Keys /\ d \in Docs /\ post[p].pc = "insert"
  BY DEF Reserve, IInv, PostsOK
<1>2. CASE batch[k] # Nothing
  <2>1. /\ post'[p].pc = Bound(k, d) /\ post'[p].key = k /\ post'[p].doc = d
        /\ \A q \in Posters : q # p => post'[q] = post[q]
        /\ post' \in [Posters -> Posts]
    BY <1>2, PosterGoes DEF Reserve, Bound, IInv
  <2> QED BY <1>1, <1>2, <2>1, PosterMoves DEF Reserve, Bound, Paying, rows
<1>3. CASE batch[k] = Nothing
  <2>1. new \in Batches /\ new # Nothing /\ new.doc = d /\ new.status = "running"
    <3>1. new \in Batches BY <1>1 DEF Batches, BatchStatuses
    <3> QED BY <3>1, NothingIsNoRow
  <2>2. /\ batch'[k] = new /\ \A j \in Keys : j # k => batch'[j] = batch[j]
        /\ batch' \in [Keys -> Batches \cup {Nothing}]
    BY <1>1, <1>3, <2>1 DEF Reserve, IInv, TypeOK
  <2>3. /\ post'[p].pc = "call" /\ post'[p].key = k /\ post'[p].doc = d
        /\ \A q \in Posters : q # p => post'[q] = post[q]
        /\ post' \in [Posters -> Posts]
    BY <1>3, PosterGoes DEF Reserve, IInv
  <2>4. UNCHANGED <<candidate, revision, element, review, calls, told>>
    BY DEF Reserve
  <2>5. HistoryOK' /\ MatchesOK' /\ ElementOK' /\ ReviewsOK' /\ ToldOK'
    BY <2>4, RowsKept
  <2>6. TypeOK' BY <2>2, <2>3, <2>4 DEF IInv, TypeOK
  <2>7. \A q \in Posters : q # p /\ (Paying(q) \/ post[q].pc = "answered") => post[q].key # k
    BY <1>3 DEF IInv, PostsOK
  <2>8. PostsOK'
    <3>1. \A j \in Keys : calls'[j] <= 1 /\ (batch'[j] = Nothing => calls'[j] = 0)
      BY <2>1, <2>2, <2>4 DEF IInv, PostsOK
    <3>2. \A q \in Posters : post'[q].pc # "idle" => post'[q].key \in Keys /\ post'[q].doc \in Docs
      BY <1>1, <2>3 DEF IInv, PostsOK
    <3>3. \A q \in Posters : Paying(q)' =>
            /\ batch'[post'[q].key] # Nothing
            /\ batch'[post'[q].key].doc = post'[q].doc /\ batch'[post'[q].key].status = "running"
      BY <1>1, <2>1, <2>2, <2>3, <2>7 DEF IInv, PostsOK, Paying
    <3>4. \A q \in Posters : post'[q].pc = "call" => calls'[post'[q].key] = 0
      BY <1>1, <1>3, <2>3, <2>4 DEF IInv, PostsOK
    <3>5. \A q \in Posters : post'[q].pc = "answered" =>
            batch'[post'[q].key] # Nothing /\ batch'[post'[q].key].doc = post'[q].doc
      BY <2>2, <2>3, <2>7 DEF IInv, PostsOK
    <3>6. \A q, r \in Posters : q # r /\ Paying(q)' /\ Paying(r)' => post'[q].key # post'[r].key
      BY <2>3, <2>7 DEF IInv, PostsOK, Paying
    <3> QED BY <3>1, <3>2, <3>3, <3>4, <3>5, <3>6 DEF PostsOK
  <2>9. ComparedOK' BY <2>3 DEF IInv, ComparedOK
  <2>10. Unsaved' BY <1>3, <2>2, <2>4 DEF IInv, Unsaved, Unsettled, Candidates
  <2> QED BY <2>5, <2>6, <2>8, <2>9, <2>10 DEF IInv
<1> QED BY <1>2, <1>3

LEMMA CallKeeps ==
  ASSUME IInv, NEW p \in Posters, Call(p)
  PROVE  IInv'
<1> DEFINE k == post[p].key
<1>1. k \in Keys /\ post[p].doc \in Docs /\ post[p].pc = "call" /\ calls[k] = 0 /\ Paying(p)
  BY DEF Call, IInv, PostsOK, Paying
<1>2. /\ post'[p].pc = "wait" /\ post'[p].key = k /\ post'[p].doc = post[p].doc
      /\ \A q \in Posters : q # p => post'[q] = post[q]
      /\ post' \in [Posters -> Posts]
  BY PosterGoes DEF Call, IInv
<1>3. calls'[k] = 1 /\ calls' \in [Keys -> Nat] /\ \A j \in Keys : j # k => calls'[j] = calls[j]
  BY <1>1 DEF Call, IInv, TypeOK
<1>4. UNCHANGED <<batch, candidate, revision, element, review, told>>
  BY DEF Call, rows
<1>5. HistoryOK' /\ MatchesOK' /\ ElementOK' /\ ReviewsOK' /\ ToldOK'
  BY <1>4, RowsKept
<1>6. TypeOK' BY <1>2, <1>3, <1>4 DEF IInv, TypeOK
<1>7. PostsOK'
  <2>1. \A j \in Keys : calls'[j] <= 1 /\ (batch'[j] = Nothing => calls'[j] = 0)
    BY <1>1, <1>3, <1>4 DEF IInv, PostsOK
  <2>2. \A q \in Posters : post'[q].pc # "idle" => post'[q].key \in Keys /\ post'[q].doc \in Docs
    BY <1>1, <1>2 DEF IInv, PostsOK
  <2>3. \A q \in Posters : Paying(q)' <=> Paying(q)
    BY <1>1, <1>2 DEF Paying
  <2>4. \A q \in Posters : post'[q].key = post[q].key /\ post'[q].doc = post[q].doc
    BY <1>2
  <2>5. \A q \in Posters : post'[q].pc = "call" => calls'[post'[q].key] = 0
    <3> SUFFICES ASSUME NEW q \in Posters, post'[q].pc = "call" PROVE calls'[post'[q].key] = 0
      OBVIOUS
    <3>1. q # p /\ post'[q] = post[q] BY <1>2
    <3>2. post[q].key \in Keys /\ post[q].key # k /\ calls[post[q].key] = 0
      BY <1>1, <3>1 DEF IInv, PostsOK, Paying
    <3> QED BY <1>3, <3>1, <3>2
  <2>6. \A q \in Posters : post'[q].pc = "answered" =>
          batch'[post'[q].key] # Nothing /\ batch'[post'[q].key].doc = post'[q].doc
    BY <1>2, <1>4 DEF IInv, PostsOK
  <2> QED BY <1>4, <2>1, <2>2, <2>3, <2>4, <2>5, <2>6 DEF IInv, PostsOK
<1>8. ComparedOK' BY <1>2 DEF IInv, ComparedOK
<1>9. Unsaved' BY <1>4 DEF IInv, Unsaved, Unsettled
<1> QED BY <1>5, <1>6, <1>7, <1>8, <1>9 DEF IInv

\* A poster that settles its batch and is answered.
LEMMA Settles ==
  ASSUME IInv, NEW p \in Posters, Paying(p), NEW b \in Batches,
         b.doc = post[p].doc, b.status # "running",
         batch' = [batch EXCEPT ![post[p].key] = b],
         post' = [post EXCEPT ![p].pc = "answered", ![p].reply = <<>>, ![p].names = {}],
         UNCHANGED calls
  PROVE  /\ batch' \in [Keys -> Batches \cup {Nothing}] /\ post' \in [Posters -> Posts]
         /\ PostsOK' /\ ComparedOK'
         /\ \A k \in Keys : Unsettled(k)' => k # post[p].key /\ Unsettled(k)
<1> DEFINE k == post[p].key
<1>1. k \in Keys /\ post[p].doc \in Docs
  BY DEF IInv, PostsOK, Paying
<1>2. /\ batch'[k] = b /\ b # Nothing /\ \A j \in Keys : j # k => batch'[j] = batch[j]
      /\ batch' \in [Keys -> Batches \cup {Nothing}]
  BY <1>1, NothingIsNoRow DEF IInv, TypeOK
<1>3. /\ post'[p].pc = "answered" /\ post'[p].key = k /\ post'[p].doc = post[p].doc
      /\ \A q \in Posters : q # p => post'[q] = post[q]
      /\ post' \in [Posters -> Posts]
  BY PosterEnds DEF IInv
<1>4. \A q \in Posters : Paying(q)' => q # p /\ Paying(q) /\ post[q].key # k
  BY <1>3 DEF IInv, PostsOK, Paying
<1>5. PostsOK'
  <2>1. \A j \in Keys : calls'[j] <= 1 /\ (batch'[j] = Nothing => calls'[j] = 0)
    BY <1>2 DEF IInv, PostsOK
  <2>2. \A q \in Posters : post'[q].pc # "idle" => post'[q].key \in Keys /\ post'[q].doc \in Docs
    BY <1>1, <1>3 DEF IInv, PostsOK
  <2>3. \A q \in Posters : Paying(q)' =>
          /\ batch'[post'[q].key] # Nothing
          /\ batch'[post'[q].key].doc = post'[q].doc /\ batch'[post'[q].key].status = "running"
    BY <1>2, <1>3, <1>4, <2>2 DEF IInv, PostsOK, Paying
  <2>4. \A q \in Posters : post'[q].pc = "call" => calls'[post'[q].key] = 0
    BY <1>3 DEF IInv, PostsOK
  <2>5. ASSUME NEW q \in Posters, post'[q].pc = "answered"
        PROVE  batch'[post'[q].key] # Nothing /\ batch'[post'[q].key].doc = post'[q].doc
    <3>1. CASE q = p BY <1>2, <1>3, <3>1
    <3>2. CASE q # p
      <4>1. /\ post'[q] = post[q] /\ post[q].key \in Keys
            /\ batch[post[q].key] # Nothing /\ batch[post[q].key].doc = post[q].doc
        BY <1>3, <2>5, <3>2 DEF IInv, PostsOK
      <4>2. batch[k].doc = post[p].doc BY DEF IInv, PostsOK
      <4> QED BY <1>2, <4>1, <4>2
    <3> QED BY <3>1, <3>2
  <2>6. \A q, r \in Posters : q # r /\ Paying(q)' /\ Paying(r)' => post'[q].key # post'[r].key
    BY <1>3, <1>4 DEF IInv, PostsOK
  <2> QED BY <2>1, <2>2, <2>3, <2>4, <2>5, <2>6 DEF PostsOK
<1>6. ComparedOK' BY <1>3 DEF IInv, ComparedOK
<1>7. \A j \in Keys : Unsettled(j)' => j # k /\ Unsettled(j)
  BY <1>2 DEF Unsettled
<1> QED BY <1>2, <1>3, <1>5, <1>6, <1>7

LEMMA SettledKeeps ==
  ASSUME IInv, NEW p \in Posters, Paying(p), NEW status \in {"failed", "outcome_unknown"},
         NEW retryable \in BOOLEAN, Settled(p, status, retryable)
  PROVE  IInv'
<1> DEFINE k == post[p].key
           b == [[batch[k] EXCEPT !.status = status] EXCEPT !.retryable = retryable]
<1>1. k \in Keys /\ batch[k] \in Batches /\ batch[k].doc = post[p].doc
  BY DEF IInv, PostsOK, Paying, TypeOK
<1>2. b \in Batches /\ b.doc = post[p].doc /\ b.status # "running"
  BY <1>1 DEF Batches, BatchStatuses
<1>3. batch' = [batch EXCEPT ![k] = b]
  BY <1>1 DEF Settled, IInv, TypeOK
<1>4. UNCHANGED <<candidate, revision, element, review, calls, told>>
  BY DEF Settled
<1> HIDE DEF b
<1>5. /\ batch' \in [Keys -> Batches \cup {Nothing}] /\ post' \in [Posters -> Posts]
      /\ PostsOK' /\ ComparedOK'
      /\ \A j \in Keys : Unsettled(j)' => Unsettled(j)
  BY <1>2, <1>3, <1>4, Settles DEF Settled
<1>6. HistoryOK' /\ MatchesOK' /\ ElementOK' /\ ReviewsOK' /\ ToldOK'
  BY <1>4, RowsKept
<1>7. TypeOK' BY <1>4, <1>5 DEF IInv, TypeOK
<1>8. Unsaved' BY <1>4, <1>5 DEF IInv, Unsaved, Candidates
<1> QED BY <1>5, <1>6, <1>7, <1>8 DEF IInv

LEMMA CallFailsKeeps ==
  ASSUME IInv, NEW p \in Posters, CallFails(p) \/ SaveFails(p)
  PROVE  IInv'
<1>1. Paying(p) BY DEF CallFails, SaveFails, Paying
<1>2. \E status \in {"failed", "outcome_unknown"}, retryable \in BOOLEAN : Settled(p, status, retryable)
  BY DEF CallFails, SaveFails
<1> QED BY <1>1, <1>2, SettledKeeps

\* The matches of an item are ids of the project or of the same reply.
LEMMA MatchesTyped ==
  ASSUME IInv, NEW p \in Posters, post[p].pc = "save", NEW i \in DOMAIN post[p].reply
  PROVE  SuggestionsOf(p, i) \in SUBSET Ids
<1>1. post[p].names \in SUBSET (Ids \X Names) BY DEF IInv, TypeOK, Posts
<1>2. post[p].reply \in Replies /\ post[p].key \in Keys
  BY DEF IInv, ComparedOK, PostsOK
<1>3. \A j \in DOMAIN post[p].reply : <<post[p].key, j>> \in Ids
  BY <1>2, RepliesAreShort DEF Ids, Candidates
<1> QED BY <1>1, <1>3 DEF SuggestionsOf

LEMMA SaveKeeps ==
  ASSUME IInv, NEW p \in Posters, Save(p)
  PROVE  IInv'
<1> DEFINE k == post[p].key
           s == post[p].reply
           Mine == {<<k, i>> : i \in DOMAIN s}
           New(c) == [content |-> s[c[2]], status |-> "pending_review", revision |-> 1,
                      suggestions |-> SuggestionsOf(p, c[2]), resolved |-> {},
                      attention |-> NeedsAttention(s[c[2]], SuggestionsOf(p, c[2]), {})]
           First(c) == [kind |-> "extracted", content |-> s[c[2]]]
<1>1. /\ post[p].pc = "save" /\ Paying(p) /\ k \in Keys /\ s \in Replies
      /\ \A e \in OldIds : <<e, OldElements[e].name>> \in post[p].names
      /\ batch[k] # Nothing /\ batch[k].status = "running"
  BY DEF Save, Paying, IInv, ComparedOK, PostsOK
<1>2. DOMAIN s \subseteq 1 .. MaxItems BY <1>1, RepliesAreShort
<1>3. /\ Mine \subseteq Candidates
      /\ \A c \in Candidates : c \in Mine <=> c[1] = k /\ c[2] \in DOMAIN s
  BY <1>1, <1>2 DEF Candidates
<1>4. \A c \in Mine : s[c[2]] \in ContentSet /\ SuggestionsOf(p, c[2]) \in SUBSET Ids
  <2> SUFFICES ASSUME NEW c \in Mine PROVE s[c[2]] \in ContentSet /\ SuggestionsOf(p, c[2]) \in SUBSET Ids
    OBVIOUS
  <2>1. c[2] \in DOMAIN s BY <1>3
  <2>2. s[c[2]] \in ContentSet BY <1>1, <2>1 DEF ContentSet
  <2> QED BY <1>1, <2>1, <2>2, MatchesTyped
<1>5. \A c \in Mine : New(c) \in CandidateRows /\ First(c) \in Revisions
  BY <1>4 DEF CandidateRows, Statuses, Revisions, Kinds, NeedsAttention
<1>6. \A c \in Mine : New(c) # Nothing BY <1>5, NothingIsNoRow
<1>7. \A c \in Candidates : c[1] = k => candidate[c] = Nothing /\ revision[c] = <<>> /\ element[c] = Nothing
  BY <1>1 DEF IInv, Unsaved, Unsettled, HistoryOK, HistoryOf, ElementOK, ElementOf
<1>8. candidate' = [c \in Candidates |-> IF c \in Mine THEN New(c) ELSE candidate[c]]
  BY DEF Save
<1>9. revision' = [c \in Candidates |-> IF c \in Mine THEN <<First(c)>> ELSE revision[c]]
  BY DEF Save
<1>10. UNCHANGED <<element, review, calls, told>> BY DEF Save
<1>11. \A c \in Candidates : c \notin Mine => candidate'[c] = candidate[c] /\ revision'[c] = revision[c]
  BY <1>8, <1>9
<1>12. \A c \in Mine : candidate'[c] = New(c) /\ revision'[c] = <<First(c)>> /\ candidate[c] = Nothing
  BY <1>3, <1>7, <1>8, <1>9
<1>13. \A c \in Mine : /\ Len(revision'[c]) = 1 /\ revision'[c][1].kind = "extracted"
                     /\ revision'[c][1].content = s[c[2]]
  <2> SUFFICES ASSUME NEW c \in Mine
               PROVE  /\ Len(revision'[c]) = 1 /\ revision'[c][1].kind = "extracted"
                      /\ revision'[c][1].content = s[c[2]]
    OBVIOUS
  <2>1. revision'[c] = <<First(c)>> BY <1>12
  <2>2. \A x : Len(<<x>>) = 1 /\ <<x>>[1] = x OBVIOUS
  <2>3. Len(revision'[c]) = 1 /\ revision'[c][1] = First(c) BY <2>1, <2>2
  <2>4. First(c).kind = "extracted" /\ First(c).content = s[c[2]] OBVIOUS
  <2> QED BY <2>3, <2>4
<1>14. \A c \in Mine : /\ candidate'[c].status = "pending_review" /\ candidate'[c].revision = 1
                     /\ candidate'[c].content = s[c[2]]
                     /\ candidate'[c].suggestions = SuggestionsOf(p, c[2])
  <2> SUFFICES ASSUME NEW c \in Mine
               PROVE  /\ candidate'[c].status = "pending_review" /\ candidate'[c].revision = 1
                      /\ candidate'[c].content = s[c[2]]
                      /\ candidate'[c].suggestions = SuggestionsOf(p, c[2])
    OBVIOUS
  <2>1. candidate'[c] = New(c) BY <1>12
  <2>2. /\ New(c).status = "pending_review" /\ New(c).revision = 1 /\ New(c).content = s[c[2]]
        /\ New(c).suggestions = SuggestionsOf(p, c[2])
    OBVIOUS
  <2> QED BY <2>1, <2>2
<1> DEFINE b == [batch[k] EXCEPT !.status = "completed"]
<1>15. /\ batch[k] \in Batches /\ b \in Batches /\ b.doc = post[p].doc /\ b.status # "running"
  <2>1. batch[k] \in Batches /\ batch[k].doc = post[p].doc
    BY <1>1 DEF IInv, TypeOK, PostsOK
  <2> QED BY <2>1 DEF Batches, BatchStatuses
<1>16. batch' = [batch EXCEPT ![k] = b] BY DEF Save, IInv, TypeOK
<1> HIDE DEF b
<1>17. /\ batch' \in [Keys -> Batches \cup {Nothing}] /\ post' \in [Posters -> Posts]
       /\ PostsOK' /\ ComparedOK'
       /\ \A j \in Keys : Unsettled(j)' => j # k /\ Unsettled(j)
  BY <1>1, <1>10, <1>15, <1>16, Settles DEF Save
<1>18. TypeOK'
  <2>1. candidate' \in [Candidates -> CandidateRows \cup {Nothing}]
    BY <1>5, <1>8 DEF IInv, TypeOK
  <2>2. revision' \in [Candidates -> Seq(Revisions)]
    <3>0. \A x \in Revisions : <<x>> \in Seq(Revisions) OBVIOUS
    <3>1. \A c \in Mine : <<First(c)>> \in Seq(Revisions) BY <1>5, <3>0
    <3> QED BY <1>9, <3>1 DEF IInv, TypeOK
  <2> QED BY <1>10, <1>17, <2>1, <2>2 DEF IInv, TypeOK
<1>19. Unsaved'
  BY <1>3, <1>11, <1>17 DEF IInv, Unsaved, Candidates
<1>20. HistoryOK'
  <2>1. ASSUME NEW c \in Mine PROVE HistoryOf(c)'
    <3>1. /\ candidate'[c] # Nothing /\ candidate'[c].revision = 1
          /\ candidate'[c].status = "pending_review" /\ candidate'[c].content = s[c[2]]
      BY <1>6, <1>12, <1>14
    <3>2. /\ Len(revision'[c]) = 1 /\ revision'[c][1].kind = "extracted"
          /\ revision'[c][1].content = s[c[2]]
      BY <1>13
    <3> QED BY <3>1, <3>2 DEF HistoryOf
  <2>2. \A c \in Candidates : c \notin Mine => HistoryOf(c)'
    BY <1>11 DEF IInv, HistoryOK, HistoryOf
  <2> QED BY <2>1, <2>2 DEF HistoryOK
<1>21. MatchesOK'
  <2>1. ASSUME NEW c \in Mine PROVE MatchesOf(c)'
    <3>1. /\ c \in Candidates /\ c[1] = k /\ c[2] \in DOMAIN s /\ c = <<k, c[2]>>
      BY <1>3 DEF Candidates
    <3>2. /\ FirstName(c)' = s[c[2]].name
          /\ candidate'[c].suggestions = SuggestionsOf(p, c[2])
      BY <1>13, <1>14 DEF FirstName
    <3>3. ASSUME NEW d \in Candidates \ {c}, d[1] = c[1], revision'[d] # <<>>,
                 FirstName(d)' = FirstName(c)', FirstName(c)' # Nothing
          PROVE  d \in SuggestionsOf(p, c[2])
      <4>1. d \in Mine BY <1>7, <1>11, <3>1, <3>3
      <4>2. d[2] \in DOMAIN s /\ d = <<k, d[2]>> /\ d[2] # c[2]
        BY <1>3, <3>1, <3>3, <4>1 DEF Candidates
      <4>3. s[d[2]].name = s[c[2]].name /\ s[c[2]].name # Nothing
        BY <1>13, <3>2, <3>3, <4>1 DEF FirstName
      <4> QED BY <4>2, <4>3 DEF SuggestionsOf
    <3>4. ASSUME NEW e \in OldIds, OldElements[e].name = FirstName(c)'
          PROVE  e \in SuggestionsOf(p, c[2])
      <4>1. s[c[2]].name # Nothing BY <3>2, <3>4, OldElementsAreNamed
      <4>2. <<e, s[c[2]].name>> \in post[p].names BY <1>1, <3>2, <3>4
      <4>3. e \in {x[1] : x \in {y \in post[p].names : y[2] = s[c[2]].name}}
        BY <4>2
      <4> QED BY <4>1, <4>3 DEF SuggestionsOf
    <3> QED BY <3>2, <3>3, <3>4 DEF MatchesOf
  <2>2. ASSUME NEW c \in Candidates, c \notin Mine PROVE MatchesOf(c)'
    <3> SUFFICES ASSUME candidate'[c] # Nothing PROVE MatchesOf(c)'
      BY DEF MatchesOf
    <3>1. candidate[c] # Nothing /\ c[1] # k /\ FirstName(c)' = FirstName(c)
      BY <1>7, <1>11, <2>2 DEF FirstName
    <3>2. \A d \in Candidates : d[1] = c[1] =>
            revision'[d] = revision[d] /\ FirstName(d)' = FirstName(d)
      BY <1>3, <1>11, <3>1 DEF FirstName
    <3>3. MatchesOf(c) BY DEF IInv, MatchesOK
    <3> QED BY <1>11, <2>2, <3>1, <3>2, <3>3 DEF MatchesOf
  <2> QED BY <2>1, <2>2 DEF MatchesOK
<1>22. ElementOK'
  <2>1. ASSUME NEW c \in Mine PROVE ElementOf(c)'
    <3>1. element'[c] = Nothing BY <1>3, <1>7, <1>10
    <3>2. candidate'[c].status = "pending_review" BY <1>14
    <3> QED BY <3>1, <3>2 DEF ElementOf
  <2>2. \A c \in Candidates : c \notin Mine => ElementOf(c)'
    BY <1>10, <1>11 DEF IInv, ElementOK, ElementOf
  <2> QED BY <2>1, <2>2 DEF ElementOK
<1>23. ReviewsOK'
  <2>1. \A w \in Reviewers : review[w].pc # "idle" =>
          review[w].cand \in Candidates /\ candidate'[review[w].cand] = candidate[review[w].cand]
    BY <1>3, <1>7, <1>11 DEF IInv, ReviewsOK, Judged
  <2>2. \A w \in Reviewers : review[w].pc # "idle" => (Claimable(w)' <=> Claimable(w))
    BY <1>10, <2>1 DEF Claimable
  <2>3. \A w \in Reviewers : review[w].pc # "idle" => Judged(w)'
    BY <1>10, <2>1, <2>2 DEF IInv, ReviewsOK, Judged, Acceptable
  <2> QED BY <1>10, <2>2, <2>3 DEF IInv, ReviewsOK
<1>24. ToldOK'
  <2>1. \A t \in told : t[1] \in Candidates /\ t[1] \notin Mine
    BY <1>12 DEF IInv, TypeOK, ToldOK
  <2> QED BY <1>10, <1>11, <2>1 DEF IInv, ToldOK
<1> QED BY <1>17, <1>18, <1>19, <1>20, <1>21, <1>22, <1>23, <1>24 DEF IInv

-----------------------------------------------------------------------------
(* Reviewers *)

\* No reviewer touches a batch or a poster, or makes a candidate.
LEMMA PostersKept ==
  ASSUME IInv, UNCHANGED <<batch, post, calls>>,
         \A c \in Candidates : candidate'[c] = Nothing <=> candidate[c] = Nothing
  PROVE  PostsOK' /\ ComparedOK' /\ Unsaved'
<1>1. PostsOK' BY DEF IInv, PostsOK, Paying
<1>2. ComparedOK' BY DEF IInv, ComparedOK
<1>3. Unsaved' BY DEF IInv, Unsaved, Unsettled
<1> QED BY <1>1, <1>2, <1>3

\* A reviewer that starts, gives up or goes on, with the rows as they are.
LEMMA ReviewerMoves ==
  ASSUME IInv, NEW w \in Reviewers, NEW r \in Reviews, review' = [review EXCEPT ![w] = r],
         UNCHANGED <<rows, post, calls>>,
         told' \subseteq Candidates \X Kinds,
         \A t \in told' \ told : /\ candidate[t[1]] # Nothing /\ candidate[t[1]].status = t[2]
                                 /\ t[2] \in {"accepted", "rejected"},
         r.pc # "idle" => Judged(w)',
         r.pc = "write" => Claimable(w)' /\ RowFree(r.cand)
  PROVE  IInv'
<1>1. review' \in [Reviewers -> Reviews] /\ review'[w] = r /\ \A v \in Reviewers : v # w => review'[v] = review[v]
  BY DEF IInv, TypeOK
<1>2. PostsOK' /\ ComparedOK' /\ Unsaved' BY PostersKept DEF rows
<1>3. TypeOK' BY <1>1 DEF IInv, TypeOK, rows
<1>4. HistoryOK' /\ MatchesOK' /\ ElementOK'
  BY DEF IInv, HistoryOK, HistoryOf, MatchesOK, MatchesOf, FirstName, ElementOK, ElementOf, rows
<1>5. ToldOK' BY DEF IInv, ToldOK, rows
<1>6. ReviewsOK'
  <2>1. \A v \in Reviewers : v # w => (Judged(v)' <=> Judged(v)) /\ (Claimable(v)' <=> Claimable(v))
    BY <1>1 DEF Judged, Claimable, Acceptable, rows
  <2>2. \A v \in Reviewers : review'[v].pc # "idle" => Judged(v)'
    BY <1>1, <2>1 DEF IInv, ReviewsOK
  <2>3. \A v \in Reviewers : review'[v].pc = "write" => Claimable(v)'
    BY <1>1, <2>1 DEF IInv, ReviewsOK
  <2>4. \A v, u \in Reviewers :
          review'[v].pc = "write" /\ review'[u].pc = "write" /\ review'[v].cand = review'[u].cand => v = u
    BY <1>1 DEF IInv, ReviewsOK, RowFree
  <2> QED BY <2>2, <2>3, <2>4 DEF ReviewsOK
<1> QED BY <1>2, <1>3, <1>4, <1>5, <1>6 DEF IInv

LEMMA IdleIsReview == Idle \in Reviews /\ Idle.pc = "idle"
  BY DEF Idle, Reviews

LEMMA AbandonKeeps ==
  ASSUME IInv, NEW w \in Reviewers, Abandon(w)
  PROVE  IInv'
<1>1. told' \subseteq Candidates \X Kinds BY DEF Abandon, IInv, TypeOK
<1> QED BY <1>1, IdleIsReview, ReviewerMoves DEF Abandon

\* A decision found is answered with.
LEMMA AnsweredKeeps ==
  ASSUME IInv, NEW w \in Reviewers, NEW c \in Candidates, NEW a \in {"accepted", "rejected"},
         candidate[c] # Nothing, candidate[c].status = a, Answered(w, c, a),
         UNCHANGED <<rows, post, calls>>
  PROVE  IInv'
<1>1. told' \subseteq Candidates \X Kinds BY DEF Answered, IInv, TypeOK, Kinds
<1>2. \A t \in told' \ told : t = <<c, a>> BY DEF Answered
<1>3. \A t \in told' \ told : /\ candidate[t[1]] # Nothing /\ candidate[t[1]].status = t[2]
                              /\ t[2] \in {"accepted", "rejected"}
  BY <1>2
<1>4. review' = [review EXCEPT ![w] = Idle] BY DEF Answered
<1> QED BY <1>1, <1>3, <1>4, IdleIsReview, ReviewerMoves

\* A request that passed its checks on the row as it is.
LEMMA ToClaimKeeps ==
  ASSUME IInv, NEW w \in Reviewers, NEW op \in {"edited", "accepted", "rejected"},
         NEW c \in Candidates, candidate[c] # Nothing, NEW expected \in 1 .. candidate[c].revision,
         NEW content \in ContentSet \cup {Nothing}, NEW resolved \in SUBSET Ids,
         op = "edited" => content \in ContentSet,
         op = "accepted" => Acceptable(candidate[c], resolved),
         ToClaim(w, op, c, expected, content, resolved), UNCHANGED <<rows, post, calls>>
  PROVE  IInv'
<1> DEFINE r == [pc |-> "claim", op |-> op, cand |-> c, expected |-> expected,
                 content |-> content, resolved |-> resolved]
<1>1. candidate[c].revision \in Nat BY DEF IInv, TypeOK, CandidateRows
<1>2. r \in Reviews /\ expected <= candidate[c].revision BY <1>1 DEF Reviews, Kinds
<1>3. review'[w] = r BY DEF ToClaim, IInv, TypeOK
<1>4. Judged(w)' BY <1>2, <1>3 DEF Judged, rows, Acceptable
<1>5. told' \subseteq Candidates \X Kinds BY DEF ToClaim, IInv, TypeOK
<1> QED BY <1>2, <1>4, <1>5, ReviewerMoves DEF ToClaim

LEMMA LoadKeeps ==
  ASSUME IInv, NEW w \in Reviewers, NEW c \in Candidates, candidate[c] # Nothing,
         NEW e \in 1 .. candidate[c].revision, NEW g \in {{}, candidate[c].suggestions},
         LoadEdit(w, c, e, g) \/ LoadAccept(w, c, e, g) \/ LoadReject(w, c, e, g)
  PROVE  IInv'
<1>1. candidate[c].resolved \cup g \in SUBSET Ids
  BY DEF IInv, TypeOK, CandidateRows
<1>2. UNCHANGED <<rows, post, calls>> BY DEF LoadEdit, LoadAccept, LoadReject
<1>3. ASSUME LoadEdit(w, c, e, g) PROVE IInv'
  <2>1. PICK content \in Edits : ToClaim(w, "edited", c, e, content, candidate[c].resolved \cup g)
    BY <1>3 DEF LoadEdit
  <2>2. content \in ContentSet BY DEF ContentSet
  <2> QED BY <1>1, <1>2, <2>1, <2>2, ToClaimKeeps
<1>4. ASSUME LoadAccept(w, c, e, g) PROVE IInv'
  <2>1. CASE candidate[c].status = "accepted" /\ Answered(w, c, "accepted")
    BY <1>2, <2>1, AnsweredKeeps
  <2>2. CASE Acceptable(candidate[c], candidate[c].resolved \cup g)
             /\ ToClaim(w, "accepted", c, e, Nothing, candidate[c].resolved \cup g)
    BY <1>1, <1>2, <2>2, ToClaimKeeps
  <2> QED BY <1>4, <2>1, <2>2 DEF LoadAccept
<1>5. ASSUME LoadReject(w, c, e, g) PROVE IInv'
  <2>1. CASE candidate[c].status = "rejected" /\ Answered(w, c, "rejected")
    BY <1>2, <2>1, AnsweredKeeps
  <2>2. CASE ToClaim(w, "rejected", c, e, Nothing, candidate[c].resolved \cup g)
    BY <1>1, <1>2, <2>2, ToClaimKeeps
  <2> QED BY <1>5, <2>1, <2>2 DEF LoadReject
<1> QED BY <1>3, <1>4, <1>5

LEMMA ClaimKeeps ==
  ASSUME IInv, NEW w \in Reviewers, Claim(w)
  PROVE  IInv'
<1> DEFINE c == review[w].cand
<1>1. /\ review[w].pc = "claim" /\ Judged(w) /\ c \in Candidates /\ candidate[c] # Nothing
      /\ review[w] \in Reviews
  BY DEF Claim, IInv, ReviewsOK, Judged, TypeOK
<1>2. CASE Claimable(w)
  <2> DEFINE r == [review[w] EXCEPT !.pc = "write"]
  <2>1. /\ r \in Reviews /\ r.pc = "write" /\ r.op = review[w].op /\ r.cand = c
        /\ r.expected = review[w].expected /\ r.content = review[w].content
        /\ r.resolved = review[w].resolved
    BY <1>1 DEF Reviews
  <2>2. review' = [review EXCEPT ![w] = r] BY <1>2 DEF Claim, IInv, TypeOK
  <2> HIDE DEF r
  <2>3. review'[w] = r BY <2>2 DEF IInv, TypeOK
  <2>4. UNCHANGED <<rows, post, calls, told>> BY <1>2 DEF Claim
  <2>5. Judged(w)' /\ Claimable(w)'
    BY <1>1, <1>2, <2>1, <2>3, <2>4 DEF Judged, Claimable, Acceptable, rows
  <2>6. RowFree(c) BY DEF Claim
  <2>7. told' \subseteq Candidates \X Kinds BY <2>4 DEF IInv, TypeOK
  <2> QED BY <2>1, <2>2, <2>4, <2>5, <2>6, <2>7, ReviewerMoves
<1>3. CASE ~Claimable(w) /\ candidate[c].status = review[w].op
  <2>1. candidate[c].status \in Statuses /\ review[w].op \in {"edited", "accepted", "rejected"}
    BY <1>1 DEF IInv, TypeOK, CandidateRows, Judged
  <2>2. review[w].op \in {"accepted", "rejected"} BY <1>3, <2>1 DEF Statuses
  <2> QED BY <1>1, <1>3, <2>2, AnsweredKeeps DEF Claim
<1>4. CASE ~Claimable(w) /\ candidate[c].status # review[w].op
  <2>1. told' \subseteq Candidates \X Kinds BY <1>4 DEF Claim, IInv, TypeOK
  <2> QED BY <1>4, <2>1, IdleIsReview, ReviewerMoves DEF Claim
<1> QED BY <1>2, <1>3, <1>4

\* What a history gains with one more revision.
LEMMA Appended ==
  ASSUME NEW h \in Seq(Revisions), NEW x \in Revisions
  PROVE  /\ Append(h, x) \in Seq(Revisions) /\ Len(Append(h, x)) = Len(h) + 1
         /\ \A i \in 1 .. Len(h) : Append(h, x)[i] = h[i]
         /\ Append(h, x)[Len(h) + 1] = x
         /\ Len(h) \in Nat
  OBVIOUS

\* The commit of a reviewer who holds the row, whatever it writes.
LEMMA StoredKeeps ==
  ASSUME IInv, NEW w \in Reviewers, review[w].pc = "write",
         NEW c \in Candidates, c = review[w].cand, NEW op, op = review[w].op,
         NEW row \in CandidateRows, Stored(w, row),
         review' = [review EXCEPT ![w] = Idle],
         row.revision = candidate[c].revision + 1,
         row.suggestions = candidate[c].suggestions,
         row.status = IF op = "edited" THEN "pending_review" ELSE op,
         told \subseteq told',
         \A t \in told' \ told : t = <<c, op>> /\ op # "edited",
         element' \in [Candidates -> Elements \cup {Nothing}],
         \A d \in Candidates \ {c} : element'[d] = element[d],
         ElementOf(c)'
  PROVE  IInv'
<1>1. /\ Judged(w) /\ Claimable(w) /\ candidate[c] \in CandidateRows /\ candidate[c] # Nothing
      /\ op \in {"edited", "accepted", "rejected"} /\ candidate[c].status = "pending_review"
  BY DEF IInv, ReviewsOK, Judged, Claimable, TypeOK
<1>2. /\ candidate'[c] = row /\ row # Nothing
      /\ \A d \in Candidates \ {c} : candidate'[d] = candidate[d]
      /\ candidate' \in [Candidates -> CandidateRows \cup {Nothing}]
  BY NothingIsNoRow DEF Stored, IInv, TypeOK
<1> DEFINE h == revision[c]
           x == [kind |-> op, content |-> row.content]
<1>3. h \in Seq(Revisions) /\ x \in Revisions
  BY <1>1 DEF IInv, TypeOK, Revisions, CandidateRows, Kinds
<1>4. /\ revision'[c] = Append(h, x)
      /\ \A d \in Candidates \ {c} : revision'[d] = revision[d]
  BY DEF Stored, IInv, TypeOK
<1>5. /\ Append(h, x) \in Seq(Revisions) /\ Len(Append(h, x)) = Len(h) + 1
      /\ \A i \in 1 .. Len(h) : Append(h, x)[i] = h[i]
      /\ Append(h, x)[Len(h) + 1] = x /\ Len(h) \in Nat
  BY <1>3, Appended
<1>6. x.kind = op /\ x.content = row.content
  OBVIOUS
<1> HIDE DEF x
<1>7. /\ Len(h) = candidate[c].revision /\ Len(h) >= 1 /\ h[1].kind = "extracted"
      /\ \A i \in 2 .. Len(h) : h[i].kind = "edited"
  BY <1>1, <1>5 DEF IInv, HistoryOK, HistoryOf, CandidateRows
<1>8. UNCHANGED <<batch, post, calls>> BY DEF Stored
<1>9. PostsOK' /\ ComparedOK' /\ Unsaved'
  <2>1. \A d \in Candidates : candidate'[d] = Nothing <=> candidate[d] = Nothing
    BY <1>1, <1>2
  <2> QED BY <1>8, <2>1, PostersKept
<1>10. /\ review' \in [Reviewers -> Reviews] /\ review'[w].pc = "idle"
       /\ \A v \in Reviewers : v # w => review'[v] = review[v]
  BY IdleIsReview DEF IInv, TypeOK
<1>11. TypeOK'
  <2>1. revision' \in [Candidates -> Seq(Revisions)]
    <3>1. revision' = [revision EXCEPT ![c] = Append(h, x)]
      BY DEF Stored, x
    <3> QED BY <1>5, <3>1 DEF IInv, TypeOK
  <2>2. told' \subseteq Candidates \X Kinds
    BY <1>1 DEF IInv, TypeOK, Kinds
  <2> QED BY <1>2, <1>8, <1>10, <2>1, <2>2 DEF IInv, TypeOK
<1>12. HistoryOK'
  <2>1. HistoryOf(c)'
    <3>1. Len(revision'[c]) = row.revision /\ revision'[c][1].kind = "extracted"
      BY <1>4, <1>5, <1>7
    <3>2. revision'[c][Len(revision'[c])] = x BY <1>4, <1>5
    <3>3. \A i \in 2 .. Len(revision'[c]) - 1 : revision'[c][i].kind = "edited"
      BY <1>4, <1>5, <1>7
    <3>4. op = "edited" => \A i \in 2 .. Len(revision'[c]) : revision'[c][i].kind = "edited"
      BY <1>4, <1>5, <1>6, <1>7
    <3>5. CASE op = "edited"
      BY <1>2, <1>6, <3>1, <3>2, <3>3, <3>4, <3>5 DEF HistoryOf
    <3>6. CASE op # "edited"
      <4>1. row.status = op /\ op # "pending_review" BY <1>1, <3>6
      <4> QED BY <1>2, <1>6, <3>1, <3>2, <3>3, <4>1 DEF HistoryOf
    <3> QED BY <3>5, <3>6
  <2>2. \A d \in Candidates \ {c} : HistoryOf(d)'
    BY <1>2, <1>4 DEF IInv, HistoryOK, HistoryOf
  <2> QED BY <2>1, <2>2 DEF HistoryOK
<1>13. MatchesOK'
  <2>1. revision'[c][1] = revision[c][1] /\ revision'[c] # <<>> /\ revision[c] # <<>>
    BY <1>3, <1>4, <1>5, <1>7
  <2>2. \A d \in Candidates : FirstName(d)' = FirstName(d) /\ (revision'[d] # <<>> <=> revision[d] # <<>>)
    BY <1>4, <2>1 DEF FirstName
  <2>3. \A d \in Candidates : candidate'[d] # Nothing =>
          candidate[d] # Nothing /\ candidate'[d].suggestions = candidate[d].suggestions
    BY <1>1, <1>2
  <2> QED BY <2>2, <2>3 DEF IInv, MatchesOK, MatchesOf
<1>14. ElementOK'
  BY <1>2 DEF IInv, ElementOK, ElementOf
<1>15. ReviewsOK'
  <2>1. ASSUME NEW v \in Reviewers, review'[v].pc # "idle"
        PROVE  Judged(v)' /\ (review'[v].pc = "write" => Claimable(v)')
    <3>1. v # w /\ review'[v] = review[v] /\ Judged(v) /\ (review[v].pc = "write" => Claimable(v))
      BY <1>10, <2>1 DEF IInv, ReviewsOK
    <3>2. CASE review[v].cand # c
      BY <1>2, <3>1, <3>2 DEF Judged, Claimable, Acceptable
    <3>3. CASE review[v].cand = c
      <4>1. review[v].pc # "write" BY <3>1, <3>3 DEF IInv, ReviewsOK
      <4>2. review[v].expected \in Nat /\ candidate[c].revision \in Nat
        BY <1>1 DEF IInv, TypeOK, Reviews, CandidateRows
      <4>3. review[v].expected <= candidate[c].revision BY <3>1, <3>3 DEF Judged
      <4>4. review[v].expected <= row.revision /\ row.revision # review[v].expected
        BY <4>2, <4>3
      <4> QED BY <1>2, <3>1, <3>3, <4>1, <4>4 DEF Judged, Claimable
    <3> QED BY <3>2, <3>3
  <2>2. \A v, u \in Reviewers :
          review'[v].pc = "write" /\ review'[u].pc = "write" /\ review'[v].cand = review'[u].cand => v = u
    BY <1>10 DEF IInv, ReviewsOK
  <2> QED BY <2>1, <2>2 DEF ReviewsOK
<1>16. ToldOK'
  <2>1. \A t \in told : t[1] # c /\ t[1] \in Candidates
    BY <1>1 DEF IInv, TypeOK, ToldOK
  <2>2. ASSUME NEW t \in told', t \notin told
        PROVE  candidate'[t[1]] # Nothing /\ candidate'[t[1]].status = t[2] /\ t[2] \in {"accepted", "rejected"}
    BY <1>1, <1>2, <2>2
  <2> QED BY <1>2, <2>1, <2>2 DEF IInv, ToldOK
<1> QED BY <1>9, <1>11, <1>12, <1>13, <1>14, <1>15, <1>16 DEF IInv

LEMMA WriteKeeps ==
  ASSUME IInv, NEW w \in Reviewers, WriteEdit(w) \/ WriteAccept(w) \/ WriteReject(w),
         NEW c, c = review[w].cand, NEW r, r = review[w], NEW old, old = candidate[c]
  PROVE  IInv'
<1>1. /\ r.pc = "write" /\ Judged(w) /\ Claimable(w) /\ r \in Reviews
      /\ c \in Candidates /\ old \in CandidateRows /\ old # Nothing
      /\ r.expected = old.revision /\ old.status = "pending_review"
  BY DEF WriteEdit, WriteAccept, WriteReject, IInv, ReviewsOK, Judged, Claimable, TypeOK
<1>2. ElementOf(c) /\ element[c] = Nothing /\ element \in [Candidates -> Elements \cup {Nothing}]
  BY <1>1 DEF IInv, ElementOK, ElementOf, TypeOK
<1>3. r.resolved \in SUBSET Ids /\ r.expected \in Nat /\ old.revision + 1 \in Nat \ {0}
  BY <1>1 DEF Reviews, CandidateRows
<1>4. ASSUME WriteEdit(w) PROVE IInv'
  <2> DEFINE row == [old EXCEPT !.content = r.content, !.revision = r.expected + 1,
                                !.resolved = r.resolved,
                                !.attention = NeedsAttention(r.content, old.suggestions, r.resolved)]
  <2>1. r.content \in ContentSet /\ r.op = "edited" BY <1>1, <1>4 DEF Judged, WriteEdit
  <2>2. NeedsAttention(r.content, old.suggestions, r.resolved) \in BOOLEAN BY DEF NeedsAttention
  <2>3. /\ row \in CandidateRows /\ row.revision = old.revision + 1
        /\ row.suggestions = old.suggestions /\ row.status = "pending_review"
    BY <1>1, <1>3, <2>1, <2>2 DEF CandidateRows
  <2>4. Stored(w, row) /\ review' = [review EXCEPT ![w] = Idle] /\ UNCHANGED <<element, told>>
    BY <1>4 DEF WriteEdit
  <2> HIDE DEF row
  <2>5. candidate'[c] = row BY <1>1, <2>4 DEF Stored, IInv, TypeOK
  <2>6. ElementOf(c)' BY <1>2, <2>3, <2>4, <2>5 DEF ElementOf
  <2> QED BY <1>1, <1>2, <2>1, <2>3, <2>4, <2>6, StoredKeeps
<1> DEFINE done == Closed(w)
<1>5. ASSUME r.op \in {"accepted", "rejected"}
      PROVE  /\ done \in CandidateRows /\ done.revision = old.revision + 1 /\ done.status = r.op
             /\ done.suggestions = old.suggestions /\ done.content = old.content
             /\ done.resolved = r.resolved
  BY <1>1, <1>3, <1>5 DEF Closed, CandidateRows, Statuses
<1>6. ASSUME WriteAccept(w) PROVE IInv'
  <2>1. r.op = "accepted" /\ Acceptable(old, r.resolved)
    BY <1>1, <1>6 DEF WriteAccept, Judged
  <2>2. /\ done \in CandidateRows /\ done.revision = old.revision + 1 /\ done.status = r.op
        /\ done.suggestions = old.suggestions /\ done.content = old.content
        /\ done.resolved = r.resolved
    BY <1>5, <2>1
  <2>3. /\ Stored(w, done) /\ review' = [review EXCEPT ![w] = Idle]
        /\ told' = told \cup {<<c, "accepted">>}
        /\ element' = [element EXCEPT ![c] = Created(done)]
    BY <1>6 DEF WriteAccept, Answered
  <2> HIDE DEF done
  <2>4. /\ Created(done) \in Elements /\ Created(done).name = old.content.name
        /\ Created(done).content = old.content /\ Created(done).resolved = r.resolved
    BY <1>1, <1>3, <2>2 DEF Created, Elements, Names, CandidateRows
  <2>5. /\ element'[c] = Created(done) /\ Created(done) # Nothing
        /\ element' \in [Candidates -> Elements \cup {Nothing}]
        /\ \A d \in Candidates \ {c} : element'[d] = element[d]
    BY <1>1, <1>2, <2>3, <2>4, NothingIsNoRow
  <2>6. candidate'[c] = done /\ done # Nothing
    BY <1>1, <2>2, <2>3, NothingIsNoRow DEF Stored, IInv, TypeOK
  <2>7. ElementOf(c)'
    BY <2>1, <2>2, <2>4, <2>5, <2>6 DEF ElementOf, Acceptable
  <2>8. \A t \in told' \ told : t = <<c, r.op>> /\ r.op # "edited" BY <2>1, <2>3
  <2> QED BY <1>1, <2>1, <2>2, <2>3, <2>5, <2>7, <2>8, StoredKeeps
<1>7. ASSUME WriteReject(w) PROVE IInv'
  <2>1. r.op = "rejected" BY <1>7 DEF WriteReject
  <2>2. /\ done \in CandidateRows /\ done.revision = old.revision + 1 /\ done.status = r.op
        /\ done.suggestions = old.suggestions
    BY <1>5, <2>1
  <2>3. /\ Stored(w, done) /\ review' = [review EXCEPT ![w] = Idle]
        /\ told' = told \cup {<<c, "rejected">>} /\ UNCHANGED element
    BY <1>7 DEF WriteReject, Answered
  <2> HIDE DEF done
  <2>4. candidate'[c] = done
    BY <1>1, <2>3 DEF Stored, IInv, TypeOK
  <2>5. ElementOf(c)' BY <1>2, <2>1, <2>2, <2>3, <2>4 DEF ElementOf
  <2>6. \A t \in told' \ told : t = <<c, r.op>> /\ r.op # "edited" BY <2>1, <2>3
  <2> QED BY <1>1, <1>2, <2>1, <2>2, <2>3, <2>5, <2>6, StoredKeeps
<1> QED BY <1>4, <1>6, <1>7

-----------------------------------------------------------------------------
LEMMA StepHolds == IInv /\ [Next]_vars => IInv'
<1> SUFFICES ASSUME IInv, [Next]_vars PROVE IInv'
  OBVIOUS
<1>1. ASSUME NEW p \in Posters, NEW k \in Keys, NEW d \in Docs, Begin(p, k, d) PROVE IInv'
  BY <1>1, BeginKeeps
<1>2. ASSUME NEW p \in Posters, Posting(p) PROVE IInv'
  BY <1>2, ReserveKeeps, CallKeeps, CallFailsKeeps, SaveKeeps, PrepareKeeps DEF Posting
<1>3. ASSUME NEW p \in Posters, Die(p) PROVE IInv'
  BY <1>3, DieKeeps
<1>4. ASSUME NEW w \in Reviewers, NEW c \in Candidates, candidate[c] # Nothing,
             NEW e \in 1 .. candidate[c].revision, NEW g \in {{}, candidate[c].suggestions},
             LoadEdit(w, c, e, g) \/ LoadAccept(w, c, e, g) \/ LoadReject(w, c, e, g)
      PROVE  IInv'
  BY <1>4, LoadKeeps
<1>5. ASSUME NEW w \in Reviewers,
             Claim(w) \/ WriteEdit(w) \/ WriteAccept(w) \/ WriteReject(w) \/ Abandon(w)
      PROVE  IInv'
  BY <1>5, ClaimKeeps, WriteKeeps, AbandonKeeps
<1>6. CASE UNCHANGED vars
  <2>1. UNCHANGED <<rows, post, review, calls, told>> BY <1>6 DEF vars
  <2>2. HistoryOK' /\ MatchesOK' /\ ElementOK' /\ ReviewsOK' /\ ToldOK' BY <2>1, RowsKept DEF rows
  <2>3. PostsOK' /\ ComparedOK' /\ Unsaved' BY <2>1, PostersKept DEF rows
  <2>4. TypeOK' BY <2>1 DEF IInv, TypeOK, rows
  <2> QED BY <2>2, <2>3, <2>4 DEF IInv
<1> QED BY <1>1, <1>2, <1>3, <1>4, <1>5, <1>6 DEF Next

LEMMA Invariance == Spec => []IInv
<1>1. Init => IInv BY InitHolds
<1>2. IInv /\ [Next]_vars => IInv' BY StepHolds
<1> QED BY <1>1, <1>2, PTL DEF Spec

\* Batches, candidates, revisions, elements and requests keep their shapes.
THEOREM TypeCorrect == Spec => []TypeOK
<1>1. IInv => TypeOK BY DEF IInv
<1> QED BY <1>1, Invariance, PTL

\* However often a document is posted under a key, the provider is called at most
\* once for it, and nobody is answered from the batch of another document.
THEOREM PaidOnce == Spec => []OneCallPerKey
<1>1. IInv => OneCallPerKey BY DEF IInv, PostsOK, Paying, OneCallPerKey
<1> QED BY <1>1, Invariance, PTL

\* The history of every candidate is complete, and a decision in it is final.
THEOREM DecisionsStay == Spec => []DecisionsWhole
<1>1. IInv => DecisionsWhole
  <2> SUFFICES ASSUME IInv PROVE DecisionsWhole
    OBVIOUS
  <2>1. ASSUME NEW c \in Candidates, candidate[c] # Nothing
        PROVE  LET row == candidate[c]  h == revision[c] IN
               /\ Len(h) = row.revision
               /\ h[1].kind = "extracted" /\ h[Len(h)].content = row.content
               /\ \A i \in 2 .. Len(h) - 1 : h[i].kind = "edited"
               /\ row.status # "pending_review" => h[Len(h)].kind = row.status
               /\ row.status = "pending_review" => h[Len(h)].kind \in {"extracted", "edited"}
    <3>1. HistoryOf(c) BY DEF IInv, HistoryOK
    <3>2. candidate[c].revision \in Nat \ {0} BY <2>1 DEF IInv, TypeOK, CandidateRows
    <3>3. CASE candidate[c].revision = 1 BY <2>1, <3>1, <3>3 DEF HistoryOf
    <3>4. CASE candidate[c].revision # 1
      <4>1. Len(revision[c]) \in 2 .. Len(revision[c]) BY <2>1, <3>1, <3>2, <3>4 DEF HistoryOf
      <4> QED BY <2>1, <3>1, <4>1 DEF HistoryOf
    <3> QED BY <3>3, <3>4
  <2>2. \A c \in Candidates :
          (element[c] # Nothing) <=> (candidate[c] # Nothing /\ candidate[c].status = "accepted")
    BY DEF IInv, ElementOK, ElementOf
  <2>3. \A t \in told : candidate[t[1]].status = t[2] BY DEF IInv, ToldOK
  <2> QED BY <2>1, <2>2, <2>3 DEF DecisionsWhole
<1> QED BY <1>1, Invariance, PTL

\* What became an element is what the author judged, although the checks read the
\* candidate before its row was claimed.
THEOREM AcceptedStands == Spec => []AcceptedAsJudged
<1>1. IInv => AcceptedAsJudged
  <2> SUFFICES ASSUME IInv, NEW c \in Candidates, element[c] # Nothing
               PROVE  /\ element[c].name # Nothing /\ ~element[c].content.open
                      /\ element[c].content = candidate[c].content
                      /\ \A d \in Candidates \ {c} :
                             d[1] = c[1] /\ revision[d] # <<>> /\ FirstName(d) = FirstName(c)
                             /\ FirstName(c) # Nothing => d \in element[c].resolved
                      /\ \A e \in OldIds : OldElements[e].name = FirstName(c) => e \in element[c].resolved
    BY DEF AcceptedAsJudged, FirstName
  <2>1. ElementOf(c) /\ MatchesOf(c) BY DEF IInv, ElementOK, MatchesOK
  <2> QED BY <2>1 DEF ElementOf, MatchesOf
<1> QED BY <1>1, Invariance, PTL
=============================================================================
