---------------------------- MODULE LoreExtraction ----------------------------
(***************************************************************************)
(* Extraction of lore candidates from a document and their review          *)
(* (backend/app/api/lore_extraction.py, backend/app/core/lore_extraction.py*)
(* and create_element of backend/app/core/lore_write.py), for one project  *)
(* in relational mode.                                                     *)
(*                                                                         *)
(* A poster is one POST of a document: it reserves a batch under the       *)
(* client's idempotency key, calls the provider once and saves the         *)
(* candidates.  A reviewer is one client that edits, accepts or rejects    *)
(* candidates, one request after the other.  The compare-and-set of        *)
(* _claim_candidate_revision is an UPDATE: from there to the end of its    *)
(* transaction the request holds the candidate's row ("write").            *)
(*                                                                         *)
(* Abstractions: a document stands for its hash; the content of a          *)
(* candidate is its name and whether a field still needs confirmation; a   *)
(* suggestion is the element or candidate it points to; one built-in type; *)
(* sources, evidence and listing are left out; the maintenance switch is   *)
(* off (it is fixed for the life of a process).                            *)
(***************************************************************************)
EXTENDS Naturals, Sequences, FiniteSets

CONSTANTS
    Posters,      \* POST requests of documents
    Keys,         \* idempotency keys
    Docs,         \* documents
    Reviewers,    \* clients that decide candidates
    Replies,      \* readable answers of the model: sequences of contents
    Edits,        \* contents an editor saves
    OldElements,  \* contents of the elements the project has before, by id
    MaxItems,     \* longest reply
    MaxRevision,  \* bound of TLC: the last revision an edit makes
    Nothing       \* no row, no name, no answer

VARIABLES
    batch,      \* lore_extraction_batches, by idempotency key
    candidate,  \* lore_extraction_candidates
    revision,   \* lore_candidate_revisions of each candidate, oldest first
    element,    \* setting_elements made by accepting
    post,       \* the posters
    review,     \* the reviewers
    calls,      \* history: provider calls started per key
    told        \* history: decisions that were answered, with the candidate

rows == <<batch, candidate, revision, element>>
vars == <<rows, post, review, calls, told>>

Candidates == Keys \X (1 .. MaxItems)
OldIds == DOMAIN OldElements
\* What an exact match of a name can point to.
Ids == Candidates \cup OldIds \cup ({"element"} \X Candidates)
ContentSet == Edits \cup (UNION {{s[i] : i \in DOMAIN s} : s \in Replies}) \cup {OldElements[e] : e \in OldIds}
Names == {c.name : c \in ContentSet}

BatchStatuses == {"running", "completed", "failed", "outcome_unknown"}
Batches == [doc : Docs, status : BatchStatuses, retryable : BOOLEAN]
Statuses == {"pending_review", "accepted", "rejected"}
CandidateRows ==
    [content : ContentSet, status : Statuses, revision : Nat \ {0},
     suggestions : SUBSET Ids, resolved : SUBSET Ids, attention : BOOLEAN]
Kinds == {"extracted", "edited", "accepted", "rejected"}
Revisions == [kind : Kinds, content : ContentSet]
Elements == [name : Names, content : ContentSet, resolved : SUBSET Ids]

Posts == [pc : {"idle", "insert", "call", "wait", "save", "answered", "conflict", "dead"},
          key : Keys \cup {Nothing}, doc : Docs \cup {Nothing},
          reply : Replies \cup {<<>>}, names : SUBSET (Ids \X Names)]
Reviews == [pc : {"idle", "claim", "write"}, op : Kinds \cup {Nothing},
            cand : Candidates \cup {Nothing}, expected : Nat,
            content : ContentSet \cup {Nothing}, resolved : SUBSET Ids]

ASSUME RepliesAreShort == \A s \in Replies : DOMAIN s \subseteq 1 .. MaxItems
ASSUME ContentsAreOpenOrNot == \A c \in ContentSet : c.open \in BOOLEAN
\* setting_elements.name is not null.
ASSUME OldElementsAreNamed == \A e \in OldIds : OldElements[e].name # Nothing
ASSUME NothingIsNoRow ==
    /\ Nothing \notin Batches \cup CandidateRows \cup Elements
    /\ Nothing \notin Candidates \cup Kinds

\* candidate_needs_attention: something is left to do before it can be accepted.
NeedsAttention(content, suggestions, resolved) ==
    content.name = Nothing \/ content.open \/ suggestions \ resolved # {}

-----------------------------------------------------------------------------
Idle == [pc |-> "idle", op |-> Nothing, cand |-> Nothing, expected |-> 0,
         content |-> Nothing, resolved |-> {}]

Init ==
    /\ batch = [k \in Keys |-> Nothing]
    /\ candidate = [c \in Candidates |-> Nothing]
    /\ revision = [c \in Candidates |-> <<>>]
    /\ element = [c \in Candidates |-> Nothing]
    /\ post = [p \in Posters |-> [pc |-> "idle", key |-> Nothing, doc |-> Nothing,
                                  reply |-> <<>>, names |-> {}]]
    /\ review = [w \in Reviewers |-> Idle]
    /\ calls = [k \in Keys |-> 0]
    /\ told = {}

-----------------------------------------------------------------------------
(* Posting a document *)

\* What a POST is answered when its key is bound already.
Bound(k, d) == IF batch[k].doc = d THEN "answered" ELSE "conflict"

\* The first look at the key.
Begin(p, k, d) ==
    /\ post[p].pc = "idle"
    /\ post' = [post EXCEPT ![p].key = k, ![p].doc = d,
                            ![p].pc = IF batch[k] = Nothing THEN "insert" ELSE Bound(k, d)]
    /\ UNCHANGED <<rows, review, calls, told>>

\* Mutant: a key whose batch failed in a retryable way is paid for again.
ReserveRetries(p) ==
    LET k == post[p].key  d == post[p].doc IN
    /\ post[p].pc = "insert"
    /\ IF batch[k] = Nothing THEN TRUE ELSE batch[k].retryable
    /\ batch' = [batch EXCEPT ![k] = [doc |-> d, status |-> "running", retryable |-> FALSE]]
    /\ post' = [post EXCEPT ![p].pc = "call"]
    /\ UNCHANGED <<candidate, revision, element, review, calls, told>>

\* The reservation, or the IntegrityError of the unique key and the second look.
Reserve(p) ==
    LET k == post[p].key  d == post[p].doc IN
    /\ post[p].pc = "insert"
    /\ IF batch[k] = Nothing
       THEN /\ batch' = [batch EXCEPT ![k] = [doc |-> d, status |-> "running", retryable |-> FALSE]]
            /\ post' = [post EXCEPT ![p].pc = "call"]
       ELSE /\ post' = [post EXCEPT ![p].pc = Bound(k, d)]
            /\ UNCHANGED batch
    /\ UNCHANGED <<candidate, revision, element, review, calls, told>>

\* chat_once sends its single request.
Call(p) ==
    /\ post[p].pc = "call"
    /\ post' = [post EXCEPT ![p].pc = "wait"]
    /\ calls' = [calls EXCEPT ![post[p].key] = @ + 1]
    /\ UNCHANGED <<rows, review, told>>

\* _mark_batch_failed and the answer with the failed batch.
Settled(p, status, retryable) ==
    /\ batch' = [batch EXCEPT ![post[p].key].status = status, ![post[p].key].retryable = retryable]
    /\ post' = [post EXCEPT ![p].pc = "answered", ![p].reply = <<>>, ![p].names = {}]
    /\ UNCHANGED <<candidate, revision, element, review, calls, told>>

\* LLMSingleCallError: no key configured, refused, unreadable, or of unknown outcome.
CallFails(p) ==
    \/ /\ post[p].pc = "call"
       /\ Settled(p, "failed", FALSE)
    \/ /\ post[p].pc = "wait"
       /\ \/ \E retryable \in BOOLEAN : Settled(p, "failed", retryable)
          \/ Settled(p, "outcome_unknown", FALSE)

\* A readable reply; prepare_candidates reads the elements of the project.
Prepare(p, reply) ==
    /\ post[p].pc = "wait"
    /\ post' = [post EXCEPT ![p].pc = "save", ![p].reply = reply,
           ![p].names = {<<e, OldElements[e].name>> : e \in OldIds} \cup
                        {<<<<"element", c>>, element[c].name>> :
                            c \in {x \in Candidates : element[x] # Nothing}}]
    /\ UNCHANGED <<rows, review, calls, told>>

\* The exact matches of item i by name: elements, and the other items both ways.
SuggestionsOf(p, i) ==
    LET s == post[p].reply  n == s[i].name IN
    IF n = Nothing THEN {}
    ELSE {x[1] : x \in {y \in post[p].names : y[2] = n}}
         \cup {<<post[p].key, j>> : j \in {x \in DOMAIN s \ {i} : s[x].name = n}}

\* Candidates, first revisions and evidence in the commit that completes the batch.
Save(p) ==
    LET k == post[p].key  s == post[p].reply
        Mine == {<<k, i>> : i \in DOMAIN s} IN
    /\ post[p].pc = "save"
    /\ batch' = [batch EXCEPT ![k].status = "completed"]
    /\ candidate' = [c \in Candidates |->
            IF c \notin Mine THEN candidate[c]
            ELSE LET found == SuggestionsOf(p, c[2]) IN
                 [content |-> s[c[2]], status |-> "pending_review", revision |-> 1,
                  suggestions |-> found, resolved |-> {},
                  attention |-> NeedsAttention(s[c[2]], found, {})]]
    /\ revision' = [c \in Candidates |->
            IF c \in Mine THEN <<[kind |-> "extracted", content |-> s[c[2]]]>> ELSE revision[c]]
    /\ post' = [post EXCEPT ![p].pc = "answered", ![p].reply = <<>>, ![p].names = {}]
    /\ UNCHANGED <<element, review, calls, told>>

\* The reply breaks the contract, or the save fails: rolled back, then marked.
SaveFails(p) ==
    /\ post[p].pc \in {"wait", "save"}
    /\ Settled(p, "failed", FALSE)

\* The process is gone or the request is cancelled: nothing marks the batch.
Die(p) ==
    /\ post[p].pc \in {"insert", "call", "wait", "save"}
    /\ post' = [post EXCEPT ![p].pc = "dead", ![p].reply = <<>>, ![p].names = {}]
    /\ UNCHANGED <<rows, review, calls, told>>

-----------------------------------------------------------------------------
(* Reviewing candidates *)

Answered(w, c, decision) ==
    /\ review' = [review EXCEPT ![w] = Idle]
    /\ told' = told \cup {<<c, decision>>}

\* What accepting asks of the loaded candidate and the resolutions.
Acceptable(row, resolved) ==
    /\ row.content.name # Nothing
    /\ ~row.content.open
    /\ row.suggestions \subseteq resolved

\* Past its checks a request waits for the row, with the content and the resolutions
\* it computed from the row it loaded and the revision its client saw.
ToClaim(w, op, c, expected, content, resolved) ==
    /\ review' = [review EXCEPT ![w] = [pc |-> "claim", op |-> op, cand |-> c,
           expected |-> expected, content |-> content, resolved |-> resolved]]
    /\ UNCHANGED told

\* edit_extraction_candidate up to its claim.
LoadEdit(w, c, expected, given) ==
    /\ review[w].pc = "idle" /\ candidate[c].status = "pending_review"
    /\ \E content \in Edits :
           ToClaim(w, "edited", c, expected, content, candidate[c].resolved \cup given)
    /\ UNCHANGED <<rows, post, calls>>

\* accept_extraction_candidate up to its claim; an accepted one is answered again.
LoadAccept(w, c, expected, given) ==
    LET row == candidate[c]  resolved == row.resolved \cup given IN
    /\ review[w].pc = "idle"
    /\ \/ row.status = "accepted" /\ Answered(w, c, "accepted")
       \/ /\ row.status = "pending_review" /\ Acceptable(row, resolved)
          /\ ToClaim(w, "accepted", c, expected, Nothing, resolved)
    /\ UNCHANGED <<rows, post, calls>>

\* reject_extraction_candidate up to its claim; a rejected one is answered again.
LoadReject(w, c, expected, given) ==
    /\ review[w].pc = "idle"
    /\ \/ candidate[c].status = "rejected" /\ Answered(w, c, "rejected")
       \/ /\ candidate[c].status = "pending_review"
          /\ ToClaim(w, "rejected", c, expected, Nothing, candidate[c].resolved \cup given)
    /\ UNCHANGED <<rows, post, calls>>

\* Mutant: the check and the change are two statements.
RowNeverHeld(c) == TRUE

\* A claimed row is locked until its transaction ends.
RowFree(c) == \A w \in Reviewers : review[w].pc = "write" => review[w].cand # c

\* Mutant: the revision is left out of the WHERE clause.
ClaimablePending(w) == candidate[review[w].cand].status = "pending_review"

\* The UPDATE matches: pending and still at the revision the client saw.
Claimable(w) ==
    LET row == candidate[review[w].cand] IN
    row.status = "pending_review" /\ row.revision = review[w].expected

\* _claim_candidate_revision waits for the row; when it fails, the handler looks
\* again and answers with the decision it asked for when that is the one it finds.
Claim(w) ==
    LET c == review[w].cand IN
    /\ review[w].pc = "claim" /\ RowFree(c)
    /\ IF Claimable(w)
       THEN /\ review[w].op = "edited" => candidate[c].revision < MaxRevision
            /\ review' = [review EXCEPT ![w].pc = "write"]
            /\ UNCHANGED told
       ELSE IF candidate[c].status = review[w].op
            THEN Answered(w, c, review[w].op)
            ELSE review' = [review EXCEPT ![w] = Idle] /\ UNCHANGED told
    /\ UNCHANGED <<rows, post, calls>>

\* The commit of a changed row with its next revision row.
Stored(w, row) ==
    LET r == review[w] IN
    /\ candidate' = [candidate EXCEPT ![r.cand] = row]
    /\ revision' = [revision EXCEPT ![r.cand] = Append(@, [kind |-> r.op, content |-> row.content])]
    /\ UNCHANGED <<batch, post, calls>>

\* The new content with the flag that follows from it.
WriteEdit(w) ==
    LET r == review[w]  row == candidate[r.cand] IN
    /\ r.pc = "write" /\ r.op = "edited"
    /\ Stored(w, [row EXCEPT !.content = r.content, !.revision = r.expected + 1,
                             !.resolved = r.resolved,
                             !.attention = NeedsAttention(r.content, row.suggestions, r.resolved)])
    /\ review' = [review EXCEPT ![w] = Idle]
    /\ UNCHANGED <<element, told>>

\* A decided candidate.
Closed(w) ==
    LET r == review[w] IN
    [candidate[r.cand] EXCEPT !.status = r.op, !.revision = r.expected + 1,
                              !.resolved = r.resolved, !.attention = FALSE]

\* create_element with the content of the candidate after the claim.
Created(row) == [name |-> row.content.name, content |-> row.content, resolved |-> row.resolved]

\* The element and the acceptance in one commit.  When its acknowledgement is lost,
\* the handler finds the acceptance and answers that it was made already.
WriteAccept(w) ==
    LET r == review[w] IN
    /\ r.pc = "write" /\ r.op = "accepted"
    /\ Stored(w, Closed(w))
    /\ element' = [element EXCEPT ![r.cand] = Created(Closed(w))]
    /\ Answered(w, r.cand, "accepted")

WriteReject(w) ==
    LET r == review[w] IN
    /\ r.pc = "write" /\ r.op = "rejected"
    /\ Stored(w, Closed(w))
    /\ Answered(w, r.cand, "rejected")
    /\ UNCHANGED element

\* LoreWriteError, a failed commit, a disconnection or the end of the process.
Abandon(w) ==
    /\ review[w].pc \in {"claim", "write"}
    /\ review' = [review EXCEPT ![w] = Idle]
    /\ UNCHANGED <<rows, post, calls, told>>

-----------------------------------------------------------------------------
Posting(p) ==
    \/ Reserve(p) \/ Call(p) \/ CallFails(p) \/ Save(p) \/ SaveFails(p)
    \/ \E s \in Replies : Prepare(p, s)

Next ==
    \/ \E p \in Posters :
          \/ \E k \in Keys, d \in Docs : Begin(p, k, d)
          \/ Posting(p)
          \/ Die(p)
    \/ \E w \in Reviewers :
          \/ \E c \in {x \in Candidates : candidate[x] # Nothing} :
                \E e \in 1 .. candidate[c].revision, g \in {{}, candidate[c].suggestions} :
                    \/ LoadEdit(w, c, e, g)
                    \/ LoadAccept(w, c, e, g)
                    \/ LoadReject(w, c, e, g)
          \/ Claim(w)
          \/ WriteEdit(w) \/ WriteAccept(w) \/ WriteReject(w)
          \/ Abandon(w)

Spec == Init /\ [][Next]_vars

-----------------------------------------------------------------------------
TypeOK ==
    /\ batch \in [Keys -> Batches \cup {Nothing}]
    /\ candidate \in [Candidates -> CandidateRows \cup {Nothing}]
    /\ revision \in [Candidates -> Seq(Revisions)]
    /\ element \in [Candidates -> Elements \cup {Nothing}]
    /\ post \in [Posters -> Posts]
    /\ review \in [Reviewers -> Reviews]
    /\ calls \in [Keys -> Nat]
    /\ told \subseteq Candidates \X Kinds

\* A key is paid for at most once however often and by however many requests it is
\* posted, and only for the document that reserved it: every other request for the
\* key was answered from the stored batch or refused (create_extraction_batch).
OneCallPerKey ==
    /\ \A k \in Keys : calls[k] <= 1
    /\ \A p \in Posters :
           /\ post[p].pc \in {"call", "wait", "save"} =>
                  batch[post[p].key].doc = post[p].doc /\ batch[post[p].key].status = "running"
           /\ post[p].pc = "answered" => batch[post[p].key].doc = post[p].doc
    /\ \A p, q \in Posters :
           p # q /\ {post[p].pc, post[q].pc} \subseteq {"call", "wait", "save"} =>
               post[p].key # post[q].key

\* The history of a candidate is complete and ends in its present state: one row per
\* revision, the first extracted, only the last a decision; an element exists exactly
\* when the last is an acceptance; and nobody was told of a decision that is not there.
DecisionsWhole ==
    /\ \A c \in Candidates : candidate[c] # Nothing =>
           LET row == candidate[c]  h == revision[c] IN
           /\ Len(h) = row.revision
           /\ h[1].kind = "extracted" /\ h[Len(h)].content = row.content
           /\ \A i \in 2 .. Len(h) - 1 : h[i].kind = "edited"
           /\ row.status # "pending_review" => h[Len(h)].kind = row.status
           /\ row.status = "pending_review" => h[Len(h)].kind \in {"extracted", "edited"}
    /\ \A c \in Candidates :
           (element[c] # Nothing) <=> (candidate[c] # Nothing /\ candidate[c].status = "accepted")
    /\ \A t \in told : candidate[t[1]].status = t[2]

\* What becomes an element was named, had nothing left to confirm, and every
\* element and sibling of its name that the extraction found had been decided by
\* the author, although these checks read the row before it was claimed.
AcceptedAsJudged ==
    \A c \in Candidates : element[c] # Nothing =>
        /\ element[c].name # Nothing /\ ~element[c].content.open
        /\ element[c].content = candidate[c].content
        /\ \A d \in Candidates \ {c} :
               d[1] = c[1] /\ revision[d] # <<>>
               /\ revision[d][1].content.name = revision[c][1].content.name
               /\ revision[c][1].content.name # Nothing
               => d \in element[c].resolved
        /\ \A e \in OldIds : OldElements[e].name = revision[c][1].content.name =>
               e \in element[c].resolved
=============================================================================
