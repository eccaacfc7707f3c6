--------------------------- MODULE SingleCallLedger ---------------------------
(***************************************************************************)
(* What paid generation promises a client, whatever happens to the         *)
(* requests that carry it out: for each operation key one ledger entry     *)
(* that is opened once, paid for at most once, settled at most once with a *)
(* final outcome, and holds a text exactly when it succeeded.  The ledger  *)
(* of a project can be closed only while no entry is open.                 *)
(***************************************************************************)
CONSTANT Keys

VARIABLES
    outcome,  \* per key: "none", "open", or how it was settled
    paid,     \* the keys the provider has been called for
    stored,   \* the keys whose text is kept
    closed    \* the project is gone

ledger == <<outcome, paid, stored, closed>>

Settlements == {"succeeded", "failed", "outcome_unknown"}

Init ==
    /\ outcome = [k \in Keys |-> "none"]
    /\ paid = {}
    /\ stored = {}
    /\ closed = FALSE

Open(k) ==
    /\ ~closed
    /\ outcome[k] = "none"
    /\ outcome' = [outcome EXCEPT ![k] = "open"]
    /\ UNCHANGED <<paid, stored, closed>>

Pay(k) ==
    /\ outcome[k] = "open"
    /\ k \notin paid
    /\ paid' = paid \cup {k}
    /\ UNCHANGED <<outcome, stored, closed>>

Settle(k, o) ==
    /\ outcome[k] = "open"
    /\ o = "succeeded" => k \in paid
    /\ outcome' = [outcome EXCEPT ![k] = o]
    /\ stored' = IF o = "succeeded" THEN stored \cup {k} ELSE stored
    /\ UNCHANGED <<paid, closed>>

Close ==
    /\ ~closed
    /\ \A k \in Keys : outcome[k] # "open"
    /\ outcome' = [k \in Keys |-> "none"]
    /\ stored' = {}
    /\ closed' = TRUE
    /\ UNCHANGED paid

Next ==
    \/ \E k \in Keys : Open(k) \/ Pay(k) \/ \E o \in Settlements : Settle(k, o)
    \/ Close

Spec == Init /\ [][Next]_ledger
=============================================================================
