----------------------------- MODULE LoreRehearsal -----------------------------
(***************************************************************************)
(* The rehearsal of an upgrade in an isolated database                     *)
(* (backend/app/core/lore_migration_rehearsal.py), beside the upgrade      *)
(* itself (LoreMigration).  A rehearsal is bound to one worldview that is  *)
(* ready without any decision (its anchor); it writes the rows, a record   *)
(* and the switch in one transaction, is validated, and is taken back by a *)
(* second one, but only while nobody has touched what it wrote.  Both need *)
(* maintenance, from the first to the last statement.                      *)
(*                                                                         *)
(* Abstractions: the proofs of isolation are part of the guard and not     *)
(* modelled; a rehearsal that fails before its commit is no step.          *)
(***************************************************************************)
EXTENDS LoreMigration

NoDecisions == <<>>

\* Maintenance, asked for first and again before each commit.
Guarded == frozen

\* The preview is built without the decisions the author made.
Anchored(w) == source = w /\ Ready(w, NoDecisions)

RehearsalRows(w) == Rows(w, w, NoDecisions)

\* What the tables hold for the project, those that no rehearsal writes included.
Written == lore

\* They hold exactly the rows of the rehearsal.
Untouched(w) == Written # NoRows /\ Written = RehearsalRows(w)

\* What a validation after the commit passes, and the rollback asks for.
Valid(w) == mode = "relational" /\ migration = {w} /\ Anchored(w) /\ Untouched(w)

CanRehearse(w) == Guarded /\ mode = "legacy" /\ NoRelationalState /\ Anchored(w)

CommitRehearsal(w) ==
    /\ CanRehearse(w)
    /\ lore' = RehearsalRows(w)
    /\ migration' = {w}
    /\ mode' = "relational"
    /\ UNCHANGED <<source, decisions, operation, frozen, request>>

\* Mutant: the record of the rehearsal stays.
RollBackKeepsRecord(w) ==
    /\ Guarded /\ Valid(w)
    /\ lore' = NoRows
    /\ mode' = "legacy"
    /\ UNCHANGED <<source, decisions, operation, migration, frozen, request>>

RollBack(w) ==
    /\ Guarded /\ Valid(w)
    /\ lore' = NoRows
    /\ migration' = {}
    /\ mode' = "legacy"
    /\ UNCHANGED <<source, decisions, operation, frozen, request>>

\* No trace of a rehearsal, as the validation of the baseline counts.
NoResidue == lore = NoRows /\ migration = {}

RehearsalNext == Next \/ \E w \in Worldviews : CommitRehearsal(w) \/ RollBack(w)

RehearsalSpec == Init /\ [][RehearsalNext]_vars

-----------------------------------------------------------------------------
(* Properties *)

\* A rehearsal that is taken back, like an upgrade that is, leaves nothing: a
\* legacy project has no rows and no record, so that the next upgrade is not
\* refused for the traces of the last (validate_rehearsal_baseline).
LegacyIsClean == mode = "legacy" => NoResidue
=============================================================================
