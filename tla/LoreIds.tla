-------------------------------- MODULE LoreIds --------------------------------
(***************************************************************************)
(* The ids of lore rows, for LoreRepository and LoreLocks.  The code locks *)
(* and compares rows in the order of their ids; here an id is its place in *)
(* that order.                                                             *)
(***************************************************************************)
EXTENDS Naturals, FiniteSets

CONSTANTS
    Elements,     \* setting_elements
    RelationIds,  \* element_relations
    None          \* no row

ASSUME IdsAssumption ==
    /\ Elements \subseteq Nat /\ IsFiniteSet(Elements)
    /\ RelationIds \subseteq Nat /\ IsFiniteSet(RelationIds)
    /\ None \notin Elements \cup RelationIds
=============================================================================
