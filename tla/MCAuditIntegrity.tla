-------------------------- MODULE MCAuditIntegrity --------------------------
(***************************************************************************)
(* Instances of AuditIntegrity for TLC: two payloads, up to three rows and *)
(* up to three changes, which is enough to edit a row, repair its hash and *)
(* relink its successor, or to restore a copy, append and bring back a     *)
(* row of the branch that was left.                                        *)
(***************************************************************************)
EXTENDS AuditIntegrity, TLC

Symmetry == Permutations(Contents)
=============================================================================
