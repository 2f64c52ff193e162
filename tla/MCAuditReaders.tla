--------------------------- MODULE MCAuditReaders ---------------------------
(***************************************************************************)
(* An instance of AuditReaders for TLC: two writers with three appends, a  *)
(* verifier and a pager that both keep reading.                            *)
(***************************************************************************)
EXTENDS AuditReaders

Symmetry == Permutations(Writers) \cup Permutations(Calls)
=============================================================================
