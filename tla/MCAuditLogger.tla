--------------------------- MODULE MCAuditLogger ----------------------------
(***************************************************************************)
(* Instances of AuditLogger for TLC.  The bounds are the sets Writers and  *)
(* Calls (every call is made once, so the table has at most one row per    *)
(* call) and AppendRetries (the code's 5, lowered to 2 or 3).              *)
(***************************************************************************)
EXTENDS AuditLogger, TLC

\* Writers and calls are interchangeable (runs without temporal properties).
Symmetry == Permutations(Writers) \cup Permutations(Calls)
=============================================================================
