---------------------------- MODULE AuditLedger -----------------------------
(***************************************************************************)
(* What the audit log promises to its callers: an append-only sequence of  *)
(* the calls that were recorded, a mark (the checkpoint) at one of its     *)
(* entries, and for each call one result.  AuditLogger implements it.      *)
(***************************************************************************)
EXTENDS Integers, Sequences

CONSTANT Calls

VARIABLES
    ledger,    \* the recorded calls, in the order of their ids
    marked,    \* the id the checkpoint names, 0 if there is none
    result     \* the result of each call

vars == <<ledger, marked, result>>

Entries == {ledger[k] : k \in DOMAIN ledger}

Init ==
    /\ ledger = << >>
    /\ marked = 0
    /\ result = [c \in Calls |-> "none"]

Submit(c) ==
    /\ result[c] = "none"
    /\ result' = [result EXCEPT ![c] = "pending"]
    /\ UNCHANGED <<ledger, marked>>

\* A call is recorded at most once, and only while it is under way.
Record(c) ==
    /\ result[c] = "pending"
    /\ c \notin Entries
    /\ ledger' = Append(ledger, c)
    /\ UNCHANGED <<marked, result>>

\* The mark moves to the entry of a call that is under way.
Mark(k) ==
    /\ result[ledger[k]] = "pending"
    /\ marked' = k
    /\ UNCHANGED <<ledger, result>>

\* "ok" is for recorded calls and "raised" for unrecorded ones; after
\* "write_error" and "lost" the caller cannot tell.
Finish(c) ==
    /\ result[c] = "pending"
    /\ \E r \in {"ok", "write_error", "raised", "lost"} :
          /\ r = "ok" => c \in Entries
          /\ r = "raised" => c \notin Entries
          /\ result' = [result EXCEPT ![c] = r]
    /\ UNCHANGED <<ledger, marked>>

Next ==
    \/ \E c \in Calls : Submit(c) \/ Record(c) \/ Finish(c)
    \/ \E k \in DOMAIN ledger : Mark(k)

Spec == Init /\ [][Next]_vars

\* Every submitted call is answered.
FairSpec == Spec /\ \A c \in Calls : WF_vars(Finish(c))
=============================================================================
