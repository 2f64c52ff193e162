-------------------------- MODULE GatewayContract ---------------------------
(***************************************************************************)
(* What the chat endpoint promises its clients and its auditors, without   *)
(* detection, tokens, hashes and the places at which something may fail:   *)
(* which answers are possible after which dealings with the provider and   *)
(* with the audit log.                                                     *)
(***************************************************************************)
EXTENDS Integers

CONSTANT Requests

VARIABLES
    phase,       \* "new", "handling", "answered", or "lost" with the process
    contacted,   \* has the provider been sent the prompt?
    logged,      \* what the audit record of the request says, if there is one
    status       \* the status of the answer, 0 while there is none

contractVars == <<phase, contacted, logged, status>>

Init ==
    /\ phase = [r \in Requests |-> "new"]
    /\ contacted = [r \in Requests |-> FALSE]
    /\ logged = [r \in Requests |-> "none"]
    /\ status = [r \in Requests |-> 0]

Enter(r) ==
    /\ phase[r] = "new"
    /\ phase' = [phase EXCEPT ![r] = "handling"]
    /\ UNCHANGED <<contacted, status>>

\* The provider is sent the prompt at most once, and not after a refusal.
Contact(r) ==
    /\ phase[r] = "handling" /\ ~ contacted[r] /\ logged[r] = "none"
    /\ contacted' = [contacted EXCEPT ![r] = TRUE]
    /\ UNCHANGED <<phase, logged, status>>

\* A record tells a request that was refused from one the provider got.
Record(r) ==
    /\ logged[r] = "none"
    /\ logged' \in {[logged EXCEPT ![r] = what] :
                       what \in IF contacted[r] THEN {"failed", "sealed"} ELSE {"refused"}}

Log(r) ==
    /\ phase[r] = "handling" /\ Record(r)
    /\ UNCHANGED <<phase, contacted, status>>

\* Creating the context may fail at once: the refusal is recorded on entry.
EnterAndLog(r)  == Enter(r) /\ Record(r)
EnterOnly(r)    == Enter(r) /\ UNCHANGED logged

\* What a status tells the client.  A 500 tells nothing; 0 stands for the
\* connection that a shutdown closes.
Allowed(r, s) ==
    \/ s = 200 /\ logged[r] = "sealed"
    \/ s \in {400, 422} /\ ~ contacted[r]
    \/ s \in {502, 504} /\ contacted[r] /\ logged[r] # "sealed"
    \/ s = 500
    \/ s = 0 /\ contacted[r] /\ logged[r] = "none"

Answer(r) ==
    /\ phase[r] = "handling"
    /\ \E s \in {0, 200, 400, 422, 500, 502, 504} :
          Allowed(r, s) /\ status' = [status EXCEPT ![r] = s]
    /\ phase' = [phase EXCEPT ![r] = "answered"]
    /\ UNCHANGED <<contacted, logged>>

\* The process dies with every request it is handling.
Die ==
    /\ phase' = [r \in Requests |-> IF phase[r] = "handling" THEN "lost" ELSE phase[r]]
    /\ UNCHANGED <<contacted, logged, status>>

Next ==
    \/ \E r \in Requests : EnterOnly(r) \/ EnterAndLog(r) \/ Contact(r) \/ Log(r) \/ Answer(r)
    \/ Die

Spec == Init /\ [][Next]_contractVars

\* A request that is being handled is answered, unless the process dies.
FairSpec == Spec /\ \A r \in Requests : WF_contractVars(Answer(r))
=============================================================================
