----------------------------- MODULE MCRestarts -----------------------------
(***************************************************************************)
(* Instances of Restarts for TLC.  The environments vary every field the   *)
(* audit path depends on together, and the fields that only decide whether *)
(* the gateway starts one at a time.                                       *)
(***************************************************************************)
EXTENDS Restarts, TLC

Base ==
    { [ app_env |-> e, values |-> "valid", provider |-> "mock", credentials |-> {},
        hmac_key |-> h, checkpoint |-> c, db |-> d, policy |-> "default" ] :
      e \in {"development", "test", "production"}, h \in HmacKeys,
      c \in BOOLEAN, d \in Databases }

Varied(s) ==
    {[s EXCEPT !.values = "invalid"]}
    \cup {[s EXCEPT !.policy = p] : p \in {"loaded", "unreadable", "unknown_action", "not_an_object"}}
    \cup {[s EXCEPT !.provider = p, !.credentials = c] :
             p \in {"openai", "anthropic"}, c \in SUBSET {"openai", "anthropic"}}

MCEnvironments == Base \cup UNION {Varied(s) : s \in {b \in Base : b.hmac_key \in StrongKeys /\ b.checkpoint}}

Symmetry == Permutations(Databases) \cup Permutations(StrongKeys)
=============================================================================
