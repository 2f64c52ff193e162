------------------------- MODULE MCProviderAdapter --------------------------
(***************************************************************************)
(* Instances of ProviderAdapter for TLC: prompts of up to three messages   *)
(* in any roles, bodies of up to two parts of any kind.                    *)
(***************************************************************************)
EXTENDS ProviderAdapter

AllPrompts ==
    UNION {{[k \in 1 .. n |-> [role |-> roles[k], content |-> k]] :
                roles \in [1 .. n -> {"system", "user", "assistant"}]} : n \in 1 .. 3}

AllBodies ==
    {[kind |-> "no_json"], [kind |-> "no_dict"]} \cup
    {[kind |-> "dict", usage |-> u, parts |-> [k \in DOMAIN kinds |-> [kind |-> kinds[k], text |-> k]]] :
        u \in {"ok", "malformed", "infinite"},
        kinds \in UNION {[1 .. n -> {"text", "other", "broken"}] : n \in 0 .. 2}}
=============================================================================
