----------------------------- MODULE Mediation ------------------------------
(***************************************************************************)
(* Policy, detection, tokenization and rehydration of one text:            *)
(* gateway/policy.py, gateway/pii_mediator.py and gateway/tokenization.py. *)
(*                                                                         *)
(* A text is the sequence of its fragments.  A fragment is plain or        *)
(* sensitive text, a complete token, or the marker left by a redaction.    *)
(* The detector (Presidio) is taken to find exactly the text fragments     *)
(* whose type it is asked for; "plain" is the type of all other text.      *)
(***************************************************************************)
EXTENDS Integers, Sequences

CONSTANT Policy                   \* entity type -> action

PolicyActions == {"allow", "tokenize", "redact", "block"}
Entities == DOMAIN Policy

ASSUME PolicyAssumption ==
    Policy \in [Entities -> PolicyActions] /\ "plain" \notin Entities

Text(type, value)        == [kind |-> "text", type |-> type, value |-> value]
Token(type, ns, number)  == [kind |-> "token", type |-> type, ns |-> ns, number |-> number]
Redacted(type)           == [kind |-> "redacted", type |-> type]

\* analyze: every policy-listed entity is requested, the allowed ones too.
Detected(f) == f.kind = "text" /\ f.type \in Entities

DetectedTypes(text) == {text[k].type : k \in {j \in DOMAIN text : Detected(text[j])}}

\* blocked_entity_types(build_decisions(...))
BlockedTypes(text) == {e \in DetectedTypes(text) : Policy[e] = "block"}

\* Mutation: what the request tokenizes is allowed in responses.
ResponsePolicy_OnlyRedact ==
    [e \in Entities |-> IF Policy[e] = "redact" THEN "redact" ELSE "allow"]

\* The policy of the response scan: there is no context to restore a token
\* minted for the provider's words, so everything mediated is redacted.
ResponsePolicy ==
    [e \in Entities |-> IF Policy[e] = "allow" THEN "allow" ELSE "redact"]

-----------------------------------------------------------------------------
(* TokenizationContext.  Its two dictionaries are one set of entries, a    *)
(* token with the value it stands for; count is _counters.                 *)

NewContext(ns) == [ns |-> ns, count |-> [e \in Entities |-> 0], entries |-> {}]

\* clear(): no mapping and no counter remains.
Cleared(ctx) == NewContext(ctx.ns)

\* A candidate namespace is refused if it occurs in the request's text.
NamespacesIn(text) == {text[k].ns : k \in {j \in DOMAIN text : text[j].kind = "token"}}

Existing(ctx, f) == {m \in ctx.entries : m.token.type = f.type /\ m.value = f.value}

\* token_for: the token of the value, and the context once it is minted.
TokenFor(ctx, f) ==
    IF Existing(ctx, f) # {}
      THEN (CHOOSE m \in Existing(ctx, f) : TRUE).token
      ELSE Token(f.type, ctx.ns, ctx.count[f.type] + 1)

Minted(ctx, f) ==
    IF Existing(ctx, f) # {}
      THEN ctx
      ELSE [ctx EXCEPT !.count[f.type] = @ + 1,
                       !.entries = @ \cup {[token |-> TokenFor(ctx, f), value |-> f.value]}]

\* Mutation: the namespace of a token is not looked at.
Restored_AnyNamespace(ctx, f) ==
    LET same(m) == f.kind = "token" /\ m.token.type = f.type /\ m.token.number = f.number
    IN  IF \E m \in ctx.entries : same(m)
          THEN Text(f.type, (CHOOSE m \in ctx.entries : same(m)).value)
          ELSE f

\* rehydrate: one exact lookup per complete token, everything else unchanged.
Restored(ctx, f) ==
    IF \E m \in ctx.entries : m.token = f
      THEN Text(f.type, (CHOOSE m \in ctx.entries : m.token = f).value)
      ELSE f

Rehydrate(ctx, text) == [k \in DOMAIN text |-> Restored(ctx, text[k])]

-----------------------------------------------------------------------------
(* apply, for one fragment, under a policy.                                *)

Tokenizes(policy, f) == Detected(f) /\ policy[f.type] = "tokenize"

\* A fragment the policy allows stays.  Where the policy blocks, apply raises;
\* it is not reached then, and passing the fragment on is the worse assumption.
Mediate(policy, ctx, f) ==
    CASE Tokenizes(policy, f)                           -> TokenFor(ctx, f)
      [] Detected(f) /\ policy[f.type] = "redact"       -> Redacted(f.type)
      [] ~ Detected(f) \/ policy[f.type] \in {"allow", "block"} -> f

\* What apply refuses to do: weaken BLOCK, tokenize without a context.
Refuses(policy, f) == Detected(f) /\ policy[f.type] \in {"block", "tokenize"}

\* apply(content, results, None) with the response policy.
ScanText(text) ==
    [k \in DOMAIN text |->
        IF Detected(text[k]) /\ ResponsePolicy[text[k].type] = "redact"
          THEN Redacted(text[k].type)
          ELSE text[k]]
=============================================================================
