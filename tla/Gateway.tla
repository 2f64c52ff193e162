------------------------------ MODULE Gateway -------------------------------
(***************************************************************************)
(* The chat endpoint of gateway/gateway_api.py: concurrent requests, each  *)
(* mediated, sent to the provider, audited, rehydrated and answered, with  *)
(* every error path.  The steps of different requests interleave freely;   *)
(* the single event loop (which yields only while it awaits the provider)  *)
(* and several worker processes both run a subset of these behaviours.     *)
(*                                                                         *)
(* The audit log is seen through the results of append (AuditLogger): the  *)
(* record is written ("ok"), is not ("write_error"), is written although   *)
(* AuditWriteError is raised ("late_error"), or is not and an exception    *)
(* that is no GatewayError is raised ("raised").                           *)
(***************************************************************************)
EXTENDS Mediation, FiniteSets

CONSTANTS
    Requests,
    Body,                \* request -> its messages, as one text
    RehydrateFor,        \* the requests with rehydrate = true
    Namespaces,          \* what secrets.token_hex(4) can return
    Invented,            \* fragments a provider may write of its own accord
    Unencodable,         \* those of them that UTF-8 cannot encode
    ReplyLength,         \* bound on the fragments of a reply
    EnvelopeMayFail,     \* can the provider's id, model or finish_reason be such text?
    AppendResults,       \* the results append can have
    ScanEnabled,         \* response_scan_enabled
    StoreRedacted,       \* audit_store_redacted_content
    MayCrash             \* can the gateway process die?

\* A request has at least one message, and a message at least one fragment.
ASSUME BodyAssumption ==
    \A r \in Requests : Body[r] \in Seq({Body[r][k] : k \in DOMAIN Body[r]}) \ {<< >>}

\* A fragment of a request is text or a complete token.
ASSUME FragmentAssumption ==
    \A r \in Requests : \A k \in DOMAIN Body[r] :
        LET f == Body[r][k]
        IN  \/ f.kind = "text" /\ f = Text(f.type, f.value)
            \/ f.kind = "token" /\ f = Token(f.type, f.ns, f.number)

ASSUME AppendAssumption ==
    "ok" \in AppendResults /\ AppendResults \subseteq {"ok", "write_error", "late_error", "raised"}

VARIABLES
    pc,          \* where the handler of each request is
    context,     \* its TokenizationContext
    text,        \* the text it works on: sanitized so far, then the reply
    prompt,      \* what the provider was sent
    reply,       \* what the provider answered
    records,     \* the audit records of the request, as [event, status]
    response     \* what the handler returns

vars == <<pc, context, text, prompt, reply, records, response>>

NoNamespace == "none"
NoResponse == [status |-> 0, code |-> "none", content |-> << >>]
Error(status, code) == [status |-> status, code |-> code, content |-> << >>]

\* An exception no handler maps: the server answers 500.
Unhandled == Error(500, "unhandled")
AuditWriteError == Error(500, "audit_write")

Init ==
    /\ pc = [r \in Requests |-> "new"]
    /\ context = [r \in Requests |-> NewContext(NoNamespace)]
    /\ text = [r \in Requests |-> << >>]
    /\ prompt = [r \in Requests |-> << >>]
    /\ reply = [r \in Requests |-> << >>]
    /\ records = [r \in Requests |-> << >>]
    /\ response = [r \in Requests |-> NoResponse]

Goto(r, label) == pc' = [pc EXCEPT ![r] = label]

Respond(r, answer) ==
    /\ Goto(r, "finish")
    /\ response' = [response EXCEPT ![r] = answer]

\* append leaves its record in the log, whether or not it also raises.
Recorded(result) == result \in {"ok", "late_error"}

AppendRecord(r, event, status, result) ==
    records' = IF Recorded(result)
                 THEN [records EXCEPT ![r] = Append(@, [event |-> event, status |-> status])]
                 ELSE records

\* _audit_safe and raise: a GatewayError of append is swallowed, anything else
\* takes the place of the error being reported.
FailWith(r, event, answer) ==
    \E result \in AppendResults :
        /\ AppendRecord(r, event, answer.status, result)
        /\ Respond(r, IF result = "raised" THEN Unhandled ELSE answer)

-----------------------------------------------------------------------------
(* Before the provider.                                                    *)

\* The body violates the request schema: the handler is never entered.
RejectInvalid(r) ==
    /\ pc[r] = "new"
    /\ Respond(r, Error(422, "request_invalid"))
    /\ UNCHANGED <<context, text, prompt, reply, records>>

\* Mutation: the namespace is not compared with the text.
CreateContext_AnyNamespace(r) ==
    /\ pc[r] = "new"
    /\ \E ns \in Namespaces : context' = [context EXCEPT ![r] = NewContext(ns)]
    /\ Goto(r, "decide")
    /\ UNCHANGED <<text, prompt, reply, records, response>>

\* A context with a namespace the text does not contain, registered for cleanup.
CreateContext(r) ==
    /\ pc[r] = "new"
    /\ \E ns \in Namespaces \ NamespacesIn(Body[r]) :
          context' = [context EXCEPT ![r] = NewContext(ns)]
    /\ Goto(r, "decide")
    /\ UNCHANGED <<text, prompt, reply, records, response>>

\* Mutation: a detector that raises counts as one that found nothing.
DetectionFails_Continues(r) ==
    /\ pc[r] = "decide"
    /\ text' = [text EXCEPT ![r] = Body[r]]
    /\ Goto(r, "sanitize")
    /\ UNCHANGED <<context, prompt, reply, records, response>>

\* Creating the context (32 candidates were refused), analyze or
\* build_decisions raises.
DetectionFails(r) ==
    /\ pc[r] \in {"new", "decide"}
    /\ FailWith(r, "detector_failure", Error(500, "detector_failure"))
    /\ UNCHANGED <<context, text, prompt, reply>>

Block(r) ==
    /\ pc[r] = "decide"
    /\ BlockedTypes(Body[r]) # {}
    /\ FailWith(r, "policy_blocked", Error(400, "policy_blocked"))
    /\ UNCHANGED <<context, text, prompt, reply>>

StartSanitizing(r) ==
    /\ pc[r] = "decide"
    /\ BlockedTypes(Body[r]) = {}
    /\ Goto(r, "sanitize")
    /\ UNCHANGED <<context, text, prompt, reply, records, response>>

\* apply replaces the next fragment, minting its token if there is none yet.
SanitizeFragment(r) ==
    /\ pc[r] = "sanitize"
    /\ Len(text[r]) < Len(Body[r])
    /\ LET f == Body[r][Len(text[r]) + 1]
       IN  /\ text' = [text EXCEPT ![r] = Append(@, Mediate(Policy, context[r], f))]
           /\ context' = IF Tokenizes(Policy, f)
                           THEN [context EXCEPT ![r] = Minted(@, f)]
                           ELSE context
    /\ UNCHANGED <<pc, prompt, reply, records, response>>

SanitizingFails(r) ==
    /\ pc[r] = "sanitize"
    /\ FailWith(r, "detector_failure", Error(500, "detector_failure"))
    /\ UNCHANGED <<context, text, prompt, reply>>

\* Mutation: the prompt is sent before its last message is sanitized.
CallProvider_Partial(r) ==
    /\ pc[r] = "sanitize"
    /\ Len(text[r]) <= Len(Body[r])
    /\ prompt' = [prompt EXCEPT ![r] = text[r]]
    /\ Goto(r, "await")
    /\ UNCHANGED <<context, text, reply, records, response>>

\* The one await of the handler.
CallProvider(r) ==
    /\ pc[r] = "sanitize"
    /\ Len(text[r]) = Len(Body[r])
    /\ prompt' = [prompt EXCEPT ![r] = text[r]]
    /\ Goto(r, "await")
    /\ UNCHANGED <<context, text, reply, records, response>>

-----------------------------------------------------------------------------
(* The provider, which may repeat what it was ever sent, add to it, fail,  *)
(* or never answer because the server shuts down.                          *)

Fragments(t) == {t[k] : k \in DOMAIN t}

Replies ==
    LET words == Invented \cup UNION {Fragments(prompt[q]) : q \in Requests}
    IN  UNION {[1 .. n -> words] : n \in 1 .. ReplyLength}

ProviderAnswers(r) ==
    /\ pc[r] = "await"
    /\ \E t \in Replies :
          /\ reply' = [reply EXCEPT ![r] = t]
          /\ text' = [text EXCEPT ![r] = t]
    /\ Goto(r, "received")
    /\ UNCHANGED <<context, prompt, records, response>>

\* Mutation: exceptions that are no GatewayError are not caught.
ProviderFails_Unmapped(r) ==
    /\ pc[r] = "await"
    /\ Respond(r, Unhandled)
    /\ UNCHANGED <<context, text, prompt, reply, records>>

\* A typed adapter error, or any other exception, which is reported as 502.
ProviderFails(r) ==
    /\ pc[r] = "await"
    /\ \E answer \in {Error(504, "provider_timeout"), Error(502, "provider_auth"),
                      Error(502, "provider_response")} :
          FailWith(r, "provider_error", answer)
    /\ UNCHANGED <<context, text, prompt, reply>>

\* CancelledError is no Exception: no branch of the handler sees it.
Cancelled(r) ==
    /\ pc[r] = "await"
    /\ Respond(r, Error(0, "cancelled"))
    /\ UNCHANGED <<context, text, prompt, reply, records>>

-----------------------------------------------------------------------------
(* After the provider.                                                     *)

Encodable(t) == Fragments(t) \cap Unencodable = {}

\* sha256_canonical of the reply's contents raises outside any try.
HashFails(r) ==
    /\ pc[r] = "received"
    /\ ~ Encodable(text[r])
    /\ Respond(r, Unhandled)
    /\ UNCHANGED <<context, text, prompt, reply, records>>

\* The reply is hashed as it came and then scanned, before any rehydration.
ScanReply(r) ==
    /\ pc[r] = "received"
    /\ Encodable(text[r])
    /\ ScanEnabled => \A f \in Fragments(text[r]) : ~ Refuses(ResponsePolicy, f)
    /\ text' = IF ScanEnabled THEN [text EXCEPT ![r] = ScanText(@)] ELSE text
    /\ Goto(r, "seal")
    /\ UNCHANGED <<context, prompt, reply, records, response>>

\* Mutation: the failed scan is reported as a failure of the request's detection.
ScanFails_AsDetector(r) ==
    /\ pc[r] = "received"
    /\ ScanEnabled /\ Encodable(text[r])
    /\ FailWith(r, "detector_failure", Error(500, "detector_failure"))
    /\ UNCHANGED <<context, text, prompt, reply>>

ScanFails(r) ==
    /\ pc[r] = "received"
    /\ ScanEnabled /\ Encodable(text[r])
    /\ FailWith(r, "response_scan_failure", Error(500, "response_scan_failure"))
    /\ UNCHANGED <<context, text, prompt, reply>>

\* redact_all for the optional stored content raises outside any try.
RedactAllFails(r) ==
    /\ pc[r] = "seal"
    /\ StoreRedacted
    /\ Respond(r, Unhandled)
    /\ UNCHANGED <<context, text, prompt, reply, records>>

\* Mutation: the success path writes its record as the error paths do.
SealCycle_BestEffort(r) ==
    /\ pc[r] = "seal"
    /\ \E result \in AppendResults :
          /\ AppendRecord(r, "chat_completion", 200, result)
          /\ Goto(r, "restore")
    /\ UNCHANGED <<context, text, prompt, reply, response>>

\* _audit_or_fail: without its audit record the cycle does not succeed.
SealCycle(r) ==
    /\ pc[r] = "seal"
    /\ \E result \in AppendResults :
          /\ AppendRecord(r, "chat_completion", 200, result)
          /\ CASE result = "ok"     -> Goto(r, "restore") /\ UNCHANGED response
               [] result = "raised" -> Respond(r, Unhandled)
               [] result \in {"write_error", "late_error"} -> Respond(r, AuditWriteError)
    /\ UNCHANGED <<context, text, prompt, reply>>

ReturnReply(r) ==
    /\ pc[r] = "restore"
    /\ Respond(r, [status |-> 200, code |-> "ok",
                   content |-> IF r \in RehydrateFor
                                 THEN Rehydrate(context[r], text[r])
                                 ELSE text[r]])
    /\ UNCHANGED <<context, text, prompt, reply, records>>

\* JSONResponse cannot encode the provider's id, model or finish_reason, which
\* no hash has been computed of: the exception comes after the audit record.
RenderFails(r) ==
    /\ pc[r] = "restore"
    /\ EnvelopeMayFail
    /\ Respond(r, Unhandled)
    /\ UNCHANGED <<context, text, prompt, reply, records>>

\* Mutation: the handler clears the context itself, when it succeeds.
ClearContext_SuccessOnly(r) ==
    /\ pc[r] = "finish"
    /\ context' = IF response[r].status = 200
                    THEN [context EXCEPT ![r] = Cleared(@)]
                    ELSE context
    /\ Goto(r, "done")
    /\ UNCHANGED <<text, prompt, reply, records, response>>

\* The middleware's finally, whatever the handler returned or raised.
ClearContext(r) ==
    /\ pc[r] = "finish"
    /\ context' = [context EXCEPT ![r] = Cleared(@)]
    /\ Goto(r, "done")
    /\ UNCHANGED <<text, prompt, reply, records, response>>

-----------------------------------------------------------------------------

\* The process dies: what is not in the audit database is lost.
Crash ==
    /\ MayCrash
    /\ pc' = [r \in Requests |-> IF pc[r] \in {"new", "done"} THEN pc[r] ELSE "lost"]
    /\ context' = [r \in Requests |-> Cleared(context[r])]
    /\ UNCHANGED <<text, prompt, reply, records, response>>

Handle(r) ==
    \/ CreateContext(r)    \/ DetectionFails(r)
    \/ Block(r)            \/ StartSanitizing(r)
    \/ SanitizeFragment(r) \/ SanitizingFails(r)
    \/ CallProvider(r)
    \/ ProviderAnswers(r)  \/ ProviderFails(r)
    \/ HashFails(r)
    \/ ScanReply(r)        \/ ScanFails(r)
    \/ RedactAllFails(r)   \/ SealCycle(r)
    \/ ReturnReply(r)      \/ RenderFails(r)
    \/ ClearContext(r)

Next ==
    \/ \E r \in Requests : RejectInvalid(r) \/ Handle(r) \/ Cancelled(r)
    \/ Crash

Spec == Init /\ [][Next]_vars

\* Nobody has to send a request; a handler that was entered keeps running and
\* the provider call it awaits returns or raises.
FairSpec == Spec /\ \A r \in Requests : WF_vars(pc[r] # "new" /\ Handle(r))

-----------------------------------------------------------------------------
(* Properties                                                              *)

Labels == {"new", "decide", "sanitize", "await", "received", "seal", "restore",
           "finish", "done", "lost"}

\* Handlers are at known places, counters are within the number of fragments,
\* and a prompt is a whole text or nothing.
TypeOK ==
    /\ pc \in [Requests -> Labels]
    /\ \A r \in Requests :
          /\ context[r].ns \in Namespaces \cup {NoNamespace}
          /\ context[r].count \in [Entities -> 0 .. Len(Body[r])]
          /\ Len(prompt[r]) \in {0, Len(Body[r])}
          /\ response[r].status \in {0, 200, 400, 422, 500, 502, 504}

\* Fail closed: on no path, failures of the detector and of the audit log
\* included, does the provider get a value the policy mediates, nor anything at
\* all of a request that was blocked or whose mediation failed.
FailClosed ==
    \A r \in Requests :
        /\ \A f \in Fragments(prompt[r]) : Detected(f) => Policy[f.type] = "allow"
        /\ \/ BlockedTypes(Body[r]) # {}
           \/ response[r].code \in {"policy_blocked", "detector_failure"}
           \/ \E i \in DOMAIN records[r] :
                 records[r][i].event \in {"policy_blocked", "detector_failure"}
           => prompt[r] = << >>

InFlight(r) == pc[r] \in {"await", "received", "seal", "restore"}

\* While the provider holds a prompt, every token in it can be restored to the
\* value it replaced, and the tokens the caller wrote are nobody's: two values
\* never share a token, whichever messages they come from.
TokensResolvable ==
    \A r \in Requests : InFlight(r) =>
        \A k \in DOMAIN prompt[r] :
            prompt[r][k].kind = "token" =>
                Restored(context[r], prompt[r][k]) = Body[r][k]

\* The caller gets its own values back where the provider repeated its tokens,
\* and every other token unchanged, even if another request drew the same
\* namespace and the provider repeats that request's tokens.
OwnTokensRestored ==
    \A r \in Requests : response[r].status = 200 =>
        \A k \in DOMAIN reply[r] :
            LET f == reply[r][k]
                own == {j \in DOMAIN prompt[r] : prompt[r][j] = f /\ Body[r][j].kind = "text"}
            IN  f.kind = "token" =>
                  response[r].content[k] =
                    IF r \in RehydrateFor /\ own # {}
                      THEN Body[r][CHOOSE j \in own : TRUE]
                      ELSE f

\* With the response scan, what a caller can read of a mediated type is only
\* what it wrote itself and the policy restores: neither the provider's words
\* nor another request's values.
OnlyOwnValuesReturn ==
    ScanEnabled =>
        \A r \in Requests : \A f \in Fragments(response[r].content) :
            Detected(f) /\ Policy[f.type] # "allow" =>
                /\ f \in Fragments(Body[r])
                /\ Policy[f.type] = "tokenize"
                /\ r \in RehydrateFor

\* A 200 is answered only once its chat_completion record is in the log; a
\* request never has two records; and a record's status is the status answered,
\* except that a sealed cycle is answered 500 if append raised after writing or
\* the answer cannot be rendered.
AuditTrail ==
    \A r \in Requests :
        /\ response[r].status = 200 =>
              records[r] = << [event |-> "chat_completion", status |-> 200] >>
        /\ Len(records[r]) <= 1
        /\ pc[r] = "done" /\ records[r] # << >> =>
              \/ records[r][1].status = response[r].status
              \/ /\ records[r][1].event = "chat_completion"
                 /\ \/ "late_error" \in AppendResults /\ response[r] = AuditWriteError
                    \/ EnvelopeMayFail /\ response[r] = Unhandled

\* "Every request outcome appends exactly one record" (docs/ARCHITECTURE.md),
\* for the requests that reach the handler and are not cancelled by a shutdown.
OneRecordPerOutcome ==
    \A r \in Requests :
        pc[r] = "done" /\ response[r].code \notin {"request_invalid", "cancelled"} =>
            /\ Len(records[r]) = 1
            /\ records[r][1].status = response[r].status

\* No mapping outlives its request, whichever way the request ended.
ContextsCleared ==
    \A r \in Requests : pc[r] \in {"done", "lost"} => context[r] = Cleared(context[r])

-----------------------------------------------------------------------------
(* What the endpoint promises, without its inner steps.                    *)

\* What a record says of the request: refused before the provider was
\* contacted, failed afterwards, or sealed.
KindOf(event) ==
    CASE event \in {"policy_blocked", "detector_failure"}          -> "refused"
      [] event \in {"provider_error", "response_scan_failure"}     -> "failed"
      [] event = "chat_completion"                                 -> "sealed"

Contract == INSTANCE GatewayContract WITH
    phase     <- [r \in Requests |->
                    CASE pc[r] = "done" -> "answered"
                      [] pc[r] \in {"new", "lost"} -> pc[r]
                      [] pc[r] \notin {"new", "done", "lost"} -> "handling"],
    contacted <- [r \in Requests |-> prompt[r] # << >>],
    logged    <- [r \in Requests |->
                    IF records[r] = << >> THEN "none" ELSE KindOf(records[r][1].event)],
    status    <- [r \in Requests |-> IF pc[r] = "done" THEN response[r].status ELSE 0]

\* Whatever fails, a client can read from its status whether its data left the
\* gateway, and an auditor from the record whether a refusal was one: 400 and 422
\* mean that nothing was sent, 502 and 504 that something was and that the
\* cycle is not sealed, 200 that it is; and every request is answered.
ImplementsContract == Contract!FairSpec
=============================================================================
