---------------------------- MODULE GatewayProofs ----------------------------
(***************************************************************************)
(* Theorems about Gateway, for every set of requests and bodies, every     *)
(* policy and every choice of what may fail: nothing mediated leaves,      *)
(* records agree with answers, the contract is kept, and tokens come back  *)
(* to their callers.  The invariants speak of one request at a time,       *)
(* because a step of a handler changes nothing of another request.         *)
(***************************************************************************)
EXTENDS Gateway, SequenceTheorems, TLAPS

Refusals == {"policy_blocked", "detector_failure"}
Sealed == [event |-> "chat_completion", status |-> 200]

\* A fragment the provider may see.
Sendable(f) == Detected(f) => Policy[f.type] = "allow"

\* The variables are functions of the requests, and a context has its mapping.
Shape ==
    /\ pc \in [Requests -> Labels]
    /\ context = [r \in Requests |-> context[r]]
    /\ text = [r \in Requests |-> text[r]]
    /\ prompt = [r \in Requests |-> prompt[r]]
    /\ records = [r \in Requests |-> records[r]]
    /\ response = [r \in Requests |-> response[r]]
    /\ \A r \in Requests : "entries" \in DOMAIN context[r]

\* Once the request ended, its context is cleared.
ContextInv(r) == pc[r] \in {"done", "lost"} => context[r] = Cleared(context[r])

\* Nothing is recorded or answered before the handler comes to an end, except
\* that a sealed cycle has its record before its answer.
RecordInv(r) ==
    /\ pc[r] \in {"new", "decide", "sanitize", "await", "received", "seal"} =>
          records[r] = << >> /\ response[r] = NoResponse
    /\ pc[r] = "restore" => records[r] = <<Sealed>> /\ response[r] = NoResponse
    /\ response[r].status = 200 => records[r] = <<Sealed>>
    /\ records[r] = << >> \/ records[r] = <<records[r][1]>>
    /\ pc[r] \in {"finish", "done"} /\ records[r] # << >> =>
          \/ records[r][1].status = response[r].status
          \/ /\ records[r][1].event = "chat_completion"
             /\ \/ "late_error" \in AppendResults /\ response[r] = AuditWriteError
                \/ EnvelopeMayFail /\ response[r] = Unhandled

\* The text is sendable as far as it is sanitized; what was sent is; a request
\* that was sent was neither blocked nor refused.
PromptInv(r) ==
    /\ \A m \in context[r].entries : m.token.kind = "token"
    /\ pc[r] \in {"new", "decide", "sanitize"} => prompt[r] = << >>
    /\ pc[r] \in {"new", "decide"} => text[r] = << >>
    /\ pc[r] = "sanitize" =>
          /\ BlockedTypes(Body[r]) = {}
          /\ text[r] \in Seq(Fragments(text[r]))
          /\ \A f \in Fragments(text[r]) : Sendable(f)
    /\ \A f \in Fragments(prompt[r]) : Sendable(f)
    /\ prompt[r] # << >> =>
          /\ BlockedTypes(Body[r]) = {}
          /\ response[r].code \notin Refusals
          /\ \A i \in DOMAIN records[r] : records[r][i].event \notin Refusals

Local(r) == ContextInv(r) /\ RecordInv(r) /\ PromptInv(r)

GInv == Shape /\ \A r \in Requests : Local(r)

-----------------------------------------------------------------------------

\* The invariant has the three properties as consequences.
LEMMA Consequences == GInv => ContextsCleared /\ AuditTrail /\ FailClosed
<1> SUFFICES ASSUME GInv, NEW r \in Requests
             PROVE  /\ pc[r] \in {"done", "lost"} => context[r] = Cleared(context[r])
                    /\ response[r].status = 200 =>
                          records[r] = << [event |-> "chat_completion", status |-> 200] >>
                    /\ Len(records[r]) <= 1
                    /\ pc[r] = "done" /\ records[r] # << >> =>
                          \/ records[r][1].status = response[r].status
                          \/ /\ records[r][1].event = "chat_completion"
                             /\ \/ "late_error" \in AppendResults /\ response[r] = AuditWriteError
                                \/ EnvelopeMayFail /\ response[r] = Unhandled
                    /\ \A f \in Fragments(prompt[r]) : Detected(f) => Policy[f.type] = "allow"
                    /\ \/ BlockedTypes(Body[r]) # {}
                       \/ response[r].code \in {"policy_blocked", "detector_failure"}
                       \/ \E i \in DOMAIN records[r] :
                             records[r][i].event \in {"policy_blocked", "detector_failure"}
                       => prompt[r] = << >>
  BY DEF ContextsCleared, AuditTrail, FailClosed
<1>1. Local(r)
  BY DEF GInv
<1>2. Len(records[r]) <= 1
  <2>1. CASE records[r] = << >>
    BY <2>1
  <2>2. CASE records[r] = <<records[r][1]>>
    <3>1. PICK entry : records[r] = <<entry>>
      BY <2>2
    <3> QED BY <3>1
  <2> QED BY <1>1, <2>1, <2>2 DEF Local, RecordInv
<1> QED BY <1>1, <1>2 DEF Local, ContextInv, RecordInv, PromptInv, Sealed, Refusals, Sendable

\* The first state satisfies the invariant.
LEMMA InitGInv == Init => GInv
<1> SUFFICES ASSUME Init PROVE GInv
  OBVIOUS
<1>1. Shape
  BY DEF Init, Shape, Labels, NewContext
<1>2. ASSUME NEW r \in Requests PROVE Local(r)
  <2>1. /\ pc[r] = "new" /\ context[r] = NewContext(NoNamespace) /\ text[r] = << >>
        /\ prompt[r] = << >> /\ records[r] = << >> /\ response[r] = NoResponse
    BY DEF Init
  <2>2. context[r].entries = {} /\ Fragments(<< >>) = {} /\ NoResponse.status # 200
    BY <2>1 DEF NewContext, Fragments, NoResponse
  <2> QED BY <2>1, <2>2 DEF Local, ContextInv, RecordInv, PromptInv
<1> QED BY <1>1, <1>2 DEF GInv

\* What a step of q leaves alone.
Others(q) ==
    \A r \in Requests \ {q} :
        /\ pc'[r] = pc[r] /\ context'[r] = context[r] /\ text'[r] = text[r]
        /\ prompt'[r] = prompt[r] /\ records'[r] = records[r] /\ response'[r] = response[r]

\* It is enough to look at the request whose handler took the step.
LEMMA OneRequest ==
    ASSUME GInv, NEW q \in Requests, Shape', Others(q), Local(q)'
    PROVE  GInv'
<1> SUFFICES ASSUME NEW r \in Requests \ {q} PROVE Local(r)'
  BY DEF GInv
<1>1. Local(r)
  BY DEF GInv
<1> QED BY <1>1 DEF Others, Local, ContextInv, RecordInv, PromptInv

-----------------------------------------------------------------------------
(* The actions.                                                            *)

\* A handler that ends with an error, and with the record of it if that can be
\* written: before the provider was contacted with any error, afterwards with
\* one that is no refusal.
LEMMA FailWithKeeps ==
    ASSUME GInv, NEW q \in Requests, NEW event, NEW answer,
           pc[q] \in {"new", "decide", "sanitize", "await", "received"},
           FailWith(q, event, answer), answer.status # 200,
           pc[q] \in {"await", "received"} => event \notin Refusals /\ answer.code \notin Refusals,
           UNCHANGED <<context, text, prompt>>
    PROVE  GInv'
<1>1. PICK result \in AppendResults :
          /\ AppendRecord(q, event, answer.status, result)
          /\ Respond(q, IF result = "raised" THEN Unhandled ELSE answer)
  BY DEF FailWith
<1>2. Local(q) /\ records[q] = << >> /\ response[q] = NoResponse
  BY DEF GInv, Local, RecordInv
<1> DEFINE said == IF result = "raised" THEN Unhandled ELSE answer
<1>3. pc'[q] = "finish" /\ response'[q] = said
  BY <1>1 DEF Respond, Goto, GInv, Shape
<1>4. said.status # 200 /\ (answer.code \notin Refusals => said.code \notin Refusals)
  BY DEF Unhandled, Error, Refusals
<1>5. \/ records'[q] = << >>
      \/ result # "raised" /\ records'[q] = <<[event |-> event, status |-> answer.status]>>
  BY <1>1, <1>2 DEF AppendRecord, Recorded, GInv, Shape
<1>6. Shape'
  <2>1. pc' \in [Requests -> Labels]
    BY <1>1 DEF Respond, Goto, GInv, Shape, Labels
  <2>2. records' = [r \in Requests |-> records'[r]]
    BY <1>1 DEF AppendRecord, GInv, Shape
  <2>3. response' = [r \in Requests |-> response'[r]]
    BY <1>1 DEF Respond, GInv, Shape
  <2> QED BY <2>1, <2>2, <2>3 DEF GInv, Shape
<1>10. Others(q)
  BY <1>1 DEF AppendRecord, Respond, Goto, GInv, Shape, Others
<1>7. ContextInv(q)'
  BY <1>3 DEF ContextInv
<1>8. RecordInv(q)'
  BY <1>3, <1>4, <1>5 DEF RecordInv
<1>9. PromptInv(q)'
  BY <1>2, <1>3, <1>4, <1>5 DEF Local, PromptInv
<1> QED BY <1>6, <1>7, <1>8, <1>9, <1>10, OneRequest DEF Local

\* A handler that ends before its cycle was sealed, with nothing recorded.
LEMMA RespondKeeps ==
    ASSUME GInv, NEW q \in Requests, NEW answer,
           pc[q] \in {"new", "decide", "sanitize", "await", "received", "seal"},
           Respond(q, answer), answer.status # 200, answer.code \notin Refusals,
           UNCHANGED <<context, text, prompt, records>>
    PROVE  GInv'
<1>1. Local(q) /\ records[q] = << >>
  BY DEF GInv, Local, RecordInv
<1>2. pc'[q] = "finish" /\ response'[q] = answer
  BY DEF Respond, Goto, GInv, Shape
<1>3. Shape'
  <2>1. pc' \in [Requests -> Labels]
    BY DEF Respond, Goto, GInv, Shape, Labels
  <2>2. response' = [r \in Requests |-> response'[r]]
    BY DEF Respond, GInv, Shape
  <2> QED BY <2>1, <2>2 DEF GInv, Shape
<1>4. Others(q)
  BY DEF Respond, Goto, GInv, Shape, Others
<1>5. ContextInv(q)' /\ RecordInv(q)'
  BY <1>1, <1>2 DEF ContextInv, RecordInv
<1>6. PromptInv(q)'
  BY <1>1, <1>2 DEF Local, PromptInv
<1> QED BY <1>3, <1>4, <1>5, <1>6, OneRequest DEF Local

LEMMA CreateContextKeeps ==
    ASSUME GInv, NEW q \in Requests, CreateContext(q) PROVE GInv'
<1>1. PICK ns \in Namespaces : context' = [context EXCEPT ![q] = NewContext(ns)]
  BY DEF CreateContext
<1>2. Local(q) /\ pc[q] = "new" /\ pc'[q] = "decide" /\ context'[q] = NewContext(ns)
  BY <1>1 DEF CreateContext, Goto, GInv, Shape
<1>3. Shape'
  <2>1. pc' \in [Requests -> Labels]
    BY DEF CreateContext, Goto, GInv, Shape, Labels
  <2>2. /\ context' = [r \in Requests |-> context'[r]]
        /\ \A r \in Requests : "entries" \in DOMAIN context'[r]
    BY <1>1 DEF NewContext, GInv, Shape
  <2> QED BY <2>1, <2>2 DEF CreateContext, GInv, Shape
<1>4. Others(q)
  BY <1>1 DEF CreateContext, Goto, GInv, Shape, Others
<1>5. ContextInv(q)' /\ RecordInv(q)'
  BY <1>2 DEF CreateContext, Local, ContextInv, RecordInv
<1>6. PromptInv(q)'
  <2>1. context'[q].entries = {}
    BY <1>2 DEF NewContext
  <2> QED BY <1>2, <2>1 DEF CreateContext, Local, PromptInv
<1> QED BY <1>3, <1>4, <1>5, <1>6, OneRequest DEF Local

LEMMA StartSanitizingKeeps ==
    ASSUME GInv, NEW q \in Requests, StartSanitizing(q) PROVE GInv'
<1>1. /\ Local(q) /\ pc[q] = "decide" /\ pc'[q] = "sanitize" /\ text[q] = << >>
      /\ BlockedTypes(Body[q]) = {}
  BY DEF StartSanitizing, Goto, GInv, Shape, Local, PromptInv
<1>2. Shape'
  <2>1. pc' \in [Requests -> Labels]
    BY DEF StartSanitizing, Goto, GInv, Shape, Labels
  <2> QED BY <2>1 DEF StartSanitizing, GInv, Shape
<1>3. Others(q)
  BY DEF StartSanitizing, Goto, GInv, Shape, Others
<1>4. ContextInv(q)' /\ RecordInv(q)'
  BY <1>1 DEF StartSanitizing, Local, ContextInv, RecordInv
<1>5. PromptInv(q)'
  <2>1. Fragments(<< >>) = {} /\ << >> \in Seq({})
    BY DEF Fragments
  <2> QED BY <1>1, <2>1 DEF StartSanitizing, Local, PromptInv
<1> QED BY <1>2, <1>3, <1>4, <1>5, OneRequest DEF Local

\* What a text's next fragment becomes may be sent, unless its type is blocked.
LEMMA MediatedIsSendable ==
    ASSUME NEW ctx, NEW f, \A m \in ctx.entries : m.token.kind = "token",
           Detected(f) => Policy[f.type] # "block"
    PROVE  /\ TokenFor(ctx, f).kind = "token"
           /\ Sendable(Mediate(Policy, ctx, f))
<1>1. TokenFor(ctx, f).kind = "token"
  <2>1. CASE Existing(ctx, f) # {}
    <3>1. (CHOOSE m \in Existing(ctx, f) : TRUE) \in ctx.entries
      BY <2>1 DEF Existing
    <3> QED BY <2>1, <3>1 DEF TokenFor
  <2>2. CASE Existing(ctx, f) = {}
    BY <2>2 DEF TokenFor, Token
  <2> QED BY <2>1, <2>2
<1>2. CASE Tokenizes(Policy, f)
  <2>1. Mediate(Policy, ctx, f) = TokenFor(ctx, f)
    BY <1>2 DEF Mediate, Tokenizes
  <2> QED BY <1>1, <2>1 DEF Sendable, Detected
<1>3. CASE Detected(f) /\ Policy[f.type] = "redact"
  <2>1. Mediate(Policy, ctx, f) = Redacted(f.type)
    BY <1>3 DEF Mediate, Tokenizes
  <2>2. Redacted(f.type).kind = "redacted"
    BY DEF Redacted
  <2> QED BY <1>1, <2>1, <2>2 DEF Sendable, Detected
<1>4. CASE ~ Detected(f) \/ Policy[f.type] = "allow"
  <2>1. Mediate(Policy, ctx, f) = f
    BY <1>4 DEF Mediate, Tokenizes
  <2> QED BY <1>1, <1>4, <2>1 DEF Sendable
<1>5. Detected(f) => Policy[f.type] \in PolicyActions
  BY PolicyAssumption DEF Detected
<1> QED BY <1>2, <1>3, <1>4, <1>5 DEF Tokenizes, PolicyActions

LEMMA MintedKeepsTokens ==
    ASSUME NEW ctx, NEW f, "entries" \in DOMAIN ctx,
           \A m \in ctx.entries : m.token.kind = "token", TokenFor(ctx, f).kind = "token"
    PROVE  /\ "entries" \in DOMAIN Minted(ctx, f)
           /\ \A m \in Minted(ctx, f).entries : m.token.kind = "token"
<1>1. CASE Existing(ctx, f) # {}
  BY <1>1 DEF Minted
<1>2. CASE Existing(ctx, f) = {}
  <2>1. /\ "entries" \in DOMAIN Minted(ctx, f)
        /\ Minted(ctx, f).entries =
              ctx.entries \cup {[token |-> TokenFor(ctx, f), value |-> f.value]}
    BY <1>2 DEF Minted
  <2> QED BY <2>1
<1> QED BY <1>1, <1>2

LEMMA SanitizeFragmentKeeps ==
    ASSUME GInv, NEW q \in Requests, SanitizeFragment(q) PROVE GInv'
<1> DEFINE f == Body[q][Len(text[q]) + 1]
           out == Mediate(Policy, context[q], f)
<1>1. /\ Local(q) /\ pc[q] = "sanitize" /\ pc' = pc
      /\ text' = [text EXCEPT ![q] = Append(@, out)]
      /\ context' = IF Tokenizes(Policy, f) THEN [context EXCEPT ![q] = Minted(@, f)] ELSE context
      /\ Len(text[q]) < Len(Body[q])
  BY DEF SanitizeFragment, GInv
<1>2. /\ text[q] \in Seq(Fragments(text[q])) /\ BlockedTypes(Body[q]) = {}
      /\ \A m \in context[q].entries : m.token.kind = "token"
      /\ \A g \in Fragments(text[q]) : Sendable(g)
  BY <1>1 DEF Local, PromptInv
<1>3. Detected(f) => Policy[f.type] # "block"
  <2>1. Len(text[q]) + 1 \in DOMAIN Body[q]
    <3>1. Len(text[q]) \in Nat
      BY <1>2, LenProperties
    <3>2. Len(Body[q]) \in Nat /\ DOMAIN Body[q] = 1 .. Len(Body[q])
      BY BodyAssumption, LenProperties
    <3> QED BY <1>1, <3>1, <3>2
  <2>2. Detected(f) => f.type \in DetectedTypes(Body[q])
    BY <2>1 DEF DetectedTypes
  <2> QED BY <1>2, <2>2 DEF BlockedTypes
<1>4. TokenFor(context[q], f).kind = "token" /\ Sendable(out)
  BY <1>2, <1>3, MediatedIsSendable
<1>5. text'[q] = Append(text[q], out)
  BY <1>1 DEF GInv, Shape
<1>6. text'[q] \in Seq(Fragments(text'[q])) /\ \A g \in Fragments(text'[q]) : Sendable(g)
  <2> DEFINE old == Fragments(text[q])
  <2>1. text[q] \in Seq(old \cup {out})
    BY <1>2
  <2>2. /\ text'[q] \in Seq(old \cup {out}) /\ Len(text'[q]) = Len(text[q]) + 1
        /\ text'[q][Len(text[q]) + 1] = out
        /\ \A i \in 1 .. Len(text[q]) : text'[q][i] = text[q][i]
    BY <1>5, <2>1, AppendProperties
  <2>3. /\ Len(text[q]) \in Nat /\ DOMAIN text[q] = 1 .. Len(text[q])
        /\ DOMAIN text'[q] = 1 .. (Len(text[q]) + 1)
    BY <2>1, <2>2, LenProperties
  <2>4. \A g \in Fragments(text'[q]) : g \in old \/ g = out
    BY <2>2, <2>3 DEF Fragments
  <2>5. text'[q] \in Seq(Fragments(text'[q]))
    <3>1. \A i \in 1 .. Len(text'[q]) : text'[q][i] \in Fragments(text'[q])
      BY <2>2, <2>3 DEF Fragments
    <3> QED BY <2>2, <3>1, IsASeq, LenProperties
  <2> QED BY <1>2, <1>4, <2>4, <2>5
<1>7. /\ context' = [r \in Requests |-> context'[r]]
      /\ context'[q] = context[q] \/ context'[q] = Minted(context[q], f)
      /\ \A r \in Requests \ {q} : context'[r] = context[r]
  BY <1>1 DEF GInv, Shape
<1>8. /\ "entries" \in DOMAIN context'[q]
      /\ \A m \in context'[q].entries : m.token.kind = "token"
  <2>1. "entries" \in DOMAIN context[q]
    BY DEF GInv, Shape
  <2>2. /\ "entries" \in DOMAIN Minted(context[q], f)
        /\ \A m \in Minted(context[q], f).entries : m.token.kind = "token"
    BY <1>2, <1>4, <2>1, MintedKeepsTokens
  <2> QED BY <1>2, <1>7, <2>1, <2>2
<1>9. Shape'
  <2>1. text' = [r \in Requests |-> text'[r]]
    BY <1>1 DEF GInv, Shape
  <2>2. \A r \in Requests : "entries" \in DOMAIN context'[r]
    BY <1>7, <1>8 DEF GInv, Shape
  <2> QED BY <1>1, <1>7, <2>1, <2>2 DEF SanitizeFragment, GInv, Shape
<1>10. Others(q)
  BY <1>1, <1>7 DEF SanitizeFragment, GInv, Shape, Others
<1>11. ContextInv(q)' /\ RecordInv(q)'
  BY <1>1 DEF SanitizeFragment, Local, ContextInv, RecordInv
<1>12. PromptInv(q)'
  BY <1>1, <1>6, <1>8 DEF SanitizeFragment, Local, PromptInv
<1> QED BY <1>9, <1>10, <1>11, <1>12, OneRequest DEF Local

LEMMA CallProviderKeeps ==
    ASSUME GInv, NEW q \in Requests, CallProvider(q) PROVE GInv'
<1>1. /\ Local(q) /\ pc[q] = "sanitize" /\ pc'[q] = "await" /\ prompt'[q] = text[q]
      /\ BlockedTypes(Body[q]) = {} /\ records[q] = << >> /\ response[q] = NoResponse
  BY DEF CallProvider, Goto, GInv, Shape, Local, RecordInv, PromptInv
<1>2. Shape'
  <2>1. pc' \in [Requests -> Labels]
    BY DEF CallProvider, Goto, GInv, Shape, Labels
  <2>2. prompt' = [r \in Requests |-> prompt'[r]]
    BY DEF CallProvider, GInv, Shape
  <2> QED BY <2>1, <2>2 DEF CallProvider, GInv, Shape
<1>3. Others(q)
  BY DEF CallProvider, Goto, GInv, Shape, Others
<1>4. ContextInv(q)' /\ RecordInv(q)'
  BY <1>1 DEF CallProvider, Local, ContextInv, RecordInv
<1>5. PromptInv(q)'
  <2>1. NoResponse.code \notin Refusals
    BY DEF NoResponse, Refusals
  <2> QED BY <1>1, <2>1 DEF CallProvider, Local, PromptInv
<1> QED BY <1>2, <1>3, <1>4, <1>5, OneRequest DEF Local

\* What a step changes if it only works on the reply of q.
TextOnly(q) ==
    /\ text' = [r \in Requests |-> text'[r]]
    /\ \A r \in Requests \ {q} : text'[r] = text[r]
    /\ UNCHANGED <<context, prompt, records, response>>

\* From the provider's answer to the seal only the text of the reply changes.
LEMMA ReplyStepKeeps ==
    ASSUME GInv, NEW q \in Requests, pc[q] \in {"await", "received"},
           Goto(q, "received") \/ Goto(q, "seal"), TextOnly(q)
    PROVE  GInv'
<1>1. Local(q) /\ pc'[q] \in {"received", "seal"}
  BY DEF Goto, GInv, Shape
<1>2. Shape'
  <2>1. pc' \in [Requests -> Labels]
    BY DEF Goto, GInv, Shape, Labels
  <2> QED BY <2>1 DEF TextOnly, GInv, Shape
<1>3. Others(q)
  BY DEF Goto, TextOnly, GInv, Shape, Others
<1>4. ContextInv(q)' /\ RecordInv(q)' /\ PromptInv(q)'
  BY <1>1 DEF TextOnly, Local, ContextInv, RecordInv, PromptInv
<1> QED BY <1>2, <1>3, <1>4, OneRequest DEF Local

LEMMA SealCycleKeeps ==
    ASSUME GInv, NEW q \in Requests, SealCycle(q) PROVE GInv'
<1>1. PICK result \in AppendResults :
          /\ AppendRecord(q, "chat_completion", 200, result)
          /\ CASE result = "ok"     -> Goto(q, "restore") /\ UNCHANGED response
               [] result = "raised" -> Respond(q, Unhandled)
               [] result \in {"write_error", "late_error"} -> Respond(q, AuditWriteError)
  BY DEF SealCycle
<1>2. Local(q) /\ pc[q] = "seal" /\ records[q] = << >> /\ response[q] = NoResponse
  BY DEF SealCycle, GInv, Local, RecordInv
<1>3. result \in {"ok", "write_error", "late_error", "raised"}
  BY AppendAssumption
<1>4. Recorded(result) => records'[q] = <<Sealed>>
  BY <1>1, <1>2 DEF AppendRecord, GInv, Shape, Sealed
<1>5. ~ Recorded(result) => records'[q] = << >>
  BY <1>1, <1>2 DEF AppendRecord
<1>6. /\ result = "ok" => pc'[q] = "restore" /\ response'[q] = NoResponse
      /\ result = "raised" => pc'[q] = "finish" /\ response'[q] = Unhandled
      /\ result \in {"write_error", "late_error"} =>
            pc'[q] = "finish" /\ response'[q] = AuditWriteError
  BY <1>1, <1>2 DEF Goto, Respond, GInv, Shape
<1>7. Shape'
  <2>1. pc' \in [Requests -> Labels]
    BY <1>1, <1>3 DEF Goto, Respond, GInv, Shape, Labels
  <2>2. records' = [r \in Requests |-> records'[r]]
    BY <1>1 DEF AppendRecord, GInv, Shape
  <2>3. response' = [r \in Requests |-> response'[r]]
    BY <1>1, <1>3 DEF Respond, GInv, Shape
  <2> QED BY <2>1, <2>2, <2>3 DEF SealCycle, GInv, Shape
<1>8. Others(q)
  BY <1>1, <1>3 DEF SealCycle, AppendRecord, Goto, Respond, GInv, Shape, Others
<1>9. /\ NoResponse.status # 200 /\ AuditWriteError.status # 200 /\ Unhandled.status # 200
      /\ {NoResponse.code, AuditWriteError.code, Unhandled.code} \cap Refusals = {}
  BY DEF NoResponse, AuditWriteError, Unhandled, Error, Refusals
<1>10. ContextInv(q)' /\ RecordInv(q)'
  <2>1. CASE result = "ok"
    BY <1>4, <1>6, <1>9, <2>1 DEF Recorded, ContextInv, RecordInv
  <2>2. CASE result \in {"raised", "write_error"}
    BY <1>5, <1>6, <1>9, <2>2 DEF Recorded, ContextInv, RecordInv
  <2>3. CASE result = "late_error"
    BY <1>4, <1>6, <1>9, <2>3 DEF Recorded, ContextInv, RecordInv, Sealed
  <2> QED BY <1>3, <2>1, <2>2, <2>3
<1>11. PromptInv(q)'
  <2>1. \A i \in DOMAIN records'[q] : records'[q][i].event \notin Refusals
    BY <1>4, <1>5 DEF Sealed, Refusals
  <2>2. pc'[q] \in {"restore", "finish"} /\ response'[q].code \notin Refusals
    BY <1>3, <1>6, <1>9
  <2> QED BY <1>2, <2>1, <2>2 DEF SealCycle, Local, PromptInv
<1> QED BY <1>7, <1>8, <1>10, <1>11, OneRequest DEF Local

\* A sealed cycle is answered, or its answer cannot be rendered.
LEMMA AnswerKeeps ==
    ASSUME GInv, NEW q \in Requests, NEW answer, pc[q] = "restore", Respond(q, answer),
           answer.code \notin Refusals,
           answer.status = 200 \/ (EnvelopeMayFail /\ answer = Unhandled),
           UNCHANGED <<context, text, prompt, records>>
    PROVE  GInv'
<1>1. Local(q) /\ records[q] = <<Sealed>> /\ records[q][1] = Sealed
  BY DEF GInv, Local, RecordInv
<1>2. pc'[q] = "finish" /\ response'[q] = answer
  BY DEF Respond, Goto, GInv, Shape
<1>3. Shape'
  <2>1. pc' \in [Requests -> Labels]
    BY DEF Respond, Goto, GInv, Shape, Labels
  <2>2. response' = [r \in Requests |-> response'[r]]
    BY DEF Respond, GInv, Shape
  <2> QED BY <2>1, <2>2 DEF GInv, Shape
<1>4. Others(q)
  BY DEF Respond, Goto, GInv, Shape, Others
<1>5. ContextInv(q)' /\ RecordInv(q)'
  BY <1>1, <1>2 DEF ContextInv, RecordInv, Sealed
<1>6. PromptInv(q)'
  BY <1>1, <1>2 DEF Local, PromptInv
<1> QED BY <1>3, <1>4, <1>5, <1>6, OneRequest DEF Local

\* What ReturnReply answers is a 200.
LEMMA AnswerOfReturn ==
    ASSUME NEW q \in Requests, ReturnReply(q)
    PROVE  \E answer : /\ Respond(q, answer)
                       /\ answer.status = 200 /\ answer.code \notin Refusals
<1> DEFINE ok == [status |-> 200, code |-> "ok",
                  content |-> IF q \in RehydrateFor
                                THEN Rehydrate(context[q], text[q])
                                ELSE text[q]]
<1>1. Respond(q, ok)
  BY DEF ReturnReply
<1>2. ok.status = 200 /\ ok.code \notin Refusals
  BY DEF Refusals
<1> HIDE DEF ok
<1> QED BY <1>1, <1>2

LEMMA ClearContextKeeps ==
    ASSUME GInv, NEW q \in Requests, ClearContext(q) PROVE GInv'
<1>1. /\ Local(q) /\ pc[q] = "finish" /\ pc'[q] = "done"
      /\ context'[q] = Cleared(context[q])
  BY DEF ClearContext, Goto, GInv, Shape
<1>2. /\ "entries" \in DOMAIN context'[q] /\ context'[q].entries = {}
      /\ context'[q] = Cleared(context'[q])
  BY <1>1 DEF Cleared, NewContext
<1>3. Shape'
  <2>1. pc' \in [Requests -> Labels]
    BY DEF ClearContext, Goto, GInv, Shape, Labels
  <2>2. /\ context' = [r \in Requests |-> context'[r]]
        /\ \A r \in Requests : "entries" \in DOMAIN context'[r]
    BY <1>2 DEF ClearContext, GInv, Shape
  <2> QED BY <2>1, <2>2 DEF ClearContext, GInv, Shape
<1>4. Others(q)
  BY DEF ClearContext, Goto, GInv, Shape, Others
<1>5. ContextInv(q)'
  BY <1>2 DEF ContextInv
<1>6. RecordInv(q)' /\ PromptInv(q)'
  BY <1>1, <1>2 DEF ClearContext, Local, RecordInv, PromptInv
<1> QED BY <1>3, <1>4, <1>5, <1>6, OneRequest DEF Local

LEMMA CrashKeeps ==
    ASSUME GInv, Crash PROVE GInv'
<1>1. ASSUME NEW r \in Requests
      PROVE  /\ context'[r] = Cleared(context[r]) /\ Local(r)
             /\ pc'[r] = IF pc[r] \in {"new", "done"} THEN pc[r] ELSE "lost"
  BY DEF Crash, GInv
<1>2. ASSUME NEW r \in Requests
      PROVE  /\ "entries" \in DOMAIN context'[r] /\ context'[r].entries = {}
             /\ context'[r] = Cleared(context'[r])
  <2>1. context'[r] = Cleared(context[r])
    BY <1>1, <1>2
  <2> QED BY <2>1 DEF Cleared, NewContext
<1>3. Shape'
  <2>1. pc' \in [Requests -> Labels]
    BY DEF Crash, GInv, Shape, Labels
  <2>2. context' = [r \in Requests |-> context'[r]]
    BY DEF Crash
  <2> QED BY <1>2, <2>1, <2>2 DEF Crash, GInv, Shape
<1>4. ASSUME NEW r \in Requests PROVE Local(r)'
  <2>1. ContextInv(r)'
    BY <1>2 DEF ContextInv
  <2>2. RecordInv(r)' /\ PromptInv(r)'
    BY <1>1, <1>2 DEF Crash, Local, RecordInv, PromptInv
  <2> QED BY <2>1, <2>2 DEF Local
<1> QED BY <1>3, <1>4 DEF GInv

-----------------------------------------------------------------------------

\* The invariant is inductive.
LEMMA NextGInv == GInv /\ [Next]_vars => GInv'
<1> SUFFICES ASSUME GInv, [Next]_vars PROVE GInv'
  OBVIOUS
<1>1. CASE UNCHANGED vars
  BY <1>1 DEF vars, GInv, Shape, Local, ContextInv, RecordInv, PromptInv
<1>2. CASE Crash
  BY <1>2, CrashKeeps
<1>3. ASSUME NEW r \in Requests, RejectInvalid(r) \/ Handle(r) \/ Cancelled(r) PROVE GInv'
  <2>1. ASSUME NEW status, NEW code
        PROVE  Error(status, code).status = status /\ Error(status, code).code = code
    BY DEF Error
  <2>2. Unhandled.status # 200 /\ Unhandled.code \notin Refusals
    BY DEF Unhandled, Error, Refusals
  <2>3. CASE RejectInvalid(r)
    BY <2>1, <2>3, RespondKeeps DEF RejectInvalid, Refusals
  <2>4. CASE CreateContext(r)
    BY <2>4, CreateContextKeeps
  <2>5. CASE DetectionFails(r)
    BY <2>1, <2>5, FailWithKeeps DEF DetectionFails
  <2>6. CASE Block(r)
    BY <2>1, <2>6, FailWithKeeps DEF Block
  <2>7. CASE StartSanitizing(r)
    BY <2>7, StartSanitizingKeeps
  <2>8. CASE SanitizeFragment(r)
    BY <2>8, SanitizeFragmentKeeps
  <2>9. CASE SanitizingFails(r)
    BY <2>1, <2>9, FailWithKeeps DEF SanitizingFails
  <2>10. CASE CallProvider(r)
    BY <2>10, CallProviderKeeps
  <2>11. CASE ProviderAnswers(r)
    <3>1. TextOnly(r)
      BY <2>11 DEF ProviderAnswers, TextOnly, GInv, Shape
    <3> QED BY <2>11, <3>1, ReplyStepKeeps DEF ProviderAnswers
  <2>12. CASE ProviderFails(r)
    <3>1. PICK answer \in {Error(504, "provider_timeout"), Error(502, "provider_auth"),
                           Error(502, "provider_response")} :
              FailWith(r, "provider_error", answer)
      BY <2>12 DEF ProviderFails
    <3>2. answer.status # 200 /\ "provider_error" \notin Refusals /\ answer.code \notin Refusals
      BY <2>1 DEF Refusals
    <3> QED BY <2>12, <3>1, <3>2, FailWithKeeps DEF ProviderFails
  <2>13. CASE HashFails(r)
    BY <2>2, <2>13, RespondKeeps DEF HashFails
  <2>14. CASE ScanReply(r)
    <3>1. TextOnly(r)
      <4>1. CASE ScanEnabled
        BY <2>14, <4>1 DEF ScanReply, TextOnly, GInv, Shape
      <4>2. CASE ~ ScanEnabled
        BY <2>14, <4>2 DEF ScanReply, TextOnly, GInv, Shape
      <4> QED BY <4>1, <4>2
    <3> QED BY <2>14, <3>1, ReplyStepKeeps DEF ScanReply
  <2>15. CASE ScanFails(r)
    <3>1. "response_scan_failure" \notin Refusals
      BY DEF Refusals
    <3> QED BY <2>1, <2>15, <3>1, FailWithKeeps DEF ScanFails
  <2>16. CASE RedactAllFails(r)
    BY <2>2, <2>16, RespondKeeps DEF RedactAllFails
  <2>17. CASE SealCycle(r)
    BY <2>17, SealCycleKeeps
  <2>18. CASE ReturnReply(r)
    <3>1. PICK answer : /\ Respond(r, answer)
                        /\ answer.status = 200 /\ answer.code \notin Refusals
      BY <2>18, AnswerOfReturn
    <3>2. pc[r] = "restore" /\ UNCHANGED <<context, text, prompt, records>>
      BY <2>18 DEF ReturnReply
    <3> QED BY <3>1, <3>2, AnswerKeeps
  <2>19. CASE RenderFails(r)
    BY <2>2, <2>19, AnswerKeeps DEF RenderFails
  <2>20. CASE ClearContext(r)
    BY <2>20, ClearContextKeeps
  <2>21. CASE Cancelled(r)
    BY <2>1, <2>21, RespondKeeps DEF Cancelled, Refusals
  <2> QED BY <1>3, <2>3, <2>4, <2>5, <2>6, <2>7, <2>8, <2>9, <2>10, <2>11, <2>12, <2>13,
             <2>14, <2>15, <2>16, <2>17, <2>18, <2>19, <2>20, <2>21 DEF Handle
<1> QED BY <1>1, <1>2, <1>3 DEF Next

\* Nothing is assumed of the order in which the handlers take their steps, so
\* the invariant holds for an event loop, for threads and for worker processes.
THEOREM GatewayInvariance == Spec => []GInv
<1> QED BY InitGInv, NextGInv, PTL DEF Spec

\* chat_completions sends a provider only what sanitizing left of the messages:
\* no value the policy mediates, and nothing of a request that is blocked or
\* whose detection or sanitizing failed, whatever else fails afterwards.
THEOREM NothingMediatedLeaves == Spec => []FailClosed
<1> QED BY GatewayInvariance, Consequences, PTL

\* A 200 has its chat_completion record in the log before it is answered, and
\* a record never contradicts the answer but in the two cases AuditTrail names.
THEOREM RecordsMatchAnswers == Spec => []AuditTrail
<1> QED BY GatewayInvariance, Consequences, PTL

\* context_cleanup clears the mapping of every request that ends, and a crash
\* leaves none behind.
THEOREM MappingsEndWithRequests == Spec => []ContextsCleared
<1> QED BY GatewayInvariance, Consequences, PTL

-----------------------------------------------------------------------------
(* "Every request outcome appends exactly one record": what it takes.      *)

\* The log takes every record, every reply can be encoded and the redacted copy
\* of it is not stored: no exception is raised outside a handler's try.
NothingUncaught ==
    AppendResults = {"ok"} /\ Unencodable = {} /\ ~ StoreRedacted /\ ~ EnvelopeMayFail

\* The outcomes of which no record is expected.
Unrecorded == {"request_invalid", "cancelled"}

\* A handler that came to its end recorded its outcome.
OutcomeInv(r) ==
    pc[r] \in {"finish", "done"} => response[r].code \in Unrecorded \/ records[r] # << >>

OutcomesInv == GInv /\ \A r \in Requests : OutcomeInv(r)

LEMMA OutcomeConsequences ==
    ASSUME NothingUncaught PROVE OutcomesInv => OneRecordPerOutcome
<1> SUFFICES ASSUME OutcomesInv, NEW r \in Requests, pc[r] = "done",
                    response[r].code \notin Unrecorded
             PROVE  Len(records[r]) = 1 /\ records[r][1].status = response[r].status
  BY DEF OneRecordPerOutcome, Unrecorded
<1>1. RecordInv(r) /\ records[r] # << >>
  BY DEF OutcomesInv, OutcomeInv, GInv, Local
<1>2. PICK entry : records[r] = <<entry>>
  BY <1>1 DEF RecordInv
<1>3. records[r][1].status = response[r].status
  BY <1>1 DEF RecordInv, NothingUncaught
<1> QED BY <1>2, <1>3

\* It is enough to look at the request whose handler took the step.
LEMMA OneOutcome ==
    ASSUME OutcomesInv, NEW q \in Requests, GInv', Others(q), OutcomeInv(q)'
    PROVE  OutcomesInv'
  BY DEF OutcomesInv, OutcomeInv, Others

\* A step that takes no handler to its end.
LEMMA NoOutcome ==
    ASSUME OutcomesInv, NEW q \in Requests, GInv', Others(q),
           pc'[q] \notin {"finish", "done"}
    PROVE  OutcomesInv'
  BY OneOutcome DEF OutcomeInv

\* An error path whose record is written.
LEMMA FailWithOutcome ==
    ASSUME NothingUncaught, OutcomesInv, NEW q \in Requests, GInv', NEW event, NEW answer,
           pc[q] \in {"new", "decide", "sanitize", "await", "received"},
           FailWith(q, event, answer), UNCHANGED <<context, text, prompt>>
    PROVE  OutcomesInv'
<1>1. /\ AppendRecord(q, event, answer.status, "ok")
      /\ Respond(q, answer)
  BY DEF FailWith, NothingUncaught
<1>2. Others(q)
  BY <1>1 DEF AppendRecord, Respond, Goto, OutcomesInv, GInv, Shape, Others
<1>3. records[q] = << >>
  BY DEF OutcomesInv, GInv, Local, RecordInv
<1>4. records'[q] = <<[event |-> event, status |-> answer.status]>>
  BY <1>1, <1>3 DEF AppendRecord, Recorded, OutcomesInv, GInv, Shape
<1>5. records'[q] # << >>
  BY <1>4
<1> QED BY <1>2, <1>5, OneOutcome DEF OutcomeInv

LEMMA NextOutcomes ==
    ASSUME NothingUncaught PROVE OutcomesInv /\ [Next]_vars => OutcomesInv'
<1> SUFFICES ASSUME OutcomesInv, [Next]_vars PROVE OutcomesInv'
  OBVIOUS
<1>1. GInv'
  BY NextGInv DEF OutcomesInv
<1>2. CASE UNCHANGED vars
  BY <1>1, <1>2 DEF vars, OutcomesInv, OutcomeInv
<1>3. CASE Crash
  BY <1>1, <1>3 DEF Crash, OutcomesInv, OutcomeInv
<1>4. ASSUME NEW r \in Requests, RejectInvalid(r) \/ Handle(r) \/ Cancelled(r)
      PROVE  OutcomesInv'
  <2>1. ASSUME NEW code, code \in Unrecorded,
               Respond(r, Error(0, code)) \/ Respond(r, Error(422, code)),
               UNCHANGED <<context, text, prompt, records>>
        PROVE  OutcomesInv'
    <3>1. Others(r) /\ response'[r].code = code
      BY <2>1 DEF Respond, Goto, Error, OutcomesInv, GInv, Shape, Others
    <3> QED BY <1>1, <2>1, <3>1, OneOutcome DEF OutcomeInv
  <2>2. CASE RejectInvalid(r)
    BY <2>1, <2>2 DEF RejectInvalid, Unrecorded
  <2>3. CASE Cancelled(r)
    BY <2>1, <2>3 DEF Cancelled, Unrecorded
  <2>4. CASE DetectionFails(r)
    BY <1>1, <2>4, FailWithOutcome DEF DetectionFails
  <2>5. CASE Block(r)
    BY <1>1, <2>5, FailWithOutcome DEF Block
  <2>6. CASE SanitizingFails(r)
    BY <1>1, <2>6, FailWithOutcome DEF SanitizingFails
  <2>7. CASE ProviderFails(r)
    <3>1. PICK answer : FailWith(r, "provider_error", answer)
      BY <2>7 DEF ProviderFails
    <3> QED BY <1>1, <2>7, <3>1, FailWithOutcome DEF ProviderFails
  <2>8. CASE ScanFails(r)
    BY <1>1, <2>8, FailWithOutcome DEF ScanFails
  <2>9. CASE HashFails(r) \/ RedactAllFails(r) \/ RenderFails(r)
    BY <2>9 DEF HashFails, Encodable, RedactAllFails, RenderFails, NothingUncaught
  <2>10. CASE CreateContext(r)
    <3>1. Others(r) /\ pc'[r] = "decide"
      BY <2>10 DEF CreateContext, Goto, OutcomesInv, GInv, Shape, Others
    <3> QED BY <1>1, <3>1, NoOutcome
  <2>11. CASE StartSanitizing(r)
    <3>1. Others(r) /\ pc'[r] = "sanitize"
      BY <2>11 DEF StartSanitizing, Goto, OutcomesInv, GInv, Shape, Others
    <3> QED BY <1>1, <3>1, NoOutcome
  <2>12. CASE SanitizeFragment(r)
    <3>1. Others(r) /\ pc'[r] = "sanitize"
      BY <2>12 DEF SanitizeFragment, OutcomesInv, GInv, Shape, Others
    <3> QED BY <1>1, <3>1, NoOutcome
  <2>13. CASE CallProvider(r)
    <3>1. Others(r) /\ pc'[r] = "await"
      BY <2>13 DEF CallProvider, Goto, OutcomesInv, GInv, Shape, Others
    <3> QED BY <1>1, <3>1, NoOutcome
  <2>14. CASE ProviderAnswers(r)
    <3>1. Others(r) /\ pc'[r] = "received"
      BY <2>14 DEF ProviderAnswers, Goto, OutcomesInv, GInv, Shape, Others
    <3> QED BY <1>1, <3>1, NoOutcome
  <2>15. CASE ScanReply(r)
    <3>1. Others(r) /\ pc'[r] = "seal"
      <4>1. CASE ScanEnabled
        BY <2>15, <4>1 DEF ScanReply, Goto, OutcomesInv, GInv, Shape, Others
      <4>2. CASE ~ ScanEnabled
        BY <2>15, <4>2 DEF ScanReply, Goto, OutcomesInv, GInv, Shape, Others
      <4> QED BY <4>1, <4>2
    <3> QED BY <1>1, <3>1, NoOutcome
  <2>16. CASE SealCycle(r)
    <3>1. /\ AppendRecord(r, "chat_completion", 200, "ok") /\ Goto(r, "restore")
          /\ UNCHANGED response
      BY <2>16 DEF SealCycle, NothingUncaught
    <3>2. Others(r) /\ pc'[r] = "restore"
      BY <2>16, <3>1 DEF SealCycle, AppendRecord, Goto, OutcomesInv, GInv, Shape, Others
    <3> QED BY <1>1, <3>2, NoOutcome
  <2>17. CASE ReturnReply(r)
    <3>1. /\ Others(r) /\ records'[r] = <<Sealed>>
      BY <2>17 DEF ReturnReply, Respond, Goto, OutcomesInv, GInv, Shape, Others, Local, RecordInv
    <3> QED BY <1>1, <3>1, OneOutcome DEF OutcomeInv
  <2>18. CASE ClearContext(r)
    <3>1. Others(r) /\ records'[r] = records[r] /\ response'[r] = response[r] /\ pc[r] = "finish"
      BY <2>18 DEF ClearContext, Goto, OutcomesInv, GInv, Shape, Others
    <3> QED BY <1>1, <3>1, OneOutcome DEF OutcomesInv, OutcomeInv
  <2> QED BY <1>4, <2>2, <2>3, <2>4, <2>5, <2>6, <2>7, <2>8, <2>9, <2>10, <2>11, <2>12, <2>13,
             <2>14, <2>15, <2>16, <2>17, <2>18 DEF Handle
<1> QED BY <1>2, <1>3, <1>4 DEF Next

\* "Every request outcome appends exactly one record" (docs/ARCHITECTURE.md) holds
\* of every request that reaches the handler and is not cancelled, when none of
\* the four exceptions nothing catches is raised; Gateway_unencodable shows that
\* one of them is enough to break it.
THEOREM OutcomesAreRecorded ==
    ASSUME NothingUncaught PROVE Spec => []OneRecordPerOutcome
<1>1. Init => OutcomesInv
  BY InitGInv DEF Init, OutcomesInv, OutcomeInv
<1> QED BY <1>1, NextOutcomes, OutcomeConsequences, PTL DEF Spec

-----------------------------------------------------------------------------
(* Gateway implements the safety part of GatewayContract: what a client    *)
(* can read from its status and an auditor from the record is true,        *)
(* whatever fails.  (That every request is answered is liveness, and left  *)
(* to TLC.)                                                                *)

\* The state of the contract, as the refinement mapping defines it.
PhaseOf(r) ==
    CASE pc[r] = "done" -> "answered"
      [] pc[r] \in {"new", "lost"} -> pc[r]
      [] pc[r] \notin {"new", "done", "lost"} -> "handling"
LoggedOf(r) == IF records[r] = << >> THEN "none" ELSE KindOf(records[r][1].event)
StatusOf(r) == IF pc[r] = "done" THEN response[r].status ELSE 0

Phase     == [r \in Requests |-> PhaseOf(r)]
Contacted == [r \in Requests |-> prompt[r] # << >>]
Logged    == [r \in Requests |-> LoggedOf(r)]
Status    == [r \in Requests |-> StatusOf(r)]

Handling == {"decide", "sanitize", "await", "received", "seal", "restore", "finish"}
Sent     == {"await", "received", "seal", "restore"}

\* What the status of an answer says is true of the request.
Truthful(r) ==
    LET s == response[r].status
    IN  \/ s \in {200, 500}
        \/ s \in {400, 422} /\ prompt[r] = << >>
        \/ s \in {502, 504} /\ prompt[r] # << >> /\ LoggedOf(r) # "sealed"
        \/ s = 0 /\ prompt[r] # << >> /\ LoggedOf(r) = "none"

\* Nothing is logged before the handler comes to an end; the provider has
\* something from the moment it is awaited; and answers are truthful.
Promise(r) ==
    /\ pc[r] \in Sent => prompt[r] # << >>
    /\ pc[r] = "finish" => Truthful(r)

CInv == GInv /\ \A r \in Requests : Promise(r)

\* What is to be shown of a step: it keeps the promises, and the contract
\* allows it.
Kept == (\A r \in Requests : Promise(r)') /\ [Contract!Next]_(Contract!contractVars)

-----------------------------------------------------------------------------
(* A step of one handler is at most a step of the contract for it.         *)

LEMMA Mapped ==
    ASSUME NEW q \in Requests, Others(q)
    PROVE  /\ Phase' = [Phase EXCEPT ![q] = PhaseOf(q)']
           /\ Contacted' = [Contacted EXCEPT ![q] = (prompt[q] # << >>)']
           /\ Logged' = [Logged EXCEPT ![q] = LoggedOf(q)']
           /\ Status' = [Status EXCEPT ![q] = StatusOf(q)']
<1>1. \A r \in Requests \ {q} :
          /\ PhaseOf(r)' = PhaseOf(r) /\ LoggedOf(r)' = LoggedOf(r)
          /\ StatusOf(r)' = StatusOf(r) /\ prompt'[r] = prompt[r]
  BY DEF Others, PhaseOf, LoggedOf, StatusOf
<1>2. Phase' = [Phase EXCEPT ![q] = PhaseOf(q)']
  BY <1>1 DEF Phase
<1>3. Contacted' = [Contacted EXCEPT ![q] = (prompt[q] # << >>)']
  BY <1>1 DEF Contacted
<1>4. Logged' = [Logged EXCEPT ![q] = LoggedOf(q)']
  BY <1>1 DEF Logged
<1>5. Status' = [Status EXCEPT ![q] = StatusOf(q)']
  BY <1>1 DEF Status
<1> QED BY <1>2, <1>3, <1>4, <1>5

\* While it is handled, a request has no status yet.
LEMMA HandlingPhase ==
    ASSUME NEW q \in Requests, pc[q] \in Handling
    PROVE  PhaseOf(q) = "handling" /\ StatusOf(q) = 0
BY DEF Handling, PhaseOf, StatusOf

LEMMA HandlingPhaseNext ==
    ASSUME NEW q \in Requests, pc'[q] \in Handling
    PROVE  PhaseOf(q)' = "handling" /\ StatusOf(q)' = 0
BY DEF Handling, PhaseOf, StatusOf

\* Steps the contract does not see.
LEMMA SilentStep ==
    ASSUME NEW q \in Requests, Others(q), pc[q] \in Handling, pc'[q] \in Handling,
           (prompt'[q] # << >>) = (prompt[q] # << >>), records'[q] = records[q]
    PROVE  UNCHANGED Contract!contractVars
<1>1. /\ PhaseOf(q)' = PhaseOf(q) /\ StatusOf(q)' = StatusOf(q)
      /\ LoggedOf(q)' = LoggedOf(q)
  BY HandlingPhase, HandlingPhaseNext DEF LoggedOf
<1>2. Phase' = Phase
  BY <1>1, Mapped DEF Phase
<1>3. Contacted' = Contacted
  BY Mapped DEF Contacted
<1>4. Logged' = Logged
  BY <1>1, Mapped DEF Logged
<1>5. Status' = Status
  BY <1>1, Mapped DEF Status
<1> QED BY <1>2, <1>3, <1>4, <1>5
        DEF Contract!contractVars, Phase, PhaseOf, Contacted, Logged, LoggedOf, Status, StatusOf

\* A request enters the handler, and may at once be refused with a record.
LEMMA EnterStep ==
    ASSUME NEW q \in Requests, Others(q), pc[q] = "new", pc'[q] \in Handling,
           prompt[q] = << >>, prompt'[q] = << >>, LoggedOf(q) = "none",
           LoggedOf(q)' \in {"none", "refused"}
    PROVE  Contract!Next
<1>1. /\ PhaseOf(q) = "new" /\ PhaseOf(q)' = "handling"
      /\ StatusOf(q) = 0 /\ StatusOf(q)' = 0
  BY HandlingPhaseNext DEF PhaseOf, StatusOf
<1>2. Phase[q] = "new" /\ Phase' = [Phase EXCEPT ![q] = "handling"]
  BY <1>1, Mapped DEF Phase
<1>3. Contacted' = Contacted /\ ~ Contacted[q]
  BY Mapped DEF Contacted
<1>4. Status' = Status
  BY <1>1, Mapped DEF Status
<1>5. Logged[q] = "none" /\ Logged' = [Logged EXCEPT ![q] = LoggedOf(q)']
  BY Mapped DEF Logged
<1>6. CASE LoggedOf(q)' = "none"
  <2>1. Logged' = Logged
    BY <1>5, <1>6 DEF Logged
  <2>2. Contract!EnterOnly(q)
    BY <1>2, <1>3, <1>4, <2>1
       DEF Contract!EnterOnly, Contract!Enter, Phase, PhaseOf, Contacted, Logged, LoggedOf,
           Status, StatusOf
  <2> QED BY <2>2 DEF Contract!Next
<1>7. CASE LoggedOf(q)' = "refused"
  <2>1. Contract!Enter(q)
    BY <1>2, <1>3, <1>4
       DEF Contract!Enter, Phase, PhaseOf, Contacted, Status, StatusOf
  <2>2. ~ Contacted[q]
    BY DEF Contacted
  <2>3. Contract!Record(q)
    BY <1>5, <1>7, <2>2 DEF Contract!Record, Contacted, Logged, LoggedOf
  <2> QED BY <2>1, <2>3 DEF Contract!Next, Contract!EnterAndLog
<1> QED BY <1>6, <1>7

\* The record of a request that is being handled is written.
LEMMA LogStep ==
    ASSUME NEW q \in Requests, Others(q), pc[q] \in Handling, pc'[q] \in Handling,
           prompt'[q] = prompt[q], LoggedOf(q) = "none",
           LoggedOf(q)' \in IF prompt[q] # << >> THEN {"failed", "sealed"} ELSE {"refused"}
    PROVE  Contract!Next
<1>1. /\ PhaseOf(q) = "handling" /\ PhaseOf(q)' = "handling"
      /\ StatusOf(q) = 0 /\ StatusOf(q)' = 0
  BY HandlingPhase, HandlingPhaseNext
<1>2. Phase[q] = "handling" /\ Phase' = Phase
  BY <1>1, Mapped DEF Phase
<1>3. Contacted' = Contacted /\ (Contacted[q] <=> prompt[q] # << >>)
  BY Mapped DEF Contacted
<1>4. Status' = Status
  BY <1>1, Mapped DEF Status
<1>5. Logged[q] = "none" /\ Logged' = [Logged EXCEPT ![q] = LoggedOf(q)']
  BY Mapped DEF Logged
<1>6. Logged' \in {[Logged EXCEPT ![q] = what] :
                       what \in IF Contacted[q] THEN {"failed", "sealed"} ELSE {"refused"}}
  <2> DEFINE said == LoggedOf(q)'
  <2>1. said \in IF Contacted[q] THEN {"failed", "sealed"} ELSE {"refused"}
    BY <1>3
  <2>2. Logged' = [Logged EXCEPT ![q] = said]
    BY <1>5
  <2> HIDE DEF said
  <2> QED BY <2>1, <2>2
<1>7. Contract!Record(q)
  BY <1>5, <1>6 DEF Contract!Record, Contacted, Logged, LoggedOf
<1>8. Contract!Log(q)
  BY <1>2, <1>3, <1>4, <1>7
     DEF Contract!Log, Phase, PhaseOf, Contacted, Status, StatusOf
<1> QED BY <1>8 DEF Contract!Next

\* The provider is sent the prompt.
LEMMA ContactStep ==
    ASSUME NEW q \in Requests, Others(q), pc[q] \in Handling, pc'[q] \in Handling,
           prompt[q] = << >>, prompt'[q] # << >>, records[q] = << >>, records'[q] = << >>
    PROVE  Contract!Next
<1>1. /\ PhaseOf(q) = "handling" /\ PhaseOf(q)' = "handling"
      /\ StatusOf(q) = 0 /\ StatusOf(q)' = 0
      /\ LoggedOf(q) = "none" /\ LoggedOf(q)' = "none"
  BY HandlingPhase, HandlingPhaseNext DEF LoggedOf
<1>2. Phase[q] = "handling" /\ Phase' = Phase
  BY <1>1, Mapped DEF Phase
<1>3. ~ Contacted[q] /\ Contacted' = [Contacted EXCEPT ![q] = TRUE]
  BY Mapped DEF Contacted
<1>4. Status' = Status
  BY <1>1, Mapped DEF Status
<1>5. Logged[q] = "none" /\ Logged' = Logged
  BY <1>1, Mapped DEF Logged
<1>6. Contract!Contact(q)
  BY <1>2, <1>3, <1>4, <1>5
     DEF Contract!Contact, Phase, PhaseOf, Contacted, Logged, LoggedOf, Status, StatusOf
<1> QED BY <1>6 DEF Contract!Next

\* A truthful answer is one the contract allows.
LEMMA AnswerStep ==
    ASSUME NEW q \in Requests, Others(q), pc[q] = "finish", pc'[q] = "done",
           prompt'[q] = prompt[q], records'[q] = records[q], response'[q] = response[q],
           Truthful(q), response[q].status = 200 => LoggedOf(q) = "sealed"
    PROVE  Contract!Next
<1> DEFINE s == response[q].status
<1>1. /\ PhaseOf(q) = "handling" /\ PhaseOf(q)' = "answered"
      /\ StatusOf(q)' = s /\ LoggedOf(q)' = LoggedOf(q)
  BY DEF PhaseOf, StatusOf, LoggedOf
<1>2. Phase[q] = "handling" /\ Phase' = [Phase EXCEPT ![q] = "answered"]
  BY <1>1, Mapped DEF Phase
<1>3. Contacted' = Contacted /\ (Contacted[q] <=> prompt[q] # << >>)
  BY Mapped DEF Contacted
<1>4. Status' = [Status EXCEPT ![q] = s]
  BY <1>1, Mapped
<1>5. Logged' = Logged /\ Logged[q] = LoggedOf(q)
  BY <1>1, Mapped DEF Logged
<1>6. s \in {0, 200, 400, 422, 500, 502, 504}
  BY DEF Truthful
<1>7. Contract!Allowed(q, s)
  <2>1. \/ s = 200 /\ Logged[q] = "sealed"
        \/ s \in {400, 422} /\ ~ Contacted[q]
        \/ s \in {502, 504} /\ Contacted[q] /\ Logged[q] # "sealed"
        \/ s = 500
        \/ s = 0 /\ Contacted[q] /\ Logged[q] = "none"
    BY <1>3, <1>5 DEF Truthful
  <2> QED BY <2>1 DEF Contract!Allowed, Contacted, Logged, LoggedOf
<1>8. Contract!Answer(q)
  BY <1>2, <1>3, <1>4, <1>5, <1>6, <1>7
     DEF Contract!Answer, Phase, PhaseOf, Contacted, Logged, LoggedOf, Status, StatusOf
<1> QED BY <1>8 DEF Contract!Next

LEMMA DieStep ==
    ASSUME Crash PROVE Contract!Next
<1>1. /\ Phase' = [r \in Requests |-> IF Phase[r] = "handling" THEN "lost" ELSE Phase[r]]
      /\ Contacted' = Contacted /\ Logged' = Logged /\ Status' = Status
  <2>1. ASSUME NEW r \in Requests
        PROVE  /\ PhaseOf(r)' = IF PhaseOf(r) = "handling" THEN "lost" ELSE PhaseOf(r)
               /\ StatusOf(r)' = StatusOf(r) /\ LoggedOf(r)' = LoggedOf(r)
    BY DEF Crash, PhaseOf, StatusOf, LoggedOf
  <2> QED BY <2>1 DEF Crash, Phase, Contacted, Logged, Status
<1>2. Contract!Die
  BY <1>1 DEF Contract!Die, Phase, PhaseOf, Contacted, Logged, LoggedOf, Status, StatusOf
<1> QED BY <1>2 DEF Contract!Next

-----------------------------------------------------------------------------
(* The handler's steps.                                                    *)

LEMMA KeptBy ==
    ASSUME CInv, NEW q \in Requests, Others(q), Promise(q)',
           [Contract!Next]_(Contract!contractVars)
    PROVE  Kept
<1>1. ASSUME NEW r \in Requests \ {q} PROVE Promise(r)'
  BY DEF CInv, Others, Promise, Truthful, LoggedOf
<1> QED BY <1>1 DEF Kept

LEMMA QuietStepKept ==
    ASSUME CInv, NEW q \in Requests, Others(q), pc[q] \in Handling, pc'[q] \in Handling,
           prompt'[q] = prompt[q], records'[q] = records[q], Promise(q)'
    PROVE  Kept
BY SilentStep, KeptBy

\* A handler that ends with an error and, perhaps, the record of it.
LEMMA FailureKept ==
    ASSUME CInv, NEW q \in Requests, NEW event, NEW answer,
           pc[q] \in {"new", "decide", "sanitize", "await", "received"},
           FailWith(q, event, answer), UNCHANGED <<context, text, prompt>>,
           KindOf(event) = IF prompt[q] # << >> THEN "failed" ELSE "refused",
           \/ answer.status = 500
           \/ answer.status = 400 /\ prompt[q] = << >>
           \/ answer.status \in {502, 504} /\ prompt[q] # << >>
    PROVE  Kept
<1>1. PICK result \in AppendResults :
          /\ AppendRecord(q, event, answer.status, result)
          /\ Respond(q, IF result = "raised" THEN Unhandled ELSE answer)
  BY DEF FailWith
<1>2. /\ records[q] = << >> /\ LoggedOf(q) = "none"
      /\ pc[q] = "new" => prompt[q] = << >>
  BY DEF CInv, GInv, Local, RecordInv, PromptInv, LoggedOf
<1>3. pc'[q] = "finish" /\ response'[q] = IF result = "raised" THEN Unhandled ELSE answer
  BY <1>1 DEF Respond, Goto, CInv, GInv, Shape
<1>4. records'[q] = << >> \/ records'[q] = <<[event |-> event, status |-> answer.status]>>
  BY <1>1, <1>2 DEF AppendRecord, CInv, GInv, Shape
<1>5. Others(q)
  <2>1. \A r \in Requests \ {q} : pc'[r] = pc[r] /\ response'[r] = response[r]
    BY <1>1 DEF Respond, Goto, CInv, GInv, Shape
  <2>2. \A r \in Requests \ {q} : records'[r] = records[r]
    BY <1>1 DEF AppendRecord, CInv, GInv, Shape
  <2> QED BY <2>1, <2>2 DEF Others
<1>6. /\ records'[q] = << >> => LoggedOf(q)' = "none"
      /\ records'[q] # << >> => LoggedOf(q)' = KindOf(event)
  BY <1>4 DEF LoggedOf
<1>7. Promise(q)'
  <2>1. Unhandled.status = 500
    BY DEF Unhandled, Error
  <2>2. LoggedOf(q)' # "sealed"
    BY <1>6
  <2> QED BY <1>3, <2>1, <2>2 DEF Promise, Truthful, Sent
<1>8. CASE pc[q] = "new"
  <2>1. Contract!Next
    BY <1>2, <1>3, <1>5, <1>6, <1>8, EnterStep DEF Handling
  <2> QED BY <1>5, <1>7, <2>1, KeptBy
<1>9. CASE pc[q] # "new" /\ records'[q] = << >>
  BY <1>2, <1>3, <1>5, <1>7, <1>9, QuietStepKept DEF Handling
<1>10. CASE pc[q] # "new" /\ records'[q] # << >>
  <2>1. Contract!Next
    BY <1>2, <1>3, <1>5, <1>6, <1>10, LogStep DEF Handling
  <2> QED BY <1>5, <1>7, <2>1, KeptBy
<1> QED BY <1>8, <1>9, <1>10

\* A handler that ends without a record.
LEMMA ResponseKept ==
    ASSUME CInv, NEW q \in Requests, NEW answer, pc[q] \in Handling, Respond(q, answer),
           UNCHANGED <<context, text, prompt, records>>,
           \/ answer.status \in {200, 500}
           \/ answer.status = 0 /\ prompt[q] # << >> /\ records[q] = << >>
    PROVE  Kept
<1>1. pc'[q] = "finish" /\ response'[q] = answer
  BY DEF Respond, Goto, CInv, GInv, Shape
<1>2. Others(q)
  BY DEF Respond, Goto, CInv, GInv, Shape, Others
<1>3. Promise(q)'
  BY <1>1 DEF Promise, Truthful, LoggedOf, Sent
<1> QED BY <1>1, <1>2, <1>3, QuietStepKept DEF Handling

\* A request enters the handler, or is refused on the way to it.
LEMMA EntryKept ==
    ASSUME CInv, NEW q \in Requests, RejectInvalid(q) \/ CreateContext(q)
    PROVE  Kept
<1>1. pc[q] = "new" /\ records[q] = << >> /\ prompt[q] = << >>
  BY DEF RejectInvalid, CreateContext, CInv, GInv, Local, RecordInv, PromptInv
<1>2. CASE RejectInvalid(q)
  <2>1. pc'[q] = "finish" /\ response'[q] = Error(422, "request_invalid")
    BY <1>2 DEF RejectInvalid, Respond, Goto, CInv, GInv, Shape
  <2>2. Others(q)
    BY <1>2 DEF RejectInvalid, Respond, Goto, CInv, GInv, Shape, Others
  <2>3. Promise(q)'
    BY <1>1, <1>2, <2>1 DEF RejectInvalid, Promise, Truthful, Error, Sent
  <2>4. Contract!Next
    BY <1>1, <1>2, <2>1, <2>2, EnterStep DEF RejectInvalid, LoggedOf, Handling
  <2> QED BY <2>2, <2>3, <2>4, KeptBy
<1>3. CASE CreateContext(q)
  <2>1. pc'[q] = "decide"
    BY <1>3 DEF CreateContext, Goto, CInv, GInv, Shape
  <2>2. Others(q)
    BY <1>3 DEF CreateContext, Goto, CInv, GInv, Shape, Others
  <2>3. Promise(q)'
    BY <2>1 DEF Promise, Sent
  <2>4. Contract!Next
    BY <1>1, <1>3, <2>1, <2>2, EnterStep DEF CreateContext, LoggedOf, Handling
  <2> QED BY <2>2, <2>3, <2>4, KeptBy
<1> QED BY <1>2, <1>3

\* Sanitizing is not seen.
LEMMA SanitizingKept ==
    ASSUME CInv, NEW q \in Requests, StartSanitizing(q) \/ SanitizeFragment(q)
    PROVE  Kept
<1>1. /\ pc[q] \in {"decide", "sanitize"} /\ pc'[q] = "sanitize"
      /\ prompt' = prompt /\ records' = records
  BY DEF StartSanitizing, SanitizeFragment, Goto, CInv, GInv, Shape
<1>2. Others(q)
  <2>1. CASE StartSanitizing(q)
    BY <2>1 DEF StartSanitizing, Goto, CInv, GInv, Shape, Others
  <2>2. CASE SanitizeFragment(q)
    <3>1. \A r \in Requests \ {q} : context'[r] = context[r] /\ text'[r] = text[r]
      BY <2>2 DEF SanitizeFragment, CInv, GInv, Shape
    <3> QED BY <2>2, <3>1 DEF SanitizeFragment, Others
  <2> QED BY <2>1, <2>2
<1>3. Promise(q)'
  BY <1>1 DEF Promise, Sent
<1> QED BY <1>1, <1>2, <1>3, QuietStepKept DEF Handling

\* Neither is the work on a reply.
LEMMA ReplyKept ==
    ASSUME CInv, NEW q \in Requests, ProviderAnswers(q) \/ ScanReply(q)
    PROVE  Kept
<1>1. /\ pc[q] \in {"await", "received"} /\ pc'[q] \in {"received", "seal"}
      /\ prompt' = prompt /\ records' = records
  BY DEF ProviderAnswers, ScanReply, Goto, CInv, GInv, Shape
<1>2. Others(q)
  <2>1. CASE ProviderAnswers(q)
    BY <2>1 DEF ProviderAnswers, Goto, CInv, GInv, Shape, Others
  <2>2. CASE ScanReply(q)
    BY <2>2 DEF ScanReply, Goto, CInv, GInv, Shape, Others
  <2> QED BY <2>1, <2>2
<1>3. Promise(q)'
  BY <1>1 DEF CInv, Promise, Sent
<1> QED BY <1>1, <1>2, <1>3, QuietStepKept DEF Handling

\* The provider gets a whole text, which is not empty.
LEMMA CallKept ==
    ASSUME CInv, NEW q \in Requests, CallProvider(q)
    PROVE  Kept
<1>1. /\ pc[q] = "sanitize" /\ pc'[q] = "await" /\ prompt'[q] = text[q]
      /\ prompt[q] = << >> /\ records[q] = << >> /\ records' = records
  BY DEF CallProvider, Goto, CInv, GInv, Shape, Local, RecordInv, PromptInv
<1>2. text[q] # << >>
  <2>1. Body[q] \in Seq({Body[q][k] : k \in DOMAIN Body[q]}) /\ Body[q] # << >>
    BY BodyAssumption
  <2>2. Len(Body[q]) # 0
    BY <2>1, EmptySeq
  <2>3. Len(text[q]) = Len(Body[q])
    BY DEF CallProvider
  <2> QED BY <2>2, <2>3, EmptySeq
<1>3. Others(q)
  BY DEF CallProvider, Goto, CInv, GInv, Shape, Others
<1>4. Promise(q)'
  BY <1>1, <1>2 DEF Promise
<1>5. Contract!Next
  BY <1>1, <1>2, <1>3, ContactStep DEF Handling
<1> QED BY <1>3, <1>4, <1>5, KeptBy

LEMMA SealKept ==
    ASSUME CInv, NEW q \in Requests, SealCycle(q)
    PROVE  Kept
<1>1. PICK result \in AppendResults :
          /\ AppendRecord(q, "chat_completion", 200, result)
          /\ CASE result = "ok"     -> Goto(q, "restore") /\ UNCHANGED response
               [] result = "raised" -> Respond(q, Unhandled)
               [] result \in {"write_error", "late_error"} -> Respond(q, AuditWriteError)
  BY DEF SealCycle
<1>2. /\ pc[q] = "seal" /\ prompt[q] # << >> /\ prompt' = prompt
      /\ records[q] = << >> /\ LoggedOf(q) = "none"
  BY DEF SealCycle, CInv, GInv, Local, RecordInv, Promise, Sent, LoggedOf
<1>3. result \in {"ok", "write_error", "late_error", "raised"}
  BY AppendAssumption
<1>4. \/ pc'[q] = "restore"
      \/ pc'[q] = "finish" /\ response'[q] \in {Unhandled, AuditWriteError}
  BY <1>1, <1>3 DEF Goto, Respond, CInv, GInv, Shape
<1>5. records'[q] = << >> \/ records'[q] = <<Sealed>>
  BY <1>1, <1>2 DEF AppendRecord, CInv, GInv, Shape, Sealed
<1>6. Others(q)
  BY <1>1, <1>3 DEF SealCycle, AppendRecord, Goto, Respond, CInv, GInv, Shape, Others
<1>7. Promise(q)'
  <2>1. Unhandled.status = 500 /\ AuditWriteError.status = 500
    BY DEF Unhandled, AuditWriteError, Error
  <2> QED BY <1>2, <1>4, <2>1 DEF Promise, Truthful
<1>8. CASE records'[q] = << >>
  BY <1>2, <1>4, <1>6, <1>7, <1>8, QuietStepKept DEF Handling
<1>9. CASE records'[q] = <<Sealed>>
  <2>1. LoggedOf(q)' = "sealed"
    BY <1>9 DEF LoggedOf, KindOf, Sealed
  <2>2. Contract!Next
    BY <1>2, <1>4, <1>6, <2>1, LogStep DEF Handling
  <2> QED BY <1>6, <1>7, <2>2, KeptBy
<1> QED BY <1>5, <1>8, <1>9

LEMMA AnswerKept ==
    ASSUME CInv, NEW q \in Requests, ClearContext(q)
    PROVE  Kept
<1>1. /\ pc[q] = "finish" /\ pc'[q] = "done" /\ UNCHANGED <<prompt, records, response>>
      /\ Truthful(q)
  BY DEF ClearContext, Goto, CInv, GInv, Shape, Promise
<1>2. Others(q)
  BY DEF ClearContext, Goto, CInv, GInv, Shape, Others
<1>3. Promise(q)'
  BY <1>1 DEF Promise, Sent
<1>4. response[q].status = 200 => LoggedOf(q) = "sealed"
  BY DEF CInv, GInv, Local, RecordInv, LoggedOf, KindOf, Sealed
<1>5. Contract!Next
  BY <1>1, <1>2, <1>4, AnswerStep
<1> QED BY <1>2, <1>3, <1>5, KeptBy

LEMMA CrashKept ==
    ASSUME CInv, Crash
    PROVE  Kept
<1>1. ASSUME NEW r \in Requests PROVE Promise(r)'
  BY DEF Crash, Promise, Sent
<1> QED BY <1>1, DieStep DEF Kept

-----------------------------------------------------------------------------

LEMMA StepKept == CInv /\ [Next]_vars => Kept
<1> SUFFICES ASSUME CInv, [Next]_vars PROVE Kept
  OBVIOUS
<1>1. CASE UNCHANGED vars
  <2>1. UNCHANGED Contract!contractVars
    BY <1>1 DEF vars, Contract!contractVars
  <2>2. ASSUME NEW r \in Requests PROVE Promise(r)'
    BY <1>1 DEF vars, CInv, Promise, Truthful, LoggedOf
  <2> QED BY <2>1, <2>2 DEF Kept
<1>2. CASE Crash
  BY <1>2, CrashKept
<1>3. ASSUME NEW r \in Requests, RejectInvalid(r) \/ Handle(r) \/ Cancelled(r) PROVE Kept
  <2>1. ASSUME NEW status, NEW code PROVE Error(status, code).status = status
    BY DEF Error
  <2>2. /\ pc[r] \in {"new", "decide", "sanitize"} => prompt[r] = << >>
        /\ pc[r] \in {"await", "received"} => prompt[r] # << >> /\ records[r] = << >>
    BY DEF CInv, GInv, Local, RecordInv, PromptInv, Promise, Sent
  <2>3. /\ \A event \in Refusals : KindOf(event) = "refused"
        /\ \A event \in {"provider_error", "response_scan_failure"} : KindOf(event) = "failed"
    BY DEF KindOf, Refusals
  <2>4. Unhandled.status = 500
    BY DEF Unhandled, Error
  <2>5. CASE RejectInvalid(r) \/ CreateContext(r)
    BY <2>5, EntryKept
  <2>6. CASE DetectionFails(r)
    BY <2>1, <2>2, <2>3, <2>6, FailureKept DEF DetectionFails, Refusals
  <2>7. CASE Block(r)
    BY <2>1, <2>2, <2>3, <2>7, FailureKept DEF Block, Refusals
  <2>8. CASE SanitizingFails(r)
    BY <2>1, <2>2, <2>3, <2>8, FailureKept DEF SanitizingFails, Refusals
  <2>9. CASE StartSanitizing(r) \/ SanitizeFragment(r)
    BY <2>9, SanitizingKept
  <2>10. CASE CallProvider(r)
    BY <2>10, CallKept
  <2>11. CASE ProviderAnswers(r) \/ ScanReply(r)
    BY <2>11, ReplyKept
  <2>12. CASE ProviderFails(r)
    <3>1. PICK answer \in {Error(504, "provider_timeout"), Error(502, "provider_auth"),
                           Error(502, "provider_response")} :
              FailWith(r, "provider_error", answer)
      BY <2>12 DEF ProviderFails
    <3>2. answer.status \in {502, 504}
      BY <2>1
    <3> QED BY <2>2, <2>3, <2>12, <3>1, <3>2, FailureKept DEF ProviderFails
  <2>13. CASE ScanFails(r)
    BY <2>1, <2>2, <2>3, <2>13, FailureKept DEF ScanFails
  <2>14. CASE HashFails(r)
    BY <2>4, <2>14, ResponseKept DEF HashFails, Handling
  <2>15. CASE RedactAllFails(r)
    BY <2>4, <2>15, ResponseKept DEF RedactAllFails, Handling
  <2>16. CASE RenderFails(r)
    BY <2>4, <2>16, ResponseKept DEF RenderFails, Handling
  <2>17. CASE Cancelled(r)
    BY <2>1, <2>2, <2>17, ResponseKept DEF Cancelled, Handling
  <2>18. CASE ReturnReply(r)
    <3>1. PICK answer : Respond(r, answer) /\ answer.status = 200
      BY <2>18, AnswerOfReturn DEF Refusals
    <3>2. pc[r] \in Handling /\ UNCHANGED <<context, text, prompt, records>>
      BY <2>18 DEF ReturnReply, Handling
    <3> QED BY <3>1, <3>2, ResponseKept
  <2>19. CASE SealCycle(r)
    BY <2>19, SealKept
  <2>20. CASE ClearContext(r)
    BY <2>20, AnswerKept
  <2> QED BY <1>3, <2>5, <2>6, <2>7, <2>8, <2>9, <2>10, <2>11, <2>12, <2>13, <2>14, <2>15,
             <2>16, <2>17, <2>18, <2>19, <2>20 DEF Handle
<1> QED BY <1>1, <1>2, <1>3 DEF Next

LEMMA InitKept == Init => CInv /\ Contract!Init
<1> SUFFICES ASSUME Init PROVE CInv /\ Contract!Init
  OBVIOUS
<1>1. ASSUME NEW r \in Requests
      PROVE  pc[r] = "new" /\ prompt[r] = << >> /\ records[r] = << >>
  BY DEF Init
<1>2. CInv
  BY <1>1, InitGInv DEF CInv, Promise, Sent
<1>3. /\ Phase = [r \in Requests |-> "new"] /\ Contacted = [r \in Requests |-> FALSE]
      /\ Logged = [r \in Requests |-> "none"] /\ Status = [r \in Requests |-> 0]
  BY <1>1 DEF Phase, PhaseOf, Contacted, Logged, LoggedOf, Status, StatusOf
<1> QED BY <1>2, <1>3
        DEF Contract!Init, Phase, PhaseOf, Contacted, Logged, LoggedOf, Status, StatusOf

\* The chat endpoint implements its contract: whatever fails, 400 and 422 mean
\* that the provider was sent nothing, 502 and 504 that it was sent the prompt
\* and the cycle is not sealed, 200 that it is; and a refusal is recorded only
\* of a request the provider has nothing of, any other outcome only of one it has.
THEOREM GatewayImplementsContract == Spec => Contract!Spec
<1>1. CInv /\ [Next]_vars => CInv' /\ [Contract!Next]_(Contract!contractVars)
  BY StepKept, NextGInv DEF CInv, Kept
<1> QED BY InitKept, <1>1, PTL DEF Spec, Contract!Spec

-----------------------------------------------------------------------------
(* Tokens: what a provider is sent can be restored, what it repeats is     *)
(* restored to the caller's own values, and nothing else of a mediated     *)
(* type comes back; for every policy, and namespaces that two requests     *)
(* may share.                                                              *)

\* A context as token_for leaves it: every entry's token is of the context's
\* namespace, numbered below the counter of its type, and nobody else's.
CtxOK(ctx) ==
    /\ ctx = [ns |-> ctx.ns, count |-> ctx.count, entries |-> ctx.entries]
    /\ ctx.count \in [Entities -> Nat]
    /\ \A m \in ctx.entries :
          /\ m = [token |-> Token(m.token.type, ctx.ns, m.token.number), value |-> m.value]
          /\ m.token.type \in Entities /\ Policy[m.token.type] = "tokenize"
          /\ m.token.number \in 1 .. ctx.count[m.token.type]
    /\ \A m, n \in ctx.entries : m.token = n.token => m = n

\* The entry m stands for the k-th fragment of the body.
Stands(body, m, k) == body[k] = Text(m.token.type, m.value)

\* A token in the sanitized text t is the caller's own, or stands for the text
\* at its place; and every entry of the context has its token in t.
Faithful(body, ctx, t) ==
    /\ t \in Seq(Fragments(t)) /\ Len(t) <= Len(body)
    /\ \A k \in DOMAIN t : t[k].kind = "token" =>
          t[k] = body[k] \/ \E m \in ctx.entries : m.token = t[k] /\ Stands(body, m, k)
    /\ \A m \in ctx.entries : \E k \in DOMAIN t : m.token = t[k] /\ Stands(body, m, k)

\* The context, as long as the handler runs.
ContextInv2(r) ==
    /\ CtxOK(context[r])
    /\ context[r].ns \in Namespaces \cup {NoNamespace}
    /\ \A e \in Entities : context[r].count[e] <= Len(Body[r])
    /\ pc[r] \in {"new", "decide"} => context[r] = NewContext(context[r].ns)
    /\ pc[r] \in {"decide", "sanitize", "await", "received", "seal", "restore"} =>
          context[r].ns \notin NamespacesIn(Body[r])

\* The sanitized text, and the prompt it becomes.
SanitizedInv(r) ==
    /\ pc[r] = "sanitize" =>
          /\ Faithful(Body[r], context[r], text[r])
          /\ \A e \in Entities : context[r].count[e] <= Len(text[r])
    /\ InFlight(r) => Faithful(Body[r], context[r], prompt[r])
    /\ Len(prompt[r]) \in {0, Len(Body[r])}

\* The reply as it came, then as the scan leaves it: the tokens are untouched.
ReplyInv(r) ==
    /\ pc[r] = "received" => text[r] = reply[r]
    /\ pc[r] \in {"seal", "restore"} =>
          /\ DOMAIN text[r] = DOMAIN reply[r]
          /\ \A k \in DOMAIN reply[r] : reply[r][k].kind = "token" => text[r][k] = reply[r][k]
          /\ ScanEnabled => \A f \in Fragments(text[r]) : Sendable(f)

\* What OwnTokensRestored and OnlyOwnValuesReturn say of one request.
Restoration(r, answer, came, sent) ==
    answer.status = 200 =>
        \A k \in DOMAIN came :
            LET f == came[k]
                own == {j \in DOMAIN sent : sent[j] = f /\ Body[r][j].kind = "text"}
            IN  f.kind = "token" =>
                  answer.content[k] =
                    IF r \in RehydrateFor /\ own # {}
                      THEN Body[r][CHOOSE j \in own : TRUE]
                      ELSE f

OwnValues(r, answer) ==
    ScanEnabled =>
        \A f \in Fragments(answer.content) :
            Detected(f) /\ Policy[f.type] # "allow" =>
                /\ f \in Fragments(Body[r])
                /\ Policy[f.type] = "tokenize"
                /\ r \in RehydrateFor

Statuses == {0, 200, 400, 422, 500, 502, 504}

AnswerInv(r) ==
    /\ Restoration(r, response[r], reply[r], prompt[r])
    /\ OwnValues(r, response[r])
    /\ response[r].status \in Statuses

TokenLocal(r) == ContextInv2(r) /\ SanitizedInv(r) /\ ReplyInv(r) /\ AnswerInv(r)

TokenInv ==
    /\ GInv
    /\ reply = [r \in Requests |-> reply[r]]
    /\ \A r \in Requests : TokenLocal(r)

-----------------------------------------------------------------------------
(* The operators of Mediation.                                             *)

\* token_for on a text the policy tokenizes: its token is of this context, and
\* the mapping grows at most by the entry that says so.
LEMMA TokenForMints ==
    ASSUME NEW ctx, CtxOK(ctx), NEW f, Tokenizes(Policy, f)
    PROVE  LET entry == [token |-> TokenFor(ctx, f), value |-> f.value]
           IN  /\ CtxOK(Minted(ctx, f)) /\ Minted(ctx, f).ns = ctx.ns
               /\ TokenFor(ctx, f).type = f.type /\ TokenFor(ctx, f).kind = "token"
               /\ Minted(ctx, f).entries = ctx.entries \cup {entry}
               /\ \A e \in Entities : Minted(ctx, f).count[e] <= ctx.count[e] + 1
<1> DEFINE entry == [token |-> TokenFor(ctx, f), value |-> f.value]
<1>1. f.type \in Entities /\ Policy[f.type] = "tokenize"
  BY DEF Tokenizes, Detected
<1>2. CASE Existing(ctx, f) # {}
  <2>1. PICK m \in Existing(ctx, f) : TokenFor(ctx, f) = m.token
    BY <1>2 DEF TokenFor
  <2>2. m \in ctx.entries /\ m.token.type = f.type /\ m.value = f.value
    BY DEF Existing
  <2>3. m = entry
    BY <2>1, <2>2 DEF CtxOK
  <2>4. TokenFor(ctx, f).kind = "token"
    BY <2>1, <2>2 DEF CtxOK, Token
  <2>5. Minted(ctx, f) = ctx
    BY <1>2 DEF Minted
  <2>6. \A e \in Entities : ctx.count[e] <= ctx.count[e] + 1
    BY DEF CtxOK
  <2> QED BY <2>1, <2>2, <2>3, <2>4, <2>5, <2>6
<1>3. CASE Existing(ctx, f) = {}
  <2> DEFINE n == ctx.count[f.type] + 1
             new == [ns |-> ctx.ns, count |-> [ctx.count EXCEPT ![f.type] = n],
                     entries |-> ctx.entries \cup {entry}]
  <2>1. TokenFor(ctx, f) = Token(f.type, ctx.ns, n)
    BY <1>3 DEF TokenFor
  <2>2. ctx.count \in [Entities -> Nat] /\ n \in Nat
    BY <1>1 DEF CtxOK
  <2>3. Minted(ctx, f) = new
    BY <1>3, <2>1 DEF Minted, CtxOK
  <2>4. /\ TokenFor(ctx, f).type = f.type /\ TokenFor(ctx, f).kind = "token"
        /\ TokenFor(ctx, f).number = n
    BY <2>1 DEF Token
  <2>5. new.count \in [Entities -> Nat] /\ \A e \in Entities : ctx.count[e] <= new.count[e] /\ new.count[e] <= ctx.count[e] + 1
    BY <1>1, <2>2
  <2>6. ASSUME NEW m \in new.entries
        PROVE  /\ m = [token |-> Token(m.token.type, ctx.ns, m.token.number), value |-> m.value]
               /\ m.token.type \in Entities /\ Policy[m.token.type] = "tokenize"
               /\ m.token.number \in 1 .. new.count[m.token.type]
    <3>1. CASE m \in ctx.entries
      BY <2>2, <2>5, <3>1 DEF CtxOK
    <3>2. CASE m = entry
      BY <1>1, <2>1, <2>2, <2>4, <3>2
    <3> QED BY <3>1, <3>2
  <2>7. \A m \in ctx.entries : m.token # entry.token
    <3> SUFFICES ASSUME NEW m \in ctx.entries, m.token = entry.token PROVE FALSE
      OBVIOUS
    <3>1. m.token.type = f.type /\ m.token.number = n
      BY <2>4
    <3> QED BY <2>2, <3>1 DEF CtxOK
  <2>8. \A m, o \in new.entries : m.token = o.token => m = o
    BY <2>7 DEF CtxOK
  <2>9. CtxOK(new)
    BY <2>5, <2>6, <2>8 DEF CtxOK
  <2> QED BY <2>3, <2>4, <2>5, <2>9
<1> QED BY <1>2, <1>3

\* What becomes of a fragment the policy does not tokenize is no token, unless
\* it is one and stays as it is.
LEMMA OthersAreNoTokens ==
    ASSUME NEW ctx, NEW f, ~ Tokenizes(Policy, f)
    PROVE  Mediate(Policy, ctx, f).kind = "token" => Mediate(Policy, ctx, f) = f
<1>1. CASE Detected(f) /\ Policy[f.type] = "redact"
  BY <1>1 DEF Mediate, Redacted
<1>2. CASE Detected(f) /\ Policy[f.type] # "redact"
  <2>1. Policy[f.type] \in {"allow", "block"}
    BY <1>2, PolicyAssumption DEF Detected, PolicyActions, Tokenizes
  <2> QED BY <1>2, <2>1 DEF Mediate
<1>3. CASE ~ Detected(f)
  BY <1>3 DEF Mediate
<1> QED BY <1>1, <1>2, <1>3

\* rehydrate gives a token back as the text it stands for, or as it is.
LEMMA RestoredFacts ==
    ASSUME NEW ctx, CtxOK(ctx), NEW f
    PROVE  /\ \A m \in ctx.entries : m.token = f => Restored(ctx, f) = Text(m.token.type, m.value)
           /\ (\A m \in ctx.entries : m.token # f) => Restored(ctx, f) = f
<1>1. ASSUME NEW m \in ctx.entries, m.token = f
      PROVE  Restored(ctx, f) = Text(m.token.type, m.value)
  <2>1. PICK o \in ctx.entries : o.token = f /\ Restored(ctx, f) = Text(f.type, o.value)
    BY <1>1 DEF Restored
  <2>2. o = m
    BY <1>1, <2>1 DEF CtxOK
  <2> QED BY <1>1, <2>1, <2>2
<1>2. (\A m \in ctx.entries : m.token # f) => Restored(ctx, f) = f
  BY DEF Restored
<1> QED BY <1>1, <1>2

\* The response scan leaves no value the policy mediates, and every token.
LEMMA ScanTextFacts ==
    ASSUME NEW t
    PROVE  /\ DOMAIN ScanText(t) = DOMAIN t
           /\ \A k \in DOMAIN t : t[k].kind = "token" => ScanText(t)[k] = t[k]
           /\ \A f \in Fragments(ScanText(t)) : Sendable(f)
<1>1. DOMAIN ScanText(t) = DOMAIN t
  BY DEF ScanText
<1>2. ASSUME NEW k \in DOMAIN t
      PROVE  /\ t[k].kind = "token" => ScanText(t)[k] = t[k]
             /\ Sendable(ScanText(t)[k])
  <2>1. CASE Detected(t[k]) /\ ResponsePolicy[t[k].type] = "redact"
    <3>1. ScanText(t)[k] = Redacted(t[k].type)
      BY <1>2, <2>1 DEF ScanText
    <3> QED BY <2>1, <3>1 DEF Detected, Sendable, Redacted
  <2>2. CASE ~ (Detected(t[k]) /\ ResponsePolicy[t[k].type] = "redact")
    <3>1. ScanText(t)[k] = t[k]
      BY <1>2, <2>2 DEF ScanText
    <3>2. Detected(t[k]) => Policy[t[k].type] = "allow"
      BY <2>2 DEF Detected, ResponsePolicy
    <3> QED BY <3>1, <3>2 DEF Sendable
  <2> QED BY <2>1, <2>2
<1> QED BY <1>1, <1>2 DEF Fragments

\* apply on the next fragment: the text stays faithful to the body.
LEMMA FaithfulGrows ==
    ASSUME NEW body, Len(body) \in Nat, NEW ctx, NEW t, Faithful(body, ctx, t),
           Len(t) < Len(body), NEW out, NEW next, ctx.entries \subseteq next.entries,
           out.kind = "token" =>
               \/ out = body[Len(t) + 1]
               \/ \E m \in next.entries : m.token = out /\ Stands(body, m, Len(t) + 1),
           \A m \in next.entries :
               m \in ctx.entries \/ (m.token = out /\ Stands(body, m, Len(t) + 1))
    PROVE  Faithful(body, next, Append(t, out)) /\ Len(Append(t, out)) = Len(t) + 1
<1> DEFINE old == Fragments(t)
           grown == Append(t, out)
<1>1. t \in Seq(old \cup {out}) /\ Len(t) \in Nat /\ DOMAIN t = 1 .. Len(t)
  BY LenProperties DEF Faithful
<1>2. /\ grown \in Seq(old \cup {out}) /\ Len(grown) = Len(t) + 1
      /\ grown[Len(t) + 1] = out
      /\ \A i \in 1 .. Len(t) : grown[i] = t[i]
  BY <1>1, AppendProperties
<1>3. DOMAIN grown = 1 .. (Len(t) + 1)
  BY <1>1, <1>2, LenProperties
<1> HIDE DEF grown
<1>4. grown \in Seq(Fragments(grown))
  <2>1. \A i \in 1 .. Len(grown) : grown[i] \in Fragments(grown)
    BY <1>2, <1>3 DEF Fragments
  <2> QED BY <1>2, <2>1, IsASeq, LenProperties
<1>5. Len(grown) <= Len(body)
  BY <1>1, <1>2
<1>6. ASSUME NEW k \in DOMAIN grown, grown[k].kind = "token"
      PROVE  \/ grown[k] = body[k]
             \/ \E m \in next.entries : m.token = grown[k] /\ Stands(body, m, k)
  <2>1. CASE k \in 1 .. Len(t)
    <3>1. grown[k] = t[k] /\ k \in DOMAIN t
      BY <1>1, <1>2, <2>1
    <3> QED BY <1>6, <3>1 DEF Faithful
  <2>2. CASE k = Len(t) + 1
    BY <1>2, <1>6, <2>2
  <2> QED BY <1>1, <1>3, <2>1, <2>2
<1>7. ASSUME NEW m \in next.entries
      PROVE  \E k \in DOMAIN grown : m.token = grown[k] /\ Stands(body, m, k)
  <2>1. CASE m \in ctx.entries
    <3>1. PICK k \in DOMAIN t : m.token = t[k] /\ Stands(body, m, k)
      BY <2>1 DEF Faithful
    <3>2. k \in DOMAIN grown /\ grown[k] = t[k]
      BY <1>1, <1>2, <1>3
    <3> QED BY <3>1, <3>2
  <2>2. CASE m.token = out /\ Stands(body, m, Len(t) + 1)
    <3>1. Len(t) + 1 \in DOMAIN grown
      BY <1>1, <1>3
    <3> QED BY <1>2, <2>2, <3>1
  <2> QED BY <2>1, <2>2
<1>8. Faithful(body, next, grown)
  BY <1>4, <1>5, <1>6, <1>7 DEF Faithful
<1> QED BY <1>2, <1>8 DEF grown

\* rehydrate on a reply whose tokens are those of the provider: each of the
\* caller's own values is back at the places of its token.
LEMMA RehydrateRestores ==
    ASSUME NEW r \in Requests, NEW ctx, CtxOK(ctx), NEW sent, Faithful(Body[r], ctx, sent),
           NEW came, NEW t, DOMAIN t = DOMAIN came,
           \A k \in DOMAIN came : came[k].kind = "token" => t[k] = came[k],
           NEW answer, answer.content = IF r \in RehydrateFor THEN Rehydrate(ctx, t) ELSE t
    PROVE  Restoration(r, answer, came, sent)
<1> SUFFICES ASSUME NEW k \in DOMAIN came, came[k].kind = "token"
             PROVE  LET own == {j \in DOMAIN sent : sent[j] = came[k] /\ Body[r][j].kind = "text"}
                    IN  answer.content[k] =
                          IF r \in RehydrateFor /\ own # {}
                            THEN Body[r][CHOOSE j \in own : TRUE]
                            ELSE came[k]
  BY DEF Restoration
<1> DEFINE own == {j \in DOMAIN sent : sent[j] = came[k] /\ Body[r][j].kind = "text"}
<1>1. answer.content[k] = IF r \in RehydrateFor THEN Restored(ctx, came[k]) ELSE came[k]
  BY DEF Rehydrate
<1>2. CASE own # {}
  <2>1. PICK j \in own : j = CHOOSE i \in own : TRUE
    BY <1>2
  <2>2. j \in DOMAIN sent /\ sent[j] = came[k] /\ Body[r][j].kind = "text"
    OBVIOUS
  <2>3. sent[j] # Body[r][j]
    BY <2>2
  <2>4. PICK m \in ctx.entries : m.token = came[k] /\ Stands(Body[r], m, j)
    BY <2>2, <2>3 DEF Faithful
  <2>5. Restored(ctx, came[k]) = Body[r][j]
    BY <2>4, RestoredFacts DEF Stands
  <2> QED BY <1>1, <1>2, <2>1, <2>5
<1>3. CASE own = {}
  <2>1. ASSUME NEW m \in ctx.entries, m.token = came[k] PROVE FALSE
    <3>1. PICK j \in DOMAIN sent : m.token = sent[j] /\ Stands(Body[r], m, j)
      BY DEF Faithful
    <3>2. Body[r][j].kind = "text"
      BY <3>1 DEF Stands, Text
    <3>3. j \in own
      BY <2>1, <3>1, <3>2
    <3> QED BY <1>3, <3>3
  <2>2. Restored(ctx, came[k]) = came[k]
    BY <2>1, RestoredFacts
  <2> QED BY <1>1, <1>3, <2>2
<1> QED BY <1>2, <1>3

\* rehydrate on a scanned reply brings back nothing but the caller's own values.
LEMMA RehydrateIsOwn ==
    ASSUME NEW r \in Requests, NEW ctx, CtxOK(ctx), NEW sent, Faithful(Body[r], ctx, sent),
           NEW t, ScanEnabled => \A f \in Fragments(t) : Sendable(f),
           NEW answer, answer.content = IF r \in RehydrateFor THEN Rehydrate(ctx, t) ELSE t
    PROVE  OwnValues(r, answer)
<1> SUFFICES ASSUME ScanEnabled, NEW f \in Fragments(answer.content),
                    Detected(f), Policy[f.type] # "allow"
             PROVE  /\ f \in Fragments(Body[r]) /\ Policy[f.type] = "tokenize"
                    /\ r \in RehydrateFor
  BY DEF OwnValues
<1>1. r \in RehydrateFor
  BY DEF Sendable
<1>2. PICK k \in DOMAIN t : f = Restored(ctx, t[k])
  BY <1>1 DEF Fragments, Rehydrate
<1>3. f # t[k]
  BY <1>2 DEF Fragments, Sendable
<1>4. PICK m \in ctx.entries : m.token = t[k]
  BY <1>2, <1>3, RestoredFacts
<1>5. f = Text(m.token.type, m.value)
  BY <1>2, <1>4, RestoredFacts
<1>6. PICK j \in DOMAIN sent : Stands(Body[r], m, j)
  BY DEF Faithful
<1>7. j \in DOMAIN Body[r]
  <2>1. Len(sent) \in Nat /\ DOMAIN sent = 1 .. Len(sent) /\ Len(sent) <= Len(Body[r])
    BY LenProperties DEF Faithful
  <2>2. Len(Body[r]) \in Nat /\ DOMAIN Body[r] = 1 .. Len(Body[r])
    BY BodyAssumption, LenProperties
  <2> QED BY <2>1, <2>2
<1>8. f = Body[r][j] /\ f.type = m.token.type
  BY <1>5, <1>6 DEF Stands, Text
<1>9. Policy[m.token.type] = "tokenize"
  BY DEF CtxOK
<1> QED BY <1>1, <1>7, <1>8, <1>9 DEF Fragments

-----------------------------------------------------------------------------
(* The actions.                                                            *)

\* The invariant has the five properties as consequences.
LEMMA TokenConsequences ==
    TokenInv => TypeOK /\ TokensResolvable /\ OwnTokensRestored /\ OnlyOwnValuesReturn
<1> SUFFICES ASSUME TokenInv
             PROVE  TypeOK /\ TokensResolvable /\ OwnTokensRestored /\ OnlyOwnValuesReturn
  OBVIOUS
<1>1. ASSUME NEW r \in Requests PROVE TokenLocal(r)
  BY DEF TokenInv
<1>2. TypeOK
  <2>1. ASSUME NEW r \in Requests
        PROVE  context[r].count \in [Entities -> 0 .. Len(Body[r])]
    <3>1. Len(Body[r]) \in Nat
      BY BodyAssumption, LenProperties
    <3>2. context[r].count \in [Entities -> Nat]
      BY <1>1 DEF TokenLocal, ContextInv2, CtxOK
    <3>3. \A e \in Entities : context[r].count[e] <= Len(Body[r])
      BY <1>1 DEF TokenLocal, ContextInv2
    <3> QED BY <3>1, <3>2, <3>3
  <2>2. pc \in [Requests -> Labels]
    BY DEF TokenInv, GInv, Shape
  <2> QED BY <1>1, <2>1, <2>2
          DEF TypeOK, TokenLocal, ContextInv2, SanitizedInv, AnswerInv, Statuses
<1>3. TokensResolvable
  <2> SUFFICES ASSUME NEW r \in Requests, InFlight(r), NEW k \in DOMAIN prompt[r],
                      prompt[r][k].kind = "token"
               PROVE  Restored(context[r], prompt[r][k]) = Body[r][k]
    BY DEF TokensResolvable
  <2>1. /\ CtxOK(context[r]) /\ Faithful(Body[r], context[r], prompt[r])
        /\ context[r].ns \notin NamespacesIn(Body[r])
    BY <1>1 DEF TokenLocal, ContextInv2, SanitizedInv, InFlight
  <2>2. CASE \E m \in context[r].entries : m.token = prompt[r][k] /\ Stands(Body[r], m, k)
    BY <2>1, <2>2, RestoredFacts DEF Stands
  <2>3. CASE prompt[r][k] = Body[r][k]
    <3>1. k \in DOMAIN Body[r]
      <4>1. /\ Len(prompt[r]) \in Nat /\ DOMAIN prompt[r] = 1 .. Len(prompt[r])
            /\ Len(prompt[r]) <= Len(Body[r])
        BY <2>1, LenProperties DEF Faithful
      <4>2. Len(Body[r]) \in Nat /\ DOMAIN Body[r] = 1 .. Len(Body[r])
        BY BodyAssumption, LenProperties
      <4> QED BY <4>1, <4>2
    <3>2. Body[r][k].ns # context[r].ns
      BY <2>1, <2>3, <3>1 DEF NamespacesIn
    <3>3. \A m \in context[r].entries : m.token.ns = context[r].ns
      BY <2>1 DEF CtxOK, Token
    <3> QED BY <2>1, <2>3, <3>2, <3>3, RestoredFacts
  <2> QED BY <2>1, <2>2, <2>3 DEF Faithful
<1>4. OwnTokensRestored
  BY <1>1 DEF OwnTokensRestored, TokenLocal, AnswerInv, Restoration
<1>5. OnlyOwnValuesReturn
  BY <1>1 DEF OnlyOwnValuesReturn, TokenLocal, AnswerInv, OwnValues
<1> QED BY <1>2, <1>3, <1>4, <1>5

\* An empty context is in order, and faithful to a text not begun.
LEMMA NewContextOK ==
    ASSUME NEW ns
    PROVE  /\ CtxOK(NewContext(ns)) /\ NewContext(ns).ns = ns
           /\ \A e \in Entities : NewContext(ns).count[e] = 0
           /\ NewContext(ns).entries = {}
  BY DEF NewContext, CtxOK

\* The first state satisfies the invariant.
LEMMA InitTokenInv == Init => TokenInv
<1> SUFFICES ASSUME Init PROVE TokenInv
  OBVIOUS
<1>1. GInv /\ reply = [r \in Requests |-> reply[r]]
  BY InitGInv DEF Init
<1>2. ASSUME NEW r \in Requests PROVE TokenLocal(r)
  <2>1. /\ pc[r] = "new" /\ context[r] = NewContext(NoNamespace)
        /\ prompt[r] = << >> /\ response[r] = NoResponse
    BY DEF Init
  <2>2. Len(Body[r]) \in Nat
    BY BodyAssumption, LenProperties
  <2>3. ContextInv2(r)
    BY <2>1, <2>2, NewContextOK DEF ContextInv2
  <2>4. SanitizedInv(r) /\ ReplyInv(r)
    BY <2>1 DEF SanitizedInv, ReplyInv, InFlight
  <2>5. AnswerInv(r)
    BY <2>1 DEF AnswerInv, Restoration, OwnValues, NoResponse, Fragments, Statuses
  <2> QED BY <2>3, <2>4, <2>5 DEF TokenLocal
<1> QED BY <1>1, <1>2 DEF TokenInv

\* It is enough to look at the request whose handler took the step.
LEMMA OneTokenRequest ==
    ASSUME TokenInv, NEW q \in Requests, GInv', Others(q),
           reply' = [r \in Requests |-> reply'[r]],
           \A r \in Requests \ {q} : reply'[r] = reply[r], TokenLocal(q)'
    PROVE  TokenInv'
<1> SUFFICES ASSUME NEW r \in Requests \ {q} PROVE TokenLocal(r)'
  BY DEF TokenInv
<1>1. TokenLocal(r)
  BY DEF TokenInv
<1>2. ContextInv2(r)' /\ SanitizedInv(r)'
  BY <1>1 DEF Others, TokenLocal, ContextInv2, SanitizedInv, InFlight
<1>3. ReplyInv(r)' /\ AnswerInv(r)'
  BY <1>1 DEF Others, TokenLocal, ReplyInv, AnswerInv
<1> QED BY <1>2, <1>3 DEF TokenLocal

\* A handler that ends with an answer which is no 200.
LEMMA EndKeepsTokens ==
    ASSUME TokenInv, NEW q \in Requests, GInv', Others(q), NEW answer,
           pc'[q] = "finish", response'[q] = answer,
           answer.status \in Statuses \ {200}, answer.content = << >>,
           UNCHANGED <<context, text, prompt, reply>>
    PROVE  TokenInv'
<1>1. TokenLocal(q)
  BY DEF TokenInv
<1>2. ContextInv2(q)' /\ SanitizedInv(q)' /\ ReplyInv(q)'
  BY <1>1 DEF TokenLocal, ContextInv2, SanitizedInv, ReplyInv, InFlight
<1>3. AnswerInv(q)'
  BY DEF AnswerInv, Restoration, OwnValues, Fragments
<1>4. reply' = [r \in Requests |-> reply'[r]] /\ \A r \in Requests : reply'[r] = reply[r]
  BY DEF TokenInv
<1> QED BY <1>2, <1>3, <1>4, OneTokenRequest DEF TokenLocal

\* The errors the handler answers are such answers.
LEMMA ErrorIsNoReply ==
    ASSUME NEW status, NEW code
    PROVE  Error(status, code).status = status /\ Error(status, code).content = << >>
  BY DEF Error

LEMMA RespondKeepsTokens ==
    ASSUME TokenInv, NEW q \in Requests, GInv', NEW answer, Respond(q, answer),
           answer.status \in Statuses \ {200}, answer.content = << >>,
           UNCHANGED <<context, text, prompt, reply, records>>
    PROVE  TokenInv'
<1>1. pc'[q] = "finish" /\ response'[q] = answer
  BY DEF Respond, Goto, TokenInv, GInv, Shape
<1>2. Others(q)
  BY DEF Respond, Goto, TokenInv, GInv, Shape, Others
<1> QED BY <1>1, <1>2, EndKeepsTokens

LEMMA FailWithKeepsTokens ==
    ASSUME TokenInv, NEW q \in Requests, GInv', NEW event, NEW answer,
           FailWith(q, event, answer),
           answer.status \in Statuses \ {200}, answer.content = << >>,
           UNCHANGED <<context, text, prompt, reply>>
    PROVE  TokenInv'
<1>1. PICK result \in AppendResults :
          /\ AppendRecord(q, event, answer.status, result)
          /\ Respond(q, IF result = "raised" THEN Unhandled ELSE answer)
  BY DEF FailWith
<1>2. Unhandled.status \in Statuses \ {200} /\ Unhandled.content = << >>
  BY DEF Unhandled, Error, Statuses
<1>3. PICK said : /\ Respond(q, said) /\ said.status \in Statuses \ {200}
                  /\ said.content = << >>
  BY <1>1, <1>2
<1>4. pc'[q] = "finish" /\ response'[q] = said
  BY <1>3 DEF Respond, Goto, TokenInv, GInv, Shape
<1>5. Others(q)
  BY <1>1, <1>3 DEF AppendRecord, Respond, Goto, TokenInv, GInv, Shape, Others
<1> QED BY <1>3, <1>4, <1>5, EndKeepsTokens

LEMMA CreateContextKeepsTokens ==
    ASSUME TokenInv, NEW q \in Requests, GInv', CreateContext(q) PROVE TokenInv'
<1>1. PICK ns \in Namespaces \ NamespacesIn(Body[q]) :
          context' = [context EXCEPT ![q] = NewContext(ns)]
  BY DEF CreateContext
<1>2. /\ pc[q] = "new" /\ pc'[q] = "decide" /\ context'[q] = NewContext(ns)
      /\ Len(prompt[q]) \in {0, Len(Body[q])} /\ AnswerInv(q)
  BY <1>1 DEF CreateContext, Goto, TokenInv, GInv, Shape, TokenLocal, SanitizedInv
<1>3. Others(q)
  BY <1>1 DEF CreateContext, Goto, TokenInv, GInv, Shape, Others
<1>4. ContextInv2(q)'
  <2>1. Len(Body[q]) \in Nat
    BY BodyAssumption, LenProperties
  <2> QED BY <1>1, <1>2, <2>1, NewContextOK DEF ContextInv2
<1>5. SanitizedInv(q)' /\ ReplyInv(q)' /\ AnswerInv(q)'
  BY <1>2 DEF CreateContext, SanitizedInv, ReplyInv, InFlight, AnswerInv
<1>6. reply' = [r \in Requests |-> reply'[r]] /\ \A r \in Requests : reply'[r] = reply[r]
  BY DEF CreateContext, TokenInv
<1> QED BY <1>3, <1>4, <1>5, <1>6, OneTokenRequest DEF TokenLocal

LEMMA StartSanitizingKeepsTokens ==
    ASSUME TokenInv, NEW q \in Requests, GInv', StartSanitizing(q) PROVE TokenInv'
<1>1. /\ pc[q] = "decide" /\ pc'[q] = "sanitize" /\ text[q] = << >> /\ TokenLocal(q)
  BY DEF StartSanitizing, Goto, TokenInv, GInv, Shape, Local, PromptInv
<1>2. Others(q)
  BY DEF StartSanitizing, Goto, TokenInv, GInv, Shape, Others
<1>3. ContextInv2(q)' /\ ReplyInv(q)' /\ AnswerInv(q)'
  BY <1>1 DEF StartSanitizing, TokenLocal, ContextInv2, ReplyInv, AnswerInv
<1>4. SanitizedInv(q)'
  <2>1. /\ context[q].entries = {} /\ \A e \in Entities : context[q].count[e] = 0
    BY <1>1, NewContextOK DEF TokenLocal, ContextInv2
  <2>2. /\ << >> \in Seq(Fragments(<< >>)) /\ Len(<< >>) = 0 /\ DOMAIN << >> = {}
        /\ Len(Body[q]) \in Nat
    BY BodyAssumption, LenProperties DEF Fragments
  <2>3. Faithful(Body[q], context[q], << >>)
    BY <2>1, <2>2 DEF Faithful
  <2> QED BY <1>1, <2>1, <2>2, <2>3 DEF StartSanitizing, TokenLocal, SanitizedInv, InFlight
<1>5. reply' = [r \in Requests |-> reply'[r]] /\ \A r \in Requests : reply'[r] = reply[r]
  BY DEF StartSanitizing, TokenInv
<1> QED BY <1>2, <1>3, <1>4, <1>5, OneTokenRequest DEF TokenLocal

LEMMA SanitizeFragmentKeepsTokens ==
    ASSUME TokenInv, NEW q \in Requests, GInv', SanitizeFragment(q) PROVE TokenInv'
<1> DEFINE f == Body[q][Len(text[q]) + 1]
           out == Mediate(Policy, context[q], f)
<1>1. /\ TokenLocal(q) /\ pc[q] = "sanitize" /\ pc' = pc
      /\ text' = [text EXCEPT ![q] = Append(@, out)]
      /\ context' = IF Tokenizes(Policy, f) THEN [context EXCEPT ![q] = Minted(@, f)] ELSE context
      /\ Len(text[q]) < Len(Body[q])
  BY DEF SanitizeFragment, TokenInv
<1>2. /\ CtxOK(context[q]) /\ Faithful(Body[q], context[q], text[q])
      /\ \A e \in Entities : context[q].count[e] <= Len(text[q])
      /\ context[q].ns \notin NamespacesIn(Body[q])
      /\ context[q].ns \in Namespaces \cup {NoNamespace}
  BY <1>1 DEF TokenLocal, ContextInv2, SanitizedInv
<1>3. Len(Body[q]) \in Nat /\ Len(text[q]) \in Nat /\ Len(text[q]) + 1 \in DOMAIN Body[q]
  <2>1. Len(Body[q]) \in Nat /\ DOMAIN Body[q] = 1 .. Len(Body[q])
    BY BodyAssumption, LenProperties
  <2>2. Len(text[q]) \in Nat
    BY <1>2, LenProperties DEF Faithful
  <2> QED BY <1>1, <2>1, <2>2
<1>4. text'[q] = Append(text[q], out)
  BY <1>1 DEF TokenInv, GInv, Shape
<1>5. /\ CtxOK(context'[q]) /\ context'[q].ns = context[q].ns
      /\ \A e \in Entities : context'[q].count[e] <= Len(text[q]) + 1
      /\ Faithful(Body[q], context'[q], text'[q]) /\ Len(text'[q]) = Len(text[q]) + 1
  <2>1. CASE Tokenizes(Policy, f)
    <3> DEFINE entry == [token |-> TokenFor(context[q], f), value |-> f.value]
    <3>1. context'[q] = Minted(context[q], f) /\ out = TokenFor(context[q], f)
      <4>1. context' = [context EXCEPT ![q] = Minted(@, f)]
        BY <1>1, <2>1
      <4>2. out = TokenFor(context[q], f)
        BY <2>1 DEF Mediate, Tokenizes
      <4> QED BY <4>1, <4>2 DEF TokenInv, GInv, Shape
    <3>2. /\ CtxOK(context'[q]) /\ context'[q].ns = context[q].ns
          /\ out.type = f.type /\ out.kind = "token"
          /\ context'[q].entries = context[q].entries \cup {entry}
          /\ \A e \in Entities : context'[q].count[e] <= context[q].count[e] + 1
      BY <1>2, <2>1, <3>1, TokenForMints
    <3>3. f = Text(f.type, f.value)
      BY <1>3, <2>1, FragmentAssumption DEF Tokenizes, Detected
    <3>4. entry.token = out /\ Stands(Body[q], entry, Len(text[q]) + 1)
      BY <3>1, <3>2, <3>3 DEF Stands
    <3>5. \A e \in Entities : context'[q].count[e] <= Len(text[q]) + 1
      <4>1. context[q].count \in [Entities -> Nat] /\ context'[q].count \in [Entities -> Nat]
        BY <1>2, <3>2 DEF CtxOK
      <4> QED BY <1>2, <1>3, <3>2, <4>1
    <3> HIDE DEF entry, out
    <3>6. /\ context[q].entries \subseteq context'[q].entries
          /\ \E m \in context'[q].entries : m.token = out /\ Stands(Body[q], m, Len(text[q]) + 1)
          /\ \A m \in context'[q].entries :
                m \in context[q].entries \/ (m.token = out /\ Stands(Body[q], m, Len(text[q]) + 1))
      BY <3>2, <3>4
    <3>7. Faithful(Body[q], context'[q], Append(text[q], out))
          /\ Len(Append(text[q], out)) = Len(text[q]) + 1
      BY <1>1, <1>2, <1>3, <3>6, FaithfulGrows
    <3> QED BY <1>4, <3>2, <3>5, <3>7
  <2>2. CASE ~ Tokenizes(Policy, f)
    <3>1. context'[q] = context[q] /\ (out.kind = "token" => out = f)
      BY <1>1, <2>2, OthersAreNoTokens
    <3>2. \A e \in Entities : context'[q].count[e] <= Len(text[q]) + 1
      <4>1. context[q].count \in [Entities -> Nat]
        BY <1>2 DEF CtxOK
      <4> QED BY <1>2, <1>3, <3>1, <4>1
    <3> HIDE DEF out
    <3>3. Faithful(Body[q], context[q], Append(text[q], out))
          /\ Len(Append(text[q], out)) = Len(text[q]) + 1
      BY <1>1, <1>2, <1>3, <3>1, FaithfulGrows
    <3> QED BY <1>2, <1>4, <3>1, <3>2, <3>3
  <2> QED BY <2>1, <2>2
<1>6. ContextInv2(q)'
  <2>1. \A e \in Entities : context'[q].count[e] <= Len(Body[q])
    <3>1. context'[q].count \in [Entities -> Nat]
      BY <1>5 DEF CtxOK
    <3> QED BY <1>1, <1>3, <1>5, <3>1
  <2> QED BY <1>1, <1>2, <1>5, <2>1 DEF ContextInv2
<1>7. SanitizedInv(q)' /\ ReplyInv(q)' /\ AnswerInv(q)'
  BY <1>1, <1>5 DEF SanitizeFragment, TokenLocal, SanitizedInv, InFlight, ReplyInv, AnswerInv
<1>8. Others(q)
  BY <1>1 DEF SanitizeFragment, TokenInv, GInv, Shape, Others
<1>9. reply' = [r \in Requests |-> reply'[r]] /\ \A r \in Requests : reply'[r] = reply[r]
  BY DEF SanitizeFragment, TokenInv
<1> QED BY <1>6, <1>7, <1>8, <1>9, OneTokenRequest DEF TokenLocal

LEMMA CallProviderKeepsTokens ==
    ASSUME TokenInv, NEW q \in Requests, GInv', CallProvider(q) PROVE TokenInv'
<1>1. /\ TokenLocal(q) /\ pc[q] = "sanitize" /\ pc'[q] = "await" /\ prompt'[q] = text[q]
      /\ response[q] = NoResponse /\ Len(text[q]) = Len(Body[q])
  BY DEF CallProvider, Goto, TokenInv, GInv, Shape, Local, RecordInv
<1>2. Others(q)
  BY DEF CallProvider, Goto, TokenInv, GInv, Shape, Others
<1>3. ContextInv2(q)' /\ SanitizedInv(q)' /\ ReplyInv(q)'
  BY <1>1 DEF CallProvider, TokenLocal, ContextInv2, SanitizedInv, ReplyInv, InFlight
<1>4. AnswerInv(q)'
  BY <1>1 DEF CallProvider, TokenLocal, AnswerInv, Restoration, NoResponse
<1>5. reply' = [r \in Requests |-> reply'[r]] /\ \A r \in Requests : reply'[r] = reply[r]
  BY DEF CallProvider, TokenInv
<1> QED BY <1>2, <1>3, <1>4, <1>5, OneTokenRequest DEF TokenLocal

LEMMA ProviderAnswersKeepsTokens ==
    ASSUME TokenInv, NEW q \in Requests, GInv', ProviderAnswers(q) PROVE TokenInv'
<1>1. PICK t : reply' = [reply EXCEPT ![q] = t] /\ text' = [text EXCEPT ![q] = t]
  BY DEF ProviderAnswers
<1>2. /\ TokenLocal(q) /\ pc[q] = "await" /\ pc'[q] = "received" /\ response[q] = NoResponse
      /\ reply'[q] = t /\ text'[q] = t
  BY <1>1 DEF ProviderAnswers, Goto, TokenInv, GInv, Shape, Local, RecordInv
<1>3. Others(q)
  BY <1>1 DEF ProviderAnswers, Goto, TokenInv, GInv, Shape, Others
<1>4. ContextInv2(q)' /\ SanitizedInv(q)' /\ ReplyInv(q)'
  BY <1>2 DEF ProviderAnswers, TokenLocal, ContextInv2, SanitizedInv, ReplyInv, InFlight
<1>5. AnswerInv(q)'
  BY <1>2 DEF ProviderAnswers, TokenLocal, AnswerInv, Restoration, NoResponse
<1>6. /\ reply' = [r \in Requests |-> reply'[r]]
      /\ \A r \in Requests \ {q} : reply'[r] = reply[r]
  BY <1>1 DEF TokenInv
<1> QED BY <1>3, <1>4, <1>5, <1>6, OneTokenRequest DEF TokenLocal

LEMMA ScanReplyKeepsTokens ==
    ASSUME TokenInv, NEW q \in Requests, GInv', ScanReply(q) PROVE TokenInv'
<1>1. /\ TokenLocal(q) /\ pc[q] = "received" /\ pc'[q] = "seal" /\ text[q] = reply[q]
  BY DEF ScanReply, Goto, TokenInv, GInv, Shape, TokenLocal, ReplyInv
<1>2. Others(q) /\ text'[q] = IF ScanEnabled THEN ScanText(text[q]) ELSE text[q]
  <2>1. CASE ScanEnabled
    BY <2>1 DEF ScanReply, Goto, TokenInv, GInv, Shape, Others
  <2>2. CASE ~ ScanEnabled
    BY <2>2 DEF ScanReply, Goto, TokenInv, GInv, Shape, Others
  <2> QED BY <2>1, <2>2
<1>3. ContextInv2(q)' /\ SanitizedInv(q)'
  BY <1>1 DEF ScanReply, TokenLocal, ContextInv2, SanitizedInv, InFlight
<1>4. ReplyInv(q)'
  <2>1. /\ DOMAIN text'[q] = DOMAIN reply[q]
        /\ \A k \in DOMAIN reply[q] : reply[q][k].kind = "token" => text'[q][k] = reply[q][k]
        /\ ScanEnabled => \A f \in Fragments(text'[q]) : Sendable(f)
    BY <1>1, <1>2, ScanTextFacts
  <2> QED BY <1>1, <2>1 DEF ScanReply, ReplyInv
<1>5. AnswerInv(q)'
  BY <1>1 DEF ScanReply, TokenLocal, AnswerInv
<1>6. reply' = [r \in Requests |-> reply'[r]] /\ \A r \in Requests : reply'[r] = reply[r]
  BY DEF ScanReply, TokenInv
<1> QED BY <1>2, <1>3, <1>4, <1>5, <1>6, OneTokenRequest DEF TokenLocal

LEMMA SealCycleKeepsTokens ==
    ASSUME TokenInv, NEW q \in Requests, GInv', SealCycle(q) PROVE TokenInv'
<1>1. PICK result \in AppendResults :
          /\ AppendRecord(q, "chat_completion", 200, result)
          /\ CASE result = "ok"     -> Goto(q, "restore") /\ UNCHANGED response
               [] result = "raised" -> Respond(q, Unhandled)
               [] result \in {"write_error", "late_error"} -> Respond(q, AuditWriteError)
  BY DEF SealCycle
<1>2. /\ TokenLocal(q) /\ pc[q] = "seal" /\ UNCHANGED <<context, text, prompt, reply>>
      /\ result \in {"ok", "write_error", "late_error", "raised"}
  BY AppendAssumption DEF SealCycle, TokenInv
<1>3. Others(q)
  BY <1>1, <1>2 DEF AppendRecord, Goto, Respond, TokenInv, GInv, Shape, Others
<1>4. CASE result = "ok"
  <2>1. pc'[q] = "restore" /\ response' = response
    BY <1>1, <1>4 DEF Goto, TokenInv, GInv, Shape
  <2>2. ContextInv2(q)' /\ SanitizedInv(q)' /\ ReplyInv(q)' /\ AnswerInv(q)'
    BY <1>2, <2>1
       DEF TokenLocal, ContextInv2, SanitizedInv, ReplyInv, AnswerInv, InFlight
  <2>3. reply' = [r \in Requests |-> reply'[r]] /\ \A r \in Requests : reply'[r] = reply[r]
    BY <1>2 DEF TokenInv
  <2> QED BY <1>3, <2>2, <2>3, OneTokenRequest DEF TokenLocal
<1>5. CASE result # "ok"
  <2>1. PICK answer : /\ Respond(q, answer) /\ answer.status \in Statuses \ {200}
                      /\ answer.content = << >>
    <3>1. /\ Unhandled.status \in Statuses \ {200} /\ Unhandled.content = << >>
          /\ AuditWriteError.status \in Statuses \ {200} /\ AuditWriteError.content = << >>
      BY ErrorIsNoReply DEF Unhandled, AuditWriteError, Statuses
    <3>2. Respond(q, Unhandled) \/ Respond(q, AuditWriteError)
      <4>1. CASE result = "raised"
        BY <1>1, <4>1
      <4>2. CASE result \in {"write_error", "late_error"}
        BY <1>1, <4>2
      <4> QED BY <1>2, <1>5, <4>1, <4>2
    <3> QED BY <3>1, <3>2
  <2>2. pc'[q] = "finish" /\ response'[q] = answer
    BY <2>1 DEF Respond, Goto, TokenInv, GInv, Shape
  <2> QED BY <1>2, <1>3, <2>1, <2>2, EndKeepsTokens
<1> QED BY <1>4, <1>5

LEMMA ReturnReplyKeepsTokens ==
    ASSUME TokenInv, NEW q \in Requests, GInv', ReturnReply(q) PROVE TokenInv'
<1>1. PICK answer :
          /\ Respond(q, answer) /\ answer.status = 200
          /\ answer.content = IF q \in RehydrateFor
                                THEN Rehydrate(context[q], text[q])
                                ELSE text[q]
  <2> DEFINE ok == [status |-> 200, code |-> "ok",
                    content |-> IF q \in RehydrateFor
                                  THEN Rehydrate(context[q], text[q])
                                  ELSE text[q]]
  <2>1. /\ Respond(q, ok) /\ ok.status = 200
        /\ ok.content = IF q \in RehydrateFor THEN Rehydrate(context[q], text[q]) ELSE text[q]
    BY DEF ReturnReply
  <2> HIDE DEF ok
  <2> QED BY <2>1
<1>2. /\ TokenLocal(q) /\ pc[q] = "restore" /\ pc'[q] = "finish" /\ response'[q] = answer
      /\ UNCHANGED <<context, text, prompt, reply, records>>
  BY <1>1 DEF ReturnReply, Respond, Goto, TokenInv, GInv, Shape
<1>3. Others(q)
  BY <1>1, <1>2 DEF Respond, Goto, TokenInv, GInv, Shape, Others
<1>4. ContextInv2(q)' /\ SanitizedInv(q)' /\ ReplyInv(q)'
  BY <1>2 DEF TokenLocal, ContextInv2, SanitizedInv, ReplyInv, InFlight
<1>5. /\ CtxOK(context[q]) /\ Faithful(Body[q], context[q], prompt[q])
      /\ DOMAIN text[q] = DOMAIN reply[q]
      /\ \A k \in DOMAIN reply[q] : reply[q][k].kind = "token" => text[q][k] = reply[q][k]
      /\ ScanEnabled => \A f \in Fragments(text[q]) : Sendable(f)
  BY <1>2 DEF TokenLocal, ContextInv2, SanitizedInv, ReplyInv, InFlight
<1>6. Restoration(q, answer, reply[q], prompt[q]) /\ OwnValues(q, answer)
  BY <1>1, <1>5, RehydrateRestores, RehydrateIsOwn
<1>7. AnswerInv(q)'
  BY <1>1, <1>2, <1>6 DEF AnswerInv, Statuses
<1>8. reply' = [r \in Requests |-> reply'[r]] /\ \A r \in Requests : reply'[r] = reply[r]
  BY <1>2 DEF TokenInv
<1> QED BY <1>3, <1>4, <1>7, <1>8, OneTokenRequest DEF TokenLocal

\* clear() leaves an empty context.
LEMMA ClearedIsNew ==
    ASSUME NEW ctx
    PROVE  /\ CtxOK(Cleared(ctx)) /\ Cleared(ctx).ns = ctx.ns
           /\ \A e \in Entities : Cleared(ctx).count[e] = 0
           /\ Cleared(ctx) = NewContext(ctx.ns)
  BY NewContextOK DEF Cleared

LEMMA ClearContextKeepsTokens ==
    ASSUME TokenInv, NEW q \in Requests, GInv', ClearContext(q) PROVE TokenInv'
<1>1. /\ TokenLocal(q) /\ pc[q] = "finish" /\ pc'[q] = "done"
      /\ context'[q] = Cleared(context[q])
  BY DEF ClearContext, Goto, TokenInv, GInv, Shape
<1>2. Others(q)
  BY DEF ClearContext, Goto, TokenInv, GInv, Shape, Others
<1>3. ContextInv2(q)'
  <2>1. Len(Body[q]) \in Nat
    BY BodyAssumption, LenProperties
  <2> QED BY <1>1, <2>1, ClearedIsNew DEF TokenLocal, ContextInv2
<1>4. SanitizedInv(q)' /\ ReplyInv(q)' /\ AnswerInv(q)'
  BY <1>1 DEF ClearContext, TokenLocal, SanitizedInv, ReplyInv, AnswerInv, InFlight
<1>5. reply' = [r \in Requests |-> reply'[r]] /\ \A r \in Requests : reply'[r] = reply[r]
  BY DEF ClearContext, TokenInv
<1> QED BY <1>2, <1>3, <1>4, <1>5, OneTokenRequest DEF TokenLocal

LEMMA CrashKeepsTokens ==
    ASSUME TokenInv, GInv', Crash PROVE TokenInv'
<1>1. ASSUME NEW r \in Requests PROVE TokenLocal(r)'
  <2>1. /\ TokenLocal(r) /\ context'[r] = Cleared(context[r])
        /\ pc'[r] = IF pc[r] \in {"new", "done"} THEN pc[r] ELSE "lost"
    BY DEF Crash, TokenInv
  <2>2. Len(Body[r]) \in Nat
    BY BodyAssumption, LenProperties
  <2>3. ContextInv2(r)'
    BY <2>1, <2>2, ClearedIsNew DEF TokenLocal, ContextInv2
  <2>4. SanitizedInv(r)' /\ ReplyInv(r)' /\ AnswerInv(r)'
    BY <2>1 DEF Crash, TokenLocal, SanitizedInv, ReplyInv, AnswerInv, InFlight
  <2> QED BY <2>3, <2>4 DEF TokenLocal
<1>2. reply' = [r \in Requests |-> reply'[r]]
  BY DEF Crash, TokenInv
<1> QED BY <1>1, <1>2 DEF TokenInv

-----------------------------------------------------------------------------

\* The invariant is inductive.
LEMMA NextTokenInv == TokenInv /\ [Next]_vars => TokenInv'
<1> SUFFICES ASSUME TokenInv, [Next]_vars PROVE TokenInv'
  OBVIOUS
<1>1. GInv'
  BY NextGInv DEF TokenInv
<1>2. CASE UNCHANGED vars
  <2>1. ASSUME NEW r \in Requests PROVE TokenLocal(r)'
    <3>1. TokenLocal(r)
      BY DEF TokenInv
    <3> QED BY <1>2, <3>1
            DEF vars, TokenLocal, ContextInv2, SanitizedInv, ReplyInv, AnswerInv, InFlight
  <2> QED BY <1>1, <1>2, <2>1 DEF vars, TokenInv
<1>3. CASE Crash
  BY <1>1, <1>3, CrashKeepsTokens
<1>4. ASSUME NEW r \in Requests, RejectInvalid(r) \/ Handle(r) \/ Cancelled(r)
      PROVE  TokenInv'
  <2>1. /\ \A code : /\ Error(500, code).status \in Statuses \ {200}
                     /\ Error(502, code).status \in Statuses \ {200}
                     /\ Error(504, code).status \in Statuses \ {200}
                     /\ Error(400, code).status \in Statuses \ {200}
                     /\ Error(422, code).status \in Statuses \ {200}
                     /\ Error(0, code).status \in Statuses \ {200}
        /\ \A status, code : Error(status, code).content = << >>
    BY ErrorIsNoReply DEF Statuses
  <2>2. Unhandled.status \in Statuses \ {200} /\ Unhandled.content = << >>
    BY <2>1 DEF Unhandled
  <2>3. CASE RejectInvalid(r)
    BY <1>1, <2>1, <2>3, RespondKeepsTokens DEF RejectInvalid
  <2>4. CASE CreateContext(r)
    BY <1>1, <2>4, CreateContextKeepsTokens
  <2>5. CASE DetectionFails(r)
    BY <1>1, <2>1, <2>5, FailWithKeepsTokens DEF DetectionFails
  <2>6. CASE Block(r)
    BY <1>1, <2>1, <2>6, FailWithKeepsTokens DEF Block
  <2>7. CASE StartSanitizing(r)
    BY <1>1, <2>7, StartSanitizingKeepsTokens
  <2>8. CASE SanitizeFragment(r)
    BY <1>1, <2>8, SanitizeFragmentKeepsTokens
  <2>9. CASE SanitizingFails(r)
    BY <1>1, <2>1, <2>9, FailWithKeepsTokens DEF SanitizingFails
  <2>10. CASE CallProvider(r)
    BY <1>1, <2>10, CallProviderKeepsTokens
  <2>11. CASE ProviderAnswers(r)
    BY <1>1, <2>11, ProviderAnswersKeepsTokens
  <2>12. CASE ProviderFails(r)
    <3>1. PICK answer \in {Error(504, "provider_timeout"), Error(502, "provider_auth"),
                           Error(502, "provider_response")} :
              FailWith(r, "provider_error", answer)
      BY <2>12 DEF ProviderFails
    <3>2. answer.status \in Statuses \ {200} /\ answer.content = << >>
      BY <2>1
    <3> QED BY <1>1, <2>12, <3>1, <3>2, FailWithKeepsTokens DEF ProviderFails
  <2>13. CASE HashFails(r)
    BY <1>1, <2>2, <2>13, RespondKeepsTokens DEF HashFails
  <2>14. CASE ScanReply(r)
    BY <1>1, <2>14, ScanReplyKeepsTokens
  <2>15. CASE ScanFails(r)
    BY <1>1, <2>1, <2>15, FailWithKeepsTokens DEF ScanFails
  <2>16. CASE RedactAllFails(r)
    BY <1>1, <2>2, <2>16, RespondKeepsTokens DEF RedactAllFails
  <2>17. CASE SealCycle(r)
    BY <1>1, <2>17, SealCycleKeepsTokens
  <2>18. CASE ReturnReply(r)
    BY <1>1, <2>18, ReturnReplyKeepsTokens
  <2>19. CASE RenderFails(r)
    BY <1>1, <2>2, <2>19, RespondKeepsTokens DEF RenderFails
  <2>20. CASE ClearContext(r)
    BY <1>1, <2>20, ClearContextKeepsTokens
  <2>21. CASE Cancelled(r)
    BY <1>1, <2>1, <2>21, RespondKeepsTokens DEF Cancelled
  <2> QED BY <1>4, <2>3, <2>4, <2>5, <2>6, <2>7, <2>8, <2>9, <2>10, <2>11, <2>12, <2>13,
             <2>14, <2>15, <2>16, <2>17, <2>18, <2>19, <2>20, <2>21 DEF Handle
<1> QED BY <1>2, <1>3, <1>4 DEF Next

\* A token in the text, in a context and in a reply mean the same thing at every
\* step, for requests that share a namespace as for those that do not.
THEOREM TokenInvariance == Spec => []TokenInv
<1> QED BY InitTokenInv, NextTokenInv, PTL DEF Spec

\* Handlers are at known places, a context's counters never pass the number of
\* fragments, a prompt is a whole text or nothing, and every answer's status is
\* one of those the error handlers of create_app produce.
THEOREM TypesHold == Spec => []TypeOK
<1> QED BY TokenInvariance, TokenConsequences, PTL

\* token_for never lets two values share a token, nor mints one the caller wrote:
\* while the provider holds a prompt, each of its tokens restores to the fragment
\* it replaced.
THEOREM PromptsCanBeRestored == Spec => []TokensResolvable
<1> QED BY TokenInvariance, TokenConsequences, PTL

\* rehydrate_completion gives the caller its own value for each of its tokens the
\* provider repeats, and every other token back unchanged.
THEOREM OwnTokensComeBack == Spec => []OwnTokensRestored
<1> QED BY TokenInvariance, TokenConsequences, PTL

\* With the response scan, an answer holds no value of a mediated type but those
\* its own request wrote, the policy tokenizes and the caller asked to restore.
THEOREM NothingElseComesBack == Spec => []OnlyOwnValuesReturn
<1> QED BY TokenInvariance, TokenConsequences, PTL
=============================================================================
