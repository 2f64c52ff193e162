-------------------------- MODULE ProviderAdapter ---------------------------
(***************************************************************************)
(* One call of chat on an adapter of gateway/llm_client.py: the prompt is  *)
(* translated, posted with httpx, and the answer normalized or turned into *)
(* an error.  Time is counted in ticks; httpx bounds the wait for each     *)
(* operation (connect, write, read of the next piece), not their sum.      *)
(*                                                                         *)
(* An answer is the HTTP status with what its body is.  The parts of a     *)
(* body are the choices of OpenAI or the content blocks of Anthropic.      *)
(***************************************************************************)
EXTENDS Integers, Sequences, SequencesExt

CONSTANTS
    Adapters,      \* the adapters build_client may construct
    Prompts,       \* the mediated messages chat may be given, as [role, content]
    Statuses,      \* HTTP statuses the provider may answer with
    Bodies,        \* what it may answer
    Timeout        \* provider_timeout_seconds, in ticks

ASSUME AdapterAssumption == Adapters \subseteq {"openai", "anthropic", "mock"}
\* ChatMessage accepts these roles only.
ASSUME PromptsAssumption ==
    \A p \in Prompts :
        /\ p \in Seq(Range(p))
        /\ \A k \in DOMAIN p : p[k].role \in {"system", "user", "assistant"}
ASSUME AnswersAssumption ==
    /\ Statuses \subseteq Nat
    /\ \A body \in Bodies : body.kind = "dict" =>
          /\ body.parts \in Seq(Range(body.parts))
          /\ body.usage \in {"ok", "malformed", "infinite"}
ASSUME TimeoutAssumption == Timeout \in Nat \ {0}

VARIABLES
    adapter,    \* which adapter it is
    pc,         \* where the call is
    prompt,     \* the messages it was given
    request,    \* the body it posts
    silent,     \* has the provider stopped for good?
    idle,       \* ticks since the last operation completed
    answer,     \* the answer that arrived, as a sequence
    result      \* what chat returned or raised

vars == <<adapter, pc, prompt, request, silent, idle, answer, result>>

NoRequest == [system |-> << >>, messages |-> << >>]

Completion(contents) == [result |-> "completion", contents |-> contents]
Raised(error)        == [result |-> error, contents |-> << >>]
NoResult             == Raised("none")

Init ==
    /\ adapter \in Adapters
    /\ pc = "idle" /\ prompt = << >> /\ request = NoRequest
    /\ silent = FALSE /\ idle = 0
    /\ answer = << >> /\ result = NoResult

-----------------------------------------------------------------------------
(* Translation of the request.                                             *)

\* The elements of s at some of its positions, in their order.
Kept(s, positions) ==
    LET upto[n \in 0 .. Len(s)] ==
            IF n = 0 THEN << >>
            ELSE IF n \in positions THEN Append(upto[n - 1], s[n]) ELSE upto[n - 1]
    IN  upto[Len(s)]

WithRole(messages, roles) ==
    Kept(messages, {k \in DOMAIN messages : messages[k].role \in roles})

Contents(messages) == [k \in DOMAIN messages |-> messages[k].content]

\* Mutation: of several system messages the last one is the system prompt.
Translate_LastSystem(messages) ==
    IF adapter = "anthropic"
      THEN [system   |-> LET s == Contents(WithRole(messages, {"system"}))
                         IN  IF s = << >> THEN s ELSE <<Last(s)>>,
            messages |-> WithRole(messages, {"user", "assistant"})]
      ELSE [system |-> << >>, messages |-> messages]

\* Anthropic takes the system prompt, its parts joined, as a field of its own.
Translate(messages) ==
    IF adapter = "anthropic"
      THEN [system   |-> Contents(WithRole(messages, {"system"})),
            messages |-> WithRole(messages, {"user", "assistant"})]
      ELSE [system |-> << >>, messages |-> messages]

-----------------------------------------------------------------------------
(* Normalization of the answer.  A part is [kind, text].  One of kind      *)
(* "other" holds no text (a block of another type, content that is null),  *)
(* one of kind "broken" has a field missing or of a wrong type.            *)

KindsIn(body) == {body.parts[k].kind : k \in DOMAIN body.parts}

\* The counts of tokens are read last.  int() of what is no number raises
\* TypeError or ValueError, which are caught; int() of JSON's Infinity raises
\* OverflowError, which is not.
WithUsage(usage, completion) ==
    CASE usage = "ok"        -> completion
      [] usage = "malformed" -> Raised("provider_response")
      [] usage = "infinite"  -> Raised("OverflowError")

\* _normalize_openai_response: there are choices and every one is usable.
NormalizeOpenAI(body) ==
    IF KindsIn(body) = {"text"}
      THEN WithUsage(body.usage, Completion([k \in DOMAIN body.parts |-> <<body.parts[k].text>>]))
      ELSE Raised("provider_response")

TextBlocks(body) ==
    Kept(body.parts, {k \in DOMAIN body.parts : body.parts[k].kind = "text"})

\* Mutation: only the first text block is read.
NormalizeAnthropic_FirstBlock(body) ==
    IF "broken" \in KindsIn(body)
      THEN Raised("provider_response")
      ELSE WithUsage(body.usage,
             Completion(<<IF TextBlocks(body) = << >> THEN << >> ELSE <<TextBlocks(body)[1].text>>>>))

\* The text blocks are joined to one choice, which may be empty.
NormalizeAnthropic(body) ==
    IF "broken" \in KindsIn(body)
      THEN Raised("provider_response")
      ELSE WithUsage(body.usage,
             Completion(<<[k \in DOMAIN TextBlocks(body) |-> TextBlocks(body)[k].text]>>))

\* The part of _post_json after the response arrived, then the normalization.
Interpret(status, body) ==
    CASE status \in {401, 403} -> Raised("provider_auth")
      [] status \notin {401, 403} /\ (status >= 400 \/ body.kind # "dict") ->
           Raised("provider_response")
      [] status < 400 /\ body.kind = "dict" ->
           IF adapter = "openai" THEN NormalizeOpenAI(body) ELSE NormalizeAnthropic(body)

-----------------------------------------------------------------------------
(* The call.                                                               *)

Finish(r) == pc' = "done" /\ result' = r

Begin ==
    /\ pc = "idle"
    /\ \E p \in Prompts : prompt' = p /\ request' = Translate(p)
    /\ pc' = IF adapter = "mock" THEN "echo" ELSE "connect"
    /\ UNCHANGED <<adapter, silent, idle, answer, result>>

\* MockLLMClient answers at once, with the last user message.
Echo ==
    /\ pc = "echo"
    /\ LET users == WithRole(prompt, {"user"})
       IN  Finish(Completion(<<IF users = << >> THEN << >> ELSE <<Last(users).content>>>>))
    /\ UNCHANGED <<adapter, prompt, request, silent, idle, answer>>

InCall == pc \in {"connect", "write", "read"}

\* The connection is there, the request is written, or a piece of the answer
\* arrives: the next operation starts, with a timeout of its own.
Progress ==
    /\ InCall /\ ~ silent
    /\ pc' = IF pc = "connect" THEN "write" ELSE "read"
    /\ idle' = 0
    /\ UNCHANGED <<adapter, prompt, request, silent, answer, result>>

\* The answer is complete.
Receive ==
    /\ pc = "read" /\ ~ silent
    /\ \E status \in Statuses, body \in Bodies :
          /\ answer' = <<[status |-> status, body |-> body]>>
          /\ Finish(Interpret(status, body))
    /\ UNCHANGED <<adapter, prompt, request, silent, idle>>

\* The clock cannot pass the moment at which httpx raises.
Tick ==
    /\ InCall /\ idle < Timeout
    /\ idle' = idle + 1
    /\ UNCHANGED <<adapter, pc, prompt, request, silent, answer, result>>

\* Mutation: the timeout is given for the connection only.
Expire_ConnectOnly ==
    /\ pc = "connect" /\ idle = Timeout
    /\ Finish(Raised("provider_timeout"))
    /\ UNCHANGED <<adapter, prompt, request, silent, idle, answer>>

\* httpx.TimeoutException
Expire ==
    /\ InCall /\ idle = Timeout
    /\ Finish(Raised("provider_timeout"))
    /\ UNCHANGED <<adapter, prompt, request, silent, idle, answer>>

\* Any other httpx.HTTPError: refused, reset, not HTTP.
TransportFails ==
    /\ InCall /\ ~ silent
    /\ Finish(Raised("provider_response"))
    /\ UNCHANGED <<adapter, prompt, request, silent, idle, answer>>

\* The provider, or the network, stops answering.
FallSilent ==
    /\ InCall
    /\ silent' = TRUE
    /\ UNCHANGED <<adapter, pc, prompt, request, idle, answer, result>>

Next ==
    \/ Begin \/ Echo \/ Progress \/ Receive \/ Tick \/ Expire
    \/ TransportFails \/ FallSilent

Spec == Init /\ [][Next]_vars

\* Time passes and the event loop runs; nothing is assumed of the provider.
FairSpec == Spec /\ WF_vars(Echo) /\ WF_vars(Tick) /\ WF_vars(Expire)

-----------------------------------------------------------------------------
(* Properties                                                              *)

\* Every mediated message is in the request, with its role and content, and no
\* other is.  An adapter that leaves the system messages where they are sends the
\* prompt as it is; one that takes them out sends all of them, and the others, in
\* the caller's order.  None stays among the messages for Anthropic, which takes
\* the system prompt as a field of its own.
PromptConveyed ==
    pc # "idle" =>
        /\ request.system = << >> => request.messages = prompt
        /\ request.system # << >> =>
              /\ request.system = Contents(WithRole(prompt, {"system"}))
              /\ WithRole(request.messages, {"user", "assistant"}) =
                    WithRole(prompt, {"user", "assistant"})
              /\ Len(request.system) + Len(request.messages) = Len(prompt)
        /\ adapter = "anthropic" => WithRole(request.messages, {"system"}) = << >>

TextsOf(body) == {p.text : p \in Range(TextBlocks(body))}

\* A completion is made of all the texts of an answer that was no error, and of
\* nothing else: neither an error page nor half an answer becomes content.
NothingLostNothingAdded ==
    answer # << >> /\ result.result = "completion" =>
        /\ answer[1].status < 400
        /\ "broken" \notin KindsIn(answer[1].body)
        /\ UNION {Range(c) : c \in Range(result.contents)} = TextsOf(answer[1].body)

\* A provider that stops answering at any point of the exchange is given up:
\* the call ends, with a timeout if nothing had arrived.
SilenceEnds == silent /\ pc # "done" ~> result = Raised("provider_timeout")
=============================================================================
