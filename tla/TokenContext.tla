---------------------------- MODULE TokenContext ----------------------------
(***************************************************************************)
(* gateway/tokenization.py on texts as sequences of symbols: one request's *)
(* TokenizationContext, the sanitizing of its messages and rehydrate.      *)
(*                                                                         *)
(* Mediation sees a token as one indivisible fragment.  Here a token is    *)
(* four symbols, as TOKEN_PATTERN reads it,                                *)
(*     [[PGW_   namespace   _ENTITY_TYPE_number   ]]                       *)
(* and the caller's text may hold any of them in any order, inside and     *)
(* outside the spans the detector reports: whole tokens, halves of tokens, *)
(* namespaces.  A reply may break a token anywhere.                        *)
(***************************************************************************)
EXTENDS Integers, FiniteSets, SequencesExt

CONSTANTS Namespaces,     \* what secrets.token_hex can draw
          EntityTypes,    \* the types whose action is TOKENIZE
          Written,        \* the (type, number) pairs that callers write
          MaxLength,      \* of each message, the bound on its symbols
          MaxAttempts     \* _NAMESPACE_ATTEMPTS

ASSUME MaxLengthAssumption == MaxLength \in Seq(Nat) /\ MaxLength # << >>

VARIABLES
    texts,      \* the messages of the request
    namespace,  \* self.namespace, as a sequence that is empty until it is drawn
    attempts,   \* the candidates drawn so far
    mapping,    \* token_to_value, with the entity type of _value_to_token
    at,         \* the prefix of each message that is not sanitized yet
    pieces      \* the rest of it: what was written and what is sent instead

vars == <<texts, namespace, attempts, mapping, at, pieces>>

Open  == <<"open">>
Close == <<"close">>
Name(n)      == <<"namespace", n>>
Label(e, k)  == <<"label", e, k>>

Token(n, e, k) == <<Open, Name(n), Label(e, k), Close>>

Symbols ==
    {Open, Close} \cup {Name(n) : n \in Namespaces} \cup {Label(w[1], w[2]) : w \in Written}

Messages == DOMAIN MaxLength

\* Messages are written symbol by symbol before the request is made.
Init ==
    /\ texts = [m \in Messages |-> << >>]
    /\ namespace = << >> /\ attempts = 0 /\ mapping = << >>
    /\ at = [m \in Messages |-> 0] /\ pieces = [m \in Messages |-> << >>]

\* The caller writes one more symbol.
Write ==
    /\ attempts = 0
    /\ \E m \in Messages, s \in Symbols :
          /\ Len(texts[m]) < MaxLength[m]
          /\ texts' = [texts EXCEPT ![m] = Append(@, s)]
          /\ at' = [at EXCEPT ![m] = @ + 1]
    /\ UNCHANGED <<namespace, attempts, mapping, pieces>>

\* Mutation: only the first message is searched for the candidate.
Occurs_FirstMessage(n) == Name(n) \in Range(texts[1])

\* candidate in "\n".join(texts)
Occurs(n) == \E m \in Messages : Name(n) \in Range(texts[m])

\* One round of the constructor's loop.  After the last one without a free
\* candidate it raises RuntimeError and the request ends there.
DrawNamespace ==
    /\ namespace = << >>
    /\ attempts < MaxAttempts
    /\ attempts' = attempts + 1
    /\ \E n \in Namespaces : namespace' = IF Occurs(n) THEN << >> ELSE <<n>>
    /\ UNCHANGED <<texts, mapping, at, pieces>>

-----------------------------------------------------------------------------

Minted(e) == {token \in DOMAIN mapping : mapping[token].type = e}

\* Mutation: every occurrence of a value gets a token of its own.
TokenFor_Fresh(e, value) ==
    Token(Head(namespace), e, Cardinality(Minted(e)) + 1)

\* token_for: the token the value has, or the next one of its type.
TokenFor(e, value) ==
    LET existing == {token \in Minted(e) : mapping[token].value = value}
    IN  IF existing # {}
          THEN CHOOSE token \in existing : TRUE
          ELSE Token(Head(namespace), e, Cardinality(Minted(e)) + 1)

\* Message m is sanitized from its end: the symbol there is outside every
\* detected span and stays ...
Keep(m) ==
    /\ namespace # << >> /\ at[m] > 0
    /\ at' = [at EXCEPT ![m] = @ - 1]
    /\ pieces' = [pieces EXCEPT ![m] =
                     <<[type |-> "text", written |-> <<texts[m][at[m]]>>,
                        sent |-> <<texts[m][at[m]]>>]>> \o @]
    /\ UNCHANGED <<texts, namespace, attempts, mapping>>

\* ... or ends a span detected as e, which its token replaces.
Tokenize(m) ==
    /\ namespace # << >>
    /\ \E e \in EntityTypes, length \in 1 .. at[m] :
          LET value == SubSeq(texts[m], at[m] - length + 1, at[m])
              token == TokenFor(e, value)
          IN  /\ at' = [at EXCEPT ![m] = @ - length]
              /\ mapping' = [t \in DOMAIN mapping \cup {token} |->
                                IF t = token THEN [type |-> e, value |-> value] ELSE mapping[t]]
              /\ pieces' = [pieces EXCEPT ![m] =
                               <<[type |-> e, written |-> value, sent |-> token]>> \o @]
    /\ UNCHANGED <<texts, namespace, attempts>>

\* Messages are sanitized in their order.
Sanitize ==
    \E m \in Messages :
        /\ \A earlier \in Messages : earlier < m => at[earlier] = 0
        /\ Keep(m) \/ Tokenize(m)

Next == Write \/ DrawNamespace \/ Sanitize

Spec == Init /\ [][Next]_vars

-----------------------------------------------------------------------------

\* TOKEN_PATTERN matches at position k.
Matches(text, k) ==
    /\ k + 3 <= Len(text)
    /\ text[k] = Open /\ text[k + 3] = Close
    /\ Head(text[k + 1]) = "namespace" /\ Head(text[k + 2]) = "label"

\* The replacement of one match: an exact lookup, or the match itself.
Restored(token) == IF token \in DOMAIN mapping THEN mapping[token].value ELSE token

\* rehydrate: one pass from left to right.
Rehydrate(text) ==
    LET rest[k \in 1 .. Len(text) + 1] ==
            IF k > Len(text) THEN << >>
            ELSE IF Matches(text, k) THEN Restored(SubSeq(text, k, k + 3)) \o rest[k + 4]
            ELSE <<text[k]>> \o rest[k + 1]
    IN  rest[1]

Sent(m) == FlattenSeq([k \in DOMAIN pieces[m] |-> pieces[m][k].sent])

\* Every message has been sanitized.
Sanitized == namespace # << >> /\ \A m \in Messages : at[m] = 0

\* What the caller should read if the reply repeats the sent symbols first to
\* last of message m: a piece that is whole is what was written, the symbols
\* of one that is cut are what was sent.
Expected(m, first, last) ==
    LET end[k \in 0 .. Len(pieces[m])] ==
            IF k = 0 THEN 0 ELSE end[k - 1] + Len(pieces[m][k].sent)
        part(k) ==
            IF first <= end[k - 1] + 1 /\ end[k] <= last
              THEN pieces[m][k].written
              ELSE SubSeq(pieces[m][k].sent, Max({first - end[k - 1], 1}),
                          Min({last, end[k]}) - end[k - 1])
    IN  FlattenSeq([k \in DOMAIN pieces[m] |-> part(k)])

-----------------------------------------------------------------------------

\* A reply that repeats a message, or any stretch of it, is read as the caller
\* wrote it: no token look-alike the caller wrote, inside a detected value or
\* outside, is taken for a token of the request, no restored value is searched
\* again, and a token that was cut is not restored, in part or in whole.
RepliesAreReadAsWritten ==
    Sanitized =>
        \A m \in Messages :
            LET sent == Sent(m)
            IN  \A first \in DOMAIN sent : \A last \in first .. Len(sent) :
                    Rehydrate(SubSeq(sent, first, last)) = Expected(m, first, last)

\* "The LLM sees one stable referent per distinct value": across all messages
\* two values have the same token exactly when they and their types agree.
StableReferents ==
    \A m, n \in Messages : \A j \in DOMAIN pieces[m], k \in DOMAIN pieces[n] :
        pieces[m][j].type # "text" /\ pieces[n][k].type # "text" =>
            (pieces[m][j].sent = pieces[n][k].sent
                <=> /\ pieces[m][j].type = pieces[n][k].type
                    /\ pieces[m][j].written = pieces[n][k].written)
=============================================================================
