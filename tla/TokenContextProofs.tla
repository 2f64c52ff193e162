------------------------- MODULE TokenContextProofs --------------------------
(***************************************************************************)
(* Theorems about TokenContext, for every choice of namespaces, entity     *)
(* types and messages of any length: one token for one value, and replies  *)
(* that are read as the caller wrote them, wherever they begin and end.    *)
(***************************************************************************)
EXTENDS TokenContext, SequenceTheorems, FiniteSetTheorems, WellFoundedInduction, TLAPS

IsSequence(s) == s \in Seq({s[k] : k \in DOMAIN s})

Entry(e, value) == [type |-> e, value |-> value]

With(map, token, entry) ==
    [t \in DOMAIN map \cup {token} |-> IF t = token THEN entry ELSE map[t]]

MintedIn(map, e) == {token \in DOMAIN map : map[token].type = e}

\* Each token of a context of namespace n stands for its own value, and those
\* of one type are numbered up to their count, so that the next number is free.
Numbered(map, n) ==
    /\ IsFiniteSet(DOMAIN map)
    /\ \A t \in DOMAIN map :
          /\ map[t] = Entry(map[t].type, map[t].value)
          /\ \E k \in 1 .. Cardinality(MintedIn(map, map[t].type)) :
                t = Token(n, map[t].type, k)
    /\ \A t, u \in DOMAIN map : map[t] = map[u] => t = u

MappingInv ==
    IF namespace = << >> THEN mapping = << >> ELSE Numbered(mapping, Head(namespace))

\* Every piece that was replaced went out as the token of its value.
PiecesInv ==
    /\ pieces = [m \in Messages |-> pieces[m]]
    /\ \A m \in Messages :
          /\ IsSequence(pieces[m])
          /\ \A k \in DOMAIN pieces[m] : pieces[m][k].type # "text" =>
                /\ pieces[m][k].sent \in DOMAIN mapping
                /\ mapping[pieces[m][k].sent] = Entry(pieces[m][k].type, pieces[m][k].written)

ReferentsInv == MappingInv /\ PiecesInv

-----------------------------------------------------------------------------

LEMMA SameToken ==
    ASSUME NEW n, NEW e, NEW k, NEW f, NEW j, Token(n, e, k) = Token(n, f, j)
    PROVE  e = f /\ k = j
<1>1. PICK a, b : a = Label(e, k) /\ b = Label(f, j)
  OBVIOUS
<1>2. PICK t, u : t = Token(n, e, k) /\ u = Token(n, f, j)
  OBVIOUS
<1>3. t[3] = a /\ u[3] = b
  BY <1>1, <1>2 DEF Token
<1>4. a = b
  BY <1>2, <1>3
<1>5. a[2] = e /\ a[3] = k /\ b[2] = f /\ b[3] = j
  BY <1>1 DEF Label
<1> QED BY <1>4, <1>5

\* One more element at the front.
LEMMA PrependElement ==
    ASSUME NEW s, NEW x, IsSequence(s)
    PROVE  /\ IsSequence(<<x>> \o s)
           /\ \A k \in DOMAIN (<<x>> \o s) :
                 \/ (<<x>> \o s)[k] = x
                 \/ \E j \in DOMAIN s : (<<x>> \o s)[k] = s[j]
<1> DEFINE S == {s[k] : k \in DOMAIN s} \cup {x}
           t == <<x>> \o s
           T == {t[k] : k \in DOMAIN t}
<1>1. Len(s) \in Nat /\ DOMAIN s = 1 .. Len(s)
  BY LenProperties DEF IsSequence
<1>2. s \in Seq(S)
  <2>1. \A k \in 1 .. Len(s) : s[k] \in S
    BY <1>1
  <2> QED BY <2>1, SeqDef DEF IsSequence
<1>3. PICK y : y = <<x>>
  OBVIOUS
<1>4. y \in Seq(S) /\ Len(y) = 1 /\ y[1] = x
  <2>1. x \in S
    OBVIOUS
  <2> HIDE DEF S
  <2> QED BY <1>3, <2>1
<1>5. /\ t \in Seq(S) /\ Len(t) = 1 + Len(s)
      /\ \A k \in 1 .. 1 + Len(s) : t[k] = IF k <= 1 THEN y[k] ELSE s[k - 1]
  <2> HIDE DEF S
  <2> QED BY <1>2, <1>3, <1>4, ConcatProperties
<1>6. t \in [1 .. Len(t) -> S] /\ Len(t) \in Nat
  BY <1>5, LenProperties
<1>7. t \in [1 .. Len(t) -> T]
  <2> HIDE DEF t, S
  <2> QED BY <1>6
<1>8. t \in Seq(T)
  <2> HIDE DEF t, T
  <2>1. PICK n \in Nat : n = Len(t)
    BY <1>6
  <2>2. t \in [1 .. n -> T]
    BY <1>7, <2>1
  <2> QED BY <2>2, SeqDef
<1>9. ASSUME NEW k \in DOMAIN t PROVE t[k] = x \/ \E j \in DOMAIN s : t[k] = s[j]
  <2> HIDE DEF t, S
  <2>1. k \in 1 .. 1 + Len(s)
    BY <1>5, <1>6
  <2>2. CASE k = 1
    BY <1>4, <1>5, <2>1, <2>2
  <2>3. CASE k # 1
    BY <1>1, <1>5, <2>1, <2>3
  <2> QED BY <2>2, <2>3
<1> QED BY <1>8, <1>9 DEF IsSequence

-----------------------------------------------------------------------------

LEMMA ReferentsInit == Init => ReferentsInv
<1> SUFFICES ASSUME Init PROVE ReferentsInv
  OBVIOUS
<1>1. \A m \in Messages : pieces[m] = << >> /\ DOMAIN pieces[m] = {}
  BY DEF Init
<1>2. MappingInv
  BY DEF Init, MappingInv
<1>3. PiecesInv
  BY <1>1, EmptySeq DEF Init, PiecesInv, IsSequence
<1> QED BY <1>2, <1>3 DEF ReferentsInv

\* The token of a value is the one it has, or a new one that no other value has.
LEMMA TokenForFacts ==
    ASSUME Numbered(mapping, Head(namespace)), NEW e, NEW value
    PROVE  LET token == TokenFor(e, value)
           IN  \/ token \in DOMAIN mapping /\ mapping[token] = Entry(e, value)
               \/ /\ token \notin DOMAIN mapping
                  /\ token = Token(Head(namespace), e, Cardinality(MintedIn(mapping, e)) + 1)
                  /\ \A t \in DOMAIN mapping : mapping[t] # Entry(e, value)
<1> DEFINE existing == {token \in Minted(e) : mapping[token].value = value}
           fresh == Token(Head(namespace), e, Cardinality(Minted(e)) + 1)
<1>1. \A t : t \in existing <=> t \in DOMAIN mapping /\ mapping[t] = Entry(e, value)
  BY DEF Minted, Numbered, Entry
<1>2. TokenFor(e, value) = IF existing # {} THEN CHOOSE token \in existing : TRUE ELSE fresh
  BY DEF TokenFor
<1>3. Minted(e) = MintedIn(mapping, e)
  BY DEF Minted, MintedIn
<1>4. CASE existing # {}
  <2>1. TokenFor(e, value) \in existing
    <3> HIDE DEF existing
    <3> QED BY <1>2, <1>4
  <2> QED BY <1>1, <2>1
<1>5. CASE existing = {}
  <2>1. ASSUME fresh \in DOMAIN mapping PROVE FALSE
    <3>1. IsFiniteSet(DOMAIN mapping) /\ MintedIn(mapping, e) \subseteq DOMAIN mapping
      BY DEF MintedIn, Numbered
    <3>2. PICK n \in Nat : n = Cardinality(MintedIn(mapping, e))
      BY <3>1, FS_Subset, FS_CardinalityType
    <3>3. PICK f, k : /\ k \in 1 .. Cardinality(MintedIn(mapping, f))
                      /\ fresh = Token(Head(namespace), f, k)
      BY <2>1 DEF Numbered
    <3>4. e = f /\ Cardinality(MintedIn(mapping, e)) + 1 = k
      BY <1>3, <3>3, SameToken
    <3> QED BY <3>2, <3>3, <3>4
  <2> QED BY <1>1, <1>2, <1>3, <1>5, <2>1
<1> QED BY <1>4, <1>5

\* A new value gets the next number of its type.
LEMMA MintToken ==
    ASSUME NEW map, NEW n, NEW e, NEW value, NEW token, NEW new,
           Numbered(map, n),
           token \notin DOMAIN map,
           token = Token(n, e, Cardinality(MintedIn(map, e)) + 1),
           \A t \in DOMAIN map : map[t] # Entry(e, value),
           DOMAIN new = DOMAIN map \cup {token},
           new[token] = Entry(e, value),
           \A t \in DOMAIN map : new[t] = map[t]
    PROVE  Numbered(new, n)
<1>1. IsFiniteSet(DOMAIN new)
  BY FS_AddElement DEF Numbered
<1>2. MintedIn(new, e) = MintedIn(map, e) \cup {token} /\ token \notin MintedIn(map, e)
  BY DEF MintedIn, Entry
<1>3. \A f : f # e => MintedIn(new, f) = MintedIn(map, f)
  BY DEF MintedIn, Entry
<1>4. PICK size \in Nat : /\ size = Cardinality(MintedIn(map, e))
                          /\ Cardinality(MintedIn(new, e)) = size + 1
  <2>1. MintedIn(map, e) \subseteq DOMAIN map
    BY DEF MintedIn
  <2>2. IsFiniteSet(MintedIn(map, e))
    BY <2>1, FS_Subset DEF Numbered
  <2> QED BY <1>2, <2>2, FS_AddElement, FS_CardinalityType
<1>5. ASSUME NEW t \in DOMAIN new
      PROVE  /\ new[t] = Entry(new[t].type, new[t].value)
             /\ \E k \in 1 .. Cardinality(MintedIn(new, new[t].type)) : t = Token(n, new[t].type, k)
  <2>1. CASE t = token
    <3>1. new[t].type = e /\ new[t] = Entry(new[t].type, new[t].value)
      BY <2>1 DEF Entry
    <3>2. PICK k : k = size + 1
      OBVIOUS
    <3>3. k \in 1 .. Cardinality(MintedIn(new, e)) /\ t = Token(n, e, k)
      BY <1>4, <2>1, <3>2
    <3> QED BY <3>1, <3>3
  <2>2. CASE t # token
    <3>1. t \in DOMAIN map /\ new[t] = map[t]
      BY <2>2
    <3>2. PICK f : f = map[t].type
      OBVIOUS
    <3>3. PICK k \in 1 .. Cardinality(MintedIn(map, f)) : t = Token(n, f, k)
      BY <3>1, <3>2 DEF Numbered
    <3>4. k \in 1 .. Cardinality(MintedIn(new, f))
      <4>1. CASE f = e
        BY <1>4, <4>1
      <4>2. CASE f # e
        BY <1>3, <4>2
      <4> QED BY <4>1, <4>2
    <3> QED BY <3>1, <3>2, <3>3, <3>4 DEF Numbered
  <2> QED BY <2>1, <2>2
<1>6. \A t, u \in DOMAIN new : new[t] = new[u] => t = u
  BY DEF Numbered
<1> QED BY <1>1, <1>5, <1>6 DEF Numbered

\* Sanitizing a span keeps the tokens of all values before it.
LEMMA TokenizeKeepsMapping ==
    ASSUME Numbered(mapping, Head(namespace)), NEW e, NEW value, NEW token, NEW new,
           token = TokenFor(e, value),
           new = With(mapping, token, Entry(e, value))
    PROVE  /\ Numbered(new, Head(namespace))
           /\ token \in DOMAIN new /\ new[token] = Entry(e, value)
           /\ \A t \in DOMAIN mapping : t \in DOMAIN new /\ new[t] = mapping[t]
<1>1. /\ DOMAIN new = DOMAIN mapping \cup {token}
      /\ new[token] = Entry(e, value)
      /\ \A t \in DOMAIN mapping \ {token} : new[t] = mapping[t]
  BY DEF With
<1>2. \/ token \in DOMAIN mapping /\ mapping[token] = Entry(e, value)
      \/ /\ token \notin DOMAIN mapping
         /\ token = Token(Head(namespace), e, Cardinality(MintedIn(mapping, e)) + 1)
         /\ \A t \in DOMAIN mapping : mapping[t] # Entry(e, value)
  BY TokenForFacts
<1>3. \A t \in DOMAIN mapping : t \in DOMAIN new /\ new[t] = mapping[t]
  BY <1>1, <1>2
<1>4. CASE token \in DOMAIN mapping
  <2>1. DOMAIN new = DOMAIN mapping
    BY <1>1, <1>4
  <2>2. \A f : MintedIn(new, f) = MintedIn(mapping, f)
    BY <1>3, <2>1 DEF MintedIn
  <2>3. Numbered(new, Head(namespace))
    BY <1>3, <2>1, <2>2 DEF Numbered
  <2> QED BY <1>1, <1>3, <2>3
<1>5. CASE token \notin DOMAIN mapping
  <2>1. PICK n : n = Head(namespace)
    OBVIOUS
  <2>2. PICK map : map = mapping
    OBVIOUS
  <2>3. /\ Numbered(map, n) /\ token \notin DOMAIN map
        /\ token = Token(n, e, Cardinality(MintedIn(map, e)) + 1)
        /\ \A t \in DOMAIN map : map[t] # Entry(e, value)
        /\ DOMAIN new = DOMAIN map \cup {token}
        /\ new[token] = Entry(e, value)
        /\ \A t \in DOMAIN map : new[t] = map[t]
    BY <1>1, <1>2, <1>3, <1>5, <2>1, <2>2
  <2>4. Numbered(new, n)
    BY <2>3, MintToken
  <2> QED BY <1>1, <1>3, <2>1, <2>4
<1> QED BY <1>4, <1>5

\* A new piece that names the token of its value joins the others.
LEMMA PieceJoins ==
    ASSUME PiecesInv, NEW m \in Messages, NEW p,
           pieces' = [pieces EXCEPT ![m] = <<p>> \o @],
           \A t \in DOMAIN mapping : t \in DOMAIN mapping' /\ mapping'[t] = mapping[t],
           p.type # "text" => p.sent \in DOMAIN mapping' /\ mapping'[p.sent] = Entry(p.type, p.written)
    PROVE  PiecesInv'
<1>1. /\ pieces'[m] = <<p>> \o pieces[m]
      /\ \A n \in Messages \ {m} : pieces'[n] = pieces[n]
      /\ pieces' = [n \in Messages |-> pieces'[n]]
  <2>1. PICK q : q = <<p>> \o pieces[m]
    OBVIOUS
  <2>2. pieces' = [n \in Messages |-> IF n = m THEN q ELSE pieces[n]]
    BY <2>1 DEF PiecesInv
  <2> QED BY <2>1, <2>2
<1>2. PICK s, t : s = pieces[m] /\ t = <<p>> \o s
  OBVIOUS
<1>3. IsSequence(t) /\ \A k \in DOMAIN t : t[k] = p \/ \E j \in DOMAIN s : t[k] = s[j]
  <2>1. IsSequence(s)
    BY <1>2 DEF PiecesInv
  <2> QED BY <1>2, <2>1, PrependElement
<1>4. ASSUME NEW n \in Messages
      PROVE  /\ IsSequence(pieces'[n])
             /\ \A k \in DOMAIN pieces'[n] : pieces'[n][k].type # "text" =>
                   /\ pieces'[n][k].sent \in DOMAIN mapping'
                   /\ mapping'[pieces'[n][k].sent] = Entry(pieces'[n][k].type, pieces'[n][k].written)
  <2>1. CASE n = m
    BY <1>1, <1>2, <1>3, <2>1 DEF PiecesInv
  <2>2. CASE n # m
    BY <1>1, <2>2 DEF PiecesInv
  <2> QED BY <2>1, <2>2
<1> QED BY <1>1, <1>4 DEF PiecesInv

LEMMA ReferentsStep == ReferentsInv /\ [Next]_vars => ReferentsInv'
<1> SUFFICES ASSUME ReferentsInv, [Next]_vars PROVE ReferentsInv'
  OBVIOUS
<1>1. ASSUME UNCHANGED <<namespace, mapping, pieces>> PROVE ReferentsInv'
  BY <1>1 DEF ReferentsInv, MappingInv, PiecesInv
<1>2. CASE DrawNamespace
  <2>1. mapping = << >> /\ UNCHANGED <<mapping, pieces>>
    BY <1>2 DEF DrawNamespace, ReferentsInv, MappingInv
  <2>2. DOMAIN mapping = {} /\ IsFiniteSet({})
    BY <2>1, FS_EmptySet
  <2>3. Numbered(mapping, Head(namespace'))
    BY <2>2 DEF Numbered
  <2>4. MappingInv'
    BY <2>1, <2>3 DEF MappingInv
  <2> QED BY <2>1, <2>4 DEF ReferentsInv, PiecesInv
<1>3. ASSUME NEW m \in Messages, Keep(m) PROVE ReferentsInv'
  <2>1. PICK p : p = [type |-> "text", written |-> <<texts[m][at[m]]>>, sent |-> <<texts[m][at[m]]>>]
    OBVIOUS
  <2>2. UNCHANGED <<namespace, mapping>> /\ pieces' = [pieces EXCEPT ![m] = <<p>> \o @]
    BY <1>3, <2>1 DEF Keep
  <2>3. p.type = "text"
    BY <2>1
  <2>4. PiecesInv'
    BY <2>2, <2>3, PieceJoins DEF ReferentsInv
  <2> QED BY <2>2, <2>4 DEF ReferentsInv, MappingInv
<1>4. ASSUME NEW m \in Messages, Tokenize(m) PROVE ReferentsInv'
  <2>1. PICK e, value, token :
            /\ token = TokenFor(e, value)
            /\ mapping' = [t \in DOMAIN mapping \cup {token} |->
                              IF t = token THEN [type |-> e, value |-> value] ELSE mapping[t]]
            /\ pieces' = [pieces EXCEPT ![m] =
                             <<[type |-> e, written |-> value, sent |-> token]>> \o @]
    BY <1>4 DEF Tokenize
  <2>2. namespace # << >> /\ namespace' = namespace
    BY <1>4 DEF Tokenize
  <2>3. mapping' = With(mapping, token, Entry(e, value))
    BY <2>1 DEF Entry, With
  <2>4. /\ Numbered(mapping', Head(namespace))
        /\ token \in DOMAIN mapping' /\ mapping'[token] = Entry(e, value)
        /\ \A t \in DOMAIN mapping : t \in DOMAIN mapping' /\ mapping'[t] = mapping[t]
    <3>1. Numbered(mapping, Head(namespace))
      BY <2>2 DEF ReferentsInv, MappingInv
    <3>2. PICK new : new = mapping'
      OBVIOUS
    <3> QED BY <2>1, <2>3, <3>1, <3>2, TokenizeKeepsMapping
  <2>5. PICK p : p = [type |-> e, written |-> value, sent |-> token]
    OBVIOUS
  <2>6. p.type = e /\ p.written = value /\ p.sent = token
    BY <2>5
  <2>7. pieces' = [pieces EXCEPT ![m] = <<p>> \o @]
    BY <2>1, <2>5
  <2>8. PiecesInv'
    BY <2>4, <2>6, <2>7, PieceJoins DEF ReferentsInv
  <2>9. MappingInv'
    BY <2>2, <2>4 DEF MappingInv
  <2> QED BY <2>8, <2>9 DEF ReferentsInv
<1> QED BY <1>1, <1>2, <1>3, <1>4 DEF Next, Sanitize, Write, vars

\* The invariant holds in every order of writing, drawing and sanitizing.
THEOREM ReferentsInvariance == Spec => []ReferentsInv
BY ReferentsInit, ReferentsStep, PTL DEF Spec

LEMMA ReferentsConsequence == ReferentsInv => StableReferents
<1> SUFFICES ASSUME ReferentsInv, NEW m \in Messages, NEW n \in Messages,
                    NEW j \in DOMAIN pieces[m], NEW k \in DOMAIN pieces[n],
                    pieces[m][j].type # "text", pieces[n][k].type # "text"
             PROVE  pieces[m][j].sent = pieces[n][k].sent
                      <=> /\ pieces[m][j].type = pieces[n][k].type
                          /\ pieces[m][j].written = pieces[n][k].written
  BY DEF StableReferents
<1>1. PICK p, q : p = pieces[m][j] /\ q = pieces[n][k]
  OBVIOUS
<1>2. /\ p.sent \in DOMAIN mapping /\ mapping[p.sent] = Entry(p.type, p.written)
      /\ q.sent \in DOMAIN mapping /\ mapping[q.sent] = Entry(q.type, q.written)
  BY <1>1 DEF ReferentsInv, PiecesInv
<1>3. Entry(p.type, p.written) = Entry(q.type, q.written) <=> p.type = q.type /\ p.written = q.written
  BY DEF Entry
<1>4. \A t, u \in DOMAIN mapping : mapping[t] = mapping[u] => t = u
  BY DEF ReferentsInv, MappingInv, Numbered
<1> QED BY <1>1, <1>2, <1>3, <1>4

\* Across the messages of a request, two values have the same token exactly
\* when they and their types agree (tokenization.py, token_for).
THEOREM ReferentsAreStable == Spec => []StableReferents
BY ReferentsInvariance, ReferentsConsequence, PTL

-----------------------------------------------------------------------------
\* Induction, for a set of numbers.
LEMMA Induction ==
    ASSUME NEW S, 0 \in S, \A n \in Nat : n \in S => n + 1 \in S
    PROVE  \A n \in Nat : n \in S
<1> DEFINE R == OpToRel(<, Nat)
           T == {n \in Nat : n \notin S}
<1>1. IsWellFoundedOn(R, Nat)
  BY NatLessThanWellFounded
<1>2. \A x, y \in Nat : <<y, x>> \in R <=> y < x
  BY DEF OpToRel
<1>3. SUFFICES ASSUME T # {} PROVE FALSE
  OBVIOUS
<1>4. PICK k \in T : \A j \in T : ~ (<<j, k>> \in R)
  <2> HIDE DEF R
  <2> QED BY <1>1, <1>3, WFMin
<1>5. k \in Nat /\ k \notin S /\ \A j \in Nat : j < k => j \in S
  <2> HIDE DEF R
  <2> QED BY <1>2, <1>4
<1>6. k # 0 /\ k - 1 \in Nat /\ k - 1 < k /\ (k - 1) + 1 = k
  BY <1>5
<1> QED BY <1>5, <1>6

-----------------------------------------------------------------------------
(* Three recursions: what they define exists, so that their equations hold *)

\* f starts with a, and follows the steps of a set X along the numbers to N.
AreSteps(step, X, N) == step \in [1 .. N -> [X -> X]]

Follows(f, step, a, X, N) ==
    /\ f \in [0 .. N -> X]
    /\ f[0] = a
    /\ \A n \in 1 .. N : f[n] = step[n][f[n - 1]]

LEMMA RecursionExists ==
    ASSUME NEW X, NEW a \in X, NEW N \in Nat, NEW step, AreSteps(step, X, N)
    PROVE  \E f : Follows(f, step, a, X, N)
<1> DEFINE Solves(f, m) == /\ f \in [0 .. N -> X] /\ f[0] = a
                           /\ \A n \in 1 .. m : f[n] = step[n][f[n - 1]]
           S == {m \in Nat : m <= N => \E f : Solves(f, m)}
<1>1. 0 \in S
  <2> DEFINE f == [n \in 0 .. N |-> a]
  <2>1. Solves(f, 0)
    OBVIOUS
  <2> QED BY <2>1
<1>2. ASSUME NEW m \in Nat, m + 1 <= N, NEW f, Solves(f, m)
      PROVE  \E g : Solves(g, m + 1)
  <2> DEFINE g == [f EXCEPT ![m + 1] = step[m + 1][f[m]]]
  <2>1. m + 1 \in 1 .. N /\ m \in 0 .. N /\ m + 1 # 0
    BY <1>2
  <2>2. step[m + 1] \in [X -> X] /\ f[m] \in X
    BY <1>2, <2>1 DEF AreSteps
  <2>3. step[m + 1][f[m]] \in X
    BY <2>2
  <2>4. g \in [0 .. N -> X] /\ g[0] = a
    BY <1>2, <2>1, <2>3
  <2>5. ASSUME NEW n \in 1 .. m + 1 PROVE g[n] = step[n][g[n - 1]]
    <3>1. n - 1 \in 0 .. N /\ n \in 0 .. N /\ n - 1 # m + 1
      BY <1>2
    <3>2. g[n - 1] = f[n - 1]
      BY <1>2, <3>1
    <3>3. CASE n = m + 1
      <4>1. n - 1 = m
        BY <3>3
      <4> QED BY <1>2, <3>1, <3>2, <3>3, <4>1
    <3>4. CASE n # m + 1
      <4>1. n \in 1 .. m
        BY <3>4
      <4>2. f[n] = step[n][f[n - 1]]
        BY <1>2, <4>1
      <4>3. g[n] = f[n]
        BY <1>2, <3>1, <3>4
      <4> QED BY <3>2, <4>2, <4>3
    <3> QED BY <3>3, <3>4
  <2> HIDE DEF g
  <2>6. Solves(g, m + 1)
    BY <2>4, <2>5
  <2> QED BY <2>6
<1> HIDE DEF Solves
<1>3. \A m \in Nat : m \in S => m + 1 \in S
  BY <1>2
<1> HIDE DEF S
<1>4. \A m \in Nat : m \in S
  BY <1>1, <1>3, Induction
<1>5. PICK f : Solves(f, N)
  BY <1>4 DEF S
<1> QED BY <1>5 DEF Solves, Follows

\* FlattenSeq joins the sequences from the first to the last.
LEMMA FlattenDefinition ==
    ASSUME NEW X, NEW seqs \in Seq(Seq(X))
    PROVE  \E f \in [0 .. Len(seqs) -> Seq(X)] :
              /\ FlattenSeq(seqs) = f[Len(seqs)]
              /\ f[0] = << >>
              /\ \A n \in 1 .. Len(seqs) : f[n] = f[n - 1] \o seqs[n]
<1> DEFINE Y == Seq(X)
           step == [n \in 1 .. Len(seqs) |-> [x \in Y |-> x \o seqs[n]]]
<1>1. Len(seqs) \in Nat /\ DOMAIN seqs = 1 .. Len(seqs) /\ \A n \in 1 .. Len(seqs) : seqs[n] \in Seq(X)
  BY LenProperties
<1>2. << >> \in Y
  BY EmptySeq
<1>3. \A n \in 1 .. Len(seqs) : \A x \in Y : x \o seqs[n] \in Y
  BY <1>1, ConcatProperties
<1>4. step \in [1 .. Len(seqs) -> [Y -> Y]]
  <2>1. \A n \in 1 .. Len(seqs) : [x \in Y |-> x \o seqs[n]] \in [Y -> Y]
    <3> HIDE DEF Y
    <3> QED BY <1>3
  <2> QED BY <2>1
<1>5. PICK f \in [0 .. Len(seqs) -> Y] :
          f[0] = << >> /\ \A n \in 1 .. Len(seqs) : f[n] = step[n][f[n - 1]]
  <2>1. PICK N \in Nat : N = Len(seqs)
    BY <1>1
  <2>2. PICK a, steps, Z : a = << >> /\ steps = step /\ Z = Y
    OBVIOUS
  <2> HIDE DEF Y, step
  <2>3. a \in Z /\ AreSteps(steps, Z, N)
    BY <1>2, <1>4, <2>1, <2>2 DEF AreSteps
  <2>4. PICK f : Follows(f, steps, a, Z, N)
    BY <2>3, RecursionExists
  <2> QED BY <2>1, <2>2, <2>4 DEF Follows
<1>6. \A n \in 1 .. Len(seqs) : f[n - 1] \in Y
  <2> HIDE DEF Y
  <2>1. \A n \in 1 .. Len(seqs) : n - 1 \in 0 .. Len(seqs)
    BY <1>1
  <2> QED BY <1>5, <2>1
<1>7. \A n \in 1 .. Len(seqs) : f[n] = f[n - 1] \o seqs[n]
  <2> HIDE DEF Y
  <2> QED BY <1>5, <1>6
<1>8. CASE Len(seqs) = 0
  <2>1. FlattenSeq(seqs) = seqs /\ seqs = << >>
    BY <1>8, EmptySeq DEF FlattenSeq
  <2> QED BY <1>5, <1>7, <1>8, <2>1
<1>9. CASE Len(seqs) # 0
  <2> DEFINE D == 1 .. Len(seqs)
             Joins(h) == h = [i \in D |-> IF i = 1 THEN seqs[i] ELSE h[i - 1] \o seqs[i]]
             g == [n \in D |-> f[n]]
             h == CHOOSE h : Joins(h)
  <2>1. ASSUME NEW i \in D PROVE g[i] = IF i = 1 THEN seqs[i] ELSE g[i - 1] \o seqs[i]
    <3>1. CASE i = 1
      <4>1. i - 1 = 0 /\ f[i] = f[i - 1] \o seqs[i] /\ seqs[i] \in Seq(X)
        BY <1>1, <1>7, <3>1
      <4>2. << >> \o seqs[i] = seqs[i]
        BY <4>1, ConcatEmptySeq
      <4> QED BY <1>5, <3>1, <4>1, <4>2
    <3>2. CASE i # 1
      <4>1. i - 1 \in D
        BY <1>1, <3>2
      <4> QED BY <1>7, <3>2, <4>1
    <3> QED BY <3>1, <3>2
  <2>2. Joins(g)
    <3>1. g = [i \in D |-> g[i]]
      OBVIOUS
    <3> HIDE DEF g, D
    <3> QED BY <2>1, <3>1
  <2>3. Joins(h)
    <3> HIDE DEF Joins, g
    <3> QED BY <2>2
  <2>4. FlattenSeq(seqs) = h[Len(seqs)]
    BY <1>9 DEF FlattenSeq
  <2> HIDE DEF h
  <2>5. \A i \in D : h[i] = IF i = 1 THEN seqs[i] ELSE h[i - 1] \o seqs[i]
    BY <2>3
  <2> DEFINE Same == {k \in Nat : k + 1 <= Len(seqs) => h[k + 1] = g[k + 1]}
  <2>6. 0 \in Same
    BY <2>1, <2>5
  <2>7. ASSUME NEW k \in Nat, k \in Same PROVE k + 1 \in Same
    <3> SUFFICES ASSUME k + 2 <= Len(seqs) PROVE h[k + 2] = g[k + 2]
      OBVIOUS
    <3>1. PICK i \in D : i = k + 2 /\ i # 1 /\ i - 1 = k + 1
      BY <1>1
    <3> HIDE DEF g
    <3> QED BY <1>1, <2>1, <2>5, <2>7, <3>1
  <2>11. \A k \in Same : k + 1 <= Len(seqs) => h[k + 1] = g[k + 1]
    OBVIOUS
  <2> HIDE DEF Same
  <2>8. \A k \in Nat : k \in Same
    BY <2>6, <2>7, Induction
  <2>9. h[Len(seqs)] = f[Len(seqs)]
    <3>1. PICK k : k = Len(seqs) - 1
      OBVIOUS
    <3>2. k \in Nat /\ k + 1 = Len(seqs)
      BY <1>1, <1>9, <3>1
    <3>3. k + 1 <= Len(seqs) /\ Len(seqs) \in D
      BY <1>1, <1>9, <3>2
    <3>4. h[k + 1] = g[k + 1]
      <4> HIDE DEF g, D
      <4> QED BY <2>8, <2>11, <3>2, <3>3
    <3>5. g[Len(seqs)] = f[Len(seqs)]
      BY <3>3
    <3> HIDE DEF g, D
    <3> QED BY <3>2, <3>4, <3>5
  <2> QED BY <1>5, <1>7, <2>4, <2>9
<1> QED BY <1>8, <1>9

\* The symbols up to and with each piece (Expected).
Ends(end, P) ==
    end = [k \in 0 .. Len(P) |-> IF k = 0 THEN 0 ELSE end[k - 1] + Len(P[k].sent)]

LEMMA EndsExist ==
    ASSUME NEW P, Len(P) \in Nat, \A k \in 1 .. Len(P) : Len(P[k].sent) \in Nat
    PROVE  \E end \in [0 .. Len(P) -> Nat] : Ends(end, P)
<1> DEFINE step == [n \in 1 .. Len(P) |-> [x \in Nat |-> x + Len(P[n].sent)]]
<1>1. \A n \in 1 .. Len(P) : [x \in Nat |-> x + Len(P[n].sent)] \in [Nat -> Nat]
  OBVIOUS
<1>0. PICK N \in Nat : N = Len(P)
  OBVIOUS
<1>2. PICK steps, a, Z : steps = step /\ a = 0 /\ Z = Nat
  OBVIOUS
<1>3. a \in Z /\ AreSteps(steps, Z, N)
  BY <1>0, <1>1, <1>2 DEF AreSteps
<1>4. PICK f : Follows(f, steps, a, Z, N)
  BY <1>3, RecursionExists
<1>5. f \in [0 .. N -> Nat] /\ f[0] = 0 /\ \A n \in 1 .. N : f[n] = step[n][f[n - 1]]
  BY <1>0, <1>2, <1>4 DEF Follows
<1>6. \A n \in 1 .. N : f[n] = f[n - 1] + Len(P[n].sent)
  <2>1. \A n \in 1 .. N : n - 1 \in 0 .. N /\ f[n - 1] \in Nat
    BY <1>5
  <2> QED BY <1>0, <1>2, <1>5, <2>1
<1>7. f = [k \in 0 .. N |-> IF k = 0 THEN 0 ELSE f[k - 1] + Len(P[k].sent)]
  BY <1>5, <1>6
<1> QED BY <1>0, <1>5, <1>7 DEF Ends

\* What rehydrate makes of the text from each position on.
Rest(rest, text, from) ==
    rest = [k \in from .. Len(text) + 1 |->
               IF k > Len(text) THEN << >>
               ELSE IF Matches(text, k) THEN Restored(SubSeq(text, k, k + 3)) \o rest[k + 4]
               ELSE <<text[k]>> \o rest[k + 1]]

LEMMA RestExists ==
    ASSUME NEW text, Len(text) \in Nat
    PROVE  \E rest : Rest(rest, text, 1)
<1> DEFINE L == Len(text)
           S == {m \in Nat : m <= L => \E rest : Rest(rest, text, L + 1 - m)}
<1>1. 0 \in S
  <2> DEFINE f == [k \in L + 1 .. L + 1 |-> << >>]
  <2>1. \A k \in L + 1 .. L + 1 : k > L /\ f[k] = << >>
    OBVIOUS
  <2>2. L + 1 - 0 = L + 1 /\ f = [k \in L + 1 .. L + 1 |-> f[k]]
    OBVIOUS
  <2> HIDE DEF f
  <2>3. Rest(f, text, L + 1 - 0)
    BY <2>1, <2>2 DEF Rest
  <2> QED BY <2>3
<1>2. ASSUME NEW m \in Nat, m + 1 <= L, NEW f, Rest(f, text, L + 1 - m)
      PROVE  \E g : Rest(g, text, L + 1 - (m + 1))
  <2>1. PICK a \in 1 .. L : a = L + 1 - (m + 1) /\ a + 1 = L + 1 - m
    BY <1>2
  <2> DEFINE first == IF Matches(text, a) THEN Restored(SubSeq(text, a, a + 3)) \o f[a + 4]
                      ELSE <<text[a]>> \o f[a + 1]
             g == [k \in a .. L + 1 |-> IF k = a THEN first ELSE f[k]]
  <2>2. \A k \in a + 1 .. L + 1 :
           f[k] = IF k > L THEN << >>
                  ELSE IF Matches(text, k) THEN Restored(SubSeq(text, k, k + 3)) \o f[k + 4]
                  ELSE <<text[k]>> \o f[k + 1]
    BY <1>2, <2>1 DEF Rest
  <2>3. \A k \in 1 .. L : Matches(text, k) => k + 4 \in a .. L + 1 \/ k < a
    BY <2>1 DEF Matches
  <2>4. ASSUME NEW k \in a .. L + 1
        PROVE  g[k] = IF k > L THEN << >>
                      ELSE IF Matches(text, k) THEN Restored(SubSeq(text, k, k + 3)) \o g[k + 4]
                      ELSE <<text[k]>> \o g[k + 1]
    <3> HIDE DEF first
    <3>1. k <= L => g[k + 1] = f[k + 1]
      BY <2>1
    <3>2. k <= L /\ Matches(text, k) => g[k + 4] = f[k + 4]
      BY <2>1, <2>3
    <3>3. CASE k = a
      <4>1. g[k] = first /\ k <= L
        BY <2>1, <3>3
      <4>2. first = IF Matches(text, k) THEN Restored(SubSeq(text, k, k + 3)) \o f[k + 4]
                    ELSE <<text[k]>> \o f[k + 1]
        BY <3>3 DEF first
      <4>3. ~ (k > L)
        BY <4>1
      <4> HIDE DEF g
      <4> QED BY <3>1, <3>2, <4>1, <4>2, <4>3
    <3>4. CASE k # a
      <4>1. k \in a + 1 .. L + 1 /\ g[k] = f[k]
        BY <2>1, <3>4
      <4>2. CASE k > L
        BY <2>2, <4>1, <4>2
      <4>3. CASE ~ (k > L)
        <5>1. k <= L
          BY <2>1, <4>1, <4>3
        <5> HIDE DEF g
        <5> QED BY <2>2, <3>1, <3>2, <4>1, <4>3, <5>1
      <4> QED BY <4>2, <4>3
    <3> QED BY <3>3, <3>4
  <2>5. g = [k \in a .. L + 1 |-> g[k]]
    OBVIOUS
  <2> HIDE DEF g
  <2>6. g = [k \in a .. L + 1 |->
               IF k > L THEN << >>
               ELSE IF Matches(text, k) THEN Restored(SubSeq(text, k, k + 3)) \o g[k + 4]
               ELSE <<text[k]>> \o g[k + 1]]
    BY <2>4, <2>5
  <2>7. Rest(g, text, a)
    BY <2>6 DEF Rest
  <2> QED BY <2>1, <2>7
<1>3. ASSUME NEW m \in Nat, m \in S PROVE m + 1 \in S
  <2> SUFFICES ASSUME m + 1 <= L PROVE \E g : Rest(g, text, L + 1 - (m + 1))
    OBVIOUS
  <2>1. PICK f : Rest(f, text, L + 1 - m)
    BY <1>3
  <2> QED BY <1>2, <2>1
<1> HIDE DEF S
<1>4. \A m \in Nat : m \in S
  BY <1>1, <1>3, Induction
<1>5. L \in S /\ L + 1 - L = 1
  BY <1>4
<1> QED BY <1>5 DEF S

-----------------------------------------------------------------------------
(* What the pieces hold                                                    *)

Drawn == Head(namespace)

\* A piece went out as it was written, one symbol other than the namespace, or
\* as the token of what was written.
IsPiece(p, map, n) ==
    \/ \E x \in Symbols : x # Name(n) /\ p.sent = <<x>> /\ p.written = <<x>>
    \/ p.sent \in DOMAIN map /\ map[p.sent].value = p.written

\* The namespace was drawn against every text, and texts are not written after.
TextsInv ==
    /\ texts \in [Messages -> Seq(Symbols)]
    /\ at \in [Messages -> Nat]
    /\ \A m \in Messages : at[m] <= Len(texts[m])
    /\ attempts \in Nat
    /\ namespace # << >> =>
          /\ attempts # 0
          /\ \A m \in Messages : \A k \in 1 .. Len(texts[m]) : texts[m][k] # Name(Drawn)

ValuesInv ==
    \A t \in DOMAIN mapping : mapping[t].type \in EntityTypes /\ mapping[t].value \in Seq(Symbols)

SentInv ==
    \A m \in Messages :
        /\ namespace = << >> => pieces[m] = << >>
        /\ \A k \in DOMAIN pieces[m] : IsPiece(pieces[m][k], mapping, Drawn)

RepliesInv == ReferentsInv /\ TextsInv /\ ValuesInv /\ SentInv

LEMMA RepliesInit == Init => RepliesInv
<1> SUFFICES ASSUME Init PROVE RepliesInv
  OBVIOUS
<1>1. PICK e : e = << >>
  OBVIOUS
<1>2. e \in Seq(Symbols) /\ Len(e) = 0 /\ DOMAIN e = {}
  BY <1>1, EmptySeq
<1>3. TextsInv
  BY <1>1, <1>2 DEF Init, TextsInv
<1>4. ValuesInv
  BY <1>1, <1>2 DEF Init, ValuesInv
<1>5. SentInv
  BY <1>1, <1>2 DEF Init, SentInv
<1> QED BY <1>3, <1>4, <1>5, ReferentsInit DEF RepliesInv

\* A new piece joins the others of its message.
LEMMA SentJoins ==
    ASSUME PiecesInv, SentInv, NEW m \in Messages, NEW p,
           pieces' = [pieces EXCEPT ![m] = <<p>> \o @],
           namespace # << >>, namespace' = namespace,
           \A t \in DOMAIN mapping : t \in DOMAIN mapping' /\ mapping'[t] = mapping[t],
           IsPiece(p, mapping', Drawn)
    PROVE  SentInv'
<1>1. PICK s, t : s = pieces[m] /\ t = <<p>> \o s
  OBVIOUS
<1>2. pieces'[m] = t /\ \A n \in Messages \ {m} : pieces'[n] = pieces[n]
  <2>1. pieces = [n \in Messages |-> pieces[n]] /\ pieces' = [pieces EXCEPT ![m] = t]
    BY <1>1 DEF PiecesInv
  <2>2. pieces' = [n \in Messages |-> IF n = m THEN t ELSE pieces[n]]
    BY <2>1
  <2> QED BY <2>2
<1>3. \A k \in DOMAIN t : t[k] = p \/ \E j \in DOMAIN s : t[k] = s[j]
  <2>1. IsSequence(s)
    BY <1>1 DEF PiecesInv
  <2> QED BY <1>1, <2>1, PrependElement
<1>4. ASSUME NEW q, IsPiece(q, mapping, Drawn) PROVE IsPiece(q, mapping', Drawn)
  BY <1>4 DEF IsPiece
<1>5. Drawn' = Drawn
  BY DEF Drawn
<1>6. ASSUME NEW n \in Messages, NEW k \in DOMAIN pieces'[n]
      PROVE  IsPiece(pieces'[n][k], mapping', Drawn)
  <2>1. CASE n = m
    BY <1>1, <1>2, <1>3, <1>4, <1>6, <2>1 DEF SentInv
  <2>2. CASE n # m
    BY <1>2, <1>4, <1>6, <2>2 DEF SentInv
  <2> QED BY <2>1, <2>2
<1> QED BY <1>5, <1>6 DEF SentInv

\* A span of a text, and its symbols.
LEMMA Span ==
    ASSUME NEW X, NEW text \in Seq(X), NEW first \in 1 .. Len(text) + 1, NEW last \in 0 .. Len(text),
           first <= last + 1
    PROVE  /\ SubSeq(text, first, last) \in Seq(X)
           /\ Len(SubSeq(text, first, last)) = last - first + 1
           /\ \A k \in 1 .. last - first + 1 : SubSeq(text, first, last)[k] = text[first + k - 1]
<1>1. Len(text) \in Nat
  BY LenProperties
<1>2. CASE first <= last
  <2>1. first \in 1 .. Len(text) /\ last \in first .. Len(text)
    BY <1>1, <1>2
  <2> QED BY <2>1, SubSeqProperties
<1>3. CASE first = last + 1
  BY <1>1, <1>3, SubSeqProperties
<1> QED BY <1>1, <1>2, <1>3

LEMMA RepliesStep == RepliesInv /\ [Next]_vars => RepliesInv'
<1> SUFFICES ASSUME RepliesInv, [Next]_vars PROVE RepliesInv'
  OBVIOUS
<1>1. ReferentsInv' /\ ReferentsInv /\ PiecesInv /\ MappingInv
  BY ReferentsStep DEF RepliesInv, ReferentsInv
<1>2. CASE UNCHANGED vars
  BY <1>1, <1>2 DEF RepliesInv, TextsInv, ValuesInv, SentInv, IsPiece, Drawn, vars
<1>3. CASE Write
  <2>1. /\ attempts = 0 /\ attempts' = attempts
        /\ UNCHANGED <<namespace, mapping, pieces>>
    BY <1>3 DEF Write
  <2>2. namespace = << >>
    BY <2>1 DEF RepliesInv, TextsInv
  <2>3. ValuesInv' /\ SentInv'
    BY <2>1 DEF RepliesInv, ValuesInv, SentInv, IsPiece, Drawn
  <2>4. PICK m \in Messages, x \in Symbols :
            /\ texts' = [texts EXCEPT ![m] = Append(@, x)]
            /\ at' = [at EXCEPT ![m] = @ + 1]
    BY <1>3 DEF Write
  <2>5. PICK t : t = Append(texts[m], x)
    OBVIOUS
  <2>6. t \in Seq(Symbols) /\ Len(t) = Len(texts[m]) + 1
    <3>1. texts[m] \in Seq(Symbols)
      BY DEF RepliesInv, TextsInv
    <3> QED BY <2>5, <3>1, AppendProperties
  <2>7. texts' = [texts EXCEPT ![m] = t]
    BY <2>4, <2>5
  <2>8. texts' \in [Messages -> Seq(Symbols)] /\ at' \in [Messages -> Nat]
    BY <2>4, <2>6, <2>7 DEF RepliesInv, TextsInv
  <2>9. ASSUME NEW n \in Messages PROVE at'[n] <= Len(texts'[n])
    <3>1. at[n] \in Nat /\ at[n] <= Len(texts[n]) /\ Len(texts[n]) \in Nat
      BY LenProperties DEF RepliesInv, TextsInv
    <3>2. CASE n = m
      <4>1. texts'[n] = t /\ at'[n] = at[n] + 1
        BY <2>4, <2>7, <3>2 DEF RepliesInv, TextsInv
      <4> QED BY <2>6, <3>1, <3>2, <4>1
    <3>3. CASE n # m
      <4>1. texts'[n] = texts[n] /\ at'[n] = at[n]
        BY <2>4, <2>7, <3>3 DEF RepliesInv, TextsInv
      <4> QED BY <3>1, <4>1
    <3> QED BY <3>2, <3>3
  <2>10. TextsInv'
    BY <2>1, <2>2, <2>8, <2>9 DEF RepliesInv, TextsInv
  <2> QED BY <1>1, <2>3, <2>10 DEF RepliesInv
<1>4. CASE DrawNamespace
  <2>1. /\ namespace = << >> /\ attempts' = attempts + 1
        /\ UNCHANGED <<texts, mapping, at, pieces>>
    BY <1>4 DEF DrawNamespace
  <2>2. PICK n \in Namespaces : namespace' = IF Occurs(n) THEN << >> ELSE <<n>>
    BY <1>4 DEF DrawNamespace
  <2>3. PICK e : e = << >>
    OBVIOUS
  <2>4. DOMAIN e = {} /\ mapping = e /\ \A m \in Messages : pieces[m] = e
    BY <2>1, <2>3 DEF RepliesInv, SentInv, ReferentsInv, MappingInv
  <2>5. ValuesInv' /\ SentInv'
    BY <2>1, <2>3, <2>4 DEF ValuesInv, SentInv
  <2>6. attempts' \in Nat /\ attempts' # 0
    BY <2>1 DEF RepliesInv, TextsInv
  <2>7. ASSUME namespace' # << >>, NEW m \in Messages, NEW k \in 1 .. Len(texts[m])
        PROVE  texts[m][k] # Name(Drawn')
    <3>1. ~ Occurs(n) /\ Drawn' = n
      BY <2>2, <2>7 DEF Drawn
    <3>2. k \in DOMAIN texts[m]
      <4>1. texts[m] \in Seq(Symbols)
        BY DEF RepliesInv, TextsInv
      <4> QED BY <4>1, LenProperties
    <3> QED BY <3>1, <3>2 DEF Occurs, Range
  <2>8. TextsInv'
    BY <2>1, <2>6, <2>7 DEF RepliesInv, TextsInv
  <2> QED BY <1>1, <2>5, <2>8 DEF RepliesInv
<1>5. ASSUME NEW m \in Messages, Keep(m) PROVE RepliesInv'
  <2>1. PICK x : x = texts[m][at[m]]
    OBVIOUS
  <2>2. PICK p : p = [type |-> "text", written |-> <<x>>, sent |-> <<x>>]
    OBVIOUS
  <2>3. /\ namespace # << >> /\ at[m] > 0 /\ at' = [at EXCEPT ![m] = @ - 1]
        /\ pieces' = [pieces EXCEPT ![m] = <<p>> \o @]
        /\ UNCHANGED <<texts, namespace, attempts, mapping>>
    BY <1>5, <2>1, <2>2 DEF Keep
  <2>4. at[m] \in 1 .. Len(texts[m]) /\ texts[m] \in Seq(Symbols)
    BY <2>3, LenProperties DEF RepliesInv, TextsInv
  <2>5. x \in Symbols /\ x # Name(Drawn)
    <3>1. x \in Symbols
      BY <2>1, <2>4, ElementOfSeq
    <3> QED BY <2>1, <2>3, <2>4, <3>1 DEF RepliesInv, TextsInv
  <2>6. IsPiece(p, mapping', Drawn)
    <3>1. p.sent = <<x>> /\ p.written = <<x>>
      BY <2>2
    <3> QED BY <2>5, <3>1 DEF IsPiece
  <2>7. SentInv'
    BY <1>1, <2>3, <2>6, SentJoins DEF RepliesInv
  <2>8. TextsInv'
    BY <2>3 DEF RepliesInv, TextsInv, Drawn
  <2>9. ValuesInv'
    BY <2>3 DEF RepliesInv, ValuesInv
  <2> QED BY <1>1, <2>7, <2>8, <2>9 DEF RepliesInv
<1>6. ASSUME NEW m \in Messages, Tokenize(m) PROVE RepliesInv'
  <2>0. PICK e \in EntityTypes, length \in 1 .. at[m] :
            \E value, token :
               /\ value = SubSeq(texts[m], at[m] - length + 1, at[m])
               /\ token = TokenFor(e, value)
               /\ at' = [at EXCEPT ![m] = @ - length]
               /\ mapping' = With(mapping, token, Entry(e, value))
               /\ pieces' = [pieces EXCEPT ![m] =
                                <<[type |-> e, written |-> value, sent |-> token]>> \o @]
    BY <1>6 DEF Tokenize, With, Entry
  <2>1. PICK value, token :
            /\ value = SubSeq(texts[m], at[m] - length + 1, at[m])
            /\ token = TokenFor(e, value)
            /\ at' = [at EXCEPT ![m] = @ - length]
            /\ mapping' = With(mapping, token, Entry(e, value))
            /\ pieces' = [pieces EXCEPT ![m] =
                             <<[type |-> e, written |-> value, sent |-> token]>> \o @]
    BY <2>0
  <2>2. namespace # << >> /\ UNCHANGED <<texts, namespace, attempts>>
    BY <1>6 DEF Tokenize
  <2>3. value \in Seq(Symbols)
    <3>1. texts[m] \in Seq(Symbols) /\ at[m] \in Nat /\ at[m] <= Len(texts[m])
      BY DEF RepliesInv, TextsInv
    <3>2. PICK first, text : first = at[m] - length + 1 /\ text = texts[m]
      OBVIOUS
    <3>3. PICK last : last = at[m]
      OBVIOUS
    <3>4. first \in 1 .. Len(text) + 1 /\ last \in 0 .. Len(text) /\ first <= last + 1
      BY <3>1, <3>2, <3>3, LenProperties
    <3>5. SubSeq(text, first, last) \in Seq(Symbols)
      BY <3>1, <3>2, <3>4, Span
    <3> QED BY <2>1, <3>2, <3>3, <3>5
  <2>4. /\ token \in DOMAIN mapping' /\ mapping'[token] = Entry(e, value)
        /\ \A t \in DOMAIN mapping : t \in DOMAIN mapping' /\ mapping'[t] = mapping[t]
        /\ DOMAIN mapping' = DOMAIN mapping \cup {token}
    <3>1. Numbered(mapping, Head(namespace))
      BY <1>1, <2>2 DEF MappingInv
    <3>2. PICK new : new = mapping'
      OBVIOUS
    <3>3. DOMAIN new = DOMAIN mapping \cup {token}
      BY <2>1, <3>2 DEF With
    <3>4. /\ token \in DOMAIN new /\ new[token] = Entry(e, value)
          /\ \A t \in DOMAIN mapping : t \in DOMAIN new /\ new[t] = mapping[t]
      BY <2>1, <3>1, <3>2, TokenizeKeepsMapping
    <3> QED BY <3>2, <3>3, <3>4
  <2>5. ValuesInv'
    <3>1. Entry(e, value).type = e /\ Entry(e, value).value = value
      BY DEF Entry
    <3> QED BY <2>3, <2>4, <3>1 DEF RepliesInv, ValuesInv
  <2>6. PICK p : p = [type |-> e, written |-> value, sent |-> token]
    OBVIOUS
  <2>7. pieces' = [pieces EXCEPT ![m] = <<p>> \o @]
    BY <2>1, <2>6
  <2>8. IsPiece(p, mapping', Drawn)
    <3>1. p.sent = token /\ p.written = value
      BY <2>6
    <3>2. mapping'[token].value = value
      BY <2>4 DEF Entry
    <3> QED BY <2>4, <3>1, <3>2 DEF IsPiece
  <2>9. SentInv'
    BY <1>1, <2>2, <2>4, <2>7, <2>8, SentJoins DEF RepliesInv
  <2>10. at' \in [Messages -> Nat] /\ \A n \in Messages : at'[n] <= at[n]
    BY <2>1 DEF RepliesInv, TextsInv
  <2>11. ASSUME NEW n \in Messages PROVE at'[n] <= Len(texts[n])
    <3>1. at[n] <= Len(texts[n]) /\ at[n] \in Nat /\ at'[n] \in Nat /\ Len(texts[n]) \in Nat
      BY <2>10, LenProperties DEF RepliesInv, TextsInv
    <3> QED BY <2>10, <3>1
  <2>12. TextsInv'
    BY <2>2, <2>10, <2>11 DEF RepliesInv, TextsInv, Drawn
  <2> QED BY <1>1, <2>5, <2>9, <2>12 DEF RepliesInv
<1> QED BY <1>2, <1>3, <1>4, <1>5, <1>6 DEF Next, Sanitize

\* The invariant of the texts and pieces holds in every behaviour.
THEOREM RepliesInvariance == Spec => []RepliesInv
BY RepliesInit, RepliesStep, PTL DEF Spec

-----------------------------------------------------------------------------
(* One pass over a text of the request's symbols                           *)

Alphabet == Symbols \cup {Name(Drawn)} \cup {Label(e, k) : e \in EntityTypes, k \in Nat}

IsToken(s) ==
    /\ Len(s) = 4
    /\ s[1] = Open /\ s[2] = Name(Drawn) /\ s[4] = Close
    /\ \E e \in EntityTypes, k \in Nat : s[3] = Label(e, k)

\* The symbols of the five kinds differ, and Matches tells them apart.
LEMMA SymbolKinds ==
    /\ Head(Open) = "open" /\ Head(Close) = "close"
    /\ \A n : Head(Name(n)) = "namespace"
    /\ \A e, k : Head(Label(e, k)) = "label"
<1>1. ASSUME NEW n PROVE Head(Name(n)) = "namespace"
  BY DEF Name
<1>2. ASSUME NEW e, NEW k PROVE Head(Label(e, k)) = "label"
  BY DEF Label
<1> QED BY <1>1, <1>2 DEF Open, Close

LEMMA TokenSymbols ==
    ASSUME NEW n, NEW e, NEW k, NEW t, t = Token(n, e, k)
    PROVE  Len(t) = 4 /\ t[1] = Open /\ t[2] = Name(n) /\ t[3] = Label(e, k) /\ t[4] = Close
<1>1. PICK a, b, c, d : a = Open /\ b = Name(n) /\ c = Label(e, k) /\ d = Close
  OBVIOUS
<1>2. t = <<a, b, c, d>>
  BY <1>1 DEF Token
<1> QED BY <1>1, <1>2

LEMMA TokenIsText ==
    ASSUME NEW t, IsToken(t), t = <<t[1], t[2], t[3], t[4]>>
    PROVE  t \in Seq(Alphabet)
<1>1. t[1] \in Alphabet /\ t[2] \in Alphabet /\ t[3] \in Alphabet /\ t[4] \in Alphabet
  BY DEF IsToken, Alphabet, Symbols
<1>2. PICK a, b, c, d : a = t[1] /\ b = t[2] /\ c = t[3] /\ d = t[4]
  OBVIOUS
<1>3. PICK A : A = Alphabet
  OBVIOUS
<1>4. <<a, b, c, d>> \in Seq(A)
  BY <1>1, <1>2, <1>3
<1> QED BY <1>2, <1>3, <1>4

LEMMA MappedToken ==
    ASSUME RepliesInv, NEW t \in DOMAIN mapping
    PROVE  IsToken(t) /\ t \in Seq(Alphabet) /\ mapping[t].value \in Seq(Symbols)
<1>1. PICK e : e = mapping[t].type
  OBVIOUS
<1>2. e \in EntityTypes /\ mapping[t].value \in Seq(Symbols)
  BY <1>1 DEF RepliesInv, ValuesInv
<1>3. namespace # << >>
  <2>1. PICK z : z = << >>
    OBVIOUS
  <2>2. DOMAIN z = {}
    BY <2>1
  <2> QED BY <2>1, <2>2 DEF RepliesInv, ReferentsInv, MappingInv
<1>4. Numbered(mapping, Drawn)
  BY <1>3 DEF RepliesInv, ReferentsInv, MappingInv, Drawn
<1>5. PICK k \in 1 .. Cardinality(MintedIn(mapping, e)) : t = Token(Drawn, e, k)
  BY <1>1, <1>4 DEF Numbered
<1>6. k \in Nat
  <2>1. IsFiniteSet(DOMAIN mapping) /\ MintedIn(mapping, e) \subseteq DOMAIN mapping
    BY <1>4 DEF Numbered, MintedIn
  <2>2. Cardinality(MintedIn(mapping, e)) \in Nat
    BY <2>1, FS_Subset, FS_CardinalityType
  <2> QED BY <2>2
<1>7. IsToken(t)
  BY <1>2, <1>5, <1>6, TokenSymbols DEF IsToken
<1>8. t = <<t[1], t[2], t[3], t[4]>>
  <2>1. PICK a, b, c, d : a = Open /\ b = Name(Drawn) /\ c = Label(e, k) /\ d = Close
    OBVIOUS
  <2>2. t = <<a, b, c, d>>
    BY <1>5, <2>1 DEF Token
  <2> QED BY <2>2
<1> QED BY <1>2, <1>7, <1>8, TokenIsText

\* A piece is one symbol that stays, or a token of the request.
LEMMA PieceShape ==
    ASSUME RepliesInv, NEW p, IsPiece(p, mapping, Drawn)
    PROVE  /\ p.sent \in Seq(Alphabet) /\ p.written \in Seq(Alphabet)
           /\ \/ Len(p.sent) = 1 /\ p.written = p.sent /\ p.sent[1] # Name(Drawn)
              \/ IsToken(p.sent) /\ p.sent \in DOMAIN mapping /\ mapping[p.sent].value = p.written
<1>1. Symbols \subseteq Alphabet
  BY DEF Alphabet
<1>2. CASE \E x \in Symbols : x # Name(Drawn) /\ p.sent = <<x>> /\ p.written = <<x>>
  <2>1. PICK x \in Symbols : x # Name(Drawn) /\ p.sent = <<x>> /\ p.written = <<x>>
    BY <1>2
  <2>2. PICK s : s = <<x>>
    OBVIOUS
  <2>3. PICK A : A = Alphabet
    OBVIOUS
  <2>4. s \in Seq(A) /\ Len(s) = 1 /\ s[1] = x
    BY <1>1, <2>2, <2>3
  <2> QED BY <2>1, <2>2, <2>3, <2>4
<1>3. CASE p.sent \in DOMAIN mapping /\ mapping[p.sent].value = p.written
  BY <1>1, <1>3, MappedToken, SeqMonotonic
<1> QED BY <1>2, <1>3 DEF IsPiece

\* From a to b one symbol at a time is passed on.
PassesOn(rest, text, a, b) == \A k \in a .. b : rest[k] = <<text[k]>> \o rest[k + 1]

\* Where one symbol at a time is passed on, a stretch of the text is.
LEMMA Stretch ==
    ASSUME NEW X, NEW text \in Seq(X), NEW rest,
           NEW a \in 1 .. Len(text) + 1, NEW b \in a .. Len(text) + 1,
           rest[b] \in Seq(X), PassesOn(rest, text, a, b - 1)
    PROVE  rest[a] = SubSeq(text, a, b - 1) \o rest[b]
<1>1. Len(text) \in Nat
  BY LenProperties
<1> DEFINE Good(k) == rest[k] = SubSeq(text, k, b - 1) \o rest[b]
           S == {d \in Nat : b - d >= a => Good(b - d)}
<1>2. Good(b)
  <2>1. SubSeq(text, b, b - 1) = << >>
    BY <1>1, SubSeqEmpty
  <2>2. << >> \o rest[b] = rest[b]
    BY ConcatEmptySeq
  <2> QED BY <2>1, <2>2
<1>3. 0 \in S
  <2>1. b - 0 = b
    BY <1>1
  <2> HIDE DEF Good
  <2> QED BY <1>2, <2>1
<1>4. ASSUME NEW k \in a .. b - 1, Good(k + 1) PROVE Good(k)
  <2>1. k \in 1 .. Len(text) /\ b - 1 \in k .. Len(text)
    BY <1>1
  <2>2. PICK s, t, u, v : /\ s = <<text[k]>> /\ t = SubSeq(text, k + 1, b - 1)
                          /\ u = SubSeq(text, k, b - 1) /\ v = rest[b]
    OBVIOUS
  <2>3. s \in Seq(X)
    <3>1. PICK x : x = text[k] /\ x \in X
      BY <2>1, ElementOfSeq
    <3> QED BY <2>2, <3>1
  <2>4. t \in Seq(X) /\ v \in Seq(X)
    <3>1. k + 1 \in 1 .. Len(text) + 1 /\ b - 1 \in 0 .. Len(text) /\ k + 1 <= (b - 1) + 1
      BY <1>1
    <3>2. PICK i \in 1 .. Len(text) + 1 : i = k + 1
      BY <3>1
    <3>3. PICK j \in 0 .. Len(text) : j = b - 1
      BY <3>1
    <3> QED BY <2>2, <3>1, <3>2, <3>3, Span
  <2>5. u = s \o t
    <3>1. PICK j \in k .. Len(text) : j = b - 1
      BY <2>1
    <3> QED BY <2>1, <2>2, <3>1, SubSeqRecursiveFirst
  <2>6. (s \o t) \o v = s \o (t \o v)
    BY <2>3, <2>4, ConcatAssociative
  <2>7. rest[k] = s \o rest[k + 1] /\ rest[k + 1] = t \o v
    BY <1>4, <2>2 DEF PassesOn
  <2> QED BY <2>2, <2>5, <2>6, <2>7
<1> HIDE DEF Good
<1>5. ASSUME NEW d \in Nat, d \in S PROVE d + 1 \in S
  <2> SUFFICES ASSUME b - (d + 1) >= a PROVE Good(b - (d + 1))
    OBVIOUS
  <2>1. PICK k \in a .. b - 1 : k = b - (d + 1) /\ k + 1 = b - d
    BY <1>1
  <2>2. Good(k + 1)
    BY <1>5, <2>1
  <2> QED BY <1>4, <2>1, <2>2
<1>6. \A d \in S : b - d >= a => Good(b - d)
  OBVIOUS
<1> HIDE DEF S
<1>7. \A d \in Nat : d \in S
  BY <1>3, <1>5, Induction
<1>8. PICK d \in Nat : b - d = a /\ b - d >= a
  <2>1. b - a \in Nat /\ b - (b - a) = a /\ b - (b - a) >= a
    BY <1>1
  <2> QED BY <2>1
<1>9. Good(b - d)
  BY <1>6, <1>7, <1>8
<1> QED BY <1>8, <1>9 DEF Good

\* A token of the request begins at position k.
Known(text, k) == Matches(text, k) /\ SubSeq(text, k, k + 3) \in DOMAIN mapping

\* rest is what rehydrate makes of the text from each position on: a token of
\* the request is restored and any other symbol, a foreign token's too, kept.
Rehydrates(rest, text) ==
    /\ rest[Len(text) + 1] = << >>
    /\ \A k \in 1 .. Len(text) + 1 : rest[k] \in Seq(Alphabet)
    /\ \A k \in 1 .. Len(text) :
          IF Known(text, k) THEN rest[k] = mapping[SubSeq(text, k, k + 3)].value \o rest[k + 4]
          ELSE rest[k] = <<text[k]>> \o rest[k + 1]

\* Inside a match no other one begins.
LEMMA MatchesAreApart ==
    ASSUME NEW text, Len(text) \in Nat, NEW k \in 1 .. Len(text), Matches(text, k)
    PROVE  /\ k + 4 \in 1 .. Len(text) + 1
           /\ \A j \in k + 1 .. k + 3 : j \in 1 .. Len(text) /\ ~ Matches(text, j)
<1>1. /\ k + 3 <= Len(text)
      /\ text[k] = Open /\ text[k + 3] = Close
      /\ Head(text[k + 1]) = "namespace" /\ Head(text[k + 2]) = "label"
  BY DEF Matches
<1>2. text[k + 1] # Open /\ text[k + 2] # Open /\ text[k + 3] # Open
  BY <1>1, SymbolKinds
<1>3. \A j \in k + 1 .. k + 3 : j = k + 1 \/ j = k + 2 \/ j = k + 3
  OBVIOUS
<1>4. \A j \in k + 1 .. k + 3 : text[j] # Open
  BY <1>2, <1>3
<1> QED BY <1>1, <1>4 DEF Matches

LEMMA Regroup ==
    ASSUME NEW X, NEW s, NEW t, NEW u, NEW v,
           s \in Seq(X), t \in Seq(X), v \in Seq(X), u = s \o t
    PROVE  u \o v = s \o (t \o v)
BY ConcatAssociative

\* The first of four symbols that are passed on together.
LEMMA FirstOfFour ==
    ASSUME NEW X, NEW text \in Seq(X), NEW k \in 1 .. Len(text), k + 3 <= Len(text)
    PROVE  /\ SubSeq(text, k, k + 3) = <<text[k]>> \o SubSeq(text, k + 1, k + 3)
           /\ <<text[k]>> \in Seq(X) /\ SubSeq(text, k + 1, k + 3) \in Seq(X)
<1>1. Len(text) \in Nat
  BY LenProperties
<1>2. PICK i : i = k + 1
  OBVIOUS
<1>3. PICK j : j = k + 3
  OBVIOUS
<1>4. SubSeq(text, k, j) = <<text[k]>> \o SubSeq(text, i, j)
  <2>1. j \in k .. Len(text)
    BY <1>1, <1>3
  <2> QED BY <1>2, <2>1, SubSeqRecursiveFirst
<1>5. <<text[k]>> \in Seq(X)
  <2>1. PICK x : x = text[k] /\ x \in X
    BY ElementOfSeq
  <2> QED BY <2>1
<1>6. SubSeq(text, i, j) \in Seq(X)
  <2>1. i \in 1 .. Len(text) + 1 /\ j \in 0 .. Len(text) /\ i <= j + 1
    BY <1>1, <1>2, <1>3
  <2> QED BY <2>1, Span
<1> QED BY <1>2, <1>3, <1>4, <1>5, <1>6

LEMMA RehydrateDefinition ==
    ASSUME RepliesInv, NEW text \in Seq(Alphabet)
    PROVE  \E rest : Rehydrate(text) = rest[1] /\ Rehydrates(rest, text)
<1> DEFINE rest == CHOOSE rest : Rest(rest, text, 1)
           L == Len(text)
<1>1. L \in Nat /\ \A k \in 1 .. L : text[k] \in Alphabet
  <2>1. Len(text) \in Nat
    BY LenProperties
  <2>2. ASSUME NEW k \in 1 .. Len(text) PROVE text[k] \in Alphabet
    BY ElementOfSeq
  <2> QED BY <2>1, <2>2
<1>2. Rest(rest, text, 1)
  BY <1>1, RestExists
<1>3. Rehydrate(text) = rest[1]
  BY DEF Rehydrate, Rest
<1> HIDE DEF rest
<1>4. \A k \in 1 .. L + 1 :
         rest[k] = IF k > L THEN << >>
                   ELSE IF Matches(text, k) THEN Restored(SubSeq(text, k, k + 3)) \o rest[k + 4]
                   ELSE <<text[k]>> \o rest[k + 1]
  BY <1>2 DEF Rest
<1>5. rest[L + 1] = << >>
  <2>1. PICK k \in 1 .. L + 1 : k = L + 1 /\ k > L
    BY <1>1
  <2>2. rest[k] = << >>
    BY <1>4, <2>1
  <2> QED BY <2>1, <2>2
<1>6. \A k \in 1 .. L :
         rest[k] = IF Matches(text, k) THEN Restored(SubSeq(text, k, k + 3)) \o rest[k + 4]
                   ELSE <<text[k]>> \o rest[k + 1]
  BY <1>1, <1>4
<1>7. ASSUME NEW k \in 1 .. L, Matches(text, k)
      PROVE  /\ SubSeq(text, k, k + 3) \in Seq(Alphabet)
             /\ Restored(SubSeq(text, k, k + 3)) \in Seq(Alphabet)
  <2>1. PICK t : t = SubSeq(text, k, k + 3)
    OBVIOUS
  <2>2. t \in Seq(Alphabet)
    <3>1. PICK j \in 0 .. L : j = k + 3 /\ k <= j + 1
      BY <1>1, <1>7 DEF Matches
    <3>2. k \in 1 .. L + 1
      BY <1>1
    <3> QED BY <2>1, <3>1, <3>2, Span
  <2>3. t \in DOMAIN mapping => mapping[t].value \in Seq(Alphabet)
    <3>1. Symbols \subseteq Alphabet
      BY DEF Alphabet
    <3> QED BY <3>1, MappedToken, SeqMonotonic
  <2> QED BY <2>1, <2>2, <2>3 DEF Restored
<1>8. ASSUME NEW k \in 1 .. L PROVE <<text[k]>> \in Seq(Alphabet)
  <2>1. PICK x, A : x = text[k] /\ A = Alphabet
    OBVIOUS
  <2>2. x \in A
    BY <1>1, <2>1
  <2>3. <<x>> \in Seq(A)
    BY <2>2
  <2> QED BY <2>1, <2>3
<1>9. \A k \in 1 .. L + 1 : rest[k] \in Seq(Alphabet)
  <2> DEFINE Good(k) == rest[k] \in Seq(Alphabet)
             S == {d \in Nat : \A k \in 1 .. L + 1 : k >= L + 1 - d => Good(k)}
  <2>1. Good(L + 1)
    BY <1>5, EmptySeq
  <2>2. ASSUME NEW k \in 1 .. L, \A j \in k + 1 .. L + 1 : Good(j) PROVE Good(k)
    <3>1. CASE Matches(text, k)
      <4>1. k + 4 \in k + 1 .. L + 1
        BY <1>1, <3>1, MatchesAreApart
      <4>2. rest[k + 4] \in Seq(Alphabet)
        BY <2>2, <4>1
      <4>3. rest[k] = Restored(SubSeq(text, k, k + 3)) \o rest[k + 4]
        BY <1>6, <3>1
      <4> QED BY <1>7, <3>1, <4>2, <4>3, ConcatProperties
    <3>2. CASE ~ Matches(text, k)
      <4>1. k + 1 \in k + 1 .. L + 1
        BY <1>1
      <4>2. rest[k + 1] \in Seq(Alphabet)
        BY <2>2, <4>1
      <4>3. rest[k] = <<text[k]>> \o rest[k + 1]
        BY <1>6, <3>2
      <4> QED BY <1>8, <4>2, <4>3, ConcatProperties
    <3> QED BY <3>1, <3>2
  <2> HIDE DEF Good
  <2>3. 0 \in S
    <3>1. \A k \in 1 .. L + 1 : k >= L + 1 - 0 => k = L + 1
      BY <1>1
    <3> QED BY <2>1, <3>1
  <2>4. ASSUME NEW d \in Nat, d \in S PROVE d + 1 \in S
    <3> SUFFICES ASSUME NEW k \in 1 .. L + 1, k >= L + 1 - (d + 1) PROVE Good(k)
      OBVIOUS
    <3>1. CASE k = L + 1
      BY <2>1, <3>1
    <3>2. CASE k # L + 1
      <4>1. k \in 1 .. L
        BY <1>1, <3>2
      <4>2. \A j \in k + 1 .. L + 1 : j \in 1 .. L + 1 /\ j >= L + 1 - d
        BY <1>1
      <4>3. \A j \in k + 1 .. L + 1 : Good(j)
        BY <2>4, <4>2
      <4> QED BY <2>2, <4>1, <4>3
    <3> QED BY <3>1, <3>2
  <2>5. \A d \in S : \A k \in 1 .. L + 1 : k >= L + 1 - d => Good(k)
    OBVIOUS
  <2> HIDE DEF S
  <2>6. \A d \in Nat : d \in S
    BY <2>3, <2>4, Induction
  <2>7. \A k \in 1 .. L + 1 : k >= L + 1 - L
    BY <1>1
  <2>8. \A k \in 1 .. L + 1 : Good(k)
    BY <1>1, <2>5, <2>6, <2>7
  <2> QED BY <2>8 DEF Good
<1>10. ASSUME NEW k \in 1 .. L, Known(text, k)
       PROVE  rest[k] = mapping[SubSeq(text, k, k + 3)].value \o rest[k + 4]
  BY <1>6, <1>10 DEF Known, Restored
<1>11. ASSUME NEW k \in 1 .. L, ~ Known(text, k) PROVE rest[k] = <<text[k]>> \o rest[k + 1]
  <2>1. CASE ~ Matches(text, k)
    BY <1>6, <2>1
  <2>2. CASE Matches(text, k)
    <3>1. PICK a \in 1 .. L + 1 : a = k + 1
      BY <1>1
    <3>2. PICK b \in 1 .. L + 1 : b = k + 4
      BY <1>1, <2>2, MatchesAreApart
    <3>3. b \in a .. L + 1 /\ b - 1 = k + 3 /\ k + 3 <= L
      BY <1>1, <3>1, <3>2
    <3>4. PassesOn(rest, text, a, b - 1)
      BY <1>1, <1>6, <2>2, <3>1, <3>3, MatchesAreApart DEF PassesOn
    <3>5. rest[k] = SubSeq(text, k, k + 3) \o rest[k + 4]
      BY <1>6, <1>11, <2>2 DEF Known, Restored
    <3>6. PICK r, A, v : r = rest /\ A = Alphabet /\ v = rest[b]
      OBVIOUS
    <3>7. v \in Seq(A) /\ text \in Seq(A)
      BY <1>9, <3>6
    <3>8. r[a] = SubSeq(text, a, b - 1) \o r[b]
      BY <3>3, <3>4, <3>6, <3>7, Stretch
    <3>9. PICK s, t, u : s = <<text[k]>> /\ t = SubSeq(text, k + 1, k + 3) /\ u = SubSeq(text, k, k + 3)
      OBVIOUS
    <3>10. u = s \o t /\ s \in Seq(A) /\ t \in Seq(A)
      BY <3>3, <3>7, <3>9, FirstOfFour
    <3>11. u \o v = s \o (t \o v)
      BY <3>7, <3>10, Regroup
    <3>12. rest[k] = u \o v /\ rest[k + 1] = t \o v
      BY <3>1, <3>2, <3>3, <3>5, <3>6, <3>8, <3>9
    <3> QED BY <3>9, <3>11, <3>12
  <2> QED BY <2>1, <2>2
<1>12. Rehydrates(rest, text)
  BY <1>5, <1>9, <1>10, <1>11 DEF Rehydrates
<1> QED BY <1>3, <1>12

-----------------------------------------------------------------------------
(* One piece of a repeated message                                         *)

LEMMA KnownBegins ==
    ASSUME RepliesInv, NEW text \in Seq(Alphabet), NEW k \in 1 .. Len(text), Known(text, k)
    PROVE  k + 3 <= Len(text) /\ text[k] = Open /\ text[k + 1] = Name(Drawn)
<1>1. k + 3 <= Len(text) /\ text[k] = Open
  BY DEF Known, Matches
<1>2. PICK t : t = SubSeq(text, k, k + 3)
  OBVIOUS
<1>3. t[2] = Name(Drawn)
  BY <1>2, MappedToken DEF Known, IsToken
<1>4. t[2] = text[k + 1]
  <2>1. Len(text) \in Nat
    BY LenProperties
  <2>2. PICK i \in 1 .. Len(text) + 1 : i = k
    BY <2>1
  <2>3. PICK j \in 0 .. Len(text) : j = k + 3
    BY <1>1, <2>1
  <2>4. i <= j + 1 /\ 2 \in 1 .. j - i + 1 /\ i + 2 - 1 = k + 1
    BY <2>2, <2>3
  <2>5. SubSeq(text, i, j)[2] = text[i + 2 - 1]
    BY <2>4, Span
  <2> QED BY <1>2, <2>2, <2>3, <2>4, <2>5
<1> QED BY <1>1, <1>3, <1>4

LEMMA MaxMin ==
    ASSUME NEW a \in Int, NEW b \in Int
    PROVE  /\ Max({a, b}) = IF a >= b THEN a ELSE b
           /\ Min({a, b}) = IF a <= b THEN a ELSE b
<1>1. Max({a, b}) = IF a >= b THEN a ELSE b
  <2>1. \E x \in {a, b} : \A y \in {a, b} : x >= y
    OBVIOUS
  <2>2. PICK x : x = Max({a, b}) /\ x \in {a, b} /\ \A y \in {a, b} : x >= y
    BY <2>1 DEF Max
  <2> QED BY <2>2
<1>2. Min({a, b}) = IF a <= b THEN a ELSE b
  <2>1. \E x \in {a, b} : \A y \in {a, b} : x =< y
    OBVIOUS
  <2>2. PICK x : x = Min({a, b}) /\ x \in {a, b} /\ \A y \in {a, b} : x =< y
    BY <2>1 DEF Min
  <2> QED BY <2>2
<1> QED BY <1>1, <1>2

\* The part of a piece that a reply from first to last repeats, when e symbols
\* are before it, and where what comes after e symbols begins in that reply.
Part(s, w, e, first, last) ==
    IF first <= e + 1 /\ e + Len(s) <= last THEN w
    ELSE SubSeq(s, Max({first - e, 1}), Min({last, e + Len(s)}) - e)

Start(e, first, last) ==
    IF e - first + 2 < 1 THEN 1
    ELSE IF e - first + 2 > last - first + 2 THEN last - first + 2 ELSE e - first + 2

\* A piece s after e symbols is read as u.
ReadAs(rest, u, s, e, first, last) ==
    rest[Start(e, first, last)] = u \o rest[Start(e + Len(s), first, last)]

\* The reply is the text from first to last, and rest what is read of it.
Reads(rest, text, first, last) ==
    /\ text \in Seq(Alphabet) /\ Rehydrates(rest, text)
    /\ first \in Nat \ {0} /\ last \in Nat /\ first <= last
    /\ Len(text) = last - first + 1

\* A piece s after e symbols is repeated as a whole, or not at all.
Inside(s, e, first, last)  == first <= e + 1 /\ e + Len(s) <= last
Outside(s, e, first, last) == first > e + Len(s) \/ e + 1 > last

\* The text repeats s after e symbols, and does not go on with a namespace
\* behind a single symbol.
Repeats(text, s, e, first, last) ==
    /\ \A i \in 1 .. Len(s) : first <= e + i /\ e + i <= last => text[e + i - first + 1] = s[i]
    /\ Len(s) = 1 /\ e + 2 <= last /\ first <= e + 1 => text[e + 3 - first] # Name(Drawn)

\* A single symbol is kept.
LEMMA SymbolIsKept ==
    ASSUME RepliesInv, NEW text, NEW rest, NEW first, NEW last, Reads(rest, text, first, last),
           NEW e, e \in Nat, NEW s, Repeats(text, s, e, first, last),
           s \in Seq(Alphabet), Len(s) = 1, Inside(s, e, first, last)
    PROVE  ReadAs(rest, s, s, e, first, last)
<1> USE DEF Reads, Inside
<1>1. PICK p \in 1 .. Len(text) : p = e - first + 2
  OBVIOUS
<1>2. Start(e, first, last) = p /\ Start(e + Len(s), first, last) = p + 1
  BY <1>1 DEF Start
<1>3. text[p] = s[1]
  <2>1. 1 \in 1 .. Len(s) /\ e + 1 - first + 1 = p
    BY <1>1
  <2> QED BY <2>1 DEF Repeats
<1>4. ~ Known(text, p)
  <2> SUFFICES ASSUME Known(text, p) PROVE FALSE
    OBVIOUS
  <2>1. p + 3 <= Len(text) /\ text[p + 1] = Name(Drawn)
    BY KnownBegins
  <2>2. e + 2 <= last /\ e + 3 - first = p + 1
    BY <1>1, <2>1
  <2> QED BY <2>1, <2>2 DEF Repeats
<1>5. rest[p] = <<text[p]>> \o rest[p + 1]
  BY <1>4 DEF Rehydrates
<1>6. s = <<s[1]>>
  <2>1. s \in [1 .. 1 -> Alphabet]
    BY LenProperties
  <2> QED BY <2>1
<1> QED BY <1>2, <1>3, <1>5, <1>6 DEF ReadAs

\* A whole token is restored.
LEMMA TokenIsRestored ==
    ASSUME RepliesInv, NEW text, NEW rest, NEW first, NEW last, Reads(rest, text, first, last),
           NEW e, e \in Nat, NEW s, Repeats(text, s, e, first, last),
           s \in Seq(Alphabet), IsToken(s), s \in DOMAIN mapping, Inside(s, e, first, last)
    PROVE  ReadAs(rest, mapping[s].value, s, e, first, last)
<1> USE DEF Reads, Inside
<1>3. Len(s) = 4
  BY DEF IsToken
<1>1. PICK p \in 1 .. Len(text) : p = e - first + 2
  BY <1>3
<1>2. Start(e, first, last) = p /\ Start(e + Len(s), first, last) = p + 4 /\ p + 3 <= Len(text)
  BY <1>1, <1>3 DEF Start
<1>4. ASSUME NEW i \in 1 .. 4 PROVE text[p + i - 1] = s[i]
  <2>1. i \in 1 .. Len(s) /\ first <= e + i /\ e + i <= last /\ e + i - first + 1 = p + i - 1
    BY <1>1, <1>3
  <2> QED BY <2>1 DEF Repeats
<1>5. SubSeq(text, p, p + 3) = s
  <2>1. PICK i \in 1 .. Len(text) + 1 : i = p
    BY <1>1
  <2>2. PICK j \in 0 .. Len(text) : j = p + 3
    BY <1>1, <1>2
  <2>3. i <= j + 1 /\ j - i + 1 = 4
    BY <2>1, <2>2
  <2>4. PICK t : t = SubSeq(text, i, j)
    OBVIOUS
  <2>5. t \in Seq(Alphabet) /\ Len(t) = 4 /\ \A k \in 1 .. 4 : t[k] = text[i + k - 1]
    BY <2>3, <2>4, Span
  <2>6. \A k \in 1 .. 4 : t[k] = s[k]
    BY <1>4, <2>1, <2>5
  <2>7. t = s
    BY <1>3, <2>5, <2>6, SeqEqual
  <2> QED BY <2>1, <2>2, <2>4, <2>7
<1>6. Matches(text, p)
  <2>1. text[p] = s[1] /\ text[p + 1] = s[2] /\ text[p + 2] = s[3] /\ text[p + 3] = s[4]
    <3>1. p + 1 - 1 = p /\ p + 2 - 1 = p + 1 /\ p + 3 - 1 = p + 2 /\ p + 4 - 1 = p + 3
      OBVIOUS
    <3>2. 1 \in 1 .. 4 /\ 2 \in 1 .. 4 /\ 3 \in 1 .. 4 /\ 4 \in 1 .. 4
      OBVIOUS
    <3>3. text[p + 1 - 1] = s[1] /\ text[p + 2 - 1] = s[2] /\ text[p + 3 - 1] = s[3] /\ text[p + 4 - 1] = s[4]
      BY <1>4, <3>2
    <3> QED BY <3>1, <3>3
  <2>2. s[1] = Open /\ Head(s[2]) = "namespace" /\ Head(s[3]) = "label" /\ s[4] = Close
    BY SymbolKinds DEF IsToken
  <2> QED BY <1>2, <2>1, <2>2 DEF Matches
<1>7. Known(text, p)
  BY <1>5, <1>6 DEF Known
<1>8. rest[p] = mapping[s].value \o rest[p + 4]
  BY <1>5, <1>7 DEF Rehydrates
<1> QED BY <1>2, <1>8 DEF ReadAs

\* A token that is cut at either end is kept as it is.
LEMMA CutTokenIsKept ==
    ASSUME RepliesInv, NEW text, NEW rest, NEW first, NEW last, Reads(rest, text, first, last),
           NEW e, e \in Nat, NEW s, Repeats(text, s, e, first, last),
           s \in Seq(Alphabet), IsToken(s),
           ~ Inside(s, e, first, last), ~ Outside(s, e, first, last)
    PROVE  ReadAs(rest, Part(s, s, e, first, last), s, e, first, last)
<1> USE DEF Reads, Inside, Outside
<1>1. Len(s) = 4 /\ s[1] = Open /\ s[2] # Open /\ s[3] # Open /\ s[4] # Open
  BY SymbolKinds DEF IsToken
<1>2. PICK a : a = Start(e, first, last)
  OBVIOUS
<1>3. PICK b : b = Start(e + Len(s), first, last)
  OBVIOUS
<1>4. a = IF first > e + 1 THEN 1 ELSE e - first + 2
  BY <1>1, <1>2 DEF Start
<1>5. b = IF e + 4 > last THEN last - first + 2 ELSE e + 4 - first + 2
  BY <1>1, <1>3 DEF Start
<1>6. a \in 1 .. Len(text) + 1 /\ b \in a .. Len(text) + 1
  BY <1>1, <1>4, <1>5
<1>7. PICK lo, hi : lo = a + first - 1 - e /\ hi = b - 1 + first - 1 - e
  OBVIOUS
<1>8. lo \in 1 .. 4 /\ hi \in lo .. 4 /\ hi - lo = b - 1 - a
  BY <1>1, <1>4, <1>5, <1>7
<1>9. Part(s, s, e, first, last) = SubSeq(s, lo, hi)
  <2>1. Max({first - e, 1}) = lo
    <3>1. Max({first - e, 1}) = IF first - e >= 1 THEN first - e ELSE 1
      BY MaxMin
    <3> QED BY <1>4, <1>7, <3>1
  <2>2. Min({last, e + Len(s)}) - e = hi
    <3>1. PICK q \in Int : q = e + Len(s)
      BY <1>1
    <3>2. PICK z \in Int : z = last
      OBVIOUS
    <3>3. Min({z, q}) = IF z <= q THEN z ELSE q
      BY MaxMin
    <3> QED BY <1>1, <1>5, <1>7, <3>1, <3>2, <3>3
  <2> QED BY <2>1, <2>2 DEF Part
<1>10. ASSUME NEW k \in a .. b - 1
       PROVE  /\ k \in 1 .. Len(text) /\ k + first - 1 - e \in 1 .. 4
              /\ text[k] = s[k + first - 1 - e]
  <2>1. PICK i \in 1 .. 4 : i = k + first - 1 - e
    BY <1>6, <1>7, <1>8
  <2>2. k \in 1 .. Len(text)
    BY <1>6
  <2>3. first <= e + i /\ e + i <= last /\ e + i - first + 1 = k
    BY <2>1, <2>2
  <2>4. text[e + i - first + 1] = s[i]
    BY <1>1, <2>3 DEF Repeats
  <2> QED BY <2>1, <2>2, <2>3, <2>4
<1>11. ASSUME NEW k \in a .. b - 1, Known(text, k) PROVE FALSE
  <2>1. k \in 1 .. Len(text)
    BY <1>10
  <2>2. text[k] = Open /\ k + 3 <= Len(text)
    BY <1>11, <2>1, KnownBegins
  <2>3. PICK i \in 1 .. 4 : i = k + first - 1 - e /\ s[i] = Open
    BY <1>10, <2>2
  <2>4. i = 1
    <3>1. i = 1 \/ i = 2 \/ i = 3 \/ i = 4
      OBVIOUS
    <3> QED BY <1>1, <2>3, <3>1
  <2> QED BY <1>1, <2>1, <2>2, <2>3, <2>4
<1>12. PassesOn(rest, text, a, b - 1)
  BY <1>10, <1>11 DEF Rehydrates, PassesOn
<1>13. rest[b] \in Seq(Alphabet)
  BY <1>6 DEF Rehydrates
<1>14. rest[a] = SubSeq(text, a, b - 1) \o rest[b]
  <2>1. PICK r, A, t : r = rest /\ A = Alphabet /\ t = text
    OBVIOUS
  <2>2. t \in Seq(A) /\ r[b] \in Seq(A) /\ PassesOn(r, t, a, b - 1)
    BY <1>12, <1>13, <2>1
  <2>3. a \in 1 .. Len(t) + 1 /\ b \in a .. Len(t) + 1
    BY <1>6, <2>1
  <2> HIDE DEF Reads
  <2>4. r[a] = SubSeq(t, a, b - 1) \o r[b]
    BY <2>2, <2>3, Stretch
  <2> QED BY <2>1, <2>4
<1>15. SubSeq(text, a, b - 1) = SubSeq(s, lo, hi)
  <2>1. PICK t : t = SubSeq(text, a, b - 1)
    OBVIOUS
  <2>2. PICK u : u = SubSeq(s, lo, hi)
    OBVIOUS
  <2>3. PICK j : j = b - 1
    OBVIOUS
  <2>4. /\ t \in Seq(Alphabet) /\ Len(t) = j - a + 1
        /\ \A k \in 1 .. j - a + 1 : t[k] = text[a + k - 1]
    <3>1. j \in 0 .. Len(text) /\ a <= j + 1
      BY <1>6, <2>3
    <3> QED BY <1>6, <2>1, <2>3, <3>1, Span
  <2>5. /\ u \in Seq(Alphabet) /\ Len(u) = hi - lo + 1
        /\ \A k \in 1 .. hi - lo + 1 : u[k] = s[lo + k - 1]
    <3>1. lo \in 1 .. Len(s) + 1 /\ hi \in 0 .. Len(s) /\ lo <= hi + 1
      BY <1>1, <1>8
    <3> QED BY <2>2, <3>1, Span
  <2>6. Len(t) = Len(u)
    BY <1>6, <1>8, <2>3, <2>4, <2>5
  <2>7. ASSUME NEW k \in 1 .. Len(t) PROVE t[k] = u[k]
    <3>1. k \in 1 .. j - a + 1 /\ k \in 1 .. hi - lo + 1
      BY <2>4, <2>5, <2>6
    <3>2. PICK n \in a .. b - 1 : n = a + k - 1
      BY <1>6, <2>3, <3>1
    <3>3. text[n] = s[n + first - 1 - e]
      BY <1>10
    <3>4. n + first - 1 - e = lo + k - 1
      BY <1>6, <1>7, <3>2
    <3> QED BY <2>4, <2>5, <3>1, <3>2, <3>3, <3>4
  <2>8. t = u
    BY <2>4, <2>5, <2>6, <2>7, SeqEqual
  <2> QED BY <2>1, <2>2, <2>8
<1> QED BY <1>2, <1>3, <1>9, <1>14, <1>15 DEF ReadAs

\* Of a piece outside the stretch nothing is repeated.
LEMMA OutsideIsSkipped ==
    ASSUME NEW text, NEW rest, NEW first, NEW last, Reads(rest, text, first, last),
           NEW e, e \in Nat, NEW s, NEW w, s \in Seq(Alphabet), Len(s) # 0,
           Outside(s, e, first, last)
    PROVE  ReadAs(rest, Part(s, w, e, first, last), s, e, first, last)
<1> USE DEF Reads, Outside
<1>1. Len(s) \in Nat /\ Len(s) > 0
  BY LenProperties
<1>2. PICK a : /\ a = Start(e, first, last) /\ a = Start(e + Len(s), first, last)
               /\ a \in 1 .. Len(text) + 1
  <2>1. Start(e, first, last) = Start(e + Len(s), first, last) /\ Start(e, first, last) \in 1 .. Len(text) + 1
    BY <1>1 DEF Start
  <2> QED BY <2>1
<1>3. Part(s, w, e, first, last) = << >>
  <2>1. PICK q \in Int : q = e + Len(s)
    BY <1>1
  <2>2. PICK lo, hi : lo = Max({first - e, 1}) /\ hi = Min({last, q}) - e
    OBVIOUS
  <2>3. lo = IF first - e >= 1 THEN first - e ELSE 1
    BY <2>2, MaxMin
  <2>4. hi = IF last <= q THEN last - e ELSE q - e
    <3>1. PICK z \in Int : z = last
      OBVIOUS
    <3>2. Min({z, q}) = IF z <= q THEN z ELSE q
      BY MaxMin
    <3> QED BY <2>2, <3>1, <3>2
  <2>5. lo \in Int /\ hi \in Int /\ hi < lo /\ ~ (first <= e + 1 /\ q <= last)
    BY <1>1, <2>1, <2>3, <2>4
  <2>6. Part(s, w, e, first, last) = SubSeq(s, lo, hi)
    BY <2>1, <2>2, <2>5 DEF Part
  <2> QED BY <2>5, <2>6, SubSeqEmpty
<1>4. rest[a] \in Seq(Alphabet)
  BY <1>2 DEF Rehydrates
<1>5. << >> \o rest[a] = rest[a]
  BY <1>4, ConcatEmptySeq
<1> QED BY <1>2, <1>3, <1>5 DEF ReadAs

\* Each piece is read as its part.
LEMMA PieceIsRead ==
    ASSUME RepliesInv, NEW text, NEW rest, NEW first, NEW last, Reads(rest, text, first, last),
           NEW e, e \in Nat, NEW p, IsPiece(p, mapping, Drawn), Repeats(text, p.sent, e, first, last)
    PROVE  /\ Part(p.sent, p.written, e, first, last) \in Seq(Alphabet)
           /\ ReadAs(rest, Part(p.sent, p.written, e, first, last), p.sent, e, first, last)
<1>1. PICK s, w : s = p.sent /\ w = p.written
  OBVIOUS
<1>2. s \in Seq(Alphabet) /\ w \in Seq(Alphabet)
  BY <1>1, PieceShape
<1>3. \/ Len(s) = 1 /\ w = s
      \/ IsToken(s) /\ s \in DOMAIN mapping /\ mapping[s].value = w
  BY <1>1, PieceShape
<1>4. Len(s) = 1 \/ Len(s) = 4
  BY <1>3 DEF IsToken
<1>5. Repeats(text, s, e, first, last)
  BY <1>1
<1>6. Part(s, w, e, first, last) \in Seq(Alphabet)
  <2>1. PICK q \in Int : q = e + Len(s)
    BY <1>4
  <2>2. PICK lo, hi : lo = Max({first - e, 1}) /\ hi = Min({last, q}) - e
    OBVIOUS
  <2>3. first \in Int /\ last \in Int
    BY DEF Reads
  <2>4. lo = IF first - e >= 1 THEN first - e ELSE 1
    BY <2>2, <2>3, MaxMin
  <2>5. hi = IF last <= q THEN last - e ELSE q - e
    BY <2>2, <2>3, MaxMin
  <2>6. lo \in Int /\ hi \in Int /\ 1 <= lo /\ hi <= Len(s)
    BY <1>4, <2>1, <2>3, <2>4, <2>5
  <2>7. \A i \in lo .. hi : s[i] \in Alphabet
    <3>1. \A i \in lo .. hi : i \in 1 .. Len(s)
      BY <1>4, <2>6
    <3> QED BY <1>2, <3>1, ElementOfSeq
  <2>8. SubSeq(s, lo, hi) \in Seq(Alphabet)
    BY <2>6, <2>7, SubSeqProperties
  <2> QED BY <1>2, <2>1, <2>2, <2>8 DEF Part
<1>7. ReadAs(rest, Part(s, w, e, first, last), s, e, first, last)
  <2>1. CASE Outside(s, e, first, last)
    <3>1. Len(s) # 0
      BY <1>4
    <3> QED BY <1>2, <2>1, <3>1, OutsideIsSkipped
  <2>2. CASE ~ Outside(s, e, first, last) /\ Len(s) = 1
    <3>1. w = s
      BY <1>3, <2>2 DEF IsToken
    <3>2. Inside(s, e, first, last)
      BY <2>2 DEF Outside, Inside, Reads
    <3>3. Part(s, w, e, first, last) = s
      BY <3>1, <3>2 DEF Part, Inside
    <3>4. ReadAs(rest, s, s, e, first, last)
      BY <1>2, <1>5, <2>2, <3>2, SymbolIsKept
    <3> QED BY <3>3, <3>4
  <2>3. CASE ~ Outside(s, e, first, last) /\ Len(s) # 1
    <3>1. IsToken(s) /\ s \in DOMAIN mapping /\ mapping[s].value = w
      BY <1>3, <2>3
    <3>2. CASE Inside(s, e, first, last)
      <4>1. Part(s, w, e, first, last) = w
        BY <3>2 DEF Part, Inside
      <4>2. ReadAs(rest, mapping[s].value, s, e, first, last)
        BY <1>2, <1>5, <3>1, <3>2, TokenIsRestored
      <4> QED BY <3>1, <4>1, <4>2
    <3>3. CASE ~ Inside(s, e, first, last)
      <4>1. Part(s, w, e, first, last) = Part(s, s, e, first, last)
        BY <3>3 DEF Part, Inside
      <4>2. ReadAs(rest, Part(s, s, e, first, last), s, e, first, last)
        BY <1>2, <1>5, <2>3, <3>1, <3>3, CutTokenIsKept
      <4> QED BY <4>1, <4>2
    <3> QED BY <3>2, <3>3
  <2> QED BY <2>1, <2>2, <2>3
<1> QED BY <1>1, <1>6, <1>7

-----------------------------------------------------------------------------
(* A whole message, sent and read                                          *)

\* t lays the first n of the sequences s out, each after the end before it.
LaysOut(t, s, end, n) ==
    /\ Len(t) = end[n]
    /\ \A k \in 1 .. n :
          /\ end[k] <= end[n]
          /\ \A i \in 1 .. Len(s[k]) : t[end[k - 1] + i] = s[k][i]

\* end holds where each of the first n sequences ends.
EndsAt(end, s, n) ==
    /\ end[0] = 0
    /\ \A k \in 0 .. n : end[k] \in Nat
    /\ \A k \in 1 .. n : Len(s[k]) \in Nat /\ end[k] = end[k - 1] + Len(s[k])

Joined(v, t, u, X) == t \in Seq(X) /\ u \in Seq(X) /\ v = t \o u

LEMMA LaysOutMore ==
    ASSUME NEW X, NEW t, NEW u, NEW v, Joined(v, t, u, X),
           NEW s, NEW end, NEW n \in Nat, NEW j, j = n + 1, s[j] = u,
           EndsAt(end, s, j), LaysOut(t, s, end, n)
    PROVE  LaysOut(v, s, end, j)
<1>1. /\ Len(v) = Len(t) + Len(u)
      /\ \A i \in 1 .. Len(t) : v[i] = t[i]
      /\ \A i \in Len(t) + 1 .. Len(t) + Len(u) : v[i] = u[i - Len(t)]
  BY ConcatProperties DEF Joined
<1>2. j \in 1 .. j /\ j - 1 = n /\ n \in 0 .. j
  OBVIOUS
<1>3. Len(t) = end[n] /\ end[j] = end[n] + Len(u) /\ Len(u) \in Nat /\ end[n] \in Nat /\ end[j] \in Nat
  BY <1>2 DEF EndsAt, LaysOut
<1>4. ASSUME NEW k \in 1 .. n
      PROVE  end[k] <= end[j] /\ \A i \in 1 .. Len(s[k]) : v[end[k - 1] + i] = s[k][i]
  <2>1. /\ end[k] <= end[n]
        /\ \A i \in 1 .. Len(s[k]) : t[end[k - 1] + i] = s[k][i]
    BY DEF LaysOut
  <2>2. k \in 1 .. j /\ k - 1 \in 0 .. j /\ k \in 0 .. j
    OBVIOUS
  <2>3. PICK a, b, l, c : a = end[k - 1] /\ b = end[k] /\ l = Len(s[k]) /\ c = Len(t)
    OBVIOUS
  <2>4. a \in Nat /\ b \in Nat /\ l \in Nat /\ b = a + l /\ c \in Nat /\ b <= c
    BY <1>3, <2>1, <2>2, <2>3 DEF EndsAt
  <2>5. \A i \in 1 .. l : a + i \in 1 .. c
    BY <2>4
  <2>6. \A i \in 1 .. l : v[a + i] = t[a + i]
    BY <1>1, <2>3, <2>5
  <2>7. end[k] <= end[j]
    BY <1>3, <2>3, <2>4
  <2> QED BY <2>1, <2>3, <2>6, <2>7
<1>5. \A i \in 1 .. Len(s[j]) : v[end[j - 1] + i] = s[j][i]
  <2>1. PICK a, l : a = Len(t) /\ l = Len(u)
    OBVIOUS
  <2>2. a \in Nat /\ l \in Nat
    BY <1>3, <2>1
  <2>3. \A i \in 1 .. l : a + i \in a + 1 .. a + l /\ a + i - a = i
    BY <2>2
  <2>4. \A i \in 1 .. l : v[a + i] = u[i]
    BY <1>1, <2>1, <2>3
  <2> QED BY <1>2, <1>3, <2>1, <2>4
<1>6. \A k \in 1 .. j : k \in 1 .. n \/ k = j
  OBVIOUS
<1>7. Len(v) = end[j] /\ end[j] <= end[j]
  BY <1>1, <1>3
<1> QED BY <1>4, <1>5, <1>6, <1>7 DEF LaysOut

LEMMA FlattenLaysOut ==
    ASSUME NEW X, NEW s \in Seq(Seq(X)), NEW end, EndsAt(end, s, Len(s))
    PROVE  FlattenSeq(s) \in Seq(X) /\ LaysOut(FlattenSeq(s), s, end, Len(s))
<1>1. PICK N \in Nat : N = Len(s)
  BY LenProperties
<1>2. PICK f \in [0 .. N -> Seq(X)] :
          /\ FlattenSeq(s) = f[N]
          /\ f[0] = << >>
          /\ \A n \in 1 .. N : f[n] = f[n - 1] \o s[n]
  BY <1>1, FlattenDefinition
<1>3. \A n \in 0 .. N : f[n] \in Seq(X)
  OBVIOUS
<1>4. \A n \in 1 .. N : s[n] \in Seq(X)
  BY <1>1, ElementOfSeq
<1> DEFINE Good(n) == LaysOut(f[n], s, end, n)
           S == {n \in Nat : n <= N => Good(n)}
<1>5. Good(0)
  <2>1. PICK t : t = << >>
    OBVIOUS
  <2>2. Len(t) = 0 /\ f[0] = t /\ end[0] = 0
    BY <1>2, <2>1 DEF EndsAt
  <2>3. \A k \in 1 .. 0 : FALSE
    OBVIOUS
  <2> QED BY <2>2, <2>3 DEF LaysOut
<1>6. ASSUME NEW n \in Nat, n + 1 <= N, Good(n) PROVE Good(n + 1)
  <2>1. PICK j : j = n + 1
    OBVIOUS
  <2>2. j \in 1 .. N /\ j - 1 = n /\ n \in 0 .. N
    BY <1>6, <2>1
  <2>3. PICK t, u, v : t = f[n] /\ u = s[j] /\ v = f[j]
    OBVIOUS
  <2>4. Joined(v, t, u, X)
    BY <1>2, <1>3, <1>4, <2>2, <2>3 DEF Joined
  <2>5. EndsAt(end, s, j)
    <3>1. \A k \in 0 .. j : k \in 0 .. N
      BY <2>2
    <3>2. \A k \in 1 .. j : k \in 1 .. N
      BY <2>2
    <3> QED BY <1>1, <3>1, <3>2 DEF EndsAt
  <2>6. LaysOut(t, s, end, n) /\ s[j] = u
    BY <1>6, <2>3
  <2> HIDE DEF Good, S
  <2>7. LaysOut(v, s, end, j)
    BY <2>1, <2>4, <2>5, <2>6, LaysOutMore
  <2> QED BY <2>1, <2>3, <2>7 DEF Good
<1> HIDE DEF Good
<1>7. 0 \in S
  BY <1>5
<1>8. ASSUME NEW n \in Nat, n \in S PROVE n + 1 \in S
  BY <1>6, <1>8
<1>9. \A n \in S : n <= N => Good(n)
  OBVIOUS
<1> HIDE DEF S
<1>10. \A n \in Nat : n \in S
  BY <1>7, <1>8, Induction
<1>11. Good(N)
  BY <1>9, <1>10
<1> QED BY <1>1, <1>2, <1>3, <1>11 DEF Good

\* Each tail is a part and the next tail.
Tails(tail, parts, X) ==
    /\ \A n \in 0 .. Len(parts) : tail[n] \in Seq(X)
    /\ \A n \in 1 .. Len(parts) : tail[n - 1] = parts[n] \o tail[n]
    /\ tail[Len(parts)] = << >>

LEMMA PartsJoin ==
    ASSUME NEW X, NEW parts \in Seq(Seq(X)), NEW tail, Tails(tail, parts, X)
    PROVE  FlattenSeq(parts) = tail[0]
<1>1. PICK N \in Nat : N = Len(parts)
  BY LenProperties
<1>2. PICK f \in [0 .. N -> Seq(X)] :
          /\ FlattenSeq(parts) = f[N]
          /\ f[0] = << >>
          /\ \A n \in 1 .. N : f[n] = f[n - 1] \o parts[n]
  BY <1>1, FlattenDefinition
<1>3. \A n \in 0 .. N : f[n] \in Seq(X) /\ tail[n] \in Seq(X)
  BY <1>1 DEF Tails
<1>4. \A n \in 1 .. N : parts[n] \in Seq(X)
  BY <1>1, ElementOfSeq
<1> DEFINE Good(n) == f[n] \o tail[n] = tail[0]
           S == {n \in Nat : n <= N => Good(n)}
<1>5. Good(0)
  <2>1. PICK t : t = tail[0]
    OBVIOUS
  <2>2. t \in Seq(X)
    BY <1>3, <2>1
  <2>3. << >> \o t = t
    BY <2>2, ConcatEmptySeq
  <2> QED BY <1>2, <2>1, <2>3
<1>6. ASSUME NEW n \in Nat, n + 1 <= N, Good(n) PROVE Good(n + 1)
  <2>1. PICK j : j = n + 1
    OBVIOUS
  <2>2. j \in 1 .. N /\ j - 1 = n /\ n \in 0 .. N /\ j \in 0 .. N
    BY <1>6, <2>1
  <2>3. PICK s, t, u, v : s = f[n] /\ t = parts[j] /\ u = f[j] /\ v = tail[j]
    OBVIOUS
  <2>4. s \in Seq(X) /\ t \in Seq(X) /\ v \in Seq(X) /\ u = s \o t
    BY <1>2, <1>3, <1>4, <2>2, <2>3
  <2>5. u \o v = s \o (t \o v)
    BY <2>4, Regroup
  <2>6. tail[n] = t \o v
    BY <1>1, <2>2, <2>3 DEF Tails
  <2> QED BY <1>6, <2>1, <2>3, <2>5, <2>6
<1> HIDE DEF Good
<1>7. 0 \in S
  BY <1>5
<1>8. ASSUME NEW n \in Nat, n \in S PROVE n + 1 \in S
  BY <1>6, <1>8
<1>9. \A n \in S : n <= N => Good(n)
  OBVIOUS
<1> HIDE DEF S
<1>10. \A n \in Nat : n \in S
  BY <1>7, <1>8, Induction
<1>11. Good(N)
  BY <1>9, <1>10
<1>12. f[N] \o << >> = f[N]
  <2>1. PICK t : t = f[N]
    OBVIOUS
  <2>2. t \in Seq(X)
    BY <1>3, <2>1
  <2> QED BY <2>1, <2>2, ConcatEmptySeq
<1> QED BY <1>1, <1>2, <1>11, <1>12 DEF Good, Tails

\* The ends of the pieces, and the parts of them that Expected joins.
EndsOf(end, m) ==
    /\ end \in [0 .. Len(pieces[m]) -> Nat]
    /\ end[0] = 0
    /\ \A k \in 1 .. Len(pieces[m]) : end[k] = end[k - 1] + Len(pieces[m][k].sent)

Parts(m, end, first, last) ==
    [k \in DOMAIN pieces[m] |->
        Part(pieces[m][k].sent, pieces[m][k].written, end[k - 1], first, last)]

LEMMA PiecesAreSent ==
    ASSUME RepliesInv, NEW m \in Messages
    PROVE  /\ Len(pieces[m]) \in Nat /\ DOMAIN pieces[m] = 1 .. Len(pieces[m])
           /\ \A k \in 1 .. Len(pieces[m]) :
                 /\ IsPiece(pieces[m][k], mapping, Drawn)
                 /\ pieces[m][k].sent \in Seq(Alphabet) /\ Len(pieces[m][k].sent) \in Nat
<1>1. Len(pieces[m]) \in Nat /\ DOMAIN pieces[m] = 1 .. Len(pieces[m])
  <2>1. IsSequence(pieces[m])
    BY DEF RepliesInv, ReferentsInv, PiecesInv
  <2> QED BY <2>1, LenProperties DEF IsSequence
<1>2. ASSUME NEW k \in 1 .. Len(pieces[m])
      PROVE  /\ IsPiece(pieces[m][k], mapping, Drawn)
             /\ pieces[m][k].sent \in Seq(Alphabet) /\ Len(pieces[m][k].sent) \in Nat
  <2>1. PICK p : p = pieces[m][k]
    OBVIOUS
  <2>2. IsPiece(p, mapping, Drawn)
    BY <1>1, <2>1 DEF RepliesInv, SentInv
  <2>3. p.sent \in Seq(Alphabet)
    BY <2>2, PieceShape
  <2> QED BY <2>1, <2>2, <2>3, LenProperties
<1> QED BY <1>1, <1>2

LEMMA ExpectedDefinition ==
    ASSUME RepliesInv, NEW m \in Messages
    PROVE  \E end : /\ EndsOf(end, m)
                    /\ \A first, last :
                          Expected(m, first, last) = FlattenSeq(Parts(m, end, first, last))
<1>1. PICK P : P = pieces[m]
  OBVIOUS
<1>2. /\ Len(P) \in Nat /\ DOMAIN P = 1 .. Len(P)
      /\ \A k \in 1 .. Len(P) : Len(P[k].sent) \in Nat
  BY <1>1, PiecesAreSent
<1> DEFINE end == CHOOSE end : Ends(end, P)
<1>3. Ends(end, P)
  BY <1>2, EndsExist
<1>4. ASSUME NEW first, NEW last
      PROVE  Expected(m, first, last) =
                FlattenSeq([k \in DOMAIN P |->
                   IF first <= end[k - 1] + 1 /\ end[k] <= last THEN P[k].written
                   ELSE SubSeq(P[k].sent, Max({first - end[k - 1], 1}),
                               Min({last, end[k]}) - end[k - 1])])
  BY <1>1 DEF Expected, Ends
<1> HIDE DEF end
<1>5. end = [k \in 0 .. Len(P) |-> IF k = 0 THEN 0 ELSE end[k - 1] + Len(P[k].sent)]
  BY <1>3 DEF Ends
<1>6. end[0] = 0 /\ \A k \in 1 .. Len(P) : end[k] = end[k - 1] + Len(P[k].sent)
  <2>1. 0 \in 0 .. Len(P) /\ \A k \in 1 .. Len(P) : k \in 0 .. Len(P) /\ k # 0
    BY <1>2
  <2> QED BY <1>5, <2>1
<1>7. \A k \in 0 .. Len(P) : end[k] \in Nat
  <2> DEFINE S == {k \in Nat : k <= Len(P) => end[k] \in Nat}
  <2>1. 0 \in S
    BY <1>6
  <2>2. ASSUME NEW k \in Nat, k \in S PROVE k + 1 \in S
    <3> SUFFICES ASSUME k + 1 <= Len(P) PROVE end[k + 1] \in Nat
      OBVIOUS
    <3>1. PICK j \in 1 .. Len(P) : j = k + 1 /\ j - 1 = k
      BY <1>2
    <3>2. end[k] \in Nat
      BY <1>2, <2>2
    <3> QED BY <1>2, <1>6, <3>1, <3>2
  <2>3. \A k \in S : k <= Len(P) => end[k] \in Nat
    OBVIOUS
  <2> HIDE DEF S
  <2>4. \A k \in Nat : k \in S
    BY <2>1, <2>2, Induction
  <2> QED BY <1>2, <2>3, <2>4
<1>8. end \in [0 .. Len(P) -> Nat]
  BY <1>5, <1>7
<1>9. ASSUME NEW first, NEW last
      PROVE  Expected(m, first, last) = FlattenSeq(Parts(m, end, first, last))
  <2>0. PICK h : /\ Expected(m, first, last) = FlattenSeq(h)
                 /\ h = [k \in DOMAIN P |->
                          IF first <= end[k - 1] + 1 /\ end[k] <= last THEN P[k].written
                          ELSE SubSeq(P[k].sent, Max({first - end[k - 1], 1}),
                                      Min({last, end[k]}) - end[k - 1])]
    BY <1>4
  <2>1. ASSUME NEW k \in DOMAIN P
        PROVE  Part(P[k].sent, P[k].written, end[k - 1], first, last) =
                   IF first <= end[k - 1] + 1 /\ end[k] <= last THEN P[k].written
                   ELSE SubSeq(P[k].sent, Max({first - end[k - 1], 1}),
                               Min({last, end[k]}) - end[k - 1])
    BY <1>2, <1>6 DEF Part
  <2>2. Parts(m, end, first, last) =
            [k \in DOMAIN P |->
               IF first <= end[k - 1] + 1 /\ end[k] <= last THEN P[k].written
               ELSE SubSeq(P[k].sent, Max({first - end[k - 1], 1}),
                           Min({last, end[k]}) - end[k - 1])]
    <3>1. Parts(m, end, first, last) =
              [k \in DOMAIN P |-> Part(P[k].sent, P[k].written, end[k - 1], first, last)]
      BY <1>1 DEF Parts
    <3> HIDE DEF Parts
    <3> QED BY <2>1, <3>1, Zenon
  <2>3. h = Parts(m, end, first, last)
    BY <2>0, <2>2
  <2> QED BY <2>0, <2>3
<1>10. EndsOf(end, m)
  BY <1>1, <1>6, <1>8 DEF EndsOf
<1> QED BY <1>9, <1>10

\* The message that is sent lays the pieces out.
LEMMA SentDefinition ==
    ASSUME RepliesInv, NEW m \in Messages, NEW end, EndsOf(end, m), NEW s,
           s = [k \in DOMAIN pieces[m] |-> pieces[m][k].sent]
    PROVE  /\ Sent(m) \in Seq(Alphabet)
           /\ LaysOut(Sent(m), s, end, Len(pieces[m]))
<1>1. PICK N \in Nat : N = Len(pieces[m])
  BY PiecesAreSent
<1>2. DOMAIN pieces[m] = 1 .. N
  BY <1>1, PiecesAreSent
<1>3. ASSUME NEW k \in 1 .. N
      PROVE  s[k] = pieces[m][k].sent /\ s[k] \in Seq(Alphabet) /\ Len(s[k]) \in Nat
  BY <1>1, <1>2, PiecesAreSent
<1>4. PICK A, Z : A = Alphabet /\ Z = Seq(Alphabet)
  OBVIOUS
<1>5. s \in Seq(Z) /\ Len(s) = N
  <2>1. s = [k \in 1 .. N |-> s[k]]
    BY <1>2
  <2>2. \A k \in 1 .. N : s[k] \in Z
    BY <1>3, <1>4
  <2>3. s \in [1 .. N -> Z]
    BY <2>1, <2>2
  <2> QED BY <2>3, LenProperties
<1>6. EndsAt(end, s, N)
  BY <1>1, <1>3 DEF EndsOf, EndsAt
<1>7. s \in Seq(Seq(A)) /\ EndsAt(end, s, Len(s))
  BY <1>4, <1>5, <1>6
<1>8. FlattenSeq(s) \in Seq(A) /\ LaysOut(FlattenSeq(s), s, end, Len(s))
  BY <1>7, FlattenLaysOut
<1>9. Sent(m) = FlattenSeq(s)
  BY DEF Sent
<1> QED BY <1>1, <1>4, <1>5, <1>8, <1>9

SentOf(s, m) == s = [k \in DOMAIN pieces[m] |-> pieces[m][k].sent]

\* The text is that of sent from first to last.
IsStretch(text, sent, first, last) ==
    /\ Len(sent) \in Nat /\ first \in 1 .. Len(sent) /\ last \in first .. Len(sent)
    /\ \A i \in 1 .. last - first + 1 : text[i] = sent[first + i - 1]

\* A reply that repeats the message from first to last repeats each piece.
LEMMA EachPieceIsRepeated ==
    ASSUME RepliesInv, NEW m \in Messages, NEW end, EndsOf(end, m), NEW s, SentOf(s, m),
           NEW N, N = Len(pieces[m]), NEW sent, LaysOut(sent, s, end, N),
           NEW text, NEW first, NEW last, IsStretch(text, sent, first, last),
           NEW k, k \in 1 .. N
    PROVE  Repeats(text, s[k], end[k - 1], first, last)
<1>0. /\ Len(sent) \in Nat /\ first \in 1 .. Len(sent) /\ last \in first .. Len(sent) /\ N \in Nat
      /\ \A i \in 1 .. last - first + 1 : text[i] = sent[first + i - 1]
  BY PiecesAreSent DEF IsStretch
<1>1. \A j \in 1 .. N : /\ s[j] = pieces[m][j].sent /\ Len(s[j]) \in Nat
                        /\ IsPiece(pieces[m][j], mapping, Drawn)
  <2>1. DOMAIN pieces[m] = 1 .. N
    BY PiecesAreSent
  <2> QED BY <2>1, PiecesAreSent DEF SentOf
<1>2. PICK e, l : e = end[k - 1] /\ l = Len(s[k]) /\ e \in Nat /\ l \in Nat
  <2>1. PICK j : j = k - 1
    OBVIOUS
  <2>2. j \in 0 .. Len(pieces[m])
    BY <1>0, <2>1
  <2>3. end[j] \in Nat
    BY <2>2 DEF EndsOf
  <2> QED BY <1>1, <2>1, <2>3
<1>3. end[k] = e + l
  BY <1>1, <1>2 DEF EndsOf
<1>4. \A i \in 1 .. l : sent[e + i] = s[k][i]
  BY <1>2 DEF LaysOut
<1>5. \A i \in Nat : first <= i /\ i <= last => text[i - first + 1] = sent[i]
  <2> SUFFICES ASSUME NEW i \in Nat, first <= i, i <= last PROVE text[i - first + 1] = sent[i]
    OBVIOUS
  <2>1. PICK j : j = i - first + 1
    OBVIOUS
  <2>2. j \in 1 .. last - first + 1 /\ first + j - 1 = i
    BY <1>0, <2>1
  <2> QED BY <1>0, <2>1, <2>2
<1>6. ASSUME NEW i \in 1 .. l, first <= e + i, e + i <= last
      PROVE  text[e + i - first + 1] = s[k][i]
  <2>1. PICK n : n = e + i
    OBVIOUS
  <2>2. n \in Nat /\ first <= n /\ n <= last
    BY <1>2, <1>6, <2>1
  <2>3. text[n - first + 1] = sent[n]
    BY <1>5, <2>2
  <2>4. sent[n] = s[k][i]
    <3>1. sent[e + i] = s[k][i]
      BY <1>4
    <3> QED BY <2>1, <3>1
  <2>5. n - first + 1 = e + i - first + 1
    <3>1. PICK x \in Int, y \in Int, z \in Int : x = e /\ y = first /\ z = i
      BY <1>0, <1>2
    <3>2. (x + z) - y + 1 = x + z - y + 1
      OBVIOUS
    <3> QED BY <2>1, <3>1, <3>2
  <2> QED BY <2>3, <2>4, <2>5
<1>7. ASSUME l = 1, e + 2 <= last, first <= e + 1 PROVE text[e + 3 - first] # Name(Drawn)
  <2>1. Len(sent) = end[N]
    BY DEF LaysOut
  <2>2. k # N
    BY <1>0, <1>2, <1>3, <1>7, <2>1
  <2>3. PICK j \in 1 .. N : j = k + 1 /\ j - 1 = k
    BY <1>0, <2>2
  <2>4. s[j][1] # Name(Drawn) /\ 1 \in 1 .. Len(s[j])
    <3>1. PICK p : p = pieces[m][j]
      OBVIOUS
    <3>2. IsPiece(p, mapping, Drawn) /\ s[j] = p.sent
      BY <1>1, <3>1
    <3>3. \/ Len(p.sent) = 1 /\ p.sent[1] # Name(Drawn)
          \/ IsToken(p.sent)
      BY <3>2, PieceShape
    <3>4. IsToken(p.sent) => Len(p.sent) = 4 /\ p.sent[1] # Name(Drawn)
      BY SymbolKinds DEF IsToken
    <3> QED BY <3>2, <3>3, <3>4
  <2>5. sent[end[j - 1] + 1] = s[j][1]
    BY <2>4 DEF LaysOut
  <2>6. end[j - 1] + 1 = e + 2
    <3>1. end[j - 1] = e + 1
      BY <1>3, <1>7, <2>3
    <3> QED BY <1>2, <3>1
  <2>7. text[e + 3 - first] = sent[e + 2]
    <3>1. PICK n : n = e + 2
      OBVIOUS
    <3>2. n \in Nat /\ first <= n /\ n <= last
      BY <1>0, <1>2, <1>7, <3>1
    <3>3. text[n - first + 1] = sent[n]
      BY <1>5, <3>2
    <3>4. n - first + 1 = e + 3 - first
      <4>1. PICK x \in Int, y \in Int : x = e /\ y = first
        BY <1>0, <1>2
      <4>2. (x + 2) - y + 1 = x + 3 - y
        OBVIOUS
      <4> QED BY <3>1, <4>1, <4>2
    <3> QED BY <3>1, <3>3, <3>4
  <2> QED BY <2>4, <2>5, <2>6, <2>7
<1> QED BY <1>2, <1>6, <1>7 DEF Repeats

\* A reply that repeats the message from first to last is read as expected.
LEMMA ReplyIsRead ==
    ASSUME RepliesInv, NEW m \in Messages, NEW sent, sent = Sent(m),
           NEW first \in 1 .. Len(sent), NEW last \in first .. Len(sent)
    PROVE  Rehydrate(SubSeq(sent, first, last)) = Expected(m, first, last)
<1>1. PICK end : /\ EndsOf(end, m)
                 /\ Expected(m, first, last) = FlattenSeq(Parts(m, end, first, last))
  BY ExpectedDefinition
<1>2. PICK N \in Nat : N = Len(pieces[m])
  BY PiecesAreSent
<1>3. PICK s : s = [k \in DOMAIN pieces[m] |-> pieces[m][k].sent]
  OBVIOUS
<1>4. sent \in Seq(Alphabet) /\ LaysOut(sent, s, end, N) /\ Len(sent) \in Nat
  <2>1. sent \in Seq(Alphabet) /\ LaysOut(sent, s, end, N)
    BY <1>1, <1>2, <1>3, SentDefinition
  <2> QED BY <2>1, LenProperties
<1>5. PICK text : text = SubSeq(sent, first, last)
  OBVIOUS
<1>6. /\ text \in Seq(Alphabet) /\ Len(text) = last - first + 1
      /\ \A i \in 1 .. last - first + 1 : text[i] = sent[first + i - 1]
  <2>1. first \in 1 .. Len(sent) + 1 /\ last \in 0 .. Len(sent) /\ first <= last + 1
    BY <1>4
  <2> QED BY <1>4, <1>5, <2>1, Span
<1>7. PICK rest : Rehydrate(text) = rest[1] /\ Rehydrates(rest, text)
  BY <1>6, RehydrateDefinition
<1>8. Reads(rest, text, first, last)
  BY <1>4, <1>6, <1>7 DEF Reads
<1>9. DOMAIN pieces[m] = 1 .. N /\ \A k \in 1 .. N : IsPiece(pieces[m][k], mapping, Drawn)
  BY <1>2, PiecesAreSent
<1>10. \A n \in 0 .. N : end[n] \in Nat
  BY <1>1, <1>2 DEF EndsOf
<1> DEFINE parts == Parts(m, end, first, last)
<1>11. ASSUME NEW k \in 1 .. N
       PROVE  /\ parts[k] \in Seq(Alphabet)
              /\ rest[Start(end[k - 1], first, last)] = parts[k] \o rest[Start(end[k], first, last)]
  <2>1. PICK p, e : p = pieces[m][k] /\ e = end[k - 1]
    OBVIOUS
  <2>2. IsPiece(p, mapping, Drawn) /\ e \in Nat /\ p.sent = s[k]
    BY <1>3, <1>9, <1>10, <2>1
  <2>3. Repeats(text, s[k], end[k - 1], first, last)
    <3>1. SentOf(s, m) /\ IsStretch(text, sent, first, last)
      BY <1>3, <1>4, <1>6 DEF SentOf, IsStretch
    <3> HIDE DEF parts
    <3> QED BY <1>1, <1>2, <1>4, <3>1, EachPieceIsRepeated
  <2>4. Repeats(text, p.sent, e, first, last)
    BY <2>1, <2>2, <2>3
  <2>5. /\ Part(p.sent, p.written, e, first, last) \in Seq(Alphabet)
        /\ ReadAs(rest, Part(p.sent, p.written, e, first, last), p.sent, e, first, last)
    BY <1>8, <2>2, <2>4, PieceIsRead
  <2>6. parts[k] = Part(p.sent, p.written, e, first, last)
    BY <1>9, <2>1 DEF Parts
  <2>7. end[k] = e + Len(p.sent)
    BY <1>1, <1>2, <2>1 DEF EndsOf
  <2> HIDE DEF parts
  <2> QED BY <2>1, <2>5, <2>6, <2>7 DEF ReadAs
<1>12. parts = [k \in 1 .. N |-> parts[k]]
  BY <1>9 DEF Parts
<1> HIDE DEF parts
<1>13. PICK A, Z : A = Alphabet /\ Z = Seq(Alphabet)
  OBVIOUS
<1>14. parts \in Seq(Z) /\ Len(parts) = N
  <2>1. parts \in [1 .. N -> Z]
    BY <1>11, <1>12, <1>13
  <2> QED BY <2>1, LenProperties
<1>15. PICK tail : tail = [n \in 0 .. N |-> rest[Start(end[n], first, last)]]
  OBVIOUS
<1>16. \A n \in 0 .. N : tail[n] = rest[Start(end[n], first, last)]
  BY <1>15
<1>17. Tails(tail, parts, A)
  <2>1. ASSUME NEW n \in 0 .. N PROVE tail[n] \in Seq(A)
    <3>1. Start(end[n], first, last) \in 1 .. Len(text) + 1
      BY <1>4, <1>6, <1>10 DEF Start
    <3> QED BY <1>7, <1>13, <1>16, <3>1 DEF Rehydrates
  <2>2. ASSUME NEW n \in 1 .. N PROVE tail[n - 1] = parts[n] \o tail[n]
    <3>1. n \in 0 .. N /\ n - 1 \in 0 .. N
      OBVIOUS
    <3> QED BY <1>11, <1>16, <3>1
  <2>3. tail[N] = << >>
    <3>1. Len(sent) = end[N]
      BY <1>4 DEF LaysOut
    <3>2. Start(end[N], first, last) = Len(text) + 1
      BY <1>4, <1>6, <3>1 DEF Start
    <3> QED BY <1>7, <1>16, <3>2 DEF Rehydrates
  <2> QED BY <1>14, <2>1, <2>2, <2>3 DEF Tails
<1>18. tail[0] = rest[1]
  <2>1. end[0] = 0
    BY <1>1 DEF EndsOf
  <2>2. Start(0, first, last) = 1
    BY <1>4 DEF Start
  <2> QED BY <1>16, <2>1, <2>2
<1>19. FlattenSeq(parts) = tail[0]
  <2>1. parts \in Seq(Seq(A))
    BY <1>13, <1>14
  <2> QED BY <1>17, <2>1, PartsJoin
<1> QED BY <1>1, <1>5, <1>7, <1>18, <1>19 DEF parts

\* A reply that repeats a message, or any stretch of it, is read as the caller
\* wrote it, whatever token look-alikes the caller wrote and wherever the reply
\* begins and ends: rehydrate undoes what sanitizing did and nothing else.
THEOREM RepliesAreRead == Spec => []RepliesAreReadAsWritten
<1>1. RepliesInv => RepliesAreReadAsWritten
  <2> SUFFICES ASSUME RepliesInv, NEW m \in Messages, NEW sent, sent = Sent(m),
                      NEW first \in DOMAIN sent, NEW last \in first .. Len(sent)
               PROVE  Rehydrate(SubSeq(sent, first, last)) = Expected(m, first, last)
    BY DEF RepliesAreReadAsWritten
  <2>1. DOMAIN sent = 1 .. Len(sent)
    <3>1. PICK end : EndsOf(end, m)
      BY ExpectedDefinition
    <3>2. PICK s : s = [k \in DOMAIN pieces[m] |-> pieces[m][k].sent]
      OBVIOUS
    <3>3. sent \in Seq(Alphabet)
      BY <3>1, <3>2, SentDefinition
    <3> QED BY <3>3, LenProperties
  <2> QED BY <2>1, ReplyIsRead
<1> QED BY <1>1, RepliesInvariance, PTL
=============================================================================
