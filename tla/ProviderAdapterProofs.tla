----------------------- MODULE ProviderAdapterProofs ------------------------
(***************************************************************************)
(* Theorems about ProviderAdapter, for prompts and answers of any length:  *)
(* the translation loses no message, and a completion has the texts of the *)
(* answer and nothing else.  Both rest on what Kept, a recursion over a    *)
(* sequence, computes, which is shown by induction over its length.        *)
(***************************************************************************)
EXTENDS ProviderAdapter, SequenceTheorems, WellFoundedInduction, TLAPS

IsSequence(s) == s \in Seq({s[k] : k \in DOMAIN s})

Elements(s) == {s[k] : k \in DOMAIN s}

-----------------------------------------------------------------------------
(* Numbers and sequences                                                   *)

\* Induction, for a set of numbers.
LEMMA Induction ==
    ASSUME NEW S, 0 \in S, \A n \in Nat : n \in S => n + 1 \in S
    PROVE  \A n \in Nat : n \in S
<1> DEFINE R == OpToRel(<, Nat)
           T == {n \in Nat : n \notin S}
<1>1. IsWellFoundedOn(R, Nat)
  BY NatLessThanWellFounded
<1>2. \A x, y \in Nat : <<y, x>> \in R <=> y < x
  BY DEF OpToRel
<1>3. SUFFICES ASSUME T # {} PROVE FALSE
  OBVIOUS
<1>4. PICK k \in T : \A j \in T : ~ (<<j, k>> \in R)
  <2> HIDE DEF R
  <2> QED BY <1>1, <1>3, WFMin
<1>5. k \in Nat /\ k \notin S /\ \A j \in Nat : j < k => j \in S
  <2> HIDE DEF R
  <2> QED BY <1>2, <1>4
<1>6. k # 0 /\ k - 1 \in Nat /\ k - 1 < k /\ (k - 1) + 1 = k
  BY <1>5
<1> QED BY <1>5, <1>6

LEMMA LengthFacts ==
    ASSUME NEW s, IsSequence(s)
    PROVE  Len(s) \in Nat /\ DOMAIN s = 1 .. Len(s) /\ (s = << >> <=> Len(s) = 0)
BY LenProperties, EmptySeq DEF IsSequence

\* A function on the first n numbers is a sequence.
LEMMA AsSequence ==
    ASSUME NEW t, NEW n \in Nat, t = [k \in 1 .. n |-> t[k]]
    PROVE  IsSequence(t) /\ Len(t) = n /\ DOMAIN t = 1 .. n
<1> DEFINE T == {t[k] : k \in DOMAIN t}
<1>1. DOMAIN t = 1 .. n
  OBVIOUS
<1>2. \A k \in 1 .. n : t[k] \in T
  BY <1>1
<1>3. t \in [1 .. n -> T]
  <2> HIDE DEF T
  <2> QED BY <1>2
<1>4. t \in Seq(T)
  BY <1>3, SeqDef
<1> QED BY <1>1, <1>3, <1>4, LenProperties DEF IsSequence

LEMMA AppendElement ==
    ASSUME NEW s, NEW e, IsSequence(s)
    PROVE  /\ IsSequence(Append(s, e))
           /\ Len(Append(s, e)) = Len(s) + 1
           /\ DOMAIN Append(s, e) = 1 .. Len(s) + 1
           /\ \A k \in 1 .. Len(s) : Append(s, e)[k] = s[k]
           /\ Append(s, e)[Len(s) + 1] = e
<1> DEFINE S == {s[k] : k \in DOMAIN s} \cup {e}
           t == Append(s, e)
<1>1. Len(s) \in Nat /\ DOMAIN s = 1 .. Len(s)
  BY LengthFacts
<1>2. s \in Seq(S) /\ e \in S
  <2>1. \A k \in 1 .. Len(s) : s[k] \in S
    BY <1>1
  <2> QED BY <2>1, SeqDef DEF IsSequence
<1>3. /\ t \in Seq(S) /\ Len(t) = Len(s) + 1
      /\ \A k \in 1 .. Len(s) : t[k] = s[k]
      /\ t[Len(s) + 1] = e
  BY <1>2, AppendProperties
<1>4. PICK n \in Nat : n = Len(s) + 1
  BY <1>1
<1>5. t = [k \in 1 .. n |-> t[k]]
  <2> DEFINE D == 1 .. n
  <2>1. t \in [D -> S]
    BY <1>3, <1>4, LenProperties
  <2> HIDE DEF t, S, D
  <2>2. t = [k \in D |-> t[k]]
    BY <2>1
  <2> QED BY <2>2 DEF D
<1> HIDE DEF S, t
<1>6. IsSequence(t) /\ Len(t) = n /\ DOMAIN t = 1 .. n
  BY <1>5, AsSequence
<1> QED BY <1>3, <1>4, <1>6 DEF t

LEMMA NoElements == IsSequence(<< >>) /\ Len(<< >>) = 0 /\ DOMAIN << >> = {}
<1>1. << >> = [k \in 1 .. 0 |-> << >>[k]]
  OBVIOUS
<1>2. 1 .. 0 = {}
  OBVIOUS
<1> QED BY <1>1, <1>2, AsSequence

LEMMA SameSequence ==
    ASSUME NEW s, NEW t, IsSequence(s), IsSequence(t), Len(s) = Len(t),
           \A k \in 1 .. Len(s) : s[k] = t[k]
    PROVE  s = t
<1>1. Len(s) \in Nat /\ DOMAIN s = 1 .. Len(s) /\ DOMAIN t = 1 .. Len(s)
  BY LengthFacts
<1>2. s = [k \in 1 .. Len(s) |-> s[k]] /\ t = [k \in 1 .. Len(s) |-> t[k]]
  BY <1>1, LenProperties DEF IsSequence
<1> QED BY <1>2

-----------------------------------------------------------------------------
(* What Kept computes                                                      *)

\* f has the kept elements of the first n positions of s, for n up to m.
Computes(f, s, K, m) ==
    f = [n \in 0 .. m |->
            IF n = 0 THEN << >>
            ELSE IF n \in K THEN Append(f[n - 1], s[n]) ELSE f[n - 1]]

LEMMA ComputationExists ==
    ASSUME NEW s, NEW K
    PROVE  \A m \in Nat : \E f : Computes(f, s, K, m)
<1> DEFINE S == {m \in Nat : \E f : Computes(f, s, K, m)}
<1>1. 0 \in S
  <2> DEFINE f == [n \in 0 .. 0 |-> << >>]
  <2>1. f = [n \in 0 .. 0 |->
                IF n = 0 THEN << >>
                ELSE IF n \in K THEN Append(f[n - 1], s[n]) ELSE f[n - 1]]
    OBVIOUS
  <2> HIDE DEF f
  <2>2. Computes(f, s, K, 0)
    BY <2>1 DEF Computes
  <2> QED BY <2>2
<1>2. ASSUME NEW m \in Nat, m \in S PROVE m + 1 \in S
  <2>1. PICK f : Computes(f, s, K, m)
    BY <1>2
  <2> DEFINE last == IF m + 1 \in K THEN Append(f[m], s[m + 1]) ELSE f[m]
             g == [n \in 0 .. m + 1 |-> IF n = m + 1 THEN last ELSE f[n]]
  <2>2. \A n \in 0 .. m : f[n] = IF n = 0 THEN << >>
                                 ELSE IF n \in K THEN Append(f[n - 1], s[n]) ELSE f[n - 1]
    BY <2>1 DEF Computes
  <2>3. ASSUME NEW n \in 0 .. m + 1
        PROVE  g[n] = IF n = 0 THEN << >>
                      ELSE IF n \in K THEN Append(g[n - 1], s[n]) ELSE g[n - 1]
    <3>1. CASE n = m + 1
      <4>1. n # 0 /\ n - 1 = m /\ g[n - 1] = f[m] /\ g[n] = last
        BY <1>2, <3>1
      <4> QED BY <3>1, <4>1
    <3>2. CASE n = 0
      <4>1. g[n] = f[n] /\ n \in 0 .. m
        BY <1>2, <3>2
      <4> QED BY <2>2, <3>2, <4>1
    <3>3. CASE n # m + 1 /\ n # 0
      <4>1. n \in 0 .. m /\ n - 1 \in 0 .. m + 1 /\ n - 1 # m + 1
        BY <1>2, <3>3
      <4>2. g[n] = f[n] /\ g[n - 1] = f[n - 1]
        BY <3>3, <4>1
      <4> QED BY <2>2, <3>3, <4>1, <4>2
    <3> QED BY <3>1, <3>2, <3>3
  <2>4. g = [n \in 0 .. m + 1 |-> g[n]]
    OBVIOUS
  <2> HIDE DEF g
  <2>5. g = [n \in 0 .. m + 1 |->
                IF n = 0 THEN << >>
                ELSE IF n \in K THEN Append(g[n - 1], s[n]) ELSE g[n - 1]]
    BY <2>3, <2>4
  <2>6. Computes(g, s, K, m + 1)
    BY <2>5 DEF Computes
  <2> QED BY <1>2, <2>6
<1> HIDE DEF S
<1>3. \A m \in Nat : m \in S
  BY <1>1, <1>2, Induction
<1> QED BY <1>3 DEF S

\* The recursive definition of Kept, as equations.
LEMMA KeptDefinition ==
    ASSUME NEW s, Len(s) \in Nat, NEW K
    PROVE  \E f : /\ Kept(s, K) = f[Len(s)]
                  /\ f[0] = << >>
                  /\ \A n \in 1 .. Len(s) :
                        f[n] = IF n \in K THEN Append(f[n - 1], s[n]) ELSE f[n - 1]
<1> DEFINE f == CHOOSE f : Computes(f, s, K, Len(s))
<1>1. Computes(f, s, K, Len(s))
  BY ComputationExists
<1>2. Kept(s, K) = f[Len(s)]
  BY DEF Kept, Computes
<1> HIDE DEF f
<1>3. \A n \in 0 .. Len(s) : f[n] = IF n = 0 THEN << >>
                                    ELSE IF n \in K THEN Append(f[n - 1], s[n]) ELSE f[n - 1]
  BY <1>1 DEF Computes
<1> QED BY <1>2, <1>3

\* The kept elements are those at the kept positions.
LEMMA KeptElements ==
    ASSUME NEW s, IsSequence(s), NEW K
    PROVE  /\ IsSequence(Kept(s, K))
           /\ Elements(Kept(s, K)) = {s[k] : k \in K \cap DOMAIN s}
<1>1. Len(s) \in Nat /\ DOMAIN s = 1 .. Len(s)
  BY LengthFacts
<1>2. PICK f : /\ Kept(s, K) = f[Len(s)]
               /\ f[0] = << >>
               /\ \A n \in 1 .. Len(s) :
                     f[n] = IF n \in K THEN Append(f[n - 1], s[n]) ELSE f[n - 1]
  BY <1>1, KeptDefinition
<1> DEFINE Good(n) == /\ IsSequence(f[n])
                      /\ Elements(f[n]) = {s[k] : k \in K \cap 1 .. n}
           S == {n \in Nat : n <= Len(s) => Good(n)}
<1>3. 0 \in S
  <2>1. Elements(f[0]) = {}
    BY <1>2, NoElements DEF Elements
  <2>2. K \cap 1 .. 0 = {}
    OBVIOUS
  <2>3. Good(0)
    BY <1>2, <2>1, <2>2, NoElements
  <2> QED BY <2>3
<1>4. ASSUME NEW m \in Nat, m + 1 <= Len(s), Good(m) PROVE Good(m + 1)
  <2>2. m <= Len(s) /\ m + 1 \in 1 .. Len(s) /\ m + 1 - 1 = m
    BY <1>1, <1>4
  <2>3. Good(m)
    BY <1>4
  <2>4. f[m + 1] = IF m + 1 \in K THEN Append(f[m], s[m + 1]) ELSE f[m]
    BY <1>2, <2>2
  <2>5. CASE m + 1 \notin K
    <3>1. K \cap 1 .. m + 1 = K \cap 1 .. m
      BY <2>5
    <3> QED BY <2>3, <2>4, <2>5, <3>1
  <2>6. CASE m + 1 \in K
    <3>1. PICK t, e : t = f[m] /\ e = s[m + 1]
      OBVIOUS
    <3>2. IsSequence(t) /\ Elements(t) = {s[k] : k \in K \cap 1 .. m}
      BY <2>3, <3>1
    <3>3. f[m + 1] = Append(t, e)
      BY <2>4, <2>6, <3>1
    <3>4. /\ IsSequence(Append(t, e))
          /\ DOMAIN Append(t, e) = 1 .. Len(t) + 1
          /\ \A k \in 1 .. Len(t) : Append(t, e)[k] = t[k]
          /\ Append(t, e)[Len(t) + 1] = e
      BY <3>2, AppendElement
    <3>5. Len(t) \in Nat /\ DOMAIN t = 1 .. Len(t)
      BY <3>2, LengthFacts
    <3>6. Elements(Append(t, e)) = Elements(t) \cup {e}
      <4> DEFINE u == Append(t, e)
      <4> HIDE DEF u
      <4>1. DOMAIN u = DOMAIN t \cup {Len(t) + 1} /\ \A k \in DOMAIN t : u[k] = t[k]
        BY <3>4, <3>5 DEF u
      <4>2. u[Len(t) + 1] = e
        BY <3>4 DEF u
      <4>3. Elements(u) = Elements(t) \cup {e}
        BY <4>1, <4>2 DEF Elements
      <4> QED BY <4>3 DEF u
    <3>7. K \cap 1 .. m + 1 = (K \cap 1 .. m) \cup {m + 1}
      BY <2>6
    <3>8. {s[k] : k \in K \cap 1 .. m + 1} = {s[k] : k \in K \cap 1 .. m} \cup {e}
      BY <3>1, <3>7
    <3> QED BY <3>2, <3>3, <3>4, <3>6, <3>8
  <2> QED BY <2>5, <2>6
<1> HIDE DEF Good
<1>5. \A m \in Nat : m \in S => m + 1 \in S
  BY <1>1, <1>4
<1> HIDE DEF S
<1>6. \A n \in Nat : n \in S
  BY <1>3, <1>5, Induction
<1>7. Good(Len(s))
  BY <1>1, <1>6 DEF S
<1> QED BY <1>2, <1>7 DEF Good

LEMMA KeptNothing ==
    ASSUME NEW s, IsSequence(s), NEW K, K \cap DOMAIN s = {}
    PROVE  Kept(s, K) = << >>
<1>1. IsSequence(Kept(s, K)) /\ Elements(Kept(s, K)) = {}
  BY KeptElements
<1>2. Len(Kept(s, K)) \in Nat /\ DOMAIN Kept(s, K) = 1 .. Len(Kept(s, K))
  BY <1>1, LengthFacts
<1>3. Len(Kept(s, K)) = 0
  <2>1. DOMAIN Kept(s, K) = {}
    BY <1>1 DEF Elements
  <2> QED BY <1>2, <2>1
<1> QED BY <1>1, <1>3, LengthFacts

LEMMA KeptAll ==
    ASSUME NEW s, IsSequence(s), NEW K, DOMAIN s \subseteq K
    PROVE  Kept(s, K) = s
<1>1. Len(s) \in Nat /\ DOMAIN s = 1 .. Len(s)
  BY LengthFacts
<1>2. PICK f : /\ Kept(s, K) = f[Len(s)]
               /\ f[0] = << >>
               /\ \A n \in 1 .. Len(s) :
                     f[n] = IF n \in K THEN Append(f[n - 1], s[n]) ELSE f[n - 1]
  BY <1>1, KeptDefinition
<1> DEFINE Good(n) == IsSequence(f[n]) /\ Len(f[n]) = n /\ \A k \in 1 .. n : f[n][k] = s[k]
           S == {n \in Nat : n <= Len(s) => Good(n)}
<1>3. 0 \in S
  <2>1. \A k \in 1 .. 0 : f[0][k] = s[k]
    OBVIOUS
  <2>2. Good(0)
    BY <1>2, <2>1, NoElements
  <2> QED BY <2>2
<1>4. ASSUME NEW m \in Nat, m + 1 <= Len(s), Good(m) PROVE Good(m + 1)
  <2>2. m <= Len(s) /\ m + 1 \in 1 .. Len(s) /\ m + 1 - 1 = m /\ m + 1 \in K
    BY <1>1, <1>4
  <2>3. Good(m)
    BY <1>4
  <2>4. PICK t, e : t = f[m] /\ e = s[m + 1]
    OBVIOUS
  <2>5. f[m + 1] = Append(t, e)
    <3>1. PICK n \in 1 .. Len(s) : n = m + 1 /\ n - 1 = m
      BY <2>2
    <3>2. f[n] = IF n \in K THEN Append(f[n - 1], s[n]) ELSE f[n - 1]
      BY <1>2
    <3> QED BY <2>2, <2>4, <3>1, <3>2
  <2>6. IsSequence(t) /\ Len(t) = m /\ \A k \in 1 .. m : t[k] = s[k]
    BY <2>3, <2>4
  <2>7. /\ IsSequence(Append(t, e)) /\ Len(Append(t, e)) = m + 1
        /\ \A k \in 1 .. m : Append(t, e)[k] = t[k]
        /\ Append(t, e)[m + 1] = e
    BY <2>6, AppendElement
  <2>8. \A k \in 1 .. m + 1 : f[m + 1][k] = s[k]
    <3>1. \A k \in 1 .. m + 1 : k \in 1 .. m \/ k = m + 1
      OBVIOUS
    <3> QED BY <2>4, <2>5, <2>6, <2>7, <3>1
  <2> QED BY <2>5, <2>7, <2>8
<1> HIDE DEF Good
<1>5. \A m \in Nat : m \in S => m + 1 \in S
  BY <1>1, <1>4
<1> HIDE DEF S
<1>6. \A n \in Nat : n \in S
  BY <1>3, <1>5, Induction
<1>7. Good(Len(s))
  BY <1>1, <1>6 DEF S
<1> QED BY <1>2, <1>7, SameSequence DEF Good

\* What one set of positions leaves out, the others keep.
LEMMA KeptApart ==
    ASSUME NEW s, IsSequence(s), NEW K, NEW L, \A k \in DOMAIN s : k \in K <=> k \notin L
    PROVE  Len(Kept(s, K)) + Len(Kept(s, L)) = Len(s)
<1>1. Len(s) \in Nat /\ DOMAIN s = 1 .. Len(s)
  BY LengthFacts
<1>2. PICK f : /\ Kept(s, K) = f[Len(s)]
               /\ f[0] = << >>
               /\ \A n \in 1 .. Len(s) :
                     f[n] = IF n \in K THEN Append(f[n - 1], s[n]) ELSE f[n - 1]
  BY <1>1, KeptDefinition
<1>3. PICK g : /\ Kept(s, L) = g[Len(s)]
               /\ g[0] = << >>
               /\ \A n \in 1 .. Len(s) :
                     g[n] = IF n \in L THEN Append(g[n - 1], s[n]) ELSE g[n - 1]
  BY <1>1, KeptDefinition
<1> DEFINE Good(n) == IsSequence(f[n]) /\ IsSequence(g[n]) /\ Len(f[n]) + Len(g[n]) = n
           S == {n \in Nat : n <= Len(s) => Good(n)}
<1>4. 0 \in S
  <2>1. Good(0)
    BY <1>2, <1>3, NoElements
  <2> QED BY <2>1
<1>5. ASSUME NEW m \in Nat, m + 1 <= Len(s), Good(m) PROVE Good(m + 1)
  <2>2. m <= Len(s) /\ m + 1 \in 1 .. Len(s) /\ m + 1 - 1 = m /\ m + 1 \in DOMAIN s
    BY <1>1, <1>5
  <2>3. Good(m)
    BY <1>5
  <2>4. PICK t, u, e : t = f[m] /\ u = g[m] /\ e = s[m + 1]
    OBVIOUS
  <2>5. /\ f[m + 1] = IF m + 1 \in K THEN Append(t, e) ELSE t
        /\ g[m + 1] = IF m + 1 \in L THEN Append(u, e) ELSE u
    BY <1>2, <1>3, <2>2, <2>4
  <2>6. /\ IsSequence(t) /\ IsSequence(u)
        /\ Len(t) \in Nat /\ Len(u) \in Nat /\ Len(t) + Len(u) = m
    BY <2>3, <2>4, LengthFacts
  <2>7. IsSequence(Append(t, e)) /\ Len(Append(t, e)) = Len(t) + 1
    BY <2>6, AppendElement
  <2>8. IsSequence(Append(u, e)) /\ Len(Append(u, e)) = Len(u) + 1
    BY <2>6, AppendElement
  <2>9. CASE m + 1 \in K
    <3>1. f[m + 1] = Append(t, e) /\ g[m + 1] = u
      BY <2>2, <2>5, <2>9
    <3> QED BY <2>6, <2>7, <3>1
  <2>10. CASE m + 1 \notin K
    <3>1. f[m + 1] = t /\ g[m + 1] = Append(u, e)
      BY <2>2, <2>5, <2>10
    <3> QED BY <2>6, <2>8, <3>1
  <2> QED BY <2>9, <2>10
<1> HIDE DEF Good
<1>6. \A m \in Nat : m \in S => m + 1 \in S
  BY <1>1, <1>5
<1> HIDE DEF S
<1>7. \A n \in Nat : n \in S
  BY <1>4, <1>6, Induction
<1>8. Good(Len(s))
  BY <1>1, <1>7 DEF S
<1> QED BY <1>2, <1>3, <1>8 DEF Good

-----------------------------------------------------------------------------
(* Translation                                                             *)

Roles == {"system", "user", "assistant"}

LEMMA WithRoleElements ==
    ASSUME NEW s, IsSequence(s), NEW roles
    PROVE  /\ IsSequence(WithRole(s, roles))
           /\ \A k \in DOMAIN WithRole(s, roles) : WithRole(s, roles)[k].role \in roles
<1> DEFINE K == {k \in DOMAIN s : s[k].role \in roles}
<1>1. WithRole(s, roles) = Kept(s, K)
  BY DEF WithRole
<1> HIDE DEF K
<1>2. /\ IsSequence(Kept(s, K))
      /\ Elements(Kept(s, K)) = {s[k] : k \in K \cap DOMAIN s}
  BY KeptElements
<1>3. PICK t : t = Kept(s, K)
  OBVIOUS
<1>4. \A k \in DOMAIN t : t[k] \in {s[j] : j \in K \cap DOMAIN s}
  BY <1>2, <1>3 DEF Elements
<1>5. \A e \in {s[j] : j \in K \cap DOMAIN s} : e.role \in roles
  BY DEF K
<1> QED BY <1>1, <1>2, <1>3, <1>4, <1>5

LEMMA WithRoleAll ==
    ASSUME NEW s, IsSequence(s), NEW roles, \A k \in DOMAIN s : s[k].role \in roles
    PROVE  WithRole(s, roles) = s
<1> DEFINE K == {k \in DOMAIN s : s[k].role \in roles}
<1>1. DOMAIN s \subseteq K
  OBVIOUS
<1>2. WithRole(s, roles) = Kept(s, K)
  BY DEF WithRole
<1> HIDE DEF K
<1> QED BY <1>1, <1>2, KeptAll

LEMMA WithRoleNone ==
    ASSUME NEW s, IsSequence(s), NEW roles, \A k \in DOMAIN s : s[k].role \notin roles
    PROVE  WithRole(s, roles) = << >>
<1> DEFINE K == {k \in DOMAIN s : s[k].role \in roles}
<1>1. K \cap DOMAIN s = {}
  OBVIOUS
<1>2. WithRole(s, roles) = Kept(s, K)
  BY DEF WithRole
<1> HIDE DEF K
<1> QED BY <1>1, <1>2, KeptNothing

LEMMA WithRoleApart ==
    ASSUME NEW s, IsSequence(s), \A k \in DOMAIN s : s[k].role \in Roles
    PROVE  Len(WithRole(s, {"system"})) + Len(WithRole(s, {"user", "assistant"})) = Len(s)
<1> DEFINE K == {k \in DOMAIN s : s[k].role \in {"system"}}
           L == {k \in DOMAIN s : s[k].role \in {"user", "assistant"}}
<1>1. \A k \in DOMAIN s : k \in K <=> k \notin L
  BY DEF Roles
<1>2. WithRole(s, {"system"}) = Kept(s, K) /\ WithRole(s, {"user", "assistant"}) = Kept(s, L)
  BY DEF WithRole
<1> HIDE DEF K, L
<1> QED BY <1>1, <1>2, KeptApart

LEMMA ContentsFacts ==
    ASSUME NEW s, IsSequence(s)
    PROVE  IsSequence(Contents(s)) /\ Len(Contents(s)) = Len(s)
<1>1. Len(s) \in Nat /\ DOMAIN s = 1 .. Len(s)
  BY LengthFacts
<1>2. PICK t : t = Contents(s)
  OBVIOUS
<1>3. t = [k \in 1 .. Len(s) |-> t[k]]
  BY <1>1, <1>2 DEF Contents
<1> QED BY <1>1, <1>2, <1>3, AsSequence

\* If no message of a role is kept, there is none, and the others are all.
LEMMA WithRoleEmpty ==
    ASSUME NEW s, IsSequence(s), \A k \in DOMAIN s : s[k].role \in Roles,
           Len(WithRole(s, {"system"})) = 0
    PROVE  WithRole(s, {"user", "assistant"}) = s
<1> DEFINE K == {k \in DOMAIN s : s[k].role \in {"system"}}
<1>1. WithRole(s, {"system"}) = Kept(s, K)
  BY DEF WithRole
<1>2. K \cap DOMAIN s = K
  OBVIOUS
<1> HIDE DEF K
<1>3. PICK t : t = Kept(s, K)
  OBVIOUS
<1>4. IsSequence(t) /\ Elements(t) = {s[k] : k \in K}
  <2>1. IsSequence(Kept(s, K)) /\ Elements(Kept(s, K)) = {s[k] : k \in K \cap DOMAIN s}
    BY KeptElements
  <2> QED BY <1>2, <1>3, <2>1
<1>5. Elements(t) = {}
  <2>1. t = << >>
    BY <1>1, <1>3, <1>4, LengthFacts
  <2> QED BY <2>1, NoElements DEF Elements
<1>6. K = {}
  BY <1>4, <1>5
<1>7. \A k \in DOMAIN s : s[k].role \in {"user", "assistant"}
  BY <1>6 DEF K, Roles
<1> QED BY <1>7, WithRoleAll

\* What the request of a prompt holds.
LEMMA PromptFacts ==
    ASSUME NEW p \in Prompts
    PROVE  IsSequence(p) /\ \A k \in DOMAIN p : p[k].role \in Roles
BY PromptsAssumption DEF IsSequence, Range, Roles

LEMMA TranslationConveys ==
    ASSUME prompt \in Prompts, request = Translate(prompt)
    PROVE  /\ request.system = << >> => request.messages = prompt
           /\ request.system # << >> =>
                 /\ request.system = Contents(WithRole(prompt, {"system"}))
                 /\ WithRole(request.messages, {"user", "assistant"}) =
                       WithRole(prompt, {"user", "assistant"})
                 /\ Len(request.system) + Len(request.messages) = Len(prompt)
           /\ adapter = "anthropic" => WithRole(request.messages, {"system"}) = << >>
<1>1. IsSequence(prompt) /\ \A k \in DOMAIN prompt : prompt[k].role \in Roles
  BY PromptFacts
<1>2. CASE adapter = "anthropic"
  <2>1. PICK ss, ms : ss = WithRole(prompt, {"system"}) /\ ms = WithRole(prompt, {"user", "assistant"})
    OBVIOUS
  <2>2. request.system = Contents(ss) /\ request.messages = ms
    BY <1>2, <2>1 DEF Translate
  <2>3. /\ IsSequence(ss) /\ IsSequence(ms)
        /\ \A k \in DOMAIN ms : ms[k].role \in {"user", "assistant"}
    BY <1>1, <2>1, WithRoleElements
  <2>4. WithRole(ms, {"user", "assistant"}) = ms
    BY <2>3, WithRoleAll
  <2>5. WithRole(ms, {"system"}) = << >>
    <3>1. \A k \in DOMAIN ms : ms[k].role \notin {"system"}
      BY <2>3
    <3> QED BY <2>3, <3>1, WithRoleNone
  <2>6. PICK c : c = Contents(ss)
    OBVIOUS
  <2>7. IsSequence(c) /\ Len(c) = Len(ss)
    BY <2>3, <2>6, ContentsFacts
  <2>8. Len(c) + Len(ms) = Len(prompt)
    BY <1>1, <2>1, <2>7, WithRoleApart
  <2>9. c = << >> => ms = prompt
    <3>1. SUFFICES ASSUME c = << >> PROVE ms = prompt
      OBVIOUS
    <3>2. Len(WithRole(prompt, {"system"})) = 0
      BY <2>1, <2>7, <3>1, NoElements
    <3> QED BY <1>1, <2>1, <3>2, WithRoleEmpty
  <2> QED BY <2>1, <2>2, <2>4, <2>5, <2>6, <2>8, <2>9
<1>3. CASE adapter # "anthropic"
  <2>1. request.system = << >> /\ request.messages = prompt
    BY <1>3 DEF Translate
  <2> QED BY <1>3, <2>1
<1> QED BY <1>2, <1>3

-----------------------------------------------------------------------------
(* The call                                                                *)

\* The request is that of the prompt; an answer ends the call, and its result
\* is the interpretation of that answer.
CallInv ==
    /\ adapter \in Adapters
    /\ pc # "idle" => prompt \in Prompts /\ request = Translate(prompt)
    /\ answer # << >> =>
          /\ pc = "done"
          /\ \E status \in Statuses, body \in Bodies :
                /\ answer = <<[status |-> status, body |-> body]>>
                /\ result = Interpret(status, body)

LEMMA CallInit == Init => CallInv
BY DEF Init, CallInv

LEMMA CallStep == CallInv /\ [Next]_vars => CallInv'
<1> SUFFICES ASSUME CallInv, [Next]_vars PROVE CallInv'
  OBVIOUS
<1>1. CASE UNCHANGED vars
  <2>1. UNCHANGED <<adapter, pc, prompt, request, answer, result>>
    BY <1>1 DEF vars
  <2>2. /\ adapter' \in Adapters
        /\ pc' # "idle" => prompt' \in Prompts /\ request' = Translate(prompt)'
    BY <2>1 DEF CallInv, Translate
  <2>3. CASE answer = << >>
    BY <2>1, <2>2, <2>3 DEF CallInv
  <2>4. CASE answer # << >>
    <3>1. PICK status \in Statuses, body \in Bodies :
             /\ answer = <<[status |-> status, body |-> body]>>
             /\ result = Interpret(status, body)
      BY <2>4 DEF CallInv
    <3>2. Interpret(status, body)' = Interpret(status, body)
      BY <2>1 DEF Interpret, NormalizeOpenAI, NormalizeAnthropic
    <3>3. result' = Interpret(status, body)'
      BY <2>1, <3>1, <3>2
    <3>4. pc' = "done"
      BY <2>1, <2>4 DEF CallInv
    <3> QED BY <2>1, <2>2, <3>1, <3>3, <3>4 DEF CallInv
  <2> QED BY <2>3, <2>4
<1>2. CASE Begin
  BY <1>2 DEF Begin, CallInv, Translate
<1>3. CASE Echo \/ Progress \/ Tick \/ Expire \/ TransportFails \/ FallSilent
  <2>1. pc # "idle" /\ pc # "done" /\ pc' # "idle" /\ UNCHANGED <<adapter, prompt, request, answer>>
    BY <1>3 DEF Echo, Progress, Tick, Expire, TransportFails, FallSilent, Finish, InCall
  <2> QED BY <2>1 DEF CallInv, Translate
<1>4. CASE Receive
  <2>1. PICK status \in Statuses, body \in Bodies :
           /\ answer' = <<[status |-> status, body |-> body]>>
           /\ pc' = "done" /\ result' = Interpret(status, body)
    BY <1>4 DEF Receive, Finish
  <2>2. pc = "read" /\ UNCHANGED <<adapter, prompt, request>>
    BY <1>4 DEF Receive
  <2>3. result' = Interpret(status, body)'
    BY <2>1, <2>2 DEF Interpret, NormalizeOpenAI, NormalizeAnthropic
  <2> QED BY <2>1, <2>2, <2>3 DEF CallInv, Translate
<1> QED BY <1>1, <1>2, <1>3, <1>4 DEF Next

\* The call is one of a prompt of the caller and ends with its answer.
THEOREM CallInvariance == Spec => []CallInv
BY CallInit, CallStep, PTL DEF Spec

LEMMA CallConveysPrompt == CallInv => PromptConveyed
BY TranslationConveys DEF CallInv, PromptConveyed

\* No message of a prompt of any length is lost, replaced, repeated or reordered
\* among those of its kind by the translation of any adapter.
THEOREM PromptsAreConveyed == Spec => []PromptConveyed
BY CallInvariance, CallConveysPrompt, PTL

-----------------------------------------------------------------------------
(* Normalization                                                           *)

LEMMA CompletionOrError ==
    ASSUME NEW contents, NEW error \in {"provider_auth", "provider_response", "OverflowError"}
    PROVE  /\ Completion(contents).contents = contents
           /\ Completion(contents).result = "completion"
           /\ Raised(error).result # "completion"
BY DEF Completion, Raised

LEMMA UsageFacts ==
    ASSUME NEW usage, NEW contents,
           usage \in {"ok", "malformed", "infinite"},
           WithUsage(usage, Completion(contents)).result = "completion"
    PROVE  WithUsage(usage, Completion(contents)) = Completion(contents)
BY CompletionOrError DEF WithUsage

\* The text blocks are the parts that are texts.
LEMMA TextBlockFacts ==
    ASSUME NEW body, IsSequence(body.parts)
    PROVE  /\ IsSequence(TextBlocks(body))
           /\ Elements(TextBlocks(body)) =
                 {body.parts[k] : k \in {j \in DOMAIN body.parts : body.parts[j].kind = "text"}}
<1> DEFINE K == {j \in DOMAIN body.parts : body.parts[j].kind = "text"}
<1>1. TextBlocks(body) = Kept(body.parts, K)
  BY DEF TextBlocks
<1>2. K \cap DOMAIN body.parts = K
  OBVIOUS
<1> HIDE DEF K
<1>3. /\ IsSequence(Kept(body.parts, K))
      /\ Elements(Kept(body.parts, K)) = {body.parts[k] : k \in K \cap DOMAIN body.parts}
  BY KeptElements
<1> QED BY <1>1, <1>2, <1>3 DEF K

\* Every choice of a completion of OpenAI is a text, and every text is one.
LEMMA OpenAIConveys ==
    ASSUME NEW body, IsSequence(body.parts), body.usage \in {"ok", "malformed", "infinite"},
           NEW r, r = NormalizeOpenAI(body), r.result = "completion"
    PROVE  /\ "broken" \notin KindsIn(body)
           /\ UNION {Range(c) : c \in Range(r.contents)} = TextsOf(body)
<1>1. KindsIn(body) = {"text"}
  BY CompletionOrError DEF NormalizeOpenAI
<1>2. PICK cs : cs = [k \in DOMAIN body.parts |-> <<body.parts[k].text>>]
  OBVIOUS
<1>3. r = WithUsage(body.usage, Completion(cs))
  BY <1>1, <1>2 DEF NormalizeOpenAI
<1>4. r.contents = cs
  BY <1>3, UsageFacts, CompletionOrError
<1>5. \A k \in DOMAIN body.parts : body.parts[k].kind = "text"
  BY <1>1 DEF KindsIn
<1>6. Elements(TextBlocks(body)) = {body.parts[k] : k \in DOMAIN body.parts}
  BY <1>5, TextBlockFacts
<1>7. TextsOf(body) = {body.parts[k].text : k \in DOMAIN body.parts}
  <2>1. Range(TextBlocks(body)) = Elements(TextBlocks(body))
    BY DEF Range, Elements
  <2> QED BY <1>6, <2>1 DEF TextsOf
<1>8. Range(cs) = {<<body.parts[k].text>> : k \in DOMAIN body.parts}
  BY <1>2 DEF Range
<1>9. ASSUME NEW t PROVE Range(<<t>>) = {t}
  BY DEF Range
<1>10. UNION {Range(c) : c \in Range(cs)} = {body.parts[k].text : k \in DOMAIN body.parts}
  <2> DEFINE D == DOMAIN body.parts
             Text(k) == body.parts[k].text
  <2>1. Range(cs) = {<<Text(k)>> : k \in D} /\ \A t : Range(<<t>>) = {t}
    BY <1>8, <1>9
  <2> HIDE DEF D, Text
  <2>2. \A k \in D : Range(<<Text(k)>>) = {Text(k)}
    BY <2>1
  <2>3. \A c \in Range(cs) : \E k \in D : Range(c) = {Text(k)}
    BY <2>1, <2>2
  <2>4. \A k \in D : \E c \in Range(cs) : Range(c) = {Text(k)}
    BY <2>1, <2>2
  <2>5. UNION {Range(c) : c \in Range(cs)} = {Text(k) : k \in D}
    BY <2>3, <2>4
  <2> QED BY <2>5 DEF D, Text
<1> QED BY <1>1, <1>4, <1>7, <1>10

\* The one choice of a completion of Anthropic has every text block.
LEMMA AnthropicConveys ==
    ASSUME NEW body, IsSequence(body.parts), body.usage \in {"ok", "malformed", "infinite"},
           NEW r, r = NormalizeAnthropic(body), r.result = "completion"
    PROVE  /\ "broken" \notin KindsIn(body)
           /\ UNION {Range(c) : c \in Range(r.contents)} = TextsOf(body)
<1>1. "broken" \notin KindsIn(body)
  BY CompletionOrError DEF NormalizeAnthropic
<1>2. PICK texts : texts = [k \in DOMAIN TextBlocks(body) |-> TextBlocks(body)[k].text]
  OBVIOUS
<1>3. PICK cs : cs = <<texts>>
  OBVIOUS
<1>4. r = WithUsage(body.usage, Completion(cs))
  BY <1>1, <1>2, <1>3 DEF NormalizeAnthropic
<1>5. r.contents = cs
  BY <1>4, UsageFacts, CompletionOrError
<1>6. Range(cs) = {texts}
  BY <1>3 DEF Range
<1>7. Range(texts) = TextsOf(body)
  <2>1. PICK blocks : blocks = TextBlocks(body)
    OBVIOUS
  <2>2. texts = [k \in DOMAIN blocks |-> blocks[k].text]
    BY <1>2, <2>1
  <2>3. Range(texts) = {blocks[k].text : k \in DOMAIN blocks}
    BY <2>2 DEF Range
  <2>4. {p.text : p \in Range(blocks)} = {blocks[k].text : k \in DOMAIN blocks}
    BY DEF Range
  <2> QED BY <2>1, <2>3, <2>4 DEF TextsOf
<1> QED BY <1>1, <1>5, <1>6, <1>7

LEMMA CallLosesNothing == CallInv => NothingLostNothingAdded
<1> SUFFICES ASSUME CallInv, answer # << >>, result.result = "completion"
             PROVE  /\ answer[1].status < 400
                    /\ "broken" \notin KindsIn(answer[1].body)
                    /\ UNION {Range(c) : c \in Range(result.contents)} = TextsOf(answer[1].body)
  BY DEF NothingLostNothingAdded
<1>1. PICK status \in Statuses, body \in Bodies :
         /\ answer = <<[status |-> status, body |-> body]>>
         /\ result = Interpret(status, body)
  BY DEF CallInv
<1>2. answer[1].status = status /\ answer[1].body = body
  BY <1>1
<1>3. status \in Nat
  BY AnswersAssumption
<1>4. ~ (status \in {401, 403} \/ status >= 400 \/ body.kind # "dict")
  <2>1. CASE status \in {401, 403}
    <3>1. result = Raised("provider_auth")
      BY <1>1, <1>3, <2>1 DEF Interpret
    <3> QED BY <3>1, CompletionOrError
  <2>2. CASE status \notin {401, 403} /\ (status >= 400 \/ body.kind # "dict")
    <3>1. result = Raised("provider_response")
      BY <1>1, <1>3, <2>2 DEF Interpret
    <3> QED BY <3>1, CompletionOrError
  <2> QED BY <2>1, <2>2
<1>5. status < 400 /\ body.kind = "dict"
  BY <1>3, <1>4
<1>6. IsSequence(body.parts) /\ body.usage \in {"ok", "malformed", "infinite"}
  BY <1>5, AnswersAssumption DEF IsSequence, Range
<1>7. result = IF adapter = "openai" THEN NormalizeOpenAI(body) ELSE NormalizeAnthropic(body)
  BY <1>1, <1>4, <1>5 DEF Interpret
<1>8. /\ "broken" \notin KindsIn(body)
      /\ UNION {Range(c) : c \in Range(result.contents)} = TextsOf(body)
  BY <1>6, <1>7, OpenAIConveys, AnthropicConveys
<1> QED BY <1>2, <1>5, <1>8

\* A completion comes of an answer that is no error page and no half answer,
\* and its choices have every text of it and no other.
THEOREM CompletionsAreTheAnswer == Spec => []NothingLostNothingAdded
BY CallInvariance, CallLosesNothing, PTL

=============================================================================
