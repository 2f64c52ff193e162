--------------------------- MODULE RestartsProofs ----------------------------
(***************************************************************************)
(* Theorems about Restarts, for every set of databases, keys and           *)
(* environments: after any sequence of processes the verdict says what     *)
(* differs, the verdicts of one process never contradict each other, and   *)
(* production vouches for strong keys only.                                *)
(***************************************************************************)
EXTENDS Restarts, SequenceTheorems, WellFoundedInduction, TLAPS

IsSequence(rows) == rows \in Seq({rows[k] : k \in DOMAIN rows})

\* The k-th row of the table of d, as the process with that key sealed it.
SealedAt(d, rows, k, key) ==
    rows[k] = Seal(key, k, <<d, k>>, ExpectedPrev(rows, k))

\* Every table is a chain, though its rows may be sealed with different keys.
TablesInv ==
    /\ tables = [d \in Databases |-> tables[d]]
    /\ \A d \in Databases :
          /\ IsSequence(tables[d])
          /\ \A k \in DOMAIN tables[d] : \E key \in HmacKeys : SealedAt(d, tables[d], k, key)

\* The running process was built from settings that create_app accepts, and
\* saves a checkpoint only after a commit.
AppInv ==
    /\ pc \in {"down", "serving", "saving"}
    /\ pc # "down" =>
          /\ app.db \in Databases
          /\ app.key \in HmacKeys
          /\ app.checkpoint \in BOOLEAN
          /\ app.app_env = "production" => app.key \in StrongKeys
    /\ pc = "saving" => app.checkpoint /\ tables[app.db] # << >>

\* The checkpoint is of the record that was saved last, which is still there.
StoreInv ==
    \/ saved = Unsaved /\ store = NoCheckpoint
    \/ /\ saved = [db |-> saved.db, id |-> saved.id]
       /\ saved.db \in Databases /\ saved.id \in DOMAIN tables[saved.db]
       /\ store = CheckpointOf(tables[saved.db][saved.id])

RestartsInv == TablesInv /\ AppInv /\ StoreInv

-----------------------------------------------------------------------------
(* Tables                                                                  *)

LEMMA LengthFacts ==
    ASSUME NEW s, IsSequence(s)
    PROVE  Len(s) \in Nat /\ DOMAIN s = 1 .. Len(s) /\ (s = << >> <=> Len(s) = 0)
BY LenProperties, EmptySeq DEF IsSequence

LEMMA AppendRow ==
    ASSUME NEW s, NEW e, IsSequence(s)
    PROVE  /\ IsSequence(Append(s, e))
           /\ DOMAIN Append(s, e) = 1 .. Len(s) + 1
           /\ \A k \in DOMAIN s : Append(s, e)[k] = s[k]
           /\ Append(s, e)[Len(s) + 1] = e
<1> DEFINE S == {s[k] : k \in DOMAIN s} \cup {e}
           t == Append(s, e)
           T == {t[k] : k \in DOMAIN t}
<1>1. Len(s) \in Nat /\ DOMAIN s = 1 .. Len(s)
  BY LengthFacts
<1>2. s \in Seq(S) /\ e \in S
  <2>1. \A k \in 1 .. Len(s) : s[k] \in S
    BY <1>1
  <2> QED BY <2>1, SeqDef DEF IsSequence
<1>3. /\ t \in Seq(S) /\ Len(t) = Len(s) + 1
      /\ \A k \in 1 .. Len(s) : t[k] = s[k]
      /\ t[Len(s) + 1] = e
  BY <1>2, AppendProperties
<1>4. t \in [1 .. Len(t) -> S] /\ Len(t) \in Nat
  BY <1>3, LenProperties
<1>5. t \in [1 .. Len(t) -> T]
  <2> HIDE DEF t, S
  <2> QED BY <1>4
<1>6. IsSequence(t)
  <2> HIDE DEF t
  <2>1. PICK n \in Nat : n = Len(t)
    BY <1>4
  <2>2. t \in [1 .. n -> T]
    BY <1>5, <2>1
  <2>3. t \in Seq(T)
    <3> HIDE DEF T
    <3> QED BY <2>2, SeqDef
  <2> QED BY <2>3 DEF IsSequence
<1> QED BY <1>1, <1>3, <1>4, <1>6

LEMMA TableFacts ==
    ASSUME TablesInv, NEW d \in Databases
    PROVE  /\ Len(tables[d]) \in Nat /\ DOMAIN tables[d] = 1 .. Len(tables[d])
           /\ tables[d] = << >> <=> Len(tables[d]) = 0
           /\ \A k \in DOMAIN tables[d] :
                 /\ tables[d][k].id = k /\ tables[d][k].content = <<d, k>>
                 /\ tables[d][k].prev_hash = ExpectedPrev(tables[d], k)
                 /\ tables[d][k].record_hash = <<k, <<d, k>>, tables[d][k].prev_hash>>
                 /\ \E key \in HmacKeys :
                       tables[d][k].record_mac = Mac(key, tables[d][k].record_hash)
<1>1. IsSequence(tables[d])
  BY DEF TablesInv
<1>2. ASSUME NEW k \in DOMAIN tables[d]
      PROVE  /\ tables[d][k].id = k /\ tables[d][k].content = <<d, k>>
             /\ tables[d][k].prev_hash = ExpectedPrev(tables[d], k)
             /\ tables[d][k].record_hash = <<k, <<d, k>>, tables[d][k].prev_hash>>
             /\ \E key \in HmacKeys :
                   tables[d][k].record_mac = Mac(key, tables[d][k].record_hash)
  <2>1. PICK key \in HmacKeys : SealedAt(d, tables[d], k, key)
    BY <1>2 DEF TablesInv
  <2> DEFINE row == tables[d][k]
             prev == ExpectedPrev(tables[d], k)
  <2>2. row = Seal(key, k, <<d, k>>, prev)
    BY <2>1 DEF SealedAt
  <2>3. PICK c, p : c = <<d, k>> /\ p = prev
    OBVIOUS
  <2>4. row = Seal(key, k, c, p)
    BY <2>2, <2>3
  <2>5. /\ row.id = k /\ row.content = c /\ row.prev_hash = p
        /\ row.record_hash = RecordHash(k, c, p)
        /\ row.record_mac = Mac(key, RecordHash(k, c, p))
    <3> HIDE DEF row, prev
    <3> QED BY <2>4 DEF Seal
  <2> QED BY <2>3, <2>5 DEF RecordHash
<1> QED BY <1>1, <1>2, LengthFacts

-----------------------------------------------------------------------------
(* The invariant                                                           *)

LEMMA RestartsInit == Init => RestartsInv
<1> SUFFICES ASSUME Init PROVE RestartsInv
  OBVIOUS
<1>1. \A d \in Databases : tables[d] = << >>
  BY DEF Init
<1>2. TablesInv
  BY <1>1, EmptySeq DEF Init, TablesInv, IsSequence
<1> QED BY <1>2 DEF Init, RestartsInv, AppInv, StoreInv

\* A process of accepted settings uses a key that is not the empty one, and in
\* production a strong one.
LEMMA AcceptedSettings ==
    ASSUME NEW s \in Environments, s.app_env = "production" => ~ UnsafeInProduction(s)
    PROVE  /\ s.db \in Databases /\ s.checkpoint \in BOOLEAN
           /\ EffectiveKey(s) \in HmacKeys
           /\ s.app_env = "production" => EffectiveKey(s) \in StrongKeys
<1>1. s \in Settings
  BY EnvironmentsAreSettings
<1>2. /\ s.db \in Databases /\ s.hmac_key \in HmacKeys
      /\ s.checkpoint \in BOOLEAN
  BY <1>1 DEF Settings
<1> QED BY <1>2 DEF EffectiveKey, UnsafeInProduction, HmacKeys

LEMMA StartKeepsInv ==
    ASSUME RestartsInv, NEW s \in Environments, Start(s)
    PROVE  RestartsInv'
<1>1. TablesInv' /\ StoreInv'
  BY DEF RestartsInv, Start, TablesInv, StoreInv
<1>2. /\ app'.db = s.db /\ app'.key = EffectiveKey(s)
      /\ app'.app_env = s.app_env /\ app'.checkpoint = s.checkpoint /\ pc' = "serving"
  BY DEF Start, App
<1>3. AppInv'
  BY <1>2, AcceptedSettings DEF Start, AppInv
<1> QED BY <1>1, <1>3 DEF RestartsInv

\* The new row continues the chain of its table, and all others stay.
LEMMA CommitKeepsTables ==
    ASSUME RestartsInv, CommitRecord
    PROVE  /\ TablesInv'
           /\ tables'[app.db] # << >>
           /\ \A d \in Databases : \A k \in DOMAIN tables[d] :
                 k \in DOMAIN tables'[d] /\ tables'[d][k] = tables[d][k]
<1> DEFINE a == app.db
           old == tables[a]
           n == Len(old)
           prev == TailOf(old).prev_hash
           row == Seal(app.key, n + 1, <<a, n + 1>>, prev)
           new == Append(old, row)
<1>1. a \in Databases /\ app.key \in HmacKeys
  BY DEF RestartsInv, AppInv, CommitRecord
<1>2. IsSequence(old) /\ n \in Nat /\ DOMAIN old = 1 .. n /\ (old = << >> <=> n = 0)
  BY <1>1, TableFacts DEF RestartsInv, TablesInv
<1>3. TailOf(old).next_id = n + 1 /\ prev = IF n = 0 THEN GenesisHash ELSE old[n].record_hash
  <2>1. CASE n = 0
    BY <1>2, <2>1 DEF TailOf
  <2>2. CASE n # 0
    <3>1. n \in DOMAIN old
      BY <1>2, <2>2
    <3>2. old[n].id = n
      BY <1>1, <3>1, TableFacts DEF RestartsInv
    <3> QED BY <1>2, <2>2, <3>2 DEF TailOf
  <2> QED BY <2>1, <2>2
<1>4. tables' = [tables EXCEPT ![a] = new]
  BY <1>3 DEF CommitRecord, Table
<1>5. /\ IsSequence(new) /\ DOMAIN new = 1 .. n + 1
      /\ \A k \in DOMAIN old : new[k] = old[k]
      /\ new[n + 1] = row
  <2> HIDE DEF row, old
  <2> QED BY <1>2, AppendRow
<1>6. tables'[a] = new /\ \A d \in Databases \ {a} : tables'[d] = tables[d]
  BY <1>1, <1>4 DEF RestartsInv, TablesInv
<1>7. tables' = [d \in Databases |-> tables'[d]]
  <2>1. DOMAIN tables = Databases
    BY DEF RestartsInv, TablesInv
  <2> HIDE DEF new
  <2>2. tables' = [d \in Databases |-> IF d = a THEN new ELSE tables[d]]
    BY <1>4, <2>1
  <2> QED BY <2>2
<1>8. ASSUME NEW k \in DOMAIN new PROVE \E key \in HmacKeys : SealedAt(a, new, k, key)
  <2>1. CASE k = n + 1
    <3>1. ExpectedPrev(new, k) = prev
      <4> HIDE DEF new, old, prev
      <4> QED BY <1>2, <1>3, <1>5, <2>1 DEF ExpectedPrev
    <3> HIDE DEF new, prev
    <3>2. SealedAt(a, new, k, app.key)
      BY <1>5, <2>1, <3>1 DEF SealedAt
    <3> QED BY <1>1, <3>2
  <2>2. CASE k # n + 1
    <3> HIDE DEF new
    <3>1. k \in DOMAIN old /\ (k # 1 => k - 1 \in DOMAIN old)
      BY <1>2, <1>5, <1>8, <2>2
    <3>2. ExpectedPrev(new, k) = ExpectedPrev(old, k) /\ new[k] = old[k]
      BY <1>5, <3>1 DEF ExpectedPrev
    <3>3. PICK key \in HmacKeys : SealedAt(a, old, k, key)
      BY <1>1, <3>1 DEF RestartsInv, TablesInv
    <3>4. SealedAt(a, new, k, key)
      BY <3>2, <3>3 DEF SealedAt
    <3> QED BY <3>4
  <2> QED BY <2>1, <2>2
<1>9. ASSUME NEW d \in Databases
      PROVE  /\ IsSequence(tables'[d])
             /\ \A k \in DOMAIN tables'[d] : \E key \in HmacKeys : SealedAt(d, tables'[d], k, key)
  <2> HIDE DEF new
  <2>1. CASE d = a
    BY <1>5, <1>6, <1>8, <2>1
  <2>2. CASE d # a
    BY <1>6, <2>2 DEF RestartsInv, TablesInv
  <2> QED BY <2>1, <2>2
<1>10. TablesInv'
  BY <1>7, <1>9 DEF TablesInv
<1>11. tables'[a] # << >>
  <2> HIDE DEF new
  <2>1. 1 \in DOMAIN tables'[a]
    BY <1>2, <1>5, <1>6
  <2> QED BY <2>1
<1>12. ASSUME NEW d \in Databases, NEW k \in DOMAIN tables[d]
       PROVE  k \in DOMAIN tables'[d] /\ tables'[d][k] = tables[d][k]
  <2> HIDE DEF new
  <2>1. CASE d = a
    BY <1>2, <1>5, <1>6, <2>1
  <2>2. CASE d # a
    BY <1>6, <2>2
  <2> QED BY <2>1, <2>2
<1> QED BY <1>10, <1>11, <1>12

LEMMA CommitKeepsInv ==
    ASSUME RestartsInv, CommitRecord
    PROVE  RestartsInv'
<1>1. /\ UNCHANGED <<app, store, saved>> /\ pc = "serving"
      /\ pc' \in {"serving", "saving"} /\ (pc' = "saving" => app.checkpoint)
  BY DEF CommitRecord, RestartsInv, AppInv
<1>2. AppInv'
  BY <1>1, CommitKeepsTables DEF RestartsInv, AppInv
<1>3. StoreInv'
  <2>1. CASE saved = Unsaved /\ store = NoCheckpoint
    BY <1>1, <2>1 DEF StoreInv
  <2>2. CASE ~ (saved = Unsaved /\ store = NoCheckpoint)
    BY <1>1, <2>2, CommitKeepsTables DEF RestartsInv, StoreInv
  <2> QED BY <2>1, <2>2
<1> QED BY <1>2, <1>3, CommitKeepsTables DEF RestartsInv

LEMMA SaveKeepsInv ==
    ASSUME RestartsInv, SaveCheckpoint
    PROVE  RestartsInv'
<1>1. UNCHANGED <<app, tables>> /\ pc = "saving" /\ pc' = "serving"
  BY DEF SaveCheckpoint
<1>2. TablesInv' /\ AppInv'
  BY <1>1 DEF RestartsInv, TablesInv, AppInv
<1>3. app.db \in Databases /\ Len(Table) \in DOMAIN tables[app.db]
  BY <1>1, TableFacts DEF RestartsInv, AppInv, Table
<1>4. /\ saved' = [db |-> app.db, id |-> Len(Table)]
      /\ store' = CheckpointOf(tables[app.db][Len(Table)])
  BY DEF SaveCheckpoint, Table
<1>5. StoreInv'
  BY <1>1, <1>3, <1>4 DEF StoreInv
<1> QED BY <1>2, <1>5 DEF RestartsInv

LEMMA RestartsStep == RestartsInv /\ [Next]_vars => RestartsInv'
<1> SUFFICES ASSUME RestartsInv, [Next]_vars PROVE RestartsInv'
  OBVIOUS
<1>1. CASE UNCHANGED vars
  BY <1>1 DEF vars, RestartsInv, TablesInv, AppInv, StoreInv
<1>2. CASE SaveFails
  BY <1>2 DEF SaveFails, RestartsInv, TablesInv, AppInv, StoreInv
<1>3. CASE Stop
  BY <1>3 DEF Stop, RestartsInv, TablesInv, AppInv, StoreInv
<1> QED BY <1>1, <1>2, <1>3, StartKeepsInv, CommitKeepsInv, SaveKeepsInv DEF Next

\* The invariant holds through every sequence of processes.
THEOREM RestartsInvariance == Spec => []RestartsInv
BY RestartsInit, RestartsStep, PTL DEF Spec

-----------------------------------------------------------------------------
(* What the running process answers                                        *)

LEMMA LeastElement ==
    ASSUME NEW S, S \subseteq Nat, S # {}
    PROVE  Min(S) \in S
<1> DEFINE R == OpToRel(<, Nat)
<1>1. IsWellFoundedOn(R, Nat)
  BY NatLessThanWellFounded
<1>2. \A x, y \in Nat : <<y, x>> \in R <=> y < x
  BY DEF OpToRel
<1> HIDE DEF R
<1>3. PICK k \in S : \A j \in S : ~ (<<j, k>> \in R)
  BY <1>1, WFMin
<1>4. k \in Nat /\ \A j \in S : j \in Nat /\ ~ (j < k)
  BY <1>2, <1>3
<1>5. \E i \in S : \A j \in S : i <= j
  BY <1>4
<1> QED BY <1>5 DEF Min

\* The verdicts of verify_with_store, by what the walk finds.
LEMMA StoreVerdict ==
    ASSUME NEW key, NEW rows, NEW has_store \in BOOLEAN, NEW cp, NEW result,
           result = VerifyChain(key, rows, IF has_store THEN cp ELSE NoCheckpoint)
    PROVE  VerifyWithStore(key, rows, has_store, cp) =
               IF has_store /\ cp = NoCheckpoint /\ result.status = "valid"
                 THEN [result EXCEPT !.status = "unverifiable"] ELSE result
BY DEF VerifyWithStore

LEMMA EmptyVerdict ==
    ASSUME NEW key, NEW has_store \in BOOLEAN, NEW cp
    PROVE  VerifyWithStore(key, << >>, has_store, cp) =
               Verdict(IF has_store /\ cp # NoCheckpoint THEN "invalid" ELSE "empty", 0, 0, FALSE)
<1>1. PICK c : c = IF has_store THEN cp ELSE NoCheckpoint
  OBVIOUS
<1>2. PICK s : s = IF has_store /\ cp # NoCheckpoint THEN "invalid" ELSE "empty"
  OBVIOUS
<1>3. s = IF c = NoCheckpoint THEN "empty" ELSE "invalid"
  BY <1>1, <1>2
<1>4. PICK result : result = Verdict(s, 0, 0, FALSE)
  OBVIOUS
<1>5. result = VerifyChain(key, << >>, c)
  BY <1>3, <1>4 DEF VerifyChain
<1>6. result.status # "valid"
  BY <1>2, <1>4 DEF Verdict
<1> QED BY <1>1, <1>2, <1>4, <1>5, <1>6, StoreVerdict

LEMMA FaultVerdict ==
    ASSUME NEW key, NEW rows, NEW has_store \in BOOLEAN, NEW cp, NEW result,
           result.status = "invalid", \A c : VerifyChain(key, rows, c) = result
    PROVE  VerifyWithStore(key, rows, has_store, cp) = result
<1>1. PICK c : c = IF has_store THEN cp ELSE NoCheckpoint
  OBVIOUS
<1>2. result = VerifyChain(key, rows, c)
  OBVIOUS
<1> QED BY <1>1, <1>2, StoreVerdict

LEMMA TailVerdict ==
    ASSUME NEW key, NEW rows, NEW has_store \in BOOLEAN, NEW cp, NEW tail, NEW status,
           rows # << >>, Faults(key, rows) = {},
           VerifyTail(rows, IF has_store THEN cp ELSE NoCheckpoint)
             = Verdict(status, Len(rows), 0, tail)
    PROVE  LET verdict == VerifyWithStore(key, rows, has_store, cp)
           IN  /\ verdict.status = IF has_store /\ cp = NoCheckpoint /\ status = "valid"
                                     THEN "unverifiable" ELSE status
               /\ verdict.tail_verified = tail
<1>1. PICK c : c = IF has_store THEN cp ELSE NoCheckpoint
  OBVIOUS
<1>2. PICK result : result = Verdict(status, Len(rows), 0, tail)
  OBVIOUS
<1>3. result = VerifyChain(key, rows, c)
  BY <1>1, <1>2 DEF VerifyChain
<1>4. VerifyWithStore(key, rows, has_store, cp) =
          IF has_store /\ cp = NoCheckpoint /\ result.status = "valid"
            THEN [result EXCEPT !.status = "unverifiable"] ELSE result
  BY <1>1, <1>3, StoreVerdict
<1> QED BY <1>2, <1>4 DEF Verdict

\* The faults of the log are the rows of other keys, and the walk stops at the
\* first of them.
LEMMA FaultsAreForeign ==
    ASSUME RestartsInv, pc # "down"
    PROVE  /\ Faults(app.key, Table) = ForeignRows
           /\ FirstFault(app.key, Table) = Min(ForeignRows)
           /\ ForeignRows # {} => Min(ForeignRows) \in ForeignRows
<1>1. app.db \in Databases
  BY DEF RestartsInv, AppInv
<1>2. \A k \in DOMAIN Table :
          RowOk(app.key, Table, k) <=> Table[k].record_mac = Mac(app.key, Table[k].record_hash)
  <2> SUFFICES ASSUME NEW k \in DOMAIN Table
               PROVE  RowOk(app.key, Table, k)
                        <=> Table[k].record_mac = Mac(app.key, Table[k].record_hash)
    OBVIOUS
  <2>1. /\ Table[k].id = k
        /\ Table[k].prev_hash = ExpectedPrev(Table, k)
        /\ Table[k].content = <<app.db, k>>
        /\ Table[k].record_hash = <<k, <<app.db, k>>, Table[k].prev_hash>>
    BY <1>1, TableFacts DEF RestartsInv, Table
  <2>2. Table[k].record_hash = RecordHash(Table[k].id, Table[k].content, Table[k].prev_hash)
    BY <2>1 DEF RecordHash
  <2> QED BY <2>1, <2>2 DEF RowOk
<1>3. Faults(app.key, Table) = ForeignRows
  BY <1>2 DEF Faults, ForeignRows
<1>4. ForeignRows \subseteq Nat
  BY <1>1, TableFacts DEF ForeignRows, RestartsInv, Table
<1> QED BY <1>3, <1>4, LeastElement DEF FirstFault, Min

\* A checkpoint of one database names no record of another.
LEMMA ForeignCheckpoint ==
    ASSUME RestartsInv, NEW d \in Databases, saved.db \in Databases \ {d}
    PROVE  store # NoCheckpoint /\ store \notin Checkpoints(tables[d])
<1> DEFINE e == saved.db
           i == saved.id
<1>1. e \in Databases /\ i \in DOMAIN tables[e] /\ store = CheckpointOf(tables[e][i])
  BY DatabasesAreFiles DEF RestartsInv, StoreInv, Unsaved
<1>2. /\ i \in Nat \ {0} /\ tables[e][i].id = i
      /\ tables[e][i].record_hash = <<i, <<e, i>>, tables[e][i].prev_hash>>
      /\ \E key \in HmacKeys : tables[e][i].record_mac = Mac(key, tables[e][i].record_hash)
  BY <1>1, TableFacts DEF RestartsInv
<1>3. store.last_record_id = i /\ store.last_record_mac = tables[e][i].record_mac
  BY <1>1, <1>2 DEF CheckpointOf
<1>4. store # NoCheckpoint
  BY <1>2, <1>3 DEF NoCheckpoint
<1>5. ASSUME NEW k \in DOMAIN tables[d], store = CheckpointOf(tables[d][k]) PROVE FALSE
  <2>1. /\ tables[d][k].record_hash = <<k, <<d, k>>, tables[d][k].prev_hash>>
        /\ \E key \in HmacKeys : tables[d][k].record_mac = Mac(key, tables[d][k].record_hash)
    BY <1>5, TableFacts DEF RestartsInv
  <2>2. PICK h, g : h = tables[e][i].record_hash /\ g = tables[d][k].record_hash
    OBVIOUS
  <2>3. PICK c, b : c = <<e, i>> /\ b = <<d, k>>
    OBVIOUS
  <2>4. c # b
    BY <2>3
  <2>5. h[2] = c /\ g[2] = b
    BY <1>2, <2>1, <2>2, <2>3
  <2>6. tables[d][k].record_mac = tables[e][i].record_mac
    BY <1>1, <1>5 DEF CheckpointOf
  <2>7. h = g
    BY <1>2, <2>1, <2>2, <2>6 DEF Mac
  <2> QED BY <2>4, <2>5, <2>7
<1> QED BY <1>4, <1>5 DEF Checkpoints

\* The log of the process's own key, and the checkpoint of its own database or
\* none: the tail is verified when the checkpoint is of the newest record.
LEMMA OwnTail ==
    ASSUME RestartsInv, pc # "down", ForeignRows = {}, Table # << >>,
           ~ (app.checkpoint /\ saved.db \in Databases \ {app.db})
    PROVE  /\ AuditVerify.status =
                  IF app.checkpoint /\ saved = Unsaved THEN "unverifiable" ELSE "valid"
           /\ AuditVerify.tail_verified <=>
                  app.checkpoint /\ saved = [db |-> app.db, id |-> Len(Table)]
<1> DEFINE n == Len(Table)
           newest == [db |-> app.db, id |-> n]
<1>1. app.db \in Databases /\ app.checkpoint \in BOOLEAN /\ Faults(app.key, Table) = {}
  BY FaultsAreForeign DEF RestartsInv, AppInv
<1>2. /\ n \in Nat \ {0} /\ n \in DOMAIN Table /\ DOMAIN Table = 1 .. n
      /\ \A k \in DOMAIN Table : Table[k].id = k
  BY <1>1, TableFacts DEF RestartsInv, Table
<1>3. PICK key, rows, has, cp :
          /\ key = app.key /\ rows = Table /\ cp = store
          /\ has \in BOOLEAN /\ has = app.checkpoint
  BY <1>1
<1>4. PICK c : c = IF has THEN cp ELSE NoCheckpoint
  OBVIOUS
<1>5. AuditVerify = VerifyWithStore(key, rows, has, cp) /\ has \in BOOLEAN
  BY <1>3 DEF AuditVerify
<1>6. saved = Unsaved => saved # newest /\ store = NoCheckpoint
  <2>1. SUFFICES ASSUME saved = Unsaved PROVE saved # newest /\ store = NoCheckpoint
    OBVIOUS
  <2>2. saved.db = "none" /\ newest.db = app.db
    BY <2>1 DEF Unsaved
  <2> QED BY <1>1, <2>1, <2>2, DatabasesAreFiles DEF RestartsInv, StoreInv
<1>7. CASE ~ app.checkpoint \/ saved = Unsaved
  <2>1. c = NoCheckpoint /\ 0 \notin Ids(rows) /\ c \notin Checkpoints(rows)
    <3>1. c = NoCheckpoint
      BY <1>6, <1>7, <1>3, <1>4
    <3>2. \A k \in DOMAIN rows : rows[k].id # 0
      BY <1>2, <1>3
    <3>3. \A k \in DOMAIN rows : CheckpointOf(rows[k]).last_record_id # 0
      BY <3>2 DEF CheckpointOf
    <3>4. NoCheckpoint.last_record_id = 0
      BY DEF NoCheckpoint
    <3> QED BY <3>1, <3>2, <3>3, <3>4 DEF Ids, Checkpoints
  <2>2. PICK tail \in BOOLEAN : ~ tail
    OBVIOUS
  <2>3. VerifyTail(rows, c) = Verdict("valid", Len(rows), 0, tail)
    <3>1. VerifyTail(rows, c) = Verdict("valid", Len(rows), 0, FALSE)
      BY <2>1 DEF VerifyTail, NoCheckpoint
    <3> QED BY <2>2, <3>1
  <2>4. /\ AuditVerify.status =
               IF has /\ cp = NoCheckpoint /\ "valid" = "valid" THEN "unverifiable" ELSE "valid"
        /\ AuditVerify.tail_verified = tail
    BY <1>1, <1>3, <1>4, <1>5, <2>3, TailVerdict
  <2> QED BY <1>3, <1>6, <1>7, <2>2, <2>4
<1>8. CASE app.checkpoint /\ saved # Unsaved
  <2>1. /\ saved = [db |-> app.db, id |-> saved.id] /\ saved.id \in DOMAIN Table
        /\ store = CheckpointOf(Table[saved.id])
    BY <1>1, <1>8 DEF RestartsInv, StoreInv, Table
  <2>2. store.last_record_id = saved.id /\ saved.id # 0
    BY <1>2, <2>1 DEF CheckpointOf
  <2>3. /\ store # NoCheckpoint /\ store.last_record_id \in Ids(Table)
        /\ store \in Checkpoints(Table)
    BY <1>2, <2>1, <2>2 DEF NoCheckpoint, Ids, Checkpoints
  <2>4. PICK tail \in BOOLEAN : tail <=> saved.id = n
    OBVIOUS
  <2>5. VerifyTail(rows, c) = Verdict("valid", Len(rows), 0, tail)
    <3>1. VerifyTail(Table, store) =
              Verdict("valid", n, 0, store.last_record_id = Table[n].id)
      BY <2>3 DEF VerifyTail
    <3>2. (store.last_record_id = Table[n].id) = tail
      BY <1>2, <2>2, <2>4
    <3> QED BY <1>8, <1>3, <1>4, <3>1, <3>2
  <2>6. /\ AuditVerify.status =
               IF has /\ cp = NoCheckpoint /\ "valid" = "valid" THEN "unverifiable" ELSE "valid"
        /\ AuditVerify.tail_verified = tail
    BY <1>1, <1>3, <1>4, <1>5, <2>5, TailVerdict
  <2>7. saved = newest <=> saved.id = n
    BY <2>1
  <2> QED BY <1>8, <1>3, <2>3, <2>4, <2>6, <2>7
<1> QED BY <1>1, <1>7, <1>8

LEMMA VerdictIsExplained == RestartsInv => VerdictExplained
<1> SUFFICES ASSUME RestartsInv, pc # "down" PROVE VerdictExplained
  BY DEF VerdictExplained
<1> DEFINE foreign == app.checkpoint /\ saved.db \in Databases \ {app.db}
           newest == [db |-> app.db, id |-> Len(Table)]
<1>1. /\ app.db \in Databases /\ app.checkpoint \in BOOLEAN
      /\ Faults(app.key, Table) = ForeignRows
  BY FaultsAreForeign DEF RestartsInv, AppInv
<1>2. PICK key, rows, has, cp :
          /\ key = app.key /\ rows = Table /\ cp = store
          /\ has \in BOOLEAN /\ has = app.checkpoint
  BY <1>1
<1>3. AuditVerify = VerifyWithStore(key, rows, has, cp) /\ has \in BOOLEAN
  BY <1>2 DEF AuditVerify
<1>4. PICK d \in Databases : d = app.db
  BY <1>1
<1>5. CASE ForeignRows # {}
  <2>1. PICK k \in ForeignRows : k = FirstFault(app.key, Table) /\ k = Min(ForeignRows)
    BY <1>5, FaultsAreForeign
  <2>2. Table[k].id = k /\ Table # << >>
    <3>1. k \in DOMAIN tables[d] /\ tables[d] = Table
      BY <1>4, <2>1 DEF ForeignRows, Table
    <3> QED BY <3>1, TableFacts DEF RestartsInv
  <2>3. AuditVerify = Verdict("invalid", k, k, FALSE)
    <3>1. PICK result : result = Verdict("invalid", k, k, FALSE)
      OBVIOUS
    <3>2. Faults(key, rows) # {} /\ rows # << >> /\ k = FirstFault(key, rows) /\ rows[k].id = k
      BY <1>1, <1>2, <1>5, <2>1, <2>2
    <3>3. \A c : VerifyChain(key, rows, c) = result
      BY <3>1, <3>2 DEF VerifyChain
    <3>4. result.status = "invalid"
      BY <3>1 DEF Verdict
    <3>5. has \in BOOLEAN
      BY <1>3
    <3>6. VerifyWithStore(key, rows, has, cp) = result
      BY <3>3, <3>4, <3>5, FaultVerdict
    <3> QED BY <1>3, <3>1, <3>6
  <2> QED BY <1>5, <2>1, <2>3 DEF VerdictExplained
<1>6. CASE ForeignRows = {} /\ foreign
  <2>1. store # NoCheckpoint /\ store \notin Checkpoints(Table)
    BY <1>1, <1>6, ForeignCheckpoint DEF Table
  <2>2. AuditVerify.status = "invalid" /\ AuditVerify.tail_verified = FALSE
    <3>1. CASE Table = << >>
      <4>1. AuditVerify = Verdict("invalid", 0, 0, FALSE)
        <5>1. rows = << >> /\ has /\ cp # NoCheckpoint
          BY <1>6, <1>2, <2>1, <3>1
        <5> QED BY <1>3, <5>1, EmptyVerdict
      <4> QED BY <4>1 DEF Verdict
    <3>2. CASE Table # << >>
      <4>1. PICK r : VerifyTail(Table, store) = r
        OBVIOUS
      <4>2. /\ r.status = "invalid" /\ r.tail_verified = FALSE
        BY <2>1, <4>1 DEF VerifyTail, Verdict
      <4>3. VerifyChain(app.key, Table, store) = r
        BY <1>1, <1>6, <3>2, <4>1 DEF VerifyChain
      <4>4. AuditVerify = r
        <5>1. r = VerifyChain(key, rows, IF has THEN cp ELSE NoCheckpoint)
          BY <1>6, <1>2, <4>3
        <5>2. has /\ cp # NoCheckpoint
          BY <1>6, <1>2, <2>1
        <5>3. has \in BOOLEAN
          BY <1>3
        <5>4. VerifyWithStore(key, rows, has, cp) =
                  IF has /\ cp = NoCheckpoint /\ r.status = "valid"
                    THEN [r EXCEPT !.status = "unverifiable"] ELSE r
          BY <5>1, <5>3, StoreVerdict
        <5> QED BY <1>3, <5>2, <5>4
      <4> QED BY <4>2, <4>4
    <3> QED BY <3>1, <3>2
  <2> QED BY <1>6, <2>2 DEF VerdictExplained
<1>7. CASE ForeignRows = {} /\ ~ foreign
  <2>1. /\ AuditVerify.status = CASE Table = << >> -> "empty"
                                  [] Table # << >> /\ app.checkpoint /\ saved = Unsaved -> "unverifiable"
                                  [] OTHER -> "valid"
        /\ AuditVerify.tail_verified <=> app.checkpoint /\ saved = newest
    <3>1. CASE Table = << >>
      <4>1. Len(Table) = 0 /\ DOMAIN Table = {}
        BY <1>1, <3>1, TableFacts DEF RestartsInv, Table
      <4>2. app.checkpoint => saved = Unsaved /\ store = NoCheckpoint
        BY <1>1, <1>7, <4>1 DEF RestartsInv, StoreInv, Table
      <4>3. Unsaved # newest
        <5>1. Unsaved.db = "none" /\ newest.db = app.db
          BY DEF Unsaved
        <5> QED BY <1>1, <5>1, DatabasesAreFiles
      <4>4. AuditVerify = Verdict("empty", 0, 0, FALSE)
        BY <1>2, <1>3, <3>1, <4>2, EmptyVerdict
      <4>5. AuditVerify.status = "empty" /\ AuditVerify.tail_verified = FALSE
        BY <4>4 DEF Verdict
      <4> QED BY <3>1, <4>2, <4>3, <4>5
    <3>2. CASE Table # << >>
      <4>1. AuditVerify.status =
                IF app.checkpoint /\ saved = Unsaved THEN "unverifiable" ELSE "valid"
        BY <1>7, <3>2, OwnTail
      <4>2. AuditVerify.tail_verified <=> app.checkpoint /\ saved = newest
        BY <1>7, <3>2, OwnTail
      <4> HIDE DEF newest
      <4> QED BY <1>1, <3>2, <4>1, <4>2
    <3> QED BY <3>1, <3>2
  <2> QED BY <1>7, <2>1 DEF VerdictExplained
<1> QED BY <1>1, <1>5, <1>6, <1>7

\* After any sequence of restarts with any settings, the verdict of
\* GET /v1/audit/verify names what differs between the processes.
THEOREM VerdictsAreExplained == Spec => []VerdictExplained
BY RestartsInvariance, VerdictIsExplained, PTL

LEMMA StrongKeysVouch == RestartsInv => ProductionVouchesForStrongKeys
<1> SUFFICES ASSUME RestartsInv, pc # "down", app.app_env = "production",
                    AuditVerify.status # "invalid", NEW k \in DOMAIN Table
             PROVE  \E key \in StrongKeys : Table[k].record_mac = Mac(key, Table[k].record_hash)
  BY DEF ProductionVouchesForStrongKeys
<1>1. app.key \in StrongKeys
  BY DEF RestartsInv, AppInv
<1>2. ForeignRows = {}
  <2>1. SUFFICES ASSUME ForeignRows # {} PROVE FALSE
    OBVIOUS
  <2>2. AuditVerify = Verdict("invalid", Min(ForeignRows), Min(ForeignRows), FALSE)
    BY <2>1, VerdictIsExplained DEF VerdictExplained
  <2> QED BY <2>2 DEF Verdict
<1>3. Table[k].record_mac = Mac(app.key, Table[k].record_hash)
  BY <1>2 DEF ForeignRows
<1> QED BY <1>1, <1>3

\* Production never vouches for a record under the development key or a short
\* one, whatever process wrote it (config.py, _enforce_security_rules).
THEOREM ProductionVouches == Spec => []ProductionVouchesForStrongKeys
BY RestartsInvariance, StrongKeysVouch, PTL

-----------------------------------------------------------------------------
(* The verdicts of one process                                             *)

\* A step of the running process leaves its settings, and adds no row of
\* another key.
LEMMA ForeignRowsStay ==
    ASSUME RestartsInv, [Next]_vars, pc # "down", pc' # "down"
    PROVE  app' = app /\ ForeignRows' = ForeignRows
<1>1. app' = app
  BY DEF Next, Start, CommitRecord, SaveCheckpoint, SaveFails, Stop, vars
<1>2. CASE tables' = tables
  BY <1>1, <1>2 DEF ForeignRows, Table
<1>3. CASE CommitRecord
  <2>1. PICK a \in Databases : a = app.db
    BY DEF RestartsInv, AppInv
  <2>0. PICK key : key = app.key
    OBVIOUS
  <2>2. PICK old, new : old = tables[a] /\ new = tables'[a]
    OBVIOUS
  <2>3. /\ DOMAIN new = DOMAIN old \cup {Len(old) + 1}
        /\ \A k \in DOMAIN old : new[k] = old[k]
        /\ new[Len(old) + 1].record_mac = Mac(key, new[Len(old) + 1].record_hash)
    <3>1. PICK i, c, h : tables' = [tables EXCEPT ![a] = Append(old, Seal(key, i, c, h))]
      BY <1>3, <2>0, <2>1, <2>2 DEF CommitRecord, Table
    <3>2. PICK row : row = Seal(key, i, c, h)
      OBVIOUS
    <3>3. new = Append(old, row)
      BY <2>1, <2>2, <3>1, <3>2 DEF RestartsInv, TablesInv
    <3>4. IsSequence(old)
      BY <2>1, <2>2 DEF RestartsInv, TablesInv
    <3>5. /\ DOMAIN new = 1 .. Len(old) + 1 /\ new[Len(old) + 1] = row
          /\ \A k \in DOMAIN old : new[k] = old[k]
          /\ DOMAIN old = 1 .. Len(old) /\ Len(old) \in Nat
      BY <3>3, <3>4, AppendRow, LengthFacts
    <3>6. row.record_mac = Mac(key, row.record_hash)
      BY <3>2 DEF Seal
    <3> QED BY <3>5, <3>6
  <2>4. ForeignRows = {k \in DOMAIN old : old[k].record_mac # Mac(key, old[k].record_hash)}
    BY <2>0, <2>1, <2>2 DEF ForeignRows, Table
  <2>5. ForeignRows' = {k \in DOMAIN new : new[k].record_mac # Mac(key, new[k].record_hash)}
    BY <1>1, <2>0, <2>1, <2>2 DEF ForeignRows, Table
  <2> QED BY <1>1, <2>3, <2>4, <2>5
<1> QED BY <1>2, <1>3 DEF Next, Start, SaveCheckpoint, SaveFails, Stop, vars

\* When the log is called valid.
ValidWhen ==
    pc # "down" =>
      ( AuditVerify.status = "valid" <=>
          /\ ForeignRows = {} /\ Table # << >>
          /\ app.checkpoint => saved # Unsaved /\ saved.db = app.db )

LEMMA ValidVerdict == RestartsInv => ValidWhen
<1> SUFFICES ASSUME RestartsInv, pc # "down" PROVE ValidWhen
  BY DEF ValidWhen
<1>1. /\ app.db \in Databases /\ app.checkpoint \in BOOLEAN
      /\ saved # Unsaved => saved.db \in Databases
      /\ Unsaved.db \notin Databases
  BY DatabasesAreFiles DEF RestartsInv, AppInv, StoreInv, Unsaved
<1>2. CASE ForeignRows # {}
  <2>1. AuditVerify = Verdict("invalid", Min(ForeignRows), Min(ForeignRows), FALSE)
    BY <1>2, VerdictIsExplained DEF VerdictExplained
  <2>2. AuditVerify.status = "invalid"
    BY <2>1 DEF Verdict
  <2> QED BY <1>2, <2>2 DEF ValidWhen
<1>3. CASE ForeignRows = {} /\ app.checkpoint /\ saved.db \in Databases \ {app.db}
  <2>1. AuditVerify.status = "invalid"
    BY <1>3, VerdictIsExplained DEF VerdictExplained
  <2> QED BY <1>1, <1>3, <2>1 DEF ValidWhen
<1>4. CASE ForeignRows = {} /\ ~ (app.checkpoint /\ saved.db \in Databases \ {app.db})
  <2>1. AuditVerify.status = CASE Table = << >> -> "empty"
                               [] Table # << >> /\ app.checkpoint /\ saved = Unsaved -> "unverifiable"
                               [] OTHER -> "valid"
    BY <1>4, VerdictIsExplained DEF VerdictExplained
  <2> QED BY <1>1, <1>4, <2>1 DEF ValidWhen
<1> QED BY <1>2, <1>3, <1>4

LEMMA StableVerdicts ==
    ASSUME RestartsInv, VerdictExplained, VerdictExplained', ValidWhen, ValidWhen',
           [Next]_vars, pc # "down", pc' # "down"
    PROVE  /\ ForeignRows # {} => AuditVerify' = AuditVerify
           /\ AuditVerify.status = "valid" => AuditVerify'.status = "valid"
           /\ SaveCheckpoint /\ ForeignRows = {} =>
                 AuditVerify'.status = "valid" /\ AuditVerify'.tail_verified
<1>1. app' = app /\ ForeignRows' = ForeignRows
  BY ForeignRowsStay
<1>2. ASSUME ForeignRows # {} PROVE AuditVerify' = AuditVerify
  <2>1. AuditVerify = Verdict("invalid", Min(ForeignRows), Min(ForeignRows), FALSE)
    BY <1>2 DEF VerdictExplained
  <2>2. AuditVerify' = Verdict("invalid", Min(ForeignRows'), Min(ForeignRows'), FALSE)
    BY <1>1, <1>2 DEF VerdictExplained
  <2> QED BY <1>1, <2>1, <2>2
<1>3. app.db \in Databases /\ app.checkpoint \in BOOLEAN
  BY DEF RestartsInv, AppInv
<1>4. Table # << >> => Table' # << >>
  <2>1. CASE CommitRecord
    BY <1>1, <2>1, CommitKeepsTables DEF Table
  <2>2. CASE tables' = tables
    BY <1>1, <2>2 DEF Table
  <2> QED BY <2>1, <2>2 DEF Next, Start, SaveCheckpoint, SaveFails, Stop, vars
<1>5. ASSUME AuditVerify.status = "valid" PROVE AuditVerify'.status = "valid"
  <2>1. /\ ForeignRows = {} /\ Table # << >>
        /\ app.checkpoint => saved # Unsaved /\ saved.db = app.db
    BY <1>5 DEF ValidWhen
  <2>2. app.checkpoint => saved' # Unsaved /\ saved'.db = app.db
    <3>1. CASE SaveCheckpoint
      <4>1. saved'.db = app.db
        BY <3>1 DEF SaveCheckpoint
      <4> QED BY <1>3, <4>1, DatabasesAreFiles DEF Unsaved
    <3>2. CASE saved' = saved
      BY <2>1, <3>2
    <3> QED BY <3>1, <3>2 DEF Next, Start, CommitRecord, SaveFails, Stop, vars
  <2>3. saved' # Unsaved' <=> saved' # Unsaved
    BY DEF Unsaved
  <2> QED BY <1>1, <1>4, <2>1, <2>2, <2>3 DEF ValidWhen
<1>6. ASSUME SaveCheckpoint, ForeignRows = {}
      PROVE  AuditVerify'.status = "valid" /\ AuditVerify'.tail_verified
  <2>1. app.checkpoint
    BY <1>6 DEF SaveCheckpoint, RestartsInv, AppInv
  <2>2. saved' = [db |-> app.db, id |-> Len(Table)] /\ Table' = Table /\ Table # << >>
    BY <1>1, <1>6 DEF SaveCheckpoint, RestartsInv, AppInv, Table
  <2>3. saved'.db = app'.db /\ saved' # Unsaved'
    BY <1>1, <1>3, <2>2, DatabasesAreFiles DEF Unsaved
  <2>4. AuditVerify'.status = "valid"
    BY <1>1, <1>6, <2>2, <2>3 DEF ValidWhen
  <2>5. AuditVerify'.tail_verified <=>
            app'.checkpoint /\ saved' = [db |-> app'.db, id |-> Len(Table')]
    BY <1>1, <1>6, <2>3 DEF VerdictExplained
  <2> QED BY <1>1, <2>1, <2>2, <2>4, <2>5
<1> QED BY <1>2, <1>5, <1>6

\* However its appends and saves end, a process never takes back an accusation
\* of a row or a verdict of valid, and any other verdict ends with the first
\* save that succeeds.
THEOREM VerdictsStayTrue == Spec => VerdictsAreStable
<1>1. RestartsInv /\ VerdictExplained /\ VerdictExplained' /\ ValidWhen /\ ValidWhen' /\ [Next]_vars
        => [ pc # "down" /\ pc' # "down" =>
               /\ ForeignRows # {} => AuditVerify' = AuditVerify
               /\ AuditVerify.status = "valid" => AuditVerify'.status = "valid"
               /\ SaveCheckpoint /\ ForeignRows = {} =>
                     AuditVerify'.status = "valid" /\ AuditVerify'.tail_verified ]_vars
  BY StableVerdicts
<1> QED BY <1>1, RestartsInvariance, VerdictIsExplained, ValidVerdict, PTL DEF Spec, VerdictsAreStable
=============================================================================
