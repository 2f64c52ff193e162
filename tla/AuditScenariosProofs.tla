------------------------ MODULE AuditScenariosProofs ------------------------
(***************************************************************************)
(* Theorems about AuditScenarios, for logs of every length, every position *)
(* of the change and every moment of the checkpoint: what the verifier     *)
(* reports of each documented change, however much the gateway appends to  *)
(* the changed database afterwards.                                        *)
(***************************************************************************)
EXTENDS AuditScenarios, SequenceTheorems, TLAPS

IsSequence(rows) == rows \in Seq({rows[k] : k \in DOMAIN rows})

\* The k-th row continues the chain of the rows before it.
IsSealed(rows, k, content) ==
    rows[k] = Seal(AuditKey, k, content, ExpectedPrev(rows, k))

\* The records appended before the change.
Originally == appended - later.records

ScenariosTypes ==
    /\ IsSequence(table)
    /\ appended \in Nat /\ later.records \in Nat /\ later.saved \in BOOLEAN
    /\ scenario = None \/ scenario.kind \in Tamperings \cup Truncations

\* The k-th row is the k-th record.
Originals(rows) == \A k \in DOMAIN rows : IsSealed(rows, k, k)

FirstRows(copy, rows) ==
    /\ IsSequence(copy) /\ Len(copy) <= Len(rows)
    /\ \A k \in DOMAIN copy : copy[k] = rows[k]

\* Before the change the k-th row is the k-th record, the checkpoint is of one
\* of the rows and the copy has the rows the table began with.
BeforeChange ==
    /\ Len(table) = appended /\ key = AuditKey
    /\ later.records = 0 /\ later.saved = FALSE
    /\ IsSequence(table) /\ Originals(table)
    /\ checkpoint \in {NoCheckpoint} \cup Checkpoints(table)
    /\ snapshot = << >> \/ \E copy : snapshot = <<copy>> /\ FirstRows(copy, table)

\* A tampering leaves its record as the first row that fails a check.  Only
\* the verifier with the wrong key may be given an empty table.
AfterTampering ==
    /\ scenario.kind # "wrong_key" => table # << >>
    /\ table # << >> =>
          /\ scenario.at \in DOMAIN table
          /\ ~ RowOk(key, table, scenario.at)
          /\ \A k \in 1 .. scenario.at - 1 : RowOk(key, table, k)

\* The content at place k of a truncated log: of n records the first at were
\* left, and those appended since are records of their own.
ContentAt(n, at, k) == IF k <= at THEN k ELSE n + (k - at)

\* The checkpoint from before the change is of the record with that id, which
\* the table still has unless the truncation took it.
CheckpointOfRecord(cp, rows, at, id) ==
    /\ \E prev : cp = CheckpointOf(Seal(AuditKey, id, id, prev))
    /\ id <= at => cp = CheckpointOf(rows[id])

\* A truncation leaves a shorter chain.
AfterTruncation ==
    /\ key = AuditKey
    /\ scenario.at \in Nat /\ scenario.at < Originally
    /\ Len(table) = scenario.at + later.records
    /\ \A k \in DOMAIN table : IsSealed(table, k, ContentAt(Originally, scenario.at, k))
    /\ \/ checkpoint = NoCheckpoint \/ later.saved
       \/ \E id \in 1 .. Originally : CheckpointOfRecord(checkpoint, table, scenario.at, id)

ScenariosInv ==
    /\ ScenariosTypes
    /\ scenario = None => BeforeChange
    /\ scenario.kind \in Tamperings => AfterTampering
    /\ scenario.kind \in Truncations => AfterTruncation

-----------------------------------------------------------------------------
(* Sequences of rows                                                       *)

LEMMA LengthFacts ==
    ASSUME NEW s, IsSequence(s)
    PROVE  Len(s) \in Nat /\ DOMAIN s = 1 .. Len(s) /\ (s = << >> <=> Len(s) = 0)
BY LenProperties, EmptySeq DEF IsSequence

\* A function on the first n numbers is a sequence.
LEMMA AsSequence ==
    ASSUME NEW t, NEW n \in Nat, t = [k \in 1 .. n |-> t[k]]
    PROVE  IsSequence(t) /\ Len(t) = n /\ DOMAIN t = 1 .. n
<1> DEFINE T == {t[k] : k \in DOMAIN t}
<1>1. DOMAIN t = 1 .. n
  OBVIOUS
<1>2. \A k \in 1 .. n : t[k] \in T
  BY <1>1
<1>3. t \in [1 .. n -> T]
  <2> HIDE DEF T
  <2> QED BY <1>2
<1>4. t \in Seq(T)
  BY <1>3, SeqDef
<1> QED BY <1>1, <1>3, <1>4, LenProperties DEF IsSequence

LEMMA AppendRow ==
    ASSUME NEW s, NEW e, IsSequence(s)
    PROVE  /\ IsSequence(Append(s, e))
           /\ Len(Append(s, e)) = Len(s) + 1
           /\ DOMAIN Append(s, e) = 1 .. Len(s) + 1
           /\ \A k \in 1 .. Len(s) : Append(s, e)[k] = s[k]
           /\ Append(s, e)[Len(s) + 1] = e
<1> DEFINE S == {s[k] : k \in DOMAIN s} \cup {e}
           t == Append(s, e)
<1>1. Len(s) \in Nat /\ DOMAIN s = 1 .. Len(s)
  BY LengthFacts
<1>2. s \in Seq(S) /\ e \in S
  <2>1. \A k \in 1 .. Len(s) : s[k] \in S
    BY <1>1
  <2> QED BY <2>1, SeqDef DEF IsSequence
<1>3. /\ t \in Seq(S) /\ Len(t) = Len(s) + 1
      /\ \A k \in 1 .. Len(s) : t[k] = s[k]
      /\ t[Len(s) + 1] = e
  BY <1>2, AppendProperties
<1>4. PICK n \in Nat : n = Len(s) + 1
  BY <1>1
<1>5. t = [k \in 1 .. n |-> t[k]]
  <2> DEFINE D == 1 .. n
  <2>1. t \in [D -> S]
    BY <1>3, <1>4, LenProperties
  <2> HIDE DEF t, S, D
  <2>2. t = [k \in D |-> t[k]]
    BY <2>1
  <2> QED BY <2>2 DEF D
<1> HIDE DEF S, t
<1>6. IsSequence(t) /\ Len(t) = n /\ DOMAIN t = 1 .. n
  BY <1>5, AsSequence
<1> QED BY <1>3, <1>4, <1>6 DEF t

\* The rows after the removed one move up.
LEMMA RemoveRow ==
    ASSUME NEW s, IsSequence(s), NEW k \in DOMAIN s
    PROVE  /\ IsSequence(RemoveAt(s, k))
           /\ Len(RemoveAt(s, k)) = Len(s) - 1
           /\ DOMAIN RemoveAt(s, k) = 1 .. Len(s) - 1
           /\ \A j \in 1 .. Len(s) - 1 :
                 RemoveAt(s, k)[j] = s[IF j < k THEN j ELSE j + 1]
<1> DEFINE S == {s[j] : j \in DOMAIN s}
           n == Len(s)
           t == RemoveAt(s, k)
           a == SubSeq(s, 1, k - 1)
           b == SubSeq(s, k + 1, n)
<1>1. s \in Seq(S) /\ n \in Nat /\ DOMAIN s = 1 .. n /\ k \in 1 .. n
  BY LengthFacts DEF IsSequence
<1>2. \A j \in 1 .. n : s[j] \in S
  BY <1>1
<1>3. /\ a \in Seq(S) /\ Len(a) = k - 1
      /\ \A j \in 1 .. k - 1 : a[j] = s[j]
  <2> HIDE DEF S
  <2>1. \A j \in 1 .. k - 1 : s[j] \in S
    BY <1>1, <1>2
  <2> QED BY <1>1, <2>1, SubSeqProperties
<1>4. /\ b \in Seq(S) /\ Len(b) = n - k
      /\ \A j \in 1 .. n - k : b[j] = s[j + k]
  <2> HIDE DEF S
  <2>1. \A j \in k + 1 .. n : s[j] \in S
    BY <1>1, <1>2
  <2> QED BY <1>1, <2>1, SubSeqProperties
<1>5. t = a \o b
  BY DEF RemoveAt
<1> HIDE DEF S, n, t, a, b
<1>6. /\ t \in Seq(S) /\ Len(t) = n - 1
      /\ \A j \in 1 .. n - 1 : t[j] = IF j <= k - 1 THEN a[j] ELSE b[j - (k - 1)]
  <2>1. Len(a) + Len(b) = n - 1
    BY <1>1, <1>3, <1>4
  <2>2. /\ a \o b \in Seq(S) /\ Len(a \o b) = Len(a) + Len(b)
        /\ \A j \in 1 .. Len(a) + Len(b) :
              (a \o b)[j] = IF j <= Len(a) THEN a[j] ELSE b[j - Len(a)]
    BY <1>3, <1>4, ConcatProperties
  <2> QED BY <1>3, <1>5, <2>1, <2>2
<1>7. \A j \in 1 .. n - 1 : t[j] = s[IF j < k THEN j ELSE j + 1]
  <2>1. SUFFICES ASSUME NEW j \in 1 .. n - 1 PROVE t[j] = s[IF j < k THEN j ELSE j + 1]
    OBVIOUS
  <2>2. CASE j < k
    BY <1>1, <1>3, <1>6, <2>1, <2>2
  <2>3. CASE ~ (j < k)
    <3>1. j - (k - 1) \in 1 .. n - k /\ j - (k - 1) + k = j + 1
      BY <1>1, <2>1, <2>3
    <3>2. b[j - (k - 1)] = s[j + 1]
      BY <1>4, <3>1
    <3> QED BY <1>1, <1>6, <2>1, <2>3, <3>2
  <2> QED BY <2>2, <2>3
<1>8. t = [j \in 1 .. n - 1 |-> t[j]]
  BY <1>1, <1>6, LenProperties
<1>9. n - 1 \in Nat
  BY <1>1
<1>10. IsSequence(t) /\ Len(t) = n - 1 /\ DOMAIN t = 1 .. n - 1
  BY <1>8, <1>9, AsSequence
<1> QED BY <1>7, <1>10 DEF t, n

-----------------------------------------------------------------------------
(* Rows                                                                    *)

LEMMA SealFields ==
    ASSUME NEW row, NEW k, NEW id, NEW content, NEW prev, row = Seal(k, id, content, prev)
    PROVE  /\ row.id = id /\ row.content = content /\ row.prev_hash = prev
           /\ row.record_hash = <<id, content, prev>>
           /\ row.record_mac = <<k, <<id, content, prev>>>>
BY DEF Seal, RecordHash, Mac

\* A sealed row, column by column; it passes the checks of the walk.
LEMMA SealedRow ==
    ASSUME NEW rows, NEW k, NEW content, IsSealed(rows, k, content)
    PROVE  /\ rows[k].id = k /\ rows[k].content = content
           /\ rows[k].prev_hash = ExpectedPrev(rows, k)
           /\ rows[k].record_hash = <<k, content, ExpectedPrev(rows, k)>>
           /\ rows[k].record_mac = <<AuditKey, <<k, content, ExpectedPrev(rows, k)>>>>
           /\ RowOk(AuditKey, rows, k)
<1>1. PICK row, prev : row = rows[k] /\ prev = ExpectedPrev(rows, k)
  OBVIOUS
<1>2. row = Seal(AuditKey, k, content, prev)
  BY <1>1 DEF IsSealed
<1>3. /\ row.id = k /\ row.content = content /\ row.prev_hash = prev
      /\ row.record_hash = <<k, content, prev>>
      /\ row.record_mac = <<AuditKey, <<k, content, prev>>>>
  BY <1>2, SealFields
<1>4. RowOk(AuditKey, rows, k)
  <2>1. RecordHash(row.id, row.content, row.prev_hash) = <<k, content, prev>>
    BY <1>3 DEF RecordHash
  <2>2. Mac(AuditKey, row.record_hash) = <<AuditKey, <<k, content, prev>>>>
    BY <1>3 DEF Mac
  <2> QED BY <1>1, <1>3, <2>1, <2>2 DEF RowOk
<1> QED BY <1>1, <1>3, <1>4

\* The checks of a row look at it and at the row before it.
LEMMA SameRows ==
    ASSUME NEW rows, NEW other, NEW k, rows[k] = other[k], k = 1 \/ rows[k - 1] = other[k - 1]
    PROVE  /\ \A ky : RowOk(ky, rows, k) <=> RowOk(ky, other, k)
           /\ \A c : IsSealed(rows, k, c) <=> IsSealed(other, k, c)
<1>1. ExpectedPrev(rows, k) = ExpectedPrev(other, k)
  BY DEF ExpectedPrev
<1>2. \A ky : RowOk(ky, rows, k) <=> RowOk(ky, other, k)
  BY <1>1 DEF RowOk
<1>3. \A c : IsSealed(rows, k, c) <=> IsSealed(other, k, c)
  BY <1>1 DEF IsSealed
<1> QED BY <1>2, <1>3

\* Two tables with the same first n rows.
LEMMA SamePrefix ==
    ASSUME NEW rows, NEW other, NEW n \in Nat, \A j \in 1 .. n : rows[j] = other[j],
           NEW k \in 1 .. n
    PROVE  /\ \A ky : RowOk(ky, rows, k) <=> RowOk(ky, other, k)
           /\ \A c : IsSealed(rows, k, c) <=> IsSealed(other, k, c)
<1>1. k = 1 \/ k - 1 \in 1 .. n
  OBVIOUS
<1>2. rows[k] = other[k] /\ (k = 1 \/ rows[k - 1] = other[k - 1])
  BY <1>1
<1> QED BY <1>2, SameRows

\* The row the gateway appends next continues a table whose last row has the
\* id of its place.
LEMMA NextRowSealed ==
    ASSUME IsSequence(table), table # << >> => table[Len(table)].id = Len(table)
    PROVE  IsSealed(Append(table, NextRow), Len(table) + 1, appended + 1)
<1> DEFINE n == Len(table)
           new == Append(table, NextRow)
<1>1. n \in Nat /\ DOMAIN table = 1 .. n /\ (table = << >> <=> n = 0)
  BY LengthFacts
<1>2. new[n + 1] = NextRow /\ \A j \in 1 .. n : new[j] = table[j]
  BY AppendRow
<1> HIDE DEF new
<1>3. TailOf(table).next_id = n + 1 /\ TailOf(table).prev_hash = ExpectedPrev(new, n + 1)
  <2>1. CASE n = 0
    BY <1>1, <2>1 DEF TailOf, ExpectedPrev
  <2>2. CASE n # 0
    <3>1. n + 1 # 1 /\ n + 1 - 1 = n /\ n \in 1 .. n
      BY <1>1, <2>2
    <3>2. ExpectedPrev(new, n + 1) = table[n].record_hash
      BY <1>2, <3>1 DEF ExpectedPrev
    <3> QED BY <1>1, <2>2, <3>2 DEF TailOf
  <2> QED BY <2>1, <2>2
<1> QED BY <1>2, <1>3 DEF NextRow, IsSealed, new

-----------------------------------------------------------------------------
(* The invariant                                                           *)

LEMMA EmptyTable == IsSequence(<< >>) /\ Len(<< >>) = 0 /\ DOMAIN << >> = {}
<1>1. << >> = [k \in 1 .. 0 |-> << >>[k]]
  OBVIOUS
<1>2. 1 .. 0 = {}
  OBVIOUS
<1> QED BY <1>1, <1>2, AsSequence

LEMMA NoneIsNoChange ==
    /\ None.kind \notin Tamperings /\ None.kind \notin Truncations
    /\ Tamperings \cap Truncations = {}
BY DEF None, Tamperings, Truncations

LEMMA ScenariosInit == Init => ScenariosInv
BY EmptyTable, NoneIsNoChange
   DEF Init, ScenariosInv, ScenariosTypes, BeforeChange, Originals

\* Before the change.
LEMMA TableFacts ==
    ASSUME ScenariosInv, scenario = None
    PROVE  /\ IsSequence(table) /\ Len(table) \in Nat /\ DOMAIN table = 1 .. Len(table)
           /\ table = << >> <=> Len(table) = 0
           /\ appended = Len(table) /\ appended = Originally /\ key = AuditKey
           /\ \A k \in 1 .. Len(table) : IsSealed(table, k, k)
<1>1. IsSequence(table) /\ BeforeChange /\ appended \in Nat
  BY DEF ScenariosInv, ScenariosTypes
<1>2. Len(table) \in Nat /\ DOMAIN table = 1 .. Len(table) /\ (table = << >> <=> Len(table) = 0)
  BY <1>1, LengthFacts
<1> QED BY <1>1, <1>2 DEF BeforeChange, Originals, Originally

LEMMA AppendKeepsInv == ScenariosInv /\ AppendRecord => ScenariosInv'
<1> SUFFICES ASSUME ScenariosInv, AppendRecord PROVE ScenariosInv'
  OBVIOUS
<1> DEFINE n == Len(table)
           new == Append(table, NextRow)
<1>0. /\ scenario = None /\ table' = new /\ appended' = appended + 1
      /\ UNCHANGED <<checkpoint, snapshot, scenario, key, later>>
  BY DEF AppendRecord
<1>1. /\ IsSequence(table) /\ n \in Nat /\ DOMAIN table = 1 .. n /\ (table = << >> <=> n = 0)
      /\ appended = n /\ \A k \in 1 .. n : IsSealed(table, k, k)
  BY <1>0, TableFacts
<1>2. /\ IsSequence(new) /\ Len(new) = n + 1 /\ DOMAIN new = 1 .. n + 1
      /\ \A k \in 1 .. n : new[k] = table[k]
  BY <1>1, AppendRow
<1>3. IsSealed(new, n + 1, n + 1)
  <2>1. table # << >> => table[n].id = n
    BY <1>1, SealedRow
  <2> QED BY <1>1, <2>1, NextRowSealed
<1>4. BeforeChange
  BY <1>0 DEF ScenariosInv
<1> HIDE DEF new
<1>5. Originals(new)
  <2>1. \A k \in 1 .. n : IsSealed(new, k, k)
    BY <1>1, <1>2, SamePrefix
  <2>2. \A k \in DOMAIN new : k \in 1 .. n \/ k = n + 1
    BY <1>1, <1>2
  <2> QED BY <1>3, <2>1, <2>2 DEF Originals
<1>6. checkpoint \in {NoCheckpoint} \cup Checkpoints(new)
  <2>1. \A k \in DOMAIN table : k \in DOMAIN new /\ new[k] = table[k]
    BY <1>1, <1>2
  <2> QED BY <1>4, <2>1 DEF BeforeChange, Checkpoints
<1>7. ASSUME NEW copy, FirstRows(copy, table) PROVE FirstRows(copy, new)
  <2>1. /\ IsSequence(copy) /\ Len(copy) <= n
        /\ \A k \in DOMAIN copy : copy[k] = table[k]
    BY <1>7 DEF FirstRows
  <2>2. Len(copy) \in Nat /\ DOMAIN copy = 1 .. Len(copy)
    BY <2>1, LengthFacts
  <2>3. Len(copy) <= n + 1 /\ \A k \in DOMAIN copy : copy[k] = new[k]
    BY <1>1, <1>2, <2>1, <2>2
  <2> QED BY <1>2, <2>1, <2>3 DEF FirstRows
<1>8. BeforeChange'
  BY <1>0, <1>1, <1>2, <1>4, <1>5, <1>6, <1>7 DEF BeforeChange
<1> QED BY <1>0, <1>1, <1>2, <1>8, NoneIsNoChange DEF ScenariosInv, ScenariosTypes

LEMMA CheckpointKeepsInv == ScenariosInv /\ CreateCheckpoint => ScenariosInv'
<1> SUFFICES ASSUME ScenariosInv, CreateCheckpoint PROVE ScenariosInv'
  OBVIOUS
<1>0. /\ scenario = None /\ table # << >> /\ checkpoint' = CheckpointOf(Last(table))
      /\ UNCHANGED <<table, snapshot, appended, scenario, key, later>>
  BY DEF CreateCheckpoint
<1>1. Len(table) \in DOMAIN table
  BY <1>0, TableFacts
<1>2. checkpoint' \in Checkpoints(table)
  BY <1>0, <1>1 DEF Checkpoints, Last
<1>3. BeforeChange'
  BY <1>0, <1>2 DEF ScenariosInv, BeforeChange
<1> QED BY <1>0, <1>3, NoneIsNoChange DEF ScenariosInv, ScenariosTypes

LEMMA CopyKeepsInv == ScenariosInv /\ TakeCopy => ScenariosInv'
<1> SUFFICES ASSUME ScenariosInv, TakeCopy PROVE ScenariosInv'
  OBVIOUS
<1>0. /\ scenario = None /\ snapshot' = <<table>>
      /\ UNCHANGED <<table, checkpoint, appended, scenario, key, later>>
  BY DEF TakeCopy
<1>2. FirstRows(table, table)
  BY <1>0, TableFacts DEF FirstRows
<1>3. BeforeChange'
  BY <1>0, <1>2 DEF ScenariosInv, BeforeChange
<1> QED BY <1>0, <1>3, NoneIsNoChange DEF ScenariosInv, ScenariosTypes

\* A tampering keeps the invariant if its record is the first row that fails.
LEMMA TamperingKeepsInv ==
    ASSUME ScenariosInv, NEW kind \in Tamperings, NEW k, NEW rows, Change(kind, k, rows),
           IsSequence(rows), k \in DOMAIN rows, ~ RowOk(AuditKey, rows, k),
           \A j \in 1 .. k - 1 : RowOk(AuditKey, rows, j)
    PROVE  ScenariosInv'
<1>0. /\ scenario = None /\ scenario' = [kind |-> kind, at |-> k] /\ table' = rows
      /\ UNCHANGED <<checkpoint, snapshot, appended, key, later>>
  BY DEF Change
<1>1. scenario'.kind = kind /\ scenario'.at = k
  BY <1>0
<1>2. scenario' # None /\ kind \notin Truncations
  BY <1>1, NoneIsNoChange
<1>3. key' = AuditKey
  BY <1>0, TableFacts
<1>4. rows # << >>
  OBVIOUS
<1>5. RowOk(key, table, scenario.at)' <=> RowOk(AuditKey, rows, k)
  BY <1>0, <1>1, <1>3 DEF RowOk, ExpectedPrev
<1>6. \A j : RowOk(key', table', j) <=> RowOk(AuditKey, rows, j)
  BY <1>0, <1>3
<1>7. AfterTampering'
  BY <1>0, <1>1, <1>4, <1>5, <1>6 DEF AfterTampering, RowOk, ExpectedPrev
<1>8. ScenariosTypes'
  BY <1>0, <1>1 DEF ScenariosInv, ScenariosTypes
<1> QED BY <1>1, <1>2, <1>7, <1>8 DEF ScenariosInv

-----------------------------------------------------------------------------
(* Tamperings                                                              *)

LEMMA FaultyRow ==
    ASSUME NEW rows, NEW k, NEW row, row = rows[k],
           \/ row.id # k
           \/ row.prev_hash # ExpectedPrev(rows, k)
           \/ row.record_hash # <<row.id, row.content, row.prev_hash>>
           \/ row.record_mac # <<AuditKey, row.record_hash>>
    PROVE  ~ RowOk(AuditKey, rows, k)
BY DEF RowOk, RecordHash, Mac

\* The rows before the changed one pass.
LEMMA RowsBeforePass ==
    ASSUME ScenariosInv, scenario = None, NEW rows, NEW k \in 1 .. Len(table) + 1,
           \A j \in 1 .. k - 1 : rows[j] = table[j]
    PROVE  \A j \in 1 .. k - 1 : RowOk(AuditKey, rows, j)
<1>1. Len(table) \in Nat /\ \A j \in 1 .. Len(table) : IsSealed(table, j, j)
  BY TableFacts
<1>2. PICK m \in Nat : m = k - 1 /\ m <= Len(table)
  BY <1>1
<1>3. ASSUME NEW j \in 1 .. m PROVE RowOk(AuditKey, rows, j)
  <2>1. IsSealed(table, j, j)
    BY <1>1, <1>2
  <2>2. IsSealed(rows, j, j)
    <3>1. \A i \in 1 .. m : rows[i] = table[i]
      BY <1>2
    <3>2. IsSealed(rows, j, j) <=> IsSealed(table, j, j)
      BY <3>1, SamePrefix
    <3> QED BY <2>1, <3>2
  <2> QED BY <2>2, SealedRow
<1> QED BY <1>2, <1>3

LEMMA ReplaceRow ==
    ASSUME NEW rows, IsSequence(rows), NEW k \in DOMAIN rows, NEW row
    PROVE  LET new == [rows EXCEPT ![k] = row]
           IN  /\ IsSequence(new) /\ Len(new) = Len(rows) /\ DOMAIN new = DOMAIN rows
               /\ new[k] = row /\ \A j \in DOMAIN rows \ {k} : new[j] = rows[j]
<1> DEFINE new == [rows EXCEPT ![k] = row]
<1>1. Len(rows) \in Nat /\ DOMAIN rows = 1 .. Len(rows)
  BY LengthFacts
<1>2. rows = [j \in DOMAIN rows |-> rows[j]]
  BY <1>1, LenProperties DEF IsSequence
<1>3. /\ new = [j \in DOMAIN rows |-> new[j]]
      /\ new[k] = row /\ \A j \in DOMAIN rows \ {k} : new[j] = rows[j]
  BY <1>2
<1> HIDE DEF new
<1>4. IsSequence(new) /\ Len(new) = Len(rows) /\ DOMAIN new = 1 .. Len(rows)
  BY <1>1, <1>3, AsSequence
<1> QED BY <1>1, <1>3, <1>4 DEF new

\* A change of one row to one that fails in its place.
LEMMA ReplaceKeepsInv ==
    ASSUME ScenariosInv, scenario = None, NEW kind \in Tamperings, NEW k \in DOMAIN table, NEW row,
           Change(kind, k, [table EXCEPT ![k] = row]),
           \/ row.id # k
           \/ row.prev_hash # ExpectedPrev(table, k)
           \/ row.record_hash # <<row.id, row.content, row.prev_hash>>
           \/ row.record_mac # <<AuditKey, row.record_hash>>
    PROVE  ScenariosInv'
<1> DEFINE new == [table EXCEPT ![k] = row]
<1>1. IsSequence(table) /\ Len(table) \in Nat /\ DOMAIN table = 1 .. Len(table)
  BY TableFacts
<1>2. /\ IsSequence(new) /\ DOMAIN new = DOMAIN table
      /\ new[k] = row /\ \A j \in DOMAIN table \ {k} : new[j] = table[j]
  BY <1>1, ReplaceRow
<1>3. Change(kind, k, new)
  OBVIOUS
<1> HIDE DEF new
<1>4. ExpectedPrev(new, k) = ExpectedPrev(table, k)
  <2>1. k = 1 \/ k - 1 \in DOMAIN table \ {k}
    BY <1>1
  <2> QED BY <1>2, <2>1 DEF ExpectedPrev
<1>5. ~ RowOk(AuditKey, new, k)
  BY <1>2, <1>4, FaultyRow
<1>6. \A j \in 1 .. k - 1 : RowOk(AuditKey, new, j)
  <2>1. k \in 1 .. Len(table) + 1 /\ \A j \in 1 .. k - 1 : j \in DOMAIN table \ {k}
    BY <1>1
  <2>2. \A j \in 1 .. k - 1 : new[j] = table[j]
    BY <1>2, <2>1
  <2> QED BY <2>1, <2>2, RowsBeforePass
<1>7. k \in DOMAIN new
  BY <1>2
<1> QED BY <1>2, <1>3, <1>5, <1>6, <1>7, TamperingKeepsInv

\* The edited row's hash was made of the content it had.
LEMMA ModifyKeepsInv == ScenariosInv /\ ModifyRecord => ScenariosInv'
<1> SUFFICES ASSUME ScenariosInv, ModifyRecord PROVE ScenariosInv'
  OBVIOUS
<1>1. PICK k \in DOMAIN table : Change("modify", k, [table EXCEPT ![k].content = Forged])
  BY DEF ModifyRecord
<1>2. scenario = None
  BY <1>1 DEF Change
<1>3. PICK r, prev : r = table[k] /\ r = Seal(AuditKey, k, k, prev) /\ k \in Nat \ {0}
  BY <1>2, TableFacts DEF IsSealed
<1>4. PICK row : row = [r EXCEPT !.content = Forged]
  OBVIOUS
<1>5. row.id = k /\ row.content = Forged /\ row.record_hash = <<k, k, prev>>
  BY <1>3, <1>4 DEF Seal, RecordHash
<1>6. row.record_hash # <<row.id, row.content, row.prev_hash>>
  <2>1. k # Forged
    BY <1>3 DEF Forged
  <2>2. PICK c, p : c = row.content /\ p = row.prev_hash
    OBVIOUS
  <2>3. <<k, k, prev>>[2] = k /\ <<k, c, p>>[2] = c
    OBVIOUS
  <2> QED BY <1>5, <2>1, <2>2, <2>3
<1>7. [table EXCEPT ![k].content = Forged] = [table EXCEPT ![k] = row]
  BY <1>3, <1>4
<1>8. "modify" \in Tamperings
  BY DEF Tamperings
<1>9. Change("modify", k, [table EXCEPT ![k] = row])
  BY <1>1, <1>7
<1> QED BY <1>2, <1>6, <1>8, <1>9, ReplaceKeepsInv

\* A row links to nothing or to a hash of three parts.
LEMMA PrevHashKeepsInv == ScenariosInv /\ ModifyPrevHash => ScenariosInv'
<1> SUFFICES ASSUME ScenariosInv, ModifyPrevHash PROVE ScenariosInv'
  OBVIOUS
<1>1. PICK k \in DOMAIN table : Change("prev_hash", k, [table EXCEPT ![k].prev_hash = <<Forged>>])
  BY DEF ModifyPrevHash
<1>2. scenario = None
  BY <1>1 DEF Change
<1>3. PICK r, prev : r = table[k] /\ r = Seal(AuditKey, k, k, prev) /\ k \in Nat \ {0}
  BY <1>2, TableFacts DEF IsSealed
<1>4. PICK row : row = [r EXCEPT !.prev_hash = <<Forged>>]
  OBVIOUS
<1>5. row.prev_hash = <<Forged>>
  BY <1>3, <1>4 DEF Seal
<1>6. row.prev_hash # ExpectedPrev(table, k)
  <2>1. CASE k = 1
    BY <1>5, <2>1 DEF ExpectedPrev, GenesisHash
  <2>2. CASE k # 1
    <3>1. k - 1 \in 1 .. Len(table)
      BY <1>2, <1>3, <2>2, TableFacts
    <3>2. PICK i, p : i = k - 1 /\ p = ExpectedPrev(table, i)
      OBVIOUS
    <3>3. table[i].record_hash = <<i, i, p>>
      BY <1>2, <3>1, <3>2, TableFacts, SealedRow
    <3>4. <<Forged>> # <<i, i, p>>
      OBVIOUS
    <3> QED BY <1>5, <2>2, <3>2, <3>3, <3>4 DEF ExpectedPrev
  <2> QED BY <2>1, <2>2
<1>7. [table EXCEPT ![k].prev_hash = <<Forged>>] = [table EXCEPT ![k] = row]
  BY <1>3, <1>4
<1>8. "prev_hash" \in Tamperings
  BY DEF Tamperings
<1>9. Change("prev_hash", k, [table EXCEPT ![k] = row])
  BY <1>1, <1>7
<1> QED BY <1>2, <1>6, <1>8, <1>9, ReplaceKeepsInv

\* The row that moves up keeps the id of its old place.
LEMMA DeleteMiddleKeepsInv == ScenariosInv /\ DeleteMiddle => ScenariosInv'
<1> SUFFICES ASSUME ScenariosInv, DeleteMiddle PROVE ScenariosInv'
  OBVIOUS
<1>1. PICK k \in DOMAIN table : k < Len(table) /\ Change("delete_middle", k, RemoveAt(table, k))
  BY DEF DeleteMiddle
<1> DEFINE n == Len(table)
           new == RemoveAt(table, k)
<1>2. scenario = None
  BY <1>1 DEF Change
<1>3. /\ IsSequence(table) /\ n \in Nat /\ DOMAIN table = 1 .. n
      /\ \A j \in 1 .. n : IsSealed(table, j, j)
  BY <1>2, TableFacts
<1>4. /\ IsSequence(new) /\ DOMAIN new = 1 .. n - 1
      /\ \A j \in 1 .. n - 1 : new[j] = table[IF j < k THEN j ELSE j + 1]
  BY <1>3, RemoveRow
<1> HIDE DEF new
<1>5. k \in 1 .. n - 1 /\ k + 1 \in 1 .. n /\ k + 1 # k
  BY <1>1, <1>3
<1>6. new[k].id # k
  <2>1. new[k] = table[k + 1]
    BY <1>4, <1>5
  <2>2. table[k + 1].id = k + 1
    BY <1>3, <1>5, SealedRow
  <2> QED BY <1>5, <2>1, <2>2
<1>7. ~ RowOk(AuditKey, new, k)
  BY <1>6, FaultyRow
<1>8. \A j \in 1 .. k - 1 : RowOk(AuditKey, new, j)
  <2>1. \A j \in 1 .. k - 1 : j < k /\ j \in 1 .. n - 1
    BY <1>3, <1>5
  <2>2. \A j \in 1 .. k - 1 : new[j] = table[j]
    BY <1>4, <2>1
  <2>3. k \in 1 .. Len(table) + 1
    BY <1>3, <1>5
  <2> QED BY <1>2, <2>2, <2>3, RowsBeforePass
<1>9. "delete_middle" \in Tamperings /\ Change("delete_middle", k, new) /\ k \in DOMAIN new
  BY <1>1, <1>4, <1>5 DEF Tamperings, new
<1> QED BY <1>4, <1>7, <1>8, <1>9, TamperingKeepsInv

\* The neighbour's hash was made with its own id.
LEMMA ReorderKeepsInv == ScenariosInv /\ ReorderRecords => ScenariosInv'
<1> SUFFICES ASSUME ScenariosInv, ReorderRecords PROVE ScenariosInv'
  OBVIOUS
<1>1. PICK k \in DOMAIN table :
         /\ k < Len(table)
         /\ Change("reorder", k, [table EXCEPT ![k]     = [table[k + 1] EXCEPT !.id = k],
                                               ![k + 1] = [table[k] EXCEPT !.id = k + 1]])
  BY DEF ReorderRecords
<1> DEFINE n == Len(table)
<1>2. scenario = None
  BY <1>1 DEF Change
<1>3. /\ IsSequence(table) /\ n \in Nat /\ DOMAIN table = 1 .. n
      /\ \A j \in 1 .. n : IsSealed(table, j, j)
  BY <1>2, TableFacts
<1>4. k \in 1 .. n - 1 /\ k + 1 \in DOMAIN table /\ k + 1 # k
  BY <1>1, <1>3
<1>5. PICK m, r, prev : m = k + 1 /\ r = table[m] /\ r = Seal(AuditKey, m, m, prev)
  BY <1>3, <1>4 DEF IsSealed
<1>6. PICK first, second : first = [r EXCEPT !.id = k] /\ second = [table[k] EXCEPT !.id = m]
  OBVIOUS
<1>7. first.id = k /\ first.record_hash = <<m, m, prev>>
  BY <1>5, <1>6 DEF Seal, RecordHash
<1> DEFINE half == [table EXCEPT ![k] = first]
           new == [half EXCEPT ![m] = second]
<1>8. /\ IsSequence(half) /\ DOMAIN half = DOMAIN table
      /\ half[k] = first /\ \A j \in DOMAIN table \ {k} : half[j] = table[j]
  BY <1>3, ReplaceRow
<1>9. Change("reorder", k, new)
  <2>1. [table EXCEPT ![k] = first, ![m] = second] = new
    OBVIOUS
  <2> QED BY <1>1, <1>5, <1>6, <2>1
<1> HIDE DEF half
<1>10. /\ IsSequence(new) /\ DOMAIN new = DOMAIN half
       /\ \A j \in DOMAIN half \ {m} : new[j] = half[j]
  <2>1. m \in DOMAIN half
    BY <1>4, <1>5, <1>8
  <2> QED BY <1>8, <2>1, ReplaceRow
<1> HIDE DEF new
<1>11. new[k] = first
  BY <1>4, <1>5, <1>8, <1>10
<1>12. ~ RowOk(AuditKey, new, k)
  <2>1. PICK c, p : c = first.content /\ p = first.prev_hash
    OBVIOUS
  <2>2. <<m, m, prev>>[1] = m /\ <<k, c, p>>[1] = k
    OBVIOUS
  <2>3. first.record_hash # <<first.id, first.content, first.prev_hash>>
    BY <1>4, <1>5, <1>7, <2>1, <2>2
  <2> QED BY <1>11, <2>3, FaultyRow
<1>13. \A j \in 1 .. k - 1 : RowOk(AuditKey, new, j)
  <2>1. ASSUME NEW j \in 1 .. k - 1 PROVE new[j] = table[j]
    <3>1. j \in DOMAIN table /\ j # k /\ j # m
      BY <1>3, <1>4, <1>5
    <3> QED BY <1>8, <1>10, <3>1
  <2>2. k \in 1 .. Len(table) + 1
    BY <1>3, <1>4
  <2> QED BY <1>2, <2>1, <2>2, RowsBeforePass
<1>14. "reorder" \in Tamperings /\ k \in DOMAIN new
  BY <1>8, <1>10 DEF Tamperings
<1> QED BY <1>9, <1>10, <1>12, <1>13, <1>14, TamperingKeepsInv

\* So was the hash of the repeated record.
LEMMA DuplicateKeepsInv == ScenariosInv /\ DuplicateRecord => ScenariosInv'
<1> SUFFICES ASSUME ScenariosInv, DuplicateRecord PROVE ScenariosInv'
  OBVIOUS
<1>1. PICK i \in DOMAIN table :
         Change("duplicate", Len(table) + 1,
                Append(table, [table[i] EXCEPT !.id = Len(table) + 1]))
  BY DEF DuplicateRecord
<1>2. scenario = None
  BY <1>1 DEF Change
<1>3. PICK n \in Nat : n = Len(table)
  BY <1>2, TableFacts
<1>4. IsSequence(table) /\ DOMAIN table = 1 .. n
  BY <1>2, <1>3, TableFacts
<1>5. PICK r, prev : r = table[i] /\ r = Seal(AuditKey, i, i, prev)
  BY <1>2, <1>3, <1>4, TableFacts DEF IsSealed
<1>6. PICK row : row = [r EXCEPT !.id = n + 1]
  OBVIOUS
<1>7. row.id = n + 1 /\ row.record_hash = <<i, i, prev>>
  BY <1>5, <1>6 DEF Seal, RecordHash
<1> DEFINE new == Append(table, row)
<1>8. Change("duplicate", n + 1, new)
  BY <1>1, <1>3, <1>5, <1>6
<1>9. /\ IsSequence(new) /\ DOMAIN new = 1 .. n + 1
      /\ \A j \in 1 .. n : new[j] = table[j]
      /\ new[n + 1] = row
  BY <1>3, <1>4, AppendRow
<1> HIDE DEF new
<1>10. ~ RowOk(AuditKey, new, n + 1)
  <2>1. PICK m, c, p : m = n + 1 /\ c = row.content /\ p = row.prev_hash
    OBVIOUS
  <2>2. <<i, i, prev>>[1] = i /\ <<m, c, p>>[1] = m
    OBVIOUS
  <2>3. i # m
    BY <1>4, <2>1
  <2>4. row.record_hash # <<row.id, row.content, row.prev_hash>>
    BY <1>7, <2>1, <2>2, <2>3
  <2> QED BY <1>9, <2>4, FaultyRow
<1>11. \A j \in 1 .. (n + 1) - 1 : RowOk(AuditKey, new, j)
  <2>1. PICK k \in 1 .. Len(table) + 1 : k = n + 1 /\ k - 1 = n
    BY <1>3
  <2>2. \A j \in 1 .. k - 1 : new[j] = table[j]
    BY <1>9, <2>1
  <2>3. \A j \in 1 .. k - 1 : RowOk(AuditKey, new, j)
    BY <1>2, <2>2, RowsBeforePass
  <2> QED BY <2>1, <2>3
<1>12. "duplicate" \in Tamperings /\ n + 1 \in DOMAIN new
  BY <1>9 DEF Tamperings
<1> QED BY <1>8, <1>9, <1>10, <1>11, <1>12, TamperingKeepsInv

\* The MAC is that of the old hash; the relinked row comes after it.
LEMMA RehashKeepsInv == ScenariosInv /\ RehashWithoutKey => ScenariosInv'
<1> SUFFICES ASSUME ScenariosInv, RehashWithoutKey PROVE ScenariosInv'
  OBVIOUS
<1>1. PICK k \in DOMAIN table :
         LET hash == RecordHash(k, Forged, table[k].prev_hash)
         IN  Change("rehash", k,
               [j \in DOMAIN table |->
                   CASE j = k -> [table[k] EXCEPT !.content = Forged, !.record_hash = hash]
                     [] j = k + 1 -> [table[j] EXCEPT !.prev_hash = hash]
                     [] OTHER -> table[j]])
  BY DEF RehashWithoutKey
<1>2. PICK r, hash : r = table[k] /\ hash = RecordHash(k, Forged, table[k].prev_hash)
  OBVIOUS
<1>3. PICK row : row = [r EXCEPT !.content = Forged, !.record_hash = hash]
  OBVIOUS
<1> DEFINE RowAt(j) == CASE j = k -> row
                         [] j = k + 1 -> [table[j] EXCEPT !.prev_hash = hash]
                         [] OTHER -> table[j]
           new == [j \in DOMAIN table |-> RowAt(j)]
           n == Len(table)
<1>4. Change("rehash", k, new)
  BY <1>1, <1>2, <1>3
<1>5. scenario = None
  BY <1>4 DEF Change
<1>6. n \in Nat /\ DOMAIN table = 1 .. n /\ IsSealed(table, k, k)
  BY <1>5, TableFacts
<1>7. /\ DOMAIN new = DOMAIN table /\ new = [j \in DOMAIN table |-> new[j]]
      /\ new[k] = row /\ \A j \in DOMAIN table \ {k, k + 1} : new[j] = table[j]
  <2>1. RowAt(k) = row
    <3>1. k # k + 1
      BY <1>6
    <3> QED BY <3>1
  <2>2. \A j : j # k /\ j # k + 1 => RowAt(j) = table[j]
    OBVIOUS
  <2> HIDE DEF RowAt
  <2> QED BY <2>1, <2>2
<1> HIDE DEF new
<1>8. IsSequence(new)
  BY <1>6, <1>7, AsSequence
<1>9. PICK prev : r = Seal(AuditKey, k, k, prev)
  BY <1>2, <1>6 DEF IsSealed
<1>10. row.record_hash = hash /\ row.record_mac = <<AuditKey, <<k, k, prev>>>>
  <2>1. r = [ id |-> k, content |-> k, prev_hash |-> prev,
              record_hash |-> RecordHash(k, k, prev),
              record_mac |-> Mac(AuditKey, RecordHash(k, k, prev)) ]
    BY <1>9 DEF Seal
  <2>2. row.record_hash = hash /\ row.record_mac = Mac(AuditKey, RecordHash(k, k, prev))
    BY <1>3, <2>1
  <2> QED BY <2>2 DEF Mac, RecordHash
<1>11. ~ RowOk(AuditKey, new, k)
  <2>1. r.prev_hash = prev
    BY <1>9 DEF Seal
  <2>2. hash = <<k, Forged, prev>>
    BY <1>2, <2>1 DEF RecordHash
  <2>3. k # Forged
    BY <1>6 DEF Forged
  <2>4. PICK old : old = <<k, k, prev>>
    OBVIOUS
  <2>5. old # hash
    <3>1. old[2] = k /\ hash[2] = Forged
      BY <2>2, <2>4
    <3> QED BY <2>3, <3>1
  <2>6. <<AuditKey, old>> # <<AuditKey, hash>>
    BY <2>5
  <2>7. row.record_mac # <<AuditKey, row.record_hash>>
    BY <1>10, <2>4, <2>6
  <2> QED BY <1>7, <2>7, FaultyRow
<1>12. \A j \in 1 .. k - 1 : RowOk(AuditKey, new, j)
  <2>1. k \in 1 .. Len(table) + 1 /\ \A j \in 1 .. k - 1 : j \in DOMAIN table \ {k, k + 1}
    BY <1>6
  <2>2. \A j \in 1 .. k - 1 : new[j] = table[j]
    BY <1>7, <2>1
  <2> QED BY <1>5, <2>1, <2>2, RowsBeforePass
<1>13. "rehash" \in Tamperings /\ k \in DOMAIN new
  BY <1>7 DEF Tamperings
<1> QED BY <1>4, <1>8, <1>11, <1>12, <1>13, TamperingKeepsInv

\* No MAC of the gateway's key is one of the other key.
LEMMA WrongKeyKeepsInv == ScenariosInv /\ VerifyWithWrongKey => ScenariosInv'
<1> SUFFICES ASSUME ScenariosInv, VerifyWithWrongKey PROVE ScenariosInv'
  OBVIOUS
<1>1. /\ scenario = None /\ scenario' = [kind |-> "wrong_key", at |-> 1] /\ key' = OtherKey
      /\ UNCHANGED <<table, checkpoint, snapshot, appended, later>>
  BY DEF VerifyWithWrongKey
<1>2. scenario'.kind = "wrong_key" /\ scenario'.at = 1
  BY <1>1
<1>3. "wrong_key" \in Tamperings /\ "wrong_key" \notin Truncations
  BY DEF Tamperings, Truncations
<1>4. scenario' # None
  BY <1>2 DEF None
<1>5. ASSUME table # << >> PROVE 1 \in DOMAIN table /\ ~ RowOk(OtherKey, table, 1)
  <2>1. 1 \in 1 .. Len(table) /\ DOMAIN table = 1 .. Len(table)
    BY <1>1, <1>5, TableFacts
  <2>2. PICK prev : prev = ExpectedPrev(table, 1)
    OBVIOUS
  <2>3. table[1].record_hash = <<1, 1, prev>> /\ table[1].record_mac = <<AuditKey, <<1, 1, prev>>>>
    BY <1>1, <2>1, <2>2, TableFacts, SealedRow
  <2>4. PICK h : h = <<1, 1, prev>>
    OBVIOUS
  <2>5. <<AuditKey, h>>[1] = AuditKey /\ <<OtherKey, h>>[1] = OtherKey
    OBVIOUS
  <2>6. table[1].record_mac # Mac(OtherKey, table[1].record_hash)
    BY <2>3, <2>4, <2>5, ScenarioKeys DEF Mac
  <2> QED BY <2>1, <2>6 DEF RowOk
<1>6. AfterTampering'
  BY <1>1, <1>2, <1>5 DEF AfterTampering, RowOk, ExpectedPrev
<1> QED BY <1>1, <1>2, <1>3, <1>4, <1>6 DEF ScenariosInv, ScenariosTypes

-----------------------------------------------------------------------------
(* Truncations                                                             *)

\* The first n records remain.
LEMMA TruncationKeepsInv ==
    ASSUME ScenariosInv, NEW kind \in Truncations, NEW n \in Nat, NEW rows,
           Change(kind, n, rows), n < Len(table),
           IsSequence(rows), Len(rows) = n, \A j \in 1 .. n : rows[j] = table[j]
    PROVE  ScenariosInv'
<1>1. /\ scenario = None /\ scenario' = [kind |-> kind, at |-> n] /\ table' = rows
      /\ UNCHANGED <<checkpoint, snapshot, appended, key, later>>
  BY DEF Change
<1>2. scenario'.kind = kind /\ scenario'.at = n
  BY <1>1
<1>3. scenario' # None /\ kind \notin Tamperings
  BY <1>2, NoneIsNoChange
<1>4. /\ Len(table) \in Nat /\ DOMAIN table = 1 .. Len(table) /\ key' = AuditKey
      /\ Originally = Len(table) /\ appended = Len(table)
      /\ \A j \in 1 .. Len(table) : IsSealed(table, j, j)
  BY <1>1, TableFacts
<1>5. DOMAIN rows = 1 .. n
  BY LengthFacts
<1>6. later'.records = 0 /\ Originally' = Len(table)
  BY <1>1, <1>4 DEF ScenariosInv, BeforeChange, Originally
<1>7. \A k \in DOMAIN rows : IsSealed(rows, k, ContentAt(Len(table), n, k))
  <2>1. SUFFICES ASSUME NEW k \in 1 .. n PROVE IsSealed(rows, k, ContentAt(Len(table), n, k))
    BY <1>5
  <2>2. IsSealed(table, k, k) /\ ContentAt(Len(table), n, k) = k
    BY <1>4, <2>1 DEF ContentAt
  <2>3. IsSealed(rows, k, k) <=> IsSealed(table, k, k)
    BY <2>1, SamePrefix
  <2> QED BY <2>2, <2>3
<1>8. checkpoint = NoCheckpoint \/ \E id \in 1 .. Len(table) : CheckpointOfRecord(checkpoint, rows, n, id)
  <2>1. CASE checkpoint # NoCheckpoint
    <3>1. PICK id \in 1 .. Len(table) : checkpoint = CheckpointOf(table[id])
      BY <1>1, <1>4, <2>1 DEF ScenariosInv, BeforeChange, Checkpoints
    <3>2. \E prev : checkpoint = CheckpointOf(Seal(AuditKey, id, id, prev))
      BY <1>4, <3>1 DEF IsSealed
    <3>3. id <= n => checkpoint = CheckpointOf(rows[id])
      BY <3>1
    <3> QED BY <3>2, <3>3 DEF CheckpointOfRecord
  <2> QED BY <2>1
<1>9. n < Originally' /\ Len(table') = n + later'.records
  BY <1>1, <1>6
<1>10. AfterTruncation'
  BY <1>1, <1>2, <1>4, <1>6, <1>7, <1>8, <1>9 DEF AfterTruncation
<1>11. ScenariosTypes'
  BY <1>1, <1>2 DEF ScenariosInv, ScenariosTypes
<1> QED BY <1>2, <1>3, <1>10, <1>11 DEF ScenariosInv

LEMMA DeleteTailKeepsInv == ScenariosInv /\ DeleteTail => ScenariosInv'
<1> SUFFICES ASSUME ScenariosInv, DeleteTail PROVE ScenariosInv'
  OBVIOUS
<1>1. PICK n \in 1 .. Len(table) - 1 : Change("tail_deletion", n, SubSeq(table, 1, n))
  BY DEF DeleteTail
<1>2. scenario = None
  BY <1>1 DEF Change
<1>3. IsSequence(table) /\ Len(table) \in Nat /\ DOMAIN table = 1 .. Len(table)
  BY <1>2, TableFacts
<1>4. n \in Nat /\ n < Len(table)
  BY <1>3
<1> DEFINE S == {table[k] : k \in DOMAIN table}
           rows == SubSeq(table, 1, n)
<1>5. rows \in Seq(S) /\ Len(rows) = n /\ \A j \in 1 .. n : rows[j] = table[j]
  <2>1. \A j \in 1 .. n : table[j] \in S
    BY <1>3, <1>4
  <2>2. table \in Seq(S)
    BY <1>3 DEF IsSequence
  <2> HIDE DEF S
  <2>3. /\ rows \in Seq(S) /\ Len(rows) = IF 1 <= n THEN n - 1 + 1 ELSE 0
        /\ \A j \in 1 .. n - 1 + 1 : rows[j] = table[1 + j - 1]
    BY <1>3, <1>4, <2>1, <2>2, SubSeqProperties
  <2>4. n - 1 + 1 = n /\ 1 <= n /\ \A j \in 1 .. n : 1 + j - 1 = j
    BY <1>3
  <2> QED BY <2>3, <2>4
<1> HIDE DEF rows, S
<1>6. IsSequence(rows)
  <2>1. rows = [j \in 1 .. n |-> rows[j]]
    BY <1>5, LenProperties
  <2> QED BY <1>4, <2>1, AsSequence
<1>7. "tail_deletion" \in Truncations /\ Change("tail_deletion", n, rows)
  BY <1>1 DEF Truncations, rows
<1> QED BY <1>4, <1>5, <1>6, <1>7, TruncationKeepsInv

LEMMA DeleteDatabaseKeepsInv == ScenariosInv /\ DeleteDatabase => ScenariosInv'
<1> SUFFICES ASSUME ScenariosInv, DeleteDatabase PROVE ScenariosInv'
  OBVIOUS
<1>1. table # << >> /\ Change("database_deletion", 0, << >>)
  BY DEF DeleteDatabase
<1>2. 0 < Len(table)
  <2>1. scenario = None
    BY <1>1 DEF Change
  <2> QED BY <1>1, <2>1, TableFacts
<1>3. "database_deletion" \in Truncations /\ \A j \in 1 .. 0 : << >>[j] = table[j]
  BY DEF Truncations
<1> QED BY <1>1, <1>2, <1>3, EmptyTable, TruncationKeepsInv

LEMMA RollbackKeepsInv == ScenariosInv /\ Rollback => ScenariosInv'
<1> SUFFICES ASSUME ScenariosInv, Rollback PROVE ScenariosInv'
  OBVIOUS
<1>1. PICK copy : copy = Head(snapshot)
  OBVIOUS
<1>2. /\ scenario = None /\ snapshot # << >> /\ Len(copy) < Len(table)
      /\ Change("rollback", Len(copy), copy)
  BY <1>1 DEF Rollback, Change
<1>3. FirstRows(copy, table)
  <2>1. PICK c : snapshot = <<c>> /\ FirstRows(c, table)
    BY <1>2 DEF ScenariosInv, BeforeChange
  <2> QED BY <1>1, <2>1
<1>4. /\ IsSequence(copy) /\ Len(copy) \in Nat /\ DOMAIN copy = 1 .. Len(copy)
      /\ \A k \in 1 .. Len(copy) : copy[k] = table[k]
  BY <1>3, LengthFacts DEF FirstRows
<1>5. "rollback" \in Truncations
  BY DEF Truncations
<1> QED BY <1>2, <1>4, <1>5, TruncationKeepsInv

-----------------------------------------------------------------------------
(* The gateway appends to the changed database.                            *)

LEMMA LaterKeepsTampering ==
    ASSUME ScenariosInv, AppendLater, scenario.kind \in Tamperings
    PROVE  AfterTampering'
<1> DEFINE n == Len(table)
           new == Append(table, NextRow)
<1>1. /\ scenario.kind # "wrong_key" /\ table' = new /\ UNCHANGED <<scenario, key>>
  BY DEF AppendLater
<1>2. AfterTampering /\ IsSequence(table)
  BY DEF ScenariosInv, ScenariosTypes
<1>3. /\ n \in Nat /\ DOMAIN table = 1 .. n /\ table # << >>
      /\ scenario.at \in 1 .. n /\ ~ RowOk(key, table, scenario.at)
      /\ \A j \in 1 .. scenario.at - 1 : RowOk(key, table, j)
  BY <1>1, <1>2, LengthFacts DEF AfterTampering
<1>4. /\ DOMAIN new = 1 .. n + 1
      /\ \A j \in 1 .. n : new[j] = table[j]
  BY <1>2, AppendRow
<1> HIDE DEF new
<1>5. \A j \in 1 .. n : RowOk(key, new, j) <=> RowOk(key, table, j)
  BY <1>3, <1>4, SamePrefix
<1>6. scenario.at \in DOMAIN new /\ \A j \in 1 .. scenario.at - 1 : j \in 1 .. n
  BY <1>3, <1>4
<1>7. ~ RowOk(key, new, scenario.at) /\ \A j \in 1 .. scenario.at - 1 : RowOk(key, new, j)
  BY <1>3, <1>5, <1>6
<1>8. new # << >>
  BY <1>6
<1> QED BY <1>1, <1>6, <1>7, <1>8 DEF AfterTampering, RowOk, ExpectedPrev

\* The new record has a content and, past the truncation, perhaps an id that a
\* lost record had, but not both.
LEMMA LaterKeepsTruncation ==
    ASSUME ScenariosInv, AppendLater, scenario.kind \in Truncations
    PROVE  AfterTruncation'
<1> DEFINE len == Len(table)
           new == Append(table, NextRow)
           at == scenario.at
           n == Originally
<1>1. PICK saved \in BOOLEAN :
         /\ table' = new /\ appended' = appended + 1
         /\ later' = [records |-> later.records + 1, saved |-> later.saved \/ saved]
         /\ checkpoint' = IF saved THEN CheckpointOf(NextRow) ELSE checkpoint
         /\ UNCHANGED <<snapshot, scenario, key>>
  BY DEF AppendLater
<1>2. AfterTruncation /\ IsSequence(table)
  BY DEF ScenariosInv, ScenariosTypes
<1>3. /\ len \in Nat /\ DOMAIN table = 1 .. len /\ (table = << >> <=> len = 0)
      /\ at \in Nat /\ appended \in Nat /\ later.records \in Nat
  BY <1>2, LengthFacts DEF AfterTruncation, ScenariosInv, ScenariosTypes
<1>4. /\ IsSequence(new) /\ Len(new) = len + 1 /\ DOMAIN new = 1 .. len + 1
      /\ \A j \in 1 .. len : new[j] = table[j]
  BY <1>2, AppendRow
<1>5. IsSealed(new, len + 1, appended + 1)
  <2>1. table # << >> => table[len].id = len
    <3>1. table # << >> => len \in DOMAIN table
      BY <1>3
    <3>2. \A k \in DOMAIN table : IsSealed(table, k, ContentAt(n, at, k))
      BY <1>2 DEF AfterTruncation
    <3> QED BY <3>1, <3>2, SealedRow
  <2> QED BY <1>2, <2>1, NextRowSealed
<1> HIDE DEF new
<1>6. later'.records = later.records + 1 /\ later'.saved = (later.saved \/ saved)
  BY <1>1
<1>7. Originally' = n /\ n \in Int /\ n = appended - later.records
  BY <1>1, <1>3, <1>6 DEF Originally
<1>8. len = at + later.records /\ at < n /\ key = AuditKey
  BY <1>2 DEF AfterTruncation
<1>9. ContentAt(n, at, len + 1) = appended + 1
  <2> HIDE DEF n, len, at
  <2> QED BY <1>3, <1>7, <1>8 DEF ContentAt
<1>10. \A k \in DOMAIN new : IsSealed(new, k, ContentAt(n, at, k))
  <2>1. SUFFICES ASSUME NEW k \in 1 .. len + 1 PROVE IsSealed(new, k, ContentAt(n, at, k))
    BY <1>4
  <2>2. CASE k = len + 1
    BY <1>5, <1>9, <2>2
  <2>3. CASE k # len + 1
    <3>1. k \in 1 .. len
      BY <1>3, <2>1, <2>3
    <3>2. PICK c : c = ContentAt(n, at, k)
      OBVIOUS
    <3>3. IsSealed(table, k, c)
      BY <1>2, <1>3, <3>1, <3>2 DEF AfterTruncation
    <3>4. IsSealed(new, k, c) <=> IsSealed(table, k, c)
      BY <1>3, <1>4, <3>1, SamePrefix
    <3> QED BY <3>2, <3>3, <3>4
  <2> QED BY <2>2, <2>3
<1>11. \/ checkpoint' = NoCheckpoint \/ later'.saved
       \/ \E id \in 1 .. n : CheckpointOfRecord(checkpoint', new, at, id)
  <2>1. CASE saved \/ later.saved \/ checkpoint = NoCheckpoint
    BY <1>1, <1>6, <2>1
  <2>2. CASE ~ (saved \/ later.saved \/ checkpoint = NoCheckpoint)
    <3>1. PICK id \in 1 .. n : CheckpointOfRecord(checkpoint, table, at, id)
      BY <1>2, <2>2 DEF AfterTruncation
    <3>2. checkpoint' = checkpoint
      BY <1>1, <2>2
    <3>3. id <= at => new[id] = table[id]
      BY <1>3, <1>4, <1>7, <1>8
    <3>4. CheckpointOfRecord(checkpoint', new, at, id)
      BY <3>1, <3>2, <3>3 DEF CheckpointOfRecord
    <3> QED BY <3>4
  <2> QED BY <2>1, <2>2
<1>12. Len(new) = at + later'.records
  <2> HIDE DEF len, at
  <2> QED BY <1>3, <1>4, <1>6, <1>8
<1> QED BY <1>1, <1>3, <1>7, <1>8, <1>10, <1>11, <1>12 DEF AfterTruncation

LEMMA LaterKeepsInv == ScenariosInv /\ AppendLater => ScenariosInv'
<1> SUFFICES ASSUME ScenariosInv, AppendLater PROVE ScenariosInv'
  OBVIOUS
<1>1. PICK saved \in BOOLEAN :
         /\ table' = Append(table, NextRow) /\ appended' = appended + 1
         /\ later' = [records |-> later.records + 1, saved |-> later.saved \/ saved]
         /\ scenario' = scenario /\ scenario.kind # "none"
  BY DEF AppendLater
<1>2. scenario # None
  BY <1>1 DEF None
<1>3. /\ IsSequence(table) /\ appended \in Nat /\ later.records \in Nat /\ later.saved \in BOOLEAN
      /\ scenario.kind \in Tamperings \cup Truncations
  BY <1>2 DEF ScenariosInv, ScenariosTypes
<1>4. IsSequence(table')
  BY <1>1, <1>3, AppendRow
<1>5. appended' \in Nat /\ later'.records \in Nat
  BY <1>1, <1>3
<1>6. later'.saved \in BOOLEAN
  BY <1>1
<1>7. ScenariosTypes'
  BY <1>1, <1>3, <1>4, <1>5, <1>6 DEF ScenariosTypes
<1> QED BY <1>1, <1>2, <1>7, LaterKeepsTampering, LaterKeepsTruncation DEF ScenariosInv

LEMMA ScenariosStep == ScenariosInv /\ [Next]_vars => ScenariosInv'
<1> SUFFICES ASSUME ScenariosInv, [Next]_vars PROVE ScenariosInv'
  OBVIOUS
<1>1. CASE UNCHANGED vars
  BY <1>1 DEF vars, ScenariosInv, ScenariosTypes, BeforeChange, AfterTampering, AfterTruncation,
              Originally, RowOk, ExpectedPrev
<1> QED BY <1>1, AppendKeepsInv, CheckpointKeepsInv, CopyKeepsInv, ModifyKeepsInv, PrevHashKeepsInv,
           DeleteMiddleKeepsInv, ReorderKeepsInv, DuplicateKeepsInv, RehashKeepsInv,
           WrongKeyKeepsInv, DeleteTailKeepsInv, DeleteDatabaseKeepsInv, RollbackKeepsInv,
           LaterKeepsInv DEF Next

\* A log is a chain until it is changed; after a tampering its record is the
\* first that fails a check, and after a truncation the log is a shorter chain
\* that goes on with new records, whatever is appended to it.
THEOREM ScenariosInvariance == Spec => []ScenariosInv
BY ScenariosInit, ScenariosStep, PTL DEF Spec

-----------------------------------------------------------------------------
(* What the verifier reports                                               *)

\* The first fault is the row that fails and has no failing row before it.
LEMMA FirstFaultIs ==
    ASSUME NEW ky, NEW rows, IsSequence(rows), NEW k \in DOMAIN rows, ~ RowOk(ky, rows, k),
           \A j \in 1 .. k - 1 : RowOk(ky, rows, j)
    PROVE  Faults(ky, rows) # {} /\ FirstFault(ky, rows) = k
<1> DEFINE F == Faults(ky, rows)
<1>1. Len(rows) \in Nat /\ DOMAIN rows = 1 .. Len(rows)
  BY LengthFacts
<1>2. k \in F /\ F \subseteq DOMAIN rows /\ \A j \in F : ~ RowOk(ky, rows, j)
  BY DEF Faults
<1>3. \A j \in F : j \in Nat /\ k <= j
  <2> HIDE DEF F
  <2>1. \A j \in F : j \in Nat /\ j >= 1 /\ k \in Nat /\ j \notin 1 .. k - 1
    BY <1>1, <1>2
  <2> QED BY <2>1
<1>4. \A i \in F : (\A j \in F : i <= j) => i = k
  <2> HIDE DEF F
  <2> QED BY <1>1, <1>2, <1>3
<1>5. FirstFault(ky, rows) = CHOOSE i \in F : \A j \in F : i <= j
  BY DEF FirstFault
<1> HIDE DEF F
<1>6. (CHOOSE i \in F : \A j \in F : i <= j) = k
  BY <1>2, <1>3, <1>4
<1> QED BY <1>2, <1>5, <1>6 DEF F

LEMMA FaultVerdict ==
    ASSUME NEW ky, NEW rows, IsSequence(rows), NEW k \in DOMAIN rows, ~ RowOk(ky, rows, k),
           \A j \in 1 .. k - 1 : RowOk(ky, rows, j), NEW cp
    PROVE  VerifyChain(ky, rows, cp) = Verdict("invalid", k, rows[k].id, FALSE)
<1>1. Faults(ky, rows) # {} /\ FirstFault(ky, rows) = k
  BY FirstFaultIs
<1>2. rows # << >>
  OBVIOUS
<1> QED BY <1>1, <1>2 DEF VerifyChain

LEMMA TamperingsAreLocated == ScenariosInv => TamperingLocated
<1> SUFFICES ASSUME ScenariosInv, scenario.kind \in Tamperings, table # << >>,
                    NEW verdict \in {Internal, WithCheckpoint}
             PROVE  verdict = Verdict("invalid", scenario.at, table[scenario.at].id, FALSE)
  BY DEF TamperingLocated
<1>1. IsSequence(table) /\ AfterTampering
  BY DEF ScenariosInv, ScenariosTypes
<1>2. PICK k : k = scenario.at
  OBVIOUS
<1>3. /\ k \in DOMAIN table /\ ~ RowOk(key, table, k)
      /\ \A j \in 1 .. k - 1 : RowOk(key, table, j)
  BY <1>1, <1>2 DEF AfterTampering
<1>4. \A cp : VerifyChain(key, table, cp) = Verdict("invalid", k, table[k].id, FALSE)
  BY <1>1, <1>3, FaultVerdict
<1> QED BY <1>2, <1>4 DEF Internal, WithCheckpoint

\* Every documented tampering is reported at its record, with or without the
\* checkpoint and however much is appended to the tampered log.
THEOREM EveryTamperingIsLocated == Spec => []TamperingLocated
BY ScenariosInvariance, TamperingsAreLocated, PTL

LEMMA SoundVerdict ==
    ASSUME NEW rows, IsSequence(rows), rows # << >>,
           \A k \in DOMAIN rows : RowOk(AuditKey, rows, k), NEW cp
    PROVE  VerifyChain(AuditKey, rows, cp) = VerifyTail(rows, cp)
<1>1. Faults(AuditKey, rows) = {}
  BY DEF Faults
<1> QED BY <1>1 DEF VerifyChain

LEMMA VerdictFields ==
    ASSUME NEW status, NEW n, NEW first, NEW tail
    PROVE  /\ Verdict(status, n, first, tail).status = status
           /\ Verdict(status, n, first, tail).entries_checked = n
           /\ Verdict(status, n, first, tail).tail_verified = tail
BY DEF Verdict

LEMMA CheckpointFields ==
    ASSUME NEW row
    PROVE  /\ CheckpointOf(row).last_record_id = row.id
           /\ CheckpointOf(row).last_record_mac = row.record_mac
BY DEF CheckpointOf

\* The checkpoint is of a row of the chain.
LEMMA KeptVerdict ==
    ASSUME NEW rows, IsSequence(rows), NEW id \in DOMAIN rows, NEW cp, cp = CheckpointOf(rows[id]),
           \A k \in DOMAIN rows : RowOk(AuditKey, rows, k)
    PROVE  VerifyChain(AuditKey, rows, cp) = Verdict("valid", Len(rows), 0, id = Len(rows))
<1>1. Len(rows) \in Nat /\ DOMAIN rows = 1 .. Len(rows)
  BY LengthFacts
<1>2. rows # << >>
  OBVIOUS
<1>3. \A k \in DOMAIN rows : rows[k].id = k
  BY DEF RowOk
<1>4. cp \in Checkpoints(rows)
  BY DEF Checkpoints
<1>5. cp.last_record_id = id
  BY <1>3, CheckpointFields
<1>6. cp # NoCheckpoint
  <2>1. id # 0
    BY <1>1
  <2> QED BY <1>5, <2>1 DEF NoCheckpoint
<1>7. cp.last_record_id \in Ids(rows)
  BY <1>3, <1>5 DEF Ids
<1>8. Len(rows) \in DOMAIN rows
  BY <1>1
<1>9. VerifyTail(rows, cp) = Verdict("valid", Len(rows), 0, cp.last_record_id = rows[Len(rows)].id)
  BY <1>4, <1>6, <1>7 DEF VerifyTail
<1> QED BY <1>2, <1>3, <1>5, <1>8, <1>9, SoundVerdict

\* It is of no row of the chain.
LEMMA LostVerdict ==
    ASSUME NEW rows, IsSequence(rows), NEW cp, cp # NoCheckpoint, cp \notin Checkpoints(rows),
           \A k \in DOMAIN rows : RowOk(AuditKey, rows, k)
    PROVE  \E first : VerifyChain(AuditKey, rows, cp) = Verdict("invalid", Len(rows), first, FALSE)
<1>1. CASE rows = << >>
  BY <1>1 DEF VerifyChain
<1>2. CASE rows # << >>
  <2>1. \E first : VerifyTail(rows, cp) = Verdict("invalid", Len(rows), first, FALSE)
    <3>1. CASE cp.last_record_id \in Ids(rows)
      BY <3>1 DEF VerifyTail
    <3>2. CASE cp.last_record_id \notin Ids(rows)
      <4>1. cp \in Checkpoints(rows) => cp.last_record_id \in Ids(rows)
        BY CheckpointFields DEF Checkpoints, Ids
      <4> QED BY <3>2 DEF VerifyTail
    <3> QED BY <3>1, <3>2
  <2> QED BY <1>2, <2>1, SoundVerdict
<1> QED BY <1>1, <1>2

LEMMA TruncationsVerify == ScenariosInv => TruncationsVerifyInternally
<1> SUFFICES ASSUME ScenariosInv, scenario.kind \in Truncations
             PROVE  Internal = Verdict(IF table = << >> THEN "empty" ELSE "valid", Len(table), 0, FALSE)
  BY DEF TruncationsVerifyInternally
<1>1. IsSequence(table) /\ AfterTruncation
  BY DEF ScenariosInv, ScenariosTypes
<1>2. key = AuditKey /\ \A k \in DOMAIN table : RowOk(AuditKey, table, k)
  BY <1>1, SealedRow DEF AfterTruncation
<1>3. CASE table = << >>
  BY <1>3, EmptyTable DEF Internal, VerifyChain
<1>4. CASE table # << >>
  <2>1. Internal = VerifyTail(table, NoCheckpoint)
    BY <1>1, <1>2, <1>4, SoundVerdict DEF Internal
  <2>2. VerifyTail(table, NoCheckpoint) = Verdict("valid", Len(table), 0, FALSE)
    <3>1. NoCheckpoint \notin Checkpoints(table)
      <4>1. \A k \in DOMAIN table : table[k].id = k /\ k # 0
        BY <1>1, <1>2, LengthFacts DEF RowOk
      <4>2. NoCheckpoint.last_record_id = 0
        BY DEF NoCheckpoint
      <4> QED BY <4>1, <4>2, CheckpointFields DEF Checkpoints
    <3>2. NoCheckpoint.last_record_id \notin Ids(table)
      <4>1. \A k \in DOMAIN table : table[k].id = k /\ k # 0
        BY <1>1, <1>2, LengthFacts DEF RowOk
      <4> QED BY <4>1 DEF Ids, NoCheckpoint
    <3> QED BY <3>1, <3>2 DEF VerifyTail
  <2> QED BY <1>4, <2>1, <2>2
<1> QED BY <1>3, <1>4

\* The verifier without a checkpoint takes a truncated log for the shorter log
\* it is: every record of it is counted, none is faulted, and the tail is not
\* called verified.
THEOREM TruncationsAreUnseenInternally == Spec => []TruncationsVerifyInternally
BY ScenariosInvariance, TruncationsVerify, PTL

\* Of an unchanged or a truncated log: the row the checkpoint is of is in the
\* table, or none has its content under its id.
LEMMA CheckpointKeptOrLost ==
    ASSUME ScenariosInv, scenario.kind \in {"none"} \cup Truncations,
           checkpoint # NoCheckpoint, ~ later.saved
    PROVE  /\ IsSequence(table) /\ key = AuditKey
           /\ \A k \in DOMAIN table : RowOk(AuditKey, table, k)
           /\ IF scenario # None /\ checkpoint.last_record_id > scenario.at
                THEN checkpoint \notin Checkpoints(table)
                ELSE \E id \in DOMAIN table : checkpoint = CheckpointOf(table[id])
<1>1. IsSequence(table) /\ (scenario = None \/ scenario.kind \in Tamperings \cup Truncations)
  BY DEF ScenariosInv, ScenariosTypes
<1>2. CASE scenario = None
  <2>1. BeforeChange /\ key = AuditKey
    BY <1>2, TableFacts DEF ScenariosInv
  <2>2. \A k \in DOMAIN table : RowOk(AuditKey, table, k)
    BY <2>1, SealedRow DEF BeforeChange, Originals
  <2>3. \E id \in DOMAIN table : checkpoint = CheckpointOf(table[id])
    BY <2>1 DEF BeforeChange, Checkpoints
  <2> QED BY <1>1, <1>2, <2>1, <2>2, <2>3
<1>3. CASE scenario # None
  <2>1. scenario.kind \in Truncations
    BY <1>1, <1>3 DEF Tamperings, Truncations
  <2> DEFINE at == scenario.at
             n == Originally
             len == Len(table)
  <2>2. AfterTruncation
    BY <2>1 DEF ScenariosInv
  <2>3. key = AuditKey /\ at \in Nat /\ at < n /\ len = at + later.records
    BY <2>2 DEF AfterTruncation
  <2>4. later.records \in Nat /\ appended \in Nat /\ n \in Int
    BY DEF ScenariosInv, ScenariosTypes, Originally
  <2>5. DOMAIN table = 1 .. len /\ len \in Nat
    BY <1>1, LengthFacts
  <2>6. \A k \in DOMAIN table : IsSealed(table, k, ContentAt(n, at, k))
    BY <2>2 DEF AfterTruncation
  <2>7. \A k \in DOMAIN table : RowOk(AuditKey, table, k)
    BY <2>6, SealedRow
  <2>8. PICK id \in 1 .. n : CheckpointOfRecord(checkpoint, table, at, id)
    BY <2>2 DEF AfterTruncation
  <2>9. PICK prev : checkpoint = CheckpointOf(Seal(AuditKey, id, id, prev))
    BY <2>8 DEF CheckpointOfRecord
  <2>10. checkpoint.last_record_id = id /\ checkpoint.last_record_mac = <<AuditKey, <<id, id, prev>>>>
    <3>1. PICK row : row = Seal(AuditKey, id, id, prev)
      OBVIOUS
    <3>2. row.id = id /\ row.record_mac = <<AuditKey, <<id, id, prev>>>>
      BY <3>1, SealFields
    <3> QED BY <2>9, <3>1, <3>2, CheckpointFields
  <2>11. CASE id > at
    <3>1. ASSUME NEW k \in DOMAIN table PROVE checkpoint # CheckpointOf(table[k])
      <4>1. PICK c, p : c = ContentAt(n, at, k) /\ p = ExpectedPrev(table, k)
        OBVIOUS
      <4>2. table[k].id = k /\ table[k].record_mac = <<AuditKey, <<k, c, p>>>>
        BY <2>6, <4>1, SealedRow
      <4>3. k = id => c # id
        BY <2>3, <2>4, <2>5, <2>8, <2>11, <4>1 DEF ContentAt
      <4>4. ASSUME checkpoint = CheckpointOf(table[k]) PROVE FALSE
        <5>1. id = k /\ <<AuditKey, <<id, id, prev>>>> = <<AuditKey, <<k, c, p>>>>
          BY <2>10, <4>2, <4>4, CheckpointFields
        <5>2. PICK g, h : g = <<id, id, prev>> /\ h = <<k, c, p>>
          OBVIOUS
        <5>3. g = h
          <6>1. <<AuditKey, g>> = <<AuditKey, h>>
            BY <5>1, <5>2
          <6>2. <<AuditKey, g>>[2] = g /\ <<AuditKey, h>>[2] = h
            OBVIOUS
          <6> QED BY <6>1, <6>2
        <5>4. g[2] = id /\ h[2] = c
          BY <5>2
        <5> QED BY <4>3, <5>1, <5>3, <5>4
      <4> QED BY <4>4
    <3>2. checkpoint \notin Checkpoints(table)
      BY <3>1 DEF Checkpoints
    <3> QED BY <1>1, <1>3, <2>3, <2>7, <2>10, <2>11, <3>2
  <2>12. CASE ~ (id > at)
    <3>1. id <= at
      BY <2>3, <2>4, <2>8, <2>12
    <3>2. checkpoint = CheckpointOf(table[id])
      BY <2>8, <3>1 DEF CheckpointOfRecord
    <3>3. id \in DOMAIN table
      <4> HIDE DEF len, at, n
      <4> QED BY <2>3, <2>4, <2>5, <2>8, <3>1
    <3> QED BY <1>1, <2>3, <2>7, <2>10, <2>12, <3>2, <3>3
  <2> QED BY <2>11, <2>12
<1> QED BY <1>2, <1>3

LEMMA CheckpointsDecide == ScenariosInv => CheckpointDecides
<1> SUFFICES ASSUME ScenariosInv, scenario.kind \in {"none"} \cup Truncations,
                    checkpoint # NoCheckpoint, ~ later.saved
             PROVE  LET lost == scenario # None /\ checkpoint.last_record_id > scenario.at
                    IN  /\ lost <=> WithCheckpoint.status = "invalid"
                        /\ WithCheckpoint.tail_verified <=>
                              ~ lost /\ checkpoint.last_record_id = Len(table)
                        /\ WithCheckpoint.entries_checked = Len(table)
  BY DEF CheckpointDecides
<1> DEFINE lost == scenario # None /\ checkpoint.last_record_id > scenario.at
<1>1. /\ IsSequence(table) /\ key = AuditKey
      /\ \A k \in DOMAIN table : RowOk(AuditKey, table, k)
      /\ IF lost THEN checkpoint \notin Checkpoints(table)
                 ELSE \E id \in DOMAIN table : checkpoint = CheckpointOf(table[id])
  BY CheckpointKeptOrLost
<1>2. WithCheckpoint = VerifyChain(AuditKey, table, checkpoint)
  BY <1>1 DEF WithCheckpoint
<1>3. CASE lost
  <2>1. PICK first : VerifyChain(AuditKey, table, checkpoint) = Verdict("invalid", Len(table), first, FALSE)
    BY <1>1, <1>3, LostVerdict
  <2>2. PICK no \in BOOLEAN : ~ no
    OBVIOUS
  <2>3. WithCheckpoint = Verdict("invalid", Len(table), first, no)
    BY <1>2, <2>1, <2>2
  <2>4. /\ WithCheckpoint.status = "invalid"
        /\ WithCheckpoint.entries_checked = Len(table)
        /\ WithCheckpoint.tail_verified = no
    BY <2>3, VerdictFields
  <2> QED BY <1>3, <2>2, <2>4
<1>4. CASE ~ lost
  <2>1. PICK id \in DOMAIN table : checkpoint = CheckpointOf(table[id])
    BY <1>1, <1>4
  <2>2. checkpoint.last_record_id = id
    BY <1>1, <2>1, CheckpointFields DEF RowOk
  <2>3. PICK newest \in BOOLEAN : newest <=> id = Len(table)
    OBVIOUS
  <2>4. WithCheckpoint = Verdict("valid", Len(table), 0, newest)
    <3>1. WithCheckpoint = Verdict("valid", Len(table), 0, id = Len(table))
      BY <1>1, <1>2, <2>1, KeptVerdict
    <3>2. newest = (id = Len(table))
      BY <2>3
    <3> QED BY <3>1, <3>2
  <2>5. /\ WithCheckpoint.status = "valid"
        /\ WithCheckpoint.entries_checked = Len(table)
        /\ WithCheckpoint.tail_verified = newest
    BY <2>4, VerdictFields
  <2> QED BY <1>4, <2>2, <2>3, <2>5
<1> QED BY <1>3, <1>4

\* Until the store saves again, a truncation is reported exactly when the
\* checkpointed record is among the lost ones, though other records have taken
\* its id since, and the tail is verified exactly when it is the newest.
THEOREM TheCheckpointDecides == Spec => []CheckpointDecides
BY ScenariosInvariance, CheckpointsDecide, PTL

=============================================================================
