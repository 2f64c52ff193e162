------------------------ MODULE AuditIntegrityProofs ------------------------
(***************************************************************************)
(* What a verification concludes about a changed database, for every       *)
(* payload, every table and every sequence of changes.  The argument: a    *)
(* row can only carry a MAC made with the audit key if append made it, so  *)
(* its MAC names, through the hash, the one row append wrote; and a        *)
(* checkpoint names a row by such a MAC.                                   *)
(***************************************************************************)
EXTENDS AuditIntegrity, SequenceTheorems, WellFoundedInduction, TLAPS

USE KeyAssumption, BoundsAssumption

IsSequence(rows) == rows \in Seq({rows[k] : k \in DOMAIN rows})

\* A row of the table audit_log has its columns and no others.
IsRow(row) ==
    row = [ id |-> row.id, content |-> row.content, prev_hash |-> row.prev_hash,
            record_hash |-> row.record_hash, record_mac |-> row.record_mac ]

\* A row of the database: its MAC, if it is one of the audit key, is that of a
\* row that append wrote.
GoodRow(row) ==
    /\ IsRow(row)
    /\ row.id \in Nat \ {0}
    /\ row.content \in Contents
    /\ row.record_mac[1] = AuditKey => \E s \in sealed : row.record_mac = s.record_mac

\* Rows that append wrote are seals.
SealedInv ==
    \A s \in sealed :
        /\ s = Seal(AuditKey, s.id, s.content, s.prev_hash)
        /\ s.id \in Nat \ {0} /\ s.content \in Contents

\* A row's id is its place, but for one more place for each change before it.
TableInv ==
    /\ IsSequence(table) /\ Len(table) <= MaxRows /\ changes \in 0 .. MaxChanges
    /\ \A k \in DOMAIN table : GoodRow(table[k]) /\ table[k].id <= Len(table) + changes
    /\ \A j, k \in DOMAIN table : j < k => table[j].id < table[k].id
    /\ table # << >> => sealed # {}

\* A copy made before any change has the rows append wrote, in their places.
VersionsInv ==
    \A copy \in versions :
        /\ IsSequence(copy) /\ Len(copy) <= MaxRows
        /\ \A k \in DOMAIN copy : copy[k] \in sealed /\ copy[k].id = k

\* The store has the checkpoint of the row it was last saved for.
AnchorInv ==
    \/ anchor = << >> /\ store = NoCheckpoint
    \/ \E a \in sealed : anchor = <<a>> /\ store = CheckpointOf(a)

IntegrityInv == SealedInv /\ TableInv /\ VersionsInv /\ AnchorInv

-----------------------------------------------------------------------------
(* Sequences of rows                                                       *)

LEMMA LengthFacts ==
    ASSUME NEW s, IsSequence(s)
    PROVE  Len(s) \in Nat /\ DOMAIN s = 1 .. Len(s) /\ (s = << >> <=> Len(s) = 0)
BY LenProperties, EmptySeq DEF IsSequence

\* A function on the first n numbers is a sequence.
LEMMA AsSequence ==
    ASSUME NEW t, NEW n \in Nat, t = [k \in 1 .. n |-> t[k]]
    PROVE  IsSequence(t) /\ Len(t) = n /\ DOMAIN t = 1 .. n
<1> DEFINE T == {t[k] : k \in DOMAIN t}
<1>1. DOMAIN t = 1 .. n
  OBVIOUS
<1>2. \A k \in 1 .. n : t[k] \in T
  BY <1>1
<1>3. t \in [1 .. n -> T]
  <2> HIDE DEF T
  <2> QED BY <1>2
<1>4. t \in Seq(T)
  BY <1>3, SeqDef
<1> QED BY <1>1, <1>3, <1>4, LenProperties DEF IsSequence

LEMMA AppendRow ==
    ASSUME NEW s, NEW e, IsSequence(s)
    PROVE  /\ IsSequence(Append(s, e))
           /\ Len(Append(s, e)) = Len(s) + 1
           /\ DOMAIN Append(s, e) = 1 .. Len(s) + 1
           /\ \A k \in 1 .. Len(s) : Append(s, e)[k] = s[k]
           /\ Append(s, e)[Len(s) + 1] = e
<1> DEFINE S == {s[k] : k \in DOMAIN s} \cup {e}
           t == Append(s, e)
<1>1. Len(s) \in Nat /\ DOMAIN s = 1 .. Len(s)
  BY LengthFacts
<1>2. s \in Seq(S) /\ e \in S
  <2>1. \A k \in 1 .. Len(s) : s[k] \in S
    BY <1>1
  <2> QED BY <2>1, SeqDef DEF IsSequence
<1>3. /\ t \in Seq(S) /\ Len(t) = Len(s) + 1
      /\ \A k \in 1 .. Len(s) : t[k] = s[k]
      /\ t[Len(s) + 1] = e
  BY <1>2, AppendProperties
<1>4. PICK n \in Nat : n = Len(s) + 1
  BY <1>1
<1>5. t = [k \in 1 .. n |-> t[k]]
  <2> DEFINE D == 1 .. n
  <2>1. t \in [D -> S]
    BY <1>3, <1>4, LenProperties
  <2> HIDE DEF t, S, D
  <2>2. t = [k \in D |-> t[k]]
    BY <2>1
  <2> QED BY <2>2 DEF D
<1> HIDE DEF S, t
<1>6. IsSequence(t) /\ Len(t) = n /\ DOMAIN t = 1 .. n
  BY <1>5, AsSequence
<1> QED BY <1>3, <1>4, <1>6 DEF t

\* The rows after the removed one move up.
LEMMA RemoveRow ==
    ASSUME NEW s, IsSequence(s), NEW k \in DOMAIN s
    PROVE  /\ IsSequence(RemoveAt(s, k))
           /\ Len(RemoveAt(s, k)) = Len(s) - 1
           /\ DOMAIN RemoveAt(s, k) = 1 .. Len(s) - 1
           /\ \A j \in 1 .. Len(s) - 1 :
                 RemoveAt(s, k)[j] = s[IF j < k THEN j ELSE j + 1]
<1> DEFINE S == {s[j] : j \in DOMAIN s}
           n == Len(s)
           t == RemoveAt(s, k)
           a == SubSeq(s, 1, k - 1)
           b == SubSeq(s, k + 1, n)
<1>1. s \in Seq(S) /\ n \in Nat /\ DOMAIN s = 1 .. n /\ k \in 1 .. n
  BY LengthFacts DEF IsSequence
<1>2. \A j \in 1 .. n : s[j] \in S
  BY <1>1
<1>3. /\ a \in Seq(S) /\ Len(a) = k - 1
      /\ \A j \in 1 .. k - 1 : a[j] = s[j]
  <2> HIDE DEF S
  <2>1. \A j \in 1 .. k - 1 : s[j] \in S
    BY <1>1, <1>2
  <2> QED BY <1>1, <2>1, SubSeqProperties
<1>4. /\ b \in Seq(S) /\ Len(b) = n - k
      /\ \A j \in 1 .. n - k : b[j] = s[j + k]
  <2> HIDE DEF S
  <2>1. \A j \in k + 1 .. n : s[j] \in S
    BY <1>1, <1>2
  <2> QED BY <1>1, <2>1, SubSeqProperties
<1>5. t = a \o b
  BY DEF RemoveAt
<1> HIDE DEF S, n, t, a, b
<1>6. /\ t \in Seq(S) /\ Len(t) = n - 1
      /\ \A j \in 1 .. n - 1 : t[j] = IF j <= k - 1 THEN a[j] ELSE b[j - (k - 1)]
  <2>1. Len(a) + Len(b) = n - 1
    BY <1>1, <1>3, <1>4
  <2>2. /\ a \o b \in Seq(S) /\ Len(a \o b) = Len(a) + Len(b)
        /\ \A j \in 1 .. Len(a) + Len(b) :
              (a \o b)[j] = IF j <= Len(a) THEN a[j] ELSE b[j - Len(a)]
    BY <1>3, <1>4, ConcatProperties
  <2> QED BY <1>3, <1>5, <2>1, <2>2
<1>7. \A j \in 1 .. n - 1 : t[j] = s[IF j < k THEN j ELSE j + 1]
  <2>1. SUFFICES ASSUME NEW j \in 1 .. n - 1 PROVE t[j] = s[IF j < k THEN j ELSE j + 1]
    OBVIOUS
  <2>2. CASE j < k
    BY <1>1, <1>3, <1>6, <2>1, <2>2
  <2>3. CASE ~ (j < k)
    <3>1. j - (k - 1) \in 1 .. n - k /\ j - (k - 1) + k = j + 1
      BY <1>1, <2>1, <2>3
    <3>2. b[j - (k - 1)] = s[j + 1]
      BY <1>4, <3>1
    <3> QED BY <1>1, <1>6, <2>1, <2>3, <3>2
  <2> QED BY <2>2, <2>3
<1>8. t = [j \in 1 .. n - 1 |-> t[j]]
  BY <1>1, <1>6, LenProperties
<1>9. n - 1 \in Nat
  BY <1>1
<1>10. IsSequence(t) /\ Len(t) = n - 1 /\ DOMAIN t = 1 .. n - 1
  BY <1>8, <1>9, AsSequence
<1> QED BY <1>7, <1>10 DEF t, n

-----------------------------------------------------------------------------
(* Rows                                                                    *)

\* What the changes make of a row.
Edited(row, c) == [row EXCEPT !.content = c]
Rehashed(row, c, h) == [row EXCEPT !.content = c, !.record_hash = h]
Relinked(row, h) == [row EXCEPT !.prev_hash = h]
Renumbered(row, i) == [row EXCEPT !.id = i]

\* It still has no MAC of the audit key that append did not make.
LEMMA ChangedRows ==
    ASSUME NEW row, GoodRow(row)
    PROVE  /\ \A c \in Contents : GoodRow(Edited(row, c)) /\ Edited(row, c).id = row.id
           /\ \A c \in Contents : \A h :
                 GoodRow(Rehashed(row, c, h)) /\ Rehashed(row, c, h).id = row.id
           /\ \A h : GoodRow(Relinked(row, h)) /\ Relinked(row, h).id = row.id
           /\ \A i \in Nat \ {0} : GoodRow(Renumbered(row, i)) /\ Renumbered(row, i).id = i
<1>1. PICK id, content, prev, hash, mac :
         row = [ id |-> id, content |-> content, prev_hash |-> prev,
                 record_hash |-> hash, record_mac |-> mac ]
  BY DEF GoodRow, IsRow
<1>2. /\ id \in Nat \ {0} /\ content \in Contents
      /\ mac[1] = AuditKey => \E s \in sealed : mac = s.record_mac
  BY <1>1 DEF GoodRow
<1>3. \A i2 \in Nat \ {0}, c2 \in Contents :
         \A p2, h2 :
            GoodRow([ id |-> i2, content |-> c2, prev_hash |-> p2,
                      record_hash |-> h2, record_mac |-> mac ])
  BY <1>2 DEF GoodRow, IsRow
<1> SUFFICES ASSUME NEW c \in Contents, NEW h, NEW i \in Nat \ {0}
             PROVE  /\ GoodRow(Edited(row, c)) /\ Edited(row, c).id = row.id
                    /\ GoodRow(Rehashed(row, c, h)) /\ Rehashed(row, c, h).id = row.id
                    /\ GoodRow(Relinked(row, h)) /\ Relinked(row, h).id = row.id
                    /\ GoodRow(Renumbered(row, i)) /\ Renumbered(row, i).id = i
  <2>1. content \in Contents /\ 1 \in Nat \ {0}
    BY <1>2
  <2> QED BY <2>1
<1>4. [row EXCEPT !.content = c] = [ id |-> id, content |-> c, prev_hash |-> prev,
                                     record_hash |-> hash, record_mac |-> mac ]
  BY <1>1
<1>6. [row EXCEPT !.content = c, !.record_hash = h] =
         [ id |-> id, content |-> c, prev_hash |-> prev,
           record_hash |-> h, record_mac |-> mac ]
  <2> DEFINE edited == [row EXCEPT !.content = c]
  <2>1. [row EXCEPT !.content = c, !.record_hash = h] = [edited EXCEPT !.record_hash = h]
    BY <1>1
  <2>2. edited = [ id |-> id, content |-> c, prev_hash |-> prev,
                   record_hash |-> hash, record_mac |-> mac ]
    BY <1>4
  <2> HIDE DEF edited
  <2>3. [edited EXCEPT !.record_hash = h] =
           [ id |-> id, content |-> c, prev_hash |-> prev,
             record_hash |-> h, record_mac |-> mac ]
    BY <2>2
  <2> QED BY <2>1, <2>3
<1>7. [row EXCEPT !.prev_hash = h] = [ id |-> id, content |-> content, prev_hash |-> h,
                                       record_hash |-> hash, record_mac |-> mac ]
  BY <1>1
<1>8. [row EXCEPT !.id = i] = [ id |-> i, content |-> content, prev_hash |-> prev,
                                record_hash |-> hash, record_mac |-> mac ]
  BY <1>1
<1>9. GoodRow(Edited(row, c)) /\ Edited(row, c).id = row.id
  BY <1>1, <1>2, <1>3, <1>4 DEF Edited
<1>10. GoodRow(Rehashed(row, c, h)) /\ Rehashed(row, c, h).id = row.id
  BY <1>1, <1>2, <1>3, <1>6 DEF Rehashed
<1>11. GoodRow(Relinked(row, h)) /\ Relinked(row, h).id = row.id
  BY <1>1, <1>2, <1>3, <1>7 DEF Relinked
<1>12. GoodRow(Renumbered(row, i)) /\ Renumbered(row, i).id = i
  BY <1>1, <1>2, <1>3, <1>8 DEF Renumbered
<1> QED BY <1>9, <1>10, <1>11, <1>12

LEMMA ForgedRows ==
    ASSUME NEW c \in Contents, NEW h, NEW i \in Nat \ {0}
    PROVE  GoodRow(Seal(OtherKey, i, c, h)) /\ Seal(OtherKey, i, c, h).id = i
BY DEF GoodRow, IsRow, Seal, Mac

\* A row append wrote is good, and stays good.
LEMMA SealedRows ==
    ASSUME SealedInv
    PROVE  \A s \in sealed : GoodRow(s) /\ s.record_mac = <<AuditKey, s.record_hash>>
<1> SUFFICES ASSUME NEW s \in sealed
             PROVE  GoodRow(s) /\ s.record_mac = <<AuditKey, s.record_hash>>
  OBVIOUS
<1>1. PICK id, content, prev :
         s = Seal(AuditKey, id, content, prev) /\ id \in Nat \ {0} /\ content \in Contents
  BY DEF SealedInv
<1>2. IsRow(s) /\ s.id = id /\ s.content = content
        /\ s.record_mac = <<AuditKey, s.record_hash>>
  BY <1>1 DEF IsRow, Seal, Mac
<1> QED BY <1>1, <1>2 DEF GoodRow

LEMMA GoodStaysGood ==
    ASSUME NEW row, GoodRow(row), sealed \subseteq sealed'
    PROVE  GoodRow(row)'
BY DEF GoodRow, IsRow

-----------------------------------------------------------------------------
(* The invariant                                                           *)

LEMMA IntegrityInit == Init => IntegrityInv
<1> SUFFICES ASSUME Init PROVE IntegrityInv
  OBVIOUS
<1>1. IsSequence(<< >>) /\ Len(<< >>) = 0 /\ DOMAIN << >> = {}
  <2>1. << >> = [k \in 1 .. 0 |-> << >>[k]]
    OBVIOUS
  <2>2. 1 .. 0 = {}
    OBVIOUS
  <2> QED BY <2>1, <2>2, AsSequence
<1> QED BY <1>1 DEF Init, IntegrityInv, SealedInv, TableInv, VersionsInv, AnchorInv

\* A change that leaves the store alone keeps the invariant if the rows it
\* leaves are good, with increasing ids that are not too high.
LEMMA ChangeKeepsInv ==
    ASSUME IntegrityInv,
           changes < MaxChanges, changes' = changes + 1,
           UNCHANGED <<store, sealed, versions, anchor>>,
           IsSequence(table'), Len(table') <= MaxRows,
           \A k \in DOMAIN table' : GoodRow(table'[k]),
           \A k \in DOMAIN table' : table'[k].id <= Len(table') + changes + 1,
           \A j, k \in DOMAIN table' : j < k => table'[j].id < table'[k].id,
           table' # << >> => sealed # {}
    PROVE  IntegrityInv'
<1>1. SealedInv' /\ VersionsInv' /\ AnchorInv'
  BY DEF IntegrityInv, SealedInv, VersionsInv, AnchorInv, IsSequence
<1>2. changes \in 0 .. MaxChanges
  BY DEF IntegrityInv, TableInv
<1>3. changes' \in 0 .. MaxChanges
  BY <1>2
<1>4. \A k \in DOMAIN table' : GoodRow(table[k])'
  BY DEF GoodRow, IsRow
<1>5. \A k \in DOMAIN table' : table'[k].id <= Len(table') + changes'
  <2>1. SUFFICES ASSUME NEW k \in DOMAIN table' PROVE table'[k].id <= Len(table') + changes'
    OBVIOUS
  <2>2. table'[k].id <= Len(table') + changes + 1 /\ Len(table') \in Nat
    BY <2>1, LengthFacts
  <2> QED BY <1>2, <2>2
<1>6. IsSequence(table)'
  BY DEF IsSequence
<1>7. TableInv'
  BY <1>3, <1>4, <1>5, <1>6 DEF TableInv
<1> QED BY <1>1, <1>7 DEF IntegrityInv

\* ... in particular if every place keeps its id.
LEMMA PlacesKept ==
    ASSUME IntegrityInv,
           changes < MaxChanges, changes' = changes + 1,
           UNCHANGED <<store, sealed, versions, anchor>>,
           table' = [k \in DOMAIN table |-> table'[k]],
           \A k \in DOMAIN table : GoodRow(table'[k]) /\ table'[k].id = table[k].id
    PROVE  IntegrityInv'
<1>1. /\ IsSequence(table) /\ Len(table) <= MaxRows /\ changes \in 0 .. MaxChanges
      /\ \A k \in DOMAIN table : GoodRow(table[k]) /\ table[k].id <= Len(table) + changes
      /\ \A j, k \in DOMAIN table : j < k => table[j].id < table[k].id
      /\ table # << >> => sealed # {}
  BY DEF IntegrityInv, TableInv
<1>2. Len(table) \in Nat /\ DOMAIN table = 1 .. Len(table) /\ (table = << >> <=> Len(table) = 0)
  BY <1>1, LengthFacts
<1>3. IsSequence(table') /\ Len(table') = Len(table) /\ DOMAIN table' = DOMAIN table
  BY <1>2, AsSequence
<1>4. table' # << >> => sealed # {}
  BY <1>1, <1>2, <1>3, LengthFacts
<1>5. \A k \in DOMAIN table' : table'[k].id <= Len(table') + changes + 1
  <2>1. SUFFICES ASSUME NEW k \in DOMAIN table PROVE table[k].id <= Len(table) + changes + 1
    BY <1>3
  <2>2. table[k].id <= Len(table) + changes /\ table[k].id \in Nat
    BY <1>1, <2>1 DEF GoodRow
  <2> QED BY <1>1, <1>2, <2>2
<1>6. \A j, k \in DOMAIN table' : j < k => table'[j].id < table'[k].id
  BY <1>1, <1>3
<1>7. \A k \in DOMAIN table' : GoodRow(table'[k])
  BY <1>3
<1>8. Len(table') <= MaxRows
  BY <1>1, <1>3
<1> QED BY <1>3, <1>4, <1>5, <1>6, <1>7, <1>8, ChangeKeepsInv

\* A change puts a row in one place.
LEMMA OneRowChanged ==
    ASSUME IntegrityInv, NEW k \in DOMAIN table, NEW row, GoodRow(row), row.id = table[k].id,
           Change([table EXCEPT ![k] = row])
    PROVE  IntegrityInv'
<1>1. /\ changes < MaxChanges /\ changes' = changes + 1
      /\ UNCHANGED <<store, sealed, versions, anchor>>
      /\ table' = [table EXCEPT ![k] = row]
  BY DEF Change
<1>2. /\ table' = [j \in DOMAIN table |-> table'[j]]
      /\ \A j \in DOMAIN table : table'[j] = IF j = k THEN row ELSE table[j]
  <2>1. table = [j \in DOMAIN table |-> table[j]]
    <3>1. Len(table) \in Nat /\ DOMAIN table = 1 .. Len(table)
      BY LengthFacts DEF IntegrityInv, TableInv
    <3> QED BY LenProperties DEF IntegrityInv, TableInv, IsSequence
  <2> QED BY <1>1, <2>1
<1>3. \A j \in DOMAIN table : GoodRow(table[j])
  BY DEF IntegrityInv, TableInv
<1>4. \A j \in DOMAIN table : GoodRow(table'[j]) /\ table'[j].id = table[j].id
  BY <1>2, <1>3
<1> QED BY <1>1, <1>2, <1>4, PlacesKept

LEMMA EditKeepsInv ==
    ASSUME IntegrityInv, EditRow \/ RelinkRow \/ BringBackRow
    PROVE  IntegrityInv'
<1>0. \A k \in DOMAIN table : GoodRow(table[k]) /\ table[k].id \in Nat \ {0}
  BY DEF IntegrityInv, TableInv, GoodRow
<1>1. CASE EditRow
  <2>1. PICK k \in DOMAIN table : \E row \in EditedRows(table[k]) :
           Change([table EXCEPT ![k] = row])
    BY <1>1 DEF EditRow
  <2>2. PICK row \in EditedRows(table[k]) : Change([table EXCEPT ![k] = row])
    BY <2>1
  <2>3. PICK r : r = table[k] /\ GoodRow(r) /\ r.id \in Nat \ {0}
    BY <1>0
  <2>4. PICK c \in Contents :
           row \in { [r EXCEPT !.content = c],
                     [r EXCEPT !.content = c,
                               !.record_hash = RecordHash(r.id, c, r.prev_hash)],
                     Seal(OtherKey, r.id, c, r.prev_hash) }
    BY <2>2, <2>3 DEF EditedRows
  <2>5. GoodRow(row) /\ row.id = r.id
    <3>1. PICK h, prev, i :
             i \in Nat \ {0} /\ h = RecordHash(r.id, c, r.prev_hash) /\ prev = r.prev_hash /\ i = r.id
      BY <2>3
    <3>2. /\ GoodRow(Edited(r, c)) /\ Edited(r, c).id = r.id
          /\ GoodRow(Rehashed(r, c, h)) /\ Rehashed(r, c, h).id = r.id
      BY <2>3, ChangedRows
    <3>3. GoodRow(Seal(OtherKey, i, c, prev)) /\ Seal(OtherKey, i, c, prev).id = i
      BY <3>1, ForgedRows
    <3>4. row \in {Edited(r, c), Rehashed(r, c, h), Seal(OtherKey, i, c, prev)}
      BY <2>4, <3>1 DEF Edited, Rehashed
    <3> QED BY <3>1, <3>2, <3>3, <3>4
  <2> QED BY <2>2, <2>3, <2>5, OneRowChanged
<1>2. CASE RelinkRow
  <2>1. PICK k \in DOMAIN table : \E prev \in {GenesisHash, ExpectedPrev(table, k)} :
           Change([table EXCEPT ![k].prev_hash = prev])
    BY <1>2 DEF RelinkRow
  <2>2. PICK prev : Change([table EXCEPT ![k].prev_hash = prev])
    BY <2>1
  <2>3. PICK r : r = table[k] /\ GoodRow(r) /\ r.id \in Nat \ {0}
    BY <1>0
  <2>4. PICK row : row = [r EXCEPT !.prev_hash = prev]
    OBVIOUS
  <2>5. GoodRow(row) /\ row.id = r.id
    <3>1. GoodRow(Relinked(r, prev)) /\ Relinked(r, prev).id = r.id
      BY <2>3, ChangedRows
    <3> QED BY <2>4, <3>1 DEF Relinked
  <2>6. [table EXCEPT ![k].prev_hash = prev] = [table EXCEPT ![k] = row]
    BY <2>3, <2>4
  <2> QED BY <2>2, <2>3, <2>5, <2>6, OneRowChanged
<1>3. CASE BringBackRow
  <2>1. PICK k \in DOMAIN table : \E row \in sealed :
           row.id = table[k].id /\ Change([table EXCEPT ![k] = row])
    BY <1>3 DEF BringBackRow
  <2>2. PICK row \in sealed : row.id = table[k].id /\ Change([table EXCEPT ![k] = row])
    BY <2>1
  <2>3. GoodRow(row)
    BY <2>2, SealedRows DEF IntegrityInv
  <2> QED BY <2>2, <2>3, OneRowChanged
<1> QED BY <1>1, <1>2, <1>3

LEMMA TableFacts ==
    ASSUME IntegrityInv
    PROVE  /\ IsSequence(table) /\ Len(table) \in Nat /\ Len(table) <= MaxRows
           /\ DOMAIN table = 1 .. Len(table) /\ (table = << >> <=> Len(table) = 0)
           /\ table = [j \in DOMAIN table |-> table[j]]
           /\ changes \in Nat /\ changes <= MaxChanges
           /\ \A k \in DOMAIN table :
                 /\ GoodRow(table[k]) /\ table[k].id \in Nat \ {0}
                 /\ table[k].id <= Len(table) + changes
           /\ \A j, k \in DOMAIN table : j < k => table[j].id < table[k].id
           /\ table # << >> => sealed # {}
<1>1. IsSequence(table) /\ Len(table) \in Nat /\ DOMAIN table = 1 .. Len(table)
  BY LengthFacts DEF IntegrityInv, TableInv
<1>2. table = [j \in DOMAIN table |-> table[j]]
  BY <1>1, LenProperties DEF IsSequence
<1> QED BY <1>1, <1>2, LengthFacts DEF IntegrityInv, TableInv, GoodRow

LEMMA SwapKeepsInv ==
    ASSUME IntegrityInv, SwapRows
    PROVE  IntegrityInv'
<1>1. PICK j, k \in DOMAIN table :
        /\ j < k
        /\ Change([table EXCEPT ![j] = [table[k] EXCEPT !.id = table[j].id],
                                ![k] = [table[j] EXCEPT !.id = table[k].id]])
  BY DEF SwapRows
<1> DEFINE a == [table[k] EXCEPT !.id = table[j].id]
           b == [table[j] EXCEPT !.id = table[k].id]
<1>2. /\ changes < MaxChanges /\ changes' = changes + 1
      /\ UNCHANGED <<store, sealed, versions, anchor>>
      /\ table' = [table EXCEPT ![j] = a, ![k] = b]
  BY <1>1 DEF Change
<1>3. GoodRow(a) /\ a.id = table[j].id /\ GoodRow(b) /\ b.id = table[k].id
  <2>1. PICK q, r : q = table[j] /\ r = table[k]
    OBVIOUS
  <2>2. GoodRow(q) /\ GoodRow(r) /\ q.id \in Nat \ {0} /\ r.id \in Nat \ {0}
    BY <2>1, TableFacts
  <2>3. /\ GoodRow(Renumbered(r, q.id)) /\ Renumbered(r, q.id).id = q.id
        /\ GoodRow(Renumbered(q, r.id)) /\ Renumbered(q, r.id).id = r.id
    BY <2>2, ChangedRows
  <2> QED BY <2>1, <2>3 DEF Renumbered
<1> HIDE DEF a, b
<1>4. /\ table' = [i \in DOMAIN table |-> table'[i]]
      /\ \A i \in DOMAIN table :
            table'[i] = IF i = k THEN b ELSE IF i = j THEN a ELSE table[i]
  <2>1. table = [i \in DOMAIN table |-> table[i]]
    BY TableFacts
  <2>2. j # k
    BY <1>1, TableFacts
  <2> QED BY <1>2, <2>1, <2>2
<1>5. \A i \in DOMAIN table : GoodRow(table'[i]) /\ table'[i].id = table[i].id
  BY <1>3, <1>4, TableFacts
<1> QED BY <1>2, <1>4, <1>5, PlacesKept

LEMMA DeleteKeepsInv ==
    ASSUME IntegrityInv, DeleteRow
    PROVE  IntegrityInv'
<1>1. PICK k \in DOMAIN table : Change(RemoveAt(table, k))
  BY DEF DeleteRow
<1> DEFINE n == Len(table)
           Old(j) == IF j < k THEN j ELSE j + 1
<1>2. /\ changes < MaxChanges /\ changes' = changes + 1
      /\ UNCHANGED <<store, sealed, versions, anchor>>
      /\ table' = RemoveAt(table, k)
  BY <1>1 DEF Change
<1>3. /\ n \in Nat /\ DOMAIN table = 1 .. n /\ n <= MaxRows /\ k \in 1 .. n
      /\ changes \in Nat
  BY TableFacts
<1>4. /\ IsSequence(table') /\ Len(table') = n - 1 /\ DOMAIN table' = 1 .. n - 1
      /\ \A j \in 1 .. n - 1 : table'[j] = table[Old(j)]
  <2>1. IsSequence(table) /\ k \in DOMAIN table
    BY TableFacts
  <2>2. /\ IsSequence(RemoveAt(table, k))
        /\ Len(RemoveAt(table, k)) = Len(table) - 1
        /\ DOMAIN RemoveAt(table, k) = 1 .. Len(table) - 1
        /\ \A j \in 1 .. Len(table) - 1 :
              RemoveAt(table, k)[j] = table[IF j < k THEN j ELSE j + 1]
    BY <2>1, RemoveRow
  <2> QED BY <1>2, <2>2
<1>5. \A j \in 1 .. n - 1 : Old(j) \in 1 .. n
  BY <1>3
<1>6. \A i, j \in 1 .. n - 1 : i < j => Old(i) < Old(j)
  BY <1>3
<1> HIDE DEF Old, n
<1>7. \A j \in DOMAIN table' : GoodRow(table'[j])
  BY <1>3, <1>4, <1>5, TableFacts
<1>8. \A j \in DOMAIN table' : table'[j].id <= Len(table') + changes + 1
  <2>1. SUFFICES ASSUME NEW j \in 1 .. n - 1 PROVE table'[j].id <= n - 1 + changes + 1
    BY <1>4
  <2>2. table[Old(j)].id <= n + changes /\ table[Old(j)].id \in Nat
    BY <1>3, <1>5, <2>1, TableFacts DEF n
  <2> QED BY <1>3, <1>4, <2>1, <2>2
<1>9. \A i, j \in DOMAIN table' : i < j => table'[i].id < table'[j].id
  <2>1. SUFFICES ASSUME NEW i \in 1 .. n - 1, NEW j \in 1 .. n - 1, i < j
                 PROVE  table[Old(i)].id < table[Old(j)].id
    BY <1>4
  <2>2. Old(i) \in DOMAIN table /\ Old(j) \in DOMAIN table /\ Old(i) < Old(j)
    BY <1>3, <1>5, <1>6, <2>1
  <2> QED BY <2>2, TableFacts
<1>10. Len(table') <= MaxRows
  BY <1>3, <1>4
<1>11. sealed # {}
  BY <1>3, TableFacts DEF n
<1> QED BY <1>2, <1>4, <1>7, <1>8, <1>9, <1>10, <1>11, ChangeKeepsInv

\* The next id is one above the newest.
LEMMA NextIdFacts ==
    ASSUME IntegrityInv
    PROVE  /\ TailOf(table).next_id \in Nat \ {0}
           /\ TailOf(table).next_id <= Len(table) + 1 + changes
           /\ \A k \in DOMAIN table : table[k].id < TailOf(table).next_id
<1>0. Len(table) \in Nat /\ DOMAIN table = 1 .. Len(table) /\ changes \in Nat
  BY TableFacts
<1>1. CASE table = << >>
  <2>1. TailOf(table).next_id = 1 /\ Len(table) = 0
    BY <1>1, TableFacts DEF TailOf
  <2> QED BY <1>0, <2>1
<1>2. CASE table # << >>
  <2>1. Len(table) \in DOMAIN table
    BY <1>0, <1>2, TableFacts
  <2>2. PICK last \in Nat \ {0} : last = table[Len(table)].id
    BY <2>1, TableFacts
  <2>3. TailOf(table).next_id = last + 1
    BY <1>2, <2>2 DEF TailOf
  <2>4. last <= Len(table) + changes
    BY <2>1, <2>2, TableFacts
  <2>5. \A k \in DOMAIN table : table[k].id \in Nat /\ table[k].id <= last
    <3>1. SUFFICES ASSUME NEW k \in DOMAIN table PROVE table[k].id \in Nat /\ table[k].id <= last
      OBVIOUS
    <3>2. table[k].id \in Nat
      BY <3>1, TableFacts
    <3>3. k = Len(table) \/ k < Len(table)
      BY <1>0, <3>1
    <3>4. k < Len(table) => table[k].id < last
      BY <2>1, <2>2, <3>1, TableFacts
    <3> QED BY <2>2, <3>2, <3>3, <3>4
  <2> QED BY <1>0, <2>2, <2>3, <2>4, <2>5
<1> QED BY <1>1, <1>2

\* A row at the end, under the next id, keeps the table in order.
LEMMA AppendKeepsOrder ==
    ASSUME IntegrityInv, NEW row, row.id = TailOf(table).next_id,
           table' = Append(table, row), Len(table) < MaxRows
    PROVE  /\ IsSequence(table') /\ Len(table') = Len(table) + 1 /\ Len(table') <= MaxRows
           /\ DOMAIN table' = 1 .. Len(table) + 1
           /\ \A k \in DOMAIN table : table'[k] = table[k]
           /\ table'[Len(table) + 1] = row
           /\ \A j, k \in DOMAIN table' : j < k => table'[j].id < table'[k].id
           /\ \A k \in DOMAIN table' : table'[k].id <= Len(table') + changes
<1> DEFINE n == Len(table)
<1>1. /\ n \in Nat /\ DOMAIN table = 1 .. n /\ n + 1 <= MaxRows /\ changes \in Nat
      /\ \A k \in 1 .. n : table[k].id \in Nat /\ table[k].id <= n + changes
      /\ \A j, k \in 1 .. n : j < k => table[j].id < table[k].id
  BY TableFacts
<1>2. /\ IsSequence(table') /\ Len(table') = n + 1 /\ DOMAIN table' = 1 .. n + 1
      /\ \A k \in 1 .. n : table'[k] = table[k]
      /\ table'[n + 1] = row
  BY TableFacts, AppendRow
<1>3. row.id \in Nat /\ row.id <= n + 1 + changes /\ \A k \in 1 .. n : table[k].id < row.id
  BY <1>1, NextIdFacts
<1> HIDE DEF n
<1>4. \A j, k \in 1 .. n + 1 : j < k => table'[j].id < table'[k].id
  <2>1. SUFFICES ASSUME NEW j \in 1 .. n + 1, NEW k \in 1 .. n + 1, j < k
                 PROVE  table'[j].id < table'[k].id
    OBVIOUS
  <2>2. j \in 1 .. n /\ (k \in 1 .. n \/ k = n + 1)
    BY <1>1, <2>1
  <2> QED BY <1>1, <1>2, <1>3, <2>1, <2>2
<1>5. \A k \in 1 .. n + 1 : table'[k].id <= n + 1 + changes
  <2>1. SUFFICES ASSUME NEW k \in 1 .. n + 1 PROVE table'[k].id <= n + 1 + changes
    OBVIOUS
  <2>2. k \in 1 .. n \/ k = n + 1
    BY <1>1, <2>1
  <2>3. k \in 1 .. n => table[k].id \in Nat /\ table[k].id <= n + changes
    BY <1>1
  <2> QED BY <1>1, <1>2, <1>3, <2>2, <2>3
<1> QED BY <1>1, <1>2, <1>4, <1>5 DEF n

LEMMA DuplicateKeepsInv ==
    ASSUME IntegrityInv, DuplicateRow
    PROVE  IntegrityInv'
<1>1. PICK k \in DOMAIN table :
         /\ Len(table) < MaxRows
         /\ Change(Append(table, [table[k] EXCEPT !.id = TailOf(table).next_id]))
  BY DEF DuplicateRow
<1>2. PICK row : row = [table[k] EXCEPT !.id = TailOf(table).next_id]
  OBVIOUS
<1>3. /\ changes < MaxChanges /\ changes' = changes + 1
      /\ UNCHANGED <<store, sealed, versions, anchor>>
      /\ table' = Append(table, row)
  BY <1>1, <1>2 DEF Change
<1>4. GoodRow(row) /\ row.id = TailOf(table).next_id
  <2>1. PICK r, i : r = table[k] /\ i = TailOf(table).next_id
    OBVIOUS
  <2>2. GoodRow(r) /\ i \in Nat \ {0}
    BY <2>1, TableFacts, NextIdFacts
  <2>3. GoodRow(Renumbered(r, i)) /\ Renumbered(r, i).id = i
    BY <2>2, ChangedRows
  <2> QED BY <1>2, <2>1, <2>3 DEF Renumbered
<1>5. /\ IsSequence(table') /\ Len(table') = Len(table) + 1 /\ Len(table') <= MaxRows
      /\ DOMAIN table' = 1 .. Len(table) + 1
      /\ \A j \in DOMAIN table : table'[j] = table[j]
      /\ table'[Len(table) + 1] = row
      /\ \A i, j \in DOMAIN table' : i < j => table'[i].id < table'[j].id
      /\ \A j \in DOMAIN table' : table'[j].id <= Len(table') + changes
  BY <1>1, <1>3, <1>4, AppendKeepsOrder
<1>6. \A j \in DOMAIN table' : GoodRow(table'[j])
  <2>1. \A j \in DOMAIN table' : j \in DOMAIN table \/ j = Len(table) + 1
    BY <1>5, TableFacts
  <2> QED BY <1>4, <1>5, <2>1, TableFacts
<1>7. \A j \in DOMAIN table' : table'[j].id <= Len(table') + changes + 1
  <2>1. SUFFICES ASSUME NEW j \in DOMAIN table' PROVE table'[j].id <= Len(table') + changes + 1
    OBVIOUS
  <2>2. table'[j].id \in Nat /\ table'[j].id <= Len(table') + changes
    BY <1>5, <1>6, <2>1 DEF GoodRow
  <2>3. Len(table') \in Nat /\ changes \in Nat
    BY <1>5, TableFacts
  <2> QED BY <2>2, <2>3
<1>8. sealed # {}
  BY <1>1, TableFacts
<1> QED BY <1>3, <1>5, <1>6, <1>7, <1>8, ChangeKeepsInv

LEMMA RestoreKeepsInv ==
    ASSUME IntegrityInv, RestoreCopy
    PROVE  IntegrityInv'
<1>1. PICK copy \in versions : Change(copy)
  BY DEF RestoreCopy
<1>2. /\ changes < MaxChanges /\ changes' = changes + 1
      /\ UNCHANGED <<store, sealed, versions, anchor>>
      /\ table' = copy
  BY <1>1 DEF Change
<1>3. /\ IsSequence(copy) /\ Len(copy) <= MaxRows
      /\ \A k \in DOMAIN copy : copy[k] \in sealed /\ copy[k].id = k
  BY <1>1 DEF IntegrityInv, VersionsInv
<1>4. Len(copy) \in Nat /\ DOMAIN copy = 1 .. Len(copy) /\ (copy = << >> <=> Len(copy) = 0)
  BY <1>3, LengthFacts
<1>5. \A k \in DOMAIN copy : GoodRow(copy[k])
  BY <1>3, SealedRows DEF IntegrityInv
<1>6. \A k \in DOMAIN copy : copy[k].id <= Len(copy) + changes + 1
  BY <1>3, <1>4, TableFacts
<1>7. \A j, k \in DOMAIN copy : j < k => copy[j].id < copy[k].id
  BY <1>3
<1>8. copy # << >> => sealed # {}
  <2>1. SUFFICES ASSUME copy # << >> PROVE sealed # {}
    OBVIOUS
  <2>2. 1 \in DOMAIN copy
    BY <1>4, <2>1
  <2> QED BY <1>3, <2>2
<1> QED BY <1>2, <1>3, <1>5, <1>6, <1>7, <1>8, ChangeKeepsInv

\* append seals its row onto the tail, whatever the table has become.
LEMMA SealKeepsInv ==
    ASSUME IntegrityInv, NEW c \in Contents, AppendSealed(c)
    PROVE  IntegrityInv'
<1>0. PICK row : row = Seal(AuditKey, TailOf(table).next_id, c, TailOf(table).prev_hash)
  OBVIOUS
<1>1. /\ Len(table) < MaxRows /\ table' = Append(table, row)
      /\ sealed' = sealed \cup {row} /\ changes' = changes
      /\ versions' = IF table \in versions THEN versions \cup {table'} ELSE versions
      /\ \/ store' = CheckpointOf(row) /\ anchor' = <<row>>
         \/ UNCHANGED <<store, anchor>>
  BY <1>0 DEF AppendSealed
<1>2. /\ row.id = TailOf(table).next_id /\ row.content = c
      /\ row.prev_hash = TailOf(table).prev_hash
      /\ row = Seal(AuditKey, row.id, row.content, row.prev_hash)
      /\ row.id \in Nat \ {0}
  BY <1>0, NextIdFacts DEF Seal
<1>3. SealedInv'
  <2>1. \A s \in sealed' : s \in sealed \/ s = row
    BY <1>1
  <2>2. SealedInv
    BY DEF IntegrityInv
  <2> QED BY <1>2, <2>1, <2>2 DEF SealedInv
<1>4. /\ IsSequence(table') /\ Len(table') = Len(table) + 1 /\ Len(table') <= MaxRows
      /\ DOMAIN table' = 1 .. Len(table) + 1
      /\ \A k \in DOMAIN table : table'[k] = table[k]
      /\ table'[Len(table) + 1] = row
      /\ \A j, k \in DOMAIN table' : j < k => table'[j].id < table'[k].id
      /\ \A k \in DOMAIN table' : table'[k].id <= Len(table') + changes
  BY <1>1, <1>2, AppendKeepsOrder
<1>5. \A k \in DOMAIN table' : k \in DOMAIN table \/ k = Len(table) + 1
  BY <1>4, TableFacts
<1>6. \A k \in DOMAIN table' : GoodRow(table[k])'
  <2>1. sealed \subseteq sealed' /\ row \in sealed'
    BY <1>1
  <2>2. GoodRow(row)'
    BY <1>2, <2>1 DEF GoodRow, IsRow, Seal
  <2>3. \A r : GoodRow(r) => GoodRow(r)'
    BY <2>1, GoodStaysGood
  <2>4. \A k \in DOMAIN table : GoodRow(table[k])
    BY TableFacts
  <2>5. SUFFICES ASSUME NEW k \in DOMAIN table' PROVE GoodRow(table[k])'
    OBVIOUS
  <2>6. PICK r : r = table'[k]
    OBVIOUS
  <2>7. GoodRow(r)'
    BY <1>4, <1>5, <2>2, <2>3, <2>4, <2>5, <2>6
  <2> QED BY <2>6, <2>7 DEF GoodRow, IsRow
<1>7. TableInv'
  <2>1. IsSequence(table)'
    BY <1>4 DEF IsSequence
  <2>2. changes' \in 0 .. MaxChanges
    BY <1>1, TableFacts
  <2>3. sealed' # {}
    BY <1>1
  <2> QED BY <1>1, <1>4, <1>6, <2>1, <2>2, <2>3 DEF TableInv
<1>8. VersionsInv'
  <2>1. SUFFICES ASSUME NEW copy \in versions'
                 PROVE  /\ IsSequence(copy) /\ Len(copy) <= MaxRows
                        /\ \A k \in DOMAIN copy : copy[k] \in sealed' /\ copy[k].id = k
    BY DEF VersionsInv, IsSequence
  <2>2. CASE copy \in versions
    BY <1>1, <2>2 DEF IntegrityInv, VersionsInv
  <2>3. CASE copy \notin versions
    <3>1. table \in versions /\ copy = table'
      BY <1>1, <2>1, <2>3
    <3>2. \A k \in DOMAIN table : table[k] \in sealed /\ table[k].id = k
      BY <3>1 DEF IntegrityInv, VersionsInv
    <3>3. row.id = Len(table) + 1
      <4>1. CASE table = << >>
        <5>1. TailOf(table).next_id = 1 /\ Len(table) = 0
          BY <4>1, TableFacts DEF TailOf
        <5> QED BY <1>2, <5>1
      <4>2. CASE table # << >>
        <5>1. Len(table) \in DOMAIN table
          BY <4>2, TableFacts
        <5>2. TailOf(table).next_id = table[Len(table)].id + 1
          BY <4>2 DEF TailOf
        <5> QED BY <1>2, <3>2, <5>1, <5>2
      <4> QED BY <4>1, <4>2
    <3>4. \A k \in DOMAIN table' : table'[k] \in sealed' /\ table'[k].id = k
      BY <1>1, <1>4, <1>5, <3>2, <3>3
    <3> QED BY <1>4, <3>1, <3>4
  <2> QED BY <2>2, <2>3
<1>9. AnchorInv'
  BY <1>1 DEF IntegrityInv, AnchorInv
<1> QED BY <1>3, <1>7, <1>8, <1>9 DEF IntegrityInv

LEMMA IntegrityStep == IntegrityInv /\ [Next]_vars => IntegrityInv'
<1> SUFFICES ASSUME IntegrityInv, [Next]_vars PROVE IntegrityInv'
  OBVIOUS
<1>1. ASSUME NEW c \in Contents, AppendSealed(c) PROVE IntegrityInv'
  BY <1>1, SealKeepsInv
<1>2. CASE EditRow \/ RelinkRow \/ BringBackRow
  BY <1>2, EditKeepsInv
<1>3. CASE DeleteRow
  BY <1>3, DeleteKeepsInv
<1>4. CASE SwapRows
  BY <1>4, SwapKeepsInv
<1>5. CASE DuplicateRow
  BY <1>5, DuplicateKeepsInv
<1>6. CASE RestoreCopy
  BY <1>6, RestoreKeepsInv
<1>7. CASE UNCHANGED vars
  BY <1>7 DEF vars, IntegrityInv, SealedInv, TableInv, VersionsInv, AnchorInv,
              GoodRow, IsSequence
<1> QED BY <1>1, <1>2, <1>3, <1>4, <1>5, <1>6, <1>7 DEF Next

\* The invariant holds of every sequence of appends and changes.
THEOREM IntegrityInvariance == Spec => []IntegrityInv
<1>1. Init => IntegrityInv
  BY IntegrityInit
<1>2. IntegrityInv /\ [Next]_vars => IntegrityInv'
  BY IntegrityStep
<1> QED BY <1>1, <1>2, PTL DEF Spec

\* Rows are rows of at most MaxRows + MaxChanges ids, in increasing order.
THEOREM TablesAreTyped == Spec => []TypeOK
<1>1. IntegrityInv => TypeOK
  <2> SUFFICES ASSUME IntegrityInv PROVE TypeOK
    OBVIOUS
  <2>1. \A k \in DOMAIN table :
           table[k].content \in Contents /\ table[k].id \in 1 .. MaxRows + MaxChanges
    <3>1. SUFFICES ASSUME NEW k \in DOMAIN table
                   PROVE  table[k].content \in Contents /\ table[k].id \in 1 .. MaxRows + MaxChanges
      OBVIOUS
    <3>2. PICK n \in Nat, m \in Nat : n = Len(table) /\ m = changes
      BY TableFacts
    <3>3. /\ table[k].id \in Nat \ {0} /\ table[k].id <= n + m
          /\ n <= MaxRows /\ m <= MaxChanges /\ GoodRow(table[k])
      BY <3>1, <3>2, TableFacts
    <3>4. table[k].id \in 1 .. MaxRows + MaxChanges
      BY <3>2, <3>3
    <3> QED BY <3>3, <3>4 DEF GoodRow
  <2>2. sealed = {} => Range(table) = {}
    <3>1. SUFFICES ASSUME sealed = {} PROVE Range(table) = {}
      OBVIOUS
    <3>2. DOMAIN table = {}
      BY <3>1, TableFacts
    <3> QED BY <3>2 DEF Range
  <2> QED BY <2>1, <2>2, TableFacts DEF TypeOK
<1> QED BY <1>1, IntegrityInvariance, PTL

-----------------------------------------------------------------------------
(* What a verification concludes                                           *)

\* Two rows append wrote have the same MAC only if they are the same row.
LEMMA MacNamesRow ==
    ASSUME SealedInv, NEW a \in sealed, NEW b \in sealed, a.record_mac = b.record_mac
    PROVE  a = b
<1>1. PICK ai, ac, ap : a = Seal(AuditKey, ai, ac, ap)
  BY DEF SealedInv
<1>2. PICK bi, bc, bp : b = Seal(AuditKey, bi, bc, bp)
  BY DEF SealedInv
<1>3. a.record_mac = <<AuditKey, <<ai, ac, ap>>>> /\ b.record_mac = <<AuditKey, <<bi, bc, bp>>>>
  BY <1>1, <1>2 DEF Seal, Mac, RecordHash
<1>4. <<ai, ac, ap>> = <<bi, bc, bp>>
  <2>1. PICK x, y : x = <<ai, ac, ap>> /\ y = <<bi, bc, bp>>
    OBVIOUS
  <2>2. <<AuditKey, x>> = <<AuditKey, y>>
    BY <1>3, <2>1
  <2>3. x = y
    BY <2>2
  <2> QED BY <2>1, <2>3
<1>5. ai = bi /\ ac = bc /\ ap = bp
  BY <1>4
<1> QED BY <1>1, <1>2, <1>5

\* A row that passes the four checks of verify_chain is one append wrote.
LEMMA PassedIsSealed ==
    ASSUME IntegrityInv, NEW k \in DOMAIN table, RowOk(AuditKey, table, k)
    PROVE  table[k] \in sealed /\ table[k].id = k
<1>1. PICK r : r = table[k]
  OBVIOUS
<1>2. /\ r.id = k
      /\ r.record_hash = <<r.id, r.content, r.prev_hash>>
      /\ r.record_mac = <<AuditKey, r.record_hash>>
  BY <1>1 DEF RowOk, RecordHash, Mac
<1>3. GoodRow(r)
  BY <1>1, TableFacts
<1>4. r.record_mac[1] = AuditKey
  BY <1>2
<1>5. PICK s \in sealed : r.record_mac = s.record_mac
  BY <1>3, <1>4 DEF GoodRow
<1>6. PICK id, content, prev : s = Seal(AuditKey, id, content, prev)
  BY DEF IntegrityInv, SealedInv
<1>7. s = [ id |-> id, content |-> content, prev_hash |-> prev,
            record_hash |-> <<id, content, prev>>,
            record_mac |-> <<AuditKey, <<id, content, prev>>>> ]
  BY <1>6 DEF Seal, Mac, RecordHash
<1>8. <<AuditKey, r.record_hash>> = <<AuditKey, <<id, content, prev>>>>
  BY <1>2, <1>5, <1>7
<1>9. r.record_hash = <<id, content, prev>>
  BY <1>8
<1>10. <<r.id, r.content, r.prev_hash>> = <<id, content, prev>>
  BY <1>2, <1>9
<1>11. r.id = id /\ r.content = content /\ r.prev_hash = prev
  BY <1>10
<1>12. r = [ id |-> r.id, content |-> r.content, prev_hash |-> r.prev_hash,
             record_hash |-> r.record_hash, record_mac |-> r.record_mac ]
  BY <1>3 DEF GoodRow, IsRow
<1>13. r.record_mac = <<AuditKey, <<id, content, prev>>>>
  BY <1>2, <1>9
<1>14. r = s
  BY ONLY <1>7, <1>9, <1>11, <1>12, <1>13
<1> QED BY <1>1, <1>2, <1>14

LEMMA LeastElement ==
    ASSUME NEW S, S \subseteq Nat, S # {}
    PROVE  \E k \in S : \A j \in S : k <= j
<1> DEFINE R == OpToRel(<, Nat)
<1>1. IsWellFoundedOn(R, Nat)
  BY NatLessThanWellFounded
<1>2. \A x, y \in Nat : <<y, x>> \in R <=> y < x
  BY DEF OpToRel
<1> HIDE DEF R
<1>3. PICK k \in S : \A j \in S : ~ (<<j, k>> \in R)
  BY <1>1, WFMin
<1>4. k \in Nat /\ \A j \in S : j \in Nat /\ ~ (j < k)
  BY <1>2, <1>3
<1> QED BY <1>4

\* The walk stops at the first row that fails a check.
LEMMA FirstFaultFacts ==
    ASSUME IntegrityInv, Faults(AuditKey, table) # {}
    PROVE  /\ FirstFault(AuditKey, table) \in DOMAIN table
           /\ \A j \in 1 .. FirstFault(AuditKey, table) - 1 :
                 j \in DOMAIN table /\ RowOk(AuditKey, table, j)
<1> DEFINE F == Faults(AuditKey, table)
           k == FirstFault(AuditKey, table)
<1>1. F \subseteq DOMAIN table /\ DOMAIN table = 1 .. Len(table) /\ Len(table) \in Nat
  BY TableFacts DEF Faults
<1>2. F \subseteq Nat
  BY <1>1
<1>3. \E i \in F : \A j \in F : i <= j
  BY <1>2, LeastElement
<1>4. k \in F /\ \A j \in F : k <= j
  BY <1>3 DEF FirstFault
<1>5. \A j \in 1 .. k - 1 : j \in DOMAIN table /\ j \notin F
  <2> HIDE DEF F, k
  <2> QED BY <1>1, <1>4
<1> QED BY <1>1, <1>4, <1>5 DEF Faults

\* The verdict of verify_chain on a table with rows but without a fault.
LEMMA SoundTable ==
    ASSUME NEW rows, NEW cp, rows # << >>, Faults(AuditKey, rows) = {}
    PROVE  VerifyChain(AuditKey, rows, cp) = VerifyTail(rows, cp)
BY DEF VerifyChain

\* Every row the walk passes is one append wrote, in its place, whatever edits,
\* copies, swaps and removals came before and in between.
LEMMA WalkPassesGenuine == IntegrityInv => PassedRowsAreGenuine
<1> SUFFICES ASSUME IntegrityInv, NEW k \in PassedRows(Internal)
             PROVE  table[k] \in sealed /\ table[k].id = k
  BY DEF PassedRowsAreGenuine
<1>0. DOMAIN table = 1 .. Len(table) /\ Len(table) \in Nat
  BY TableFacts
<1>1. CASE table = << >>
  <2>1. Internal = Verdict("empty", 0, 0, FALSE)
    BY <1>1 DEF Internal, VerifyChain
  <2>2. PassedRows(Internal) = 1 .. 0
    BY <2>1 DEF PassedRows, Verdict
  <2> QED BY <2>2
<1>2. CASE table # << >> /\ Faults(AuditKey, table) # {}
  <2>1. PICK f : f = FirstFault(AuditKey, table)
    OBVIOUS
  <2>2. Internal = Verdict("invalid", f, table[f].id, FALSE)
    BY <1>2, <2>1 DEF Internal, VerifyChain
  <2>3. f \in DOMAIN table /\ \A j \in 1 .. f - 1 : j \in DOMAIN table /\ RowOk(AuditKey, table, j)
    BY <1>2, <2>1, FirstFaultFacts
  <2>4. table[f].id # 0
    BY <2>3, TableFacts
  <2>5. PassedRows(Internal) = 1 .. f - 1
    BY <2>2, <2>4 DEF PassedRows, Verdict
  <2> QED BY <2>3, <2>5, PassedIsSealed
<1>3. CASE table # << >> /\ Faults(AuditKey, table) = {}
  <2>1. Internal = VerifyTail(table, NoCheckpoint)
    BY <1>3, SoundTable DEF Internal
  <2>2. NoCheckpoint.last_record_id = 0
    BY DEF NoCheckpoint
  <2>3. 0 \notin Ids(table)
    BY TableFacts DEF Ids
  <2>4. NoCheckpoint \notin Checkpoints(table)
    BY <2>2, <2>3 DEF Checkpoints, CheckpointOf, Ids
  <2>5. Internal = Verdict("valid", Len(table), 0, FALSE)
    BY <2>1, <2>2, <2>3, <2>4 DEF VerifyTail
  <2>6. PassedRows(Internal) = 1 .. Len(table)
    BY <2>5 DEF PassedRows, Verdict
  <2>7. k \in DOMAIN table /\ RowOk(AuditKey, table, k)
    BY <1>0, <1>3, <2>6 DEF Faults
  <2> QED BY <2>7, PassedIsSealed
<1> QED BY <1>1, <1>2, <1>3

\* The walk of verify_chain passes a row, of a log it calls valid or of the part
\* before the fault it reports, only where append wrote it.
THEOREM ChangesStopTheWalk == Spec => []PassedRowsAreGenuine
BY IntegrityInvariance, WalkPassesGenuine, PTL

\* verify_with_store says valid only of a table without a fault that has a row
\* with the id and the MAC of the checkpoint.
LEMMA ValidHasCheckpoint ==
    ASSUME NEW rows, NEW cp, cp # NoCheckpoint,
           VerifyWithStore(AuditKey, rows, TRUE, cp).status = "valid"
    PROVE  /\ Faults(AuditKey, rows) = {}
           /\ cp \in Checkpoints(rows)
           /\ VerifyWithStore(AuditKey, rows, TRUE, cp).tail_verified
                => cp.last_record_id = rows[Len(rows)].id
<1> DEFINE v == VerifyChain(AuditKey, rows, cp)
<1>1. VerifyWithStore(AuditKey, rows, TRUE, cp) = v
  BY DEF VerifyWithStore
<1>2. v.status = "valid"
  BY <1>1
<1>3. rows # << >>
  <2>1. SUFFICES ASSUME rows = << >> PROVE FALSE
    OBVIOUS
  <2>2. v = Verdict("invalid", 0, 0, FALSE)
    BY <2>1 DEF VerifyChain
  <2>3. v.status = "invalid"
    BY <2>2 DEF Verdict
  <2> QED BY <1>2, <2>3
<1>4. Faults(AuditKey, rows) = {}
  <2>1. SUFFICES ASSUME Faults(AuditKey, rows) # {} PROVE FALSE
    OBVIOUS
  <2>2. PICK k : k = FirstFault(AuditKey, rows)
    OBVIOUS
  <2>3. v = Verdict("invalid", k, rows[k].id, FALSE)
    BY <1>3, <2>1, <2>2 DEF VerifyChain
  <2>4. v.status = "invalid"
    BY <2>3 DEF Verdict
  <2> QED BY <1>2, <2>4
<1>5. v = VerifyTail(rows, cp)
  BY <1>3, <1>4, SoundTable
<1>6. cp \in Checkpoints(rows)
  <2>1. SUFFICES ASSUME cp \notin Checkpoints(rows) PROVE FALSE
    OBVIOUS
  <2>2. PICK first : v = Verdict("invalid", Len(rows), first, FALSE)
    <3>1. CASE cp.last_record_id \notin Ids(rows)
      <4>1. VerifyTail(rows, cp) = Verdict("invalid", Len(rows), 0, FALSE)
        BY <2>1, <3>1 DEF VerifyTail
      <4> QED BY <1>5, <4>1
    <3>2. CASE cp.last_record_id \in Ids(rows)
      <4>1. VerifyTail(rows, cp) = Verdict("invalid", Len(rows), cp.last_record_id, FALSE)
        BY <2>1, <3>2 DEF VerifyTail
      <4> QED BY <1>5, <4>1
    <3> QED BY <3>1, <3>2
  <2>3. v.status = "invalid"
    BY <2>2 DEF Verdict
  <2> QED BY <1>2, <2>3
<1>7. v = Verdict("valid", Len(rows), 0, cp.last_record_id = rows[Len(rows)].id)
  <2>1. cp.last_record_id \in Ids(rows)
    BY <1>6 DEF Checkpoints, CheckpointOf, Ids
  <2> QED BY <1>5, <1>6, <2>1 DEF VerifyTail
<1>8. v.tail_verified <=> cp.last_record_id = rows[Len(rows)].id
  <2>1. PICK newest \in BOOLEAN : newest = (cp.last_record_id = rows[Len(rows)].id)
    OBVIOUS
  <2>2. v = Verdict("valid", Len(rows), 0, newest)
    BY <1>7, <2>1
  <2> HIDE DEF v
  <2>3. v.tail_verified = newest
    BY <2>2 DEF Verdict
  <2> QED BY <2>1, <2>3
<1> QED BY <1>1, <1>4, <1>6, <1>8

LEMMA ValidIsAnchored == IntegrityInv => CheckpointAnchors
<1> SUFFICES ASSUME IntegrityInv, anchor # << >>, External.status = "valid"
             PROVE  /\ Head(anchor) \in Range(table)
                    /\ External.tail_verified => Last(table) = Head(anchor)
  BY DEF CheckpointAnchors
<1>1. PICK a \in sealed : anchor = <<a>> /\ store = CheckpointOf(a)
  BY DEF IntegrityInv, AnchorInv
<1>2. Head(anchor) = a
  BY <1>1
<1>3. store # NoCheckpoint
  <2>1. a.id # 0
    BY DEF IntegrityInv, SealedInv
  <2>2. store.last_record_id = a.id /\ NoCheckpoint.last_record_id = 0
    BY <1>1 DEF CheckpointOf, NoCheckpoint
  <2> QED BY <2>1, <2>2
<1>4. /\ Faults(AuditKey, table) = {} /\ store \in Checkpoints(table)
      /\ External.tail_verified => store.last_record_id = table[Len(table)].id
  BY <1>3, ValidHasCheckpoint DEF External
<1>5. \A k \in DOMAIN table : table[k] \in sealed /\ table[k].id = k
  BY <1>4, PassedIsSealed DEF Faults
<1>6. PICK k \in DOMAIN table : store = CheckpointOf(table[k])
  BY <1>4 DEF Checkpoints
<1>7. store.last_record_id = table[k].id /\ table[k].record_mac = a.record_mac
  BY <1>1, <1>6 DEF CheckpointOf
<1>8. table[k] = a
  BY <1>5, <1>7, MacNamesRow DEF IntegrityInv
<1>9. a \in Range(table)
  BY <1>8 DEF Range
<1>10. External.tail_verified => Last(table) = a
  <2>1. SUFFICES ASSUME External.tail_verified PROVE Last(table) = a
    OBVIOUS
  <2>2. Len(table) \in DOMAIN table
    BY TableFacts
  <2>3. k = Len(table)
    BY <1>4, <1>5, <1>7, <2>1, <2>2
  <2> QED BY <1>8, <2>3 DEF Last
<1> QED BY <1>2, <1>9, <1>10

\* A verdict of valid means the row of the checkpoint is still there, and
\* tail_verified that it is the newest.
THEOREM ValidMeansAnchored == Spec => []CheckpointAnchors
BY IntegrityInvariance, ValidIsAnchored, PTL
=============================================================================
