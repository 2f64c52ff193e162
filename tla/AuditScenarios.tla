--------------------------- MODULE AuditScenarios ---------------------------
(***************************************************************************)
(* evaluation/run_audit_attack_evaluation.py: a log is filled, a           *)
(* checkpoint and perhaps a copy of the file is taken, the database is     *)
(* changed in one of the documented ways and the verifier is asked, with   *)
(* and without the checkpoint.                                             *)
(*                                                                         *)
(* The script uses five records and fixed positions; here the length, the  *)
(* position and the moment of the checkpoint vary.  It also ends where the *)
(* verifier answers; here the gateway may go on appending to the changed   *)
(* database, its checkpoint store with it.                                 *)
(***************************************************************************)
EXTENDS AuditChain, SequencesExt

CONSTANTS OtherKey,       \* the key of the verifier that has the wrong one
          MaxRecords,     \* bound on the records appended before the change
          MaxLater        \* bound on the records appended after it

ASSUME ScenarioKeys == OtherKey # AuditKey

VARIABLES
    table,        \* audit_log, ORDER BY id
    checkpoint,   \* what create_checkpoint returned, or the store's content
    snapshot,     \* the copy of the file, as a sequence of at most one table
    appended,     \* the number of records ever appended
    scenario,     \* what was done to the database, and at which record
    key,          \* the verifier's key
    later         \* the records appended since, and whether any was checkpointed

vars == <<table, checkpoint, snapshot, appended, scenario, key, later>>

None == [kind |-> "none", at |-> 0]

Init ==
    /\ table = << >> /\ checkpoint = NoCheckpoint /\ snapshot = << >>
    /\ appended = 0 /\ scenario = None /\ key = AuditKey
    /\ later = [records |-> 0, saved |-> FALSE]

\* The row logger.append would write next.  No two records have the same
\* content, for each has its own request and timestamp.
NextRow ==
    LET tail == TailOf(table)
    IN  Seal(AuditKey, tail.next_id, appended + 1, tail.prev_hash)

-----------------------------------------------------------------------------
(* Before the change.                                                      *)

AppendRecord ==
    /\ scenario = None
    /\ appended < MaxRecords
    /\ table' = Append(table, NextRow)
    /\ appended' = appended + 1
    /\ UNCHANGED <<checkpoint, snapshot, scenario, key, later>>

CreateCheckpoint ==
    /\ scenario = None
    /\ table # << >>
    /\ checkpoint' = CheckpointOf(Last(table))
    /\ UNCHANGED <<table, snapshot, appended, scenario, key, later>>

TakeCopy ==
    /\ scenario = None
    /\ snapshot = << >>
    /\ snapshot' = <<table>>
    /\ UNCHANGED <<table, checkpoint, appended, scenario, key, later>>

-----------------------------------------------------------------------------
(* The change.                                                             *)

Change(kind, k, rows) ==
    /\ scenario = None
    /\ scenario' = [kind |-> kind, at |-> k]
    /\ table' = rows
    /\ UNCHANGED <<checkpoint, snapshot, appended, key, later>>

Forged == 0                  \* a content no record was appended with

\* modify_record_content, modify_timestamp
ModifyRecord ==
    \E k \in DOMAIN table : Change("modify", k, [table EXCEPT ![k].content = Forged])

\* modify_prev_hash: a well-formed hash of nothing.
ModifyPrevHash ==
    \E k \in DOMAIN table :
        Change("prev_hash", k, [table EXCEPT ![k].prev_hash = <<Forged>>])

\* delete_middle_record: a newer record remains.
DeleteMiddle ==
    \E k \in DOMAIN table :
        k < Len(table) /\ Change("delete_middle", k, RemoveAt(table, k))

\* reorder_records: the ids of two neighbours are exchanged.
ReorderRecords ==
    \E k \in DOMAIN table :
        /\ k < Len(table)
        /\ Change("reorder", k, [table EXCEPT ![k]     = [table[k + 1] EXCEPT !.id = k],
                                              ![k + 1] = [table[k] EXCEPT !.id = k + 1]])

\* duplicate_record: the record is inserted again under the next id.
DuplicateRecord ==
    \E k \in DOMAIN table :
        Change("duplicate", Len(table) + 1,
               Append(table, [table[k] EXCEPT !.id = Len(table) + 1]))

\* rehash_without_hmac_key: content and hash agree again and the next record
\* is linked to the new hash, but the MAC cannot be made.
RehashWithoutKey ==
    \E k \in DOMAIN table :
        LET hash == RecordHash(k, Forged, table[k].prev_hash)
        IN  Change("rehash", k,
                   [j \in DOMAIN table |->
                       CASE j = k -> [table[k] EXCEPT !.content = Forged, !.record_hash = hash]
                         [] j = k + 1 -> [table[j] EXCEPT !.prev_hash = hash]
                         [] OTHER -> table[j]])

\* verify_with_wrong_key: the database is as it was.
VerifyWithWrongKey ==
    /\ scenario = None
    /\ scenario' = [kind |-> "wrong_key", at |-> 1]
    /\ key' = OtherKey
    /\ UNCHANGED <<table, checkpoint, snapshot, appended, later>>

\* tail_deletion, multiple_trailing_deletion: the first n records remain.
DeleteTail ==
    \E n \in 1 .. Len(table) - 1 : Change("tail_deletion", n, SubSeq(table, 1, n))

\* complete_database_deletion: the file is unlinked and the next connection
\* makes an empty one.
DeleteDatabase ==
    table # << >> /\ Change("database_deletion", 0, << >>)

\* rollback_to_old_valid_database
Rollback ==
    /\ snapshot # << >> /\ Len(Head(snapshot)) < Len(table)
    /\ Change("rollback", Len(Head(snapshot)), Head(snapshot))

-----------------------------------------------------------------------------

\* The gateway appends to the changed database: the checkpoint store takes
\* the new record, or raises OSError, and append AuditWriteError, which leaves
\* the record in the table and the store as it was.
AppendLater ==
    /\ scenario.kind \notin {"none", "wrong_key"}
    /\ later.records < MaxLater
    /\ table' = Append(table, NextRow)
    /\ appended' = appended + 1
    /\ \E saved \in BOOLEAN :
          /\ later' = [records |-> later.records + 1, saved |-> later.saved \/ saved]
          /\ checkpoint' = IF saved THEN CheckpointOf(NextRow) ELSE checkpoint
    /\ UNCHANGED <<snapshot, scenario, key>>

Next ==
    \/ AppendRecord \/ CreateCheckpoint \/ TakeCopy
    \/ ModifyRecord \/ ModifyPrevHash \/ DeleteMiddle \/ ReorderRecords
    \/ DuplicateRecord \/ RehashWithoutKey \/ VerifyWithWrongKey
    \/ DeleteTail \/ DeleteDatabase \/ Rollback
    \/ AppendLater

Spec == Init /\ [][Next]_vars

-----------------------------------------------------------------------------

Internal == VerifyChain(key, table, NoCheckpoint)
WithCheckpoint == VerifyChain(key, table, checkpoint)

Truncations == {"tail_deletion", "database_deletion", "rollback"}
Tamperings == {"modify", "prev_hash", "delete_middle", "reorder", "duplicate", "rehash", "wrong_key"}

\* "Content edits, timestamp edits, prev-hash edits, interior deletion,
\* reordering, duplication, and re-hashing without the key are each detected
\* at the correct record, with entries_checked reporting the number actually
\* examined": the position is exact, the checkpoint makes no difference, and
\* nothing the gateway appends afterwards moves or hides it.
TamperingLocated ==
    scenario.kind \in Tamperings /\ table # << >> =>
        \A verdict \in {Internal, WithCheckpoint} :
            verdict = Verdict("invalid", scenario.at, table[scenario.at].id, FALSE)

\* The limitation the documents admit: a truncated log verifies as the
\* shorter log it is, every record of it counted, and its tail is never
\* called verified without a checkpoint.
TruncationsVerifyInternally ==
    scenario.kind \in Truncations =>
        Internal = Verdict(IF table = << >> THEN "empty" ELSE "valid", Len(table), 0, FALSE)

\* What the checkpoint adds: until the store saves again, a truncation is
\* reported exactly when the checkpointed record is among the lost ones, even
\* after the log has grown past that record's id with other records, and the
\* tail is verified exactly when the checkpointed record is the newest.
CheckpointDecides ==
    scenario.kind \in {"none"} \cup Truncations /\ checkpoint # NoCheckpoint /\ ~ later.saved =>
        LET lost == scenario # None /\ checkpoint.last_record_id > scenario.at
        IN  /\ lost <=> WithCheckpoint.status = "invalid"
            /\ WithCheckpoint.tail_verified <=>
                  ~ lost /\ checkpoint.last_record_id = Len(table)
            /\ WithCheckpoint.entries_checked = Len(table)
=============================================================================
