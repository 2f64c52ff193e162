----------------------------- MODULE AuditChain -----------------------------
(***************************************************************************)
(* The hash chain of gateway/audit_logger.py as pure operators: how a      *)
(* record is sealed onto the tail of the table and what verify_chain and   *)
(* verify_with_store conclude from a table and a checkpoint.               *)
(*                                                                         *)
(* A table is the sequence of its rows ORDER BY id.  The three fields      *)
(* schema_version, timestamp and payload of a row are one value, content.  *)
(* SHA-256 and HMAC are the free constructors RecordHash and Mac: equal    *)
(* results mean equal arguments.                                           *)
(***************************************************************************)
EXTENDS Integers, Sequences

CONSTANT AuditKey                                     \* _hmac_key

GenesisHash == << >>
RecordHash(id, content, prev) == <<id, content, prev>>
Mac(key, hash) == <<key, hash>>

\* The row that holds content under id, linked to the row whose hash is prev.
Seal(key, id, content, prev) ==
    [ id          |-> id,
      content     |-> content,
      prev_hash   |-> prev,
      record_hash |-> RecordHash(id, content, prev),
      record_mac  |-> Mac(key, RecordHash(id, content, prev)) ]

Ids(rows) == {rows[k].id : k \in DOMAIN rows}

\* Mutation: the tail's prev_hash is taken for its record_hash.
TailOf_PrevColumn(rows) ==
    IF rows = << >>
      THEN [next_id |-> 1, prev_hash |-> GenesisHash]
      ELSE [next_id   |-> rows[Len(rows)].id + 1,
            prev_hash |-> rows[Len(rows)].prev_hash]

\* Mutation: the next id is COUNT(*) + 1.
TailOf_Count(rows) ==
    IF rows = << >>
      THEN [next_id |-> 1, prev_hash |-> GenesisHash]
      ELSE [next_id   |-> Len(rows) + 1,
            prev_hash |-> rows[Len(rows)].record_hash]

\* What an append reads from the newest row: the id and prev_hash to use next.
TailOf(rows) ==
    IF rows = << >>
      THEN [next_id |-> 1, prev_hash |-> GenesisHash]
      ELSE [next_id   |-> rows[Len(rows)].id + 1,
            prev_hash |-> rows[Len(rows)].record_hash]

-----------------------------------------------------------------------------
(* The checkpoint names a record by id and MAC.  Ids start at 1, so id 0   *)
(* stands for "the store has no checkpoint".                               *)

NoCheckpoint == [last_record_id |-> 0, last_record_mac |-> << >>]

CheckpointOf(row) ==
    [last_record_id |-> row.id, last_record_mac |-> row.record_mac]

Checkpoints(rows) == {CheckpointOf(rows[k]) : k \in DOMAIN rows}

-----------------------------------------------------------------------------
(* verify_chain: the four checks made on the k-th row of the walk.         *)

ExpectedPrev(rows, k) == IF k = 1 THEN GenesisHash ELSE rows[k - 1].record_hash

\* Mutation: the MAC of a row is not compared.
RowOk_NoMac(key, rows, k) ==
    /\ rows[k].id = k
    /\ rows[k].prev_hash = ExpectedPrev(rows, k)
    /\ rows[k].record_hash = RecordHash(rows[k].id, rows[k].content, rows[k].prev_hash)

RowOk(key, rows, k) ==
    /\ rows[k].id = k
    /\ rows[k].prev_hash = ExpectedPrev(rows, k)
    /\ rows[k].record_hash = RecordHash(rows[k].id, rows[k].content, rows[k].prev_hash)
    /\ rows[k].record_mac = Mac(key, rows[k].record_hash)

Faults(key, rows) == {k \in DOMAIN rows : ~ RowOk(key, rows, k)}

FirstFault(key, rows) ==
    CHOOSE k \in Faults(key, rows) : \A j \in Faults(key, rows) : k <= j

\* A ChainVerificationResult; first_invalid_id 0 is the code's None.
Verdict(status, checked, first, tail) ==
    [ status           |-> status,
      entries_checked  |-> checked,
      first_invalid_id |-> first,
      tail_verified    |-> tail ]

\* Mutation: of the checkpoint only the id is compared.
VerifyTail_IdOnly(rows, cp) ==
    CASE cp = NoCheckpoint ->
           Verdict("valid", Len(rows), 0, FALSE)
      [] cp # NoCheckpoint /\ cp.last_record_id \notin Ids(rows) ->
           Verdict("invalid", Len(rows), 0, FALSE)
      [] cp.last_record_id \in Ids(rows) ->
           Verdict("valid", Len(rows), 0, cp.last_record_id = rows[Len(rows)].id)

\* Mutation: without a checkpoint the tail is taken to be verified.
VerifyTail_Assumed(rows, cp) ==
    CASE cp = NoCheckpoint ->
           Verdict("valid", Len(rows), 0, TRUE)
      [] cp # NoCheckpoint /\ cp.last_record_id \notin Ids(rows) ->
           Verdict("invalid", Len(rows), 0, FALSE)
      [] cp.last_record_id \in Ids(rows) /\ cp \notin Checkpoints(rows) ->
           Verdict("invalid", Len(rows), cp.last_record_id, FALSE)
      [] cp \in Checkpoints(rows) ->
           Verdict("valid", Len(rows), 0, cp.last_record_id = rows[Len(rows)].id)

\* The part after the walk: every row is sound, the checkpoint is compared.
VerifyTail(rows, cp) ==
    CASE cp = NoCheckpoint ->
           Verdict("valid", Len(rows), 0, FALSE)
      [] cp # NoCheckpoint /\ cp.last_record_id \notin Ids(rows) ->
           Verdict("invalid", Len(rows), 0, FALSE)
      [] cp.last_record_id \in Ids(rows) /\ cp \notin Checkpoints(rows) ->
           Verdict("invalid", Len(rows), cp.last_record_id, FALSE)
      [] cp \in Checkpoints(rows) ->
           Verdict("valid", Len(rows), 0, cp.last_record_id = rows[Len(rows)].id)

VerifyChain(key, rows, cp) ==
    CASE rows = << >> ->
           Verdict(IF cp = NoCheckpoint THEN "empty" ELSE "invalid", 0, 0, FALSE)
      [] rows # << >> /\ Faults(key, rows) # {} ->
           LET k == FirstFault(key, rows)
           IN  Verdict("invalid", k, rows[k].id, FALSE)
      [] rows # << >> /\ Faults(key, rows) = {} ->
           VerifyTail(rows, cp)

\* verify_with_store, given the checkpoint its load() returned.
VerifyWithStore(key, rows, has_store, cp) ==
    LET result == VerifyChain(key, rows, IF has_store THEN cp ELSE NoCheckpoint)
    IN  IF has_store /\ cp = NoCheckpoint /\ result.status = "valid"
          THEN [result EXCEPT !.status = "unverifiable"]
          ELSE result
=============================================================================
