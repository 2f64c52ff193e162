--------------------------- MODULE AuditIntegrity ---------------------------
(***************************************************************************)
(* What verify_chain and verify_with_store may conclude about a database   *)
(* that is not, or not only, what append wrote: rows edited, re-sealed     *)
(* with another key, renumbered, removed, duplicated or brought back, and  *)
(* whole copies restored, in any sequence and with appends in between.     *)
(* The changes are those of tests/unit/test_audit_logger.py and            *)
(* evaluation/run_audit_attack_evaluation.py.                              *)
(*                                                                         *)
(* append is one step here: its interleavings are in AuditLogger.          *)
(***************************************************************************)
EXTENDS AuditChain, SequencesExt

CONSTANTS Contents,       \* payloads
          OtherKey,       \* a key that is not the audit key
          MaxRows,        \* bound on the table
          MaxChanges      \* bound on the number of changes made to it

ASSUME KeyAssumption == OtherKey # AuditKey
ASSUME BoundsAssumption == MaxRows \in Nat /\ MaxChanges \in Nat

VARIABLES
    table,       \* audit_log, ORDER BY id
    store,       \* the checkpoint store
    sealed,      \* the rows append has ever built
    versions,    \* the tables append has made out of unchanged ones
    anchor,      \* the row whose append last saved a checkpoint, as a sequence
    changes      \* the number of changes so far

vars == <<table, store, sealed, versions, anchor, changes>>

Init ==
    /\ table = << >> /\ store = NoCheckpoint
    /\ sealed = {} /\ versions = {<< >>} /\ anchor = << >> /\ changes = 0

\* append and, unless the store raises OSError, save.
AppendSealed(c) ==
    /\ Len(table) < MaxRows
    /\ LET tail == TailOf(table)
           row == Seal(AuditKey, tail.next_id, c, tail.prev_hash)
       IN  /\ table' = Append(table, row)
           /\ sealed' = sealed \cup {row}
           /\ versions' = IF table \in versions THEN versions \cup {table'} ELSE versions
           /\ \/ store' = CheckpointOf(row) /\ anchor' = <<row>>
              \/ UNCHANGED <<store, anchor>>
    /\ UNCHANGED changes

-----------------------------------------------------------------------------

Change(rows) ==
    /\ changes < MaxChanges
    /\ changes' = changes + 1
    /\ table' = rows
    /\ UNCHANGED <<store, sealed, versions, anchor>>

\* UPDATE of payload or timestamp, with or without a new hash or MAC.
EditedRows(row) ==
    UNION {{ [row EXCEPT !.content = c],
             [row EXCEPT !.content = c,
                         !.record_hash = RecordHash(row.id, c, row.prev_hash)],
             Seal(OtherKey, row.id, c, row.prev_hash) } : c \in Contents \ {row.content}}

EditRow ==
    \E k \in DOMAIN table : \E row \in EditedRows(table[k]) :
        Change([table EXCEPT ![k] = row])

\* UPDATE of prev_hash, to a wrong value or to follow an edited predecessor.
RelinkRow ==
    \E k \in DOMAIN table : \E prev \in {GenesisHash, ExpectedPrev(table, k)} :
        Change([table EXCEPT ![k].prev_hash = prev])

DeleteRow == \E k \in DOMAIN table : Change(RemoveAt(table, k))

\* Two rows exchange their ids.
SwapRows ==
    \E j, k \in DOMAIN table :
        /\ j < k
        /\ Change([table EXCEPT ![j] = [table[k] EXCEPT !.id = table[j].id],
                                ![k] = [table[j] EXCEPT !.id = table[k].id]])

\* A row is inserted again under the next id.
DuplicateRow ==
    \E k \in DOMAIN table :
        /\ Len(table) < MaxRows
        /\ Change(Append(table, [table[k] EXCEPT !.id = TailOf(table).next_id]))

\* A row that append once wrote is put back in the place of the row with its id.
BringBackRow ==
    \E k \in DOMAIN table : \E row \in sealed :
        row.id = table[k].id /\ Change([table EXCEPT ![k] = row])

\* The file is replaced by a copy of an earlier state, possibly the empty one.
RestoreCopy == \E copy \in versions : Change(copy)

Next ==
    \/ \E c \in Contents : AppendSealed(c)
    \/ EditRow \/ RelinkRow \/ DeleteRow \/ SwapRows \/ DuplicateRow
    \/ BringBackRow \/ RestoreCopy

Spec == Init /\ [][Next]_vars

-----------------------------------------------------------------------------

Internal == VerifyChain(AuditKey, table, NoCheckpoint)
External == VerifyWithStore(AuditKey, table, TRUE, store)

\* The rows the walk has passed without finding a fault.
PassedRows(v) ==
    IF v.status = "invalid" /\ v.first_invalid_id # 0
      THEN 1 .. v.entries_checked - 1
      ELSE 1 .. v.entries_checked

\* Rows are rows, and ids increase along the table.
TypeOK ==
    /\ \A k \in DOMAIN table : table[k].content \in Contents /\ table[k].id \in 1 .. MaxRows + MaxChanges
    /\ \A j, k \in DOMAIN table : j < k => table[j].id < table[k].id
    /\ sealed = {} => Range(table) = {}

\* Every row the walk passes is one append wrote, in its place: the fault is
\* reported at the first row that is not, whatever the changes combine to.
PassedRowsAreGenuine == \A k \in PassedRows(Internal) : table[k] \in sealed /\ table[k].id = k

\* With a checkpoint, a verdict of valid means that the row it was saved for is
\* still there, and tail_verified that it is the newest one: neither its
\* removal nor its replacement by a row append wrote at another time passes.
CheckpointAnchors ==
    anchor # << >> /\ External.status = "valid" =>
        /\ Head(anchor) \in Range(table)
        /\ External.tail_verified => Last(table) = Head(anchor)
=============================================================================
