---------------------------- MODULE AuditLogger -----------------------------
(***************************************************************************)
(* AuditLogger.append of gateway/audit_logger.py, executed by several      *)
(* writers (threads or processes) on one SQLite file and one checkpoint    *)
(* store.  log and checkpoint are durable; the rest is the writers' own.   *)
(*                                                                         *)
(* A step of a writer ends where another writer, a reader or a crash can   *)
(* come between: the attempt starts, BEGIN IMMEDIATE takes the write lock, *)
(* the tail is read and the row built, the row is inserted and committed,  *)
(* the checkpoint file is replaced, the call returns.                      *)
(*                                                                         *)
(* A call is one invocation of append; its payload is the call itself, so  *)
(* that two records of one call can be told from the records of two calls. *)
(***************************************************************************)
EXTENDS AuditChain, FiniteSets

CONSTANTS Writers,          \* threads or processes that append
          Calls,            \* the invocations of append
          NoCall,           \* what an idle writer executes
          AppendRetries,    \* _APPEND_RETRIES
          HasStore          \* is a checkpoint store configured?

ASSUME CallsAssumption   == NoCall \notin Calls
ASSUME RetriesAssumption == AppendRetries \in Nat \ {0}
ASSUME StoreAssumption   == HasStore \in BOOLEAN

VARIABLES
    log,          \* the table audit_log, ORDER BY id
    checkpoint,   \* the content of the checkpoint store
    pc,           \* where each writer is
    call,         \* the call each writer executes
    attempt,      \* the loop counter of append
    record,       \* the row each writer has built
    outcome       \* how each call ended

vars == <<log, checkpoint, pc, call, attempt, record, outcome>>

Outcomes == {"none", "pending", "ok", "write_error", "raised", "lost"}

\* The writers that hold the write lock of the database file.
LockHolders == {w \in Writers : pc[w] \in {"select", "insert"}}

\* The calls that have a record in the table.
Recorded == {log[k].content : k \in DOMAIN log}

Init ==
    /\ log = << >>
    /\ checkpoint = NoCheckpoint
    /\ pc = [w \in Writers |-> "idle"]
    /\ call = [w \in Writers |-> NoCall]
    /\ attempt = [w \in Writers |-> 0]
    /\ record = [w \in Writers |-> << >>]
    /\ outcome = [c \in Calls |-> "none"]

-----------------------------------------------------------------------------

Goto(w, label) == pc' = [pc EXCEPT ![w] = label]

\* The call of w ends with result and its local variables are gone.
EndCall(w, result) ==
    /\ Goto(w, "idle")
    /\ call' = [call EXCEPT ![w] = NoCall]
    /\ attempt' = [attempt EXCEPT ![w] = 0]
    /\ record' = [record EXCEPT ![w] = << >>]
    /\ outcome' = [outcome EXCEPT ![call[w]] = result]

\* append(payload) is called.
StartAppend(w, c) ==
    /\ pc[w] = "idle"
    /\ outcome[c] = "none"
    /\ Goto(w, "begin")
    /\ call' = [call EXCEPT ![w] = c]
    /\ outcome' = [outcome EXCEPT ![c] = "pending"]
    /\ UNCHANGED <<log, checkpoint, attempt, record>>

\* Mutation: a plain BEGIN, which takes no write lock before the SELECT.
BeginImmediate_Deferred(w) ==
    /\ pc[w] = "begin"
    /\ Goto(w, "select")
    /\ UNCHANGED <<log, checkpoint, call, attempt, record, outcome>>

\* BEGIN IMMEDIATE: one connection at a time holds the write lock.
BeginImmediate(w) ==
    /\ pc[w] = "begin"
    /\ LockHolders = {}
    /\ Goto(w, "select")
    /\ UNCHANGED <<log, checkpoint, call, attempt, record, outcome>>

\* Mutation: the checkpoint is saved inside the transaction, before the commit.
BuildRecord_EarlySave(w) ==
    /\ pc[w] = "select"
    /\ Goto(w, "insert")
    /\ LET tail == TailOf(log)
           row == Seal(AuditKey, tail.next_id, call[w], tail.prev_hash)
       IN  /\ record' = [record EXCEPT ![w] = row]
           /\ checkpoint' = CheckpointOf(row)
    /\ UNCHANGED <<log, call, attempt, outcome>>

\* SELECT the tail and compute the hash and the MAC of the new row.
BuildRecord(w) ==
    /\ pc[w] = "select"
    /\ Goto(w, "insert")
    /\ LET tail == TailOf(log)
       IN  record' = [record EXCEPT ![w] =
                        Seal(AuditKey, tail.next_id, call[w], tail.prev_hash)]
    /\ UNCHANGED <<log, checkpoint, call, attempt, outcome>>

\* INSERT, which the PRIMARY KEY can refuse, and COMMIT, which frees the lock.
InsertAndCommit(w) ==
    /\ pc[w] = "insert"
    /\ record[w].id \notin Ids(log)
    /\ log' = Append(log, record[w])
    /\ Goto(w, IF HasStore THEN "save" ELSE "return")
    /\ UNCHANGED <<checkpoint, call, attempt, record, outcome>>

\* CheckpointStore.save replaces the file, whatever it held.
SaveCheckpoint(w) ==
    /\ pc[w] = "save"
    /\ checkpoint' = CheckpointOf(record[w])
    /\ Goto(w, "return")
    /\ UNCHANGED <<log, call, attempt, record, outcome>>

\* save raises OSError: the file is as it was, append raises AuditWriteError.
SaveFails(w) ==
    /\ pc[w] = "save"
    /\ EndCall(w, "write_error")
    /\ UNCHANGED <<log, checkpoint>>

ReturnRecord(w) ==
    /\ pc[w] = "return"
    /\ EndCall(w, "ok")
    /\ UNCHANGED <<log, checkpoint>>

-----------------------------------------------------------------------------
(* A statement of _append_once raises: the transaction is rolled back.     *)

\* Mutation: the retry loop encloses the saving of the checkpoint.
InAttempt_WithSave(w) == pc[w] \in {"begin", "select", "insert", "save"}

InAttempt(w) == pc[w] \in {"begin", "select", "insert"}

\* Mutation: one attempt too many.
RetryAttempt_OffByOne(w) ==
    /\ InAttempt(w)
    /\ attempt[w] + 1 <= AppendRetries
    /\ Goto(w, "begin")
    /\ attempt' = [attempt EXCEPT ![w] = @ + 1]
    /\ record' = [record EXCEPT ![w] = << >>]
    /\ UNCHANGED <<log, checkpoint, call, outcome>>

\* Mutation: the attempts are not counted.
RetryAttempt_Uncounted(w) ==
    /\ InAttempt(w)
    /\ attempt[w] + 1 < AppendRetries
    /\ Goto(w, "begin")
    /\ record' = [record EXCEPT ![w] = << >>]
    /\ UNCHANGED <<log, checkpoint, call, attempt, outcome>>

\* OperationalError (the lock is held beyond the busy timeout, a disk error):
\* append sleeps and tries again ...
RetryAttempt(w) ==
    /\ InAttempt(w)
    /\ attempt[w] + 1 < AppendRetries
    /\ Goto(w, "begin")
    /\ attempt' = [attempt EXCEPT ![w] = @ + 1]
    /\ record' = [record EXCEPT ![w] = << >>]
    /\ UNCHANGED <<log, checkpoint, call, outcome>>

\* ... or, after the last attempt, raises AuditWriteError.
GiveUp(w) ==
    /\ InAttempt(w)
    /\ attempt[w] + 1 = AppendRetries
    /\ EndCall(w, "write_error")
    /\ UNCHANGED <<log, checkpoint>>

\* Any other exception leaves append unchanged.
RaiseOther(w) ==
    /\ InAttempt(w)
    /\ EndCall(w, "raised")
    /\ UNCHANGED <<log, checkpoint>>

\* The process of w dies: SQLite drops its transaction, the call never returns.
Crash(w) ==
    /\ pc[w] # "idle"
    /\ EndCall(w, "lost")
    /\ UNCHANGED <<log, checkpoint>>

-----------------------------------------------------------------------------

\* What the code of a call does next.
Step(w) ==
    \/ BeginImmediate(w)
    \/ BuildRecord(w)
    \/ InsertAndCommit(w)
    \/ SaveCheckpoint(w)
    \/ SaveFails(w)
    \/ ReturnRecord(w)
    \/ RetryAttempt(w)
    \/ GiveUp(w)
    \/ RaiseOther(w)

Next ==
    \E w \in Writers :
        \/ \E c \in Calls : StartAppend(w, c)
        \/ Step(w)
        \/ Crash(w)

Spec == Init /\ [][Next]_vars

\* A thread that is inside append keeps running; nobody has to call or crash.
FairSpec == Spec /\ \A w \in Writers : WF_vars(Step(w))

-----------------------------------------------------------------------------
(* Properties                                                              *)

\* A row as append builds it.
RowType(r) ==
    r \in [ id : Nat, content : Calls, prev_hash : {r.prev_hash},
            record_hash : {r.record_hash}, record_mac : {r.record_mac} ]

\* The table is a sequence of rows; every writer is at a known place, within
\* the attempts append makes, and is idle exactly when it executes no call.
TypeOK ==
    /\ log \in Seq({log[k] : k \in DOMAIN log})
    /\ \A k \in DOMAIN log : RowType(log[k])
    /\ checkpoint \in [ last_record_id  : Nat,
                        last_record_mac : {checkpoint.last_record_mac} ]
    /\ pc \in [Writers -> {"idle", "begin", "select", "insert", "save", "return"}]
    /\ call \in [Writers -> Calls \cup {NoCall}]
    /\ attempt \in [Writers -> 0 .. AppendRetries - 1]
    /\ record \in [Writers -> {record[w] : w \in Writers}]
    /\ outcome \in [Calls -> Outcomes]
    /\ \A w \in Writers : pc[w] = "idle" <=> call[w] = NoCall

\* Whatever the interleaving, the retries and the crashes, the walk of
\* verify_chain finds no faulty row in a table only append has written.
ChainIntact == Faults(AuditKey, log) = {}

\* The row a writer is about to insert still continues the current tail: no
\* other append came between the SELECT and the INSERT (the docstring's fork),
\* so the PRIMARY KEY never refuses it.
RecordContinuesTail ==
    \A w \in Writers : pc[w] = "insert" =>
        record[w] = Seal(AuditKey, TailOf(log).next_id, call[w], TailOf(log).prev_hash)

\* One call leaves at most one record however often it is retried; a call that
\* returned left one, a call that raised the database's own exception left none.
ExactlyOnce ==
    /\ \A j, k \in DOMAIN log : log[j].content = log[k].content => j = k
    /\ \A c \in Calls :
          /\ outcome[c] = "ok" => c \in Recorded
          /\ outcome[c] \in {"none", "raised"} => c \notin Recorded

\* The store never names a record the table does not hold, not even across a
\* rollback or a crash: verification cannot report records as deleted that
\* were never committed.
CheckpointCommitted == checkpoint # NoCheckpoint => checkpoint \in Checkpoints(log)

\* Once append has returned, the checkpoint is at its record or a later one, so
\* that the record's deletion would be noticed.
AckedCovered ==
    \A k \in DOMAIN log :
        HasStore /\ outcome[log[k].content] = "ok" => checkpoint.last_record_id >= k

-----------------------------------------------------------------------------
(* What append promises, without transactions, hashes and attempts.        *)

Ledger == INSTANCE AuditLedger WITH
              ledger <- [k \in DOMAIN log |-> log[k].content],
              marked <- checkpoint.last_record_id,
              result <- outcome

\* Every behaviour of the writers is one of the ledger: records are appended
\* one by one and never change, each on behalf of a call that is under way, and
\* every call is answered.
ImplementsLedger == Ledger!FairSpec
=============================================================================
