------------------------- MODULE AuditLoggerProofs --------------------------
(***************************************************************************)
(* Theorems about AuditLogger and the two modules that put its writers     *)
(* into company, for every set of writers and calls, every number of       *)
(* retries and with or without a checkpoint store:                         *)
(*   - AuditLogger: the inductive invariant is IInv; each safety property  *)
(*     is a consequence, and the writers implement the ledger;             *)
(*   - AuditReaders: the writers keep their invariant beside the readers,  *)
(*     and no reader takes an intact log for a changed one;                *)
(*   - Deployment: the ids clients are given, the order of the records of  *)
(*     different processes and their timestamps.                           *)
(* What is shown of the writers carries over, because every step of the    *)
(* larger systems is a step of the writers or leaves their state alone.    *)
(***************************************************************************)
EXTENDS AuditReaders, Deployment, SequenceTheorems, TLAPS

-----------------------------------------------------------------------------
(***************************************************************************)
(* AuditLogger: the writers                                                *)
(***************************************************************************)

\* Appending to a sequence keeps its elements and puts the new one at the end.
LEMMA AppendRow ==
    ASSUME NEW s, NEW e, s \in Seq({s[k] : k \in DOMAIN s})
    PROVE  /\ Len(s) \in Nat
           /\ DOMAIN s = 1 .. Len(s)
           /\ Len(Append(s, e)) = Len(s) + 1
           /\ DOMAIN Append(s, e) = 1 .. Len(s) + 1
           /\ \A k \in 1 .. Len(s) : Append(s, e)[k] = s[k]
           /\ Append(s, e)[Len(s) + 1] = e
           /\ Append(s, e) \in Seq({Append(s, e)[k] : k \in DOMAIN Append(s, e)})
<1> DEFINE S == {s[k] : k \in DOMAIN s} \cup {e}
           t == Append(s, e)
           T == {t[k] : k \in DOMAIN t}
<1>1. s \in Seq(S) /\ e \in S
  <2>1. Len(s) \in Nat /\ DOMAIN s = 1 .. Len(s)
    BY LenProperties
  <2>2. \A k \in 1 .. Len(s) : s[k] \in S
    BY <2>1
  <2> QED BY <2>1, <2>2, SeqDef
<1>2. /\ Len(s) \in Nat
      /\ DOMAIN s = 1 .. Len(s)
      /\ t \in Seq(S)
      /\ Len(t) = Len(s) + 1
      /\ \A k \in 1 .. Len(s) : t[k] = s[k]
      /\ t[Len(s) + 1] = e
  BY <1>1, AppendProperties, LenProperties
<1>3. DOMAIN t = 1 .. Len(s) + 1
  BY <1>2, LenProperties
<1>4. t \in Seq(T)
  <2>1. t \in [1 .. Len(s) + 1 -> T]
    BY <1>2, <1>3, LenProperties, ElementOfSeq
  <2> QED BY <1>2, <2>1, SeqDef
<1> QED BY <1>2, <1>3, <1>4

-----------------------------------------------------------------------------
(* The inductive invariant.                                                *)

\* Every row is the seal of its content at its place in the chain.
ChainForm ==
    \A k \in DOMAIN log :
        log[k] = Seal(AuditKey, k, log[k].content, ExpectedPrev(log, k))

\* The write lock has one holder.
OneLockHolder == \A v, w \in LockHolders : v = w

\* A writer past its commit has its row in the table.
CommittedRow ==
    \A w \in Writers : pc[w] \in {"save", "return"} =>
        \E k \in DOMAIN log : log[k] = record[w] /\ log[k].content = call[w]

\* A call is executed by one writer, is pending meanwhile and has no record
\* before its commit.
CallsInv ==
    /\ \A w \in Writers : pc[w] # "idle" => outcome[call[w]] = "pending"
    /\ \A v, w \in Writers : pc[v] # "idle" /\ call[v] = call[w] => v = w
    /\ \A w \in Writers : InAttempt(w) => call[w] \notin Recorded

IInv ==
    /\ TypeOK
    /\ ChainForm
    /\ OneLockHolder
    /\ RecordContinuesTail
    /\ CommittedRow
    /\ CheckpointCommitted
    /\ CallsInv
    /\ ExactlyOnce

-----------------------------------------------------------------------------

\* The chain form is what the walk of verify_chain checks.
LEMMA ChainFormHasNoFaults ==
    ASSUME TypeOK, ChainForm
    PROVE  ChainIntact
<1> SUFFICES ASSUME NEW k \in DOMAIN log PROVE RowOk(AuditKey, log, k)
  BY DEF ChainIntact, Faults
<1>1. log[k] = Seal(AuditKey, k, log[k].content, ExpectedPrev(log, k))
  BY DEF ChainForm
<1> QED BY <1>1 DEF Seal, RowOk

\* A sealed row at the tail has the next id, which is its position.
LEMMA TailFacts ==
    ASSUME TypeOK, ChainForm
    PROVE  /\ Len(log) \in Nat
           /\ DOMAIN log = 1 .. Len(log)
           /\ TailOf(log).next_id = Len(log) + 1
           /\ TailOf(log).prev_hash =
                 IF log = << >> THEN GenesisHash ELSE log[Len(log)].record_hash
           /\ log = << >> <=> Len(log) = 0
<1>1. Len(log) \in Nat /\ DOMAIN log = 1 .. Len(log)
  BY LenProperties DEF TypeOK
<1>2. log = << >> <=> Len(log) = 0
  BY EmptySeq DEF TypeOK
<1>3. CASE log = << >>
  BY <1>1, <1>2, <1>3 DEF TailOf
<1>4. CASE log # << >>
  <2>1. Len(log) \in DOMAIN log
    BY <1>1, <1>2, <1>4
  <2>2. log[Len(log)].id = Len(log)
    BY <2>1 DEF ChainForm, Seal
  <2> QED BY <1>1, <1>2, <1>4, <2>2 DEF TailOf
<1> QED BY <1>3, <1>4

\* The first state satisfies the invariant.
LEMMA InitIInv == Init => IInv
<1> SUFFICES ASSUME Init PROVE IInv
  OBVIOUS
<1> USE DEF Init
<1>1. TypeOK
  BY CallsAssumption, RetriesAssumption, EmptySeq DEF TypeOK, NoCheckpoint, Outcomes, RowType
<1>2. ChainForm /\ OneLockHolder /\ RecordContinuesTail /\ CommittedRow
  BY DEF ChainForm, OneLockHolder, RecordContinuesTail, CommittedRow, LockHolders
<1>3. CheckpointCommitted
  BY DEF CheckpointCommitted
<1>4. CallsInv /\ ExactlyOnce
  BY DEF CallsInv, ExactlyOnce, Recorded, InAttempt
<1> QED BY <1>1, <1>2, <1>3, <1>4 DEF IInv

-----------------------------------------------------------------------------
(* Steps that leave the table alone.                                       *)

\* What is only about the table and the checkpoint is kept with them.
LEMMA DurableKept ==
    ASSUME IInv, UNCHANGED <<log, checkpoint>>
    PROVE  /\ ChainForm' /\ CheckpointCommitted'
           /\ Recorded' = Recorded
           /\ TailOf(log)' = TailOf(log)
BY DEF IInv, ChainForm, CheckpointCommitted, Checkpoints, ExpectedPrev, Recorded, TailOf

\* A call that ends keeps the invariant if its result fits the table.
LEMMA EndCallKeeps ==
    ASSUME IInv,
           NEW w \in Writers, pc[w] # "idle",
           NEW r \in {"ok", "write_error", "raised", "lost"},
           r = "ok" => call[w] \in Recorded,
           r = "raised" => call[w] \notin Recorded,
           EndCall(w, r),
           UNCHANGED <<log, checkpoint>>
    PROVE  IInv'
<1> USE DEF EndCall, Goto
<1>0. TypeOK
  BY DEF IInv
<1>1. call[w] \in Calls
  BY DEF IInv, TypeOK
<1>2. /\ ChainForm' /\ CheckpointCommitted'
      /\ Recorded' = Recorded
      /\ TailOf(log)' = TailOf(log)
  BY DurableKept
<1>3. TypeOK'
  <2>1. outcome' \in [Calls -> Outcomes]
    BY <1>0 DEF TypeOK, Outcomes
  <2>2. attempt' \in [Writers -> 0 .. AppendRetries - 1]
    BY <1>0, RetriesAssumption DEF TypeOK
  <2>3. \A v \in Writers : pc'[v] = "idle" <=> call'[v] = NoCall
    BY <1>0 DEF TypeOK
  <2> QED BY <1>0, <2>1, <2>2, <2>3 DEF TypeOK
<1>4. \A v \in Writers : pc'[v] # "idle" =>
         v # w /\ pc'[v] = pc[v] /\ call'[v] = call[v] /\ record'[v] = record[v]
  BY <1>0 DEF TypeOK
<1>5. OneLockHolder'
  BY <1>4 DEF IInv, OneLockHolder, LockHolders
<1>6. RecordContinuesTail'
  BY <1>2, <1>4 DEF IInv, RecordContinuesTail
<1>7. CommittedRow'
  BY <1>4 DEF IInv, CommittedRow
<1>8. CallsInv'
  <2>1. \A v \in Writers : pc'[v] # "idle" => call[v] # call[w] /\ call[v] \in Calls
    BY <1>0, <1>4 DEF IInv, CallsInv, TypeOK
  <2>2. \A v \in Writers : pc'[v] # "idle" => outcome'[call'[v]] = "pending"
    BY <1>0, <1>4, <2>1 DEF IInv, CallsInv, TypeOK
  <2>3. \A u, v \in Writers : pc'[u] # "idle" /\ call'[v] = call'[u] => u = v
    BY <1>0, <1>1, <1>4, <2>1, CallsAssumption DEF IInv, CallsInv, TypeOK
  <2> QED BY <1>2, <1>4, <2>2, <2>3 DEF IInv, CallsInv, InAttempt
<1>9. ExactlyOnce'
  BY <1>0, <1>1, <1>2 DEF IInv, ExactlyOnce, TypeOK
<1> QED BY <1>2, <1>3, <1>5, <1>6, <1>7, <1>8, <1>9 DEF IInv

\* An attempt that failed is repeated.
LEMMA RetryKeeps ==
    ASSUME IInv, NEW w \in Writers, RetryAttempt(w)
    PROVE  IInv'
<1> USE DEF RetryAttempt, Goto, InAttempt
<1>0. TypeOK
  BY DEF IInv
<1>2. /\ ChainForm' /\ CheckpointCommitted'
      /\ Recorded' = Recorded
      /\ TailOf(log)' = TailOf(log)
  BY DurableKept
<1>3. TypeOK'
  <2>1. attempt' \in [Writers -> 0 .. AppendRetries - 1]
    BY <1>0, RetriesAssumption DEF TypeOK
  <2>2. \A v \in Writers : pc'[v] = "idle" <=> pc[v] = "idle"
    BY <1>0 DEF TypeOK
  <2> QED BY <1>0, <2>1, <2>2 DEF TypeOK
<1>4. \A v \in Writers : v # w => pc'[v] = pc[v] /\ record'[v] = record[v]
  BY <1>0 DEF TypeOK
<1>5. pc'[w] = "begin"
  BY <1>0 DEF TypeOK
<1>6. OneLockHolder' /\ RecordContinuesTail' /\ CommittedRow'
  BY <1>2, <1>4, <1>5
  DEF IInv, OneLockHolder, LockHolders, RecordContinuesTail, CommittedRow
<1>7. CallsInv'
  BY <1>2, <1>4, <1>5 DEF IInv, CallsInv
<1>8. ExactlyOnce'
  BY <1>2 DEF IInv, ExactlyOnce
<1> QED BY <1>2, <1>3, <1>6, <1>7, <1>8 DEF IInv

\* A new call takes over an idle writer.
LEMMA StartKeeps ==
    ASSUME IInv, NEW w \in Writers, NEW c \in Calls, StartAppend(w, c)
    PROVE  IInv'
<1> USE DEF StartAppend, Goto
<1>0. TypeOK
  BY DEF IInv
<1>2. /\ ChainForm' /\ CheckpointCommitted'
      /\ Recorded' = Recorded
      /\ TailOf(log)' = TailOf(log)
  BY DurableKept
<1>3. c \notin Recorded
  BY DEF IInv, ExactlyOnce
<1>4. TypeOK'
  BY <1>0, CallsAssumption DEF TypeOK, Outcomes
<1>5. /\ pc'[w] = "begin" /\ call'[w] = c /\ outcome'[c] = "pending"
      /\ \A v \in Writers : v # w => pc'[v] = pc[v] /\ call'[v] = call[v]
      /\ \A d \in Calls : d # c => outcome'[d] = outcome[d]
  BY <1>0 DEF TypeOK
<1>6. OneLockHolder' /\ RecordContinuesTail' /\ CommittedRow'
  BY <1>2, <1>5
  DEF IInv, OneLockHolder, LockHolders, RecordContinuesTail, CommittedRow
<1>7. CallsInv'
  <2>1. \A v \in Writers : v # w /\ pc[v] # "idle" => call[v] # c /\ call[v] \in Calls
    BY <1>0 DEF IInv, CallsInv, TypeOK
  <2>2. \A v \in Writers : v # w /\ pc[v] = "idle" => call[v] = NoCall
    BY <1>0 DEF TypeOK
  <2>3. \A u, v \in Writers : pc'[u] # "idle" /\ call'[v] = call'[u] => u = v
    BY <1>5, <2>1, <2>2, CallsAssumption DEF IInv, CallsInv
  <2>4. \A v \in Writers : pc'[v] # "idle" => outcome'[call'[v]] = "pending"
    BY <1>5, <2>1 DEF IInv, CallsInv
  <2> QED BY <1>2, <1>3, <1>5, <2>3, <2>4 DEF IInv, CallsInv, InAttempt
<1>8. ExactlyOnce'
  BY <1>2, <1>5 DEF IInv, ExactlyOnce
<1> QED BY <1>2, <1>4, <1>6, <1>7, <1>8 DEF IInv

\* The write lock is free, so its new holder is the only one.
LEMMA BeginKeeps ==
    ASSUME IInv, NEW w \in Writers, BeginImmediate(w)
    PROVE  IInv'
<1> USE DEF BeginImmediate, Goto
<1>0. TypeOK
  BY DEF IInv
<1>2. /\ ChainForm' /\ CheckpointCommitted'
      /\ Recorded' = Recorded
      /\ TailOf(log)' = TailOf(log)
  BY DurableKept
<1>3. /\ pc'[w] = "select"
      /\ \A v \in Writers : v # w => pc'[v] = pc[v]
  BY <1>0 DEF TypeOK
<1>4. TypeOK'
  BY <1>0, <1>3 DEF TypeOK
<1>5. OneLockHolder'
  BY <1>3 DEF OneLockHolder, LockHolders
<1>6. RecordContinuesTail' /\ CommittedRow'
  BY <1>2, <1>3 DEF IInv, RecordContinuesTail, CommittedRow
<1>7. CallsInv'
  BY <1>2, <1>3 DEF IInv, CallsInv, InAttempt
<1>8. ExactlyOnce'
  BY <1>2 DEF IInv, ExactlyOnce
<1> QED BY <1>2, <1>4, <1>5, <1>6, <1>7, <1>8 DEF IInv

\* The row is built from the tail the lock holder reads.
LEMMA BuildKeeps ==
    ASSUME IInv, NEW w \in Writers, BuildRecord(w)
    PROVE  IInv'
<1> USE DEF BuildRecord, Goto
<1>0. TypeOK
  BY DEF IInv
<1>2. /\ ChainForm' /\ CheckpointCommitted'
      /\ Recorded' = Recorded
      /\ TailOf(log)' = TailOf(log)
  BY DurableKept
<1>3. /\ pc'[w] = "insert"
      /\ record'[w] = Seal(AuditKey, TailOf(log).next_id, call[w], TailOf(log).prev_hash)
      /\ \A v \in Writers : v # w => pc'[v] = pc[v] /\ record'[v] = record[v]
  BY <1>0 DEF TypeOK
<1>4. TypeOK'
  BY <1>0, <1>3 DEF TypeOK
<1>5. OneLockHolder'
  BY <1>3 DEF IInv, OneLockHolder, LockHolders
<1>6. RecordContinuesTail' /\ CommittedRow'
  BY <1>2, <1>3 DEF IInv, RecordContinuesTail, CommittedRow
<1>7. CallsInv'
  BY <1>2, <1>3 DEF IInv, CallsInv, InAttempt
<1>8. ExactlyOnce'
  BY <1>2 DEF IInv, ExactlyOnce
<1> QED BY <1>2, <1>4, <1>5, <1>6, <1>7, <1>8 DEF IInv

\* The store takes the id and the MAC of the row the writer has committed.
LEMMA SaveKeeps ==
    ASSUME IInv, NEW w \in Writers, SaveCheckpoint(w)
    PROVE  IInv'
<1> USE DEF SaveCheckpoint, Goto
<1>0. TypeOK
  BY DEF IInv
<1>1. PICK k \in DOMAIN log : log[k] = record[w] /\ log[k].content = call[w]
  BY DEF IInv, CommittedRow
<1>2. /\ pc'[w] = "return"
      /\ \A v \in Writers : v # w => pc'[v] = pc[v]
  BY <1>0 DEF TypeOK
<1>3. ChainForm' /\ Recorded' = Recorded /\ TailOf(log)' = TailOf(log)
  BY DEF IInv, ChainForm, ExpectedPrev, Recorded, TailOf
<1>4. CheckpointCommitted'
  BY <1>1 DEF CheckpointCommitted, Checkpoints
<1>5. TypeOK'
  <2>1. checkpoint' \in [ last_record_id  : Nat,
                          last_record_mac : {checkpoint'.last_record_mac} ]
    BY <1>0, <1>1 DEF TypeOK, RowType, CheckpointOf
  <2> QED BY <1>0, <1>2, <2>1 DEF TypeOK
<1>6. OneLockHolder' /\ RecordContinuesTail' /\ CommittedRow'
  BY <1>2, <1>3
  DEF IInv, OneLockHolder, LockHolders, RecordContinuesTail, CommittedRow
<1>7. CallsInv'
  BY <1>2, <1>3 DEF IInv, CallsInv, InAttempt
<1>8. ExactlyOnce'
  BY <1>3 DEF IInv, ExactlyOnce
<1> QED BY <1>3, <1>4, <1>5, <1>6, <1>7, <1>8 DEF IInv

-----------------------------------------------------------------------------
(* The one step that writes the table.                                     *)

LEMMA CommitKeeps ==
    ASSUME IInv, NEW w \in Writers, InsertAndCommit(w)
    PROVE  IInv'
<1> DEFINE n == Len(log)
           prev == IF log = << >> THEN GenesisHash ELSE log[n].record_hash
<1>0. TypeOK /\ ChainForm
  BY DEF IInv
<1>1. /\ n \in Nat /\ DOMAIN log = 1 .. n
      /\ log = << >> <=> n = 0
      /\ TailOf(log).next_id = n + 1 /\ TailOf(log).prev_hash = prev
  BY <1>0, TailFacts
<1>2. record[w] = Seal(AuditKey, n + 1, call[w], prev)
  BY <1>1 DEF IInv, RecordContinuesTail, InsertAndCommit
<1>3. /\ pc[w] = "insert" /\ call[w] \in Calls /\ call[w] \notin Recorded
      /\ UNCHANGED <<checkpoint, call, attempt, record, outcome>>
  BY <1>0 DEF IInv, CallsInv, InAttempt, TypeOK, InsertAndCommit
<1>4. /\ DOMAIN log' = 1 .. n + 1
      /\ \A k \in 1 .. n : log'[k] = log[k]
      /\ log'[n + 1] = record[w]
      /\ log' \in Seq({log'[k] : k \in DOMAIN log'})
  <2>1. log' = Append(log, record[w])
    BY DEF InsertAndCommit
  <2>2. log \in Seq({log[k] : k \in DOMAIN log})
    BY <1>0 DEF TypeOK
  <2> QED BY ONLY <2>1, <2>2, AppendRow
<1>5. /\ pc'[w] \in {"save", "return"}
      /\ pc' \in [Writers -> {"idle", "begin", "select", "insert", "save", "return"}]
      /\ \A v \in Writers : v # w => pc'[v] = pc[v]
  BY <1>0 DEF TypeOK, InsertAndCommit, Goto
<1>6. log'[n + 1].content = call[w]
  BY <1>2, <1>4 DEF Seal
<1>7. Recorded' = Recorded \cup {call[w]}
  BY <1>1, <1>4, <1>6 DEF Recorded
<1>8. TypeOK'
  <2>1. \A k \in 1 .. n : RowType(log'[k])
    BY <1>0, <1>1, <1>4 DEF TypeOK
  <2>2. RowType(log'[n + 1])
    BY <1>1, <1>2, <1>3, <1>4 DEF RowType, Seal
  <2>3. \A k \in DOMAIN log' : RowType(log'[k])
    BY <1>1, <1>4, <2>1, <2>2
  <2>4. \A v \in Writers : pc'[v] = "idle" <=> pc[v] = "idle"
    BY <1>3, <1>5
  <2> QED BY <1>0, <1>3, <1>4, <1>5, <2>3, <2>4 DEF TypeOK, RowType
<1>9. ChainForm'
  <2> SUFFICES ASSUME NEW k \in 1 .. n + 1
               PROVE  log'[k] = Seal(AuditKey, k, log'[k].content, ExpectedPrev(log', k))
    BY <1>4 DEF ChainForm
  <2>1. CASE k \in 1 .. n
    <3>1. ExpectedPrev(log', k) = ExpectedPrev(log, k)
      BY <1>1, <1>4, <2>1 DEF ExpectedPrev
    <3> QED BY <1>0, <1>1, <1>4, <2>1, <3>1 DEF ChainForm
  <2>2. CASE k = n + 1
    <3>1. ExpectedPrev(log', k) = prev
      BY <1>1, <1>4, <2>2 DEF ExpectedPrev
    <3> QED BY <1>2, <1>4, <1>6, <2>2, <3>1
  <2> QED BY <1>1, <2>1, <2>2
<1>10. OneLockHolder' /\ RecordContinuesTail'
  <2>1. \A v \in Writers : pc'[v] # "insert"
    BY <1>3, <1>5 DEF IInv, OneLockHolder, LockHolders
  <2> QED BY <1>5, <2>1
      DEF IInv, OneLockHolder, LockHolders, RecordContinuesTail
<1>11. CommittedRow'
  <2> SUFFICES ASSUME NEW v \in Writers, pc'[v] \in {"save", "return"}
               PROVE  \E k \in DOMAIN log' :
                         log'[k] = record[v] /\ log'[k].content = call[v]
    BY <1>3 DEF CommittedRow
  <2>1. CASE v = w
    BY <1>1, <1>3, <1>4, <1>6, <2>1
  <2>2. CASE v # w
    <3>1. PICK k \in DOMAIN log : log[k] = record[v] /\ log[k].content = call[v]
      BY <1>5, <2>2 DEF IInv, CommittedRow
    <3> QED BY <1>1, <1>3, <1>4, <3>1
  <2> QED BY <2>1, <2>2
<1>12. CheckpointCommitted'
  BY <1>1, <1>3, <1>4 DEF IInv, CheckpointCommitted, Checkpoints
<1>13. CallsInv'
  <2>1. \A v \in Writers : InAttempt(v)' => v # w /\ InAttempt(v)
    BY <1>5 DEF InAttempt
  <2>2. \A v \in Writers : InAttempt(v)' => call[v] \notin Recorded'
    <3>1. \A v \in Writers : InAttempt(v)' => call[v] # call[w] /\ call[v] \notin Recorded
      BY <2>1 DEF IInv, CallsInv, InAttempt
    <3> QED BY <1>7, <3>1
  <2>3. \A v \in Writers : pc'[v] # "idle" => pc[v] # "idle"
    BY <1>3, <1>5
  <2> QED BY <1>3, <2>2, <2>3 DEF IInv, CallsInv
<1>14. ExactlyOnce'
  <2>1. \A k \in 1 .. n : log'[k].content # call[w]
    BY <1>1, <1>3, <1>4 DEF Recorded
  <2>2. \A j, k \in DOMAIN log' : log'[j].content = log'[k].content => j = k
    BY <1>1, <1>4, <1>6, <2>1 DEF IInv, ExactlyOnce
  <2>3. outcome[call[w]] = "pending"
    BY <1>3 DEF IInv, CallsInv
  <2> QED BY <1>3, <1>7, <2>2, <2>3 DEF IInv, ExactlyOnce
<1> QED BY <1>8, <1>9, <1>10, <1>11, <1>12, <1>13, <1>14 DEF IInv

-----------------------------------------------------------------------------

\* Every step keeps the invariant.
LEMMA NextIInv == IInv /\ [Next]_vars => IInv'
<1> SUFFICES ASSUME IInv, [Next]_vars PROVE IInv'
  OBVIOUS
<1>1. ASSUME NEW w \in Writers, NEW c \in Calls, StartAppend(w, c) PROVE IInv'
  BY <1>1, StartKeeps
<1>2. ASSUME NEW w \in Writers, BeginImmediate(w) PROVE IInv'
  BY <1>2, BeginKeeps
<1>3. ASSUME NEW w \in Writers, BuildRecord(w) PROVE IInv'
  BY <1>3, BuildKeeps
<1>4. ASSUME NEW w \in Writers, InsertAndCommit(w) PROVE IInv'
  BY <1>4, CommitKeeps
<1>5. ASSUME NEW w \in Writers, SaveCheckpoint(w) PROVE IInv'
  BY <1>5, SaveKeeps
<1>6. ASSUME NEW w \in Writers, SaveFails(w) \/ GiveUp(w) \/ Crash(w) PROVE IInv'
  <2>1. pc[w] # "idle" /\ UNCHANGED <<log, checkpoint>>
    BY <1>6 DEF SaveFails, GiveUp, Crash, InAttempt
  <2>2. EndCall(w, "write_error") \/ EndCall(w, "lost")
    BY <1>6 DEF SaveFails, GiveUp, Crash
  <2> QED BY <2>1, <2>2, EndCallKeeps
<1>7. ASSUME NEW w \in Writers, ReturnRecord(w) PROVE IInv'
  <2>1. call[w] \in Recorded
    BY <1>7 DEF ReturnRecord, IInv, CommittedRow, Recorded
  <2> QED BY <1>7, <2>1, EndCallKeeps DEF ReturnRecord
<1>8. ASSUME NEW w \in Writers, RetryAttempt(w) PROVE IInv'
  BY <1>8, RetryKeeps
<1>9. ASSUME NEW w \in Writers, RaiseOther(w) PROVE IInv'
  <2>1. call[w] \notin Recorded /\ pc[w] # "idle"
    BY <1>9 DEF RaiseOther, IInv, CallsInv, InAttempt
  <2> QED BY <1>9, <2>1, EndCallKeeps DEF RaiseOther
<1>10. CASE UNCHANGED vars
  <2>1. /\ ChainForm' /\ CheckpointCommitted'
        /\ Recorded' = Recorded
        /\ TailOf(log)' = TailOf(log)
    BY <1>10, DurableKept DEF vars
  <2> QED BY <1>10, <2>1
      DEF vars, IInv, TypeOK, OneLockHolder, LockHolders, RecordContinuesTail,
          CommittedRow, CallsInv, InAttempt, ExactlyOnce, RowType
<1> QED BY <1>1, <1>2, <1>3, <1>4, <1>5, <1>6, <1>7, <1>8, <1>9, <1>10 DEF Next, Step

\* The invariant holds in every behaviour of the writers.
THEOREM Invariance == Spec => []IInv
BY InitIInv, NextIInv, PTL DEF Spec

\* Type correctness.
THEOREM TypeCorrect == Spec => []TypeOK
BY Invariance, PTL DEF IInv

\* No interleaving of writers, retry or crash leaves a table that verify_chain
\* would find at fault.
THEOREM ChainStaysIntact == Spec => []ChainIntact
<1>1. IInv => ChainIntact
  BY ChainFormHasNoFaults DEF IInv
<1> QED BY <1>1, Invariance, PTL

\* The row to be inserted continues the current tail: the chain does not fork
\* and the PRIMARY KEY refuses no append.
THEOREM NoForks == Spec => []RecordContinuesTail
BY Invariance, PTL DEF IInv

\* A call has at most one record, whatever its retries.
THEOREM RecordsAreExactlyOnce == Spec => []ExactlyOnce
BY Invariance, PTL DEF IInv

\* The checkpoint names a committed record.
THEOREM CheckpointsAreCommitted == Spec => []CheckpointCommitted
BY Invariance, PTL DEF IInv

-----------------------------------------------------------------------------
(* One writer, as in a gateway process: what was acknowledged is covered.  *)

OneWriter == \A v, w \in Writers : v = w

\* A writer past its commit has written the newest row, and past its save the
\* checkpoint names that row.  (With two writers neither need hold.)
OwnRowIsNewest ==
    \A w \in Writers :
        /\ pc[w] \in {"save", "return"} =>
              log # << >> /\ record[w] = log[Len(log)]
        /\ pc[w] = "return" /\ HasStore => checkpoint = CheckpointOf(record[w])

CoverInv == OwnRowIsNewest /\ AckedCovered

\* Steps that touch neither table nor checkpoint, keep the writer before its
\* commit or end its call, and acknowledge nothing that is not covered.
LEMMA QuietKeepsCover ==
    ASSUME IInv, CoverInv, OneWriter, UNCHANGED <<log, checkpoint>>,
           NEW w \in Writers, pc'[w] \notin {"save", "return"},
           \A k \in DOMAIN log :
              /\ HasStore
              /\ outcome'[log[k].content] = "ok"
              /\ outcome[log[k].content] # "ok"
              => checkpoint.last_record_id >= k
    PROVE  CoverInv'
<1>1. OwnRowIsNewest'
  BY DEF OneWriter, OwnRowIsNewest
<1>2. AckedCovered'
  BY DEF CoverInv, AckedCovered
<1> QED BY <1>1, <1>2 DEF CoverInv

\* A call that ends acknowledges only what the checkpoint covers.
LEMMA EndKeepsCover ==
    ASSUME IInv, CoverInv, OneWriter, UNCHANGED <<log, checkpoint>>,
           NEW w \in Writers, NEW r \in {"ok", "write_error", "raised", "lost"},
           EndCall(w, r),
           r = "ok" /\ HasStore =>
              \A k \in DOMAIN log : checkpoint.last_record_id >= k
    PROVE  CoverInv'
<1>1. pc'[w] = "idle"
  BY DEF EndCall, Goto, IInv, TypeOK
<1>2. \A c \in Calls : outcome'[c] = outcome[c] \/ outcome'[c] = r
  BY DEF EndCall, IInv, TypeOK
<1>3. \A k \in DOMAIN log : log[k].content \in Calls
  BY DEF IInv, TypeOK, RowType
<1> QED BY <1>1, <1>2, <1>3, QuietKeepsCover

\* A row that was built and inserted by the one writer has the newest id.
LEMMA NewestId ==
    ASSUME IInv, OwnRowIsNewest, NEW w \in Writers, pc[w] \in {"save", "return"}
    PROVE  /\ record[w].id = Len(log)
           /\ \A k \in DOMAIN log : record[w].id >= k
<1>1. /\ Len(log) \in Nat /\ DOMAIN log = 1 .. Len(log)
      /\ log = << >> <=> Len(log) = 0
  BY TailFacts DEF IInv
<1>2. Len(log) \in DOMAIN log /\ record[w] = log[Len(log)]
  BY <1>1 DEF OwnRowIsNewest
<1>3. record[w].id = Len(log)
  BY <1>2 DEF IInv, ChainForm, Seal
<1> QED BY <1>1, <1>3

LEMMA CommitKeepsCover ==
    ASSUME IInv, CoverInv, OneWriter, NEW w \in Writers, InsertAndCommit(w)
    PROVE  CoverInv'
<1> DEFINE n == Len(log)
<1>0. TypeOK /\ ChainForm
  BY DEF IInv
<1>1. n \in Nat /\ DOMAIN log = 1 .. n
  BY <1>0, TailFacts
<1>2. /\ DOMAIN log' = 1 .. n + 1 /\ Len(log') = n + 1
      /\ \A k \in 1 .. n : log'[k] = log[k]
      /\ log'[n + 1] = record[w]
      /\ log' \in Seq({log'[k] : k \in DOMAIN log'})
  <2>1. log' = Append(log, record[w])
    BY DEF InsertAndCommit
  <2>2. log \in Seq({log[k] : k \in DOMAIN log})
    BY <1>0 DEF TypeOK
  <2> QED BY ONLY <2>1, <2>2, AppendRow
<1>3. log' # << >>
  <2>1. << >> \in Seq({}) /\ Len(<< >>) = 0
    BY EmptySeq
  <2> QED BY <1>1, <1>2, <2>1
<1>4. /\ pc'[w] = IF HasStore THEN "save" ELSE "return"
      /\ UNCHANGED <<checkpoint, record, outcome>>
  BY <1>0 DEF InsertAndCommit, Goto, TypeOK
<1>5. record[w].content = call[w] /\ outcome[call[w]] = "pending"
  <2>1. pc[w] = "insert" /\ RecordContinuesTail /\ CallsInv
    BY DEF InsertAndCommit, IInv
  <2>2. record[w] = Seal(AuditKey, TailOf(log).next_id, call[w], TailOf(log).prev_hash)
    BY <2>1 DEF RecordContinuesTail
  <2> QED BY <2>1, <2>2 DEF CallsInv, Seal
<1>6. OwnRowIsNewest'
  BY <1>2, <1>3, <1>4 DEF OneWriter, OwnRowIsNewest
<1>7. AckedCovered'
  BY <1>1, <1>2, <1>4, <1>5 DEF CoverInv, AckedCovered
<1> QED BY <1>6, <1>7 DEF CoverInv

LEMMA SaveKeepsCover ==
    ASSUME IInv, CoverInv, OneWriter, NEW w \in Writers, SaveCheckpoint(w)
    PROVE  CoverInv'
<1>1. \A k \in DOMAIN log : record[w].id >= k
  BY NewestId DEF CoverInv, SaveCheckpoint
<1>2. /\ checkpoint' = CheckpointOf(record[w])
      /\ UNCHANGED <<log, record, outcome>>
  BY DEF SaveCheckpoint
<1>3. OwnRowIsNewest'
  BY <1>2 DEF CoverInv, OwnRowIsNewest, OneWriter, SaveCheckpoint
<1>4. AckedCovered'
  BY <1>1, <1>2 DEF AckedCovered, CheckpointOf
<1> QED BY <1>3, <1>4 DEF CoverInv

LEMMA NextCover == IInv /\ CoverInv /\ OneWriter /\ [Next]_vars => CoverInv'
<1> SUFFICES ASSUME IInv, CoverInv, OneWriter, [Next]_vars PROVE CoverInv'
  OBVIOUS
<1>0. TypeOK
  BY DEF IInv
<1>1. ASSUME NEW w \in Writers, NEW c \in Calls, StartAppend(w, c) PROVE CoverInv'
  <2>1. pc'[w] = "begin" /\ UNCHANGED <<log, checkpoint>>
    BY <1>0, <1>1 DEF StartAppend, Goto, TypeOK
  <2>2. \A d \in Calls : outcome'[d] = outcome[d] \/ outcome'[d] = "pending"
    BY <1>0, <1>1 DEF StartAppend, TypeOK
  <2>3. \A k \in DOMAIN log : log[k].content \in Calls
    BY <1>0 DEF TypeOK, RowType
  <2> QED BY <2>1, <2>2, <2>3, QuietKeepsCover
<1>2. ASSUME NEW w \in Writers,
             BeginImmediate(w) \/ BuildRecord(w) \/ RetryAttempt(w)
      PROVE  CoverInv'
  <2>1. pc'[w] \notin {"save", "return"} /\ UNCHANGED <<log, checkpoint, outcome>>
    BY <1>0, <1>2 DEF BeginImmediate, BuildRecord, RetryAttempt, Goto, TypeOK
  <2> QED BY <2>1, QuietKeepsCover
<1>3. ASSUME NEW w \in Writers, InsertAndCommit(w) PROVE CoverInv'
  BY <1>3, CommitKeepsCover
<1>4. ASSUME NEW w \in Writers, SaveCheckpoint(w) PROVE CoverInv'
  BY <1>4, SaveKeepsCover
<1>5. ASSUME NEW w \in Writers,
             SaveFails(w) \/ GiveUp(w) \/ RaiseOther(w) \/ Crash(w)
      PROVE  CoverInv'
  <2>1. UNCHANGED <<log, checkpoint>>
    BY <1>5 DEF SaveFails, GiveUp, RaiseOther, Crash
  <2>2. EndCall(w, "write_error") \/ EndCall(w, "raised") \/ EndCall(w, "lost")
    BY <1>5 DEF SaveFails, GiveUp, RaiseOther, Crash
  <2> QED BY <2>1, <2>2, EndKeepsCover
<1>6. ASSUME NEW w \in Writers, ReturnRecord(w) PROVE CoverInv'
  <2>1. \A k \in DOMAIN log : record[w].id >= k
    BY <1>6, NewestId DEF ReturnRecord, CoverInv
  <2>2. HasStore => checkpoint.last_record_id = record[w].id
    BY <1>6 DEF ReturnRecord, CoverInv, OwnRowIsNewest, CheckpointOf
  <2>3. EndCall(w, "ok") /\ UNCHANGED <<log, checkpoint>>
    BY <1>6 DEF ReturnRecord
  <2> QED BY <2>1, <2>2, <2>3, EndKeepsCover
<1>7. CASE UNCHANGED vars
  BY <1>7 DEF vars, CoverInv, OwnRowIsNewest, AckedCovered
<1> QED BY <1>1, <1>2, <1>3, <1>4, <1>5, <1>6, <1>7 DEF Next, Step

\* Once append has returned to the only writer, the checkpoint is at its record
\* or a later one, whatever failed and however often the writer was restarted.
THEOREM OneWriterIsCovered ==
    ASSUME OneWriter
    PROVE  Spec => []AckedCovered
<1>1. Init => CoverInv
  <2>1. Init => DOMAIN log = {}
    <3>1. << >> \in Seq({}) /\ Len(<< >>) = 0
      BY EmptySeq
    <3> QED BY <3>1, LenProperties DEF Init
  <2> QED BY <2>1 DEF Init, CoverInv, OwnRowIsNewest, AckedCovered
<1>2. IInv /\ CoverInv /\ [Next]_vars => CoverInv'
  BY NextCover
<1>3. CoverInv => AckedCovered
  BY DEF CoverInv
<1> QED BY <1>1, <1>2, <1>3, Invariance, PTL DEF Spec

-----------------------------------------------------------------------------
(* AuditLogger implements the abstract ledger: initial states map to       *)
(* initial states, and every step to a step of the ledger or to none.      *)
(* (That calls are answered is liveness, and left to TLC.)                 *)

\* The abstract ledger of a state, as the refinement mapping defines it.
Contents == [k \in DOMAIN log |-> log[k].content]

\* The calls in the ledger are those that have a record in the table.
LEMMA LedgerFacts ==
    ASSUME IInv
    PROVE  /\ Contents \in Seq(Calls)
           /\ DOMAIN Contents = DOMAIN log
           /\ Len(Contents) = Len(log)
           /\ Ledger!Entries = Recorded
<1>1. TypeOK /\ ChainForm
  BY DEF IInv
<1>2. Len(log) \in Nat /\ DOMAIN log = 1 .. Len(log)
  BY <1>1, TailFacts
<1>3. \A k \in DOMAIN log : log[k].content \in Calls
  BY <1>1 DEF TypeOK, RowType
<1>4. Contents \in [1 .. Len(log) -> Calls]
  BY <1>2, <1>3 DEF Contents
<1>5. Contents \in Seq(Calls)
  BY <1>2, <1>4, SeqDef
<1>6. Len(Contents) = Len(log)
  BY <1>2, <1>4, <1>5, LenProperties
<1>7. Ledger!Entries = Recorded
  BY DEF Ledger!Entries, Recorded
<1> QED BY <1>5, <1>6, <1>7 DEF Contents

\* A commit appends its call to the ledger.
LEMMA CommitRecords ==
    ASSUME IInv, NEW w \in Writers, InsertAndCommit(w)
    PROVE  \E c \in Calls : Ledger!Record(c)
<1> DEFINE n == Len(log)
<1>0. TypeOK /\ ChainForm
  BY DEF IInv
<1>1. n \in Nat /\ DOMAIN log = 1 .. n
  BY <1>0, TailFacts
<1>2. /\ call[w] \in Calls
      /\ call[w] \notin Recorded
      /\ outcome[call[w]] = "pending"
      /\ UNCHANGED <<checkpoint, outcome>>
  BY <1>0 DEF InsertAndCommit, IInv, TypeOK, CallsInv, InAttempt
<1>3. record[w].content = call[w]
  <2>1. pc[w] = "insert" /\ RecordContinuesTail
    BY DEF InsertAndCommit, IInv
  <2>2. record[w] = Seal(AuditKey, TailOf(log).next_id, call[w], TailOf(log).prev_hash)
    BY <2>1 DEF RecordContinuesTail
  <2> QED BY <2>2 DEF Seal
<1>4. /\ DOMAIN log' = 1 .. n + 1
      /\ \A k \in 1 .. n : log'[k] = log[k]
      /\ log'[n + 1] = record[w]
  <2>1. log' = Append(log, record[w])
    BY DEF InsertAndCommit
  <2>2. log \in Seq({log[k] : k \in DOMAIN log})
    BY <1>0 DEF TypeOK
  <2> QED BY ONLY <2>1, <2>2, AppendRow
<1>5. Contents' = Append(Contents, call[w])
  <2> DEFINE s == Append(Contents, call[w])
  <2>1. Contents \in Seq(Calls) /\ Len(Contents) = n
    BY LedgerFacts
  <2>2. /\ s \in Seq(Calls) /\ Len(s) = n + 1
        /\ \A k \in 1 .. n : s[k] = Contents[k]
        /\ s[n + 1] = call[w]
    BY <1>2, <2>1, AppendProperties
  <2>3. s \in [1 .. n + 1 -> Calls]
    BY <2>2, LenProperties
  <2>4. \A k \in 1 .. n + 1 : s[k] = log'[k].content
    BY <1>1, <1>3, <1>4, <2>2 DEF Contents
  <2>5. Contents' = [k \in 1 .. n + 1 |-> log'[k].content]
    BY <1>4 DEF Contents
  <2> QED BY <2>3, <2>4, <2>5
<1>6. Ledger!Record(call[w])
  BY <1>2, <1>5, LedgerFacts DEF Ledger!Record, Contents
<1> QED BY <1>2, <1>6 DEF Ledger!Record

\* A save moves the mark to the entry of its own call.
LEMMA SaveMarks ==
    ASSUME IInv, NEW w \in Writers, SaveCheckpoint(w)
    PROVE  \E k \in DOMAIN Contents : Ledger!Mark(k)
<1>1. PICK k \in DOMAIN log : log[k] = record[w] /\ log[k].content = call[w]
  BY DEF IInv, CommittedRow, SaveCheckpoint
<1>2. record[w].id = k
  BY <1>1 DEF IInv, ChainForm, Seal
<1>3. outcome[call[w]] = "pending"
  BY DEF SaveCheckpoint, IInv, CallsInv
<1>4. checkpoint'.last_record_id = k /\ UNCHANGED <<log, outcome>>
  BY <1>2 DEF SaveCheckpoint, CheckpointOf
<1>5. k \in DOMAIN Contents /\ Contents[k] = call[w]
  BY <1>1 DEF Contents
<1>6. Ledger!Mark(k)
  BY <1>3, <1>4, <1>5 DEF Ledger!Mark, Contents
<1> QED BY <1>5, <1>6

\* A call that ends is answered, by what the table justifies.
LEMMA EndFinishes ==
    ASSUME IInv,
           NEW w \in Writers, pc[w] # "idle",
           NEW r \in {"ok", "write_error", "raised", "lost"},
           r = "ok" => call[w] \in Recorded,
           r = "raised" => call[w] \notin Recorded,
           EndCall(w, r),
           UNCHANGED <<log, checkpoint>>
    PROVE  \E c \in Calls : Ledger!Finish(c)
<1>1. call[w] \in Calls /\ outcome[call[w]] = "pending"
  BY DEF IInv, TypeOK, CallsInv
<1>2. outcome' = [outcome EXCEPT ![call[w]] = r]
  BY DEF EndCall
<1>3. Ledger!Finish(call[w])
  BY <1>1, <1>2, LedgerFacts DEF Ledger!Finish
<1> QED BY <1>1, <1>3

\* Every step of the writers is a step of the ledger or leaves it unchanged.
LEMMA StepSimulation == IInv /\ [Next]_vars => [Ledger!Next]_(Ledger!vars)
<1> SUFFICES ASSUME IInv, [Next]_vars PROVE [Ledger!Next]_(Ledger!vars)
  OBVIOUS
<1>1. ASSUME NEW w \in Writers, NEW c \in Calls, StartAppend(w, c)
      PROVE  Ledger!Next
  <2>1. Ledger!Submit(c)
    BY <1>1 DEF StartAppend, Ledger!Submit
  <2> QED BY <2>1 DEF Ledger!Next
<1>2. ASSUME NEW w \in Writers, InsertAndCommit(w) PROVE Ledger!Next
  BY <1>2, CommitRecords DEF Ledger!Next
<1>3. ASSUME NEW w \in Writers, SaveCheckpoint(w) PROVE Ledger!Next
  BY <1>3, SaveMarks DEF Ledger!Next, Contents
<1>4. ASSUME NEW w \in Writers, SaveFails(w) \/ GiveUp(w) \/ Crash(w)
      PROVE  Ledger!Next
  <2>1. pc[w] # "idle" /\ UNCHANGED <<log, checkpoint>>
    BY <1>4 DEF SaveFails, GiveUp, Crash, InAttempt
  <2>2. EndCall(w, "write_error") \/ EndCall(w, "lost")
    BY <1>4 DEF SaveFails, GiveUp, Crash
  <2> QED BY <2>1, <2>2, EndFinishes DEF Ledger!Next
<1>5. ASSUME NEW w \in Writers, ReturnRecord(w) PROVE Ledger!Next
  <2>1. call[w] \in Recorded
    BY <1>5 DEF ReturnRecord, IInv, CommittedRow, Recorded
  <2> QED BY <1>5, <2>1, EndFinishes DEF ReturnRecord, Ledger!Next
<1>6. ASSUME NEW w \in Writers, RaiseOther(w) PROVE Ledger!Next
  <2>1. call[w] \notin Recorded /\ pc[w] # "idle"
    BY <1>6 DEF RaiseOther, IInv, CallsInv, InAttempt
  <2> QED BY <1>6, <2>1, EndFinishes DEF RaiseOther, Ledger!Next
<1>7. ASSUME NEW w \in Writers,
             BeginImmediate(w) \/ BuildRecord(w) \/ RetryAttempt(w)
      PROVE  UNCHANGED Ledger!vars
  BY <1>7 DEF BeginImmediate, BuildRecord, RetryAttempt, Ledger!vars
<1>8. CASE UNCHANGED vars
  BY <1>8 DEF vars, Ledger!vars
<1> QED BY <1>1, <1>2, <1>3, <1>4, <1>5, <1>6, <1>7, <1>8 DEF Next, Step

\* The table starts as the empty ledger.
LEMMA InitSimulation == Init => Ledger!Init
<1> SUFFICES ASSUME Init PROVE Ledger!Init
  OBVIOUS
<1>1. log = << >> /\ DOMAIN log = {}
  <2>1. << >> \in Seq({}) /\ Len(<< >>) = 0
    BY EmptySeq
  <2> QED BY <2>1, LenProperties DEF Init
<1>2. Contents = << >>
  BY <1>1 DEF Contents
<1> QED BY <1>2 DEF Init, Ledger!Init, NoCheckpoint, Contents

\* The writers implement the append-only ledger: whatever their number, their
\* failures and crashes, records are appended one by one, each for a call that
\* is under way and has none, and results agree with the ledger.
THEOREM LoggerImplementsLedger == Spec => Ledger!Spec
BY InitSimulation, StepSimulation, Invariance, PTL DEF Spec, Ledger!Spec

-----------------------------------------------------------------------------
(***************************************************************************)
(* AuditReaders: the readers beside the writers                            *)
(***************************************************************************)

\* What a verifier waits with is no checkpoint or one of a committed record,
\* which the log, growing at its end only, never loses.
ExpectedIsCommitted == expected # NoCheckpoint => expected \in Checkpoints(log)

ReadersInv == IInv /\ ExpectedIsCommitted /\ NoFalseAlarm

\* A step of a writer keeps every checkpoint that could be in the store.
LEMMA CheckpointsKept ==
    ASSUME IInv, [Next]_vars
    PROVE  Checkpoints(log) \subseteq Checkpoints(log')
<1>1. log \in Seq({log[k] : k \in DOMAIN log})
  BY DEF IInv, TypeOK
<1>2. CASE log' = log
  BY <1>2
<1>3. CASE \E w \in Writers : log' = Append(log, record[w])
  <2>1. PICK w \in Writers : log' = Append(log, record[w])
    BY <1>3
  <2>2. \A k \in DOMAIN log : k \in DOMAIN log' /\ log'[k] = log[k]
    BY <1>1, <2>1, AppendRow
  <2> QED BY <2>2 DEF Checkpoints
<1>4. log' = log \/ \E w \in Writers : log' = Append(log, record[w])
  BY DEF Next, vars, Step, StartAppend, BeginImmediate, BuildRecord, InsertAndCommit,
         SaveCheckpoint, SaveFails, ReturnRecord, RetryAttempt, GiveUp, RaiseOther, Crash
<1> QED BY <1>2, <1>3, <1>4

\* The end of verify_chain, on a checkpoint of one of the rows or on none.
LEMMA TailIsNotInvalid ==
    ASSUME NEW rows, NEW cp, 0 \notin Ids(rows),
           cp # NoCheckpoint => cp \in Checkpoints(rows)
    PROVE  \E tail : VerifyTail(rows, cp) = Verdict("valid", Len(rows), 0, tail)
<1>1. CASE cp = NoCheckpoint
  <2>1. cp.last_record_id = 0
    BY <1>1 DEF NoCheckpoint
  <2>2. cp.last_record_id \notin Ids(rows)
    BY <2>1
  <2>3. cp \notin Checkpoints(rows)
    BY <2>2 DEF Checkpoints, CheckpointOf, Ids
  <2>4. VerifyTail(rows, cp) = Verdict("valid", Len(rows), 0, FALSE)
    BY <1>1, <2>2, <2>3 DEF VerifyTail
  <2> QED BY <2>4
<1>2. CASE cp # NoCheckpoint
  <2>1. cp \in Checkpoints(rows) /\ cp.last_record_id \in Ids(rows)
    BY <1>2 DEF Checkpoints, Ids, CheckpointOf
  <2>2. VerifyTail(rows, cp) =
          Verdict("valid", Len(rows), 0, cp.last_record_id = rows[Len(rows)].id)
    BY <1>2, <2>1 DEF VerifyTail
  <2> QED BY <2>2
<1> QED BY <1>1, <1>2

\* verify_with_store on an intact table and a checkpoint of one of its rows.
LEMMA IntactIsNotInvalid ==
    ASSUME NEW rows, NEW has_store \in BOOLEAN, NEW cp,
           Faults(AuditKey, rows) = {}, 0 \notin Ids(rows),
           cp # NoCheckpoint => cp \in Checkpoints(rows)
    PROVE  VerifyWithStore(AuditKey, rows, has_store, cp).status # "invalid"
<1>1. ASSUME NEW c, c # NoCheckpoint => c \in Checkpoints(rows)
      PROVE  \E st, checked, tail :
                 /\ st \in {"empty", "valid"}
                 /\ VerifyChain(AuditKey, rows, c) = Verdict(st, checked, 0, tail)
  <2>1. CASE rows = << >>
    <3>1. c = NoCheckpoint
      BY <1>1, <2>1 DEF Checkpoints
    <3>2. VerifyChain(AuditKey, rows, c) = Verdict("empty", 0, 0, FALSE)
      BY <2>1, <3>1 DEF VerifyChain
    <3>3. PICK tail : VerifyChain(AuditKey, rows, c) = Verdict("empty", 0, 0, tail)
      BY <3>2
    <3> QED BY <3>3
  <2>2. CASE rows # << >>
    <3>1. VerifyChain(AuditKey, rows, c) = VerifyTail(rows, c)
      BY <2>2 DEF VerifyChain
    <3>2. PICK tail : VerifyTail(rows, c) = Verdict("valid", Len(rows), 0, tail)
      BY <1>1, TailIsNotInvalid
    <3> QED BY <3>1, <3>2
  <2> QED BY <2>1, <2>2
<1> DEFINE c == IF has_store THEN cp ELSE NoCheckpoint
           result == VerifyChain(AuditKey, rows, c)
<1>2. PICK st, checked, tail :
          st \in {"empty", "valid"} /\ result = Verdict(st, checked, 0, tail)
  BY <1>1
<1>3. VerifyWithStore(AuditKey, rows, has_store, cp) =
        IF has_store /\ cp = NoCheckpoint /\ result.status = "valid"
          THEN [result EXCEPT !.status = "unverifiable"]
          ELSE result
  BY DEF VerifyWithStore
<1>4. result.status # "invalid" /\ [result EXCEPT !.status = "unverifiable"].status # "invalid"
  <2> HIDE DEF result
  <2> QED BY <1>2 DEF Verdict
<1> HIDE DEF result
<1> QED BY <1>3, <1>4

LEMMA InitReadersInv == ReadersInit => ReadersInv
BY InitIInv DEF ReadersInit, ReadersInv, ExpectedIsCommitted, NoFalseAlarm, NoVerdict, Verdict

LEMMA NextReadersInv == ReadersInv /\ [ReadersNext]_loggerReaderVars => ReadersInv'
<1> SUFFICES ASSUME ReadersInv, [ReadersNext]_loggerReaderVars PROVE ReadersInv'
  OBVIOUS
<1>1. [Next]_vars
  BY DEF ReadersNext, loggerReaderVars, vars, LoadCheckpoint, LoadUnreadable, CreateCheckpoint,
         ReadAndVerify, ReadEntries, ReadCount, NextPage
<1>2. IInv'
  BY <1>1, NextIInv DEF ReadersInv
<1>3. Checkpoints(log) \subseteq Checkpoints(log')
  BY <1>1, CheckpointsKept DEF ReadersInv
<1>4. CheckpointCommitted /\ ChainIntact
  BY ChainFormHasNoFaults DEF ReadersInv, IInv
<1>5. CASE UNCHANGED <<expected, verdict>>
  BY <1>2, <1>3, <1>5 DEF ReadersInv, ExpectedIsCommitted, NoFalseAlarm
<1>6. CASE LoadCheckpoint
  BY <1>2, <1>4, <1>6 DEF LoadCheckpoint, CheckpointCommitted, ReadersInv,
                          ExpectedIsCommitted, NoFalseAlarm, vars
<1>7. CASE LoadUnreadable
  BY <1>2, <1>7 DEF LoadUnreadable, ReadersInv, ExpectedIsCommitted, NoFalseAlarm
<1>8. CASE CreateCheckpoint
  <2>1. Len(log) \in DOMAIN log
    BY <1>8, TailFacts DEF CreateCheckpoint, ReadersInv, IInv
  <2>2. expected' \in Checkpoints(log) /\ log' = log /\ verdict' = verdict
    BY <1>8, <2>1 DEF CreateCheckpoint, Checkpoints, Last, vars
  <2> QED BY <1>2, <2>2 DEF ReadersInv, ExpectedIsCommitted, NoFalseAlarm
<1>9. CASE ReadAndVerify
  <2> DEFINE has_store == HasStore \/ expected # NoCheckpoint
  <2>1. 0 \notin Ids(log)
    BY TailFacts DEF ReadersInv, IInv, ChainForm, Seal, Ids
  <2>2. VerifyWithStore(AuditKey, log, has_store, expected).status # "invalid"
    BY <1>4, <2>1, IntactIsNotInvalid DEF ReadersInv, ExpectedIsCommitted, ChainIntact
  <2>3. verdict'.status # "invalid"
    BY <1>9, <2>2 DEF ReadAndVerify
  <2> QED BY <1>2, <1>9, <2>3 DEF ReadAndVerify, ReadersInv, ExpectedIsCommitted, NoFalseAlarm
<1>10. ReadEntries \/ ReadCount \/ NextPage \/ (Next /\ UNCHANGED readerVars) \/ UNCHANGED loggerReaderVars
         => UNCHANGED <<expected, verdict>>
  BY DEF ReadEntries, ReadCount, NextPage, readerVars, loggerReaderVars
<1> QED BY <1>5, <1>6, <1>7, <1>8, <1>9, <1>10 DEF ReadersNext

\* The invariant of the verifier holds beside the writers.
THEOREM ReadersInvariance == ReadersSpec => []ReadersInv
<1>1. ReadersInit => ReadersInv
  BY InitReadersInv
<1>2. ReadersInv /\ [ReadersNext]_loggerReaderVars => ReadersInv'
  BY NextReadersInv
<1> QED BY <1>1, <1>2, PTL DEF ReadersSpec

\* A log that only append has written is never reported as invalid, for any
\* number of writers, whenever the verifier reads the checkpoint and the rows.
THEOREM IntactLogsAreNotAccused == ReadersSpec => []NoFalseAlarm
BY ReadersInvariance, PTL DEF ReadersInv

-----------------------------------------------------------------------------
(* The pager                                                               *)

\* The records read are those of the log at the offset asked for, also after
\* the log has grown.
PageAt(rows, q, p) ==
    /\ q.limit \in Nat /\ q.offset \in Nat
    /\ Len(p) \in Nat /\ Len(p) <= q.limit
    /\ p = SubSeq(rows, q.offset + 1, q.offset + Len(p))
    /\ p # << >> => q.offset + Len(p) <= Len(rows)

PagerInv ==
    /\ ppc \in {"idle", "counting", "answered"}
    /\ ppc # "idle" => PageAt(log, query, page)
    /\ ppc = "answered" => (page # << >> => query.offset + Len(page) <= total)

\* The part of a sequence does not change when something is appended.
LEMMA PartOfLonger ==
    ASSUME NEW S, NEW s \in Seq(S), NEW e \in S, NEW m \in Nat \ {0}, NEW n \in Nat,
           n <= Len(s)
    PROVE  SubSeq(Append(s, e), m, n) = SubSeq(s, m, n)
<1> DEFINE t == Append(s, e)
<1>1. /\ t \in Seq(S) /\ Len(s) \in Nat /\ Len(t) = Len(s) + 1
      /\ \A k \in 1 .. Len(s) : t[k] = s[k] /\ s[k] \in S
  BY AppendProperties, LenProperties, ElementOfSeq
<1> HIDE DEF t
<1>2. \A k \in m .. n : t[k] = s[k] /\ s[k] \in S
  BY <1>1
<1>3. /\ SubSeq(s, m, n) \in Seq(S)
      /\ Len(SubSeq(s, m, n)) = IF m <= n THEN n - m + 1 ELSE 0
      /\ \A k \in 1 .. n - m + 1 : SubSeq(s, m, n)[k] = s[m + k - 1]
  BY <1>2, SubSeqProperties
<1>4. /\ SubSeq(t, m, n) \in Seq(S)
      /\ Len(SubSeq(t, m, n)) = IF m <= n THEN n - m + 1 ELSE 0
      /\ \A k \in 1 .. n - m + 1 : SubSeq(t, m, n)[k] = t[m + k - 1]
  BY <1>2, SubSeqProperties
<1>5. \A k \in 1 .. Len(SubSeq(s, m, n)) : SubSeq(t, m, n)[k] = SubSeq(s, m, n)[k]
  <2>1. SUFFICES ASSUME NEW k \in 1 .. n - m + 1, m <= n
                 PROVE  SubSeq(t, m, n)[k] = SubSeq(s, m, n)[k]
    BY <1>3
  <2>2. m + k - 1 \in m .. n
    BY <2>1
  <2> QED BY <1>2, <1>3, <1>4, <2>1, <2>2
<1>6. SubSeq(t, m, n) = SubSeq(s, m, n)
  <2> DEFINE a == SubSeq(t, m, n)
             b == SubSeq(s, m, n)
  <2>1. a \in Seq(S) /\ b \in Seq(S) /\ Len(a) = Len(b) /\ \A k \in 1 .. Len(a) : a[k] = b[k]
    BY <1>3, <1>4, <1>5
  <2> HIDE DEF a, b
  <2>2. a = b
    BY <2>1, SeqEqual
  <2> QED BY <2>2 DEF a, b
<1> QED BY <1>6 DEF t

\* The log grows at its end or stays as it is.
LEMMA LogGrows ==
    ASSUME [Next]_vars
    PROVE  log' = log \/ \E w \in Writers : log' = Append(log, record[w])
BY DEF Next, vars, Step, StartAppend, BeginImmediate, BuildRecord, InsertAndCommit,
       SaveCheckpoint, SaveFails, ReturnRecord, RetryAttempt, GiveUp, RaiseOther, Crash

LEMMA PageStays ==
    ASSUME IInv, [Next]_vars, NEW q, NEW p, PageAt(log, q, p)
    PROVE  PageAt(log', q, p)
<1>1. CASE log' = log
  BY <1>1
<1>2. CASE \E w \in Writers : log' = Append(log, record[w])
  <2>1. PICK e : log' = Append(log, e)
    BY <1>2
  <2> DEFINE S == {log[k] : k \in DOMAIN log} \cup {e}
  <2>2. log \in Seq(S) /\ e \in S /\ Len(log) \in Nat /\ Len(log') = Len(log) + 1
    <3>1. log \in Seq({log[k] : k \in DOMAIN log})
      BY DEF IInv, TypeOK
    <3>2. log \in Seq(S)
      BY <3>1, SeqMonotonic
    <3> QED BY <2>1, <3>2, AppendProperties, LenProperties
  <2>3. PICK m, n : m = q.offset + 1 /\ n = q.offset + Len(p)
    OBVIOUS
  <2>4. q.offset \in Nat /\ Len(p) \in Nat /\ m \in Nat \ {0} /\ n \in Nat
    <3>1. q.offset \in Nat /\ Len(p) \in Nat
      BY DEF PageAt
    <3> QED BY <2>3, <3>1
  <2>5. CASE p # << >>
    <3>1. n <= Len(log)
      BY <2>3, <2>5 DEF PageAt
    <3>2. SubSeq(log', m, n) = SubSeq(log, m, n)
      <4> HIDE DEF S
      <4> QED BY <2>1, <2>2, <2>4, <3>1, PartOfLonger
    <3>3. n <= Len(log')
      BY <2>2, <2>4, <3>1
    <3> QED BY <2>3, <3>2, <3>3 DEF PageAt
  <2>6. CASE p = << >>
    <3>1. n = q.offset /\ n < m
      BY <2>3, <2>6, EmptySeq DEF PageAt
    <3>2. SubSeq(log', m, n) = << >>
      BY <2>4, <3>1, SubSeqEmpty
    <3> QED BY <2>3, <2>6, <3>2 DEF PageAt
  <2> QED BY <2>5, <2>6
<1> QED BY <1>1, <1>2, LogGrows

\* entries: the rows from the offset, at most limit of them.
LEMMA PageRead ==
    ASSUME IInv, ReadEntries
    PROVE  PageAt(log, query', page')
<1>1. PICK limit \in PageLimits, offset \in 0 .. Cardinality(Calls) :
          /\ query' = [limit |-> limit, offset |-> offset]
          /\ page' = SubSeq(log, offset + 1, Min({offset + limit, Len(log)}))
  BY DEF ReadEntries
<1>2. limit \in Nat /\ offset \in Nat
  BY PageAssumption
<1> DEFINE S == {log[k] : k \in DOMAIN log}
<1>3. log \in Seq(S) /\ Len(log) \in Nat /\ DOMAIN log = 1 .. Len(log)
        /\ \A k \in 1 .. Len(log) : log[k] \in S
  <2>1. log \in Seq(S)
    BY DEF IInv, TypeOK
  <2> QED BY <2>1, LenProperties
<1> HIDE DEF S
<1>4. PICK last \in Nat :
         /\ last = Min({offset + limit, Len(log)})
         /\ last <= offset + limit /\ last <= Len(log)
  <2>1. PICK a, b : a = offset + limit /\ b = Len(log) /\ a \in Nat /\ b \in Nat
    BY <1>2, <1>3
  <2>2. \E x \in {a, b} : \A y \in {a, b} : x <= y
    BY <2>1
  <2>3. Min({a, b}) \in {a, b} /\ \A y \in {a, b} : Min({a, b}) <= y
    BY <2>2 DEF Min
  <2> QED BY <2>1, <2>3
<1>5. PICK m \in Nat \ {0} : m = offset + 1
  BY <1>2
<1>6. page' = SubSeq(log, m, last)
  BY <1>1, <1>4, <1>5
<1>7. Len(SubSeq(log, m, last)) = IF m <= last THEN last - m + 1 ELSE 0
  <2>1. \A k \in m .. last : log[k] \in S
    BY <1>3, <1>4
  <2> QED BY <2>1, SubSeqProperties
<1>8. query'.limit = limit /\ query'.offset = offset
  BY <1>1
<1>9. CASE m <= last
  <2>1. Len(page') = last - offset /\ offset + Len(page') = last
    BY <1>2, <1>5, <1>6, <1>7, <1>9
  <2>2. PICK n \in Nat : n = Len(page') /\ n <= limit /\ n = last - offset
    BY <1>2, <1>4, <1>5, <1>9, <2>1
  <2>3. offset + n = last /\ page' = SubSeq(log, offset + 1, offset + n)
    BY <1>2, <1>5, <1>6, <2>2
  <2> QED BY <1>2, <1>4, <1>8, <2>2, <2>3 DEF PageAt
<1>10. CASE ~ (m <= last)
  <2>1. page' = << >>
    BY <1>6, <1>10, SubSeqEmpty
  <2>2. Len(page') = 0
    BY <2>1
  <2>3. SubSeq(log, offset + 1, offset + 0) = << >>
    BY <1>2, SubSeqEmpty
  <2> QED BY <1>2, <1>8, <2>1, <2>2, <2>3 DEF PageAt
<1> QED BY <1>9, <1>10

LEMMA NextPagerInv == IInv /\ PagerInv /\ [ReadersNext]_loggerReaderVars => PagerInv'
<1> SUFFICES ASSUME IInv, PagerInv, [ReadersNext]_loggerReaderVars PROVE PagerInv'
  OBVIOUS
<1>1. CASE ReadEntries
  <2>1. ppc' = "counting" /\ log' = log
    BY <1>1 DEF ReadEntries, vars
  <2> QED BY <1>1, <2>1, PageRead DEF PagerInv
<1>2. CASE ReadCount
  <2>1. /\ ppc = "counting" /\ ppc' = "answered" /\ total' = Len(log)
        /\ UNCHANGED <<log, query, page>>
    BY <1>2 DEF ReadCount, vars
  <2> QED BY <2>1 DEF PagerInv, PageAt
<1>3. CASE NextPage
  BY <1>3 DEF NextPage, PagerInv
<1>4. CASE UNCHANGED <<ppc, query, page, total>>
  <2>1. [Next]_vars
    BY DEF ReadersNext, loggerReaderVars, vars, LoadCheckpoint, LoadUnreadable, CreateCheckpoint,
           ReadAndVerify, ReadEntries, ReadCount, NextPage
  <2>2. ppc # "idle" => PageAt(log', query, page)
    BY <2>1, PageStays DEF PagerInv
  <2> QED BY <1>4, <2>2 DEF PagerInv
<1>5. (Next /\ UNCHANGED readerVars) \/ LoadCheckpoint \/ LoadUnreadable
        \/ CreateCheckpoint \/ ReadAndVerify \/ UNCHANGED loggerReaderVars
         => UNCHANGED <<ppc, query, page, total>>
  BY DEF readerVars, loggerReaderVars, LoadCheckpoint, LoadUnreadable, CreateCheckpoint, ReadAndVerify
<1> QED BY <1>1, <1>2, <1>3, <1>4, <1>5 DEF ReadersNext

\* A page and its total are read from two snapshots, and still the page is at
\* its offset, no longer than asked, and within the total.
THEOREM PagesAreConsistent == ReadersSpec => []PageConsistent
<1>1. ReadersInit => PagerInv
  BY DEF ReadersInit, PagerInv
<1>2. ReadersInv => IInv
  BY DEF ReadersInv
<1>3. IInv /\ PagerInv /\ [ReadersNext]_loggerReaderVars => PagerInv'
  BY NextPagerInv
<1>4. PagerInv => PageConsistent
  BY DEF PagerInv, PageAt, PageConsistent
<1> QED BY <1>1, <1>2, <1>3, <1>4, ReadersInvariance, PTL DEF ReadersSpec

-----------------------------------------------------------------------------
(***************************************************************************)
(* Deployment: the processes around the writers                            *)
(***************************************************************************)

Stages == {"new", "arrived", "awaiting", "resumed", "appending", "answered", "lost"}

DeploymentTypes ==
    /\ stage \in [Calls -> Stages]
    /\ home \in [Calls -> {<< >>} \cup {<<p>> : p \in Writers}]
    /\ ready \in [Writers -> Seq(Calls)]
    /\ running \in [Writers -> Calls \cup {NoCall}]
    /\ intent \in [Calls -> {"none", "refused", "failed", "sealed"}]
    /\ status \in [Calls -> {0, 200, 400, 500, 502}]
    /\ entry = [c \in Calls |-> entry[c]]
    /\ clock \in Nat
    /\ stamp \in [Calls -> Nat]
    /\ preceded \in [Calls -> SUBSET Calls]

\* A queue holds requests of its own process that wait for the loop, each once.
QueuesInv ==
    \A p \in Writers :
        /\ \A k \in DOMAIN ready[p] :
              stage[ready[p][k]] \in {"arrived", "resumed"} /\ home[ready[p][k]] = <<p>>
        /\ \A j, k \in DOMAIN ready[p] : ready[p][j] = ready[p][k] => j = k

\* A request that waits for the loop of its process is in its queue.
WaitingInv ==
    \A p \in Writers : \A c \in Calls :
        stage[c] \in {"arrived", "resumed"} /\ home[c] = <<p>>
          => \E k \in DOMAIN ready[p] : ready[p][k] = c

\* A loop executes the one handler of its process that is in append.
RunningInv ==
    /\ \A c \in Calls : stage[c] = "new" <=> home[c] = << >>
    /\ \A p \in Writers : \A c \in Calls :
          running[p] = c <=> stage[c] = "appending" /\ home[c] = <<p>>
    /\ \A p \in Writers : pc[p] # "idle" => running[p] = call[p]

\* append is called once, and its handler answers after it, with what it did.
AnswersInv ==
    /\ \A c \in Calls :
          /\ stage[c] \in {"new", "arrived", "awaiting", "resumed"} => outcome[c] = "none"
          /\ stage[c] # "answered" => status[c] = 0
          /\ stage[c] = "appending" => intent[c] \in {"refused", "failed", "sealed"}
    /\ \A p \in Writers : running[p] # NoCall /\ pc[p] = "idle" =>
          outcome[running[p]] \in {"ok", "write_error", "raised"}

\* What an append returned has the id of its call's record.
EntryInv ==
    \A c \in Calls : outcome[c] = "ok" =>
        /\ entry[c] \in DOMAIN log
        /\ log[entry[c]].id = entry[c] /\ log[entry[c]].content = c

\* What precedes a request was answered, and is not the request itself.
PrecededInv ==
    \A c \in Calls : c \notin preceded[c] /\ \A d \in preceded[c] : status[d] = 200

\* The handler a loop executes has the latest stamp of its process's records.
StampInv ==
    /\ \A c \in Calls : stamp[c] <= clock
    /\ \A p \in Writers : running[p] # NoCall =>
          \A c \in Recorded \ {running[p]} : home[c] = <<p>> => stamp[c] < stamp[running[p]]

DInv ==
    /\ IInv /\ DeploymentTypes
    /\ QueuesInv /\ WaitingInv /\ RunningInv /\ AnswersInv
    /\ EntryInv /\ EntryIdNamesRecord
    /\ PrecededInv /\ RealTimeOrder
    /\ StampInv /\ StampsFollowIds

-----------------------------------------------------------------------------
(* The operators and the queues.                                           *)

\* What the invariant says of the table: a record is at the position of its id.
LEMMA TableFacts ==
    ASSUME DInv
    PROVE  /\ Len(log) \in Nat /\ DOMAIN log = 1 .. Len(log)
           /\ \A k \in DOMAIN log : log[k].id = k /\ log[k].content \in Calls
           /\ Recorded \subseteq Calls
<1>1. TypeOK /\ ChainForm
  BY DEF DInv, IInv
<1>2. Len(log) \in Nat /\ DOMAIN log = 1 .. Len(log)
  BY <1>1, TailFacts
<1>3. \A k \in DOMAIN log : log[k].id = k /\ log[k].content \in Calls
  BY <1>1 DEF ChainForm, Seal, TypeOK, RowType
<1> QED BY <1>2, <1>3 DEF Recorded

\* A request whose handler has not come to its append has no record.
LEMMA Unstarted ==
    ASSUME DInv, NEW c \in Calls, stage[c] \in {"new", "arrived", "awaiting", "resumed"}
    PROVE  /\ outcome[c] = "none" /\ status[c] = 0 /\ c \notin Recorded
           /\ \A k \in DOMAIN log : log[k].content # c
<1>1. outcome[c] = "none" /\ status[c] = 0
  BY DEF DInv, AnswersInv
<1>2. c \notin Recorded
  BY <1>1 DEF DInv, IInv, ExactlyOnce
<1> QED BY <1>1, <1>2 DEF Recorded

\* Taking the first request leaves the others in their queues.
LEMMA TakenFromQueue ==
    ASSUME DInv, NEW p \in Writers, NEW c \in Calls, NEW label \in {"arrived", "resumed"},
           TakesFirst(p, c, label)
    PROVE  /\ running[p] = NoCall /\ stage[c] = label /\ home[c] = <<p>>
           /\ ready' \in [Writers -> Seq(Calls)]
           /\ \A q \in Writers :
                 /\ \A k \in DOMAIN ready'[q] :
                       /\ ready'[q][k] # c /\ home[ready'[q][k]] = <<q>>
                       /\ stage[ready'[q][k]] \in {"arrived", "resumed"}
                 /\ \A j, k \in DOMAIN ready'[q] : ready'[q][j] = ready'[q][k] => j = k
<1>1. /\ running[p] = NoCall /\ stage[c] = label
      /\ ready[p] # << >> /\ Head(ready[p]) = c
      /\ ready' = [ready EXCEPT ![p] = Tail(@)]
      /\ ready \in [Writers -> Seq(Calls)]
  BY DEF TakesFirst, DInv, DeploymentTypes
<1>2. \A q \in Writers :
          /\ \A k \in DOMAIN ready[q] :
                stage[ready[q][k]] \in {"arrived", "resumed"} /\ home[ready[q][k]] = <<q>>
          /\ \A j, k \in DOMAIN ready[q] : ready[q][j] = ready[q][k] => j = k
  BY DEF DInv, QueuesInv
<1> DEFINE s == ready[p]
<1>3. /\ s \in Seq(Calls) /\ Len(s) \in Nat /\ DOMAIN s = 1 .. Len(s)
      /\ 1 \in DOMAIN s /\ s[1] = c
      /\ Tail(s) \in Seq(Calls) /\ Len(Tail(s)) = Len(s) - 1
      /\ \A k \in 1 .. Len(s) - 1 : Tail(s)[k] = s[k + 1]
  BY <1>1, EmptySeq, HeadTailProperties, LenProperties
<1>4. \A k \in DOMAIN Tail(s) : k \in Nat /\ k + 1 \in DOMAIN s /\ k + 1 # 1 /\ Tail(s)[k] = s[k + 1]
  BY <1>3, LenProperties
<1>5. home[c] = <<p>>
  BY <1>2, <1>3
<1>6. ready'[p] = Tail(s) /\ \A q \in Writers \ {p} : ready'[q] = ready[q]
  BY <1>1
<1>7. ready' \in [Writers -> Seq(Calls)]
  BY <1>1, <1>3
<1>8. ASSUME NEW q \in Writers, NEW k \in DOMAIN ready'[q]
      PROVE  /\ ready'[q][k] # c /\ home[ready'[q][k]] = <<q>>
             /\ stage[ready'[q][k]] \in {"arrived", "resumed"}
  <2>1. CASE q = p
    <3>1. PICK i \in DOMAIN ready[p] : i # 1 /\ ready'[q][k] = ready[p][i]
      BY <1>4, <1>6, <1>8, <2>1
    <3>2. /\ home[ready[p][i]] = <<p>> /\ stage[ready[p][i]] \in {"arrived", "resumed"}
          /\ ready[p][i] # ready[p][1]
      BY <1>2, <1>3, <3>1
    <3> QED BY <1>3, <2>1, <3>1, <3>2
  <2>2. CASE q # p
    <3>1. <<q>> # <<p>>
      BY <2>2
    <3> QED BY <1>2, <1>5, <1>6, <1>8, <2>2, <3>1
  <2> QED BY <2>1, <2>2
<1>9. ASSUME NEW q \in Writers, NEW j \in DOMAIN ready'[q], NEW k \in DOMAIN ready'[q],
             ready'[q][j] = ready'[q][k]
      PROVE  j = k
  <2>1. CASE q = p
    <3>1. /\ j \in Nat /\ j + 1 \in DOMAIN s /\ ready'[q][j] = s[j + 1]
          /\ k \in Nat /\ k + 1 \in DOMAIN s /\ ready'[q][k] = s[k + 1]
      BY <1>4, <1>6, <1>9, <2>1
    <3>2. j + 1 = k + 1
      BY <1>2, <1>9, <3>1
    <3> QED BY <3>1, <3>2
  <2>2. CASE q # p
    BY <1>2, <1>6, <1>9, <2>2
  <2> QED BY <2>1, <2>2
<1> QED BY <1>1, <1>5, <1>7, <1>8, <1>9

\* A request that was in no queue is put at the end of one.
LEMMA PutInQueue ==
    ASSUME DInv, NEW p \in Writers, NEW c \in Calls, stage[c] \notin {"arrived", "resumed"},
           ready' = [ready EXCEPT ![p] = Append(@, c)]
    PROVE  /\ ready' \in [Writers -> Seq(Calls)]
           /\ \A q \in Writers :
                 /\ \A k \in DOMAIN ready'[q] :
                       \/ ready'[q][k] = c /\ q = p
                       \/ /\ ready'[q][k] # c /\ home[ready'[q][k]] = <<q>>
                          /\ stage[ready'[q][k]] \in {"arrived", "resumed"}
                 /\ \A j, k \in DOMAIN ready'[q] : ready'[q][j] = ready'[q][k] => j = k
<1>1. ready \in [Writers -> Seq(Calls)]
  BY DEF DInv, DeploymentTypes
<1>2. \A q \in Writers :
          /\ \A k \in DOMAIN ready[q] :
                stage[ready[q][k]] \in {"arrived", "resumed"} /\ home[ready[q][k]] = <<q>>
          /\ \A j, k \in DOMAIN ready[q] : ready[q][j] = ready[q][k] => j = k
  BY DEF DInv, QueuesInv
<1> DEFINE s == ready[p]
           t == Append(s, c)
<1>3. /\ s \in Seq(Calls) /\ Len(s) \in Nat /\ DOMAIN s = 1 .. Len(s)
      /\ t \in Seq(Calls) /\ Len(t) = Len(s) + 1 /\ t[Len(s) + 1] = c
      /\ \A k \in 1 .. Len(s) : t[k] = s[k]
  BY <1>1, AppendProperties, LenProperties
<1>4. DOMAIN t = 1 .. (Len(s) + 1)
  BY <1>3, LenProperties
<1>5. \A k \in DOMAIN t :
          (k \in DOMAIN s /\ t[k] = s[k]) \/ (k = Len(s) + 1 /\ t[k] = c)
  BY <1>3, <1>4
<1>6. ready'[p] = t /\ \A q \in Writers \ {p} : ready'[q] = ready[q]
  BY <1>1
<1>7. ready' \in [Writers -> Seq(Calls)]
  BY <1>1, <1>3
<1>8. \A q \in Writers : \A k \in DOMAIN ready[q] : ready[q][k] # c
  BY <1>2
<1>9. ASSUME NEW q \in Writers, NEW k \in DOMAIN ready'[q]
      PROVE  \/ ready'[q][k] = c /\ q = p
             \/ /\ ready'[q][k] # c /\ home[ready'[q][k]] = <<q>>
                /\ stage[ready'[q][k]] \in {"arrived", "resumed"}
  <2>1. CASE q = p
    <3>1. CASE ready'[q][k] = c
      BY <2>1, <3>1
    <3>2. CASE ready'[q][k] # c
      <4>1. k \in DOMAIN ready[p] /\ ready'[q][k] = ready[p][k]
        BY <1>5, <1>6, <1>9, <2>1, <3>2
      <4> QED BY <1>2, <2>1, <3>2, <4>1
    <3> QED BY <3>1, <3>2
  <2>2. CASE q # p
    BY <1>2, <1>6, <1>8, <1>9, <2>2
  <2> QED BY <2>1, <2>2
<1>10. ASSUME NEW q \in Writers, NEW j \in DOMAIN ready'[q], NEW k \in DOMAIN ready'[q],
              ready'[q][j] = ready'[q][k]
       PROVE  j = k
  <2>1. CASE q = p
    BY <1>2, <1>5, <1>6, <1>8, <1>10, <2>1
  <2>2. CASE q # p
    BY <1>2, <1>6, <1>10, <2>2
  <2> QED BY <2>1, <2>2
<1> QED BY <1>7, <1>9, <1>10

\* Taking the first request drops no other from its queue.
LEMMA WaitingAfterTaking ==
    ASSUME DInv, NEW p \in Writers, NEW c \in Calls, NEW label \in {"arrived", "resumed"},
           TakesFirst(p, c, label), home' = home, stage'[c] \notin {"arrived", "resumed"},
           \A d \in Calls \ {c} : stage'[d] = stage[d]
    PROVE  WaitingInv'
<1> DEFINE s == ready[p]
<1>1. /\ s # << >> /\ Head(s) = c
      /\ ready' = [ready EXCEPT ![p] = Tail(@)]
      /\ ready \in [Writers -> Seq(Calls)]
  BY DEF TakesFirst, DInv, DeploymentTypes
<1>2. /\ Len(s) \in Nat /\ DOMAIN s = 1 .. Len(s) /\ s[1] = c
      /\ DOMAIN Tail(s) = 1 .. Len(s) - 1
      /\ \A k \in 1 .. Len(s) - 1 : Tail(s)[k] = s[k + 1]
  BY <1>1, EmptySeq, HeadTailProperties, LenProperties
<1>3. ready'[p] = Tail(s) /\ \A q \in Writers \ {p} : ready'[q] = ready[q]
  BY <1>1
<1>4. ASSUME NEW q \in Writers, NEW d \in Calls,
             stage'[d] \in {"arrived", "resumed"}, home[d] = <<q>>
      PROVE  \E k \in DOMAIN ready'[q] : ready'[q][k] = d
  <2>1. d # c /\ stage[d] \in {"arrived", "resumed"}
    BY <1>4
  <2>2. PICK k \in DOMAIN ready[q] : ready[q][k] = d
    BY <1>4, <2>1 DEF DInv, WaitingInv
  <2>3. CASE q = p
    <3>1. k \in 1 .. Len(s) /\ k # 1
      BY <1>2, <2>1, <2>2, <2>3
    <3>2. k - 1 \in 1 .. Len(s) - 1 /\ (k - 1) + 1 = k
      BY <1>2, <3>1
    <3>3. k - 1 \in DOMAIN ready'[q] /\ ready'[q][k - 1] = d
      BY <1>2, <1>3, <2>2, <2>3, <3>2
    <3> QED BY <3>3
  <2>4. CASE q # p
    BY <1>3, <2>2, <2>4
  <2> QED BY <2>3, <2>4
<1> QED BY <1>4 DEF WaitingInv

\* Putting a request behind the others drops none.
LEMMA WaitingAfterPutting ==
    ASSUME DInv, NEW p \in Writers, NEW c \in Calls,
           ready' = [ready EXCEPT ![p] = Append(@, c)], home'[c] = <<p>>,
           \A d \in Calls \ {c} : stage'[d] = stage[d] /\ home'[d] = home[d]
    PROVE  WaitingInv'
<1> DEFINE s == ready[p]
<1>1. ready \in [Writers -> Seq(Calls)]
  BY DEF DInv, DeploymentTypes
<1>2. /\ s \in Seq(Calls) /\ Len(s) \in Nat /\ DOMAIN s = 1 .. Len(s)
      /\ DOMAIN Append(s, c) = 1 .. Len(s) + 1 /\ Append(s, c)[Len(s) + 1] = c
      /\ \A k \in 1 .. Len(s) : Append(s, c)[k] = s[k]
  BY <1>1, AppendProperties, LenProperties
<1>3. ready'[p] = Append(s, c) /\ \A q \in Writers \ {p} : ready'[q] = ready[q]
  BY <1>1
<1>4. ASSUME NEW q \in Writers, NEW d \in Calls,
             stage'[d] \in {"arrived", "resumed"}, home'[d] = <<q>>
      PROVE  \E k \in DOMAIN ready'[q] : ready'[q][k] = d
  <2>1. CASE d = c
    <3>1. q = p
      BY <1>4, <2>1
    <3>2. Len(s) + 1 \in DOMAIN ready'[q] /\ ready'[q][Len(s) + 1] = d
      BY <1>2, <1>3, <2>1, <3>1
    <3> QED BY <3>2
  <2>2. CASE d # c
    <3>1. PICK k \in DOMAIN ready[q] : ready[q][k] = d
      BY <1>4, <2>2 DEF DInv, WaitingInv
    <3>2. CASE q = p
      BY <1>2, <1>3, <3>1, <3>2
    <3>3. CASE q # p
      BY <1>3, <3>1, <3>3
    <3> QED BY <3>2, <3>3
  <2> QED BY <2>1, <2>2
<1> QED BY <1>4 DEF WaitingInv

-----------------------------------------------------------------------------
(* The actions that leave the writers alone.                               *)

\* Then what is said of the table and of the calls stays as it is.
LEMMA WritersKept ==
    ASSUME DInv, UNCHANGED vars
    PROVE  /\ IInv' /\ Recorded' = Recorded
           /\ log' = log /\ pc' = pc /\ call' = call /\ outcome' = outcome
  BY NextIInv DEF DInv, vars, Recorded

LEMMA ArriveKeeps ==
    ASSUME DInv, NEW p \in Writers, NEW c \in Calls, Arrive(p, c) PROVE DInv'
<1>1. /\ stage[c] = "new" /\ stage' = [stage EXCEPT ![c] = "arrived"]
      /\ home' = [home EXCEPT ![c] = <<p>>]
      /\ ready' = [ready EXCEPT ![p] = Append(@, c)]
      /\ preceded' = [preceded EXCEPT ![c] = {d \in Calls : status[d] = 200}]
      /\ UNCHANGED vars /\ UNCHANGED <<running, intent, status, entry, clock, stamp>>
  BY DEF Arrive, At
<1>2. /\ IInv' /\ Recorded' = Recorded
      /\ log' = log /\ pc' = pc /\ call' = call /\ outcome' = outcome
  BY <1>1, WritersKept
<1>3. /\ outcome[c] = "none" /\ status[c] = 0 /\ c \notin Recorded
      /\ \A k \in DOMAIN log : log[k].content # c
  BY <1>1, Unstarted
<1>4. DeploymentTypes
  BY DEF DInv
<1>5. /\ stage'[c] = "arrived" /\ home'[c] = <<p>>
      /\ \A d \in Calls \ {c} : stage'[d] = stage[d] /\ home'[d] = home[d] /\ preceded'[d] = preceded[d]
      /\ preceded'[c] = {d \in Calls : status[d] = 200}
  BY <1>1, <1>4 DEF DeploymentTypes
<1>6. DeploymentTypes'
  <2>1. stage' \in [Calls -> Stages] /\ preceded' \in [Calls -> SUBSET Calls]
    BY <1>1, <1>4 DEF DeploymentTypes, Stages
  <2>2. home' \in [Calls -> {<< >>} \cup {<<q>> : q \in Writers}]
    BY <1>1, <1>4 DEF DeploymentTypes
  <2>3. ready' \in [Writers -> Seq(Calls)]
    BY <1>1, PutInQueue
  <2> QED BY <1>1, <1>4, <2>1, <2>2, <2>3 DEF DeploymentTypes
<1>7. QueuesInv'
  <2>1. \A q \in Writers :
            /\ \A k \in DOMAIN ready'[q] :
                  \/ ready'[q][k] = c /\ q = p
                  \/ /\ ready'[q][k] # c /\ home[ready'[q][k]] = <<q>>
                     /\ stage[ready'[q][k]] \in {"arrived", "resumed"}
            /\ \A j, k \in DOMAIN ready'[q] : ready'[q][j] = ready'[q][k] => j = k
    BY <1>1, PutInQueue
  <2>2. \A q \in Writers : \A k \in DOMAIN ready'[q] : ready'[q][k] \in Calls
    BY <1>6, ElementOfSeq, LenProperties DEF DeploymentTypes
  <2> QED BY <1>5, <2>1, <2>2 DEF QueuesInv
<1>8. RunningInv'
  BY <1>1, <1>2, <1>5 DEF DInv, RunningInv
<1>9. AnswersInv'
  BY <1>1, <1>2, <1>3, <1>5 DEF DInv, AnswersInv
<1>10. EntryInv' /\ EntryIdNamesRecord'
  BY <1>1, <1>2 DEF DInv, EntryInv, EntryIdNamesRecord
<1>11. PrecededInv' /\ RealTimeOrder'
  <2>1. PrecededInv'
    BY <1>1, <1>3, <1>5 DEF DInv, PrecededInv
  <2>2. \A k \in DOMAIN log : preceded'[log[k].content] = preceded[log[k].content]
    BY <1>3, <1>5, TableFacts
  <2> QED BY <1>2, <2>1, <2>2 DEF DInv, RealTimeOrder
<1>12. StampInv'
  <2>1. \A d \in Recorded : home'[d] = home[d]
    BY <1>3, <1>5, TableFacts
  <2> QED BY <1>1, <1>2, <2>1 DEF DInv, StampInv
<1>13. StampsFollowIds'
  <2>1. \A k \in DOMAIN log : home'[log[k].content] = home[log[k].content]
    BY <1>3, <1>5, TableFacts
  <2> QED BY <1>1, <1>2, <2>1 DEF DInv, StampsFollowIds
<1>14. WaitingInv'
  <2>1. \A d \in Calls \ {c} : stage'[d] = stage[d] /\ home'[d] = home[d]
    BY <1>5
  <2> QED BY <1>1, <1>5, <2>1, WaitingAfterPutting
<1> QED BY <1>2, <1>6, <1>7, <1>8, <1>9, <1>10, <1>11, <1>12, <1>13, <1>14 DEF DInv

LEMMA ProviderReturnsKeeps ==
    ASSUME DInv, NEW c \in Calls, ProviderReturns(c) PROVE DInv'
<1>1. /\ stage[c] = "awaiting" /\ stage' = [stage EXCEPT ![c] = "resumed"]
      /\ ready' = [ready EXCEPT ![home[c][1]] = Append(@, c)]
      /\ UNCHANGED vars
      /\ UNCHANGED <<home, running, intent, status, entry, clock, stamp, preceded>>
  BY DEF ProviderReturns, At
<1>2. /\ IInv' /\ Recorded' = Recorded
      /\ log' = log /\ pc' = pc /\ call' = call /\ outcome' = outcome
  BY <1>1, WritersKept
<1>3. outcome[c] = "none" /\ status[c] = 0
  BY <1>1, Unstarted
<1>4. DeploymentTypes
  BY DEF DInv
<1>5. stage'[c] = "resumed" /\ \A d \in Calls \ {c} : stage'[d] = stage[d]
  BY <1>1, <1>4 DEF DeploymentTypes
<1>6. PICK p \in Writers : home[c] = <<p>> /\ home[c][1] = p
  BY <1>1, <1>4 DEF DInv, RunningInv, DeploymentTypes
<1>7. /\ ready' \in [Writers -> Seq(Calls)]
      /\ \A q \in Writers :
            /\ \A k \in DOMAIN ready'[q] :
                  \/ ready'[q][k] = c /\ q = p
                  \/ /\ ready'[q][k] # c /\ home[ready'[q][k]] = <<q>>
                     /\ stage[ready'[q][k]] \in {"arrived", "resumed"}
            /\ \A j, k \in DOMAIN ready'[q] : ready'[q][j] = ready'[q][k] => j = k
  <2>1. ready' = [ready EXCEPT ![p] = Append(@, c)]
    BY <1>1, <1>6
  <2> QED BY <1>1, <2>1, PutInQueue
<1>8. DeploymentTypes'
  <2>1. stage' \in [Calls -> Stages]
    BY <1>1, <1>4 DEF DeploymentTypes, Stages
  <2> QED BY <1>1, <1>4, <1>7, <2>1 DEF DeploymentTypes
<1>9. QueuesInv'
  <2>1. \A q \in Writers : \A k \in DOMAIN ready'[q] : ready'[q][k] \in Calls
    BY <1>7, ElementOfSeq, LenProperties
  <2>2. \A q \in Writers : \A k \in DOMAIN ready'[q] :
            home[ready'[q][k]] = <<q>> /\ stage'[ready'[q][k]] \in {"arrived", "resumed"}
    BY <1>5, <1>6, <1>7, <2>1
  <2> QED BY <1>1, <1>7, <2>2 DEF QueuesInv
<1>10. RunningInv'
  BY <1>1, <1>2, <1>5 DEF DInv, RunningInv
<1>11. AnswersInv'
  BY <1>1, <1>2, <1>3, <1>5 DEF DInv, AnswersInv
<1>12. EntryInv' /\ EntryIdNamesRecord' /\ PrecededInv' /\ RealTimeOrder'
  BY <1>1, <1>2 DEF DInv, EntryInv, EntryIdNamesRecord, PrecededInv, RealTimeOrder
<1>13. StampInv' /\ StampsFollowIds'
  BY <1>1, <1>2 DEF DInv, StampInv, StampsFollowIds
<1>14. WaitingInv'
  <2>1. ready' = [ready EXCEPT ![p] = Append(@, c)]
    BY <1>1, <1>6
  <2> QED BY <1>1, <1>5, <1>6, <2>1, WaitingAfterPutting
<1> QED BY <1>2, <1>8, <1>9, <1>10, <1>11, <1>12, <1>13, <1>14 DEF DInv

\* The handler that was taken from its queue is in none.
LEMMA QueuesAfterTaking ==
    ASSUME DInv, NEW p \in Writers, NEW c \in Calls, NEW label \in {"arrived", "resumed"},
           TakesFirst(p, c, label), home' = home,
           \A d \in Calls \ {c} : stage'[d] = stage[d]
    PROVE  QueuesInv' /\ ready' \in [Writers -> Seq(Calls)]
<1>1. /\ ready' \in [Writers -> Seq(Calls)]
      /\ \A q \in Writers :
            /\ \A k \in DOMAIN ready'[q] :
                  /\ ready'[q][k] # c /\ home[ready'[q][k]] = <<q>>
                  /\ stage[ready'[q][k]] \in {"arrived", "resumed"}
            /\ \A j, k \in DOMAIN ready'[q] : ready'[q][j] = ready'[q][k] => j = k
  BY TakenFromQueue
<1>2. \A q \in Writers : \A k \in DOMAIN ready'[q] : ready'[q][k] \in Calls
  BY <1>1, ElementOfSeq, LenProperties
<1>3. \A q \in Writers : \A k \in DOMAIN ready'[q] :
          home[ready'[q][k]] = <<q>> /\ stage'[ready'[q][k]] \in {"arrived", "resumed"}
  BY <1>1, <1>2
<1> QED BY <1>1, <1>3 DEF QueuesInv

LEMMA MediateKeeps ==
    ASSUME DInv, NEW p \in Writers, NEW c \in Calls, Mediate(p, c) PROVE DInv'
<1>1. /\ TakesFirst(p, c, "arrived") /\ stage' = [stage EXCEPT ![c] = "awaiting"]
      /\ clock' = clock + 1 /\ stamp' = [stamp EXCEPT ![c] = clock + 1]
      /\ UNCHANGED vars /\ UNCHANGED <<home, running, intent, status, entry, preceded>>
  BY DEF Mediate, At
<1>2. /\ IInv' /\ Recorded' = Recorded
      /\ log' = log /\ pc' = pc /\ call' = call /\ outcome' = outcome
  BY <1>1, WritersKept
<1>3. stage[c] = "arrived" /\ home[c] = <<p>>
  BY <1>1, TakenFromQueue
<1>4. /\ outcome[c] = "none" /\ status[c] = 0 /\ c \notin Recorded
      /\ \A k \in DOMAIN log : log[k].content # c
  BY <1>3, Unstarted
<1>5. DeploymentTypes
  BY DEF DInv
<1>6. /\ stage'[c] = "awaiting" /\ stamp'[c] = clock + 1 /\ clock \in Nat
      /\ \A d \in Calls \ {c} : stage'[d] = stage[d] /\ stamp'[d] = stamp[d]
      /\ \A d \in Calls : stamp[d] \in Nat
  BY <1>1, <1>5 DEF DeploymentTypes
<1>7. QueuesInv' /\ ready' \in [Writers -> Seq(Calls)]
  BY <1>1, <1>6, QueuesAfterTaking
<1>8. DeploymentTypes'
  <2>1. stage' \in [Calls -> Stages] /\ clock' \in Nat /\ stamp' \in [Calls -> Nat]
    BY <1>1, <1>5 DEF DeploymentTypes, Stages
  <2> QED BY <1>1, <1>5, <1>7, <2>1 DEF DeploymentTypes
<1>9. RunningInv'
  BY <1>1, <1>2, <1>3, <1>6 DEF DInv, RunningInv
<1>10. AnswersInv'
  BY <1>1, <1>2, <1>4, <1>6 DEF DInv, AnswersInv
<1>11. EntryInv' /\ EntryIdNamesRecord' /\ PrecededInv' /\ RealTimeOrder'
  BY <1>1, <1>2 DEF DInv, EntryInv, EntryIdNamesRecord, PrecededInv, RealTimeOrder
<1>12. StampInv'
  <2>1. \A d \in Calls : stamp'[d] <= clock'
    BY <1>1, <1>6 DEF DInv, StampInv
  <2>2. \A d \in Recorded : stamp'[d] = stamp[d]
    BY <1>4, <1>6, TableFacts
  <2>3. \A q \in Writers : running[q] # NoCall => stamp'[running[q]] = stamp[running[q]]
    BY <1>3, <1>5, <1>6 DEF DInv, RunningInv, DeploymentTypes
  <2> QED BY <1>1, <1>2, <2>1, <2>2, <2>3 DEF DInv, StampInv
<1>13. StampsFollowIds'
  <2>1. \A k \in DOMAIN log : stamp'[log[k].content] = stamp[log[k].content]
    BY <1>4, <1>6, TableFacts
  <2> QED BY <1>1, <1>2, <2>1 DEF DInv, StampsFollowIds
<1>14. WaitingInv'
  BY <1>1, <1>6, WaitingAfterTaking
<1> QED BY <1>2, <1>7, <1>8, <1>9, <1>10, <1>11, <1>12, <1>13, <1>14 DEF DInv

LEMMA UnrecordedKeeps ==
    ASSUME DInv, NEW p \in Writers, NEW c \in Calls, Unrecorded(p, c) PROVE DInv'
<1>1. /\ TakesFirst(p, c, "resumed") /\ stage' = [stage EXCEPT ![c] = "answered"]
      /\ status' = [status EXCEPT ![c] = 500]
      /\ UNCHANGED vars
      /\ UNCHANGED <<home, running, intent, entry, clock, stamp, preceded>>
  BY DEF Unrecorded, At
<1>2. /\ IInv' /\ Recorded' = Recorded
      /\ log' = log /\ pc' = pc /\ call' = call /\ outcome' = outcome
  BY <1>1, WritersKept
<1>3. stage[c] = "resumed" /\ home[c] = <<p>>
  BY <1>1, TakenFromQueue
<1>4. outcome[c] = "none" /\ status[c] = 0
  BY <1>3, Unstarted
<1>5. DeploymentTypes
  BY DEF DInv
<1>6. /\ stage'[c] = "answered" /\ status'[c] = 500
      /\ \A d \in Calls \ {c} : stage'[d] = stage[d] /\ status'[d] = status[d]
  BY <1>1, <1>5 DEF DeploymentTypes
<1>7. QueuesInv' /\ ready' \in [Writers -> Seq(Calls)]
  BY <1>1, <1>6, QueuesAfterTaking
<1>8. DeploymentTypes'
  <2>1. stage' \in [Calls -> Stages] /\ status' \in [Calls -> {0, 200, 400, 500, 502}]
    BY <1>1, <1>5 DEF DeploymentTypes, Stages
  <2> QED BY <1>1, <1>5, <1>7, <2>1 DEF DeploymentTypes
<1>9. RunningInv'
  BY <1>1, <1>2, <1>3, <1>6 DEF DInv, RunningInv
<1>10. AnswersInv'
  BY <1>1, <1>2, <1>4, <1>6 DEF DInv, AnswersInv
<1>11. EntryInv' /\ EntryIdNamesRecord'
  BY <1>1, <1>2, <1>6 DEF DInv, EntryInv, EntryIdNamesRecord
<1>12. PrecededInv' /\ RealTimeOrder'
  <2>1. \A d \in Calls : status[d] = 200 => status'[d] = 200
    BY <1>4, <1>6
  <2>2. PrecededInv'
    BY <1>1, <1>5, <2>1 DEF DInv, PrecededInv, DeploymentTypes
  <2> QED BY <1>1, <1>2, <2>2 DEF DInv, RealTimeOrder
<1>13. StampInv' /\ StampsFollowIds'
  BY <1>1, <1>2 DEF DInv, StampInv, StampsFollowIds
<1>14. WaitingInv'
  BY <1>1, <1>6, WaitingAfterTaking
<1> QED BY <1>2, <1>7, <1>8, <1>9, <1>10, <1>11, <1>12, <1>13, <1>14 DEF DInv

\* A 200 is answered only for a sealed cycle whose append returned.
LEMMA StatusFacts ==
    ASSUME NEW kind \in {"refused", "failed", "sealed"}, NEW result \in {"ok", "write_error", "raised"}
    PROVE  /\ StatusAfter(kind, result) \in {200, 400, 500, 502}
           /\ StatusAfter(kind, result) = 200 => kind = "sealed" /\ result = "ok"
  BY DEF StatusAfter

LEMMA ReplyKeeps ==
    ASSUME DInv, NEW p \in Writers, Reply(p) PROVE DInv'
<1>1. PICK c \in Calls : c = running[p]
  BY DEF Reply, DInv, DeploymentTypes
<1>2. /\ pc[p] = "idle" /\ stage' = [stage EXCEPT ![c] = "answered"]
      /\ status' = [status EXCEPT ![c] = StatusAfter(intent[c], outcome[c])]
      /\ running' = [running EXCEPT ![p] = NoCall]
      /\ UNCHANGED vars /\ UNCHANGED <<home, ready, intent, entry, clock, stamp, preceded>>
  BY <1>1 DEF Reply, At
<1>3. /\ IInv' /\ Recorded' = Recorded
      /\ log' = log /\ pc' = pc /\ call' = call /\ outcome' = outcome
  BY <1>2, WritersKept
<1>4. DeploymentTypes
  BY DEF DInv
<1>5. /\ stage[c] = "appending" /\ home[c] = <<p>>
  BY <1>1 DEF DInv, RunningInv
<1>6. /\ intent[c] \in {"refused", "failed", "sealed"} /\ status[c] = 0
      /\ outcome[c] \in {"ok", "write_error", "raised"}
  BY <1>1, <1>2, <1>5, CallsAssumption DEF DInv, AnswersInv
<1>7. /\ stage'[c] = "answered" /\ status'[c] = StatusAfter(intent[c], outcome[c])
      /\ \A d \in Calls \ {c} :
            stage'[d] = stage[d] /\ status'[d] = status[d]
      /\ running'[p] = NoCall /\ \A q \in Writers \ {p} : running'[q] = running[q]
  BY <1>2, <1>4 DEF DeploymentTypes
<1>8. /\ status'[c] \in {200, 400, 500, 502}
      /\ status'[c] = 200 => intent[c] = "sealed" /\ outcome[c] = "ok"
  BY <1>6, <1>7, StatusFacts
<1>9. DeploymentTypes'
  <2>1. stage' \in [Calls -> Stages] /\ running' \in [Writers -> Calls \cup {NoCall}]
    BY <1>2, <1>4 DEF DeploymentTypes, Stages
  <2>2. status' \in [Calls -> {0, 200, 400, 500, 502}]
    BY <1>2, <1>4, <1>7, <1>8 DEF DeploymentTypes
  <2> QED BY <1>2, <1>4, <2>1, <2>2 DEF DeploymentTypes
<1>10. QueuesInv'
  <2>1. ASSUME NEW q \in Writers, NEW k \in DOMAIN ready[q]
        PROVE  stage'[ready[q][k]] \in {"arrived", "resumed"} /\ home[ready[q][k]] = <<q>>
    <3>1. ready[q][k] \in Calls
      BY <1>4, ElementOfSeq, LenProperties DEF DeploymentTypes
    <3>2. stage[ready[q][k]] \in {"arrived", "resumed"} /\ home[ready[q][k]] = <<q>>
      BY DEF DInv, QueuesInv
    <3> QED BY <1>5, <1>7, <3>1, <3>2
  <2>2. \A q \in Writers : \A j, k \in DOMAIN ready[q] : ready[q][j] = ready[q][k] => j = k
    BY DEF DInv, QueuesInv
  <2>3. ready' = ready /\ home' = home
    BY <1>2
  <2> QED BY <2>1, <2>2, <2>3 DEF QueuesInv
<1>11. RunningInv'
  <2>1. \A q \in Writers : \A d \in Calls :
            running'[q] = d <=> stage'[d] = "appending" /\ home[d] = <<q>>
    <3> SUFFICES ASSUME NEW q \in Writers, NEW d \in Calls
                 PROVE  running'[q] = d <=> stage'[d] = "appending" /\ home[d] = <<q>>
      OBVIOUS
    <3>1. running[q] = d <=> stage[d] = "appending" /\ home[d] = <<q>>
      BY DEF DInv, RunningInv
    <3>2. running[p] = d <=> d = c
      BY <1>1
    <3>3. q # p => <<q>> # <<p>>
      OBVIOUS
    <3> QED BY <1>5, <1>7, <3>1, <3>2, <3>3, CallsAssumption
  <2>2. \A d \in Calls : stage'[d] = "new" <=> home[d] = << >>
    BY <1>5, <1>7 DEF DInv, RunningInv
  <2>3. \A q \in Writers : pc[q] # "idle" => running'[q] = call[q]
    BY <1>2, <1>7 DEF DInv, RunningInv
  <2> QED BY <1>2, <1>3, <2>1, <2>2, <2>3 DEF RunningInv
<1>12. AnswersInv'
  <2>1. \A q \in Writers : running'[q] # NoCall => running'[q] = running[q]
    BY <1>7
  <2> QED BY <1>2, <1>3, <1>7, <2>1 DEF DInv, AnswersInv
<1>13. EntryIdNamesRecord'
  <2> SUFFICES ASSUME NEW d \in Calls, status'[d] = 200
               PROVE  /\ entry[d] \in DOMAIN log
                      /\ log[entry[d]].id = entry[d] /\ log[entry[d]].content = d
                      /\ intent[d] = "sealed"
    BY <1>2, <1>3 DEF EntryIdNamesRecord
  <2>1. CASE d = c
    BY <1>8, <2>1 DEF DInv, EntryInv
  <2>2. CASE d # c
    BY <1>7, <2>2 DEF DInv, EntryIdNamesRecord
  <2> QED BY <2>1, <2>2
<1>14. PrecededInv' /\ RealTimeOrder'
  <2>1. \A d \in Calls : status[d] = 200 => status'[d] = 200
    BY <1>6, <1>7
  <2>2. PrecededInv'
    BY <1>2, <1>4, <2>1 DEF DInv, PrecededInv, DeploymentTypes
  <2> QED BY <1>2, <1>3, <2>2 DEF DInv, RealTimeOrder
<1>15. StampInv' /\ StampsFollowIds'
  <2>1. \A q \in Writers : running'[q] # NoCall => running'[q] = running[q]
    BY <1>7
  <2> QED BY <1>2, <1>3, <2>1 DEF DInv, StampInv, StampsFollowIds
<1>16. EntryInv'
  BY <1>2, <1>3 DEF DInv, EntryInv
<1>17. WaitingInv'
  <2>1. \A d \in Calls : stage'[d] \in {"arrived", "resumed"} => stage'[d] = stage[d]
    BY <1>7
  <2> QED BY <1>2, <2>1 DEF DInv, WaitingInv
<1> QED BY <1>3, <1>9, <1>10, <1>11, <1>12, <1>13, <1>14, <1>15, <1>16, <1>17 DEF DInv

LEMMA DieKeeps ==
    ASSUME DInv, NEW p \in Writers, Die(p) PROVE DInv'
<1>1. /\ stage' = [c \in Calls |->
                      IF home[c] = <<p>> /\ stage[c] # "answered" THEN "lost" ELSE stage[c]]
      /\ ready' = [ready EXCEPT ![p] = << >>] /\ running' = [running EXCEPT ![p] = NoCall]
      /\ IF pc[p] = "idle" THEN UNCHANGED vars ELSE Crash(p)
      /\ UNCHANGED <<home, intent, status, entry, clock, stamp, preceded>>
  BY DEF Die
<1>2. DeploymentTypes /\ TypeOK
  BY DEF DInv, IInv
<1>3. IInv'
  BY <1>1, NextIInv DEF DInv, Next
<1>4. /\ log' = log /\ pc'[p] = "idle"
      /\ \A q \in Writers \ {p} : pc'[q] = pc[q] /\ call'[q] = call[q]
      /\ \A c \in Calls : running[p] # c => outcome'[c] = outcome[c]
      /\ \A c \in Calls : outcome'[c] = "ok" => outcome[c] = "ok"
  <2>1. CASE pc[p] = "idle"
    BY <1>1, <2>1 DEF vars
  <2>2. CASE pc[p] # "idle"
    <3>1. running[p] = call[p]
      BY <2>2 DEF DInv, RunningInv
    <3> QED BY <1>1, <1>2, <2>2, <3>1 DEF Crash, EndCall, Goto, TypeOK
  <2> QED BY <2>1, <2>2
<1>5. Recorded' = Recorded
  BY <1>4 DEF Recorded
<1>6. /\ \A c \in Calls : stage'[c] =
            IF home[c] = <<p>> /\ stage[c] # "answered" THEN "lost" ELSE stage[c]
      /\ running'[p] = NoCall /\ \A q \in Writers \ {p} : running'[q] = running[q]
      /\ ready'[p] = << >> /\ \A q \in Writers \ {p} : ready'[q] = ready[q]
      /\ \A q \in Writers \ {p} : <<q>> # <<p>>
  BY <1>1, <1>2 DEF DeploymentTypes
<1>7. DeploymentTypes'
  <2>1. << >> \in Seq(Calls)
    OBVIOUS
  <2>2. stage' \in [Calls -> Stages]
    BY <1>1, <1>2 DEF DeploymentTypes, Stages
  <2>3. ready' \in [Writers -> Seq(Calls)] /\ running' \in [Writers -> Calls \cup {NoCall}]
    BY <1>1, <1>2, <2>1 DEF DeploymentTypes
  <2> QED BY <1>1, <1>2, <2>2, <2>3 DEF DeploymentTypes
<1>8. QueuesInv'
  <2>1. ASSUME NEW q \in Writers
        PROVE  /\ \A k \in DOMAIN ready'[q] :
                     stage'[ready'[q][k]] \in {"arrived", "resumed"} /\ home[ready'[q][k]] = <<q>>
               /\ \A j, k \in DOMAIN ready'[q] : ready'[q][j] = ready'[q][k] => j = k
    <3>1. CASE q = p
      BY <1>6, <3>1
    <3>2. CASE q # p
      <4>1. ready'[q] = ready[q] /\ <<q>> # <<p>>
        BY <1>6, <3>2
      <4>2. \A k \in DOMAIN ready[q] : ready[q][k] \in Calls
        BY <1>2, ElementOfSeq, LenProperties DEF DeploymentTypes
      <4>3. /\ \A k \in DOMAIN ready[q] :
                  stage[ready[q][k]] \in {"arrived", "resumed"} /\ home[ready[q][k]] = <<q>>
            /\ \A j, k \in DOMAIN ready[q] : ready[q][j] = ready[q][k] => j = k
        BY DEF DInv, QueuesInv
      <4>4. \A k \in DOMAIN ready[q] : stage'[ready[q][k]] = stage[ready[q][k]]
        BY <1>6, <4>1, <4>2, <4>3
      <4> QED BY <4>1, <4>3, <4>4
    <3> QED BY <3>1, <3>2
  <2>2. home' = home
    BY <1>1
  <2> QED BY <2>1, <2>2 DEF QueuesInv
<1>9. RunningInv'
  <2>1. \A c \in Calls : stage'[c] = "new" <=> home[c] = << >>
    <3>1. << >> # <<p>>
      OBVIOUS
    <3> QED BY <1>6, <3>1 DEF DInv, RunningInv
  <2>2. \A q \in Writers : \A c \in Calls :
            running'[q] = c <=> stage'[c] = "appending" /\ home[c] = <<q>>
    <3> SUFFICES ASSUME NEW q \in Writers, NEW c \in Calls
                 PROVE  running'[q] = c <=> stage'[c] = "appending" /\ home[c] = <<q>>
      OBVIOUS
    <3>1. running[q] = c <=> stage[c] = "appending" /\ home[c] = <<q>>
      BY DEF DInv, RunningInv
    <3> QED BY <1>6, <3>1, CallsAssumption
  <2>3. \A q \in Writers : pc'[q] # "idle" => running'[q] = call'[q]
    BY <1>4, <1>6 DEF DInv, RunningInv
  <2> QED BY <1>1, <2>1, <2>2, <2>3 DEF RunningInv
<1>10. AnswersInv'
  <2>1. ASSUME NEW c \in Calls
        PROVE  /\ stage'[c] \in {"new", "arrived", "awaiting", "resumed"} => outcome'[c] = "none"
               /\ stage'[c] # "answered" => status[c] = 0
               /\ stage'[c] = "appending" => intent[c] \in {"refused", "failed", "sealed"}
    <3>1. running[p] = c => stage[c] = "appending" /\ home[c] = <<p>>
      BY DEF DInv, RunningInv
    <3> QED BY <1>4, <1>6, <3>1 DEF DInv, AnswersInv
  <2>2. ASSUME NEW q \in Writers, running'[q] # NoCall, pc'[q] = "idle"
        PROVE  outcome'[running'[q]] \in {"ok", "write_error", "raised"}
    <3>1. q # p /\ running'[q] = running[q] /\ running[q] \in Calls /\ pc[q] = "idle"
      BY <1>2, <1>4, <1>6, <2>2 DEF DeploymentTypes
    <3>2. home[running[q]] = <<q>>
      BY <3>1 DEF DInv, RunningInv
    <3>3. running[p] # running[q]
      BY <1>6, <3>1, <3>2 DEF DInv, RunningInv
    <3> QED BY <1>4, <2>2, <3>1, <3>3 DEF DInv, AnswersInv
  <2> QED BY <1>1, <2>1, <2>2 DEF AnswersInv
<1>11. EntryIdNamesRecord' /\ PrecededInv' /\ RealTimeOrder'
  BY <1>1, <1>4 DEF DInv, EntryIdNamesRecord, PrecededInv, RealTimeOrder
<1>12. StampInv' /\ StampsFollowIds'
  <2>1. \A q \in Writers : running'[q] # NoCall => running'[q] = running[q]
    BY <1>6
  <2> QED BY <1>1, <1>4, <1>5, <2>1 DEF DInv, StampInv, StampsFollowIds
<1>13. EntryInv'
  BY <1>1, <1>4 DEF DInv, EntryInv
<1>14. WaitingInv'
  <2>1. ASSUME NEW q \in Writers, NEW c \in Calls,
               stage'[c] \in {"arrived", "resumed"}, home[c] = <<q>>
        PROVE  \E k \in DOMAIN ready'[q] : ready'[q][k] = c
    <3>1. q # p /\ stage'[c] = stage[c]
      BY <1>6, <2>1
    <3> QED BY <1>6, <2>1, <3>1 DEF DInv, WaitingInv
  <2> QED BY <1>1, <2>1 DEF WaitingInv
<1> QED BY <1>3, <1>7, <1>8, <1>9, <1>10, <1>11, <1>12, <1>13, <1>14 DEF DInv

-----------------------------------------------------------------------------
(* The actions in which a process is a writer.                             *)

LEMMA AppendForKeeps ==
    ASSUME DInv, NEW p \in Writers, NEW c \in Calls, AppendFor(p, c) PROVE DInv'
<1>1. PICK label \in {"arrived", "resumed"}, kind \in {"refused", "failed", "sealed"} :
          TakesFirst(p, c, label) /\ intent' = [intent EXCEPT ![c] = kind]
  BY DEF AppendFor
<1>2. /\ stage' = [stage EXCEPT ![c] = "appending"] /\ running' = [running EXCEPT ![p] = c]
      /\ clock' = clock + 1 /\ stamp' = [stamp EXCEPT ![c] = clock + 1]
      /\ StartAppend(p, c) /\ UNCHANGED <<home, status, entry, preceded>>
  BY DEF AppendFor, At, Timestamp
<1>3. DeploymentTypes /\ TypeOK
  BY DEF DInv, IInv
<1>4. IInv'
  BY <1>2, NextIInv DEF DInv, Next
<1>5. /\ log' = log /\ pc'[p] = "begin" /\ call'[p] = c /\ outcome'[c] = "pending"
      /\ \A q \in Writers \ {p} : pc'[q] = pc[q] /\ call'[q] = call[q]
      /\ \A d \in Calls \ {c} : outcome'[d] = outcome[d]
  BY <1>2, <1>3 DEF StartAppend, Goto, TypeOK
<1>6. Recorded' = Recorded
  BY <1>5 DEF Recorded
<1>7. running[p] = NoCall /\ stage[c] = label /\ home[c] = <<p>>
  BY <1>1, TakenFromQueue
<1>8. /\ status[c] = 0 /\ c \notin Recorded /\ \A k \in DOMAIN log : log[k].content # c
  BY <1>7, Unstarted
<1>9. /\ stage'[c] = "appending" /\ intent'[c] = kind /\ stamp'[c] = clock + 1
      /\ running'[p] = c /\ \A q \in Writers \ {p} : running'[q] = running[q]
      /\ \A d \in Calls \ {c} :
            stage'[d] = stage[d] /\ intent'[d] = intent[d] /\ stamp'[d] = stamp[d]
      /\ clock \in Nat /\ \A d \in Calls : stamp[d] \in Nat
  BY <1>1, <1>2, <1>3 DEF DeploymentTypes
<1>10. QueuesInv' /\ ready' \in [Writers -> Seq(Calls)]
  BY <1>1, <1>2, <1>9, QueuesAfterTaking
<1>11. DeploymentTypes'
  <2>1. /\ stage' \in [Calls -> Stages] /\ running' \in [Writers -> Calls \cup {NoCall}]
        /\ intent' \in [Calls -> {"none", "refused", "failed", "sealed"}]
        /\ clock' \in Nat /\ stamp' \in [Calls -> Nat]
    BY <1>1, <1>2, <1>3 DEF DeploymentTypes, Stages
  <2> QED BY <1>2, <1>3, <1>10, <2>1 DEF DeploymentTypes
<1>12. RunningInv'
  <2>1. ASSUME NEW q \in Writers, NEW d \in Calls
        PROVE  running'[q] = d <=> stage'[d] = "appending" /\ home[d] = <<q>>
    <3>1. running[q] = d <=> stage[d] = "appending" /\ home[d] = <<q>>
      BY DEF DInv, RunningInv
    <3>2. q # p => <<q>> # <<p>>
      OBVIOUS
    <3>3. \A e \in Calls : home[e] = <<p>> => stage[e] # "appending"
      BY <1>7, CallsAssumption DEF DInv, RunningInv
    <3> QED BY <1>7, <1>9, <3>1, <3>2, <3>3
  <2>2. \A d \in Calls : stage'[d] = "new" <=> home[d] = << >>
    BY <1>7, <1>9 DEF DInv, RunningInv
  <2>3. \A q \in Writers : pc'[q] # "idle" => running'[q] = call'[q]
    BY <1>5, <1>9 DEF DInv, RunningInv
  <2> QED BY <1>2, <2>1, <2>2, <2>3 DEF RunningInv
<1>13. AnswersInv'
  <2>1. ASSUME NEW d \in Calls
        PROVE  /\ stage'[d] \in {"new", "arrived", "awaiting", "resumed"} => outcome'[d] = "none"
               /\ stage'[d] # "answered" => status[d] = 0
               /\ stage'[d] = "appending" => intent'[d] \in {"refused", "failed", "sealed"}
    BY <1>5, <1>8, <1>9 DEF DInv, AnswersInv
  <2>2. ASSUME NEW q \in Writers, running'[q] # NoCall, pc'[q] = "idle"
        PROVE  outcome'[running'[q]] \in {"ok", "write_error", "raised"}
    <3>1. q # p /\ running'[q] = running[q] /\ running[q] \in Calls /\ pc[q] = "idle"
      BY <1>3, <1>5, <1>9, <2>2 DEF DeploymentTypes
    <3>2. running[q] # c
      BY <1>7, <3>1 DEF DInv, RunningInv
    <3> QED BY <1>5, <2>2, <3>1, <3>2 DEF DInv, AnswersInv
  <2> QED BY <1>2, <2>1, <2>2 DEF AnswersInv
<1>14. EntryIdNamesRecord'
  BY <1>2, <1>5, <1>8, <1>9 DEF DInv, EntryIdNamesRecord
<1>15. PrecededInv' /\ RealTimeOrder'
  BY <1>2, <1>5 DEF DInv, PrecededInv, RealTimeOrder
<1>16. StampInv'
  <2>1. \A d \in Calls : stamp'[d] <= clock'
    BY <1>2, <1>9 DEF DInv, StampInv
  <2>2. \A d \in Recorded : d \in Calls /\ d # c /\ stamp'[d] = stamp[d] /\ stamp[d] <= clock
    BY <1>8, <1>9, TableFacts DEF DInv, StampInv
  <2>3. ASSUME NEW q \in Writers, running'[q] # NoCall, NEW d \in Recorded \ {running'[q]},
               home[d] = <<q>>
        PROVE  stamp'[d] < stamp'[running'[q]]
    <3>1. CASE q = p
      BY <1>9, <2>2, <3>1
    <3>2. CASE q # p
      <4>1. running'[q] = running[q] /\ running[q] \in Calls
        BY <1>3, <1>9, <2>3, <3>2 DEF DeploymentTypes
      <4>2. running[q] # c
        BY <1>7, <4>1 DEF DInv, RunningInv
      <4>3. stamp[d] < stamp[running[q]]
        BY <2>3, <4>1, CallsAssumption DEF DInv, StampInv
      <4> QED BY <1>9, <2>2, <4>1, <4>2, <4>3
    <3> QED BY <3>1, <3>2
  <2> QED BY <1>2, <1>6, <2>1, <2>3 DEF StampInv
<1>17. StampsFollowIds'
  <2>1. \A k \in DOMAIN log : stamp'[log[k].content] = stamp[log[k].content]
    BY <1>8, <1>9, TableFacts
  <2> QED BY <1>2, <1>5, <2>1 DEF DInv, StampsFollowIds
<1>18. EntryInv'
  BY <1>2, <1>5 DEF DInv, EntryInv
<1>19. WaitingInv'
  BY <1>1, <1>2, <1>9, WaitingAfterTaking
<1> QED BY <1>4, <1>10, <1>11, <1>12, <1>13, <1>14, <1>15, <1>16, <1>17, <1>18, <1>19 DEF DInv

\* What one commit does to the table.
LEMMA CommitFacts ==
    ASSUME IInv, NEW w \in Writers, InsertAndCommit(w)
    PROVE  /\ pc[w] # "idle" /\ call[w] \in Calls /\ call[w] \notin Recorded
           /\ Len(log) \in Nat /\ DOMAIN log = 1 .. Len(log) /\ DOMAIN log' = 1 .. (Len(log) + 1)
           /\ \A k \in DOMAIN log : log'[k] = log[k]
           /\ log'[Len(log) + 1].content = call[w]
           /\ Recorded' = Recorded \cup {call[w]}
           /\ pc'[w] # "idle" /\ \A v \in Writers \ {w} : pc'[v] = pc[v]
           /\ UNCHANGED <<call, attempt, outcome>>
<1>0. TypeOK /\ ChainForm /\ RecordContinuesTail /\ CallsInv
  BY DEF IInv
<1>1. Len(log) \in Nat /\ DOMAIN log = 1 .. Len(log)
  BY <1>0, TailFacts
<1>2. /\ pc[w] = "insert" /\ call[w] \in Calls /\ call[w] \notin Recorded
      /\ UNCHANGED <<call, attempt, outcome>>
      /\ record[w] = Seal(AuditKey, TailOf(log).next_id, call[w], TailOf(log).prev_hash)
  BY <1>0 DEF CallsInv, InAttempt, TypeOK, InsertAndCommit, RecordContinuesTail
<1>3. record[w].content = call[w]
  BY <1>2 DEF Seal
<1>4. /\ DOMAIN log' = 1 .. Len(log) + 1
      /\ \A k \in 1 .. Len(log) : log'[k] = log[k]
      /\ log'[Len(log) + 1] = record[w]
  <2>1. log' = Append(log, record[w])
    BY DEF InsertAndCommit
  <2>2. log \in Seq({log[k] : k \in DOMAIN log})
    BY <1>0 DEF TypeOK
  <2> QED BY ONLY <2>1, <2>2, AppendRow
<1>5. pc'[w] # "idle" /\ \A v \in Writers \ {w} : pc'[v] = pc[v]
  BY <1>0 DEF TypeOK, InsertAndCommit, Goto
<1>6. Recorded' = Recorded \cup {call[w]}
  BY <1>1, <1>3, <1>4 DEF Recorded
<1> QED BY <1>1, <1>2, <1>3, <1>4, <1>5, <1>6

\* What any other step of a call does: it goes on, counting an attempt only
\* while it has no record, or it ends and does not.
LEMMA StepFacts ==
    ASSUME IInv, NEW w \in Writers, Step(w), ~ InsertAndCommit(w)
    PROVE  /\ pc[w] # "idle" /\ call[w] \in Calls /\ log' = log
           /\ \A v \in Writers \ {w} : pc'[v] = pc[v] /\ call'[v] = call[v]
           /\ attempt'[w] > attempt[w] => call[w] \notin Recorded
           /\ \A c \in Calls \ {call[w]} : outcome'[c] = outcome[c]
           /\ outcome'[call[w]] = "ok" => pc[w] = "return"
           /\ \/ pc'[w] # "idle" /\ call' = call
              \/ pc'[w] = "idle" /\ outcome'[call[w]] \in {"ok", "write_error", "raised"}
<1>0. TypeOK /\ CallsInv
  BY DEF IInv
<1>1. attempt[w] \in Nat
  BY <1>0, RetriesAssumption DEF TypeOK
<1>2. pc[w] # "idle" => call[w] \in Calls
  BY <1>0 DEF TypeOK
<1>3. CASE BeginImmediate(w) \/ BuildRecord(w) \/ SaveCheckpoint(w)
  BY <1>0, <1>1, <1>2, <1>3 DEF BeginImmediate, BuildRecord, SaveCheckpoint, Goto, TypeOK, CallsInv
<1>4. CASE RetryAttempt(w)
  <2>1. pc[w] # "idle" /\ call[w] \notin Recorded /\ outcome[call[w]] = "pending"
    BY <1>0, <1>4 DEF RetryAttempt, InAttempt, CallsInv
  <2> QED BY <1>0, <1>2, <1>4, <2>1 DEF RetryAttempt, Goto, TypeOK
<1>5. CASE SaveFails(w) \/ ReturnRecord(w) \/ GiveUp(w) \/ RaiseOther(w)
  <2>1. pc[w] # "idle" /\ log' = log
    BY <1>5 DEF SaveFails, ReturnRecord, GiveUp, RaiseOther, InAttempt
  <2>2. PICK r \in {"ok", "write_error", "raised"} :
            EndCall(w, r) /\ (r = "ok" => pc[w] = "return")
    BY <1>5 DEF SaveFails, ReturnRecord, GiveUp, RaiseOther
  <2>3. attempt'[w] = 0
    BY <1>0, <2>2 DEF EndCall, TypeOK
  <2> QED BY <1>0, <1>1, <1>2, <2>1, <2>2, <2>3 DEF EndCall, Goto, TypeOK
<1> QED BY <1>3, <1>4, <1>5 DEF Step

\* A statement of append that commits nothing.
LEMMA QuietStepKeeps ==
    ASSUME DInv, NEW p \in Writers, AppendStep(p), ~ InsertAndCommit(p) PROVE DInv'
<1>1. /\ Step(p) /\ running[p] # NoCall
      /\ UNCHANGED <<stage, home, ready, running, intent, status, preceded>>
      /\ entry' = IF pc[p] = "return" THEN [entry EXCEPT ![running[p]] = record[p].id] ELSE entry
  BY DEF AppendStep
<1>2. DeploymentTypes /\ TypeOK /\ IInv
  BY DEF DInv, IInv
<1>3. IInv'
  BY <1>1, <1>2, NextIInv DEF Next
<1>4. /\ pc[p] # "idle" /\ call[p] \in Calls /\ log' = log
      /\ \A v \in Writers \ {p} : pc'[v] = pc[v] /\ call'[v] = call[v]
      /\ attempt'[p] > attempt[p] => call[p] \notin Recorded
      /\ \A d \in Calls \ {call[p]} : outcome'[d] = outcome[d]
      /\ outcome'[call[p]] = "ok" => pc[p] = "return"
      /\ \/ pc'[p] # "idle" /\ call' = call
         \/ pc'[p] = "idle" /\ outcome'[call[p]] \in {"ok", "write_error", "raised"}
  BY <1>1, <1>2, StepFacts
<1>5. PICK c \in Calls : c = running[p] /\ c = call[p]
  BY <1>4 DEF DInv, RunningInv
<1>6. stage[c] = "appending" /\ home[c] = <<p>>
  BY <1>5 DEF DInv, RunningInv
<1>7. Recorded' = Recorded
  BY <1>4 DEF Recorded
<1>8. /\ clock \in Nat /\ \A d \in Calls : stamp[d] \in Nat /\ stamp[d] <= clock
      /\ stamp \in [Calls -> Nat]
  BY <1>2 DEF DInv, StampInv, DeploymentTypes
<1>9. \/ clock' = clock /\ stamp' = stamp
      \/ /\ c \notin Recorded /\ clock' = clock + 1
         /\ stamp' = [stamp EXCEPT ![c] = clock + 1]
  <2>1. CASE attempt'[p] > attempt[p]
    BY <1>4, <1>5, <2>1 DEF AppendStep, Timestamp
  <2>2. CASE ~ (attempt'[p] > attempt[p])
    BY <2>2 DEF AppendStep
  <2> QED BY <2>1, <2>2
<1>10. DeploymentTypes'
  <2>1. clock' \in Nat /\ stamp' \in [Calls -> Nat]
    BY <1>8, <1>9
  <2>2. entry' = [d \in Calls |-> entry'[d]]
    BY <1>1, <1>2 DEF DeploymentTypes
  <2> QED BY <1>1, <1>2, <2>1, <2>2 DEF DeploymentTypes
<1>11. QueuesInv' /\ WaitingInv'
  BY <1>1 DEF DInv, QueuesInv, WaitingInv
<1>12. RunningInv'
  <2>1. \A q \in Writers : pc'[q] # "idle" => running[q] = call'[q]
    BY <1>4, <1>5 DEF DInv, RunningInv
  <2> QED BY <1>1, <2>1 DEF DInv, RunningInv
<1>13. AnswersInv'
  <2>1. ASSUME NEW d \in Calls
        PROVE  /\ stage[d] \in {"new", "arrived", "awaiting", "resumed"} => outcome'[d] = "none"
               /\ stage[d] # "answered" => status[d] = 0
               /\ stage[d] = "appending" => intent[d] \in {"refused", "failed", "sealed"}
    BY <1>4, <1>5, <1>6 DEF DInv, AnswersInv
  <2>2. ASSUME NEW q \in Writers, running[q] # NoCall, pc'[q] = "idle"
        PROVE  outcome'[running[q]] \in {"ok", "write_error", "raised"}
    <3>1. CASE q = p
      BY <1>4, <1>5, <2>2, <3>1
    <3>2. CASE q # p
      <4>1. running[q] \in Calls /\ pc[q] = "idle"
        BY <1>2, <1>4, <2>2, <3>2 DEF DeploymentTypes
      <4>2. running[q] # c
        BY <1>6, <3>2, <4>1 DEF DInv, RunningInv
      <4> QED BY <1>4, <1>5, <2>2, <4>1, <4>2 DEF DInv, AnswersInv
    <3> QED BY <3>1, <3>2
  <2> QED BY <1>1, <2>1, <2>2 DEF AnswersInv
<1>14. PrecededInv' /\ RealTimeOrder'
  BY <1>1, <1>4 DEF DInv, PrecededInv, RealTimeOrder
<1>16. \A d \in Calls \ {c} : entry'[d] = entry[d]
  BY <1>1, <1>2, <1>5 DEF DeploymentTypes
<1>17. EntryIdNamesRecord'
  <2>1. status[c] = 0
    BY <1>6 DEF DInv, AnswersInv
  <2> QED BY <1>1, <1>4, <1>16, <2>1 DEF DInv, EntryIdNamesRecord
<1>18. EntryInv'
  <2> SUFFICES ASSUME NEW d \in Calls, outcome'[d] = "ok"
               PROVE  /\ entry'[d] \in DOMAIN log
                      /\ log[entry'[d]].id = entry'[d] /\ log[entry'[d]].content = d
    BY <1>4 DEF EntryInv
  <2>1. CASE d = c
    <3>1. pc[p] = "return" /\ entry'[c] = record[p].id
      BY <1>1, <1>2, <1>4, <1>5, <2>1 DEF DeploymentTypes
    <3>2. PICK k \in DOMAIN log : log[k] = record[p] /\ log[k].content = c
      BY <1>2, <1>5, <3>1 DEF IInv, CommittedRow
    <3>3. log[k].id = k
      BY TableFacts
    <3> QED BY <2>1, <3>1, <3>2, <3>3
  <2>2. CASE d # c
    BY <1>4, <1>5, <1>16, <2>2 DEF DInv, EntryInv
  <2> QED BY <2>1, <2>2
<1>15. StampInv' /\ StampsFollowIds'
  <2>1. CASE clock' = clock /\ stamp' = stamp
    BY <1>1, <1>4, <1>7, <2>1 DEF DInv, StampInv, StampsFollowIds
  <2>2. CASE c \notin Recorded /\ clock' = clock + 1 /\ stamp' = [stamp EXCEPT ![c] = clock + 1]
    <3>1. stamp'[c] = clock + 1 /\ \A d \in Calls \ {c} : stamp'[d] = stamp[d]
      BY <1>8, <2>2
    <3>2. \A d \in Recorded : d \in Calls /\ d # c /\ stamp'[d] = stamp[d] /\ stamp[d] <= clock
      BY <1>8, <2>2, <3>1, TableFacts
    <3>3. \A d \in Calls : stamp'[d] <= clock'
      BY <1>8, <2>2, <3>1
    <3>4. ASSUME NEW q \in Writers, running[q] # NoCall, NEW d \in Recorded \ {running[q]},
                 home[d] = <<q>>
          PROVE  stamp'[d] < stamp'[running[q]]
      <4>1. CASE running[q] = c
        BY <1>8, <3>1, <3>2, <4>1
      <4>2. CASE running[q] # c
        <5>1. running[q] \in Calls
          BY <1>2, <3>4 DEF DInv, DeploymentTypes
        <5>2. stamp[d] < stamp[running[q]]
          BY <1>2, <3>4 DEF DInv, StampInv
        <5> QED BY <3>1, <3>2, <4>2, <5>1, <5>2
      <4> QED BY <4>1, <4>2
    <3>5. StampInv'
      BY <1>1, <1>7, <3>3, <3>4 DEF StampInv
    <3>6. \A k \in DOMAIN log : stamp'[log[k].content] = stamp[log[k].content]
      BY <3>2 DEF Recorded
    <3>7. StampsFollowIds'
      BY <1>1, <1>4, <3>6 DEF DInv, StampsFollowIds
    <3> QED BY <3>5, <3>7
  <2> QED BY <1>9, <2>1, <2>2
<1> QED BY <1>3, <1>10, <1>11, <1>12, <1>13, <1>14, <1>15, <1>16, <1>17, <1>18 DEF DInv

\* The commit: the new record is behind those of the requests answered before
\* its own arrived, and has the latest stamp of its process.
LEMMA CommitStepKeeps ==
    ASSUME DInv, NEW p \in Writers, AppendStep(p), InsertAndCommit(p) PROVE DInv'
<1> DEFINE n == Len(log)
<1>1. /\ Step(p) /\ running[p] # NoCall
      /\ UNCHANGED <<stage, home, ready, running, intent, status, entry, preceded>>
  BY DEF AppendStep, InsertAndCommit
<1>2. DeploymentTypes /\ TypeOK /\ IInv
  BY DEF DInv, IInv
<1>3. IInv'
  BY <1>1, <1>2, NextIInv DEF Next
<1>4. /\ pc[p] # "idle" /\ call[p] \in Calls /\ call[p] \notin Recorded
      /\ n \in Nat /\ DOMAIN log = 1 .. n /\ DOMAIN log' = 1 .. (n + 1)
      /\ \A k \in DOMAIN log : log'[k] = log[k]
      /\ log'[n + 1].content = call[p]
      /\ Recorded' = Recorded \cup {call[p]}
      /\ pc'[p] # "idle" /\ \A v \in Writers \ {p} : pc'[v] = pc[v]
      /\ UNCHANGED <<call, attempt, outcome>>
  BY <1>2, CommitFacts
<1>5. clock' = clock /\ stamp' = stamp
  <2>1. attempt[p] \in Nat
    BY <1>2, RetriesAssumption DEF TypeOK
  <2> QED BY <1>4, <2>1 DEF AppendStep
<1>6. PICK c \in Calls : c = running[p] /\ c = call[p]
  BY <1>4 DEF DInv, RunningInv
<1>7. stage[c] = "appending" /\ home[c] = <<p>> /\ status[c] = 0
  <2>1. stage[c] = "appending" /\ home[c] = <<p>>
    BY <1>6 DEF DInv, RunningInv
  <2> QED BY <2>1 DEF DInv, AnswersInv
<1>8. DeploymentTypes' /\ QueuesInv' /\ WaitingInv'
  <2>1. DeploymentTypes' /\ QueuesInv'
    BY <1>1, <1>5 DEF DInv, DeploymentTypes, QueuesInv
  <2>2. WaitingInv'
    BY <1>1 DEF DInv, WaitingInv
  <2> QED BY <2>1, <2>2
<1>9. RunningInv' /\ AnswersInv'
  BY <1>1, <1>4 DEF DInv, RunningInv, AnswersInv
<1>10. /\ n + 1 \in DOMAIN log' /\ log'[n + 1].content = c
       /\ \A k \in DOMAIN log' :
             \/ k \in DOMAIN log /\ k < n + 1 /\ log'[k] = log[k]
             \/ k = n + 1
       /\ \A k \in DOMAIN log : k \in DOMAIN log' /\ log[k].content \in Recorded
  BY <1>4, <1>6 DEF Recorded
<1>11. EntryIdNamesRecord'
  <2>1. ASSUME NEW d \in Calls, status[d] = 200
        PROVE  /\ entry[d] \in DOMAIN log' /\ log'[entry[d]].id = entry[d]
               /\ log'[entry[d]].content = d /\ intent[d] = "sealed"
    BY <1>4, <1>10, <2>1 DEF DInv, EntryIdNamesRecord
  <2> QED BY <1>1, <2>1 DEF EntryIdNamesRecord
<1>12. PrecededInv'
  BY <1>1 DEF DInv, PrecededInv
<1>13. RealTimeOrder'
  <2> SUFFICES ASSUME NEW j \in DOMAIN log', NEW k \in DOMAIN log',
                      log'[j].content \in preceded[log'[k].content]
               PROVE  j < k
    BY <1>1 DEF RealTimeOrder
  <2>1. CASE k = n + 1
    <3>1. c \notin preceded[c]
      BY DEF DInv, PrecededInv
    <3> QED BY <1>10, <2>1, <3>1
  <2>2. CASE k # n + 1
    <3>1. k \in DOMAIN log /\ log'[k] = log[k]
      BY <1>10, <2>2
    <3>2. \A d \in preceded[log[k].content] : status[d] = 200
      BY <3>1, TableFacts DEF DInv, PrecededInv
    <3>3. j # n + 1
      BY <1>7, <1>10, <3>1, <3>2
    <3> QED BY <1>10, <3>1, <3>3 DEF DInv, RealTimeOrder
  <2> QED BY <2>1, <2>2
<1>14. StampInv'
  <2>1. ASSUME NEW q \in Writers, running[q] # NoCall, NEW d \in Recorded' \ {running[q]},
               home[d] = <<q>>
        PROVE  stamp[d] < stamp[running[q]]
    <3>1. CASE d \in Recorded
      BY <2>1, <3>1 DEF DInv, StampInv
    <3>2. CASE d = c
      <4>1. q = p
        BY <1>7, <2>1, <3>2
      <4> QED BY <1>6, <2>1, <3>2, <4>1
    <3> QED BY <1>4, <1>6, <3>1, <3>2
  <2> QED BY <1>1, <1>5, <2>1 DEF DInv, StampInv
<1>15. StampsFollowIds'
  <2> SUFFICES ASSUME NEW j \in DOMAIN log', NEW k \in DOMAIN log',
                      j < k, home[log'[j].content] = home[log'[k].content]
               PROVE  stamp[log'[j].content] < stamp[log'[k].content]
    BY <1>1, <1>5 DEF StampsFollowIds
  <2>1. j \in DOMAIN log /\ log'[j] = log[j]
    BY <1>4, <1>10
  <2>2. CASE k = n + 1
    <3>1. log[j].content \in Recorded \ {c} /\ home[log[j].content] = <<p>>
      BY <1>4, <1>6, <1>7, <1>10, <2>1, <2>2
    <3> QED BY <1>1, <1>6, <1>10, <2>1, <2>2, <3>1 DEF DInv, StampInv
  <2>3. CASE k # n + 1
    <3>1. k \in DOMAIN log /\ log'[k] = log[k]
      BY <1>10, <2>3
    <3> QED BY <2>1, <3>1 DEF DInv, StampsFollowIds
  <2> QED BY <2>2, <2>3
<1>16. EntryInv'
  BY <1>1, <1>4, <1>10 DEF DInv, EntryInv
<1> QED BY <1>3, <1>8, <1>9, <1>11, <1>12, <1>13, <1>14, <1>15, <1>16 DEF DInv

-----------------------------------------------------------------------------

LEMMA InitDInv == DeploymentInit => DInv
<1> SUFFICES ASSUME DeploymentInit PROVE DInv
  OBVIOUS
<1>1. IInv /\ log = << >> /\ Init
  BY InitIInv DEF DeploymentInit, Init
<1>2. DOMAIN log = {} /\ Recorded = {}
  <2>1. << >> \in Seq({}) /\ Len(<< >>) = 0
    BY EmptySeq
  <2>2. DOMAIN log = {}
    BY <1>1, <2>1, LenProperties
  <2> QED BY <2>2 DEF Recorded
<1>3. DeploymentTypes
  <2>1. << >> \in Seq(Calls)
    OBVIOUS
  <2> QED BY <2>1 DEF DeploymentInit, DeploymentTypes, Stages
<1>4. QueuesInv /\ WaitingInv
  <2>1. DOMAIN << >> = {}
    OBVIOUS
  <2> QED BY <2>1 DEF DeploymentInit, QueuesInv, WaitingInv
<1>5. RunningInv /\ AnswersInv
  BY <1>1, CallsAssumption DEF DeploymentInit, Init, RunningInv, AnswersInv
<1>6. EntryInv /\ EntryIdNamesRecord /\ PrecededInv
  BY <1>1 DEF DeploymentInit, Init, EntryInv, EntryIdNamesRecord, PrecededInv
<1>7. RealTimeOrder /\ StampsFollowIds
  BY <1>2 DEF RealTimeOrder, StampsFollowIds
<1>8. StampInv
  BY DEF DeploymentInit, StampInv
<1> QED BY <1>1, <1>3, <1>4, <1>5, <1>6, <1>7, <1>8 DEF DInv

\* Every step of a deployment keeps the invariant.
LEMMA NextDInv == DInv /\ [DeploymentNext]_deploymentVars => DInv'
<1> SUFFICES ASSUME DInv, [DeploymentNext]_deploymentVars PROVE DInv'
  OBVIOUS
<1>1. CASE UNCHANGED deploymentVars
  <2>1. UNCHANGED vars /\ UNCHANGED <<stage, home, ready, running, intent, status, entry, clock, stamp, preceded>>
    BY <1>1 DEF deploymentVars, vars
  <2>2. /\ IInv' /\ Recorded' = Recorded
        /\ log' = log /\ pc' = pc /\ call' = call /\ outcome' = outcome
    BY <2>1, WritersKept
  <2>3. DeploymentTypes' /\ QueuesInv' /\ RunningInv' /\ AnswersInv'
    BY <2>1, <2>2 DEF DInv, DeploymentTypes, QueuesInv, RunningInv, AnswersInv
  <2>6. WaitingInv'
    BY <2>1 DEF DInv, WaitingInv
  <2>4. EntryInv' /\ EntryIdNamesRecord' /\ PrecededInv' /\ RealTimeOrder'
    BY <2>1, <2>2 DEF DInv, EntryInv, EntryIdNamesRecord, PrecededInv, RealTimeOrder
  <2>5. StampInv' /\ StampsFollowIds'
    BY <2>1, <2>2 DEF DInv, StampInv, StampsFollowIds
  <2> QED BY <2>2, <2>3, <2>4, <2>5, <2>6 DEF DInv
<1>2. ASSUME NEW p \in Writers, NEW c \in Calls, Arrive(p, c) PROVE DInv'
  BY <1>2, ArriveKeeps
<1>3. ASSUME NEW p \in Writers, Die(p) PROVE DInv'
  BY <1>3, DieKeeps
<1>4. ASSUME NEW c \in Calls, ProviderReturns(c) PROVE DInv'
  BY <1>4, ProviderReturnsKeeps
<1>5. ASSUME NEW p \in Writers, Loop(p) PROVE DInv'
  <2>1. ASSUME NEW c \in Calls, Mediate(p, c) \/ AppendFor(p, c) \/ Unrecorded(p, c) PROVE DInv'
    BY <2>1, MediateKeeps, AppendForKeeps, UnrecordedKeeps
  <2>2. CASE AppendStep(p)
    BY <2>2, QuietStepKeeps, CommitStepKeeps
  <2>3. CASE Reply(p)
    BY <2>3, ReplyKeeps
  <2> QED BY <1>5, <2>1, <2>2, <2>3 DEF Loop
<1> QED BY <1>1, <1>2, <1>3, <1>4, <1>5 DEF DeploymentNext

\* The invariant holds however the processes' loops interleave, and however
\* often one of them dies and is started again.
THEOREM DeploymentInvariance == DeploymentSpec => []DInv
<1> QED BY InitDInv, NextDInv, PTL DEF DeploymentSpec

\* One handler at a time is in append in each process, because append is no
\* coroutine; and every request that waits for a loop is in its queue, once.
THEOREM LoopsRunOneHandler == DeploymentSpec => []LoopTypeOK
<1>1. DInv => LoopTypeOK
  <2> SUFFICES ASSUME DInv PROVE LoopTypeOK
    OBVIOUS
  <2>1. ASSUME NEW p \in Writers, NEW c \in Calls
        PROVE  stage[c] \in {"arrived", "resumed"} /\ home[c] = <<p>>
                 <=> \E k \in DOMAIN ready[p] : ready[p][k] = c
    BY DEF DInv, QueuesInv, WaitingInv
  <2>2. /\ stage \in [Calls -> Stages]
        /\ \A p \in Writers : \A c \in Calls :
              running[p] = c <=> stage[c] = "appending" /\ home[c] = <<p>>
        /\ \A p \in Writers : pc[p] # "idle" => running[p] = call[p]
        /\ \A p \in Writers : \A j, k \in DOMAIN ready[p] : ready[p][j] = ready[p][k] => j = k
    BY DEF DInv, DeploymentTypes, QueuesInv, RunningInv
  <2> QED BY <2>1, <2>2 DEF Stages, LoopTypeOK
<1> QED BY <1>1, DeploymentInvariance, PTL

\* The id in X-Audit-Entry-Id of a 200 names the record of that request, for
\* good, whatever other processes append.
THEOREM EntryIdsStayTrue == DeploymentSpec => []EntryIdNamesRecord
<1> QED BY DeploymentInvariance, PTL DEF DInv

\* A request that arrives after another was answered 200 has the later record,
\* whichever processes took them.
THEOREM RecordsFollowRealTime == DeploymentSpec => []RealTimeOrder
<1> QED BY DeploymentInvariance, PTL DEF DInv

\* Within one process the timestamps of the records follow their ids, retries
\* and clock readings of other handlers in between notwithstanding.
THEOREM TimestampsFollowIds == DeploymentSpec => []StampsFollowIds
<1> QED BY DeploymentInvariance, PTL DEF DInv

\* Every step of a deployment is a step of its writers, or leaves them alone.
LEMMA StepsOfWriters == [DeploymentNext]_deploymentVars => [Next]_vars
<1> SUFFICES ASSUME [DeploymentNext]_deploymentVars PROVE [Next]_vars
  OBVIOUS
<1>1. CASE UNCHANGED deploymentVars
  BY <1>1 DEF deploymentVars, vars
<1>2. ASSUME NEW p \in Writers, NEW c \in Calls,
             Arrive(p, c) \/ Mediate(p, c) \/ Unrecorded(p, c) \/ AppendFor(p, c)
      PROVE  [Next]_vars
  BY <1>2 DEF Arrive, Mediate, Unrecorded, AppendFor, Next
<1>3. ASSUME NEW p \in Writers, Reply(p) \/ AppendStep(p) \/ Die(p)
      PROVE  [Next]_vars
  BY <1>3 DEF Reply, AppendStep, Die, Next
<1>4. ASSUME NEW c \in Calls, ProviderReturns(c) PROVE [Next]_vars
  BY <1>4 DEF ProviderReturns
<1> QED BY <1>1, <1>2, <1>3, <1>4 DEF DeploymentNext, Loop

\* The gateway processes are writers of AuditLogger: what is proved of those,
\* that the chain stays intact and that no call has two records among it, is
\* true of every deployment.
THEOREM DeploymentsAreWriters == DeploymentSpec => Spec
<1>1. DeploymentInit => Init
  BY DEF DeploymentInit
<1> QED BY <1>1, StepsOfWriters, PTL DEF DeploymentSpec, Spec
=============================================================================
