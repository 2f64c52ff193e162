---------------------------- MODULE AuditReaders ----------------------------
(***************************************************************************)
(* The readers of the audit log beside its writers: GET /v1/audit/verify   *)
(* (verify_with_store), the offline verifier (create_checkpoint and later  *)
(* verify_chain) and GET /v1/audit/entries (entries, then count).          *)
(*                                                                         *)
(* A reader takes no lock across its two reads: each is a connection and a *)
(* snapshot of its own, and the writers of AuditLogger run in between.     *)
(***************************************************************************)
EXTENDS AuditLogger, SequencesExt

CONSTANT PageLimits          \* the values of the parameter limit

ASSUME PageAssumption == PageLimits \subseteq Nat

VARIABLES
    vpc,         \* where the verifier is
    expected,    \* the checkpoint it verifies against
    verdict,     \* its last result
    ppc,         \* where the pager is
    query,       \* the limit and offset it was asked for
    page,        \* the records it has read
    total        \* the count it returns with them

readerVars == <<vpc, expected, verdict, ppc, query, page, total>>
loggerReaderVars == <<log, checkpoint, pc, call, attempt, record, outcome,
                      vpc, expected, verdict, ppc, query, page, total>>

NoVerdict == Verdict("none", 0, 0, FALSE)
NoQuery == [limit |-> 0, offset |-> 0]

ReadersInit ==
    /\ Init
    /\ vpc = "idle" /\ expected = NoCheckpoint /\ verdict = NoVerdict
    /\ ppc = "idle" /\ query = NoQuery /\ page = << >> /\ total = 0

-----------------------------------------------------------------------------

\* verify_with_store loads the checkpoint first ...
LoadCheckpoint ==
    /\ vpc = "idle"
    /\ vpc' = "loaded"
    /\ expected' = checkpoint
    /\ UNCHANGED <<vars, verdict, ppc, query, page, total>>

\* ... which is "no checkpoint" if the file cannot be read or parsed.
LoadUnreadable ==
    /\ vpc = "idle"
    /\ HasStore
    /\ vpc' = "loaded"
    /\ expected' = NoCheckpoint
    /\ UNCHANGED <<vars, verdict, ppc, query, page, total>>

\* create_checkpoint takes the newest record as it is now.
CreateCheckpoint ==
    /\ vpc = "idle"
    /\ log # << >>
    /\ vpc' = "loaded"
    /\ expected' = CheckpointOf(Last(log))
    /\ UNCHANGED <<vars, verdict, ppc, query, page, total>>

\* Then verify_chain reads every row in one SELECT and walks them.
ReadAndVerify ==
    /\ vpc = "loaded"
    /\ vpc' = "idle"
    /\ expected' = NoCheckpoint
    /\ verdict' = VerifyWithStore(AuditKey, log, HasStore \/ expected # NoCheckpoint, expected)
    /\ UNCHANGED <<vars, ppc, query, page, total>>

\* entries(limit, offset)
ReadEntries ==
    /\ ppc = "idle"
    /\ ppc' = "counting"
    /\ \E limit \in PageLimits, offset \in 0 .. Cardinality(Calls) :
          /\ query' = [limit |-> limit, offset |-> offset]
          /\ page' = SubSeq(log, offset + 1, Min({offset + limit, Len(log)}))
    /\ UNCHANGED <<vars, vpc, expected, verdict, total>>

\* Mutation: the total is the number of records on the page.
ReadCount_PageOnly ==
    /\ ppc = "counting"
    /\ ppc' = "answered"
    /\ total' = Len(page)
    /\ UNCHANGED <<vars, vpc, expected, verdict, query, page>>

\* count(), and the response is returned.
ReadCount ==
    /\ ppc = "counting"
    /\ ppc' = "answered"
    /\ total' = Len(log)
    /\ UNCHANGED <<vars, vpc, expected, verdict, query, page>>

\* The pager is ready for the next request.
NextPage ==
    /\ ppc = "answered"
    /\ ppc' = "idle"
    /\ query' = NoQuery /\ page' = << >> /\ total' = 0
    /\ UNCHANGED <<vars, vpc, expected, verdict>>

ReadersNext ==
    \/ Next /\ UNCHANGED readerVars
    \/ LoadCheckpoint \/ LoadUnreadable \/ CreateCheckpoint \/ ReadAndVerify
    \/ ReadEntries \/ ReadCount \/ NextPage

ReadersSpec == ReadersInit /\ [][ReadersNext]_loggerReaderVars

-----------------------------------------------------------------------------

\* A log that only append has written is never reported as invalid, however
\* commits, saves (late, out of order or failed) and crashes fall between the
\* verifier's reading of the checkpoint and of the rows.
NoFalseAlarm == verdict.status # "invalid"

\* The answer of GET /v1/audit/entries is consistent although it is read twice:
\* the records are still those of the log at that offset, and the total counts
\* every record of the page.
PageConsistent ==
    ppc = "answered" =>
        /\ page = SubSeq(log, query.offset + 1, query.offset + Len(page))
        /\ Len(page) <= query.limit
        /\ page # << >> => query.offset + Len(page) <= total
=============================================================================
