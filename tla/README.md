# A TLA+ model of the privacy gateway

The repository is a gateway between chat clients and an LLM provider. It
replaces personal data in a request by tokens, refuses what its policy blocks,
forwards the rest, writes one tamper-evident audit record per request, and
restores the tokens in the answer. This directory holds its specification:
TLA+ modules, TLC configurations and proofs checked by TLAPS. The reference is
the code under `src/gateway/`; every definition names its lines in
`PROJECT.json` ("map").

## 1. The system

| Component | State | Operations | Must be correct about |
|---|---|---|---|
| Audit log, appending (`audit_logger.py`, `append`, `_append_once`) | the SQLite table `audit_log`; per call a connection with its transaction, the loop counter and the built record | begin, read tail, insert, commit, save checkpoint, retry, raise | one chain without forks, one record per call, no checkpoint for a record that does not exist, every call ends |
| Checkpoint store (`checkpoint.py`) | one JSON file with an id and a MAC, temporary files beside it | `save` (write beside, rename, clean up), `load` | the old or the new content, never a mixture, and after a loss of power possibly an earlier one or none; no litter; a corrupt file is no checkpoint |
| Audit log, verifying and reading (`verify_chain`, `verify_with_store`, `create_checkpoint`, `entries`, `count`, `latest`) | none; two reads on two connections | walk the rows, compare the tail with the checkpoint | what passes was written by `append`; an intact log raises no alarm; a page agrees with its total |
| Chat endpoint (`gateway_api.py`) | per request: the context, the sanitized text, the reply | validate, detect, block, tokenize, call the provider, hash, scan, audit, rehydrate, clean up | fail closed; no success without its record; a caller's values go back to that caller only; no mapping survives |
| Tokenization (`tokenization.py`) | per request: namespace, counters, two dictionaries | `token_for`, `rehydrate`, `clear` | two values never share a token; one pass, exact tokens only |
| Mediator and policy (`pii_mediator.py`, `policy.py`) | the policy, read once | `analyze`, `apply`, `redact_all`, `build_decisions`, `response_policy` | nothing mediated is left in a prompt or in a scanned reply |
| Provider adapters (`llm_client.py`) | per call: the request, the response | `chat` | the whole prompt is conveyed, the whole answer is returned in one shape, or a typed error is raised; a silent provider is given up |
| Admin endpoints (`gateway_api.py`) | none | `entries`, `verify`, behind `require_admin` | the readers' properties; two verdicts of one process do not contradict each other |
| Configuration (`config.py`, `load_policy`, `create_app`) | settings | start-up checks | refuses unsafe combinations; a verdict is right whatever process with whatever settings wrote the files before |
| Audit attack evaluation (`evaluation/run_audit_attack_evaluation.py`) | a database, a checkpoint, a copy | ten kinds of change, then verification | every kind is reported as, and where, the documents say |
| Logging (`logging_utils.py`), other evaluation and demo scripts | none | | drive the rest |
| Presidio and spaCy, SQLite, httpx | external | | modelled from how the code uses them |

**How they interact.** The endpoint calls the mediator, the context and the
audit logger as functions inside one event loop; the only place where another
request can run is the await of the provider. Several gateway processes, or
the threads of a test, share the SQLite file and the checkpoint file and
nothing else. A middleware's `finally` clears the context of every request.
The admin endpoints and the offline verifier read the same two files while
writers write them.

**What is hard.** Several writers on one table and one checkpoint file; the
checkpoint is saved outside the transaction; a crash, an `OSError` or another
exception at each of those steps; readers that read twice; changed tables
that are repaired, restored and continued; processes restarted with other keys,
databases or stores over the same files; an event loop that a contended append
stops; requests that overlap at the provider with namespaces drawn at random; error paths that write an audit
record whose write can fail in its turn; code outside every `try`.
`PROJECT.json` ("hazards") lists each one at its line, with the properties that
cover it or the reason why none does.

## 2. The modules

| Module | Models | Built on |
|---|---|---|
| `AuditChain` | the hash chain as operators: sealing a row onto the tail, the walk, the comparison with a checkpoint | |
| `AuditLogger` | `append` by several writers, with the checkpoint store | `AuditChain` |
| `AuditLedger` | what `append` promises: an append-only ledger, a mark, one result per call (abstract) | |
| `AuditLoggerProofs` | safety theorems about the writers, which implement `AuditLedger`; no reader accuses an intact log; ids, order and timestamps of a deployment's records, and its processes as writers | `AuditReaders`, `Deployment` |
| `AuditReaders` | verifier and pager beside the writers | `AuditLogger` |
| `AuditIntegrity` | verdicts on tables that were changed or restored | `AuditChain` |
| `AuditIntegrityProofs` | what passes was written by `append`, for any changes | `AuditIntegrity` |
| `Mediation` | policy, detection, tokens, rehydration as operators on texts | |
| `Gateway` | the chat endpoint with its middleware, requests in parallel | `Mediation` |
| `GatewayProofs` | safety theorems about `Gateway`; it implements the safety part of `GatewayContract` | `Gateway` |
| `GatewayContract` | what a status tells the client and a record the auditor (abstract); `Gateway` implements it | |
| `Deployment` | the event loops of several gateway processes, each handler's append included | `AuditLogger` |
| `CheckpointFile` | `save` and `load` of the checkpoint file, step by step | |
| `CheckpointRegister` | what the store promises: one atomic register, which the machine may bring back with an earlier value or none (abstract); `CheckpointFile` implements it | |
| `CheckpointFileProofs` | `CheckpointFile` implements `CheckpointRegister` | `CheckpointFile` |
| `ProviderAdapter` | one call of `chat` on each adapter, with time | |
| `ProviderAdapterProofs` | prompts and answers of any length are conveyed | `ProviderAdapter` |
| `TokenContext` | the context on texts made of parts of tokens | |
| `TokenContextProofs` | one token for one value; `rehydrate` undoes the sanitizing and nothing else | `TokenContext` |
| `AuditScenarios` | the audit attack evaluation, at any position and with appends after it | `AuditChain` |
| `AuditScenariosProofs` | what is reported of each change, for logs of any length | `AuditScenarios` |
| `Restarts` | start-up, restarts with other settings, and the verdict of the admin endpoint | `AuditChain` |
| `RestartsProofs` | what a verdict says after any restarts; keys in production; the verdicts of one process agree | `Restarts` |
| `MC*` | constants and symmetry for TLC | |

`AuditLogger` takes the store for an atomic register and the gateway takes
`append` for one of four results and the provider for an answer or a typed error;
`CheckpointFile`, `AuditLogger` and `ProviderAdapter` show that they are. `Deployment`
is the composition of the handlers with the appends themselves.

Operators named `Action_Something` are mutations: plausible bugs of the code,
each of which must violate the property it is listed with in `PROJECT.json`.
No specification uses them.

### AuditLogger

A writer is a thread or a process; a call is one invocation of `append`, made
once, whose payload is the call itself. A step ends where someone else can come
between: `StartAppend`, `BeginImmediate` (SQLite's write lock: one holder),
`BuildRecord` (the SELECT of the tail, hash and MAC), `InsertAndCommit`,
`SaveCheckpoint` or `SaveFails`, `ReturnRecord`. `RetryAttempt` and `GiveUp` are
the `except sqlite3.OperationalError` and the `else` of the retry loop,
`RaiseOther` is any other exception, and `Crash` ends the writer anywhere: an
open transaction is lost, a committed row is not.

`AuditLedger` has neither transactions nor hashes. The refinement maps `log` to
the sequence of its contents, the checkpoint to its id and `outcome` to the
result. Commits are `Record`, saves are `Mark`, every way to end is `Finish`,
all other steps stutter. The abstract specification lets the mark move back,
because the code does (finding 1).

### AuditReaders

`LoadCheckpoint`, `LoadUnreadable` (a file that cannot be parsed counts as no
checkpoint) and `CreateCheckpoint` fix what a verification compares with; in a
later step `ReadAndVerify` reads the rows in one SELECT. `ReadEntries` and
`ReadCount` are the two reads of `GET /v1/audit/entries`. All of them run
between the steps of the writers.

### AuditIntegrity

The table is changed as in `tests/unit/test_audit_logger.py` and
`evaluation/run_audit_attack_evaluation.py`: rows edited with or without new
hashes, sealed with another key, relinked, removed, swapped, duplicated, brought
back, or the file replaced by an earlier copy; appends continue on the result.
`sealed` is a history variable, what `append` ever built; `versions` are the tables it
made out of unchanged ones, of which copies may exist.

### Mediation and Gateway

A text is a sequence of fragments: plain or sensitive text, a token, a
redaction marker. The context's two dictionaries are one set of entries.
Each request walks through the handler: `new`, `decide`, `sanitize` (one step
per fragment), `await`, `received`, `seal`, `restore`, `finish`, `done`. Every
`except` of the handler is an action, and so is each place where an exception
passes outside the `try` blocks: `HashFails`, `RedactAllFails`, `RenderFails`,
`Cancelled`, and an audit write that raises no `GatewayError`. `RenderFails` is
the reason why `AuditTrail` allows a sealed record of status 200 whose client got
a 500: the id, the model and the finish reason of the provider's answer are
neither hashed nor scanned, and are encoded only when the answer is rendered. `ClearContext` is the middleware's
`finally`. The provider can repeat any fragment it was ever sent by any request,
add some of its own, or fail.

The audit log is seen through the result of `append`, and these are the results
`AuditLogger` produces: `ok`; `write_error` (nothing written); `late_error`
(written, and `AuditWriteError` raised, by `SaveFails`); `raised`.

`ImplementsContract` maps a request to its phase, whether the provider was sent
its prompt, what kind of record it has and the status of its answer. A client
can tell from the contract what a status means for its data (400 and 422:
nothing was sent; 502 and 504: something was), and an auditor can tell a refusal
from a failure after contact; a 500 tells nothing, because the code answers it on
either side of the call.

### Deployment

A process is a writer of `AuditLogger`, a request the call of `append` its handler
makes. `ready` is the FIFO ready queue of asyncio, `running` the handler that is
inside `append`; while there is one, no other request of that process moves,
but its writer's steps interleave with those of other processes. The handler is
reduced to its stages: `Mediate` up to the await, `ProviderReturns`, `AppendFor` (a
refusal before the call, or the record of a failure or of the sealed cycle after
it), `Reply`. `entry` is the id in the record `append` returned, taken in the step
that returns it. An answer that cannot be rendered is left to `Gateway`.
`preceded` and `stamp` are history variables; the clock counts
its readings, one when a handler starts and one in each attempt of `append`.

### CheckpointFile

One action per system call another process or a crash can come between:
`mkstemp`, two pieces of `json.dump`, `os.replace`, `os.unlink`, and `open` and `read`
of the reader, which keeps reading the file it opened. What may be found at
the path when the store is created includes everything `load` answers with `None`
and what makes it raise `TypeError`. The code calls no `fsync`, neither on the file nor on
its directory, so both reach the disk when the operating system likes: `Flush` writes a
file back, `FlushDirectory` the names. `diskEntry` are the files the path may name
on the disk, `diskTemps` the temporary names that may be there. `PowerLoss` comes back with any
of these files at the path, cut if it was not written back, and with all temporary names that
may be there; processes start again and save. `NoLitter` is about the step in which a save
ends, because a machine that stops can bring back a name that was unlinked.

### ProviderAdapter

`Translate` is the request body, `Interpret` the order in which status, JSON and
shape are checked, `NormalizeOpenAI` and `NormalizeAnthropic` the normalizers, all on
bodies whose parts have a text, have none, or are unusable. `Tick`, `Progress` and
`Expire` are httpx: each operation has the whole timeout for itself. `FallSilent`
is a provider that never answers again.

### TokenContext

A token is four symbols. The caller writes any sequence of them (`Write`), the
namespace is drawn until it does not occur in the text or the attempts are used
up, and each message is cut, from its end as Presidio does, into kept
symbols and detected spans (`Keep`, `Tokenize`). `pieces` remembers what was
written and what is sent for it, which gives the reference `Expected` that
`Rehydrate`, the left-to-right scan, is compared with, for every stretch of the
sent text as the reply.

### AuditScenarios and Restarts

`AuditScenarios` has one action per scenario of the evaluation script; `checkpoint`
is what `create_checkpoint` returned, and `AppendLater` is the gateway that goes on
with the changed database and saves, or fails to save, to its store.

`Restarts` starts one process after another over the same files. `Environments` is
what `.env` may hold; `Start` is `Settings.load` and `create_app` with every refusal as
a guard. An append is a commit and a save, between which the process can die.
`AuditVerify` is the answer of `GET /v1/audit/verify` to an administrator. `VerdictsAreStable`
compares the answers before and after each step of one process: a fault stays where it
is, a valid log stays valid, and any other verdict ends with the first save that succeeds.

## 3. The runs

| Run | Bounds | Shows |
|---|---|---|
| `AuditReaders_concurrent` | 2 writers, 3 calls, 2 attempts, a verifier, a pager with pages of 1 and 2 | of the writers `TypeOK`, `ChainIntact`, `RecordContinuesTail`, `ExactlyOnce`, `CheckpointCommitted`; of the readers between their steps `NoFalseAlarm`, `PageConsistent` |
| `Deployment_two_processes` | 2 processes that may die, 2 requests, 2 attempts, fairness | `EntryIdNamesRecord`, `RealTimeOrder`, `StampsFollowIds`, `LoopTypeOK`; every accepted request is answered (`AllAnswered`); the processes implement the ledger (`ImplementsLedger`) |
| `AuditIntegrity_changes` | 3 rows, 2 payloads, 3 changes | `TypeOK`, `PassedRowsAreGenuine`, `CheckpointAnchors` |
| `AuditScenarios_evaluation` | up to 5 records, 3 appends after the change | `TamperingLocated`, `TruncationsVerifyInternally`, `CheckpointDecides` |
| `CheckpointFile_register` | 3 interchangeable saves, 1 reader, 3 kinds of file found, failures, crashes, any losses of power | `TypeOK`, `LoadedIsSaved`, `NoLitter`, `ImplementsRegister` |
| `Gateway_tokens` | 2 requests, 2 namespaces, replies of 2 fragments, healthy audit log | `TypeOK`, `TokensResolvable`, `OwnTokensRestored`, `OnlyOwnValuesReturn`, `OneRecordPerOutcome` |
| `Gateway_contract` | 2 requests, every result of `append`, response scan, stored content, answers that cannot be rendered, crash, fairness | `FailClosed`, `AuditTrail`, `ContextsCleared`, `ImplementsContract` |
| `ProviderAdapter_calls` | prompts of 3 messages, bodies of 2 parts, a timeout of 2 ticks, fairness | `PromptConveyed`, `NothingLostNothingAdded`, `SilenceEnds` |
| `Restarts_same_files` | 2 databases, 2 strong keys, 4 records, any number of restarts | `VerdictExplained`, `ProductionVouchesForStrongKeys`, `VerdictsAreStable` |
| `TokenContext_lookalikes` | messages of 1 and 4 symbols, 2 namespaces, 2 attempts | `RepliesAreReadAsWritten`, `StableReferents` |
| `AuditLogger_two_writers_cover`, `Gateway_unencodable` | small; each violates its property | findings 1 and 2 |

**Why the bounds are enough to be interesting.** Two writers with
three calls let one commit while the other waits for the lock or is between
commit and save, and then call again; two attempts make both the retry and the last failure happen (the code's 5 adds
repetitions of the same step; the theorems hold for every number). Three rows
and three changes allow an edit, the repair of its hash and the relinking of
its successor, and a restored copy that is continued and then mixed with a row
of the branch it left. One request contains two values of one type and a
repeated one; the other contains a token copied from an earlier answer, so that
one namespace is excluded for it, and with two namespaces both requests may
draw the same. Replies of two fragments mix own, foreign and invented words.
Two requests on two loops share a loop, so that one waits behind the other's
retries, or contend from different processes. Four symbols are a whole token, so the second message can
hold a look-alike whose namespace the first draw may hit, while the first
message has a value to tokenize; every cut of up to four tokens is tried. Five
records are those of the evaluation script. Four records over two databases let a
checkpoint name an id that exists, with another record, in the other database.
Three prompts hold two system messages around or after a user's; two parts
mix a usable one with one that is not.

**Symmetry** is used for writers, calls, contents, saves, databases, keys and namespaces, in runs
without liveness properties. Deadlock is not checked where the system stops because all calls
were made or all requests answered; `AuditReaders` never stops.

**Fairness.** A thread inside `append` keeps running (weak fairness of its steps
taken together): it waits at most for SQLite's busy timeout and then fails, so
it is never blocked for good. This does not assume that an attempt succeeds:
without the bound on the attempts `AllAnswered` fails. A handler that
was entered keeps running, and so does an event loop with something to run
(`FairDeployment`; asyncio's ready queue is first in, first out, which is what makes
weak fairness of a loop as a whole enough). `AllAnswered` and the liveness
of `ImplementsContract` take for granted that the provider call ends: httpx bounds
each wait, not the whole call. `SilenceEnds` shows that a provider that stops is
given up, assuming of it nothing and of the gateway that time passes and timers
fire; one that goes on sending a piece at a time is not given up (section 6). Nobody is obliged to call, to crash or to cancel.

## 4. The proofs

Every theorem holds for all values of the constants that satisfy the named
assumptions of the modules, which TLC evaluates in every run. Each inductive
invariant was checked by TLC on the run's instance before it was proved.

| Theorem | Property | Inductive invariant |
|---|---|---|
| `AuditLoggerProofs`: `TypeCorrect`, `ChainStaysIntact`, `NoForks`, `RecordsAreExactlyOnce`, `CheckpointsAreCommitted` | `TypeOK`, `ChainIntact`, `RecordContinuesTail`, `ExactlyOnce`, `CheckpointCommitted` | `IInv` |
| `OneWriterIsCovered` | `AckedCovered`, if there is one writer | `IInv`, `CoverInv` |
| `LoggerImplementsLedger` | `Ledger!Spec` | `IInv` |
| `IntactLogsAreNotAccused` | `NoFalseAlarm` | `ReadersInv` |
| `PagesAreConsistent` | `PageConsistent` | `IInv`, `PagerInv` |
| `LoopsRunOneHandler`, `EntryIdsStayTrue`, `RecordsFollowRealTime`, `TimestampsFollowIds` | `LoopTypeOK`, `EntryIdNamesRecord`, `RealTimeOrder`, `StampsFollowIds` | `DInv` |
| `DeploymentsAreWriters` | `Spec` of `AuditLogger` | `DInv` |
| `AuditIntegrityProofs`: `TablesAreTyped`, `ChangesStopTheWalk`, `ValidMeansAnchored` | `TypeOK`, `PassedRowsAreGenuine`, `CheckpointAnchors` | `IntegrityInv` |
| `CheckpointFileProofs`: `FilesHaveTypes`, `LoadsReturnSaves`, `NothingPilesUp`, `FileIsRegister` | `TypeOK`, `LoadedIsSaved`, `NoLitter`, `ImplementsRegister` | `FileInv` |
| `GatewayProofs`: `NothingMediatedLeaves`, `RecordsMatchAnswers`, `MappingsEndWithRequests` | `FailClosed`, `AuditTrail`, `ContextsCleared` | `GInv` |
| `OutcomesAreRecorded` | `OneRecordPerOutcome`, under `NothingUncaught` | `OutcomesInv` |
| `GatewayImplementsContract` | `Contract!Spec` | `CInv` |
| `TypesHold`, `PromptsCanBeRestored`, `OwnTokensComeBack`, `NothingElseComesBack` | `TypeOK`, `TokensResolvable`, `OwnTokensRestored`, `OnlyOwnValuesReturn` | `TokenInv` |
| `TokenContextProofs`: `ReferentsAreStable` | `StableReferents` | `ReferentsInv` |
| `RepliesAreRead` | `RepliesAreReadAsWritten` | `RepliesInv` |
| `ProviderAdapterProofs`: `PromptsAreConveyed`, `CompletionsAreTheAnswer` | `PromptConveyed`, `NothingLostNothingAdded` | `CallInv` |
| `AuditScenariosProofs`: `EveryTamperingIsLocated`, `TruncationsAreUnseenInternally`, `TheCheckpointDecides` | `TamperingLocated`, `TruncationsVerifyInternally`, `CheckpointDecides` | `ScenariosInv` |
| `RestartsProofs`: `VerdictsAreExplained`, `ProductionVouches`, `VerdictsStayTrue` | `VerdictExplained`, `ProductionVouchesForStrongKeys`, `VerdictsAreStable` | `RestartsInv` |

### The writers

`AuditLoggerProofs` speaks of every set of writers and calls, every number of attempts,
with or without a store. It rests on three assumptions: `NoCall` is no call,
`AppendRetries` is a positive natural number, `HasStore` is a Boolean. Nothing is assumed
about hashes beyond their definition as constructors.

None of these properties is inductive. `IInv` adds

- `ChainForm`: each row is the seal of its content at its position. The faults
  of the walk are local; to extend the chain one must know the tail's id and hash.
- `OneLockHolder`: while one writer is between SELECT and INSERT no other is. It
  is what keeps `RecordContinuesTail` when another writer commits.
- `CommittedRow`: a writer past its commit has its row in the table; the save
  that follows then names a committed record.
- `CallsInv`: a call belongs to one writer, is pending and unrecorded until that
  writer commits; `ExactlyOnce` needs it across retries.

`NextIInv` has one case per action; each is a lemma. The steps that end a call
share `EndCallKeeps`; the facts about the table alone are in `DurableKept`; the
only step that writes the table is `CommitKeeps`.

`OneWriterIsCovered` strengthens `AckedCovered` by `OwnRowIsNewest`: past its
commit the writer's row is the newest, and past its save the checkpoint names
it. It is exactly this that a second writer breaks (finding 1).

The refinement needs `IInv` as well: a commit is `Record` only because the call
is pending and unrecorded (`CallsInv`), a save is `Mark` only because the writer's
row is in the table at its own id (`CommittedRow`, `ChainForm`).

### The readers

The argument extends to the readers, for any number of writers. A
reader takes the checkpoint and the rows at different moments, so a fact about one
state is not enough. `ExpectedIsCommitted` says that the checkpoint it holds names a
row that is in the log now: it did when it was read (`CheckpointCommitted`), and a log
that only grows at its end keeps it (`CheckpointsKept`). The walk of the rows has
no faults by `ChainIntact`. The same growth carries a page from its SELECT to the
count that follows (`PagerInv`); `PageAssumption` says that a limit is a natural number.

### Deployments

`DInv` adds to `IInv` what joins a handler to its writer: a writer that is not idle has
the call of the handler its loop executes (`RunningInv`), a queue holds waiting requests
of its own process, each once (`QueuesInv`), every waiting request is in that queue
(`WaitingInv`; with `QueuesInv` it is the last part of `LoopTypeOK`), a handler answers with what
`append` did (`AnswersInv`), and the id it was given is the id of its record, which later
appends do not move (`EntryInv`). `RealTimeOrder` needs that whatever precedes a request has its
record already (`PrecededInv`), `StampsFollowIds` that the handler in `append` has
a later stamp than any record of its process (`StampInv`), which one loop guarantees
and two would not. `DeploymentsAreWriters` carries the theorems about `AuditLogger` over.

### Changed tables

`AuditIntegrityProofs` is about any payloads and any sequence of changes; only
the bounds `MaxRows` and `MaxChanges` are assumed to be numbers, and the other key another
one. A change can put any MAC of the audit key anywhere, but only one that
`append` made (`GoodRow`). Such a MAC determines its row through the hash (`MacNamesRow`), so a
row that passes the four checks of the walk is the one `append` wrote
(`PassedIsSealed`). `TableInv` bounds the ids, because a table that was shortened and
continued need not start at 1, and `VersionsInv` says the same of every copy. `AnchorInv` ties
the checkpoint to the row it was saved for.

### The checkpoint file

`CheckpointFileProofs` holds for any number of saves and readers and any file found
at the start. Nobody writes to a file that was given to the path: `FilesInv` says so of
the saves, `NamesInv` of the path, on the disk too, and of every file a reader holds open. The refinement maps a
rename to `Store`, the opening of the file to `Load`, and `onDisk` to the values of the files
in `diskEntry`; a file cut by the loss of power has the value nothing (`CutIsNothing`). `SavesAssumption` separates
the names of the saves from those of the files found and of the results.

### The chat endpoint

`GatewayProofs` is about every set of requests and bodies, every policy, every
choice of namespaces, providers and results of `append`. Assumed are `BodyAssumption` (a
request has a non-empty text, as the schema demands of `messages`), `FragmentAssumption` (its
fragments are texts and tokens), `PolicyAssumption` (the policy maps its entities to the
four actions) and `AppendAssumption` (`append` has no other results than those of
`AuditLogger`). The invariant `GInv` speaks of one request at a time, and `OneRequest`
reduces each step to the request that took it. It adds to the three properties

- `PromptInv`: the text is sendable as far as it is sanitized, and sanitizing is
  reached only without a blocked type; `FailClosed` alone does not know what will be
  sent next. The fragment appended last is sendable because a token in a context
  is a token (`MediatedIsSendable`).
- `RecordInv`: nothing is recorded or answered while the handler runs, and a sealed
  cycle that is not answered yet has its record.

The order of steps of different handlers is free, so the theorems hold for the
one event loop and for worker processes.

`OutcomesAreRecorded` has a hypothesis, `NothingUncaught`: the audit write succeeds, every reply can
be encoded, stored content is off and no answer fails to render. These
are the exceptions that pass outside every `try`; without the hypothesis
the property is false, as finding 2 shows of one of them.

`GatewayImplementsContract`: the mapping needs `Promise`: the provider has a prompt from the
await on, and at `finish` the status is truthful. Each action is then one step of the contract for
the same request (`EnterStep`, `ContactStep`, `LogStep`, `AnswerStep`, `DieStep`) or none (`SilentStep`).

The theorems on tokens need what a token means wherever it is. In a context
(`CtxOK`) it is of the context's namespace, numbered up to the counter of its
type, and of one entry only. In a sanitized text (`Faithful`) it is the caller's own or
stands for the fragment at its place. Two requests may share a namespace: what comes back then
is still looked up in the request's own context, which is why `OwnTokensRestored` holds
without assuming that namespaces differ.

### Parts of tokens

`ReferentsAreStable` is about messages of any length. `Numbered` says that the tokens of one type have
numbers up to their count: therefore the next number is free, and a value
that has no token gets one that no other value has. `PiecesInv` ties each piece
that was sent to the entry it was sent for.

`RepliesAreRead` is about texts of any length and every stretch of what was sent. Its
invariant `RepliesInv` adds that no text holds the namespace (`TextsInv`: it was drawn
against all of them and they do not change afterwards), so that a piece is one symbol that
is no namespace, or a token of the request (`SentInv`). The rest is about operators:

- what was sent lays the pieces out one after the other (`FlattenLaysOut`), so a reply
  repeats each piece as far as it reaches (`EachPieceIsRepeated`);
- a match holds no second beginning of one (`MatchesAreApart`), so that the scan passes a
  foreign token on symbol by symbol, as it does any other text (`RehydrateDefinition`);
- a token is found where it is whole (`TokenIsRestored`); where it is cut, and at every other
  symbol, no token of the request begins (`CutTokenIsKept`, `SymbolIsKept`). A look-alike
  that joins a symbol of the caller's with half a token is excluded here: what follows
  `[[PGW_` would have to be the namespace, and only a token holds that, behind its own;
- the scan, started at a piece, gives its part and then what it gives at the next one
  (`PieceIsRead`), which adds up to `Expected` (`PartsJoin`).

### Recursion

`Rehydrate`, `end` in `Expected`, the `FlattenSeq` of the library and `Kept` in `ProviderAdapter`
are recursive functions. The induction theorems of the library have an operator as
parameter, but one of them says only that a non-empty set of numbers has a least one
(`WFMin`); the lemma `Induction`, about sets, follows from it. With it the functions are shown
to exist (`RecursionExists`, `RestExists`, `EndsExist`, `ComputationExists`): without that their
equations could not be used, because TLA+ defines them by `CHOOSE`.

### The provider call

`ProviderAdapterProofs` holds for prompts and answers of any length. `CallInv` says that the request
in flight is the translation of the prompt and a result the reading of the answer; everything else is
what those operators do. `KeptElements` characterizes the filter by roles: where each element
of the result comes from, in order, and that none is missing. Assumed are `PromptsAssumption`
and `AnswersAssumption`: prompts are sequences of messages with one of three roles, and
statuses are numbers, and a body that is an object has a sequence of parts and a usage of three kinds. `TimeoutAssumption` is for TLC.

### The evaluation

`AuditScenariosProofs` holds for logs of any length, with the change at any position and any
number of appends after it. `ScenariosInv` describes each changed table by its rows: after a
tampering, the walk passes all rows before the damage and not the damaged one
(`AfterTampering`), and an append, which goes on from the tail, cannot mend it. After a truncation the table is a
chain again, whose contents are those of the shorter log and then the later ones (`AfterTruncation`).
The checkpoint is of a record that is among those or not, and a record appended in place of a
lost one has another hash (`CheckpointKeptOrLost`), which is what `CheckpointDecides` needs.

### Restarts

`RestartsProofs` is about any number of databases, keys and processes. `TablesInv` says that each
table is a chain although its rows may be sealed with different keys, so that
the faults of the walk are exactly the rows of other keys (`FaultsAreForeign`); `StoreInv` that the
checkpoint is of the record saved last, which is still there, so that it names a
record of no other database (`ForeignCheckpoint`). `AppInv` keeps what `Start` has checked. `VerdictsStayTrue` compares two states: a
fault is a row of another key, and no append or save takes one away (`ForeignRowsStay`); a log
is valid exactly when it has rows, all of the current key, and the store, if there is one, has
a checkpoint of the same database (`ValidWhen`, `ValidVerdict`). Assumed
are that the kinds of keys are distinct, that the environments are settings and that
`"none"` is no database.

**Model-checked only.** All the invariants of the passing runs are proved. Left to TLC are
the liveness properties `AllAnswered` and `SilenceEnds` and the fairness parts of
`ImplementsLedger` and `ImplementsContract`: their safety parts are proved, but liveness under
fairness is beyond this prover.

## 5. Findings

1. **Two writers, one store** (`AuditLogger_two_writers_cover`). The checkpoint is
   saved after the commit, outside the transaction. Of two writers the first to
   commit can be the last to save; then the store names the older record although
   both calls returned, and the removal of the newer one would not be noticed.
   `docs/ARCHITECTURE.md:107-108` says the store receives the newest pair after
   each append. With one writer the property holds.
2. **A reply that cannot be encoded** (`Gateway_unencodable`). The response hash is
   computed outside every `try`; an unpaired surrogate makes it raise, and the
   cycle ends without an audit record after the provider was contacted, although
   `docs/ARCHITECTURE.md:95` promises a record of every outcome.

The models also contain the following behaviours of the code, which other
properties allow for:

- `append` raises `AuditWriteError` "if the record cannot be durably written", and
  also when it was written and only the checkpoint was not (`SaveFails`; the
  `late_error` of `Gateway`).
- `_audit_safe` swallows `GatewayError` only, and `append` translates
  `sqlite3.OperationalError` only: any other database error replaces the answer of
  an error path (`raised`; `StatusAfter`).
- `os.replace` renames a file that was not synced, in a directory that was not synced:
  after a loss of power the path may name a truncated file, which counts as no checkpoint, or
  the file of an earlier save (`LoadedIsSaved`, `CheckpointRegister!PowerLoss`). It never holds
  a part of a checkpoint, or two mixed.
- A checkpoint file with JSON other than an object, or a null id, makes `load` raise
  `TypeError` (`Mistyped`).
- A token count of `Infinity`, which Python's JSON parser accepts, leaves the adapter
  as `OverflowError` (`WithUsage`); the handler still answers 502.
- `append` does not look at the checkpoint it replaces: after a truncation the first
  append that saves makes the shortened log verify. `CheckpointDecides` says what
  holds until then: the loss is reported, even when the log has grown past the
  lost ids.

## 6. Abstractions

- `ProviderAdapter` counts the ticks of one operation only; the code bounds nothing else.
- SHA-256 and HMAC are free constructors: no collisions, no forgeries. The
  hashed text joins the fields by `|`; it is taken to determine them.
- Schema version, timestamp and payload of a row are one value, `content`.
- A crash is the death of a process: what was renamed or committed stays. Only
  `CheckpointFile` also lets the machine stop. That a committed row then stands beside an
  earlier checkpoint, so that the checkpoint lags behind the tail, is not modelled in `AuditLogger`.
- SQLite: `BEGIN IMMEDIATE` excludes other writers, COMMIT is atomic and durable,
  a SELECT reads one snapshot. An exception in an attempt rolls it back.
- For `AuditLogger` `CheckpointStore.save` is one step; `CheckpointFile` shows that it may
  be. Exceptions of `save` other than `OSError` are not modelled.
- The detector finds exactly the sensitive fragments asked for, or raises. How
  well Presidio does that is the subject of `evaluation/`, not of a model.
- Of the provider's answer only the contents of the messages are modelled; of its
  other fields, whether they can be rendered.
- Requests interleave at every step. One event loop, and several processes,
  run a subset of these behaviours.
- Tokens are minted in the order of the text; Presidio replaces from its end. Only
  their numbers differ, and no property looks at a number.
- In `Gateway` the provider answers with at least one fragment; malformed answers are
  errors of the adapter (`ProviderAdapter`).
- `TokenContext`: 32 bits of randomness are two namespaces, of which the caller may have
  written either; a span detected by Presidio is any stretch of a message, and spans
  do not overlap (Presidio resolves overlaps before it replaces).
- `Restarts`: the processes run one after another; two at a time are the subject of
  `AuditLogger` and `Deployment`. No two records have the same content, for each has its
  request id and time (in `Restarts` it is named by its database and id); likewise in `AuditScenarios`.
  The administrator's key is left out of `Restarts`, and so is a database that cannot be opened at start-up.
- `Deployment`: the time between a process's death and its restart is left out, and
  the clock never goes back.

## 7. Not modelled, and why

`logging_utils.py` sets levels once. `require_admin` compares one header with one setting and
keeps no state. The other evaluation scripts measure how well
the installed models detect, how long requests take, or search the outputs for
fixture values, and `demo.py` prints a session: sequential drivers of the operations
modelled here, without state of their own. `PolicyDecision`'s counts and scores go
into the audit record and nothing depends on them. How long the busy timeout and
the backoff stop an event loop is real time; that they do stop it, and that every
request is answered all the same, is in `Deployment`. The quality of detection is
a matter of data.

## 8. Plan

1. done: `AuditChain`, `AuditLogger` with its abstract ledger, its safety and
   refinement proofs, `AuditReaders`, `AuditIntegrity`, `Mediation`, `Gateway`.
2. done: `CheckpointFile` and its register, `ProviderAdapter`, `GatewayContract`,
   `Deployment`, `AuditScenarios`, `Restarts`, `TokenContext`.
3. done: the theorems of section 4.
4. done: the theorems about `AuditScenarios` and `ProviderAdapter`, and that replies are
   read as they were written.
5. Left: nothing that this prover can do. Proofs of the liveness properties await one that knows
   fairness and `ENABLED`.
