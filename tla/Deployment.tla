----------------------------- MODULE Deployment -----------------------------
(***************************************************************************)
(* Gateway processes on one audit database: the handlers of gateway_api.py *)
(* on the event loop of their process, composed with the appends of        *)
(* AuditLogger.  A process is a writer, a request is the call of append    *)
(* its handler makes.                                                      *)
(*                                                                         *)
(* The loop runs one handler at a time, in the order in which they became  *)
(* ready, and a handler gives way only where it awaits the provider.       *)
(* append is no coroutine: its waits for the lock, its sleeps and its      *)
(* retries stop every request of the process.                              *)
(***************************************************************************)
EXTENDS AuditLogger

CONSTANT MayDie                \* can a process die?

VARIABLES
    stage,       \* where each request is
    home,        \* the process that took it, as a sequence
    ready,       \* the ready queue of each loop
    running,     \* the request whose handler each loop executes
    intent,      \* the record a handler is about to write
    status,      \* the status it answered
    entry,       \* the id in the record its append returned, its X-Audit-Entry-Id
    clock,       \* counts the readings of the clock
    stamp,       \* the time each handler started, then that of its append
    preceded     \* the requests answered when a request arrived

deploymentVars == <<log, checkpoint, pc, call, attempt, record, outcome,
                    stage, home, ready, running, intent, status, entry, clock, stamp, preceded>>

DeploymentInit ==
    /\ Init
    /\ stage = [c \in Calls |-> "new"]
    /\ home = [c \in Calls |-> << >>]
    /\ ready = [p \in Writers |-> << >>]
    /\ running = [p \in Writers |-> NoCall]
    /\ intent = [c \in Calls |-> "none"]
    /\ status = [c \in Calls |-> 0]
    /\ entry = [c \in Calls |-> 0]
    /\ clock = 0
    /\ stamp = [c \in Calls |-> 0]
    /\ preceded = [c \in Calls |-> {}]

-----------------------------------------------------------------------------

At(c, label) == stage' = [stage EXCEPT ![c] = label]

\* The server accepts a request and schedules its handler.
Arrive(p, c) ==
    /\ stage[c] = "new"
    /\ At(c, "arrived")
    /\ home' = [home EXCEPT ![c] = <<p>>]
    /\ ready' = [ready EXCEPT ![p] = Append(@, c)]
    /\ preceded' = [preceded EXCEPT ![c] = {d \in Calls : status[d] = 200}]
    /\ UNCHANGED <<vars, running, intent, status, entry, clock, stamp>>

\* Mutation: a handler can run while another one waits for its append.
TakesFirst_Overlapping(p, c, label) ==
    /\ ready[p] # << >> /\ Head(ready[p]) = c /\ stage[c] = label
    /\ ready' = [ready EXCEPT ![p] = Tail(@)]

\* The loop takes the first request that is ready at the given stage.
TakesFirst(p, c, label) ==
    /\ running[p] = NoCall
    /\ ready[p] # << >> /\ Head(ready[p]) = c /\ stage[c] = label
    /\ ready' = [ready EXCEPT ![p] = Tail(@)]

\* The handler reads the clock; detection and sanitization, up to the await of
\* the provider.
Mediate(p, c) ==
    /\ TakesFirst(p, c, "arrived")
    /\ At(c, "awaiting")
    /\ clock' = clock + 1
    /\ stamp' = [stamp EXCEPT ![c] = clock + 1]
    /\ UNCHANGED <<vars, home, running, intent, status, entry, preceded>>

\* The answer, or the failure, of the provider makes the handler ready again.
ProviderReturns(c) ==
    /\ stage[c] = "awaiting"
    /\ At(c, "resumed")
    /\ ready' = [ready EXCEPT ![home[c][1]] = Append(@, c)]
    /\ UNCHANGED <<vars, home, running, intent, status, entry, clock, stamp, preceded>>

\* Mutation: the record carries the time at which its handler started.
Timestamp_OfStart(c) == IF stamp[c] = 0 THEN clock + 1 ELSE stamp[c]

\* Each attempt of append takes the time before it waits for the lock.
Timestamp(c) == clock + 1

\* Mutation: the record is written in the background of the answer.
AppendFor_Background(p, c) ==
    /\ TakesFirst(p, c, "resumed")
    /\ intent' = [intent EXCEPT ![c] = "sealed"]
    /\ status' = [status EXCEPT ![c] = 200]
    /\ running' = [running EXCEPT ![p] = c]
    /\ clock' = clock + 1
    /\ stamp' = [stamp EXCEPT ![c] = Timestamp(c)]
    /\ At(c, "appending")
    /\ StartAppend(p, c)
    /\ UNCHANGED <<home, entry, preceded>>

\* A handler comes to its audit record: a refusal before the provider was
\* called, a failure or the sealing of the cycle afterwards.
AppendFor(p, c) ==
    /\ \/ TakesFirst(p, c, "arrived") /\ intent' = [intent EXCEPT ![c] = "refused"]
       \/ /\ TakesFirst(p, c, "resumed")
          /\ \E kind \in {"failed", "sealed"} : intent' = [intent EXCEPT ![c] = kind]
    /\ running' = [running EXCEPT ![p] = c]
    /\ clock' = clock + 1
    /\ stamp' = [stamp EXCEPT ![c] = Timestamp(c)]
    /\ At(c, "appending")
    /\ StartAppend(p, c)
    /\ UNCHANGED <<home, status, entry, preceded>>

\* A statement of append, in the thread of the loop; another attempt takes the
\* time again, and what is returned at last is the record with its id.
AppendStep(p) ==
    /\ running[p] # NoCall
    /\ Step(p)
    /\ IF attempt'[p] > attempt[p]
         THEN /\ clock' = clock + 1
              /\ stamp' = [stamp EXCEPT ![running[p]] = Timestamp(running[p])]
         ELSE UNCHANGED <<clock, stamp>>
    /\ entry' = IF pc[p] = "return" THEN [entry EXCEPT ![running[p]] = record[p].id] ELSE entry
    /\ UNCHANGED <<stage, home, ready, running, intent, status, preceded>>

\* Hashing the reply raises before the append (406-408): an answer and no record.
\* Rendering comes after the append, which Reply answers as if it succeeded:
\* that a 200 may become a 500 there is in Gateway.
Unrecorded(p, c) ==
    /\ TakesFirst(p, c, "resumed")
    /\ At(c, "answered")
    /\ status' = [status EXCEPT ![c] = 500]
    /\ UNCHANGED <<vars, home, running, intent, entry, clock, stamp, preceded>>

\* _audit_safe lets the answer of an error path stand whatever GatewayError
\* append raised; _audit_or_fail turns it into the answer.
StatusAfter(kind, result) ==
    CASE result = "raised"                    -> 500
      [] result # "raised" /\ kind = "refused" -> 400
      [] result # "raised" /\ kind = "failed"  -> 502
      [] result = "ok" /\ kind = "sealed"      -> 200
      [] result = "write_error" /\ kind = "sealed" -> 500

\* Mutation: the header names the record that is the newest when it is written.
Reply_LatestId(p) ==
    LET c == running[p]
    IN  /\ c # NoCall /\ pc[p] = "idle"
        /\ At(c, "answered")
        /\ status' = [status EXCEPT ![c] = StatusAfter(intent[c], outcome[c])]
        /\ entry' = IF status'[c] = 200 THEN [entry EXCEPT ![c] = Len(log)] ELSE entry
        /\ running' = [running EXCEPT ![p] = NoCall]
        /\ UNCHANGED <<vars, home, ready, intent, clock, stamp, preceded>>

\* append has returned or raised and the handler answers.
Reply(p) ==
    LET c == running[p]
    IN  /\ c # NoCall /\ pc[p] = "idle"
        /\ At(c, "answered")
        /\ status' = [status EXCEPT ![c] = StatusAfter(intent[c], outcome[c])]
        /\ running' = [running EXCEPT ![p] = NoCall]
        /\ UNCHANGED <<vars, home, ready, intent, entry, clock, stamp, preceded>>

\* The process dies with all its requests, and is started again.
Die(p) ==
    /\ MayDie
    /\ stage' = [c \in Calls |->
                    IF home[c] = <<p>> /\ stage[c] # "answered" THEN "lost" ELSE stage[c]]
    /\ ready' = [ready EXCEPT ![p] = << >>]
    /\ running' = [running EXCEPT ![p] = NoCall]
    /\ IF pc[p] = "idle" THEN UNCHANGED vars ELSE Crash(p)
    /\ UNCHANGED <<home, intent, status, entry, clock, stamp, preceded>>

-----------------------------------------------------------------------------

\* What the loop of p does next.
Loop(p) ==
    \/ \E c \in Calls : Mediate(p, c) \/ AppendFor(p, c) \/ Unrecorded(p, c)
    \/ AppendStep(p)
    \/ Reply(p)

DeploymentNext ==
    \/ \E p \in Writers :
          \/ \E c \in Calls : Arrive(p, c)
          \/ Loop(p)
          \/ Die(p)
    \/ \E c \in Calls : ProviderReturns(c)

DeploymentSpec == DeploymentInit /\ [][DeploymentNext]_deploymentVars

\* A loop with something to run runs it; the provider's call returns or raises
\* (ProviderAdapter).  Nobody has to send a request.
FairDeployment ==
    /\ DeploymentSpec
    /\ \A p \in Writers : WF_deploymentVars(Loop(p))
    /\ \A c \in Calls : WF_deploymentVars(ProviderReturns(c))

-----------------------------------------------------------------------------
(* Properties                                                              *)

\* A request is at a known stage; a loop executes a handler exactly while that
\* is in append; and the loop of its process has each request that waits for it
\* in its queue, once, and nothing else.
LoopTypeOK ==
    /\ stage \in [Calls -> {"new", "arrived", "awaiting", "resumed", "appending", "answered", "lost"}]
    /\ \A p \in Writers :
          /\ pc[p] # "idle" => running[p] = call[p]
          /\ \A c \in Calls : running[p] = c <=> stage[c] = "appending" /\ home[c] = <<p>>
          /\ \A c \in Calls :
                stage[c] \in {"arrived", "resumed"} /\ home[c] = <<p>>
                  <=> \E k \in DOMAIN ready[p] : ready[p][k] = c
          /\ \A j, k \in DOMAIN ready[p] : ready[p][j] = ready[p][k] => j = k

\* A client that was answered 200 can find the record of its own request, and
\* no other, under the id in X-Audit-Entry-Id, at any later time and whatever
\* the other processes append in between.
EntryIdNamesRecord ==
    \A c \in Calls : status[c] = 200 =>
        /\ entry[c] \in DOMAIN log
        /\ log[entry[c]].id = entry[c] /\ log[entry[c]].content = c
        /\ intent[c] = "sealed"

\* The log keeps real time across processes: what was answered 200 before a
\* request arrived precedes that request's record.
RealTimeOrder ==
    \A j, k \in DOMAIN log : log[j].content \in preceded[log[k].content] => j < k

\* The timestamp is taken before the lock is.  Within one process the timestamps
\* of the records follow their ids all the same, because the loop is stopped
\* from one to the other (across processes they need not).
StampsFollowIds ==
    \A j, k \in DOMAIN log :
        LET c == log[j].content  d == log[k].content
        IN  j < k /\ home[c] = home[d] => stamp[c] < stamp[d]

\* However often an append is retried and however many processes contend for
\* the lock or die in it, every request a living process accepted is answered:
\* no request starves behind another one's append.
AllAnswered ==
    \A c \in Calls : stage[c] # "new" ~> stage[c] \in {"answered", "lost"}
=============================================================================
