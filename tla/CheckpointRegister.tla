------------------------- MODULE CheckpointRegister -------------------------
(***************************************************************************)
(* What a checkpoint store promises to the audit log: it is one register.  *)
(* A save replaces the value in one step or not at all; a load returns the *)
(* value as it was at one moment of the call, or nothing.  What it does    *)
(* not promise is that a value survives the machine: no save is synced, so *)
(* an earlier value, or nothing, may be there when the machine is back.    *)
(***************************************************************************)
CONSTANTS Saves,        \* the invocations of save
          Readers,      \* the callers of load
          Nothing       \* what a load returns if there is nothing it can use

VARIABLES
    value,      \* what a load returns now
    onDisk,     \* the values the machine may come back with
    stage,      \* how far each save is
    seen        \* what each reader's last load returned

registerVars == <<value, onDisk, stage, seen>>

\* Nothing is known of the value a register is found with, except that it is
\* no save's.
Init ==
    /\ value \notin Saves
    /\ onDisk = {value}
    /\ stage = [s \in Saves |-> "new"]
    /\ seen = [r \in Readers |-> Nothing]

Move(s, from, to) ==
    /\ stage[s] \in from
    /\ stage' = [stage EXCEPT ![s] = to]
    /\ UNCHANGED seen

Begin(s)  == Move(s, {"new"}, "active") /\ UNCHANGED <<value, onDisk>>
Return(s) == Move(s, {"stored"}, "ok") /\ UNCHANGED <<value, onDisk>>

Store(s) ==
    /\ Move(s, {"active"}, "stored")
    /\ value' = s
    /\ onDisk' = onDisk \cup {s}

\* save raises or its process dies; only a dead one may have stored its value.
Raise(s)  == Move(s, {"new", "active"}, "os_error") /\ UNCHANGED <<value, onDisk>>
Die(s)    == Move(s, {"active", "stored"}, "lost") /\ UNCHANGED <<value, onDisk>>

Load(r) ==
    /\ \E v \in {value, Nothing} : seen' = [seen EXCEPT ![r] = v]
    /\ UNCHANGED <<value, onDisk, stage>>

\* The disk follows.
Settle ==
    /\ onDisk' = {value}
    /\ UNCHANGED <<value, stage, seen>>

\* The machine stops with every save under way: what it comes back with is the
\* value, one it had since the disk followed last, or nothing.
PowerLoss ==
    /\ value' \in onDisk \cup {Nothing}
    /\ onDisk' = {value'}
    /\ stage' = [s \in Saves |-> IF stage[s] \in {"active", "stored"}
                                   THEN "lost" ELSE stage[s]]
    /\ seen' = [r \in Readers |-> Nothing]

Next ==
    \/ \E s \in Saves : Begin(s) \/ Store(s) \/ Return(s) \/ Raise(s) \/ Die(s)
    \/ \E r \in Readers : Load(r)
    \/ Settle \/ PowerLoss

Spec == Init /\ [][Next]_registerVars
=============================================================================
