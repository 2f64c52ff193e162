--------------------------- MODULE CheckpointFile ---------------------------
(***************************************************************************)
(* LocalFileCheckpointStore of gateway/checkpoint.py: several processes    *)
(* save to and load from one JSON file.  A step ends where another process *)
(* or a crash can come between.                                            *)
(*                                                                         *)
(* What is written has two parts, the id and the MAC; a part is the save   *)
(* that wrote it.  A directory entry names a file, an open handle keeps    *)
(* its file whatever the entry names meanwhile.  A file nobody saved is    *)
(* known by what is wrong with it.                                         *)
(*                                                                         *)
(* The code syncs neither a file nor the directory.  The disk follows when *)
(* the kernel writes back; until then it may hold less of a file, and the  *)
(* directory of an earlier moment.                                         *)
(***************************************************************************)
EXTENDS Integers, Sequences

CONSTANTS Saves,            \* the invocations of save
          Readers,          \* the processes that call load
          FoundFiles,       \* what may be at the path when the store is created
          MayLosePower      \* can the machine stop, not only a process?

\* Files that are no checkpoint: for some of them load returns None, for the
\* others int(None) or list["last_record_id"] raises TypeError.
Harmless == {"absent", "unreadable", "not_json", "missing_key"}
Mistyped == {"not_object", "null_field"}

ASSUME FoundAssumption == FoundFiles \subseteq Harmless \cup Mistyped
ASSUME SavesAssumption ==
    Saves \cap (Harmless \cup Mistyped \cup {"none", "type_error"}) = {}

VARIABLES
    entry,      \* the file the path names
    temps,      \* the saves whose temporary file has a name
    parts,      \* what has been written to the file of each save
    flushed,    \* the saves whose file has reached the disk
    diskEntry,  \* the files the path may name on the disk
    diskTemps,  \* the saves whose temporary file may have a name on the disk
    pc,         \* where each save is
    handle,     \* the file each reader has opened, as a sequence
    loaded      \* the result of each reader's last load

diskVars == <<flushed, diskEntry, diskTemps>>
saverVars == <<entry, temps, parts, diskVars, pc>>
vars == <<saverVars, handle, loaded>>

None == [result |-> "none", id |-> "none", mac |-> "none"]
TypeError == [None EXCEPT !.result = "type_error"]

Init ==
    /\ entry \in FoundFiles
    /\ temps = {}
    /\ parts = [s \in Saves |-> << >>]
    /\ flushed = {}
    /\ diskEntry = {entry} /\ diskTemps = {}
    /\ pc = [s \in Saves |-> "new"]
    /\ handle = [r \in Readers |-> << >>]
    /\ loaded = [r \in Readers |-> None]

-----------------------------------------------------------------------------
(* save                                                                    *)

Goto(s, label) == pc' = [pc EXCEPT ![s] = label]

\* Mutation: every save writes to one temporary file.
TempOf_Fixed(s) == CHOOSE t \in Saves : TRUE

\* mkstemp never returns a name that is in use.
TempOf(s) == s

\* mkdir and mkstemp in the directory of the checkpoint.
CreateTemp(s) ==
    /\ pc[s] = "new"
    /\ Goto(s, "write")
    /\ temps' = temps \cup {TempOf(s)}
    /\ diskTemps' = diskTemps \cup {TempOf(s)}
    /\ parts' = [parts EXCEPT ![TempOf(s)] = << >>]
    /\ UNCHANGED <<entry, flushed, diskEntry, handle, loaded>>

\* They stand before the try: there is nothing to clean up.
CreateFails(s) ==
    /\ pc[s] = "new"
    /\ Goto(s, "os_error")
    /\ UNCHANGED <<entry, temps, parts, diskVars, handle, loaded>>

\* json.dump writes in several pieces; the with statement closes the file.
WritePart(s) ==
    /\ pc[s] = "write"
    /\ parts' = [parts EXCEPT ![TempOf(s)] = Append(@, s)]
    /\ Goto(s, IF Len(parts'[TempOf(s)]) < 2 THEN "write" ELSE "replace")
    /\ UNCHANGED <<entry, temps, diskVars, handle, loaded>>

\* Mutation: the file is renamed before it is closed.
Replace_BeforeClose(s) ==
    /\ pc[s] \in {"write", "replace"}
    /\ entry' = TempOf(s)
    /\ temps' = temps \ {TempOf(s)}
    /\ diskEntry' = diskEntry \cup {entry'}
    /\ Goto(s, "return")
    /\ UNCHANGED <<parts, flushed, diskTemps, handle, loaded>>

\* os.replace: the path names the new file from one moment to the next.
Replace(s) ==
    /\ pc[s] = "replace"
    /\ entry' = TempOf(s)
    /\ temps' = temps \ {TempOf(s)}
    /\ diskEntry' = diskEntry \cup {entry'}
    /\ Goto(s, "return")
    /\ UNCHANGED <<parts, flushed, diskTemps, handle, loaded>>

WriteOrReplaceFails(s) ==
    /\ pc[s] \in {"write", "replace"}
    /\ Goto(s, "unlink")
    /\ UNCHANGED <<entry, temps, parts, diskVars, handle, loaded>>

\* Mutation: the temporary file is left where it is.
Unlink_Forgotten(s) ==
    /\ pc[s] = "unlink"
    /\ Goto(s, "os_error")
    /\ UNCHANGED <<entry, temps, parts, diskVars, handle, loaded>>

\* The error is raised again once the temporary file is removed ...
Unlink(s) ==
    /\ pc[s] = "unlink"
    /\ temps' = temps \ {TempOf(s)}
    /\ Goto(s, "os_error")
    /\ UNCHANGED <<entry, parts, diskVars, handle, loaded>>

\* ... or could not be removed either.
UnlinkFails(s) ==
    /\ pc[s] = "unlink"
    /\ Goto(s, "littered")
    /\ UNCHANGED <<entry, temps, parts, diskVars, handle, loaded>>

Return(s) ==
    /\ pc[s] = "return"
    /\ Goto(s, "ok")
    /\ UNCHANGED <<entry, temps, parts, diskVars, handle, loaded>>

Ended == {"ok", "os_error", "littered", "lost"}

\* The process of a save dies: its files stay as they are.
Crash(s) ==
    /\ pc[s] \notin Ended \cup {"new"}
    /\ Goto(s, "lost")
    /\ UNCHANGED <<entry, temps, parts, diskVars, handle, loaded>>

-----------------------------------------------------------------------------
(* load                                                                    *)

\* What load makes of a file: truncated JSON is a ValueError.
Outcome(file) ==
    CASE file \in Harmless -> None
      [] file \in Mistyped -> TypeError
      [] file \in Saves ->
           IF Len(parts[file]) < 2 THEN None
           ELSE [result |-> "checkpoint", id |-> parts[file][1], mac |-> parts[file][2]]

OpenFile(r) ==
    /\ handle[r] = << >>
    /\ handle' = [handle EXCEPT ![r] = <<entry>>]
    /\ UNCHANGED <<saverVars, loaded>>

FinishLoad(r, outcome) ==
    /\ handle[r] # << >>
    /\ handle' = [handle EXCEPT ![r] = << >>]
    /\ loaded' = [loaded EXCEPT ![r] = outcome]
    /\ UNCHANGED saverVars

ReadFile(r) == handle[r] # << >> /\ FinishLoad(r, Outcome(handle[r][1]))

\* OSError: None
ReadFails(r) == FinishLoad(r, None)

-----------------------------------------------------------------------------
(* The machine                                                             *)

\* The kernel writes a file back to the disk at some time after its close.
Flush(s) ==
    /\ MayLosePower
    /\ pc[s] \in {"replace", "return"} \cup Ended
    /\ s \notin flushed
    /\ flushed' = flushed \cup {s}
    /\ UNCHANGED <<entry, temps, parts, diskEntry, diskTemps, pc, handle, loaded>>

\* The kernel writes the directory back: the disk names what the system names.
FlushDirectory ==
    /\ MayLosePower
    /\ diskEntry' = {entry} /\ diskTemps' = temps
    /\ UNCHANGED <<entry, temps, parts, flushed, pc, handle, loaded>>

\* Power is lost.  What was not flushed may be cut off although it has a name,
\* and each name is as it was at some moment since the directory was flushed: a
\* rename may be undone, a temporary file be back.  (One may be gone as well; as
\* nothing reads the names that are left, all of them are taken to be there.)  A
\* save that has not begun is one that begins after the machine is back.
PowerLoss ==
    /\ MayLosePower
    /\ \E cut \in [Saves \ flushed -> 0 .. 2] :
          /\ \A s \in Saves \ flushed : cut[s] <= Len(parts[s])
          /\ parts' = [s \in Saves |->
                        IF s \in flushed \/ cut[s] = Len(parts[s])
                          THEN parts[s]
                          ELSE SubSeq(parts[s], 1, cut[s])]
    /\ entry' \in diskEntry /\ diskEntry' = {entry'}
    /\ temps' = diskTemps /\ UNCHANGED diskTemps
    /\ flushed' = {s \in Saves : pc[s] # "new"}
    /\ pc' = [s \in Saves |-> IF pc[s] \in Ended \cup {"new"} THEN pc[s] ELSE "lost"]
    /\ handle' = [r \in Readers |-> << >>]
    /\ loaded' = [r \in Readers |-> None]

Next ==
    \/ \E s \in Saves :
          \/ CreateTemp(s) \/ CreateFails(s)
          \/ WritePart(s)  \/ Replace(s) \/ WriteOrReplaceFails(s)
          \/ Unlink(s)     \/ UnlinkFails(s)
          \/ Return(s)     \/ Crash(s)   \/ Flush(s)
    \/ \E r \in Readers : OpenFile(r) \/ ReadFile(r) \/ ReadFails(r)
    \/ FlushDirectory \/ PowerLoss

Spec == Init /\ [][Next]_vars

-----------------------------------------------------------------------------
(* Properties                                                              *)

\* A file has at most the two parts of a checkpoint; the path, the temporary
\* names and the readers' handles name files that exist, and what the system
\* names the disk may name.
TypeOK ==
    /\ entry \in diskEntry /\ diskEntry \subseteq Saves \cup FoundFiles
    /\ temps \subseteq diskTemps /\ diskTemps \subseteq Saves
    /\ flushed \subseteq Saves
    /\ \A s \in Saves : Len(parts[s]) <= 2 /\ \A k \in DOMAIN parts[s] : parts[s][k] \in Saves
    /\ pc \in [Saves -> Ended \cup {"new", "write", "replace", "unlink", "return"}]
    /\ \A r \in Readers : handle[r] = << >> \/ handle[r][1] \in Saves \cup FoundFiles
    /\ \A r \in Readers : loaded[r].result \in {"none", "type_error", "checkpoint"}

\* A load returns nothing, raises, or returns the id and the MAC of one and
\* the same save, one that got as far as replacing the file: never a mixture
\* of two saves or a part of one, even after the machine stopped.
LoadedIsSaved ==
    \A r \in Readers : loaded[r].result = "checkpoint" =>
        /\ loaded[r].id = loaded[r].mac
        /\ pc[loaded[r].id] \in {"return", "ok", "lost"}

\* A save that ends by itself, with success or with an OSError, leaves no
\* temporary file unless the file system refused to remove it: failed saves (a
\* full disk) do not pile them up.  What is left is of processes that died, or is
\* back because the machine stopped before the directory was flushed.
NoLitter ==
    [][\A s \in temps' : pc'[s] \in {"ok", "os_error"} => pc'[s] = pc[s]]_vars

\* What a load is to the register: the save it read, or what it found instead.
SavedOrFound(outcome) ==
    IF outcome.result = "checkpoint" THEN outcome.id ELSE outcome.result

Register == INSTANCE CheckpointRegister WITH
    Nothing <- "none",
    value   <- SavedOrFound(Outcome(entry)),
    onDisk  <- {SavedOrFound(Outcome(f)) : f \in diskEntry},
    stage   <- [s \in Saves |->
                  CASE pc[s] \in {"write", "replace", "unlink"} -> "active"
                    [] pc[s] = "return"                         -> "stored"
                    [] pc[s] = "littered"                       -> "os_error"
                    [] pc[s] \in {"new", "ok", "os_error", "lost"} -> pc[s]],
    seen    <- [r \in Readers |->
                  SavedOrFound(IF handle[r] = << >> THEN loaded[r] ELSE Outcome(handle[r][1]))]

\* The file is a register with atomic saves, which is what AuditLogger and
\* AuditReaders take the store for: whatever other processes save, fail to save
\* or leave behind while a save or a load is under way.  When the machine stops
\* it falls back to a value it had since the disk last followed, or to nothing.
ImplementsRegister == Register!Spec
=============================================================================
