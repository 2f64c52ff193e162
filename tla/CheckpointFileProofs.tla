------------------------ MODULE CheckpointFileProofs ------------------------
(***************************************************************************)
(* The file of CheckpointFile is a register, for any number of saves and   *)
(* readers and whatever file is found: crashes, failed calls and losses of *)
(* power included.  The argument is that a save gives its name to the path *)
(* only when its file is complete, and that nobody writes to a file after  *)
(* that, so that what a reader has open or opens next, and what the disk   *)
(* may name, has the parts of one save or, once the machine has stopped,   *)
(* fewer than load accepts.                                                *)
(***************************************************************************)
EXTENDS CheckpointFile, SequenceTheorems, TLAPS

\* How much of the file of a save there can be.
PartsOf(s) == {<< >>, <<s>>, <<s, s>>}

\* The saves whose file may have been given to the path.
Replaced == {s \in Saves : pc[s] \in {"return", "ok", "lost"}}

\* What load may have returned.
Results == {None, TypeError}
             \cup {[result |-> "checkpoint", id |-> s, mac |-> s] : s \in Replaced}

\* Who writes has not finished, and who replaces has.
FilesInv ==
    \A s \in Saves :
        /\ parts[s] \in PartsOf(s)
        /\ pc[s] = "write" => parts[s] # <<s, s>>
        /\ pc[s] \in {"replace", "return"} => parts[s] = <<s, s>>

\* The path, on the disk too, and the open handles name files nobody writes to
\* any more.
NamesInv ==
    /\ entry \in diskEntry /\ diskEntry \subseteq Replaced \cup FoundFiles
    /\ \A r \in Readers :
          handle[r] = << >> \/ \E f \in Replaced \cup FoundFiles : handle[r] = <<f>>

\* A name belongs to a save that began; replacing takes it away.
LitterInv ==
    /\ temps \subseteq diskTemps /\ diskTemps \subseteq Saves
    /\ \A s \in diskTemps : pc[s] # "new"
    /\ \A s \in temps : pc[s] # "return"

FileInv ==
    /\ flushed \subseteq Saves
    /\ parts \in [Saves -> Seq(Saves)]
    /\ pc \in [Saves -> Ended \cup {"new", "write", "replace", "unlink", "return"}]
    /\ handle \in [Readers -> Seq(Saves \cup FoundFiles)]
    /\ loaded \in [Readers -> Results]
    /\ FilesInv
    /\ NamesInv
    /\ LitterInv

-----------------------------------------------------------------------------
(* What load makes of a file                                               *)

USE FoundAssumption, SavesAssumption

\* One part appended to another, and the first part of the two.
LEMMA TwoParts ==
    ASSUME NEW a, NEW b
    PROVE  /\ Append(<<a>>, b) = <<a, b>>
           /\ SubSeq(<<a, b>>, 1, 0) = << >>
           /\ SubSeq(<<a, b>>, 1, 1) = <<a>>
<1>1. <<a>> \in Seq({a, b}) /\ <<a, b>> \in Seq({a, b})
  OBVIOUS
<1>2. Append(<<a>>, b) = <<a, b>>
  <2> DEFINE p == Append(<<a>>, b)
  <2>1. p \in Seq({a, b}) /\ Len(p) = 2 /\ p[1] = a /\ p[2] = b
    BY <1>1, AppendProperties
  <2> HIDE DEF p
  <2>2. p = [k \in 1 .. 2 |-> p[k]] /\ <<a, b>> = [k \in 1 .. 2 |-> p[k]]
    BY <2>1
  <2> QED BY <2>2 DEF p
<1>3. SubSeq(<<a, b>>, 1, 0) = << >>
  BY <1>1
<1>4. SubSeq(<<a, b>>, 1, 1) = <<a>>
  <2> DEFINE p == SubSeq(<<a, b>>, 1, 1)
  <2>1. p \in Seq({a, b}) /\ Len(p) = 1 /\ p[1] = a
    BY <1>1, SubSeqProperties
  <2> HIDE DEF p
  <2>2. p = [k \in 1 .. 1 |-> p[k]] /\ <<a>> = [k \in 1 .. 1 |-> p[k]]
    BY <2>1
  <2> QED BY <2>2 DEF p
<1> QED BY <1>2, <1>3, <1>4

\* A file has at most two parts, each of its own save.
LEMMA PartsFacts ==
    ASSUME NEW s \in Saves, NEW p \in PartsOf(s)
    PROVE  /\ p \in Seq(Saves)
           /\ Len(p) \in 0 .. 2 /\ Len(p) <= 2
           /\ \A k \in DOMAIN p : p[k] = s
           /\ Len(p) >= 2 <=> p = <<s, s>>
           /\ \A c \in 0 .. 2 : c < Len(p) => SubSeq(p, 1, c) \in PartsOf(s) \ {<<s, s>>}
<1>1. CASE p = << >>
  BY <1>1
<1>2. CASE p = <<s>>
  <2>1. \A c \in 0 .. 2 : c < Len(p) => SubSeq(p, 1, c) = << >>
    BY <1>2
  <2> QED BY <1>2, <2>1 DEF PartsOf
<1>3. CASE p = <<s, s>>
  <2>1. \A c \in 0 .. 2 : c < Len(p) => SubSeq(p, 1, c) \in {<< >>, <<s>>}
    <3>1. Len(p) = 2
      BY <1>3
    <3>2. SubSeq(p, 1, 0) = << >> /\ SubSeq(p, 1, 1) = <<s>>
      BY ONLY <1>3, TwoParts
    <3> QED BY <3>1, <3>2
  <2>2. << >> # <<s, s>> /\ <<s>> # <<s, s>>
    OBVIOUS
  <2> QED BY <1>3, <2>1, <2>2 DEF PartsOf
<1> QED BY <1>1, <1>2, <1>3 DEF PartsOf

\* load reads a complete file as the checkpoint of its save, and anything else
\* as nothing or as a TypeError.
LEMMA OutcomeFacts ==
    ASSUME FilesInv, NEW f \in Saves \cup FoundFiles
    PROVE  /\ f \in Saves /\ parts[f] = <<f, f>> =>
                 Outcome(f) = [result |-> "checkpoint", id |-> f, mac |-> f]
           /\ f \in Saves /\ parts[f] # <<f, f>> => Outcome(f) = None
           /\ f \notin Saves => Outcome(f) \in {None, TypeError}
<1>1. CASE f \in Saves
  <2>1. f \notin Harmless /\ f \notin Mistyped
    BY <1>1
  <2>2. Len(parts[f]) \in 0 .. 2 /\ (Len(parts[f]) >= 2 <=> parts[f] = <<f, f>>)
    BY <1>1, PartsFacts DEF FilesInv
  <2>3. Outcome(f) = IF Len(parts[f]) < 2 THEN None
                     ELSE [result |-> "checkpoint", id |-> parts[f][1], mac |-> parts[f][2]]
    BY <1>1, <2>1 DEF Outcome
  <2>4. parts[f] = <<f, f>> => parts[f][1] = f /\ parts[f][2] = f
    OBVIOUS
  <2> QED BY <1>1, <2>2, <2>3, <2>4
<1>2. CASE f \notin Saves
  BY <1>2 DEF Outcome, Harmless, Mistyped
<1> QED BY <1>1, <1>2

\* A load of a file that can be named returns what a load may return.
LEMMA OutcomeIsResult ==
    ASSUME FilesInv, NEW f \in Replaced \cup FoundFiles
    PROVE  Outcome(f) \in Results
BY OutcomeFacts DEF Replaced, Results

\* What load makes of a file changes only with the parts of the file.
LEMMA SameFile ==
    ASSUME NEW f, parts'[f] = parts[f]
    PROVE  Outcome(f)' = Outcome(f)
BY DEF Outcome, None, TypeError

-----------------------------------------------------------------------------
(* The invariant                                                           *)

\* Nothing is written and nobody reads.
LEMMA FileInit == Init => FileInv
<1> SUFFICES ASSUME Init PROVE FileInv
  OBVIOUS
<1>1. FilesInv
  BY DEF Init, FilesInv, PartsOf
<1>2. NamesInv
  BY DEF Init, NamesInv
<1>3. loaded \in [Readers -> Results]
  BY DEF Init, Results
<1>4. /\ parts \in [Saves -> Seq(Saves)]
      /\ handle \in [Readers -> Seq(Saves \cup FoundFiles)]
      /\ flushed \subseteq Saves /\ LitterInv
      /\ pc \in [Saves -> Ended \cup {"new", "write", "replace", "unlink", "return"}]
  BY DEF Init, LitterInv
<1> QED BY <1>1, <1>2, <1>3, <1>4 DEF FileInv

\* The program counter of one save moves; no save that could have replaced the
\* file goes back.
LEMMA StepOfSave ==
    ASSUME FileInv, NEW s \in Saves,
           NEW label \in Ended \cup {"new", "write", "replace", "unlink", "return"},
           Goto(s, label),
           s \in Replaced => label \in {"return", "ok", "lost"},
           UNCHANGED <<handle, loaded>>
    PROVE  /\ pc' \in [Saves -> Ended \cup {"new", "write", "replace", "unlink", "return"}]
           /\ pc'[s] = label /\ \A t \in Saves \ {s} : pc'[t] = pc[t]
           /\ Replaced \subseteq Replaced'
           /\ handle' \in [Readers -> Seq(Saves \cup FoundFiles)]
           /\ loaded' \in [Readers -> Results']
           /\ entry' \in diskEntry' /\ diskEntry' \subseteq Replaced' \cup FoundFiles => NamesInv'
<1>1. /\ pc' \in [Saves -> Ended \cup {"new", "write", "replace", "unlink", "return"}]
      /\ pc'[s] = label /\ \A t \in Saves \ {s} : pc'[t] = pc[t]
  BY DEF FileInv, Goto
<1>2. Replaced \subseteq Replaced'
  BY <1>1 DEF Replaced
<1>3. Results \subseteq Results'
  BY <1>2 DEF Results, None, TypeError
<1>4. loaded' \in [Readers -> Results']
  BY <1>3 DEF FileInv
<1>5. entry' \in diskEntry' /\ diskEntry' \subseteq Replaced' \cup FoundFiles => NamesInv'
  BY <1>2 DEF FileInv, NamesInv
<1> QED BY <1>1, <1>2, <1>4, <1>5 DEF FileInv

\* Only the save itself writes to its file, and only before it replaces.
LEMMA SaveKeepsInv ==
    ASSUME FileInv, NEW s \in Saves,
           \/ CreateTemp(s) \/ CreateFails(s)
           \/ WritePart(s)  \/ Replace(s) \/ WriteOrReplaceFails(s)
           \/ Unlink(s)     \/ UnlinkFails(s)
           \/ Return(s)     \/ Crash(s)
    PROVE  FileInv'
<1> DEFINE Labels == Ended \cup {"new", "write", "replace", "unlink", "return"}
<1>0. /\ pc \in [Saves -> Labels] /\ flushed \subseteq Saves
      /\ parts \in [Saves -> Seq(Saves)]
      /\ FilesInv /\ NamesInv /\ LitterInv
      /\ flushed' = flushed
  BY DEF FileInv, CreateTemp, CreateFails, WritePart, Replace, WriteOrReplaceFails,
         Unlink, UnlinkFails, Return, Crash, diskVars
<1>e. /\ entry \in diskEntry /\ diskEntry \subseteq Replaced \cup FoundFiles
      /\ entry' = entry /\ diskEntry' = diskEntry /\ Replaced \subseteq Replaced' =>
           entry' \in diskEntry' /\ diskEntry' \subseteq Replaced' \cup FoundFiles
  BY <1>0 DEF NamesInv
<1>1. CASE CreateTemp(s)
  <2>1. /\ Goto(s, "write") /\ UNCHANGED <<handle, loaded>> /\ UNCHANGED <<entry, diskEntry>>
        /\ parts' = [parts EXCEPT ![s] = << >>]
        /\ temps' = temps \cup {s} /\ diskTemps' = diskTemps \cup {s}
        /\ pc[s] = "new"
    BY <1>1 DEF CreateTemp, TempOf
  <2>2. /\ pc' \in [Saves -> Labels] /\ pc'[s] = "write"
        /\ \A t \in Saves \ {s} : pc'[t] = pc[t]
        /\ handle' \in [Readers -> Seq(Saves \cup FoundFiles)]
        /\ loaded' \in [Readers -> Results'] /\ NamesInv'
    <3>1. s \notin Replaced
      BY <2>1 DEF Replaced
    <3> QED BY <1>e, <2>1, <3>1, StepOfSave
  <2>3. parts' \in [Saves -> Seq(Saves)] /\ FilesInv'
    <3>1. << >> \in Seq(Saves) /\ << >> \in PartsOf(s) /\ << >> # <<s, s>>
      BY DEF PartsOf
    <3> QED BY <1>0, <2>1, <2>2, <3>1 DEF FilesInv
  <2>4. LitterInv'
    BY <1>0, <2>1, <2>2 DEF LitterInv
  <2> QED BY <1>0, <2>2, <2>3, <2>4 DEF FileInv
<1>2. CASE WritePart(s)
  <2> DEFINE p == Append(parts[s], s)
  <2>1. parts[s] \in {<< >>, <<s>>} /\ pc[s] = "write"
    BY <1>0, <1>2 DEF WritePart, FilesInv, PartsOf
  <2>2. p \in Seq(Saves) /\ p \in PartsOf(s) /\ Len(p) \in 1 .. 2 /\ (Len(p) < 2 <=> p # <<s, s>>)
    <3>1. CASE parts[s] = << >>
      <4>1. p = <<s>>
        BY <3>1
      <4> QED BY <4>1 DEF PartsOf
    <3>2. CASE parts[s] = <<s>>
      <4>1. p = <<s, s>>
        BY ONLY <3>2, TwoParts
      <4> QED BY <4>1 DEF PartsOf
    <3> QED BY <2>1, <3>1, <3>2
  <2>3. /\ parts' = [parts EXCEPT ![s] = p] /\ parts'[s] = p
        /\ Goto(s, IF Len(p) < 2 THEN "write" ELSE "replace")
        /\ UNCHANGED <<handle, loaded>> /\ UNCHANGED <<entry, diskEntry, temps, diskTemps>>
    BY <1>0, <1>2 DEF WritePart, TempOf, diskVars
  <2>4. PICK label \in {"write", "replace"} :
           label = IF Len(p) < 2 THEN "write" ELSE "replace"
    OBVIOUS
  <2>5. /\ pc' \in [Saves -> Labels] /\ pc'[s] = label
        /\ \A t \in Saves \ {s} : pc'[t] = pc[t]
        /\ handle' \in [Readers -> Seq(Saves \cup FoundFiles)]
        /\ loaded' \in [Readers -> Results'] /\ NamesInv'
    <3>1. s \notin Replaced
      BY <2>1 DEF Replaced
    <3>2. Goto(s, label)
      BY <2>3, <2>4
    <3> HIDE DEF p
    <3> QED BY <1>e, <2>3, <3>1, <3>2, StepOfSave
  <2>6. parts' \in [Saves -> Seq(Saves)] /\ FilesInv'
    <3> HIDE DEF p
    <3> QED BY <1>0, <2>2, <2>3, <2>4, <2>5 DEF FilesInv
  <2>7. LitterInv'
    BY <1>0, <2>3, <2>5 DEF LitterInv
  <2> QED BY <1>0, <2>3, <2>5, <2>6, <2>7 DEF FileInv
<1>3. CASE Replace(s)
  <2>1. /\ Goto(s, "return") /\ UNCHANGED <<parts, handle, loaded>>
        /\ entry' = s /\ diskEntry' = diskEntry \cup {s}
        /\ temps' = temps \ {s} /\ diskTemps' = diskTemps
        /\ pc[s] = "replace" /\ parts[s] = <<s, s>>
    BY <1>0, <1>3 DEF Replace, TempOf, FilesInv
  <2>2. s \notin Replaced
    BY <2>1 DEF Replaced
  <2>3. /\ pc' \in [Saves -> Labels] /\ pc'[s] = "return"
        /\ \A t \in Saves \ {s} : pc'[t] = pc[t]
        /\ handle' \in [Readers -> Seq(Saves \cup FoundFiles)]
        /\ loaded' \in [Readers -> Results']
        /\ Replaced \subseteq Replaced'
        /\ entry' \in diskEntry' /\ diskEntry' \subseteq Replaced' \cup FoundFiles => NamesInv'
    BY <2>1, <2>2, StepOfSave
  <2>4. NamesInv'
    <3>1. s \in Replaced'
      BY <2>3 DEF Replaced
    <3> QED BY <1>e, <2>1, <2>3, <3>1
  <2>5. FilesInv'
    BY <1>0, <2>1, <2>3 DEF FilesInv
  <2>6. LitterInv'
    BY <1>0, <2>1, <2>3 DEF LitterInv
  <2> QED BY <1>0, <2>1, <2>3, <2>4, <2>5, <2>6 DEF FileInv
<1>4. CASE CreateFails(s) \/ WriteOrReplaceFails(s) \/ Unlink(s) \/ UnlinkFails(s)
             \/ Return(s) \/ Crash(s)
  <2>1. PICK label \in {"os_error", "unlink", "littered", "ok", "lost"} :
          /\ Goto(s, label)
          /\ label = "os_error" => pc[s] \in {"new", "unlink"}
          /\ label = "unlink" => pc[s] \in {"write", "replace"}
          /\ label = "littered" => pc[s] = "unlink"
          /\ label = "ok" => pc[s] = "return"
          /\ UNCHANGED <<parts, entry, diskEntry, handle, loaded>>
          /\ temps' \subseteq temps /\ diskTemps' = diskTemps
    <3>1. CASE CreateFails(s)
      BY <3>1 DEF CreateFails, diskVars
    <3>2. CASE WriteOrReplaceFails(s)
      BY <3>2 DEF WriteOrReplaceFails, diskVars
    <3>3. CASE Unlink(s)
      BY <3>3 DEF Unlink, TempOf, diskVars
    <3>4. CASE UnlinkFails(s)
      BY <3>4 DEF UnlinkFails, diskVars
    <3>5. CASE Return(s)
      BY <3>5 DEF Return, diskVars
    <3>6. CASE Crash(s)
      BY <3>6 DEF Crash, diskVars
    <3> QED BY <1>4, <3>1, <3>2, <3>3, <3>4, <3>5, <3>6
  <2>2. s \in Replaced => label \in {"ok", "lost"}
    BY <2>1 DEF Replaced
  <2>3. /\ pc' \in [Saves -> Labels] /\ pc'[s] = label
        /\ \A t \in Saves \ {s} : pc'[t] = pc[t]
        /\ Replaced \subseteq Replaced'
        /\ handle' \in [Readers -> Seq(Saves \cup FoundFiles)]
        /\ loaded' \in [Readers -> Results'] /\ NamesInv'
    BY <1>e, <2>1, <2>2, StepOfSave DEF Ended
  <2>4. FilesInv'
    BY <1>0, <2>1, <2>3 DEF FilesInv
  <2>5. LitterInv'
    BY <1>0, <2>1, <2>3 DEF LitterInv
  <2> QED BY <1>0, <2>1, <2>3, <2>4, <2>5 DEF FileInv
<1> QED BY <1>1, <1>2, <1>3, <1>4

\* A reader that opens the path has a file nobody writes to any more.
LEMMA ReaderKeepsInv ==
    ASSUME FileInv, NEW r \in Readers, OpenFile(r) \/ ReadFile(r) \/ ReadFails(r)
    PROVE  FileInv'
<1>0. FilesInv /\ NamesInv /\ UNCHANGED saverVars
  BY DEF FileInv, OpenFile, ReadFile, ReadFails, FinishLoad
<1>1. Replaced' = Replaced /\ Results' = Results /\ FilesInv' /\ LitterInv'
  BY <1>0 DEF saverVars, diskVars, Replaced, Results, None, TypeError, FilesInv, FileInv, LitterInv
<1>2. CASE OpenFile(r)
  <2>1. /\ handle' = [handle EXCEPT ![r] = <<entry>>] /\ loaded' = loaded
        /\ entry \in Replaced \cup FoundFiles
    BY <1>0, <1>2 DEF OpenFile, NamesInv
  <2>2. handle' \in [Readers -> Seq(Saves \cup FoundFiles)]
    <3>1. <<entry>> \in Seq(Saves \cup FoundFiles)
      BY <2>1 DEF Replaced
    <3> QED BY <2>1, <3>1 DEF FileInv
  <2>3. NamesInv'
    BY <1>0, <1>1, <2>1 DEF saverVars, diskVars, NamesInv, FileInv
  <2> QED BY <1>0, <1>1, <2>1, <2>2, <2>3 DEF FileInv, saverVars, diskVars
<1>3. CASE ReadFile(r) \/ ReadFails(r)
  <2>1. PICK outcome \in Results :
          /\ handle' = [handle EXCEPT ![r] = << >>]
          /\ loaded' = [loaded EXCEPT ![r] = outcome]
    <3>1. CASE ReadFile(r)
      <4>1. PICK f \in Replaced \cup FoundFiles : handle[r] = <<f>>
        BY <1>0, <3>1 DEF NamesInv, ReadFile
      <4>2. Outcome(handle[r][1]) \in Results
        BY <1>0, <4>1, OutcomeIsResult
      <4> QED BY <3>1, <4>2 DEF ReadFile, FinishLoad
    <3>2. CASE ReadFails(r)
      BY <3>2 DEF ReadFails, FinishLoad, Results
    <3> QED BY <1>3, <3>1, <3>2
  <2>2. << >> \in Seq(Saves \cup FoundFiles)
    OBVIOUS
  <2>3. NamesInv'
    BY <1>0, <1>1, <2>1 DEF saverVars, diskVars, NamesInv, FileInv
  <2> QED BY <1>0, <1>1, <2>1, <2>2, <2>3 DEF FileInv, saverVars, diskVars
<1> QED BY <1>2, <1>3

\* The machine stops: every file is cut somewhere or not at all, and no save and
\* no load goes on.
LEMMA PowerLossKeepsInv ==
    ASSUME FileInv, PowerLoss
    PROVE  FileInv'
<1>0. /\ pc \in [Saves -> Ended \cup {"new", "write", "replace", "unlink", "return"}]
      /\ FilesInv /\ NamesInv /\ LitterInv
  BY DEF FileInv
<1>1. /\ pc' = [s \in Saves |-> IF pc[s] \in Ended \cup {"new"} THEN pc[s] ELSE "lost"]
      /\ handle' = [r \in Readers |-> << >>] /\ loaded' = [r \in Readers |-> None]
      /\ flushed' \subseteq Saves
      /\ entry' \in diskEntry /\ diskEntry' = {entry'}
      /\ temps' = diskTemps /\ diskTemps' = diskTemps
  BY DEF PowerLoss
<1>2. \A s \in Saves : /\ pc'[s] \in Ended \cup {"new"}
                       /\ pc[s] \in Ended \cup {"new"} => pc'[s] = pc[s]
                       /\ pc[s] \notin Ended \cup {"new"} => pc'[s] = "lost"
  BY <1>1 DEF Ended
<1>3. pc' \in [Saves -> Ended \cup {"new", "write", "replace", "unlink", "return"}]
  BY <1>1, <1>2
<1>4. Replaced \subseteq Replaced'
  BY <1>2 DEF Replaced, Ended
<1>5. \A s \in Saves : parts'[s] \in PartsOf(s)
  <2>1. PICK cut \in [Saves \ flushed -> 0 .. 2] :
           /\ \A s \in Saves \ flushed : cut[s] <= Len(parts[s])
           /\ parts' = [s \in Saves |->
                         IF s \in flushed \/ cut[s] = Len(parts[s])
                           THEN parts[s]
                           ELSE SubSeq(parts[s], 1, cut[s])]
    BY DEF PowerLoss
  <2>2. SUFFICES ASSUME NEW s \in Saves PROVE parts'[s] \in PartsOf(s)
    OBVIOUS
  <2>3. CASE s \in flushed \/ cut[s] = Len(parts[s])
    BY <1>0, <2>1, <2>3 DEF FilesInv
  <2>4. CASE ~(s \in flushed \/ cut[s] = Len(parts[s]))
    <3>1. cut[s] \in 0 .. 2 /\ cut[s] < Len(parts[s])
      BY <1>0, <2>1, <2>4, PartsFacts DEF FilesInv
    <3>2. SubSeq(parts[s], 1, cut[s]) \in PartsOf(s)
      BY <1>0, <3>1, PartsFacts DEF FilesInv
    <3> QED BY <2>1, <2>4, <3>2
  <2> QED BY <2>3, <2>4
<1>6. parts' \in [Saves -> Seq(Saves)]
  <2>1. \A s \in Saves : parts'[s] \in Seq(Saves)
    BY <1>5, PartsFacts
  <2>2. parts' = [s \in Saves |-> parts'[s]]
    BY DEF PowerLoss
  <2> QED BY <2>1, <2>2
<1>7. FilesInv'
  BY <1>2, <1>5 DEF FilesInv, Ended
<1>8. NamesInv'
  BY <1>0, <1>1, <1>4 DEF NamesInv
<1>9. loaded' \in [Readers -> Results'] /\ handle' \in [Readers -> Seq(Saves \cup FoundFiles)]
  BY <1>1 DEF Results, None
<1>10. LitterInv'
  BY <1>0, <1>1, <1>2 DEF LitterInv, Ended
<1> QED BY <1>1, <1>3, <1>6, <1>7, <1>8, <1>9, <1>10 DEF FileInv

LEMMA FlushKeepsInv ==
    ASSUME FileInv, NEW s \in Saves, Flush(s)
    PROVE  FileInv'
<1>1. UNCHANGED <<entry, temps, parts, diskEntry, diskTemps, pc, handle, loaded>>
      /\ flushed' = flushed \cup {s}
  BY DEF Flush
<1>2. Replaced' = Replaced /\ Results' = Results
  BY <1>1 DEF Replaced, Results, None, TypeError
<1>3. FilesInv' /\ NamesInv' /\ LitterInv'
  BY <1>1, <1>2 DEF FileInv, FilesInv, NamesInv, LitterInv
<1> QED BY <1>1, <1>2, <1>3 DEF FileInv

LEMMA FlushDirectoryKeepsInv ==
    ASSUME FileInv, FlushDirectory
    PROVE  FileInv'
<1>1. /\ UNCHANGED <<entry, temps, parts, flushed, pc, handle, loaded>>
      /\ diskEntry' = {entry} /\ diskTemps' = temps
  BY DEF FlushDirectory
<1>2. Replaced' = Replaced /\ Results' = Results
  BY <1>1 DEF Replaced, Results, None, TypeError
<1>3. FilesInv' /\ NamesInv' /\ LitterInv'
  BY <1>1, <1>2 DEF FileInv, FilesInv, NamesInv, LitterInv
<1> QED BY <1>1, <1>2, <1>3 DEF FileInv

LEMMA FileStep == FileInv /\ [Next]_vars => FileInv'
<1> SUFFICES ASSUME FileInv, [Next]_vars PROVE FileInv'
  OBVIOUS
<1>1. ASSUME NEW s \in Saves,
             \/ CreateTemp(s) \/ CreateFails(s)
             \/ WritePart(s)  \/ Replace(s) \/ WriteOrReplaceFails(s)
             \/ Unlink(s)     \/ UnlinkFails(s)
             \/ Return(s)     \/ Crash(s)
      PROVE  FileInv'
  BY <1>1, SaveKeepsInv
<1>2. ASSUME NEW s \in Saves, Flush(s) PROVE FileInv'
  BY <1>2, FlushKeepsInv
<1>3. ASSUME NEW r \in Readers, OpenFile(r) \/ ReadFile(r) \/ ReadFails(r) PROVE FileInv'
  BY <1>3, ReaderKeepsInv
<1>4. CASE FlushDirectory
  BY <1>4, FlushDirectoryKeepsInv
<1>5. CASE PowerLoss
  BY <1>5, PowerLossKeepsInv
<1>6. CASE UNCHANGED vars
  <2>1. Replaced' = Replaced /\ Results' = Results
    BY <1>6 DEF vars, saverVars, Replaced, Results, None, TypeError
  <2> QED BY <1>6, <2>1 DEF vars, saverVars, diskVars, FileInv, FilesInv, NamesInv, LitterInv
<1> QED BY <1>1, <1>2, <1>3, <1>4, <1>5, <1>6 DEF Next

\* The invariant holds throughout.
THEOREM FileInvariance == Spec => []FileInv
<1>1. Init => FileInv
  BY FileInit
<1>2. FileInv /\ [Next]_vars => FileInv'
  BY FileStep
<1> QED BY <1>1, <1>2, PTL DEF Spec

-----------------------------------------------------------------------------
(* The properties                                                          *)

LEMMA FileTypes == FileInv => TypeOK
<1> SUFFICES ASSUME FileInv PROVE TypeOK
  OBVIOUS
<1>1. \A s \in Saves : Len(parts[s]) <= 2 /\ \A k \in DOMAIN parts[s] : parts[s][k] \in Saves
  <2>1. SUFFICES ASSUME NEW s \in Saves
                 PROVE  Len(parts[s]) <= 2 /\ \A k \in DOMAIN parts[s] : parts[s][k] \in Saves
    OBVIOUS
  <2>2. parts[s] \in PartsOf(s)
    BY <2>1 DEF FileInv, FilesInv
  <2>3. Len(parts[s]) <= 2 /\ \A k \in DOMAIN parts[s] : parts[s][k] = s
    BY <2>1, <2>2, PartsFacts
  <2> QED BY <2>1, <2>3, Zenon
<1>2. \A r \in Readers : handle[r] = << >> \/ handle[r][1] \in Saves \cup FoundFiles
  BY DEF FileInv, NamesInv, Replaced
<1>3. \A r \in Readers : loaded[r].result \in {"none", "type_error", "checkpoint"}
  <2>1. \A outcome \in Results : outcome.result \in {"none", "type_error", "checkpoint"}
    BY DEF Results, None, TypeError
  <2> QED BY <2>1 DEF FileInv
<1>4. /\ entry \in diskEntry /\ diskEntry \subseteq Saves \cup FoundFiles
      /\ temps \subseteq diskTemps /\ diskTemps \subseteq Saves
  BY DEF FileInv, NamesInv, LitterInv, Replaced
<1> QED BY <1>1, <1>2, <1>3, <1>4 DEF FileInv, TypeOK

LEMMA LoadedAreResults == FileInv => LoadedIsSaved
<1> SUFFICES ASSUME FileInv, NEW r \in Readers, loaded[r].result = "checkpoint"
             PROVE  /\ loaded[r].id = loaded[r].mac
                    /\ pc[loaded[r].id] \in {"return", "ok", "lost"}
  BY DEF LoadedIsSaved
<1>1. loaded[r] \in Results /\ loaded[r] # None /\ loaded[r] # TypeError
  BY DEF FileInv, None, TypeError
<1>2. PICK s \in Replaced : loaded[r] = [result |-> "checkpoint", id |-> s, mac |-> s]
  BY <1>1 DEF Results
<1> QED BY <1>2 DEF Replaced

\* The path, the temporary names and the handles name files that exist, and no
\* file holds more than a checkpoint.
THEOREM FilesHaveTypes == Spec => []TypeOK
BY FileInvariance, FileTypes, PTL

\* A load returns the id and the MAC of one save that replaced the file,
\* nothing, or a TypeError, although other processes replace the file meanwhile
\* and no save is synced.
THEOREM LoadsReturnSaves == Spec => []LoadedIsSaved
BY FileInvariance, LoadedAreResults, PTL

\* A save that ends by itself has no temporary file any more.
LEMMA EndsWithoutLitter ==
    FileInv /\ [Next]_vars =>
        [\A s \in temps' : pc'[s] \in {"ok", "os_error"} => pc'[s] = pc[s]]_vars
<1> SUFFICES ASSUME FileInv, [Next]_vars, NEW s \in temps', pc'[s] \in {"ok", "os_error"}
             PROVE  pc'[s] = pc[s]
  OBVIOUS
<1>0. LitterInv /\ LitterInv' /\ s \in Saves
      /\ pc \in [Saves -> Ended \cup {"new", "write", "replace", "unlink", "return"}]
  BY FileStep DEF FileInv, LitterInv
<1>1. ASSUME NEW t \in Saves,
             \/ CreateTemp(t) \/ CreateFails(t)
             \/ WritePart(t)  \/ Replace(t) \/ WriteOrReplaceFails(t)
             \/ Unlink(t)     \/ UnlinkFails(t)
             \/ Return(t)     \/ Crash(t)
      PROVE  pc'[s] = pc[s]
  <2>1. CASE CreateTemp(t) \/ WritePart(t) \/ Replace(t) \/ WriteOrReplaceFails(t)
               \/ UnlinkFails(t) \/ Crash(t)
    <3>1. PICK label : Goto(t, label) /\ label \notin {"ok", "os_error"}
      BY <2>1 DEF CreateTemp, WritePart, Replace, WriteOrReplaceFails, UnlinkFails, Crash
    <3> QED BY <1>0, <3>1 DEF Goto
  <2>2. CASE CreateFails(t) \/ Return(t)
    <3>1. PICK label : Goto(t, label) /\ temps' = temps /\ pc[t] \in {"new", "return"}
      BY <2>2 DEF CreateFails, Return
    <3>2. s # t
      BY <1>0, <3>1 DEF LitterInv
    <3> QED BY <1>0, <3>1, <3>2 DEF Goto
  <2>3. CASE Unlink(t)
    BY <1>0, <2>3 DEF Unlink, TempOf, Goto
  <2> QED BY <1>1, <2>1, <2>2, <2>3
<1>2. ASSUME \/ \E t \in Saves : Flush(t)
             \/ \E r \in Readers : OpenFile(r) \/ ReadFile(r) \/ ReadFails(r)
             \/ FlushDirectory \/ UNCHANGED vars
      PROVE  pc'[s] = pc[s]
  BY <1>2 DEF Flush, OpenFile, ReadFile, ReadFails, FinishLoad, FlushDirectory, vars, saverVars
<1>3. CASE PowerLoss
  BY <1>0, <1>3 DEF PowerLoss
<1> QED BY <1>1, <1>2, <1>3 DEF Next

\* A temporary file is left behind only by a process that died or a file system
\* that refused to remove it, until the machine stops.
THEOREM NothingPilesUp == Spec => NoLitter
BY FileInvariance, EndsWithoutLitter, PTL DEF Spec, NoLitter

-----------------------------------------------------------------------------
(* The register                                                            *)

\* How far a save is, and what is read through a handle, in the register's words.
StageOf(label) ==
    CASE label \in {"write", "replace", "unlink"} -> "active"
      [] label = "return"                         -> "stored"
      [] label = "littered"                       -> "os_error"
      [] label \in {"new", "ok", "os_error", "lost"} -> label

Value == SavedOrFound(Outcome(entry))
OnDisk == {SavedOrFound(Outcome(f)) : f \in diskEntry}
Stages == [s \in Saves |-> StageOf(pc[s])]
SeenBy(r) == IF handle[r] = << >> THEN loaded[r] ELSE Outcome(handle[r][1])
Seen == [r \in Readers |-> SavedOrFound(SeenBy(r))]

\* They are the values the refinement mapping gives to the register's variables.
LEMMA StageValues ==
    /\ \A label \in {"write", "replace", "unlink"} : StageOf(label) = "active"
    /\ StageOf("return") = "stored" /\ StageOf("littered") = "os_error"
    /\ StageOf("new") = "new" /\ StageOf("ok") = "ok"
    /\ StageOf("os_error") = "os_error" /\ StageOf("lost") = "lost"
BY DEF StageOf

\* The save that moves makes a step of the register if its stage changes.
LEMMA StageMoves ==
    ASSUME FileInv, NEW s \in Saves,
           NEW label \in Ended \cup {"new", "write", "replace", "unlink", "return"},
           Goto(s, label)
    PROVE  /\ Stages[s] = StageOf(pc[s])
           /\ Stages' = [Stages EXCEPT ![s] = StageOf(label)]
<1>1. pc' = [pc EXCEPT ![s] = label] /\ pc \in [Saves -> Ended \cup {"new", "write", "replace", "unlink", "return"}]
  BY DEF FileInv, Goto
<1>2. \A t \in Saves : pc'[t] = IF t = s THEN label ELSE pc[t]
  BY <1>1
<1> QED BY <1>2 DEF Stages

\* What the path and the handles are read as changes only with them.
LEMMA Unread ==
    ASSUME FileInv, UNCHANGED <<handle, loaded>>,
           \A f \in Replaced : parts'[f] = parts[f]
    PROVE  /\ Seen' = Seen
           /\ entry' = entry => Value' = Value
           /\ OnDisk = {SavedOrFound(Outcome(f))' : f \in diskEntry}
<1>1. \A f \in Replaced \cup FoundFiles : Outcome(f)' = Outcome(f)
  <2>1. \A f \in Replaced : Outcome(f)' = Outcome(f)
    BY SameFile
  <2>2. \A f \in FoundFiles : Outcome(f)' = Outcome(f)
    BY DEF Outcome, Harmless, Mistyped, None, TypeError
  <2> QED BY <2>1, <2>2
<1>2. NamesInv
  BY DEF FileInv
<1>3. entry' = entry => Value' = Value
  BY <1>1, <1>2 DEF NamesInv, Value, SavedOrFound
<1>4. \A r \in Readers : SavedOrFound(SeenBy(r))' = SavedOrFound(SeenBy(r))
  <2>1. SUFFICES ASSUME NEW r \in Readers PROVE SeenBy(r)' = SeenBy(r)
    BY DEF SavedOrFound
  <2>2. CASE handle[r] = << >>
    BY <2>2 DEF SeenBy
  <2>3. CASE handle[r] # << >>
    <3>1. PICK f \in Replaced \cup FoundFiles : handle[r] = <<f>>
      BY <1>2, <2>3 DEF NamesInv
    <3>2. handle[r][1] = f /\ handle'[r] = handle[r]
      BY <3>1
    <3> QED BY <1>1, <2>3, <3>2 DEF SeenBy
  <2> QED BY <2>2, <2>3
<1>5. OnDisk = {SavedOrFound(Outcome(f))' : f \in diskEntry}
  BY <1>1, <1>2 DEF NamesInv, OnDisk, SavedOrFound
<1> QED BY <1>3, <1>4, <1>5 DEF Seen

\* Nothing that can be found is taken for a save.
LEMMA FoundIsNoSave ==
    /\ SavedOrFound(None) = "none" /\ SavedOrFound(TypeError) = "type_error"
    /\ {"none", "type_error"} \cap Saves = {}
<1>1. {"none", "type_error"} \cap Saves = {}
  OBVIOUS
<1>2. None.result = "none" /\ TypeError.result = "type_error"
  BY DEF None, TypeError
<1> QED BY <1>1, <1>2 DEF SavedOrFound

\* A step of a save is a step of the register, or none.
LEMMA SaveImplements ==
    ASSUME FileInv, NEW s \in Saves,
           \/ CreateTemp(s) \/ CreateFails(s)
           \/ WritePart(s)  \/ Replace(s) \/ WriteOrReplaceFails(s)
           \/ Unlink(s)     \/ UnlinkFails(s)
           \/ Return(s)     \/ Crash(s)
    PROVE  \/ /\ Value' = Value /\ OnDisk' = OnDisk /\ Seen' = Seen
              /\ \/ Stages' = Stages
                 \/ Stages[s] = "new" /\ Stages' = [Stages EXCEPT ![s] = "active"]
                 \/ Stages[s] = "stored" /\ Stages' = [Stages EXCEPT ![s] = "ok"]
                 \/ Stages[s] \in {"new", "active"} /\ Stages' = [Stages EXCEPT ![s] = "os_error"]
                 \/ Stages[s] \in {"active", "stored"} /\ Stages' = [Stages EXCEPT ![s] = "lost"]
           \/ /\ Value' = s /\ OnDisk' = OnDisk \cup {s} /\ Seen' = Seen
              /\ Stages[s] = "active" /\ Stages' = [Stages EXCEPT ![s] = "stored"]
<1> DEFINE Labels == Ended \cup {"new", "write", "replace", "unlink", "return"}
<1>0. FilesInv /\ NamesInv /\ pc[s] \in Labels
  BY DEF FileInv
<1>1. UNCHANGED <<handle, loaded>>
  BY DEF CreateTemp, CreateFails, WritePart, Replace, WriteOrReplaceFails,
         Unlink, UnlinkFails, Return, Crash
<1>2. \A f \in Replaced : parts'[f] = parts[f]
  <2>1. CASE CreateTemp(s) \/ WritePart(s)
    <3>1. \A f \in Saves \ {s} : parts'[f] = parts[f]
      BY <2>1 DEF CreateTemp, WritePart, TempOf, FileInv
    <3>2. s \notin Replaced
      BY <2>1 DEF CreateTemp, WritePart, Replaced
    <3> QED BY <3>1, <3>2 DEF Replaced
  <2>2. CASE ~(CreateTemp(s) \/ WritePart(s))
    BY <2>2 DEF CreateFails, Replace, WriteOrReplaceFails, Unlink, UnlinkFails, Return, Crash
  <2> QED BY <2>1, <2>2
<1>3. /\ Seen' = Seen /\ (entry' = entry => Value' = Value)
      /\ OnDisk = {SavedOrFound(Outcome(f))' : f \in diskEntry}
  BY <1>1, <1>2, Unread
<1>4. \A label \in Labels : Goto(s, label) =>
         Stages[s] = StageOf(pc[s]) /\ Stages' = [Stages EXCEPT ![s] = StageOf(label)]
  BY StageMoves
<1>5. StageOf(pc[s]) = Stages[s] /\ [Stages EXCEPT ![s] = Stages[s]] = Stages
  BY DEF Stages
<1>6. CASE Replace(s)
  <2>1. /\ pc[s] = "replace" /\ entry' = s /\ Goto(s, "return") /\ parts' = parts
        /\ diskEntry' = diskEntry \cup {s}
    BY <1>6 DEF Replace, TempOf
  <2>2. parts[s] = <<s, s>>
    BY <1>0, <2>1 DEF FilesInv
  <2>3. Outcome(s)' = Outcome(s)
    BY <2>1, SameFile
  <2>4. SavedOrFound(Outcome(s)) = s
    BY <1>0, <2>2, OutcomeFacts DEF SavedOrFound
  <2>5. Value' = s
    BY <2>1, <2>3, <2>4 DEF Value, SavedOrFound
  <2>6. Stages[s] = "active" /\ Stages' = [Stages EXCEPT ![s] = "stored"]
    BY <1>4, <2>1, StageValues
  <2>7. OnDisk' = OnDisk \cup {s}
    <3>1. SavedOrFound(Outcome(s))' = s
      BY <2>3, <2>4 DEF SavedOrFound
    <3>2. OnDisk' = {SavedOrFound(Outcome(f))' : f \in diskEntry \cup {s}}
      BY <2>1 DEF OnDisk
    <3> QED BY <1>3, <3>1, <3>2
  <2> QED BY <1>3, <2>5, <2>6, <2>7
<1>7. CASE ~Replace(s)
  <2>0. entry' = entry /\ diskEntry' = diskEntry
    BY <1>7 DEF CreateTemp, CreateFails, WritePart, WriteOrReplaceFails,
                Unlink, UnlinkFails, Return, Crash, diskVars
  <2>1. Value' = Value /\ OnDisk' = OnDisk
    BY <1>3, <2>0 DEF OnDisk
  <2>2. CASE CreateTemp(s)
    <3>1. pc[s] = "new" /\ Goto(s, "write")
      BY <2>2 DEF CreateTemp
    <3> QED BY <1>3, <1>4, <2>1, <3>1, StageValues
  <2>3. CASE CreateFails(s)
    <3>1. pc[s] = "new" /\ Goto(s, "os_error")
      BY <2>3 DEF CreateFails
    <3> QED BY <1>3, <1>4, <2>1, <3>1, StageValues DEF Ended
  <2>4. CASE WritePart(s)
    <3>1. PICK label \in {"write", "replace"} : pc[s] = "write" /\ Goto(s, label)
      BY <2>4 DEF WritePart
    <3> QED BY <1>3, <1>4, <1>5, <2>1, <3>1, StageValues
  <2>5. CASE WriteOrReplaceFails(s)
    <3>1. pc[s] \in {"write", "replace"} /\ Goto(s, "unlink")
      BY <2>5 DEF WriteOrReplaceFails
    <3> QED BY <1>3, <1>4, <1>5, <2>1, <3>1, StageValues
  <2>6. CASE Unlink(s) \/ UnlinkFails(s)
    <3>1. PICK label \in {"os_error", "littered"} : pc[s] = "unlink" /\ Goto(s, label)
      BY <2>6 DEF Unlink, UnlinkFails
    <3> QED BY <1>3, <1>4, <2>1, <3>1, StageValues DEF Ended
  <2>7. CASE Return(s)
    <3>1. pc[s] = "return" /\ Goto(s, "ok")
      BY <2>7 DEF Return
    <3> QED BY <1>3, <1>4, <2>1, <3>1, StageValues DEF Ended
  <2>8. CASE Crash(s)
    <3>1. pc[s] \in {"write", "replace", "unlink", "return"} /\ Goto(s, "lost")
      BY <1>0, <2>8 DEF Crash
    <3> QED BY <1>3, <1>4, <2>1, <3>1, StageValues DEF Ended
  <2> QED BY <1>7, <2>2, <2>3, <2>4, <2>5, <2>6, <2>7, <2>8
<1> QED BY <1>6, <1>7

\* A reader's step is a load of the register, or no step: what it reads is what
\* the path held when it was opened.
LEMMA LoadImplements ==
    ASSUME FileInv, NEW r \in Readers, OpenFile(r) \/ ReadFile(r) \/ ReadFails(r)
    PROVE  /\ Value' = Value /\ OnDisk' = OnDisk /\ Stages' = Stages
           /\ \E v \in {Value, "none"} : Seen' = [Seen EXCEPT ![r] = v] \/ Seen' = Seen
<1>0. UNCHANGED saverVars
  BY DEF OpenFile, ReadFile, ReadFails, FinishLoad
<1>1. \A f \in Replaced \cup FoundFiles : Outcome(f)' = Outcome(f)
  BY <1>0 DEF saverVars, Outcome, None, TypeError
<1>2. Value' = Value /\ OnDisk' = OnDisk /\ Stages' = Stages
  BY <1>0, <1>1 DEF saverVars, diskVars, Value, OnDisk, Stages, Outcome, None, TypeError, SavedOrFound, FileInv, NamesInv
<1>3. /\ handle \in [Readers -> Seq(Saves \cup FoundFiles)]
      /\ DOMAIN loaded = Readers /\ NamesInv
  BY DEF FileInv
<1>4. \A q \in Readers \ {r} : handle'[q] = handle[q] /\ loaded'[q] = loaded[q]
  BY <1>3 DEF OpenFile, ReadFile, ReadFails, FinishLoad
<1>5. \A q \in Readers \ {r} : SavedOrFound(SeenBy(q))' = SavedOrFound(SeenBy(q))
  <2>1. SUFFICES ASSUME NEW q \in Readers \ {r} PROVE SeenBy(q)' = SeenBy(q)
    BY DEF SavedOrFound
  <2>2. CASE handle[q] = << >>
    BY <1>4, <2>1, <2>2 DEF SeenBy
  <2>3. CASE handle[q] # << >>
    <3>1. PICK f \in Replaced \cup FoundFiles : handle[q] = <<f>>
      BY <1>3, <2>1, <2>3 DEF NamesInv
    <3>2. handle[q][1] = f /\ handle'[q] = handle[q]
      BY <1>4, <2>1, <3>1
    <3> QED BY <1>1, <2>3, <3>2 DEF SeenBy
  <2> QED BY <2>2, <2>3
<1>6. SavedOrFound(SeenBy(r))' \in {Value, "none", SavedOrFound(SeenBy(r))}
  <2>1. CASE OpenFile(r)
    <3>1. handle'[r] = <<entry>> /\ <<entry>> # << >> /\ <<entry>>[1] = entry
      BY <1>3, <2>1 DEF OpenFile
    <3>2. SeenBy(r)' = Outcome(entry)'
      BY <1>0, <3>1 DEF SeenBy, saverVars, Outcome
    <3> QED BY <1>2, <3>2 DEF Value, SavedOrFound
  <2>2. CASE ReadFile(r)
    <3>1. handle'[r] = << >> /\ loaded'[r] = SeenBy(r)
      BY <1>3, <2>2 DEF ReadFile, FinishLoad, SeenBy
    <3>2. SeenBy(r)' = SeenBy(r)
      BY <3>1 DEF SeenBy
    <3> QED BY <3>2 DEF SavedOrFound
  <2>3. CASE ReadFails(r)
    <3>1. handle'[r] = << >> /\ loaded'[r] = None
      BY <1>3, <2>3 DEF ReadFails, FinishLoad
    <3>2. SeenBy(r)' = None
      BY <3>1 DEF SeenBy, None
    <3>3. None' = None
      BY DEF None
    <3> QED BY <3>2, <3>3, FoundIsNoSave DEF SavedOrFound
  <2> QED BY <2>1, <2>2, <2>3
<1> DEFINE New(q) == SavedOrFound(SeenBy(q))'
           Old(q) == SavedOrFound(SeenBy(q))
<1>7. Seen' = [q \in Readers |-> New(q)] /\ Seen = [q \in Readers |-> Old(q)]
  BY DEF Seen
<1>8. \A q \in Readers \ {r} : New(q) = Old(q)
  BY <1>5
<1>9. New(r) \in {Value, "none", Old(r)}
  BY <1>6
<1> HIDE DEF New, Old, Seen
<1>10. Seen' = [Seen EXCEPT ![r] = New(r)]
  BY <1>7, <1>8
<1>11. New(r) = Old(r) => Seen' = Seen
  BY <1>7, <1>8
<1> QED BY <1>2, <1>9, <1>10, <1>11

\* After a loss of power a file is read as it was before, or as nothing.
LEMMA CutIsNothing ==
    ASSUME FileInv, PowerLoss, NEW f \in Saves \cup FoundFiles
    PROVE  SavedOrFound(Outcome(f))' \in {SavedOrFound(Outcome(f)), "none"}
<1>0. FilesInv /\ FilesInv'
  BY PowerLossKeepsInv DEF FileInv
<1>1. CASE f \notin Saves
  <2>1. Outcome(f)' = Outcome(f)
    BY <1>1 DEF Outcome, Harmless, Mistyped, None, TypeError
  <2> QED BY <2>1 DEF SavedOrFound
<1>2. CASE f \in Saves /\ parts'[f] = parts[f]
  <2>1. Outcome(f)' = Outcome(f)
    BY <1>2, SameFile
  <2> QED BY <2>1 DEF SavedOrFound
<1>3. CASE f \in Saves /\ parts'[f] # parts[f]
  <2>1. parts'[f] \in PartsOf(f) /\ parts'[f] # <<f, f>>
    <3>1. PICK cut \in [Saves \ flushed -> 0 .. 2] :
             /\ \A s \in Saves \ flushed : cut[s] <= Len(parts[s])
             /\ parts' = [s \in Saves |->
                           IF s \in flushed \/ cut[s] = Len(parts[s])
                             THEN parts[s]
                             ELSE SubSeq(parts[s], 1, cut[s])]
      BY DEF PowerLoss
    <3>2. ~(f \in flushed \/ cut[f] = Len(parts[f]))
      BY <1>3, <3>1
    <3>3. PICK p \in PartsOf(f), c \in 0 .. 2 :
             p = parts[f] /\ c = cut[f] /\ c < Len(p)
      BY <1>0, <1>3, <3>1, <3>2, PartsFacts DEF FilesInv
    <3>4. SubSeq(p, 1, c) \in PartsOf(f) \ {<<f, f>>}
      BY <1>3, <3>3, PartsFacts
    <3> QED BY <1>3, <3>1, <3>2, <3>3, <3>4
  <2>2. Outcome(f)' = None
    <3> DEFINE p == parts'[f]
    <3>1. Len(p) \in 0 .. 2 /\ ~(Len(p) >= 2)
      BY <1>3, <2>1, PartsFacts
    <3>2. Len(p) < 2
      <4> HIDE DEF p
      <4> QED BY <3>1
    <3>3. f \notin Harmless \cup Mistyped
      BY <1>3
    <3>4. Outcome(f)' = IF Len(p) < 2 THEN None
                        ELSE [result |-> "checkpoint", id |-> p[1], mac |-> p[2]]
      BY <1>3, <3>3 DEF Outcome, None
    <3> QED BY <3>2, <3>4
  <2>3. SavedOrFound(Outcome(f))' = SavedOrFound(None)
    BY <2>2 DEF SavedOrFound
  <2> QED BY <2>3, FoundIsNoSave
<1> QED BY <1>1, <1>2, <1>3

\* After a loss of power the register holds a value the disk had, or nothing,
\* every save under way is lost, and no reader has seen anything.
LEMMA PowerLossImplements ==
    ASSUME FileInv, PowerLoss
    PROVE  /\ Value' \in OnDisk \cup {"none"} /\ OnDisk' = {Value'}
           /\ Stages' = [s \in Saves |-> IF Stages[s] \in {"active", "stored"}
                                           THEN "lost" ELSE Stages[s]]
           /\ Seen' = [r \in Readers |-> "none"]
<1>0. /\ NamesInv
      /\ \A s \in Saves : pc[s] \in Ended \cup {"new", "write", "replace", "unlink", "return"}
  BY DEF FileInv
<1>1. Value' \in OnDisk \cup {"none"} /\ OnDisk' = {Value'}
  <2>1. PICK f \in diskEntry : entry' = f /\ diskEntry' = {f}
    BY DEF PowerLoss
  <2>2. f \in Saves \cup FoundFiles
    BY <1>0 DEF NamesInv, Replaced
  <2>3. SavedOrFound(Outcome(f))' \in {SavedOrFound(Outcome(f)), "none"}
    BY <2>2, CutIsNothing
  <2>4. Value' = SavedOrFound(Outcome(f))'
    BY <2>1 DEF Value, SavedOrFound, Outcome
  <2>5. OnDisk' = {SavedOrFound(Outcome(f))'}
    BY <2>1 DEF OnDisk, SavedOrFound, Outcome
  <2> QED BY <2>3, <2>4, <2>5 DEF OnDisk
<1>2. \A s \in Saves : Stages'[s] = IF Stages[s] \in {"active", "stored"}
                                      THEN "lost" ELSE Stages[s]
  <2>1. SUFFICES ASSUME NEW s \in Saves
                 PROVE  StageOf(pc'[s]) = IF StageOf(pc[s]) \in {"active", "stored"}
                                            THEN "lost" ELSE StageOf(pc[s])
    BY DEF Stages
  <2>2. pc'[s] = IF pc[s] \in Ended \cup {"new"} THEN pc[s] ELSE "lost"
    BY DEF PowerLoss
  <2> QED BY <1>0, <2>2, StageValues DEF Ended
<1>3. \A r \in Readers : SeenBy(r)' = None
  BY DEF PowerLoss, SeenBy, None
<1>4. Seen' = [r \in Readers |-> "none"]
  <2>1. \A r \in Readers : SavedOrFound(SeenBy(r))' = "none"
    BY <1>3, FoundIsNoSave DEF SavedOrFound
  <2> QED BY <2>1 DEF Seen
<1> QED BY <1>1, <1>2, <1>4 DEF Stages

\* The refinement mapping is the one CheckpointFile states.
LEMMA Mapping ==
    /\ Register!Init <=> /\ Value \notin Saves /\ OnDisk = {Value}
                         /\ Stages = [s \in Saves |-> "new"]
                         /\ Seen = [r \in Readers |-> "none"]
    /\ \A s \in Saves :
         /\ Register!Begin(s) <=> /\ Stages[s] \in {"new"} /\ Stages' = [Stages EXCEPT ![s] = "active"]
                                  /\ UNCHANGED Seen /\ UNCHANGED <<Value, OnDisk>>
         /\ Register!Store(s) <=> /\ Stages[s] \in {"active"} /\ Stages' = [Stages EXCEPT ![s] = "stored"]
                                  /\ UNCHANGED Seen /\ Value' = s /\ OnDisk' = OnDisk \cup {s}
         /\ Register!Return(s) <=> /\ Stages[s] \in {"stored"} /\ Stages' = [Stages EXCEPT ![s] = "ok"]
                                   /\ UNCHANGED Seen /\ UNCHANGED <<Value, OnDisk>>
         /\ Register!Raise(s) <=> /\ Stages[s] \in {"new", "active"}
                                  /\ Stages' = [Stages EXCEPT ![s] = "os_error"]
                                  /\ UNCHANGED Seen /\ UNCHANGED <<Value, OnDisk>>
         /\ Register!Die(s) <=> /\ Stages[s] \in {"active", "stored"}
                                /\ Stages' = [Stages EXCEPT ![s] = "lost"]
                                /\ UNCHANGED Seen /\ UNCHANGED <<Value, OnDisk>>
    /\ \A r \in Readers :
         Register!Load(r) <=> /\ \E v \in {Value, "none"} : Seen' = [Seen EXCEPT ![r] = v]
                              /\ UNCHANGED <<Value, OnDisk, Stages>>
    /\ Register!Settle <=> OnDisk' = {Value} /\ UNCHANGED <<Value, Stages, Seen>>
    /\ Register!PowerLoss <=>
         /\ Value' \in OnDisk \cup {"none"} /\ OnDisk' = {Value'}
         /\ Stages' = [s \in Saves |-> IF Stages[s] \in {"active", "stored"}
                                         THEN "lost" ELSE Stages[s]]
         /\ Seen' = [r \in Readers |-> "none"]
    /\ UNCHANGED <<Value, OnDisk, Stages, Seen>> => UNCHANGED Register!registerVars
BY DEF Register!Init, Register!Begin, Register!Store, Register!Return, Register!Raise,
       Register!Die, Register!Move, Register!Load, Register!Settle, Register!PowerLoss, Register!registerVars,
       Value, OnDisk, Stages, StageOf, Seen, SeenBy

LEMMA RegisterInit == Init => Register!Init
<1> SUFFICES ASSUME Init PROVE Register!Init
  OBVIOUS
<1>1. Value \notin Saves
  <2>1. entry \in FoundFiles /\ entry \notin Saves
    BY DEF Init
  <2>2. Outcome(entry) \in {None, TypeError}
    BY <2>1 DEF Outcome, Harmless, Mistyped
  <2> QED BY <2>2, FoundIsNoSave DEF Value
<1>2. Stages = [s \in Saves |-> "new"]
  BY StageValues DEF Init, Stages
<1>3. Seen = [r \in Readers |-> "none"]
  BY FoundIsNoSave DEF Init, Seen, SeenBy
<1>4. OnDisk = {Value}
  BY DEF Init, OnDisk, Value
<1> QED BY <1>1, <1>2, <1>3, <1>4, Mapping

LEMMA RegisterStep == FileInv /\ [Next]_vars => [Register!Next]_(Register!registerVars)
<1> SUFFICES ASSUME FileInv, [Next]_vars
             PROVE  Register!Next \/ UNCHANGED Register!registerVars
  OBVIOUS
<1>1. ASSUME NEW s \in Saves,
             \/ CreateTemp(s) \/ CreateFails(s)
             \/ WritePart(s)  \/ Replace(s) \/ WriteOrReplaceFails(s)
             \/ Unlink(s)     \/ UnlinkFails(s)
             \/ Return(s)     \/ Crash(s)
      PROVE  Register!Next \/ UNCHANGED Register!registerVars
  <2>1. \/ Register!Begin(s) \/ Register!Store(s) \/ Register!Return(s) \/ Register!Raise(s)
        \/ Register!Die(s) \/ UNCHANGED <<Value, OnDisk, Stages, Seen>>
    BY <1>1, SaveImplements, Mapping
  <2> QED BY <2>1, Mapping DEF Register!Next
<1>2. ASSUME NEW s \in Saves, Flush(s)
      PROVE  Register!Next \/ UNCHANGED Register!registerVars
  <2>1. UNCHANGED <<entry, diskEntry, parts, pc, handle, loaded>>
    BY <1>2 DEF Flush
  <2>2. Value' = Value /\ OnDisk' = OnDisk /\ Seen' = Seen
    <3>1. OnDisk' = {SavedOrFound(Outcome(f))' : f \in diskEntry}
      BY <2>1 DEF OnDisk
    <3> QED BY <2>1, <3>1, Unread
  <2>3. Stages' = Stages
    BY <2>1 DEF Stages
  <2> QED BY <2>2, <2>3, Mapping
<1>3. ASSUME NEW r \in Readers, OpenFile(r) \/ ReadFile(r) \/ ReadFails(r)
      PROVE  Register!Next \/ UNCHANGED Register!registerVars
  <2>1. Register!Load(r) \/ UNCHANGED <<Value, OnDisk, Stages, Seen>>
    BY <1>3, LoadImplements, Mapping
  <2> QED BY <2>1, Mapping DEF Register!Next
<1>4. CASE FlushDirectory
  <2>1. UNCHANGED <<entry, parts, pc, handle, loaded>> /\ diskEntry' = {entry}
    BY <1>4 DEF FlushDirectory
  <2>2. Value' = Value /\ Seen' = Seen /\ Stages' = Stages
    BY <2>1, Unread DEF Stages
  <2>3. OnDisk' = {Value}
    <3>1. OnDisk' = {Value'}
      BY <2>1 DEF OnDisk, Value
    <3> QED BY <2>2, <3>1
  <2> QED BY <2>2, <2>3, Mapping DEF Register!Next
<1>5. CASE PowerLoss
  BY <1>5, PowerLossImplements, Mapping DEF Register!Next
<1>6. CASE UNCHANGED vars
  <2>1. UNCHANGED <<entry, diskEntry, parts, pc, handle, loaded>>
    BY <1>6 DEF vars, saverVars, diskVars
  <2>2. Value' = Value /\ OnDisk' = OnDisk /\ Seen' = Seen
    <3>1. OnDisk' = {SavedOrFound(Outcome(f))' : f \in diskEntry}
      BY <2>1 DEF OnDisk
    <3> QED BY <2>1, <3>1, Unread
  <2>3. Stages' = Stages
    BY <2>1 DEF Stages
  <2> QED BY <2>2, <2>3, Mapping
<1> QED BY <1>1, <1>2, <1>3, <1>4, <1>5, <1>6 DEF Next

\* The file is a register with atomic saves, whatever fails, dies or is cut off
\* while a save or a load is under way: what AuditLogger takes the store for.
THEOREM FileIsRegister == Spec => ImplementsRegister
<1>1. Init => Register!Init
  BY RegisterInit
<1>2. FileInv /\ [Next]_vars => [Register!Next]_(Register!registerVars)
  BY RegisterStep
<1> QED BY <1>1, <1>2, FileInvariance, PTL DEF Spec, ImplementsRegister, Register!Spec
=============================================================================
