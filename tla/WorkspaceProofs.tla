-------------------------- MODULE WorkspaceProofs --------------------------
(***************************************************************************)
(* Proofs about what is kept in a workspace: MemoryFile, for any agents,   *)
(* any finite set of facts and any limits, and EvalRuns, whose runs make   *)
(* their own workspaces, for any runs, entries and turns.                  *)
(***************************************************************************)
EXTENDS MemoryFile, EvalRuns, FiniteSetTheorems, TLAPS

-----------------------------------------------------------------------------
(* MemoryFile. *)

\* A part of a file that fits also fits, and fits a limit that is larger.
LEMMA PartFits ==
    ASSUME NEW s \in SUBSET Facts, NEW part \in SUBSET s,
           NEW low \in Nat, NEW high \in Nat, low <= high, Fits(s, low)
    PROVE  Fits(part, high)
<1>1. IsFiniteSet(s) /\ Cardinality(s) \in Nat
  BY ConstantsAssumption, FS_Subset, FS_CardinalityType
<1>2. Cardinality(part) \in Nat /\ Cardinality(part) <= Cardinality(s)
  BY <1>1, FS_Subset, FS_CardinalityType
<1> QED
  BY <1>1, <1>2 DEF Fits

LEMMA ContentsTyped ==
    ASSUME NEW content \in Contents
    PROVE  content \in SUBSET Facts /\ Fits(content, WriteLimit)
BY DEF Contents

LEMMA PrunedTyped ==
    ASSUME TypeOK, NEW a \in Agents, NEW kept \in Pruned(a)
    PROVE  kept \in SUBSET view[a] /\ kept \in SUBSET Facts /\ Fits(kept, Budget)
<1>1. view[a] \in SUBSET Facts
  BY DEF TypeOK
<1> QED
  BY <1>1 DEF Pruned

\* The memory file is a set of facts that respects the hard limit whoever writes
\* it, whatever is killed, and the counters stay below the threshold.
THEOREM TypeCorrect == Spec => []TypeOK
<1>1. Init => TypeOK
  <2> SUFFICES ASSUME Init PROVE TypeOK
    OBVIOUS
  <2>1. Cardinality({}) = 0
    BY FS_EmptySet
  <2>2. Fits(memory, WriteLimit)
    BY <2>1, ConstantsAssumption DEF Init, Fits
  <2>3. 0 \in 0..Threshold - 1 /\ 0 \in 0..MaxCrashes
    BY ConstantsAssumption
  <2> QED
    BY <2>2, <2>3 DEF Init, TypeOK
<1>2. TypeOK /\ [Next]_vars => TypeOK'
  <2> SUFFICES ASSUME TypeOK, [Next]_vars PROVE TypeOK'
    OBVIOUS
  <2> USE ConstantsAssumption
  <2>1. ASSUME NEW a \in Agents, BeginTurn(a) PROVE TypeOK'
    BY <2>1 DEF BeginTurn, TypeOK, files, ghost
  <2>2. ASSUME NEW a \in Agents, ReadFile(a) PROVE TypeOK'
    BY <2>2 DEF ReadFile, TypeOK, files, ghost
  <2>3. ASSUME NEW a \in Agents, WriteFile(a) PROVE TypeOK'
    <3>1. PICK content \in Contents :
             /\ memory' = content
             /\ view' = [view EXCEPT ![a] = content]
             /\ owed' = ((owed \ (view[a] \ content)) \union content) \ Unseen(a, content)
             /\ back' = back \union ((content \ view[a]) \intersect historyFile)
      BY <2>3 DEF WriteFile
    <3>2. content \in SUBSET Facts /\ Fits(content, WriteLimit)
      BY ContentsTyped
    <3>3. owed' \in SUBSET Facts /\ back' \in SUBSET Facts
      BY <3>1, <3>2 DEF TypeOK, Unseen
    <3> QED
      BY <2>3, <3>1, <3>2, <3>3 DEF WriteFile, TypeOK
  <2>4. ASSUME NEW a \in Agents, EndTurn(a) PROVE TypeOK'
    <3>1. CASE count[a] + 1 < Threshold
      <4>1. (IF a \in Passes THEN 0 ELSE count[a] + 1) \in 0..Threshold - 1
        BY <3>1 DEF TypeOK
      <4> QED
        BY <2>4, <3>1, <4>1 DEF EndTurn, TypeOK, files, ghost
    <3>2. CASE ~(count[a] + 1 < Threshold)
      BY <2>4, <3>2 DEF EndTurn, TypeOK, files, ghost
    <3> QED
      BY <3>1, <3>2
  <2>5. ASSUME NEW a \in Agents, DropTurn(a) PROVE TypeOK'
    BY <2>5 DEF DropTurn, TypeOK, files, ghost
  <2>6. ASSUME NEW a \in Agents, EnforceBudget(a) PROVE TypeOK'
    BY <2>6 DEF EnforceBudget, TypeOK, files, ghost
  <2>7. ASSUME NEW a \in Agents, Archive(a) PROVE TypeOK'
    <3>1. PICK kept \in Pruned(a), archived \in SUBSET view[a] :
             /\ memory' = kept
             /\ historyFile' = historyFile \union archived
             /\ owed' = ((owed \ (view[a] \ archived)) \union kept) \ Unseen(a, kept)
             /\ back' = (back \ archived) \union (kept \intersect archived) \union StillHeld(a, archived)
      BY <2>7 DEF Archive
    <3>2. kept \in SUBSET Facts /\ Fits(kept, Budget) /\ archived \in SUBSET Facts
      BY PrunedTyped DEF TypeOK
    <3>3. Fits(kept, WriteLimit)
      BY <3>2, PartFits
    <3>4. owed' \in SUBSET Facts /\ back' \in SUBSET Facts
      BY <3>1, <3>2 DEF TypeOK, Unseen, StillHeld
    <3> QED
      BY <2>7, <3>1, <3>2, <3>3, <3>4 DEF Archive, TypeOK
  <2>8. ASSUME NEW a \in Agents, ArchiveAborted(a) PROVE TypeOK'
    BY <2>8 DEF ArchiveAborted, TypeOK, files, ghost
  <2>9. ASSUME NEW a \in Agents, CloseLane(a) PROVE TypeOK'
    BY <2>9 DEF CloseLane, TypeOK, files, ghost
  <2>10. ASSUME Die
         PROVE  /\ pc' \in [Agents -> {"idle", "analyze", "compress", "archive"}]
                /\ view' \in [Agents -> SUBSET Facts]
                /\ count' \in [Agents -> 0..Threshold - 1]
                /\ crashes' \in 0..MaxCrashes
    BY <2>10 DEF Die, TypeOK
  <2>11. CASE Crash
    BY <2>10, <2>11 DEF Crash, TypeOK, files, ghost
  <2>12. ASSUME NEW a \in Agents, TornWrite(a)
         PROVE  /\ memory' \in SUBSET Facts /\ Fits(memory', WriteLimit)
                /\ historyFile' \in SUBSET Facts
                /\ owed' \in SUBSET Facts /\ back' \in SUBSET Facts
    <3>1. memory' \in SUBSET Facts /\ Fits(memory', WriteLimit)
      BY <2>12, ContentsTyped DEF TornWrite
    <3> QED
      BY <2>12, <3>1 DEF TornWrite, TypeOK
  <2>13. ASSUME NEW a \in Agents, TornArchive(a)
         PROVE  /\ memory' \in SUBSET Facts /\ Fits(memory', WriteLimit)
                /\ historyFile' \in SUBSET Facts
                /\ owed' \in SUBSET Facts /\ back' \in SUBSET Facts
    <3>1. PICK kept \in Pruned(a), appended \in SUBSET view[a] :
             /\ memory' \in SUBSET kept
             /\ historyFile' = historyFile \union appended
             /\ back' = (back \ appended) \union (memory' \intersect appended) \union StillHeld(a, appended)
      BY <2>13 DEF TornArchive
    <3>2. kept \in SUBSET Facts /\ Fits(kept, Budget) /\ appended \in SUBSET Facts
      BY PrunedTyped DEF TypeOK
    <3>3. Fits(memory', WriteLimit)
      BY <3>1, <3>2, PartFits
    <3> QED
      BY <2>13, <3>1, <3>2, <3>3 DEF TornArchive, TypeOK, StillHeld
  <2>15. ASSUME NEW a \in Agents, WriteHistory(a) PROVE TypeOK'
    <3>1. back' \in SUBSET Facts
      BY <2>15 DEF WriteHistory, TypeOK, StillHeld, agent
    <3> QED
      BY <2>15, <3>1 DEF WriteHistory, TypeOK, agent
  <2>16. ASSUME NEW a \in Agents, WriteFails(a) PROVE TypeOK'
    BY <2>12, <2>16 DEF WriteFails, TypeOK, agent
  <2>17. ASSUME NEW a \in Agents, ArchiveFails(a) PROVE TypeOK'
    BY <2>13, <2>17 DEF ArchiveFails, TypeOK
  <2>18. ASSUME NEW a \in Agents, CrashInWrite(a) PROVE TypeOK'
    BY <2>10, <2>12, <2>18 DEF CrashInWrite, TypeOK
  <2>19. ASSUME NEW a \in Agents, CrashInArchive(a) PROVE TypeOK'
    BY <2>10, <2>13, <2>19 DEF CrashInArchive, TypeOK
  <2>14. CASE UNCHANGED vars
    BY <2>14 DEF TypeOK, vars
  <2> QED
    BY <2>1, <2>2, <2>3, <2>4, <2>5, <2>6, <2>7, <2>8, <2>9, <2>11, <2>14, <2>15, <2>16, <2>17,
       <2>18, <2>19
       DEF Next, AgentNext
<1> QED
  BY <1>1, <1>2, PTL DEF Spec

(***************************************************************************)
(* The views: every agent at work has before it what is in MEMORY.md and   *)
(* is owed, and nothing that was archived and may not come back.           *)
(***************************************************************************)
Seen   == \A b \in Agents : AtWork(b) => owed \intersect memory \subseteq view[b]
Unheld == \A b \in Agents : AtWork(b) => view[b] \intersect historyFile \subseteq back

FilesInv == AccountedFor /\ ArchivedStaysOut /\ Seen /\ Unheld

LEMMA FilesInvInit == Init => FilesInv
BY DEF Init, FilesInv, AccountedFor, ArchivedStaysOut, Seen, Unheld, AtWork

\* If b is at work after a step, it goes by what it did before, or by the file as it is.
GoesBy(b) == AtWork(b)' => view'[b] = memory \/ (AtWork(b) /\ view'[b] = view[b])

\* A step that changes no file and no fact's account, and no view but to the file.
LEMMA NothingWritten ==
    ASSUME FilesInv, UNCHANGED <<files, ghost>>, \A b \in Agents : GoesBy(b)
    PROVE  FilesInv'
<1>1. AccountedFor' /\ ArchivedStaysOut'
  BY DEF FilesInv, AccountedFor, ArchivedStaysOut, files, ghost
<1>2. ASSUME NEW b \in Agents, AtWork(b)'
      PROVE  /\ owed' \intersect memory' \subseteq view'[b]
             /\ view'[b] \intersect historyFile' \subseteq back'
  <2>1. CASE view'[b] = memory
    BY <2>1 DEF FilesInv, ArchivedStaysOut, files, ghost
  <2>2. CASE AtWork(b) /\ view'[b] = view[b]
    BY <2>2 DEF FilesInv, Seen, Unheld, files, ghost
  <2> QED
    BY <1>2, <2>1, <2>2 DEF GoesBy
<1> QED
  BY <1>1, <1>2 DEF FilesInv, Seen, Unheld

\* After a step that writes, at another agent's work nothing has changed but the
\* files: what it does not see of MEMORY.md is not owed, what it has of HISTORY.md
\* may come back.
LEMMA OthersGoOn ==
    ASSUME FilesInv, NEW a \in Agents, NEW b \in Agents, AtWork(b), view'[b] = view[b],
           \/ b # a /\ owed' \intersect Unseen(a, memory') = {}
           \/ owed' \intersect memory' \subseteq view[b],
           \A f \in historyFile' : \/ f \in historyFile /\ (f \in back => f \in back')
                                  \/ f \in back' \/ f \notin view[b]
    PROVE  /\ owed' \intersect memory' \subseteq view'[b]
           /\ view'[b] \intersect historyFile' \subseteq back'
<1>1. owed' \intersect memory' \subseteq view[b]
  BY DEF Unseen
<1>2. view[b] \intersect historyFile \subseteq back
  BY DEF FilesInv, Unheld
<1> QED
  BY <1>1, <1>2

LEMMA WriteFileStep ==
    ASSUME TypeOK, FilesInv, NEW a \in Agents, WriteFile(a)
    PROVE  FilesInv'
<1>1. PICK content \in Contents :
         /\ memory' = content
         /\ view' = [view EXCEPT ![a] = content]
         /\ owed' = ((owed \ (view[a] \ content)) \union content) \ Unseen(a, content)
         /\ back' = back \union ((content \ view[a]) \intersect historyFile)
  BY DEF WriteFile
<1>2. AtWork(a) /\ historyFile' = historyFile /\ pc' = pc
  BY DEF WriteFile, AtWork
<1>3. /\ owed \intersect memory \subseteq view[a]
      /\ view[a] \intersect historyFile \subseteq back
  BY <1>2 DEF FilesInv, Seen, Unheld
<1>4. /\ view'[a] = content
      /\ \A b \in Agents \ {a} : view'[b] = view[b]
  BY <1>1 DEF TypeOK
<1>5. AccountedFor'
  <2>1. owed \subseteq memory \union historyFile
    BY DEF FilesInv, AccountedFor
  <2> QED
    BY <1>1, <1>2, <1>3, <2>1 DEF AccountedFor
<1>6. ArchivedStaysOut'
  BY <1>1, <1>2, <1>3 DEF ArchivedStaysOut
<1>7. ASSUME NEW b \in Agents, AtWork(b)'
      PROVE  /\ owed' \intersect memory' \subseteq view'[b]
             /\ view'[b] \intersect historyFile' \subseteq back'
  <2>1. CASE b = a
    BY <1>1, <1>4, <1>6, <2>1 DEF ArchivedStaysOut
  <2>2. CASE b # a
    <3>1. AtWork(b)
      BY <1>2, <1>7 DEF AtWork
    <3> QED
      BY <1>1, <1>2, <1>4, <2>2, <3>1, OthersGoOn
  <2> QED
    BY <2>1, <2>2
<1> QED
  BY <1>5, <1>6, <1>7 DEF FilesInv, Seen, Unheld

LEMMA WriteHistoryStep ==
    ASSUME TypeOK, FilesInv, NEW a \in Agents, WriteHistory(a)
    PROVE  FilesInv'
<1>1. PICK added : added = historyFile' \ historyFile
  OBVIOUS
<1>2. /\ back' = (back \intersect historyFile') \union (added \intersect (memory \union view[a]))
                                            \union StillHeld(a, added)
      /\ owed' = owed \ (historyFile \ historyFile')
      /\ UNCHANGED <<memory, pc, view>>
  BY <1>1 DEF WriteHistory, agent
<1>3. AccountedFor'
  BY <1>2 DEF FilesInv, AccountedFor
<1>4. ArchivedStaysOut'
  BY <1>1, <1>2 DEF FilesInv, ArchivedStaysOut
<1>5. ASSUME NEW b \in Agents, AtWork(b)'
      PROVE  /\ owed' \intersect memory' \subseteq view'[b]
             /\ view'[b] \intersect historyFile' \subseteq back'
  <2>1. AtWork(b) /\ view'[b] = view[b]
    BY <1>2, <1>5 DEF AtWork
  <2>2. owed' \intersect memory' \subseteq view[b]
    BY <1>2, <2>1 DEF FilesInv, Seen
  <2>3. ASSUME NEW f \in added, f \in view[b] PROVE f \in back'
    BY <1>2, <2>1, <2>3 DEF StillHeld
  <2> QED
    BY <1>1, <1>2, <2>1, <2>2, <2>3, OthersGoOn
<1> QED
  BY <1>3, <1>4, <1>5 DEF FilesInv, Seen, Unheld

LEMMA TornWriteStep ==
    ASSUME TypeOK, FilesInv, NEW a \in Agents, TornWrite(a), view' = view,
           \A b \in Agents : AtWork(b)' => AtWork(b)
    PROVE  FilesInv'
<1>1. /\ historyFile' = historyFile /\ owed' = owed \ (memory \union memory')
      /\ back' = back \union ((memory' \ view[a]) \intersect historyFile)
      /\ AtWork(a)
  BY DEF TornWrite, AtWork
<1>2. AccountedFor'
  BY <1>1 DEF FilesInv, AccountedFor
<1>3. ArchivedStaysOut'
  BY <1>1 DEF FilesInv, Unheld, ArchivedStaysOut
<1>4. ASSUME NEW b \in Agents, AtWork(b)'
      PROVE  /\ owed' \intersect memory' \subseteq view'[b]
             /\ view'[b] \intersect historyFile' \subseteq back'
  <2>1. AtWork(b)
    BY <1>4
  <2> QED
    BY <1>1, <2>1, OthersGoOn
<1> QED
  BY <1>2, <1>3, <1>4 DEF FilesInv, Seen, Unheld

LEMMA ArchiveStep ==
    ASSUME TypeOK, FilesInv, NEW a \in Agents, Archive(a)
    PROVE  FilesInv'
<1>1. PICK kept \in Pruned(a), archived \in SUBSET view[a] :
         /\ memory' = kept
         /\ historyFile' = historyFile \union archived
         /\ owed' = ((owed \ (view[a] \ archived)) \union kept) \ Unseen(a, kept)
         /\ back' = (back \ archived) \union (kept \intersect archived) \union StillHeld(a, archived)
  BY DEF Archive
<1>2. kept \subseteq view[a]
  BY PrunedTyped
<1>3. AtWork(a) /\ view' = view /\ pc' = [pc EXCEPT ![a] = "idle"]
  BY DEF Archive, AtWork
<1>4. /\ owed \intersect memory \subseteq view[a]
      /\ view[a] \intersect historyFile \subseteq back
  BY <1>3 DEF FilesInv, Seen, Unheld
<1>5. AccountedFor'
  <2>1. owed \subseteq memory \union historyFile
    BY DEF FilesInv, AccountedFor
  <2> QED
    BY <1>1, <1>4, <2>1 DEF AccountedFor
<1>6. ArchivedStaysOut'
  BY <1>1, <1>2, <1>4 DEF ArchivedStaysOut
<1>7. ASSUME NEW b \in Agents, AtWork(b)'
      PROVE  /\ owed' \intersect memory' \subseteq view'[b]
             /\ view'[b] \intersect historyFile' \subseteq back'
  <2>1. b # a /\ AtWork(b)
    BY <1>3, <1>7 DEF AtWork, TypeOK
  <2>2. ASSUME NEW f \in archived, f \in view[b] PROVE f \in back'
    BY <1>1, <2>1, <2>2 DEF StillHeld
  <2> QED
    BY <1>1, <1>3, <2>1, <2>2, OthersGoOn
<1> QED
  BY <1>5, <1>6, <1>7 DEF FilesInv, Seen, Unheld

LEMMA TornArchiveStep ==
    ASSUME TypeOK, FilesInv, NEW a \in Agents, TornArchive(a), view' = view,
           \A b \in Agents : AtWork(b)' => b # a /\ AtWork(b)
    PROVE  FilesInv'
<1>1. PICK kept \in Pruned(a), appended \in SUBSET view[a] :
         /\ memory' \in SUBSET kept
         /\ historyFile' = historyFile \union appended
         /\ back' = (back \ appended) \union (memory' \intersect appended) \union StillHeld(a, appended)
  BY DEF TornArchive
<1>2. memory' \subseteq view[a]
  BY <1>1, PrunedTyped
<1>3. AtWork(a) /\ owed' = owed \ (memory \union memory')
  BY DEF TornArchive, AtWork
<1>4. view[a] \intersect historyFile \subseteq back
  BY <1>3 DEF FilesInv, Unheld
<1>5. AccountedFor'
  BY <1>1, <1>3 DEF FilesInv, AccountedFor
<1>6. ArchivedStaysOut'
  BY <1>1, <1>2, <1>4 DEF ArchivedStaysOut
<1>7. ASSUME NEW b \in Agents, AtWork(b)'
      PROVE  /\ owed' \intersect memory' \subseteq view'[b]
             /\ view'[b] \intersect historyFile' \subseteq back'
  <2>1. b # a /\ AtWork(b)
    BY <1>7
  <2>2. ASSUME NEW f \in appended, f \in view[b] PROVE f \in back'
    BY <1>1, <2>1, <2>2 DEF StillHeld
  <2> QED
    BY <1>1, <1>3, <2>1, <2>2, OthersGoOn
<1> QED
  BY <1>5, <1>6, <1>7 DEF FilesInv, Seen, Unheld

LEMMA FilesInvStep == TypeOK /\ FilesInv /\ [Next]_vars => FilesInv'
<1> SUFFICES ASSUME TypeOK, FilesInv, [Next]_vars PROVE FilesInv'
  OBVIOUS
<1>1. ASSUME NEW a \in Agents, BeginTurn(a) \/ ReadFile(a) \/ EnforceBudget(a) PROVE FilesInv'
  <2>1. \A b \in Agents : GoesBy(b)
    BY <1>1 DEF BeginTurn, ReadFile, EnforceBudget, GoesBy, AtWork, TypeOK
  <2>2. UNCHANGED <<files, ghost>>
    BY <1>1 DEF BeginTurn, ReadFile, EnforceBudget
  <2> QED
    BY <2>1, <2>2, NothingWritten
<1>2. ASSUME NEW a \in Agents, EndTurn(a) \/ DropTurn(a) \/ ArchiveAborted(a) \/ CloseLane(a)
      PROVE  FilesInv'
  <2>1. \A b \in Agents : GoesBy(b)
    BY <1>2 DEF EndTurn, DropTurn, ArchiveAborted, CloseLane, GoesBy, AtWork, TypeOK
  <2>2. UNCHANGED <<files, ghost>>
    BY <1>2 DEF EndTurn, DropTurn, ArchiveAborted, CloseLane
  <2> QED
    BY <2>1, <2>2, NothingWritten
<1>3. ASSUME NEW a \in Agents, WriteFails(a) PROVE FilesInv'
  <2>1. view' = view /\ \A b \in Agents : AtWork(b)' => AtWork(b)
    BY <1>3 DEF WriteFails, agent, AtWork
  <2> QED
    BY <1>3, <2>1, TornWriteStep DEF WriteFails
<1>4. ASSUME NEW a \in Agents, ArchiveFails(a) PROVE FilesInv'
  <2>1. view' = view /\ \A b \in Agents : AtWork(b)' => b # a /\ AtWork(b)
    BY <1>4 DEF ArchiveFails, AtWork, TypeOK
  <2> QED
    BY <1>4, <2>1, TornArchiveStep DEF ArchiveFails
<1>5. ASSUME Die PROVE view' = view /\ \A b \in Agents : ~AtWork(b)'
  BY <1>5 DEF Die, AtWork
<1>6. ASSUME NEW a \in Agents, CrashInWrite(a) PROVE FilesInv'
  BY <1>5, <1>6, TornWriteStep DEF CrashInWrite
<1>7. ASSUME NEW a \in Agents, CrashInArchive(a) PROVE FilesInv'
  BY <1>5, <1>7, TornArchiveStep DEF CrashInArchive
<1>8. CASE Crash
  BY <1>5, <1>8, NothingWritten DEF Crash, GoesBy
<1>9. CASE UNCHANGED vars
  BY <1>9, NothingWritten DEF vars, files, ghost, GoesBy, AtWork
<1> QED
  BY <1>1, <1>2, <1>3, <1>4, <1>6, <1>7, <1>8, <1>9,
     WriteFileStep, WriteHistoryStep, ArchiveStep DEF Next, AgentNext

LEMMA FilesInvHolds == Spec => []FilesInv
<1> QED
  BY FilesInvInit, FilesInvStep, TypeCorrect, PTL DEF Spec

\* Whoever overlaps with whom, and whatever fails or dies: a fact written while
\* no other agent at work lacked it, and in no file that was torn since, is in one
\* of the files unless an LLM left it out that had it before it.
THEOREM NothingDisappears == Spec => []AccountedFor
<1>1. FilesInv => AccountedFor
  BY DEF FilesInv
<1> QED
  BY <1>1, FilesInvHolds, PTL

\* What was archived, and no other agent at work had before it then, is in
\* MEMORY.md only if it was kept there or an LLM has written it anew.
THEOREM ArchivedIsGone == Spec => []ArchivedStaysOut
<1>1. FilesInv => ArchivedStaysOut
  BY DEF FilesInv
<1> QED
  BY <1>1, FilesInvHolds, PTL

-----------------------------------------------------------------------------
(***************************************************************************)
(* EvalRuns.  The invariant says where the lines of a run are, who is at   *)
(* work in whose workspace, and whose facts are there.                     *)
(***************************************************************************)
RunRecords ==
    [phase : {"new"} \union Active \union Over, dataset : Datasets, time : 0..MaxTime,
     keep : BOOLEAN, entry : 0..Entries, turn : 0..Turns, snapshot : SUBSET Runs]
Spaces == [made : BOOLEAN, facts : SUBSET Runs]
Lines  == [run : Runs, entry : 1..Entries, memory : SUBSET Runs]

\* A run has an entry when it has begun, and stays in the replay while it has
\* turns to replay.
Progress ==
    \A r \in Runs : /\ run[r].phase = "new" => run[r].entry = 0
                    /\ run[r].phase = "replay" => run[r].turn < Turns

\* Every line is in the file of the run that wrote it.
InPlace ==
    \A f \in Files : \A i \in DOMAIN results[f] :
        LET r == results[f][i].run IN run[r].entry # 0 /\ f = File(r)

\* Runs that are at work in one workspace are known to have met.
Sharers ==
    \A r, s \in Runs : r # s /\ run[r].phase \in Active /\ run[s].phase \in Active /\ Id(r) = Id(s)
                          => r \in crowded

\* As long as a run met nobody, its workspace and what it read there are its own.
OwnView ==
    \A r \in Runs \ crowded : run[r].phase \in Active =>
        workspace[Id(r)].facts \subseteq {r} /\ run[r].snapshot \subseteq {r}

EvalInv == EvalTypeOK /\ Progress /\ InPlace /\ LinesAreEntries /\ Sharers /\ OwnView /\ OwnMemoryAlone

\* What the assumption says of the bounds.
LEMMA Numbers ==
    /\ Entries \in Nat \ {0} /\ Turns \in Nat \ {0} /\ MaxTime \in Nat
    /\ 1 \in 1..Entries /\ 0 \in 0..Entries /\ 0 \in 0..Turns /\ 0 \in 0..MaxTime
    /\ 1 \in Datasets /\ 1 \in 0..Entries /\ 0 < Turns
BY EvalAssumption DEF Datasets

\* What the types say of one run.
LEMMA RunTyped ==
    ASSUME EvalTypeOK, NEW r \in Runs
    PROVE  /\ run[r].phase \in {"new"} \union Active \union Over
           /\ run[r].dataset \in Datasets /\ run[r].time \in 0..MaxTime /\ run[r].keep \in BOOLEAN
           /\ run[r].entry \in 0..Entries /\ run[r].turn \in 0..Turns
           /\ run[r].snapshot \in SUBSET Runs
           /\ File(r) \in Files
           /\ results[File(r)] \in Seq(Lines)
           /\ run[r].entry # 0 => Id(r) \in Ids
           /\ run[r].phase \in Active => run[r].entry # 0 /\ Id(r) \in Ids
<1>1. /\ run[r].phase \in {"new"} \union Active \union Over
      /\ run[r].dataset \in Datasets /\ run[r].time \in 0..MaxTime /\ run[r].keep \in BOOLEAN
      /\ run[r].entry \in 0..Entries /\ run[r].turn \in 0..Turns
      /\ run[r].snapshot \in SUBSET Runs
    BY DEF EvalTypeOK
<1>2. File(r) \in Files
    BY <1>1 DEF File, Files
<1>3. results[File(r)] \in Seq(Lines)
    BY <1>2 DEF EvalTypeOK, Lines
<1>4. run[r].entry # 0 => run[r].entry \in 1..Entries
    BY <1>1, Numbers
<1>5. run[r].entry # 0 => Id(r) \in Ids
    BY <1>1, <1>4 DEF Id, Ids
<1>6. run[r].phase \in Active => run[r].entry # 0
    BY <1>1, Numbers DEF EvalTypeOK
<1> QED
    BY <1>1, <1>2, <1>3, <1>5, <1>6

\* The end of an entry, for the run and for its file.
LEMMA EntryEnds ==
    ASSUME EvalTypeOK, NEW r \in Runs, run[r].phase \in Active, NEW raised, NEW read \in SUBSET Runs,
           EndEntry(r, raised, read)
    PROVE  /\ clock' = clock
           /\ \A s \in Runs : s # r => run'[s] = run[s]
           /\ run'[r].dataset = run[r].dataset /\ run'[r].time = run[r].time
           /\ run'[r].keep = run[r].keep /\ run'[r].turn = 0 /\ run'[r].snapshot = {}
           /\ \/ /\ run'[r].phase = "completed" /\ run'[r].entry = run[r].entry
                 /\ run[r].entry = Entries /\ crowded' = crowded
              \/ /\ run'[r].phase = "replay" /\ run'[r].entry = run[r].entry + 1
                 /\ run[r].entry < Entries
                 /\ crowded' = crowded \union Crowd(r, <<run[r].dataset, run[r].entry + 1>>)
           /\ results' = [results EXCEPT ![File(r)] =
                 Append(@, [run |-> r, entry |-> run[r].entry, memory |-> read])]
           /\ \A id \in Ids : \/ workspace'[id] = workspace[id]
                              \/ id = Id(r) /\ workspace'[id].facts = {}
                              \/ /\ id = <<run[r].dataset, run[r].entry + 1>>
                                 /\ workspace'[id].facts = {}
           /\ run'[r].phase = "replay" => workspace'[<<run[r].dataset, run[r].entry + 1>>].facts = {}
           /\ run' \in [Runs -> RunRecords]
           /\ workspace' \in [Ids -> Spaces]
<1> DEFINE left == IF run[r].keep THEN workspace ELSE [workspace EXCEPT ![Id(r)] = Absent]
           next == NextEntry(r)
           id1  == <<run[r].dataset, run[r].entry + 1>>
<1> USE DEF RunRecords, Spaces
<1>1. /\ run \in [Runs -> RunRecords] /\ workspace \in [Ids -> Spaces]
      /\ run[r] \in RunRecords
      /\ run[r].entry \in 1..Entries /\ Id(r) \in Ids
    <2>1. run \in [Runs -> RunRecords] /\ workspace \in [Ids -> Spaces]
        BY DEF EvalTypeOK
    <2>2. run[r] \in RunRecords
        BY <2>1
    <2>3. run[r].entry \in 1..Entries /\ Id(r) \in Ids
        BY RunTyped, Numbers
    <2> QED
        BY <2>1, <2>2, <2>3
<1>2. /\ clock' = clock
      /\ results' = [results EXCEPT ![File(r)] =
             Append(@, [run |-> r, entry |-> run[r].entry, memory |-> read])]
    BY DEF EndEntry, Line
<1>3. /\ left \in [Ids -> Spaces]
      /\ \A id \in Ids : left[id] = workspace[id] \/ (id = Id(r) /\ left[id].facts = {})
    <2>1. Absent \in Spaces /\ Absent.facts = {}
        BY DEF Absent
    <2> QED
        BY <1>1, <2>1
<1>4. CASE run[r].entry < Entries
    <2>1. next = run[r].entry + 1 /\ next # 0 /\ id1 \in Ids /\ next \in 0..Entries
        BY <1>1, <1>4, Numbers DEF NextEntry, Ids
    <2>2. /\ run' = [run EXCEPT ![r] = [@ EXCEPT !.phase = "replay", !.entry = next,
                                                 !.turn = 0, !.snapshot = {}]]
          /\ workspace' = Created(left, <<run[r].dataset, next>>)
          /\ crowded' = crowded \union Crowd(r, <<run[r].dataset, next>>)
        BY <2>1 DEF EndEntry
    <2>3. run'[r] = [run[r] EXCEPT !.phase = "replay", !.entry = next, !.turn = 0, !.snapshot = {}]
        BY <1>1, <2>2
    <2> HIDE DEF next
    <2>4. /\ run'[r].dataset = run[r].dataset /\ run'[r].time = run[r].time
          /\ run'[r].keep = run[r].keep /\ run'[r].turn = 0 /\ run'[r].snapshot = {}
          /\ run'[r].phase = "replay" /\ run'[r].entry = next
        BY <1>1, <2>3
    <2>5. run'[r] \in RunRecords
        BY <1>1, <2>1, <2>3, Numbers DEF Active
    <2>6. run' \in [Runs -> RunRecords] /\ \A s \in Runs : s # r => run'[s] = run[s]
        BY <1>1, <2>2, <2>3, <2>5
    <2> HIDE DEF left
    <2>7. workspace' = [left EXCEPT ![id1] = [made |-> TRUE, facts |-> {}]]
        BY <2>1, <2>2 DEF Created
    <2>8. /\ workspace' \in [Ids -> Spaces]
          /\ workspace'[id1].facts = {}
          /\ \A id \in Ids : id # id1 => workspace'[id] = left[id]
        <3> DEFINE new == [made |-> TRUE, facts |-> {}]
        <3>1. new \in Spaces /\ new.facts = {}
            OBVIOUS
        <3> HIDE DEF new, id1
        <3>2. workspace' = [left EXCEPT ![id1] = new] /\ id1 \in Ids
            BY <2>1, <2>7 DEF new
        <3> HIDE DEF Spaces
        <3> QED
            BY <1>3, <3>1, <3>2
    <2>9. \A id \in Ids : \/ workspace'[id] = workspace[id]
                          \/ id = Id(r) /\ workspace'[id].facts = {}
                          \/ id = id1 /\ workspace'[id].facts = {}
        BY <1>3, <2>8
    <2> QED
        BY <1>2, <1>4, <2>1, <2>2, <2>4, <2>6, <2>8, <2>9
<1>5. CASE ~(run[r].entry < Entries)
    <2>1. next = 0 /\ run[r].entry = Entries
        <3>1. run[r].entry = Entries
            <4>1. run[r].entry \in 1..Entries /\ Entries \in Nat
                BY <1>1, Numbers
            <4> QED
                BY <1>5, <4>1
        <3>2. next = 0
            BY <1>5 DEF NextEntry
        <3> QED
            BY <3>1, <3>2
    <2>2. /\ run' = [run EXCEPT ![r] = [@ EXCEPT !.phase = "completed", !.turn = 0, !.snapshot = {}]]
          /\ workspace' = left
          /\ crowded' = crowded
        BY <2>1 DEF EndEntry
    <2>3. run'[r] = [run[r] EXCEPT !.phase = "completed", !.turn = 0, !.snapshot = {}]
        BY <1>1, <2>2
    <2>4. /\ run'[r].dataset = run[r].dataset /\ run'[r].time = run[r].time
          /\ run'[r].keep = run[r].keep /\ run'[r].turn = 0 /\ run'[r].snapshot = {}
          /\ run'[r].phase = "completed" /\ run'[r].entry = run[r].entry
        BY <1>1, <2>3
    <2>5. run'[r] \in RunRecords
        BY <1>1, <2>3, Numbers DEF Over
    <2>6. run' \in [Runs -> RunRecords] /\ \A s \in Runs : s # r => run'[s] = run[s]
        BY <1>1, <2>2, <2>3, <2>5
    <2> HIDE DEF left
    <2> QED
        BY <1>2, <1>3, <2>1, <2>2, <2>4, <2>6
<1> QED
    BY <1>4, <1>5

\* Which actions end an entry, and with whose read.
EndOf(r) ==
    \E raised \in BOOLEAN : \E read \in {workspace[Id(r)].facts, run[r].snapshot} :
        EndEntry(r, raised, read)

\* An answer that matches, a verdict and a failed call end an entry.
LEMMA Ends ==
    ASSUME EvalTypeOK, NEW r \in Runs, KeywordsMatch(r) \/ Judged(r) \/ EntryFails(r)
    PROVE  run[r].phase \in Active /\ EndOf(r)
BY DEF KeywordsMatch, Judged, EntryFails, EndOf, Active

\* Steps of a run within an entry, and those that cut it off.
Within(r) ==
    /\ run[r].phase \in Active
    /\ \A s \in Runs : s # r => run'[s] = run[s]
    /\ run'[r].dataset = run[r].dataset /\ run'[r].time = run[r].time
    /\ run'[r].entry = run[r].entry
    /\ run'[r].phase \in Active \union {"failed", "killed"}
    /\ UNCHANGED <<clock, results, crowded>>

\* A turn, the question to the judge, a failed batch and a killed process do not.
LEMMA WithinEntry ==
    ASSUME EvalTypeOK, NEW r \in Runs, ReplayTurn(r) \/ AskJudge(r) \/ BatchFails(r) \/ Kill(r)
    PROVE  Within(r)
<1> USE DEF Within, Active, EvalTypeOK
<1>1. CASE ReplayTurn(r)
    <2>1. AfterTurn(r) \in Active
        BY DEF AfterTurn
    <2> QED
        BY <1>1, <2>1 DEF ReplayTurn
<1>2. CASE AskJudge(r)
    BY <1>2 DEF AskJudge
<1>3. CASE BatchFails(r)
    BY <1>3 DEF BatchFails
<1>4. CASE Kill(r)
    BY <1>4 DEF Kill
<1> QED
    BY <1>1, <1>2, <1>3, <1>4

-----------------------------------------------------------------------------
(* Types. *)

\* The beginning of a run, for the run; its workspace is empty and typed.
LEMMA BeginRun ==
    ASSUME EvalTypeOK, NEW r \in Runs, NEW dataset \in Datasets, NEW keep \in BOOLEAN,
           Begin(r, dataset, keep)
    PROVE  /\ run[r].phase = "new"
           /\ \A s \in Runs : s # r => run'[s] = run[s]
           /\ run'[r].phase = "replay" /\ run'[r].dataset = dataset /\ run'[r].time = clock
           /\ run'[r].keep = keep /\ run'[r].entry = 1 /\ run'[r].turn = 0 /\ run'[r].snapshot = {}
           /\ clock' = clock /\ results' = results
           /\ crowded \subseteq crowded' /\ crowded' \subseteq crowded \union Runs
           /\ run' \in [Runs -> RunRecords]
           /\ workspace' \in [Ids -> Spaces]
<1> DEFINE b == [Blank("replay") EXCEPT !.dataset = dataset, !.time = clock,
                                        !.keep = keep, !.entry = 1]
           new == [made |-> TRUE, facts |-> {}]
<1> USE DEF RunRecords, Spaces
<1>1. /\ run[r].phase = "new" /\ run' = [run EXCEPT ![r] = b]
      /\ workspace' = [workspace EXCEPT ![<<dataset, 1>>] = new]
      /\ crowded' = crowded \union Crowd(r, <<dataset, 1>>)
      /\ UNCHANGED <<clock, results>>
    BY DEF Begin, Created
<1>2. /\ b.phase = "replay" /\ b.dataset = dataset /\ b.time = clock /\ b.keep = keep
      /\ b.entry = 1 /\ b.turn = 0 /\ b.snapshot = {}
      /\ b \in RunRecords
    <2>1. clock \in 0..MaxTime
        BY DEF EvalTypeOK
    <2> QED
        BY <2>1, Numbers DEF Blank, Active
<1>3. run \in [Runs -> RunRecords] /\ workspace \in [Ids -> Spaces]
    BY DEF EvalTypeOK
<1>4. new \in Spaces
    OBVIOUS
<1> HIDE DEF b, RunRecords, Spaces, new
<1>5. run' \in [Runs -> RunRecords] /\ run'[r] = b /\ \A s \in Runs : s # r => run'[s] = run[s]
    BY <1>1, <1>2, <1>3
<1>6. workspace' \in [Ids -> Spaces]
    BY <1>1, <1>3, <1>4
<1>7. crowded \subseteq crowded' /\ crowded' \subseteq crowded \union Runs
    BY <1>1 DEF Crowd
<1> QED
    BY <1>1, <1>2, <1>5, <1>6, <1>7 DEF RunRecords, Spaces

\* The types hold at the start.
LEMMA EvalTypesInit == EvalInit => EvalTypeOK /\ Progress
<1> SUFFICES ASSUME EvalInit PROVE EvalTypeOK /\ Progress
    OBVIOUS
<1> USE DEF RunRecords, Spaces, Lines
<1>1. Absent \in Spaces
    BY DEF Absent
<1>2. Blank("new") \in RunRecords
    BY Numbers DEF Blank
<1>3. /\ \A r \in Runs : run[r].phase = "new" /\ run[r].entry = 0
    BY DEF EvalInit, Blank
<1>4. << >> \in Seq(Lines)
    OBVIOUS
<1>5. EvalTypeOK
    BY <1>1, <1>2, <1>3, <1>4, Numbers DEF EvalInit, EvalTypeOK, Active
<1> QED
    BY <1>3, <1>5 DEF Progress

\* Every step preserves the types and the progress of a run.
LEMMA EvalTypesStep == EvalTypeOK /\ Progress /\ [EvalNext]_evalVars => (EvalTypeOK /\ Progress)'
<1> SUFFICES ASSUME EvalTypeOK, Progress, [EvalNext]_evalVars PROVE (EvalTypeOK /\ Progress)'
    OBVIOUS
<1> USE DEF RunRecords, Spaces, Lines
<1>0. /\ clock \in 0..MaxTime /\ run \in [Runs -> RunRecords] /\ workspace \in [Ids -> Spaces]
      /\ results \in [Files -> Seq(Lines)] /\ crowded \in SUBSET Runs
    BY DEF EvalTypeOK
<1>1. CASE UNCHANGED evalVars
    BY <1>1 DEF evalVars, EvalTypeOK, Progress
<1>2. CASE Tick
    <2>1. clock' \in 0..MaxTime
        BY <1>0, <1>2, Numbers DEF Tick
    <2> QED
        BY <1>2, <2>1 DEF Tick, EvalTypeOK, Progress
<1>3. ASSUME NEW r \in Runs, NEW dataset \in Datasets, NEW keep \in BOOLEAN, Begin(r, dataset, keep)
      PROVE  (EvalTypeOK /\ Progress)'
    <2>0. /\ \A s \in Runs : s # r => run'[s] = run[s]
          /\ run'[r].phase = "replay" /\ run'[r].entry = 1 /\ run'[r].turn = 0
          /\ clock' = clock /\ results' = results
          /\ crowded' \subseteq crowded \union Runs
        BY <1>3, BeginRun
    <2>9. run' \in [Runs -> RunRecords] /\ workspace' \in [Ids -> Spaces]
        BY <1>3, BeginRun
    <2> HIDE DEF RunRecords, Spaces
    <2>1. crowded' \in SUBSET Runs
        BY <1>0, <2>0
    <2>2. \A s \in Runs : run'[s].phase \in Active => run'[s].entry >= 1
        <3>1. \A s \in Runs : run[s].phase \in Active => run[s].entry >= 1
            BY DEF EvalTypeOK
        <3> QED
            BY <2>0, <3>1
    <2>3. Progress'
        BY <2>0, Numbers DEF Progress
    <2> QED
        BY <1>0, <2>0, <2>1, <2>2, <2>3, <2>9 DEF EvalTypeOK, RunRecords, Spaces
<1>4. ASSUME NEW r \in Runs, BeginNothing(r) PROVE (EvalTypeOK /\ Progress)'
    <2>1. PICK phase \in {"completed", "failed"} : run' = [run EXCEPT ![r] = Blank(phase)]
        BY <1>4 DEF BeginNothing
    <2>2. /\ Blank(phase) \in RunRecords /\ Blank(phase).phase = phase
          /\ phase \notin Active /\ phase # "new" /\ phase # "replay"
        BY Numbers DEF Blank, Over, Active
    <2>3. /\ run' \in [Runs -> RunRecords] /\ run'[r] = Blank(phase)
          /\ \A s \in Runs : s # r => run'[s] = run[s]
        BY <1>0, <2>1, <2>2
    <2>4. \A s \in Runs : run'[s].phase \in Active => run'[s].entry >= 1
        BY <2>2, <2>3 DEF EvalTypeOK
    <2>5. Progress'
        BY <2>2, <2>3 DEF Progress
    <2> QED
        BY <1>0, <1>4, <2>3, <2>4, <2>5 DEF BeginNothing, EvalTypeOK
<1>5. ASSUME NEW r \in Runs, ReplayTurn(r) PROVE (EvalTypeOK /\ Progress)'
    <2>1. /\ run[r].phase = "replay" /\ run[r].turn < Turns /\ run[r].turn \in 0..Turns /\ Id(r) \in Ids
          /\ run[r] \in RunRecords /\ run[r].entry >= 1
        BY <1>0, <1>5, RunTyped DEF ReplayTurn, Progress, Active, EvalTypeOK
    <2>2. run' = [run EXCEPT ![r].turn = @ + 1, ![r].phase = AfterTurn(r)]
        BY <1>5 DEF ReplayTurn
    <2>3. AfterTurn(r) \in Active /\ AfterTurn(r) # "new"
          /\ (AfterTurn(r) = "replay" => run[r].turn + 1 < Turns) /\ run[r].turn + 1 \in 0..Turns
        BY <2>1, Numbers DEF AfterTurn, Active
    <2>4. /\ run'[r].phase = AfterTurn(r) /\ run'[r].turn = run[r].turn + 1
          /\ run'[r].entry = run[r].entry /\ run'[r] \in RunRecords
          /\ \A s \in Runs : s # r => run'[s] = run[s]
          /\ run' \in [Runs -> RunRecords]
        BY <1>0, <2>1, <2>2, <2>3
    <2>5. workspace' \in [Ids -> Spaces]
        <3> DEFINE w == [made |-> TRUE, facts |-> workspace[Id(r)].facts \union {r}]
        <3>1. w \in Spaces
            BY <1>0, <2>1
        <3>2. Wrote(r) = [workspace EXCEPT ![Id(r)] = w]
            BY DEF Wrote
        <3> HIDE DEF w, Spaces
        <3>3. Wrote(r) \in [Ids -> Spaces]
            BY <1>0, <3>1, <3>2
        <3> QED
            BY <1>0, <1>5, <3>3 DEF ReplayTurn
    <2>6. \A s \in Runs : run'[s].phase \in Active => run'[s].entry >= 1
        BY <2>1, <2>4 DEF EvalTypeOK
    <2>7. Progress'
        BY <2>3, <2>4 DEF Progress
    <2> QED
        BY <1>0, <1>5, <2>4, <2>5, <2>6, <2>7 DEF ReplayTurn, EvalTypeOK
<1>6. ASSUME NEW r \in Runs, AskJudge(r) PROVE (EvalTypeOK /\ Progress)'
    <2>1. run[r].phase = "ask" /\ run[r] \in RunRecords /\ Id(r) \in Ids /\ run[r].entry >= 1
        BY <1>0, <1>6, RunTyped DEF AskJudge, Active, EvalTypeOK
    <2>2. run' = [run EXCEPT ![r].phase = "judge", ![r].snapshot = workspace[Id(r)].facts]
        BY <1>6 DEF AskJudge
    <2>3. /\ run'[r].phase = "judge" /\ run'[r].entry = run[r].entry /\ run'[r] \in RunRecords
          /\ \A s \in Runs : s # r => run'[s] = run[s]
          /\ run' \in [Runs -> RunRecords]
        BY <1>0, <2>1, <2>2 DEF Active
    <2>4. \A s \in Runs : run'[s].phase \in Active => run'[s].entry >= 1
        BY <2>1, <2>3 DEF EvalTypeOK
    <2>5. Progress'
        BY <2>3 DEF Progress
    <2> QED
        BY <1>0, <1>6, <2>3, <2>4, <2>5 DEF AskJudge, EvalTypeOK
<1>7. ASSUME NEW r \in Runs, NEW phase \in {"failed", "killed"}, run[r].phase \in Active,
             run' = [run EXCEPT ![r] = [@ EXCEPT !.phase = phase, !.turn = 0, !.snapshot = {}]],
             UNCHANGED <<clock, workspace, results, crowded>>
      PROVE  (EvalTypeOK /\ Progress)'
    <2>1. phase \in Over /\ phase \notin Active /\ phase # "new" /\ phase # "replay"
        BY DEF Over, Active
    <2>2. /\ run'[r] = [run[r] EXCEPT !.phase = phase, !.turn = 0, !.snapshot = {}]
          /\ run[r] \in RunRecords
          /\ \A s \in Runs : s # r => run'[s] = run[s]
        BY <1>0, <1>7
    <2>3. run'[r] \in RunRecords /\ run'[r].phase = phase
        BY <2>1, <2>2, Numbers
    <2>4. run' \in [Runs -> RunRecords]
        BY <1>0, <1>7, <2>2, <2>3
    <2>5. \A s \in Runs : run'[s].phase \in Active => run'[s].entry >= 1
        BY <2>1, <2>2, <2>3 DEF EvalTypeOK
    <2>6. Progress'
        BY <2>1, <2>2, <2>3 DEF Progress
    <2> QED
        BY <1>0, <1>7, <2>4, <2>5, <2>6 DEF EvalTypeOK
<1>8. ASSUME NEW r \in Runs, run[r].phase \in Active, EndOf(r) PROVE (EvalTypeOK /\ Progress)'
    <2>1. PICK raised \in BOOLEAN, read \in SUBSET Runs : EndEntry(r, raised, read)
        <3>1. workspace[Id(r)].facts \in SUBSET Runs /\ run[r].snapshot \in SUBSET Runs
            BY <1>0, <1>8, RunTyped
        <3> QED
            BY <1>8, <3>1 DEF EndOf
    <2>2. [run |-> r, entry |-> run[r].entry, memory |-> read] \in Lines /\ File(r) \in Files
        BY <1>8, RunTyped, Numbers
    <2>3. results' = [results EXCEPT ![File(r)] =
              Append(@, [run |-> r, entry |-> run[r].entry, memory |-> read])]
        BY <1>8, <2>1, EntryEnds
    <2> HIDE DEF Lines
    <2>4. results' \in [Files -> Seq(Lines)]
        BY <1>0, <2>2, <2>3
    <2>5. crowded' \in SUBSET Runs
        <3>1. \A id : Crowd(r, id) \in SUBSET Runs
            BY DEF Crowd
        <3>2. \/ crowded' = crowded
              \/ crowded' = crowded \union Crowd(r, <<run[r].dataset, run[r].entry + 1>>)
            BY <1>8, <2>1, EntryEnds, Zenon
        <3> QED
            BY <1>0, <3>1, <3>2
    <2>6. \A s \in Runs : s # r => run'[s] = run[s]
        BY <1>8, <2>1, EntryEnds
    <2>7. run'[r].turn = 0 /\ run'[r].phase \in {"completed", "replay"} /\ run'[r].entry >= 1
        <3>1. run[r].entry \in 0..Entries /\ run[r].entry # 0
            BY <1>8, RunTyped, Zenon
        <3>2. /\ run'[r].turn = 0 /\ run'[r].phase \in {"completed", "replay"}
              /\ run'[r].entry = run[r].entry \/ run'[r].entry = run[r].entry + 1
            BY <1>8, <2>1, EntryEnds
        <3> QED
            BY <3>1, <3>2, Numbers
    <2>8. \A s \in Runs : run'[s].phase \in Active => run'[s].entry >= 1
        BY <2>6, <2>7 DEF EvalTypeOK
    <2>9. Progress'
        BY <2>6, <2>7, Numbers DEF Progress
    <2>10. /\ clock' = clock /\ run' \in [Runs -> RunRecords] /\ workspace' \in [Ids -> Spaces]
        BY <1>8, <2>1, EntryEnds
    <2> QED
        BY <1>0, <2>4, <2>5, <2>8, <2>9, <2>10 DEF EvalTypeOK, Lines
<1>9. ASSUME NEW r \in Runs, KeywordsMatch(r) \/ Judged(r) \/ EntryFails(r)
      PROVE  (EvalTypeOK /\ Progress)'
    BY <1>8, <1>9, Ends
<1>10. ASSUME NEW r \in Runs, BatchFails(r) \/ Kill(r) PROVE (EvalTypeOK /\ Progress)'
    BY <1>7, <1>10 DEF BatchFails, Kill
<1> QED
    BY <1>1, <1>2, <1>3, <1>4, <1>5, <1>6, <1>9, <1>10 DEF EvalNext

-----------------------------------------------------------------------------
(* The lines of a run. *)

\* The lines at the places are those of the first n entries, in their order.
UpTo(lines, places, n) ==
    /\ {lines[i].entry : i \in places} = 1..n
    /\ \A i, j \in places : i < j => lines[i].entry < lines[j].entry

\* LinesAreEntries of one run.
RunLines(r) ==
    run[r].entry # 0 => UpTo(results[File(r)], Places(r), Through(r))

\* OwnMemoryAlone of one run.
OwnLines(r) ==
    r \notin crowded /\ run[r].entry # 0 =>
        \A i \in Places(r) : results[File(r)][i].memory \subseteq {r}

\* The two properties, run by run.
LEMMA PerRun ==
    /\ LinesAreEntries <=> \A r \in Runs : RunLines(r)
    /\ OwnMemoryAlone <=> \A r \in Runs : OwnLines(r)
BY DEF LinesAreEntries, OwnMemoryAlone, RunLines, OwnLines, UpTo

\* A run that only went on, in a step that wrote nothing.
LEMMA LinesKept ==
    ASSUME NEW r \in Runs, RunLines(r), OwnLines(r), results' = results,
           crowded \subseteq crowded',
           run'[r].entry = run[r].entry,
           run[r].entry # 0 => /\ run'[r].dataset = run[r].dataset /\ run'[r].time = run[r].time
                               /\ (run'[r].phase = "completed") = (run[r].phase = "completed")
    PROVE  RunLines(r)' /\ OwnLines(r)'
<1> SUFFICES ASSUME run[r].entry # 0 PROVE RunLines(r)' /\ OwnLines(r)'
    BY DEF RunLines, OwnLines
<1>1. File(r)' = File(r) /\ Through(r)' = Through(r)
    BY DEF File, Through
<1>2. Places(r)' = Places(r)
    BY <1>1 DEF Places
<1> QED
    BY <1>1, <1>2 DEF RunLines, OwnLines

\* The lines of the other runs, in a step in which one writes a line.
LEMMA OthersLinesKept ==
    ASSUME NEW r \in Runs, NEW s \in Runs, s # r, EvalTypeOK, RunLines(s), OwnLines(s),
           NEW line \in Lines, line.run = r,
           results' = [results EXCEPT ![File(r)] = Append(@, line)],
           run'[s] = run[s], crowded \subseteq crowded'
    PROVE  RunLines(s)' /\ OwnLines(s)'
<1>1. File(s)' = File(s) /\ Through(s)' = Through(s)
    BY DEF File, Through
<1>2. PICK old, new : old = results[File(s)] /\ new = results'[File(s)]
    OBVIOUS
<1>3. old \in Seq(Lines) /\ File(s) \in Files /\ File(r) \in Files /\ results[File(r)] \in Seq(Lines)
    BY <1>2, RunTyped
<1>4. new = old \/ new = Append(old, line)
    BY <1>2, <1>3 DEF EvalTypeOK
<1>5. {i \in DOMAIN new : new[i].run = s} = {i \in DOMAIN old : old[i].run = s}
      /\ \A i \in DOMAIN old : new[i] = old[i]
    <2>1. CASE new = old
        BY <2>1
    <2>2. CASE new = Append(old, line)
        <3>1. /\ DOMAIN old = 1..Len(old) /\ Len(old) \in Nat
              /\ DOMAIN new = 1..(Len(old) + 1)
              /\ \A i \in 1..Len(old) : new[i] = old[i]
              /\ new[Len(old) + 1] = line
            BY <1>3, <2>2
        <3> QED
            BY <3>1
    <2> QED
        BY <1>4, <2>1, <2>2
<1>6. Places(s)' = Places(s) /\ \A i \in Places(s) : results'[File(s)][i] = results[File(s)][i]
    BY <1>1, <1>2, <1>5 DEF Places
<1>7. RunLines(s)'
    <2>1. PICK ps : ps = Places(s)
        OBVIOUS
    <2>2. Places(s)' = ps /\ results'[File(s)'] = new /\ run'[s].entry = run[s].entry
        BY <1>1, <1>2, <1>6, <2>1
    <2>0. \A i \in ps : new[i] = old[i]
        BY <1>2, <1>6, <2>1
    <2>3. {new[i].entry : i \in ps} = {old[i].entry : i \in ps}
        BY <2>0
    <2>4. \A i, j \in ps : i < j /\ old[i].entry < old[j].entry => new[i].entry < new[j].entry
        BY <2>0
    <2>5. run[s].entry # 0 => UpTo(old, ps, Through(s))
        BY <1>2, <2>1 DEF RunLines
    <2>6. PICK n : n = Through(s) /\ n = Through(s)'
        BY <1>1
    <2>7. run[s].entry # 0 => UpTo(new, ps, n)
        BY <2>3, <2>4, <2>5, <2>6 DEF UpTo
    <2> QED
        BY <2>2, <2>6, <2>7 DEF RunLines
<1>8. OwnLines(s)'
    BY <1>1, <1>6 DEF OwnLines
<1> QED
    BY <1>7, <1>8

\* The line a run writes at the end of an entry.
LEMMA LineWritten ==
    ASSUME NEW r \in Runs, EvalTypeOK, run[r].phase \in Active, RunLines(r), OwnLines(r),
           NEW read \in SUBSET Runs, r \in crowded \/ read \subseteq {r},
           results' = [results EXCEPT ![File(r)] =
                 Append(@, [run |-> r, entry |-> run[r].entry, memory |-> read])],
           run'[r].dataset = run[r].dataset, run'[r].time = run[r].time,
           \/ run'[r].phase = "completed" /\ run'[r].entry = run[r].entry /\ run[r].entry = Entries
           \/ run'[r].phase = "replay" /\ run'[r].entry = run[r].entry + 1,
           crowded \subseteq crowded'
    PROVE  RunLines(r)' /\ OwnLines(r)'
<1> DEFINE e == run[r].entry
<1>1. PICK old, line, new : /\ old = results[File(r)] /\ new = results'[File(r)]
                            /\ line = [run |-> r, entry |-> e, memory |-> read]
    OBVIOUS
<1>2. e \in 1..Entries /\ e # 0 /\ File(r) \in Files /\ old \in Seq(Lines)
    BY <1>1, RunTyped, Numbers
<1>3. new = Append(old, line) /\ line.run = r /\ line.entry = e /\ line.memory = read
    BY <1>1, <1>2 DEF EvalTypeOK
<1>4. PICK n \in Nat : n = Len(old)
    BY <1>2
<1>5. /\ DOMAIN old = 1..n /\ DOMAIN new = 1..(n + 1)
      /\ \A i \in 1..n : new[i] = old[i]
      /\ new[n + 1] = line
    BY <1>2, <1>3, <1>4
<1>6. File(r)' = File(r)
    BY DEF File
<1>7. Through(r) = e - 1
    BY DEF Through, Active
<1>8. Through(r)' = e /\ run'[r].entry # 0
    BY <1>2, Numbers DEF Through
<1>9. PICK ps : ps = Places(r)
    OBVIOUS
<1>10. ps \subseteq 1..n /\ Places(r)' = ps \union {n + 1}
    BY <1>1, <1>3, <1>5, <1>6, <1>9 DEF Places
<1>11. /\ {old[i].entry : i \in ps} = 1..(e - 1)
       /\ \A i, j \in ps : i < j => old[i].entry < old[j].entry
       /\ r \notin crowded => \A i \in ps : old[i].memory \subseteq {r}
    BY <1>1, <1>2, <1>7, <1>9 DEF RunLines, OwnLines, UpTo
<1> HIDE DEF e
<1>12. {new[i].entry : i \in ps \union {n + 1}} = 1..e
    <2>1. {new[i].entry : i \in ps \union {n + 1}} = {old[i].entry : i \in ps} \union {e}
        BY <1>3, <1>5, <1>10
    <2>2. 1..(e - 1) \union {e} = 1..e
        BY <1>2, Numbers
    <2> QED
        BY <1>11, <2>1, <2>2
<1>13. \A i, j \in ps \union {n + 1} : i < j => new[i].entry < new[j].entry
    <2> SUFFICES ASSUME NEW i \in ps \union {n + 1}, NEW j \in ps \union {n + 1}, i < j
                 PROVE  new[i].entry < new[j].entry
        OBVIOUS
    <2>1. i \in ps /\ i \in 1..n
        BY <1>10
    <2>2. old[i].entry \in 1..(e - 1) /\ new[i] = old[i]
        BY <1>5, <1>11, <2>1
    <2>3. CASE j \in ps
        BY <1>5, <1>10, <1>11, <2>1, <2>2, <2>3
    <2>4. CASE j = n + 1
        BY <1>2, <1>3, <1>5, <2>2, <2>4, Numbers
    <2> QED
        BY <2>3, <2>4
<1>14. r \notin crowded => \A i \in ps \union {n + 1} : new[i].memory \subseteq {r}
    BY <1>3, <1>5, <1>10, <1>11
<1>15. results'[File(r)'] = new
    BY <1>1, <1>6
<1>16. RunLines(r)'
    <2>1. UpTo(new, ps \union {n + 1}, e)
        BY <1>12, <1>13 DEF UpTo
    <2> QED
        BY <1>8, <1>10, <1>15, <2>1 DEF RunLines
<1>17. OwnLines(r)'
    BY <1>10, <1>14, <1>15 DEF OwnLines
<1> QED
    BY <1>16, <1>17

\* Every step preserves what the results files say.
LEMMA LogStep ==
    EvalTypeOK /\ Progress /\ InPlace /\ LinesAreEntries /\ OwnMemoryAlone /\ OwnView /\
    [EvalNext]_evalVars
        => (InPlace /\ LinesAreEntries /\ OwnMemoryAlone)'
<1> SUFFICES ASSUME EvalTypeOK, Progress, InPlace, \A q \in Runs : RunLines(q) /\ OwnLines(q), OwnView,
                    [EvalNext]_evalVars
             PROVE  InPlace' /\ \A q \in Runs : RunLines(q)' /\ OwnLines(q)'
    BY PerRun DEF RunLines, OwnLines, UpTo, LinesAreEntries, OwnMemoryAlone
<1>1. ASSUME results' = results, crowded \subseteq crowded',
             \A q \in Runs : /\ run'[q].entry = run[q].entry
                             /\ run[q].entry # 0 =>
                                   /\ run'[q].dataset = run[q].dataset /\ run'[q].time = run[q].time
                                   /\ (run'[q].phase = "completed") = (run[q].phase = "completed")
      PROVE  InPlace' /\ \A q \in Runs : RunLines(q)' /\ OwnLines(q)'
    <2>1. \A q \in Runs : RunLines(q)' /\ OwnLines(q)'
        BY <1>1, LinesKept
    <2>2. \A q \in Runs : run[q].entry # 0 => File(q)' = File(q)
        BY <1>1 DEF File
    <2>3. ASSUME NEW f \in Files, NEW i \in DOMAIN results[f] PROVE results[f][i].run \in Runs
        <3>1. results[f] \in Seq(Lines)
            BY DEF EvalTypeOK, Lines
        <3>2. results[f][i] \in Lines
            BY <3>1
        <3> QED
            BY <3>2 DEF Lines
    <2>4. InPlace'
        BY <1>1, <2>2, <2>3 DEF InPlace
    <2> QED
        BY <2>1, <2>4
<1>2. CASE UNCHANGED evalVars
    BY <1>1, <1>2 DEF evalVars
<1>3. CASE Tick
    BY <1>1, <1>3 DEF Tick
<1>4. ASSUME NEW r \in Runs, NEW dataset \in Datasets, NEW keep \in BOOLEAN, Begin(r, dataset, keep)
      PROVE  InPlace' /\ \A q \in Runs : RunLines(q)' /\ OwnLines(q)'
    <2>1. /\ run[r].phase = "new" /\ run'[r].phase = "replay"
          /\ run'[r].entry = 1 /\ run'[r].dataset = dataset /\ run'[r].time = clock
          /\ \A q \in Runs : q # r => run'[q] = run[q]
          /\ results' = results /\ crowded \subseteq crowded'
        BY <1>4, BeginRun
    <2>3. run[r].entry = 0
        BY <2>1 DEF Progress
    <2>4. \A q \in Runs \ {r} : RunLines(q)' /\ OwnLines(q)'
        BY <2>1, LinesKept
    <2>5. \A f \in Files : \A i \in DOMAIN results[f] : results[f][i].run # r
        BY <2>3 DEF InPlace
    <2>6. Places(r)' = {}
        <3>1. clock \in 0..MaxTime
            BY DEF EvalTypeOK
        <3>2. File(r)' \in Files
            BY <2>1, <3>1 DEF File, Files
        <3>3. Places(r)' = {i \in DOMAIN results[File(r)'] : results[File(r)'][i].run = r}
            BY <2>1 DEF Places
        <3> QED
            BY <2>5, <3>2, <3>3
    <2>7. Through(r)' = 0 /\ 1..0 = {}
        BY <2>1 DEF Through
    <2>8. RunLines(r)' /\ OwnLines(r)'
        BY <2>6, <2>7 DEF RunLines, OwnLines, UpTo
    <2>9. InPlace'
        <3> SUFFICES ASSUME NEW f \in Files, NEW i \in DOMAIN results[f], NEW p, p = results[f][i].run
                     PROVE  run'[p].entry # 0 /\ f = File(p)'
            BY <2>1 DEF InPlace, File
        <3>1. PICK q : q = p
            OBVIOUS
        <3>2. q # r /\ run[q].entry # 0 /\ f = File(q)
            BY <2>5, <3>1 DEF InPlace
        <3>3. results[f] \in Seq(Lines)
            BY DEF EvalTypeOK, Lines
        <3>4. q \in Runs
            <4>1. results[f][i] \in Lines
                BY <3>3
            <4> QED
                BY <3>1, <4>1 DEF Lines
        <3>5. run'[q] = run[q]
            BY <2>1, <3>2, <3>4
        <3>6. File(q)' = File(q)
            BY <3>5 DEF File
        <3>7. run'[q].entry # 0 /\ f = File(q)'
            BY <3>2, <3>5, <3>6
        <3> QED
            BY <3>1, <3>7
    <2> QED
        BY <2>4, <2>8, <2>9
<1>5. ASSUME NEW r \in Runs, BeginNothing(r)
      PROVE  InPlace' /\ \A q \in Runs : RunLines(q)' /\ OwnLines(q)'
    <2>1. run[r].entry = 0 /\ results' = results /\ crowded' = crowded
        BY <1>5 DEF BeginNothing, Progress
    <2>2. run'[r].entry = 0 /\ \A q \in Runs : q # r => run'[q] = run[q]
        <3>1. PICK phase \in {"completed", "failed"} : run' = [run EXCEPT ![r] = Blank(phase)]
            BY <1>5 DEF BeginNothing
        <3>2. Blank(phase).entry = 0
            BY DEF Blank
        <3> QED
            BY <3>1, <3>2 DEF EvalTypeOK
    <2> QED
        BY <1>1, <2>1, <2>2
<1>6. ASSUME NEW r \in Runs, Within(r) PROVE InPlace' /\ \A q \in Runs : RunLines(q)' /\ OwnLines(q)'
    BY <1>1, <1>6 DEF Within, Active
<1>7. ASSUME NEW r \in Runs, KeywordsMatch(r) \/ Judged(r) \/ EntryFails(r)
      PROVE  InPlace' /\ \A q \in Runs : RunLines(q)' /\ OwnLines(q)'
    <2>1. run[r].phase \in Active /\ EndOf(r)
        BY <1>7, Ends
    <2>2. PICK raised \in BOOLEAN, read \in SUBSET Runs :
              EndEntry(r, raised, read) /\ (r \in crowded \/ read \subseteq {r})
        <3>1. /\ workspace[Id(r)].facts \in SUBSET Runs
              /\ run[r].snapshot \in SUBSET Runs
            BY <2>1, RunTyped DEF EvalTypeOK
        <3>2. r \in crowded \/ (workspace[Id(r)].facts \subseteq {r} /\ run[r].snapshot \subseteq {r})
            BY <2>1 DEF OwnView
        <3> QED
            BY <2>1, <3>1, <3>2 DEF EndOf
    <2>3. /\ \A s \in Runs : s # r => run'[s] = run[s]
          /\ run'[r].dataset = run[r].dataset /\ run'[r].time = run[r].time
          /\ \/ run'[r].phase = "completed" /\ run'[r].entry = run[r].entry /\ run[r].entry = Entries
             \/ run'[r].phase = "replay" /\ run'[r].entry = run[r].entry + 1
          /\ results' = [results EXCEPT ![File(r)] =
                 Append(@, [run |-> r, entry |-> run[r].entry, memory |-> read])]
        BY <2>1, <2>2, EntryEnds
    <2>4. crowded \subseteq crowded'
        BY <2>1, <2>2, EntryEnds
    <2>5. RunLines(r)' /\ OwnLines(r)'
        BY <2>1, <2>2, <2>3, <2>4, LineWritten
    <2>6. PICK line \in Lines : line = [run |-> r, entry |-> run[r].entry, memory |-> read]
        <3>1. run[r].entry \in 1..Entries
            BY <2>1, RunTyped, Numbers
        <3> QED
            BY <3>1 DEF Lines
    <2>7. line.run = r
        BY <2>6
    <2>8. results' = [results EXCEPT ![File(r)] = Append(@, line)]
        BY <2>3, <2>6
    <2>9. \A s \in Runs \ {r} : RunLines(s)' /\ OwnLines(s)'
        BY <2>3, <2>4, <2>7, <2>8, OthersLinesKept
    <2>10. InPlace'
        <3>1. File(r) \in Files /\ run[r].entry # 0 /\ run[r].entry \in Nat
            BY <2>1, RunTyped, Numbers
        <3>2. \A q \in Runs : run[q].entry # 0 => run'[q].entry # 0 /\ File(q)' = File(q)
            BY <2>3, <3>1 DEF File
        <3> SUFFICES ASSUME NEW f \in Files, NEW i \in DOMAIN results'[f], NEW p, p = results'[f][i].run
                     PROVE  run'[p].entry # 0 /\ f = File(p)'
            BY DEF InPlace, File
        <3>3. results[f] \in Seq(Lines) /\ results \in [Files -> Seq(Lines)]
            BY DEF EvalTypeOK, Lines
        <3>4. PICK q : q = p
            OBVIOUS
        <3>5. q \in Runs /\ run[q].entry # 0 /\ f = File(q)
            <4>1. CASE f = File(r) /\ i = Len(results[f]) + 1
                <5>1. results'[f] = Append(results[f], line)
                    BY <2>8, <3>3, <4>1
                <5>2. results'[f][i] = line
                    BY <3>3, <4>1, <5>1
                <5> QED
                    BY <2>7, <3>1, <3>4, <4>1, <5>2
            <4>2. CASE ~(f = File(r) /\ i = Len(results[f]) + 1)
                <5>1. i \in DOMAIN results[f] /\ results'[f][i] = results[f][i]
                    <6>1. CASE f = File(r)
                        <7>1. results'[f] = Append(results[f], line)
                            BY <2>8, <3>3, <6>1
                        <7> QED
                            BY <3>3, <4>2, <6>1, <7>1
                    <6>2. CASE f # File(r)
                        <7>1. results'[f] = results[f]
                            BY <2>8, <3>3, <6>2
                        <7> QED
                            BY <7>1
                    <6> QED
                        BY <6>1, <6>2
                <5>2. results[f][i] \in Lines
                    BY <3>3, <5>1
                <5> QED
                    BY <3>4, <5>1, <5>2 DEF InPlace, Lines
            <4> QED
                BY <4>1, <4>2
        <3>6. run'[q].entry # 0 /\ f = File(q)'
            BY <3>2, <3>5
        <3> QED
            BY <3>4, <3>6
    <2> QED
        BY <2>5, <2>9, <2>10
<1> QED
    BY <1>2, <1>3, <1>4, <1>5, <1>6, <1>7, WithinEntry DEF EvalNext

-----------------------------------------------------------------------------
(* Whose facts are in a workspace. *)

\* A run that comes to a workspace meets whoever is at work there.
LEMMA Arrives ==
    ASSUME EvalTypeOK, Sharers, OwnView, NEW r \in Runs, NEW id \in Ids,
           \A s \in Runs : s # r => run'[s] = run[s],
           run'[r].phase \in Active, Id(r)' = id, run'[r].snapshot = {},
           crowded' = crowded \union Crowd(r, id),
           workspace'[id].facts = {},
           \A at \in Ids : at # id => \/ workspace'[at] = workspace[at]
                                      \/ workspace'[at].facts = {}
    PROVE  Sharers' /\ OwnView'
<1>1. \A s \in Runs : s # r => Id(s)' = Id(s)
    BY DEF Id
<1>2. ASSUME NEW s \in Runs, s # r, run[s].phase \in Active, Id(s) = id
      PROVE  s \in crowded' /\ r \in crowded'
    <2>1. s \in {q \in Runs \ {r} : run[q].phase \in Active /\ Id(q) = id}
        BY <1>2
    <2> QED
        BY <2>1 DEF Crowd
<1>3. Sharers'
    <2> SUFFICES ASSUME NEW p \in Runs, NEW q \in Runs, p # q,
                        run'[p].phase \in Active, run'[q].phase \in Active, Id(p)' = Id(q)'
                 PROVE  p \in crowded'
        BY DEF Sharers
    <2>1. CASE p = r
        BY <1>1, <1>2, <2>1
    <2>2. CASE q = r
        BY <1>1, <1>2, <2>2
    <2>3. CASE p # r /\ q # r
        BY <1>1, <2>3 DEF Sharers
    <2> QED
        BY <2>1, <2>2, <2>3
<1>4. OwnView'
    <2> SUFFICES ASSUME NEW p \in Runs, p \notin crowded', run'[p].phase \in Active
                 PROVE  workspace'[Id(p)'].facts \subseteq {p} /\ run'[p].snapshot \subseteq {p}
        BY DEF OwnView
    <2>1. CASE p = r
        BY <2>1
    <2>2. CASE p # r
        <3>1. run'[p] = run[p] /\ Id(p)' = Id(p) /\ Id(p) # id /\ Id(p) \in Ids
            BY <1>1, <1>2, <2>2, RunTyped
        <3>2. workspace[Id(p)].facts \subseteq {p} /\ run[p].snapshot \subseteq {p}
            BY <3>1 DEF OwnView
        <3> QED
            BY <3>1, <3>2
    <2> QED
        BY <2>1, <2>2
<1> QED
    BY <1>3, <1>4

\* A run that stays where it is, or is over.
LEMMA Stays ==
    ASSUME EvalTypeOK, Sharers, OwnView, NEW r \in Runs, crowded' = crowded,
           \A s \in Runs : s # r => run'[s] = run[s],
           run'[r].phase \in Active =>
               /\ run[r].phase \in Active /\ Id(r)' = Id(r)
               /\ r \notin crowded => /\ workspace'[Id(r)].facts \subseteq {r}
                                      /\ run'[r].snapshot \subseteq {r},
           \A at \in Ids : \/ workspace'[at] = workspace[at]
                           \/ workspace'[at].facts = {}
                           \/ run[r].phase \in Active /\ at = Id(r)
    PROVE  Sharers' /\ OwnView'
<1>1. \A s \in Runs : s # r => Id(s)' = Id(s)
    BY DEF Id
<1>2. Sharers'
    <2> SUFFICES ASSUME NEW p \in Runs, NEW q \in Runs, p # q,
                        run'[p].phase \in Active, run'[q].phase \in Active, Id(p)' = Id(q)'
                 PROVE  p \in crowded'
        BY DEF Sharers
    <2>1. /\ run[p].phase \in Active /\ Id(p)' = Id(p)
          /\ run[q].phase \in Active /\ Id(q)' = Id(q)
        BY <1>1
    <2> QED
        BY <2>1 DEF Sharers
<1>3. OwnView'
    <2> SUFFICES ASSUME NEW p \in Runs, p \notin crowded', run'[p].phase \in Active
                 PROVE  workspace'[Id(p)'].facts \subseteq {p} /\ run'[p].snapshot \subseteq {p}
        BY DEF OwnView
    <2>1. CASE p = r
        BY <2>1
    <2>2. CASE p # r
        <3>1. run'[p] = run[p] /\ Id(p)' = Id(p) /\ Id(p) \in Ids /\ run[p].phase \in Active
            BY <1>1, <2>2, RunTyped
        <3>2. workspace[Id(p)].facts \subseteq {p} /\ run[p].snapshot \subseteq {p}
            BY <3>1 DEF OwnView
        <3>3. ~(run[r].phase \in Active /\ Id(p) = Id(r))
            BY <2>2, <3>1 DEF Sharers
        <3> QED
            BY <3>1, <3>2, <3>3
    <2> QED
        BY <2>1, <2>2
<1> QED
    BY <1>2, <1>3

\* Every step preserves who shares a workspace and whose facts are in it.
LEMMA ViewStep ==
    EvalTypeOK /\ Progress /\ Sharers /\ OwnView /\ [EvalNext]_evalVars => (Sharers /\ OwnView)'
<1> SUFFICES ASSUME EvalTypeOK, Progress, Sharers, OwnView, [EvalNext]_evalVars
             PROVE  (Sharers /\ OwnView)'
    OBVIOUS
<1>1. CASE UNCHANGED <<run, workspace, crowded>>
    BY <1>1 DEF Sharers, OwnView, Id
<1>2. CASE UNCHANGED evalVars \/ Tick
    BY <1>1, <1>2 DEF evalVars, Tick
<1>3. ASSUME NEW r \in Runs, NEW dataset \in Datasets, NEW keep \in BOOLEAN, Begin(r, dataset, keep)
      PROVE  (Sharers /\ OwnView)'
    <2>1. PICK id \in Ids : id = <<dataset, 1>>
        BY Numbers DEF Ids
    <2>2. /\ \A s \in Runs : s # r => run'[s] = run[s]
          /\ run'[r].phase = "replay" /\ run'[r].dataset = dataset /\ run'[r].entry = 1
          /\ run'[r].snapshot = {}
        BY <1>3, BeginRun
    <2>3. /\ crowded' = crowded \union Crowd(r, id)
          /\ workspace' = [workspace EXCEPT ![id] = [made |-> TRUE, facts |-> {}]]
        BY <1>3, <2>1 DEF Begin, Created
    <2>4. /\ workspace'[id].facts = {}
          /\ \A at \in Ids : at # id => workspace'[at] = workspace[at]
        BY <2>3 DEF EvalTypeOK
    <2>5. Id(r)' = id
        BY <2>1, <2>2 DEF Id
    <2>6. run'[r].phase \in Active
        BY <2>2 DEF Active
    <2> QED
        BY <2>2, <2>3, <2>4, <2>5, <2>6, Arrives
<1>4. ASSUME NEW r \in Runs, BeginNothing(r) PROVE (Sharers /\ OwnView)'
    <2>1. PICK phase \in {"completed", "failed"} : run' = [run EXCEPT ![r] = Blank(phase)]
        BY <1>4 DEF BeginNothing
    <2>2. Blank(phase).phase \notin Active
        BY DEF Blank, Active
    <2>3. run'[r].phase \notin Active /\ \A s \in Runs : s # r => run'[s] = run[s]
        BY <2>1, <2>2 DEF EvalTypeOK
    <2> QED
        BY <1>4, <2>3, Stays DEF BeginNothing
<1>5. ASSUME NEW r \in Runs, ReplayTurn(r) PROVE (Sharers /\ OwnView)'
    <2>1. run[r].phase \in Active /\ run[r].phase = "replay" /\ crowded' = crowded
        BY <1>5 DEF ReplayTurn, Active
    <2>2. Within(r)
        BY <1>5, WithinEntry
    <2>3. run'[r].snapshot = run[r].snapshot /\ Id(r)' = Id(r)
        BY <1>5, <2>2 DEF ReplayTurn, Id, Within, EvalTypeOK
    <2>4. /\ \A at \in Ids : workspace'[at] = workspace[at] \/ at = Id(r)
          /\ workspace'[Id(r)].facts \subseteq workspace[Id(r)].facts \union {r}
        <3>1. Id(r) \in Ids
            BY <2>1, RunTyped
        <3>2. CASE workspace' = workspace
            BY <3>2
        <3>3. CASE workspace' = Wrote(r)
            <4>1. workspace'[Id(r)] = [made |-> TRUE, facts |-> workspace[Id(r)].facts \union {r}]
                BY <3>1, <3>3 DEF Wrote, EvalTypeOK
            <4>2. \A at \in Ids : at # Id(r) => workspace'[at] = workspace[at]
                BY <3>1, <3>3 DEF Wrote, EvalTypeOK
            <4> QED
                BY <4>1, <4>2
        <3> QED
            BY <1>5, <3>2, <3>3 DEF ReplayTurn
    <2>5. r \notin crowded => workspace'[Id(r)].facts \subseteq {r} /\ run'[r].snapshot \subseteq {r}
        BY <2>1, <2>3, <2>4 DEF OwnView
    <2>6. \A s \in Runs : s # r => run'[s] = run[s]
        BY <2>2 DEF Within
    <2> QED
        BY <2>1, <2>3, <2>4, <2>5, <2>6, Stays
<1>6. ASSUME NEW r \in Runs, AskJudge(r) PROVE (Sharers /\ OwnView)'
    <2>1. run[r].phase \in Active /\ workspace' = workspace /\ crowded' = crowded
        BY <1>6 DEF AskJudge, Active
    <2>2. Within(r)
        BY <1>6, WithinEntry
    <2>3. run'[r].snapshot = workspace[Id(r)].facts /\ Id(r)' = Id(r)
        BY <1>6, <2>2 DEF AskJudge, Id, Within, EvalTypeOK
    <2>4. r \notin crowded => workspace'[Id(r)].facts \subseteq {r} /\ run'[r].snapshot \subseteq {r}
        BY <2>1, <2>3 DEF OwnView
    <2>5. \A s \in Runs : s # r => run'[s] = run[s]
        BY <2>2 DEF Within
    <2> QED
        BY <2>1, <2>3, <2>4, <2>5, Stays
<1>7. ASSUME NEW r \in Runs, BatchFails(r) \/ Kill(r) PROVE (Sharers /\ OwnView)'
    <2>1. workspace' = workspace /\ crowded' = crowded
        BY <1>7 DEF BatchFails, Kill
    <2>2. PICK phase \in {"failed", "killed"} :
              run' = [run EXCEPT ![r] = [@ EXCEPT !.phase = phase, !.turn = 0, !.snapshot = {}]]
        BY <1>7 DEF BatchFails, Kill
    <2>3. run'[r] = [run[r] EXCEPT !.phase = phase, !.turn = 0, !.snapshot = {}]
        BY <2>2 DEF EvalTypeOK
    <2>4. run'[r].phase \notin Active
        BY <2>3 DEF EvalTypeOK, Active
    <2>5. \A s \in Runs : s # r => run'[s] = run[s]
        BY <2>2 DEF EvalTypeOK
    <2> QED
        BY <2>1, <2>4, <2>5, Stays
<1>8. ASSUME NEW r \in Runs, KeywordsMatch(r) \/ Judged(r) \/ EntryFails(r)
      PROVE  (Sharers /\ OwnView)'
    <2>1. run[r].phase \in Active /\ EndOf(r)
        BY <1>8, Ends
    <2>2. PICK raised \in BOOLEAN, read \in SUBSET Runs : EndEntry(r, raised, read)
        <3>1. workspace[Id(r)].facts \in SUBSET Runs /\ run[r].snapshot \in SUBSET Runs
            BY <2>1, RunTyped DEF EvalTypeOK
        <3> QED
            BY <2>1, <3>1 DEF EndOf
    <2>3. /\ \A s \in Runs : s # r => run'[s] = run[s]
          /\ run'[r].dataset = run[r].dataset /\ run'[r].snapshot = {}
          /\ run[r].entry \in 0..Entries /\ run[r].entry # 0 /\ run[r].dataset \in Datasets
        BY <2>1, <2>2, EntryEnds, RunTyped
    <2>4. \A id \in Ids : \/ workspace'[id] = workspace[id]
                          \/ workspace'[id].facts = {}
        BY <2>1, <2>2, EntryEnds
    <2>5. CASE run'[r].phase = "completed"
        <3>1. crowded' = crowded /\ run'[r].phase \notin Active
            BY <2>1, <2>2, <2>5, EntryEnds DEF Active
        <3> QED
            BY <2>3, <2>4, <3>1, Stays
    <2>6. CASE run'[r].phase # "completed"
        <3>1. /\ run'[r].phase = "replay" /\ run'[r].entry = run[r].entry + 1 /\ run[r].entry < Entries
              /\ crowded' = crowded \union Crowd(r, <<run[r].dataset, run[r].entry + 1>>)
              /\ workspace'[<<run[r].dataset, run[r].entry + 1>>].facts = {}
            BY <2>1, <2>2, <2>6, EntryEnds
        <3>2. run[r].entry + 1 \in 1..Entries
            BY <2>3, <3>1, Numbers
        <3>3. PICK id \in Ids : id = <<run[r].dataset, run[r].entry + 1>>
            BY <2>3, <3>2 DEF Ids
        <3>4. Id(r)' = id /\ run'[r].phase \in Active
            BY <2>3, <3>1, <3>3 DEF Id, Active
        <3> QED
            BY <2>3, <2>4, <3>1, <3>3, <3>4, Arrives
    <2> QED
        BY <2>5, <2>6
<1> QED
    BY <1>2, <1>3, <1>4, <1>5, <1>6, <1>7, <1>8 DEF EvalNext

-----------------------------------------------------------------------------
(* The theorems about EvalRuns. *)

\* The invariant holds at the start and in every state.
LEMMA EvalInvInit == EvalInit => EvalInv
<1> SUFFICES ASSUME EvalInit PROVE EvalInv
    OBVIOUS
<1>1. \A r \in Runs : run[r].phase = "new" /\ run[r].entry = 0
    BY DEF EvalInit, Blank
<1>2. \A f \in Files : results[f] = << >> /\ DOMAIN results[f] = {}
    BY DEF EvalInit
<1>3. InPlace
    BY <1>2 DEF InPlace
<1>4. LinesAreEntries /\ OwnMemoryAlone
    BY <1>1 DEF LinesAreEntries, OwnMemoryAlone
<1>5. Sharers /\ OwnView
    BY <1>1 DEF Sharers, OwnView, Active
<1> QED
    BY <1>3, <1>4, <1>5, EvalTypesInit DEF EvalInv

LEMMA EvalInvHolds == EvalSpec => []EvalInv
<1>1. EvalInv /\ [EvalNext]_evalVars => EvalInv'
    BY EvalTypesStep, LogStep, ViewStep DEF EvalInv
<1> QED
    BY <1>1, EvalInvInit, PTL DEF EvalSpec

\* The types of the harness: a run at work has an entry and a turn within it,
\* and every line of a results file names a run and an entry.
THEOREM EvalTypesCorrect == EvalSpec => []EvalTypeOK
BY EvalInvHolds, PTL DEF EvalInv

\* Whatever calls fail, and whoever writes to the same file in the same second,
\* run_batch leaves one line for every entry it is through with, in their order.
THEOREM EntriesHaveLines == EvalSpec => []LinesAreEntries
BY EvalInvHolds, PTL DEF EvalInv

\* What a line says the agent remembered was written by that run, unless
\* another run came into the workspace while it was at work there: nothing an
\* earlier or a killed run left behind gets into a result.
THEOREM MemoryIsOwn == EvalSpec => []OwnMemoryAlone
BY EvalInvHolds, PTL DEF EvalInv
=============================================================================
