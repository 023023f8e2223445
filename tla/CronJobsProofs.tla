--------------------------- MODULE CronJobsProofs ---------------------------
(***************************************************************************)
(* Proofs about CronJobs for any jobs and any finite set of run requests.  *)
(***************************************************************************)
EXTENDS CronJobs, FiniteSetTheorems, TLAPS

(***************************************************************************)
(* Types.  A job is counted once per run that is over, which bounds the    *)
(* count by the number of runs.                                            *)
(***************************************************************************)
Over == {r \in Runs : run[r].phase = "over"}

RunRecords == [phase : {"idle", "going", "over"}, job : Jobs \union {NoJob},
               force : BOOLEAN, store : Stores]

Typed ==
    /\ file \in Stores
    /\ answer \in [Jobs -> {"unknown", "added", "removed"}]
    /\ run \in [Runs -> RunRecords]
    /\ \A r \in Runs : run[r].job = NoJob <=> run[r].phase = "idle"
    /\ unforced \in [Jobs -> Nat]
    /\ exposed \subseteq Jobs /\ raced \subseteq Jobs /\ torn \in BOOLEAN

Counted == \A j \in Jobs : unforced[j] <= Cardinality(Over)

TypeInv == Typed /\ Counted

LEMMA OverCount ==
    ASSUME Typed
    PROVE  /\ IsFiniteSet(Over)
           /\ Cardinality(Over) \in Nat
           /\ Cardinality(Over) <= Cardinality(Runs)
           /\ Cardinality(Runs) \in Nat
<1>1. Over \subseteq Runs /\ IsFiniteSet(Runs)
  BY ConstantsAssumption DEF Over
<1> QED
  BY <1>1, FS_Subset, FS_CardinalityType

\* What ends a run does to the runs: r is over, the others are as they were.
LEMMA RunOver ==
    ASSUME Typed, NEW r \in Runs, run[r].phase = "going", Finished(r)
    PROVE  /\ run' \in [Runs -> RunRecords]
           /\ \A g \in Runs \ {r} : run'[g] = run[g]
           /\ run'[r].phase = "over" /\ run'[r].job = run[r].job
           /\ run[r].job \in Jobs
           /\ Going' = Going \ {r}
           /\ r \notin Over /\ Over' = Over \union {r}
<1>1. run' = [run EXCEPT ![r].phase = "over"] /\ run[r] \in RunRecords
  BY DEF Finished, Typed
<1>2. run'[r] = [run[r] EXCEPT !.phase = "over"] /\ \A g \in Runs \ {r} : run'[g] = run[g]
  BY <1>1 DEF Typed
<1>3. run'[r] \in RunRecords /\ run'[r].phase = "over" /\ run'[r].job = run[r].job
  BY <1>1, <1>2 DEF RunRecords
<1>4. run' \in [Runs -> RunRecords]
  BY <1>1, <1>3 DEF Typed
<1>5. run[r].job \in Jobs
  BY <1>1 DEF Typed, RunRecords
<1>6. Going' = Going \ {r}
  BY <1>2, <1>3 DEF Going
<1>7. r \notin Over /\ Over' = Over \union {r}
  BY <1>2, <1>3 DEF Over
<1> QED
  BY <1>2, <1>3, <1>4, <1>5, <1>6, <1>7

\* And what a run that begins does.
LEMMA RunBegun ==
    ASSUME Typed, NEW r \in Runs, NEW j \in Jobs, NEW force \in BOOLEAN, StartRun(r, j, force)
    PROVE  /\ run' \in [Runs -> RunRecords]
           /\ \A g \in Runs \ {r} : run'[g] = run[g]
           /\ run'[r] = [phase |-> "going", job |-> j, force |-> force, store |-> file]
           /\ Going' = Going \union {r}
           /\ Over' = Over
<1>1. /\ run' = [run EXCEPT ![r] = [phase |-> "going", job |-> j, force |-> force, store |-> file]]
      /\ run[r].phase = "idle"
  BY DEF StartRun
<1>2. [phase |-> "going", job |-> j, force |-> force, store |-> file] \in RunRecords
  BY DEF Typed, RunRecords
<1> QED
  BY <1>1, <1>2 DEF Typed, Going, Over

LEMMA ExecutedTyped ==
    ASSUME Typed, NEW r \in Runs, run[r].job \in Jobs
    PROVE  /\ Executed(r) \in Stores
           /\ \A j \in Jobs \ {run[r].job} : Executed(r)[j] = run[r].store[j]
           /\ Executed(r)[run[r].job] = IF run[r].job \in OneShot THEN "disabled"
                                        ELSE run[r].store[run[r].job]
<1>1. run[r].store \in Stores
  BY DEF Typed, RunRecords
<1> QED
  BY <1>1 DEF Executed, Stores

LEMMA TypeInit == Init => TypeInv
<1> SUFFICES ASSUME Init PROVE TypeInv
  OBVIOUS
<1>1. Typed
  BY ConstantsAssumption DEF Init, Typed, RunRecords, Stores, NoJobs, Idle
<1>2. Counted
  BY <1>1, OverCount DEF Init, Counted
<1> QED
  BY <1>1, <1>2 DEF TypeInv

LEMMA TypeStep == TypeInv /\ [Next]_vars => TypeInv'
<1> SUFFICES ASSUME TypeInv, [Next]_vars PROVE TypeInv'
  OBVIOUS
<1>0. Typed /\ Counted
  BY DEF TypeInv
<1>1. ASSUME NEW j \in Jobs, Add(j) \/ Remove(j) PROVE TypeInv'
  <2>1. Typed'
    BY <1>0, <1>1 DEF Add, Remove, Typed, Stores
  <2> QED
    BY <1>0, <1>1, <2>1 DEF Add, Remove, TypeInv, Counted, Over
<1>2. CASE RequestDies
  BY <1>0, <1>2 DEF RequestDies, TypeInv, Typed, Counted, Over, Stores, NoJobs
<1>3. ASSUME NEW r \in Runs, NEW j \in Jobs, NEW force \in BOOLEAN, StartRun(r, j, force)
      PROVE  TypeInv'
  <2>0. /\ run' \in [Runs -> RunRecords] /\ Over' = Over
        /\ \A g \in Runs \ {r} : run'[g] = run[g]
        /\ run'[r] = [phase |-> "going", job |-> j, force |-> force, store |-> file]
    BY <1>0, <1>3, RunBegun
  <2>1. \A g \in Runs : run'[g].job = NoJob <=> run'[g].phase = "idle"
    <3>1. run'[r].job = j /\ run'[r].phase = "going" /\ j # NoJob
      BY <2>0, ConstantsAssumption
    <3> QED
      BY <1>0, <2>0, <3>1 DEF Typed
  <2>2. UNCHANGED <<file, answer, unforced, exposed, torn>>
    BY <1>3 DEF StartRun
  <2>3. raced' \subseteq Jobs
    <3>1. \A g \in Going : run[g].job \in Jobs
      BY <1>0 DEF Typed, RunRecords, Going
    <3> QED
      BY <1>0, <1>3, <3>1 DEF StartRun, Typed
  <2>4. Typed'
    BY <1>0, <2>0, <2>1, <2>2, <2>3 DEF Typed, RunRecords, Stores
  <2>5. Counted'
    BY <1>0, <2>0, <2>2 DEF Counted
  <2> QED
    BY <2>4, <2>5 DEF TypeInv
<1>4. ASSUME NEW r \in Runs, EndRun(r) \/ RunDies(r) \/ SaveDies(r) PROVE TypeInv'
  <2>1. run[r].phase = "going" /\ Finished(r) /\ UNCHANGED <<answer, exposed, raced>>
    BY <1>4 DEF EndRun, RunDies, SaveDies
  <2>2. /\ run' \in [Runs -> RunRecords]
        /\ \A g \in Runs \ {r} : run'[g] = run[g]
        /\ run'[r].phase = "over" /\ run'[r].job = run[r].job
        /\ run[r].job \in Jobs
        /\ r \notin Over /\ Over' = Over \union {r}
    BY <1>0, <2>1, RunOver
  <2>3. \A g \in Runs : run'[g].job = NoJob <=> run'[g].phase = "idle"
    BY <1>0, <2>2, ConstantsAssumption DEF Typed
  <2>4. file' \in Stores /\ torn' \in BOOLEAN
    BY <1>0, <1>4, <2>2, ExecutedTyped DEF EndRun, RunDies, SaveDies, Typed, Stores, NoJobs
  <2>5. /\ unforced' \in [Jobs -> Nat]
        /\ \A j \in Jobs : unforced'[j] <= unforced[j] + 1
    BY <1>0, <1>4 DEF EndRun, RunDies, SaveDies, Typed
  <2>6. Typed'
    BY <1>0, <2>1, <2>2, <2>3, <2>4, <2>5 DEF Typed, RunRecords, Stores
  <2>7. Cardinality(Over') = Cardinality(Over) + 1
    BY <1>0, <2>2, OverCount, FS_AddElement
  <2>8. Counted'
    BY <1>0, <2>5, <2>7, OverCount DEF Counted, Typed
  <2> QED
    BY <2>6, <2>8 DEF TypeInv
<1>5. CASE UNCHANGED vars
  BY <1>0, <1>5 DEF vars, TypeInv, Typed, Counted, Over, RunRecords, Stores
<1> QED
  BY <1>1, <1>2, <1>3, <1>4, <1>5 DEF Next

(***************************************************************************)
(* The type invariant, for any jobs and runs.                              *)
(***************************************************************************)
THEOREM TypeCorrect == Spec => []TypeOK
<1>1. TypeInv => TypeOK
  <2> SUFFICES ASSUME TypeInv PROVE TypeOK
    OBVIOUS
  <2>1. Typed /\ Counted
    BY DEF TypeInv
  <2>2. \A j \in Jobs : unforced[j] \in 0..Cardinality(Runs)
    BY <2>1, OverCount DEF Typed, Counted
  <2> QED
    BY <2>1, <2>2 DEF Typed, TypeOK, RunRecords
<1> QED
  BY <1>1, TypeInit, TypeStep, PTL DEF Spec

(***************************************************************************)
(* The file tells what the answers say of the jobs no run was going on     *)
(* for.  A run writes back the store it loaded, so the store of every      *)
(* going run must tell the same; a job added or removed while none is      *)
(* going is in no such store, one added or removed meanwhile is exposed.   *)
(* The job of a going run is in its store, so that its new state does not  *)
(* add it.                                                                 *)
(***************************************************************************)
Tells(store) == \A j \in Jobs \ exposed : store[j] # "absent" <=> answer[j] = "added"

OwnJob == \A r \in Going : run[r].store[run[r].job] # "absent"

FileInv ==
    /\ OwnJob
    /\ ~torn => Tells(file) /\ \A r \in Going : Tells(run[r].store)

LEMMA FileInit == Init => FileInv
BY DEF Init, FileInv, OwnJob, Tells, NoJobs, Going, Idle

LEMMA OwnJobStep == Typed /\ OwnJob /\ [Next]_vars => OwnJob'
<1> SUFFICES ASSUME Typed, OwnJob, [Next]_vars PROVE OwnJob'
  OBVIOUS
<1>1. ASSUME NEW r \in Runs, NEW j \in Jobs, NEW force \in BOOLEAN, StartRun(r, j, force)
      PROVE  OwnJob'
  <2>1. /\ Going' = Going \union {r}
        /\ \A g \in Runs \ {r} : run'[g] = run[g]
        /\ run'[r] = [phase |-> "going", job |-> j, force |-> force, store |-> file]
    BY <1>1, RunBegun
  <2>2. run'[r].store = file /\ run'[r].job = j
    BY <2>1
  <2>3. file[j] # "absent"
    BY <1>1 DEF StartRun, MayRun
  <2> QED
    BY <2>1, <2>2, <2>3 DEF OwnJob, Going
<1>2. ASSUME NEW r \in Runs, EndRun(r) \/ RunDies(r) \/ SaveDies(r) PROVE OwnJob'
  <2>1. run[r].phase = "going" /\ Finished(r)
    BY <1>2 DEF EndRun, RunDies, SaveDies
  <2>2. Going' = Going \ {r} /\ \A g \in Runs \ {r} : run'[g] = run[g]
    BY <2>1, RunOver
  <2> QED
    BY <2>2 DEF OwnJob, Going
<1>3. CASE UNCHANGED run
  BY <1>3 DEF OwnJob, Going
<1> QED
  BY <1>1, <1>2, <1>3 DEF Next, Add, Remove, RequestDies, vars

LEMMA FileStep == TypeInv /\ FileInv /\ [Next]_vars => FileInv'
<1> SUFFICES ASSUME Typed, FileInv, [Next]_vars, ~torn'
             PROVE  Tells(file)' /\ \A g \in Going' : Tells(run[g].store)'
  BY OwnJobStep DEF FileInv, TypeInv
<1> DEFINE Goal == Tells(file)' /\ \A g \in Going' : Tells(run[g].store)'
<1>1. ASSUME NEW j \in Jobs, Add(j) \/ Remove(j) PROVE Goal
  <2>1. /\ ~torn /\ UNCHANGED run /\ Going' = Going
        /\ exposed \subseteq exposed' /\ (Going # {} => j \in exposed')
        /\ \A k \in Jobs \ {j} : file'[k] = file[k] /\ answer'[k] = answer[k]
        /\ file'[j] # "absent" <=> answer'[j] = "added"
    BY <1>1 DEF Add, Remove, Going, Typed, Stores
  <2>2. Tells(file) /\ \A g \in Going : Tells(run[g].store)
    BY <2>1 DEF FileInv
  <2> QED
    BY <2>1, <2>2 DEF Tells
<1>2. ASSUME NEW r \in Runs, NEW j \in Jobs, NEW force \in BOOLEAN, StartRun(r, j, force)
      PROVE  Goal
  <2>1. /\ Going' = Going \union {r}
        /\ \A g \in Runs \ {r} : run'[g] = run[g]
        /\ run'[r] = [phase |-> "going", job |-> j, force |-> force, store |-> file]
    BY <1>2, RunBegun
  <2>2. run'[r].store = file
    BY <2>1
  <2>3. UNCHANGED <<file, answer, exposed, torn>>
    BY <1>2 DEF StartRun
  <2> QED
    BY <2>1, <2>2, <2>3 DEF FileInv, Tells, Going
<1>3. ASSUME NEW r \in Runs, EndRun(r) \/ RunDies(r) PROVE Goal
  <2>1. /\ run[r].phase = "going" /\ Finished(r) /\ r \in Going
        /\ UNCHANGED <<answer, exposed, torn>>
        /\ file' = Executed(r) \/ file' = file
    BY <1>3 DEF EndRun, RunDies, Going
  <2>2. /\ \A g \in Runs \ {r} : run'[g] = run[g]
        /\ Going' = Going \ {r} /\ run[r].job \in Jobs
    BY <2>1, RunOver
  <2>3. Tells(file) /\ \A g \in Going : Tells(run[g].store)
    BY <2>1 DEF FileInv
  <2>4. \A j \in Jobs : Executed(r)[j] # "absent" <=> run[r].store[j] # "absent"
    <3>1. run[r].store[run[r].job] # "absent"
      BY <2>1 DEF FileInv, OwnJob
    <3> QED
      BY <2>2, <3>1, ExecutedTyped
  <2> QED
    BY <2>1, <2>2, <2>3, <2>4 DEF Tells, Going
<1>4. ASSUME NEW r \in Runs, SaveDies(r) PROVE Goal
  BY <1>4 DEF SaveDies
<1>5. CASE RequestDies
  BY <1>5 DEF RequestDies
<1>6. CASE UNCHANGED vars
  BY <1>6 DEF vars, FileInv, Tells, Going
<1> QED
  BY <1>1, <1>2, <1>3, <1>4, <1>5, <1>6 DEF Next

(***************************************************************************)
(* The job file has the jobs the answers promise, but for those added or   *)
(* removed while a run was going on (run_job keeps the store it loaded     *)
(* over the whole run and writes it back), for any jobs and runs.          *)
(***************************************************************************)
THEOREM FileIsAsAnswered == Spec => []FileAsAnswered
<1>1. FileInv => FileAsAnswered
  BY DEF FileInv, FileAsAnswered, Tells
<1> QED
  BY <1>1, TypeInit, TypeStep, FileInit, FileStep, PTL DEF Spec

(***************************************************************************)
(* A one-shot job that no run overlapped is not enabled any more once it   *)
(* has been run: not in the file, and not in the store of any going run,   *)
(* since a run that had loaded it before would overlap.                    *)
(***************************************************************************)
KnownJobs ==
    \A j \in Jobs : /\ file[j] # "absent" => answer[j] # "unknown"
                    /\ \A r \in Going : run[r].store[j] # "absent" => answer[j] # "unknown"

Alone == \A j \in OneShot \ raced : \A r \in Going :
            run[r].job = j => Going = {r} /\ (run[r].force \/ unforced[j] = 0)

Spent == \A j \in OneShot \ raced : unforced[j] # 0 =>
            /\ unforced[j] = 1
            /\ answer[j] # "unknown"
            /\ file[j] # "enabled"
            /\ \A r \in Going : run[r].store[j] # "enabled"

OnceInv == KnownJobs /\ Alone /\ Spent

LEMMA OnceInit == Init => OnceInv
BY ConstantsAssumption DEF Init, OnceInv, KnownJobs, Alone, Spent, NoJobs, Going, Idle

LEMMA OnceStep == TypeInv /\ FileInv /\ OnceInv /\ [Next]_vars => OnceInv'
<1> SUFFICES ASSUME Typed, OwnJob, OnceInv, [Next]_vars PROVE OnceInv'
  BY DEF TypeInv, FileInv
<1>1. ASSUME NEW j \in Jobs, Add(j) \/ Remove(j) PROVE OnceInv'
  <2>1. /\ UNCHANGED <<run, unforced, raced>> /\ Going' = Going
        /\ \A k \in Jobs \ {j} : file'[k] = file[k] /\ answer'[k] = answer[k]
        /\ answer'[j] # "unknown"
        /\ answer[j] = "unknown" \/ file'[j] = "absent"
    BY <1>1 DEF Add, Remove, Going, Typed, Stores
  <2>2. KnownJobs' /\ Alone'
    BY <2>1 DEF OnceInv, KnownJobs, Alone, Going
  <2>3. Spent'
    BY <2>1, ConstantsAssumption DEF OnceInv, Spent, Going
  <2> QED
    BY <2>2, <2>3 DEF OnceInv
<1>2. ASSUME NEW r \in Runs, NEW j \in Jobs, NEW force \in BOOLEAN, StartRun(r, j, force)
      PROVE  OnceInv'
  <2>1. /\ Going' = Going \union {r}
        /\ \A g \in Runs \ {r} : run'[g] = run[g]
        /\ run'[r] = [phase |-> "going", job |-> j, force |-> force, store |-> file]
    BY <1>2, RunBegun
  <2>2. run'[r].store = file /\ run'[r].job = j /\ run'[r].force = force
    BY <2>1
  <2>3. /\ UNCHANGED <<file, answer, unforced>>
        /\ run[r].phase = "idle"
        /\ force \/ file[j] = "enabled"
        /\ raced' = IF Going = {} THEN raced
                    ELSE raced \union {j} \union {run[g].job : g \in Going}
    BY <1>2 DEF StartRun, MayRun
  <2>4. r \notin Going /\ \A g \in Going : g \in Runs \ {r} /\ run'[g] = run[g]
    BY <2>1, <2>3 DEF Going
  <2>5. KnownJobs'
    BY <2>1, <2>2, <2>3, <2>4 DEF OnceInv, KnownJobs
  <2>6. Spent'
    BY <2>1, <2>2, <2>3, <2>4 DEF OnceInv, Spent
  <2>7. Alone'
    <3>1. CASE Going = {}
      <4>1. j \in OneShot \ raced => force \/ unforced[j] = 0
        BY <2>3 DEF OnceInv, Spent
      <4> QED
        BY <2>1, <2>2, <2>3, <3>1, <4>1 DEF Alone
    <3>2. CASE Going # {}
      <4>1. \A g \in Going' : run'[g].job \in raced'
        BY <2>1, <2>2, <2>3, <2>4, <3>2
      <4> QED
        BY <4>1 DEF Alone
    <3> QED
      BY <3>1, <3>2
  <2> QED
    BY <2>5, <2>6, <2>7 DEF OnceInv
<1>3. ASSUME NEW r \in Runs, EndRun(r) PROVE OnceInv'
  <2> DEFINE k == run[r].job
  <2>1. /\ run[r].phase = "going" /\ Finished(r) /\ r \in Going
        /\ UNCHANGED <<answer, raced>>
        /\ file' = Executed(r)
        /\ unforced' = IF run[r].force THEN unforced ELSE [unforced EXCEPT ![k] = @ + 1]
    BY <1>3 DEF EndRun, Going
  <2>2. /\ k \in Jobs /\ Going' = Going \ {r}
        /\ \A g \in Going' : run'[g] = run[g]
    BY <2>1, RunOver DEF Going
  <2>3. /\ \A j \in Jobs \ {k} : Executed(r)[j] = run[r].store[j]
        /\ Executed(r)[k] = IF k \in OneShot THEN "disabled" ELSE run[r].store[k]
    BY <2>2, ExecutedTyped
  <2>4. \A j \in Jobs \ {k} : unforced'[j] = unforced[j]
    BY <2>1 DEF Typed
  <2>5. run[r].store[k] # "absent" /\ answer[k] # "unknown"
    BY <2>1, <2>2 DEF OwnJob, OnceInv, KnownJobs
  <2>6. k \in OneShot \ raced => Going' = {} /\ unforced'[k] \in {0, 1}
    <3>1. SUFFICES ASSUME k \in OneShot \ raced PROVE Going' = {} /\ unforced'[k] \in {0, 1}
      OBVIOUS
    <3>2. Going = {r} /\ (run[r].force \/ unforced[k] = 0)
      BY <2>1, <3>1 DEF OnceInv, Alone
    <3>3. unforced[k] \in {0, 1}
      BY <3>1 DEF OnceInv, Spent
    <3> QED
      BY <2>1, <2>2, <3>2, <3>3 DEF Typed
  <2> HIDE DEF k
  <2>7. KnownJobs'
    BY <2>1, <2>2, <2>3, <2>5 DEF OnceInv, KnownJobs
  <2>8. Alone'
    BY <2>1, <2>2, <2>4, <2>6, ConstantsAssumption DEF OnceInv, Alone
  <2>9. Spent'
    BY <2>1, <2>2, <2>3, <2>4, <2>5, <2>6, ConstantsAssumption DEF OnceInv, Spent
  <2> QED
    BY <2>7, <2>8, <2>9 DEF OnceInv
<1>4. ASSUME NEW r \in Runs, RunDies(r) \/ SaveDies(r) PROVE OnceInv'
  <2>1. /\ run[r].phase = "going" /\ Finished(r)
        /\ UNCHANGED <<answer, raced, unforced>>
        /\ file' = file \/ file' = NoJobs
    BY <1>4 DEF RunDies, SaveDies
  <2>2. Going' = Going \ {r} /\ \A g \in Going' : run'[g] = run[g]
    BY <2>1, RunOver DEF Going
  <2> QED
    BY <2>1, <2>2, ConstantsAssumption DEF OnceInv, KnownJobs, Alone, Spent, NoJobs
<1>5. CASE RequestDies
  BY <1>5, ConstantsAssumption DEF RequestDies, OnceInv, KnownJobs, Alone, Spent, NoJobs, Going
<1>6. CASE UNCHANGED vars
  BY <1>6 DEF vars, OnceInv, KnownJobs, Alone, Spent, Going
<1> QED
  BY <1>1, <1>2, <1>3, <1>4, <1>5, <1>6 DEF Next

(***************************************************************************)
(* A one-shot job whose runs overlap no other run is run to its end once   *)
(* without force (_execute_job disables it in the store that is saved, and *)
(* run_job refuses it then), crashes and torn files included.              *)
(***************************************************************************)
THEOREM OneShotsRunOnce == Spec => []OneShotOnce
<1>1. TypeInv /\ OnceInv => OneShotOnce
  BY ConstantsAssumption DEF OnceInv, Spent, OneShotOnce, TypeInv, Typed
<1> QED
  BY <1>1, TypeInit, TypeStep, FileInit, FileStep, OnceInit, OnceStep, PTL DEF Spec
=============================================================================
