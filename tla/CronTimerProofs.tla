--------------------------- MODULE CronTimerProofs ---------------------------
(***************************************************************************)
(* Proofs about CronTimer for any jobs and any number of requests.         *)
(***************************************************************************)
EXTENDS CronTimer, TLAPS

\* What a new or cancelled timer task leaves, whoever arms it.
LEMMA Armed ==
    ASSUME TypeOK, Arm, running' \in BOOLEAN
    PROVE  /\ timer' \in {"none", "sleep"}
           /\ current' = NoJob /\ left' = {}
           /\ wakeFor' \subseteq Jobs
           /\ running' => wakeFor' = Waiting' /\ (Waiting' # {} => timer' = "sleep")
           /\ ~running' => timer' = "none"
           /\ cut' = OneMore(cut, current)
BY DEF Arm, Waiting

LEMMA Counted ==
    ASSUME NEW count \in [Jobs -> Nat], NEW j
    PROVE  /\ OneMore(count, j) \in [Jobs -> Nat]
           /\ \A i \in Jobs : /\ OneMore(count, j)[i] >= count[i]
                              /\ i = j /\ j \in OneShot => OneMore(count, j)[i] = count[i] + 1
                              /\ i # j => OneMore(count, j)[i] = count[i]
BY DEF OneMore

\* An execution that is over changes its own job only, disables an "at" job,
\* and adds no job.
LEMMA Recording ==
    ASSUME TypeOK, NEW j \in Jobs, Record(j)
    PROVE  /\ job' \in [Jobs -> {"new", "enabled", "disabled", "gone"}]
           /\ next' \in [Jobs -> {"none", "later", "now"}]
           /\ fate' \in [Jobs -> {"open", "ended", "restarted"}]
           /\ \A i \in Jobs \ {j} : job'[i] = job[i] /\ next'[i] = next[i]
           /\ j \in OneShot => job'[j] # "enabled"
           /\ job'[j] = "new" <=> job[j] = "new"
           /\ job'[j] = "enabled" => job[j] = "enabled"
<1>1. CASE InStore(j)
  BY <1>1 DEF Record, InStore, TypeOK
<1>2. CASE ~InStore(j)
  BY <1>2 DEF Record, InStore, TypeOK
<1> QED
  BY <1>1, <1>2

\* The types of the service, its task and its requests.
THEOREM TypeCorrect == Spec => []TypeOK
<1> USE ConstantsAssumption
<1>1. Init => TypeOK
  <2> SUFFICES ASSUME Init PROVE TypeOK
    OBVIOUS
  <2>1. requests \in 0..MaxRequests
    BY DEF Init
  <2>2. begun \in [Jobs -> Nat] /\ cut \in [Jobs -> Nat]
    BY DEF Init
  <2>3. timer = "work" <=> current # NoJob
    BY DEF Init
  <2> QED
    BY <2>1, <2>2, <2>3 DEF Init, TypeOK
<1>2. TypeOK /\ [Next]_vars => TypeOK'
  <2> SUFFICES ASSUME TypeOK, [Next]_vars PROVE TypeOK'
    OBVIOUS
  <2>0. Request => requests' \in 0..MaxRequests
    BY DEF Request, TypeOK
  <2>1. ASSUME Arm, running' \in BOOLEAN,
               job' \in [Jobs -> {"new", "enabled", "disabled", "gone"}],
               next' \in [Jobs -> {"none", "later", "now"}],
               fate' \in [Jobs -> {"open", "ended", "restarted"}],
               hand' \in [Hands -> Jobs \union {NoJob}],
               requests' \in 0..MaxRequests,
               UNCHANGED <<begun, excused>>
        PROVE  TypeOK'
    <3>1. cut' \in [Jobs -> Nat]
      BY <2>1, Armed, Counted DEF TypeOK
    <3> QED
      BY <2>1, <3>1, Armed DEF TypeOK
  <2>2. CASE Start
    <3>1. [j \in Jobs |-> Recomputed(j)] \in [Jobs -> {"none", "later", "now"}]
      BY DEF Recomputed, TypeOK
    <3>2. fate' \in [Jobs -> {"open", "ended", "restarted"}]
      BY <2>2 DEF Start, TypeOK
    <3> QED
      BY <2>0, <2>1, <2>2, <3>1, <3>2 DEF Start, TypeOK
  <2>3. CASE Stop
    <3>1. OneMore(cut, current) \in [Jobs -> Nat]
      BY Counted DEF TypeOK
    <3> QED
      BY <2>0, <2>3, <3>1 DEF Stop, TypeOK
  <2>4. ASSUME NEW j \in Jobs, Add(j) PROVE TypeOK'
    BY <2>0, <2>1, <2>4 DEF Add, TypeOK
  <2>5. ASSUME NEW j \in Jobs, Remove(j) PROVE TypeOK'
    BY <2>0, <2>1, <2>5 DEF Remove, TypeOK
  <2>6. ASSUME NEW j \in Jobs, TimePasses(j) PROVE TypeOK'
    BY <2>6 DEF TimePasses, TypeOK, task, ghost
  <2>7. ASSUME NEW h \in Hands, NEW j \in Jobs, NEW force \in BOOLEAN, RunByHand(h, j, force)
        PROVE  TypeOK'
    <3>1. begun' \in [Jobs -> Nat]
      BY <2>7, Counted DEF RunByHand, TypeOK
    <3>2. excused' \subseteq Jobs
      BY <2>7 DEF RunByHand, TypeOK
    <3> QED
      BY <2>0, <2>7, <3>1, <3>2 DEF RunByHand, TypeOK, task
  <2>8. ASSUME NEW h \in Hands, HandDone(h) PROVE TypeOK'
    <3>1. hand[h] \in Jobs
      BY <2>8 DEF HandDone, TypeOK
    <3> QED
      BY <2>1, <2>8, <3>1, Recording DEF HandDone, TypeOK
  <2>9. ASSUME NEW j \in Jobs, NEW rest \in SUBSET Jobs, Begin(j, rest)
        PROVE  /\ timer' = "work" /\ current' = j /\ j # NoJob /\ left' \subseteq Jobs
               /\ begun' \in [Jobs -> Nat] /\ excused' \subseteq Jobs
    BY <2>9, Counted DEF Begin, TypeOK
  <2>10. CASE Fire
    <3>1. PICK j \in Due : Begin(j, Due \ {j})
      BY <2>10 DEF Fire
    <3>2. j \in Jobs /\ Due \ {j} \in SUBSET Jobs
      BY DEF Due, Waiting
    <3> QED
      BY <2>9, <2>10, <3>1, <3>2 DEF Fire, TypeOK
  <2>11. CASE TimerNextJob
    <3>1. PICK j \in left : Begin(j, left \ {j})
      BY <2>11 DEF TimerNextJob
    <3>2. j \in Jobs /\ left \ {j} \in SUBSET Jobs /\ current \in Jobs
      BY <2>11 DEF TimerNextJob, TypeOK
    <3> QED
      BY <2>9, <2>11, <3>1, <3>2, Recording DEF TimerNextJob, TypeOK
  <2>12. CASE TimerDone
    <3>1. current \in Jobs
      BY <2>12 DEF TimerDone, TypeOK
    <3>2. wakeFor' \subseteq Jobs
      BY <2>12 DEF TimerDone, Waiting
    <3> QED
      BY <2>12, <3>1, <3>2, Recording DEF TimerDone, TypeOK, ghost
  <2>13. CASE UNCHANGED vars
    BY <2>13 DEF vars, TypeOK
  <2> QED
    BY <2>2, <2>3, <2>4, <2>5, <2>6, <2>7, <2>8, <2>10, <2>11, <2>12, <2>13 DEF Next
<1> QED
  BY <1>1, <1>2, PTL DEF Spec

(***************************************************************************)
(* The timer.  The list of due jobs does not have the one being executed.  *)
(***************************************************************************)
TimerInv ==
    /\ NoJobForgotten
    /\ ExecutesOnlyDue
    /\ StoppedIsQuiet
    /\ current \notin left

LEMMA TimerInvInit == Init => TimerInv
BY ConstantsAssumption
   DEF Init, TimerInv, NoJobForgotten, ExecutesOnlyDue, StoppedIsQuiet, Waiting

LEMMA ArmedInv == ASSUME TypeOK, Arm, running' \in BOOLEAN PROVE TimerInv'
BY Armed DEF TimerInv, NoJobForgotten, ExecutesOnlyDue, StoppedIsQuiet

LEMMA TimerInvStep == TypeOK /\ TimerInv /\ [Next]_vars => TimerInv'
<1> SUFFICES ASSUME TypeOK, TimerInv, [Next]_vars PROVE TimerInv'
  OBVIOUS
<1> USE ConstantsAssumption
<1>1. CASE Start
  BY <1>1, ArmedInv DEF Start
<1>2. CASE Stop
  BY <1>2 DEF Stop, TimerInv, NoJobForgotten, ExecutesOnlyDue, StoppedIsQuiet
<1>3. ASSUME NEW j \in Jobs, Add(j) PROVE TimerInv'
  BY <1>3, ArmedInv DEF Add, TypeOK
<1>4. ASSUME NEW j \in Jobs, Remove(j) PROVE TimerInv'
  BY <1>4, ArmedInv DEF Remove, TypeOK
<1>5. ASSUME NEW j \in Jobs, TimePasses(j) PROVE TimerInv'
  <2>1. Waiting' = Waiting /\ Due \subseteq Due'
    BY <1>5 DEF TimePasses, Waiting, Due, TypeOK
  <2> QED
    BY <1>5, <2>1
       DEF TimePasses, task, TimerInv, NoJobForgotten, ExecutesOnlyDue, StoppedIsQuiet
<1>6. ASSUME NEW h \in Hands, NEW j \in Jobs, NEW force \in BOOLEAN, RunByHand(h, j, force)
      PROVE  TimerInv'
  BY <1>6 DEF RunByHand, task, TimerInv, NoJobForgotten, ExecutesOnlyDue, StoppedIsQuiet,
              Waiting, Due
<1>7. ASSUME NEW h \in Hands, HandDone(h) PROVE TimerInv'
  BY <1>7, ArmedInv DEF HandDone, TypeOK
<1>8. CASE Fire
  BY <1>8 DEF Fire, Begin, TimerInv, NoJobForgotten, ExecutesOnlyDue, StoppedIsQuiet,
              Waiting, Due
<1>9. CASE TimerNextJob
  <2>1. current \in Jobs /\ running /\ left \subseteq Due
    BY <1>9 DEF TimerNextJob, TypeOK, TimerInv, StoppedIsQuiet, ExecutesOnlyDue
  <2>2. \A i \in Jobs \ {current} : job'[i] = job[i] /\ next'[i] = next[i]
    BY <1>9, <2>1, Recording DEF TimerNextJob
  <2>3. left \subseteq Due'
    BY <2>1, <2>2 DEF Due, Waiting, TimerInv
  <2>4. PICK j \in left : Begin(j, left \ {j})
    BY <1>9 DEF TimerNextJob
  <2>5. timer' = "work" /\ current' = j /\ left' = left \ {j} /\ running' = running
    BY <1>9, <2>4 DEF Begin, TimerNextJob
  <2> QED
    BY <2>1, <2>3, <2>5 DEF TimerInv, NoJobForgotten, ExecutesOnlyDue, StoppedIsQuiet
<1>10. CASE TimerDone
  BY <1>10 DEF TimerDone, TimerInv, NoJobForgotten, ExecutesOnlyDue, StoppedIsQuiet
<1>11. CASE UNCHANGED vars
  BY <1>11 DEF vars, TimerInv, NoJobForgotten, ExecutesOnlyDue, StoppedIsQuiet, Waiting, Due
<1> QED
  BY <1>1, <1>2, <1>3, <1>4, <1>5, <1>6, <1>7, <1>8, <1>9, <1>10, <1>11 DEF Next

LEMMA TimerInvHolds == Spec => []TimerInv
BY TimerInvInit, TimerInvStep, TypeCorrect, PTL DEF Spec

\* Whatever requests reach a running service, its timer sleeps for every job
\* that waits.
THEOREM EveryJobAwaited == Spec => []NoJobForgotten
<1>1. TimerInv => NoJobForgotten
  BY DEF TimerInv
<1> QED
  BY <1>1, TimerInvHolds, PTL

\* The list of due jobs, made before jobs were executed, is never stale.
THEOREM OnlyDueExecuted == Spec => []ExecutesOnlyDue
<1>1. TimerInv => ExecutesOnlyDue
  BY DEF TimerInv
<1> QED
  BY <1>1, TimerInvHolds, PTL

\* A stopped service has no timer, although runs by hand end after the stop.
THEOREM QuietWhenStopped == Spec => []StoppedIsQuiet
<1>1. TimerInv => StoppedIsQuiet
  BY DEF TimerInv
<1> QED
  BY <1>1, TimerInvHolds, PTL

(***************************************************************************)
(* One-shot jobs.  An "at" job that could still begin (it is enabled and   *)
(* nobody executes it) has begun as often as it was cancelled.             *)
(***************************************************************************)
Spent(j) ==
    /\ begun[j] <= 1 + cut[j]
    /\ job[j] \in {"new", "enabled"} /\ j \notin Executing => begun[j] <= cut[j]
    /\ job[j] = "new" => j \notin Executing
    /\ \A h, g \in Hands : hand[h] = j => current # j /\ (hand[g] = j => h = g)

OneShotInv == \A j \in OneShot \ excused : Spent(j)

LEMMA OneShotInvInit == Init => OneShotInv
BY ConstantsAssumption DEF Init, OneShotInv, Spent, Executing

\* A job nobody begins in a step in which the timer task is cancelled.
LEMMA SpentWhenArmed ==
    ASSUME TypeOK, NEW j \in OneShot, Spent(j),
           current' = NoJob, cut' = OneMore(cut, current), begun' = begun,
           \A h \in Hands : hand'[h] = hand[h] \/ hand'[h] = NoJob,
           job'[j] = "new" => job[j] = "new",
           job'[j] \in {"new", "enabled"} =>
               /\ job[j] \in {"new", "enabled"}
               /\ \A h \in Hands : hand[h] = j => hand'[h] = j
    PROVE  Spent(j)'
<1>1. j \in Jobs /\ j # NoJob /\ begun[j] \in Nat /\ cut[j] \in Nat
  BY ConstantsAssumption DEF TypeOK
<1>2. CASE current = j
  <2>1. cut'[j] = cut[j] + 1
    BY <1>1, <1>2, Counted DEF TypeOK
  <2> QED
    BY <1>1, <1>2, <2>1 DEF Spent, Executing
<1>3. CASE current # j
  <2>1. cut'[j] = cut[j]
    BY <1>1, <1>3, Counted DEF TypeOK
  <2> QED
    BY <1>1, <1>3, <2>1 DEF Spent, Executing
<1> QED
  BY <1>2, <1>3

\* A job that begins is one that nobody executes.
LEMMA SpentWhenBegun ==
    ASSUME TypeOK, NEW j \in OneShot, Spent(j), j \notin Executing,
           job[j] = "enabled", job'[j] = "enabled",
           begun' = OneMore(begun, j), cut' = cut,
           j \in Executing',
           \A h, g \in Hands : hand'[h] = j => current' # j /\ (hand'[g] = j => h = g)
    PROVE  Spent(j)'
<1>1. j \in Jobs /\ begun[j] \in Nat /\ cut[j] \in Nat
  BY ConstantsAssumption DEF TypeOK
<1>2. begun'[j] = begun[j] + 1 /\ begun[j] <= cut[j]
  BY <1>1, Counted DEF TypeOK, Spent
<1> QED
  BY <1>1, <1>2 DEF Spent

LEMMA OneShotInvStep == TypeOK /\ TimerInv /\ OneShotInv /\ [Next]_vars => OneShotInv'
<1> SUFFICES ASSUME TypeOK, TimerInv, OneShotInv, [Next]_vars,
                    NEW j \in OneShot, j \notin excused'
             PROVE  Spent(j)'
  BY DEF OneShotInv
<1>0. j \in Jobs /\ j # NoJob
  BY ConstantsAssumption
<1>1. CASE Start
  BY <1>0, <1>1, SpentWhenArmed DEF Start, Arm, OneShotInv
<1>2. CASE Stop
  BY <1>0, <1>2, SpentWhenArmed DEF Stop, OneShotInv
<1>3. ASSUME NEW i \in Jobs, Add(i) PROVE Spent(j)'
  <2>1. (job'[j] = "new" => job[j] = "new") /\ (job'[j] = "enabled" => job[j] \in {"new", "enabled"})
    BY <1>0, <1>3 DEF Add, TypeOK
  <2> QED
    BY <1>0, <1>3, <2>1, SpentWhenArmed DEF Add, Arm, OneShotInv
<1>4. ASSUME NEW i \in Jobs, Remove(i) PROVE Spent(j)'
  <2>1. job'[j] \in {"new", "enabled"} => job'[j] = job[j]
    BY <1>0, <1>4 DEF Remove, TypeOK
  <2> QED
    BY <1>0, <1>4, <2>1, SpentWhenArmed DEF Remove, Arm, OneShotInv
<1>5. ASSUME NEW i \in Jobs, TimePasses(i) PROVE Spent(j)'
  BY <1>5 DEF TimePasses, task, ghost, OneShotInv, Spent, Executing
<1>6. ASSUME NEW h \in Hands, NEW i \in Jobs, NEW force \in BOOLEAN, RunByHand(h, i, force)
      PROVE  Spent(j)'
  <2>1. Spent(j) /\ job' = job /\ cut' = cut /\ current' = current
    BY <1>6 DEF RunByHand, task, OneShotInv
  <2>2. \A g \in Hands : hand'[g] = IF g = h THEN i ELSE hand[g]
    BY <1>6 DEF RunByHand, TypeOK
  <2>3. CASE i = j
    <3>1. j \notin Executing /\ job[j] = "enabled"
      BY <1>6, <2>3 DEF RunByHand
    <3>2. current # j /\ \A g \in Hands : hand[g] # j
      BY <3>1 DEF Executing
    <3>3. j \in Executing'
      BY <2>2, <2>3 DEF Executing
    <3>4. begun' = OneMore(begun, j)
      BY <1>6, <2>3 DEF RunByHand
    <3> QED
      BY <2>1, <2>2, <3>1, <3>2, <3>3, <3>4, SpentWhenBegun
  <2>4. CASE i # j
    <3>1. begun'[j] = begun[j]
      BY <1>0, <1>6, <2>4, Counted DEF RunByHand, TypeOK
    <3>2. \A g \in Hands : hand'[g] = j <=> hand[g] = j
      BY <1>0, <1>6, <2>2, <2>4 DEF RunByHand
    <3>3. j \in Executing' <=> j \in Executing
      BY <2>1, <3>2 DEF Executing
    <3> QED
      BY <2>1, <3>1, <3>2, <3>3 DEF Spent
  <2> QED
    BY <2>3, <2>4
<1>7. ASSUME NEW h \in Hands, HandDone(h) PROVE Spent(j)'
  <2>1. Spent(j)
    BY <1>7 DEF HandDone, OneShotInv
  <2>2. hand[h] \in Jobs /\ Record(hand[h])
    BY <1>7 DEF HandDone, TypeOK
  <2>3. \A g \in Hands : hand'[g] = IF g = h THEN NoJob ELSE hand[g]
    BY <1>7 DEF HandDone, TypeOK
  <2>4. CASE hand[h] = j
    <3>1. job[j] # "new"
      BY <2>1, <2>4 DEF Spent, Executing
    <3>2. job'[j] \notin {"new", "enabled"}
      BY <2>2, <2>4, <3>1, Recording
    <3> QED
      BY <1>7, <2>1, <2>3, <3>2, SpentWhenArmed DEF HandDone, Arm
  <2>5. CASE hand[h] # j
    <3>1. job'[j] = job[j]
      BY <1>0, <2>2, <2>5, Recording
    <3> QED
      BY <1>7, <2>1, <2>3, <2>5, <3>1, SpentWhenArmed DEF HandDone, Arm
  <2> QED
    BY <2>4, <2>5
<1>8. ASSUME NEW i \in Jobs, Begin(i, left'), i # j, cut' = cut, hand' = hand,
             job'[j] = job[j], current # j, Spent(j)
      PROVE  Spent(j)'
  <2>1. begun'[j] = begun[j]
    BY <1>0, <1>8, Counted DEF Begin, TypeOK
  <2>2. current' = i
    BY <1>8 DEF Begin
  <2>3. j \in Executing' <=> j \in Executing
    BY <1>8, <2>2 DEF Executing
  <2> QED
    BY <1>8, <2>1, <2>2, <2>3 DEF Spent
<1>9. ASSUME Begin(j, left'), cut' = cut, hand' = hand, job[j] = "enabled",
             job'[j] = "enabled", current # j, Spent(j)
      PROVE  Spent(j)'
  <2>1. current' = j /\ begun' = OneMore(begun, j) /\ \A h \in Hands : hand[h] # j
    BY <1>9 DEF Begin
  <2>2. j \notin Executing /\ j \in Executing'
    BY <1>9, <2>1 DEF Executing
  <2> QED
    BY <1>9, <2>1, <2>2, SpentWhenBegun
<1>10. CASE Fire
  <2>1. PICK i \in Due : Begin(i, Due \ {i})
    BY <1>10 DEF Fire
  <2>2. Begin(i, left') /\ i \in Jobs /\ job[i] = "enabled"
    BY <2>1 DEF Begin, Due, Waiting
  <2>3. current = NoJob /\ Spent(j)
    BY <1>10, <2>1 DEF Fire, TypeOK, Begin, OneShotInv
  <2> QED
    BY <1>0, <1>8, <1>9, <1>10, <2>2, <2>3 DEF Fire
<1>11. CASE TimerNextJob
  <2>1. PICK i \in left : Begin(i, left \ {i})
    BY <1>11 DEF TimerNextJob
  <2>2. Begin(i, left') /\ i \in Jobs /\ job[i] = "enabled" /\ i # current
    BY <1>11, <2>1
       DEF TimerNextJob, TimerInv, ExecutesOnlyDue, Begin, Due, Waiting
  <2>3. current \in Jobs /\ Record(current) /\ cut' = cut /\ hand' = hand /\ Spent(j)
    BY <1>11, <2>1 DEF TimerNextJob, TypeOK, Begin, OneShotInv
  <2>4. CASE current = j
    <3>1. job[j] # "new"
      BY <2>3, <2>4 DEF Spent, Executing
    <3>2. job'[j] \notin {"new", "enabled"}
      BY <2>3, <2>4, <3>1, Recording
    <3>3. begun'[j] = begun[j] /\ current' = i
      BY <1>0, <2>2, <2>4, Counted DEF Begin, TypeOK
    <3> QED
      BY <2>2, <2>3, <2>4, <3>2, <3>3 DEF Spent
  <2>5. CASE current # j
    <3>1. job'[j] = job[j]
      BY <1>0, <2>3, <2>5, Recording
    <3> QED
      BY <1>8, <1>9, <2>2, <2>3, <2>5, <3>1
  <2> QED
    BY <2>4, <2>5
<1>12. CASE TimerDone
  <2>1. current \in Jobs /\ Record(current) /\ Spent(j)
    BY <1>12 DEF TimerDone, TypeOK, ghost, OneShotInv
  <2>2. current' = NoJob /\ cut' = cut /\ begun' = begun /\ hand' = hand
    BY <1>12 DEF TimerDone, ghost
  <2>3. CASE current = j
    <3>1. job[j] # "new"
      BY <2>1, <2>3 DEF Spent, Executing
    <3>2. job'[j] \notin {"new", "enabled"}
      BY <2>1, <2>3, <3>1, Recording
    <3> QED
      BY <1>0, <2>1, <2>2, <3>2 DEF Spent
  <2>4. CASE current # j
    <3>1. job'[j] = job[j]
      BY <1>0, <2>1, <2>4, Recording
    <3>2. j \in Executing' <=> j \in Executing
      BY <1>0, <2>2, <2>4 DEF Executing
    <3> QED
      BY <1>0, <2>1, <2>2, <3>1, <3>2 DEF Spent
  <2> QED
    BY <2>3, <2>4
<1>13. CASE UNCHANGED vars
  BY <1>13 DEF vars, OneShotInv, Spent, Executing
<1> QED
  BY <1>1, <1>2, <1>3, <1>4, <1>5, <1>6, <1>7, <1>10, <1>11, <1>12, <1>13 DEF Next

\* Every repetition of an "at" job is explained by a cancellation, a run with
\* force, or two executions at once.
THEOREM OneShotsBegunOnce == Spec => []OneShotBegunOnce
<1>1. OneShotInv => OneShotBegunOnce
  BY DEF OneShotInv, Spent, OneShotBegunOnce
<1> QED
  BY <1>1, OneShotInvInit, OneShotInvStep, TimerInvHolds, TypeCorrect, PTL DEF Spec
=============================================================================
