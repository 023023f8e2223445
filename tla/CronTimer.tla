------------------------------ MODULE CronTimer ------------------------------
(***************************************************************************)
(* A CronService that has been started: its timer task, the jobs it runs,  *)
(* and the requests (add, remove, run by hand, start, stop) that reach it  *)
(* meanwhile.  Every request that changes the store ends in _arm_timer,    *)
(* which cancels the timer task whatever it is doing: sleeping, or in the  *)
(* middle of a job.                                                        *)
(*                                                                         *)
(* Nothing in the program starts the service (the requests of the API and  *)
(* the CLI, whose services live for one request, are in CronJobs), so this *)
(* module is about the class as it stands.  A step is the code between two *)
(* suspensions.  Time is only whether the moment a job waits for has come. *)
(***************************************************************************)
EXTENDS Integers, FiniteSets

CONSTANTS
    Jobs,          \* job ids
    OneShot,       \* the jobs with an "at" schedule; the others have "every"
    Transient,     \* the jobs with delete_after_run
    Hands,         \* requests to run a job by hand that may be going on at once
    MaxRequests,   \* bound: requests
    NoJob

ASSUME ConstantsAssumption ==
    /\ OneShot \subseteq Jobs /\ Transient \subseteq Jobs /\ NoJob \notin Jobs
    /\ MaxRequests \in Nat

VARIABLES
    running,       \* _running
    job,           \* each job: not yet added, enabled, disabled, or gone
    next,          \* next_run_at_ms of each job: none, later, or now (reached)
    timer,         \* the timer task: none, sleep or work
    wakeFor,       \* the jobs whose next run _arm_timer looked at
    current,       \* the job the timer task executes, or NoJob
    left,          \* due_jobs it has not come to
    hand,          \* the job each request executes by hand, or NoJob
    requests,      \* requests so far
    fate,          \* history: what became of the last moment each job waited for:
                   \* open, ended (an execution of the job has ended since), or
                   \* restarted (start() computed its next run while it was due)
    begun,         \* history: executions of each "at" job that were begun
    cut,           \* history: those the timer task was cancelled in
    excused        \* history: jobs run by hand with force, or twice at once

task   == <<timer, wakeFor, current, left>>
ghost  == <<begun, cut, excused>>
vars   == <<running, job, next, timer, wakeFor, current, left, hand, requests, fate,
            begun, cut, excused>>

TypeOK ==
    /\ running \in BOOLEAN
    /\ job \in [Jobs -> {"new", "enabled", "disabled", "gone"}]
    /\ next \in [Jobs -> {"none", "later", "now"}]
    /\ timer \in {"none", "sleep", "work"}
    /\ wakeFor \subseteq Jobs /\ left \subseteq Jobs
    /\ current \in Jobs \union {NoJob}
    /\ timer = "work" <=> current # NoJob
    /\ hand \in [Hands -> Jobs \union {NoJob}]
    /\ requests \in 0..MaxRequests
    /\ fate \in [Jobs -> {"open", "ended", "restarted"}]
    /\ begun \in [Jobs -> Nat] /\ cut \in [Jobs -> Nat] /\ excused \subseteq Jobs

Init ==
    /\ running = FALSE
    /\ job = [j \in Jobs |-> "new"]
    /\ next = [j \in Jobs |-> "none"]
    /\ timer = "none" /\ wakeFor = {} /\ current = NoJob /\ left = {}
    /\ hand = [h \in Hands |-> NoJob]
    /\ requests = 0
    /\ fate = [j \in Jobs |-> "open"]
    /\ begun = [j \in Jobs |-> 0] /\ cut = [j \in Jobs |-> 0] /\ excused = {}

InStore(j) == job[j] \in {"enabled", "disabled"}

\* count with one more execution of j, if j is an "at" job.
OneMore(count, j) == [i \in Jobs |-> IF i = j /\ j \in OneShot THEN count[i] + 1 ELSE count[i]]

Request ==
    /\ requests < MaxRequests
    /\ requests' = requests + 1

-----------------------------------------------------------------------------
(* _arm_timer. *)

\* The jobs _get_next_wake_ms looks at.
Waiting == {j \in Jobs : job[j] = "enabled" /\ next[j] # "none"}

\* Those whose moment has come.
Due == {j \in Waiting : next[j] = "now"}

\* Mutant: the service is not looked at, whether it runs.
ArmAlways ==
    /\ current' = NoJob /\ left' = {}
    /\ wakeFor' = Waiting'
    /\ timer' = IF Waiting' # {} THEN "sleep" ELSE "none"
    /\ cut' = OneMore(cut, current)

\* Mutant: a timer task that is there is left alone.
ArmOnce ==
    IF timer # "none" /\ running'
    THEN UNCHANGED <<timer, wakeFor, current, left, cut>>
    ELSE /\ current' = NoJob /\ left' = {}
         /\ wakeFor' = IF running' THEN Waiting' ELSE {}
         /\ timer' = IF running' /\ Waiting' # {} THEN "sleep" ELSE "none"
         /\ cut' = OneMore(cut, current)

\* Mutant: only a task that sleeps is cancelled and replaced.
ArmUnlessAtWork ==
    IF timer = "work" /\ running'
    THEN UNCHANGED <<timer, wakeFor, current, left, cut>>
    ELSE /\ current' = NoJob /\ left' = {}
         /\ wakeFor' = IF running' THEN Waiting' ELSE {}
         /\ timer' = IF running' /\ Waiting' # {} THEN "sleep" ELSE "none"
         /\ cut' = OneMore(cut, current)

\* The timer task is cancelled: the job it executes gets a CancelledError,
\* which _execute_job does not catch, so that nothing of the execution is
\* recorded and the due jobs after it are skipped.  Then a new task sleeps
\* until the earliest next run, which may be past.
Arm ==
    /\ current' = NoJob /\ left' = {}
    /\ wakeFor' = IF running' THEN Waiting' ELSE {}
    /\ timer' = IF running' /\ Waiting' # {} THEN "sleep" ELSE "none"
    /\ cut' = OneMore(cut, current)

-----------------------------------------------------------------------------
(* The requests. *)

\* _recompute_next_runs: an "at" that has passed has no next run any more (and a
\* start() of a service that runs takes it from a job that is due).
Recomputed(j) ==
    IF job[j] # "enabled" THEN next[j]
    ELSE IF j \notin OneShot THEN "later"
    ELSE IF next[j] = "later" THEN "later" ELSE "none"

Start ==
    /\ Request
    /\ running' = TRUE
    /\ next' = [j \in Jobs |-> Recomputed(j)]
    /\ fate' = [j \in Jobs |-> IF j \in Due THEN "restarted" ELSE fate[j]]
    /\ UNCHANGED <<job, hand, begun, excused>>
    /\ Arm

Stop ==
    /\ Request
    /\ running' = FALSE
    /\ timer' = "none" /\ wakeFor' = {} /\ current' = NoJob /\ left' = {}
    /\ cut' = OneMore(cut, current)
    /\ UNCHANGED <<job, next, hand, fate, begun, excused>>

\* add_job; an "at" may be past.
Add(j) ==
    /\ job[j] = "new" /\ Request
    /\ job' = [job EXCEPT ![j] = "enabled"]
    /\ \E n \in IF j \in OneShot THEN {"later", "none"} ELSE {"later"} :
          next' = [next EXCEPT ![j] = n]
    /\ UNCHANGED <<running, hand, fate, begun, excused>>
    /\ Arm

Remove(j) ==
    /\ InStore(j) /\ Request
    /\ job' = [job EXCEPT ![j] = "gone"]
    /\ next' = [next EXCEPT ![j] = "none"]
    /\ UNCHANGED <<running, hand, fate, begun, excused>>
    /\ Arm

\* The jobs that are being executed, by the timer task or by hand.
Executing == {hand[h] : h \in Hands} \union {current}

\* run_job up to the agent's work.
RunByHand(h, j, force) ==
    /\ hand[h] = NoJob /\ Request
    /\ InStore(j) /\ (force \/ job[j] = "enabled")
    /\ hand' = [hand EXCEPT ![h] = j]
    /\ begun' = OneMore(begun, j)
    /\ excused' = IF force \/ j \in Executing THEN excused \union {j} ELSE excused
    /\ UNCHANGED <<running, job, next, task, fate, cut>>

-----------------------------------------------------------------------------
(* The end of an execution. *)

\* Mutant: an "at" job keeps its flag and its next run.
RecordKeepsAt(j) ==
    /\ UNCHANGED job
    /\ next' = [next EXCEPT ![j] = IF InStore(j) /\ j \notin OneShot THEN "later" ELSE @]
    /\ fate' = [fate EXCEPT ![j] = IF InStore(j) THEN "ended" ELSE @]

\* What _execute_job does to the job when the work is done or has raised.  A
\* job that was removed meanwhile is no longer in the store.
Record(j) ==
    IF InStore(j)
    THEN /\ job' = [job EXCEPT ![j] = IF j \notin OneShot THEN @
                                      ELSE IF j \in Transient THEN "gone" ELSE "disabled"]
         /\ next' = [next EXCEPT ![j] = IF j \in OneShot THEN "none" ELSE "later"]
         /\ fate' = [fate EXCEPT ![j] = "ended"]
    ELSE UNCHANGED <<job, next, fate>>

HandDone(h) ==
    /\ hand[h] # NoJob
    /\ Record(hand[h])
    /\ hand' = [hand EXCEPT ![h] = NoJob]
    /\ UNCHANGED <<running, requests, begun, excused>>
    /\ Arm

-----------------------------------------------------------------------------
(* The timer task. *)

\* The moment a job waits for comes.
TimePasses(j) ==
    /\ next[j] = "later"
    /\ next' = [next EXCEPT ![j] = "now"]
    /\ fate' = [fate EXCEPT ![j] = "open"]
    /\ UNCHANGED <<running, job, task, hand, requests, ghost>>

\* _on_timer takes up one of the due jobs (in the order of the store).
Begin(j, rest) ==
    /\ timer' = "work" /\ current' = j /\ left' = rest
    /\ begun' = OneMore(begun, j)
    /\ excused' = IF \E h \in Hands : hand[h] = j THEN excused \union {j} ELSE excused

\* Mutant: of the jobs that are due at once one is executed, and the others are
\* put off to their next time.
FireFirst ==
    /\ timer = "sleep" /\ running
    /\ wakeFor \intersect Due # {}
    /\ \E j \in Due :
          /\ Begin(j, {})
          /\ next' = [i \in Jobs |-> IF i \in Due \ {j} THEN Recomputed(i) ELSE next[i]]
    /\ UNCHANGED <<running, job, wakeFor, hand, requests, fate, cut>>

\* The sleep is over; _running is looked at, and the due jobs listed.  (A sleep
\* that ends a moment too early finds none and arms the timer again.)
Fire ==
    /\ timer = "sleep" /\ running
    /\ wakeFor \intersect Due # {}
    /\ \E j \in Due : Begin(j, Due \ {j})
    /\ UNCHANGED <<running, job, next, wakeFor, hand, requests, fate, cut>>

\* A job is done and the next one of the list taken up, as the list was made.
TimerNextJob ==
    /\ timer = "work" /\ left # {}
    /\ Record(current)
    /\ \E j \in left : Begin(j, left \ {j})
    /\ UNCHANGED <<running, wakeFor, hand, requests, cut>>

\* The last one is done: save, and arm the timer again.  The task cancels
\* itself, which has no effect, as it does not suspend any more.
TimerDone ==
    /\ timer = "work" /\ left = {}
    /\ Record(current)
    /\ current' = NoJob /\ left' = {}
    /\ wakeFor' = IF running THEN Waiting' ELSE {}
    /\ timer' = IF running /\ Waiting' # {} THEN "sleep" ELSE "none"
    /\ UNCHANGED <<running, hand, requests, ghost>>

Next ==
    \/ Start \/ Stop
    \/ \E j \in Jobs : Add(j) \/ Remove(j) \/ TimePasses(j)
    \/ \E h \in Hands : \/ \E j \in Jobs, force \in BOOLEAN : RunByHand(h, j, force)
                        \/ HandDone(h)
    \/ Fire \/ TimerNextJob \/ TimerDone

Spec == Init /\ [][Next]_vars

-----------------------------------------------------------------------------
(* Safety. *)

\* While the service runs and its timer task is not at work, the task sleeps
\* for every job that has a next run: no request, and no end of a run by hand,
\* leaves one out.
NoJobForgotten ==
    running /\ timer # "work" => Waiting \subseteq wakeFor /\ (Waiting # {} => timer = "sleep")

\* What the timer task executes, and what is left in its list, is due at this
\* moment, although the list was made before the jobs were executed: whatever
\* removes, records or reschedules a job cancels the task.
ExecutesOnlyDue == timer = "work" => {current} \union left \subseteq Due

\* A service that was stopped stays quiet, although runs by hand that were
\* going on end after it and arm the timer.
StoppedIsQuiet == ~running => timer = "none"

\* An "at" job begins again only because an execution of it was cancelled in
\* the middle, or it was run by hand with force or while it was being executed.
OneShotBegunOnce == \A j \in OneShot \ excused : begun[j] <= 1 + cut[j]

-----------------------------------------------------------------------------
(* Liveness: a sleep and the agent's work end. *)

FairSpec ==
    /\ Spec
    /\ WF_vars(Fire) /\ WF_vars(TimerNextJob) /\ WF_vars(TimerDone)
    /\ \A h \in Hands : WF_vars(HandDone(h))

\* A job that is due in a running service is executed to the end, however often
\* that was cancelled before, unless it is removed, or the service is stopped or
\* started a second time: start() computes the next runs anew, and drops that of
\* an "at" job which is due, so that the job stays enabled and is never executed.
\* (There are finitely many requests: a service that gets them faster than the
\* job takes never ends the job.)
DueIsExecuted ==
    \A j \in Jobs : running /\ j \in Due ~>
                    ~running \/ ~InStore(j) \/ fate[j] \in {"ended", "restarted"}
=============================================================================
