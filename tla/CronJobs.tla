------------------------------ MODULE CronJobs ------------------------------
(***************************************************************************)
(* One job file of the scheduler, jobs.json: that of the cron requests of  *)
(* the API, or that of the cron commands of the CLI, which is another one. *)
(* Each request makes a CronService of its own, which reads the whole file *)
(* once and writes it back whole.  To add or to remove a job is one step   *)
(* (of the commands, which are processes of their own, this is an          *)
(* abstraction); to run a job is two, with the agent's work in between.    *)
(*                                                                         *)
(* A service that is started, with its timer, is not in this module:       *)
(* nothing in the program calls CronService.start.                         *)
(***************************************************************************)
EXTENDS Integers, FiniteSets

CONSTANTS
    Jobs,          \* job ids; each is given to one job
    OneShot,       \* the jobs with an "at" schedule
    Runs,          \* bound: run requests
    NoJob          \* the job of a request that has not begun

ASSUME ConstantsAssumption ==
    OneShot \subseteq Jobs /\ NoJob \notin Jobs /\ IsFiniteSet(Runs)

VARIABLES
    file,          \* what _load_store makes of the file: the state of each job
    answer,        \* what the answered requests say of each job
    run,           \* the run requests: phase, job, ?force, the store each has loaded
    unforced,      \* history: completed runs of each job without ?force
    exposed,       \* history: jobs added or removed while a run was going on
    raced,         \* history: jobs that ran while another run was going on
    torn           \* history: a save was cut short

requestVars == <<file, answer, run, unforced>>
vars == <<file, answer, run, unforced, exposed, raced, torn>>

\* The jobs of a store: absent, or there with its flag `enabled`.
Stores == [Jobs -> {"absent", "enabled", "disabled"}]
NoJobs == [j \in Jobs |-> "absent"]

Idle  == [phase |-> "idle", job |-> NoJob, force |-> FALSE, store |-> NoJobs]
Going == {r \in Runs : run[r].phase = "going"}

TypeOK ==
    /\ file \in Stores
    /\ answer \in [Jobs -> {"unknown", "added", "removed"}]
    /\ run \in [Runs -> [phase : {"idle", "going", "over"}, job : Jobs \union {NoJob},
                         force : BOOLEAN, store : Stores]]
    /\ \A r \in Runs : run[r].job = NoJob <=> run[r].phase = "idle"
    /\ unforced \in [Jobs -> 0..Cardinality(Runs)]
    /\ exposed \subseteq Jobs /\ raced \subseteq Jobs /\ torn \in BOOLEAN

Init ==
    /\ file = NoJobs
    /\ answer = [j \in Jobs |-> "unknown"]
    /\ run = [r \in Runs |-> Idle]
    /\ unforced = [j \in Jobs |-> 0]
    /\ exposed = {} /\ raced = {} /\ torn = FALSE

-----------------------------------------------------------------------------
\* add_job.
Add(j) ==
    /\ answer[j] = "unknown"
    /\ file' = [file EXCEPT ![j] = "enabled"]
    /\ answer' = [answer EXCEPT ![j] = "added"]
    /\ exposed' = IF Going = {} THEN exposed ELSE exposed \union {j}
    /\ UNCHANGED <<run, unforced, raced, torn>>

\* remove_job; a job that is not in the file is answered with 404.
Remove(j) ==
    /\ file[j] # "absent"
    /\ file' = [file EXCEPT ![j] = "absent"]
    /\ answer' = [answer EXCEPT ![j] = "removed"]
    /\ exposed' = IF Going = {} THEN exposed ELSE exposed \union {j}
    /\ UNCHANGED <<run, unforced, raced, torn>>

\* Mutant: ?force is not looked at.
MayRunAlways(j, force) == file[j] # "absent"

\* run_job refuses a job that is not there and, without force, a disabled one.
MayRun(j, force) == file[j] # "absent" /\ (force \/ file[j] = "enabled")

\* run_job up to the agent's work.
StartRun(r, j, force) ==
    /\ run[r].phase = "idle"
    /\ MayRun(j, force)
    /\ run' = [run EXCEPT ![r] = [phase |-> "going", job |-> j, force |-> force, store |-> file]]
    /\ raced' = IF Going = {} THEN raced
                ELSE raced \union {j} \union {run[g].job : g \in Going}
    /\ UNCHANGED <<file, answer, unforced, exposed, torn>>

\* Mutant: delete_after_run is taken for granted, for every job.
ExecutedDeleted(r) ==
    [run[r].store EXCEPT ![run[r].job] = "absent"]

\* _execute_job: an "at" job is disabled after its run, failed or not (the
\* requests never set delete_after_run); the others stay as they were loaded.
Executed(r) ==
    [run[r].store EXCEPT ![run[r].job] = IF run[r].job \in OneShot THEN "disabled" ELSE @]

\* Mutant: the work is taken up again after the save.
FinishedAgain(r) == run' = [run EXCEPT ![r].phase = "going"]

Finished(r) == run' = [run EXCEPT ![r].phase = "over"]

\* The agent's work is done, or raised: the store that was loaded is saved.
EndRun(r) ==
    /\ run[r].phase = "going"
    /\ file' = Executed(r)
    /\ unforced' = IF run[r].force THEN unforced ELSE [unforced EXCEPT ![run[r].job] = @ + 1]
    /\ Finished(r)
    /\ UNCHANGED <<answer, exposed, raced, torn>>

\* The process dies during the work: nothing of the run is written.
RunDies(r) ==
    /\ run[r].phase = "going"
    /\ Finished(r)
    /\ UNCHANGED <<file, answer, unforced, exposed, raced, torn>>

\* It dies while it writes the file: the rest is not JSON, and _load_store makes
\* an empty store of it.
SaveDies(r) ==
    /\ run[r].phase = "going"
    /\ file' = NoJobs
    /\ torn' = TRUE
    /\ Finished(r)
    /\ UNCHANGED <<answer, unforced, exposed, raced>>

\* Or while an add or a remove writes it.
RequestDies ==
    /\ \E j \in Jobs : answer[j] = "unknown" \/ file[j] # "absent"
    /\ file' = NoJobs
    /\ torn' = TRUE
    /\ UNCHANGED <<answer, run, unforced, exposed, raced>>

Next ==
    \/ \E j \in Jobs : Add(j) \/ Remove(j)
    \/ RequestDies
    \/ \E r \in Runs : \/ \E j \in Jobs, force \in BOOLEAN : StartRun(r, j, force)
                       \/ EndRun(r) \/ RunDies(r) \/ SaveDies(r)

Spec == Init /\ [][Next]_vars

-----------------------------------------------------------------------------
(* Safety. *)

\* The file has the jobs the answers say, whatever runs come and go, overlap or
\* die, except a job added or removed while a run was going on.
FileAsAnswered ==
    ~torn => \A j \in Jobs \ exposed : file[j] # "absent" <=> answer[j] = "added"

\* A one-shot job is run to its end once without force, unless its run
\* overlapped another run, of whichever job.
OneShotOnce == \A j \in OneShot \ raced : unforced[j] <= 1

-----------------------------------------------------------------------------
(* What the documentation says and the code does not do. *)

\* DELETE /cron/jobs/{id}, "Remove a scheduled job": a job that was answered as
\* removed is not in the file.
RemovedStaysRemoved == \A j \in Jobs : answer[j] = "removed" => file[j] = "absent"
=============================================================================
