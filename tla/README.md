# A formal model of Chihaya-Agent

TLA+ specifications of the concurrent and durable parts of the agent: two LLM
lanes that serve one conversation, the registry of conversations behind the HTTP
API, the session file, MEMORY.md and the agents that rewrite it, the loop of LLM
and tool calls with its retries, the interactive command with its idle monitor,
the job file and the timer of the scheduler, and the evaluation harness. TLC
checks each on small instances; the TLA+ proof system proves the main safety
properties for every value of the parameters.

All paths below are relative to `src/`.

## 1. The system

### Parts, state and operations

| Part | State | Operations | Modelled in |
|---|---|---|---|
| `AgentLoop` (agent/loop.py), the persona lane | `_running` | `run`: take a message, `_process_message` (snapshot, hint, one LLM call, record, save), answer; `stop`; `process_direct` | `DualLane`; in short in `SessionRegistry`, `Roleplay` |
| `BackgroundAgent` (agent/background.py), the background lane | `_running`, snapshot queue, turns since the last consolidation | `run`: take a snapshot, analyse it under a timeout, write the hint, consolidate | `DualLane` |
| `PromptHolder` (agent/background.py) | one pending update | `write`, `read_and_consume` | `DualLane`, abstractly `HintMailbox` |
| `MemoryStore` (agent/memory.py) | MEMORY.md, HISTORY.md | `compress_session`, `archive_old_memory`, `append_history` | `DualLane`, `SessionStore`, `MemoryFile` |
| `SessionManager` (session/manager.py) | cache, one JSONL file per key | `get_or_create`, `save`, `archive_session` | `SessionStore`, `Roleplay` |
| `MessageBus` (bus/) | inbound and outbound queue | publish, consume | `DualLane`, `SessionRegistry`, `Roleplay` |
| `SessionRegistry`, `/sessions`, lifespan (api/) | id -> session object, clocks, cleanup task | create, send, keepalive, delete, evict, shut down | `SessionRegistry`, abstractly `ReplyPipe` |
| `IdleMonitor` (agent/proactive.py) | per session: last activity, cooldown, count | poll, decide, speak | `Roleplay` |
| roleplay command (cli/commands.py) | `turn_done`, the printer task | prompt, wait, print, leave | `Roleplay` |
| `CronService`, `/cron`, cron commands | jobs.json, `_timer_task` | add, remove, run; start, stop, the timer (unused) | `CronJobs`; `CronTimer` |
| `/chat`, `make_agentic_runner` | a manager per request | one turn, then one background pass | `SessionStore`, `MemoryFile` |
| agentic loop and tools (agent/runner.py, agent/tools/) | message list, files | LLM call, tool calls | `AgenticLoop`; `MemoryFile` for read_file and write_file |
| `QwenProvider` (providers/) | - | chat with retry | `AgenticLoop` |
| `SubagentManager`, spawn | `_running_tasks` | spawn, run, announce (not wired) | `AgenticLoop` |
| `HeartbeatService` | - | `trigger_now` (the loop is never started) | a turn of `SessionStore`, a loop of `AgenticLoop` |
| evaluation (eval/, api/routes/eval.py, `eval run`) | workspaces, results files, task states | run a batch: replay, ask, judge, append a line | `EvalRuns` |
| context, skills, workspace routes | no state between calls | | no |

### How they interact

A message goes onto `inbound`; the persona lane takes it, puts a snapshot on
the background queue, takes the pending hint, calls the LLM once, appends the
exchange to the `Session`, saves the file and puts the reply on `outbound`. The
background lane takes snapshots one at a time, lets its LLM use tools that write
the memory files, writes the hint, and after every twentieth turn compresses the
session and prunes MEMORY.md. Both lanes hold the same `Session` object.

The HTTP API wires such a pair of lanes per active session, `roleplay` wires one
and adds the idle monitor as a second producer on `outbound`; `/chat`, cron and
heartbeat use no queue at all but open the same session files.

### Where it is hard

Everything runs on one asyncio loop, so interference happens at suspensions
only: waits on an empty queue, LLM calls, sleeps. But almost every operation has
one in the middle of a read-modify-write: a compression (segment before the LLM
call, mark after it), an eviction (list before, ids after), a cron run (store
before, save after), a proactive message (idle before, spoken after). Two lanes
race over one slot and one session; several agents replace the whole of one
MEMORY.md by what an LLM made of an earlier state of it; requests time out while
their message stays in the pipeline; a timer task is cancelled by what it runs; files are rewritten in place, so that a crash can tear them; and
the same file is opened by managers that know nothing of each other. The hazards
with their lines are listed in `PROJECT.json`.

### What makes each part correct

* Lanes: every message answered once and in order, whatever the background does;
  a hint used at most once, never out of order or by its own turn; the session a
  sequence of whole exchanges; HISTORY.md summarises each message below the mark
  in exactly one segment.
* Registry: replies neither lost nor doubled nor swapped; each session object
  owned by the registry or by one closer; idle sessions closed, others not;
  closing and shutting down end.
* Session file: what the user saw answered survives, except where the file is
  overwritten from an older copy or torn with no copy left; what is marked is
  summarised.
* Roleplay: the answer shown belongs to the turn; the prompt comes back; the
  monitor keeps to its cooldown and its cap; the transcript is complete.
* Job file: it has the jobs the answers say; a one-shot job runs once.
* Timer: it sleeps for every job that has a next run, executes what is due and
  nothing else, is quiet when stopped.
* MEMORY.md: it stays within the write limit; a fact is lost only because an LLM
  left it out, or another agent or a torn write went over it; what was archived
  comes back only because an LLM writes it anew or still had it; a file over its
  budget is brought back under it.
* Loop of LLM and tools: every request is one the API accepts; their number is
  bounded; whoever runs it learns its end once.
* Evaluation: one line per entry, in order, and no memory from another run in it.

## 2. The modules

A step of every module is the code one task executes between two suspensions, so
that the interleavings of the model are those of the event loop. A put on an
unbounded `asyncio.Queue` and an uncontended `asyncio.Lock` do not suspend and
are part of the step they occur in.

### DualLane, HintMailbox

`persona` and `bg` are the two tasks: where each is suspended (`wait` on its
queue, `chat`, `analyze`, `compress`, `archive`, `done`) and the turn in hand.
A turn is named by the rank of its message. `TakeMessage` is `_process_message`
up to the LLM call, `Reply` and `ReplyError` what follows, in the handler of
`run` too; `AnswerHelp` is the early return of /help. `TakeSnapshot`, `Analyzed`
(hint written, turn counted, compression begun), `DropTurn` (timeout or
exception), `Compressed`/`CompressFailed` and `Archived` are the background lane.
`Stop` is the owner clearing both flags; a lane notices when it is idle or has
finished a turn.
`outbound`, `delivered` and `summaries` keep everything that was ever put there:
they are the observable history, and the code never reads them back.

Abstracted: message texts; what the background LLM writes (only whether
MEMORY.md is over budget, and that the hint has text or not); snapshot contents.

`HintMailbox` is the abstract specification of the hint channel: one slot, a
newer hint replaces an older one, each is taken at most once.
`DualLane!MailboxSpec` states the refinement: `slot` is the source of what the
holder has, `taken` the sources of what was consumed.

### SessionRegistry, ReplyPipe

One record per `ActiveSession` object: the two tasks with their `_running` flags
(`new` until the task first runs, which raises the flag), the two queues, the
requests suspended in `outbound.get()` in their order and those already woken.
`Send` is the route and `send()` up to its suspension, `Resume` the woken
`get()`, `RequestTimeout` the 504. `PopAndStop` is `close()` up to its
`gather`; who called it is kept in `closer`. `Scan` and `EvictNext` are the
cleanup task, one step from each suspension to the next, with the stale list in
`cleaner.rest` and the KeyError that ends it. `ShutdownBegin`, `ShutdownClose`
and `ShutdownEnd` are the lifespan after its `yield`; uvicorn finishes the
requests it has first (`Quiet`). Time is only: idle for longer than the TTL, or
not.

Abstracted: the lanes' inner work (`DualLane`), the SSE events.

`ReplyPipe` is the abstract specification of a session as its requests see it: a
first-in first-out pipe of messages. A request puts its message in at one end and
takes the oldest, answered, out at the other, at once (`SendAndTake`), later
(`Send`, `Take`) or never (`GiveUp`, which leaves its message behind); when the
server stops one message may be lost. It has no queues, wake-ups or tasks.
`SessionRegistry!PipeSpec` states the refinement: the pipe of an object is its
outbound queue, the message in the hand of its persona, and its inbound queue, in
that order (`OnTheWay`), so that `LoopTake` and `LoopAnswer` are stutters and
`Resume` is a `Take`, or a stutter when its reply has been taken by a newcomer. It
says what becomes of replies when requests do overlap, where
`LateByTimeouts` is silent: `send()` returns the reply at the head of the
pipe, which then need not be its own (the finding of run `own_reply`).

### SessionStore

The session file of one key, HISTORY.md as the set of messages summarised, and
any number of `SessionManager`s. `disk` is what `_load` makes of the file.
`Cut` is what a save that does not reach its end leaves: nothing readable, or the
metadata line and the first lines. `StartTurn`/`FinishTurn`/`FinishTurnUnsaved`/
`FailTurn` are a turn of whoever uses the manager (AgentLoop, /chat, the cron and
heartbeat runner), `StartCompress`/`FinishCompress`/`FailCompress` a compression
with the save after it, `Close` the end of the manager, and the crash actions a
death of the process between steps, in a save, or between HISTORY.md and the save.
Nothing in the code keeps the managers of one file apart, or makes a save atomic.
`exposed` has the turns this can cost, one by one: those answered while another
manager had an older copy open, and those a cut save took when no copy was left (the
process died, or the last manager was closed). `RepliesSurvive` covers all others,
before, during and after overlaps, cut saves and crashes; what is in `exposed` may
be lost, and in the model is. `damaged` records that a torn file was read:
its mark may lie beyond its messages, and `MarkedIsSummarised` says nothing then.

### Roleplay

`cli` is the input loop, `printer` the task `consume_outbound` with the event
`turnDone` between them, `loop` the persona lane in short, `monitor` the
`IdleMonitor`. `now` counts poll intervals. `Tick` is a poll with its checks,
`Speak` and `StaySilent` the two ends of its LLM call. `Leave` is the `finally`
block. `Scoped` says whether the session id has a colon: when it has not,
`archive_session` looks under another key than the loop uses and writes nothing.

### CronJobs

One job file: that of the API, or that of the CLI's cron commands, which is another
one (cli/commands.py:326, api/routes/cron.py:18). `file` is what `_load_store` makes
of it. Each request has a `CronService`
of its own; `Add` and `Remove` are single steps, a run is `StartRun` (load and
check), the agent's turn, and `EndRun` (the loaded store with the job's new
state, saved). `RunDies`, `SaveDies` and `RequestDies` are the crashes.
`exposed` and `raced` name the jobs the overlap of runs has reached.

### CronTimer

The same class as a service that has been started, which nothing in the program
does. `timer` is the timer task (none, asleep, or in the middle of a job), `left`
what it has not come to in its list of due jobs, `wakeFor` the jobs `_arm_timer`
computed the sleep from, `hand` the jobs executed by hand at the same time. Every
request that changes the store ends in `Arm`, which cancels the task whatever it
is doing. Time is only: the moment a job waits for has come, or not. `fate` records of
the last such moment of each job whether an execution of the job has ended since,
or `start()` computed the next run anew while the job was due. The second is why
`DueIsExecuted` names it: on a service that runs already, `start()` gives a due "at"
job no next run, and the job stays enabled and is never executed.

### MemoryFile

MEMORY.md and HISTORY.md are the sets of facts in them, each of size one. `view` is
the MEMORY.md an agent's LLM goes by: as it was when the prompt was built
(`BeginTurn`), read by the tool (`ReadFile`), or read by `archive_old_memory`
(`EnforceBudget`). What the LLM writes is free: it also has the conversation before
it, and may read HISTORY.md, so that `Contents` has every set of facts within the
limit, old or new. `WriteFile` is the tool with its refusal of a file over the
limit; `WriteHistory` the same tool on HISTORY.md, which it replaces too, as the
prompt tells the LLM to move what it drops there. `EndTurn` is the counter with its
threshold. `Archive` replaces the file by what the LLM keeps of the view and appends
what it put after its marker: all that was removed, some of it, or nothing. Agents
in `Lanes` live with a session; those in `Passes` are made for one request, so that
their counter starts at 0 each time. A write may be cut short: with an error that the
tool reports or `_maybe_consolidate` catches (`WriteFails`, `ArchiveFails`), or with
the process (`CrashInWrite`, `CrashInArchive`), between the two writes of the
pruning as well.

Only here is HISTORY.md ever replaced: `DualLane` and `SessionStore` keep in it what
`compress_session` appended, and what an LLM's `write_file` leaves out of it is the
LLM's doing there.

Nothing locks these files, so that the properties say which facts the code can
lose or bring back, fact by fact. `owed` has what was written to MEMORY.md and no
LLM that had it before it left out since, without the facts that another agent at
work did not have before it when they were last written, and those that were in the
file when a write of it was torn: an overwrite or the tear may cost them. `back` has the facts of HISTORY.md that an LLM wrote into MEMORY.md anew, that
were kept as well, or that another agent had before it when they were archived:
these may be in both files.

### AgenticLoop

One execution of `run_agentic_loop`, for the analysis of the background lane and
for the standalone runner, or of the same loop in `_run_subagent`: `Attempt`,
`TransientError`, `Slept` and `LastingError` are `_chat_with_retry`, `Answer`,
`AskForTools` and `ExecuteTool` the two kinds of response, `Returned` and `Raised`
what the caller makes of the end, `Cancelled` the timeout of the analysis, `Done`
the done callback of a subagent's task. `messages` keeps who said it and which
call it belongs to. Executions share only the workspace (`MemoryFile`).

### EvalRuns

`run` has for every run its dataset, its entry, its turn and its phase, `workspace`
whose facts the MEMORY.md under each question id has, `results` the lines of each
file. A workspace is named by the question id alone, a results file by the
dataset and the second. `crowded` names the runs that met in a workspace. The
properties speak of positions in a file (`Places`), and the names every module has
(`EvalTypeOK`, `EvalInit`, ...) are prefixed, since `WorkspaceProofs` extends this
module and `MemoryFile`.

## 3. What TLC checks

| Run | Instance | Shows |
|---|---|---|
| `dual_lane` | 3 turns, threshold 1, tail 1 | six invariants, the refinement of `HintMailbox`, answers with no fairness for the background, stopping ends |
| `session_registry` | 2 ids, 2 objects, 2 requests | conservation of replies, which reply comes after timeouts, the refinement of `ReplyPipe`, ownership, shutdown, closing ends |
| `session_store` | 2 managers, 3 turns, tail 1 | which replies survive, marks are sound |
| `roleplay` | 2 turns, 7 instants, day of 4 | answers and turns match, cap and cooldown, prompt returns, leaving ends |
| `cron_jobs` | 2 jobs (one one-shot), 3 runs | file as answered, one-shot once |
| `memory_file` | 1 lane, 1 request, 3 facts, budget 1, limit 2, threshold 2, 1 crash | what can be lost, what can come back, the budget is restored |
| `cron_timer` | 3 jobs (every, at, at and deleted), 2 hands, 6 requests | no job forgotten, only due ones executed, quiet when stopped, one-shot once, due is executed |
| `eval_runs` | 2 runs, 2 datasets of 2 entries, 2 turns, 2 seconds | a line per entry, own memory alone |
| `agentic_loop` | 3 iterations, 3 attempts, 2 calls | well-formed requests, bounded attempts, end reported, the loop ends |

Three turns with threshold 1 give a compression after every analysis, each with
messages arriving meanwhile, and a background lane up to three turns behind. Two
objects and two requests are the least with which requests overlap, one passes
its wake-up on, the other comes in between, one id is created twice, and the
cleanup list is longer than one. Three turns and two managers give a lost update,
a torn file, and a compression that spans turns. Three runs are the least with
which one run re-enables a one-shot job for a third. Three facts over a limit of
two force a write to leave one out and a pruning to cut one while another agent
holds all three in turn. Six requests let a job be added, run by hand twice,
removed, and the service be stopped and started again. Two runs over the same
entries give a workspace shared, deleted under a run, and left behind by a killed
one. Three attempts and three iterations are the least with which a retry follows
a retry and an iteration is neither the first nor the last. Managers, run requests
and evaluation runs are only compared, so they are symmetric; ids are not (the
order of the registry matters), nor are jobs.

All bounds cut inputs (messages, requests, objects, clock), never the reaction
to them. Deadlock is not checked, since the systems stop when their inputs are
used up and `Stop`, `Leave` or the shutdown is over.

Every property has a mutant: a definition next to the one it replaces, marked
`Mutant`, with which TLC finds the property violated.

### Fairness

An LLM call ends (the client has a timeout, the retry loop a bounded number of
attempts) and a task that can run is run: weak fairness of the tasks. Nothing is
assumed of users: nobody need send, poll, delete or leave.
In `CronTimer` sleeps and jobs end; in `AgenticLoop` every attempt and every
sleep does. `BudgetRestored` needs more: users go on talking, not every analysis
fails, not every answer to the pruning prompt is refused, and from some moment on
sessions are not closed (`LanesLast`); without the last it is false, which is the
case of /chat below.
`MessagesAnswered` assumes nothing of the background lane either; `StopEnds`
does, since closing waits for it: `BgFairness`, justified by the `wait_for`
around the analysis (it does not include the tools, whose writes may go on for as
long as that timeout lets them). In `SessionRegistry` the timer of the cleanup
task is fair too. `CloseEnds` holds for tasks that had run before they were
stopped: otherwise `run()` raises the flag again, and close() waits for ever.

### Where code and documentation disagree

Three runs expect a violation; the findings in `PROJECT.json` quote the statements.

* `own_reply`: after a timed-out request every later one returns the answer to
  the one before. `LateByTimeouts` is what holds: the answer is that of as many
  messages back as requests have timed out.
* `idle_sessions_closed`: the cleanup task dies of a KeyError when a session in
  its list is deleted while it closes another one.
* `removed_stays_removed`: a cron run that was going on writes a removed job back.
  `FileAsAnswered` is what holds.

Seen while modelling, and shown by the models, but not run:

* README.md:72, "Turn N+1 → persona consumes N's hint exactly once": a slow
  background lane hands the hint of turn N to a later turn. `HintsInOrder` is
  what holds.
* README.md:122-124, "A cooldown (default 10 min), quiet hours, and a daily cap
  bound the total cost": a decision to stay silent sets none of them, and the LLM
  is asked at every poll. `SpeechBounded` is what holds.
* api/routes/sessions.py:106, "Call periodically ... to prevent automatic expiry":
  the list of idle sessions is made once. A session that is kept alive, or gets a
  message, or is made anew under its id, while the cleanup task closes another one
  of the list is closed all the same (`Scan`, `Keepalive`, `EvictNext`).
* api/session_registry.py:75, "Stop both agent tasks gracefully": when `close()` is
  called before the tasks have run for the first time, `run()` raises the flag that
  `stop()` cleared, and `close()` waits for ever (`Create`, `Delete`, `LoopStart`).
  `CloseEnds` is what holds.
* agent/memory.py:168-169, "The pruned version is written back to MEMORY.md; removed
  content is appended to HISTORY.md for auditability": what is appended is what the
  LLM put after its marker. With nothing there the append is skipped, with less than
  was removed the rest is nowhere, and what another agent wrote during the LLM call
  is overwritten and was in neither (`Archive`). `AccountedFor` is what holds.
* README.md:94-96, "when `MEMORY.md` exceeds 1000 tokens, an LLM prunes stale
  items": over /chat the counter lives in an object made per request, and the
  file is never pruned (nor the conversation compressed). `BudgetRestored` is
  what holds where sessions last.
* eval/workspace.py:20, "Create a fresh, isolated workspace for one eval entry":
  two runs that reach the same entry share it, and delete it under each other.
  `OwnMemoryAlone` is what holds.
* cli/commands.py:519, "Compare the latest N runs side-by-side": the files are
  sorted by name, which begins with the dataset.

And since one look at the code shows it: `compress_session` does not trim the
session it says it trims (agent/memory.py:122); equal `quiet_hours` mean always
(agent/proactive.py:156).

## 4. What is proved

`tlapm` checks the modules below from nothing, for every value of the constants.

**DualLaneProofs** (from `ConstantsAssumption`: the threshold is at least 1).
`TypeInv` adds to the types that a lane inside a turn has its number.
`AnswersInOrder` is inductive with it: take, answer and publish move one number
between four places. `HintsUsedInOrder` needs more: snapshots are queued in
the order of turns, all of them older than what the persona may take next and
newer than what the background has in hand, which is newer than what the holder
has, which is newer than what was delivered; this chain is `HintChain`. From it
`ImplementsMailbox` follows, step by step: `Analyzed` is a `Publish`, `TakeMessage`
a `Consume` or a stutter, everything else a stutter. `SummariesArePartition` and
`TailIsKept` need that the segment captured before the LLM call starts at the
mark and ends at least `Keep` before the end of the session, and that the
session only grows (`SegmentChain`). `SessionIsComplete` reads the session as n
exchanges (`SessionRecorded`): it needs that every one of them is of a turn that
has its answer, so that the next one, of the first turn without, comes after all.

**SessionRegistryProofs** (the ids are finite in number, and so are objects and
requests; the ids must be, since the cleanup task counts the expired ones). The
inductive invariant has six parts, each proved preserved on its own:

* `TypeInv`: the types, that no object or request beyond the last has a state, and
  that a loop has a message in hand exactly when it is in its LLM call;
* `Owned`: `OwnedOnce`, and that no object is under two ids; with it `EachIsOwned`;
* `Closing`: what the cleanup task has closed is done, except the object it is
  closing; once the server stops it is over, what a request closed is done, and when
  the server is down the shutdown has closed the rest; with it `NoneLeft`;
* `Waiters`: a request is at most once among those suspended and those woken of its
  object, and is waiting, so that a time-out takes away all there is of it;
* `Pipeline`: what is inbound, in hand or outbound at an object was sent to it, and
  each message has a total of one over these places and the requests that returned
  it; with it `RepliesAreConserved`. The proof goes by what a put, a get and the
  removal of a waiter do to the number of occurrences in a queue;
* `InLine`: in a session whose requests never overlapped, what is on its way are its
  last messages, one for each request that waits or has timed out; the request that
  waits is the last, and what it takes is the oldest of them. `Late` says what this
  comes to for a request that has returned, and gives `RepliesLateByTimeouts`. Its
  steps are those of the pipe, so that queues and tasks are not met again.

`ImplementsPipe` maps each step to a step of `ReplyPipe` or to none, for any number
of objects and requests: what is put into the last of the three parts is put at the
end of the whole (`PutAtEnd`), what is got from the first is its head
(`GotFromHead`), a message that goes from one part to the next moves nothing
(`LoopKeepsPipe`), and what is lost with a cancelled persona is one message out of
the middle (`LostFromHand`). It rests on `TypeInv` and on `Waiters`, by which a
request that is woken is still waiting, at that object.

`Scan` names the expired ids in the order of the registry by what orders them, and
`RequestTimeout` removes a waiter by its place (`Without`): both without a
recursive operator, about which nothing could be proved.

**SessionStoreProofs** (bounds are natural numbers; any set of managers).
`TypeCorrect` includes that a segment being compressed has natural bounds, the early
return for a session without old messages. `RepliesAreKept` needs no
strengthening: of a turn that is not in `exposed` it says that it is in the file, or
that the file is torn and somebody has a copy, and that it is in every open copy; a
manager that opens a file takes it from there, and one that saves writes a copy that
has it. `MarksAreSound` strengthens `MarkedIsSummarised` by
`mark <= Len(messages)` for every copy and for a file that is not torn; the
lemmas say what an appended exchange, a moved mark and a cut save preserve.

**CronJobsProofs** (one-shot jobs are jobs, the runs are finite in number).
`FileIsAsAnswered` needs of every going run what it says of the file, since a run
writes back the store it loaded, and that a run's own job is in its store.
`OneShotsRunOnce` needs that a one-shot job that has been run is enabled neither
in the file nor in the store of a going run, and that its run, if it overlapped no
other, is the only one going. `TypeCorrect` counts a job at most once per run that
is over.

**WorkspaceProofs**, of `MemoryFile` (lanes are no passes, the budget is within the limit).
`TypeCorrect` includes that MEMORY.md never exceeds the write limit: a pruned file
and a part of a written one are no larger. `NothingDisappears` and `ArchivedIsGone`
go together, in `FilesInv`. What an agent writes replaces what it has not seen: the
invariant says that there is nothing of the kind but what is excepted. `Seen`: an
agent at work has before it all of MEMORY.md that is `owed`; `Unheld`: none
has a fact of HISTORY.md before it that is not in `back`. Every writing step adds to
the exceptions what the others at work do not have (`Unseen`) or still have
(`StillHeld`), and each has a lemma of its own, a step that fails half way too.

The same module, of `EvalRuns` (a dataset has an entry at least, an entry a turn).
`EntriesHaveLines` needs that every line of a run is in the run's own file
(`InPlace`: the dataset and the second of a run never change once it has begun),
so that a run which appends to a file disturbs no other's lines.
`MemoryIsOwn` goes from the file back to the workspace: the workspace and the
snapshot of a run that met no other have only its own facts (`OwnView`), and two
runs at work in one workspace are both crowded (`Sharers`), so that what a third
run writes, creates or deletes is not in the workspace of one that is not.

**CronTimerProofs** (one-shot and transient jobs are jobs). `TimerInv` is `NoJobForgotten`,
`ExecutesOnlyDue` and `StoppedIsQuiet` together, which preserve each other, and that
the job in hand is not in the rest of the list. `OneShotsBegunOnce` counts:
executions begun are at most those cut plus one, and equal only while one goes on
or the job is spent.

**AgenticLoopProofs** (the three limits are at least 1). `Dialogue` says where the
response is whose calls are being executed, and that the results so far follow
it; `Attempts` that the lengths sent before this iteration are below the
present one, and that all attempts so far are at most
`(iteration - 1) * MaxRetries + attempt`; `End` what was reported in each state.

**RoleplayProofs** (the limits are natural numbers). `Spoken` ties the times of
speech to the cooldown and the count. For `AnswersAreMatched`, `Placed` says that the
one message in flight, inbound, in hand or as an answer in outbound, is that of the
present turn, and `Shown` the same of what was printed. `Replied` says that every
reply in outbound or printed is in the session or in the archive.

Where a type invariant only says that the variables have their types
(`SessionRegistry`, `SessionStore`, `Roleplay`, `CronTimer`, `AgenticLoop`,
`EvalRuns`), it is proved and no run repeats it.

Every safety property a run checks is stated by a theorem. Only model-checked is
all liveness: `MessagesAnswered`, `StopEnds`, `CloseEnds`, `PromptReturns`,
`LeavingEnds`, `BudgetRestored`, `DueIsExecuted` and
`LoopsEnd` rest on fairness and ENABLED, which are out of reach of the provers.
Nothing about data computed by recursion is proved, and no module declares any.

## 5. Not modelled

Prompt building, skills and the workspace routes (text and plain file I/O, no
state from one call to the next), the SSE events and their bounded queue (a lossy
log nothing depends on), the periodic loop of heartbeat (started by nothing), the
verdicts and the pairing of turns in the datasets (data), the trace files and the
lengths of the backoff. Processes other than the server: `roleplay` uses the
workspace of a user (cli/commands.py:169), and with it session and memory files the
server may have open, which the models take for another manager or agent in the
same process; the cron commands have a workspace and a job file of their own
(cli/commands.py:326; that of the API is in api/routes/cron.py:18), which only they
share among each other, and the short read-modify-write of `cron add` in another
process is taken as one step.

## 6. Plan

Done: the modules above and their proofs, in the order `DualLane`,
`SessionRegistry`, `SessionStore`, `Roleplay`, `CronJobs`, `MemoryFile`, `CronTimer`,
`EvalRuns`, `AgenticLoop`. Left:

1. An abstract specification of a durable log of turns, implemented by `SessionStore`.
2. The pairing of turns in the datasets as an operator checked against a reference
   definition.
