------------------------------ MODULE Roleplay ------------------------------
(***************************************************************************)
(* The interactive roleplay command: the input loop, the task that prints  *)
(* what comes out of the bus, the persona lane, and the IdleMonitor, which *)
(* may speak first on the same outbound queue.  All of them run on one     *)
(* asyncio loop (the prompt in a thread of its own), so a step is the code *)
(* between two suspensions.                                                *)
(*                                                                         *)
(* Time is counted in poll intervals.  The background lane is left to      *)
(* DualLane.                                                               *)
(***************************************************************************)
EXTENDS Integers, Sequences

CONSTANTS
    MaxTurns,      \* bound: messages the user types
    MaxTime,       \* bound: the clock
    Threshold,     \* idle_threshold_s
    Cooldown,      \* cooldown_s
    MaxProactive,  \* max_proactive_per_day
    Day,           \* 24 hours
    QuietFrom, QuietTo,   \* quiet_hours, as times of the day
    Scoped         \* the --session id has a colon, or is the default

ASSUME ConstantsAssumption ==
    /\ {MaxTurns, MaxTime, Threshold, Cooldown, MaxProactive, QuietFrom, QuietTo} \subseteq Nat
    /\ Day \in Nat \ {0}
    /\ Scoped \in BOOLEAN

VARIABLES
    now,           \* the clock
    cli,           \* the input loop: where it is, its turn, the answer it got
    turnDone,      \* the event turn_done
    printer,       \* the task consume_outbound is alive
    printed,       \* history: the messages shown, and during which turn
    inbound, outbound,    \* the queues of the bus
    loop,          \* the persona task: where it is, its turn
    running,       \* the _running flags of the lanes and of the monitor
    messages,      \* turns recorded in the (ephemeral) session
    archive,       \* turns archive_session has written at exit
    activity,      \* the _SessionActivity of the session, once it has one
    monitor,       \* the IdleMonitor task: where it is, when it last polled
    spoken         \* history: when the monitor spoke

cliVars     == <<cli, turnDone, printer, printed>>
loopVars    == <<loop, messages>>
monitorVars == <<monitor, spoken>>
vars == <<now, cli, turnDone, printer, printed, inbound, outbound, loop, running,
          messages, archive, activity, monitor, spoken>>

Turns == 1..MaxTurns
Times == 0..MaxTime
Outbound == [kind : {"reply", "error", "help"}, turn : Turns]
                \union [kind : {"proactive"}, turn : {0}]

\* An answer that is not there yet; the activity entry before the first message.
NoAnswer   == [kind |-> "none", turn |-> 0]
NoActivity == [seen |-> FALSE, last |-> 0, cooldownUntil |-> 0, count |-> 0]

TypeOK ==
    /\ now \in Times
    /\ cli \in [pc : {"input", "wait", "closing", "over"}, turn : 0..MaxTurns,
                answer : Outbound \union {NoAnswer}]
    /\ turnDone \in BOOLEAN /\ printer \in BOOLEAN /\ running \in BOOLEAN
    /\ printed \in Seq([msg : Outbound, during : 0..MaxTurns])
    /\ inbound \in Seq(Turns)
    /\ outbound \in Seq(Outbound)
    /\ loop \in [pc : {"wait", "chat", "done"}, turn : 0..MaxTurns]
    /\ messages \in Seq(Turns) /\ archive \in Seq(Turns)
    /\ activity \in [seen : BOOLEAN, last : Times, cooldownUntil : 0..(MaxTime + Cooldown),
                     count : 0..MaxProactive]
    /\ monitor \in [pc : {"sleep", "generate", "done"}, polled : Times]
    /\ spoken \in Seq(Times)

Init ==
    /\ now = 0
    /\ cli = [pc |-> "input", turn |-> 0, answer |-> NoAnswer]
    /\ turnDone = TRUE /\ printer = TRUE /\ printed = << >>
    /\ inbound = << >> /\ outbound = << >>
    /\ loop = [pc |-> "wait", turn |-> 0] /\ running = TRUE
    /\ messages = << >> /\ archive = << >>
    /\ activity = NoActivity
    /\ monitor = [pc |-> "sleep", polled |-> 0] /\ spoken = << >>

-----------------------------------------------------------------------------
(* The surroundings. *)

TimePasses ==
    /\ now < MaxTime
    /\ now' = now + 1
    /\ UNCHANGED <<cliVars, inbound, outbound, loopVars, running, archive, activity, monitorVars>>

-----------------------------------------------------------------------------
(* The input loop. *)

\* A line is typed: the event is cleared before the message is published.
Submit ==
    /\ cli.pc = "input"
    /\ cli.turn < MaxTurns
    /\ cli' = [pc |-> "wait", turn |-> cli.turn + 1, answer |-> NoAnswer]
    /\ turnDone' = FALSE
    /\ inbound' = Append(inbound, cli.turn + 1)
    /\ UNCHANGED <<now, printer, printed, outbound, loopVars, running, archive, activity, monitorVars>>

\* turn_done.wait() returns, and the answer is printed.
TurnOver ==
    /\ cli.pc = "wait"
    /\ turnDone
    /\ printed' = Append(printed, [msg |-> cli.answer, during |-> cli.turn])
    /\ cli' = [cli EXCEPT !.pc = "input"]
    /\ UNCHANGED <<now, turnDone, printer, inbound, outbound, loopVars, running, archive,
                   activity, monitorVars>>

\* Mutant: only a session that is at rest is archived.
CachedAtRest == IF Scoped /\ loop.pc = "wait" THEN messages ELSE << >>

\* get_cached(session_id): the loop keeps the session under "channel:chat_id",
\* which is another key when the --session id has no colon.
Cached == IF Scoped THEN messages ELSE << >>

\* Mutant: the clean-up forgets the flags.
LeaveRunning ==
    /\ cli.pc \in {"input", "wait"}
    /\ archive' = Cached
    /\ cli' = [cli EXCEPT !.pc = "closing"]
    /\ printer' = FALSE
    /\ monitor' = [monitor EXCEPT !.pc = "done"]
    /\ UNCHANGED <<now, turnDone, printed, inbound, outbound, loopVars, running, activity, spoken>>

\* exit, end of input, or Ctrl+C at the prompt or during a turn: the session is
\* archived, the flags go down, the printer and the monitor are cancelled.
Leave ==
    /\ cli.pc \in {"input", "wait"}
    /\ archive' = Cached
    /\ cli' = [cli EXCEPT !.pc = "closing"]
    /\ running' = FALSE
    /\ printer' = FALSE
    /\ monitor' = [monitor EXCEPT !.pc = "done"]
    /\ UNCHANGED <<now, turnDone, printed, inbound, outbound, loopVars, activity, spoken>>

\* gather() over the tasks returns.
Left ==
    /\ cli.pc = "closing"
    /\ loop.pc = "done"
    /\ cli' = [cli EXCEPT !.pc = "over"]
    /\ UNCHANGED <<now, turnDone, printer, printed, inbound, outbound, loopVars, running,
                   archive, activity, monitorVars>>

-----------------------------------------------------------------------------
(* consume_outbound. *)

\* Mutant: whatever comes out first is the answer.
IsAnswerAny(msg) == ~turnDone

\* The first message that is not marked proactive ends the turn.
IsAnswer(msg) == msg.kind # "proactive" /\ ~turnDone

Consume ==
    LET msg == Head(outbound)
    IN  /\ printer
        /\ outbound # << >>
        /\ outbound' = Tail(outbound)
        /\ \/ /\ IsAnswer(msg)
              /\ cli' = [cli EXCEPT !.answer = msg]
              /\ turnDone' = TRUE
              /\ UNCHANGED printed
           \/ /\ ~IsAnswer(msg)
              /\ printed' = Append(printed, [msg |-> msg, during |-> cli.turn])
              /\ UNCHANGED <<cli, turnDone>>
        /\ UNCHANGED <<now, printer, inbound, loopVars, running, archive, activity, monitorVars>>

-----------------------------------------------------------------------------
(* The persona lane (DualLane has it in full). *)

AfterMessage == [pc |-> IF running THEN "wait" ELSE "done", turn |-> 0]

\* Mutant: a message from the user opens a new entry.
RecordUserActivityAnew == [NoActivity EXCEPT !.seen = TRUE, !.last = now]

\* record_user_activity: the cooldown and the count of the entry stay.
RecordUserActivity == [activity EXCEPT !.seen = TRUE, !.last = now]

TakeMessage ==
    /\ loop.pc = "wait"
    /\ inbound # << >>
    /\ inbound' = Tail(inbound)
    /\ activity' = RecordUserActivity
    /\ \/ /\ loop' = [pc |-> "chat", turn |-> Head(inbound)]
          /\ UNCHANGED outbound
       \/ /\ outbound' = Append(outbound, [kind |-> "help", turn |-> Head(inbound)])
          /\ loop' = AfterMessage
    /\ UNCHANGED <<now, cliVars, messages, running, archive, monitorVars>>

Reply ==
    /\ loop.pc = "chat"
    /\ messages' = Append(messages, loop.turn)
    /\ outbound' = Append(outbound, [kind |-> "reply", turn |-> loop.turn])
    /\ loop' = AfterMessage
    /\ UNCHANGED <<now, cliVars, inbound, running, archive, activity, monitorVars>>

\* Mutant: a failed call is logged and not answered.
ReplyErrorSilent ==
    /\ loop.pc = "chat"
    /\ loop' = AfterMessage
    /\ UNCHANGED <<now, cliVars, inbound, outbound, messages, running, archive, activity, monitorVars>>

ReplyError ==
    /\ loop.pc = "chat"
    /\ outbound' = Append(outbound, [kind |-> "error", turn |-> loop.turn])
    /\ loop' = AfterMessage
    /\ UNCHANGED <<now, cliVars, inbound, messages, running, archive, activity, monitorVars>>

LoopExit ==
    /\ loop.pc = "wait"
    /\ inbound = << >>
    /\ ~running
    /\ loop' = AfterMessage
    /\ UNCHANGED <<now, cliVars, inbound, outbound, messages, running, archive, activity, monitorVars>>

-----------------------------------------------------------------------------
(* The IdleMonitor. *)

\* _in_quiet_hours: from QuietFrom to QuietTo, over midnight when QuietFrom is
\* not the smaller one (so always, when they are equal).
InQuietHours ==
    LET h == now % Day
    IN  IF QuietFrom < QuietTo THEN QuietFrom <= h /\ h < QuietTo
        ELSE h >= QuietFrom \/ h < QuietTo

ShouldTrigger ==
    /\ activity.seen
    /\ now >= activity.cooldownUntil
    /\ now - activity.last >= Threshold
    /\ activity.count < MaxProactive

\* A poll: the checks, and the LLM call when all of them pass.  What
\* _has_contextual_hook finds in MEMORY.md and in the last six messages may
\* have changed since the last poll.
Tick ==
    /\ monitor.pc = "sleep"
    /\ now > monitor.polled
    /\ \/ /\ ~InQuietHours /\ ShouldTrigger
          /\ monitor' = [monitor EXCEPT !.pc = "generate"]
       \/ /\ monitor' = [monitor EXCEPT !.polled = now]
    /\ UNCHANGED <<now, cliVars, inbound, outbound, loopVars, running, archive, activity, spoken>>

\* The LLM has something to say: it is said, whatever the user did meanwhile.
Speak ==
    /\ monitor.pc = "generate"
    /\ outbound' = Append(outbound, [kind |-> "proactive", turn |-> 0])
    /\ activity' = [activity EXCEPT !.cooldownUntil = now + Cooldown, !.count = @ + 1]
    /\ monitor' = [pc |-> "sleep", polled |-> now]
    /\ spoken' = Append(spoken, now)
    /\ UNCHANGED <<now, cliVars, inbound, loopVars, running, archive>>

\* It answers with an empty text, or the call fails: no cooldown, no count.
StaySilent ==
    /\ monitor.pc = "generate"
    /\ monitor' = [pc |-> "sleep", polled |-> now]
    /\ UNCHANGED <<now, cliVars, inbound, outbound, loopVars, running, archive, activity, spoken>>

-----------------------------------------------------------------------------
Persona == TakeMessage \/ Reply \/ ReplyError \/ LoopExit
Monitor == Tick \/ Speak \/ StaySilent

Next == \/ TimePasses
        \/ Submit \/ TurnOver \/ Leave \/ Left
        \/ Consume \/ Persona \/ Monitor

Spec == Init /\ [][Next]_vars

\* LLM calls end and runnable tasks run; nothing makes the user type or leave,
\* and nothing is asked of the monitor.
FairSpec == Spec /\ WF_vars(Persona) /\ WF_vars(Consume) /\ WF_vars(TurnOver) /\ WF_vars(Left)

-----------------------------------------------------------------------------
(* Safety. *)

\* What is shown as the answer of a turn is the answer to its message, each turn
\* is shown at most once, and a proactive message is never taken for one: the
\* protocol between turn_done, the printer and the two producers of outbound.
AnswersMatchTurns ==
    /\ \A i \in 1..Len(printed) :
          printed[i].msg.kind # "proactive" => printed[i].msg.turn = printed[i].during
    /\ \A i, j \in 1..Len(printed) :
          i < j /\ "proactive" \notin {printed[i].msg.kind, printed[j].msg.kind}
             => printed[i].msg.turn < printed[j].msg.turn

\* The transcript written at exit has every reply the user has seen, when the
\* session id names the key the loop uses.
TranscriptHasReplies ==
    Scoped /\ cli.pc \in {"closing", "over"} =>
        \A i \in 1..Len(printed) : printed[i].msg.kind = "reply" =>
            \E k \in 1..Len(archive) : archive[k] = printed[i].msg.turn

\* The monitor speaks at most MaxProactive times, and not again before the
\* cooldown is over, whatever the user does in between.
SpeechBounded ==
    /\ Len(spoken) <= MaxProactive
    /\ \A i \in 1..(Len(spoken) - 1) : spoken[i + 1] - spoken[i] >= Cooldown

(* Liveness. *)

\* The prompt comes back: a message is answered, by an error if need be, unless
\* the user leaves.
PromptReturns == cli.pc = "wait" ~> cli.pc # "wait"

\* Leaving ends.
LeavingEnds == cli.pc = "closing" ~> cli.pc = "over"
=============================================================================
