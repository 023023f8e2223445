------------------------------ MODULE DualLane ------------------------------
(***************************************************************************)
(* One conversation served by the two lanes of the agent, as wired by      *)
(* SessionRegistry.create and by the roleplay command:                     *)
(*                                                                         *)
(*   persona lane      AgentLoop.run, one message at a time, one LLM call; *)
(*   background lane   BackgroundAgent.run, one snapshot at a time, an     *)
(*                     agentic loop, then the memory maintenance.          *)
(*                                                                         *)
(* They share the snapshot queue, the PromptHolder, and the Session object *)
(* (one SessionManager).  Everything runs on one asyncio event loop, so a  *)
(* step is the code between two awaits that suspend: waiting on an empty   *)
(* queue, and an LLM call.  A put on an unbounded queue and the lock of    *)
(* the PromptHolder (no await inside its critical sections) never suspend. *)
(***************************************************************************)
EXTENDS Integers, Sequences

CONSTANTS
    MaxTurns,      \* bound: messages the user sends
    Threshold,     \* MEMORY_CONSOLIDATION_THRESHOLD
    Keep           \* DEFAULT_KEEP_MESSAGES

ASSUME ConstantsAssumption ==
    /\ MaxTurns \in Nat
    /\ Threshold \in Nat \ {0}
    /\ Keep \in Nat

VARIABLES
    sent,              \* messages published so far; a turn is named by its rank
    inbound,           \* MessageBus.inbound: turns nobody has taken
    outbound,          \* every message ever put on MessageBus.outbound
    persona,           \* AgentLoop: where it is suspended, and its turn
    queue,             \* the snapshot queue: turns the background has not taken
    bg,                \* BackgroundAgent: where it is suspended, its turn, and
                       \* the segment compress_session has captured
    holder,            \* PromptHolder._value
    delivered,         \* the updates consumed so far, with the consuming turn
    messages,          \* Session.messages
    lastConsolidated,  \* Session.last_consolidated
    count,             \* _turns_since_consolidation of this session
    summaries,         \* the segments summarised in HISTORY.md, in file order
    overBudget,        \* MEMORY.md is over MEMORY_MAX_TOKENS
    running            \* both _running flags (close() clears them together)

userVars    == <<sent>>
personaVars == <<inbound, outbound, persona>>
hintVars    == <<holder, delivered>>
memoryVars  == <<lastConsolidated, count, summaries, overBudget>>
vars == <<sent, inbound, outbound, persona, queue, bg, holder, delivered,
          messages, lastConsolidated, count, summaries, overBudget, running>>

Turns == 1..MaxTurns

\* A PersonaPromptUpdate: the turn it was computed from, and whether its
\* ephemeral_hint has any text.  NoUpdate is the holder's None.
Updates  == [src : 0..MaxTurns, text : BOOLEAN]
NoUpdate == [src |-> 0, text |-> FALSE]

\* The two messages of a completed turn.
Exchange(t) == <<[role |-> "user", turn |-> t], [role |-> "assistant", turn |-> t]>>

\* Mutant: the lanes loop on `while True`.
LoopHeadForever == "wait"

\* Where a lane is after a turn: `while self._running`.
LoopHead == IF running THEN "wait" ELSE "done"

PersonaRest == [pc |-> LoopHead, turn |-> 0]
BgAt(pc, t) == [pc |-> pc, turn |-> t, from |-> 0, to |-> 0]
BgRest      == BgAt(LoopHead, 0)

TypeOK ==
    /\ sent \in 0..MaxTurns
    /\ inbound \in Seq(Turns)
    /\ outbound \in Seq([turn : Turns, kind : {"reply", "help", "error"}])
    /\ persona \in [pc : {"wait", "chat", "done"}, turn : 0..MaxTurns]
    /\ queue \in Seq(Turns)
    /\ bg \in [pc : {"wait", "analyze", "compress", "archive", "done"},
               turn : 0..MaxTurns, from : Nat, to : Nat]
    /\ holder \in Updates
    /\ delivered \in Seq([turn : Turns, src : Turns, text : BOOLEAN])
    /\ messages \in Seq([role : {"user", "assistant"}, turn : Turns])
    /\ lastConsolidated \in Nat
    /\ count \in 0..(Threshold - 1)
    /\ summaries \in Seq([from : Nat, to : Nat])
    /\ overBudget \in BOOLEAN
    /\ running \in BOOLEAN

Init ==
    /\ sent = 0 /\ inbound = << >> /\ outbound = << >>
    /\ persona = [pc |-> "wait", turn |-> 0]
    /\ queue = << >>
    /\ bg = BgAt("wait", 0)
    /\ holder = NoUpdate /\ delivered = << >>
    /\ messages = << >> /\ lastConsolidated = 0 /\ count = 0 /\ summaries = << >>
    /\ overBudget \in BOOLEAN
    /\ running = TRUE

-----------------------------------------------------------------------------
(* The user's side of the bus, and the owner of the two lanes. *)

PublishInbound ==
    /\ sent < MaxTurns
    /\ sent' = sent + 1
    /\ inbound' = Append(inbound, sent + 1)
    /\ UNCHANGED <<outbound, persona, queue, bg, hintVars, messages, memoryVars, running>>

\* ActiveSession.close clears both flags before it waits for the two tasks.
Stop ==
    /\ running
    /\ running' = FALSE
    /\ UNCHANGED <<userVars, personaVars, queue, bg, hintVars, messages, memoryVars>>

-----------------------------------------------------------------------------
(* Persona lane. *)

\* Mutant: the persona waits until the background has caught up.
ReadyWhenBackgroundRests == persona.pc = "wait" /\ inbound # << >> /\ bg.pc = "wait"

\* consume_inbound returns the oldest message.
Ready == persona.pc = "wait" /\ inbound # << >>

PublishOutbound(t, kind) == outbound' = Append(outbound, [turn |-> t, kind |-> kind])

\* /help returns before anything else is read or written.
AnswerHelp ==
    /\ Ready
    /\ inbound' = Tail(inbound)
    /\ PublishOutbound(Head(inbound), "help")
    /\ persona' = PersonaRest
    /\ UNCHANGED <<userVars, queue, bg, hintVars, messages, memoryVars, running>>

\* The updates used once turn t has read the holder.
Delivery(t) == IF holder = NoUpdate THEN delivered
               ELSE Append(delivered, [turn |-> t, src |-> holder.src, text |-> holder.text])

\* Mutant: the hint is read, not consumed.
ReadOnly(t) == delivered' = Delivery(t) /\ holder' = holder

\* PromptHolder.read_and_consume, by turn t.
ReadAndConsume(t) == delivered' = Delivery(t) /\ holder' = NoUpdate

\* _process_message up to its LLM call: the snapshot is queued, the pending
\* update is consumed (an update with an empty hint is consumed as well).
TakeMessage ==
    /\ Ready
    /\ inbound' = Tail(inbound)
    /\ persona' = [pc |-> "chat", turn |-> Head(inbound)]
    /\ queue' = Append(queue, Head(inbound))
    /\ ReadAndConsume(Head(inbound))
    /\ UNCHANGED <<userVars, outbound, bg, messages, memoryVars, running>>

\* The LLM answered: the exchange enters the session and the reply goes out.
\* When save() raises the exchange is in the session all the same, and run()
\* answers with the error text.
Reply ==
    /\ persona.pc = "chat"
    /\ messages' = messages \o Exchange(persona.turn)
    /\ \E kind \in {"reply", "error"} : PublishOutbound(persona.turn, kind)
    /\ persona' = PersonaRest
    /\ UNCHANGED <<userVars, inbound, queue, bg, hintVars, memoryVars, running>>

\* Mutant: a failed call is logged and not answered.
ReplyErrorSilent ==
    /\ persona.pc = "chat"
    /\ persona' = PersonaRest
    /\ UNCHANGED <<userVars, inbound, outbound, queue, bg, hintVars, messages, memoryVars, running>>

\* Mutant: the user's message is recorded before the call, and stays.
ReplyErrorRecorded ==
    /\ persona.pc = "chat"
    /\ messages' = Append(messages, [role |-> "user", turn |-> persona.turn])
    /\ PublishOutbound(persona.turn, "error")
    /\ persona' = PersonaRest
    /\ UNCHANGED <<userVars, inbound, queue, bg, hintVars, memoryVars, running>>

\* The LLM call raised: run() answers with the error text, nothing is recorded.
ReplyError ==
    /\ persona.pc = "chat"
    /\ PublishOutbound(persona.turn, "error")
    /\ persona' = PersonaRest
    /\ UNCHANGED <<userVars, inbound, queue, bg, hintVars, messages, memoryVars, running>>

\* The one-second wait timed out and the flag is down.
PersonaExit ==
    /\ persona.pc = "wait"
    /\ inbound = << >>
    /\ ~running
    /\ persona' = PersonaRest
    /\ UNCHANGED <<userVars, inbound, outbound, queue, bg, hintVars, messages, memoryVars, running>>

-----------------------------------------------------------------------------
(* Background lane. *)

TakeSnapshot ==
    /\ bg.pc = "wait"
    /\ queue # << >>
    /\ queue' = Tail(queue)
    /\ bg' = BgAt("analyze", Head(queue))
    /\ UNCHANGED <<userVars, personaVars, hintVars, messages, memoryVars, running>>

\* A write_file tool call of the agentic loop may grow or shrink MEMORY.md.
ToolWritesMemory ==
    /\ bg.pc = "analyze"
    /\ overBudget' = ~overBudget
    /\ UNCHANGED <<userVars, personaVars, queue, bg, hintVars, messages,
                   lastConsolidated, count, summaries, running>>

\* archive_old_memory is entered only over budget; the lane rests otherwise.
EnforceBudget == bg' = IF overBudget THEN BgAt("archive", bg.turn) ELSE BgRest

\* Mutant: the segment starts at the first message, whatever was summarised.
SegmentFromStart == [from |-> 0, to |-> Len(messages) - Keep]

\* Mutant: the segment reaches the newest message.
SegmentToEnd == [from |-> lastConsolidated, to |-> Len(messages)]

\* compress_session up to its LLM call: the segment [from, to) is fixed here.
Segment == [from |-> lastConsolidated, to |-> Len(messages) - Keep]

\* Mutant: one turn too late.
PastThreshold == count + 1 > Threshold

\* This turn brings the counter to the threshold.
AtThreshold == count + 1 >= Threshold

\* _analyze returned an update, whose hint may be empty: it replaces whatever
\* the holder has.  _maybe_consolidate then counts the turn, and at the
\* threshold starts the compression, if there is a segment to compress.
Analyzed ==
    /\ bg.pc = "analyze"
    /\ \E text \in BOOLEAN : holder' = [src |-> bg.turn, text |-> text]
    /\ \/ /\ ~AtThreshold
          /\ count' = count + 1
          /\ bg' = BgRest
       \/ /\ AtThreshold
          /\ count' = 0
          /\ IF Segment.from < Segment.to
             THEN bg' = [BgAt("compress", bg.turn) EXCEPT !.from = Segment.from,
                                                          !.to = Segment.to]
             ELSE EnforceBudget
    /\ UNCHANGED <<userVars, personaVars, queue, delivered, messages,
                   lastConsolidated, summaries, overBudget, running>>

\* Mutant: a dropped turn clears the update that waits.
DropTurnClears ==
    /\ bg.pc = "analyze"
    /\ holder' = NoUpdate
    /\ bg' = BgRest
    /\ UNCHANGED <<userVars, personaVars, queue, delivered, messages, memoryVars, running>>

\* _analyze timed out or raised: the turn is dropped, uncounted.
DropTurn ==
    /\ bg.pc = "analyze"
    /\ bg' = BgRest
    /\ UNCHANGED <<userVars, personaVars, queue, hintVars, messages, memoryVars, running>>

\* The summary arrived: it is appended to HISTORY.md and the mark moves to the
\* end that was captured before the call.  The messages are left in place.
Compressed ==
    /\ bg.pc = "compress"
    /\ summaries' = Append(summaries, [from |-> bg.from, to |-> bg.to])
    /\ lastConsolidated' = bg.to
    /\ EnforceBudget
    /\ UNCHANGED <<userVars, personaVars, queue, hintVars, messages, count, overBudget, running>>

\* No summary came back, or HISTORY.md could not be written.
CompressFailed ==
    /\ bg.pc = "compress"
    /\ EnforceBudget
    /\ UNCHANGED <<userVars, personaVars, queue, hintVars, messages, memoryVars, running>>

\* archive_old_memory returned: MEMORY.md is within the budget, or one of its
\* guards refused the answer and the file is as it was.
Archived ==
    /\ bg.pc = "archive"
    /\ overBudget' \in {FALSE, overBudget}
    /\ bg' = BgRest
    /\ UNCHANGED <<userVars, personaVars, queue, hintVars, messages,
                   lastConsolidated, count, summaries, running>>

BgExit ==
    /\ bg.pc = "wait"
    /\ queue = << >>
    /\ ~running
    /\ bg' = BgRest
    /\ UNCHANGED <<userVars, personaVars, queue, hintVars, messages, memoryVars, running>>

-----------------------------------------------------------------------------
PersonaNext == AnswerHelp \/ TakeMessage \/ Reply \/ ReplyError \/ PersonaExit

BgNext == \/ TakeSnapshot \/ ToolWritesMemory \/ Analyzed \/ DropTurn
          \/ Compressed \/ CompressFailed \/ Archived \/ BgExit

Next == PublishInbound \/ Stop \/ PersonaNext \/ BgNext

Spec == Init /\ [][Next]_vars

\* An LLM call of the persona lane ends (the provider has a timeout and a
\* bounded number of attempts) and a runnable task is run.  Nothing is asked
\* of the background lane: it may hang for ever.
PersonaFairSpec == Spec /\ WF_vars(PersonaNext)

\* The background lane finishes what it does: _analyze is under wait_for, so
\* whatever its tools do it ends; the two other calls end as the persona's do.
BgFairness ==
    WF_vars(\/ TakeSnapshot \/ Analyzed \/ DropTurn \/ Compressed
            \/ CompressFailed \/ Archived \/ BgExit)

-----------------------------------------------------------------------------
(* Safety. *)

InFlight == IF persona.pc = "chat" THEN 1 ELSE 0

\* Every message is answered exactly once, in the order the messages were
\* published: what has been answered, is being answered and still waits is
\* 1..sent (run() publishes one message per message it takes, on every path).
AnsweredInOrder ==
    /\ \A i \in 1..Len(outbound) : outbound[i].turn = i
    /\ persona.pc = "chat" => persona.turn = Len(outbound) + 1
    /\ \A i \in 1..Len(inbound) : inbound[i] = Len(outbound) + InFlight + i
    /\ sent = Len(outbound) + InFlight + Len(inbound)

\* A hint is used at most once, never after a newer one, never by the turn it
\* was computed from: the one-shot semantics of PromptHolder with one FIFO
\* background worker.
HintsInOrder ==
    /\ \A i \in 1..Len(delivered) : delivered[i].src < delivered[i].turn
    /\ \A i, j \in 1..Len(delivered) : i < j =>
            /\ delivered[i].src < delivered[j].src
            /\ delivered[i].turn < delivered[j].turn

\* The session is a sequence of whole exchanges in the order of the turns, it
\* has the exchange of every turn answered with a reply and none of a /help.
SessionHoldsReplies ==
    LET turnAt(k) == messages[2 * k].turn
        pairs == 1..(Len(messages) \div 2)
    IN  /\ Len(messages) % 2 = 0
        /\ \A k \in pairs : SubSeq(messages, 2 * k - 1, 2 * k) = Exchange(turnAt(k))
        /\ \A k, l \in pairs : k < l => turnAt(k) < turnAt(l)
        /\ \A i \in 1..Len(outbound) :
              LET recorded == \E k \in pairs : turnAt(k) = outbound[i].turn
              IN  /\ outbound[i].kind = "reply" => recorded
                  /\ outbound[i].kind = "help" => ~recorded

\* HISTORY.md summarises the first lastConsolidated messages of the session,
\* each in exactly one segment, although messages arrive during the LLM call.
SummariesPartition ==
    /\ \A i \in 1..Len(summaries) :
          /\ summaries[i].from < summaries[i].to
          /\ summaries[i].from = IF i = 1 THEN 0 ELSE summaries[i - 1].to
    /\ lastConsolidated = IF summaries = << >> THEN 0 ELSE summaries[Len(summaries)].to

\* The newest Keep messages are never summarised away.
TailKept == lastConsolidated > 0 => lastConsolidated + Keep <= Len(messages)

(* Refinement: the two lanes implement the abstract mailbox of hints. *)
Mailbox == INSTANCE HintMailbox WITH
    slot  <- holder.src,
    taken <- [i \in 1..Len(delivered) |-> delivered[i].src]

\* The hint channel behaves as a one-slot, latest-wins, take-once mailbox.
MailboxSpec == Mailbox!Spec

-----------------------------------------------------------------------------
(* Liveness. *)

\* "persona is never blocked": a published message is answered, whatever the
\* background lane does or fails to do, unless the lanes are stopped.
MessagesAnswered ==
    \A t \in Turns : (sent >= t) ~> (Len(outbound) >= t \/ ~running)

\* close() returns: once the flags are down both tasks end, given that the
\* background lane finishes what it has begun.
StopEnds == BgFairness => (~running ~> (persona.pc = "done" /\ bg.pc = "done"))
=============================================================================
