--------------------------- MODULE RoleplayProofs ---------------------------
(***************************************************************************)
(* Proofs about Roleplay, for any number of turns, any clock and any       *)
(* settings of the monitor.  The answers are inductive once the invariant  *)
(* says where the one message of the turn is: in the inbound queue, with   *)
(* the persona lane, in the outbound queue, or taken for the answer.       *)
(***************************************************************************)
EXTENDS Roleplay, SequenceTheorems, TLAPS

LEMMA Limits ==
    /\ MaxTurns \in Nat /\ MaxTime \in Nat /\ Threshold \in Nat /\ Cooldown \in Nat
    /\ MaxProactive \in Nat
BY ConstantsAssumption

-----------------------------------------------------------------------------
(* Types. *)

Within ==
    /\ cli.pc = "wait" /\ turnDone => cli.answer \in Outbound
    /\ loop.pc = "chat" => loop.turn \in Turns
    /\ monitor.pc = "generate" => activity.count < MaxProactive

TypeInv == TypeOK /\ Within

ConsoleTypes == [pc : {"input", "wait", "closing", "over"}, turn : 0..MaxTurns,
                 answer : Outbound \union {NoAnswer}]
LoopTypes    == [pc : {"wait", "chat", "done"}, turn : 0..MaxTurns]
Activities   == [seen : BOOLEAN, last : Times, cooldownUntil : 0..(MaxTime + Cooldown),
                 count : 0..MaxProactive]
Monitors     == [pc : {"sleep", "generate", "done"}, polled : Times]

LEMMA TypeInit == Init => TypeInv
<1> SUFFICES ASSUME Init PROVE TypeInv
    OBVIOUS
<1>1. printed \in Seq([msg : Outbound, during : 0..MaxTurns])
    BY DEF Init
<1>2. /\ inbound \in Seq(Turns) /\ outbound \in Seq(Outbound)
      /\ messages \in Seq(Turns) /\ archive \in Seq(Turns) /\ spoken \in Seq(Times)
    BY DEF Init
<1>3. cli \in ConsoleTypes
    BY Limits DEF Init, ConsoleTypes
<1>4. activity \in Activities /\ monitor \in Monitors /\ loop \in LoopTypes
    BY Limits DEF Init, NoActivity, Activities, Monitors, LoopTypes, Times
<1>5. now \in Times /\ turnDone \in BOOLEAN /\ printer \in BOOLEAN /\ running \in BOOLEAN
    BY Limits DEF Init, Times
<1>6. Within
    BY DEF Init, Within
<1> QED
    BY <1>1, <1>2, <1>3, <1>4, <1>5, <1>6
       DEF TypeInv, TypeOK, ConsoleTypes, Activities, Monitors, LoopTypes

LEMMA RestTyped == running \in BOOLEAN => AfterMessage \in LoopTypes /\ AfterMessage.pc # "chat"
BY Limits DEF AfterMessage, LoopTypes

LEMMA OutboundTyped ==
    /\ \A t \in Turns : \A k \in {"reply", "error", "help"} : [kind |-> k, turn |-> t] \in Outbound
    /\ [kind |-> "proactive", turn |-> 0] \in Outbound
BY DEF Outbound

LEMMA TypeStep == TypeInv /\ [Next]_vars => TypeInv'
<1> SUFFICES ASSUME TypeInv, [Next]_vars PROVE TypeInv'
    OBVIOUS
<1>0. /\ now \in Times /\ cli \in ConsoleTypes /\ loop \in LoopTypes
      /\ activity \in Activities /\ monitor \in Monitors
      /\ turnDone \in BOOLEAN /\ printer \in BOOLEAN /\ running \in BOOLEAN
    BY DEF TypeInv, TypeOK, ConsoleTypes, Activities, Monitors, LoopTypes
<1>00. /\ printed \in Seq([msg : Outbound, during : 0..MaxTurns])
       /\ inbound \in Seq(Turns) /\ outbound \in Seq(Outbound)
       /\ messages \in Seq(Turns) /\ archive \in Seq(Turns) /\ spoken \in Seq(Times)
    BY DEF TypeInv, TypeOK
<1> USE DEF TypeInv, TypeOK, Within
<1>1. CASE TimePasses
    <2>1. now' \in Times
        BY <1>0, <1>1, Limits DEF TimePasses, Times
    <2> QED
        BY <1>1, <2>1 DEF TimePasses, cliVars, loopVars, monitorVars
<1>2. CASE Submit
    <2>1. cli.turn + 1 \in Turns
        BY <1>0, <1>2, Limits DEF Submit, ConsoleTypes, Turns
    <2>2. inbound' \in Seq(Turns)
        BY <1>00, <1>2, <2>1, AppendProperties DEF Submit
    <2>3. cli' \in ConsoleTypes
        BY <1>2, <2>1 DEF Submit, ConsoleTypes, Turns
    <2> QED
        BY <1>0, <1>2, <2>2, <2>3 DEF Submit, ConsoleTypes, loopVars, monitorVars
<1>3. CASE TurnOver
    <2>1. cli.answer \in Outbound /\ cli.turn \in 0..MaxTurns
        BY <1>0, <1>3 DEF TurnOver, ConsoleTypes
    <2>2. [msg |-> cli.answer, during |-> cli.turn] \in [msg : Outbound, during : 0..MaxTurns]
        BY <2>1
    <2>3. printed' \in Seq([msg : Outbound, during : 0..MaxTurns])
        BY <1>00, <1>3, <2>2, AppendProperties DEF TurnOver
    <2>4. cli' \in ConsoleTypes /\ cli'.pc = "input"
        BY <1>0, <1>3 DEF TurnOver, ConsoleTypes
    <2> QED
        BY <1>0, <1>3, <2>3, <2>4 DEF TurnOver, ConsoleTypes, loopVars, monitorVars
<1>4. CASE Leave
    <2>1. archive' \in Seq(Turns)
        BY <1>00, <1>4 DEF Leave, Cached
    <2>2. cli' \in ConsoleTypes /\ cli'.pc = "closing"
        BY <1>0, <1>4 DEF Leave, ConsoleTypes
    <2>3. monitor' \in Monitors /\ monitor'.pc = "done"
        BY <1>0, <1>4 DEF Leave, Monitors
    <2> QED
        BY <1>0, <1>4, <2>1, <2>2, <2>3 DEF Leave, ConsoleTypes, Monitors, loopVars
<1>5. CASE Left
    <2>1. cli' \in ConsoleTypes /\ cli'.pc = "over"
        BY <1>0, <1>5 DEF Left, ConsoleTypes
    <2> QED
        BY <1>5, <2>1 DEF Left, ConsoleTypes, loopVars, monitorVars
<1>6. CASE Consume
    <2> DEFINE msg == Head(outbound)
    <2>1. msg \in Outbound /\ outbound' \in Seq(Outbound)
        BY <1>00, <1>6, HeadTailProperties DEF Consume
    <2>2. CASE /\ cli' = [cli EXCEPT !.answer = msg] /\ turnDone' = TRUE
               /\ UNCHANGED printed
        <3>1. cli' \in ConsoleTypes /\ cli'.answer \in Outbound
            BY <1>0, <2>1, <2>2 DEF ConsoleTypes
        <3> QED
            BY <1>6, <2>1, <2>2, <3>1 DEF Consume, ConsoleTypes, loopVars, monitorVars
    <2>3. CASE /\ printed' = Append(printed, [msg |-> msg, during |-> cli.turn])
               /\ UNCHANGED <<cli, turnDone>>
        <3>1. [msg |-> msg, during |-> cli.turn] \in [msg : Outbound, during : 0..MaxTurns]
            BY <1>0, <2>1 DEF ConsoleTypes
        <3>2. printed' \in Seq([msg : Outbound, during : 0..MaxTurns])
            BY <1>00, <2>3, <3>1, AppendProperties
        <3> QED
            BY <1>6, <2>1, <2>3, <3>2 DEF Consume, loopVars, monitorVars
    <2> QED
        BY <1>6, <2>2, <2>3 DEF Consume
<1>7. CASE TakeMessage
    <2>1. Head(inbound) \in Turns /\ inbound' \in Seq(Turns)
        BY <1>00, <1>7, HeadTailProperties DEF TakeMessage
    <2>2. activity' \in Activities /\ activity'.count = activity.count
        BY <1>0, <1>7 DEF TakeMessage, RecordUserActivity, Activities
    <2>3. /\ outbound' \in Seq(Outbound)
          /\ loop' \in LoopTypes /\ (loop'.pc = "chat" => loop'.turn \in Turns)
        <3>1. CASE loop' = [pc |-> "chat", turn |-> Head(inbound)] /\ UNCHANGED outbound
            BY <1>00, <2>1, <3>1, Limits DEF LoopTypes, Turns
        <3>2. CASE /\ outbound' = Append(outbound, [kind |-> "help", turn |-> Head(inbound)])
                   /\ loop' = AfterMessage
            <4>1. [kind |-> "help", turn |-> Head(inbound)] \in Outbound
                BY <2>1, OutboundTyped
            <4> QED
                BY <1>0, <1>00, <3>2, <4>1, RestTyped, AppendProperties
        <3> QED
            BY <1>7, <3>1, <3>2 DEF TakeMessage
    <2> QED
        BY <1>0, <1>7, <2>1, <2>2, <2>3
           DEF TakeMessage, Activities, LoopTypes, cliVars, monitorVars
<1>8. CASE Reply
    <2>1. loop.turn \in Turns
        BY <1>8 DEF Reply
    <2>2. messages' \in Seq(Turns)
        BY <1>00, <1>8, <2>1, AppendProperties DEF Reply
    <2>3. [kind |-> "reply", turn |-> loop.turn] \in Outbound
        BY <2>1, OutboundTyped
    <2>4. outbound' \in Seq(Outbound)
        BY <1>00, <1>8, <2>3, AppendProperties DEF Reply
    <2>5. loop' \in LoopTypes /\ loop'.pc # "chat"
        BY <1>0, <1>8, RestTyped DEF Reply
    <2> QED
        BY <1>8, <2>2, <2>4, <2>5 DEF Reply, LoopTypes, cliVars, monitorVars
<1>9. CASE ReplyError
    <2>1. [kind |-> "error", turn |-> loop.turn] \in Outbound
        BY <1>9, OutboundTyped DEF ReplyError
    <2>2. outbound' \in Seq(Outbound)
        BY <1>00, <1>9, <2>1, AppendProperties DEF ReplyError
    <2>3. loop' \in LoopTypes /\ loop'.pc # "chat"
        BY <1>0, <1>9, RestTyped DEF ReplyError
    <2> QED
        BY <1>9, <2>2, <2>3 DEF ReplyError, LoopTypes, cliVars, monitorVars
<1>10. CASE LoopExit
    <2>1. loop' \in LoopTypes /\ loop'.pc # "chat"
        BY <1>0, <1>10, RestTyped DEF LoopExit
    <2> QED
        BY <1>10, <2>1 DEF LoopExit, LoopTypes, cliVars, monitorVars
<1>11. CASE Tick
    <2>1. monitor' \in Monitors
        BY <1>0, <1>11 DEF Tick, Monitors
    <2>2. monitor'.pc = "generate" => activity.count < MaxProactive
        BY <1>0, <1>11 DEF Tick, Monitors, ShouldTrigger
    <2> QED
        BY <1>11, <2>1, <2>2 DEF Tick, Monitors, cliVars, loopVars
<1>12. CASE Speak
    <2>1. outbound' \in Seq(Outbound)
        BY <1>00, <1>12, OutboundTyped, AppendProperties DEF Speak
    <2>2. activity' \in Activities
        <3>1. now + Cooldown \in 0..(MaxTime + Cooldown)
            BY <1>0, Limits DEF Times
        <3>2. activity.count + 1 \in 0..MaxProactive
            <4>1. activity.count \in 0..MaxProactive /\ activity.count < MaxProactive
                BY <1>0, <1>12 DEF Speak, Activities
            <4> QED
                BY <4>1, Limits
        <3>3. activity' = [seen |-> activity.seen, last |-> activity.last,
                           cooldownUntil |-> now + Cooldown, count |-> activity.count + 1]
            BY <1>0, <1>12 DEF Speak, Activities
        <3> QED
            BY <1>0, <3>1, <3>2, <3>3 DEF Activities
    <2>3. monitor' \in Monitors /\ monitor'.pc = "sleep"
        BY <1>0, <1>12 DEF Speak, Monitors
    <2>4. spoken' \in Seq(Times)
        BY <1>0, <1>00, <1>12, AppendProperties DEF Speak
    <2> QED
        BY <1>12, <2>1, <2>2, <2>3, <2>4 DEF Speak, Activities, Monitors, cliVars, loopVars
<1>13. CASE StaySilent
    <2>1. monitor' \in Monitors /\ monitor'.pc = "sleep"
        BY <1>0, <1>13 DEF StaySilent, Monitors
    <2> QED
        BY <1>13, <2>1 DEF StaySilent, Monitors, cliVars, loopVars
<1>14. CASE UNCHANGED vars
    BY <1>14 DEF vars
<1> QED
    BY <1>1, <1>2, <1>3, <1>4, <1>5, <1>6, <1>7, <1>8, <1>9, <1>10, <1>11, <1>12, <1>13, <1>14
       DEF Next, Persona, Monitor

\* The variables keep their types; the monitor's count never passes the cap.
THEOREM TypeCorrect == Spec => []TypeOK
<1>1. Init => TypeInv
    BY TypeInit
<1>2. TypeInv /\ [Next]_vars => TypeInv'
    BY TypeStep
<1>3. TypeInv => TypeOK
    BY DEF TypeInv
<1> QED
    BY <1>1, <1>2, <1>3, PTL DEF Spec

-----------------------------------------------------------------------------
(* What the monitor says. *)

\* The entry of the session knows how often and when the monitor spoke last.
Spoken ==
    /\ Len(spoken) = activity.count
    /\ activity.count > 0 => spoken[activity.count] + Cooldown = activity.cooldownUntil
    /\ monitor.pc = "generate" => now >= activity.cooldownUntil
    /\ \A i \in 1..(Len(spoken) - 1) : spoken[i + 1] - spoken[i] >= Cooldown

LEMMA SpokenInit == Init => Spoken
<1> SUFFICES ASSUME Init PROVE Spoken
    OBVIOUS
<1>1. Len(spoken) = 0 /\ activity.count = 0 /\ monitor.pc = "sleep"
    BY DEF Init, NoActivity
<1> QED
    BY <1>1 DEF Spoken

LEMMA SpokenStep == TypeInv /\ Spoken /\ [Next]_vars => Spoken'
<1> SUFFICES ASSUME TypeInv, Spoken, [Next]_vars PROVE Spoken'
    OBVIOUS
<1>0. /\ now \in Nat /\ spoken \in Seq(Times) /\ activity \in Activities /\ monitor \in Monitors
      /\ \A i \in 1..Len(spoken) : spoken[i] \in Nat
      /\ Len(spoken) \in Nat
    <2>1. spoken \in Seq(Times) /\ now \in Times
        BY DEF TypeInv, TypeOK
    <2>2. Times \subseteq Nat
        BY DEF Times
    <2>3. \A i \in 1..Len(spoken) : spoken[i] \in Times
        BY <2>1, ElementOfSeq
    <2>4. activity \in Activities /\ monitor \in Monitors
        BY DEF TypeInv, TypeOK, Activities, Monitors
    <2> QED
        BY <2>1, <2>2, <2>3, <2>4, LenProperties
<1>1. CASE UNCHANGED <<spoken, activity>> /\ now' \in {now, now + 1}
           /\ (monitor'.pc = "generate" => monitor.pc = "generate" \/ now' >= activity.cooldownUntil)
    BY <1>0, <1>1 DEF Spoken, Activities
<1>2. CASE TakeMessage
    <2>1. /\ activity'.count = activity.count /\ activity'.cooldownUntil = activity.cooldownUntil
          /\ UNCHANGED <<spoken, monitor, now>>
        BY <1>0, <1>2 DEF TakeMessage, RecordUserActivity, Activities, monitorVars
    <2> QED
        BY <2>1 DEF Spoken
<1>3. CASE Speak
    <2> DEFINE n == Len(spoken)
    <2>1. /\ spoken' = Append(spoken, now) /\ monitor'.pc = "sleep" /\ now' = now
          /\ now >= activity.cooldownUntil
        BY <1>0, <1>3 DEF Speak, Spoken, Monitors
    <2>2. /\ Len(spoken') = n + 1 /\ spoken'[n + 1] = now
          /\ \A i \in 1..n : spoken'[i] = spoken[i]
        BY <1>0, <2>1, AppendProperties DEF TypeInv, TypeOK
    <2>3. activity' = [seen |-> activity.seen, last |-> activity.last,
                       cooldownUntil |-> now + Cooldown, count |-> activity.count + 1]
        BY <1>0, <1>3 DEF Speak, Activities
    <2>4. activity'.count = n + 1 /\ activity'.cooldownUntil = now + Cooldown
        BY <2>3 DEF Spoken
    <2>5. ASSUME NEW i \in 1..n PROVE spoken'[i + 1] - spoken'[i] >= Cooldown
        <3>1. CASE i = n
            <4>1. spoken[n] + Cooldown = activity.cooldownUntil
                BY <1>0, <2>5, <3>1 DEF Spoken
            <4> QED
                BY <1>0, <2>1, <2>2, <3>1, <4>1, Limits
        <3>2. CASE i # n
            <4>1. i \in 1..(n - 1) /\ i + 1 \in 1..n
                BY <1>0, <3>2
            <4> QED
                BY <2>2, <4>1 DEF Spoken
        <3> QED
            BY <3>1, <3>2
    <2> QED
        BY <1>0, <2>1, <2>2, <2>4, <2>5 DEF Spoken
<1>4. CASE Tick
    <2>1. monitor'.pc = "generate" => now' >= activity.cooldownUntil
        BY <1>0, <1>4 DEF Tick, ShouldTrigger, Monitors
    <2> QED
        BY <1>1, <1>4, <2>1 DEF Tick
<1>5. CASE Leave
    <2>1. monitor'.pc = "done" /\ UNCHANGED <<spoken, activity, now>>
        BY <1>0, <1>5 DEF Leave, Monitors
    <2> QED
        BY <1>1, <2>1
<1>6. CASE StaySilent
    <2>1. monitor'.pc = "sleep" /\ UNCHANGED <<spoken, activity, now>>
        BY <1>6 DEF StaySilent
    <2> QED
        BY <1>1, <2>1
<1>7. CASE TimePasses
    BY <1>1, <1>7 DEF TimePasses, monitorVars
<1>8. CASE Submit \/ TurnOver \/ Left \/ Consume
    BY <1>1, <1>8 DEF Submit, TurnOver, Left, Consume, monitorVars
<1>9. CASE Reply \/ ReplyError \/ LoopExit \/ UNCHANGED vars
    BY <1>1, <1>9 DEF Reply, ReplyError, LoopExit, monitorVars, vars
<1> QED
    BY <1>2, <1>3, <1>4, <1>5, <1>6, <1>7, <1>8, <1>9 DEF Next, Persona, Monitor

\* The cap and the cooldown hold, whatever the user does between a decision to
\* speak and what is said.
THEOREM SpeechIsBounded == Spec => []SpeechBounded
<1>1. Init => TypeInv /\ Spoken
    BY TypeInit, SpokenInit
<1>2. TypeInv /\ Spoken /\ [Next]_vars => TypeInv' /\ Spoken'
    BY TypeStep, SpokenStep
<1>3. TypeInv /\ Spoken => SpeechBounded
    BY Limits DEF TypeInv, TypeOK, Spoken, SpeechBounded
<1> QED
    BY <1>1, <1>2, <1>3, PTL DEF Spec

-----------------------------------------------------------------------------
(* The answers. *)

Live   == cli.pc \in {"input", "wait"}
InTurn == cli.pc = "wait" /\ ~turnDone

\* The message of the turn, or the answer to it, is in one place at most.
Placed ==
    /\ cli.pc = "input" => turnDone
    /\ cli.pc = "wait" /\ turnDone => cli.answer.kind # "proactive" /\ cli.answer.turn = cli.turn
    /\ \A i \in 1..Len(inbound) : i = 1 /\ inbound[i] = cli.turn /\ InTurn /\ loop.pc # "chat"
    /\ loop.pc = "chat" => loop.turn = cli.turn /\ InTurn
    /\ \A i \in 1..Len(outbound) : outbound[i].kind # "proactive" =>
          outbound[i].turn = cli.turn /\ InTurn /\ inbound = << >> /\ loop.pc # "chat"
    /\ \A i, j \in 1..Len(outbound) :
          outbound[i].kind # "proactive" /\ outbound[j].kind # "proactive" => i = j

\* The answers shown are those of the turns before, in order.
Shown ==
    /\ \A i \in 1..Len(printed) : printed[i].msg.kind # "proactive" =>
          /\ printed[i].msg.turn = printed[i].during
          /\ printed[i].msg.turn <= cli.turn
          /\ cli.pc = "wait" => printed[i].msg.turn < cli.turn
    /\ \A i, j \in 1..Len(printed) :
          i < j /\ "proactive" \notin {printed[i].msg.kind, printed[j].msg.kind}
             => printed[i].msg.turn < printed[j].msg.turn

Answers == (Live => Placed) /\ Shown /\ (printer => Live)

LEMMA AnswersInit == Init => Answers
<1> SUFFICES ASSUME Init PROVE Answers
    OBVIOUS
<1>1. /\ Len(inbound) = 0 /\ Len(outbound) = 0 /\ Len(printed) = 0
      /\ cli.pc = "input" /\ turnDone /\ loop.pc = "wait"
    BY DEF Init
<1> QED
    BY <1>1 DEF Answers, Placed, Shown, Live

LEMMA AnswersStep == TypeInv /\ TypeInv' /\ Answers /\ [Next]_vars => Answers'
<1> SUFFICES ASSUME TypeInv, TypeInv', Answers, [Next]_vars PROVE Answers'
    OBVIOUS
<1>0. /\ inbound \in Seq(Turns) /\ outbound \in Seq(Outbound)
      /\ printed \in Seq([msg : Outbound, during : 0..MaxTurns])
      /\ cli \in ConsoleTypes /\ loop \in LoopTypes
      /\ Len(inbound) \in Nat /\ Len(outbound) \in Nat /\ Len(printed) \in Nat
      /\ cli.turn \in Nat
    BY LenProperties DEF TypeInv, TypeOK, ConsoleTypes, LoopTypes
<1>00. AfterMessage.pc # "chat"
    BY DEF AfterMessage
<1>1. CASE UNCHANGED <<cli, turnDone, printer, printed, inbound, outbound, loop>>
    BY <1>1 DEF Answers, Live, Placed, InTurn, Shown
<1>2. CASE Submit
    <2>1. Placed /\ Live /\ turnDone /\ Len(inbound) = 0 /\ ~InTurn
        <3>1. Placed /\ Live /\ turnDone /\ ~InTurn
            BY <1>2 DEF Submit, Answers, Live, Placed, InTurn
        <3>2. ~(1 \in 1..Len(inbound))
            BY <3>1 DEF Placed
        <3> QED
            BY <1>0, <3>1, <3>2
    <2>2. cli.turn + 1 \in Turns
        BY <1>0, <1>2, Limits DEF Submit, Turns
    <2>3. /\ inbound' = Append(inbound, cli.turn + 1)
          /\ Len(inbound') = 1 /\ inbound'[1] = cli.turn + 1
        BY <1>0, <1>2, <2>1, <2>2, AppendProperties DEF Submit
    <2>4. /\ cli'.pc = "wait" /\ cli'.turn = cli.turn + 1 /\ ~turnDone'
          /\ UNCHANGED <<outbound, loop, printed, printer>>
        BY <1>2 DEF Submit, loopVars
    <2>5. /\ \A i \in 1..Len(outbound) : outbound[i].kind = "proactive"
          /\ loop.pc # "chat"
        BY <2>1 DEF Placed
    <2>6. Placed'
        BY <2>3, <2>4, <2>5 DEF Placed, InTurn
    <2>7. Shown'
        <3>1. \A i \in 1..Len(printed) : printed[i].msg.kind # "proactive" =>
                  /\ printed[i].msg.turn = printed[i].during /\ printed[i].msg.turn <= cli.turn
            BY DEF Answers, Shown
        <3>2. \A i \in 1..Len(printed) : printed[i].during \in Nat
            <4>1. \A i \in 1..Len(printed) : printed[i] \in [msg : Outbound, during : 0..MaxTurns]
                BY <1>0, ElementOfSeq
            <4> QED
                BY <4>1
        <3>3. \A i \in 1..Len(printed) : printed[i].msg.kind # "proactive" =>
                  printed[i].msg.turn < cli.turn + 1 /\ printed[i].msg.turn <= cli.turn + 1
            BY <1>0, <3>1, <3>2
        <3> QED
            <4>1. /\ cli'.turn = cli.turn + 1 /\ printed' = printed
                  /\ \A i, j \in 1..Len(printed) :
                        i < j /\ "proactive" \notin {printed[i].msg.kind, printed[j].msg.kind}
                           => printed[i].msg.turn < printed[j].msg.turn
                BY <2>4 DEF Answers, Shown
            <4> QED
                BY <3>1, <3>3, <4>1 DEF Shown
    <2> QED
        BY <2>4, <2>6, <2>7 DEF Answers, Live
<1>3. CASE TurnOver
    <2>1. /\ Placed /\ turnDone /\ cli.pc = "wait" /\ cli.answer \in Outbound
          /\ cli.answer.kind # "proactive" /\ cli.answer.turn = cli.turn
        BY <1>3 DEF TurnOver, Answers, Live, Placed, TypeInv, Within
    <2>2. /\ cli'.pc = "input" /\ cli'.turn = cli.turn
          /\ UNCHANGED <<turnDone, outbound, inbound, loop, printer>>
        BY <1>0, <1>3 DEF TurnOver, ConsoleTypes, loopVars
    <2> DEFINE e == [msg |-> cli.answer, during |-> cli.turn]
               n == Len(printed)
    <2>3. printed' = Append(printed, e)
        BY <1>3 DEF TurnOver
    <2>4. e \in [msg : Outbound, during : 0..MaxTurns]
        BY <1>0, <2>1 DEF ConsoleTypes
    <2>5. /\ Len(printed') = n + 1 /\ printed'[n + 1] = e
          /\ \A i \in 1..n : printed'[i] = printed[i]
        BY <1>0, <2>3, <2>4, AppendProperties
    <2>6. Placed'
        BY <2>1, <2>2 DEF Placed, InTurn
    <2>7. \A i \in 1..n : printed[i].msg.kind # "proactive" =>
              /\ printed[i].msg.turn = printed[i].during /\ printed[i].msg.turn < cli.turn
              /\ printed[i].msg.turn <= cli.turn
        BY <2>1 DEF Answers, Shown
    <2>8. \A i \in 1..(n + 1) : printed'[i].msg.kind # "proactive" =>
              printed'[i].msg.turn = printed'[i].during /\ printed'[i].msg.turn <= cli.turn
        <3>1. e.msg.turn = e.during /\ e.msg.turn <= cli.turn
            BY <1>0, <2>1
        <3> QED
            <4> SUFFICES ASSUME NEW i \in 1..(n + 1), printed'[i].msg.kind # "proactive"
                         PROVE  printed'[i].msg.turn = printed'[i].during /\ printed'[i].msg.turn <= cli.turn
                OBVIOUS
            <4>1. CASE i \in 1..n
                BY <2>5, <2>7, <4>1
            <4>2. CASE i = n + 1
                BY <2>5, <3>1, <4>2
            <4> QED
                BY <1>0, <4>1, <4>2
    <2>9. ASSUME NEW i \in 1..(n + 1), NEW j \in 1..(n + 1), i < j,
                 printed'[i].msg.kind # "proactive", printed'[j].msg.kind # "proactive"
          PROVE  printed'[i].msg.turn < printed'[j].msg.turn
        <3>1. i \in 1..n
            BY <1>0, <2>9
        <3>2. CASE j = n + 1
            BY <2>1, <2>5, <2>7, <2>9, <3>1, <3>2
        <3>3. CASE j \in 1..n
            BY <2>5, <2>9, <3>1, <3>3 DEF Answers, Shown
        <3> QED
            BY <1>0, <3>2, <3>3
    <2>10. Shown'
        BY <2>2, <2>5, <2>8, <2>9 DEF Shown
    <2> QED
        BY <2>2, <2>6, <2>10 DEF Answers, Live
<1>4. CASE Leave \/ Left
    <2>1. /\ cli'.pc \in {"closing", "over"} /\ cli'.turn = cli.turn
          /\ printed' = printed /\ (printer' => Left /\ printer)
        BY <1>0, <1>4 DEF Leave, Left, ConsoleTypes
    <2>2. ~printer'
        BY <1>4, <2>1 DEF Leave, Left, Answers, Live
    <2> QED
        BY <2>1, <2>2 DEF Answers, Live, Shown
<1>5. CASE Consume
    <2> DEFINE msg == Head(outbound)
               n == Len(printed)
    <2>1. /\ Live /\ Placed /\ outbound' = Tail(outbound) /\ outbound # << >>
          /\ UNCHANGED <<inbound, loop, printer>>
        BY <1>5 DEF Consume, Answers, loopVars
    <2>2. /\ msg = outbound[1] /\ msg \in Outbound /\ 1 \in 1..Len(outbound)
          /\ Len(outbound') = Len(outbound) - 1
          /\ \A i \in 1..Len(outbound') : i + 1 \in 1..Len(outbound) /\ outbound'[i] = outbound[i + 1]
        BY <1>0, <2>1, HeadTailProperties
    <2>3. CASE /\ IsAnswer(msg) /\ cli' = [cli EXCEPT !.answer = msg]
               /\ turnDone' = TRUE /\ UNCHANGED printed
        <3>1. /\ msg.kind # "proactive" /\ msg.turn = cli.turn /\ InTurn
              /\ Len(inbound) = 0 /\ loop.pc # "chat"
            <4>1. msg.kind # "proactive"
                BY <2>3 DEF IsAnswer
            <4>2. msg.turn = cli.turn /\ InTurn /\ inbound = << >> /\ loop.pc # "chat"
                BY <2>1, <2>2, <4>1 DEF Placed
            <4> QED
                BY <4>1, <4>2
        <3>2. /\ cli'.pc = "wait" /\ cli.pc = "wait" /\ cli'.turn = cli.turn /\ cli'.answer = msg
            BY <1>0, <2>3, <3>1 DEF ConsoleTypes, InTurn
        <3>3. \A i \in 1..Len(outbound') : outbound'[i].kind = "proactive"
            <4> SUFFICES ASSUME NEW i \in 1..Len(outbound'), outbound'[i].kind # "proactive"
                         PROVE  FALSE
                OBVIOUS
            <4>1. i + 1 \in 1..Len(outbound) /\ outbound[i + 1].kind # "proactive"
                BY <2>2
            <4>2. i + 1 = 1
                BY <2>1, <2>2, <3>1, <4>1 DEF Placed
            <4> QED
                BY <4>2
        <3>4. Placed'
            BY <2>1, <2>3, <3>1, <3>2, <3>3 DEF Placed
        <3>5. Shown'
            BY <2>3, <3>2 DEF Answers, Shown
        <3> QED
            BY <2>1, <3>2, <3>4, <3>5 DEF Answers, Live
    <2>4. CASE /\ ~IsAnswer(msg) /\ UNCHANGED <<cli, turnDone>>
               /\ printed' = Append(printed, [msg |-> msg, during |-> cli.turn])
        <3>1. msg.kind = "proactive"
            BY <2>1, <2>2, <2>4 DEF IsAnswer, Placed, InTurn
        <3>2. [msg |-> msg, during |-> cli.turn] \in [msg : Outbound, during : 0..MaxTurns]
            BY <1>0, <2>2 DEF ConsoleTypes
        <3>3. /\ Len(printed') = n + 1 /\ printed'[n + 1].msg.kind = "proactive"
              /\ \A i \in 1..n : printed'[i] = printed[i]
            BY <1>0, <2>4, <3>1, <3>2, AppendProperties
        <3>4. \A i \in 1..(n + 1) : printed'[i].msg.kind # "proactive" => i \in 1..n
            BY <1>0, <3>3
        <3>5. Shown'
            BY <2>4, <3>3, <3>4 DEF Answers, Shown
        <3>6. Placed'
            <4>1. ASSUME NEW i \in 1..Len(outbound'), outbound'[i].kind # "proactive"
                  PROVE  (outbound[i].turn = cli.turn /\ InTurn /\ inbound = << >> /\ loop.pc # "chat")'
                BY <2>1, <2>2, <2>4, <4>1 DEF Placed, InTurn
            <4>2. ASSUME NEW i \in 1..Len(outbound'), NEW j \in 1..Len(outbound'),
                         outbound'[i].kind # "proactive", outbound'[j].kind # "proactive"
                  PROVE  i = j
                <5>1. i + 1 = j + 1
                    BY <2>1, <2>2, <4>2 DEF Placed
                <5> QED
                    BY <1>0, <2>2, <5>1
            <4> QED
                BY <2>1, <2>4, <4>1, <4>2 DEF Placed, InTurn
        <3> QED
            BY <2>1, <2>4, <3>5, <3>6 DEF Answers, Live
    <2> QED
        BY <1>5, <2>3, <2>4 DEF Consume
<1>6. CASE TakeMessage
    <2>1. /\ loop.pc = "wait" /\ inbound # << >> /\ inbound' = Tail(inbound)
          /\ UNCHANGED <<cli, turnDone, printer, printed>>
        BY <1>6 DEF TakeMessage, cliVars
    <2>2. /\ Head(inbound) = inbound[1] /\ Head(inbound) \in Turns /\ 1 \in 1..Len(inbound)
          /\ Len(inbound') = Len(inbound) - 1
        BY <1>0, <2>1, HeadTailProperties
    <2>3. ASSUME Live PROVE Placed'
        <3>1. Placed
            BY <2>3 DEF Answers
        <3>2. Len(inbound) = 1 /\ Head(inbound) = cli.turn /\ InTurn /\ Len(inbound') = 0
            <4>1. ~(2 \in 1..Len(inbound))
                BY <3>1 DEF Placed
            <4> QED
                BY <1>0, <2>2, <3>1, <4>1 DEF Placed
        <3>3. \A i \in 1..Len(outbound) : outbound[i].kind = "proactive"
            BY <2>1, <3>1 DEF Placed
        <3>4. CASE loop' = [pc |-> "chat", turn |-> Head(inbound)] /\ UNCHANGED outbound
            <4>1. loop'.pc = "chat" /\ loop'.turn = cli.turn /\ cli.pc = "wait" /\ ~turnDone
                BY <3>2, <3>4 DEF InTurn
            <4>2. \A i \in 1..Len(inbound') : FALSE
                BY <3>2
            <4> QED
                BY <2>1, <3>3, <3>4, <4>1, <4>2 DEF Placed, InTurn
        <3>5. CASE /\ outbound' = Append(outbound, [kind |-> "help", turn |-> Head(inbound)])
                   /\ loop' = AfterMessage
            <4> DEFINE n == Len(outbound)
            <4>1. [kind |-> "help", turn |-> Head(inbound)] \in Outbound
                BY <2>2, OutboundTyped
            <4>2. /\ Len(outbound') = n + 1 /\ outbound'[n + 1].turn = cli.turn
                  /\ \A i \in 1..n : outbound'[i].kind = "proactive"
                BY <1>0, <3>2, <3>3, <3>5, <4>1, AppendProperties
            <4>3. \A i \in 1..(n + 1) : outbound'[i].kind # "proactive" => i = n + 1
                BY <1>0, <4>2
            <4>4. inbound' = << >>
                BY <3>2 DEF TypeInv, TypeOK
            <4> QED
                BY <1>00, <2>1, <3>1, <3>2, <3>5, <4>2, <4>3, <4>4 DEF Placed, InTurn
        <3> QED
            BY <1>6, <3>4, <3>5 DEF TakeMessage
    <2> QED
        BY <2>1, <2>3 DEF Answers, Live, Shown
<1>7. CASE Reply \/ ReplyError
    <2>1. PICK k \in {"reply", "error"} :
              /\ outbound' = Append(outbound, [kind |-> k, turn |-> loop.turn])
              /\ loop.pc = "chat" /\ loop' = AfterMessage
              /\ UNCHANGED <<cli, turnDone, printer, printed, inbound>>
        BY <1>7 DEF Reply, ReplyError, cliVars
    <2>2. ASSUME Live PROVE Placed'
        <3>1. Placed /\ loop.turn = cli.turn /\ InTurn
            BY <2>1, <2>2 DEF Answers, Placed
        <3>2. /\ \A i \in 1..Len(outbound) : outbound[i].kind = "proactive"
              /\ ~(1 \in 1..Len(inbound))
            BY <2>1, <3>1 DEF Placed
        <3>3. inbound = << >>
            BY <1>0, <3>2
        <3> DEFINE n == Len(outbound)
        <3>4. [kind |-> k, turn |-> loop.turn] \in Outbound
            BY <2>1, OutboundTyped DEF TypeInv, Within
        <3>5. /\ Len(outbound') = n + 1 /\ outbound'[n + 1].turn = cli.turn
              /\ \A i \in 1..n : outbound'[i].kind = "proactive"
            BY <1>0, <2>1, <3>1, <3>2, <3>4, AppendProperties
        <3>6. \A i \in 1..(n + 1) : outbound'[i].kind # "proactive" => i = n + 1
            BY <1>0, <3>5
        <3> QED
            BY <1>00, <2>1, <3>1, <3>3, <3>5, <3>6 DEF Placed, InTurn
    <2> QED
        BY <2>1, <2>2 DEF Answers, Live, Shown
<1>8. CASE LoopExit
    <2>1. loop' = AfterMessage /\ UNCHANGED <<cli, turnDone, printer, printed, inbound, outbound>>
        BY <1>8 DEF LoopExit, cliVars
    <2> QED
        BY <1>00, <2>1 DEF Answers, Live, Placed, InTurn, Shown
<1>9. CASE Speak
    <2> DEFINE n == Len(outbound)
    <2>1. /\ outbound' = Append(outbound, [kind |-> "proactive", turn |-> 0])
          /\ UNCHANGED <<cli, turnDone, printer, printed, inbound, loop>>
        BY <1>9 DEF Speak, cliVars, loopVars
    <2>2. /\ Len(outbound') = n + 1 /\ outbound'[n + 1].kind = "proactive"
          /\ \A i \in 1..n : outbound'[i] = outbound[i]
        BY <1>0, <2>1, OutboundTyped, AppendProperties
    <2>3. \A i \in 1..(n + 1) : outbound'[i].kind # "proactive" => i \in 1..n
        BY <1>0, <2>2
    <2> QED
        BY <2>1, <2>2, <2>3 DEF Answers, Live, Placed, InTurn, Shown
<1>10. CASE TimePasses \/ Tick \/ StaySilent \/ UNCHANGED vars
    BY <1>1, <1>10 DEF TimePasses, Tick, StaySilent, vars, cliVars, loopVars
<1> QED
    BY <1>2, <1>3, <1>4, <1>5, <1>6, <1>7, <1>8, <1>9, <1>10 DEF Next, Persona, Monitor

\* What is shown as an answer answers the message of its turn, and no turn is
\* shown twice, wherever the monitor's messages fall.
THEOREM AnswersAreMatched == Spec => []AnswersMatchTurns
<1>1. Init => TypeInv /\ Answers
    BY TypeInit, AnswersInit
<1>2. TypeInv /\ Answers /\ [Next]_vars => TypeInv' /\ Answers'
    BY TypeStep, AnswersStep
<1>3. Answers => AnswersMatchTurns
    BY DEF Answers, Shown, AnswersMatchTurns
<1> QED
    BY <1>1, <1>2, <1>3, PTL DEF Spec

-----------------------------------------------------------------------------
(* The transcript. *)

In(t, seq) == \E k \in 1..Len(seq) : seq[k] = t

\* Every reply on its way to the user is in the session, and every one that was
\* shown before the session was archived is in the archive.
Replied ==
    /\ \A i \in 1..Len(outbound) : outbound[i].kind = "reply" => In(outbound[i].turn, messages)
    /\ cli.answer.kind = "reply" => In(cli.answer.turn, messages)
    /\ \A i \in 1..Len(printed) :
          printed[i].msg.kind = "reply" => In(printed[i].msg.turn, messages)
    /\ TranscriptHasReplies

LEMMA RepliedInit == Init => Replied
<1> SUFFICES ASSUME Init PROVE Replied
    OBVIOUS
<1>1. /\ Len(outbound) = 0 /\ Len(printed) = 0 /\ cli.answer.kind = "none" /\ cli.pc = "input"
    BY DEF Init, NoAnswer
<1> QED
    BY <1>1 DEF Replied, TranscriptHasReplies

LEMMA RepliedStep == TypeInv /\ Answers /\ Replied /\ [Next]_vars => Replied'
<1> SUFFICES ASSUME TypeInv, Answers, Replied, [Next]_vars PROVE Replied'
    OBVIOUS
<1>0. /\ outbound \in Seq(Outbound) /\ messages \in Seq(Turns)
      /\ printed \in Seq([msg : Outbound, during : 0..MaxTurns])
      /\ cli \in ConsoleTypes
      /\ Len(outbound) \in Nat /\ Len(messages) \in Nat /\ Len(printed) \in Nat
    BY LenProperties DEF TypeInv, TypeOK, ConsoleTypes
<1>1. CASE UNCHANGED <<cli, printed, outbound, messages, archive>>
    BY <1>1 DEF Replied, In, TranscriptHasReplies
<1>2. CASE Submit
    <2>1. cli'.pc = "wait" /\ cli'.answer.kind = "none" /\ UNCHANGED <<outbound, printed, messages>>
        BY <1>2 DEF Submit, NoAnswer, loopVars
    <2> QED
        BY <2>1 DEF Replied, In, TranscriptHasReplies
<1>3. CASE TurnOver
    <2> DEFINE e == [msg |-> cli.answer, during |-> cli.turn]
               n == Len(printed)
    <2>1. /\ printed' = Append(printed, e) /\ cli'.pc = "input" /\ cli'.answer = cli.answer
          /\ UNCHANGED <<outbound, messages>>
        BY <1>0, <1>3 DEF TurnOver, ConsoleTypes, loopVars
    <2>2. e \in [msg : Outbound, during : 0..MaxTurns]
        BY <1>0, <1>3 DEF TurnOver, TypeInv, Within, ConsoleTypes
    <2>3. /\ Len(printed') = n + 1 /\ printed'[n + 1].msg = cli.answer
          /\ \A i \in 1..n : printed'[i] = printed[i]
        BY <1>0, <2>1, <2>2, AppendProperties
    <2>4. ASSUME NEW i \in 1..(n + 1), printed'[i].msg.kind = "reply"
          PROVE  In(printed'[i].msg.turn, messages)
        <3>1. CASE i \in 1..n
            BY <2>3, <2>4, <3>1 DEF Replied
        <3>2. CASE i = n + 1
            BY <2>3, <2>4, <3>2 DEF Replied
        <3> QED
            BY <1>0, <3>1, <3>2
    <2> QED
        BY <2>1, <2>3, <2>4 DEF Replied, In, TranscriptHasReplies
<1>4. CASE Leave
    <2>1. /\ cli'.answer = cli.answer /\ UNCHANGED <<outbound, messages, printed>>
          /\ archive' = Cached
        BY <1>0, <1>4 DEF Leave, ConsoleTypes, loopVars
    <2>2. Scoped => archive' = messages
        BY <2>1 DEF Cached
    <2> QED
        BY <2>1, <2>2 DEF Replied, In, TranscriptHasReplies
<1>5. CASE Left
    <2>1. /\ cli.pc = "closing" /\ cli'.pc = "over" /\ cli'.answer = cli.answer
          /\ UNCHANGED <<outbound, messages, printed, archive>>
        BY <1>0, <1>5 DEF Left, ConsoleTypes, loopVars
    <2> QED
        BY <2>1 DEF Replied, In, TranscriptHasReplies
<1>6. CASE Consume
    <2> DEFINE msg == Head(outbound)
               n == Len(printed)
    <2>1. /\ Live /\ outbound' = Tail(outbound) /\ outbound # << >>
          /\ UNCHANGED <<messages>>
        BY <1>6 DEF Consume, Answers, loopVars
    <2>2. /\ msg = outbound[1] /\ msg \in Outbound /\ 1 \in 1..Len(outbound)
          /\ \A i \in 1..Len(outbound') : i + 1 \in 1..Len(outbound) /\ outbound'[i] = outbound[i + 1]
        BY <1>0, <2>1, HeadTailProperties
    <2>3. /\ \A i \in 1..Len(outbound') :
                outbound'[i].kind = "reply" => In(outbound'[i].turn, messages)
          /\ msg.kind = "reply" => In(msg.turn, messages)
        BY <2>2 DEF Replied
    <2>4. CASE cli' = [cli EXCEPT !.answer = msg] /\ UNCHANGED printed
        <3>1. cli'.answer = msg /\ cli'.pc \notin {"closing", "over"}
            BY <1>0, <2>1, <2>4 DEF ConsoleTypes, Live
        <3> QED
            BY <2>1, <2>3, <2>4, <3>1 DEF Replied, In, TranscriptHasReplies
    <2>5. CASE /\ UNCHANGED cli
               /\ printed' = Append(printed, [msg |-> msg, during |-> cli.turn])
        <3>1. [msg |-> msg, during |-> cli.turn] \in [msg : Outbound, during : 0..MaxTurns]
            BY <1>0, <2>2 DEF ConsoleTypes
        <3>2. /\ Len(printed') = n + 1 /\ printed'[n + 1].msg = msg
              /\ \A i \in 1..n : printed'[i] = printed[i]
            BY <1>0, <2>5, <3>1, AppendProperties
        <3>3. ASSUME NEW i \in 1..(n + 1), printed'[i].msg.kind = "reply"
              PROVE  In(printed'[i].msg.turn, messages)
            <4>1. CASE i \in 1..n
                BY <3>2, <3>3, <4>1 DEF Replied
            <4>2. CASE i = n + 1
                BY <2>3, <3>2, <3>3, <4>2
            <4> QED
                BY <1>0, <4>1, <4>2
        <3>4. cli.pc \notin {"closing", "over"}
            BY <2>1 DEF Live
        <3> QED
            BY <2>1, <2>3, <2>5, <3>2, <3>3, <3>4 DEF Replied, In, TranscriptHasReplies
    <2> QED
        BY <1>6, <2>4, <2>5 DEF Consume
<1>7. ASSUME NEW e \in Outbound, outbound' = Append(outbound, e),
             e.kind = "reply" => In(e.turn, messages'),
             \A t : In(t, messages) => In(t, messages'),
             UNCHANGED <<cli, printed, archive>>
      PROVE  Replied'
    <2> DEFINE n == Len(outbound)
    <2>1. /\ Len(outbound') = n + 1 /\ outbound'[n + 1] = e
          /\ \A i \in 1..n : outbound'[i] = outbound[i]
        BY <1>0, <1>7, AppendProperties
    <2>2. ASSUME NEW i \in 1..(n + 1), outbound'[i].kind = "reply"
          PROVE  In(outbound'[i].turn, messages')
        <3>1. CASE i \in 1..n
            BY <1>7, <2>1, <2>2, <3>1 DEF Replied
        <3>2. CASE i = n + 1
            BY <1>7, <2>1, <2>2, <3>2
        <3> QED
            BY <1>0, <3>1, <3>2
    <2>3. cli'.answer.kind = "reply" => In(cli'.answer.turn, messages')
        BY <1>7 DEF Replied
    <2>4. \A i \in 1..Len(printed') :
              printed'[i].msg.kind = "reply" => In(printed'[i].msg.turn, messages')
        BY <1>7 DEF Replied
    <2>5. TranscriptHasReplies'
        BY <1>7 DEF Replied, TranscriptHasReplies
    <2>6. Replied' <=>
              /\ \A i \in 1..Len(outbound') :
                    outbound'[i].kind = "reply" => In(outbound'[i].turn, messages')
              /\ cli'.answer.kind = "reply" => In(cli'.answer.turn, messages')
              /\ \A i \in 1..Len(printed') :
                    printed'[i].msg.kind = "reply" => In(printed'[i].msg.turn, messages')
              /\ TranscriptHasReplies'
        BY DEF Replied, In
    <2> QED
        BY <2>1, <2>2, <2>3, <2>4, <2>5, <2>6
<1>8. CASE TakeMessage
    <2>1. CASE UNCHANGED outbound
        BY <1>1, <1>8, <2>1 DEF TakeMessage, cliVars
    <2>2. CASE outbound' = Append(outbound, [kind |-> "help", turn |-> Head(inbound)])
        <3>1. Head(inbound) \in Turns
            BY <1>8, HeadTailProperties DEF TakeMessage, TypeInv, TypeOK
        <3>2. [kind |-> "help", turn |-> Head(inbound)] \in Outbound
            BY <3>1, OutboundTyped
        <3> QED
            BY <1>7, <1>8, <2>2, <3>2 DEF TakeMessage, cliVars
    <2> QED
        BY <1>8, <2>1, <2>2 DEF TakeMessage
<1>9. CASE Reply
    <2> DEFINE n == Len(messages)
    <2>1. loop.turn \in Turns /\ messages' = Append(messages, loop.turn)
        BY <1>9 DEF Reply, TypeInv, Within
    <2>2. /\ Len(messages') = n + 1 /\ messages'[n + 1] = loop.turn
          /\ \A i \in 1..n : messages'[i] = messages[i]
        BY <1>0, <2>1, AppendProperties
    <2>3. n \in Nat
        BY <1>0
    <2>4. In(loop.turn, messages')
        <3>1. n + 1 \in 1..Len(messages')
            BY <2>2, <2>3
        <3> QED
            BY <2>2, <3>1 DEF In
    <2>5. ASSUME NEW t, In(t, messages)
          PROVE  In(t, messages')
        <3>1. PICK k \in 1..n : messages[k] = t
            BY <2>5 DEF In
        <3>2. k \in 1..Len(messages') /\ messages'[k] = t
            BY <2>2, <2>3, <3>1
        <3> QED
            BY <3>2 DEF In
    <2>6. [kind |-> "reply", turn |-> loop.turn] \in Outbound
        BY <2>1, OutboundTyped
    <2> QED
        BY <1>7, <1>9, <2>4, <2>5, <2>6 DEF Reply, cliVars
<1>10. CASE ReplyError
    <2>1. [kind |-> "error", turn |-> loop.turn] \in Outbound
        BY <1>10, OutboundTyped DEF ReplyError, TypeInv, Within
    <2> QED
        BY <1>7, <1>10, <2>1 DEF ReplyError, cliVars
<1>11. CASE Speak
    BY <1>7, <1>11, OutboundTyped DEF Speak, cliVars, loopVars
<1>12. CASE LoopExit \/ TimePasses \/ Tick \/ StaySilent \/ UNCHANGED vars
    BY <1>1, <1>12 DEF LoopExit, TimePasses, Tick, StaySilent, vars, cliVars, loopVars
<1> QED
    BY <1>2, <1>3, <1>4, <1>5, <1>6, <1>8, <1>9, <1>10, <1>11, <1>12 DEF Next, Persona, Monitor

\* The transcript written at exit has every reply the user has seen.
THEOREM TranscriptIsComplete == Spec => []TranscriptHasReplies
<1>1. Init => TypeInv /\ Answers /\ Replied
    BY TypeInit, AnswersInit, RepliedInit
<1>2. TypeInv /\ Answers /\ Replied /\ [Next]_vars => TypeInv' /\ Answers' /\ Replied'
    BY TypeStep, AnswersStep, RepliedStep
<1>3. Replied => TranscriptHasReplies
    BY DEF Replied
<1> QED
    BY <1>1, <1>2, <1>3, PTL DEF Spec
=============================================================================
