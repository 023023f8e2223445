--------------------------- MODULE DualLaneProofs ---------------------------
(***************************************************************************)
(* Proofs about DualLane for every value of MaxTurns, Threshold and Keep.  *)
(***************************************************************************)
EXTENDS DualLane, SequenceTheorems, TLAPS

(***************************************************************************)
(* Types.  A lane that is inside a turn has the number of a turn; with it  *)
(* the type invariant is inductive.                                        *)
(***************************************************************************)
BusyTurns ==
    /\ persona.pc = "chat" => persona.turn \in Turns
    /\ bg.pc \in {"analyze", "compress", "archive"} => bg.turn \in Turns
    /\ holder.src = 0 => holder = NoUpdate

TypeInv == TypeOK /\ BusyTurns

BgTyped ==
    /\ bg \in [pc : {"wait", "analyze", "compress", "archive", "done"},
               turn : 0..MaxTurns, from : Nat, to : Nat]
    /\ bg.pc \in {"analyze", "compress", "archive"} => bg.turn \in Turns

LEMMA BudgetTyped == bg.turn \in Turns /\ EnforceBudget => BgTyped'
BY ConstantsAssumption DEF EnforceBudget, BgTyped, BgRest, BgAt, LoopHead, Turns

LEMMA TypeInit == Init => TypeInv
BY ConstantsAssumption DEF Init, TypeInv, TypeOK, BusyTurns, BgAt, NoUpdate, Updates, Turns

LEMMA TypeStep == TypeInv /\ [Next]_vars => TypeInv'
<1> USE ConstantsAssumption DEF TypeInv, TypeOK, BusyTurns, Turns, Updates, NoUpdate
<1> SUFFICES ASSUME TypeInv, [Next]_vars PROVE TypeInv'
  OBVIOUS
<1>1. CASE PublishInbound
  <2>1. sent + 1 \in Turns
    BY <1>1 DEF PublishInbound
  <2>2. inbound' \in Seq(Turns)
    BY <1>1, <2>1, AppendProperties DEF PublishInbound
  <2> QED
    BY <1>1, <2>1, <2>2 DEF PublishInbound, hintVars, memoryVars
<1>2. CASE Stop
  BY <1>2 DEF Stop, userVars, personaVars, hintVars, memoryVars
<1>3. CASE AnswerHelp
  BY SMTT(30), <1>3 DEF AnswerHelp, Ready, PublishOutbound, PersonaRest, LoopHead, userVars, hintVars, memoryVars
<1>4. CASE TakeMessage
  <2>1. Head(inbound) \in Turns /\ Tail(inbound) \in Seq(Turns)
    BY <1>4, HeadTailProperties DEF TakeMessage, Ready
  <2>2. queue' \in Seq(Turns)
    BY <1>4, <2>1, AppendProperties DEF TakeMessage
  <2>3. delivered' \in Seq([turn : Turns, src : Turns, text : BOOLEAN])
    <3>1. CASE holder = NoUpdate
      BY <1>4, <3>1 DEF TakeMessage, ReadAndConsume, Delivery
    <3>2. CASE holder # NoUpdate
      <4>1. [turn |-> Head(inbound), src |-> holder.src, text |-> holder.text]
                \in [turn : Turns, src : Turns, text : BOOLEAN]
        BY <2>1, <3>2
      <4>2. delivered' = Append(delivered, [turn |-> Head(inbound), src |-> holder.src,
                                            text |-> holder.text])
        BY <1>4, <3>2 DEF TakeMessage, ReadAndConsume, Delivery
      <4> QED
        BY <4>1, <4>2, AppendProperties
    <3> QED
      BY <3>1, <3>2
  <2> QED
    BY SMTT(30), <1>4, <2>1, <2>2, <2>3 DEF TakeMessage, ReadAndConsume, userVars, memoryVars
<1>5. CASE Reply
  <2>1. Exchange(persona.turn) \in Seq([role : {"user", "assistant"}, turn : Turns])
    BY <1>5 DEF Reply, Exchange
  <2>2. messages' \in Seq([role : {"user", "assistant"}, turn : Turns])
    BY <1>5, <2>1, ConcatProperties DEF Reply
  <2> QED
    BY <1>5, <2>2 DEF Reply, PublishOutbound, PersonaRest, LoopHead, userVars, hintVars, memoryVars
<1>6. CASE ReplyError
  BY <1>6 DEF ReplyError, PublishOutbound, PersonaRest, LoopHead, userVars, hintVars, memoryVars
<1>7. CASE PersonaExit
  BY <1>7 DEF PersonaExit, PersonaRest, LoopHead, userVars, hintVars, memoryVars
<1>8. CASE TakeSnapshot
  BY SMTT(30), <1>8 DEF TakeSnapshot, BgAt, userVars, personaVars, hintVars, memoryVars
<1>9. CASE ToolWritesMemory
  BY <1>9 DEF ToolWritesMemory, userVars, personaVars, hintVars
<1>10. CASE Analyzed
  <2>1. bg.turn \in Turns
    BY <1>10 DEF Analyzed
  <2>2. UNCHANGED <<userVars, personaVars, queue, delivered, messages,
                    lastConsolidated, summaries, overBudget, running>>
    BY <1>10 DEF Analyzed
  <2>3. /\ holder' \in Updates
        /\ holder'.src # 0
    BY <1>10, <2>1 DEF Analyzed
  <2>4. count' \in 0..(Threshold - 1)
    <3>1. CASE count' = 0
      BY <3>1
    <3>2. CASE ~AtThreshold /\ count' = count + 1
      <4>1. count \in Nat /\ ~(count + 1 >= Threshold)
        BY <3>2 DEF AtThreshold
      <4> QED
        BY <3>2, <4>1
    <3> QED
      BY <1>10, <3>1, <3>2 DEF Analyzed
  <2>5. BgTyped'
    <3>1. CASE bg' = BgRest
      BY <3>1 DEF BgTyped, BgRest, BgAt, LoopHead
    <3>2. CASE EnforceBudget
      BY <2>1, <3>2, BudgetTyped
    <3>3. CASE /\ Segment.from < Segment.to
               /\ bg' = [BgAt("compress", bg.turn) EXCEPT !.from = Segment.from,
                                                          !.to = Segment.to]
      <4>1. Segment.from \in Nat /\ Segment.to \in Nat
        <5>1. /\ Segment.from = lastConsolidated
              /\ Segment.to = Len(messages) - Keep
          BY DEF Segment
        <5>2. Len(messages) \in Nat
          BY LenProperties
        <5>3. lastConsolidated < Len(messages) - Keep
          BY <3>3, <5>1
        <5>4. Len(messages) - Keep \in Nat
          BY <5>2, <5>3
        <5> QED
          BY <5>1, <5>4
      <4> QED
        BY <2>1, <3>3, <4>1 DEF BgTyped, BgAt
    <3> QED
      BY <1>10, <3>1, <3>2, <3>3 DEF Analyzed
  <2> QED
    BY <2>2, <2>3, <2>4, <2>5 DEF BgTyped, userVars, personaVars
<1>11. CASE DropTurn
  BY <1>11 DEF DropTurn, BgRest, BgAt, LoopHead, userVars, personaVars, hintVars, memoryVars
<1>12. CASE Compressed
  <2>1. BgTyped'
    BY <1>12, BudgetTyped DEF Compressed
  <2> QED
    BY <1>12, <2>1, AppendProperties DEF Compressed, BgTyped, userVars, personaVars, hintVars
<1>13. CASE CompressFailed
  <2>1. BgTyped'
    BY <1>13, BudgetTyped DEF CompressFailed
  <2> QED
    BY <1>13, <2>1 DEF CompressFailed, BgTyped, userVars, personaVars, hintVars, memoryVars
<1>14. CASE Archived
  <2>1. overBudget' \in BOOLEAN
    BY <1>14, Zenon DEF Archived
  <2> QED
    BY <1>14, <2>1 DEF Archived, BgRest, BgAt, LoopHead, userVars, personaVars, hintVars
<1>15. CASE BgExit
  BY <1>15 DEF BgExit, BgRest, BgAt, LoopHead, userVars, personaVars, hintVars, memoryVars
<1>16. CASE UNCHANGED vars
  BY <1>16 DEF vars
<1> QED
  BY <1>1, <1>2, <1>3, <1>4, <1>5, <1>6, <1>7, <1>8, <1>9, <1>10, <1>11, <1>12,
     <1>13, <1>14, <1>15, <1>16 DEF Next, PersonaNext, BgNext

\* Every variable keeps its type, for every number of turns and every setting
\* of the thresholds; count stays below the consolidation threshold.
THEOREM TypeCorrect == Spec => []TypeOK
<1>1. TypeInv => TypeOK
  BY DEF TypeInv
<1> QED
  BY <1>1, TypeInit, TypeStep, PTL DEF Spec

(***************************************************************************)
(* Answers.  AnsweredInOrder is inductive by itself: the messages that     *)
(* have been answered, the one in hand and the ones that wait are 1..sent. *)
(***************************************************************************)
Taken == Len(outbound) + InFlight

LEMMA AnsweredInit == Init => AnsweredInOrder
BY DEF Init, AnsweredInOrder, InFlight

\* Publishing the answer of turn Len(outbound) + 1 extends the answered prefix.
LEMMA PublishedNext ==
    ASSUME TypeInv, AnsweredInOrder, NEW t \in Turns, t = Len(outbound) + 1,
           NEW kind \in {"reply", "help", "error"}, PublishOutbound(t, kind)
    PROVE  /\ Len(outbound') = Len(outbound) + 1
           /\ \A i \in 1..Len(outbound') : outbound'[i].turn = i
<1> DEFINE m == [turn |-> t, kind |-> kind]
<1>1. m \in [turn : Turns, kind : {"reply", "help", "error"}]
  OBVIOUS
<1>2. /\ Len(outbound) \in Nat
      /\ Len(outbound') = Len(outbound) + 1
      /\ \A i \in 1..Len(outbound) : outbound'[i] = outbound[i]
      /\ outbound'[Len(outbound) + 1] = m
  BY <1>1, AppendProperties, LenProperties DEF TypeInv, TypeOK, PublishOutbound
<1> QED
  BY <1>2 DEF AnsweredInOrder

LEMMA AnsweredStep ==
    ASSUME TypeInv, TypeInv', AnsweredInOrder, [Next]_vars
    PROVE  AnsweredInOrder'
<1>1. /\ Len(outbound) \in Nat /\ Len(inbound) \in Nat
      /\ InFlight \in {0, 1}
      /\ sent \in Nat
  BY ConstantsAssumption, LenProperties DEF TypeInv, TypeOK, InFlight
<1>2. PersonaRest.pc # "chat"
  BY DEF PersonaRest, LoopHead
<1>3. ASSUME inbound # << >>, persona.pc = "wait"
      PROVE  /\ Head(inbound) = Len(outbound) + 1
             /\ Head(inbound) \in Turns
             /\ Len(Tail(inbound)) = Len(inbound) - 1
             /\ \A i \in 1..Len(Tail(inbound)) : Tail(inbound)[i] = Len(outbound) + 1 + i
             /\ InFlight = 0
  <2>1. /\ Head(inbound) \in Turns
        /\ Len(Tail(inbound)) = Len(inbound) - 1
        /\ \A i \in 1..Len(Tail(inbound)) : Tail(inbound)[i] = inbound[i + 1]
    BY <1>3, HeadTailProperties DEF TypeInv, TypeOK
  <2>2. Len(inbound) >= 1 /\ Head(inbound) = inbound[1]
    BY <1>1, <1>3, EmptySeq DEF TypeInv, TypeOK
  <2> QED
    BY <1>1, <1>3, <2>1, <2>2 DEF AnsweredInOrder, InFlight
<1>4. CASE PublishInbound
  <2>1. /\ Len(inbound') = Len(inbound) + 1
        /\ \A i \in 1..Len(inbound) : inbound'[i] = inbound[i]
        /\ inbound'[Len(inbound) + 1] = sent + 1
    <3>1. sent + 1 \in Turns /\ inbound \in Seq(Turns)
      BY <1>1, <1>4, ConstantsAssumption DEF PublishInbound, TypeInv, TypeOK, Turns
    <3> QED
      <4>1. inbound' = Append(inbound, sent + 1)
        BY <1>4 DEF PublishInbound
      <4> QED
        BY <3>1, <4>1, AppendProperties
  <2>2. sent' = sent + 1 /\ UNCHANGED <<outbound, persona>>
    BY <1>4 DEF PublishInbound
  <2>3. InFlight' = InFlight
    BY <2>2 DEF InFlight
  <2>4. ASSUME NEW i \in 1..Len(inbound')
        PROVE  inbound'[i] = Len(outbound) + InFlight + i
    <3>1. CASE i \in 1..Len(inbound)
      BY <2>1, <3>1 DEF AnsweredInOrder
    <3>2. CASE i = Len(inbound) + 1
      BY <1>1, <2>1, <3>2 DEF AnsweredInOrder
    <3> QED
      BY <1>1, <2>1, <3>1, <3>2
  <2> QED
    BY <1>1, <2>1, <2>2, <2>3, <2>4 DEF AnsweredInOrder
<1>5. CASE AnswerHelp
  <2>1. /\ inbound # << >> /\ persona.pc = "wait"
        /\ PublishOutbound(Head(inbound), "help")
        /\ UNCHANGED sent /\ inbound' = Tail(inbound) /\ persona' = PersonaRest
    BY <1>5 DEF AnswerHelp, Ready, userVars
  <2>2. /\ Len(outbound') = Len(outbound) + 1
        /\ \A i \in 1..Len(outbound') : outbound'[i].turn = i
    BY <1>3, <2>1, PublishedNext
  <2> QED
    BY <1>1, <1>2, <1>3, <2>1, <2>2 DEF AnsweredInOrder, InFlight
<1>6. CASE TakeMessage
  <2>1. /\ inbound # << >> /\ persona.pc = "wait"
        /\ UNCHANGED <<sent, outbound>> /\ inbound' = Tail(inbound)
        /\ persona' = [pc |-> "chat", turn |-> Head(inbound)]
    BY <1>6 DEF TakeMessage, Ready, userVars
  <2> QED
    BY <1>1, <1>3, <2>1 DEF AnsweredInOrder, InFlight
<1>7. CASE Reply \/ ReplyError
  <2>1. /\ persona.pc = "chat" /\ persona' = PersonaRest
        /\ UNCHANGED <<sent, inbound>>
        /\ \E kind \in {"reply", "error"} : PublishOutbound(persona.turn, kind)
    <3>1. CASE Reply
      BY <3>1 DEF Reply, userVars
    <3>2. CASE ReplyError
      BY <3>2 DEF ReplyError, userVars
    <3> QED
      BY <1>7, <3>1, <3>2
  <2>2. persona.turn = Len(outbound) + 1 /\ persona.turn \in Turns
    BY <2>1 DEF AnsweredInOrder, TypeInv, BusyTurns
  <2>3. /\ Len(outbound') = Len(outbound) + 1
        /\ \A i \in 1..Len(outbound') : outbound'[i].turn = i
    BY <2>1, <2>2, PublishedNext
  <2>4. InFlight = 1 /\ InFlight' = 0 /\ persona'.pc # "chat"
    BY <1>2, <2>1 DEF InFlight
  <2>5. sent' = Len(outbound') + InFlight' + Len(inbound')
    BY <1>1, <2>1, <2>3, <2>4 DEF AnsweredInOrder
  <2>6. \A i \in 1..Len(inbound') : inbound'[i] = Len(outbound') + InFlight' + i
    BY <1>1, <2>1, <2>3, <2>4 DEF AnsweredInOrder
  <2> QED
    BY <2>3, <2>4, <2>5, <2>6 DEF AnsweredInOrder
<1>8. CASE PersonaExit
  BY <1>1, <1>2, <1>8 DEF PersonaExit, AnsweredInOrder, InFlight, userVars
<1>9. CASE UNCHANGED <<sent, inbound, outbound, persona>>
  BY <1>9 DEF AnsweredInOrder, InFlight
<1>10. ASSUME Stop \/ BgNext \/ UNCHANGED vars
       PROVE  UNCHANGED <<sent, inbound, outbound, persona>>
  BY <1>10 DEF Stop, BgNext, TakeSnapshot, ToolWritesMemory, Analyzed, DropTurn, Compressed,
               CompressFailed, Archived, BgExit, userVars, personaVars, vars
<1> QED
  BY <1>4, <1>5, <1>6, <1>7, <1>8, <1>9, <1>10 DEF Next, PersonaNext

\* Every message is answered once and in order, however many there are and
\* whatever the background lane does meanwhile.
THEOREM AnswersInOrder == Spec => []AnsweredInOrder
BY TypeInit, TypeStep, AnsweredInit, AnsweredStep, PTL DEF Spec

(***************************************************************************)
(* Hints.  HintsInOrder is not inductive: that a hint is newer than all    *)
(* the consumed ones follows from where it comes from.  HintChain orders   *)
(* the whole pipeline: consumed hints, then the one that waits, then the   *)
(* turn under analysis, then the queued snapshots, and all of them at or   *)
(* before the last turn the persona has taken.                             *)
(***************************************************************************)
Newer(t, h, d) == h.src < t /\ \A i \in 1..Len(d) : d[i].src < t

HintChain ==
    /\ HintsInOrder
    /\ \A i \in 1..Len(delivered) : delivered[i].turn <= Taken
    /\ holder.src # 0 => \A i \in 1..Len(delivered) : delivered[i].src < holder.src
    /\ holder.src <= Taken
    /\ bg.pc = "analyze" => bg.turn <= Taken /\ Newer(bg.turn, holder, delivered)
    /\ \A i \in 1..Len(queue) :
          /\ queue[i] <= Taken /\ Newer(queue[i], holder, delivered)
          /\ bg.pc = "analyze" => bg.turn < queue[i]
    /\ \A i, j \in 1..Len(queue) : i < j => queue[i] < queue[j]

LEMMA HintInit == Init => HintChain
BY DEF Init, HintChain, HintsInOrder, Newer, Taken, InFlight, NoUpdate, BgAt

\* The persona takes turns in order: a turn it takes is later than all it took.
LEMMA TakenGrows ==
    ASSUME TypeInv, AnsweredInOrder, AnsweredInOrder', [Next]_vars
    PROVE  /\ Taken \in Nat /\ Taken' \in Nat /\ Taken <= Taken'
           /\ TakeMessage => Head(inbound) = Taken + 1 /\ Taken' = Taken + 1
<1>1. /\ Len(outbound) \in Nat
      /\ Taken \in Nat
  BY LenProperties DEF TypeInv, TypeOK, InFlight, Taken
<1>2. PersonaRest.pc # "chat"
  BY DEF PersonaRest, LoopHead
<1>3. ASSUME NEW t \in Turns, NEW kind \in {"reply", "help", "error"}, PublishOutbound(t, kind)
      PROVE  Len(outbound') = Len(outbound) + 1
  <2>1. [turn |-> t, kind |-> kind] \in [turn : Turns, kind : {"reply", "help", "error"}]
    OBVIOUS
  <2> QED
    BY <1>3, <2>1, AppendProperties DEF PublishOutbound, TypeInv, TypeOK
<1>4. CASE UNCHANGED <<outbound, persona>>
  <2>1. ~TakeMessage
    BY <1>4 DEF TakeMessage, Ready
  <2> QED
    BY <1>1, <1>4, <2>1 DEF Taken, InFlight
<1>5. CASE AnswerHelp
  <2>1. persona.pc = "wait" /\ persona' = PersonaRest /\ Len(outbound') = Len(outbound) + 1
    <3>1. Head(inbound) \in Turns
      BY <1>5, HeadTailProperties DEF AnswerHelp, Ready, TypeInv, TypeOK
    <3> QED
      BY <1>3, <1>5, <3>1 DEF AnswerHelp, Ready
  <2>2. ~TakeMessage
    BY <1>2, <2>1 DEF TakeMessage
  <2> QED
    BY <1>1, <1>2, <2>1, <2>2 DEF Taken, InFlight
<1>6. CASE TakeMessage
  <2>1. /\ persona.pc = "wait" /\ persona'.pc = "chat" /\ outbound' = outbound
        /\ inbound # << >>
    BY <1>6 DEF TakeMessage, Ready
  <2>2. Len(inbound) >= 1 /\ Head(inbound) = inbound[1]
    BY <2>1, EmptySeq, LenProperties DEF TypeInv, TypeOK
  <2>3. Head(inbound) = Taken + 1
    BY <1>1, <2>2, LenProperties DEF AnsweredInOrder, Taken, TypeInv, TypeOK
  <2> QED
    BY <1>1, <2>1, <2>3 DEF Taken, InFlight
<1>7. CASE Reply \/ ReplyError
  <2>1. /\ persona.pc = "chat" /\ persona' = PersonaRest
        /\ \E kind \in {"reply", "error"} : PublishOutbound(persona.turn, kind)
    <3>1. CASE Reply
      BY <3>1 DEF Reply
    <3>2. CASE ReplyError
      BY <3>2 DEF ReplyError
    <3> QED
      BY <1>7, <3>1, <3>2
  <2>2. Len(outbound') = Len(outbound) + 1
    BY <1>3, <2>1 DEF TypeInv, BusyTurns
  <2>3. ~TakeMessage
    BY <2>1 DEF TakeMessage, Ready
  <2> QED
    BY <1>1, <1>2, <2>1, <2>2, <2>3 DEF Taken, InFlight
<1>8. CASE PersonaExit
  <2>1. /\ persona.pc = "wait" /\ persona' = PersonaRest /\ outbound' = outbound
        /\ inbound = << >>
    BY <1>8 DEF PersonaExit
  <2>2. ~TakeMessage
    BY <2>1 DEF TakeMessage, Ready
  <2> QED
    BY <1>1, <1>2, <2>1, <2>2 DEF Taken, InFlight
<1>9. ASSUME PublishInbound \/ Stop \/ BgNext \/ UNCHANGED vars
      PROVE  UNCHANGED <<outbound, persona>>
  BY <1>9 DEF PublishInbound, Stop, BgNext, TakeSnapshot, ToolWritesMemory, Analyzed, DropTurn,
              Compressed, CompressFailed, Archived, BgExit, personaVars, vars
<1> QED
  BY <1>4, <1>5, <1>6, <1>7, <1>8, <1>9 DEF Next, PersonaNext

\* The turns in the pipeline are numbers.
LEMMA ChainTypes ==
    ASSUME TypeInv
    PROVE  /\ holder.src \in Nat /\ bg.turn \in Nat
           /\ \A i \in 1..Len(delivered) : delivered[i].turn \in Nat /\ delivered[i].src \in Nat
           /\ \A i \in 1..Len(queue) : queue[i] \in Nat
           /\ Len(delivered) \in Nat /\ Len(queue) \in Nat
<1>1. Turns \subseteq Nat /\ 0..MaxTurns \subseteq Nat
  BY ConstantsAssumption DEF Turns
<1>2. holder.src \in 0..MaxTurns /\ bg.turn \in 0..MaxTurns
  BY DEF TypeInv, TypeOK, Updates
<1>3. ASSUME NEW i \in 1..Len(delivered)
      PROVE  delivered[i].turn \in Turns /\ delivered[i].src \in Turns
  <2>1. delivered[i] \in [turn : Turns, src : Turns, text : BOOLEAN]
    BY ElementOfSeq DEF TypeInv, TypeOK
  <2> QED
    BY <2>1
<1>4. ASSUME NEW i \in 1..Len(queue)
      PROVE  queue[i] \in Turns
  BY ElementOfSeq DEF TypeInv, TypeOK
<1>5. Len(delivered) \in Nat /\ Len(queue) \in Nat
  BY LenProperties DEF TypeInv, TypeOK
<1> QED
  BY <1>1, <1>2, <1>3, <1>4, <1>5

\* A step that moves neither a hint nor a snapshot keeps the chain.
LEMMA ChainStutter ==
    ASSUME TypeInv, HintChain, UNCHANGED <<hintVars, queue>>,
           Taken \in Nat, Taken' \in Nat, Taken <= Taken',
           bg'.pc = "analyze" => bg' = bg
    PROVE  HintChain'
<1>1. /\ holder.src \in Nat
      /\ \A i \in 1..Len(delivered) : delivered[i].turn \in Nat
      /\ \A i \in 1..Len(queue) : queue[i] \in Nat
      /\ bg.turn \in Nat
  BY ChainTypes
<1>2. holder' = holder /\ delivered' = delivered /\ queue' = queue
  BY DEF hintVars
<1> QED
  BY <1>1, <1>2 DEF HintChain, HintsInOrder, Newer

LEMMA HintStep ==
    ASSUME TypeInv, TypeInv', AnsweredInOrder, AnsweredInOrder', HintChain, [Next]_vars
    PROVE  HintChain'
<1>1. /\ Taken \in Nat /\ Taken' \in Nat /\ Taken <= Taken'
      /\ TakeMessage => Head(inbound) = Taken + 1 /\ Taken' = Taken + 1
  BY TakenGrows
<1>2. /\ holder.src \in Nat
      /\ \A i \in 1..Len(delivered) : delivered[i].turn \in Nat /\ delivered[i].src \in Nat
      /\ \A i \in 1..Len(queue) : queue[i] \in Nat
      /\ bg.turn \in Nat
      /\ Len(delivered) \in Nat /\ Len(queue) \in Nat
  BY ChainTypes
<1>3. CASE TakeMessage
  <2> DEFINE t == Head(inbound)
  <2>1. /\ t = Taken + 1 /\ Taken' = Taken + 1 /\ t \in Turns
    BY <1>1, <1>3, HeadTailProperties DEF TakeMessage, Ready, TypeInv, TypeOK
  <2>2. holder' = NoUpdate /\ bg' = bg /\ queue' = Append(queue, t) /\ delivered' = Delivery(t)
    BY <1>3 DEF TakeMessage, ReadAndConsume
  <2>3. /\ Len(queue') = Len(queue) + 1
        /\ \A i \in 1..Len(queue) : queue'[i] = queue[i]
        /\ queue'[Len(queue) + 1] = Taken + 1
    BY <2>1, <2>2, AppendProperties DEF TypeInv, TypeOK
  <2>4. /\ Len(delivered') \in Nat
        /\ Len(delivered) <= Len(delivered')
        /\ \A i \in 1..Len(delivered) : delivered'[i] = delivered[i]
        /\ \A i \in 1..Len(delivered') : i \notin 1..Len(delivered) =>
              /\ i = Len(delivered) + 1 /\ holder.src # 0
              /\ delivered'[i].src = holder.src /\ delivered'[i].turn = Taken + 1
    <3>1. CASE holder = NoUpdate
      BY <1>2, <2>2, <3>1 DEF Delivery
    <3>2. CASE holder # NoUpdate
      <4> DEFINE d == [turn |-> t, src |-> holder.src, text |-> holder.text]
      <4>1. holder.src # 0 /\ d \in [turn : Turns, src : Turns, text : BOOLEAN]
        <5>1. holder.src \in 0..MaxTurns /\ holder.text \in BOOLEAN /\ holder.src # 0
          BY <3>2 DEF TypeInv, TypeOK, BusyTurns, Updates
        <5>2. holder.src \in Turns
          BY <5>1, ConstantsAssumption DEF Turns
        <5> QED
          BY <2>1, <5>1, <5>2
      <4>2. /\ Len(delivered') = Len(delivered) + 1
            /\ \A i \in 1..Len(delivered) : delivered'[i] = delivered[i]
            /\ delivered'[Len(delivered) + 1] = d
        <5>1. delivered' = Append(delivered, d)
          BY <2>2, <3>2 DEF Delivery
        <5> QED
          BY <4>1, <5>1, AppendProperties DEF TypeInv, TypeOK
      <4> QED
        BY <1>2, <2>1, <4>1, <4>2
    <3> QED
      BY <3>1, <3>2
  <2>5. HintsInOrder'
    <3>1. /\ \A i \in 1..Len(delivered) :
                /\ delivered[i].src < delivered[i].turn /\ delivered[i].turn <= Taken
                /\ holder.src # 0 => delivered[i].src < holder.src
          /\ \A i, j \in 1..Len(delivered) : i < j =>
                delivered[i].src < delivered[j].src /\ delivered[i].turn < delivered[j].turn
          /\ holder.src <= Taken
      BY DEF HintChain, HintsInOrder
    <3>2. ASSUME NEW i \in 1..Len(delivered')
          PROVE  delivered'[i].src < delivered'[i].turn
      <4>1. CASE i \in 1..Len(delivered)
        BY <2>4, <3>1, <4>1
      <4>2. CASE i \notin 1..Len(delivered)
        <5>1. delivered'[i].src = holder.src /\ delivered'[i].turn = Taken + 1
          BY <2>4, <4>2
        <5>2. Taken \in Nat /\ holder.src \in Nat /\ holder.src <= Taken
          BY <1>1, <1>2, <3>1
        <5> QED
          BY <5>1, <5>2
      <4> QED
        BY <4>1, <4>2
    <3>3. ASSUME NEW i \in 1..Len(delivered'), NEW j \in 1..Len(delivered'), i < j
          PROVE  delivered'[i].src < delivered'[j].src /\ delivered'[i].turn < delivered'[j].turn
      <4>1. i \in 1..Len(delivered)
        BY <1>2, <2>4, <3>3
      <4>2. delivered'[i] = delivered[i] /\ delivered[i].turn <= Taken
        BY <2>4, <3>1, <4>1
      <4>3. CASE j \in 1..Len(delivered)
        BY <2>4, <3>1, <3>3, <4>1, <4>2, <4>3
      <4>4. CASE j \notin 1..Len(delivered)
        BY SMTT(30), <1>1, <1>2, <2>4, <3>1, <4>1, <4>2, <4>4
      <4> QED
        BY <4>3, <4>4
    <3> QED
      BY <3>2, <3>3 DEF HintsInOrder
  <2>6. /\ \A i \in 1..Len(delivered') : delivered'[i].turn <= Taken'
        /\ holder'.src = 0
    BY <1>1, <1>2, <2>1, <2>2, <2>4 DEF HintChain, NoUpdate
  <2>7. ASSUME NEW u \in Nat, u > 0, Newer(u, holder, delivered)
        PROVE  Newer(u, holder', delivered')
    BY <1>2, <2>4, <2>6, <2>7 DEF Newer
  <2>8. Newer(Taken + 1, holder', delivered')
    <3>1. \A i \in 1..Len(delivered) : delivered[i].src < Taken + 1
      BY <1>1, <1>2 DEF HintChain, HintsInOrder
    <3>2. holder.src < Taken + 1
      BY <1>1, <1>2 DEF HintChain
    <3> QED
      BY <1>1, <1>2, <2>4, <2>6, <3>1, <3>2 DEF Newer
  <2>9. bg'.pc = "analyze" => bg'.turn <= Taken' /\ Newer(bg'.turn, holder', delivered')
    <3>1. bg.pc = "analyze" => /\ bg.turn <= Taken /\ bg.turn > 0
                               /\ Newer(bg.turn, holder, delivered)
      BY <1>2 DEF HintChain, Newer
    <3> QED
      BY <1>1, <1>2, <2>1, <2>2, <2>7, <3>1
  <2>10. ASSUME NEW i \in 1..Len(queue')
         PROVE  /\ queue'[i] <= Taken' /\ Newer(queue'[i], holder', delivered')
                /\ bg'.pc = "analyze" => bg'.turn < queue'[i]
    <3>1. CASE i \in 1..Len(queue)
      <4>1. /\ queue[i] \in Nat /\ queue[i] > 0 /\ queue[i] <= Taken
            /\ Newer(queue[i], holder, delivered)
            /\ bg.pc = "analyze" => bg.turn < queue[i]
        BY <1>2, <3>1 DEF HintChain, Newer
      <4> QED
        BY <1>1, <2>1, <2>2, <2>3, <2>7, <3>1, <4>1
    <3>2. CASE i = Len(queue) + 1
      <4>1. bg.pc = "analyze" => bg.turn <= Taken
        BY DEF HintChain
      <4> QED
        BY <1>1, <1>2, <2>1, <2>2, <2>3, <2>8, <3>2, <4>1
    <3> QED
      BY <1>2, <2>3, <3>1, <3>2
  <2>11. \A i, j \in 1..Len(queue') : i < j => queue'[i] < queue'[j]
    <3>1. /\ \A i \in 1..Len(queue) : queue[i] <= Taken
          /\ \A i, j \in 1..Len(queue) : i < j => queue[i] < queue[j]
      BY DEF HintChain
    <3>2. ASSUME NEW i \in 1..Len(queue'), NEW j \in 1..Len(queue'), i < j
          PROVE  queue'[i] < queue'[j]
      <4>1. i \in 1..Len(queue) /\ queue'[i] = queue[i] /\ queue[i] \in Nat
        BY <1>2, <2>3, <3>2
      <4>2. CASE j \in 1..Len(queue)
        BY <2>3, <3>1, <3>2, <4>1, <4>2
      <4>3. CASE j = Len(queue) + 1
        BY <1>1, <2>3, <3>1, <4>1, <4>3
      <4> QED
        BY <1>2, <2>3, <3>2, <4>2, <4>3
    <3> QED
      BY <3>2
  <2>12. holder'.src <= Taken'
    BY <1>1, <2>6
  <2> QED
    BY <2>5, <2>6, <2>9, <2>10, <2>11, <2>12 DEF HintChain
<1>4. CASE TakeSnapshot
  <2>1. /\ UNCHANGED hintVars
        /\ queue # << >> /\ queue' = Tail(queue)
        /\ bg'.turn = Head(queue) /\ bg'.pc = "analyze"
    BY <1>4 DEF TakeSnapshot, BgAt
  <2>2. /\ Len(queue') = Len(queue) - 1
        /\ \A i \in 1..Len(queue') : queue'[i] = queue[i + 1]
        /\ Len(queue) >= 1 /\ Head(queue) = queue[1]
    BY <1>2, <2>1, HeadTailProperties, EmptySeq DEF TypeInv, TypeOK
  <2> QED
    BY SMTT(30), <1>1, <1>2, <2>1, <2>2 DEF HintChain, HintsInOrder, Newer, hintVars
<1>5. CASE Analyzed
  <2>1. /\ UNCHANGED <<delivered, queue>>
        /\ holder'.src = bg.turn
        /\ bg.pc = "analyze"
    BY <1>5 DEF Analyzed
  <2>2. bg'.pc # "analyze"
    <3>1. CASE bg' = BgRest
      BY <3>1 DEF BgRest, BgAt, LoopHead
    <3>2. CASE EnforceBudget
      BY <3>2 DEF EnforceBudget, BgRest, BgAt, LoopHead
    <3>3. CASE bg' = [BgAt("compress", bg.turn) EXCEPT !.from = Segment.from, !.to = Segment.to]
      BY <3>3 DEF BgAt
    <3> QED
      BY <1>5, <3>1, <3>2, <3>3 DEF Analyzed
  <2> QED
    BY <1>1, <1>2, <2>1, <2>2 DEF HintChain, HintsInOrder, Newer
<1>6. ASSUME UNCHANGED <<hintVars, queue>>, bg'.pc = "analyze" => bg' = bg
      PROVE  HintChain'
  BY <1>1, <1>6, ChainStutter
<1>7. CASE PublishInbound \/ Stop \/ UNCHANGED vars
  BY <1>6, <1>7 DEF PublishInbound, Stop, hintVars, vars
<1>8. CASE AnswerHelp \/ Reply \/ ReplyError \/ PersonaExit
  BY <1>6, <1>8 DEF AnswerHelp, Reply, ReplyError, PersonaExit
<1>9. CASE ToolWritesMemory \/ DropTurn \/ CompressFailed \/ Compressed \/ Archived \/ BgExit
  <2>1. UNCHANGED <<hintVars, queue>>
    BY <1>9 DEF ToolWritesMemory, DropTurn, Compressed, CompressFailed, Archived, BgExit
  <2>2. bg' = bg \/ bg' = BgRest \/ EnforceBudget
    BY <1>9 DEF ToolWritesMemory, DropTurn, Compressed, CompressFailed, Archived, BgExit
  <2>3. bg' = bg \/ bg'.pc # "analyze"
    BY <2>2 DEF EnforceBudget, BgRest, BgAt, LoopHead
  <2> QED
    BY <1>6, <2>1, <2>3
<1> QED
  BY <1>3, <1>4, <1>5, <1>7, <1>8, <1>9 DEF Next, PersonaNext, BgNext

\* A hint is used at most once, never after a newer one, and always by a later
\* turn than the one it was computed from, for any number of turns.
THEOREM HintsUsedInOrder == Spec => []HintsInOrder
<1>1. HintChain => HintsInOrder
  BY DEF HintChain
<1> QED
  BY <1>1, TypeInit, TypeStep, AnsweredInit, AnsweredStep, HintInit, HintStep, PTL DEF Spec

(***************************************************************************)
(* Summaries.  While compress_session waits for its summary the mark does  *)
(* not move and the session only grows, so the segment that was captured   *)
(* still starts at the mark and still leaves Keep messages.                *)
(***************************************************************************)
SegmentChain ==
    /\ SummariesPartition
    /\ TailKept
    /\ bg.pc = "compress" => /\ bg.from = lastConsolidated
                             /\ bg.from < bg.to
                             /\ bg.to + Keep <= Len(messages)

LEMMA SegmentInit == Init => SegmentChain
BY DEF Init, SegmentChain, SummariesPartition, TailKept, BgAt

\* No step removes a message, or moves the mark back.
LEMMA MessagesGrow ==
    ASSUME TypeInv, [Next]_vars
    PROVE  Len(messages') \in Nat /\ Len(messages) \in Nat /\ Len(messages) <= Len(messages')
<1>1. Len(messages) \in Nat
  BY LenProperties DEF TypeInv, TypeOK
<1>2. CASE Reply
  <2>1. messages' = messages \o Exchange(persona.turn) /\ persona.turn \in Turns
    BY <1>2 DEF Reply, TypeInv, BusyTurns
  <2>2. /\ Exchange(persona.turn) \in Seq([role : {"user", "assistant"}, turn : Turns])
        /\ Len(Exchange(persona.turn)) = 2
    BY <2>1 DEF Exchange
  <2>3. messages \in Seq([role : {"user", "assistant"}, turn : Turns])
    BY DEF TypeInv, TypeOK
  <2>4. Len(messages \o Exchange(persona.turn)) = Len(messages) + Len(Exchange(persona.turn))
    BY <2>2, <2>3, ConcatProperties
  <2>5. Len(messages') = Len(messages) + 2
    BY <2>1, <2>2, <2>4
  <2> QED
    BY <1>1, <2>5
<1>3. CASE UNCHANGED messages
  BY <1>1, <1>3
<1>4. ASSUME PublishInbound \/ Stop \/ AnswerHelp \/ TakeMessage \/ ReplyError \/ PersonaExit
             \/ BgNext \/ UNCHANGED vars
      PROVE  UNCHANGED messages
  BY <1>4 DEF PublishInbound, Stop, AnswerHelp, TakeMessage, ReplyError, PersonaExit, BgNext,
              TakeSnapshot, ToolWritesMemory, Analyzed, DropTurn, Compressed, CompressFailed,
              Archived, BgExit, vars
<1> QED
  BY <1>2, <1>3, <1>4 DEF Next, PersonaNext

LEMMA SegmentStep ==
    ASSUME TypeInv, SegmentChain, [Next]_vars
    PROVE  SegmentChain'
<1>1. /\ Len(messages) \in Nat /\ Len(messages') \in Nat /\ Len(messages) <= Len(messages')
      /\ lastConsolidated \in Nat /\ bg.from \in Nat /\ bg.to \in Nat /\ Keep \in Nat
      /\ Len(summaries) \in Nat
  BY MessagesGrow, ConstantsAssumption, LenProperties DEF TypeInv, TypeOK
<1>2. CASE Compressed
  <2> DEFINE seg == [from |-> bg.from, to |-> bg.to]
  <2>1. /\ bg.pc = "compress" /\ summaries' = Append(summaries, seg)
        /\ lastConsolidated' = bg.to /\ EnforceBudget /\ messages' = messages
    BY <1>2 DEF Compressed
  <2>2. bg'.pc # "compress"
    BY <2>1 DEF EnforceBudget, BgRest, BgAt, LoopHead
  <2>3. /\ Len(summaries') = Len(summaries) + 1
        /\ \A i \in 1..Len(summaries) : summaries'[i] = summaries[i]
        /\ summaries'[Len(summaries) + 1] = seg
        /\ summaries' # << >>
    <3>1. seg \in [from : Nat, to : Nat]
      BY <1>1
    <3>2. summaries \in Seq([from : Nat, to : Nat])
      BY DEF TypeInv, TypeOK
    <3>3. summaries' = Append(summaries, seg)
      BY <2>1
    <3> QED
      BY SMTT(30), <3>1, <3>2, <3>3, AppendProperties
  <2>4. bg.from = lastConsolidated /\ bg.from < bg.to /\ bg.to + Keep <= Len(messages)
    BY <2>1 DEF SegmentChain
  <2>5. TailKept'
    BY <2>1, <2>4 DEF TailKept
  <2>6. ASSUME NEW i \in 1..Len(summaries')
        PROVE  /\ summaries'[i].from < summaries'[i].to
               /\ summaries'[i].from = IF i = 1 THEN 0 ELSE summaries'[i - 1].to
    <3>1. CASE i \in 1..Len(summaries)
      <4>1. /\ summaries[i].from < summaries[i].to
            /\ summaries[i].from = IF i = 1 THEN 0 ELSE summaries[i - 1].to
        BY <3>1 DEF SegmentChain, SummariesPartition
      <4>2. i # 1 => i - 1 \in 1..Len(summaries)
        BY <1>1, <3>1
      <4> QED
        BY <2>3, <3>1, <4>1, <4>2
    <3>2. CASE i = Len(summaries) + 1 /\ summaries = << >>
      <4>1. i = 1 /\ lastConsolidated = 0
        BY <3>2 DEF SegmentChain, SummariesPartition
      <4> QED
        BY <2>3, <2>4, <3>2, <4>1
    <3>3. CASE i = Len(summaries) + 1 /\ summaries # << >>
      <4>1. Len(summaries) \in 1..Len(summaries)
        BY <1>1, <3>3, EmptySeq DEF TypeInv, TypeOK
      <4>2. lastConsolidated = summaries[Len(summaries)].to
        BY <3>3 DEF SegmentChain, SummariesPartition
      <4>3. i - 1 = Len(summaries) /\ i # 1
        BY <1>1, <3>3, <4>1
      <4> QED
        BY <2>3, <2>4, <3>3, <4>1, <4>2, <4>3
    <3> QED
      BY <1>1, <2>3, <3>1, <3>2, <3>3
  <2>7. SummariesPartition'
    BY <1>1, <2>1, <2>3, <2>6 DEF SummariesPartition
  <2> QED
    BY <2>2, <2>5, <2>7 DEF SegmentChain
<1>3. ASSUME UNCHANGED <<lastConsolidated, summaries>>,
             bg'.pc = "compress" => \/ bg' = bg
                                    \/ /\ bg'.from = lastConsolidated
                                       /\ bg'.from < bg'.to
                                       /\ bg'.to + Keep <= Len(messages)
      PROVE  SegmentChain'
  <2>1. SummariesPartition'
    BY <1>3 DEF SegmentChain, SummariesPartition
  <2>2. TailKept'
    BY <1>1, <1>3 DEF SegmentChain, TailKept
  <2>3. CASE bg' = bg
    BY <1>1, <1>3, <2>1, <2>2, <2>3 DEF SegmentChain
  <2>4. CASE bg'.pc = "compress" /\ bg' # bg
    <3>1. bg'.from = lastConsolidated /\ bg'.from < bg'.to /\ bg'.to + Keep <= Len(messages)
      BY <1>3, <2>4
    <3>2. bg'.from \in Nat /\ bg'.to \in Nat
      BY TypeStep DEF TypeInv, TypeOK
    <3> QED
      BY <1>1, <1>3, <2>1, <2>2, <3>1, <3>2 DEF SegmentChain
  <2> QED
    BY <2>1, <2>2, <2>3, <2>4 DEF SegmentChain
<1>4. CASE Analyzed
  <2>1. UNCHANGED <<lastConsolidated, summaries>>
    BY <1>4 DEF Analyzed
  <2>2. CASE bg' = BgRest \/ EnforceBudget
    <3>1. bg'.pc # "compress"
      BY <2>2 DEF EnforceBudget, BgRest, BgAt, LoopHead
    <3> QED
      BY <1>3, <2>1, <3>1
  <2>3. CASE /\ Segment.from < Segment.to
             /\ bg' = [BgAt("compress", bg.turn) EXCEPT !.from = Segment.from,
                                                        !.to = Segment.to]
    <3>1. bg'.from = Segment.from /\ bg'.to = Segment.to
      BY <2>3 DEF BgAt
    <3>2. bg'.from = lastConsolidated /\ bg'.to = Len(messages) - Keep /\ bg'.from < bg'.to
      BY <2>3, <3>1 DEF Segment
    <3>3. bg'.to + Keep <= Len(messages)
      BY <1>1, <3>2
    <3> QED
      BY <1>3, <2>1, <3>2, <3>3
  <2> QED
    BY <1>4, <2>2, <2>3 DEF Analyzed
<1>5. CASE TakeSnapshot \/ DropTurn \/ CompressFailed \/ Archived \/ BgExit
  <2>1. UNCHANGED <<lastConsolidated, summaries>>
    BY <1>5 DEF TakeSnapshot, DropTurn, CompressFailed, Archived, BgExit, memoryVars
  <2>2. bg' = BgRest \/ EnforceBudget \/ bg' = BgAt("analyze", Head(queue))
    BY <1>5 DEF TakeSnapshot, DropTurn, CompressFailed, Archived, BgExit
  <2>3. bg'.pc # "compress"
    BY <2>2 DEF EnforceBudget, BgRest, BgAt, LoopHead
  <2> QED
    BY <1>3, <2>1, <2>3
<1>6. CASE PublishInbound \/ Stop \/ UNCHANGED vars
  BY <1>3, <1>6 DEF PublishInbound, Stop, memoryVars, vars
<1>7. CASE PersonaNext
  BY <1>3, <1>7 DEF PersonaNext, AnswerHelp, TakeMessage, Reply, ReplyError, PersonaExit, memoryVars
<1>8. CASE ToolWritesMemory
  BY <1>3, <1>8 DEF ToolWritesMemory
<1> QED
  BY <1>2, <1>4, <1>5, <1>6, <1>7, <1>8 DEF Next, BgNext

\* HISTORY.md covers the consolidated prefix of the session in segments that
\* neither overlap nor leave a gap, although the session grows during the call.
THEOREM SummariesArePartition == Spec => []SummariesPartition
<1>1. SegmentChain => SummariesPartition
  BY DEF SegmentChain
<1> QED
  BY <1>1, TypeInit, TypeStep, SegmentInit, SegmentStep, PTL DEF Spec

\* The newest Keep messages are never summarised, for every Keep.
THEOREM TailIsKept == Spec => []TailKept
<1>1. SegmentChain => TailKept
  BY DEF SegmentChain
<1> QED
  BY <1>1, TypeInit, TypeStep, SegmentInit, SegmentStep, PTL DEF Spec

(***************************************************************************)
(* The session.  SessionHoldsReplies reads the session by pairs; that the  *)
(* pairs stay in the order of the turns needs the turns of the pairs to be *)
(* answered already, which is the strengthening Recorded(n) adds: n        *)
(* exchanges, none of a turn that has no answer yet.                       *)
(***************************************************************************)
TurnAt(k) == messages[2 * k].turn

Recorded(n) ==
    /\ Len(messages) = 2 * n
    /\ \A k \in 1..n :
          /\ messages[2 * k - 1] = [role |-> "user", turn |-> TurnAt(k)]
          /\ messages[2 * k] = [role |-> "assistant", turn |-> TurnAt(k)]
          /\ TurnAt(k) \in 1..Len(outbound)
    /\ \A k, l \in 1..n : k < l => TurnAt(k) < TurnAt(l)
    /\ \A i \in 1..Len(outbound) :
          /\ outbound[i].kind = "reply" => \E k \in 1..n : TurnAt(k) = i
          /\ outbound[i].kind = "help" => \A k \in 1..n : TurnAt(k) # i

SessionRecorded == \E n \in Nat : Recorded(n)

LEMMA RecordedInit == Init => SessionRecorded
<1> SUFFICES ASSUME Init PROVE Recorded(0)
  BY DEF SessionRecorded
<1>1. Len(messages) = 0 /\ Len(outbound) = 0
  BY DEF Init
<1> QED
  BY <1>1 DEF Recorded

\* What an answer does to the sequence of the answers.
LEMMA AnswerAdded ==
    ASSUME TypeInv, NEW t \in Turns, NEW kind \in {"reply", "help", "error"},
           PublishOutbound(t, kind)
    PROVE  /\ Len(outbound) \in Nat
           /\ Len(outbound') = Len(outbound) + 1
           /\ \A i \in 1..Len(outbound) : outbound'[i] = outbound[i]
           /\ outbound'[Len(outbound) + 1].kind = kind
<1>1. [turn |-> t, kind |-> kind] \in [turn : Turns, kind : {"reply", "help", "error"}]
  OBVIOUS
<1> QED
  BY <1>1, AppendProperties, LenProperties DEF TypeInv, TypeOK, PublishOutbound

\* What a completed turn does to the session.
LEMMA ExchangeAdded ==
    ASSUME TypeInv, NEW t \in Turns, NEW n \in Nat, Len(messages) = 2 * n,
           messages' = messages \o Exchange(t)
    PROVE  /\ Len(messages') = 2 * (n + 1)
           /\ \A k \in 1..n : messages'[2 * k - 1] = messages[2 * k - 1]
                              /\ messages'[2 * k] = messages[2 * k]
           /\ messages'[2 * (n + 1) - 1] = [role |-> "user", turn |-> t]
           /\ messages'[2 * (n + 1)] = [role |-> "assistant", turn |-> t]
<1> DEFINE M == [role : {"user", "assistant"}, turn : Turns]
<1>1. /\ Exchange(t) \in Seq(M) /\ Len(Exchange(t)) = 2
      /\ Exchange(t)[1] = [role |-> "user", turn |-> t]
      /\ Exchange(t)[2] = [role |-> "assistant", turn |-> t]
  BY DEF Exchange
<1>2. messages \in Seq(M)
  BY DEF TypeInv, TypeOK
<1>3. /\ Len(messages') = 2 * n + 2
      /\ \A i \in 1..(2 * n + 2) :
            messages'[i] = IF i <= 2 * n THEN messages[i] ELSE Exchange(t)[i - 2 * n]
  <2> HIDE DEF M
  <2>1. /\ Len(messages \o Exchange(t)) = Len(messages) + Len(Exchange(t))
        /\ \A i \in 1..Len(messages) + Len(Exchange(t)) : (messages \o Exchange(t))[i] =
              IF i <= Len(messages) THEN messages[i] ELSE Exchange(t)[i - Len(messages)]
    BY <1>1, <1>2, ConcatProperties
  <2> QED
    BY <1>1, <2>1
<1>4. ASSUME NEW k \in 1..n
      PROVE  messages'[2 * k - 1] = messages[2 * k - 1] /\ messages'[2 * k] = messages[2 * k]
  <2>1. /\ 2 * k \in 1..(2 * n + 2) /\ 2 * k - 1 \in 1..(2 * n + 2)
        /\ 2 * k <= 2 * n /\ 2 * k - 1 <= 2 * n
    OBVIOUS
  <2> QED
    BY <1>3, <2>1
<1>5. /\ 2 * (n + 1) - 1 \in 1..(2 * n + 2) /\ 2 * (n + 1) \in 1..(2 * n + 2)
      /\ ~(2 * (n + 1) - 1 <= 2 * n) /\ ~(2 * (n + 1) <= 2 * n)
      /\ 2 * (n + 1) - 1 - 2 * n = 1 /\ 2 * (n + 1) - 2 * n = 2
      /\ 2 * (n + 1) = 2 * n + 2
  OBVIOUS
<1>6. messages'[2 * (n + 1) - 1] = Exchange(t)[1] /\ messages'[2 * (n + 1)] = Exchange(t)[2]
  BY <1>3, <1>5
<1> QED
  BY <1>1, <1>3, <1>4, <1>5, <1>6

\* An answer that records nothing: the error text, or /help.
LEMMA UnrecordedAnswer ==
    ASSUME TypeInv, NEW n \in Nat, Recorded(n), NEW t \in Turns, NEW kind \in {"help", "error"},
           PublishOutbound(t, kind), UNCHANGED messages
    PROVE  Recorded(n)'
<1>1. /\ Len(outbound) \in Nat
      /\ Len(outbound') = Len(outbound) + 1
      /\ \A i \in 1..Len(outbound) : outbound'[i] = outbound[i]
      /\ outbound'[Len(outbound) + 1].kind = kind
  BY AnswerAdded
<1>2. \A k \in 1..n : TurnAt(k)' = TurnAt(k) /\ TurnAt(k) \in 1..Len(outbound)
  <2>1. \A k \in 1..n : TurnAt(k)' = TurnAt(k)
    BY DEF TurnAt
  <2>2. \A k \in 1..n : TurnAt(k) \in 1..Len(outbound)
    BY DEF Recorded
  <2> QED
    BY <2>1, <2>2
<1>3. ASSUME NEW i \in 1..Len(outbound')
      PROVE  /\ outbound'[i].kind = "reply" => \E k \in 1..n : TurnAt(k) = i
             /\ outbound'[i].kind = "help" => \A k \in 1..n : TurnAt(k) # i
  <2>1. CASE i \in 1..Len(outbound)
    BY <1>1, <2>1 DEF Recorded
  <2>2. CASE i = Len(outbound) + 1
    BY <1>1, <1>2, <2>2
  <2> QED
    BY <1>1, <2>1, <2>2
<1>4. /\ Len(messages') = 2 * n
      /\ \A k \in 1..n :
            /\ messages'[2 * k - 1] = [role |-> "user", turn |-> TurnAt(k)']
            /\ messages'[2 * k] = [role |-> "assistant", turn |-> TurnAt(k)']
      /\ \A k, l \in 1..n : k < l => TurnAt(k)' < TurnAt(l)'
  BY <1>2 DEF Recorded
<1>5. \A k \in 1..n : TurnAt(k)' \in 1..Len(outbound')
  BY <1>1, <1>2
<1>6. \A i \in 1..Len(outbound') :
         /\ outbound'[i].kind = "reply" => \E k \in 1..n : TurnAt(k)' = i
         /\ outbound'[i].kind = "help" => \A k \in 1..n : TurnAt(k)' # i
  BY <1>2, <1>3
<1> QED
  BY <1>4, <1>5, <1>6 DEF Recorded

\* A completed turn, the first one that had no answer: its exchange is last.
LEMMA RecordedAnswer ==
    ASSUME TypeInv, NEW n \in Nat, Recorded(n), NEW t \in Turns, t = Len(outbound) + 1,
           NEW kind \in {"reply", "error"}, PublishOutbound(t, kind),
           messages' = messages \o Exchange(t)
    PROVE  Recorded(n + 1)'
<1>1. /\ Len(outbound) \in Nat
      /\ Len(outbound') = Len(outbound) + 1
      /\ \A i \in 1..Len(outbound) : outbound'[i] = outbound[i]
      /\ outbound'[Len(outbound) + 1].kind = kind
  BY AnswerAdded
<1>2. /\ Len(messages') = 2 * (n + 1)
      /\ \A k \in 1..n : messages'[2 * k - 1] = messages[2 * k - 1]
                         /\ messages'[2 * k] = messages[2 * k]
      /\ messages'[2 * (n + 1) - 1] = [role |-> "user", turn |-> t]
      /\ messages'[2 * (n + 1)] = [role |-> "assistant", turn |-> t]
  <2>1. Len(messages) = 2 * n
    BY DEF Recorded
  <2> QED
    BY <2>1, ExchangeAdded
<1>3. \A k \in 1..n : TurnAt(k)' = TurnAt(k) /\ TurnAt(k) \in 1..Len(outbound)
  <2>1. ASSUME NEW k \in 1..n PROVE TurnAt(k)' = TurnAt(k)
    <3>1. messages'[2 * k] = messages[2 * k]
      BY <1>2
    <3> QED
      BY <3>1 DEF TurnAt
  <2>2. \A k \in 1..n : TurnAt(k) \in 1..Len(outbound)
    BY DEF Recorded
  <2> QED
    BY <2>1, <2>2
<1>4. TurnAt(n + 1)' = t
  <2>1. PICK last : last = messages'[2 * (n + 1)]
    BY Zenon
  <2>2. last = [role |-> "assistant", turn |-> t]
    BY <1>2, <2>1, Zenon
  <2>3. last.turn = t
    BY <2>2
  <2> QED
    BY <2>1, <2>3, Zenon DEF TurnAt
<1>5. \A k \in 1..(n + 1) : k \in 1..n \/ k = n + 1
  OBVIOUS
<1>6. ASSUME NEW k \in 1..(n + 1)
      PROVE  /\ messages'[2 * k - 1] = [role |-> "user", turn |-> TurnAt(k)']
             /\ messages'[2 * k] = [role |-> "assistant", turn |-> TurnAt(k)']
             /\ TurnAt(k)' \in 1..Len(outbound')
  <2>1. CASE k \in 1..n
    <3>1. /\ messages[2 * k - 1] = [role |-> "user", turn |-> TurnAt(k)]
          /\ messages[2 * k] = [role |-> "assistant", turn |-> TurnAt(k)]
      BY <2>1 DEF Recorded
    <3>2. TurnAt(k)' = TurnAt(k) /\ TurnAt(k)' \in 1..Len(outbound')
      BY <1>1, <1>3, <2>1
    <3> QED
      BY <1>2, <2>1, <3>1, <3>2
  <2>2. CASE k = n + 1
    <3>1. TurnAt(n + 1)' \in 1..Len(outbound')
      BY <1>1, <1>4
    <3> QED
      BY <1>2, <1>4, <2>2, <3>1
  <2> QED
    BY <1>5, <2>1, <2>2
<1>7. ASSUME NEW k \in 1..(n + 1), NEW l \in 1..(n + 1), k < l
      PROVE  TurnAt(k)' < TurnAt(l)'
  <2>1. k \in 1..n
    BY <1>7
  <2>2. CASE l \in 1..n
    BY <1>3, <1>7, <2>1, <2>2 DEF Recorded
  <2>3. CASE l = n + 1
    <3>1. TurnAt(k)' \in 1..Len(outbound) /\ TurnAt(l)' = Len(outbound) + 1
      BY <1>3, <1>4, <2>1, <2>3
    <3> QED
      BY <1>1, <3>1
  <2> QED
    BY <1>5, <2>2, <2>3
<1>8. ASSUME NEW i \in 1..Len(outbound')
      PROVE  /\ outbound'[i].kind = "reply" => \E k \in 1..(n + 1) : TurnAt(k)' = i
             /\ outbound'[i].kind = "help" => \A k \in 1..(n + 1) : TurnAt(k)' # i
  <2>1. CASE i \in 1..Len(outbound)
    <3>1. ASSUME outbound'[i].kind = "reply" PROVE \E k \in 1..(n + 1) : TurnAt(k)' = i
      <4>1. PICK k \in 1..n : TurnAt(k) = i
        BY <1>1, <2>1, <3>1 DEF Recorded
      <4> QED
        BY <1>3, <4>1
    <3>2. ASSUME outbound'[i].kind = "help", NEW k \in 1..(n + 1) PROVE TurnAt(k)' # i
      <4>1. CASE k \in 1..n
        BY <1>1, <1>3, <2>1, <3>2, <4>1 DEF Recorded
      <4>2. CASE k = n + 1
        BY <1>1, <1>4, <2>1, <4>2
      <4> QED
        BY <1>5, <4>1, <4>2
    <3> QED
      BY <3>1, <3>2
  <2>2. CASE i = Len(outbound) + 1
    <3>1. TurnAt(n + 1)' = i /\ n + 1 \in 1..(n + 1) /\ outbound'[i].kind # "help"
      BY <1>1, <1>4, <2>2
    <3> QED
      BY <3>1
  <2> QED
    BY <1>1, <2>1, <2>2
<1> QED
  BY <1>2, <1>6, <1>7, <1>8 DEF Recorded

LEMMA RecordedStep ==
    ASSUME TypeInv, AnsweredInOrder, SessionRecorded, [Next]_vars
    PROVE  SessionRecorded'
<1>1. PICK n \in Nat : Recorded(n)
  BY DEF SessionRecorded
<1>2. CASE Reply
  <2>1. /\ persona.turn \in Turns /\ persona.turn = Len(outbound) + 1
        /\ messages' = messages \o Exchange(persona.turn)
    BY <1>2 DEF Reply, TypeInv, BusyTurns, AnsweredInOrder
  <2>2. PICK kind \in {"reply", "error"} : PublishOutbound(persona.turn, kind)
    BY <1>2 DEF Reply
  <2>3. Recorded(n + 1)'
    BY <1>1, <2>1, <2>2, RecordedAnswer
  <2>4. n + 1 \in Nat
    OBVIOUS
  <2> QED
    BY <2>3, <2>4 DEF SessionRecorded
<1>3. CASE ReplyError \/ AnswerHelp
  <2>1. \E t \in Turns, kind \in {"help", "error"} : PublishOutbound(t, kind)
    <3>1. CASE ReplyError
      BY <3>1 DEF ReplyError, TypeInv, BusyTurns
    <3>2. CASE AnswerHelp
      <4>1. Head(inbound) \in Turns
        BY <3>2, HeadTailProperties DEF AnswerHelp, Ready, TypeInv, TypeOK
      <4> QED
        BY <3>2, <4>1 DEF AnswerHelp
    <3> QED
      BY <1>3, <3>1, <3>2
  <2>2. messages' = messages
    BY <1>3 DEF ReplyError, AnswerHelp
  <2>3. Recorded(n)'
    BY <1>1, <2>1, <2>2, UnrecordedAnswer
  <2> QED
    BY <2>3 DEF SessionRecorded
<1>4. CASE UNCHANGED <<messages, outbound>>
  <2>1. Recorded(n)'
    BY <1>1, <1>4 DEF Recorded, TurnAt
  <2> QED
    BY <2>1 DEF SessionRecorded
<1>5. ASSUME PublishInbound \/ Stop \/ TakeMessage \/ PersonaExit \/ BgNext \/ UNCHANGED vars
      PROVE  UNCHANGED <<messages, outbound>>
  BY <1>5 DEF PublishInbound, Stop, TakeMessage, PersonaExit, BgNext, TakeSnapshot,
              ToolWritesMemory, Analyzed, DropTurn, Compressed, CompressFailed, Archived,
              BgExit, personaVars, vars
<1> QED
  BY <1>2, <1>3, <1>4, <1>5 DEF Next, PersonaNext

\* Read by pairs, a session of recorded exchanges is what the property asks.
LEMMA RecordedHolds ==
    ASSUME TypeInv, AnsweredInOrder, SessionRecorded
    PROVE  SessionHoldsReplies
<1>1. PICK n \in Nat : Recorded(n)
  BY DEF SessionRecorded
<1>2. Len(messages) = 2 * n
  BY <1>1 DEF Recorded
<1>3. Len(messages) % 2 = 0 /\ Len(messages) \div 2 = n
  BY <1>2
<1>4. ASSUME NEW k \in 1..n
      PROVE  SubSeq(messages, 2 * k - 1, 2 * k) = Exchange(TurnAt(k))
  <2> DEFINE M == [role : {"user", "assistant"}, turn : Turns]
             s == SubSeq(messages, 2 * k - 1, 2 * k)
  <2>1. 2 * k \in 1..Len(messages) /\ 2 * k - 1 \in 1..Len(messages)
    BY <1>2
  <2>2. \A i \in (2 * k - 1)..(2 * k) : messages[i] \in M
    <3>1. \A i \in 1..Len(messages) : messages[i] \in M
      BY ElementOfSeq DEF TypeInv, TypeOK
    <3>2. \A i \in (2 * k - 1)..(2 * k) : i \in 1..Len(messages)
      BY <2>1, <1>2
    <3> QED
      BY <3>1, <3>2
  <2>3. /\ s \in Seq(M) /\ Len(s) = 2
        /\ s[1] = messages[2 * k - 1] /\ s[2] = messages[2 * k]
    <3> HIDE DEF M
    <3>1. 2 * k - 1 \in Int /\ 2 * k \in Int /\ 2 * k - 1 <= 2 * k
          /\ 2 * k - (2 * k - 1) + 1 = 2
      OBVIOUS
    <3>2. /\ SubSeq(messages, 2 * k - 1, 2 * k) \in Seq(M)
          /\ Len(SubSeq(messages, 2 * k - 1, 2 * k)) = 2
          /\ \A i \in 1..2 : SubSeq(messages, 2 * k - 1, 2 * k)[i] = messages[2 * k - 1 + i - 1]
      BY <2>2, <3>1, SubSeqProperties
    <3>3. 1 \in 1..2 /\ 2 \in 1..2
      OBVIOUS
    <3>4. /\ s[1] = messages[2 * k - 1 + 1 - 1]
          /\ s[2] = messages[2 * k - 1 + 2 - 1]
      BY <3>2, <3>3
    <3>5. 2 * k - 1 + 1 - 1 = 2 * k - 1 /\ 2 * k - 1 + 2 - 1 = 2 * k
      OBVIOUS
    <3> QED
      BY <3>2, <3>4, <3>5
  <2>4. /\ messages[2 * k - 1] = [role |-> "user", turn |-> TurnAt(k)]
        /\ messages[2 * k] = [role |-> "assistant", turn |-> TurnAt(k)]
    BY <1>1 DEF Recorded
  <2>5. TurnAt(k) \in Turns
    BY <2>2 DEF TurnAt
  <2>6. /\ Exchange(TurnAt(k)) \in Seq(M) /\ Len(Exchange(TurnAt(k))) = 2
        /\ Exchange(TurnAt(k))[1] = [role |-> "user", turn |-> TurnAt(k)]
        /\ Exchange(TurnAt(k))[2] = [role |-> "assistant", turn |-> TurnAt(k)]
    BY <2>5 DEF Exchange
  <2>7. \A i \in 1..Len(s) : s[i] = Exchange(TurnAt(k))[i]
    <3> HIDE DEF s
    <3> QED
      BY <2>3, <2>4, <2>6
  <2> HIDE DEF s, M
  <2>8. s = Exchange(TurnAt(k))
    BY <2>3, <2>6, <2>7, SeqEqual
  <2> QED
    BY <2>8 DEF s
<1>5. \A i \in 1..Len(outbound) :
         LET recorded == \E k \in 1..n : TurnAt(k) = outbound[i].turn
         IN  /\ outbound[i].kind = "reply" => recorded
             /\ outbound[i].kind = "help" => ~recorded
  <2>1. \A i \in 1..Len(outbound) : outbound[i].turn = i
    BY DEF AnsweredInOrder
  <2> QED
    BY <1>1, <2>1 DEF Recorded
<1>6. \A k, l \in 1..n : k < l => TurnAt(k) < TurnAt(l)
  BY <1>1 DEF Recorded
<1> QED
  BY <1>3, <1>4, <1>5, <1>6 DEF SessionHoldsReplies, TurnAt

\* Failed turns, timeouts and /help leave no trace in the session, and every
\* turn answered with a reply has its exchange there, in the order of the turns.
THEOREM SessionIsComplete == Spec => []SessionHoldsReplies
BY TypeInit, TypeStep, AnsweredInit, AnsweredStep, RecordedInit, RecordedStep,
   RecordedHolds, PTL DEF Spec

(***************************************************************************)
(* Refinement.  Seen from the holder, the two lanes are the mailbox.       *)
(***************************************************************************)
Sources(d) == [i \in 1..Len(d) |-> d[i].src]

LEMMA SourcesLength ==
    ASSUME NEW e \in Seq([turn : Turns, src : Turns, text : BOOLEAN])
    PROVE  Sources(e) \in Seq(Turns) /\ Len(Sources(e)) = Len(e)
<1>1. Len(e) \in Nat
  BY LenProperties
<1>2. \A i \in 1..Len(e) : e[i].src \in Turns
  <2>1. \A i \in 1..Len(e) : e[i] \in [turn : Turns, src : Turns, text : BOOLEAN]
    BY ElementOfSeq
  <2> QED
    BY <2>1
<1>3. Sources(e) \in [1..Len(e) -> Turns]
  BY <1>2 DEF Sources
<1>4. Sources(e) \in Seq(Turns)
  BY <1>1, <1>3, SeqDef
<1>5. Len(Sources(e)) \in Nat /\ DOMAIN Sources(e) = 1..Len(Sources(e))
  BY <1>4, LenProperties
<1>6. DOMAIN Sources(e) = 1..Len(e)
  BY DEF Sources
<1> QED
  BY <1>1, <1>4, <1>5, <1>6

LEMMA SourcesAppend ==
    ASSUME TypeInv, NEW d \in [turn : Turns, src : Turns, text : BOOLEAN]
    PROVE  Sources(Append(delivered, d)) = Append(Sources(delivered), d.src)
<1> DEFINE n == Len(delivered)
           more == Append(delivered, d)
<1>1. n \in Nat /\ d.src \in Turns
  BY LenProperties DEF TypeInv, TypeOK
<1>2. /\ more \in Seq([turn : Turns, src : Turns, text : BOOLEAN])
      /\ Len(more) = n + 1
      /\ \A i \in 1..n : more[i] = delivered[i]
      /\ more[n + 1] = d
  BY AppendProperties DEF TypeInv, TypeOK
<1>4. /\ Sources(more) \in Seq(Turns) /\ Len(Sources(more)) = n + 1
      /\ Sources(delivered) \in Seq(Turns) /\ Len(Sources(delivered)) = n
  BY <1>2, SourcesLength DEF TypeInv, TypeOK
<1>5. /\ Append(Sources(delivered), d.src) \in Seq(Turns)
      /\ Len(Append(Sources(delivered), d.src)) = n + 1
      /\ \A i \in 1..n : Append(Sources(delivered), d.src)[i] = Sources(delivered)[i]
      /\ Append(Sources(delivered), d.src)[n + 1] = d.src
  BY <1>1, <1>4, AppendProperties
<1>6. ASSUME NEW i \in 1..(n + 1)
      PROVE  Sources(more)[i] = Append(Sources(delivered), d.src)[i]
  <2>1. Sources(more)[i] = more[i].src
    BY <1>2 DEF Sources
  <2>2. CASE i \in 1..n
    BY <1>2, <1>5, <2>1, <2>2 DEF Sources
  <2>3. CASE i = n + 1
    BY <1>2, <1>5, <2>1, <2>3
  <2>4. i \in 1..n \/ i = n + 1
    <3> HIDE DEF n
    <3> QED
      BY <1>1
  <2> QED
    BY <2>2, <2>3, <2>4
<1> QED
  BY <1>4, <1>5, <1>6, SeqEqual

LEMMA MailboxInit == Init => Mailbox!Init
<1> SUFFICES ASSUME Init PROVE Mailbox!Init
  OBVIOUS
<1>1. holder.src = 0 /\ delivered = << >>
  BY DEF Init, NoUpdate
<1>2. [i \in 1..Len(delivered) |-> delivered[i].src] = << >>
  BY <1>1
<1> QED
  BY <1>1, <1>2 DEF Mailbox!Init

LEMMA MailboxStep ==
    ASSUME TypeInv, TypeInv', HintChain, [Next]_vars
    PROVE  [Mailbox!Next]_Mailbox!vars
<1>1. CASE UNCHANGED hintVars
  BY <1>1 DEF hintVars, Mailbox!vars
<1>2. CASE TakeMessage
  <2>1. holder' = NoUpdate /\ delivered' = Delivery(Head(inbound)) /\ Head(inbound) \in Turns
    BY <1>2, HeadTailProperties DEF TakeMessage, Ready, ReadAndConsume, TypeInv, TypeOK
  <2>2. CASE holder = NoUpdate
    BY <1>1, <2>1, <2>2 DEF Delivery, hintVars
  <2>3. CASE holder # NoUpdate
    <3> DEFINE d == [turn |-> Head(inbound), src |-> holder.src, text |-> holder.text]
    <3>1. holder.src \in 0..MaxTurns /\ holder.text \in BOOLEAN /\ holder.src # 0
      BY <2>3 DEF TypeInv, TypeOK, BusyTurns, Updates
    <3>2. holder.src \in Turns
      BY <3>1, ConstantsAssumption DEF Turns
    <3>3. d \in [turn : Turns, src : Turns, text : BOOLEAN]
      BY <2>1, <3>1, <3>2
    <3>4. delivered' = Append(delivered, d) /\ holder'.src = 0
      BY <2>1, <2>3 DEF Delivery, NoUpdate
    <3>5. Sources(delivered') = Append(Sources(delivered), holder.src)
      BY <3>3, <3>4, SourcesAppend
    <3>6. Mailbox!Consume
      BY <3>1, <3>4, <3>5 DEF Mailbox!Consume, Sources
    <3> QED
      BY <3>6 DEF Mailbox!Next
  <2> QED
    BY <2>2, <2>3
<1>3. CASE Analyzed
  <2>1. holder'.src = bg.turn /\ delivered' = delivered /\ bg.pc = "analyze" /\ bg.turn \in Turns
    BY <1>3 DEF Analyzed, TypeInv, BusyTurns
  <2>2. Newer(bg.turn, holder, delivered)
    BY <2>1 DEF HintChain
  <2>3. Mailbox!Newest < bg.turn
    <3>1. CASE holder.src # 0
      BY <2>2, <3>1 DEF Mailbox!Newest, Newer
    <3>2. CASE holder.src = 0 /\ Sources(delivered) = << >>
      BY <2>1, <3>2 DEF Mailbox!Newest, Sources, Turns
    <3>3. CASE holder.src = 0 /\ Sources(delivered) # << >>
      <4>1. Len(Sources(delivered)) \in 1..Len(delivered)
        <5>1. Len(Sources(delivered)) = Len(delivered) /\ Sources(delivered) \in Seq(Turns)
          BY SourcesLength DEF TypeInv, TypeOK
        <5>2. Len(Sources(delivered)) \in Nat \ {0}
          BY <3>3, <5>1, EmptySeq
        <5> QED
          BY <5>1, <5>2
      <4>2. Sources(delivered)[Len(Sources(delivered))] < bg.turn
        BY <2>2, <4>1 DEF Newer, Sources
      <4> QED
        BY <3>3, <4>2 DEF Mailbox!Newest, Sources
    <3> QED
      BY <3>1, <3>2, <3>3
  <2>4. Mailbox!Publish
    BY <2>1, <2>3 DEF Mailbox!Publish, Turns
  <2> QED
    BY <2>4 DEF Mailbox!Next
<1>4. CASE PublishInbound \/ Stop \/ UNCHANGED vars
  BY <1>1, <1>4 DEF PublishInbound, Stop, hintVars, vars
<1>5. CASE AnswerHelp \/ Reply \/ ReplyError \/ PersonaExit
  BY <1>1, <1>5 DEF AnswerHelp, Reply, ReplyError, PersonaExit
<1>6. CASE TakeSnapshot \/ ToolWritesMemory \/ DropTurn
  BY <1>1, <1>6 DEF TakeSnapshot, ToolWritesMemory, DropTurn
<1>7. CASE CompressFailed \/ Compressed \/ Archived \/ BgExit
  BY <1>1, <1>7 DEF CompressFailed, Compressed, Archived, BgExit
<1> QED
  BY <1>2, <1>3, <1>4, <1>5, <1>6, <1>7 DEF Next, PersonaNext, BgNext

\* The hint channel of the two lanes implements the one-slot, latest-wins,
\* take-once mailbox, for any number of turns.
THEOREM ImplementsMailbox == Spec => MailboxSpec
BY TypeInit, TypeStep, AnsweredInit, AnsweredStep, HintInit, HintStep,
   MailboxInit, MailboxStep, PTL DEF Spec, MailboxSpec, Mailbox!Spec
=============================================================================
