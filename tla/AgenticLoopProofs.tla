------------------------- MODULE AgenticLoopProofs -------------------------
(***************************************************************************)
(* Proofs about AgenticLoop, for any limit on iterations, attempts and     *)
(* tool calls.  The dialogue is inductive once it also says how far the    *)
(* results of the last response have come; the bound on attempts once it   *)
(* says which attempts belong to the request that is out, and that all     *)
(* others were shorter.                                                    *)
(***************************************************************************)
EXTENDS AgenticLoop, SequenceTheorems, TLAPS

-----------------------------------------------------------------------------
(* Types. *)

TypeInv ==
    /\ TypeOK
    /\ pc \in {"request", "backoff"} => attempt \in 1..MaxRetries /\ iteration \in 1..MaxIterations
    /\ pc = "backoff" => attempt < MaxRetries
    /\ pc = "tools" => answered < Len(calls) /\ iteration \in 1..MaxIterations
                       /\ attempt \in 1..MaxRetries

LEMMA Limits == MaxIterations \in Nat \ {0} /\ MaxRetries \in Nat \ {0} /\ MaxCalls \in Nat \ {0}
BY ConstantsAssumption

LEMMA TypeInit == Init => TypeInv
<1> SUFFICES ASSUME Init PROVE TypeInv
    OBVIOUS
<1>1. counted \in BOOLEAN
    BY DEF Init
<1>2. messages \in Seq(Messages) /\ calls \in Seq(Calls) /\ Len(calls) = 0
    BY DEF Init
<1>3. reports \in Seq({"reply", "nothing", "error"}) /\ sent \in Seq(Nat)
    BY DEF Init
<1> QED
    BY <1>1, <1>2, <1>3, Limits DEF Init, TypeInv, TypeOK

LEMMA AskedIsSeq ==
    AskForTools => \E asked \in Seq(Calls) : Len(asked) \in 1..MaxCalls /\ AskedFor(asked)
<1> SUFFICES ASSUME AskForTools
             PROVE  \E asked \in Seq(Calls) : Len(asked) \in 1..MaxCalls /\ AskedFor(asked)
    OBVIOUS
<1>1. PICK n \in 1..MaxCalls : \E asked \in [1..n -> Calls] : AskedFor(asked)
    BY DEF AskForTools
<1>2. PICK asked \in [1..n -> Calls] : AskedFor(asked)
    BY <1>1
<1>3. asked \in Seq(Calls) /\ Len(asked) = n
    BY <1>2, Limits
<1> QED
    BY <1>2, <1>3

LEMMA TypeStep == TypeInv /\ [Next]_vars => TypeInv'
<1> SUFFICES ASSUME TypeInv, [Next]_vars PROVE TypeInv'
    OBVIOUS
<1> USE Limits DEF TypeInv, TypeOK
<1>1. CASE Begin
    BY <1>1 DEF Begin, Attempt
<1>2. CASE Slept
    BY <1>2 DEF Slept, Attempt
<1>3. CASE TransientError
    <2>1. reports' \in Seq({"reply", "nothing", "error"})
        <3>1. reports' = reports \/ reports' = Append(reports, "error")
            BY <1>3 DEF TransientError, Raised
        <3>2. reports \in Seq({"reply", "nothing", "error"})
            OBVIOUS
        <3> HIDE DEF TypeInv, TypeOK
        <3> QED
            BY <3>1, <3>2, AppendProperties
    <2>2. outcome' \in {"none", "answer", "exhausted", "raised", "cancelled"}
        BY <1>3 DEF TransientError, Raised
    <2>3. CASE attempt < MaxRetries /\ pc' = "backoff"
        BY <1>3, <2>1, <2>2, <2>3 DEF TransientError
    <2>4. CASE pc' = "over"
        BY <1>3, <2>1, <2>2, <2>4 DEF TransientError
    <2> QED
        BY <1>3, <2>3, <2>4 DEF TransientError, Raised
<1>4. CASE LastingError
    BY <1>4 DEF LastingError, Raised
<1>5. CASE Answer
    BY <1>5 DEF Answer, Returned
<1>6. CASE AskForTools
    <2>1. PICK asked \in Seq(Calls) : Len(asked) \in 1..MaxCalls /\ AskedFor(asked)
        BY <1>6, AskedIsSeq
    <2>2. Asking(Len(asked)) \in Messages
        BY <2>1 DEF Asking, Messages
    <2>3. CASE Raised /\ UNCHANGED <<messages, calls, answered>>
        <3>1. reports' \in Seq({"reply", "nothing", "error"})
            BY <2>3 DEF Raised
        <3> QED
            BY <1>6, <2>3, <3>1 DEF AskForTools, Raised
    <2>4. CASE /\ pc' = "tools" /\ calls' = asked /\ answered' = 0
               /\ messages' = Append(messages, Asking(Len(asked)))
               /\ UNCHANGED <<outcome, reports>>
        <3>1. messages' \in Seq(Messages)
            BY <2>2, <2>4
        <3> QED
            BY <1>6, <2>1, <2>4, <3>1 DEF AskForTools
    <2> QED
        BY <2>1, <2>3, <2>4 DEF AskedFor
<1>7. CASE ExecuteTool
    <2>1. Result(answered + 1) \in Messages
        BY <1>7 DEF ExecuteTool, Result, Messages
    <2>2. WithResult \in Seq(Messages)
        BY <2>1 DEF WithResult
    <2>3. CASE answered + 1 < Len(calls)
        BY <1>7, <2>2, <2>3 DEF ExecuteTool
    <2>4. CASE ~(answered + 1 < Len(calls))
        <3>1. NextRequest(WithResult) /\ pc = "tools" /\ answered + 1 = Len(calls)
            BY <1>7, <2>4 DEF ExecuteTool
        <3>2. CASE iteration < MaxIterations
            <4>1. sent' \in Seq(Nat)
                <5>1. sent' = Append(sent, Len(WithResult)) /\ Len(WithResult) \in Nat
                    BY <2>2, <3>1, <3>2, LenProperties DEF NextRequest, Attempt
                <5> QED
                    BY <5>1, AppendProperties
            <4> QED
                BY <1>7, <2>2, <3>1, <3>2, <4>1 DEF ExecuteTool, NextRequest, Attempt
        <3>3. CASE ~(iteration < MaxIterations)
            <4>1. reports' \in Seq({"reply", "nothing", "error"})
                <5> HIDE DEF TypeInv
                <5>1. reports \in Seq({"reply", "nothing", "error"})
                    BY DEF TypeInv
                <5>2. reports' = Append(reports, "nothing")
                    BY <3>1, <3>3 DEF NextRequest, Returned
                <5> QED
                    BY <5>1, <5>2, AppendProperties
            <4> QED
                BY <1>7, <2>2, <3>1, <3>3, <4>1 DEF ExecuteTool, NextRequest, Returned
        <3> QED
            BY <3>2, <3>3
    <2> QED
        BY <2>3, <2>4
<1>8. CASE Cancelled
    BY <1>8 DEF Cancelled
<1>9. CASE Done
    BY <1>9 DEF Done, loopVars
<1>10. CASE UNCHANGED vars
    BY <1>10 DEF vars, loopVars
<1> QED
    BY <1>1, <1>2, <1>3, <1>4, <1>5, <1>6, <1>7, <1>8, <1>9, <1>10 DEF Next, Running

\* The variables keep their types, and the counters their limits.
THEOREM TypeCorrect == Spec => []TypeInv
<1>1. Init => TypeInv
    BY TypeInit
<1>2. TypeInv /\ [Next]_vars => TypeInv'
    BY TypeStep
<1> QED
    BY <1>1, <1>2, PTL DEF Spec

-----------------------------------------------------------------------------
(* The dialogue. *)

\* The result of the k-th call of the response at i is there.
HasResult(i, k) == i + k <= Len(messages) /\ messages[i + k] = Result(k)

\* The position of the response whose calls are being executed.
Asked == Len(messages) - answered

Dialogue ==
    /\ \A i \in 1..Len(messages) :
          messages[i].role = "tool" =>
              /\ messages[i].n < i
              /\ messages[i - messages[i].n].role = "assistant"
              /\ messages[i].n <= messages[i - messages[i].n].n
    /\ \A i \in 1..Len(messages) :
          messages[i].role = "assistant" /\ (pc = "tools" => i # Asked) =>
              \A k \in 1..messages[i].n : HasResult(i, k)
    /\ pc = "tools" =>
          /\ Asked >= 1
          /\ messages[Asked] = Asking(Len(calls))
          /\ \A k \in 1..answered : HasResult(Asked, k)

LEMMA DialogueInit == Init => Dialogue
BY DEF Init, Dialogue

LEMMA DialogueStep == TypeInv /\ TypeInv' /\ Dialogue /\ [Next]_vars => Dialogue'
<1> SUFFICES ASSUME TypeInv, TypeInv', Dialogue, [Next]_vars PROVE Dialogue'
    OBVIOUS
<1> USE ConstantsAssumption
<1>1. CASE UNCHANGED messages /\ pc # "tools" /\ pc' # "tools"
    BY <1>1 DEF Dialogue, HasResult, Asked
<1>2. CASE AskForTools /\ messages' # messages
    <2>1. PICK asked \in Seq(Calls) : Len(asked) \in 1..MaxCalls /\ AskedFor(asked)
        BY <1>2, AskedIsSeq
    <2> DEFINE L == Len(messages)
    <2>2. /\ messages' = Append(messages, Asking(Len(asked)))
          /\ pc' = "tools" /\ answered' = 0 /\ calls' = asked
          /\ pc # "tools"
        BY <1>2, <2>1 DEF AskedFor, AskForTools
    <2>3. /\ messages \in Seq(Messages) /\ L \in Nat
          /\ Len(messages') = L + 1 /\ messages'[L + 1] = Asking(Len(asked))
          /\ \A i \in 1..L : messages'[i] = messages[i] /\ messages[i].n \in Nat \ {0}
        <3>1. messages \in Seq(Messages) /\ Asking(Len(asked)) \in Messages
            BY <2>1 DEF TypeInv, TypeOK, Asking, Messages
        <3>2. \A i \in 1..L : messages[i] \in Messages
            BY <3>1, ElementOfSeq
        <3>3. \A m \in Messages : m.n \in Nat \ {0}
            BY Limits DEF Messages
        <3> QED
            BY <2>2, <3>1, <3>2, <3>3, AppendProperties, LenProperties
    <2>4. Asked' = L + 1
        BY <2>2, <2>3 DEF Asked
    <2>5. \A i \in 1..L : messages[i].role = "assistant" =>
              \A k \in 1..messages[i].n : i + k \in 1..L /\ messages[i + k] = Result(k)
        <3> SUFFICES ASSUME NEW i \in 1..L, messages[i].role = "assistant",
                            NEW k \in 1..messages[i].n
                     PROVE  i + k \in 1..L /\ messages[i + k] = Result(k)
            OBVIOUS
        <3>1. HasResult(i, k)
            BY <2>2 DEF Dialogue
        <3> QED
            BY <2>3, <3>1 DEF HasResult
    <2>6. ASSUME NEW i \in 1..Len(messages'), messages'[i].role = "tool"
          PROVE  /\ messages'[i].n < i
                 /\ messages'[i - messages'[i].n].role = "assistant"
                 /\ messages'[i].n <= messages'[i - messages'[i].n].n
        <3>1. i \in 1..L /\ messages[i].role = "tool" /\ messages'[i] = messages[i]
            BY <2>3, <2>6 DEF Asking
        <3>2. /\ messages[i].n < i
              /\ messages[i - messages[i].n].role = "assistant"
              /\ messages[i].n <= messages[i - messages[i].n].n
            BY <3>1 DEF Dialogue
        <3>3. i - messages[i].n \in 1..L
            BY <2>3, <3>1, <3>2
        <3> QED
            BY <2>3, <3>1, <3>2, <3>3
    <2>7. ASSUME NEW i \in 1..Len(messages'), messages'[i].role = "assistant", i # Asked',
                 NEW k \in 1..messages'[i].n
          PROVE  HasResult(i, k)'
        <3>1. i \in 1..L /\ messages[i].role = "assistant" /\ k \in 1..messages[i].n
            BY <2>3, <2>4, <2>7
        <3>2. i + k \in 1..L /\ messages[i + k] = Result(k)
            BY <2>5, <3>1
        <3> QED
            BY <2>3, <3>2 DEF HasResult
    <2>8. Asked' >= 1 /\ messages'[Asked'] = Asking(Len(calls'))
        BY <2>2, <2>3, <2>4
    <2>9. \A k \in 1..answered' : HasResult(Asked, k)'
        BY <2>2
    <2> QED
        BY <2>2, <2>6, <2>7, <2>8, <2>9 DEF Dialogue
<1>3. CASE ExecuteTool
    <2> DEFINE L == Len(messages)
               a == Asked
    <2>1. /\ messages' = Append(messages, Result(answered + 1))
          /\ answered' = answered + 1 /\ calls' = calls /\ pc = "tools"
          /\ answered \in Nat /\ Len(calls) \in Nat /\ answered + 1 <= Len(calls)
          /\ pc' = "tools" => answered + 1 < Len(calls)
          /\ pc' # "tools" => answered + 1 = Len(calls)
        <3>1. answered \in Nat /\ Len(calls) \in Nat
            BY DEF TypeInv, TypeOK
        <3>2. pc = "tools" /\ answered + 1 <= Len(calls)
            BY <1>3, <3>1 DEF ExecuteTool, TypeInv
        <3> QED
            BY <1>3, <3>1, <3>2 DEF ExecuteTool, WithResult, NextRequest, Returned
    <2>2. /\ messages \in Seq(Messages) /\ L \in Nat
          /\ Len(messages') = L + 1 /\ messages'[L + 1] = Result(answered + 1)
          /\ \A i \in 1..L : messages'[i] = messages[i] /\ messages[i].n \in Nat \ {0}
        <3>1. messages \in Seq(Messages) /\ Result(answered + 1) \in Messages
            BY <2>1 DEF TypeInv, TypeOK, Result, Messages
        <3>2. \A i \in 1..L : messages[i] \in Messages
            BY <3>1, ElementOfSeq
        <3>3. \A m \in Messages : m.n \in Nat \ {0}
            BY Limits DEF Messages
        <3> QED
            BY <2>1, <3>1, <3>2, <3>3, AppendProperties, LenProperties
    <2>3. /\ a \in 1..L /\ L = a + answered /\ Asked' = a
          /\ messages[a] = Asking(Len(calls))
          /\ \A k \in 1..answered : messages[a + k] = Result(k)
        <3>1. Asked >= 1 /\ messages[Asked] = Asking(Len(calls))
              /\ \A k \in 1..answered : HasResult(Asked, k)
            BY <2>1 DEF Dialogue
        <3>2. a \in 1..L /\ L = a + answered /\ Asked' = a
            <4>1. /\ L \in Nat /\ answered \in Nat /\ Asked = L - answered
                  /\ Asked' = (L + 1) - (answered + 1)
                BY <2>1, <2>2 DEF Asked
            <4> QED
                BY <3>1, <4>1
        <3> QED
            BY <3>1, <3>2 DEF HasResult
    <2>4. \A k \in 1..(answered + 1) : a + k \in 1..(L + 1) /\ messages'[a + k] = Result(k)
        <3> SUFFICES ASSUME NEW k \in 1..(answered + 1)
                     PROVE  a + k \in 1..(L + 1) /\ messages'[a + k] = Result(k)
            OBVIOUS
        <3>1. CASE k \in 1..answered
            BY <2>1, <2>2, <2>3, <3>1
        <3>2. CASE k = answered + 1
            BY <2>1, <2>2, <2>3, <3>2
        <3> QED
            BY <2>1, <3>1, <3>2
    <2>5. \A i \in 1..L : messages[i].role = "assistant" /\ i # a =>
              \A k \in 1..messages[i].n : i + k \in 1..L /\ messages[i + k] = Result(k)
        <3> SUFFICES ASSUME NEW i \in 1..L, messages[i].role = "assistant", i # a,
                            NEW k \in 1..messages[i].n
                     PROVE  i + k \in 1..L /\ messages[i + k] = Result(k)
            OBVIOUS
        <3>1. HasResult(i, k)
            BY <2>1 DEF Dialogue
        <3>2. i \in Nat /\ k \in Nat \ {0}
            BY <2>2
        <3> QED
            BY <2>2, <3>1, <3>2 DEF HasResult
    <2>6. ASSUME NEW i \in 1..Len(messages'), messages'[i].role = "tool"
          PROVE  /\ messages'[i].n < i
                 /\ messages'[i - messages'[i].n].role = "assistant"
                 /\ messages'[i].n <= messages'[i - messages'[i].n].n
        <3>1. CASE i \in 1..L
            <4>1. /\ messages[i].n < i
                  /\ messages[i - messages[i].n].role = "assistant"
                  /\ messages[i].n <= messages[i - messages[i].n].n
                BY <2>2, <2>6, <3>1 DEF Dialogue
            <4>2. i - messages[i].n \in 1..L
                BY <2>2, <3>1, <4>1
            <4> QED
                BY <2>2, <3>1, <4>1, <4>2
        <3>2. CASE i = L + 1
            <4>1. messages'[i].n = answered + 1 /\ i - (answered + 1) = a
                BY <2>1, <2>2, <2>3, <3>2 DEF Result
            <4>2. messages'[a] = Asking(Len(calls))
                BY <2>2, <2>3
            <4> QED
                <5>1. messages'[a].role = "assistant" /\ messages'[a].n = Len(calls)
                    BY <4>2 DEF Asking
                <5>2. messages'[i].n < i /\ messages'[i].n <= Len(calls)
                    <6>1. answered \in Nat /\ answered + 1 <= Len(calls)
                        BY <2>1
                    <6>2. L \in Nat /\ a \in 1..L /\ L = a + answered /\ i = L + 1
                        BY <2>2, <2>3, <3>2
                    <6> HIDE DEF a, L
                    <6> QED
                        BY <4>1, <6>1, <6>2
                <5>3. i - messages'[i].n = a
                    BY <4>1
                <5> QED
                    BY <5>1, <5>2, <5>3
        <3> QED
            BY <2>2, <3>1, <3>2
    <2>7. ASSUME NEW i \in 1..Len(messages'), messages'[i].role = "assistant",
                 pc' = "tools" => i # Asked', NEW k \in 1..messages'[i].n
          PROVE  HasResult(i, k)'
        <3>1. i \in 1..L
            BY <2>2, <2>7 DEF Result
        <3>2. CASE i = a
            <4>1. pc' # "tools" /\ answered + 1 = Len(calls)
                BY <2>1, <2>3, <2>7, <3>2
            <4>2. messages'[i].n = Len(calls)
                BY <2>2, <2>3, <3>2 DEF Asking
            <4>3. k \in 1..(answered + 1)
                BY <2>7, <4>1, <4>2
            <4>4. a + k \in 1..(L + 1) /\ messages'[a + k] = Result(k)
                BY <2>4, <4>3
            <4>5. Len(messages') = L + 1 /\ L \in Nat
                BY <2>2
            <4> HIDE DEF a, L
            <4> QED
                BY <3>2, <4>4, <4>5 DEF HasResult
        <3>3. CASE i # a
            <4>1. messages'[i] = messages[i]
                BY <2>2, <3>1
            <4>2. i + k \in 1..L /\ messages[i + k] = Result(k)
                BY <2>5, <2>7, <3>1, <3>3, <4>1
            <4>3. Len(messages') = L + 1 /\ L \in Nat /\ messages'[i + k] = messages[i + k]
                BY <2>2, <4>2
            <4> HIDE DEF L
            <4> QED
                BY <4>2, <4>3 DEF HasResult
        <3> QED
            BY <3>2, <3>3
    <2>8. Asked' >= 1 /\ messages'[Asked'] = Asking(Len(calls'))
        BY <2>1, <2>2, <2>3
    <2>9. ASSUME NEW k \in 1..answered' PROVE HasResult(Asked, k)'
        <3>1. k \in 1..(answered + 1)
            BY <2>1, <2>9
        <3>2. a + k \in 1..(L + 1) /\ messages'[a + k] = Result(k)
            BY <2>4, <3>1
        <3> QED
            BY <2>2, <2>3, <3>2 DEF HasResult
    <2> QED
        BY <2>6, <2>7, <2>8, <2>9 DEF Dialogue
<1>4. CASE UNCHANGED <<messages, pc, answered, calls>>
    BY <1>4 DEF Dialogue, HasResult, Asked
<1>5. CASE Begin \/ Slept \/ TransientError \/ LastingError \/ Answer \/ Cancelled
    BY <1>1, <1>5 DEF Begin, Slept, TransientError, LastingError, Answer, Cancelled,
                      Raised, Returned
<1>6. CASE AskForTools /\ messages' = messages
    <2>1. PICK asked \in Seq(Calls) : Len(asked) \in 1..MaxCalls /\ AskedFor(asked)
        BY <1>6, AskedIsSeq
    <2>2. Len(messages) # Len(Append(messages, Asking(Len(asked))))
        BY DEF TypeInv, TypeOK
    <2>3. pc # "tools" /\ pc' # "tools"
        BY <1>6, <2>1, <2>2 DEF AskForTools, AskedFor, Raised
    <2> QED
        BY <1>1, <1>6, <2>3
<1>7. CASE Done \/ UNCHANGED vars
    BY <1>4, <1>7 DEF Done, vars, loopVars
<1> QED
    BY <1>2, <1>3, <1>5, <1>6, <1>7 DEF Next, Running

LEMMA DialogueAnswerable == TypeInv /\ Dialogue => RequestsAnswerable
<1> SUFFICES ASSUME TypeInv, Dialogue, pc # "tools",
                    NEW i \in 1..Len(messages), messages[i].role = "assistant"
             PROVE  Results(i) = 1..messages[i].n
    BY DEF Dialogue, RequestsAnswerable
<1>1. \A k \in 1..messages[i].n : HasResult(i, k)
    BY DEF Dialogue
<1> QED
    BY <1>1 DEF Results, HasResult

\* Every request can be answered: the tool calls of each response have their
\* results behind it, in order, however the calls ended.
THEOREM RequestsAreAnswerable == Spec => []RequestsAnswerable
<1>1. Init => TypeInv /\ Dialogue
    BY TypeInit, DialogueInit
<1>2. TypeInv /\ Dialogue /\ [Next]_vars => TypeInv' /\ Dialogue'
    BY TypeStep, DialogueStep
<1>3. TypeInv /\ Dialogue => RequestsAnswerable
    BY DialogueAnswerable
<1> QED
    BY <1>1, <1>2, <1>3, PTL DEF Spec

-----------------------------------------------------------------------------
(* The attempts. *)

\* No request was longer than messages is now, and those before the one that is
\* out were shorter; how many there may have been.
Attempts ==
    /\ \A i \in 1..Len(sent) : sent[i] <= Len(messages)
    /\ pc \in {"request", "backoff"} =>
          \A i \in 1..Len(sent) : i + attempt <= Len(sent) => sent[i] < Len(messages)
    /\ pc = "tools" => \A i \in 1..Len(sent) : sent[i] < Len(messages)
    /\ \A i \in 1..Len(sent) : i + MaxRetries <= Len(sent) => sent[i] < sent[i + MaxRetries]
    /\ Len(sent) <= iteration * MaxRetries
    /\ pc = "idle" => sent = << >> /\ messages = << >>
    /\ pc \in {"request", "backoff", "tools"} =>
          Len(sent) + MaxRetries <= iteration * MaxRetries + attempt

LEMMA TimesNext == \A a, b \in Nat : (a + 1) * b = a * b + b /\ a * b \in Nat
OBVIOUS

LEMMA TimesMonotonic ==
    ASSUME NEW a \in Nat, NEW b \in Nat, NEW c \in Nat, a <= b
    PROVE  a * c <= b * c
OBVIOUS

\* What an attempt adds, for one more message than before or the same.
LEMMA SentMore ==
    ASSUME TypeInv, NEW n \in Nat, sent' = Append(sent, n)
    PROVE  /\ Len(sent) \in Nat /\ Len(sent') = Len(sent) + 1
           /\ sent'[Len(sent) + 1] = n
           /\ \A i \in 1..Len(sent) : sent'[i] = sent[i] /\ sent[i] \in Nat
<1>1. sent \in Seq(Nat)
    BY DEF TypeInv, TypeOK
<1> QED
    BY <1>1, AppendProperties, LenProperties, ElementOfSeq

LEMMA MessagesMore ==
    ASSUME TypeInv, NEW m \in Messages, messages' = Append(messages, m)
    PROVE  /\ Len(messages) \in Nat /\ Len(messages') = Len(messages) + 1
           /\ Len(Append(messages, m)) = Len(messages) + 1
           /\ messages' # << >>
<1>1. messages \in Seq(Messages)
    BY DEF TypeInv, TypeOK
<1> QED
    BY <1>1, AppendProperties, LenProperties

LEMMA AttemptsInit == Init => Attempts
BY Limits DEF Init, Attempts

LEMMA AttemptsStep == TypeInv /\ TypeInv' /\ Attempts /\ [Next]_vars => Attempts'
<1> SUFFICES ASSUME TypeInv, TypeInv', Attempts, [Next]_vars PROVE Attempts'
    OBVIOUS
<1> DEFINE N == Len(sent)
           L == Len(messages)
<1>0. /\ N \in Nat /\ L \in Nat /\ attempt \in Nat /\ iteration \in Nat
      /\ MaxRetries \in Nat \ {0}
      /\ \A i \in 1..N : sent[i] \in Nat
    <2>1. sent \in Seq(Nat) /\ messages \in Seq(Messages)
        BY DEF TypeInv, TypeOK
    <2> QED
        <3>1. N \in Nat /\ L \in Nat /\ \A i \in 1..N : sent[i] \in Nat
            BY <2>1, LenProperties, ElementOfSeq
        <3>2. attempt \in Nat /\ iteration \in Nat
            BY Limits DEF TypeInv, TypeOK
        <3> QED
            BY <3>1, <3>2, Limits
<1>1. CASE Begin
    <2>1. N = 0 /\ L = 0
        BY <1>1 DEF Begin, Attempts
    <2>2. sent' = Append(sent, 0) /\ messages' = messages /\ pc' = "request"
          /\ attempt' = 1 /\ iteration' = 1
        BY <1>1, <2>1 DEF Begin, Attempt
    <2>3. Len(sent') = 1 /\ sent'[1] = 0
        BY <2>1, <2>2, SentMore
    <2>4. 1 * MaxRetries = MaxRetries
        BY Limits
    <2> QED
        BY <1>0, <2>1, <2>2, <2>3, <2>4 DEF Attempts
<1>2. CASE Slept
    <2>1. /\ sent' = Append(sent, L) /\ attempt' = attempt + 1 /\ pc' = "request"
          /\ pc = "backoff" /\ UNCHANGED <<messages, iteration>>
          /\ attempt < MaxRetries
        BY <1>2 DEF Slept, Attempt, TypeInv
    <2>2. Len(sent') = N + 1 /\ sent'[N + 1] = L /\ \A i \in 1..N : sent'[i] = sent[i]
        BY <1>0, <2>1, SentMore
    <2>3. \A i \in 1..N : sent[i] <= L /\ (i + attempt <= N => sent[i] < L)
        BY <2>1 DEF Attempts
    <2>4. \A i \in 1..(N + 1) : i + MaxRetries <= N + 1 => sent'[i] < sent'[i + MaxRetries]
        <3> SUFFICES ASSUME NEW i \in 1..(N + 1), i + MaxRetries <= N + 1
                     PROVE  sent'[i] < sent'[i + MaxRetries]
            OBVIOUS
        <3>1. CASE i + MaxRetries <= N
            BY <1>0, <2>2, <3>1 DEF Attempts
        <3>2. CASE i + MaxRetries = N + 1
            BY <1>0, <2>1, <2>2, <2>3, <3>2
        <3> QED
            BY <1>0, <3>1, <3>2
    <2>5. N + MaxRetries <= iteration * MaxRetries + attempt
        BY <2>1 DEF Attempts
    <2>6. iteration * MaxRetries \in Nat
        BY <1>0, TimesNext
    <2> QED
        BY <1>0, <2>1, <2>2, <2>3, <2>4, <2>5, <2>6 DEF Attempts
<1>3. CASE AskForTools /\ pc' = "tools"
    <2>1. PICK asked \in Seq(Calls) : Len(asked) \in 1..MaxCalls /\ AskedFor(asked)
        BY <1>3, AskedIsSeq
    <2>2. Asking(Len(asked)) \in Messages /\ messages' = Append(messages, Asking(Len(asked)))
        BY <1>3, <2>1 DEF AskedFor, Raised, Asking, Messages
    <2>3. Len(messages') = L + 1
        BY <2>2, MessagesMore
    <2> QED
        BY <1>0, <1>3, <2>3 DEF AskForTools, Attempts
<1>4. CASE ExecuteTool
    <2>1. /\ pc = "tools"
          /\ messages' = WithResult /\ WithResult = Append(messages, Result(answered + 1))
          /\ Result(answered + 1) \in Messages
        BY <1>4 DEF ExecuteTool, WithResult, Result, Messages, TypeInv, TypeOK
    <2>2. Len(messages') = L + 1 /\ Len(WithResult) = L + 1
        BY <2>1, MessagesMore
    <2>3. \A i \in 1..N : sent[i] < L
        BY <2>1 DEF Attempts
    <2>4. CASE sent' = sent /\ UNCHANGED <<iteration, attempt>> /\ pc' \in {"tools", "over"}
        BY <1>0, <2>1, <2>2, <2>3, <2>4 DEF Attempts
    <2>5. CASE sent' = Append(sent, L + 1) /\ pc' = "request" /\ attempt' = 1
               /\ iteration' = iteration + 1
        <3>1. Len(sent') = N + 1 /\ sent'[N + 1] = L + 1 /\ \A i \in 1..N : sent'[i] = sent[i]
            BY <1>0, <2>5, SentMore
        <3>2. \A i \in 1..(N + 1) : i + MaxRetries <= N + 1 => sent'[i] < sent'[i + MaxRetries]
            <4> SUFFICES ASSUME NEW i \in 1..(N + 1), i + MaxRetries <= N + 1
                         PROVE  sent'[i] < sent'[i + MaxRetries]
                OBVIOUS
            <4>1. CASE i + MaxRetries <= N
                <5>1. i \in 1..N /\ i + MaxRetries \in 1..N
                    BY <1>0, <4>1
                <5>2. sent[i] < sent[i + MaxRetries]
                    BY <4>1, <5>1 DEF Attempts
                <5> QED
                    BY <3>1, <5>1, <5>2
            <4>2. CASE i + MaxRetries = N + 1
                BY <1>0, <2>3, <3>1, <4>2
            <4> QED
                BY <1>0, <4>1, <4>2
        <3>3. N + MaxRetries <= iteration * MaxRetries + attempt /\ attempt <= MaxRetries
            BY <2>1 DEF Attempts, TypeInv
        <3>4. (iteration + 1) * MaxRetries = iteration * MaxRetries + MaxRetries
              /\ iteration * MaxRetries \in Nat
            BY <1>0, TimesNext
        <3>5. \A i \in 1..(N + 1) : sent'[i] <= L + 1 /\ (i <= N => sent'[i] < L + 1)
            BY <1>0, <2>3, <3>1
        <3>6. \A p \in Nat : N + MaxRetries <= p + attempt =>
                                 N + 1 <= p + MaxRetries /\ N + 1 + MaxRetries <= p + MaxRetries + 1
            BY <1>0, <3>3
        <3>7. /\ Len(sent') <= iteration' * MaxRetries
              /\ Len(sent') + MaxRetries <= iteration' * MaxRetries + attempt'
            BY <2>5, <3>1, <3>3, <3>4, <3>6
        <3>8. \A i \in 1..(N + 1) : i + 1 <= N + 1 => sent'[i] < L + 1
            BY <1>0, <3>5
        <3> QED
            BY <2>2, <2>5, <3>1, <3>2, <3>5, <3>7, <3>8 DEF Attempts
    <2> QED
        BY <1>4, <2>2, <2>4, <2>5 DEF ExecuteTool, NextRequest, Returned, Attempt
<1>5. CASE UNCHANGED <<messages, sent, attempt, iteration>> /\ (pc' = pc \/ pc' = "over")
    BY <1>5 DEF Attempts
<1>6. CASE UNCHANGED <<messages, sent, attempt, iteration>> /\ pc = "request" /\ pc' = "backoff"
    BY <1>6 DEF Attempts
<1>7. CASE AskForTools /\ pc' # "tools"
    <2>1. PICK asked \in Seq(Calls) : Len(asked) \in 1..MaxCalls /\ AskedFor(asked)
        BY <1>7, AskedIsSeq
    <2> QED
        BY <1>5, <1>7, <2>1 DEF AskForTools, AskedFor, Raised
<1>8. CASE TransientError \/ LastingError \/ Answer \/ Cancelled
    BY <1>5, <1>6, <1>8 DEF TransientError, LastingError, Answer, Cancelled, Raised, Returned
<1>9. CASE Done \/ UNCHANGED vars
    BY <1>5, <1>9 DEF Done, vars, loopVars
<1> QED
    BY <1>1, <1>2, <1>3, <1>4, <1>7, <1>8, <1>9 DEF Next, Running

LEMMA AttemptsAreBounded == TypeInv /\ Attempts => AttemptsBounded
<1> SUFFICES ASSUME TypeInv, Attempts PROVE AttemptsBounded
    OBVIOUS
<1>1. iteration * MaxRetries <= MaxIterations * MaxRetries
    BY Limits, TimesMonotonic DEF TypeInv, TypeOK
<1>2. Len(sent) \in Nat /\ iteration * MaxRetries \in Nat /\ MaxIterations * MaxRetries \in Nat
    BY Limits, TimesNext, LenProperties DEF TypeInv, TypeOK
<1> QED
    BY <1>1, <1>2 DEF Attempts, AttemptsBounded

\* Neither errors nor tool calls, in any order, make more requests than the two
\* limits allow, and the attempts at one request are MaxRetries at most.
THEOREM RequestsAreBounded == Spec => []AttemptsBounded
<1>1. Init => TypeInv /\ Attempts
    BY TypeInit, AttemptsInit
<1>2. TypeInv /\ Attempts /\ [Next]_vars => TypeInv' /\ Attempts'
    BY TypeStep, AttemptsStep
<1>3. TypeInv /\ Attempts => AttemptsBounded
    BY AttemptsAreBounded
<1> QED
    BY <1>1, <1>2, <1>3, PTL DEF Spec

-----------------------------------------------------------------------------
(* The end. *)

End == EndReported /\ (pc = "idle" => reports = << >> /\ ~counted)

LEMMA EndInit == Init => End
<1> SUFFICES ASSUME Init PROVE End
    OBVIOUS
<1>1. reports = << >> /\ Len(reports) = 0 /\ pc = "idle" /\ ~counted
    BY DEF Init
<1> QED
    BY <1>1 DEF EndReported, End

\* What an end leaves is the only report there is.
LEMMA OneReport ==
    ASSUME TypeInv, reports = << >>, NEW what \in {"reply", "nothing", "error"},
           reports' = Append(reports, what)
    PROVE  Len(reports') = 1 /\ reports' # << >> /\ reports'[1] = what
<1>1. reports \in Seq({"reply", "nothing", "error"}) /\ Len(reports) = 0
    BY DEF TypeInv, TypeOK
<1> QED
    BY <1>1, AppendProperties

LEMMA EndStep == TypeInv /\ End /\ [Next]_vars => End'
<1> SUFFICES ASSUME TypeInv, End, [Next]_vars PROVE End'
    OBVIOUS
<1>1. CASE Begin
    <2>1. reports' = << >> /\ Len(reports') = 0 /\ pc' = "request"
          /\ counted' = (caller = "subagent") /\ caller' = caller
        BY <1>1 DEF Begin, End
    <2>2. counted' <=> caller' = "subagent"
        BY <2>1
    <2> QED
        BY <2>1, <2>2 DEF End, EndReported
<1>2. CASE /\ pc \notin {"idle", "over"} /\ pc' \notin {"idle", "over"}
           /\ UNCHANGED <<reports, counted, caller>>
    <2>1. reports' = << >> /\ Len(reports') = 0 /\ (counted' <=> caller' = "subagent")
        BY <1>2 DEF End, EndReported
    <2> QED
        BY <1>2, <2>1 DEF End, EndReported
<1>3. CASE /\ pc \notin {"idle", "over"} /\ Raised /\ caller' = caller
    <2>1. reports = << >> /\ pc' = "over" /\ outcome' = "raised"
        BY <1>3 DEF Raised, End, EndReported
    <2>2. CASE caller = "subagent"
        <3>1. reports' = Append(reports, "error")
            BY <1>3, <2>2 DEF Raised
        <3>2. Len(reports') = 1 /\ reports' # << >> /\ reports'[1] = "error"
            BY <2>1, <3>1, OneReport
        <3> QED
            BY <1>3, <2>1, <2>2, <3>2 DEF End, EndReported
    <2>3. CASE caller # "subagent"
        <3>1. reports' = << >> /\ Len(reports') = 0
            BY <1>3, <2>1, <2>3 DEF Raised
        <3> QED
            BY <1>3, <2>1, <2>3, <3>1 DEF End, EndReported
    <2> QED
        BY <2>2, <2>3
<1>4. CASE Answer
    <2>1. reports = << >> /\ pc' = "over" /\ outcome' = "answer"
          /\ reports' = Append(reports, "reply")
        BY <1>4 DEF Answer, Returned, End, EndReported
    <2>2. Len(reports') = 1 /\ reports' # << >> /\ reports'[1] = "reply"
        BY <2>1, OneReport
    <2> QED
        BY <2>1, <2>2 DEF End, EndReported
<1>5. CASE AskForTools
    <2>1. PICK asked \in Seq(Calls) : Len(asked) \in 1..MaxCalls /\ AskedFor(asked)
        BY <1>5, AskedIsSeq
    <2> QED
        BY <1>2, <1>3, <1>5, <2>1 DEF AskForTools, AskedFor
<1>6. CASE ExecuteTool
    <2>1. CASE pc' \in {"tools", "request"} /\ reports' = reports
        BY <1>2, <1>6, <2>1 DEF ExecuteTool
    <2>2. CASE Returned("exhausted") /\ ~(iteration < MaxIterations) /\ iteration' = iteration
        <3>1. reports = << >> /\ pc' = "over" /\ outcome' = "exhausted"
              /\ reports' = Append(reports, "nothing")
            BY <1>6, <2>2 DEF ExecuteTool, Returned, End, EndReported
        <3>2. Len(reports') = 1 /\ reports' # << >> /\ reports'[1] = "nothing"
            BY <3>1, OneReport
        <3>3. iteration' = MaxIterations
            BY <2>2, Limits DEF TypeInv, TypeOK
        <3>4. Result(answered + 1) \in Messages /\ messages' = Append(messages, Result(answered + 1))
            <4>1. answered + 1 \in 1..MaxCalls
                BY <1>6, Limits, LenProperties DEF ExecuteTool, TypeInv, TypeOK
            <4> QED
                BY <1>6, <4>1 DEF ExecuteTool, WithResult, Result, Messages
        <3>5. messages' # << >>
            BY <3>4, MessagesMore
        <3> QED
            BY <3>1, <3>2, <3>3, <3>5 DEF End, EndReported
    <2> QED
        BY <1>6, <2>1, <2>2 DEF ExecuteTool, NextRequest
<1>7. CASE Cancelled
    <2>1. reports' = << >> /\ Len(reports') = 0 /\ pc' = "over" /\ outcome' = "cancelled"
        BY <1>7 DEF Cancelled, End, EndReported
    <2> QED
        BY <2>1 DEF End, EndReported
<1>8. CASE Done
    <2>1. pc = "over" /\ UNCHANGED <<pc, reports, outcome, caller, iteration, messages>>
        BY <1>8 DEF Done, loopVars
    <2> QED
        BY <2>1 DEF End, EndReported
<1>9. CASE UNCHANGED vars
    BY <1>9 DEF vars, loopVars, End, EndReported
<1>10. CASE Slept
    BY <1>2, <1>10 DEF Slept
<1>11. CASE TransientError
    BY <1>2, <1>3, <1>11 DEF TransientError
<1>12. CASE LastingError
    BY <1>3, <1>12 DEF LastingError
<1> QED
    BY <1>1, <1>4, <1>5, <1>6, <1>7, <1>8, <1>9, <1>10, <1>11, <1>12 DEF Next, Running

\* Every end is reported once, and only an end: a subagent's announcement cannot
\* get lost, unless the task is cancelled.
THEOREM EndsAreReported == Spec => []EndReported
<1>1. Init => TypeInv /\ End
    BY TypeInit, EndInit
<1>2. TypeInv /\ End /\ [Next]_vars => TypeInv' /\ End'
    BY TypeStep, EndStep
<1>3. End => EndReported
    BY DEF End
<1> QED
    BY <1>1, <1>2, <1>3, PTL DEF Spec
=============================================================================
