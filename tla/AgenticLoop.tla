---------------------------- MODULE AgenticLoop ----------------------------
(***************************************************************************)
(* One execution of the agentic loop: requests to the LLM with their       *)
(* retries, tool calls and their results, and what the caller makes of the *)
(* end.  The caller is the analysis of the background lane, the standalone *)
(* runner of /chat, cron and heartbeat, or a subagent, whose own loop is   *)
(* the same.                                                               *)
(*                                                                         *)
(* Executions share nothing but the workspace, which MemoryFile has, so    *)
(* that one of them is a state machine by itself.  What the LLM says and   *)
(* what a tool returns are data.                                           *)
(***************************************************************************)
EXTENDS Integers, Sequences

CONSTANTS
    MaxIterations,   \* max_iterations
    MaxRetries,      \* MAX_RETRIES: the attempts at one request
    MaxCalls         \* bound: the tool calls of a response

ASSUME ConstantsAssumption ==
    {MaxIterations, MaxRetries, MaxCalls} \subseteq Nat \ {0}

VARIABLES
    caller,      \* who runs the loop
    pc,          \* where it is
    iteration,   \* the iteration it is in
    attempt,     \* the attempt at the request of the iteration
    messages,    \* what has been appended to the caller's messages
    calls,       \* the tool calls of the last response
    answered,    \* how many of them have their result
    outcome,     \* how the loop ended
    counted,     \* the subagent is in _running_tasks
    reports,     \* history: what the caller was left with
    sent         \* history: the length of messages at every attempt

loopVars == <<pc, iteration, attempt, messages, calls, answered, outcome>>
vars == <<caller, loopVars, counted, reports, sent>>

Callers == {"analysis", "runner", "subagent"}

\* What becomes of a tool call: it is executed; it ends in an error text (an
\* unknown tool, invalid parameters, an exception of the tool); its arguments
\* are JSON, but neither an object nor empty.
Calls == {"executed", "refused", "malformed"}

\* An assistant message that asks for n tool calls, the result of the k-th.
Asking(n) == [role |-> "assistant", n |-> n]
Result(k) == [role |-> "tool", n |-> k]
Messages  == [role : {"assistant", "tool"}, n : 1..MaxCalls]

TypeOK ==
    /\ caller \in Callers
    /\ pc \in {"idle", "request", "backoff", "tools", "over"}
    /\ iteration \in 0..MaxIterations
    /\ attempt \in 0..MaxRetries
    /\ messages \in Seq(Messages)
    /\ calls \in Seq(Calls) /\ Len(calls) <= MaxCalls
    /\ answered \in 0..Len(calls)
    /\ outcome \in {"none", "answer", "exhausted", "raised", "cancelled"}
    /\ counted \in BOOLEAN
    /\ reports \in Seq({"reply", "nothing", "error"})
    /\ sent \in Seq(Nat)

Init ==
    /\ caller \in Callers
    /\ pc = "idle" /\ iteration = 0 /\ attempt = 0
    /\ messages = << >> /\ calls = << >> /\ answered = 0
    /\ outcome = "none" /\ counted = FALSE
    /\ reports = << >> /\ sent = << >>

-----------------------------------------------------------------------------
(* The end of the loop, up to what the caller does with it. *)

\* The analysis publishes a hint, the runner records the exchange, the subagent
\* announces its result, made from the last response, be it empty (which has the
\* subagent announce the text it has for nothing); or, when the iterations are
\* used up, from nothing.
Returned(how) ==
    /\ pc' = "over"
    /\ outcome' = how
    /\ reports' = Append(reports, IF how = "answer" THEN "reply" ELSE "nothing")

\* Mutant: an exception ends the subagent's task in silence.
RaisedSilently ==
    /\ pc' = "over"
    /\ outcome' = "raised"
    /\ UNCHANGED reports

\* An exception: the subagent announces it, the background lane drops the turn,
\* the runner's caller gets it.
Raised ==
    /\ pc' = "over"
    /\ outcome' = "raised"
    /\ reports' = IF caller = "subagent" THEN Append(reports, "error") ELSE reports

-----------------------------------------------------------------------------
(* _chat_with_retry. *)

\* An attempt is sent: the request carries all the messages there are.
Attempt(k, history) ==
    /\ attempt' = k
    /\ sent' = Append(sent, Len(history))

\* Mutant: an attempt that slept is not counted.
SleptForgetful ==
    /\ pc = "backoff"
    /\ pc' = "request"
    /\ Attempt(attempt, messages)
    /\ UNCHANGED <<caller, iteration, messages, calls, answered, outcome, counted, reports>>

\* asyncio.sleep(delay) returns.
Slept ==
    /\ pc = "backoff"
    /\ pc' = "request"
    /\ Attempt(attempt + 1, messages)
    /\ UNCHANGED <<caller, iteration, messages, calls, answered, outcome, counted, reports>>

\* A rate limit, a connection error, a timeout or a 5xx: it is tried again after
\* a while, unless this was the last attempt.
TransientError ==
    /\ pc = "request"
    /\ \/ /\ attempt < MaxRetries
          /\ pc' = "backoff"
          /\ UNCHANGED <<outcome, reports>>
       \/ /\ attempt = MaxRetries
          /\ Raised
    /\ UNCHANGED <<caller, iteration, attempt, messages, calls, answered, counted, sent>>

\* Any other error, and a response that cannot be read.
LastingError ==
    /\ pc = "request"
    /\ Raised
    /\ UNCHANGED <<caller, iteration, attempt, messages, calls, answered, counted, sent>>

-----------------------------------------------------------------------------
(* run_agentic_loop. *)

\* The analysis is begun, the runner is called, spawn() makes its task.
Begin ==
    /\ pc = "idle"
    /\ pc' = "request"
    /\ iteration' = 1
    /\ Attempt(1, messages)
    /\ counted' = (caller = "subagent")
    /\ UNCHANGED <<caller, messages, calls, answered, outcome, reports>>

\* A response without tool calls.
Answer ==
    /\ pc = "request"
    /\ Returned("answer")
    /\ UNCHANGED <<caller, iteration, attempt, messages, calls, answered, counted, sent>>

\* The progress message of the analysis takes the arguments for an object, and
\* comes before the response is appended.
HintFails(asked) ==
    /\ caller = "analysis"
    /\ \E i \in DOMAIN asked : asked[i] = "malformed"

\* A response with tool calls.
AskedFor(asked) ==
    \/ /\ HintFails(asked)
       /\ Raised
       /\ UNCHANGED <<messages, calls, answered>>
    \/ /\ ~HintFails(asked)
       /\ pc' = "tools"
       /\ messages' = Append(messages, Asking(Len(asked)))
       /\ calls' = asked
       /\ answered' = 0
       /\ UNCHANGED <<outcome, reports>>

AskForTools ==
    /\ pc = "request"
    /\ \E n \in 1..MaxCalls : \E asked \in [1..n -> Calls] : AskedFor(asked)
    /\ UNCHANGED <<caller, iteration, attempt, counted, sent>>

\* Mutant: a call that was refused leaves no result.
WithResultIfExecuted ==
    IF calls[answered + 1] = "executed" THEN Append(messages, Result(answered + 1)) ELSE messages

\* ToolRegistry.execute: it never raises, and whatever becomes of the call there
\* is one result.
WithResult == Append(messages, Result(answered + 1))

\* The next iteration, while there is one.
NextRequest(history) ==
    IF iteration < MaxIterations
    THEN /\ pc' = "request"
         /\ iteration' = iteration + 1
         /\ Attempt(1, history)
         /\ UNCHANGED <<outcome, reports>>
    ELSE /\ Returned("exhausted")
         /\ UNCHANGED <<iteration, attempt, sent>>

\* A tool call is executed and its result appended.
ExecuteTool ==
    /\ pc = "tools"
    /\ messages' = WithResult
    /\ answered' = answered + 1
    /\ IF answered + 1 < Len(calls)
       THEN UNCHANGED <<pc, iteration, attempt, outcome, reports, sent>>
       ELSE NextRequest(WithResult)
    /\ UNCHANGED <<caller, calls, counted>>

-----------------------------------------------------------------------------
(* From outside. *)

\* The timeout of the analysis, or the end of the event loop, at a suspension:
\* CancelledError is no Exception, nothing catches it.
Cancelled ==
    /\ pc \in {"request", "backoff"}
    /\ pc' = "over"
    /\ outcome' = "cancelled"
    /\ UNCHANGED <<caller, iteration, attempt, messages, calls, answered, counted, reports, sent>>

\* Mutant: only a task that ends well is forgotten.
DoneIfReturned ==
    /\ pc = "over"
    /\ outcome \in {"answer", "exhausted"}
    /\ counted
    /\ counted' = FALSE
    /\ UNCHANGED <<caller, loopVars, reports, sent>>

\* The done callback of a subagent's task, which the event loop calls later.
Done ==
    /\ pc = "over"
    /\ counted
    /\ counted' = FALSE
    /\ UNCHANGED <<caller, loopVars, reports, sent>>

-----------------------------------------------------------------------------
Running == Slept \/ TransientError \/ LastingError \/ Answer \/ AskForTools \/ ExecuteTool \/ Done

Next == Begin \/ Running \/ Cancelled

Spec == Init /\ [][Next]_vars

\* Every attempt ends (the HTTP client has a timeout), and sleep() returns.
FairSpec == Spec /\ WF_vars(Running)

-----------------------------------------------------------------------------
(* Safety. *)

\* The results that messages has of the tool calls it asks for at i.
Results(i) == {k \in 1..messages[i].n :
                  i + k <= Len(messages) /\ messages[i + k] = Result(k)}

\* Whatever became of the tool calls before, a request is one the API accepts:
\* each assistant message with tool calls is followed by one result for each of
\* them, in order, and there is no other result.  The same when the caller gets
\* the messages back.
RequestsAnswerable ==
    pc # "tools" =>
        /\ \A i \in 1..Len(messages) :
              messages[i].role = "assistant" => Results(i) = 1..messages[i].n
        /\ \A i \in 1..Len(messages) :
              messages[i].role = "tool" =>
                  /\ messages[i].n < i
                  /\ messages[i - messages[i].n].role = "assistant"
                  /\ messages[i].n <= messages[i - messages[i].n].n

\* A retry sends what the attempt before it sent, and an iteration more than the
\* one before: no request is made more than MaxRetries times, and no more than
\* MaxIterations requests are made, however errors and tool calls alternate.
AttemptsBounded ==
    /\ \A i \in 1..Len(sent) : i + MaxRetries <= Len(sent) => sent[i] < sent[i + MaxRetries]
    /\ Len(sent) <= MaxIterations * MaxRetries

\* A subagent is counted as running until it ends, and then it has announced its
\* end, and only once, unless it was cancelled; an analysis and a runner's turn
\* leave something behind exactly when the loop has returned, and it is made
\* from nothing only when the last iteration asked for tools as well.
EndReported ==
    /\ Len(reports) <= 1
    /\ pc \notin {"idle", "over"} => reports = << >> /\ (counted <=> caller = "subagent")
    /\ pc = "over" =>
          (reports = << >> <=>
              outcome = "cancelled" \/ (outcome = "raised" /\ caller # "subagent"))
    /\ \A i \in 1..Len(reports) :
          reports[i] = "nothing" => iteration = MaxIterations /\ messages # << >>

(* Liveness. *)

\* A loop that has begun ends, and a subagent that was spawned is not counted
\* as running for ever.
LoopsEnd == pc # "idle" ~> (pc = "over" /\ ~counted)
=============================================================================
