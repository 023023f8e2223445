-------------------------- MODULE SessionRegistry --------------------------
(***************************************************************************)
(* The process-wide registry of conversations behind the HTTP routes       *)
(* /sessions: creating, messaging, keeping alive, deleting a session, and  *)
(* the task that evicts idle ones.  Requests are handlers on one asyncio   *)
(* loop; a step is the code of a handler or task between two suspensions.  *)
(*                                                                         *)
(* Every create makes a new ActiveSession object; objects are numbered in  *)
(* the order they are made, which is also the insertion order of the       *)
(* registry's dictionary.  Of its two lanes only the life of the tasks is  *)
(* kept, and of the persona lane that it answers its inbound messages one  *)
(* at a time in order (DualLane!AnsweredInOrder).                          *)
(***************************************************************************)
EXTENDS Integers, Sequences, FiniteSets, SequencesExt

CONSTANTS
    Sids,          \* session ids
    MaxSessions,   \* bound: ActiveSession objects ever created
    MaxRequests    \* bound: message requests ever sent

ASSUME ConstantsAssumption == IsFiniteSet(Sids) /\ MaxSessions \in Nat /\ MaxRequests \in Nat

Objects  == 1..MaxSessions
Requests == 1..MaxRequests
None     == 0

VARIABLES
    registry,      \* SessionRegistry._sessions: the object of each id, or None
    created,       \* objects created so far
    idle,          \* objects with idle_seconds() > ttl_s
    loop,          \* the persona task: where it is, its _running flag, its message
    bg,            \* the background task: where it is, its _running flag
    inbound,       \* MessageBus.inbound of each object: requests
    outbound,      \* MessageBus.outbound of each object: the requests answered
    getters,       \* requests suspended in outbound.get(), oldest first
    woken,         \* requests whose get() has been woken and has not yet run
    sent,          \* requests sent so far
    request,       \* each request's object, outcome, and the reply it returned
    closer,        \* who called SessionRegistry.close() and got each object
    cleaner,       \* the cleanup task: where it is, the ids left, the object it closes
    server,        \* the lifespan of the application
    overlapped     \* history: objects on which two requests have waited at once

busVars     == <<inbound, outbound, getters, woken>>
requestVars == <<sent, request>>
vars == <<registry, created, idle, loop, bg, inbound, outbound, getters, woken,
          sent, request, closer, cleaner, server, overlapped>>

Registered(o) == \E s \in Sids : registry[s] = o
TasksDone(o)  == loop[o].pc = "done" /\ bg[o].pc = "done"

TypeOK ==
    /\ registry \in [Sids -> Objects \union {None}]
    /\ created \in 0..MaxSessions
    /\ idle \subseteq Objects
    /\ loop \in [Objects -> [pc : {"new", "wait", "chat", "done"}, running : BOOLEAN,
                             msg : Requests \union {None}]]
    /\ bg \in [Objects -> [pc : {"new", "run", "done"}, running : BOOLEAN]]
    /\ \A q \in {inbound, outbound, getters, woken} : q \in [Objects -> Seq(Requests)]
    /\ sent \in 0..MaxRequests
    /\ request \in [Requests -> [obj : Objects \union {None}, got : Requests \union {None},
                                 status : {"unsent", "waiting", "ok", "timeout"}]]
    /\ closer \in [Objects -> {"nobody", "delete", "cleaner", "shutdown"}]
    /\ \A r \in Requests : request[r].status = "ok" <=> request[r].got # None
    /\ server \in {"up", "stopping", "down"}
    /\ cleaner \in [pc : {"sleep", "closing", "dead", "cancelled"}, rest : Seq(Sids),
                    obj : Objects \union {None}]
    /\ overlapped \subseteq Objects

Init ==
    /\ registry = [s \in Sids |-> None]
    /\ created = 0
    /\ idle = {}
    /\ loop = [o \in Objects |-> [pc |-> "new", running |-> FALSE, msg |-> None]]
    /\ bg = [o \in Objects |-> [pc |-> "new", running |-> FALSE]]
    /\ inbound = [o \in Objects |-> << >>]
    /\ outbound = [o \in Objects |-> << >>]
    /\ getters = [o \in Objects |-> << >>]
    /\ woken = [o \in Objects |-> << >>]
    /\ sent = 0
    /\ request = [r \in Requests |-> [obj |-> None, got |-> None, status |-> "unsent"]]
    /\ closer = [o \in Objects |-> "nobody"]
    /\ cleaner = [pc |-> "sleep", rest |-> << >>, obj |-> None]
    /\ server = "up"
    /\ overlapped = {}

-----------------------------------------------------------------------------
(* Routes. *)

\* POST /sessions: 409 when the id is registered; the two tasks are created,
\* neither has run yet.
Create(s) ==
    /\ server = "up"
    /\ registry[s] = None
    /\ created < MaxSessions
    /\ created' = created + 1
    /\ registry' = [registry EXCEPT ![s] = created + 1]
    /\ UNCHANGED <<idle, loop, bg, busVars, requestVars, closer, cleaner, server, overlapped>>

Pending(o) == {r \in Requests : request[r].status = "waiting" /\ request[r].obj = o}

Answered(r, o, reply) ==
    request' = [request EXCEPT ![r] = [obj |-> o, got |-> reply, status |-> "ok"]]

\* POST /sessions/{id}/messages, up to the first suspension of send(): the
\* clock is reset, the message published; a reply that is already in the
\* outbound queue is returned at once, otherwise the request waits for one.
Send(s) ==
    LET o == registry[s]
        r == sent + 1
    IN  /\ server = "up"
        /\ o # None
        /\ sent < MaxRequests
        /\ sent' = r
        /\ idle' = idle \ {o}
        /\ inbound' = [inbound EXCEPT ![o] = Append(@, r)]
        /\ overlapped' = IF Pending(o) = {} THEN overlapped ELSE overlapped \union {o}
        /\ IF outbound[o] # << >>
           THEN /\ Answered(r, o, Head(outbound[o]))
                /\ outbound' = [outbound EXCEPT ![o] = Tail(@)]
                /\ UNCHANGED getters
           ELSE /\ request' = [request EXCEPT ![r] =
                                  [obj |-> o, got |-> None, status |-> "waiting"]]
                /\ getters' = [getters EXCEPT ![o] = Append(@, r)]
                /\ UNCHANGED outbound
        /\ UNCHANGED <<registry, created, loop, bg, woken, closer, cleaner, server>>

\* POST /sessions/{id}/keepalive.
Keepalive(s) ==
    /\ server = "up"
    /\ registry[s] \in idle
    /\ idle' = idle \ {registry[s]}
    /\ UNCHANGED <<registry, created, loop, bg, busVars, requestVars, closer, cleaner, server, overlapped>>

\* Mutant: the entry is to be removed when the tasks have ended.
StopAndKeep(s, who) ==
    LET o == registry[s]
    IN  /\ loop' = [loop EXCEPT ![o].running = FALSE]
        /\ bg' = [bg EXCEPT ![o].running = FALSE]
        /\ closer' = [closer EXCEPT ![o] = who]
        /\ UNCHANGED registry

\* SessionRegistry.close up to its wait: the id is free at once, both flags go
\* down, and the caller waits until TasksDone.
PopAndStop(s, who) ==
    LET o == registry[s]
    IN  /\ registry' = [registry EXCEPT ![s] = None]
        /\ loop' = [loop EXCEPT ![o].running = FALSE]
        /\ bg' = [bg EXCEPT ![o].running = FALSE]
        /\ closer' = [closer EXCEPT ![o] = who]

\* DELETE /sessions/{id}.
Delete(s) ==
    /\ server = "up"
    /\ registry[s] # None
    /\ PopAndStop(s, "delete")
    /\ UNCHANGED <<created, idle, busVars, requestVars, cleaner, server, overlapped>>

-----------------------------------------------------------------------------
(* The outbound queue (asyncio.Queue) and the requests that wait on it. *)

\* put(): the oldest getter is woken; the reply stays in the queue until it runs.
Wake(o) ==
    IF getters[o] = << >> THEN UNCHANGED <<getters, woken>>
    ELSE /\ woken' = [woken EXCEPT ![o] = Append(@, Head(getters[o]))]
         /\ getters' = [getters EXCEPT ![o] = Tail(@)]

\* A woken get() runs: it takes the oldest reply, or waits again, last, when a
\* request that came in between has taken it.
Resume(o) ==
    /\ woken[o] # << >>
    /\ woken' = [woken EXCEPT ![o] = Tail(@)]
    /\ IF outbound[o] # << >>
       THEN /\ Answered(Head(woken[o]), o, Head(outbound[o]))
            /\ outbound' = [outbound EXCEPT ![o] = Tail(@)]
            /\ UNCHANGED getters
       ELSE /\ getters' = [getters EXCEPT ![o] = Append(@, Head(woken[o]))]
            /\ UNCHANGED <<request, outbound>>
    /\ UNCHANGED <<registry, created, idle, loop, bg, inbound, sent, closer, cleaner, server, overlapped>>

\* A getter leaves the queue's waiters.
Without(q, r) ==
    IF Contains(q, r) THEN RemoveAt(q, CHOOSE i \in DOMAIN q : q[i] = r) ELSE q

\* Mutant: the reply in the queue goes with the request that gave up.
ExpiredTakesReply(r) ==
    LET o == request[r].obj
    IN  /\ request[r].status = "waiting"
        /\ request' = [request EXCEPT ![r].status = "timeout"]
        /\ getters' = [getters EXCEPT ![o] = Without(@, r)]
        /\ woken' = [woken EXCEPT ![o] = Without(@, r)]
        /\ outbound' = [outbound EXCEPT ![o] = << >>]
        /\ UNCHANGED <<registry, created, idle, loop, bg, inbound, sent, closer, cleaner, server, overlapped>>

\* wait_for gives up (504): the message stays in the pipeline, the getter goes;
\* one that had been woken passes the wake-up on.
RequestTimeout(r) ==
    LET o == request[r].obj
        next == Without(getters[o], r)
        passOn == Contains(woken[o], r) /\ outbound[o] # << >> /\ next # << >>
    IN  /\ request[r].status = "waiting"
        /\ request' = [request EXCEPT ![r].status = "timeout"]
        /\ getters' = [getters EXCEPT ![o] = IF passOn THEN Tail(next) ELSE next]
        /\ woken' = [woken EXCEPT ![o] =
                        Without(@, r) \o (IF passOn THEN <<Head(next)>> ELSE << >>)]
        /\ UNCHANGED <<registry, created, idle, loop, bg, inbound, outbound, sent, closer, cleaner, server, overlapped>>

-----------------------------------------------------------------------------
(* The tasks of a session. *)

\* The first step of AgentLoop.run and of BackgroundAgent.run raises the flag,
\* whether or not stop() was called before.
LoopStart(o) ==
    /\ o <= created
    /\ loop[o].pc = "new"
    /\ loop' = [loop EXCEPT ![o] = [pc |-> "wait", running |-> TRUE, msg |-> None]]
    /\ UNCHANGED <<registry, created, idle, bg, busVars, requestVars, closer, cleaner, server, overlapped>>

BgStart(o) ==
    /\ o <= created
    /\ bg[o].pc = "new"
    /\ bg' = [bg EXCEPT ![o] = [pc |-> "run", running |-> TRUE]]
    /\ UNCHANGED <<registry, created, idle, loop, busVars, requestVars, closer, cleaner, server, overlapped>>

\* Mutant: the newest message is taken.
LoopTakeNewest(o) ==
    /\ loop[o].pc = "wait"
    /\ inbound[o] # << >>
    /\ loop' = [loop EXCEPT ![o].pc = "chat", ![o].msg = Last(inbound[o])]
    /\ inbound' = [inbound EXCEPT ![o] = Front(@)]
    /\ UNCHANGED <<registry, created, idle, bg, outbound, getters, woken, requestVars,
                   closer, cleaner, server, overlapped>>

\* consume_inbound returns the oldest message.
LoopTake(o) ==
    /\ loop[o].pc = "wait"
    /\ inbound[o] # << >>
    /\ loop' = [loop EXCEPT ![o].pc = "chat", ![o].msg = Head(inbound[o])]
    /\ inbound' = [inbound EXCEPT ![o] = Tail(@)]
    /\ UNCHANGED <<registry, created, idle, bg, outbound, getters, woken, requestVars,
                   closer, cleaner, server, overlapped>>

\* Mutant: the loop runs on whatever the flag says.
AfterMessageForever(o) == "wait"

AfterMessage(o) == IF loop[o].running THEN "wait" ELSE "done"

\* Mutant: the answer is published twice.
LoopAnswerTwice(o) ==
    /\ loop[o].pc = "chat"
    /\ outbound' = [outbound EXCEPT ![o] = @ \o <<loop[o].msg, loop[o].msg>>]
    /\ Wake(o)
    /\ loop' = [loop EXCEPT ![o].pc = AfterMessage(o), ![o].msg = None]
    /\ UNCHANGED <<registry, created, idle, bg, inbound, requestVars, closer, cleaner, server, overlapped>>

\* The answer, or the error text, of the message in hand.
LoopAnswer(o) ==
    /\ loop[o].pc = "chat"
    /\ outbound' = [outbound EXCEPT ![o] = Append(@, loop[o].msg)]
    /\ Wake(o)
    /\ loop' = [loop EXCEPT ![o].pc = AfterMessage(o), ![o].msg = None]
    /\ UNCHANGED <<registry, created, idle, bg, inbound, requestVars, closer, cleaner, server, overlapped>>

\* The one-second wait ends with the flag down.
LoopExit(o) ==
    /\ loop[o].pc = "wait"
    /\ inbound[o] = << >>
    /\ ~loop[o].running
    /\ loop' = [loop EXCEPT ![o].pc = AfterMessage(o)]
    /\ UNCHANGED <<registry, created, idle, bg, busVars, requestVars, closer, cleaner, server, overlapped>>

\* The background lane finishes what it has in hand and finds the flag down.
BgExit(o) ==
    /\ bg[o].pc = "run"
    /\ ~bg[o].running
    /\ bg' = [bg EXCEPT ![o].pc = "done"]
    /\ UNCHANGED <<registry, created, idle, loop, busVars, requestVars, closer, cleaner, server, overlapped>>

-----------------------------------------------------------------------------
(* The cleanup task. *)

\* ttl_s seconds pass without a touch; the tasks have long been scheduled.
BecomeIdle(o) ==
    /\ Registered(o)
    /\ loop[o].pc # "new" /\ bg[o].pc # "new"
    /\ o \notin idle
    /\ idle' = idle \union {o}
    /\ UNCHANGED <<registry, created, loop, bg, busVars, requestVars, closer, cleaner, server, overlapped>>

\* _evict_expired, from the head of its list to the next suspension: the list
\* is done, or close() of its first id begins.  An id that has been removed
\* since the list was made raises KeyError in the log call before close(), and
\* nothing catches it: the task is over, and start_cleanup_task, which sees a
\* task object, would not start another.
EvictFrom(ids) ==
    \/ /\ ids = << >>
       /\ cleaner' = [pc |-> "sleep", rest |-> << >>, obj |-> None]
       /\ UNCHANGED <<registry, loop, bg, closer>>
    \/ /\ ids # << >>
       /\ registry[Head(ids)] = None
       /\ cleaner' = [pc |-> "dead", rest |-> << >>, obj |-> None]
       /\ UNCHANGED <<registry, loop, bg, closer>>
    \/ /\ ids # << >>
       /\ registry[Head(ids)] # None
       /\ cleaner' = [pc |-> "closing", rest |-> Tail(ids), obj |-> registry[Head(ids)]]
       /\ PopAndStop(Head(ids), "cleaner")

ExpiredIds == {s \in Sids : registry[s] \in idle}

\* The list is in the order of the registry.
Scan ==
    /\ cleaner.pc = "sleep"
    /\ ExpiredIds # {}
    /\ \E ids \in [1..Cardinality(ExpiredIds) -> ExpiredIds] :
          /\ \A i, j \in DOMAIN ids : i < j => registry[ids[i]] < registry[ids[j]]
          /\ EvictFrom(ids)
    /\ UNCHANGED <<created, idle, busVars, requestVars, server, overlapped>>

\* close() of the current id has returned.
EvictNext ==
    /\ cleaner.pc = "closing"
    /\ TasksDone(cleaner.obj)
    /\ EvictFrom(cleaner.rest)
    /\ UNCHANGED <<created, idle, busVars, requestVars, server, overlapped>>

-----------------------------------------------------------------------------
(* The lifespan of the application (api/main.py). *)

\* The server has finished the requests it had, so every task of a session has
\* run.
Quiet ==
    /\ server = "up"
    /\ \A r \in Requests : request[r].status # "waiting"
    /\ \A o \in 1..created : /\ loop[o].pc # "new" /\ bg[o].pc # "new"
                             /\ closer[o] = "delete" => TasksDone(o)

\* Mutant: the cancellation stops at the cleanup task (a shielded gather).
ShutdownBeginShielded ==
    /\ Quiet
    /\ server' = "stopping"
    /\ cleaner' = [pc |-> "cancelled", rest |-> << >>, obj |-> None]
    /\ UNCHANGED <<registry, created, idle, loop, bg, busVars, requestVars, closer, overlapped>>

\* The cleanup task is cancelled; when it waits in close(), its gather() passes
\* the cancellation on to the two tasks of that object, which end at their next
\* run without touching anything.
ShutdownBegin ==
    /\ Quiet
    /\ server' = "stopping"
    /\ cleaner' = [pc |-> "cancelled", rest |-> << >>, obj |-> None]
    /\ IF cleaner.pc = "closing"
       THEN /\ loop' = [loop EXCEPT ![cleaner.obj] =
                           [pc |-> "done", running |-> FALSE, msg |-> None]]
            /\ bg' = [bg EXCEPT ![cleaner.obj].pc = "done"]
       ELSE UNCHANGED <<loop, bg>>
    /\ UNCHANGED <<registry, created, idle, busVars, requestVars, closer, overlapped>>

ShutdownIdle == \A o \in Objects : closer[o] = "shutdown" => TasksDone(o)

\* The sessions are closed one after the other, in the order of the registry.
ShutdownClose(s) ==
    /\ server = "stopping"
    /\ ShutdownIdle
    /\ registry[s] # None
    /\ \A t \in Sids : registry[t] # None => registry[s] <= registry[t]
    /\ PopAndStop(s, "shutdown")
    /\ UNCHANGED <<created, idle, busVars, requestVars, cleaner, server, overlapped>>

ShutdownEnd ==
    /\ server = "stopping"
    /\ ShutdownIdle
    /\ \A s \in Sids : registry[s] = None
    /\ server' = "down"
    /\ UNCHANGED <<registry, created, idle, loop, bg, busVars, requestVars, closer, cleaner, overlapped>>

-----------------------------------------------------------------------------
Task(o) == \/ LoopStart(o) \/ LoopTake(o) \/ LoopAnswer(o) \/ LoopExit(o)
           \/ BgStart(o) \/ BgExit(o)

Next ==
    \/ \E s \in Sids : Create(s) \/ Send(s) \/ Keepalive(s) \/ Delete(s)
    \/ \E o \in Objects : Task(o) \/ Resume(o) \/ BecomeIdle(o)
    \/ \E r \in Requests : RequestTimeout(r)
    \/ Scan \/ EvictNext
    \/ ShutdownBegin \/ ShutdownEnd \/ \E s \in Sids : ShutdownClose(s)

Spec == Init /\ [][Next]_vars

\* A task that can run runs, an LLM call ends, and the cleanup task is woken by
\* its timer.  Nothing makes a client send, touch or delete.
FairSpec ==
    /\ Spec
    /\ \A o \in Objects : WF_vars(LoopStart(o)) /\ WF_vars(LoopTake(o) \/ LoopAnswer(o) \/ LoopExit(o))
                          /\ WF_vars(BgStart(o)) /\ WF_vars(BgExit(o)) /\ WF_vars(Resume(o))
    /\ WF_vars(Scan) /\ WF_vars(EvictNext)

-----------------------------------------------------------------------------
(* Safety. *)

\* No message and no reply is lost or doubled on its way: a message that was
\* accepted is in exactly one place - waiting, in hand, answered and unread, or
\* returned by exactly one request - whatever requests time out or overlap,
\* unless its tasks were cancelled at shutdown.
RepliesConserved ==
    \A r \in 1..sent :
        LET o == request[r].obj
            count(q) == Cardinality({i \in DOMAIN q : q[i] = r})
            inHand == IF loop[o].msg = r THEN 1 ELSE 0
            returned == Cardinality({q \in Requests : request[q].got = r})
        IN  \/ count(inbound[o]) + inHand + count(outbound[o]) + returned = 1
            \/ server # "up" /\ closer[o] = "cleaner"

\* The requests to a session among those with numbers from a to b.
SentTo(o, a, b) == {q \in a..b : request[q].obj = o}

\* A client that sends one message at a time gets the reply to a message of its
\* session that is as many messages back as requests to the session have timed
\* out so far: to its own as long as none has.
LateByTimeouts ==
    \A r \in Requests :
        LET o   == request[r].obj
            got == request[r].got
        IN  request[r].status = "ok" /\ o \notin overlapped =>
              /\ got <= r /\ request[got].obj = o
              /\ Cardinality(SentTo(o, got + 1, r)) =
                    Cardinality({q \in SentTo(o, 1, r) : request[q].status = "timeout"})

\* No agent is left to itself: a session object is in the registry, or exactly
\* one caller of close() has taken it out and waits for its tasks.
OwnedOnce ==
    \A o \in 1..created :
        /\ Registered(o) <=> closer[o] = "nobody"
        /\ \A s, t \in Sids : registry[s] = o /\ registry[t] = o => s = t

\* When the application is down no session task is left, those included that
\* the cleanup task was closing when it was cancelled.
ShutdownLeavesNone ==
    server = "down" => \A o \in 1..created : TasksDone(o)

(* Refinement: an active session is a pipe to the requests that use it. *)

\* The messages of a session that no request has taken an answer to, oldest
\* first: answered and unread, in hand, waiting.
Hand(o)     == IF loop[o].msg = None THEN << >> ELSE <<loop[o].msg>>
OnTheWay(o) == outbound[o] \o (Hand(o) \o inbound[o])

Pipe == INSTANCE ReplyPipe WITH
    up   <- server = "up",
    pipe <- [o \in Objects |-> OnTheWay(o)]

\* Whatever requests overlap or give up and whoever is woken, answers leave a
\* session in the order in which its messages came, each to one request.
PipeSpec == Pipe!Spec

(* Liveness. *)

\* close() returns when both tasks had begun to run before it was called.
Stopping(o) == /\ loop[o].pc # "new" /\ ~loop[o].running
               /\ bg[o].pc # "new" /\ ~bg[o].running

CloseEnds == \A o \in Objects : Stopping(o) ~> TasksDone(o)

-----------------------------------------------------------------------------
(* What the documentation says and the code does not do. *)

\* ActiveSession.send: "Publish a message, wait for the agent response": what a
\* request returns is the answer to its message, when the client sends one
\* message at a time.
OwnReply ==
    \A r \in Requests :
        request[r].status = "ok" /\ request[r].obj \notin overlapped => request[r].got = r

\* session_registry.py: "Sessions that have not received a message or keepalive
\* within SESSION_TTL_S ... are automatically closed by a background cleanup
\* task": an idle session is evicted, unless it is used again or deleted.
IdleSessionsClosed ==
    \A o \in Objects :
        (Registered(o) /\ o \in idle) ~> (~Registered(o) \/ o \notin idle \/ server # "up")
=============================================================================
