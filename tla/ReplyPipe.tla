----------------------------- MODULE ReplyPipe -----------------------------
(***************************************************************************)
(* What an active session promises to the requests that use it, without    *)
(* saying how its queues and tasks work: a pipe of messages, first in      *)
(* first out.  A request puts its own message in at one end and takes the  *)
(* oldest one, answered, out at the other, at once or later, or gives up   *)
(* and leaves its message behind.  Nothing else puts in or takes out,      *)
(* until the server stops, which may cost one message.                     *)
(***************************************************************************)
EXTENDS Integers, Sequences, SequencesExt

CONSTANTS
    MaxSessions,   \* bound: pipes are numbered 1..MaxSessions
    MaxRequests    \* bound: requests are numbered 1..MaxRequests, as they are sent

VARIABLES
    up,            \* requests are accepted
    pipe,          \* the messages of each pipe, by the request that sent them
    sent,          \* requests sent so far
    request        \* each request's pipe, outcome, and the message it took

vars == <<up, pipe, sent, request>>

Init ==
    /\ up = TRUE
    /\ pipe = [o \in 1..MaxSessions |-> << >>]
    /\ sent = 0
    /\ request = [r \in 1..MaxRequests |-> [obj |-> 0, got |-> 0, status |-> "unsent"]]

\* A request puts its message in and waits.
Send(o) ==
    /\ up
    /\ sent < MaxRequests
    /\ sent' = sent + 1
    /\ request' = [request EXCEPT ![sent + 1] = [obj |-> o, got |-> 0, status |-> "waiting"]]
    /\ pipe' = [pipe EXCEPT ![o] = Append(@, sent + 1)]
    /\ UNCHANGED up

\* A request puts its message in and takes an older one out.
SendAndTake(o) ==
    /\ up
    /\ sent < MaxRequests
    /\ pipe[o] # << >>
    /\ sent' = sent + 1
    /\ request' = [request EXCEPT ![sent + 1] =
                      [obj |-> o, got |-> Head(pipe[o]), status |-> "ok"]]
    /\ pipe' = [pipe EXCEPT ![o] = Append(Tail(@), sent + 1)]
    /\ UNCHANGED up

\* A request that waits takes the oldest message out.
Take(r) ==
    LET o == request[r].obj
    IN  /\ request[r].status = "waiting"
        /\ pipe[o] # << >>
        /\ request' = [request EXCEPT ![r] = [obj |-> o, got |-> Head(pipe[o]), status |-> "ok"]]
        /\ pipe' = [pipe EXCEPT ![o] = Tail(@)]
        /\ UNCHANGED <<up, sent>>

GiveUp(r) ==
    /\ request[r].status = "waiting"
    /\ request' = [request EXCEPT ![r].status = "timeout"]
    /\ UNCHANGED <<up, pipe, sent>>

\* Nobody waits any more.
Stop ==
    /\ up
    /\ \A r \in 1..MaxRequests : request[r].status # "waiting"
    /\ up' = FALSE
    /\ \/ UNCHANGED pipe
       \/ \E o \in 1..MaxSessions : \E i \in DOMAIN pipe[o] :
             pipe' = [pipe EXCEPT ![o] = RemoveAt(@, i)]
    /\ UNCHANGED <<sent, request>>

Next ==
    \/ \E o \in 1..MaxSessions : Send(o) \/ SendAndTake(o)
    \/ \E r \in 1..MaxRequests : Take(r) \/ GiveUp(r)
    \/ Stop

Spec == Init /\ [][Next]_vars
=============================================================================
