---------------------------- MODULE SessionStore ----------------------------
(***************************************************************************)
(* One session file, sessions/<key>.jsonl, and HISTORY.md, under crashes   *)
(* and under several SessionManagers.  Each /chat request, each active     *)
(* /sessions object and each cron or heartbeat request makes a manager of  *)
(* its own, which reads the file once, on its first use of the key, and    *)
(* rewrites the whole file after every turn and every compression.         *)
(*                                                                         *)
(* All managers live in one process and a step is the code between two     *)
(* suspensions (the LLM call of a turn, that of a compression), except     *)
(* that the process may die anywhere, in the middle of a save included.    *)
(***************************************************************************)
EXTENDS Integers, Sequences

CONSTANTS
    Managers,      \* SessionManager objects with this key
    MaxTurns,      \* bound: turns started, by all managers
    Keep           \* DEFAULT_KEEP_MESSAGES

ASSUME ConstantsAssumption == MaxTurns \in Nat /\ Keep \in Nat

VARIABLES
    open,          \* managers that have the session in their _cache
    session,       \* the cached Session of each manager: messages and mark
    turn,          \* the turn whose LLM call each manager waits for, or 0
    segment,       \* the segment each manager has being summarised, or NoSegment
    disk,          \* what _load makes of the session file
    torn,          \* the last save did not run to its end
    summarised,    \* the messages summarised in HISTORY.md
    started,       \* turns started so far
    replied,       \* the turns whose reply was returned to the user
    exposed,       \* history: the turns that were answered while another manager
                   \* had an older copy of the session open, or that a save which
                   \* was cut short took out of the file while nobody had a copy
    damaged        \* history: a manager has read a torn file

memory  == <<open, session, turn, segment>>
history == <<started, replied, exposed, damaged>>
vars == <<open, session, turn, segment, disk, torn, summarised, started, replied,
          exposed, damaged>>

Turns    == 1..MaxTurns
Messages == [role : {"user", "assistant"}, turn : Turns]

\* A Session: messages, and last_consolidated, the number of messages that
\* need no summary any more.  _load returns None for a file that is absent or
\* has a line that is not JSON; get_or_create then starts from Empty.
Sessions  == [messages : Seq(Messages), mark : Nat]
Empty     == [messages |-> << >>, mark |-> 0]
NoSegment == [from |-> 0, to |-> 0]

TypeOK ==
    /\ open \subseteq Managers
    /\ session \in [Managers -> Sessions]
    /\ turn \in [Managers -> {0} \union Turns]
    /\ segment \in [Managers -> [from : Nat, to : Nat]]
    /\ disk \in Sessions
    /\ torn \in BOOLEAN
    /\ summarised \subseteq Messages
    /\ started \in 0..MaxTurns
    /\ replied \subseteq Turns
    /\ exposed \subseteq Turns
    /\ damaged \in BOOLEAN

Init ==
    /\ open = {}
    /\ session = [m \in Managers |-> Empty]
    /\ turn = [m \in Managers |-> 0]
    /\ segment = [m \in Managers |-> NoSegment]
    /\ disk = Empty /\ torn = FALSE /\ summarised = {}
    /\ started = 0 /\ replied = {}
    /\ exposed = {} /\ damaged = FALSE

-----------------------------------------------------------------------------
(* Reading and writing the file. *)

\* get_or_create: the cached session, or the file.
Opened(m) == IF m \in open THEN session[m] ELSE disk

\* save(), run to its end.
Save(s) == disk' = s /\ torn' = FALSE

\* save() cut short: the file was truncated first, then its lines are written
\* in order.  A cut inside a line makes the whole file unreadable.
Cut(s) == {Empty} \union {[s EXCEPT !.messages = SubSeq(@, 1, n)] : n \in 0..Len(s.messages)}

SaveCut(s) == disk' \in Cut(s) /\ torn' = TRUE

Has(s, t) == \A role \in {"user", "assistant"} :
                \E i \in DOMAIN s.messages : s.messages[i] = [role |-> role, turn |-> t]

\* The answered turns that are not in a file left torn.
TornOff == IF torn' THEN {t \in replied : ~Has(disk', t)} ELSE {}

\* The process dies: every manager is gone, and starts again closed.
Die ==
    /\ open' = {}
    /\ session' = [m \in Managers |-> Empty]
    /\ turn' = [m \in Managers |-> 0]
    /\ segment' = [m \in Managers |-> NoSegment]
    /\ exposed' = exposed \union TornOff
    /\ UNCHANGED <<started, replied, damaged>>

-----------------------------------------------------------------------------
(* A turn: AgentLoop._process_message, and the runner of cron/heartbeat. *)

StartTurn(m) ==
    /\ turn[m] = 0
    /\ started < MaxTurns
    /\ started' = started + 1
    /\ turn' = [turn EXCEPT ![m] = started + 1]
    /\ open' = open \union {m}
    /\ session' = [session EXCEPT ![m] = Opened(m)]
    /\ UNCHANGED <<segment, disk, torn, summarised, replied>>
    /\ damaged' = (damaged \/ (torn /\ m \notin open))
    /\ exposed' = IF m \in open THEN exposed ELSE exposed \union TornOff

\* The session of m with the two messages of its turn appended.
WithExchange(m) ==
    [session[m] EXCEPT !.messages = @ \o <<[role |-> "user", turn |-> turn[m]],
                                           [role |-> "assistant", turn |-> turn[m]]>>]

\* Mutant: the file is written before the exchange is appended.
FinishTurnSavedFirst(m) ==
    /\ turn[m] # 0
    /\ session' = [session EXCEPT ![m] = WithExchange(m)]
    /\ Save(session[m])
    /\ turn' = [turn EXCEPT ![m] = 0]
    /\ replied' = replied \union {turn[m]}
    /\ exposed' = IF open = {m} THEN exposed ELSE exposed \union {turn[m]}
    /\ UNCHANGED <<open, segment, summarised, started, damaged>>

\* The LLM answered: the exchange is appended, the file rewritten, the reply
\* returned.
FinishTurn(m) ==
    /\ turn[m] # 0
    /\ session' = [session EXCEPT ![m] = WithExchange(m)]
    /\ Save(WithExchange(m))
    /\ turn' = [turn EXCEPT ![m] = 0]
    /\ replied' = replied \union {turn[m]}
    /\ exposed' = IF open = {m} THEN exposed ELSE exposed \union {turn[m]}
    /\ UNCHANGED <<open, segment, summarised, started, damaged>>

\* save() raised (the disk is full, say): the user gets the error text, the
\* cached session has the exchange.
FinishTurnUnsaved(m) ==
    /\ turn[m] # 0
    /\ session' = [session EXCEPT ![m] = WithExchange(m)]
    /\ SaveCut(WithExchange(m))
    /\ turn' = [turn EXCEPT ![m] = 0]
    /\ UNCHANGED <<open, segment, summarised, history>>

\* The LLM call raised.
FailTurn(m) ==
    /\ turn[m] # 0
    /\ turn' = [turn EXCEPT ![m] = 0]
    /\ UNCHANGED <<open, session, segment, disk, torn, summarised, history>>

-----------------------------------------------------------------------------
(* A compression: MemoryStore.compress_session and the save after it. *)

\* Mutant: the mark moves when the segment is captured.
StartCompressMarked(m) ==
    LET s == session[m]
    IN  /\ m \in open
        /\ segment[m] = NoSegment
        /\ s.mark < Len(s.messages) - Keep
        /\ segment' = [segment EXCEPT ![m] = [from |-> s.mark, to |-> Len(s.messages) - Keep]]
        /\ session' = [session EXCEPT ![m].mark = Len(s.messages) - Keep]
        /\ UNCHANGED <<open, turn, disk, torn, summarised, history>>

\* The segment is fixed and the LLM called.
StartCompress(m) ==
    LET s == session[m]
    IN  /\ m \in open
        /\ segment[m] = NoSegment
        /\ s.mark < Len(s.messages) - Keep
        /\ segment' = [segment EXCEPT ![m] = [from |-> s.mark, to |-> Len(s.messages) - Keep]]
        /\ UNCHANGED <<open, session, turn, disk, torn, summarised, history>>

\* The messages of the segment.
Summary(m) == {session[m].messages[i] : i \in (segment[m].from + 1)..segment[m].to}

WithMark(m) == [session[m] EXCEPT !.mark = segment[m].to]

\* The summary arrived: it is appended to HISTORY.md, the mark moves, and the
\* session is saved, whole or cut (the exception is logged).
FinishCompress(m) ==
    /\ segment[m] # NoSegment
    /\ summarised' = summarised \union Summary(m)
    /\ session' = [session EXCEPT ![m] = WithMark(m)]
    /\ Save(WithMark(m)) \/ SaveCut(WithMark(m))
    /\ segment' = [segment EXCEPT ![m] = NoSegment]
    /\ UNCHANGED <<open, turn, history>>

\* No summary came back, or it could not be appended.
FailCompress(m) ==
    /\ segment[m] # NoSegment
    /\ segment' = [segment EXCEPT ![m] = NoSegment]
    /\ UNCHANGED <<open, session, turn, disk, torn, summarised, history>>

-----------------------------------------------------------------------------
\* The owner of the manager is gone: the /chat request is over, or close() has
\* waited for the two tasks.  The cache goes with it.
Close(m) ==
    /\ m \in open
    /\ turn[m] = 0
    /\ segment[m] = NoSegment
    /\ open' = open \ {m}
    /\ session' = [session EXCEPT ![m] = Empty]
    /\ UNCHANGED <<turn, segment, disk, torn, summarised, started, replied, damaged>>
    /\ exposed' = IF open = {m} THEN exposed \union TornOff ELSE exposed

\* The process dies between two steps.
Crash ==
    /\ UNCHANGED <<disk, torn, summarised>>
    /\ Die

\* It dies while it writes the file, or after the write and before the reply.
CrashInTurn(m) ==
    /\ turn[m] # 0
    /\ SaveCut(WithExchange(m))
    /\ Die
    /\ UNCHANGED summarised

\* It dies after the summary is in HISTORY.md: before the save, or in it.
CrashInCompress(m) ==
    /\ segment[m] # NoSegment
    /\ summarised' = summarised \union Summary(m)
    /\ UNCHANGED <<disk, torn>> \/ SaveCut(WithMark(m))
    /\ Die

Next ==
    \/ \E m \in Managers : \/ StartTurn(m) \/ FinishTurn(m) \/ FinishTurnUnsaved(m) \/ FailTurn(m)
                           \/ StartCompress(m) \/ FinishCompress(m) \/ FailCompress(m)
                           \/ Close(m) \/ CrashInTurn(m) \/ CrashInCompress(m)
    \/ Crash

Spec == Init /\ [][Next]_vars

-----------------------------------------------------------------------------
(* Safety. *)

\* A turn the user has seen answered survives failed calls, cut saves, crashes,
\* compressions and managers that overlap: it is in the file, or else the file
\* is torn and a manager is open whose next whole save makes it good, and it is
\* in the session of every open manager.  Excepted are exactly the turns that
\* were answered while another manager had an older copy open, which may be
\* saved over the file, and those that a cut save took when no copy was left;
\* what else is in the file then, and what is answered later, survives.
RepliesSurvive ==
    \A t \in replied \ exposed :
        /\ Has(disk, t) \/ (torn /\ open # {})
        /\ \A m \in open : Has(session[m], t)

\* What is marked as consolidated is summarised: HISTORY.md has every message
\* below the mark, in every copy of the session and in the file, whatever
\* crashed and whoever shared the file.  A mark from a torn file may lie beyond
\* its messages: the next messages would be skipped, hence the condition.
MarkedIsSummarised ==
    ~damaged =>
        \A s \in {disk} \union {session[m] : m \in open} :
            \A i \in 1..s.mark : i <= Len(s.messages) => s.messages[i] \in summarised
=============================================================================
