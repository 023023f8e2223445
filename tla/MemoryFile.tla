----------------------------- MODULE MemoryFile -----------------------------
(***************************************************************************)
(* memory/MEMORY.md and memory/HISTORY.md of one workspace, and the agents *)
(* that write them: the background lane of every active session, and what  *)
(* a single request makes for itself (the background pass of /chat, a cron *)
(* or heartbeat run).  All of them replace the whole of a file by what an  *)
(* LLM made of it, and none of them locks it.                              *)
(*                                                                         *)
(* A file is the set of facts in it and a fact is one unit of its size.    *)
(* HISTORY.md is what these agents put there; the summaries of sessions    *)
(* that compress_session appends are in DualLane and SessionStore.  A step *)
(* is the code between two LLM calls or tool calls, except that a write    *)
(* may fail half way, with the process or without it.                      *)
(***************************************************************************)
EXTENDS Integers, FiniteSets

CONSTANTS
    Lanes,         \* BackgroundAgents of active sessions: they outlive a turn
    Passes,        \* agents made for one request
    Facts,         \* what the user may tell
    Budget,        \* MEMORY_MAX_TOKENS, in facts
    WriteLimit,    \* MEMORY_WRITE_HARD_LIMIT_TOKENS, in facts
    Threshold,     \* MEMORY_CONSOLIDATION_THRESHOLD
    MaxCrashes     \* bound: deaths of the process

ASSUME ConstantsAssumption ==
    /\ Lanes \intersect Passes = {}
    /\ IsFiniteSet(Facts)
    /\ Budget \in Nat /\ WriteLimit \in Nat /\ Budget <= WriteLimit
    /\ Threshold \in Nat \ {0}
    /\ MaxCrashes \in Nat

VARIABLES
    memory,        \* MEMORY.md
    historyFile,   \* HISTORY.md
    pc,            \* what each agent waits for
    view,          \* the MEMORY.md its LLM goes by
    count,         \* _turns_since_consolidation, of one session per agent
    crashes,       \* deaths of the process so far
    owed,          \* history: what was written to MEMORY.md and not left out since
                   \* by an LLM that had it before it; but not what another agent
                   \* at work had not before it when it was last written, nor what
                   \* was in MEMORY.md when a write of it was torn
    back           \* history: facts in HISTORY.md that an LLM wrote into MEMORY.md
                   \* anew, or that one had before it when they were archived

files == <<memory, historyFile>>
agent == <<pc, view, count>>
ghost == <<owed, back>>
vars  == <<memory, historyFile, pc, view, count, crashes, owed, back>>

Agents == Lanes \union Passes
Fits(content, limit) == Cardinality(content) <= limit

TypeOK ==
    /\ memory \in SUBSET Facts /\ Fits(memory, WriteLimit)
    /\ historyFile \in SUBSET Facts
    /\ pc \in [Agents -> {"idle", "analyze", "compress", "archive"}]
    /\ view \in [Agents -> SUBSET Facts]
    /\ count \in [Agents -> 0..Threshold - 1]
    /\ crashes \in 0..MaxCrashes
    /\ owed \in SUBSET Facts /\ back \in SUBSET Facts

Init ==
    /\ memory = {} /\ historyFile = {}
    /\ pc = [a \in Agents |-> "idle"]
    /\ view = [a \in Agents |-> {}]
    /\ count = [a \in Agents |-> 0]
    /\ crashes = 0
    /\ owed = {} /\ back = {}

\* The LLM of b has a MEMORY.md before it, and may write what it makes of it.
AtWork(b) == pc[b] \in {"analyze", "archive"}

\* Of the facts that a writes: those another agent at work has not before it.
Unseen(a, facts) == {f \in facts : \E b \in Agents \ {a} : AtWork(b) /\ f \notin view[b]}

\* Of the facts that a archives: those another agent at work has before it.
StillHeld(a, facts) == {f \in facts : \E b \in Agents \ {a} : AtWork(b) /\ f \in view[b]}

-----------------------------------------------------------------------------
(* The analysis of a turn: an agentic loop with read_file and write_file. *)

\* Mutant: the memory put into the prompt is that of the agent's last turn.
BeginTurnCached(a) ==
    /\ pc[a] = "idle"
    /\ pc' = [pc EXCEPT ![a] = "analyze"]
    /\ UNCHANGED <<files, view, count, crashes, ghost>>

\* _analyze puts MEMORY.md into the prompt and calls the LLM.
BeginTurn(a) ==
    /\ pc[a] = "idle"
    /\ pc' = [pc EXCEPT ![a] = "analyze"]
    /\ view' = [view EXCEPT ![a] = memory]
    /\ UNCHANGED <<files, count, crashes, ghost>>

\* The LLM calls read_file.
ReadFile(a) ==
    /\ pc[a] = "analyze"
    /\ view' = [view EXCEPT ![a] = memory]
    /\ UNCHANGED <<files, pc, count, crashes, ghost>>

\* Mutant: no guard on the size.
ContentsUnguarded == SUBSET Facts

\* What write_file accepts for MEMORY.md.  The LLM may put into it what it has
\* from that file, from the conversation or from HISTORY.md, old or new.
Contents == {content \in SUBSET Facts : Fits(content, WriteLimit)}

\* The LLM calls write_file: the content replaces the file, or is rejected
\* as too large, and the LLM gets an error to read.
WriteFile(a) ==
    /\ pc[a] = "analyze"
    /\ \E content \in Contents :
          /\ memory' = content
          /\ view' = [view EXCEPT ![a] = content]
          /\ owed' = ((owed \ (view[a] \ content)) \union content) \ Unseen(a, content)
          /\ back' = back \union ((content \ view[a]) \intersect historyFile)
    /\ UNCHANGED <<historyFile, pc, count, crashes>>

\* It moves what it dropped to HISTORY.md, as its prompt tells it to, by a
\* write_file that replaces the whole of that file; nothing limits its size.
WriteHistory(a) ==
    /\ pc[a] = "analyze"
    /\ historyFile' \in SUBSET Facts
    /\ LET added == historyFile' \ historyFile IN
          back' = (back \intersect historyFile') \union (added \intersect (memory \union view[a]))
                                                \union StillHeld(a, added)
    /\ owed' = owed \ (historyFile \ historyFile')
    /\ UNCHANGED <<memory, agent, crashes>>

\* MEMORY.md has been truncated and part of the content written.  (What a torn
\* HISTORY.md has, a WriteHistory might have written.)
TornWrite(a) ==
    /\ pc[a] = "analyze"
    /\ memory' \in Contents
    /\ owed' = owed \ (memory \union memory')
    /\ back' = back \union ((memory' \ view[a]) \intersect historyFile)
    /\ UNCHANGED historyFile

\* The tool answers that the write failed, and the LLM goes on.
WriteFails(a) ==
    /\ TornWrite(a)
    /\ UNCHANGED <<agent, crashes>>

-----------------------------------------------------------------------------
(* _maybe_consolidate, after the analysis. *)

\* Mutant: every turn has a BackgroundAgent, and a counter, of its own.
EndTurnFreshCounter(a) ==
    /\ pc[a] = "analyze"
    /\ pc' = [pc EXCEPT ![a] = IF 1 < Threshold THEN "idle" ELSE "compress"]
    /\ UNCHANGED <<files, view, count, crashes, ghost>>

\* The analysis returned and the turn is counted.  An agent made for one
\* request ends here and its counter with it.
EndTurn(a) ==
    /\ pc[a] = "analyze"
    /\ IF count[a] + 1 < Threshold
       THEN /\ pc' = [pc EXCEPT ![a] = "idle"]
            /\ count' = [count EXCEPT ![a] = IF a \in Passes THEN 0 ELSE @ + 1]
       ELSE /\ pc' = [pc EXCEPT ![a] = "compress"]
            /\ count' = [count EXCEPT ![a] = 0]
    /\ UNCHANGED <<files, view, crashes, ghost>>

\* The analysis timed out or raised: the turn is not counted.  What its tools
\* wrote stays.
DropTurn(a) ==
    /\ pc[a] = "analyze"
    /\ pc' = [pc EXCEPT ![a] = "idle"]
    /\ UNCHANGED <<files, view, count, crashes, ghost>>

\* Mutant: what is pruned is the MEMORY.md read before compress_session.
EnforceBudgetUnread(a) ==
    /\ pc[a] = "compress"
    /\ pc' = [pc EXCEPT ![a] = IF Fits(memory, Budget) THEN "idle" ELSE "archive"]
    /\ UNCHANGED <<files, view, count, crashes, ghost>>

\* compress_session is over; MEMORY.md is read, and if it is over budget the
\* LLM is asked to prune it.
EnforceBudget(a) ==
    /\ pc[a] = "compress"
    /\ IF Fits(memory, Budget)
       THEN /\ pc' = [pc EXCEPT ![a] = "idle"]
            /\ UNCHANGED view
       ELSE /\ pc' = [pc EXCEPT ![a] = "archive"]
            /\ view' = [view EXCEPT ![a] = memory]
    /\ UNCHANGED <<files, count, crashes, ghost>>

\* The pruned files archive_old_memory does not refuse.
Pruned(a) == {kept \in SUBSET view[a] \ {{}} : Fits(kept, Budget)}

\* The LLM answered with what is to be kept and with a section to be archived,
\* which may have all that was removed, some of it or nothing, and what is kept
\* besides: the file is replaced, and the section appended to HISTORY.md.
Archive(a) ==
    /\ pc[a] = "archive"
    /\ \E kept \in Pruned(a), archived \in SUBSET view[a] :
          /\ memory' = kept
          /\ historyFile' = historyFile \union archived
          /\ owed' = ((owed \ (view[a] \ archived)) \union kept) \ Unseen(a, kept)
          /\ back' = (back \ archived) \union (kept \intersect archived) \union StillHeld(a, archived)
    /\ pc' = [pc EXCEPT ![a] = "idle"]
    /\ UNCHANGED <<view, count, crashes>>

\* The write of MEMORY.md was cut short, or that of HISTORY.md after it.
TornArchive(a) ==
    /\ pc[a] = "archive"
    /\ \E kept \in Pruned(a), appended \in SUBSET view[a] :
          /\ memory' \in SUBSET kept
          /\ appended = {} \/ memory' = kept
          /\ historyFile' = historyFile \union appended
          /\ back' = (back \ appended) \union (memory' \intersect appended) \union StillHeld(a, appended)
    /\ owed' = owed \ (memory \union memory')

\* A write raised, which _maybe_consolidate catches.
ArchiveFails(a) ==
    /\ TornArchive(a)
    /\ pc' = [pc EXCEPT ![a] = "idle"]
    /\ UNCHANGED <<view, count, crashes>>

\* The LLM call raised, or its answer has no marker, keeps nothing or too much.
ArchiveAborted(a) ==
    /\ pc[a] = "archive"
    /\ pc' = [pc EXCEPT ![a] = "idle"]
    /\ UNCHANGED <<files, view, count, crashes, ghost>>

-----------------------------------------------------------------------------
(* The end of an agent, and of all of them. *)

\* The session of a lane is closed; the next one starts counting again.
CloseLane(a) ==
    /\ a \in Lanes /\ pc[a] = "idle" /\ count[a] # 0
    /\ count' = [count EXCEPT ![a] = 0]
    /\ UNCHANGED <<files, pc, view, crashes, ghost>>

Die ==
    /\ crashes < MaxCrashes
    /\ crashes' = crashes + 1
    /\ pc' = [a \in Agents |-> "idle"]
    /\ count' = [a \in Agents |-> 0]
    /\ UNCHANGED view

Crash ==
    /\ Die
    /\ UNCHANGED <<files, ghost>>

CrashInWrite(a)   == TornWrite(a) /\ Die
CrashInArchive(a) == TornArchive(a) /\ Die

AgentNext(a) ==
    \/ BeginTurn(a) \/ ReadFile(a) \/ EndTurn(a) \/ DropTurn(a)
    \/ WriteFile(a) \/ WriteHistory(a) \/ WriteFails(a)
    \/ EnforceBudget(a) \/ Archive(a) \/ ArchiveAborted(a) \/ ArchiveFails(a)

Next ==
    \/ \E a \in Agents : AgentNext(a) \/ CloseLane(a)
    \/ \E a \in Agents : CrashInWrite(a) \/ CrashInArchive(a)
    \/ Crash

Spec == Init /\ [][Next]_vars

-----------------------------------------------------------------------------
(* Safety.  Nothing keeps the agents of one workspace apart, so that one   *)
(* may overwrite what another has just written, and bring back what        *)
(* another has just archived.  The two below say what cannot be hit.       *)

\* A fact written to MEMORY.md is not lost, whoever overlaps with whom later: it
\* is in one of the files, unless since it was last written an LLM left it out that
\* had it before it (or replaced the HISTORY.md it was in), another agent was at
\* work without it at that moment, or a write of MEMORY.md was torn.
AccountedFor == owed \subseteq memory \union historyFile

\* What was archived does not return to MEMORY.md by a write that goes by an old
\* state of the file: a fact is in both files only if an LLM, since it was last
\* archived, wrote it there anew, from the conversation or from HISTORY.md, or if
\* another agent had it before it then (every turn and every pruning reads the
\* file afresh, background.py:213 and memory.py:171), or it was kept as well.
ArchivedStaysOut == memory \intersect historyFile \subseteq back

-----------------------------------------------------------------------------
(* Liveness. *)

\* Users of the workspace go on talking to the agents; not every analysis fails,
\* and not every pruning is refused.
FairSpec ==
    /\ Spec
    /\ \A a \in Agents :
          /\ WF_vars(BeginTurn(a)) /\ WF_vars(EnforceBudget(a))
          /\ SF_vars(EndTurn(a)) /\ SF_vars(Archive(a))

\* From some moment on no active session is closed (crashes are finite in number).
LanesLast == <>[][\A a \in Lanes : ~CloseLane(a)]_vars

\* A MEMORY.md over its budget is brought back under it where sessions last,
\* however writes of other agents and of the same one interleave with the
\* pruning, time out or are cut short by a crash.
BudgetRestored == LanesLast => (~Fits(memory, Budget) ~> Fits(memory, Budget))
=============================================================================
