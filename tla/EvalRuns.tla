------------------------------ MODULE EvalRuns ------------------------------
(***************************************************************************)
(* The evaluation harness: runs started by POST /eval/run or `agent eval   *)
(* run`, each of which takes the entries of a dataset one after the other, *)
(* replays the entry's conversation through a background agent in a        *)
(* workspace made for it, asks the question, has the answer judged and     *)
(* appends a line to its results file.                                     *)
(*                                                                         *)
(* All runs use eval/.workspaces/<question id> and eval/results; several   *)
(* may be going on in the server and in other processes.  A step is the    *)
(* code between two LLM calls.                                             *)
(***************************************************************************)
EXTENDS Integers, Sequences

CONSTANTS
    Runs,          \* runs of the harness
    Entries,       \* number of entries of a dataset
    Turns,         \* number of turns of an entry
    MaxTime        \* bound: the clock, in seconds (the grain of a file name)

ASSUME EvalAssumption ==
    Entries \in Nat \ {0} /\ Turns \in Nat \ {0} /\ MaxTime \in Nat

VARIABLES
    clock,         \* the time, in seconds
    run,           \* what each run is at
    workspace,     \* each workspace: absent, or whose facts its MEMORY.md has
    results,       \* the lines of each results file
    crowded        \* history: runs that have been in a workspace together

evalVars == <<clock, run, workspace, results, crowded>>

Datasets == 1..2                  \* longmemeval, memory_recall: as they sort
Ids      == Datasets \X (1..Entries)
Files    == Datasets \X (0..MaxTime)
Absent   == [made |-> FALSE, facts |-> {}]
Active   == {"replay", "ask", "judge"}
Over     == {"completed", "failed", "killed"}

\* A run that has not begun, or came to its end before its first entry.
Blank(phase) ==
    [phase |-> phase, dataset |-> 1, time |-> 0, keep |-> FALSE, entry |-> 0,
     turn |-> 0, snapshot |-> {}]

Id(r)   == <<run[r].dataset, run[r].entry>>
File(r) == <<run[r].dataset, run[r].time>>

EvalTypeOK ==
    /\ clock \in 0..MaxTime
    /\ run \in [Runs -> [phase : {"new"} \union Active \union Over, dataset : Datasets,
                         time : 0..MaxTime, keep : BOOLEAN, entry : 0..Entries,
                         turn : 0..Turns, snapshot : SUBSET Runs]]
    /\ workspace \in [Ids -> [made : BOOLEAN, facts : SUBSET Runs]]
    /\ results \in [Files -> Seq([run : Runs, entry : 1..Entries, memory : SUBSET Runs])]
    /\ \A r \in Runs : run[r].phase \in Active => run[r].entry >= 1
    /\ crowded \in SUBSET Runs

EvalInit ==
    /\ clock = 0
    /\ run = [r \in Runs |-> Blank("new")]
    /\ workspace = [id \in Ids |-> Absent]
    /\ results = [f \in Files |-> << >>]
    /\ crowded = {}

Tick == clock < MaxTime /\ clock' = clock + 1 /\ UNCHANGED <<run, workspace, results, crowded>>

-----------------------------------------------------------------------------
(* Workspaces. *)

\* Mutant: a workspace that is there is used as it is.
CreatedAsFound(spaces, id) ==
    [spaces EXCEPT ![id] = IF @.made THEN @ ELSE [made |-> TRUE, facts |-> {}]]

\* create_eval_workspace: one of the same name is deleted first.
Created(spaces, id) == [spaces EXCEPT ![id] = [made |-> TRUE, facts |-> {}]]

\* write_file makes the directories that are missing.
Wrote(r) == [workspace EXCEPT ![Id(r)] = [made |-> TRUE, facts |-> @.facts \union {r}]]

\* Who is at work in the workspace a run comes to, with the run itself.
Crowd(r, id) ==
    LET others == {s \in Runs \ {r} : run[s].phase \in Active /\ Id(s) = id}
    IN  IF others = {} THEN {} ELSE others \union {r}

-----------------------------------------------------------------------------
(* The beginning of a run. *)

\* The results file is named after the dataset and the second; the first
\* entry's workspace is made and its first turn analysed.
Begin(r, dataset, keep) ==
    /\ run[r].phase = "new"
    /\ run' = [run EXCEPT ![r] = [Blank("replay") EXCEPT !.dataset = dataset, !.time = clock,
                                                         !.keep = keep, !.entry = 1]]
    /\ workspace' = Created(workspace, <<dataset, 1>>)
    /\ crowded' = crowded \union Crowd(r, <<dataset, 1>>)
    /\ UNCHANGED <<clock, results>>

\* The dataset cannot be read, or no entry passes the filters.
BeginNothing(r) ==
    /\ run[r].phase = "new"
    /\ \E phase \in {"completed", "failed"} : run' = [run EXCEPT ![r] = Blank(phase)]
    /\ UNCHANGED <<clock, workspace, results, crowded>>

-----------------------------------------------------------------------------
(* One entry: _replay_and_answer. *)

\* After the last turn the persona is asked, with MEMORY.md in its prompt.
AfterTurn(r) == IF run[r].turn + 1 < Turns THEN "replay" ELSE "ask"

\* A turn has been analysed; the agent may have written to MEMORY.md.
ReplayTurn(r) ==
    /\ run[r].phase = "replay"
    /\ workspace' \in {workspace, Wrote(r)}
    /\ run' = [run EXCEPT ![r].turn = @ + 1, ![r].phase = AfterTurn(r)]
    /\ UNCHANGED <<clock, results, crowded>>

\* Mutant: an entry that failed writes no line.
LineUnlessError(r, raised, memory) ==
    IF raised THEN UNCHANGED results
    ELSE results' = [results EXCEPT ![File(r)] =
                       Append(@, [run |-> r, entry |-> run[r].entry, memory |-> memory])]

\* _append_result: also for an entry in which an LLM call raised, with the
\* error as its text.  The verdict is data.
Line(r, raised, memory) ==
    results' = [results EXCEPT ![File(r)] =
                  Append(@, [run |-> r, entry |-> run[r].entry, memory |-> memory])]

\* The entry after this one, or 0.
NextEntry(r) == IF run[r].entry < Entries THEN run[r].entry + 1 ELSE 0

\* The entry has its result: the workspace is removed unless it is to be kept,
\* the line is written, and the next entry begun or the run completed.
EndEntry(r, raised, memory) ==
    LET left == IF run[r].keep THEN workspace ELSE [workspace EXCEPT ![Id(r)] = Absent]
        next == NextEntry(r)
        id   == <<run[r].dataset, next>>
    IN  /\ Line(r, raised, memory)
        /\ IF next = 0
           THEN /\ run' = [run EXCEPT ![r] = [@ EXCEPT !.phase = "completed", !.turn = 0,
                                                       !.snapshot = {}]]
                /\ workspace' = left
                /\ UNCHANGED crowded
           ELSE /\ run' = [run EXCEPT ![r] = [@ EXCEPT !.phase = "replay", !.entry = next,
                                                       !.turn = 0, !.snapshot = {}]]
                /\ workspace' = Created(left, id)
                /\ crowded' = crowded \union Crowd(r, id)
        /\ UNCHANGED clock

\* The persona answered, with every expected keyword: no LLM judge is needed.
KeywordsMatch(r) ==
    /\ run[r].phase = "ask"
    /\ EndEntry(r, FALSE, workspace[Id(r)].facts)

\* It answered otherwise: MEMORY.md is read for the result, the judge asked.
AskJudge(r) ==
    /\ run[r].phase = "ask"
    /\ run' = [run EXCEPT ![r].phase = "judge", ![r].snapshot = workspace[Id(r)].facts]
    /\ UNCHANGED <<clock, workspace, results, crowded>>

\* The verdict; anything that is not "pass", or cannot be parsed, is a fail.
Judged(r) ==
    /\ run[r].phase = "judge"
    /\ EndEntry(r, FALSE, run[r].snapshot)

\* An LLM call raised.
EntryFails(r) ==
    /\ run[r].phase \in Active
    /\ EndEntry(r, TRUE, workspace[Id(r)].facts)

\* Something outside run_single_entry's handler raised (the disk is full, the
\* workspace cannot be deleted): the batch is over, the task "failed".
BatchFails(r) ==
    /\ run[r].phase \in Active
    /\ run' = [run EXCEPT ![r] = [@ EXCEPT !.phase = "failed", !.turn = 0, !.snapshot = {}]]
    /\ UNCHANGED <<clock, workspace, results, crowded>>

\* The process is killed.
Kill(r) ==
    /\ run[r].phase \in Active
    /\ run' = [run EXCEPT ![r] = [@ EXCEPT !.phase = "killed", !.turn = 0, !.snapshot = {}]]
    /\ UNCHANGED <<clock, workspace, results, crowded>>

EvalNext ==
    \/ Tick
    \/ \E r \in Runs :
          \/ \E dataset \in Datasets, keep \in BOOLEAN : Begin(r, dataset, keep)
          \/ BeginNothing(r)
          \/ ReplayTurn(r) \/ KeywordsMatch(r) \/ AskJudge(r) \/ Judged(r) \/ EntryFails(r)
          \/ BatchFails(r) \/ Kill(r)

EvalSpec == EvalInit /\ [][EvalNext]_evalVars

-----------------------------------------------------------------------------
(* Safety. *)

\* Where the lines of a run are in its file, and the entries it is through with.
Places(r)  == {i \in DOMAIN results[File(r)] : results[File(r)][i].run = r}
Through(r) == IF run[r].phase = "completed" THEN Entries ELSE run[r].entry - 1

\* A run has written one line for each entry it is through with, in their
\* order, whatever failed in them and whoever shares its file.
LinesAreEntries ==
    \A r \in Runs : run[r].entry # 0 =>
        LET line == results[File(r)]
        IN  /\ {line[i].entry : i \in Places(r)} = 1..Through(r)
            /\ \A i, j \in Places(r) : i < j => line[i].entry < line[j].entry

\* A result stands on what its own replay wrote to MEMORY.md, not on what an
\* earlier run, or an earlier entry, left behind, unless another run came into
\* the same workspace.
OwnMemoryAlone ==
    \A r \in Runs \ crowded : run[r].entry # 0 =>
        \A i \in Places(r) : results[File(r)][i].memory \subseteq {r}
=============================================================================
