---------------------------- MODULE RunRegistry ----------------------------
(***************************************************************************)
(* The registry of agent runs and its copy on disk                         *)
(* (apps/desktop/src/main/agent/run-registry.ts, run-store-bridge.ts,      *)
(* run-store.ts, run-resume.ts, resume-handlers.ts).                       *)
(*                                                                         *)
(* The registry is a map in memory that keeps the newest MaxRuns runs.     *)
(* Every change of it is told to the bridge, in the same call, and the     *)
(* bridge writes the runs that changed to the table agent_runs_persistent. *)
(* A write may fail and is then not tried again before the run's next      *)
(* change. At startup the rows still marked running are closed or, when    *)
(* their worktree is on disk, offered to the user.                         *)
(*                                                                         *)
(* Of an entry only the status and the merge status are kept: tokens, tool *)
(* events, times and the seen flag are left out.                           *)
(***************************************************************************)
EXTENDS Naturals, Sequences, FiniteSets, SequencesExt

CONSTANTS
    Runs,       \* agent runs
    MaxRuns,    \* MAX_RUNS
    MaxFaults   \* bound: failing writes of the table

ASSUME RegistryAssumption ==
    /\ IsFiniteSet(Runs)
    /\ MaxRuns \in Nat \ {0}
    /\ MaxFaults \in Nat

Absent == [status |-> "none", merge |-> "none"]

AgentRun == [status: {"running", "completed", "failed"},
             merge: {"none", "pending", "merged", "rejected"}]

VARIABLES
    order,      \* insertionOrder
    entry,      \* runs, the map
    row,        \* agent_runs_persistent
    prompts,    \* interrupted runs the window asks about
    missed,     \* history: runs whose last write failed and left a running row
    left,       \* history: runs dropped from the registry, or resumed, while their row says running
    faults      \* writes that failed (bound)

registryVars == <<order, entry, row, prompts, missed, left, faults>>

RegistryTypeOK ==
    /\ order \in Seq(Runs) /\ IsInjective(order) /\ Len(order) <= MaxRuns
    /\ entry \in [Runs -> AgentRun \cup {Absent}]
    /\ \A r \in Runs : r \in ToSet(order) <=> entry[r] # Absent
    /\ row \in [Runs -> AgentRun \cup {Absent}]
    /\ prompts \subseteq Runs
    /\ missed \subseteq Runs
    /\ left \subseteq Runs
    /\ faults \in 0 .. MaxFaults

RegistryInit ==
    /\ order = <<>>
    /\ entry = [r \in Runs |-> Absent]
    /\ row = [r \in Runs |-> Absent]
    /\ prompts = {}
    /\ missed = {}
    /\ left = {}
    /\ faults = 0

-----------------------------------------------------------------------------
(* The table and the bridge                                                *)

\* A write of each of these rows; each may fail.
Write(runs, as) ==
    \E lost \in SUBSET runs :
        /\ faults' = faults + Cardinality(lost)
        /\ faults' <= MaxFaults
        /\ row' = [r \in Runs |-> IF r \in runs \ lost THEN as[r] ELSE row[r]]
        /\ missed' = {r \in (missed \ runs) \cup lost : row'[r].status = "running"}

\* (mutant) The bridge writes only runs it has not seen before.
MirrorOnce(new) == Write({r \in Runs : new[r] # Absent /\ entry[r] = Absent}, new)

\* The listener of startRunStoreBridge(): of the runs listed now, those that differ
\* from the last snapshot, which is the registry before the change, are written.
\* A run that is no longer listed keeps its row.
Mirror(new) == Write({r \in Runs : new[r] # Absent /\ new[r] # entry[r]}, new)

\* emit() after the map became new.
Emit(new) == entry' = new /\ Mirror(new)

-----------------------------------------------------------------------------
(* The registry                                                            *)

\* trimIfOverflow(): the oldest go, whatever they are doing.
Trimmed(ids) == IF Len(ids) > MaxRuns THEN Tail(ids) ELSE ids

\* recordStart()
RecordStart(r, merge) ==
    LET kept == Trimmed(Append(order, r))
        new  == [q \in Runs |->
                   CASE q \notin ToSet(kept) -> Absent
                     [] q = r                -> [status |-> "running", merge |-> merge]
                     [] OTHER                -> entry[q]]
    IN  /\ order' = kept
        /\ Emit(new)
        /\ left' = left \cup {q \in Runs : row[q].status = "running" /\ entry[q] # new[q]}
        /\ UNCHANGED prompts

\* recordComplete() and recordError(), on a run that may no longer be listed.
RecordEnd(r, status) ==
    /\ IF entry[r] = Absent
       THEN UNCHANGED <<entry, row, missed, faults>>
       ELSE Emit([entry EXCEPT ![r].status = status])
    /\ UNCHANGED <<order, prompts, left>>

\* setMergeStatus()
SetMergeStatus(r, merge) ==
    /\ IF entry[r] = Absent
       THEN UNCHANGED <<entry, row, missed, faults>>
       ELSE Emit([entry EXCEPT ![r].merge = merge])
    /\ UNCHANGED <<order, prompts, left>>

\* clear(), behind the button "Clear history".
Clear ==
    /\ order # <<>>
    /\ order' = <<>>
    /\ Emit([r \in Runs |-> Absent])
    /\ left' = left \cup {r \in ToSet(order) : row[r].status = "running"}
    /\ UNCHANGED prompts

-----------------------------------------------------------------------------
(* Restart                                                                 *)

\* The memory of the process is gone.
Forget ==
    /\ order' = <<>>
    /\ entry' = [r \in Runs |-> Absent]
    /\ prompts' = {}
    /\ UNCHANGED <<row, missed, left, faults>>

Failed(runs) == [r \in Runs |-> [row[r] EXCEPT !.status = "failed"]]

\* (mutant) Startup takes every row without a worktree for one that was cut off.
HydrateEveryRow(onDisk) ==
    LET known == {r \in Runs : row[r] # Absent}
    IN  /\ prompts' = known \cap onDisk
        /\ left' = {}
        /\ Write(known \ onDisk, Failed(known \ onDisk))
        /\ UNCHANGED <<order, entry>>

\* hydrateRunRegistryFromStore(), then promptResumeIfNeeded(): the running rows whose
\* worktree is on disk are put before the user, the others are marked failed. When
\* the rows cannot be read nothing is done about any of them.
HydrateRunRegistryFromStore(onDisk) ==
    LET running == {r \in Runs : row[r].status = "running"}
    IN  /\ left' = {}
        /\ \/ /\ prompts' = running \cap onDisk
              /\ Write(running \ onDisk, Failed(running \ onDisk))
           \/ /\ faults < MaxFaults
              /\ faults' = faults + 1
              /\ missed' = missed \cup running
              /\ UNCHANGED <<prompts, row>>
        /\ UNCHANGED <<order, entry>>

\* The user discards an interrupted run: its row is marked failed. When that write
\* fails the prompt stays.
Discard(r) ==
    /\ r \in prompts
    /\ Write({r}, Failed({r}))
    /\ prompts' = IF faults' = faults THEN prompts \ {r} ELSE prompts
    /\ UNCHANGED <<order, entry, left>>

\* The user chooses to resume: the prompt is closed, and nothing else happens.
Resume(r) ==
    /\ r \in prompts
    /\ prompts' = prompts \ {r}
    /\ left' = left \cup {r}
    /\ UNCHANGED <<order, entry, row, missed, faults>>
=============================================================================
