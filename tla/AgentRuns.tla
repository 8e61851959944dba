----------------------------- MODULE AgentRuns -----------------------------
(***************************************************************************)
(* Agent runs from their start to their verdict                            *)
(* (apps/desktop/src/main/agent/spawn-from-ui.ts, spawn-subagent-tool.ts,  *)
(* worker-host.ts, worker-entry.ts), composed with the registry and its    *)
(* copy on disk and with the review of what a run did in its worktree.     *)
(*                                                                         *)
(* A run is recorded, given to a worker process, and when the worker fails *)
(* or the run is aborted, run once more in the main process, whose end is  *)
(* recorded. A run started by a tool of a chat turn differs in that it has *)
(* no worktree and is aborted by its turn. The process may end and start   *)
(* again at any time. What the runner does is external: it writes files    *)
(* and answers, or not.                                                    *)
(***************************************************************************)
EXTENDS MergeReview

CONSTANTS
    UseWorktree,    \* runs started with the worktree option
    MaxQuits        \* bound: how often the process ends

ASSUME RunsAssumption ==
    /\ UseWorktree \subseteq Runs
    /\ MaxQuits \in Nat

VARIABLES
    up,         \* whether the process lives
    phase,      \* where the start of each run is
    aborted,    \* runs whose AbortController was aborted
    wrote,      \* history: runs that wrote to their worktree
    quits       \* process ends (bound)

runVars == <<up, phase, aborted, wrote, quits>>
vars == <<registryVars, reviewVars, runVars>>

Phases == {"idle", "started", "worker", "inline", "over"}
Active == {"started", "worker", "inline"}    \* the phases in which it can be aborted

TypeOK ==
    /\ RegistryTypeOK
    /\ ReviewTypeOK
    /\ up \in BOOLEAN
    /\ phase \in [Runs -> Phases]
    /\ {aborted, wrote} \subseteq SUBSET Runs
    /\ quits \in 0 .. MaxQuits

Init ==
    /\ RegistryInit
    /\ ReviewInit
    /\ up = TRUE
    /\ phase = [r \in Runs |-> "idle"]
    /\ aborted = {}
    /\ wrote = {}
    /\ quits = 0

-----------------------------------------------------------------------------
(* The start                                                               *)

Goto(r, p) == phase' = [phase EXCEPT ![r] = p]

\* bootstrapWorktreeOrSkip(): with the option a worktree is made.
BootstrapWorktreeOrSkip(r) == r \in UseWorktree /\ CreateWorktree(r)

\* spawnFromUiAsync(): a worktree, unless making it fails or the workspace is no
\* repository; then recordStart(), and the run can be aborted. The process is not
\* stopped while git makes the worktree.
Start(r) ==
    /\ phase[r] = "idle"
    /\ Goto(r, "started")
    /\ \/ BootstrapWorktreeOrSkip(r) /\ RecordStart(r, "pending")
       \/ UNCHANGED reviewVars /\ RecordStart(r, "none")
    /\ UNCHANGED <<up, aborted, wrote, quits>>

\* A worker is forked; there is none when this build has no utility process, and when
\* the signal is already aborted the worker is rejected before it starts: both run
\* inline.
Launch(r) ==
    /\ phase[r] = "started"
    /\ \/ Goto(r, "inline")
       \/ r \notin aborted /\ Goto(r, "worker")
    /\ UNCHANGED <<registryVars, reviewVars, up, aborted, wrote, quits>>

\* The runner writes a file in the worktree.
Work(r) ==
    /\ phase[r] \in {"worker", "inline"}
    /\ WriteInTree(r)
    /\ wrote' = wrote \cup {r}
    /\ UNCHANGED <<registryVars, up, phase, aborted, quits>>

-----------------------------------------------------------------------------
(* The end                                                                 *)

Settle(r) ==
    /\ Goto(r, "over")
    /\ \E status \in {"completed", "failed"} : RecordEnd(r, status)
    /\ aborted' = aborted \ {r}
    /\ UNCHANGED <<reviewVars, up, wrote, quits>>

\* The worker posts its result: it is killed and the result recorded.
WorkerResult(r) == phase[r] = "worker" /\ Settle(r)

\* The worker posts an error or exits: the run is done once more, inline.
WorkerFails(r) ==
    /\ phase[r] = "worker"
    /\ Goto(r, "inline")
    /\ UNCHANGED <<registryVars, reviewVars, up, aborted, wrote, quits>>

\* runSubagentInline() returns or throws. A cancelled run counts as completed.
InlineEnds(r) == phase[r] = "inline" /\ Settle(r)

\* (mutant) The abort kills the worker and rejects nothing.
AbortWithoutReject(r) ==
    /\ phase[r] \in Active
    /\ r \notin aborted
    /\ aborted' = aborted \cup {r}
    /\ UNCHANGED <<registryVars, reviewVars, up, phase, wrote, quits>>

\* abortSpawnedRun(), or the abort of the turn: the listener in the worker's host kills
\* the worker and rejects, and the run goes on inline with an aborted signal.
Abort(r) ==
    /\ phase[r] \in Active
    /\ r \notin aborted
    /\ aborted' = aborted \cup {r}
    /\ phase' = [phase EXCEPT ![r] = IF @ = "worker" THEN "inline" ELSE @]
    /\ UNCHANGED <<registryVars, reviewVars, up, wrote, quits>>

-----------------------------------------------------------------------------
(* The process ends and starts                                             *)

Quit ==
    /\ up
    /\ quits < MaxQuits
    /\ quits' = quits + 1
    /\ up' = FALSE
    /\ aborted' = {}
    /\ phase' = [r \in Runs |-> IF phase[r] = "idle" THEN "idle" ELSE "over"]
    /\ Forget
    /\ ReviewsCut
    /\ UNCHANGED wrote

Boot ==
    /\ ~up
    /\ up' = TRUE
    /\ HydrateRunRegistryFromStore({r \in OnDisk : row[r].merge # "none"})
    /\ UNCHANGED <<reviewVars, phase, aborted, wrote, quits>>

-----------------------------------------------------------------------------

RunStep(r) ==
    \/ Start(r)
    \/ Launch(r)
    \/ Work(r)
    \/ WorkerResult(r)
    \/ WorkerFails(r)
    \/ InlineEnds(r)
    \/ Abort(r)

\* The user at the list of runs, at the review and at the prompt after a restart.
UserStep ==
    \/ Clear /\ UNCHANGED reviewVars
    \/ \E r \in Runs : (Discard(r) \/ Resume(r)) /\ UNCHANGED reviewVars
    \/ \E v \in Reviews, r \in Runs : OpenReview(v, r)
    \/ \E v \in Reviews : CloseReview(v) \/ Accept(v) \/ Reject(v)

Next ==
    \/ up /\ \E r \in Runs : RunStep(r)
    \/ up /\ (UserStep \/ \E v \in Reviews : ReviewStep(v)) /\ UNCHANGED runVars
    \/ ConcludeMerge /\ UNCHANGED runVars
    \/ Quit
    \/ Boot

Spec == Init /\ [][Next]_vars

\* The host goes on, and a runner whose signal is aborted returns; a worker need not
\* ever answer.
HostGoesOn(r)  == up /\ Launch(r)
AbortedEnds(r) == up /\ r \in aborted /\ InlineEnds(r)

FairSpec == Spec /\ \A r \in Runs : WF_vars(HostGoesOn(r)) /\ WF_vars(AbortedEnds(r))

-----------------------------------------------------------------------------
(* Safety                                                                  *)

\* What a run wrote in its worktree is still somewhere (in the worktree, on its branch
\* or in the user's branch) unless the user confirmed that it be discarded: not a
\* failing git command, a conflict, a second verdict or a restart between two steps of
\* a merge loses it (acceptMerge() in merge-review.ts, removeWorktree() deletes both).
WorkKept ==
    \A r \in wrote \ dropped : tree[r] = "dirty" \/ branch[r] = "ahead" \/ r \in landed

\* The recorded verdict is what happened to the repository: a run marked merged has its
\* work in the user's branch, and one marked rejected has not, unless two verdicts on it
\* were open at once or its merge had stopped in a conflict (setMergeStatus() is called
\* at the end of either verdict and looks at nothing).
VerdictMatchesRepo ==
    \A r \in Runs : \A rec \in {entry[r], row[r]} :
        /\ rec.merge = "merged" /\ r \in wrote => r \in landed
        /\ rec.merge = "rejected" /\ r \in landed => r \in contested

\* A row that says a run is in progress has a reason: the run is listed as running, the
\* user is being asked about it, it left the registry or was resumed while it was so
\* marked, or the last write of the row failed. So after a run ends, or after a restart,
\* no other row is left behind as running (run-store-bridge.ts, run-resume.ts).
RunningRowExplained ==
    \A r \in Runs :
        up /\ row[r].status = "running" =>
            entry[r].status = "running" \/ r \in prompts \cup left \cup missed

-----------------------------------------------------------------------------
(* What the rows promise, and liveness                                     *)

Lifecycle == INSTANCE RunLifecycle WITH life <- [r \in Runs |-> row[r].status]

\* The stored record of a run goes from in progress to over and is never rewritten,
\* whatever the registry drops, the bridge fails to write, and startup or the user
\* closes (agent_runs_persistent).
ImplementsLifecycle == Lifecycle!Spec

\* A run that was aborted is no longer listed as running, eventually, even when its
\* worker never answers (worker-host.ts onAbort and the inline fallback).
AbortSettles ==
    \A r \in Runs : r \in aborted ~> entry[r].status # "running"
=============================================================================
