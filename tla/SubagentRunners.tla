-------------------------- MODULE SubagentRunners --------------------------
(***************************************************************************)
(* What runs a subagent, and what is made of it (packages/core/src/        *)
(* runner.ts, process/tree-kill.ts, packages/runner-claude-code,           *)
(* runner-opencode, runner-aider, apps/desktop/src/main/agent/subagent.ts).*)
(*                                                                         *)
(* A runner emits events which collectSubagentResult() turns into a report.*)
(* The three runners of other vendors' command lines drive a child process *)
(* in a group of its own, and stop it at an abort or when its wall time is *)
(* used up; the internal runner is a loop over a provider and tools. The   *)
(* collector takes the events in the step that emits them: nothing is      *)
(* awaited between them. The child is external: it writes lines, starts    *)
(* helpers that may hold its output open, exits, and may ignore SIGTERM.   *)
(*                                                                         *)
(* Left out: the text and the tokens, lines that are dropped (malformed or *)
(* too long), results of calls nobody made, and taskkill of Windows.       *)
(***************************************************************************)
EXTENDS Naturals, Sequences, SequencesExt, FiniteSets

CONSTANTS
    Calls,          \* tool calls a subagent may make, each once
    Permitted,      \* those of the tools in allowedToolNames
    MaxTurns,       \* maxToolIterations of the internal runner
    MaxBatch,       \* bound: calls in one answer of its provider
    MaxLines        \* bound: lines the child writes

ASSUME RunnersAssumption ==
    /\ IsFiniteSet(Calls)
    /\ Permitted \subseteq Calls
    /\ {MaxTurns, MaxBatch} \subseteq Nat \ {0}
    /\ MaxLines \in Nat

VARIABLES
    run,        \* the runner: its kind and where it is
    child,      \* the process group of a command line
    report,     \* what collectSubagentResult() has made of the events
    truth       \* history: what the subagent did and how it was stopped

runnerVars == <<run, child, report, truth>>

CommandLines == {"claude-code", "opencode", "aider"}
Kinds        == CommandLines \cup {"internal"}
StopReasons  == {"end_turn", "tool_use", "max_tokens", "budget_exceeded", "cancelled",
                 "error", "unauthorized_tool", "runner_error"}

RunnersTypeOK ==
    /\ run \in [kind : Kinds, aborted : BOOLEAN, timedOut : BOOLEAN, lines : 0 .. MaxLines,
                resultEmitted : BOOLEAN, turn : 0 .. MaxTurns, batch : Seq(Calls),
                toolEvents : SUBSET Calls,
                pc : {"start", "wait", "head", "provider", "tools", "over"}]
    /\ child \in [leader : {"none", "running", "dying", "killed", "exit-0", "exit-1"},
                  helper : BOOLEAN]
    /\ report \in [pending : SUBSET Calls, times : [Calls -> Nat], stop : StopReasons,
                   error : BOOLEAN, over : BOOLEAN]
    /\ truth \in [acted : SUBSET Calls, finished : BOOLEAN, threw : BOOLEAN]

RunnersInit ==
    /\ \E kind \in Kinds :
          run = [kind |-> kind, pc |-> "start", aborted |-> FALSE, timedOut |-> FALSE,
                 lines |-> 0, resultEmitted |-> FALSE, turn |-> 0, batch |-> <<>>,
                 toolEvents |-> {}]
    /\ child = [leader |-> "none", helper |-> FALSE]
    /\ report = [pending |-> {}, times |-> [c \in Calls |-> 0], stop |-> "end_turn",
                 error |-> FALSE, over |-> FALSE]
    /\ truth = [acted |-> {}, finished |-> FALSE, threw |-> FALSE]

-----------------------------------------------------------------------------
(* The collector                                                           *)

Text      == [type |-> "text_delta"]
Call(c)   == [type |-> "tool_call", id |-> c]
Result(c) == [type |-> "tool_result", id |-> c]
Error     == [type |-> "error"]
Done(r)   == [type |-> "done", stop |-> r]

\* A call is reported once its result is known, or when the events end without one.
Told(g, calls) ==
    [g EXCEPT !.pending = @ \ calls,
              !.times = [c \in Calls |-> @[c] + (IF c \in calls THEN 1 ELSE 0)]]

FlushPending(g) == Told(g, g.pending)

\* The last done event gives the reason, except that an error stays one.
StopFor(g, r) ==
    IF r \in {"cancelled", "budget_exceeded"} \/ ~(g.error \/ g.stop = "error") THEN r ELSE g.stop

Take(g, e) ==
    CASE e.type = "tool_call"   -> [g EXCEPT !.pending = @ \cup {e.id}]
      [] e.type = "tool_result" -> Told(g, g.pending \cap {e.id})
      [] e.type = "error"       -> [g EXCEPT !.stop = "error", !.error = TRUE]
      [] e.type = "done"        -> [g EXCEPT !.stop = StopFor(g, e.stop)]
      [] OTHER                  -> g

\* The events have ended.
Collected(g) == [FlushPending(g) EXCEPT !.over = TRUE]

\* An event after the abort is not looked at: the loop is left.
Broken(g) == [Collected(g) EXCEPT !.stop = "cancelled"]

\* The iterator threw.
RunnerError(g) == [Collected(g) EXCEPT !.stop = "runner_error"]

\* One event; those after the loop was left change nothing any more.
Received(g, e) == IF run.aborted THEN Broken(g) ELSE Take(g, e)

\* An error event and the end: the runner has failed.
Failure(g) == Received(Received(g, Error), Done("error"))

\* The runner has emitted its last events, which made the report what it is now.
TellLast(g) ==
    /\ report' = Collected(g)
    /\ run' = [run EXCEPT !.pc = "over"]

-----------------------------------------------------------------------------
(* The process group of a command line                                     *)

Gone == child.leader \in {"killed", "exit-0", "exit-1"}

\* treeKill(): SIGTERM to the group, unless its leader has exited.
TreeKill(c) == [c EXCEPT !.leader = IF @ = "running" THEN "dying" ELSE @]

\* (mutant) The grace period ends and nothing is done about it.
GraceEndsGently ==
    /\ child.leader = "dying"
    /\ UNCHANGED runnerVars

\* The leader has not exited within the grace period: SIGKILL to the group.
GraceEnds ==
    /\ child.leader = "dying"
    /\ child' = [leader |-> "killed", helper |-> FALSE]
    /\ UNCHANGED <<run, report, truth>>

\* The leader exits, by itself or at SIGTERM, with or without a handler of its own.
LeaderExits ==
    /\ child.leader \in {"running", "dying"}
    /\ \E how \in {"exit-0", "exit-1", "killed"} :
          /\ child' = [child EXCEPT !.leader = how]
          /\ truth' = [truth EXCEPT !.finished =
                          @ \/ (child.leader = "running" /\ how = "exit-0")]
    /\ UNCHANGED <<run, report>>

\* It starts a process that holds its output open, which ends whenever it likes.
StartHelper ==
    /\ child.leader \in {"running", "dying"}
    /\ ~child.helper
    /\ child' = [child EXCEPT !.helper = TRUE]
    /\ UNCHANGED <<run, report, truth>>

HelperEnds ==
    /\ child.helper
    /\ child' = [child EXCEPT !.helper = FALSE]
    /\ UNCHANGED <<run, report, truth>>

-----------------------------------------------------------------------------
(* The runners of command lines                                            *)

IsCli == run.kind \in CommandLines

\* The command line is not found, has no pipes, or fails to start.
CliMissing ==
    /\ IsCli /\ run.pc = "start"
    /\ TellLast(Failure(report))
    /\ UNCHANGED <<child, truth>>

\* spawn() itself throws.
SpawnThrows ==
    /\ IsCli /\ run.pc = "start"
    /\ report' = RunnerError(report)
    /\ run' = [run EXCEPT !.pc = "over"]
    /\ truth' = [truth EXCEPT !.threw = TRUE]
    /\ UNCHANGED child

\* The child runs; a signal that is aborted by then stops it at once.
Spawn ==
    /\ IsCli /\ run.pc = "start"
    /\ run' = [run EXCEPT !.pc = "wait"]
    /\ LET started == [child EXCEPT !.leader = "running"]
       IN child' = IF run.aborted THEN TreeKill(started) ELSE started
    /\ UNCHANGED <<report, truth>>

\* A line of the output arrives (on 'data', or what is left over on 'close'). When the
\* collector leaves its loop at it, the finally block kills what still runs.
Line(e) ==
    /\ IsCli /\ run.pc = "wait"
    /\ child.helper \/ ~Gone
    /\ run.lines < MaxLines
    /\ report' = Received(report, e)
    /\ child' = IF run.aborted THEN TreeKill(child) ELSE child
    /\ run' = [run EXCEPT !.lines = @ + 1, !.pc = IF run.aborted THEN "over" ELSE @,
                          !.resultEmitted = @ \/ e.type = "done"]

TextLine == Line(Text) /\ UNCHANGED truth

CallLine ==
    /\ run.kind # "aider"
    /\ \E c \in Calls \ truth.acted :
          /\ Line(Call(c))
          /\ truth' = [truth EXCEPT !.acted = @ \cup (IF run.aborted THEN {} ELSE {c})]

ResultLine ==
    /\ run.kind # "aider"
    /\ \E c \in truth.acted : Line(Result(c))
    /\ UNCHANGED truth

ErrorLine == run.kind = "opencode" /\ Line(Error) /\ UNCHANGED truth

\* The line with the outcome, of claude-code "result", of opencode "done".
OutcomeLine ==
    /\ run.kind # "aider"
    /\ \E r \in {"end_turn", "error"} :
          /\ Line(Done(r))
          /\ truth' = [truth EXCEPT !.finished = @ \/ r = "end_turn"]

\* The wall time is used up.
BudgetFires ==
    /\ IsCli /\ run.pc = "wait"
    /\ ~run.timedOut
    /\ run' = [run EXCEPT !.timedOut = TRUE]
    /\ child' = TreeKill(child)
    /\ UNCHANGED <<report, truth>>

\* (mutant) The exit code is looked at before the reason the child was killed for.
ClosingByExit(g) ==
    IF run.resultEmitted THEN g
    ELSE IF run.aborted THEN Received(g, Done("cancelled"))
    ELSE IF child.leader = "exit-0" THEN Received(g, Done("end_turn"))
    ELSE IF run.timedOut THEN Received(Received(g, Error), Done("budget_exceeded"))
    ELSE Failure(g)

\* What a runner still has to say when the output is closed.
Closing(g) ==
    IF run.resultEmitted THEN g
    ELSE IF run.aborted THEN Received(g, Done("cancelled"))
    ELSE IF run.timedOut THEN Received(Received(g, Error), Done("budget_exceeded"))
    ELSE IF child.leader = "exit-0" THEN Received(g, Done("end_turn"))
    ELSE Failure(g)

\* The leader has exited and nobody holds the output.
OutputCloses ==
    /\ IsCli /\ run.pc = "wait"
    /\ Gone /\ ~child.helper
    /\ TellLast(Closing(report))
    /\ UNCHANGED <<child, truth>>

-----------------------------------------------------------------------------
(* The internal runner                                                     *)

Internal(pc) == run.kind = "internal" /\ run.pc = pc

\* mapStopReasonToChatStop()
MapStop(r) == IF r \in {"end_turn", "tool_use", "max_tokens"} THEN r ELSE "error"

\* The loop is over with what it did, a reason and perhaps an error: unless the signal
\* is aborted by now, all of it is told as events, each call with its result after it.
Finalize(toolEvents, stop, error) ==
    LET told   == Told(report, toolEvents)
        failed == IF error THEN Received(told, Error) ELSE told
    IN TellLast(IF run.aborted THEN Failure(report) ELSE Received(failed, Done(MapStop(stop))))

\* The provider and the tools are loaded, or cannot be.
Load ==
    /\ Internal("start")
    /\ \/ TellLast(Failure(report))
       \/ ~run.aborted /\ run' = [run EXCEPT !.pc = "head"] /\ UNCHANGED report
    /\ UNCHANGED <<child, truth>>

\* The head of the loop: an aborted signal, a used-up budget of time or tokens, and the
\* limit of iterations end it.
LoopHead ==
    /\ Internal("head")
    /\ \/ /\ run.turn < MaxTurns
          /\ ~run.aborted
          /\ run' = [run EXCEPT !.pc = "provider"]
          /\ UNCHANGED report
       \/ run.turn < MaxTurns /\ Finalize(run.toolEvents, "budget_exceeded", TRUE)
       \/ run.turn = MaxTurns /\ Finalize(run.toolEvents, "budget_exceeded", FALSE)
    /\ UNCHANGED <<child, truth>>

ProviderCalls ==
    /\ Internal("provider")
    /\ Len(run.batch) < MaxBatch
    /\ \E c \in Calls \ (run.toolEvents \cup ToSet(run.batch)) :
          run' = [run EXCEPT !.batch = Append(@, c)]
    /\ UNCHANGED <<child, report, truth>>

\* The stream ends with an error event, or throws, which loses what was done so far.
ProviderFails ==
    /\ Internal("provider")
    /\ \/ Finalize(run.toolEvents, "error", TRUE) /\ UNCHANGED truth
       \/ TellLast(Failure(report)) /\ truth' = [truth EXCEPT !.threw = TRUE]
    /\ UNCHANGED child

\* The calls whose tool is started now: the registry refuses an aborted signal.
Started(batch) == IF run.aborted \/ batch = <<>> THEN {} ELSE {Head(batch)}

\* The places in the batch of calls whose tool is not allowed.
Refused == {i \in DOMAIN run.batch : run.batch[i] \notin Permitted}

\* The answer is complete. Without calls the run is done; a call of a tool that is not
\* allowed ends it before any of the batch is run.
ProviderAnswers ==
    /\ Internal("provider")
    /\ \/ /\ run.batch = <<>>
          /\ \E stop \in {"end_turn", "tool_use", "max_tokens"} :
                Finalize(run.toolEvents, stop, FALSE)
          /\ truth' = [truth EXCEPT !.finished = TRUE]
       \/ /\ run.batch # <<>> /\ Refused = {}
          /\ run' = [run EXCEPT !.pc = "tools"]
          /\ truth' = [truth EXCEPT !.acted = @ \cup Started(run.batch)]
          /\ UNCHANGED report
       \/ /\ \E i \in Refused :
                /\ \A j \in Refused : i <= j
                /\ Finalize(run.toolEvents \cup {run.batch[i]}, "unauthorized_tool", TRUE)
          /\ UNCHANGED truth
    /\ UNCHANGED child

\* A tool returns or throws, and the next one is called; after the last the loop goes on.
ToolSettles ==
    /\ Internal("tools")
    /\ LET rest == Tail(run.batch)
       IN /\ run' = [run EXCEPT !.batch = rest,
                                !.toolEvents = @ \cup {Head(run.batch)},
                                !.pc = IF rest = <<>> THEN "head" ELSE "tools",
                                !.turn = IF rest = <<>> THEN @ + 1 ELSE @]
          /\ truth' = [truth EXCEPT !.acted = @ \cup Started(rest)]
    /\ UNCHANGED <<child, report>>

-----------------------------------------------------------------------------
(* The abort, and the specification                                        *)

\* The caller's signal: a runner that waits for its child stops it.
AbortRunner ==
    /\ ~report.over /\ ~run.aborted
    /\ run' = [run EXCEPT !.aborted = TRUE]
    /\ child' = IF run.pc = "wait" THEN TreeKill(child) ELSE child
    /\ UNCHANGED <<report, truth>>

RunnerStep ==
    \/ CliMissing \/ SpawnThrows \/ Spawn \/ OutputCloses
    \/ TextLine \/ CallLine \/ ResultLine \/ ErrorLine \/ OutcomeLine
    \/ BudgetFires \/ GraceEnds \/ LeaderExits \/ StartHelper \/ HelperEnds
    \/ Load \/ LoopHead \/ ProviderCalls \/ ProviderFails \/ ProviderAnswers \/ ToolSettles
    \/ AbortRunner

\* What the runner does by itself, the grace period, and what honours an abort: a
\* provider's stream and a tool settle. A child need not exit at SIGTERM, nor a helper
\* end, nor a provider answer when no one has stopped it.
RunnerSettles ==
    \/ CliMissing \/ SpawnThrows \/ Spawn \/ OutputCloses \/ GraceEnds
    \/ Load \/ LoopHead \/ ToolSettles
    \/ run.aborted /\ (ProviderFails \/ ProviderAnswers)

\* One runner from its start to its report.
RunnersSpec == RunnersInit /\ [][RunnerStep]_runnerVars

-----------------------------------------------------------------------------
(* Properties                                                              *)

\* What the run did is reported, each call once, however it came to its end (the calls
\* without a result are flushed on every path out of collectSubagentResult()), except
\* that the internal runner, when it is aborted or its provider throws, tells nothing of
\* what it had done.
CallsReported ==
    report.over /\ ~(run.kind = "internal" /\ (run.aborted \/ truth.threw)) =>
        \A c \in Calls :
            /\ report.times[c] <= 1
            /\ c \in truth.acted => report.times[c] = 1

\* The reason reported is what happened, whichever of exit, output, abort and time limit
\* came first: a run that was cut is never reported as one that finished, nor as
\* cancelled when nobody cancelled it; without an outcome of its own a run that was
\* aborted is cancelled, and one killed for its time has exceeded its budget.
StopReasonTrue ==
    report.over =>
        /\ report.stop \in {"end_turn", "tool_use", "max_tokens"} => truth.finished
        /\ report.stop = "cancelled" => run.aborted
        /\ run.aborted /\ ~run.resultEmitted => report.stop \in {"cancelled", "runner_error"}
        /\ run.timedOut /\ ~run.aborted /\ ~run.resultEmitted => report.stop = "budget_exceeded"

\* The report says what happened: the calls made, and the reason of the end.
ReportTrue == CallsReported /\ StopReasonTrue

\* A run that is aborted, or whose time is used up, comes to its report and leaves no
\* child behind, also when the child ignores SIGTERM; unless a helper holds its output
\* open for good, which 'close' waits for and treeKill(), once the leader has exited,
\* no longer stops.
StoppedRunEnds ==
    run.aborted \/ run.timedOut
        ~> (report.over /\ child.leader \notin {"running", "dying"}) \/ child.helper
=============================================================================
