----------------------------- MODULE ChatRunner -----------------------------
(***************************************************************************)
(* The chat agent loop (apps/desktop/src/main/chat/runner.ts), its crash   *)
(* restore (turn-restore.ts) and the rows it keeps (storage/               *)
(* conversations.ts), composed with the approval gateway.                  *)
(*                                                                         *)
(* One chat stream is one user turn: it appends a user row and an          *)
(* assistant row, asks the provider, runs the tool calls the provider      *)
(* makes, each behind the approval gateway, asks the provider again, and   *)
(* ends by writing the assistant row for good. Several streams run in one  *)
(* process and interleave wherever a stream awaits something.              *)
(*                                                                         *)
(* Data the properties do not tell apart is left out: text, arguments,     *)
(* outputs, token counts. A stream's transcript is the number of tool_use  *)
(* and tool_result blocks it holds.                                        *)
(***************************************************************************)
EXTENDS ApprovalManager, FiniteSets

CONSTANTS
    Conversations,
    Conv,             \* the conversation of each stream
    Available,        \* per stream: tools its registry holds (skills narrow it)
    Mutating,         \* MUTATING_TOOLS: tools the checkpoint manager captures for
    WriteFile,        \* "write_file", the tool a partial accept is rewritten to
    MaxIterations,    \* MAX_TOOL_ITERATIONS
    MaxAttempts,      \* MAX_RETRY_ATTEMPTS
    MaxCalls,         \* bound: tool calls a model makes in one answer
    MaxCrashes,       \* bound: how often the process dies
    Deletable,        \* bound: the conversations the user may delete
    StorageFaults     \* whether a write of the assistant row may fail

NoStream == "no-stream"
NoTool   == "no-tool"

ASSUME RunnerAssumption ==
    /\ Conv \in [Streams -> Conversations]
    /\ Available \in [Streams -> SUBSET Tools]
    /\ Mutating \subseteq {t \in Tools : Tier[t] = "write"}
    /\ WriteFile \in Tools
    /\ MaxIterations \in Nat \ {0}
    /\ MaxAttempts \in Nat \ {0}
    /\ MaxCalls \in Nat \ {0}
    /\ MaxCrashes \in Nat
    /\ Deletable \subseteq Conversations
    /\ StorageFaults \in BOOLEAN
    /\ NoStream \notin Streams
    /\ NoTool \notin Tools

VARIABLES
    up,           \* the main process is running
    crashes,      \* how often it has died (bound only)
    phase,        \* where each stream is in runStream()
    aborted,      \* its AbortController has fired
    turn,         \* the loop's local variables
    grant,        \* the approval the call in hand was given
    wire,         \* what the sink has been told about the end of the turn
    blocks,       \* the transcript in memory (allBlocks)
    row,          \* the assistant row in the database
    timer,        \* the checkpoint throttle
    slot,         \* activeByConversation
    deleted,      \* conversations that were deleted, with their rows
    interrupted,  \* turns the boot reconcile recorded
    surfaced,     \* history: interrupted turns a window has been told about
    ledger        \* history: the tool-call audit log, without arguments

runnerVars == <<phase, aborted, turn, grant, wire, blocks, row, timer, slot, ledger>>
bootVars   == <<up, crashes, deleted, interrupted, surfaced>>
vars       == <<approvalVars, runnerVars, bootVars>>

-----------------------------------------------------------------------------
(* Types                                                                   *)

Grants == {"auto", "prompt-allowed", "prompt-allowed-session",
           "prompt-allowed-always", "prompt-allowed-partial"}
NoGrant == "no-grant"

LivePhases == {"preparing", "attempt", "streaming", "settled", "backoff",
               "call", "prompt", "capture", "dispatch", "execute"}
Phases     == LivePhases \cup {"idle", "ended", "lost"}
CallPhases == {"call", "prompt", "capture", "dispatch", "execute"}

\* The loop tells only one stop reason from the others.
StopReasons == {"tool_use", "other"}

Turn == [iter: 0 .. MaxIterations, attempt: 0 .. MaxAttempts - 1,
         calls: Seq(Tools), pos: Nat, stop: StopReasons,
         text: BOOLEAN, retry: BOOLEAN, failed: BOOLEAN, captured: BOOLEAN]

Transcript == [uses: Nat, results: Nat]

Wires == {"open", "error", "done", "error-done", "garbled"}

Row == [status: {"none", "streaming", "final"}, saved: Transcript]

Entry == [tool: Tools, asked: Tools, decision: Grants \cup {"denied"}, ran: BOOLEAN]

RunnerTypeOK ==
    /\ phase \in [Streams -> Phases]
    /\ aborted \in [Streams -> BOOLEAN]
    /\ turn \in [Streams -> Turn]
    /\ grant \in [Streams -> Grants \cup {NoGrant}]
    /\ wire \in [Streams -> Wires]
    /\ blocks \in [Streams -> Transcript]
    /\ row \in [Streams -> Row]
    /\ timer \in [Streams -> {"idle", "open", "trailing"}]
    /\ slot \in [Conversations -> Streams \cup {NoStream}]
    /\ ledger \in [Streams -> SUBSET Entry]

BootTypeOK ==
    /\ up \in BOOLEAN
    /\ crashes \in 0 .. MaxCrashes
    /\ deleted \in SUBSET Conversations
    /\ interrupted \in SUBSET Streams
    /\ surfaced \in SUBSET Streams

TypeOK == ApprovalTypeOK /\ RunnerTypeOK /\ BootTypeOK

EmptyTranscript == [uses |-> 0, results |-> 0]

NoRow == [status |-> "none", saved |-> EmptyTranscript]

NewTurn == [iter |-> 0, attempt |-> 0, calls |-> <<>>, pos |-> 0,
            stop |-> "other", text |-> FALSE, retry |-> FALSE,
            failed |-> FALSE, captured |-> FALSE]

Init ==
    /\ ApprovalInit
    /\ up = TRUE
    /\ crashes = 0
    /\ phase = [s \in Streams |-> "idle"]
    /\ aborted = [s \in Streams |-> FALSE]
    /\ turn = [s \in Streams |-> NewTurn]
    /\ grant = [s \in Streams |-> NoGrant]
    /\ wire = [s \in Streams |-> "open"]
    /\ blocks = [s \in Streams |-> EmptyTranscript]
    /\ row = [s \in Streams |-> NoRow]
    /\ timer = [s \in Streams |-> "idle"]
    /\ slot = [c \in Conversations |-> NoStream]
    /\ deleted = {}
    /\ interrupted = {}
    /\ surfaced = {}
    /\ ledger = [s \in Streams |-> {}]

-----------------------------------------------------------------------------
(* Helpers                                                                 *)

Live(s) == phase[s] \in LivePhases

Call(s) == turn[s].calls[turn[s].pos]

Goto(s, p) == phase' = [phase EXCEPT ![s] = p]

\* emit(): the effect of one more event on what the sink knows. "garbled" is
\* anything a window that finalises on the first terminal event would miss.
Emit(w, event) ==
    CASE event = "done"  -> IF w = "open" THEN "done"
                            ELSE IF w = "error" THEN "error-done" ELSE "garbled"
      [] event = "error" -> IF w = "open" THEN "error" ELSE "garbled"
      [] OTHER           -> IF w = "open" THEN "open" ELSE "garbled"

Send(s, event) == wire' = [wire EXCEPT ![s] = Emit(@, event)]

\* updateAssistantMessage(): the row a write of `r` leaves. A row that is gone
\* stays gone (the UPDATE changes nothing and throws), and every writer
\* survives a write that fails.
Written(old, r) ==
    IF old = NoRow THEN {NoRow} ELSE {r} \cup (IF StorageFaults THEN {old} ELSE {})

\* A write that leaves the status of the turn alone.
Saved(s, transcript) == Written(row[s], [row[s] EXCEPT !.saved = transcript])

\* checkpoint(): write at the leading edge and open the throttle window;
\* inside the window only remember that there is more to write.
Checkpoint(s, transcript) ==
    IF timer[s] = "idle"
    THEN /\ timer' = [timer EXCEPT ![s] = "open"]
         /\ \E r \in Saved(s, transcript) : row' = [row EXCEPT ![s] = r]
    ELSE /\ timer' = [timer EXCEPT ![s] = "trailing"]
         /\ UNCHANGED row

\* (mutant) The last write trusts the throttled checkpoints for the content.
FinishKeepingContent(s, latest) ==
    /\ Goto(s, "ended")
    /\ timer' = [timer EXCEPT ![s] = "idle"]
    /\ row' = [row EXCEPT ![s].status = "final"]
    /\ slot' = [slot EXCEPT ![Conv[s]] = IF @ = s THEN NoStream ELSE @]
    /\ ClearSession(s)
    /\ turn' = [turn EXCEPT ![s] = NewTurn]
    /\ UNCHANGED <<aborted, grant, blocks, ledger, bootVars>>

\* The finally block of runStream(), whose locals go, and the finally() of its promise: stop the
\* throttle, write the row for good, leave the maps, clear the approvals.
\* `latest` is the row an earlier write of the same step left behind.
Finish(s, latest) ==
    /\ Goto(s, "ended")
    /\ timer' = [timer EXCEPT ![s] = "idle"]
    /\ \E r \in Written(latest, [status |-> "final", saved |-> blocks[s]]) :
          row' = [row EXCEPT ![s] = r]
    /\ slot' = [slot EXCEPT ![Conv[s]] = IF @ = s THEN NoStream ELSE @]
    /\ ClearSession(s)
    /\ turn' = [turn EXCEPT ![s] = NewTurn]
    /\ UNCHANGED <<aborted, grant, blocks, ledger, bootVars>>

EndTurn(s, w) ==
    /\ wire' = [wire EXCEPT ![s] = w]
    /\ Finish(s, row[s])

\* The catch block: an exception is reported unless the end already was.
Throws(s) == EndTurn(s, IF wire[s] = "open" THEN Emit("open", "error") ELSE wire[s])

-----------------------------------------------------------------------------
(* Starting, cancelling                                                    *)

\* startChatStream(): append the rows, register the stream, and await the
\* system prompt and the skill.
StartChatStream(s) ==
    /\ up
    /\ phase[s] = "idle"
    /\ Conv[s] \notin deleted
    /\ Goto(s, "preparing")
    /\ row' = [row EXCEPT ![s] = [status |-> "streaming", saved |-> EmptyTranscript]]
    /\ slot' = [slot EXCEPT ![Conv[s]] = s]
    /\ UNCHANGED <<approvalVars, aborted, turn, grant, wire, blocks, timer, ledger, bootVars>>

\* The prompt is built; runStream() enters its loop.
RunStream(s) ==
    /\ phase[s] = "preparing"
    /\ Goto(s, "attempt")
    /\ UNCHANGED <<approvalVars, aborted, turn, grant, wire, blocks, row, timer, slot,
                   ledger, bootVars>>

-----------------------------------------------------------------------------
(* One attempt at the provider                                             *)

\* runOneAttempt(): reset the attempt, pass the budget check, call the provider.
BeginAttempt(s) ==
    /\ phase[s] = "attempt"
    /\ turn[s].iter < MaxIterations
    /\ Goto(s, "streaming")
    /\ turn' = [turn EXCEPT ![s].calls = <<>>, ![s].pos = 0, ![s].text = FALSE,
                            ![s].retry = FALSE, ![s].failed = FALSE,
                            ![s].stop = "other"]
    /\ UNCHANGED <<approvalVars, aborted, grant, wire, blocks, row, timer, slot,
                   ledger, bootVars>>

\* The budget check throws BudgetExceededError, which ends the turn.
BudgetRefuses(s) ==
    /\ phase[s] = "attempt"
    /\ turn[s].iter < MaxIterations
    /\ Throws(s)

\* The for loop over the iterations runs out.
IterationsExhausted(s) ==
    /\ phase[s] = "attempt"
    /\ turn[s].iter = MaxIterations
    /\ EndTurn(s, Emit(wire[s], "error"))

\* A text delta: it goes to the sink and is checkpointed.
ProviderText(s) ==
    /\ phase[s] = "streaming"
    /\ ~aborted[s]
    /\ turn' = [turn EXCEPT ![s].text = TRUE]
    /\ Send(s, "text_delta")
    /\ Checkpoint(s, blocks[s])
    /\ UNCHANGED <<approvalVars, phase, aborted, grant, blocks, slot, ledger, bootVars>>

ProviderToolCall(s, tool) ==
    /\ phase[s] = "streaming"
    /\ ~aborted[s]
    /\ Len(turn[s].calls) < MaxCalls
    /\ turn' = [turn EXCEPT ![s].calls = Append(@, tool)]
    /\ Send(s, "tool_call")
    /\ UNCHANGED <<approvalVars, phase, aborted, grant, blocks, row, timer, slot,
                   ledger, bootVars>>

\* The provider says done and its iterator ends.
ProviderDone(s, reason) ==
    /\ phase[s] = "streaming"
    /\ ~aborted[s]
    /\ Goto(s, "settled")
    /\ turn' = [turn EXCEPT ![s].stop = reason]
    /\ UNCHANGED <<approvalVars, aborted, grant, wire, blocks, row, timer, slot,
                   ledger, bootVars>>

\* (mutant) A reported error does not end the attempt.
ProviderErrorIgnored(s, retryable) ==
    /\ phase[s] = "streaming"
    /\ ~aborted[s]
    /\ Goto(s, "settled")
    /\ Send(s, "error")
    /\ turn' = [turn EXCEPT ![s].stop = "tool_use"]
    /\ UNCHANGED <<approvalVars, aborted, grant, blocks, row, timer, slot, ledger, bootVars>>

\* An error event, after which a provider only says done. It is worth a retry
\* when nothing of the attempt has reached the sink.
ProviderError(s, retryable) ==
    /\ phase[s] = "streaming"
    /\ ~aborted[s]
    /\ Goto(s, "settled")
    /\ IF retryable /\ ~turn[s].text /\ turn[s].calls = <<>>
       THEN /\ turn' = [turn EXCEPT ![s].retry = TRUE]
            /\ UNCHANGED wire
       ELSE /\ turn' = [turn EXCEPT ![s].failed = TRUE]
            /\ Send(s, "error")
    /\ UNCHANGED <<approvalVars, aborted, grant, blocks, row, timer, slot, ledger, bootVars>>

\* Any event, or the end of the iterator, after an abort: the loop breaks.
ProviderCutOff(s) ==
    /\ phase[s] = "streaming"
    /\ aborted[s]
    /\ Goto(s, "settled")
    /\ UNCHANGED <<approvalVars, aborted, turn, grant, wire, blocks, row, timer, slot,
                   ledger, bootVars>>

\* The provider's iterator throws (a network failure, or the abort itself).
ProviderThrows(s) ==
    /\ phase[s] = "streaming"
    /\ Throws(s)

-----------------------------------------------------------------------------
(* After an attempt                                                        *)

\* An abort is noticed first: one more checkpoint, done(cancelled) unless the
\* end was reported, and the turn is over.
CancelSeen(s) ==
    /\ phase[s] = "settled"
    /\ aborted[s]
    /\ wire' = [wire EXCEPT ![s] = IF @ = "open" THEN Emit(@, "done") ELSE @]
    /\ \E r \in (IF timer[s] = "idle" THEN Saved(s, blocks[s]) ELSE {row[s]}) : Finish(s, r)

\* (mutant) The attempts are not counted.
ScheduleRetryUncounted(s) ==
    /\ phase[s] = "settled"
    /\ ~aborted[s]
    /\ turn[s].retry
    /\ Goto(s, "backoff")
    /\ UNCHANGED <<approvalVars, aborted, turn, grant, wire, blocks, row, timer, slot,
                   ledger, bootVars>>

\* A retryable failure that is not the last attempt's: sleep, then try again.
ScheduleRetry(s) ==
    /\ phase[s] = "settled"
    /\ ~aborted[s]
    /\ turn[s].retry
    /\ turn[s].attempt + 1 < MaxAttempts
    /\ turn' = [turn EXCEPT ![s].attempt = @ + 1]
    /\ Goto(s, "backoff")
    /\ UNCHANGED <<approvalVars, aborted, grant, wire, blocks, row, timer, slot,
                   ledger, bootVars>>

GiveUp(s) ==
    /\ phase[s] = "settled"
    /\ ~aborted[s]
    /\ turn[s].retry
    /\ turn[s].attempt + 1 >= MaxAttempts
    /\ EndTurn(s, Emit(Emit(wire[s], "error"), "done"))

\* sleepWithJitter() resolves, by its timer or by the abort.
WakeFromBackoff(s) ==
    /\ phase[s] = "backoff"
    /\ Goto(s, IF aborted[s] THEN "settled" ELSE "attempt")
    /\ UNCHANGED <<approvalVars, aborted, turn, grant, wire, blocks, row, timer, slot,
                   ledger, bootVars>>

ErrorEndsTurn(s) ==
    /\ phase[s] = "settled"
    /\ ~aborted[s]
    /\ ~turn[s].retry
    /\ turn[s].failed
    /\ EndTurn(s, Emit(wire[s], "done"))

WantsTools(s) == turn[s].calls # <<>> /\ turn[s].stop = "tool_use"

CompleteTurn(s) ==
    /\ phase[s] = "settled"
    /\ ~aborted[s]
    /\ ~turn[s].retry
    /\ ~turn[s].failed
    /\ ~WantsTools(s)
    /\ EndTurn(s, Emit(wire[s], "done"))

\* (mutant) The tool_use blocks reach the provider but not the transcript.
EnterToolsUnrecorded(s) ==
    /\ phase[s] = "settled"
    /\ ~aborted[s]
    /\ ~turn[s].retry
    /\ ~turn[s].failed
    /\ WantsTools(s)
    /\ turn' = [turn EXCEPT ![s].pos = 1]
    /\ Goto(s, "call")
    /\ UNCHANGED <<approvalVars, aborted, grant, wire, blocks, row, timer, slot, ledger,
                   bootVars>>

\* The tool_use blocks of the whole batch enter the transcript before the
\* first of them runs.
EnterTools(s) ==
    /\ phase[s] = "settled"
    /\ ~aborted[s]
    /\ ~turn[s].retry
    /\ ~turn[s].failed
    /\ WantsTools(s)
    /\ blocks' = [blocks EXCEPT ![s].uses = @ + Len(turn[s].calls)]
    /\ turn' = [turn EXCEPT ![s].pos = 1]
    /\ Goto(s, "call")
    /\ UNCHANGED <<approvalVars, aborted, grant, wire, row, timer, slot, ledger, bootVars>>

-----------------------------------------------------------------------------
(* executeToolCall() and the loop around it                                *)

\* The call is answered: audit row, tool_result to the sink and into the
\* transcript, checkpoint, and on to the next call or the next iteration.
\* A new iteration starts its retry count over.
FinishCall(s, tool, decision, ran) ==
    LET after == [blocks[s] EXCEPT !.results = @ + 1]
        last  == turn[s].pos = Len(turn[s].calls)
    IN  /\ ledger' = [ledger EXCEPT ![s] = @ \cup {[tool |-> tool, asked |-> Call(s),
                                             decision |-> decision, ran |-> ran]}]
        /\ blocks' = [blocks EXCEPT ![s] = after]
        /\ Send(s, "tool_result")
        /\ Checkpoint(s, after)
        /\ grant' = [grant EXCEPT ![s] = NoGrant]
        /\ turn' = [turn EXCEPT ![s].captured = FALSE,
                                ![s].pos = IF last THEN 0 ELSE @ + 1,
                                ![s].calls = IF last THEN <<>> ELSE @,
                                ![s].iter = IF last THEN @ + 1 ELSE @,
                                ![s].attempt = IF last THEN 0 ELSE @]
        /\ Goto(s, IF last THEN "attempt" ELSE "call")
        /\ UNCHANGED <<slot, bootVars>>

Denied(s) == FinishCall(s, Call(s), "denied", FALSE)

\* The tool the call ends up running: a partial accept is a write_file.
ExecTool(s) == IF grant[s] = "prompt-allowed-partial" THEN WriteFile ELSE Call(s)

GrantOf(source) ==
    CASE source = "policy"         -> "auto"
      [] source = "prompt-once"    -> "prompt-allowed"
      [] source = "prompt-session" -> "prompt-allowed-session"
      [] source = "prompt-always"  -> "prompt-allowed-always"

\* (mutant) The partial accept skips the capture.
GrantedSkippingPartial(s, g, ab) ==
    LET captures == Call(s) \in Mutating /\ ~ab /\ g # "prompt-allowed-partial" IN
    /\ grant' = [grant EXCEPT ![s] = g]
    /\ turn' = [turn EXCEPT ![s].captured = captures]
    /\ Goto(s, IF captures THEN "capture" ELSE "dispatch")
    /\ UNCHANGED <<wire, blocks, row, timer, slot, ledger, bootVars>>

\* With a grant, a mutating tool that is not aborted yet goes through the
\* capture of its pre-image; the abort state is `ab`.
Granted(s, g, ab) ==
    LET captures == Call(s) \in Mutating /\ ~ab IN
    /\ grant' = [grant EXCEPT ![s] = g]
    /\ turn' = [turn EXCEPT ![s].captured = captures]
    /\ Goto(s, IF captures THEN "capture" ELSE "dispatch")
    /\ UNCHANGED <<wire, blocks, row, timer, slot, ledger, bootVars>>

UnknownTool(s) ==
    /\ phase[s] = "call"
    /\ Call(s) \notin Available[s]
    /\ Denied(s)
    /\ UNCHANGED <<approvalVars, aborted>>

\* Tools of the read tier never ask.
ReadTool(s) ==
    /\ phase[s] = "call"
    /\ Call(s) \in Available[s]
    /\ Tier[Call(s)] = "read"
    /\ Granted(s, "auto", aborted[s])
    /\ UNCHANGED <<approvalVars, aborted>>

NeedsApproval(s) ==
    /\ phase[s] = "call"
    /\ Call(s) \in Available[s]
    /\ Tier[Call(s)] # "read"

ApprovedUnasked(s) ==
    /\ NeedsApproval(s)
    /\ LET v == Verdict(s, Call(s)) IN
       /\ v.decision = "allow"
       /\ Granted(s, GrantOf(v.source), aborted[s])
    /\ UNCHANGED <<approvalVars, aborted>>

\* Denied by policy, or left to a prompt when the stream is already aborted:
\* requestApproval() then throws, which denies the call too.
RefusedUnasked(s) ==
    /\ NeedsApproval(s)
    /\ \/ Verdict(s, Call(s)).decision = "deny"
       \/ Verdict(s, Call(s)).decision = "ask" /\ aborted[s]
    /\ Denied(s)
    /\ UNCHANGED <<approvalVars, aborted>>

AskUser(s) ==
    /\ NeedsApproval(s)
    /\ Verdict(s, Call(s)).decision = "ask"
    /\ ~aborted[s]
    /\ Broadcast(s, Call(s))
    /\ Goto(s, "prompt")
    /\ UNCHANGED <<aborted, turn, grant, wire, blocks, row, timer, slot, ledger, bootVars>>

PartialAvailable(s) == WriteFile \in Available[s] /\ Tier[WriteFile] = "write"

\* scopeToSource().
SourceOf(scope) ==
    CASE scope = "once"    -> "prompt-once"
      [] scope = "session" -> "prompt-session"
      [] scope = "always"  -> "prompt-always"

\* The continuation of the stream whose prompt was answered.
Answered(s, decision, scope, partial) ==
    IF decision = "deny" \/ (partial /\ ~PartialAvailable(s))
    THEN Denied(s)
    ELSE Granted(s, IF partial THEN "prompt-allowed-partial" ELSE GrantOf(SourceOf(scope)),
                 aborted[s])

\* approvals:respond, from any window that was shown the prompt, at any time.
AnswerPrompt(id, decision, scope, partial) ==
    /\ up
    /\ partial => decision = "allow"
    /\ Respond(id, decision, scope, partial)
    /\ IF id \in pending
       THEN Answered(asked[id].stream, decision, scope, partial)
       ELSE UNCHANGED <<phase, turn, grant, wire, blocks, row, timer, slot, ledger, bootVars>>
    /\ UNCHANGED aborted

\* captureBeforeMutation() settles; it never throws.
Captured(s) ==
    /\ phase[s] = "capture"
    /\ Goto(s, "dispatch")
    /\ UNCHANGED <<approvalVars, aborted, turn, grant, wire, blocks, row, timer, slot,
                   ledger, bootVars>>

\* (mutant) The registry does not look at the signal.
StartToolAnyway(s) ==
    /\ phase[s] = "dispatch"
    /\ Goto(s, "execute")
    /\ UNCHANGED <<approvalVars, aborted, turn, grant, wire, blocks, row, timer, slot,
                   ledger, bootVars>>

\* ToolRegistry.execute(): an aborted signal is refused, otherwise the tool runs.
StartTool(s) ==
    /\ phase[s] = "dispatch"
    /\ ~aborted[s]
    /\ Goto(s, "execute")
    /\ UNCHANGED <<approvalVars, aborted, turn, grant, wire, blocks, row, timer, slot,
                   ledger, bootVars>>

ToolCancelled(s) ==
    /\ phase[s] = "dispatch"
    /\ aborted[s]
    /\ FinishCall(s, ExecTool(s), grant[s], FALSE)
    /\ UNCHANGED <<approvalVars, aborted>>

\* The tool returns or throws; it ran either way.
ToolSettles(s) ==
    /\ phase[s] = "execute"
    /\ FinishCall(s, ExecTool(s), grant[s], TRUE)
    /\ UNCHANGED <<approvalVars, aborted>>

\* (mutant) The abort does not reach a stream that awaits an answer.
CancelWithoutWaking(s) ==
    /\ up
    /\ Live(s)
    /\ ~aborted[s]
    /\ aborted' = [aborted EXCEPT ![s] = TRUE]
    /\ UNCHANGED <<approvalVars, phase, turn, grant, wire, blocks, row, timer, slot, ledger,
                   bootVars>>

\* cancelChatStream(): abort. A stream that awaits an answer is woken by the
\* rejection and denies the call.
CancelChatStream(s) ==
    /\ up
    /\ Live(s)
    /\ ~aborted[s]
    /\ aborted' = [aborted EXCEPT ![s] = TRUE]
    /\ WithdrawRequests(s)
    /\ IF phase[s] = "prompt"
       THEN Denied(s)
       ELSE UNCHANGED <<phase, turn, grant, wire, blocks, row, timer, slot, ledger, bootVars>>

\* The throttle window elapses.
CheckpointTimer(s) ==
    /\ timer[s] # "idle"
    /\ timer' = [timer EXCEPT ![s] = "idle"]
    /\ IF timer[s] = "trailing"
       THEN \E r \in Saved(s, blocks[s]) : row' = [row EXCEPT ![s] = r]
       ELSE UNCHANGED row
    /\ UNCHANGED <<approvalVars, phase, aborted, turn, grant, wire, blocks, slot,
                   ledger, bootVars>>

-----------------------------------------------------------------------------
(* The process                                                             *)

\* The process dies (or quits: before-quit does not wait for streams).
Crash ==
    /\ up
    /\ crashes < MaxCrashes
    /\ up' = FALSE
    /\ crashes' = crashes + 1
    /\ phase' = [s \in Streams |-> IF Live(s) THEN "lost" ELSE phase[s]]
    /\ timer' = [s \in Streams |-> "idle"]
    /\ slot' = [c \in Conversations |-> NoStream]
    /\ interrupted' = {}
    /\ turn' = [s \in Streams |-> NewTurn]
    /\ grant' = [s \in Streams |-> NoGrant]
    /\ ForgetApprovals
    /\ UNCHANGED <<aborted, wire, blocks, row, ledger, deleted, surfaced>>

StreamingRows == {s \in Streams : row[s].status = "streaming"}

\* (mutant) The rows are recorded but keep their status.
BootWithoutFlip ==
    /\ ~up
    /\ up' = TRUE
    /\ interrupted' = StreamingRows
    /\ UNCHANGED <<approvalVars, runnerVars, crashes, deleted, surfaced>>

\* reconcileInterruptedTurns(): before any window loads, every row a crash left
\* streaming is made final and recorded.
Boot ==
    /\ ~up
    /\ up' = TRUE
    /\ row' = [s \in Streams |-> IF s \in StreamingRows
                                 THEN [row[s] EXCEPT !.status = "final"] ELSE row[s]]
    /\ interrupted' = StreamingRows
    /\ UNCHANGED <<approvalVars, crashes, phase, aborted, turn, grant, wire, blocks, timer,
                   slot, ledger, deleted, surfaced>>

\* chat:reattach without a live stream consumes one interrupted record.
Reattach(c) ==
    /\ up
    /\ \A s \in Streams : Live(s) => Conv[s] # c
    /\ \E s \in interrupted :
          /\ Conv[s] = c
          /\ interrupted' = interrupted \ {s}
          /\ surfaced' = surfaced \cup {s}
    /\ UNCHANGED <<approvalVars, runnerVars, up, crashes, deleted>>

\* conversations:delete cascades to the rows; a stream that still runs is not
\* told, and keeps writing to a row that is gone.
DeleteConversation(c) ==
    /\ up
    /\ c \in Deletable \ deleted
    /\ deleted' = deleted \cup {c}
    /\ row' = [s \in Streams |-> IF Conv[s] = c THEN NoRow ELSE row[s]]
    /\ UNCHANGED <<approvalVars, phase, aborted, turn, grant, wire, blocks, timer, slot,
                   ledger, up, crashes, interrupted, surfaced>>

ChangeSettings ==
    /\ up
    /\ \/ \E t \in Tools, p \in Policies : SetTierPolicy(Tier[t], p)
       \/ \E t \in Tools, p \in Policies \cup {Unset} : SetToolPolicy(t, p)
       \/ \E on \in BOOLEAN : SetReadOnly(on)
    /\ UNCHANGED <<runnerVars, bootVars>>

-----------------------------------------------------------------------------

\* What the provider decides.
ProviderStep(s) ==
    \/ ProviderText(s)
    \/ \E t \in Tools : ProviderToolCall(s, t)
    \/ \E reason \in StopReasons : ProviderDone(s, reason)
    \/ \E retryable \in BOOLEAN : ProviderError(s, retryable)
    \/ ProviderCutOff(s)
    \/ ProviderThrows(s)

\* What the loop does by itself once what it awaits has settled.
LoopStep(s) ==
    \/ RunStream(s)
    \/ BeginAttempt(s)
    \/ BudgetRefuses(s)
    \/ IterationsExhausted(s)
    \/ CancelSeen(s)
    \/ ScheduleRetry(s)
    \/ GiveUp(s)
    \/ WakeFromBackoff(s)
    \/ ErrorEndsTurn(s)
    \/ CompleteTurn(s)
    \/ EnterTools(s)
    \/ UnknownTool(s)
    \/ ReadTool(s)
    \/ ApprovedUnasked(s)
    \/ RefusedUnasked(s)
    \/ AskUser(s)
    \/ Captured(s)
    \/ StartTool(s)
    \/ ToolCancelled(s)
    \/ ToolSettles(s)

UserStep(s) ==
    \/ StartChatStream(s)
    \/ CancelChatStream(s)

Next ==
    \/ \E s \in Streams : ProviderStep(s) \/ LoopStep(s) \/ UserStep(s) \/ CheckpointTimer(s)
    \/ \E id \in DOMAIN asked, decision \in Decisions, scope \in Scopes, partial \in BOOLEAN :
          AnswerPrompt(id, decision, scope, partial)
    \/ ChangeSettings
    \/ Crash
    \/ Boot
    \/ \E c \in Conversations : Reattach(c) \/ DeleteConversation(c)

Spec == Init /\ [][Next]_vars

-----------------------------------------------------------------------------
(* Safety                                                                  *)

\* A stream that waits for an answer has exactly its own request in the
\* gateway, for the call it is at, and the gateway keeps no other: a request
\* dropped without waking its stream would hang the turn for good, one left
\* behind would let a dead turn be answered (approvals.ts, pending map).
PromptsMatchRequests ==
    /\ \A s \in Streams : phase[s] = "prompt" =>
          \E id \in pending : PendingOf(s) = {id} /\ asked[id].tool = Call(s)
    /\ \A id \in pending : phase[asked[id].stream] = "prompt"

\* An audit entry is covered by an "auto" policy the tool has had, or by an
\* allow the user gave in this very stream for this very tool, with the scope
\* the entry claims; a partial accept covers only a write_file.
Backed(s, e) ==
    \/ /\ e.decision = "auto"
       /\ e.asked \in everAuto
    \/ \E a \in answers :
          /\ a.stream = s
          /\ a.tool = e.asked
          /\ a.decision = "allow"
          /\ IF a.partial
             THEN e.decision = "prompt-allowed-partial" /\ e.tool = WriteFile
             ELSE e.decision = GrantOf(SourceOf(a.scope)) /\ e.tool = e.asked

\* Every non-read tool that ran traces back to a consent that covers it.
ConsentTraceable ==
    \A s \in Streams : \A e \in ledger[s] :
        e.ran /\ Tier[e.asked] # "read" => Backed(s, e)

\* An override given for the session of a stream does not outlive the stream,
\* whatever answers arrive late.
SessionsDieWithStream ==
    \A s \in Streams : \A t \in Tools : session[s][t] # Unset => Live(s)

\* A window learns of the end of a turn exactly once: done, or an error, or an
\* error followed by done, and no event after that.
EndReportedOnce ==
    \A s \in Streams :
        /\ wire[s] # "garbled"
        /\ phase[s] = "ended" => wire[s] # "open"

\* A turn that ended by itself leaves the transcript it had in memory, and in
\* it every tool_use has its tool_result, which providers insist on when the
\* conversation is sent again. (Not so for a row whose last write failed.)
EndedRowsComplete ==
    \A s \in Streams :
        phase[s] = "ended" /\ row[s].status = "final" /\ ~StorageFaults =>
            /\ row[s].saved = blocks[s]
            /\ row[s].saved.uses = row[s].saved.results

\* A crash leaves nothing half done: while the process runs a row is streaming only on
\* behalf of a live stream, and only turns a crash cut off are announced as interrupted
\* (reconcileInterruptedTurns() in turn-restore.ts, before any window loads). Only a
\* turn whose last write failed is mistaken for one.
CutTurnsSettled ==
    LET unwritten(s) == StorageFaults /\ phase[s] = "ended" IN
    /\ up => \A s \in StreamingRows : Live(s) \/ unwritten(s)
    /\ \A s \in interrupted \cup surfaced : phase[s] = "lost" \/ unwritten(s)

\* The row is always a prefix of the transcript in memory, and never shows the
\* result of a call it does not show, whichever writes fail.
RowIsPrefix ==
    \A s \in Streams :
        /\ row[s].saved.results <= row[s].saved.uses
        /\ row[s].saved.uses <= blocks[s].uses
        /\ row[s].saved.results <= blocks[s].results

\* A mutating tool runs only after its pre-image capture was attempted, cancel
\* or not: an edit without one cannot be restored.
MutationsCaptured ==
    \A s \in Streams :
        phase[s] = "execute" /\ Call(s) \in Mutating => turn[s].captured

\* The reattach index loses a live stream only when a newer stream of its conversation
\* takes its place, never because an older one ends (runner.ts, finally()).
IndexKeepsNewest ==
    [][\A s \in Streams :
          slot[Conv[s]] = s /\ phase'[s] \in LivePhases =>
              \/ slot'[Conv[s]] = s
              \/ slot'[Conv[s]] \in Streams /\ phase[slot'[Conv[s]]] = "idle"]_vars

-----------------------------------------------------------------------------
(* The loop implements one permit per run                                  *)

\* The permits given and not used up, the tools that run, and the streams on
\* whose behalf nothing may start, as the loop keeps them.
Permits == [s \in Streams |-> IF phase[s] \in {"capture", "dispatch"}
                              THEN ExecTool(s) ELSE NoTool]
Running == [s \in Streams |-> IF phase[s] = "execute" THEN ExecTool(s) ELSE NoTool]
Stopped == {s \in Streams : aborted[s] \/ phase[s] \in {"ended", "lost"}}

Permit == INSTANCE ToolPermit WITH
    None    <- NoTool,
    permit  <- Permits,
    running <- Running,
    stopped <- Stopped

\* Each run of a tool uses up a permit given for that call and that tool, and
\* nothing starts once the stream is cancelled, ended or lost.
ImplementsPermits == Permit!Spec

-----------------------------------------------------------------------------
(* Liveness                                                                *)

\* The loop is driven by the event loop, which runs every settled continuation.
\* A provider's answer ends (the HTTP stream closes, errors or is aborted), and
\* a tool that runs settles: no fairness is assumed of what a provider streams
\* meanwhile, of the user, or of the settings.
ProviderSettles(s) ==
    \/ \E reason \in StopReasons : ProviderDone(s, reason)
    \/ \E retryable \in BOOLEAN : ProviderError(s, retryable)
    \/ ProviderCutOff(s)
    \/ ProviderThrows(s)

Fairness ==
    \A s \in Streams : WF_vars(LoopStep(s)) /\ WF_vars(ProviderSettles(s))

FairSpec == Spec /\ Fairness

\* A turn never goes on for ever: it ends, dies with the process, or waits for
\* the user.
TurnEndsOrAsks(s) == Live(s) ~> phase[s] \in {"prompt", "ended", "lost"}

\* Cancel ends a turn, also one that waits for an answer nobody gives.
CancelEndsTurn(s) == aborted[s] ~> ~Live(s)

\* The loop over iterations, attempts and calls always comes to its end, or to the user,
\* and when it is cancelled even without the user's answer (runStream() in runner.ts,
\* requestApproval() in approvals.ts).
TurnsSettle == \A s \in Streams : TurnEndsOrAsks(s) /\ CancelEndsTurn(s)

=============================================================================
