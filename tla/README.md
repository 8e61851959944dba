# OpenCodex: a TLA+ verification project

OpenCodex is an Electron desktop application in which large language models act as coding agents. The main process
(`apps/desktop/src/main`) streams chats from providers, runs the tools the model calls behind an approval gateway,
keeps checkpoints of the files those tools change, fires scheduled and event-triggered tasks, and manages agent runs in
worktrees. It also keeps the connections to MCP servers, plugins, memory backends and a search index of each workspace. This directory models
these parts, checks the models on small instances with TLC, and proves with TLAPS for all instances what the runs check, liveness apart.

Paths below are relative to `apps/desktop/src/main/` unless they start with `renderer/`, `website/` or `docs/`.

- [1. The system and its parts](#1-the-system-and-its-parts)
- [2. The modules and the code](#2-the-modules-and-the-code)
- [3. What the runs check and show](#3-what-the-runs-check-and-show)
- [4. What is proved](#4-what-is-proved)
- [5. Where code and documentation disagree](#5-where-code-and-documentation-disagree)
- [6. What is not modelled](#6-what-is-not-modelled)
- [7. Plan](#7-plan)

To run: `tlc -config MCChatRunner_turn.cfg MCChatRunner` (each run of `PROJECT.json` names its module and cfg), and
`tlapm M.tla` for each proof module `M`: `ChatRunner_proofs`, `TurnRecord_proofs`, `Scheduler_proofs`, `AgentRuns_proofs`,
`FileFollowers_proofs`, `ToolSources_proofs`, `Checkpoints_proofs`, `ChatWindow_proofs`.

## 1. The system and its parts

One JavaScript thread runs the whole main process. Handlers interleave wherever one of them awaits: a provider's stream,
an answer of the user, a tool, a file operation, a timer. SQLite (`better-sqlite3`) is called synchronously, so a
statement or a transaction is atomic and never interleaves; files are not. The windows talk to the main process by IPC:
calls that return promises, and events broadcast to every window. Every such step can come between any two awaits, the
process may die between any two steps, and `before-quit` (index.ts:611-652) stops timers and watchers but cancels no
stream, so quitting is to a stream what a crash is.

| Component | State | Operations | Interacts with | What is hard, and what makes it right |
|---|---|---|---|---|
| Approval gateway (`chat/approvals.ts`) | pending requests, session overrides per stream, policies per tier and tool, read-only switch | requestApproval, respond, clearSession, set-policy, set-read-only-mode | agent loop (awaits it), windows (answer), settings | answers that are late, repeated or from a second window; abort against answer. Every answer wakes exactly the call that waits, a grant lasts as long as its scope, nothing runs without a consent |
| Agent loop (`chat/runner.ts`, `chat/turn-restore.ts`) | streams with their controllers, transcript and loop locals, reattach index, throttle of the checkpointed row | startChatStream, runStream (attempts, retries, tool batches), executeToolCall, cancel, list active, boot reconcile | provider, gateway, tool registry, checkpoints, rows, windows | cancel at any await, retry after partial output, failing row writes, crash mid-turn, two turns of one conversation. The turn ends once and says so once; its row is a prefix of the transcript, and complete once final |
| Conversation rows (`storage/conversations.ts`) | conversations, messages, their status | append, update content, set status, delete | agent loop, boot reconcile, windows | a late write after a deletion; rows left streaming by a crash |
| File checkpoints (`checkpoints/`, `storage/checkpoints.ts`) | checkpoints with entries, content-addressed blobs, temporary files | capture, restore with its undo, gc at startup, retention | agent loop (before a mutating tool), restore button, startup | writes half done, failing captures, the collection against a turn, restores against turns. A restore brings back what was there before the turn; an entry's blob exists |
| Scheduler (`scheduler/scheduler.ts`, `runner.ts`, `store.ts`) | tasks and runs tables, one timer, a counter of runs per task | start with catch-up, tick, fireTaskById, run-now, rescheduleNow, stop | windows (edits), event triggers, agent runs | the timer is dropped while a run is awaited; edits meanwhile; restart. It stays armed for the earliest slot, the cap holds, no slot is run twice |
| Event triggers (`scheduler/file-watcher.ts`, `git-hooks.ts`, `listener.ts`, `triggers-lifecycle.ts`) | watchers with debounce timers, hook files and scripts in repositories, a loopback HTTP listener and its port | reconcile, fire, install and remove hooks, start and stop | edits of tasks (windows), scheduler | reconciles that cross, hooks shared with the user and with other tasks, a new port at every start. An enabled task has one open watcher, or the hook that calls it |
| Agent runs (`agent/`) | registry of 100 runs in memory, a row per run, worktrees and branches, worker processes, reviews in the window | spawn, abort, finish, clear, accept, reject, resume or dismiss | scheduler, chat tools, windows, git | eviction of running runs, two verdicts at once, failing git commands and conflicts, a restart between commit, merge and removal, a worker against its inline fallback. Work is kept until it is merged or discarded; rows say what happened |
| Subagents (`agent/subagent.ts`, `packages/core/src/runner.ts`, `fanout-gate.ts`) | a loop over a provider and tools, the report made of a runner's events, consents to a fan-out | run, collect, approve fan-out | agent loop, agent runs | a second loop without the gateway; calls without results, aborts and errors at any event. The report says what was done and why it ended |
| External runners (`packages/runner-*`, `packages/core/src/process/tree-kill.ts`) | a child process group, its buffered output, a wall-time timer | spawn, translate lines, stop, close | agent runs (collector), the command lines of other vendors | exit, output, abort and time limit in any order, a child that ignores SIGTERM, helpers that outlive it. A stopped run ends and leaves no child |
| Budgets (`chat/budget-manager.ts`) | spending per budget and period | check before a provider call, accrue after it | agent loop | check and accrual are apart, midnight is between them: the overrun must stay bounded |
| Chat window (`renderer/state/chat-context.tsx`, `views/ChatView.tsx`) | the turn it follows, the conversation shown, queued messages, reattachment wanted | send, stop, queue, switch, reload, reattach | agent loop's calls and events | events before the call has returned, of another turn, after the end. It follows no turn that is over, and sends a queued message where it was typed |
| MCP client (`mcp/manager.ts`, `packages/mcp-client`) | a runtime per server, client and child process, registered tools, reconnect timer | start, add, enable, disable, remove, connect, list tools, reconnect | tool registry, settings, windows | the process ends at any stage of an attempt, settings change meanwhile, stale timers. Registered tools call a live process; an enabled server is not given up |
| Plugins (`plugins/manager.ts`) | a record per plugin, what it has registered, the stored list | load at start, install, grant, enable, disable, uninstall | tool registry, providers, runners, settings, windows | activation awaits the plugin's own code, calls cross it, the loader works beside them. Nothing is left of a plugin that is gone; the list is what the user did |
| Memory backends (`memory/manager.ts`, `local-fs-runtime.ts`) | registered tools of three backends | start, change of settings, token or workspace | tool registry, keychain, settings | settings read before an await, answers in any order. The tools are those switched on, on the active workspace |
| Retrieval (`rag/`) | per workspace a vector store, a watcher with its batch, extractions, code graph tables | ensureIndex, removeWorkspace, watcher events, batches, search | windows (the switch), providers (embedding), tools (search) | a batch reads files that have changed again, calls of the switch cross, one of several writes fails. What got through is stored as the file is |
| Restore button (`renderer/components/CheckpointRestoreButton.tsx`) | the checkpoint it offers, busy flag | refresh, restore | checkpoints | which checkpoint it offers |
| Tool audit log (`tool-audit/`, `storage/tool-audit.ts`) | rows with a hash chain, mirror file | record, verify, export | agent loop | chain over concurrent records |
| Providers (`packages/provider-*`, `packages/core/src/retry.ts`) | a request, the calls it puts together, the reason of the end | chat, retry, translate pieces to events | agent loop, runners | a body that ends, breaks or errs within a call. Done once and last, nothing after an error, tools asked for only with whole calls |
| Skills, git, review, replay, voice, Ollama, pairing, telemetry, crash reports, window, theme | caches, connections, files, settings | adapters and features | windows, agent loop | mostly I/O; see section 6 |

`PROJECT.json` lists every component with what is modelled of it, and every hazard of this code with its line and the
properties aimed at it.

## 2. The modules and the code

    ApprovalManager          the gateway: data and operators, no Next of its own
      ChatRunner             EXTENDS it: the loop, rows, reattach index, crash and boot; Spec, FairSpec
        MCChatRunner         instances for TLC
        ChatRunner_proofs    EXTENDS ChatRunner and TLAPS: the gateway and the refinement
          TurnRecord_proofs  EXTENDS it: ends, rows and captures of a turn
      ToolPermit             abstract specification; ChatRunner!Permit is its INSTANCE
    Checkpoints              pre-images, blob store, restore, startup collection;  MCCheckpoints, Checkpoints_proofs
    Scheduler                one timer, runs, cap, catch-up, edits, restart;       MCScheduler, Scheduler_proofs
    FileWatchers             watchers of tasks, debounce, crossing reconciles
      GitHooks               hook files and scripts of tasks in repositories
        EventTriggers        edits, start and end of the process act on both
    WorkspaceIndex           watcher batches, rows, code graph, the switch
      MCFileFollowers        triggers or index, one of them active
      FileFollowers_proofs   about EventTriggers and about WorkspaceIndex
    RunRegistry              registry of agent runs and its copy on disk
      MergeReview            worktrees, branches and verdicts on them
        AgentRuns            start, worker, inline fallback, abort, restart
      SubagentRunners        command lines, the internal loop, the collector
          MCAgentRuns        the sum of AgentRuns and of one run of a runner
          AgentRuns_proofs   about both
      RunLifecycle           abstract specification; AgentRuns!Lifecycle is its INSTANCE
    BudgetManager            spending by budget and period
      ChatWindow             the window, its wire to the main process, turns;      MCChatWindow, ChatWindow_proofs
    McpManager               one MCP server: attempts, tools, timers, settings;    MCMcpManager
    McpClient                one client over any transport; ServerLink is its abstract specification
    PluginManager            plugins: activation, what they register, stored list
    MemoryManager            tools of the memory backends after crossing reloads
    ProviderStreams          one chat() of any of the six adapters
      MCToolSources          the sources of tools, the client and the stream, one active at a time
      ToolSources_proofs     about each of these five
    ChatStream               abstract specification; ProviderStreams!Heard is its INSTANCE

The modules compose by EXTENDS where components share state (the registry with reviews and runs, watchers with
hooks and task edits, budgets with the window's turns) and by INSTANCE where one implements another. Where they only call each
other, each module leaves the other's part open: `ChatRunner` lets the budget refuse any attempt, `ChatWindow` has of a turn
only what its window can tell, `Scheduler` takes a trigger at any time.

An action stands for the code between two awaits. Definitions marked *(mutant)* are plausible bugs: each is a mutated form of
the definition after it, kept so that every property can be shown to fail when the code has such a bug. No
specification uses them.

### ApprovalManager and ChatRunner

| State | In the code |
|---|---|
| `pending`, `asked` | `ApprovalManager.pending`; a request's id is its sequence number |
| the session's grants | `sessionOverrides`, per stream |
| the policy store, the read-only switch | `getApprovalPolicies()` (tier defaults and tool overrides), `getReadOnlyMode()` |
| `phase`, `turn`, `aborted` | where `runStream()` is, its local variables, its `AbortController` |
| `wire` | whether the sink has had an `error`, a `done`, both, or something after a `done` |
| `blocks`, `row`, `timer` | `allBlocks` in memory, the assistant row in the database, the throttle of `checkpoint()` |
| `slot` | `activeByConversation` |
| `interrupted`, `surfaced` | the records of `turn-restore.ts` and (history) those a window has been given |
| `ledger`, the answers ever given | history: the audit log, and what the user said; the properties of consent are stated with these |

| Action | In the code |
|---|---|
| `StartChatStream`, `RunStream` | the synchronous part of `startChatStream()`; the first steps of the promise it starts |
| `BeginAttempt`, `BudgetRefuses`, `IterationsExhausted` | head of the loop, `runOneAttempt()` |
| `ProviderText`, `ProviderToolCall`, `ProviderDone`, `ProviderError`, `ProviderCutOff`, `ProviderThrows` | one event of the stream each, and how it may end |
| `CancelSeen`, `ScheduleRetry`, `WakeFromBackoff`, `GiveUp`, `ErrorEndsTurn`, `CompleteTurn`, `EnterTools` | after the attempt: runner.ts:500-585 |
| `UnknownTool`, `ReadTool`, `ApprovedUnasked`, `RefusedUnasked`, `AskUser`, `AnswerPrompt`, `Captured`, `StartTool`, `ToolCancelled`, `ToolSettles` | `executeToolCall()`, in its order; the calls of a batch run one after another |
| `CancelChatStream` | the abort, with the listeners that withdraw the stream's request |
| `CheckpointTimer` | the throttle's timer |
| `Crash`, `Boot`, `Reattach` | death of the process, boot reconcile, `consumeInterruptedTurn` |
| `DeleteConversation`, `ChangeSettings` | the window's other calls that touch this state |

`Finish` is the whole of both `finally` blocks (runner.ts:602-637 and 293-299): write the row for good, drop the index
entry only if it is still this stream's, clear the session.

Left out: text, arguments and outputs, tokens and cost; which message is built for the provider; diffs, titles,
broadcasts of shell output. A transcript is its number of `tool_use` and `tool_result` blocks, which is what tells a
complete one from a cut one. After an `error` event a provider sends nothing but `done`, which `ImplementsChatStream`
checks of every adapter.

`ToolPermit` says what gateway, loop and cancel together promise: a stream holds a permit for at most one tool, a
tool starts by using up the permit for that very tool, nothing starts for a stopped stream. The refinement mapping
(`Permits`, `Running`, `Stopped`) reads a permit off the phases between approval and start, and the tool off
`ExecTool`, so that the rewriting of a partial accept to `write_file` is part of what is checked.

### Checkpoints

Actors are the turns and one restore; each has a `job` with a program counter that stops at every await of `captureBeforeMutation`,
`putBlob` and `restoreCheckpoint` (`CaptureBegins`, `ReadBytes`, `PutBegins`, `PutRenames`, `ListBlob`,
`ToolActs`, `RestoreBegins`, `RestoreNext`, `WriteBack`, `RestoreEnds`, and the failures of each). `disk` is the
workspace, `store` the two tables, `blobs` the directory of blobs (a blob is its content: its name is the hash),
`temps` the temporary files. `gc` is the startup collection: its first part is synchronous (retention, reading the
references: `GcStarts`), then every listing and removal is awaited (`GcRemovesBlob`, `GcRemovesTemp`, `GcEnds`). Turns and
restores begin beside the second part; the history `swept` has the blobs it removed that one of them may have found present.
`CrashAndBoot` loses the actors and starts the collection again.

A restore begins for any checkpoint that lists something, whether its turn is over or not: neither `restoreCheckpoint()` (manager.ts:370) nor its
handler (handlers.ts:57) asks, and the window shows the button of a live turn it does not follow. What a capture of that turn then finds as its newest active
checkpoint is the restore's undo, and the restore does not read again what is listed there. Three histories say where that, and what runs beside it, costs
something: `partial` has the turns of which a capture failed or that were restored while they ran, `raced` the files that others changed between a turn's
capture and its write, `exposed` the files of the present restore that it could not read or that a turn has changed since. `due` is what the
checkpoint listed when the restore read it. A write of the restore is not atomic: one that fails leaves the file with any content (`WriteBackFails`), also when
the process dies in it.

Left out: checkpoints of agent runs (git stash, or a walk of the workspace), paths that leave the workspace, explicit
deletion. One restore is under way at a time: a bound, which the button keeps for one message only.

### Scheduler

A cron expression is the set of its slots, the clock a number; `Clock` may advance while a due timer has not fired. `table`
holds what decides (`state`, `trigger`, `next_run_at`), `runs` every run with how it was started and its row. `Tick`
awaits the run, so it leaves the timer unarmed, and `RunEnds`/`AfterRun` arm it again; `Start` fires all overdue tasks
(their order is that of the table: any order) and arms the timer; every edit ends with `rescheduleNow`. Of equally
early tasks `pickNextDueTask` takes the first of the table: any of them here.

Left out: database errors, display columns, the agent run behind a task.

### FileWatchers, GitHooks, EventTriggers

`listed` is `watchers`, `watcher` every `FileChangeWatcher` there is, listed or leaked, with its debounce timer; `rec` the
reconciles, each with what was asked for when it began and at the watcher whose stop or start it awaits. Hooks are files
that are the user's or ours, with a block or our script (`file`), the script beside the user's hook (`wrapper`) and the port file.
`CreateTask`, `UpdateTask` and `DeleteTask` are the handlers whole: row, hook installed or removed, reconcile begun;
`ListenerStarts` is the listener's answer, with the port and the hooks it installs again; `Start` and `Quit` the process.
`overlapped` (a reconcile began beside another) and `claims` (every task a hook has had) are histories.

Left out: the listener's requests, limits and signatures, the buttons for single hooks, failing writes and
failing watcher starts, Windows companions, the text of scripts.

### RunRegistry, MergeReview, AgentRuns, RunLifecycle

`entry` and `order` are the registry's map and its order of insertion, `row` the table, `prompts` the interrupted runs the window
asks about. Every change of the registry is mirrored in the same call (`Mirror`, `Write`), and a write may fail. `tree`, `branch` and
`landed` say where the work of a run is: uncommitted in its worktree, on its branch, in the user's branch; `review` has
the verdicts, each at the git command it awaits (`CommitWorktree`, `Merge`, `RemoveWorktree`, `PruneBranch`, `MarkVerdict`, and `Fail`), and `merging` a merge that
stopped in a conflict. `AgentRuns` adds the phases of a run: recorded, in a worker, once more inline, over; `Abort`, `Quit`, `Boot`.

`RunLifecycle` is what the stored record promises: unknown, in progress, over; how a run ended is never rewritten.
The refinement mapping is the status column of the rows; eviction, failing writes, startup and the user must keep to it.

Left out: tokens, tool events, the seen mark, notifications, draft pull requests and the conflict resolver, fan-out consent.

### SubagentRunners

One run of one runner. `run` is the runner (its kind, whether it was aborted or timed out, the internal loop's turn and batch), `child` the leader
of the process group and whether a helper holds its output open, `report` what `collectSubagentResult()` has made of the events so far, `truth` a
history of what the subagent did. The collector takes an event in the step that emits it (`Take`, `Broken`, `RunnerError`, `Collected`), as it awaits nothing in
between. `Spawn`, the lines (`TextLine`, `CallLine`, `ResultLine`, `ErrorLine`, `OutcomeLine`), `BudgetFires` and `OutputCloses` are the three runners of
command lines, which differ in the lines they understand; `TreeKill` and `GraceEnds` are `treeKill()`. `Load`, `LoopHead`, `ProviderCalls`,
`ProviderFails`, `ProviderAnswers`, `ToolSettles` are the internal runner, which replays what it did as events when it is over (`Finalize`). The child is free:
it may ignore SIGTERM, exit at any time, and leave helpers.

In `AgentRuns` an inline run that is aborted comes to its end; `StoppedRunEnds` is where that is checked. `MCAgentRuns` is the sum of the two: each
behaviour has either the runs or one runner.

Left out: text and tokens, malformed and oversized lines, results of calls nobody made, finding the installation, Windows' taskkill.

### BudgetManager, ChatWindow

`spent` is the table of spending; `Exceeded` the check, `Accrue` the charge, under the key of the moment it is made, `Midnight` a new key.
`ref`, `streaming`, `queued`, `visited`, `pending` are the refs and states of `chat-context.tsx` with these meanings; `asks` are requests on their way to
the main process, `wire` answers and events on their way back, both in order. `Submit`, `Cancel`, `SelectConversation`, the queue, `ListChanged` and a reload (`ReattachEffect`)
are the window's actions, `Arrive` handles the head of the wire, whichever kind it is. Of a turn there are `TakeRequest`, `Launch`, `NextCall`, the
charges, and its ends. `OldTurns` may be running when the window is loaded.

Left out: drafts and messages shown, contents of the list, creating and deleting conversations, the approval queue, editing budgets.

### McpManager

`mgr` is a record of the runtime (`rt`), every client with its process (`client`), whose tools are in the registry (`tools`) and the timers
nobody can clear (`loose`). `AddServer`, `EnableServer`, `DisableServer`, `RemoveServer` are the handlers up to their await; what follows it runs
when the process has ended (`then`). `InitializeAnswered`, `InitializeFails`, `ToolsListed`, `ListingFails`, `ProcessEnds`, `TimerFires`
are what they wait for. `Dropped` is the listener of a connection, `Failed` the catch of an attempt.

Left out: resources and prompts, lengths of delays and notices, health statistics, quitting. The client is taken as `ServerLink` says.

### McpClient, ServerLink

`rpc` is one client: its transport's kind, `connected`, the await of `connect()` (`at`), the process or stream (`link`), whether `send()` gets past its check
(`usable`), and each call, which is its promise: the pending map and the timer change with it. `ConnectBegins` to `StopGivesUp` are
`connect()`; `ResultArrives` and `CallFails` end a call, `TransportEnds` is the end of a process or stream, which HTTP has none of but `stop()`. Over SSE
`StreamStarts` is start() and the `initialize` after it: no event of the stream can be read between them.

`ServerLink` is what the manager takes for granted. The refinement mapping reads `starting`, `up`, `stopping`, `gone` off `link` and `at`; a transport left
open behind a failed `connect()` maps to none of these.

Left out: notifications and requests of the server, the notice of a timeout, pages, sessions and the listening channel of HTTP, invalid messages.

### PluginManager, MemoryManager, MCToolSources

`plug` is a record of the runtime (`rt`), the registries (`tools`, `provider`), the stored list, what of it the loader has still to read, and the
activations under way, each at the await it stands at. `LoadStoredPlugin` and `SkipStoredPlugin` are a round of the loader, `InstallPlugin`,
`GrantPermissions`, `EnablePlugin`, `DisablePlugin`, `UninstallPlugin` the calls up to their await, `VerificationEnds`, `Registers` and
`ActivationEnds` an activation that goes on. All tools, runners and commands of a plugin are one name of its own; the provider's id is one
that several plugins may choose. `life` is a history of what the user has done; `cut` and `passedOver` are the exceptions of the properties.

`memory` has the settings and the token, the registered tools with the folder the local ones work on (`root`), and each call with what it has read (`call`).
A reload is `ReloadBegins`, the keychain's `TokenRead`, and `ReloadEnds` with the answer; `SwitchWorkspace` is the listener on that setting. `overlapped` is a history.

The three managers put tools into one registry under names of their own and share nothing else. `MCToolSources` is the sum of them and of
`McpClient` and `ProviderStreams`: each behaviour has one of the five active and the others unused, which leaves out no behaviour of any one of them.

Left out: signatures, versions and downloads of plugins, panels; errors of a backend's constructor; status shown; what tools do; quitting.

### ProviderStreams, ChatStream

`chat` is one call of a provider: which one, its request (`AnswerOk`, `AnswerRefused`, `AnswerBusy` and `Resend` are `fetchWithRetry()`), the calls
it is putting together (`pending`), the reason it was given, the events told and those it has still to yield. The pieces of a body are
`TextPiece`, `WholeCall` (Google, Ollama), `CallBegins`, `CallCompletes` and `BlockStops` (the others), `ReasonPiece`, `ErrorPiece`; `BodyEnds` and `LastWords` what each
translator makes of the end. The server is external: it may stop anywhere, and its own reason is taken to be true (a reason that asks for tools, or says that
all is said, follows whole calls only). Reasons stand for classes: `length` for every limit.

`ChatStream` is what the loop takes for granted of those events. The refinement mapping is the sequence of events told.

Left out: usage and cost, embeddings, lists of models, the making of a request, pieces that are not valid (skipped), lengths of delays.

### WorkspaceIndex

`index` has each index with its watcher's batch and extractions, `entry` the one in `entries`; `chain` and `job` are the batches of `inFlight`,
the one in work at its await (`BatchBegins`, `ReadFile`, `Embedded`, `GraphBegins`, `ExtractSymbols`, `BatchEnds`, and the
failures). `vectors` and `graph` are the stored rows and symbols of each file, by the version they were made from.
`Enable` and `Disable` are the switch up to its await, `WatcherReady` and `WatcherStopped` the rest. `missed` is a history: files whose last
change nobody saw, was dropped with a batch, or failed; `drawn` the files the listed index has put into the graph as it is stored
(none after a rebuild that failed: the graph is not the index's then, until a batch changes symbols again).

Left out: search and rank fusion, chunking and the making of a graph as functions, ignore files, empty files, removing a workspace, other workspaces
(whose indexes share nothing; at a start they are opened one after the other).

## 3. What the runs check and show

| Run | Result | Instance | Properties and what they say |
|---|---|---|---|
| `chat_turn` | holds | one stream, a read and a write tool, 2 iterations, 2 attempts, 2 calls per answer | `ConsentTraceable`: every run above the read tier traces to a policy or an answer that covers it; `EndReportedOnce`: errors, retries, cancel and limit report one end; `EndedRowsComplete`: a turn's final row holds all of the transcript; `MutationsCaptured`: a tool that writes files ran its capture first, also when a partial accept made it another tool; `ImplementsPermits`: the refinement |
| `chat_faults` | holds, with fairness | one stream whose registry a skill has narrowed to a shell tool, 2 attempts, one policy edit, one crash and reboot, failing row writes, deletion | `RowIsPrefix`: whatever write failed, the row is a prefix of the transcript; `PromptsMatchRequests`: pending requests and waiting calls are the same; `SessionsDieWithStream`: no late answer leaves a grant behind; `CutTurnsSettled`: rows marked streaming belong to live streams, and only turns that were cut (or could not be written) are announced; `TurnsSettle`: a turn ends, dies with the process or waits for the user, and a cancelled one ends without |
| `checkpoints_turn` | holds | one turn, two files, a small and a large content, 2 writes, 2 restores beside the turn or after it, one crash, every failure | `RestoresFaithful`: a restore that skipped nothing leaves every file as listed, except what a turn has changed since (`RestoreReverts`), and what it overwrites is listed in its undo as it is at that moment, except where the read failed or a turn wrote since it (`OverwrittenListed`) |
| `checkpoints_pair` | holds | two turns and a restore on one file at once, every failure, one crash, the collection beside them | `EntriesBacked`: an entry's blob is in the store, except what a collection took from under a turn that began beside it; `OfferReverts`: what the button offers (of what is labelled as the turn's) lists what was there before the turn, except where another changed the file under it; `FirstPreimageWins`: an entry is never replaced, nor made after the turn's first write |
| `scheduler_tasks` | holds | two tasks, two cron patterns and an event trigger, clock to 3, cap 1, 3 runs, 3 edits, one restart, symmetric tasks | `CapKept`: cap and counter; `ArmedForEarliest`: the timer is armed or a tick that will arm it is in flight, and it never waits past a slot of any enabled task; `SlotRunOnce`; `AwaitedSlotCaughtUp`: the slot the timer waited for survives a restart |
| `agent_runs` | holds, with fairness | a run with a worktree and one without, a registry of one, two reviews, one failing write, one restart; or one run of any of the four runners, 3 calls of which 2 are permitted, 2 turns, 3 lines | `WorkKept`: what a run wrote is somewhere until the user discards it; `VerdictMatchesRepo`: merged and rejected are what happened; `RunningRowExplained`: no row is left running without a reason; `ImplementsLifecycle`: the refinement; `AbortSettles`: an aborted run does not stay running; `ReportTrue`: calls and reason reported are what happened, in every order of exit, output, abort and time limit; `StoppedRunEnds`: a stopped runner reports and leaves no child, unless a helper holds its output |
| `window` | holds, with fairness | three turns in two conversations, one older than the window, a queue of one, a daily budget of one answer | `FollowedTurnEnds`: the turn followed is live or its end is on the way (or a budget refused it); `QueueGoesHome`: a queued message goes where it was typed; `OverrunBounded`: by at most one answer per turn; `StopLetsGo`: a stopped turn is let go |
| `window_budget` | violated | the same with two turns | `FirstErrorFinalizes`, section 5 |
| `file_followers` | holds | two tasks, two globs, two hooks of one repository, two ports, 3 edits, 3 watchers, 2 reconciles at once, one restart; or two files with two versions, 2 indexes at once, 2 changes, 2 calls of the switch, one restart, one fault; symmetric | `WatchersSettle`: open watchers are those asked for, unless reconciles crossed, and a listed one is open even then; `PendingChangesKept`: a change that was seen is not lost by edits, as long as its task asks for the same glob; `HooksCurrent`: hooks call the enabled task at the present port; `IndexCurrent`: when all is worked off, files whose changes got through are in rows and graph as they are |
| `tool_sources` | holds | one server, 4 clients, 2 loose timers, 4 settings calls; or two plugins, any stored list, 2 activations beside the loader's, 4 calls; or two workspaces, 3 calls of the memory manager at once, 4 in all; or a client over any transport with 3 calls; or one answer of any provider with two calls and a piece of text, 3 requests | `ToolsAnswer`: what is called connected has a live process, and tools call the one in place; `EnabledServed`: an enabled server is connected, being tried or has a timer; `PluginToolsWithdrawn`: what is registered is what its plugin will take out, nothing is left of one uninstalled or disabled (except during its activation); `StoreFollowsUser`: no uninstalled plugin comes back, switches are as last set; `MemoryFollowsSettings`: the tools are those switched on, never on a workspace left; `ImplementsServerLink`, `ImplementsChatStream`: the refinements |
| `mcp_disabled` | violated | one server as above | `DisabledToolsGone`, section 5 |
| `mcp_sse` | violated | one client, any transport | `ConnectFailsForCause`, section 5 |

**Bounds.** `MaxIterations`, `MaxAttempts` and the retention count are constants of the code, made small. The others
(`MaxCalls`, `MaxCrashes`, `MaxPolicyEdits`, `MaxWrites`, `MaxRestores`, `MaxEdits`, `MaxQuits`, `Horizon` and so on) only
bound the environment. Two iterations and two attempts reach each loop's first and last pass; two calls in an answer
reach the state between calls, where a cancel or a crash leaves a batch half recorded. The runs have one stream: what two of them could
confuse (prompts, session grants, the reattach index) is proved for any number (section 4). Two turns on one file are what a pre-image and a blob can be shared by; two writes and two restores reach
the undo of an undo, and a restore between the two writes of its turn; next to an absent file one content suffices for a change, and a large one is the other kind; a cap of one with three runs has a run refused, one run after a counter came back, and
runs by different triggers side by side; three edits create both tasks and change one. A registry of one evicts a run that
is still running as soon as the second starts; two reviews are two verdicts on one run; three turns are one followed, one that takes its place and one
whose end comes late; three watchers and two reconciles leak one; four clients are a connection, its successor, and an attempt crossed by another; two
activations and the loader's cross for one plugin while the other takes its provider id; three calls of the memory manager are two reloads and the one that follows a token; two calls of an answer have one cut after one that is whole; two
indexes are one starting while one stops, and two changes of a file cross a batch of it. One crash is enough to lose
memory and go through boot once. Every property of a run that holds, except liveness, is also proved for all values of the bounds (section 4).

**Symmetry** is used where no liveness is checked and nothing orders the symmetric values: tasks in `scheduler_tasks`,
tasks, globs, files and versions in `file_followers`.

**Deadlock** checking is off: when streams, edits and restores are used up there is nothing left to do.

**Fairness** (`FairSpec`, used by `chat_faults`): weak fairness of `LoopStep(s)`, as the event loop runs the continuation of a
settled promise; and of `ProviderSettles(s)`, as a request to a provider ends, fails or is aborted, and a tool settles (all but `spawn_subagent`, which may wait for a consent forever: section 5). None
is assumed of the user, of settings, of a provider's further output, of crashes, or of a restart. Without an
answer a turn may wait forever, and `TurnsSettle` says exactly that: it ends or dies, or waits at the prompt,
and a cancelled one (`CancelEndsTurn`) needs no answer. In `agent_runs` weak fairness of `Launch` (the host goes on by itself) and of the end of an aborted inline run, as the
runner looks at its signal; a worker need not ever answer; for a runner weak fairness of `RunnerSettles`: what it does by itself, the timer of the grace period,
tools, and the provider of an aborted run. A child need not exit at SIGTERM, a helper need not end. In `window` of `TakeRequest` and `Arrive` (messages get through), `Launch` (preparing a
prompt ends), `Stops` (a provider honours the abort, which `packages/provider-openai/src/assert-provider-honors-abort.test.ts` and its siblings
test) and `NextCall` of a stopped turn (tools return); nothing of a turn that was not stopped.

**Every property can fail.** Each has a mutant in `PROJECT.json`: one definition changed as a plausible bug would
change the code (a dropped re-check, a swapped order, a missing reset, an uncounted retry), under which the same run finds it violated.

## 4. What is proved

Every invariant and action property that a passing run checks, and every refinement, is a theorem of its specification: for every set of streams, tools, tasks,
runs, plugins, files and so on, and for every value of the bounds. No theorem has a hypothesis beyond the named assumptions on constants.

### Turns and consent

`ChatRunner_proofs` (the first six) and `TurnRecord_proofs` prove for every set of streams, tools and conversations and every value of the bounds:

| Theorem | States |
|---|---|
| `TypeCorrect` | `Spec => []TypeOK` |
| `PromptsMatched` | `Spec => []PromptsMatchRequests` |
| `Consent` | `Spec => []ConsentTraceable` |
| `SessionsDie` | `Spec => []SessionsDieWithStream` |
| `PermitsImplemented` | `Spec => ImplementsPermits`, the refinement of `ToolPermit` |
| `NewestIndexed` | `Spec => IndexKeepsNewest`: the index loses a live stream only to a newer one of its conversation |
| `CapturedFirst` | `Spec => []MutationsCaptured` |
| `EndsOnce` | `Spec => []EndReportedOnce` |
| `RowNeverAhead` | `Spec => []RowIsPrefix` |
| `RowsComplete` | `Spec => []EndedRowsComplete` |
| `CutsSettled` | `Spec => []CutTurnsSettled` |

These rest on the assumptions `ApprovalAssumption` and `RunnerAssumption` only: constants have their types, a tool that
is captured for is of the write tier, and loop limits are at least one.

The argument. `TypeOK` is not inductive by itself: a tool call is `calls[pos]`, so `ControlInv` adds
`LoopInRange` (in the phases of a call, `pos` is within `calls`), and `PromptsMatchRequests`, which an answer
needs to know whom it wakes. `ConsentTraceable` speaks of what is already in the log; to prove it of the next
entry one must know that the grant in hand was justified when it was given, though policies have changed since.
`ConsentInv` therefore adds `GrantsJustified` (the grant each stream holds traces to the history), `SessionsJustified` (every
override in force traces to an answer of that scope), `AutoRemembered` (every tool the policies in force run unasked is in the history `everAuto`, so that a
later policy does not unmake the consent) and `SessionsDieWithStream`. History only grows, so what is justified stays so
(`Backed` grows). The frame lemmas say which parts a step on one stream leaves alone (`OthersStay`, `PromptsKept`, `LoopKept`,
`GrantsKept`, `SessionsKept`, `LedgerKept`); with them each action has one short lemma, and the step theorems
split `Next` by action. The refinement maps every action to a step of `ToolPermit` or a stutter: the interesting
cases are `Granted` (`Give`), `StartTool` (`Run`) and those of cancel and crash (`Stop`, `Halt`), which must
find the permit withdrawn or still there as the phase says.

`NewestIndexed` is an action property: only `StartChatStream`, `Finish` and `Crash` change the index, and each keeps it by its own guard.

The five about what a turn leaves behind share the invariant `RecordInv`: `ControlInv`, `StreamRecord` of every stream, and `BootRecord`.
None of the five is inductive. `CaptureMade` carries the capture from the grant to the run: the loop goes on without one only when an abort came first,
which the start of the tool will see. `WireKnown` says which terminal event the sink has had in each phase, so that the finally block sends
`done` after an error or instead of it and nothing else. `BlocksBalanced` counts: calls without a result are those of the batch still to be
answered, so an ended transcript has none. The row's content is a prefix of the transcript because every write stores the transcript as it is and every
failure leaves the row as it was, while the transcript only grows. `RowSettled` says what the end and the crash leave: no timer that could write
later, and a row that is final, or is swept by the next boot; `BootRecord` what the boot may announce. `RecordKept` is the frame: a step of one stream
keeps the record of the others, so each action's lemma speaks of one stream only.

### The scheduler

`Scheduler_proofs`, assuming `SchedulerAssumption` (tasks are a finite set, patterns are sets of slots, the cap is positive):

| Theorem | States |
|---|---|
| `SchedulerTypes` | `Spec => []TypeOK` |
| `CapIsKept` | `Spec => []CapKept` |
| `TimerIsArmed` | `Spec => []ArmedForEarliest` |
| `SlotsRunOnce` | `Spec => []SlotRunOnce` |
| `AwaitedSlotsCaughtUp` | `Spec => AwaitedSlotCaughtUp` |

The cap holds because the counter of a task *is* the number of its counted runs that have not ended (`RunsInv`), and each start and each end changes that
cardinality by one. `SlotRunOnce` and `ArmedForEarliest` are not inductive: `SlotsBehind` adds that the slots the clock has run are past and before the one the timer waits
for, `TimerStored` that what the timer waits for (or waited for when the process ended) is stored with its task, so that a start finds it, and `DownIsQuiet` that
nothing else outlives the process. `SlotAhead` says that within the horizon every pattern has another slot.
That a set of slots has an earliest one is proved once (`EarliestExists`), from the well-foundedness of strict inclusion of finite sets.

### Agent runs, their verdicts and their runners

`AgentRuns_proofs`, assuming the runs are a finite set and, for the runner, `RunnersAssumption`:

| Theorem | States |
|---|---|
| `AgentRunsTypes` | `Spec => []TypeOK` |
| `WorkIsKept` | `Spec => []WorkKept` |
| `VerdictsMatchRepo` | `Spec => []VerdictMatchesRepo` |
| `RunningRowsExplained` | `Spec => []RunningRowExplained` |
| `RunsImplementLifecycle` | `Spec => ImplementsLifecycle` |
| `RunnerInvariant`, `RunnerTypes` | `RunnersSpec => []RunnerInv`, `RunnersSpec => []RunnersTypeOK` |
| `ReportsAreTrue` | `RunnersSpec => []ReportTrue` |

`AgentInv` adds to the properties where a run and each verdict on it stand: `PhaseInv` (a run that has not ended has no verdict and nothing in the user's branch),
`RowsInv` (how a finished row agrees with the registry, and that a prompt is about an interrupted run), `WorkInv` (a worktree that is clean has its work on the branch, and
one that is about to be removed has it merged) and `VerdictInv`. Each action has a lemma; the registry's
eviction and its mirror, which most of them go through, have theirs once.

`RunnerInv` counts a command line's calls: those it made are pending or told once, and never both (`CallsInv`), so the flush at the end tells exactly the rest;
the internal runner has told nothing before it is over, and all it started is in its list of events or is the call at the head of the batch. `ReasonInv` carries
what killed a child to the moment its output closes, which is when the reason is chosen. The run has a sum of `Spec` and `RunnersSpec`, two specifications that share no
variable; the theorems are about each of them.

### Watchers, hooks and the index of a workspace

`FileFollowers_proofs`, assuming `WatchersAssumption`, `HooksAssumption`, `TriggersAssumption` and `IndexAssumption`, which give the constants their types:

| Theorem | States |
|---|---|
| `TriggersInvariant`, `TriggersTypes` | `Spec => []TriggersInv`, `Spec => []TypeOK` |
| `HooksAreCurrent` | `Spec => []HooksCurrent` |
| `WatchersDoSettle` | `Spec => []WatchersSettle` |
| `PendingChangesAreKept` | `Spec => PendingChangesKept` |
| `IndexInvariant`, `IndexTypes` | `IndexSpec => []IndexInv`, `IndexSpec => []IndexTypeOK` |
| `IndexIsCurrent` | `IndexSpec => []IndexCurrent` |

`WatchInv` has one part that always holds: a list names for a task only watchers of that task, a closed one is listed only while the reconcile that stops it is under way
(`Apart`), and no two reconciles have begun the same one. The other part, `Calm`, holds until two reconciles have crossed: the one under way follows what is wanted now, has dealt with
the tasks it has passed, and has begun the only watcher that is open and not listed. `HookInv` adds to `HooksCurrent` that a task's hook is one it has claimed.

`IndexCurrent` speaks of the moment when all has been worked off. Its invariant `IndexInv` says at every other moment why that will be so: a file whose rows or
symbols are not those of its content has its last change lost (`missed`), or in a watcher's batch, or in the last batch of the chain that names it, or in the
job under way, at a place from which it will still be read (`RowsInv`, `SymbolsInv`). `DrawnInv` relates the graph to what the listed index has read. Looking for this
invariant showed that the model's bookkeeping of a failed rebuild had been too kind (section 5, Retrieval): TLC finds the case with three changes, which the run does not allow.

### Plugins, memory, MCP and providers

`ToolSources_proofs`, assuming the types of the constants, and that there is at least one client, one call and one request (`McpAssumption`, `ClientAssumption`, `StreamAssumption`,
`PluginAssumption`, `MemoryAssumption`):

| Theorem | States |
|---|---|
| `PluginInvariant` | `PluginSpec => []PluginInv` |
| `PluginToolsAreWithdrawn` | `PluginSpec => []PluginToolsWithdrawn` |
| `StoreDoesFollowUser` | `PluginSpec => []StoreFollowsUser` |
| `MemoryDoesFollowSettings` | `MemorySpec => []MemoryFollowsSettings` |
| `ClientImplementsServerLink` | `ClientSpec => ImplementsServerLink` |
| `StreamsImplementChatStream` | `StreamSpec => ImplementsChatStream` |
| `McpInvariant`, `McpTypes` | `Spec => []McpInv`, `Spec => []TypeOK` (of `McpManager`) |
| `ToolsDoAnswer` | `Spec => []ToolsAnswer` |
| `EnabledIsServed` | `Spec => []EnabledServed` |

`MCToolSources` checks the sum of these five specifications, one active at a time; the theorems are about each of them. `PluginInv` says of each plugin where it is: what
is in the registries is listed (`RegisteredInv`), one switched off has nothing under way (`SwitchedOffInv`), what the loader has not come to is stored as it was
(`UnreadInv`), and being there is being installed or waiting to be read (`LivesInv`). `McpInv` has two parts. `PlaceInv` holds always: connected is having a client whose
process has answered. `QuietInv` holds until operations have crossed: there is one process at most and the record knows it from its answer to its end (`OneProcess`), who awaits its end
fits the settings (`Awaited`), and an enabled server is connected, being tried or has a timer (`Served`).
The two refinements need little beyond the types (`ConnectInv`, `OpenInv`): what the abstract specification demands of each step, the guard of each action gives.

### Checkpoints

`Checkpoints_proofs`, assuming `CheckpointAssumption`:

| Theorem | States |
|---|---|
| `CheckpointInvariant`, `CheckpointTypes` | `Spec => []CheckpointInv`, `Spec => []TypeOK` |
| `EntriesAreBacked` | `Spec => []EntriesBacked` |
| `FirstPreimageIsKept` | `Spec => FirstPreimageWins` |
| `RestoresAreFaithful` (from `RestoresRevert` and `OverwrittenIsListed`) | `Spec => RestoresFaithful` |
| `OffersRevert` | `Spec => []OfferReverts` |

They hold whatever fails, overlaps or crashes, for restores beside their own live turn as for others: what the code loses is in the statements (`partial`, `raced`,
`exposed`, `swept`), not in hypotheses. `BytesInv` follows bytes from the read to the row: a job about to list a blob has it in the store, or the
collection took it. `GcInv` says that what the collection noted as referenced covers the rows, as long as nobody works beside it; from then on `swept` has what it
removes. `RowsInv` and `OriginInv` say that a turn whose captures succeeded, and that was not restored while it ran, has one checkpoint, which lists every file it has changed.

For the last two, three more invariants relate the disk to the entries. `RestoreInv`: a file the restore has come to and left holds what is listed, unless it is exposed. `UndoInv`: of a file still
ahead of the restore and not exposed, the undo checkpoint has no entry or the present bytes, and whoever is about to list it, the restore or the turn it is beside, holds the present bytes; `Taken` is the guard that makes
this inductive: a change exposes a file from the moment its bytes were read for the undo. `PreInv` is its counterpart for a turn: between its capture of a file and its first
change of it the entry, or the bytes on their way there, are the disk's, unless the pair is in `raced`.

### The window and the budgets

`ChatWindow_proofs`, assuming `BudgetAssumption` and `WindowAssumption`:

| Theorem | States |
|---|---|
| `WindowInvariant`, `WindowTypes` | `Spec => []WindowInv`, `Spec => []TypeOK` |
| `FollowedTurnsEnd` | `Spec => []FollowedTurnEnds` |
| `QueuesGoHome` | `Spec => []QueueGoesHome` |
| `OverrunIsBounded` | `Spec => []OverrunBounded` |

What the window follows now is not enough to know what it will follow after the next answer, so `FollowInv` speaks of all of the wire: every answer and
reattachment on it names a turn that is live or was refused, or whose end comes later on the same wire (`WireInv`), and the same of what is followed (`RefInv`); a request to start is the
only one of its turn (`StartsInv`). `SpendInv` counts a charge from the moment its check has passed: what is spent, with one answer for each turn that is at its provider, is within one answer
for each turn there has been.

### What is only model-checked

- Liveness: `TurnsSettle`, `AbortSettles`, `StoppedRunEnds`, `StopLetsGo`. Fairness and `ENABLED` are beyond the prover.
- The three properties that are violated, by their counterexamples.
- That the instances of a sum do not disturb each other: they share no variable.

## 5. Where code and documentation disagree

Each of these is a run that finds the quoted statement violated:

- `window_budget`: the comment at chat/runner.ts:490 says the renderer finalizes the stream on the first error event. A turn that a
  used-up budget refuses sends it before `chat.start` is answered; the listener ignores it (chat-context.tsx:384), and the answer
  then makes the window follow a turn that is over (646): it is shown as streaming, what is typed is queued, Stop does nothing.
- `mcp_disabled`: Todo.md:113 has the tools of a server taken out when it is disabled. Disabling clears the timer before it
  disconnects the client, which is still in place (mcp/manager.ts:374-384): the listener takes the end of the process for a loss of an enabled server
  (217), arms a timer, and the server comes back with its tools.
- `mcp_sse`: website/pages/guides/mcp.mdx:17 has the server of an SSE connection publish the URL to post to. `connect()` sends `initialize` as soon as the stream is
  open (client.ts:76-79), before its first event can have been read; `send()` throws (sse-transport.ts:130), and so does every later attempt: no server is reached over SSE.

Seen while modelling, and not checked by a run; some contradict a comment or a page, some are choices a reader should know of.

Chat and gateway:

- MANUAL.md:407 has read-only mode deny every tool above `read`. The switch is read when the call
  is made (approvals.ts:56) and not when its prompt is answered (approvals.ts:98): a write whose prompt was open runs.
- A deny policy for a read-tier tool is never consulted (runner.ts:732), against MANUAL.md:364.
- When the newer of two streams of a conversation ends first, the older is live and in no index (runner.ts:241, 295).
- Interrupted-turn records live in memory: a second crash before a window asks loses the notice (turn-restore.ts:27).
- A diff is not recorded for replay when the abort lands during a write that succeeds (runner.ts:806).
- The window follows one turn (chat-context.tsx): Stop in another conversation cancels the turn followed; a second send replaces it; a
  failing send lets go of another turn (671); a change of the list cancels the one reattachment there is (258-289). ChatView.tsx:495-496 has several
  conversations stream at once.
- budget-manager.ts:209-215 says a caller never charges through the cap; turns that have all passed the check do (`OverrunBounded` says by how much).

Checkpoints:

- Only `write_file`, `edit_file` and `write_document` are captured (manager.ts:44); a shell command's changes are not.
- The comment at manager.ts:155 says a failed capture makes the turn non-restorable. Only the
  active checkpoint is superseded; the next write of the turn makes a new one, which is offered, without the files before it.
- The comment at blob-store.ts:92 says only orphaned blobs are deleted. The references are read
  once, everything after is awaited, and nobody waits for the collection (index.ts:478): a turn that finds a blob present
  meanwhile lists it, and the collection removes it (`swept`).
- After a restore the button offers the undo under the same label (manager.ts:388). A restore that skipped files is
  marked restored all the same (446).
- The comment at manager.ts:364 has the current state of every target path kept before anything is written, "so the restore is itself undoable". A file that cannot be read is removed or overwritten
  without an entry (473-478, 427-439); a write of a turn between snapshot and write-back is lost (422-437), as nothing is compared before the write; of a file above 25 MB
  the undo lists only that it is too large (480-485). `OverwrittenListed` states what remains, with the first two as its exceptions (`exposed`).
- Nothing keeps a restore from its own live turn (370, handlers.ts:57). The turn's next captures go to the undo checkpoint (98), so that what the button then offers as the turn's lacks
  them; after the restore has put a file back the turn may write it again.
- A file that another turn or a restore changes between a turn's capture and its write comes back as the turn read it, before both (116-149).
- Writes of a restore are not atomic (437): one cut off leaves a torn file, though what it held is in the undo checkpoint.

Scheduler and triggers:

- scheduled-tasks.mdx:121 has a task whose time came while the app was closed fire once on startup. Only
  the task the timer was armed for has its next run stored (scheduler.ts:171), so only that one is caught up.
- Slots of other tasks that pass while a tick awaits its run are lost (scheduler.ts:263-272); a task that ran on time
  but was not the armed one keeps an old `next_run_at` and is fired again at restart (360-366); run-now bypasses the cap
  (handlers.ts:232-236); rows of runs cut off by a crash stay `running`.
- A failed worker has the task run again inline (scheduler/runner.ts:197-227).
- Reconciles that cross leak a watcher, and a task disabled and enabled quickly is left unwatched (file-watcher.ts:199-221, scheduler.ts:299);
  a task that writes where it watches fires itself again.
- A task whose trigger changes from a hook to something else keeps its hook (handlers.ts:210-212), one that changes from one hook to another keeps the old one too
  (triggers-lifecycle.ts:182), and of two tasks on one hook only one is called (98). Lines the user adds to our script, and a `.cmd` of
  the user, are overwritten (git-hooks.ts:301-302).

Agent runs:

- The run registry evicts running runs (agent/run-registry.ts:43-48), and clearing the history drops active ones; accept and reject do not look at a run's
  status (agent/merge-review.ts:81-136); a conflict is left unfinished in the user's repository; resume
  only takes the run off the list (agent/resume-handlers.ts:13-18). Internal subagents run their tools without the approval gateway, against docs/architecture.md:172.

Providers:

- The Responses API's adapter asks for tools whenever a call was begun (provider-openai/src/responses.ts:423-437), also when the answer was cut within it: the call runs with
  the text of its arguments so far. The other adapters then say `max_tokens` or `end_turn`, and the loop ends the turn.
- An answer whose body ends without a reason is told as `end_turn` by every adapter: a connection closed in the middle looks complete, and calls told before are not run.
- For a model it does not know OpenRouter awaits the list of models, without the turn's signal, before it streams: a cancel waits for that request.

Runners:

- A helper that holds a command line's output keeps its run from ever ending: 'close' is awaited, and `treeKill()` sends no SIGKILL once the leader
  has exited (process/tree-kill.ts:54-56), against packages/core/src/runner.ts:73-75, where a runner must exit promptly.
- The internal runner reports a used-up budget and a forbidden tool as `error` (agent/subagent.ts:236-243), though the collector knows both reasons. When it is
  aborted, or its provider throws, nothing of its calls is told (291-302), against packages/core/src/runner.ts:199-201.
- It runs the calls of an answer whatever the answer's stop reason (161-211), also of one that was cut.
- A worker knows the internal runner only (worker-entry.ts:27): a run of another runner in a worker ends with `runner_not_installed`.

MCP:

- A server reached by HTTP that goes away is not noticed (http-transport.ts has no end but `stop()`), against website/pages/guides/mcp.mdx:48, where HTTP connections reconnect when the transport
  closes: its calls fail one by one, and it is shown as connected.
- A server disabled while it is connecting comes up; removing it and adding it again within the delay, or disabling and enabling it after a stray
  reconnect, has it restarted again and again; off and on in quick succession leaves an enabled server given up with its tools bound to a client nobody lists.
- MANUAL.md:577 and 810 describe the backoff after an early exit; it applies to processes that have answered `initialize`. docs/mcp-integration.md has
  tools of the tier `execute` by default, the code `network`.

Plugins and memory:

- plugin-authoring.md:82 has the host unregister everything on disable. A plugin disabled while it is being activated finishes: it is shown as loaded,
  with its tools (plugins/manager.ts:318-352 does not look at `enabled` again). A failed activation keeps what it had registered, and enabling an enabled plugin activates it twice.
- A provider id that two plugins choose goes to the later one, and is lost to both when that one is disabled (providers/plugin-provider-registry.ts:19-27).
- `persist()` (548-556) writes what the runtime holds: after a manifest that could not be read, or while the loader works, the next call drops the others from the list.
- Memory reloads that cross may leave Notion's tools with a token or a switch that is no longer so (memory/manager.ts:93-110).

Fan-out:

- fanout-gate.ts:76-78 will not hang a tool call for good when nobody can answer. The main process itself listens from its start (tree-handlers.ts:50), but only the Agents view shows the
  request (AgentView.tsx:39), while it is open; `listPendingFanouts` (fanout-consent.ts:94) has no caller, and no abort ends the wait: the turn hangs.

Retrieval:

- The code graph is rebuilt from what was read since the start (multi-workspace-indexer.ts:396, 442), which the comment at 69-73 calls consistent under add, change
  and remove: the first batch after a start replaces the stored graph by the files of that batch, and a file removed first of all keeps its symbols. A rebuild that fails is
  not made up for until a later batch changes symbols: a file that left the index in between keeps its symbols in the stored graph.
- Files that are there when indexing starts are not indexed until they change (`ignoreInitial`, watcher.ts:75). A file that grows too large keeps its old rows (336), though not its
  symbols (412). A call of `embed` that never returns blocks every later batch; a batch under way goes on embedding after the workspace was switched off.
- Switched off while its watcher starts, a workspace stays indexed; switched on while it stops, it is not indexed (226-261, 142-148).

## 6. What is not modelled

- Of the modelled components what section 2 says is left out of each. The consent to a fan-out, the pausing of runs (nothing calls it) and the requests of
  the trigger listener are not modelled; the listener's effect is `FireTaskById` of `Scheduler`.
- Voice, the installation of Ollama: I/O against other programs. The agent loop takes every sequence of events `ChatStream` allows.
- The text of tools: what a tool writes is any content, whether it fails is open.
- Search: ranking and fusing what the index holds is a pure function; its results are advice.
- Skills: loaded from files; to a turn a skill is the set of tools it leaves (`Available`).
- Git, review, replay: sequences of calls the user starts, without state shared between them.
- Audit signing, URL policies: cryptography and pure predicates.
- Migrations, settings: SQLite and electron-store are taken to do what they say, atomically.
- Window UI, website, examples, build scripts.

## 7. Plan

Written so far, in this order: `ApprovalManager`, `ChatRunner` with `ToolPermit`, their proofs, `Checkpoints`, `Scheduler`,
`AgentRuns` with `RunLifecycle`, `SubagentRunners`, `ChatWindow` with `BudgetManager`, `EventTriggers`, `McpManager` and `McpClient` with `ServerLink`, `WorkspaceIndex`, `PluginManager`, `MemoryManager`,
`ProviderStreams` with `ChatStream`.

To model, when there is room for another run:

1. The consent to a fan-out (agent/fanout-gate.ts, fanout-consent.ts): no agent of a fan-out starts before its consent, and a consent is used once.
2. The requests of the trigger listener (scheduler/listener.ts:278-378): limits, secrets read before the body, requests after the stop.
3. The audit log's export and mirror against concurrent records.

Proved so far: everything section 4 lists. Of the properties that hold, what is left to TLC is liveness.

To prove:

1. That `McpManager` uses its client as `ServerLink` allows, for any number of clients: the manager now only assumes it.
