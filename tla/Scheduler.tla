----------------------------- MODULE Scheduler -----------------------------
(***************************************************************************)
(* Scheduled tasks (apps/desktop/src/main/scheduler/scheduler.ts,          *)
(* runner.ts, store.ts, handlers.ts): one timer waits for the next slot of *)
(* all enabled cron tasks; a tick runs the task and arms the timer again   *)
(* when the run has ended; webhooks, git hooks and file changes fire a     *)
(* task by id, the user runs one now; at startup a task whose stored next  *)
(* run is past is run once; a counter per task caps the runs in flight.    *)
(*                                                                         *)
(* All of it is one thread: between two awaits nothing else runs. A cron   *)
(* expression is the set of its slots, a run is in flight from its row to  *)
(* its return whatever it awaits, and what is stored for display only (how *)
(* the run ended, last_run_at, last_status) is left out.                   *)
(***************************************************************************)
EXTENDS Naturals, Sequences, FiniteSets, SequencesExt

CONSTANTS
    Tasks,              \* scheduled tasks
    Patterns,           \* cron expressions, each the set of its slots
    Horizon,            \* bound: where the clock stops, a slot of every pattern
    MaxConcurrentRuns,  \* maxConcurrentRunsPerTask
    MaxRuns,            \* bound: runs ever started
    MaxEdits,           \* bound: tasks created, changed or deleted
    MaxQuits            \* bound: how often the process ends

ASSUME SchedulerAssumption ==
    /\ IsFiniteSet(Tasks)
    /\ Horizon \in Nat
    /\ Patterns \subseteq SUBSET (1 .. Horizon)
    /\ \A p \in Patterns : Horizon \in p
    /\ MaxConcurrentRuns \in Nat \ {0}
    /\ {MaxRuns, MaxEdits, MaxQuits} \subseteq Nat

Event  == {}     \* a manual, file-change, git-hook or webhook trigger has no slots
NoTime == 0
NoTask == [state |-> "absent", trigger |-> Event, nextRun |-> NoTime]

VARIABLES
    now,        \* the clock
    table,      \* the scheduled_tasks table
    runs,       \* the scheduled_task_runs table, with where each run is
    up,         \* whether the process lives
    timer,      \* the one timer, if armed: for which task, and when
    counts,     \* runningCounts
    awaited,    \* history: while it is down, what the timer waited for when it ended
    edits,      \* tasks edited (bound)
    quits       \* process ends (bound)

vars == <<now, table, runs, up, timer, counts, awaited, edits, quits>>

-----------------------------------------------------------------------------

Task == [state: {"enabled", "disabled", "absent"}, trigger: Patterns \cup {Event}, nextRun: 0 .. Horizon]

Run == [task: Tasks, by: {"tick", "catchup", "event", "user"}, slot: 0 .. Horizon,
        at: {"in-flight", "over", "cut-off"}, row: {"running", "settled", "deleted"}]

Timer == [task: Tasks, at: 1 .. Horizon]

TypeOK ==
    /\ now \in 0 .. Horizon
    /\ table \in [Tasks -> Task]
    /\ runs \in Seq(Run)
    /\ up \in BOOLEAN
    /\ timer \in {{}} \cup {{w} : w \in Timer}
    /\ counts \in [Tasks -> 0 .. MaxRuns]
    /\ awaited \in {{}} \cup {{w} : w \in Timer}
    /\ edits \in 0 .. MaxEdits
    /\ quits \in 0 .. MaxQuits

\* The first start: no task is there yet.
Init ==
    /\ now = 0
    /\ table = [t \in Tasks |-> NoTask]
    /\ runs = <<>>
    /\ up = TRUE
    /\ timer = {}
    /\ counts = [t \in Tasks |-> 0]
    /\ awaited = {}
    /\ edits = 0
    /\ quits = 0

-----------------------------------------------------------------------------
(* What a task is due for                                                  *)

Exists(t) == table[t].state # "absent"

Cron(tbl) == {t \in Tasks : tbl[t].state = "enabled" /\ tbl[t].trigger # Event}

\* (mutant) A slot that is now counts as the next one.
ComputeNextFireFromNow(slots) ==
    CHOOSE s \in slots : s >= now /\ \A r \in slots : r >= now => s <= r

\* computeNextFire(): the first slot after now.
ComputeNextFire(slots) ==
    CHOOSE s \in slots : s > now /\ \A r \in slots : r > now => s <= r

\* pickNextDueTask(): one whose next slot is the earliest; which of several, their
\* order in the table says.
DueNext(tbl) ==
    {t \in Cron(tbl) : \A u \in Cron(tbl) :
        ComputeNextFire(tbl[t].trigger) <= ComputeNextFire(tbl[u].trigger)}

\* (mutant) The slot is not stored.
ScheduleNextUnsaved(tbl) ==
    /\ table' = tbl
    /\ IF Cron(tbl) = {}
       THEN timer' = {}
       ELSE \E t \in DueNext(tbl) :
               timer' = {[task |-> t, at |-> ComputeNextFire(tbl[t].trigger)]}

\* scheduleNext(): the timer is cleared and armed for the earliest slot, which is
\* stored for the one task it is armed for.
ScheduleNext(tbl) ==
    IF Cron(tbl) = {}
    THEN timer' = {} /\ table' = tbl
    ELSE \E t \in DueNext(tbl) :
            LET slot == ComputeNextFire(tbl[t].trigger) IN
            /\ timer' = {[task |-> t, at |-> slot]}
            /\ table' = [tbl EXCEPT ![t].nextRun = slot]

-----------------------------------------------------------------------------
(* Runs                                                                    *)

Started(t, by, slot) ==
    [task |-> t, by |-> by, slot |-> slot, at |-> "in-flight", row |-> "running"]

InFlight == {i \in DOMAIN runs : runs[i].at = "in-flight"}

\* incRunning() and decRunning().
Inc(t) == [counts EXCEPT ![t] = @ + 1]
Dec(t) == [counts EXCEPT ![t] = IF @ <= 1 THEN 0 ELSE @ - 1]

\* (mutant) The cap is not looked at.
AtCapNever(t) == FALSE

AtCap(t) == counts[t] >= MaxConcurrentRuns

\* tick(): the timer has come, perhaps late. A task that may not run is passed
\* over; otherwise its run is awaited, and nothing is armed meanwhile.
Tick(w) ==
    /\ up
    /\ w.at <= now
    /\ IF table[w.task].state # "enabled" \/ AtCap(w.task)
       THEN ScheduleNext(table) /\ UNCHANGED <<runs, counts>>
       ELSE /\ Len(runs) < MaxRuns
            /\ runs' = Append(runs, Started(w.task, "tick", w.at))
            /\ counts' = Inc(w.task)
            /\ timer' = {}
            /\ UNCHANGED table
    /\ UNCHANGED <<now, up, awaited, edits, quits>>

\* fireTaskById(): a trigger other than the clock.
FireTaskById(t) ==
    /\ up
    /\ ~AtCap(t)
    /\ table[t].state = "enabled"
    /\ Len(runs) < MaxRuns
    /\ runs' = Append(runs, Started(t, "event", NoTime))
    /\ counts' = Inc(t)
    /\ UNCHANGED <<now, table, up, timer, awaited, edits, quits>>

\* scheduler:run-now: straight to the runner, neither capped nor counted.
RunNow(t) ==
    /\ up
    /\ Exists(t)
    /\ Len(runs) < MaxRuns
    /\ runs' = Append(runs, Started(t, "user", NoTime))
    /\ UNCHANGED <<now, table, up, timer, counts, awaited, edits, quits>>

\* recordRunCompletion(): a row that went with its task stays gone.
Settled(i) ==
    [runs EXCEPT ![i].at = "over", ![i].row = IF @ = "deleted" THEN @ ELSE "settled"]

\* What whoever started the run does when it has ended: the clock's runs arm the
\* timer again, and a catch-up stores the task's next slot before.
AfterRun(i) ==
    LET t == runs[i].task IN
    CASE runs[i].by = "tick" -> counts' = Dec(t) /\ ScheduleNext(table)
      [] runs[i].by = "catchup" ->
            /\ counts' = Dec(t)
            /\ ScheduleNext(IF table[t].trigger # Event
                            THEN [table EXCEPT ![t].nextRun = ComputeNextFire(table[t].trigger)]
                            ELSE table)
      [] runs[i].by = "event" -> counts' = Dec(t) /\ UNCHANGED <<table, timer>>
      [] runs[i].by = "user"  -> UNCHANGED <<table, timer, counts>>

\* fireScheduledTask() returns: no model was selected, or the agent has ended or
\* thrown; each way the row is settled first.
RunEnds(i) ==
    /\ up
    /\ i \in InFlight
    /\ runs' = Settled(i)
    /\ AfterRun(i)
    /\ UNCHANGED <<now, up, awaited, edits, quits>>

-----------------------------------------------------------------------------
(* The window edits the tasks                                              *)

\* (mutant) The timer stays as it is.
EditWithoutReschedule(tbl) ==
    /\ up
    /\ edits < MaxEdits
    /\ edits' = edits + 1
    /\ table' = tbl
    /\ UNCHANGED <<now, up, timer, counts, awaited, quits>>

\* Every edit ends with rescheduleNow().
Edit(tbl) ==
    /\ up
    /\ edits < MaxEdits
    /\ edits' = edits + 1
    /\ ScheduleNext(tbl)
    /\ UNCHANGED <<now, up, counts, awaited, quits>>

CreateTask(t, trigger) ==
    /\ ~Exists(t)
    /\ \A i \in DOMAIN runs : runs[i].task # t      \* a new task has a new id
    /\ Edit([table EXCEPT ![t] =
               [state |-> "enabled", trigger |-> trigger, nextRun |-> NoTime]])
    /\ UNCHANGED runs

UpdateTask(t, state, trigger) ==
    /\ Exists(t)
    /\ Edit([table EXCEPT ![t].state = state, ![t].trigger = trigger])
    /\ UNCHANGED runs

\* The rows of its runs cascade; a run in flight goes on.
DeleteTask(t) ==
    /\ Exists(t)
    /\ Edit([table EXCEPT ![t] = NoTask])
    /\ runs' = [i \in DOMAIN runs |->
                   IF runs[i].task = t THEN [runs[i] EXCEPT !.row = "deleted"] ELSE runs[i]]

-----------------------------------------------------------------------------
(* The clock, and the end and start of the process                         *)

Clock ==
    /\ now + 1 < Horizon
    /\ now' = now + 1
    /\ UNCHANGED <<table, runs, up, timer, counts, awaited, edits, quits>>

\* stopScheduler() in before-quit, or a crash: runs are cut off where they are, and
\* nothing is written.
Quit ==
    /\ up
    /\ quits < MaxQuits
    /\ quits' = quits + 1
    /\ up' = FALSE
    /\ timer' = {}
    /\ counts' = [t \in Tasks |-> 0]
    /\ runs' = [i \in DOMAIN runs |->
                   IF i \in InFlight THEN [runs[i] EXCEPT !.at = "cut-off"] ELSE runs[i]]
    /\ awaited' = timer
    /\ UNCHANGED <<now, table, edits>>

\* runCatchup() looks for these.
Overdue == {t \in Cron(table) : table[t].nextRun \in 1 .. now /\ ~AtCap(t)}

\* start(): every overdue task is run once, in the order of the table, and the timer
\* is armed without waiting for them.
Start ==
    /\ ~up
    /\ up' = TRUE
    /\ Len(runs) + Cardinality(Overdue) <= MaxRuns
    /\ \E due \in SetToSeqs(Overdue) :
          runs' = runs \o [n \in DOMAIN due |-> Started(due[n], "catchup", NoTime)]
    /\ counts' = [t \in Tasks |-> IF t \in Overdue THEN counts[t] + 1 ELSE counts[t]]
    /\ ScheduleNext(table)
    /\ awaited' = {}
    /\ UNCHANGED <<now, edits, quits>>

Next ==
    \/ \E w \in timer : Tick(w)
    \/ \E t \in Tasks :
          \/ FireTaskById(t)
          \/ RunNow(t)
          \/ \E trigger \in Patterns \cup {Event} :
                \/ CreateTask(t, trigger)
                \/ \E state \in {"enabled", "disabled"} : UpdateTask(t, state, trigger)
          \/ DeleteTask(t)
    \/ \E i \in DOMAIN runs : RunEnds(i)
    \/ Clock
    \/ Quit
    \/ Start

Spec == Init /\ [][Next]_vars

-----------------------------------------------------------------------------
(* Properties                                                              *)

Counted(t) == {i \in InFlight : runs[i].task = t /\ runs[i].by # "user"}

\* Of the runs the scheduler itself starts, never more than the cap are in flight
\* for one task, and the counter that says so neither leaks nor forgets one.
CapKept ==
    \A t \in Tasks :
        /\ counts[t] = Cardinality(Counted(t))
        /\ Cardinality(Counted(t)) <= MaxConcurrentRuns

\* The one timer is never lost: as long as some cron task is enabled, it is armed, or a
\* tick is in flight that will arm it. And however tasks are edited while it waits, it
\* never waits past a slot.
ArmedForEarliest ==
    /\ up /\ Cron(table) # {} =>
          timer # {} \/ \E i \in InFlight : runs[i].by = "tick"
    /\ \A w \in timer : \A t \in Cron(table) : \A s \in table[t].trigger :
          s > now => w.at <= s

\* A slot is run by the clock at most once.
SlotRunOnce ==
    \A i, j \in DOMAIN runs :
        /\ runs[i].by = "tick"
        /\ runs[j].by = "tick"
        /\ runs[i].task = runs[j].task
        /\ runs[i].slot = runs[j].slot
        => i = j

CaughtUp(t) ==
    \E i \in DOMAIN runs' \ DOMAIN runs : runs'[i].task = t /\ runs'[i].by = "catchup"

\* The slot the timer waited for when the process ended is not lost: when it has
\* passed by the next start, the task is run then.
AwaitedSlotCaughtUp ==
    [][Start =>
          \A w \in awaited : w.at <= now => CaughtUp(w.task)]_vars

=============================================================================
