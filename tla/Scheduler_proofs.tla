---------------------------- MODULE Scheduler_proofs ----------------------------
(* Proofs about the scheduler: the cap on runs in flight, the one timer, and    *)
(* the slots it may neither repeat nor lose over a restart.                      *)
EXTENDS Scheduler, FiniteSetTheorems, SequenceTheorems, TLAPS

-----------------------------------------------------------------------------
(* Slots                                                                   *)

\* Every set of slots has an earliest one.
LEMMA EarliestExists ==
  ASSUME NEW S \in SUBSET Nat, S # {}
  PROVE  \E m \in S : \A n \in S : m <= n
<1> DEFINE Below(n) == 0 .. (n - 1)
           T == {Below(n) : n \in S}
           R == StrictSubsetOrdering(Nat)
<1>1. \A n \in Nat : Below(n) \in FiniteSubsetsOf(Nat)
  BY FS_Interval DEF FiniteSubsetsOf
<1>2. T \subseteq FiniteSubsetsOf(Nat) /\ T # {}
  BY <1>1
<1>3. \A m, n \in Nat : n < m => <<Below(n), Below(m)>> \in R
  <2> SUFFICES ASSUME NEW m \in Nat, NEW n \in Nat, n < m
               PROVE  <<Below(n), Below(m)>> \in R
    OBVIOUS
  <2>1. n \in Below(m) /\ n \notin Below(n)
    OBVIOUS
  <2>2. Below(n) \subseteq Below(m) /\ Below(m) \subseteq Nat
    OBVIOUS
  <2> QED BY <2>1, <2>2 DEF StrictSubsetOrdering
<1>4. IsWellFoundedOn(R, FiniteSubsetsOf(Nat))
  BY FS_StrictSubsetOrderingWellFounded
<1> HIDE DEF R, Below
<1>5. PICK x \in T : \A y \in T : ~ (<<y, x>> \in R)
  <2> HIDE DEF T
  <2> QED BY <1>2, <1>4, WFMin
<1>6. PICK m \in S : x = Below(m)
  BY <1>5
<1>7. \A n \in S : ~ (n < m)
  BY <1>3, <1>5, <1>6
<1> QED BY <1>7

\* How many numbers there are from 1 to n.
LEMMA IntervalSize == \A n \in Nat : IsFiniteSet(1 .. n) /\ Cardinality(1 .. n) = n
<1> SUFFICES ASSUME NEW n \in Nat PROVE IsFiniteSet(1 .. n) /\ Cardinality(1 .. n) = n
  OBVIOUS
<1>1. IsFiniteSet(1 .. n) /\ Cardinality(1 .. n) = IF 1 > n THEN 0 ELSE n - 1 + 1
  BY FS_Interval
<1> QED BY <1>1

\* While some pattern is known, its last slot is still ahead.
SlotAhead == now \in Nat /\ (Patterns # {} => now < Horizon)

\* The next slot of a cron expression is its first one after now.
LEMMA NextSlot ==
  ASSUME SlotAhead, NEW p \in Patterns
  PROVE  /\ ComputeNextFire(p) \in p
         /\ ComputeNextFire(p) \in 1 .. Horizon
         /\ ComputeNextFire(p) > now
         /\ \A r \in p : r > now => ComputeNextFire(p) <= r
<1> DEFINE Ahead == {r \in p : r > now}
<1>1. p \subseteq 1 .. Horizon /\ Horizon \in p /\ Horizon \in Nat
  BY SchedulerAssumption
<1>2. now \in Nat /\ now < Horizon
  BY DEF SlotAhead
<1>3. \A r \in p : r \in Nat
  BY <1>1
<1>4. Ahead \in SUBSET Nat
  BY <1>3
<1>5. Horizon \in Ahead
  BY <1>1, <1>2
<1>6. \E m \in Ahead : \A n \in Ahead : m <= n
  <2> HIDE DEF Ahead
  <2> QED BY <1>4, <1>5, EarliestExists
<1>7. \E s \in p : s > now /\ \A r \in p : r > now => s <= r
  BY <1>6
<1>8. /\ ComputeNextFire(p) \in p
      /\ ComputeNextFire(p) > now
      /\ \A r \in p : r > now => ComputeNextFire(p) <= r
  BY <1>7 DEF ComputeNextFire
<1> QED BY <1>1, <1>8

\* Arming the timer changes nothing about which tasks are due when; the timer then
\* waits for a slot that is ahead, is the earliest of all, and is stored.
LEMMA ScheduleNextArms ==
  ASSUME SlotAhead, NEW tbl \in [Tasks -> Task], ScheduleNext(tbl)
  PROVE  /\ table' \in [Tasks -> Task]
         /\ \A t \in Tasks : table'[t].state = tbl[t].state /\ table'[t].trigger = tbl[t].trigger
         /\ timer' \in {{}} \cup {{w} : w \in Timer}
         /\ Cron(tbl) # {} => timer' # {}
         /\ \A w \in timer' :
               /\ w.at > now
               /\ w.task \in Cron(table')
               /\ table'[w.task].nextRun = w.at
               /\ \A t \in Cron(table') : \A s \in table'[t].trigger : s > now => w.at <= s
<1>1. CASE Cron(tbl) = {}
  BY <1>1 DEF ScheduleNext
<1>2. CASE Cron(tbl) # {}
  <2>1. PICK u \in DueNext(tbl) :
           /\ timer' = {[task |-> u, at |-> ComputeNextFire(tbl[u].trigger)]}
           /\ table' = [tbl EXCEPT ![u].nextRun = ComputeNextFire(tbl[u].trigger)]
    BY <1>2 DEF ScheduleNext
  <2> DEFINE slot == ComputeNextFire(tbl[u].trigger)
  <2>2. u \in Cron(tbl) /\ u \in Tasks
    BY DEF DueNext, Cron
  <2>3. \A t \in Cron(tbl) : t \in Tasks /\ tbl[t].trigger \in Patterns
    BY DEF Cron, Task
  <2>4. slot \in 1 .. Horizon /\ slot > now
    BY <2>2, <2>3, NextSlot
  <2>5. \A t \in Cron(tbl) : \A s \in tbl[t].trigger : s > now => slot <= s
    <3> SUFFICES ASSUME NEW t \in Cron(tbl), NEW s \in tbl[t].trigger, s > now
                 PROVE  slot <= s
      OBVIOUS
    <3>1. slot <= ComputeNextFire(tbl[t].trigger)
      BY DEF DueNext
    <3>2. /\ ComputeNextFire(tbl[t].trigger) <= s
          /\ ComputeNextFire(tbl[t].trigger) \in 1 .. Horizon
      BY <2>3, NextSlot
    <3>3. s \in 1 .. Horizon
      BY <2>3, SchedulerAssumption
    <3> QED BY <2>4, <3>1, <3>2, <3>3
  <2> HIDE DEF slot
  <2>6. table' = [tbl EXCEPT ![u].nextRun = slot] /\ timer' = {[task |-> u, at |-> slot]}
    BY <2>1 DEF slot
  <2>7. tbl[u] \in Task /\ [tbl[u] EXCEPT !.nextRun = slot] \in Task
    BY <2>2, <2>4, SchedulerAssumption DEF Task
  <2>8. table' \in [Tasks -> Task]
    BY <2>2, <2>6, <2>7
  <2>9. \A t \in Tasks : table'[t].state = tbl[t].state /\ table'[t].trigger = tbl[t].trigger
    BY <2>6, <2>7 DEF Task
  <2>10. Cron(table') = Cron(tbl)
    BY <2>9 DEF Cron
  <2>11. table'[u].nextRun = slot
    BY <2>2, <2>6, <2>7 DEF Task
  <2>12. [task |-> u, at |-> slot] \in Timer
    BY <2>2, <2>4 DEF Timer
  <2>13. ASSUME NEW w \in timer'
         PROVE  /\ w.at > now
                /\ w.task \in Cron(table')
                /\ table'[w.task].nextRun = w.at
                /\ \A t \in Cron(table') : \A s \in table'[t].trigger : s > now => w.at <= s
    <3>1. w.task = u /\ w.at = slot
      BY <2>6
    <3>2. \A t \in Cron(table') : table'[t].trigger = tbl[t].trigger
      BY <2>9 DEF Cron
    <3> QED BY <2>2, <2>4, <2>5, <2>10, <2>11, <3>1, <3>2
  <2> QED BY <2>6, <2>8, <2>9, <2>12, <2>13
<1> QED BY <1>1, <1>2

-----------------------------------------------------------------------------
(* The inductive invariant                                                 *)

\* A process that is down has no timer, no run in flight and no count; one that is
\* up has nothing left from the last time.
DownIsQuiet ==
    /\ ~up => timer = {} /\ InFlight = {} /\ \A t \in Tasks : counts[t] = 0
    /\ up => awaited = {}

\* What the timer waits for is stored, so that a start can find it.
TimerStored ==
    \A w \in timer \cup awaited : w.task \in Cron(table) /\ table[w.task].nextRun = w.at

\* The slots the clock has run are past, and before the one it waits for.
SlotsBehind ==
    \A i \in DOMAIN runs :
        runs[i].by = "tick" => runs[i].slot <= now /\ \A w \in timer : runs[i].slot < w.at

\* The runs and their counters.
RunsInv ==
    /\ runs \in Seq(Run)
    /\ Len(runs) <= MaxRuns
    /\ counts \in [Tasks -> Nat]
    /\ CapKept

\* The tasks and the timer.
TimerInv ==
    /\ SlotAhead /\ now \in 0 .. Horizon
    /\ table \in [Tasks -> Task]
    /\ timer \in {{}} \cup {{w} : w \in Timer}
    /\ awaited \in {{}} \cup {{w} : w \in Timer}
    /\ TimerStored
    /\ SlotsBehind
    /\ SlotRunOnce
    /\ ArmedForEarliest

SchedulerInv ==
    /\ RunsInv
    /\ TimerInv
    /\ DownIsQuiet
    /\ up \in BOOLEAN /\ edits \in 0 .. MaxEdits /\ quits \in 0 .. MaxQuits

LEMMA InitScheduler == Init => SchedulerInv
<1> SUFFICES ASSUME Init PROVE SchedulerInv
  OBVIOUS
<1> USE DEF Init
<1>1. runs = <<>> /\ DOMAIN runs = {} /\ Len(runs) = 0 /\ runs \in Seq(Run)
  OBVIOUS
<1>2. RunsInv
  <2>1. \A t \in Tasks : Counted(t) = {}
    BY <1>1 DEF Counted, InFlight
  <2>2. ASSUME NEW t \in Tasks
        PROVE  counts[t] = Cardinality(Counted(t)) /\ Cardinality(Counted(t)) <= MaxConcurrentRuns
    <3>1. Cardinality(Counted(t)) = 0
      BY <2>1, FS_EmptySet
    <3> QED BY <3>1, SchedulerAssumption
  <2>3. CapKept
    BY <2>2 DEF CapKept
  <2> QED BY <1>1, <2>3, SchedulerAssumption DEF RunsInv
<1>3. Cron(table) = {} /\ table \in [Tasks -> Task]
  BY SchedulerAssumption DEF Cron, NoTask, Task, NoTime
<1>4. SlotAhead /\ now \in 0 .. Horizon
  BY SchedulerAssumption DEF SlotAhead
<1>5. TimerInv
  BY <1>1, <1>3, <1>4 DEF TimerInv, TimerStored, SlotsBehind, SlotRunOnce, ArmedForEarliest
<1>6. DownIsQuiet
  BY <1>1 DEF DownIsQuiet, InFlight
<1> QED BY <1>2, <1>5, <1>6, SchedulerAssumption DEF SchedulerInv

\* The invariant bounds the counters as the type invariant says.
LEMMA InvImpliesType == SchedulerInv => TypeOK
<1> SUFFICES ASSUME SchedulerInv PROVE TypeOK
  OBVIOUS
<1>1. ASSUME NEW t \in Tasks PROVE counts[t] \in 0 .. MaxRuns
  <2>1. counts[t] = Cardinality(Counted(t)) /\ counts[t] \in Nat
    BY DEF SchedulerInv, RunsInv, CapKept
  <2>2. Len(runs) \in Nat /\ DOMAIN runs = 1 .. Len(runs) /\ Len(runs) <= MaxRuns
    BY DEF SchedulerInv, RunsInv
  <2>3. IsFiniteSet(1 .. Len(runs)) /\ Cardinality(1 .. Len(runs)) = Len(runs)
    BY <2>2, IntervalSize
  <2>4. Counted(t) \in SUBSET (1 .. Len(runs))
    BY <2>2 DEF Counted, InFlight
  <2>5. Cardinality(Counted(t)) <= Len(runs)
    BY <2>3, <2>4, FS_Subset
  <2> QED BY <2>1, <2>2, <2>5, SchedulerAssumption
<1> QED BY <1>1 DEF SchedulerInv, RunsInv, TimerInv, TypeOK

-----------------------------------------------------------------------------
(* What a step does to the runs                                            *)

\* The run r was added at the end of the runs.
Added(r) ==
    /\ Len(runs) \in Nat /\ Len(runs') = Len(runs) + 1
    /\ DOMAIN runs = 1 .. Len(runs) /\ DOMAIN runs' = 1 .. Len(runs) + 1
    /\ \A i \in DOMAIN runs : runs'[i] = runs[i]
    /\ runs'[Len(runs) + 1] = r

LEMMA RunAdded ==
  ASSUME runs \in Seq(Run), NEW r \in Run, runs' = Append(runs, r)
  PROVE  runs' \in Seq(Run) /\ Added(r)
  BY AppendProperties, LenProperties DEF Added

\* A run in flight of task t that the scheduler started.
Counts(r, t) == r.at = "in-flight" /\ r.task = t /\ r.by # "user"

LEMMA CountedIs ==
  \A t : /\ Counted(t) = {i \in DOMAIN runs : Counts(runs[i], t)}
         /\ Counted(t)' = {i \in DOMAIN runs' : Counts(runs'[i], t)}
  BY DEF Counted, InFlight, Counts

\* An added run is counted if the scheduler started it.
LEMMA AddedIsCounted ==
  ASSUME NEW r, Added(r), NEW t
  PROVE  Counted(t)' = Counted(t) \cup (IF Counts(r, t) THEN {Len(runs) + 1} ELSE {})
<1>1. /\ Counted(t) = {i \in DOMAIN runs : Counts(runs[i], t)}
      /\ Counted(t)' = {i \in DOMAIN runs' : Counts(runs'[i], t)}
  BY CountedIs
<1>2. \A i \in DOMAIN runs' : i \in DOMAIN runs \/ i = Len(runs) + 1
  BY DEF Added
<1>3. DOMAIN runs \subseteq DOMAIN runs' /\ Len(runs) + 1 \in DOMAIN runs'
  BY DEF Added
<1>4. /\ \A i \in DOMAIN runs : runs'[i] = runs[i]
      /\ runs'[Len(runs) + 1] = r
  BY DEF Added
<1> QED BY <1>1, <1>2, <1>3, <1>4

\* What is counted is finite.
LEMMA CountedFinite ==
  ASSUME runs \in Seq(Run), NEW t
  PROVE  /\ IsFiniteSet(Counted(t)) /\ Cardinality(Counted(t)) \in Nat
         /\ Len(runs) + 1 \notin Counted(t)
<1>1. Len(runs) \in Nat /\ DOMAIN runs = 1 .. Len(runs)
  BY LenProperties
<1>2. Counted(t) \in SUBSET (1 .. Len(runs))
  BY <1>1 DEF Counted, InFlight
<1>3. IsFiniteSet(1 .. Len(runs))
  BY <1>1, IntervalSize
<1>4. IsFiniteSet(Counted(t)) /\ Cardinality(Counted(t)) \in Nat
  BY <1>2, <1>3, FS_Subset, FS_CardinalityType
<1> QED BY <1>1, <1>2, <1>4

\* A started run below the cap keeps the counters true.
LEMMA StartedKeepsCap ==
  ASSUME RunsInv, NEW t \in Tasks, NEW by \in {"tick", "event"}, NEW slot \in 0 .. Horizon,
         ~AtCap(t), Len(runs) < MaxRuns,
         runs' = Append(runs, Started(t, by, slot)), counts' = Inc(t)
  PROVE  RunsInv'
<1>1. Started(t, by, slot) \in Run
  BY DEF Started, Run
<1>2. runs \in Seq(Run) /\ counts \in [Tasks -> Nat] /\ CapKept
  BY DEF RunsInv
<1>3. runs' \in Seq(Run) /\ Added(Started(t, by, slot))
  BY <1>1, <1>2, RunAdded
<1>4. Len(runs') <= MaxRuns
  BY <1>3, SchedulerAssumption DEF Added
<1>5. counts' \in [Tasks -> Nat]
  BY <1>2 DEF Inc
<1>6. \A u \in Tasks : Counts(Started(t, by, slot), u) <=> u = t
  BY DEF Counts, Started
<1>7. ASSUME NEW u \in Tasks
      PROVE  /\ counts'[u] = Cardinality(Counted(u)')
             /\ Cardinality(Counted(u)') <= MaxConcurrentRuns
  <2>1. /\ counts[u] = Cardinality(Counted(u))
        /\ Cardinality(Counted(u)) <= MaxConcurrentRuns
    BY <1>2 DEF CapKept
  <2>2. CASE u = t
    <3>1. Counted(u)' = Counted(u) \cup {Len(runs) + 1}
      BY <1>3, <1>6, <2>2, AddedIsCounted
    <3>2. Cardinality(Counted(u)') = Cardinality(Counted(u)) + 1
      BY <1>2, <3>1, CountedFinite, FS_AddElement
    <3>3. counts'[u] = counts[u] + 1
      BY <1>2, <2>2 DEF Inc
    <3> QED BY <1>2, <2>1, <2>2, <3>2, <3>3, CountedFinite, SchedulerAssumption DEF AtCap
  <2>3. CASE u # t
    <3>1. Counted(u)' = Counted(u)
      BY <1>3, <1>6, <2>3, AddedIsCounted
    <3> QED BY <1>2, <2>1, <2>3, <3>1 DEF Inc
  <2> QED BY <2>2, <2>3
<1> QED BY <1>3, <1>5, <1>7, <1>4 DEF RunsInv, CapKept

\* A run the user started is not counted.
LEMMA RunNowKeepsCap ==
  ASSUME RunsInv, NEW t \in Tasks, Len(runs) < MaxRuns,
         runs' = Append(runs, Started(t, "user", NoTime)), counts' = counts
  PROVE  RunsInv'
<1>1. NoTime \in 0 .. Horizon
  BY SchedulerAssumption DEF NoTime
<1>2. Started(t, "user", NoTime) \in Run
  BY <1>1 DEF Started, Run
<1>3. runs \in Seq(Run) /\ counts \in [Tasks -> Nat] /\ CapKept
  BY DEF RunsInv
<1>4. runs' \in Seq(Run) /\ Added(Started(t, "user", NoTime))
  BY <1>2, <1>3, RunAdded
<1>5. Len(runs') <= MaxRuns
  BY <1>4, SchedulerAssumption DEF Added
<1>6. \A u : ~Counts(Started(t, "user", NoTime), u)
  BY DEF Counts, Started
<1>7. ASSUME NEW u \in Tasks PROVE Counted(u)' = Counted(u)
  BY <1>4, <1>6, AddedIsCounted
<1> QED BY <1>3, <1>4, <1>5, <1>7 DEF RunsInv, CapKept

\* The runs stay the same but for where they are, and for their rows.
Relabeled ==
    /\ runs' \in Seq(Run) /\ Len(runs') = Len(runs) /\ DOMAIN runs' = DOMAIN runs
    /\ \A i \in DOMAIN runs :
          runs'[i].task = runs[i].task /\ runs'[i].by = runs[i].by /\ runs'[i].slot = runs[i].slot

LEMMA SettledRelabels ==
  ASSUME runs \in Seq(Run), NEW i \in DOMAIN runs, runs' = Settled(i)
  PROVE  /\ Relabeled
         /\ runs'[i].at = "over"
         /\ \A j \in DOMAIN runs \ {i} : runs'[j] = runs[j]
<1>1. Len(runs) \in Nat /\ DOMAIN runs = 1 .. Len(runs) /\ runs[i] \in Run
  BY ElementOfSeq, LenProperties
<1> DEFINE r == [runs[i] EXCEPT !.at = "over", !.row = IF @ = "deleted" THEN @ ELSE "settled"]
<1>2. /\ r \in Run /\ r.at = "over"
      /\ r.task = runs[i].task /\ r.by = runs[i].by /\ r.slot = runs[i].slot
  BY <1>1 DEF Run
<1>3. runs' = [runs EXCEPT ![i] = r]
  BY DEF Settled
<1> HIDE DEF r
<1>4. /\ runs' \in Seq(Run) /\ Len(runs') = Len(runs)
      /\ \A j \in 1 .. Len(runs) : runs'[j] = IF j = i THEN r ELSE runs[j]
  BY <1>1, <1>2, <1>3, ExceptSeq
<1>5. DOMAIN runs' = DOMAIN runs
  BY <1>3
<1> QED BY <1>1, <1>2, <1>4, <1>5 DEF Relabeled

\* Whoever ends a run counts it out.
LEMMA EndedKeepsCap ==
  ASSUME RunsInv, NEW i \in InFlight, runs' = Settled(i),
         counts' = IF runs[i].by = "user" THEN counts ELSE Dec(runs[i].task)
  PROVE  RunsInv'
<1>1. runs \in Seq(Run) /\ counts \in [Tasks -> Nat] /\ CapKept /\ Len(runs) <= MaxRuns
  BY DEF RunsInv
<1>2. i \in DOMAIN runs /\ runs[i].at = "in-flight"
  BY DEF InFlight
<1>3. runs[i].task \in Tasks
  <2>1. runs[i] \in Run
    BY <1>2, <1>1, ElementOfSeq, LenProperties
  <2> QED BY <2>1 DEF Run
<1>4. /\ Relabeled
      /\ runs'[i].at = "over"
      /\ \A j \in DOMAIN runs \ {i} : runs'[j] = runs[j]
  BY <1>2, <1>1, SettledRelabels
<1>5. \A t : Counted(t)' = Counted(t) \ {i}
  <2> SUFFICES ASSUME NEW t PROVE Counted(t)' = Counted(t) \ {i}
    OBVIOUS
  <2>1. DOMAIN runs' = DOMAIN runs
    BY <1>4 DEF Relabeled
  <2>2. ~Counts(runs'[i], t)
    BY <1>4 DEF Counts
  <2> QED BY <1>4, <2>1, <2>2, CountedIs
<1>6. \A t : i \in Counted(t) <=> t = runs[i].task /\ runs[i].by # "user"
  BY <1>2 DEF Counted, InFlight
<1>7. ASSUME NEW t \in Tasks
      PROVE  /\ counts'[t] = Cardinality(Counted(t)') /\ counts'[t] \in Nat
             /\ Cardinality(Counted(t)') <= MaxConcurrentRuns
  <2>1. /\ counts[t] = Cardinality(Counted(t)) /\ counts[t] \in Nat
        /\ Cardinality(Counted(t)) <= MaxConcurrentRuns
    BY <1>1 DEF CapKept
  <2>2. CASE i \in Counted(t)
    <3>1. Cardinality(Counted(t)') = Cardinality(Counted(t)) - 1
      BY <1>1, <1>5, <2>2, CountedFinite, FS_RemoveElement
    <3>2. Cardinality(Counted(t)) \in Nat \ {0}
      BY <1>1, <2>2, CountedFinite, FS_EmptySet
    <3>3. counts'[t] = IF counts[t] <= 1 THEN 0 ELSE counts[t] - 1
      BY <1>1, <1>6, <2>2 DEF Dec
    <3> QED BY <2>1, <3>1, <3>2, <3>3, SchedulerAssumption
  <2>3. CASE i \notin Counted(t)
    <3>1. Counted(t)' = Counted(t)
      BY <1>5, <2>3
    <3>2. counts'[t] = counts[t]
      BY <1>1, <1>3, <1>6, <2>3 DEF Dec
    <3> QED BY <2>1, <3>1, <3>2
  <2> QED BY <2>2, <2>3
<1>8. counts' \in [Tasks -> Nat]
  <2>1. DOMAIN counts' = Tasks /\ counts' = [t \in Tasks |-> counts'[t]]
    BY <1>1 DEF Dec
  <2> QED BY <1>7, <2>1
<1> QED BY <1>1, <1>4, <1>7, <1>8 DEF RunsInv, CapKept, Relabeled

\* Rows may go, and runs not in flight may change, without any run being counted
\* otherwise.
LEMMA RelabeledKeepsCap ==
  ASSUME RunsInv, Relabeled, counts' = counts,
         \A i \in DOMAIN runs : runs'[i].at = runs[i].at
  PROVE  RunsInv'
<1>1. \A t : Counted(t)' = Counted(t)
  BY DEF Counted, InFlight, Relabeled
<1> QED BY <1>1 DEF RunsInv, CapKept, Relabeled

\* The counters and the cap do not depend on anything else.
LEMMA RunsInvKept ==
  ASSUME RunsInv, UNCHANGED <<runs, counts>> PROVE RunsInv'
<1>1. \A t : Counted(t)' = Counted(t)
  BY DEF Counted, InFlight
<1> QED BY <1>1 DEF RunsInv, CapKept

-----------------------------------------------------------------------------
(* What a start does to the runs                                           *)

\* A start appends one run per overdue task, each in its place.
LEMMA CatchupRuns ==
  ASSUME runs \in Seq(Run), table \in [Tasks -> Task],
         NEW due \in SetToSeqs(Overdue),
         runs' = runs \o [n \in DOMAIN due |-> Started(due[n], "catchup", NoTime)]
  PROVE  /\ runs' \in Seq(Run)
         /\ Cardinality(Overdue) \in Nat
         /\ Len(runs) \in Nat /\ Len(runs') = Len(runs) + Cardinality(Overdue)
         /\ DOMAIN runs = 1 .. Len(runs)
         /\ DOMAIN runs' = 1 .. Len(runs) + Cardinality(Overdue)
         /\ \A i \in DOMAIN runs : runs'[i] = runs[i]
         /\ \A n \in 1 .. Cardinality(Overdue) :
               /\ due[n] \in Overdue
               /\ runs'[Len(runs) + n] = Started(due[n], "catchup", NoTime)
         /\ \A m, n \in 1 .. Cardinality(Overdue) : due[m] = due[n] => m = n
         /\ \A t \in Overdue : \E n \in 1 .. Cardinality(Overdue) : due[n] = t
<1> DEFINE k == Cardinality(Overdue)
           new == [n \in DOMAIN due |-> Started(due[n], "catchup", NoTime)]
<1>1. Overdue \in SUBSET Tasks
  BY DEF Overdue, Cron
<1>2. IsFiniteSet(Overdue) /\ k \in Nat
  BY <1>1, FS_Subset, FS_CardinalityType, SchedulerAssumption
<1>3. /\ due \in [1 .. k -> Overdue]
      /\ \A m, n \in 1 .. k : m # n => due[m] # due[n]
  BY DEF SetToSeqs
<1>4. \A t \in Overdue : \E n \in 1 .. k : due[n] = t
  <2>1. IsFiniteSet(1 .. k) /\ Cardinality(1 .. k) = k
    BY <1>2, IntervalSize
  <2>2. due \in Injection(1 .. k, Overdue)
    BY <1>3 DEF Injection, IsInjective
  <2>3. due \in Surjection(1 .. k, Overdue)
    BY <1>2, <2>1, <2>2, FS_Injection
  <2> QED BY <2>3 DEF Surjection
<1>5. \A t \in Tasks : Started(t, "catchup", NoTime) \in Run
  <2>1. NoTime \in 0 .. Horizon
    BY SchedulerAssumption DEF NoTime
  <2> QED BY <2>1 DEF Started, Run
<1>6. new \in [1 .. k -> Run]
  BY <1>1, <1>3, <1>5
<1>7. new \in Seq(Run) /\ Len(new) = k
  <2> HIDE DEF new, k
  <2> QED BY <1>2, <1>6
<1>8. \A n \in 1 .. k : new[n] = Started(due[n], "catchup", NoTime)
  BY <1>3
<1>9. runs' = runs \o new
  OBVIOUS
<1> HIDE DEF new, k
<1>10. /\ runs' \in Seq(Run)
       /\ Len(runs') = Len(runs) + k
       /\ \A i \in 1 .. Len(runs) + k : runs'[i] = IF i <= Len(runs) THEN runs[i] ELSE new[i - Len(runs)]
  <2>1. /\ runs \o new \in Seq(Run)
        /\ Len(runs \o new) = Len(runs) + Len(new)
        /\ \A i \in 1 .. Len(runs) + Len(new) :
              (runs \o new)[i] = IF i <= Len(runs) THEN runs[i] ELSE new[i - Len(runs)]
    BY <1>7, ConcatProperties
  <2> QED BY <1>7, <1>9, <2>1
<1>11. /\ Len(runs) \in Nat /\ DOMAIN runs = 1 .. Len(runs)
       /\ DOMAIN runs' = 1 .. Len(runs')
  BY <1>10, LenProperties
<1>12. \A i \in DOMAIN runs : runs'[i] = runs[i]
  BY <1>2, <1>10, <1>11
<1>13. ASSUME NEW n \in 1 .. k PROVE runs'[Len(runs) + n] = new[n]
  <2>1. Len(runs) + n \in 1 .. Len(runs) + k /\ ~(Len(runs) + n <= Len(runs))
        /\ Len(runs) + n - Len(runs) = n
    BY <1>2, <1>11
  <2> QED BY <1>10, <2>1
<1> QED BY <1>2, <1>3, <1>4, <1>8, <1>10, <1>11, <1>12, <1>13 DEF k

\* After a start every overdue task has exactly one counted run, every other none.
LEMMA StartKeepsCap ==
  ASSUME RunsInv, DownIsQuiet, TimerInv, Start
  PROVE  RunsInv'
<1>1. runs \in Seq(Run) /\ counts \in [Tasks -> Nat] /\ CapKept /\ Len(runs) <= MaxRuns
  BY DEF RunsInv
<1>2. PICK due \in SetToSeqs(Overdue) :
         runs' = runs \o [n \in DOMAIN due |-> Started(due[n], "catchup", NoTime)]
  BY DEF Start
<1>3. table \in [Tasks -> Task]
  BY DEF TimerInv
<1>4. InFlight = {} /\ \A t \in Tasks : counts[t] = 0
  BY DEF Start, DownIsQuiet
<1> DEFINE k == Cardinality(Overdue)
<1>5. /\ runs' \in Seq(Run)
      /\ k \in Nat
      /\ Len(runs) \in Nat /\ Len(runs') = Len(runs) + k
      /\ DOMAIN runs = 1 .. Len(runs)
      /\ DOMAIN runs' = 1 .. Len(runs) + k
      /\ \A i \in DOMAIN runs : runs'[i] = runs[i]
      /\ \A n \in 1 .. k :
            /\ due[n] \in Overdue
            /\ runs'[Len(runs) + n] = Started(due[n], "catchup", NoTime)
      /\ \A m, n \in 1 .. k : due[m] = due[n] => m = n
      /\ \A t \in Overdue : \E n \in 1 .. k : due[n] = t
  BY <1>1, <1>2, <1>3, CatchupRuns
<1>6. Len(runs) + k <= MaxRuns
  BY DEF Start
<1>7. counts' = [t \in Tasks |-> IF t \in Overdue THEN counts[t] + 1 ELSE counts[t]]
  BY DEF Start
<1> HIDE DEF k
<1>8. \A i \in DOMAIN runs' : i \in DOMAIN runs \/ \E n \in 1 .. k : i = Len(runs) + n
  <2> SUFFICES ASSUME NEW i \in DOMAIN runs', i \notin DOMAIN runs
               PROVE  \E n \in 1 .. k : i = Len(runs) + n
    OBVIOUS
  <2>1. i - Len(runs) \in 1 .. k /\ i = Len(runs) + (i - Len(runs))
    BY <1>5
  <2> QED BY <2>1
<1>9. \A i \in DOMAIN runs : runs[i].at # "in-flight"
  BY <1>4 DEF InFlight
<1>10. \A u, t : Counts(Started(u, "catchup", NoTime), t) <=> u = t
  BY DEF Counts, Started
<1>11. \A t : \A i \in Counted(t)' : \E n \in 1 .. k : i = Len(runs) + n /\ due[n] = t
  <2> SUFFICES ASSUME NEW t, NEW i \in Counted(t)'
               PROVE  \E n \in 1 .. k : i = Len(runs) + n /\ due[n] = t
    OBVIOUS
  <2>1. i \in DOMAIN runs' /\ Counts(runs'[i], t)
    BY CountedIs
  <2>2. i \notin DOMAIN runs
    BY <1>5, <1>9, <2>1 DEF Counts
  <2>3. PICK n \in 1 .. k : i = Len(runs) + n
    BY <1>8, <2>1, <2>2
  <2>4. runs'[i] = Started(due[n], "catchup", NoTime)
    BY <1>5, <2>3
  <2>5. due[n] = t
    BY <1>10, <2>1, <2>4
  <2> QED BY <2>3, <2>5
<1>12. ASSUME NEW t \in Tasks
       PROVE  counts'[t] = Cardinality(Counted(t)') /\ Cardinality(Counted(t)') <= 1
  <2>1. CASE t \in Overdue
    <3>1. PICK n \in 1 .. k : due[n] = t
      BY <1>5, <2>1
    <3>2. Len(runs) + n \in DOMAIN runs'
      BY <1>5
    <3>3. Len(runs) + n \in Counted(t)'
      <4>1. runs'[Len(runs) + n] = Started(t, "catchup", NoTime)
        BY <1>5, <3>1
      <4>2. Counts(runs'[Len(runs) + n], t)
        BY <1>10, <4>1
      <4> QED BY <3>2, <4>2, CountedIs
    <3>4. ASSUME NEW i \in Counted(t)' PROVE i = Len(runs) + n
      <4>1. PICK m \in 1 .. k : i = Len(runs) + m /\ due[m] = t
        BY <1>11
      <4>2. m = n
        BY <1>5, <3>1, <4>1
      <4> QED BY <4>1, <4>2
    <3>5. Counted(t)' = {Len(runs) + n}
      BY <3>3, <3>4
    <3>6. Cardinality(Counted(t)') = 1
      BY <3>5, FS_Singleton
    <3> QED BY <1>4, <1>7, <2>1, <3>6
  <2>2. CASE t \notin Overdue
    <3>1. Counted(t)' = {}
      BY <1>5, <1>11, <2>2
    <3>2. Cardinality(Counted(t)') = 0
      BY <3>1, FS_EmptySet
    <3> QED BY <1>4, <1>7, <2>2, <3>2
  <2> QED BY <2>1, <2>2
<1>13. counts' \in [Tasks -> Nat]
  BY <1>1, <1>7
<1>14. \A t \in Tasks : Cardinality(Counted(t)') <= MaxConcurrentRuns
  BY <1>1, <1>12, <1>13, SchedulerAssumption
<1> QED BY <1>5, <1>6, <1>12, <1>13, <1>14 DEF RunsInv, CapKept

-----------------------------------------------------------------------------
(* What a step does to the timer                                           *)

\* No run of the clock is added, and none that is in flight ends.
NoTickAdded ==
    /\ \A i \in DOMAIN runs' :
          runs'[i].by = "tick" =>
              i \in DOMAIN runs /\ runs[i].by = "tick" /\ runs'[i].slot = runs[i].slot
              /\ runs'[i].task = runs[i].task

NoTickEnds ==
    \A i \in DOMAIN runs : runs[i].by = "tick" /\ runs[i].at = "in-flight" =>
        i \in DOMAIN runs' /\ runs'[i].by = "tick" /\ runs'[i].at = "in-flight"

LEMMA StillRunOnce ==
  ASSUME SlotRunOnce, NoTickAdded PROVE SlotRunOnce'
  BY DEF SlotRunOnce, NoTickAdded

\* A step that arms the timer anew leaves it as it should be.
LEMMA Rearmed ==
  ASSUME TimerInv, RunsInv', now' = now, awaited' = {}, NoTickAdded,
         NEW tbl \in [Tasks -> Task], ScheduleNext(tbl)
  PROVE  TimerInv'
<1>1. /\ table' \in [Tasks -> Task]
      /\ \A t \in Tasks : table'[t].state = tbl[t].state /\ table'[t].trigger = tbl[t].trigger
      /\ timer' \in {{}} \cup {{w} : w \in Timer}
      /\ Cron(tbl) # {} => timer' # {}
      /\ \A w \in timer' :
            /\ w.at > now
            /\ w.task \in Cron(table')
            /\ table'[w.task].nextRun = w.at
            /\ \A t \in Cron(table') : \A s \in table'[t].trigger : s > now => w.at <= s
  BY ScheduleNextArms DEF TimerInv
<1>2. Cron(table') = Cron(tbl)
  BY <1>1 DEF Cron
<1>3. SlotAhead' /\ now' \in 0 .. Horizon
  BY DEF TimerInv, SlotAhead
<1>4. TimerStored'
  BY <1>1 DEF TimerStored
<1>5. SlotsBehind'
  <2> SUFFICES ASSUME NEW i \in DOMAIN runs', runs'[i].by = "tick"
               PROVE  runs'[i].slot <= now' /\ \A w \in timer' : runs'[i].slot < w.at
    BY DEF SlotsBehind
  <2>1. runs'[i].slot <= now
    BY DEF TimerInv, SlotsBehind, NoTickAdded
  <2>2. runs'[i] \in Run
    BY ElementOfSeq, LenProperties DEF RunsInv
  <2>3. runs'[i].slot \in 0 .. Horizon /\ now \in 0 .. Horizon /\ Horizon \in Nat
    BY <2>2, SchedulerAssumption DEF Run, TimerInv
  <2>4. ASSUME NEW w \in timer' PROVE w.at \in Nat /\ w.at > now
    BY <1>1, SchedulerAssumption DEF Timer
  <2> QED BY <2>1, <2>3, <2>4
<1>6. SlotRunOnce'
  BY StillRunOnce DEF TimerInv
<1>7. ArmedForEarliest'
  BY <1>1, <1>2 DEF ArmedForEarliest
<1> QED BY <1>1, <1>3, <1>4, <1>5, <1>6, <1>7 DEF TimerInv

\* So does a step that touches neither the timer nor what it waits for.
LEMMA Undisturbed ==
  ASSUME TimerInv, UNCHANGED <<now, table, timer, awaited, up>>, NoTickAdded, NoTickEnds
  PROVE  TimerInv'
<1>1. SlotAhead' /\ TimerStored'
  BY DEF TimerInv, SlotAhead, TimerStored
<1>2. SlotsBehind'
  BY DEF TimerInv, SlotsBehind, NoTickAdded
<1>3. SlotRunOnce'
  BY StillRunOnce DEF TimerInv
<1>4. ArmedForEarliest'
  <2>1. ASSUME NEW i \in InFlight, runs[i].by = "tick"
        PROVE  i \in InFlight' /\ runs'[i].by = "tick"
    BY <2>1 DEF InFlight, NoTickEnds
  <2> QED BY <2>1 DEF TimerInv, ArmedForEarliest
<1> QED BY <1>1, <1>2, <1>3, <1>4 DEF TimerInv

LEMMA AddedNoTick ==
  ASSUME NEW r, Added(r), r.by # "tick"
  PROVE  NoTickAdded /\ NoTickEnds
<1>1. /\ \A i \in DOMAIN runs' : i \in DOMAIN runs \/ i = Len(runs) + 1
      /\ DOMAIN runs \subseteq DOMAIN runs'
      /\ \A i \in DOMAIN runs : runs'[i] = runs[i]
      /\ runs'[Len(runs) + 1] = r
  BY DEF Added
<1> QED BY <1>1 DEF NoTickAdded, NoTickEnds

LEMMA RelabeledNoTick == ASSUME Relabeled PROVE NoTickAdded
  BY DEF Relabeled, NoTickAdded

\* Relabeling every run of a sequence yields a sequence of as many.
LEMMA SameLength ==
  ASSUME runs \in Seq(Run), DOMAIN runs' = DOMAIN runs,
         runs' = [i \in DOMAIN runs |-> runs'[i]], \A i \in DOMAIN runs : runs'[i] \in Run
  PROVE  runs' \in Seq(Run) /\ Len(runs') = Len(runs)
<1>1. Len(runs) \in Nat /\ DOMAIN runs = 1 .. Len(runs)
  BY LenProperties
<1>2. runs' \in [1 .. Len(runs) -> Run]
  BY <1>1
<1> QED BY <1>1, <1>2, SeqDef

-----------------------------------------------------------------------------
(* Every step                                                              *)

LEMMA InvFacts ==
  ASSUME SchedulerInv
  PROVE  /\ runs \in Seq(Run) /\ Len(runs) \in Nat /\ DOMAIN runs = 1 .. Len(runs)
         /\ \A i \in DOMAIN runs : runs[i] \in Run
         /\ table \in [Tasks -> Task]
         /\ now \in 0 .. Horizon /\ Horizon \in Nat
         /\ up => awaited = {}
  BY ElementOfSeq, LenProperties, SchedulerAssumption
     DEF SchedulerInv, RunsInv, TimerInv, DownIsQuiet

LEMMA TickKeeps ==
  ASSUME SchedulerInv, NEW w \in timer, Tick(w) PROVE SchedulerInv'
<1>1. /\ up /\ w.at <= now /\ UNCHANGED <<now, up, awaited, edits, quits>>
      /\ awaited = {}
  BY InvFacts DEF Tick
<1>2. w \in Timer /\ w.task \in Tasks /\ w.at \in 1 .. Horizon
  BY DEF SchedulerInv, TimerInv, Timer
<1>3. CASE table[w.task].state # "enabled" \/ AtCap(w.task)
  <2>1. ScheduleNext(table) /\ UNCHANGED <<runs, counts>>
    BY <1>3 DEF Tick
  <2>2. RunsInv'
    BY <2>1, RunsInvKept DEF SchedulerInv
  <2>3. NoTickAdded
    BY <2>1 DEF NoTickAdded
  <2>4. TimerInv'
    BY <1>1, <2>1, <2>2, <2>3, InvFacts, Rearmed DEF SchedulerInv
  <2> QED BY <1>1, <2>2, <2>4 DEF SchedulerInv, DownIsQuiet
<1>4. CASE ~(table[w.task].state # "enabled" \/ AtCap(w.task))
  <2> DEFINE r == Started(w.task, "tick", w.at)
  <2>1. /\ Len(runs) < MaxRuns /\ runs' = Append(runs, r) /\ counts' = Inc(w.task)
        /\ timer' = {} /\ table' = table
    BY <1>4 DEF Tick
  <2>2. w.at \in 0 .. Horizon
    BY <1>2
  <2>3. RunsInv'
    BY <1>2, <1>4, <2>1, <2>2, StartedKeepsCap DEF SchedulerInv
  <2>4. r \in Run
    BY <1>2, <2>2 DEF Started, Run
  <2>5. Added(r)
    BY <2>1, <2>4, InvFacts, RunAdded
  <2>6. /\ r.by = "tick" /\ r.slot = w.at /\ r.task = w.task /\ r.at = "in-flight"
    BY DEF Started
  <2> HIDE DEF r
  <2>7. /\ \A i \in DOMAIN runs' : i \in DOMAIN runs \/ i = Len(runs) + 1
        /\ Len(runs) + 1 \in DOMAIN runs'
        /\ \A i \in DOMAIN runs : runs'[i] = runs[i]
        /\ runs'[Len(runs) + 1] = r
    BY <2>5 DEF Added
  <2>8. \A i \in DOMAIN runs : runs[i].by = "tick" => runs[i].slot <= now /\ runs[i].slot # w.at
    <3> SUFFICES ASSUME NEW i \in DOMAIN runs, runs[i].by = "tick"
                 PROVE  runs[i].slot <= now /\ runs[i].slot # w.at
      OBVIOUS
    <3>1. runs[i].slot <= now /\ runs[i].slot < w.at
      BY DEF SchedulerInv, TimerInv, SlotsBehind
    <3>2. runs[i].slot \in 0 .. Horizon
      BY InvFacts DEF Run
    <3> QED BY <1>2, <3>1, <3>2
  <2>9. SlotsBehind'
    BY <1>1, <2>1, <2>6, <2>7, <2>8 DEF SlotsBehind
  <2>10. SlotRunOnce'
    <3> SUFFICES ASSUME NEW i \in DOMAIN runs', NEW j \in DOMAIN runs',
                        runs'[i].by = "tick", runs'[j].by = "tick",
                        runs'[i].task = runs'[j].task, runs'[i].slot = runs'[j].slot
                 PROVE  i = j
      BY DEF SlotRunOnce
    <3>1. CASE i \in DOMAIN runs /\ j \in DOMAIN runs
      BY <2>7, <3>1 DEF SchedulerInv, TimerInv, SlotRunOnce
    <3>2. CASE i \in DOMAIN runs /\ j = Len(runs) + 1
      BY <2>6, <2>7, <2>8, <3>2
    <3>3. CASE i = Len(runs) + 1 /\ j \in DOMAIN runs
      BY <2>6, <2>7, <2>8, <3>3
    <3> QED BY <2>7, <3>1, <3>2, <3>3
  <2>11. ArmedForEarliest'
    <3>1. Len(runs) + 1 \in InFlight' /\ runs'[Len(runs) + 1].by = "tick"
      BY <2>6, <2>7 DEF InFlight
    <3> QED BY <2>1, <3>1 DEF ArmedForEarliest
  <2>12. TimerInv'
    BY <1>1, <2>1, <2>9, <2>10, <2>11 DEF SchedulerInv, TimerInv, SlotAhead, TimerStored
  <2> QED BY <1>1, <2>3, <2>12 DEF SchedulerInv, DownIsQuiet
<1> QED BY <1>3, <1>4

\* A run that the clock did not start disturbs no slot.
LEMMA FireTaskByIdKeeps ==
  ASSUME SchedulerInv, NEW t \in Tasks, FireTaskById(t) PROVE SchedulerInv'
<1> DEFINE r == Started(t, "event", NoTime)
<1>1. /\ up /\ ~AtCap(t) /\ Len(runs) < MaxRuns
      /\ runs' = Append(runs, r) /\ counts' = Inc(t)
      /\ UNCHANGED <<now, table, up, timer, awaited, edits, quits>>
  BY DEF FireTaskById
<1>2. NoTime \in 0 .. Horizon
  BY InvFacts DEF NoTime
<1>3. RunsInv'
  BY <1>1, <1>2, StartedKeepsCap DEF SchedulerInv
<1>4. r \in Run /\ r.by # "tick"
  BY <1>2 DEF Started, Run
<1> HIDE DEF r
<1>5. Added(r)
  BY <1>1, <1>4, InvFacts, RunAdded
<1>6. TimerInv'
  BY <1>1, <1>4, <1>5, AddedNoTick, Undisturbed DEF SchedulerInv
<1> QED BY <1>1, <1>3, <1>6 DEF SchedulerInv, DownIsQuiet

LEMMA RunNowKeeps ==
  ASSUME SchedulerInv, NEW t \in Tasks, RunNow(t) PROVE SchedulerInv'
<1> DEFINE r == Started(t, "user", NoTime)
<1>1. /\ up /\ Len(runs) < MaxRuns /\ runs' = Append(runs, r)
      /\ UNCHANGED <<now, table, up, timer, counts, awaited, edits, quits>>
  BY DEF RunNow
<1>2. NoTime \in 0 .. Horizon
  BY InvFacts DEF NoTime
<1>3. RunsInv'
  BY <1>1, RunNowKeepsCap DEF SchedulerInv
<1>4. r \in Run /\ r.by # "tick"
  BY <1>2 DEF Started, Run
<1> HIDE DEF r
<1>5. Added(r)
  BY <1>1, <1>4, InvFacts, RunAdded
<1>6. TimerInv'
  BY <1>1, <1>4, <1>5, AddedNoTick, Undisturbed DEF SchedulerInv
<1> QED BY <1>1, <1>3, <1>6 DEF SchedulerInv, DownIsQuiet

\* Every edit: the counters do not notice it, and the timer is armed anew.
LEMMA EditKeeps ==
  ASSUME SchedulerInv, NEW tbl \in [Tasks -> Task], Edit(tbl), Relabeled,
         \A i \in DOMAIN runs : runs'[i].at = runs[i].at
  PROVE  SchedulerInv'
<1>1. /\ up /\ edits < MaxEdits /\ edits' = edits + 1 /\ ScheduleNext(tbl)
      /\ UNCHANGED <<now, up, counts, awaited, quits>> /\ awaited = {}
  BY InvFacts DEF Edit
<1>2. RunsInv'
  BY <1>1, RelabeledKeepsCap DEF SchedulerInv
<1>3. TimerInv'
  BY <1>1, <1>2, RelabeledNoTick, Rearmed DEF SchedulerInv
<1>4. edits' \in 0 .. MaxEdits
  BY <1>1, SchedulerAssumption DEF SchedulerInv
<1> QED BY <1>1, <1>2, <1>3, <1>4 DEF SchedulerInv, DownIsQuiet

LEMMA SameRelabels ==
  ASSUME SchedulerInv, runs' = runs PROVE Relabeled
  BY InvFacts DEF Relabeled

LEMMA EditedTable ==
  ASSUME SchedulerInv, NEW t \in Tasks
  PROVE  /\ [table EXCEPT ![t] = NoTask] \in [Tasks -> Task]
         /\ \A trigger \in Patterns \cup {Event} :
               [table EXCEPT ![t] = [state |-> "enabled", trigger |-> trigger, nextRun |-> NoTime]]
                  \in [Tasks -> Task]
         /\ \A trigger \in Patterns \cup {Event} : \A state \in {"enabled", "disabled"} :
               [table EXCEPT ![t].state = state, ![t].trigger = trigger] \in [Tasks -> Task]
<1>1. table \in [Tasks -> Task] /\ NoTime \in 0 .. Horizon
  BY InvFacts DEF NoTime
<1>2. NoTask \in Task
  BY <1>1 DEF NoTask, Task
<1>3. \A trigger \in Patterns \cup {Event} :
         [state |-> "enabled", trigger |-> trigger, nextRun |-> NoTime] \in Task
  BY <1>1 DEF Task
<1>4. \A trigger \in Patterns \cup {Event} : \A state \in {"enabled", "disabled"} :
         [table EXCEPT ![t].state = state, ![t].trigger = trigger] \in [Tasks -> Task]
  <2> SUFFICES ASSUME NEW trigger \in Patterns \cup {Event}, NEW state \in {"enabled", "disabled"}
               PROVE  [table EXCEPT ![t].state = state, ![t].trigger = trigger]
                         \in [Tasks -> Task]
    OBVIOUS
  <2>1. [table[t] EXCEPT !.state = state, !.trigger = trigger] \in Task
    BY <1>1 DEF Task
  <2> QED BY <1>1, <2>1
<1> QED BY <1>1, <1>2, <1>3, <1>4

LEMMA CreateTaskKeeps ==
  ASSUME SchedulerInv, NEW t \in Tasks, NEW trigger \in Patterns \cup {Event}, CreateTask(t, trigger)
  PROVE  SchedulerInv'
<1> DEFINE tbl == [table EXCEPT ![t] =
                     [state |-> "enabled", trigger |-> trigger, nextRun |-> NoTime]]
<1>1. Edit(tbl) /\ runs' = runs
  BY DEF CreateTask
<1>2. tbl \in [Tasks -> Task]
  BY EditedTable
<1> HIDE DEF tbl
<1> QED BY <1>1, <1>2, SameRelabels, EditKeeps

LEMMA UpdateTaskKeeps ==
  ASSUME SchedulerInv, NEW t \in Tasks, NEW trigger \in Patterns \cup {Event},
         NEW state \in {"enabled", "disabled"}, UpdateTask(t, state, trigger)
  PROVE  SchedulerInv'
<1> DEFINE tbl == [table EXCEPT ![t].state = state, ![t].trigger = trigger]
<1>1. Edit(tbl) /\ runs' = runs
  BY DEF UpdateTask
<1>2. tbl \in [Tasks -> Task]
  BY EditedTable
<1> HIDE DEF tbl
<1> QED BY <1>1, <1>2, SameRelabels, EditKeeps

LEMMA DeleteTaskKeeps ==
  ASSUME SchedulerInv, NEW t \in Tasks, DeleteTask(t) PROVE SchedulerInv'
<1>1. Edit([table EXCEPT ![t] = NoTask])
  BY DEF DeleteTask
<1>2. runs' = [i \in DOMAIN runs |->
                  IF runs[i].task = t THEN [runs[i] EXCEPT !.row = "deleted"] ELSE runs[i]]
  BY DEF DeleteTask
<1>3. ASSUME NEW i \in DOMAIN runs
      PROVE  /\ runs'[i] \in Run /\ runs'[i].task = runs[i].task /\ runs'[i].at = runs[i].at
             /\ runs'[i].by = runs[i].by /\ runs'[i].slot = runs[i].slot
  <2>1. runs[i] \in Run
    BY InvFacts
  <2> QED BY <1>2, <2>1 DEF Run
<1>4. Relabeled
  <2>1. DOMAIN runs' = DOMAIN runs /\ runs' = [i \in DOMAIN runs |-> runs'[i]]
    BY <1>2
  <2>2. runs' \in Seq(Run) /\ Len(runs') = Len(runs)
    BY <1>3, <2>1, InvFacts, SameLength
  <2> QED BY <1>3, <2>1, <2>2 DEF Relabeled
<1> QED BY <1>1, <1>3, <1>4, EditedTable, EditKeeps

LEMMA RunEndsKeeps ==
  ASSUME SchedulerInv, NEW i \in DOMAIN runs, RunEnds(i) PROVE SchedulerInv'
<1>1. /\ up /\ i \in InFlight /\ runs' = Settled(i) /\ AfterRun(i)
      /\ UNCHANGED <<now, up, awaited, edits, quits>> /\ awaited = {}
  BY InvFacts DEF RunEnds
<1> DEFINE t == runs[i].task
<1>2. runs[i] \in Run /\ t \in Tasks /\ runs[i].by \in {"tick", "catchup", "event", "user"}
  <2>1. runs[i] \in Run
    BY InvFacts
  <2> QED BY <2>1 DEF Run
<1>3. /\ Relabeled
      /\ \A j \in DOMAIN runs \ {i} : runs'[j] = runs[j]
  BY <1>1, InvFacts, SettledRelabels
<1>4. NoTickAdded
  BY <1>3, RelabeledNoTick
<1>5. counts' = IF runs[i].by = "user" THEN counts ELSE Dec(t)
  BY <1>1, <1>2 DEF AfterRun
<1>6. RunsInv'
  BY <1>1, <1>5, EndedKeepsCap DEF SchedulerInv
<1>7. TimerInv'
  <2>1. CASE runs[i].by = "tick"
    <3>1. ScheduleNext(table)
      BY <1>1, <2>1 DEF AfterRun
    <3> QED BY <1>1, <1>4, <1>6, <3>1, InvFacts, Rearmed DEF SchedulerInv
  <2>2. CASE runs[i].by = "catchup"
    <3> DEFINE tbl == IF table[t].trigger # Event
                      THEN [table EXCEPT ![t].nextRun = ComputeNextFire(table[t].trigger)]
                      ELSE table
    <3>1. ScheduleNext(tbl)
      BY <1>1, <2>2 DEF AfterRun
    <3>2. tbl \in [Tasks -> Task]
      <4>1. table \in [Tasks -> Task] /\ table[t] \in Task
        BY <1>2, InvFacts
      <4>2. CASE table[t].trigger # Event
        <5>1. table[t].trigger \in Patterns
          BY <4>1, <4>2 DEF Task
        <5>2. ComputeNextFire(table[t].trigger) \in 0 .. Horizon
          BY <5>1, NextSlot, SchedulerAssumption DEF SchedulerInv, TimerInv
        <5> QED BY <1>2, <4>1, <4>2, <5>2 DEF Task
      <4> QED BY <4>1, <4>2
    <3> HIDE DEF tbl
    <3> QED BY <1>1, <1>4, <1>6, <3>1, <3>2, Rearmed DEF SchedulerInv
  <2>3. CASE runs[i].by \in {"event", "user"}
    <3>1. UNCHANGED <<table, timer>>
      BY <1>1, <2>3 DEF AfterRun
    <3>2. NoTickEnds
      <4>1. DOMAIN runs' = DOMAIN runs
        BY <1>3 DEF Relabeled
      <4> QED BY <1>3, <2>3, <4>1 DEF NoTickEnds
    <3> QED BY <1>1, <1>4, <3>1, <3>2, Undisturbed DEF SchedulerInv
  <2> QED BY <1>2, <2>1, <2>2, <2>3
<1> QED BY <1>1, <1>6, <1>7 DEF SchedulerInv, DownIsQuiet

LEMMA ClockKeeps == ASSUME SchedulerInv, Clock PROVE SchedulerInv'
<1>1. /\ now + 1 < Horizon /\ now' = now + 1
      /\ UNCHANGED <<table, runs, up, timer, counts, awaited, edits, quits>>
  BY DEF Clock
<1>2. RunsInv'
  BY <1>1, RunsInvKept DEF SchedulerInv
<1>3. now \in 0 .. Horizon /\ Horizon \in Nat
  BY InvFacts
<1>4. SlotAhead' /\ now' \in 0 .. Horizon
  BY <1>1, <1>3 DEF SlotAhead
<1>5. TimerStored' /\ SlotRunOnce'
  BY <1>1 DEF SchedulerInv, TimerInv, TimerStored, SlotRunOnce
<1>6. SlotsBehind'
  <2> SUFFICES ASSUME NEW i \in DOMAIN runs, runs[i].by = "tick"
               PROVE  runs[i].slot <= now' /\ \A w \in timer : runs[i].slot < w.at
    BY <1>1 DEF SlotsBehind
  <2>1. runs[i].slot <= now /\ \A w \in timer : runs[i].slot < w.at
    BY DEF SchedulerInv, TimerInv, SlotsBehind
  <2>2. runs[i].slot \in 0 .. Horizon
    BY InvFacts DEF Run
  <2> QED BY <1>1, <1>3, <2>1, <2>2
<1>7. ArmedForEarliest'
  <2>1. ArmedForEarliest /\ InFlight' = InFlight
    BY <1>1 DEF SchedulerInv, TimerInv, InFlight
  <2>2. ASSUME NEW w \in timer, NEW t \in Cron(table), NEW s \in table[t].trigger, s > now'
        PROVE  w.at <= s
    <3>1. table[t].trigger \in Patterns
      BY InvFacts DEF Cron, Task
    <3>2. s \in 1 .. Horizon
      BY <3>1, SchedulerAssumption
    <3>3. s > now
      BY <1>1, <1>3, <2>2, <3>2
    <3> QED BY <2>1, <3>3 DEF ArmedForEarliest
  <2> QED BY <1>1, <2>1, <2>2 DEF ArmedForEarliest
<1>8. TimerInv'
  BY <1>1, <1>4, <1>5, <1>6, <1>7 DEF SchedulerInv, TimerInv
<1>9. DownIsQuiet'
  BY <1>1 DEF SchedulerInv, DownIsQuiet, InFlight
<1> QED BY <1>1, <1>2, <1>8, <1>9 DEF SchedulerInv

LEMMA QuitKeeps == ASSUME SchedulerInv, Quit PROVE SchedulerInv'
<1>1. /\ up /\ quits < MaxQuits /\ quits' = quits + 1 /\ up' = FALSE /\ timer' = {}
      /\ counts' = [t \in Tasks |-> 0] /\ awaited' = timer
      /\ UNCHANGED <<now, table, edits>> /\ awaited = {}
  BY InvFacts DEF Quit
<1>2. runs' = [i \in DOMAIN runs |->
                  IF i \in InFlight THEN [runs[i] EXCEPT !.at = "cut-off"] ELSE runs[i]]
  BY DEF Quit
<1>3. ASSUME NEW i \in DOMAIN runs
      PROVE  /\ runs'[i] \in Run /\ runs'[i].task = runs[i].task /\ runs'[i].at # "in-flight"
             /\ runs'[i].by = runs[i].by /\ runs'[i].slot = runs[i].slot
  <2>1. runs[i] \in Run
    BY InvFacts
  <2> QED BY <1>2, <2>1 DEF Run, InFlight
<1>4. DOMAIN runs' = DOMAIN runs /\ runs' = [i \in DOMAIN runs |-> runs'[i]]
  BY <1>2
<1>5. runs' \in Seq(Run) /\ Len(runs') = Len(runs)
  BY <1>3, <1>4, InvFacts, SameLength
<1>6. Relabeled
  BY <1>3, <1>4, <1>5 DEF Relabeled
<1>7. InFlight' = {}
  BY <1>3, <1>4 DEF InFlight
<1>8. RunsInv'
  <2>1. ASSUME NEW t \in Tasks PROVE Cardinality(Counted(t)') = 0
    <3>1. Counted(t)' = {}
      BY <1>7 DEF Counted
    <3> QED BY <3>1, FS_EmptySet
  <2>2. CapKept'
    BY <1>1, <2>1, SchedulerAssumption DEF CapKept
  <2> QED BY <1>1, <1>5, <2>2 DEF SchedulerInv, RunsInv
<1>9. TimerInv'
  <2>1. TimerStored' /\ SlotAhead'
    BY <1>1 DEF SchedulerInv, TimerInv, TimerStored, SlotAhead
  <2>2. SlotsBehind'
    BY <1>1, <1>6 DEF SchedulerInv, TimerInv, SlotsBehind, Relabeled
  <2>3. SlotRunOnce'
    BY <1>6, RelabeledNoTick, StillRunOnce DEF SchedulerInv, TimerInv
  <2>4. ArmedForEarliest'
    BY <1>1 DEF ArmedForEarliest
  <2> QED BY <1>1, <2>1, <2>2, <2>3, <2>4 DEF SchedulerInv, TimerInv
<1>10. quits' \in 0 .. MaxQuits
  BY <1>1, SchedulerAssumption DEF SchedulerInv
<1> QED BY <1>1, <1>7, <1>8, <1>9, <1>10 DEF SchedulerInv, DownIsQuiet

LEMMA StartKeeps == ASSUME SchedulerInv, Start PROVE SchedulerInv'
<1>1. /\ up' = TRUE /\ ScheduleNext(table) /\ awaited' = {} /\ UNCHANGED <<now, edits, quits>>
  BY DEF Start
<1>2. RunsInv'
  BY StartKeepsCap DEF SchedulerInv
<1>3. NoTickAdded
  <2>1. PICK due \in SetToSeqs(Overdue) :
           runs' = runs \o [n \in DOMAIN due |-> Started(due[n], "catchup", NoTime)]
    BY DEF Start
  <2> DEFINE k == Cardinality(Overdue)
  <2>2. /\ k \in Nat /\ Len(runs) \in Nat
        /\ DOMAIN runs = 1 .. Len(runs) /\ DOMAIN runs' = 1 .. Len(runs) + k
        /\ \A i \in DOMAIN runs : runs'[i] = runs[i]
        /\ \A n \in 1 .. k : runs'[Len(runs) + n] = Started(due[n], "catchup", NoTime)
    BY <2>1, InvFacts, CatchupRuns
  <2> HIDE DEF k
  <2>3. ASSUME NEW i \in DOMAIN runs', i \notin DOMAIN runs PROVE runs'[i].by = "catchup"
    <3>1. i - Len(runs) \in 1 .. k /\ i = Len(runs) + (i - Len(runs))
      BY <2>2, <2>3
    <3>2. runs'[i] = Started(due[i - Len(runs)], "catchup", NoTime)
      BY <2>2, <3>1
    <3>3. \A t : Started(t, "catchup", NoTime).by = "catchup"
      BY DEF Started
    <3> QED BY <3>2, <3>3
  <2> QED BY <2>2, <2>3 DEF NoTickAdded
<1>4. TimerInv'
  BY <1>1, <1>2, <1>3, InvFacts, Rearmed DEF SchedulerInv
<1> QED BY <1>1, <1>2, <1>4 DEF SchedulerInv, DownIsQuiet

LEMMA StutterKeeps == SchedulerInv /\ UNCHANGED vars => SchedulerInv'
<1> SUFFICES ASSUME SchedulerInv, UNCHANGED vars PROVE SchedulerInv'
  OBVIOUS
<1> USE DEF vars
<1>1. RunsInv'
  BY RunsInvKept DEF SchedulerInv
<1>2. TimerInv'
  BY Undisturbed DEF SchedulerInv, NoTickAdded, NoTickEnds
<1>3. DownIsQuiet'
  BY DEF SchedulerInv, DownIsQuiet, InFlight
<1> QED BY <1>1, <1>2, <1>3 DEF SchedulerInv

LEMMA NextKeeps == SchedulerInv /\ [Next]_vars => SchedulerInv'
<1> SUFFICES ASSUME SchedulerInv, [Next]_vars PROVE SchedulerInv'
  OBVIOUS
<1>1. ASSUME NEW w \in timer, Tick(w) PROVE SchedulerInv'
  BY <1>1, TickKeeps
<1>2. ASSUME NEW t \in Tasks, FireTaskById(t) PROVE SchedulerInv'
  BY <1>2, FireTaskByIdKeeps
<1>3. ASSUME NEW t \in Tasks, RunNow(t) PROVE SchedulerInv'
  BY <1>3, RunNowKeeps
<1>4. ASSUME NEW t \in Tasks, NEW trigger \in Patterns \cup {Event}, CreateTask(t, trigger)
      PROVE  SchedulerInv'
  BY <1>4, CreateTaskKeeps
<1>5. ASSUME NEW t \in Tasks, NEW trigger \in Patterns \cup {Event},
             NEW state \in {"enabled", "disabled"}, UpdateTask(t, state, trigger)
      PROVE  SchedulerInv'
  BY <1>5, UpdateTaskKeeps
<1>6. ASSUME NEW t \in Tasks, DeleteTask(t) PROVE SchedulerInv'
  BY <1>6, DeleteTaskKeeps
<1>7. ASSUME NEW i \in DOMAIN runs, RunEnds(i) PROVE SchedulerInv'
  BY <1>7, RunEndsKeeps
<1>8. CASE Clock
  BY <1>8, ClockKeeps
<1>9. CASE Quit
  BY <1>9, QuitKeeps
<1>10. CASE Start
  BY <1>10, StartKeeps
<1>11. CASE UNCHANGED vars
  BY <1>11, StutterKeeps
<1> QED
  BY <1>1, <1>2, <1>3, <1>4, <1>5, <1>6, <1>7, <1>8, <1>9, <1>10, <1>11 DEF Next

-----------------------------------------------------------------------------
(* The theorems                                                            *)

LEMMA SchedulerInvariant == Spec => []SchedulerInv
<1>1. Init => SchedulerInv
  BY InitScheduler
<1>2. SchedulerInv /\ [Next]_vars => SchedulerInv'
  BY NextKeeps
<1> QED BY <1>1, <1>2, PTL DEF Spec

\* Every variable of the scheduler keeps its type; a counter never passes the number
\* of runs.
THEOREM SchedulerTypes == Spec => []TypeOK
<1>1. SchedulerInv => TypeOK
  BY InvImpliesType
<1> QED BY <1>1, SchedulerInvariant, PTL

\* The cap per task is kept over restarts, edits and deletions, and runningCounts is
\* at all times the number of runs it stands for.
THEOREM CapIsKept == Spec => []CapKept
<1>1. SchedulerInv => CapKept
  BY DEF SchedulerInv, RunsInv
<1> QED BY <1>1, SchedulerInvariant, PTL

\* scheduleNext() is called wherever it must be: the timer is neither lost nor late.
THEOREM TimerIsArmed == Spec => []ArmedForEarliest
<1>1. SchedulerInv => ArmedForEarliest
  BY DEF SchedulerInv, TimerInv
<1> QED BY <1>1, SchedulerInvariant, PTL

\* tick() runs no slot a second time, however late it is and whatever was edited.
THEOREM SlotsRunOnce == Spec => []SlotRunOnce
<1>1. SchedulerInv => SlotRunOnce
  BY DEF SchedulerInv, TimerInv
<1> QED BY <1>1, SchedulerInvariant, PTL

\* runCatchup() finds the slot the timer was waiting for when the process ended: what
\* it waits for is always the stored next run of an enabled cron task.
LEMMA StartCatchesUp ==
  ASSUME SchedulerInv, Start, NEW w \in awaited, w.at <= now
  PROVE  CaughtUp(w.task)
<1>1. w.task \in Cron(table) /\ table[w.task].nextRun = w.at
  BY DEF SchedulerInv, TimerInv, TimerStored
<1>2. w \in Timer
  BY DEF SchedulerInv, TimerInv
<1>3. w.task \in Tasks /\ w.at \in 1 .. now
  BY <1>2, InvFacts DEF Timer
<1>4. ~AtCap(w.task)
  <2>1. counts[w.task] = 0
    BY <1>3 DEF SchedulerInv, DownIsQuiet, Start
  <2> QED BY <2>1, SchedulerAssumption DEF AtCap
<1>5. w.task \in Overdue
  BY <1>1, <1>3, <1>4 DEF Overdue
<1>6. PICK due \in SetToSeqs(Overdue) :
         runs' = runs \o [n \in DOMAIN due |-> Started(due[n], "catchup", NoTime)]
  BY DEF Start
<1> DEFINE k == Cardinality(Overdue)
<1>7. /\ k \in Nat /\ Len(runs) \in Nat
      /\ DOMAIN runs = 1 .. Len(runs) /\ DOMAIN runs' = 1 .. Len(runs) + k
      /\ \A n \in 1 .. k : runs'[Len(runs) + n] = Started(due[n], "catchup", NoTime)
      /\ \A t \in Overdue : \E n \in 1 .. k : due[n] = t
  BY <1>6, InvFacts, CatchupRuns
<1> HIDE DEF k
<1>8. PICK n \in 1 .. k : due[n] = w.task
  BY <1>5, <1>7
<1>9. Len(runs) + n \in DOMAIN runs' \ DOMAIN runs
  BY <1>7
<1>10. \A t : Started(t, "catchup", NoTime).by = "catchup" /\ Started(t, "catchup", NoTime).task = t
  BY DEF Started
<1>11. runs'[Len(runs) + n].task = w.task /\ runs'[Len(runs) + n].by = "catchup"
  BY <1>7, <1>8, <1>10
<1> QED BY <1>9, <1>11 DEF CaughtUp

\* No restart loses the slot that was waited for.
THEOREM AwaitedSlotsCaughtUp == Spec => AwaitedSlotCaughtUp
<1>1. SchedulerInv /\ [Next]_vars =>
         [Start => \A w \in awaited : w.at <= now => CaughtUp(w.task)]_vars
  BY StartCatchesUp
<1> QED BY <1>1, SchedulerInvariant, PTL DEF Spec, AwaitedSlotCaughtUp
=============================================================================
