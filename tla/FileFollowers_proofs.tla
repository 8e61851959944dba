-------------------------- MODULE FileFollowers_proofs --------------------------
(* Proofs about what follows the files of a workspace. The triggers: the git     *)
(* hooks call the right script, and the reconciles of file watchers come to what *)
(* the tasks ask for. The index: what search and the graph tools answer from     *)
(* is what the files hold. The two share nothing.                                *)
EXTENDS EventTriggers, WorkspaceIndex, TLAPS

-----------------------------------------------------------------------------
(* The triggers: the inductive invariant                                   *)

\* The hook a task has is one it has asked for, and HooksCurrent.
HookInv ==
    /\ \A t \in Tasks, h \in Hooks : table[t].trigger = h => t \in claims[h]
    /\ HooksCurrent

Wanted(want) == {t \in Tasks : want[t] # NoGlob}

\* A list names for a task only watchers of that task, and a closed one sees nothing.
Proper(ws, list) ==
    /\ ws \in [Ids -> Watcher \cup {Gone}]
    /\ list \in [Tasks -> Ids \cup {None}]
    /\ \A t \in Tasks : list[t] # None => ws[list[t]] \in Watcher /\ ws[list[t]].task = t
    /\ \A i \in Ids : ws[i].pending => ws[i].open

\* What a reconcile that awaits something has before it.
Ahead(r) ==
    /\ r.want \in Wishes /\ r.task \in Tasks /\ r.todo \subseteq Wanted(r.want)
    /\ r.at = "stopping" => r.want[r.task] = NoGlob
    /\ r.at \in {"replacing", "starting"} => r.want[r.task] # NoGlob /\ r.task \notin r.todo

\* The watcher a reconcile has started is open and not listed yet.
Begun(r, ws, list) ==
    r.at = "starting" =>
        /\ r.id \in Ids
        /\ ws[r.id] \in Watcher /\ ws[r.id].open
        /\ ws[r.id].task = r.task /\ ws[r.id].glob = r.want[r.task]
        /\ \A t \in Tasks : list[t] # r.id

\* The reconciles ks, each with its own watcher begun, and a stop under way for every
\* watcher listed that is closed.
Apart(recs, ks, ws, list) ==
    /\ \A k \in ks : recs[k] # Idle => Ahead(recs[k]) /\ Begun(recs[k], ws, list)
    /\ \A j, k \in ks :
          j # k /\ recs[j].at = "starting" /\ recs[k].at = "starting" => recs[j].id # recs[k].id
    /\ \A t \in Tasks : list[t] # None /\ ~ws[list[t]].open =>
          \E k \in ks : recs[k].at \in {"stopping", "replacing"} /\ recs[k].task = t

\* What is listed for a task is what is wanted.
Matches(ws, list, want, t) ==
    IF want[t] = NoGlob THEN list[t] = None ELSE list[t] # None /\ ws[list[t]].glob = want[t]

Settled(ws, list, want) == \A t \in Tasks : Matches(ws, list, want, t)

\* A reconcile that is alone follows what is wanted, and has dealt with the tasks it
\* has passed.
Follows(r, ws, list, want) ==
    /\ r.want = want
    /\ r.at = "starting" => list[r.task] = None
    /\ r.at # "starting" => list[r.task] # None /\ ~ws[list[r.task]].open
    /\ IF r.at = "stopping"
       THEN r.todo = Wanted(want)
       ELSE \A t \in Tasks \ (r.todo \cup {r.task}) : Matches(ws, list, want, t)

\* The only watcher that is open and not listed is the one a reconcile has begun.
Accounted(recs, ws, list) ==
    \A i \in Open(ws) :
        \/ list[ws[i].task] = i
        \/ list[ws[i].task] = None /\ \E k \in Recs : recs[k].at = "starting" /\ recs[k].id = i

\* As long as no reconcile began while another was under way.
Calm ==
    /\ \A j, k \in UnderWay : j = k
    /\ Accounted(rec, watcher, listed)
    /\ up => /\ \A k \in UnderWay : Follows(rec[k], watcher, listed, Desired(table))
             /\ UnderWay = {} => Settled(watcher, listed, Desired(table))

WatchInv ==
    /\ Proper(watcher, listed)
    /\ Apart(rec, Recs, watcher, listed)
    /\ ~overlapped => Calm
    /\ ~up => /\ UnderWay = {}
              /\ \A t \in Tasks : listed[t] = None
              /\ \A i \in Ids : watcher[i] = Gone

TriggersInv == TypeOK /\ HookInv /\ WatchInv

-----------------------------------------------------------------------------
(* Watchers                                                                *)

LEMMA Numbers == None \notin Ids
  BY WatchersAssumption DEF Ids, None

LEMMA WatcherFields ==
  /\ \A w \in Watcher : /\ w.task \in Tasks /\ w.glob \in Globs /\ w.glob # NoGlob
                        /\ w.open \in BOOLEAN /\ w.pending \in BOOLEAN /\ w # Gone
  /\ ~Gone.open /\ ~Gone.pending
<1>1. \A w \in Watcher : /\ w.task \in Tasks /\ w.glob \in Globs /\ w.glob # NoGlob
                         /\ w.open \in BOOLEAN /\ w.pending \in BOOLEAN
  BY WatchersAssumption DEF Watcher
<1>2. ~Gone.open /\ ~Gone.pending
  BY DEF Gone
<1>3. \A w \in Watcher : w # Gone
  <2>1. \A w \in Watcher : "task" \in DOMAIN w
    BY DEF Watcher
  <2>2. "task" \notin DOMAIN Gone
    BY DEF Gone
  <2> QED BY <2>1, <2>2
<1> QED BY <1>1, <1>2, <1>3

\* Only a watcher that is open or listed is no longer gone, and a listed one is one.
LEMMA ProperFacts ==
  ASSUME NEW ws, NEW list, Proper(ws, list)
  PROVE  /\ \A i \in Ids : ws[i] \in Watcher \/ ws[i] = Gone
         /\ \A i \in Ids : ws[i].open \in BOOLEAN /\ ws[i].pending \in BOOLEAN
         /\ \A i \in Open(ws) : i \in Ids /\ ws[i] \in Watcher
         /\ \A t \in Tasks : list[t] # None => list[t] \in Ids
         /\ \A t, u \in Tasks : list[t] # None /\ list[t] = list[u] => t = u
<1>1. \A i \in Ids : ws[i] \in Watcher \/ ws[i] = Gone
  BY DEF Proper
<1>2. \A i \in Ids : ws[i].open \in BOOLEAN /\ ws[i].pending \in BOOLEAN
  <2>1. Gone.open \in BOOLEAN /\ Gone.pending \in BOOLEAN
    BY DEF Gone
  <2> QED BY <1>1, <2>1, WatcherFields
<1>3. \A i \in Open(ws) : i \in Ids /\ ws[i] \in Watcher
  <2>1. \A i \in Ids : ws[i] = Gone => ~ws[i].open
    BY WatcherFields
  <2> QED BY <1>1, <2>1 DEF Open
<1>4. \A t \in Tasks : list[t] # None => list[t] \in Ids
  BY DEF Proper
<1>5. \A t, u \in Tasks : list[t] # None /\ list[t] = list[u] => t = u
  BY DEF Proper
<1> QED BY <1>1, <1>2, <1>3, <1>4, <1>5

LEMMA StoppedWatcher ==
  ASSUME NEW ws, NEW list, Proper(ws, list), NEW t \in Tasks, list[t] # None
  PROVE  LET n == Stopped(ws, list[t])
         IN  /\ Proper(n, list)
             /\ \A i \in Ids \ {list[t]} : n[i] = ws[i]
             /\ n[list[t]] \in Watcher /\ ~n[list[t]].open
             /\ n[list[t]].task = t /\ n[list[t]].glob = ws[list[t]].glob
<1> DEFINE n == Stopped(ws, list[t])
           i == list[t]
<1>1. i \in Ids /\ ws[i] \in Watcher /\ ws[i].task = t /\ ws \in [Ids -> Watcher \cup {Gone}]
  BY DEF Proper
<1>2. n = [ws EXCEPT ![i] = [ws[i] EXCEPT !.open = FALSE, !.pending = FALSE]]
  BY <1>1 DEF Stopped
<1>3. /\ [ws[i] EXCEPT !.open = FALSE, !.pending = FALSE] \in Watcher
      /\ ~[ws[i] EXCEPT !.open = FALSE, !.pending = FALSE].open
      /\ ~[ws[i] EXCEPT !.open = FALSE, !.pending = FALSE].pending
      /\ [ws[i] EXCEPT !.open = FALSE, !.pending = FALSE].task = ws[i].task
      /\ [ws[i] EXCEPT !.open = FALSE, !.pending = FALSE].glob = ws[i].glob
  BY <1>1 DEF Watcher
<1>4. /\ n \in [Ids -> Watcher \cup {Gone}]
      /\ \A j \in Ids \ {i} : n[j] = ws[j]
      /\ n[i] \in Watcher /\ ~n[i].open /\ ~n[i].pending /\ n[i].task = t /\ n[i].glob = ws[i].glob
  BY <1>1, <1>2, <1>3
<1> HIDE DEF n
<1>5. Proper(n, list)
  BY <1>4 DEF Proper
<1> QED BY <1>4, <1>5 DEF n

LEMMA StartedWatcher ==
  ASSUME NEW ws, NEW list, Proper(ws, list), NEW i \in Ids, ws[i] = Gone,
         NEW t \in Tasks, NEW glob \in Globs
  PROVE  LET n == Started(ws, i, t, glob)
         IN  /\ Proper(n, list)
             /\ \A j \in Ids \ {i} : n[j] = ws[j]
             /\ n[i] \in Watcher /\ n[i].open /\ ~n[i].pending /\ n[i].task = t /\ n[i].glob = glob
             /\ \A u \in Tasks : list[u] # i
<1> DEFINE n == Started(ws, i, t, glob)
           w == [task |-> t, glob |-> glob, open |-> TRUE, pending |-> FALSE]
<1>1. w \in Watcher /\ w.open /\ ~w.pending /\ w.task = t /\ w.glob = glob
  BY DEF Watcher
<1>2. ws \in [Ids -> Watcher \cup {Gone}] /\ n = [ws EXCEPT ![i] = w]
  BY DEF Proper, Started
<1> HIDE DEF n, w
<1>3. n \in [Ids -> Watcher \cup {Gone}] /\ n[i] = w /\ \A j \in Ids \ {i} : n[j] = ws[j]
  BY <1>1, <1>2
<1>4. \A u \in Tasks : list[u] # i
  BY Numbers, WatcherFields DEF Proper
<1>5. Proper(n, list)
  BY <1>1, <1>3, <1>4 DEF Proper
<1> QED BY <1>1, <1>3, <1>4, <1>5 DEF n

LEMMA KnownWatchers ==
  ASSUME NEW ws, NEW list \in [Tasks -> Ids \cup {None}], ws \in [Ids -> Watcher \cup {Gone}],
         \A t \in Tasks : list[t] # None => ws[list[t]] \in Watcher /\ ws[list[t]].task = t,
         \A i \in Ids : ws[i].pending => ws[i].open
  PROVE  LET n == Known(ws, list)
         IN  /\ Proper(n, list)
             /\ \A t \in Tasks : list[t] # None => n[list[t]] = ws[list[t]]
             /\ \A i \in Ids : ws[i].open => n[i] = ws[i]
             /\ \A i \in Ids : n[i].open => ws[i].open
             /\ \A i \in Ids : n[i] = ws[i] \/ n[i] = Gone
<1> DEFINE n == Known(ws, list)
<1>1. \A i \in Ids : n[i] = IF i \in Open(ws) \cup Range(list) THEN ws[i] ELSE Gone
  BY DEF Known
<1>2. n \in [Ids -> Watcher \cup {Gone}]
  BY DEF Known
<1> HIDE DEF n
<1>3. \A t \in Tasks : list[t] # None => list[t] \in Ids /\ list[t] \in Range(list)
  BY DEF Range
<1>4. /\ \A t \in Tasks : list[t] # None => n[list[t]] = ws[list[t]]
      /\ \A i \in Ids : n[i] = ws[i] \/ n[i] = Gone
  BY <1>1, <1>3
<1>5. \A i \in Ids : ws[i].open => n[i] = ws[i]
  BY <1>1 DEF Open
<1>6. \A i \in Ids : (n[i].open => ws[i].open) /\ (n[i].pending => n[i].open)
  BY <1>4, WatcherFields
<1>7. Proper(n, list)
  BY <1>2, <1>4, <1>6 DEF Proper
<1> QED BY <1>4, <1>5, <1>6, <1>7 DEF n

-----------------------------------------------------------------------------
(* A reconcile up to its next await                                        *)

\* The reconcile k goes on as r.
Goes(k, r) == rec' = [rec EXCEPT ![k] = r]

\* Before the step of reconcile k, with what it knows by then.
Ready(k, ws, list, want, todo) ==
    /\ k \in Recs /\ rec \in [Recs -> Reconcile \cup {Idle}]
    /\ want \in Wishes /\ todo \subseteq Wanted(want)
    /\ Proper(ws, list)
    /\ Apart(rec, Recs \ {k}, ws, list)

\* It is alone, and all that is open is listed.
Alone(k, ws, list) ==
    /\ \A j \in Recs \ {k} : rec[j] = Idle
    /\ \A i \in Open(ws) : list[ws[i].task] = i

\* After it.
Kept(k, list, want) ==
    /\ rec' \in [Recs -> Reconcile \cup {Idle}]
    /\ \A j \in Recs \ {k} : rec'[j] = rec[j]
    /\ Proper(watcher', list)
    /\ Apart(rec', Recs, watcher', list)

KeptAlone(k, list, want) ==
    /\ Accounted(rec', watcher', list)
    /\ rec'[k] # Idle => Follows(rec'[k], watcher', list, want)
    /\ rec'[k] = Idle => Settled(watcher', list, want)

\* A watcher that is as wanted is left alone.
Spared(ws, want) == \A i \in Ids : ws[i] \in Watcher /\ want[ws[i].task] = ws[i].glob => watcher'[i] = ws[i]

LEMMA Ends ==
  ASSUME NEW k, NEW ws, NEW list, NEW want, NEW todo, Ready(k, ws, list, want, todo),
         watcher' = ws, Goes(k, Idle)
  PROVE  /\ Kept(k, list, want) /\ Spared(ws, want)
         /\ Alone(k, ws, list) /\ Settled(ws, list, want) => KeptAlone(k, list, want)
<1>1. /\ rec' \in [Recs -> Reconcile \cup {Idle}]
      /\ rec'[k] = Idle /\ \A j \in Recs \ {k} : rec'[j] = rec[j]
  BY DEF Goes, Ready
<1>2. Idle.at = "idle"
  BY DEF Idle
<1>3. Apart(rec', Recs, ws, list)
  BY <1>1, <1>2 DEF Ready, Apart
<1>4. Kept(k, list, want)
  BY <1>1, <1>3 DEF Kept, Ready
<1>5. ASSUME Alone(k, ws, list), Settled(ws, list, want) PROVE KeptAlone(k, list, want)
  BY <1>1, <1>5 DEF KeptAlone, Alone, Accounted
<1>6. Spared(ws, want)
  BY DEF Spared
<1> QED BY <1>4, <1>5, <1>6

\* A watcher is stopped, for good or to be replaced.
LEMMA Stops ==
  ASSUME NEW k, NEW ws, NEW list, NEW want, NEW todo, Ready(k, ws, list, want, todo),
         NEW t \in Tasks, list[t] # None, ws[list[t]].glob # want[t],
         NEW rest \in SUBSET todo, t \notin rest,
         NEW at \in {"stopping", "replacing"}, at = "stopping" <=> want[t] = NoGlob,
         watcher' = Stopped(ws, list[t]),
         Goes(k, [at |-> at, want |-> want, todo |-> rest, task |-> t])
  PROVE  /\ Kept(k, list, want) /\ Spared(ws, want)
         /\ Alone(k, ws, list) /\ (at = "stopping" => rest = Wanted(want))
            /\ (at = "replacing" => \A u \in Tasks \ (rest \cup {t}) : Matches(ws, list, want, u))
            => KeptAlone(k, list, want)
<1> DEFINE r == [at |-> at, want |-> want, todo |-> rest, task |-> t]
<1>1. r.at = at /\ r.want = want /\ r.todo = rest /\ r.task = t
  OBVIOUS
<1>2. r \in Reconcile /\ Ahead(r) /\ r.at # "starting"
  <2>1. rest \subseteq Tasks
    BY DEF Ready, Wanted
  <2> QED BY <2>1 DEF Ready, Ahead, Reconcile
<1>3. r # Idle
  BY <1>1 DEF Idle
<1> HIDE DEF r
<1>4. /\ rec' \in [Recs -> Reconcile \cup {Idle}]
      /\ rec'[k] = r /\ \A j \in Recs \ {k} : rec'[j] = rec[j]
  BY <1>2 DEF Goes, Ready, r
<1>5. Proper(ws, list) /\ k \in Recs
  BY DEF Ready
<1>6. /\ Proper(watcher', list)
      /\ \A i \in Ids \ {list[t]} : watcher'[i] = ws[i]
      /\ watcher'[list[t]] \in Watcher /\ ~watcher'[list[t]].open
      /\ watcher'[list[t]].task = t /\ watcher'[list[t]].glob = ws[list[t]].glob
  BY <1>5, StoppedWatcher
<1>7. \A j \in Recs \ {k} : rec[j] # Idle => Ahead(rec[j]) /\ Begun(rec[j], watcher', list)
  BY <1>6 DEF Ready, Apart, Begun
<1>8. ASSUME NEW u \in Tasks, list[u] # None, ~watcher'[list[u]].open
      PROVE  \E j \in Recs : rec'[j].at \in {"stopping", "replacing"} /\ rec'[j].task = u
  <2>1. CASE u = t
    BY <1>1, <1>4, <1>5, <2>1
  <2>2. CASE u # t
    <3>1. ~ws[list[u]].open
      BY <1>5, <1>6, <1>8, <2>2, ProperFacts
    <3> QED BY <1>4, <1>8, <3>1 DEF Ready, Apart
  <2> QED BY <2>1, <2>2
<1>9. Apart(rec', Recs, watcher', list)
  <2>1. \A j \in Recs : rec'[j] # Idle => Ahead(rec'[j]) /\ Begun(rec'[j], watcher', list)
    BY <1>2, <1>4, <1>7 DEF Begun
  <2>2. \A j, l \in Recs : j # l /\ rec'[j].at = "starting" /\ rec'[l].at = "starting" => rec'[j].id # rec'[l].id
    BY <1>2, <1>4 DEF Ready, Apart
  <2> QED BY <1>8, <2>1, <2>2 DEF Apart
<1>10. Kept(k, list, want)
  BY <1>4, <1>6, <1>9 DEF Kept
<1>11. Spared(ws, want)
  BY <1>5, <1>6 DEF Spared, Proper
<1>12. ASSUME Alone(k, ws, list), at = "stopping" => rest = Wanted(want),
              at = "replacing" => \A u \in Tasks \ (rest \cup {t}) : Matches(ws, list, want, u)
       PROVE  KeptAlone(k, list, want)
  <2>1. Accounted(rec', watcher', list)
    <3>1. \A i \in Open(watcher') : i \in Open(ws) /\ watcher'[i] = ws[i]
      BY <1>6 DEF Open
    <3> QED BY <1>12, <3>1 DEF Accounted, Alone
  <2>2. \A u \in Tasks : Matches(ws, list, want, u) => Matches(watcher', list, want, u)
    <3> SUFFICES ASSUME NEW u \in Tasks, list[u] # None PROVE watcher'[list[u]].glob = ws[list[u]].glob
      BY DEF Matches
    <3> QED BY <1>5, <1>6, ProperFacts
  <2>3. Follows(r, watcher', list, want)
    BY <1>1, <1>2, <1>6, <1>12, <2>2 DEF Follows
  <2> QED BY <1>3, <1>4, <2>1, <2>3 DEF KeptAlone
<1> QED BY <1>10, <1>11, <1>12

\* A watcher is started for a task that has none listed.
LEMMA Begins ==
  ASSUME NEW k, NEW ws, NEW list, NEW want, NEW todo, Ready(k, ws, list, want, todo),
         NEW t \in Wanted(want), list[t] = None, NEW rest \in SUBSET todo, t \notin rest,
         NEW i \in Ids, ws[i] = Gone, watcher' = Started(ws, i, t, want[t]),
         Goes(k, [at |-> "starting", want |-> want, todo |-> rest, task |-> t, id |-> i])
  PROVE  /\ Kept(k, list, want) /\ Spared(ws, want)
         /\ Alone(k, ws, list) /\ (\A u \in Tasks \ (rest \cup {t}) : Matches(ws, list, want, u))
            => KeptAlone(k, list, want)
<1> DEFINE r == [at |-> "starting", want |-> want, todo |-> rest, task |-> t, id |-> i]
<1>1. r.at = "starting" /\ r.want = want /\ r.todo = rest /\ r.task = t /\ r.id = i
  OBVIOUS
<1>2. t \in Tasks /\ want[t] \in Globs /\ want[t] # NoGlob /\ rest \subseteq Tasks
  BY DEF Ready, Wanted, Wishes
<1>3. r \in Reconcile /\ Ahead(r)
  BY <1>1, <1>2 DEF Ready, Ahead, Reconcile
<1>4. r # Idle
  BY <1>1 DEF Idle
<1> HIDE DEF r
<1>5. /\ rec' \in [Recs -> Reconcile \cup {Idle}]
      /\ rec'[k] = r /\ \A j \in Recs \ {k} : rec'[j] = rec[j]
  BY <1>3 DEF Goes, Ready, r
<1>6. Proper(ws, list) /\ k \in Recs
  BY DEF Ready
<1>7. /\ Proper(watcher', list)
      /\ \A j \in Ids \ {i} : watcher'[j] = ws[j]
      /\ watcher'[i] \in Watcher /\ watcher'[i].open /\ watcher'[i].task = t
      /\ watcher'[i].glob = want[t]
      /\ \A u \in Tasks : list[u] # i
  BY <1>2, <1>6, StartedWatcher
<1>8. \A j \in Recs \ {k} : rec[j].at = "starting" => rec[j].id \in Ids \ {i} /\ rec[j] # Idle
  BY WatcherFields DEF Ready, Apart, Begun, Idle
<1>9. \A j \in Recs \ {k} : rec[j] # Idle => Ahead(rec[j]) /\ Begun(rec[j], watcher', list)
  BY <1>7, <1>8 DEF Ready, Apart, Begun
<1>10. ASSUME NEW u \in Tasks, list[u] # None, ~watcher'[list[u]].open
       PROVE  \E j \in Recs : rec'[j].at \in {"stopping", "replacing"} /\ rec'[j].task = u
  <2>1. ~ws[list[u]].open
    BY <1>6, <1>7, <1>10, ProperFacts
  <2> QED BY <1>5, <1>10, <2>1 DEF Ready, Apart
<1>11. Apart(rec', Recs, watcher', list)
  <2>1. \A j \in Recs : rec'[j] # Idle => Ahead(rec'[j]) /\ Begun(rec'[j], watcher', list)
    BY <1>1, <1>3, <1>5, <1>7, <1>9 DEF Begun
  <2>2. \A j, l \in Recs : j # l /\ rec'[j].at = "starting" /\ rec'[l].at = "starting" => rec'[j].id # rec'[l].id
    BY <1>1, <1>5, <1>8 DEF Ready, Apart
  <2> QED BY <1>10, <2>1, <2>2 DEF Apart
<1>12. Kept(k, list, want)
  BY <1>5, <1>7, <1>11 DEF Kept
<1>13. Spared(ws, want)
  BY <1>6, <1>7, WatcherFields DEF Spared, Proper
<1>14. ASSUME Alone(k, ws, list), \A u \in Tasks \ (rest \cup {t}) : Matches(ws, list, want, u)
       PROVE  KeptAlone(k, list, want)
  <2>1. Accounted(rec', watcher', list)
    <3>1. \A j \in Open(watcher') : j = i \/ (j \in Open(ws) /\ watcher'[j] = ws[j])
      BY <1>7 DEF Open
    <3> QED BY <1>1, <1>5, <1>6, <1>7, <1>14, <3>1 DEF Accounted, Alone
  <2>2. \A u \in Tasks : Matches(ws, list, want, u) => Matches(watcher', list, want, u)
    <3> SUFFICES ASSUME NEW u \in Tasks, list[u] # None PROVE watcher'[list[u]].glob = ws[list[u]].glob
      BY DEF Matches
    <3> QED BY <1>6, <1>7, ProperFacts
  <2>3. Follows(r, watcher', list, want)
    BY <1>1, <1>14, <2>2 DEF Follows
  <2> QED BY <1>4, <1>5, <2>1, <2>3 DEF KeptAlone
<1> QED BY <1>12, <1>13, <1>14

\* The second loop goes on to the next task that needs it.
LEMMA StartWantedKeeps ==
  ASSUME NEW k, NEW ws, NEW list, NEW want, NEW todo, Ready(k, ws, list, want, todo),
         StartWanted(k, ws, list, want, todo)
  PROVE  /\ Kept(k, list, want) /\ Spared(ws, want)
         /\ Alone(k, ws, list) /\ (\A u \in Tasks \ todo : Matches(ws, list, want, u))
            => KeptAlone(k, list, want)
<1> DEFINE needed == Needed(ws, list, want, todo)
<1>1. /\ needed \subseteq todo /\ todo \subseteq Tasks
      /\ \A t \in todo : want[t] # NoGlob /\ (t \in needed <=> list[t] = None \/ ws[list[t]].glob # want[t])
  BY DEF Needed, Ready, Wanted
<1>2. \A t \in todo \ needed : Matches(ws, list, want, t)
  BY <1>1 DEF Matches
<1>3. \/ needed = {} /\ watcher' = ws /\ Goes(k, Idle)
      \/ \E t \in needed, passed \in SUBSET (todo \ needed) :
            LET rest == todo \ (passed \cup {t}) IN
            \/ /\ list[t] # None
               /\ watcher' = Stopped(ws, list[t])
               /\ Goes(k, [at |-> "replacing", want |-> want, todo |-> rest, task |-> t])
            \/ /\ list[t] = None
               /\ \E i \in Ids :
                     /\ ws[i] = Gone
                     /\ watcher' = Started(ws, i, t, want[t])
                     /\ Goes(k, [at |-> "starting", want |-> want, todo |-> rest, task |-> t, id |-> i])
  BY DEF StartWanted, Goes
<1> HIDE DEF needed
<1>4. CASE needed = {} /\ watcher' = ws /\ Goes(k, Idle)
  <2>1. (\A u \in Tasks \ todo : Matches(ws, list, want, u)) => Settled(ws, list, want)
    BY <1>2, <1>4 DEF Settled
  <2> QED BY <1>4, <2>1, Ends
<1>5. ASSUME NEW t \in needed, NEW passed \in SUBSET (todo \ needed), NEW rest,
             rest = todo \ (passed \cup {t}), list[t] # None, watcher' = Stopped(ws, list[t]),
             Goes(k, [at |-> "replacing", want |-> want, todo |-> rest, task |-> t])
      PROVE  /\ Kept(k, list, want) /\ Spared(ws, want)
             /\ Alone(k, ws, list) /\ (\A u \in Tasks \ todo : Matches(ws, list, want, u))
                => KeptAlone(k, list, want)
  <2>1. /\ t \in Tasks /\ rest \in SUBSET todo /\ t \notin rest /\ want[t] # NoGlob
        /\ ws[list[t]].glob # want[t]
    BY <1>1, <1>5
  <2>2. (\A u \in Tasks \ todo : Matches(ws, list, want, u))
           => \A u \in Tasks \ (rest \cup {t}) : Matches(ws, list, want, u)
    BY <1>1, <1>2, <1>5
  <2> QED BY <1>5, <2>1, <2>2, Stops
<1>6. ASSUME NEW t \in needed, NEW passed \in SUBSET (todo \ needed), NEW rest,
             rest = todo \ (passed \cup {t}), list[t] = None,
             NEW i \in Ids, ws[i] = Gone, watcher' = Started(ws, i, t, want[t]),
             Goes(k, [at |-> "starting", want |-> want, todo |-> rest, task |-> t, id |-> i])
      PROVE  /\ Kept(k, list, want) /\ Spared(ws, want)
             /\ Alone(k, ws, list) /\ (\A u \in Tasks \ todo : Matches(ws, list, want, u))
                => KeptAlone(k, list, want)
  <2>1. t \in Wanted(want) /\ rest \in SUBSET todo /\ t \notin rest
    BY <1>1, <1>6 DEF Wanted
  <2>2. (\A u \in Tasks \ todo : Matches(ws, list, want, u))
           => \A u \in Tasks \ (rest \cup {t}) : Matches(ws, list, want, u)
    BY <1>1, <1>2, <1>6
  <2> QED BY <1>6, <2>1, <2>2, Begins
<1> QED BY <1>3, <1>4, <1>5, <1>6

\* The first loop goes on, or is done and the second begins.
LEMMA StopUnwantedKeeps ==
  ASSUME NEW k, NEW ws, NEW list, NEW want, Ready(k, ws, list, want, Wanted(want)),
         StopUnwanted(k, ws, list, want)
  PROVE  /\ Kept(k, list, want) /\ Spared(ws, want)
         /\ Alone(k, ws, list) => KeptAlone(k, list, want)
<1> DEFINE unwanted == {t \in Tasks : list[t] # None /\ want[t] = NoGlob}
<1>1. CASE unwanted = {}
  <2>1. StartWanted(k, ws, list, want, Wanted(want))
    BY <1>1 DEF StopUnwanted, Wanted
  <2>2. \A u \in Tasks \ Wanted(want) : Matches(ws, list, want, u)
    BY <1>1 DEF Wanted, Matches
  <2> QED BY <2>1, <2>2, StartWantedKeeps
<1>2. CASE unwanted # {}
  <2>1. PICK t \in unwanted : /\ watcher' = Stopped(ws, list[t])
                              /\ Goes(k, [at |-> "stopping", want |-> want, todo |-> Wanted(want), task |-> t])
    BY <1>2 DEF StopUnwanted, Wanted, Goes
  <2>2. t \in Tasks /\ list[t] # None /\ want[t] = NoGlob /\ t \notin Wanted(want)
    BY DEF Wanted
  <2>3. ws[list[t]].glob # want[t]
    BY <2>2, WatcherFields DEF Ready, Proper
  <2> QED BY <2>1, <2>2, <2>3, Stops
<1> QED BY <1>1, <1>2

-----------------------------------------------------------------------------
(* The watchers in every step                                              *)

LEMMA DesiredWishes ==
  ASSUME NEW tbl
  PROVE  /\ Desired(tbl) \in Wishes
         /\ \A t \in Tasks, glob \in Globs :
               Desired(tbl)[t] = glob <=> (tbl[t].state = "enabled" /\ tbl[t].trigger = glob)
  BY WatchersAssumption DEF Desired, Enabled, Wishes

WatchersKept == WatchersTypeOK' /\ WatchInv'

LEMMA KeptTypes ==
  ASSUME Proper(watcher, listed)', rec' \in [Recs -> Reconcile \cup {Idle}], overlapped' \in BOOLEAN
  PROVE  WatchersTypeOK'
  BY WatcherFields DEF WatchersTypeOK, Proper

\* A reconcile has taken a step: its invariant, given what it follows.
LEMMA ReconcileKeeps ==
  ASSUME NEW k \in Recs, Kept(k, listed', Desired(table')), overlapped' \in BOOLEAN, up',
         ~overlapped' => /\ \A j \in Recs \ {k} : rec[j] = Idle
                         /\ KeptAlone(k, listed', Desired(table'))
  PROVE  WatchersKept
<1>1. WatchersTypeOK'
  BY KeptTypes DEF Kept
<1>2. Proper(watcher, listed)' /\ Apart(rec, Recs, watcher, listed)'
  BY DEF Kept
<1>3. ASSUME ~overlapped' PROVE Calm'
  <2>1. \A j \in Recs \ {k} : rec'[j] = Idle
    BY <1>3 DEF Kept
  <2>2. \A j \in UnderWay' : j = k
    BY <2>1 DEF UnderWay
  <2>3. /\ Accounted(rec', watcher', listed')
        /\ rec'[k] # Idle => Follows(rec'[k], watcher', listed', Desired(table'))
        /\ rec'[k] = Idle => Settled(watcher', listed', Desired(table'))
    BY <1>3 DEF KeptAlone
  <2>4. k \in UnderWay' <=> rec'[k] # Idle
    BY DEF UnderWay
  <2>5. \A j \in UnderWay' : Follows(rec'[j], watcher', listed', Desired(table'))
    BY <2>2, <2>3, <2>4
  <2>6. UnderWay' = {} => Settled(watcher', listed', Desired(table'))
    BY <2>3, <2>4
  <2> QED BY <2>2, <2>3, <2>5, <2>6 DEF Calm
<1> QED BY <1>1, <1>2, <1>3 DEF WatchersKept, WatchInv

LEMMA ReconcileBeginsKeeps ==
  ASSUME TypeOK, WatchInv, up', NEW want, want = Desired(table'), ReconcileBegins(want)
  PROVE  WatchersKept /\ Spared(watcher, want)
<1>1. PICK k \in Recs : k \notin UnderWay /\ StopUnwanted(k, watcher, listed, want)
  BY DEF ReconcileBegins
<1>2. overlapped' = (overlapped \/ UnderWay # {}) /\ listed' = listed
  BY DEF ReconcileBegins
<1>3. rec[k] = Idle /\ rec[k].at = "idle"
  BY <1>1 DEF UnderWay, Idle
<1>4. Apart(rec, Recs \ {k}, watcher, listed)
  BY <1>3 DEF WatchInv, Apart
<1>5. Ready(k, watcher, listed, want, Wanted(want))
  BY <1>4, DesiredWishes DEF Ready, WatchInv, TypeOK, WatchersTypeOK
<1>6. /\ Kept(k, listed, want) /\ Spared(watcher, want)
      /\ Alone(k, watcher, listed) => KeptAlone(k, listed, want)
  BY <1>1, <1>5, StopUnwantedKeeps
<1>7. ASSUME ~overlapped'
      PROVE  (\A j \in Recs \ {k} : rec[j] = Idle) /\ KeptAlone(k, listed, want)
  <2>1. ~overlapped /\ UnderWay = {}
    BY <1>2, <1>7
  <2>2. \A j \in Recs : rec[j] = Idle /\ rec[j].at = "idle"
    BY <2>1 DEF UnderWay, Idle
  <2>3. \A i \in Open(watcher) : listed[watcher[i].task] = i
    BY <2>1, <2>2 DEF WatchInv, Calm, Accounted
  <2> QED BY <1>6, <2>2, <2>3 DEF Alone
<1>8. overlapped' \in BOOLEAN
  BY <1>2 DEF TypeOK, WatchersTypeOK
<1>9. WatchersKept
  BY <1>2, <1>6, <1>7, <1>8, ReconcileKeeps
<1> QED BY <1>6, <1>9

\* A reconcile that awaits something lives in a process, and is alone if none overlapped.
LEMMA Awaiting ==
  ASSUME TypeOK, WatchInv, NEW k \in Recs, rec[k].at \in {"stopping", "replacing", "starting"}
  PROVE  /\ up /\ rec[k] # Idle /\ Ahead(rec[k]) /\ Begun(rec[k], watcher, listed)
         /\ ~overlapped => /\ \A j \in Recs \ {k} : rec[j] = Idle
                           /\ Follows(rec[k], watcher, listed, Desired(table))
                           /\ Accounted(rec, watcher, listed)
<1>1. rec[k] # Idle /\ k \in UnderWay
  BY DEF Idle, UnderWay
<1>2. up
  BY <1>1 DEF WatchInv
<1>3. Ahead(rec[k]) /\ Begun(rec[k], watcher, listed)
  BY <1>1 DEF WatchInv, Apart
<1>4. ASSUME ~overlapped
      PROVE  /\ \A j \in Recs \ {k} : rec[j] = Idle
             /\ Follows(rec[k], watcher, listed, Desired(table))
             /\ Accounted(rec, watcher, listed)
  <2>1. \A j \in Recs \ {k} : rec[j] = Idle
    BY <1>1, <1>4 DEF WatchInv, Calm, UnderWay
  <2> QED BY <1>1, <1>2, <1>4, <2>1 DEF WatchInv, Calm
<1> QED BY <1>1, <1>2, <1>3, <1>4

\* The list without the watcher that a reconcile stops, and the watchers then known.
Unlisted(k) == [listed EXCEPT ![rec[k].task] = None]
Remaining(k) == Known(watcher, Unlisted(k))

\* A watcher has stopped: what is listed for its task is taken off the list.
LEMMA Unlists ==
  ASSUME TypeOK, WatchInv, NEW k \in Recs, rec[k].at \in {"stopping", "replacing"},
         NEW list, list = Unlisted(k), NEW ws, ws = Remaining(k)
  PROVE  /\ Ready(k, ws, list, rec[k].want, rec[k].todo)
         /\ ~overlapped => Alone(k, ws, list)
         /\ list[rec[k].task] = None
         /\ \A i \in Ids : watcher[i].open => ws[i] = watcher[i]
         /\ \A u \in Tasks \ {rec[k].task} :
               list[u] = listed[u] /\ (list[u] # None => ws[list[u]] = watcher[list[u]])
<1> DEFINE r == rec[k]
<1>1. rec[k] # Idle /\ Ahead(r) /\ r.task \in Tasks
  BY Awaiting DEF Ahead
<1>2. Proper(watcher, listed) /\ Apart(rec, Recs, watcher, listed)
  BY DEF WatchInv
<1>3. /\ list \in [Tasks -> Ids \cup {None}] /\ list[r.task] = None
      /\ \A u \in Tasks \ {r.task} : list[u] = listed[u]
  BY <1>1, <1>2 DEF Proper, Unlisted
<1>4. /\ Proper(ws, list)
      /\ \A t \in Tasks : list[t] # None => ws[list[t]] = watcher[list[t]]
      /\ \A i \in Ids : watcher[i].open => ws[i] = watcher[i]
      /\ \A i \in Ids : ws[i].open => watcher[i].open
  <2>1. /\ watcher \in [Ids -> Watcher \cup {Gone}]
        /\ \A i \in Ids : watcher[i].pending => watcher[i].open
        /\ \A t \in Tasks : list[t] # None => watcher[list[t]] \in Watcher /\ watcher[list[t]].task = t
    BY <1>2, <1>3 DEF Proper
  <2>2. ws = Known(watcher, list)
    BY DEF Remaining
  <2>3. LET n == Known(watcher, list)
        IN  /\ Proper(n, list)
            /\ \A t \in Tasks : list[t] # None => n[list[t]] = watcher[list[t]]
            /\ \A i \in Ids : watcher[i].open => n[i] = watcher[i]
            /\ \A i \in Ids : n[i].open => watcher[i].open
    BY <1>3, <2>1, KnownWatchers
  <2> QED BY <2>2, <2>3
<1>5. ASSUME NEW j \in Recs \ {k}, rec[j] # Idle PROVE Ahead(rec[j]) /\ Begun(rec[j], ws, list)
  <2>1. Ahead(rec[j]) /\ Begun(rec[j], watcher, listed)
    BY <1>2, <1>5 DEF Apart
  <2> QED BY <1>3, <1>4, <2>1, Numbers DEF Begun
<1>6. ASSUME NEW t \in Tasks, list[t] # None, ~ws[list[t]].open
      PROVE  \E j \in Recs \ {k} : rec[j].at \in {"stopping", "replacing"} /\ rec[j].task = t
  <2>1. t # r.task /\ list[t] = listed[t] /\ ~watcher[listed[t]].open
    BY <1>3, <1>4, <1>6
  <2> QED BY <1>2, <1>6, <2>1 DEF Apart
<1>7. Apart(rec, Recs \ {k}, ws, list)
  BY <1>2, <1>5, <1>6 DEF Apart
<1>8. Ready(k, ws, list, r.want, r.todo)
  BY <1>1, <1>4, <1>7 DEF Ready, Ahead, TypeOK, WatchersTypeOK
<1>9. ASSUME ~overlapped PROVE Alone(k, ws, list)
  <2>1. /\ \A j \in Recs \ {k} : rec[j] = Idle
        /\ Follows(r, watcher, listed, Desired(table)) /\ Accounted(rec, watcher, listed)
    BY <1>9, Awaiting
  <2>2. \A j \in Recs : rec[j].at # "starting"
    BY <2>1 DEF Idle
  <2>3. \A i \in Open(watcher) : listed[watcher[i].task] = i
    BY <2>1, <2>2 DEF Accounted
  <2>4. ~watcher[listed[r.task]].open
    BY <2>1 DEF Follows
  <2>5. ASSUME NEW i \in Open(ws) PROVE list[ws[i].task] = i
    <3>1. i \in Open(watcher) /\ ws[i] = watcher[i] /\ watcher[i].task \in Tasks
      BY <1>2, <1>4, WatcherFields, ProperFacts DEF Open
    <3>2. watcher[i].task # r.task
      BY <2>3, <2>4, <3>1 DEF Open
    <3> QED BY <1>3, <2>3, <3>1, <3>2
  <2> QED BY <2>1, <2>5 DEF Alone
<1> QED BY <1>3, <1>4, <1>8, <1>9

\* A step of a reconcile leaves alone an open watcher that is as wanted.
SparesOpen(want) ==
    \A i \in Ids : watcher[i].open /\ want[watcher[i].task] = watcher[i].glob => watcher'[i] = watcher[i]

LEMMA SparedOpen ==
  ASSUME TypeOK, WatchInv, NEW ws, NEW want, Spared(ws, want),
         \A i \in Ids : watcher[i].open => ws[i] = watcher[i]
  PROVE  SparesOpen(want)
<1>1. \A i \in Ids : watcher[i].open => watcher[i] \in Watcher
  BY ProperFacts DEF WatchInv, Open
<1> QED BY <1>1 DEF Spared, SparesOpen

LEMMA StopEndsKeeps ==
  ASSUME TypeOK, WatchInv, NEW k \in Recs, StopEnds(k), UNCHANGED <<table, up>>
  PROVE  WatchersKept /\ (~overlapped' => SparesOpen(Desired(table')))
<1> DEFINE r == rec[k]
           list == Unlisted(k)
           ws == Remaining(k)
<1>1. /\ r.at = "stopping" /\ listed' = list /\ overlapped' = overlapped
      /\ StopUnwanted(k, ws, list, r.want)
  BY DEF StopEnds, Unlisted, Remaining
<1>2. /\ Ready(k, ws, list, r.want, r.todo) /\ (~overlapped => Alone(k, ws, list))
      /\ \A i \in Ids : watcher[i].open => ws[i] = watcher[i]
  BY <1>1, Unlists
<1> HIDE DEF list, ws
<1>3. Ready(k, ws, list, r.want, Wanted(r.want))
  BY <1>2 DEF Ready
<1>4. /\ Kept(k, list, r.want) /\ Spared(ws, r.want)
      /\ Alone(k, ws, list) => KeptAlone(k, list, r.want)
  BY <1>1, <1>3, StopUnwantedKeeps
<1>5. /\ up /\ overlapped' \in BOOLEAN
      /\ ~overlapped => (\A j \in Recs \ {k} : rec[j] = Idle) /\ r.want = Desired(table')
  BY <1>1, Awaiting DEF Follows, TypeOK, WatchersTypeOK
<1>6. Kept(k, listed', Desired(table'))
  BY <1>1, <1>4 DEF Kept
<1>7. WatchersKept
  BY <1>1, <1>2, <1>4, <1>5, <1>6, ReconcileKeeps
<1>8. ~overlapped' => SparesOpen(Desired(table'))
  BY <1>1, <1>2, <1>4, <1>5, SparedOpen
<1> QED BY <1>7, <1>8

LEMMA ReplacedEndsKeeps ==
  ASSUME TypeOK, WatchInv, NEW k \in Recs, ReplacedEnds(k), UNCHANGED <<table, up>>
  PROVE  WatchersKept /\ (~overlapped' => SparesOpen(Desired(table')))
<1> DEFINE r == rec[k]
           list == Unlisted(k)
           ws == Remaining(k)
<1>1. /\ r.at = "replacing" /\ listed' = list /\ overlapped' = overlapped
      /\ \E i \in Ids :
            /\ ws[i] = Gone
            /\ watcher' = Started(ws, i, r.task, r.want[r.task])
            /\ Goes(k, [at |-> "starting", want |-> r.want, todo |-> r.todo, task |-> r.task, id |-> i])
  BY DEF ReplacedEnds, Goes, Unlisted, Remaining
<1>2. /\ Ready(k, ws, list, r.want, r.todo) /\ (~overlapped => Alone(k, ws, list))
      /\ list[r.task] = None
      /\ \A i \in Ids : watcher[i].open => ws[i] = watcher[i]
      /\ \A u \in Tasks \ {r.task} :
            list[u] = listed[u] /\ (list[u] # None => ws[list[u]] = watcher[list[u]])
  BY <1>1, Unlists
<1> HIDE DEF list, ws
<1>3. r.task \in Wanted(r.want) /\ r.todo \in SUBSET r.todo /\ r.task \notin r.todo
  BY <1>1, Awaiting DEF Ahead, Wanted
<1>4. /\ Kept(k, list, r.want) /\ Spared(ws, r.want)
      /\ Alone(k, ws, list) /\ (\A u \in Tasks \ (r.todo \cup {r.task}) : Matches(ws, list, r.want, u))
            => KeptAlone(k, list, r.want)
  BY <1>1, <1>2, <1>3, Begins
<1>5. /\ up /\ overlapped' \in BOOLEAN
      /\ ~overlapped => /\ \A j \in Recs \ {k} : rec[j] = Idle
                        /\ r.want = Desired(table')
                        /\ \A u \in Tasks \ (r.todo \cup {r.task}) : Matches(watcher, listed, r.want, u)
  BY <1>1, Awaiting DEF Follows, TypeOK, WatchersTypeOK
<1>6. \A u \in Tasks \ {r.task} : Matches(watcher, listed, r.want, u) => Matches(ws, list, r.want, u)
  BY <1>2 DEF Matches
<1>7. Kept(k, listed', Desired(table'))
  BY <1>1, <1>4 DEF Kept
<1>8. ~overlapped => KeptAlone(k, list, r.want)
  BY <1>2, <1>4, <1>5, <1>6
<1>9. WatchersKept
  BY <1>1, <1>5, <1>7, <1>8, ReconcileKeeps
<1>10. ~overlapped' => SparesOpen(Desired(table'))
  BY <1>1, <1>2, <1>4, <1>5, SparedOpen
<1> QED BY <1>9, <1>10

\* The watcher that was begun is listed for its task, in place of any other.
LEMMA StartEndsKeeps ==
  ASSUME TypeOK, WatchInv, NEW k \in Recs, StartEnds(k), UNCHANGED <<table, up>>
  PROVE  WatchersKept /\ (~overlapped' => SparesOpen(Desired(table')))
<1> DEFINE r == rec[k]
           list == [listed EXCEPT ![r.task] = r.id]
           ws == Known(watcher, list)
<1>1. /\ r.at = "starting" /\ listed' = list /\ overlapped' = overlapped
      /\ StartWanted(k, ws, list, r.want, r.todo)
  BY DEF StartEnds
<1>2. /\ up /\ r # Idle /\ Ahead(r) /\ Begun(r, watcher, listed)
      /\ ~overlapped => /\ \A j \in Recs \ {k} : rec[j] = Idle
                        /\ Follows(r, watcher, listed, Desired(table))
                        /\ Accounted(rec, watcher, listed)
  BY <1>1, Awaiting
<1>3. /\ r.task \in Tasks /\ r.id \in Ids /\ r.id # None
      /\ watcher[r.id] \in Watcher /\ watcher[r.id].open
      /\ watcher[r.id].task = r.task /\ watcher[r.id].glob = r.want[r.task]
      /\ \A t \in Tasks : listed[t] # r.id
  BY <1>1, <1>2, Numbers DEF Ahead, Begun
<1>4. Proper(watcher, listed) /\ Apart(rec, Recs, watcher, listed)
  BY DEF WatchInv
<1>5. /\ list \in [Tasks -> Ids \cup {None}] /\ list[r.task] = r.id
      /\ \A u \in Tasks \ {r.task} : list[u] = listed[u]
  BY <1>3, <1>4 DEF Proper
<1> HIDE DEF list
<1>6. /\ Proper(ws, list)
      /\ \A t \in Tasks : list[t] # None => ws[list[t]] = watcher[list[t]]
      /\ \A i \in Ids : watcher[i].open => ws[i] = watcher[i]
      /\ \A i \in Ids : ws[i].open => watcher[i].open
  BY <1>3, <1>4, <1>5, KnownWatchers DEF Proper
<1> HIDE DEF ws
<1>7. ASSUME NEW j \in Recs \ {k}, rec[j] # Idle PROVE Ahead(rec[j]) /\ Begun(rec[j], ws, list)
  <2>1. Ahead(rec[j]) /\ Begun(rec[j], watcher, listed)
    BY <1>4, <1>7 DEF Apart
  <2>2. rec[j].at = "starting" => rec[j].id # r.id
    BY <1>1, <1>4 DEF Apart
  <2> QED BY <1>5, <1>6, <2>1, <2>2 DEF Begun
<1>8. ASSUME NEW t \in Tasks, list[t] # None, ~ws[list[t]].open
      PROVE  \E j \in Recs \ {k} : rec[j].at \in {"stopping", "replacing"} /\ rec[j].task = t
  <2>1. t # r.task /\ list[t] = listed[t] /\ ~watcher[listed[t]].open
    BY <1>3, <1>5, <1>6, <1>8
  <2> QED BY <1>1, <1>4, <1>8, <2>1 DEF Apart
<1>9. Apart(rec, Recs \ {k}, ws, list)
  BY <1>4, <1>7, <1>8 DEF Apart
<1>10. Ready(k, ws, list, r.want, r.todo)
  BY <1>2, <1>6, <1>9 DEF Ready, Ahead, TypeOK, WatchersTypeOK
<1>11. /\ Kept(k, list, r.want) /\ Spared(ws, r.want)
       /\ Alone(k, ws, list) /\ (\A u \in Tasks \ r.todo : Matches(ws, list, r.want, u))
             => KeptAlone(k, list, r.want)
  BY <1>1, <1>10, StartWantedKeeps
<1>12. ASSUME ~overlapped
       PROVE  Alone(k, ws, list) /\ (\A u \in Tasks \ r.todo : Matches(ws, list, r.want, u))
  <2>1. \A i \in Open(watcher) : listed[watcher[i].task] = i \/ i = r.id
    BY <1>2, <1>12 DEF Accounted, Idle
  <2>2. listed[r.task] = None
    BY <1>1, <1>2, <1>12 DEF Follows
  <2>3. ASSUME NEW i \in Open(ws) PROVE list[ws[i].task] = i
    <3>1. i \in Open(watcher) /\ i # None /\ ws[i] = watcher[i] /\ watcher[i].task \in Tasks
      BY <1>4, <1>6, WatcherFields, ProperFacts, Numbers DEF Open
    <3> QED BY <1>3, <1>5, <2>1, <2>2, <3>1
  <2>4. \A u \in Tasks \ (r.todo \cup {r.task}) : Matches(watcher, listed, r.want, u)
    BY <1>1, <1>2, <1>12 DEF Follows
  <2>5. \A u \in Tasks \ r.todo : Matches(ws, list, r.want, u)
    BY <1>1, <1>2, <1>3, <1>5, <1>6, <2>4 DEF Matches, Ahead
  <2> QED BY <1>2, <1>12, <2>3, <2>5 DEF Alone
<1>13. ~overlapped => r.want = Desired(table')
  BY <1>2 DEF Follows
<1>14. Kept(k, listed', Desired(table'))
  BY <1>1, <1>11 DEF Kept
<1>15. overlapped' \in BOOLEAN
  BY <1>1 DEF TypeOK, WatchersTypeOK
<1>16. WatchersKept
  BY <1>1, <1>2, <1>11, <1>12, <1>13, <1>14, <1>15, ReconcileKeeps
<1>17. ~overlapped' => SparesOpen(Desired(table'))
  BY <1>1, <1>6, <1>11, <1>13, SparedOpen
<1> QED BY <1>16, <1>17

\* Changes that are seen, and those that fire, move no watcher.
LEMMA PendingKeeps ==
  ASSUME TypeOK, WatchInv, UNCHANGED <<listed, rec, overlapped, table, up>>,
         watcher' \in [Ids -> Watcher \cup {Gone}],
         \A i \in Ids :
            \/ watcher'[i] = watcher[i]
            \/ /\ watcher[i] \in Watcher /\ watcher'[i] \in Watcher /\ watcher[i].open /\ watcher'[i].open
               /\ watcher'[i].task = watcher[i].task /\ watcher'[i].glob = watcher[i].glob
  PROVE  WatchersKept
<1>1. Proper(watcher, listed) /\ Apart(rec, Recs, watcher, listed)
  BY DEF WatchInv
<1>2. \A i \in Ids : /\ watcher'[i].open <=> watcher[i].open
                     /\ watcher[i] \in Watcher <=> watcher'[i] \in Watcher
                     /\ watcher[i].open \/ watcher[i] \in Watcher =>
                           watcher'[i].task = watcher[i].task /\ watcher'[i].glob = watcher[i].glob
  <2>1. \A i \in Ids : watcher[i].open \in BOOLEAN /\ watcher'[i].open \in BOOLEAN
    BY <1>1, ProperFacts
  <2> QED BY <2>1
<1>3. Proper(watcher', listed')
  <2>1. \A i \in Ids : watcher'[i].pending => watcher'[i].open
    BY <1>1 DEF Proper
  <2> QED BY <1>1, <1>2, <2>1 DEF Proper
<1>4. \A t \in Tasks : listed[t] # None => listed[t] \in Ids /\ watcher[listed[t]] \in Watcher
  BY <1>1 DEF Proper
<1>5. Apart(rec', Recs, watcher', listed')
  <2>1. \A k \in Recs : rec[k] # Idle => Ahead(rec[k]) /\ Begun(rec[k], watcher', listed)
    BY <1>1, <1>2 DEF Apart, Begun
  <2>2. \A t \in Tasks : listed[t] # None /\ ~watcher'[listed[t]].open => ~watcher[listed[t]].open
    BY <1>2, <1>4
  <2> QED BY <1>1, <2>1, <2>2 DEF Apart
<1>6. ASSUME ~overlapped PROVE Calm'
  <2>1. Calm
    BY <1>6 DEF WatchInv
  <2>2. UnderWay' = UnderWay
    BY DEF UnderWay
  <2>3. Accounted(rec', watcher', listed')
    BY <1>2, <2>1 DEF Calm, Accounted, Open
  <2>4. \A want : \A t \in Tasks : Matches(watcher, listed, want, t) => Matches(watcher', listed, want, t)
    BY <1>2, <1>4 DEF Matches
  <2>5. ASSUME up, NEW k \in UnderWay PROVE Follows(rec[k], watcher', listed, Desired(table'))
    <3>1. Follows(rec[k], watcher, listed, Desired(table)) /\ rec[k].task \in Tasks
      BY <1>1, <2>1, <2>5 DEF Calm, Apart, Ahead, UnderWay
    <3>2. rec[k].at # "starting" => ~watcher'[listed[rec[k].task]].open
      BY <1>2, <1>4, <3>1 DEF Follows
    <3> QED BY <2>4, <3>1, <3>2 DEF Follows
  <2>6. up /\ UnderWay = {} => Settled(watcher', listed, Desired(table'))
    BY <2>1, <2>4 DEF Calm, Settled
  <2>7. \A j, k \in UnderWay : j = k
    BY <2>1 DEF Calm
  <2> QED BY <2>2, <2>3, <2>5, <2>6, <2>7 DEF Calm
<1>7. ~up => /\ UnderWay' = {}
             /\ \A t \in Tasks : listed'[t] = None
             /\ \A i \in Ids : watcher'[i] = Gone
  BY WatcherFields DEF WatchInv, UnderWay
<1>8. WatchersTypeOK'
  BY <1>3, KeptTypes DEF TypeOK, WatchersTypeOK
<1> QED BY <1>3, <1>5, <1>6, <1>7, <1>8 DEF WatchInv, WatchersKept

LEMMA FileChangesKeeps ==
  ASSUME TypeOK, WatchInv, NEW glob, FileChanges(glob), UNCHANGED <<table, up>>
  PROVE  WatchersKept /\ \A i \in Ids : watcher[i].pending => watcher'[i].pending
<1> DEFINE seeing == {i \in Open(watcher) : watcher[i].glob = glob}
<1>1. /\ \E unseen \in SUBSET seeing :
            watcher' = [i \in Ids |-> IF i \in seeing \ unseen
                                      THEN [watcher[i] EXCEPT !.pending = TRUE]
                                      ELSE watcher[i]]
      /\ UNCHANGED <<listed, rec, overlapped>>
  BY DEF FileChanges
<1>2. Proper(watcher, listed)
  BY DEF WatchInv
<1>3. \A i \in seeing : i \in Ids /\ watcher[i] \in Watcher /\ watcher[i].open
  BY <1>2, ProperFacts DEF Open
<1>4. \A w \in Watcher : /\ [w EXCEPT !.pending = TRUE] \in Watcher
                         /\ [w EXCEPT !.pending = TRUE].open = w.open
                         /\ [w EXCEPT !.pending = TRUE].task = w.task
                         /\ [w EXCEPT !.pending = TRUE].glob = w.glob
                         /\ [w EXCEPT !.pending = TRUE].pending
  BY DEF Watcher
<1> HIDE DEF seeing
<1>5. watcher' \in [Ids -> Watcher \cup {Gone}]
  BY <1>1, <1>2, <1>3, <1>4, ProperFacts
<1>6. \A i \in Ids : watcher'[i] = watcher[i]
                     \/ (i \in seeing /\ watcher'[i] = [watcher[i] EXCEPT !.pending = TRUE])
  BY <1>1
<1>7. \A i \in Ids :
         \/ watcher'[i] = watcher[i]
         \/ /\ watcher[i] \in Watcher /\ watcher'[i] \in Watcher /\ watcher[i].open /\ watcher'[i].open
            /\ watcher'[i].task = watcher[i].task /\ watcher'[i].glob = watcher[i].glob
  <2> SUFFICES ASSUME NEW i \in Ids
               PROVE  \/ watcher'[i] = watcher[i]
                      \/ /\ watcher[i] \in Watcher /\ watcher'[i] \in Watcher
                         /\ watcher[i].open /\ watcher'[i].open
                         /\ watcher'[i].task = watcher[i].task /\ watcher'[i].glob = watcher[i].glob
    OBVIOUS
  <2>1. CASE watcher'[i] = watcher[i]
    BY <2>1
  <2>2. CASE i \in seeing /\ watcher'[i] = [watcher[i] EXCEPT !.pending = TRUE]
    <3> DEFINE w == watcher[i]
               v == [w EXCEPT !.pending = TRUE]
    <3>1. w \in Watcher /\ w.open /\ watcher'[i] = v
      BY <1>3, <2>2
    <3>2. v \in Watcher /\ v.open = w.open /\ v.task = w.task /\ v.glob = w.glob
      BY <1>4, <3>1
    <3> HIDE DEF v
    <3> QED BY <3>1, <3>2
  <2> QED BY <1>6, <2>1, <2>2
<1>8. ASSUME NEW i \in Ids, watcher[i].pending
      PROVE  watcher'[i].pending
  <2>1. CASE watcher'[i] = watcher[i]
    BY <1>8, <2>1
  <2>2. CASE i \in seeing /\ watcher'[i] = [watcher[i] EXCEPT !.pending = TRUE]
    <3>1. [watcher[i] EXCEPT !.pending = TRUE].pending
      BY <1>3, <1>4, <2>2
    <3> QED BY <2>2, <3>1
  <2> QED BY <1>6, <2>1, <2>2
<1> QED BY <1>1, <1>5, <1>7, <1>8, PendingKeeps

LEMMA DebounceFiresKeeps ==
  ASSUME TypeOK, WatchInv, NEW i \in Ids, DebounceFires(i), UNCHANGED <<table, up>>
  PROVE  WatchersKept /\ \A j \in Ids \ {i} : watcher'[j] = watcher[j]
<1>1. /\ watcher[i].pending /\ watcher' = [watcher EXCEPT ![i].pending = FALSE]
      /\ UNCHANGED <<listed, rec, overlapped>>
  BY DEF DebounceFires
<1>2. Proper(watcher, listed)
  BY DEF WatchInv
<1>3. watcher[i] \in Watcher /\ watcher[i].open
  BY <1>1, <1>2, WatcherFields DEF Proper
<1> DEFINE w == [watcher[i] EXCEPT !.pending = FALSE]
<1>4. w \in Watcher /\ w.open = watcher[i].open /\ w.task = watcher[i].task /\ w.glob = watcher[i].glob
  BY <1>3 DEF Watcher
<1>5. watcher' = [watcher EXCEPT ![i] = w]
  BY <1>1
<1> HIDE DEF w
<1>6. /\ watcher' \in [Ids -> Watcher \cup {Gone}] /\ watcher'[i] = w
      /\ \A j \in Ids \ {i} : watcher'[j] = watcher[j]
  BY <1>2, <1>4, <1>5 DEF Proper
<1>7. \A j \in Ids :
         \/ watcher'[j] = watcher[j]
         \/ /\ watcher[j] \in Watcher /\ watcher'[j] \in Watcher /\ watcher[j].open /\ watcher'[j].open
            /\ watcher'[j].task = watcher[j].task /\ watcher'[j].glob = watcher[j].glob
  BY <1>3, <1>4, <1>6
<1> QED BY <1>1, <1>6, <1>7, PendingKeeps

\* A step that is none of the watchers'.
LEMMA WatchersUntouched ==
  ASSUME TypeOK, WatchInv, UNCHANGED <<watcher, listed, rec, overlapped, table, up>>
  PROVE  WatchersKept
<1>1. WatchersTypeOK'
  BY DEF TypeOK, WatchersTypeOK
<1>2. WatchInv'
  <2>1. UnderWay' = UnderWay /\ Desired(table') = Desired(table)
    BY DEF UnderWay
  <2>2. Proper(watcher', listed') /\ Apart(rec', Recs, watcher', listed')
    BY DEF WatchInv
  <2>3. ~overlapped => Calm'
    BY <2>1 DEF WatchInv, Calm
  <2>4. ~up => /\ UnderWay' = {}
               /\ \A t \in Tasks : listed'[t] = None
               /\ \A i \in Ids : watcher'[i] = Gone
    BY <2>1 DEF WatchInv
  <2> QED BY <2>2, <2>3, <2>4 DEF WatchInv
<1> QED BY <1>1, <1>2 DEF WatchersKept

\* Nothing is watched, nor asked for by a process that lives.
NothingWatched == NoWatchers /\ (up => Desired(table) = [t \in Tasks |-> NoGlob])

LEMMA NoWatchersInv == NothingWatched => WatchersTypeOK /\ WatchInv
<1> SUFFICES ASSUME NoWatchers, up => Desired(table) = [t \in Tasks |-> NoGlob]
             PROVE  WatchersTypeOK /\ WatchInv
  BY DEF NothingWatched
<1> USE DEF NoWatchers
<1>1. /\ \A i \in Ids : watcher[i] = Gone /\ ~watcher[i].open /\ ~watcher[i].pending
      /\ \A t \in Tasks : listed[t] = None
      /\ \A k \in Recs : rec[k] = Idle
  BY WatcherFields
<1>2. Open(watcher) = {} /\ UnderWay = {}
  BY <1>1 DEF Open, UnderWay
<1>3. Proper(watcher, listed)
  BY <1>1 DEF Proper
<1>4. Apart(rec, Recs, watcher, listed)
  <2>1. \A k \in Recs : rec[k].at = "idle"
    BY <1>1 DEF Idle
  <2> QED BY <1>1, <2>1 DEF Apart
<1>5. Calm
  BY <1>1, <1>2 DEF Calm, Accounted, Settled, Matches
<1>6. WatchersTypeOK
  BY <1>1 DEF WatchersTypeOK
<1> QED BY <1>1, <1>2, <1>3, <1>4, <1>5, <1>6 DEF WatchInv

-----------------------------------------------------------------------------
(* Git hooks                                                               *)

FilesTypeOK ==
    /\ file \in [Hooks -> [user: BOOLEAN, block: BOOLEAN, script: Tasks \cup {NoTask}]]
    /\ \A h \in Hooks : file[h].block => file[h].user
    /\ \A h \in Hooks : file[h].user => file[h].script = NoTask
    /\ wrapper \in [Hooks -> Tasks \cup {NoTask}]

\* Once installed, a hook calls its owner's script, whoever's file it is in.
LEMMA Installs ==
  ASSUME FilesTypeOK, NEW S \in SUBSET Hooks, NEW owner \in [S -> Tasks], InstallGitHooks(owner)
  PROVE  /\ FilesTypeOK'
         /\ \A h \in S : Called(h)' = owner[h]
         /\ \A h \in Hooks \ S : file'[h] = file[h] /\ wrapper'[h] = wrapper[h]
<1> DEFINE F == [user: BOOLEAN, block: BOOLEAN, script: Tasks \cup {NoTask}]
           Blocked(h) == [file[h] EXCEPT !.block = TRUE]
           Mine(t) == [NoFile EXCEPT !.script = t]
<1>1. /\ \A h \in Hooks : file'[h] = IF h \notin S THEN file[h]
                                     ELSE IF file[h].user THEN Blocked(h) ELSE Mine(owner[h])
      /\ \A h \in Hooks : wrapper'[h] = IF h \in S /\ file[h].user THEN owner[h] ELSE wrapper[h]
      /\ file' = [h \in Hooks |-> file'[h]] /\ wrapper' = [h \in Hooks |-> wrapper'[h]]
  BY DEF InstallGitHooks
<1>2. \A h \in Hooks : file[h] \in F
  BY DEF FilesTypeOK
<1>3. \A h \in Hooks : file[h].user => /\ Blocked(h) \in F /\ Blocked(h).block /\ Blocked(h).user
                                       /\ Blocked(h).script = NoTask
  BY <1>2 DEF FilesTypeOK
<1>4. \A t \in Tasks : Mine(t) \in F /\ ~Mine(t).block /\ ~Mine(t).user /\ Mine(t).script = t
  BY DEF NoFile
<1>5. \A h \in S : owner[h] \in Tasks
  OBVIOUS
<1> HIDE DEF F, Blocked, Mine
<1>6. \A h \in Hooks : /\ file'[h] \in F /\ wrapper'[h] \in Tasks \cup {NoTask}
                       /\ file'[h].block => file'[h].user
                       /\ file'[h].user => file'[h].script = NoTask
  <2> TAKE h \in Hooks
  <2>1. CASE h \notin S
    BY <1>1, <1>2, <2>1 DEF FilesTypeOK
  <2>2. CASE h \in S /\ file[h].user
    <3>1. file'[h] = Blocked(h) /\ wrapper'[h] = owner[h]
      BY <1>1, <2>2
    <3> QED BY <1>3, <1>5, <2>2, <3>1
  <2>3. CASE h \in S /\ ~file[h].user
    <3>1. file'[h] = Mine(owner[h]) /\ wrapper'[h] = wrapper[h]
      BY <1>1, <2>3
    <3> QED BY <1>4, <1>5, <2>3, <3>1 DEF FilesTypeOK
  <2> QED BY <2>1, <2>2, <2>3
<1>7. FilesTypeOK'
  BY <1>1, <1>6 DEF FilesTypeOK, F
<1>8. ASSUME NEW h \in S PROVE Called(h)' = owner[h]
  <2>1. CASE file[h].user
    <3>1. file'[h] = Blocked(h) /\ wrapper'[h] = owner[h]
      BY <1>1, <2>1
    <3> QED BY <1>3, <2>1, <3>1 DEF Called
  <2>2. CASE ~file[h].user
    <3>1. file'[h] = Mine(owner[h])
      BY <1>1, <2>2
    <3> QED BY <1>4, <1>5, <3>1 DEF Called
  <2> QED BY <2>1, <2>2
<1>9. \A h \in Hooks \ S : file'[h] = file[h] /\ wrapper'[h] = wrapper[h]
  BY <1>1
<1> QED BY <1>7, <1>8, <1>9

LEMMA Uninstalls ==
  ASSUME FilesTypeOK, NEW h \in Hooks, UninstallGitHook(h)
  PROVE  FilesTypeOK' /\ \A g \in Hooks \ {h} : file'[g] = file[g] /\ wrapper'[g] = wrapper[g]
<1> DEFINE f == IF file[h].user THEN [file[h] EXCEPT !.block = FALSE] ELSE NoFile
<1>1. file' = [file EXCEPT ![h] = f] /\ wrapper' = [wrapper EXCEPT ![h] = NoTask]
  BY DEF UninstallGitHook
<1>2. /\ f \in [user: BOOLEAN, block: BOOLEAN, script: Tasks \cup {NoTask}]
      /\ ~f.block /\ (f.user => f.script = NoTask)
  BY DEF FilesTypeOK, NoFile
<1> HIDE DEF f
<1>3. /\ file'[h] = f /\ \A g \in Hooks \ {h} : file'[g] = file[g]
      /\ file' \in [Hooks -> [user: BOOLEAN, block: BOOLEAN, script: Tasks \cup {NoTask}]]
  BY <1>1, <1>2 DEF FilesTypeOK
<1>4. /\ wrapper' \in [Hooks -> Tasks \cup {NoTask}]
      /\ \A g \in Hooks \ {h} : wrapper'[g] = wrapper[g]
  BY <1>1 DEF FilesTypeOK
<1>5. \A g \in Hooks : (file'[g].block => file'[g].user) /\ (file'[g].user => file'[g].script = NoTask)
  BY <1>2, <1>3 DEF FilesTypeOK
<1> QED BY <1>3, <1>4, <1>5 DEF FilesTypeOK

HooksKept == HooksTypeOK' /\ HookInv'

\* An edit of task t0 touches only hooks that t0 has claimed, and installs the one it
\* has by then.
LEMMA EditKeepsHooks ==
  ASSUME TypeOK, HookInv, NEW t0 \in Tasks, NEW tbl, Edit(tbl), FilesTypeOK',
         \A t \in Tasks \ {t0} : tbl[t] = table[t],
         \A h \in Hooks : (file'[h] = file[h] /\ wrapper'[h] = wrapper[h]) \/ t0 \in claims'[h],
         portFile' \in [Repos -> Ports \cup {NoPort}],
         \A r \in Repos : portFile'[r] = portFile[r] \/ portFile'[r] = port,
         \A h \in Hooks : port # NoPort /\ t0 \in Claimants(tbl, h) =>
             Called(h)' = t0 /\ portFile'[Repo[h]] = port
  PROVE  HooksKept
<1>1. /\ table' = tbl /\ port' = port
      /\ claims' = [h \in Hooks |-> claims[h] \cup {t \in Tasks : tbl[t].trigger = h}]
  BY DEF Edit
<1>2. claims \in [Hooks -> SUBSET Tasks]
  BY DEF TypeOK, HooksTypeOK
<1>3. /\ claims' \in [Hooks -> SUBSET Tasks]
      /\ \A h \in Hooks : claims[h] \subseteq claims'[h]
      /\ \A t \in Tasks, h \in Hooks : tbl[t].trigger = h => t \in claims'[h]
  BY <1>1, <1>2
<1>4. HooksTypeOK'
  BY <1>3 DEF FilesTypeOK, HooksTypeOK
<1>5. ASSUME port' # NoPort, NEW t \in Tasks, NEW h \in Hooks,
             t \in Claimants(tbl, h), claims'[h] = {t}
      PROVE  Called(h)' = t /\ portFile'[Repo[h]] = port
  <2>1. CASE t = t0
    BY <1>1, <1>5, <2>1
  <2>2. CASE t # t0
    <3>1. tbl[t] = table[t] /\ t0 \notin claims'[h]
      BY <1>5, <2>2
    <3>2. Called(h)' = Called(h)
      BY <3>1 DEF Called
    <3>3. t \in Claimants(table, h) /\ table[t].trigger = h
      BY <1>5, <3>1 DEF Claimants, Enabled
    <3>4. claims[h] = {t}
      BY <1>3, <1>5, <3>3 DEF HookInv
    <3>5. Called(h) = t /\ portFile[Repo[h]] = port
      BY <1>1, <1>5, <3>3, <3>4 DEF HookInv, HooksCurrent
    <3>6. Repo[h] \in Repos
      BY HooksAssumption
    <3> QED BY <3>2, <3>5, <3>6
  <2> QED BY <2>1, <2>2
<1>6. HooksCurrent'
  BY <1>1, <1>5 DEF HooksCurrent
<1>7. \A t \in Tasks, h \in Hooks : table'[t].trigger = h => t \in claims'[h]
  BY <1>1, <1>3
<1> QED BY <1>4, <1>6, <1>7 DEF HooksKept, HookInv

\* The table with one task changed.
LEMMA EditedTable ==
  ASSUME TypeOK, NEW t0 \in Tasks, NEW row, NEW tbl, tbl = [table EXCEPT ![t0] = row]
  PROVE  tbl[t0] = row /\ \A t \in Tasks \ {t0} : tbl[t] = table[t]
  BY DEF TypeOK

LEMMA NoHookChangeKeeps ==
  ASSUME TypeOK, HookInv, NEW t0 \in Tasks, NEW tbl, Edit(tbl), NoHookChange,
         \A t \in Tasks \ {t0} : tbl[t] = table[t],
         port = NoPort \/ ~Enabled(tbl, t0) \/ tbl[t0].trigger \notin Hooks
  PROVE  HooksKept
<1>1. FilesTypeOK' /\ portFile' \in [Repos -> Ports \cup {NoPort}]
  BY DEF NoHookChange, TypeOK, HooksTypeOK, FilesTypeOK
<1>2. \A h \in Hooks : ~(port # NoPort /\ t0 \in Claimants(tbl, h))
  BY DEF Claimants
<1>3. /\ \A h \in Hooks : file'[h] = file[h] /\ wrapper'[h] = wrapper[h]
      /\ \A r \in Repos : portFile'[r] = portFile[r]
  BY DEF NoHookChange
<1> QED BY <1>1, <1>2, <1>3, EditKeepsHooks

LEMMA InstallKeeps ==
  ASSUME TypeOK, HookInv, NEW t0 \in Tasks, NEW tbl, Edit(tbl),
         \A t \in Tasks \ {t0} : tbl[t] = table[t],
         NEW h \in Hooks, tbl[t0].trigger = h, InstallGitHookForTask(t0, h)
  PROVE  HooksKept
<1>1. CASE port = NoPort
  BY <1>1, NoHookChangeKeeps DEF InstallGitHookForTask
<1>2. CASE port # NoPort
  <2> DEFINE owner == [x \in {h} |-> t0]
  <2>1. InstallGitHooks(owner) /\ WriteListenerPortFiles({Repo[h]}, port)
    BY <1>2 DEF InstallGitHookForTask
  <2>2. owner \in [{h} -> Tasks] /\ owner[h] = t0 /\ {h} \in SUBSET Hooks
    OBVIOUS
  <2> HIDE DEF owner
  <2>3. FilesTypeOK
    BY DEF TypeOK, HooksTypeOK, FilesTypeOK
  <2>4. /\ FilesTypeOK' /\ Called(h)' = t0
        /\ \A g \in Hooks \ {h} : file'[g] = file[g] /\ wrapper'[g] = wrapper[g]
    BY <2>1, <2>2, <2>3, Installs
  <2>5. t0 \in claims'[h]
    BY DEF Edit
  <2>6. /\ portFile' \in [Repos -> Ports \cup {NoPort}]
        /\ \A r \in Repos : portFile'[r] = portFile[r] \/ portFile'[r] = port
        /\ portFile'[Repo[h]] = port
    BY <2>1, HooksAssumption DEF WriteListenerPortFiles, TypeOK, HooksTypeOK
  <2>7. \A g \in Hooks : t0 \in Claimants(tbl, g) => g = h
    BY DEF Claimants
  <2> QED BY <2>4, <2>5, <2>6, <2>7, EditKeepsHooks
<1> QED BY <1>1, <1>2

LEMMA UninstallKeeps ==
  ASSUME TypeOK, HookInv, NEW t0 \in Tasks, NEW tbl, Edit(tbl),
         \A t \in Tasks \ {t0} : tbl[t] = table[t], ~Enabled(tbl, t0),
         NEW h \in Hooks, t0 \in claims'[h], UninstallGitHookForTask(h)
  PROVE  HooksKept
<1>1. FilesTypeOK
  BY DEF TypeOK, HooksTypeOK, FilesTypeOK
<1>2. FilesTypeOK' /\ \A g \in Hooks \ {h} : file'[g] = file[g] /\ wrapper'[g] = wrapper[g]
  BY <1>1, Uninstalls DEF UninstallGitHookForTask
<1>3. portFile' \in [Repos -> Ports \cup {NoPort}] /\ \A r \in Repos : portFile'[r] = portFile[r]
  BY DEF UninstallGitHookForTask, TypeOK, HooksTypeOK
<1>4. \A g \in Hooks : t0 \notin Claimants(tbl, g)
  BY DEF Claimants
<1> QED BY <1>2, <1>3, <1>4, EditKeepsHooks

LEMMA ListenerStartsKeeps ==
  ASSUME TypeOK, HookInv, NEW p \in Ports, ListenerStarts(p)
  PROVE  HooksKept
<1>1. /\ port' = p /\ table' = table /\ claims' = claims
      /\ WriteListenerPortFiles({Repo[h] : h \in Claimed(table)}, p)
  BY DEF ListenerStarts, ReinstallAllGitHooks
<1>2. PICK owner \in [Claimed(table) -> Tasks] :
         (\A h \in Claimed(table) : owner[h] \in Claimants(table, h)) /\ InstallGitHooks(owner)
  BY DEF ListenerStarts, ReinstallAllGitHooks
<1>3. FilesTypeOK /\ Claimed(table) \in SUBSET Hooks
  BY DEF TypeOK, HooksTypeOK, FilesTypeOK, Claimed
<1>4. FilesTypeOK' /\ \A h \in Claimed(table) : Called(h)' = owner[h]
  BY <1>2, <1>3, Installs
<1>5. portFile' \in [Repos -> Ports \cup {NoPort}] /\ \A h \in Claimed(table) : portFile'[Repo[h]] = p
  BY <1>1, HooksAssumption DEF WriteListenerPortFiles, TypeOK, HooksTypeOK, Claimed
<1>6. \A t \in Tasks, h \in Hooks : table[t].trigger = h => t \in claims[h]
  BY DEF HookInv
<1>7. ASSUME NEW t \in Tasks, NEW h \in Hooks, t \in Claimants(table, h), claims[h] = {t}
      PROVE  Called(h)' = t /\ portFile'[Repo[h]] = p
  <2>1. h \in Claimed(table)
    BY <1>7 DEF Claimed
  <2>2. owner[h] \in Claimants(table, h)
    BY <1>2, <2>1
  <2>3. owner[h] \in Tasks /\ table[owner[h]].trigger = h
    BY <2>2 DEF Claimants
  <2>4. owner[h] = t
    BY <1>6, <1>7, <2>3
  <2> QED BY <1>4, <1>5, <2>1, <2>4
<1>8. HooksCurrent'
  BY <1>1, <1>7 DEF HooksCurrent
<1>9. HooksTypeOK'
  BY <1>1, <1>4, <1>5 DEF FilesTypeOK, HooksTypeOK, TypeOK
<1> QED BY <1>1, <1>6, <1>8, <1>9 DEF HooksKept, HookInv

\* A hook the user edits is one that calls no task.
LEMMA UserEditsHookKeeps ==
  ASSUME TypeOK, HookInv, NEW h \in Hooks, UserEditsHook(h), UNCHANGED <<table, port>>
  PROVE  HooksKept
<1> DEFINE f == [file[h] EXCEPT !.user = ~file[h].user]
<1>1. /\ file[h].script = NoTask /\ ~file[h].block
      /\ file' = [file EXCEPT ![h] = f] /\ UNCHANGED <<wrapper, portFile, claims>>
  BY DEF UserEditsHook
<1>2. file[h] \in [user: BOOLEAN, block: BOOLEAN, script: Tasks \cup {NoTask}]
  BY DEF TypeOK, HooksTypeOK
<1>3. /\ f \in [user: BOOLEAN, block: BOOLEAN, script: Tasks \cup {NoTask}]
      /\ ~f.block /\ f.script = NoTask
  BY <1>1, <1>2
<1> HIDE DEF f
<1>4. /\ file' \in [Hooks -> [user: BOOLEAN, block: BOOLEAN, script: Tasks \cup {NoTask}]]
      /\ file'[h] = f /\ \A g \in Hooks \ {h} : file'[g] = file[g]
  BY <1>1, <1>3 DEF TypeOK, HooksTypeOK
<1>5. HooksTypeOK'
  BY <1>1, <1>3, <1>4 DEF TypeOK, HooksTypeOK
<1>6. Called(h) = NoTask /\ \A g \in Hooks \ {h} : Called(g)' = Called(g)
  BY <1>1, <1>4 DEF Called
<1>7. HooksCurrent'
  <2> SUFFICES ASSUME port # NoPort, NEW t \in Tasks, NEW g \in Hooks,
                      t \in Claimants(table, g), claims[g] = {t}
               PROVE  Called(g)' = t /\ portFile[Repo[g]] = port
    BY <1>1 DEF HooksCurrent
  <2>1. Called(g) = t /\ portFile[Repo[g]] = port
    BY DEF HookInv, HooksCurrent
  <2>2. g # h
    BY <1>6, <2>1, HooksAssumption
  <2> QED BY <1>6, <2>1, <2>2
<1>8. \A t \in Tasks, g \in Hooks : table'[t].trigger = g => t \in claims'[g]
  BY <1>1 DEF HookInv
<1> QED BY <1>5, <1>7, <1>8 DEF HooksKept, HookInv

\* A step that leaves the hooks alone, and the listener where it was or gone.
LEMMA HooksUntouched ==
  ASSUME TypeOK, HookInv, UNCHANGED <<file, wrapper, portFile, claims, table>>, port' \in {port, NoPort}
  PROVE  HooksKept
<1>1. HooksTypeOK'
  BY DEF TypeOK, HooksTypeOK
<1>2. \A h \in Hooks : Called(h)' = Called(h)
  BY DEF Called
<1>3. HooksCurrent'
  BY <1>2 DEF HookInv, HooksCurrent
<1>4. \A t \in Tasks, h \in Hooks : table'[t].trigger = h => t \in claims'[h]
  BY DEF HookInv
<1> QED BY <1>1, <1>3, <1>4 DEF HooksKept, HookInv

-----------------------------------------------------------------------------
(* Every step                                                              *)

\* What a step may not do to a pending change.
Waits ==
    \A i \in Ids :
        /\ watcher[i].pending
        /\ up' /\ ~overlapped'
        /\ Desired(table')[watcher[i].task] = watcher[i].glob
        => watcher'[i].pending \/ DebounceFires(i)

StepKeeps == TriggersInv' /\ Waits

TasksTypeOK ==
    /\ table \in [Tasks -> [state: States, trigger: Triggers]]
    /\ up \in BOOLEAN
    /\ port \in Ports \cup {NoPort}
    /\ edits \in 0 .. MaxEdits
    /\ quits \in 0 .. MaxQuits

LEMMA Together ==
  ASSUME WatchersKept, HooksKept, TasksTypeOK'
  PROVE  TriggersInv'
  BY DEF WatchersKept, HooksKept, TasksTypeOK, TriggersInv, TypeOK

LEMMA SparedWaits ==
  ASSUME TriggersInv, Spared(watcher, Desired(table')) \/ (~overlapped' => SparesOpen(Desired(table')))
  PROVE  Waits
<1>1. \A i \in Ids : watcher[i].pending => watcher[i].open /\ watcher[i] \in Watcher
  BY WatcherFields DEF TriggersInv, WatchInv, Proper
<1> QED BY <1>1 DEF Spared, SparesOpen, Waits

LEMMA EditKeeps ==
  ASSUME TriggersInv, NEW t0 \in Tasks, NEW row \in [state: States, trigger: Triggers],
         NEW tbl, tbl = [table EXCEPT ![t0] = row], Edit(tbl), HooksKept
  PROVE  StepKeeps
<1>1. /\ up' /\ table' = tbl /\ edits < MaxEdits /\ edits' = edits + 1 /\ UNCHANGED <<up, port, quits>>
      /\ ReconcileBegins(Desired(table'))
  BY DEF Edit
<1>2. WatchersKept /\ Spared(watcher, Desired(table'))
  BY <1>1, ReconcileBeginsKeeps DEF TriggersInv
<1>3. TasksTypeOK'
  BY <1>1, TriggersAssumption DEF TasksTypeOK, TriggersInv, TypeOK
<1> QED BY <1>2, <1>3, Together, SparedWaits DEF StepKeeps

LEMMA CreateTaskKeeps ==
  ASSUME TriggersInv, NEW t \in Tasks, NEW trigger \in Triggers, CreateTask(t, trigger)
  PROVE  StepKeeps
<1> DEFINE row == [state |-> "enabled", trigger |-> trigger]
           tbl == [table EXCEPT ![t] = row]
<1>1. Edit(tbl) /\ IF trigger \in Hooks THEN InstallGitHookForTask(t, trigger) ELSE NoHookChange
  BY DEF CreateTask
<1>2. row \in [state: States, trigger: Triggers] /\ row.trigger = trigger
  BY DEF States
<1> HIDE DEF row
<1>3. TypeOK /\ HookInv /\ tbl = [table EXCEPT ![t] = row]
  BY DEF TriggersInv
<1> HIDE DEF tbl
<1>4. tbl[t] = row /\ \A u \in Tasks \ {t} : tbl[u] = table[u]
  BY <1>3, EditedTable
<1>5. HooksKept
  <2>1. CASE trigger \in Hooks
    BY <1>1, <1>2, <1>3, <1>4, <2>1, InstallKeeps
  <2>2. CASE trigger \notin Hooks
    BY <1>1, <1>2, <1>3, <1>4, <2>2, NoHookChangeKeeps
  <2> QED BY <2>1, <2>2
<1> QED BY <1>1, <1>2, <1>3, <1>5, EditKeeps

LEMMA UpdateTaskKeeps ==
  ASSUME TriggersInv, NEW t \in Tasks, NEW trigger \in Triggers,
         NEW state \in {"enabled", "disabled"}, UpdateTask(t, state, trigger)
  PROVE  StepKeeps
<1> DEFINE row == [state |-> state, trigger |-> trigger]
           tbl == [table EXCEPT ![t] = row]
<1>1. /\ Edit(tbl)
      /\ trigger \in Hooks /\ state = "enabled" => InstallGitHookForTask(t, trigger)
      /\ trigger \in Hooks /\ state = "disabled" => UninstallGitHookForTask(trigger)
      /\ trigger \notin Hooks => NoHookChange
  BY DEF UpdateTask
<1>2. row \in [state: States, trigger: Triggers] /\ row.trigger = trigger /\ row.state = state
  BY DEF States
<1> HIDE DEF row
<1>3. TypeOK /\ HookInv /\ tbl = [table EXCEPT ![t] = row]
  BY DEF TriggersInv
<1> HIDE DEF tbl
<1>4. tbl[t] = row /\ \A u \in Tasks \ {t} : tbl[u] = table[u]
  BY <1>3, EditedTable
<1>5. HooksKept
  <2>1. CASE trigger \in Hooks /\ state = "enabled"
    BY <1>1, <1>2, <1>3, <1>4, <2>1, InstallKeeps
  <2>2. CASE trigger \in Hooks /\ state = "disabled"
    <3>1. t \in claims'[trigger]
      BY <1>1, <1>2, <1>4, <2>2 DEF Edit
    <3>2. ~Enabled(tbl, t)
      BY <1>2, <1>4, <2>2 DEF Enabled
    <3> QED BY <1>1, <1>3, <1>4, <2>2, <3>1, <3>2, UninstallKeeps
  <2>3. CASE trigger \notin Hooks
    BY <1>1, <1>2, <1>3, <1>4, <2>3, NoHookChangeKeeps
  <2> QED BY <2>1, <2>2, <2>3
<1> QED BY <1>1, <1>2, <1>3, <1>5, EditKeeps

LEMMA DeleteTaskKeeps ==
  ASSUME TriggersInv, NEW t \in Tasks, DeleteTask(t)
  PROVE  StepKeeps
<1> DEFINE row == [state |-> "deleted", trigger |-> Other]
           tbl == [table EXCEPT ![t] = row]
           h == table[t].trigger
<1>1. Edit(tbl) /\ IF h \in Hooks THEN UninstallGitHookForTask(h) ELSE NoHookChange
  BY DEF DeleteTask
<1>2. row \in [state: States, trigger: Triggers] /\ row.state # "enabled"
  BY DEF States, Triggers
<1> HIDE DEF row
<1>3. TypeOK /\ HookInv /\ tbl = [table EXCEPT ![t] = row]
  BY DEF TriggersInv
<1> HIDE DEF tbl
<1>4. tbl[t] = row /\ \A u \in Tasks \ {t} : tbl[u] = table[u]
  BY <1>3 DEF TypeOK
<1>5. ~Enabled(tbl, t)
  BY <1>2, <1>4 DEF Enabled
<1>6. HooksKept
  <2>1. CASE h \in Hooks
    <3>1. t \in claims'[h]
      BY <1>1, <1>3, <2>1 DEF Edit, HookInv
    <3>2. UninstallGitHookForTask(h)
      BY <1>1, <2>1
    <3> HIDE DEF h
    <3> QED BY <1>1, <1>3, <1>4, <1>5, <2>1, <3>1, <3>2, UninstallKeeps
  <2>2. CASE h \notin Hooks
    BY <1>1, <1>3, <1>4, <1>5, <2>2, NoHookChangeKeeps
  <2> QED BY <2>1, <2>2
<1> QED BY <1>1, <1>2, <1>3, <1>6, EditKeeps

LEMMA QuitKeeps ==
  ASSUME TriggersInv, Quit
  PROVE  StepKeeps
<1>1. /\ up' = FALSE /\ port' = NoPort /\ UNCHANGED <<hookVars, table, edits>>
      /\ quits < MaxQuits /\ quits' = quits + 1
      /\ watcher' = [i \in Ids |-> Gone] /\ listed' = [t \in Tasks |-> None]
      /\ rec' = [k \in Recs |-> Idle] /\ overlapped' = FALSE
  BY DEF Quit
<1>2. WatchersKept
  <2>1. NothingWatched'
    BY <1>1 DEF NothingWatched, NoWatchers
  <2>2. WatchersTypeOK' /\ WatchInv'
    BY <2>1, NoWatchersInv, PTL
  <2> QED BY <2>2 DEF WatchersKept
<1>3. HooksKept
  BY <1>1, HooksUntouched DEF hookVars, TriggersInv
<1>4. TasksTypeOK'
  <2>1. quits' \in 0 .. MaxQuits
    BY <1>1, TriggersAssumption DEF TriggersInv, TypeOK
  <2>2. UNCHANGED <<table, edits>> /\ up' \in BOOLEAN /\ port' = NoPort
    BY <1>1
  <2> QED BY <2>1, <2>2 DEF TasksTypeOK, TriggersInv, TypeOK
<1>5. Waits
  BY <1>1 DEF Waits
<1> QED BY <1>2, <1>3, <1>4, <1>5, Together DEF StepKeeps

LEMMA StartKeeps ==
  ASSUME TriggersInv, Start
  PROVE  StepKeeps
<1>1. /\ up' /\ up' = TRUE /\ table' = table /\ UNCHANGED <<hookVars, port, edits, quits>>
      /\ ReconcileBegins(Desired(table'))
  BY DEF Start
<1>2. WatchersKept /\ Spared(watcher, Desired(table'))
  BY <1>1, ReconcileBeginsKeeps DEF TriggersInv
<1>3. HooksKept
  BY <1>1, HooksUntouched DEF hookVars, TriggersInv
<1>4. TasksTypeOK'
  BY <1>1 DEF TasksTypeOK, TriggersInv, TypeOK
<1> QED BY <1>2, <1>3, <1>4, Together, SparedWaits DEF StepKeeps

LEMMA ListenerKeeps ==
  ASSUME TriggersInv, NEW p \in Ports, ListenerStarts(p)
  PROVE  StepKeeps
<1>1. port' = p /\ UNCHANGED <<watcher, listed, rec, overlapped, table, up, edits, quits>>
  BY DEF ListenerStarts, watcherVars
<1>2. WatchersKept
  BY <1>1, WatchersUntouched DEF TriggersInv
<1>3. HooksKept
  BY ListenerStartsKeeps DEF TriggersInv
<1>4. TasksTypeOK'
  BY <1>1 DEF TasksTypeOK, TriggersInv, TypeOK
<1>5. Waits
  BY <1>1 DEF Waits
<1> QED BY <1>2, <1>3, <1>4, <1>5, Together DEF StepKeeps

\* The steps of the watchers alone.
LEMMA WatcherStepKeeps ==
  ASSUME TriggersInv, UNCHANGED <<hookVars, taskVars>>, WatchersKept, Waits
  PROVE  StepKeeps
<1>1. HooksKept
  BY HooksUntouched DEF hookVars, taskVars, TriggersInv
<1>2. TasksTypeOK'
  BY DEF taskVars, TasksTypeOK, TriggersInv, TypeOK
<1> QED BY <1>1, <1>2, Together DEF StepKeeps

LEMMA ReconcileStepKeeps ==
  ASSUME TriggersInv, NEW k \in Recs, ReconcileStep(k), UNCHANGED <<hookVars, taskVars>>
  PROVE  StepKeeps
<1>1. TypeOK /\ WatchInv /\ UNCHANGED <<table, up>>
  BY DEF TriggersInv, taskVars
<1>2. WatchersKept /\ (~overlapped' => SparesOpen(Desired(table')))
  <2>1. CASE StopEnds(k)
    BY <1>1, <2>1, StopEndsKeeps
  <2>2. CASE ReplacedEnds(k)
    BY <1>1, <2>2, ReplacedEndsKeeps
  <2>3. CASE StartEnds(k)
    BY <1>1, <2>3, StartEndsKeeps
  <2> QED BY <2>1, <2>2, <2>3 DEF ReconcileStep
<1> QED BY <1>2, SparedWaits, WatcherStepKeeps

LEMMA NextKeeps ==
  ASSUME TriggersInv, [Next]_vars
  PROVE  TriggersInv' /\ (Waits \/ UNCHANGED vars)
<1>1. ASSUME NEW t \in Tasks, NEW trigger \in Triggers, CreateTask(t, trigger) PROVE StepKeeps
  BY <1>1, CreateTaskKeeps
<1>2. ASSUME NEW t \in Tasks, NEW trigger \in Triggers, NEW state \in {"enabled", "disabled"},
             UpdateTask(t, state, trigger)
      PROVE  StepKeeps
  BY <1>2, UpdateTaskKeeps
<1>3. ASSUME NEW t \in Tasks, DeleteTask(t) PROVE StepKeeps
  BY <1>3, DeleteTaskKeeps
<1>4. ASSUME NEW p \in Ports, ListenerStarts(p) PROVE StepKeeps
  BY <1>4, ListenerKeeps
<1>5. CASE Quit
  BY <1>5, QuitKeeps DEF StepKeeps
<1>6. CASE Start
  BY <1>6, StartKeeps DEF StepKeeps
<1>7. ASSUME NEW k \in Recs, ReconcileStep(k), UNCHANGED <<hookVars, taskVars>> PROVE StepKeeps
  BY <1>7, ReconcileStepKeeps
<1>8. ASSUME NEW glob \in Globs, FileChanges(glob), UNCHANGED <<hookVars, taskVars>> PROVE StepKeeps
  <2>1. WatchersKept /\ \A i \in Ids : watcher[i].pending => watcher'[i].pending
    BY <1>8, FileChangesKeeps DEF TriggersInv, taskVars
  <2>2. Waits
    BY <2>1 DEF Waits
  <2> QED BY <1>8, <2>1, <2>2, WatcherStepKeeps
<1>9. ASSUME NEW i \in Ids, DebounceFires(i), UNCHANGED <<hookVars, taskVars>> PROVE StepKeeps
  <2>1. WatchersKept /\ \A j \in Ids \ {i} : watcher'[j] = watcher[j]
    BY <1>9, DebounceFiresKeeps DEF TriggersInv, taskVars
  <2>2. Waits
    BY <1>9, <2>1 DEF Waits
  <2> QED BY <1>9, <2>1, <2>2, WatcherStepKeeps
<1>10. ASSUME NEW h \in Hooks, UserEditsHook(h), UNCHANGED <<watcherVars, taskVars>> PROVE StepKeeps
  <2>1. UNCHANGED <<watcher, listed, rec, overlapped, table, up, port, edits, quits>>
    BY <1>10 DEF watcherVars, taskVars
  <2>2. WatchersKept
    BY <2>1, WatchersUntouched DEF TriggersInv
  <2>3. HooksKept
    BY <1>10, <2>1, UserEditsHookKeeps DEF TriggersInv
  <2>4. TasksTypeOK'
    BY <2>1 DEF TasksTypeOK, TriggersInv, TypeOK
  <2>5. Waits
    BY <2>1 DEF Waits
  <2> QED BY <2>2, <2>3, <2>4, <2>5, Together DEF StepKeeps
<1>11. ASSUME UNCHANGED vars PROVE TriggersInv'
  <2>1. UNCHANGED <<watcher, listed, rec, overlapped, table, up, port, edits, quits, file, wrapper, portFile, claims>>
    BY <1>11 DEF vars, watcherVars, taskVars, hookVars
  <2>2. WatchersKept
    BY <2>1, WatchersUntouched DEF TriggersInv
  <2>3. HooksKept
    BY <2>1, HooksUntouched DEF TriggersInv
  <2>4. TasksTypeOK'
    BY <2>1 DEF TasksTypeOK, TriggersInv, TypeOK
  <2> QED BY <2>2, <2>3, <2>4, Together
<1>12. CASE Next
  <2>1. StepKeeps
    BY <1>1, <1>2, <1>3, <1>4, <1>5, <1>6, <1>7, <1>8, <1>9, <1>10, <1>12, QuitKeeps, StartKeeps DEF Next
  <2> QED BY <2>1 DEF StepKeeps
<1> QED BY <1>11, <1>12

LEMMA InitInv == Init => TriggersInv
<1> SUFFICES ASSUME Init PROVE TriggersInv
  OBVIOUS
<1>1. \A t \in Tasks : table[t].state = "absent" /\ table[t].trigger = Other
  BY DEF Init, NoRow
<1>2. Desired(table) = [t \in Tasks |-> NoGlob]
  BY <1>1 DEF Desired, Enabled
<1>3. WatchersTypeOK /\ WatchInv
  BY <1>2, NoWatchersInv DEF Init, NothingWatched
<1>4. HooksTypeOK
  <2> DEFINE F == [user: BOOLEAN, block: BOOLEAN, script: Tasks \cup {NoTask}]
             Users == [NoFile EXCEPT !.user = TRUE]
  <2>1. /\ NoFile \in F /\ Users \in F
        /\ ~NoFile.block /\ ~NoFile.user /\ ~Users.block /\ Users.script = NoTask
    BY DEF NoFile
  <2> HIDE DEF F, Users
  <2>2. file \in [Hooks -> {NoFile, Users}]
    BY DEF Init, HooksInit, Users
  <2>3. \A h \in Hooks : file[h] \in F /\ ~file[h].block /\ (file[h].user => file[h].script = NoTask)
    BY <2>1, <2>2
  <2>4. file \in [Hooks -> F]
    BY <2>2, <2>3
  <2>5. /\ wrapper \in [Hooks -> Tasks \cup {NoTask}]
        /\ portFile \in [Repos -> Ports \cup {NoPort}] /\ claims \in [Hooks -> SUBSET Tasks]
    BY DEF Init, HooksInit
  <2> QED BY <2>3, <2>4, <2>5 DEF HooksTypeOK, F
<1>5. HookInv
  BY <1>1, TriggersAssumption DEF Init, HookInv, HooksCurrent
<1>6. TypeOK
  BY <1>3, <1>4, TriggersAssumption DEF Init, TypeOK, NoRow, States, Triggers
<1> QED BY <1>3, <1>5, <1>6 DEF TriggersInv

THEOREM TriggersInvariant == Spec => []TriggersInv
<1>1. TriggersInv /\ [Next]_vars => TriggersInv'
  BY NextKeeps
<1> QED BY <1>1, InitInv, PTL DEF Spec

\* Every state of the triggers is of its type.
THEOREM TriggersTypes == Spec => []TypeOK
<1>1. TriggersInv => TypeOK
  BY DEF TriggersInv
<1> QED BY <1>1, TriggersInvariant, PTL

\* The hook of an enabled task that no other task has had calls that task's script, which
\* finds the listener's port: for any number of tasks, hooks, repositories, edits and
\* restarts (handlers.ts, triggers-lifecycle.ts).
THEOREM HooksAreCurrent == Spec => []HooksCurrent
<1>1. TriggersInv => HooksCurrent
  BY DEF TriggersInv, HookInv
<1> QED BY <1>1, TriggersInvariant, PTL

\* Reconciles that cross leave no listed watcher closed, and those that do not cross leave
\* exactly the watchers the enabled tasks ask for (reconcile() in file-watcher.ts).
THEOREM WatchersDoSettle == Spec => []WatchersSettle
<1>1. TriggersInv => WatchersSettle
  <2> SUFFICES ASSUME TriggersInv PROVE WatchersSettle
    OBVIOUS
  <2>1. Proper(watcher, listed) /\ Apart(rec, Recs, watcher, listed)
    BY DEF TriggersInv, WatchInv
  <2>2. \A k \in Recs \ UnderWay : rec[k].at = "idle"
    BY DEF UnderWay, Idle
  <2>3. ASSUME UnderWay = {}, NEW t \in Tasks, listed[t] # None PROVE listed[t] \in Open(watcher)
    <3>1. watcher[listed[t]].open
      BY <2>1, <2>2, <2>3 DEF Apart
    <3> QED BY <2>1, <2>3, <3>1 DEF Open, Proper
  <2>4. ASSUME ~overlapped, NEW i \in Open(watcher), NEW j \in Open(watcher),
               watcher[i].task = watcher[j].task
        PROVE  i = j
    <3>1. Calm
      BY <2>4 DEF TriggersInv, WatchInv
    <3>2. watcher[i].task \in Tasks /\ i \in Ids /\ j \in Ids /\ None \notin Ids
      BY <2>1, ProperFacts, WatcherFields, Numbers
    <3>3. CASE listed[watcher[i].task] = None
      <4>1. PICK k \in Recs : rec[k].at = "starting" /\ rec[k].id = i
        BY <3>1, <3>2, <3>3 DEF Calm, Accounted
      <4>2. PICK l \in Recs : rec[l].at = "starting" /\ rec[l].id = j
        BY <2>4, <3>1, <3>2, <3>3 DEF Calm, Accounted
      <4>3. k \in UnderWay /\ l \in UnderWay
        BY <4>1, <4>2 DEF UnderWay, Idle
      <4> QED BY <3>1, <4>1, <4>2, <4>3 DEF Calm
    <3>4. CASE listed[watcher[i].task] # None
      BY <2>4, <3>1, <3>4 DEF Calm, Accounted
    <3> QED BY <3>3, <3>4
  <2>5. ASSUME up, UnderWay = {}, ~overlapped
        PROVE  /\ \A t \in Tasks, glob \in Globs : Asked(t, glob) =>
                     listed[t] # None /\ watcher[listed[t]].glob = glob
               /\ \A i \in Open(watcher) :
                     listed[watcher[i].task] = i /\ Asked(watcher[i].task, watcher[i].glob)
    <3>1. Settled(watcher, listed, Desired(table)) /\ Accounted(rec, watcher, listed)
      BY <2>5 DEF TriggersInv, WatchInv, Calm
    <3>2. \A t \in Tasks, glob \in Globs : Desired(table)[t] = glob <=> Asked(t, glob)
      BY DesiredWishes DEF Asked
    <3>3. \A t \in Tasks : Matches(watcher, listed, Desired(table), t)
      BY <3>1 DEF Settled
    <3>4. \A t \in Tasks, glob \in Globs : Asked(t, glob) =>
             listed[t] # None /\ watcher[listed[t]].glob = glob
      BY <3>2, <3>3, WatchersAssumption DEF Matches
    <3>5. ASSUME NEW i \in Open(watcher)
          PROVE  listed[watcher[i].task] = i /\ Asked(watcher[i].task, watcher[i].glob)
      <4>1. i \in Ids /\ watcher[i].task \in Tasks /\ watcher[i].glob \in Globs /\ i # None
        BY <2>1, <3>5, ProperFacts, WatcherFields, Numbers
      <4>2. listed[watcher[i].task] = i
        BY <2>2, <2>5, <3>1, <3>5 DEF Accounted
      <4>3. Desired(table)[watcher[i].task] = watcher[i].glob
        BY <3>3, <4>1, <4>2 DEF Matches
      <4> QED BY <3>2, <4>1, <4>2, <4>3
    <3> QED BY <3>4, <3>5
  <2> QED BY <2>3, <2>4, <2>5 DEF WatchersSettle
<1> QED BY <1>1, TriggersInvariant, PTL

\* No edit, no restart of another watcher and no reconcile drops a change that waits for its
\* debounce, while its task asks for it (the signatures in file-watcher.ts).
THEOREM PendingChangesAreKept == Spec => PendingChangesKept
<1>1. TriggersInv /\ [Next]_vars => [Waits]_vars
  BY NextKeeps
<1>2. TriggersInv /\ [Next]_vars =>
        [\A i \in Ids :
            /\ watcher[i].pending
            /\ up' /\ ~overlapped'
            /\ Desired(table')[watcher[i].task] = watcher[i].glob
            => watcher'[i].pending \/ DebounceFires(i)]_vars
  BY <1>1 DEF Waits
<1> QED BY <1>2, TriggersInvariant, PTL DEF Spec, PendingChangesKept

-----------------------------------------------------------------------------
(* The index: the inductive invariant                                      *)

\* Working off batch b does to f what it has come to.
Good(b, f) ==
    IF disk[f] # Absent THEN f \in b.added \cup b.changed
                        ELSE f \in b.removed \ (b.added \cup b.changed)

Working == job.pc # "idle"
Reading == job.pc \in {"vectors", "embed"}

\* The listed index has been started, only an index that is not being stopped watches, and
\* the job is on files of its batch.
PlacesInv ==
    /\ \A i \in IndexIds : index[i].watch => index[i].at \in {"starting", "live"}
    /\ \A i \in IndexIds : index[i].at = "starting" => index[i].watch /\ index[i].open
    /\ entry # NoOne => index[entry].at \in {"live", "stopping"}
    /\ Working => job.id \in IndexIds
    /\ job.pc = "idle" => job = NoJob
    /\ job.todo \subseteq Named(job.batch)
    /\ job.pc = "embed" => job.file \in Named(job.batch) /\ job.bytes \in Versions

\* A watcher has f in the batch it gathers, and those that have know what it has come to.
Told(f) == \E i \in IndexIds : index[i].watch /\ f \in Named(index[i].pending)

Heard(f) == \A i \in IndexIds :
    index[i].watch /\ f \in Named(index[i].pending) => Good(index[i].pending, f)

\* No batch in the chain names f, or the last that does knows what it has come to.
ChainNone(f) == \A n \in DOMAIN chain : f \notin Named(chain[n])

ChainGood(f) == \E n \in DOMAIN chain :
    /\ Good(chain[n], f)
    /\ \A m \in DOMAIN chain : m > n => f \notin Named(chain[m])

\* A batch that knows what f has come to is on its way.
Coming(f) == Told(f) \/ ChainGood(f)

\* The job will make the rows of f, or has read for them what it holds.
RowDue(f) ==
    /\ disk[f] \in Versions
    /\ \/ Reading /\ f \in job.todo
       \/ job.pc = "embed" /\ job.file = f /\ job.bytes = disk[f]

\* The rows of f are current, and no older ones of the job can come over them.
RowSettled(f) ==
    disk[f] # Unfit =>
        \/ RowDue(f)
        \/ vectors[f] = disk[f] /\ (job.pc = "embed" => job.file # f)

\* RowsCurrent, at every moment: what is not current yet is on its way.
RowsInv == \A f \in Files \ missed.rows :
    Heard(f) /\ (Coming(f) \/ (ChainNone(f) /\ RowSettled(f)))

\* The symbols of f, and whether the graph has them: GraphCurrent of f.
Read(f) == IF disk[f] \in Versions THEN disk[f] ELSE Absent

Drawn(f) ==
    /\ disk[f] \in Versions => graph[f] = disk[f]
    /\ f \in drawn /\ disk[f] \notin Versions => graph[f] = Absent

\* The job will draw the graph anew from what its index has read.
Redraws == job.pc = "graph" /\ job.changed

\* The job will read the symbols of f for the listed index, or for one no longer listed.
SymbolsDue(f) ==
    /\ entry \in {job.id, NoOne}
    /\ \/ Reading /\ Good(job.batch, f)
       \/ job.pc = "graph" /\ f \in job.todo

\* The listed index has the symbols of f, and the graph has them or will have.
SymbolsKept(f) ==
    /\ entry # NoOne => index[entry].extractions[f] = Read(f)
    /\ Drawn(f) \/ (Redraws /\ f \in Named(job.batch))
    /\ Reading => f \notin Named(job.batch)

\* GraphCurrent, at every moment.
SymbolsInv == \A f \in Files \ missed.symbols :
    Heard(f) /\ (Coming(f) \/ (ChainNone(f) /\ (SymbolsDue(f) \/ SymbolsKept(f))))

\* What the listed index has drawn is what it has read, unless it is about to draw. While
\* a batch of another index is worked off it has drawn nothing.
DrawnInv ==
    /\ \A f \in drawn :
        /\ entry # NoOne => graph[f] = index[entry].extractions[f] \/ (Redraws /\ entry = job.id)
        /\ Working => graph[f] = index[job.id].extractions[f] \/ Redraws
    /\ Working /\ entry \notin {job.id, NoOne} => drawn = {}

IndexInv == IndexTypeOK /\ PlacesInv /\ RowsInv /\ SymbolsInv /\ DrawnInv

-----------------------------------------------------------------------------
(* The index: what a step leaves, and what types say                       *)

SymbolsSettled(f) == SymbolsDue(f) \/ SymbolsKept(f)

\* Whether watcher i of the indexes ix has f in the batch it gathers.
Hears(ix, i, f) == ix[i].watch /\ f \in Named(ix[i].pending)

\* The step leaves what watchers have gathered about f.
SameHeard(f) == \A i \in IndexIds :
    /\ Hears(index', i, f) <=> Hears(index, i, f)
    /\ Hears(index, i, f) => index'[i].pending = index[i].pending

LEMMA NoOneIsNone == NoOne \notin IndexIds
BY IndexAssumption DEF NoOne, IndexIds

LEMMA EmptyBatch == NoBatch \in Batch /\ Named(NoBatch) = {}
BY DEF NoBatch, Batch, Named

LEMMA EmptySymbols == NoSymbols \in Symbols
BY DEF NoSymbols, Symbols

LEMMA NoIndexIsOne == NoIndex \in Index
BY EmptyBatch, EmptySymbols DEF NoIndex, Index

LEMMA NoJobIsOne == NoJob \in Job
BY EmptyBatch, IndexAssumption DEF NoJob, Job, Bytes

LEMMA NamedFiles ==
  ASSUME NEW b \in Batch
  PROVE  /\ b.added \subseteq Files /\ b.changed \subseteq Files /\ b.removed \subseteq Files
         /\ Named(b) \subseteq Files
BY DEF Batch, Named

LEMMA TypeFacts ==
  ASSUME IndexTypeOK
  PROVE  /\ vectors \in Symbols /\ graph \in Symbols
         /\ enabled \in BOOLEAN /\ running \in BOOLEAN
BY DEF IndexTypeOK

LEMMA JobFields ==
  ASSUME NEW j \in Job
  PROVE  /\ j.pc \in {"idle", "vectors", "embed", "graph"}
         /\ j.id \in IndexIds \cup {NoOne} /\ j.batch \in Batch
         /\ j.todo \in SUBSET Files /\ j.file \in Files /\ j.bytes \in Bytes
         /\ j.changed \in BOOLEAN
BY DEF Job

LEMMA IndexFields ==
  ASSUME NEW x \in Index
  PROVE  /\ x.at \in {"gone", "starting", "live", "stopping"}
         /\ x.watch \in BOOLEAN /\ x.open \in BOOLEAN
         /\ x.pending \in Batch /\ x.extractions \in Symbols
BY DEF Index

-----------------------------------------------------------------------------
(* The index: a step that leaves the files and the chain                   *)

LEMMA SameComing ==
  ASSUME NEW f \in Files, UNCHANGED <<disk, chain>>, SameHeard(f)
  PROVE  /\ Heard(f) => Heard(f)'
         /\ Coming(f) => Coming(f)'
         /\ ChainNone(f) => ChainNone(f)'
<1>1. Heard(f) => Heard(f)'
  BY DEF SameHeard, Hears, Heard, Good
<1>2. Told(f) => Told(f)'
  BY DEF SameHeard, Hears, Told
<1>3. ChainGood(f) => ChainGood(f)'
  BY DEF ChainGood, Good
<1>4. ChainNone(f) => ChainNone(f)'
  BY DEF ChainNone
<1> QED BY <1>1, <1>2, <1>3, <1>4 DEF Coming

LEMMA IndexStepKeeps ==
  ASSUME IndexInv, UNCHANGED <<disk, chain>>,
         IndexTypeOK', PlacesInv', DrawnInv',
         \A f \in Files \ missed'.rows :
            f \notin missed.rows /\ SameHeard(f) /\ (RowSettled(f) => RowSettled(f)'),
         \A f \in Files \ missed'.symbols :
            f \notin missed.symbols /\ SameHeard(f) /\ (SymbolsSettled(f) => SymbolsSettled(f)')
  PROVE  IndexInv'
<1>1. RowsInv'
  <2> SUFFICES ASSUME NEW f \in Files \ missed'.rows
               PROVE  (Heard(f) /\ (Coming(f) \/ (ChainNone(f) /\ RowSettled(f))))'
    BY DEF RowsInv
  <2>1. Heard(f) /\ (Coming(f) \/ (ChainNone(f) /\ RowSettled(f)))
    BY DEF IndexInv, RowsInv
  <2> QED BY <2>1, SameComing
<1>2. SymbolsInv'
  <2> SUFFICES ASSUME NEW f \in Files \ missed'.symbols
               PROVE  (Heard(f) /\ (Coming(f) \/ (ChainNone(f) /\ SymbolsSettled(f))))'
    BY DEF SymbolsInv, SymbolsSettled
  <2>1. Heard(f) /\ (Coming(f) \/ (ChainNone(f) /\ SymbolsSettled(f)))
    BY DEF IndexInv, SymbolsInv, SymbolsSettled
  <2> QED BY <2>1, SameComing
<1> QED BY <1>1, <1>2 DEF IndexInv

-----------------------------------------------------------------------------
(* The index: the batch being worked off                                   *)

\* A step of the batch that leaves the indexes.
LEMMA SameIndexes ==
  ASSUME NEW f \in Files, UNCHANGED index
  PROVE  SameHeard(f)
BY DEF SameHeard, Hears

LEMMA ReadFileKeeps ==
  ASSUME IndexInv, NEW g \in Files, ReadFile(g)
  PROVE  IndexInv'
<1>1. /\ job.pc = "vectors" /\ g \in job.todo /\ job \in Job
      /\ UNCHANGED <<disk, enabled, running, index, entry, chain, vectors, graph, missed, drawn, count, faults>>
  BY DEF ReadFile, fileVars, storedVars, historyVars, IndexInv, IndexTypeOK
<1>2. /\ job'.id = job.id /\ job'.batch = job.batch /\ job'.changed = job.changed
      /\ job'.todo = job.todo \ {g} /\ job' \in Job
      /\ IF disk[g] \in Versions
         THEN job'.pc = "embed" /\ job'.file = g /\ job'.bytes = disk[g]
         ELSE job'.pc = "vectors"
  BY <1>1 DEF ReadFile, Job, Bytes
<1>3. IndexTypeOK'
  BY <1>1, <1>2 DEF IndexInv, IndexTypeOK
<1>4. PlacesInv'
  BY <1>1, <1>2 DEF IndexInv, PlacesInv, Working
<1>5. DrawnInv'
  BY <1>1, <1>2 DEF IndexInv, DrawnInv, Working, Redraws
<1>6. ASSUME NEW f \in Files, RowSettled(f)
      PROVE  RowSettled(f)'
  BY <1>1, <1>2, <1>6 DEF RowSettled, RowDue, Reading
<1>7. ASSUME NEW f \in Files, SymbolsSettled(f)
      PROVE  SymbolsSettled(f)'
  BY <1>1, <1>2, <1>7 DEF SymbolsSettled, SymbolsDue, SymbolsKept, Reading, Redraws, Good, Read, Drawn
<1> QED BY <1>1, <1>3, <1>4, <1>5, <1>6, <1>7, SameIndexes, IndexStepKeeps

\* A file has been embedded, or not.
LEMMA EmbedEnds ==
  ASSUME IndexInv, job.pc = "embed", job' = [job EXCEPT !.pc = "vectors"],
         UNCHANGED <<fileVars, index, entry, chain, graph, drawn, count>>,
         faults' \in 0 .. MaxFaults,
         \/ vectors' = [vectors EXCEPT ![job.file] = job.bytes] /\ job.bytes \in Versions /\ UNCHANGED missed
         \/ missed' = [missed EXCEPT !.rows = @ \cup {job.file}] /\ UNCHANGED vectors
  PROVE  IndexInv'
<1> DEFINE g == job.file
<1>1. /\ job \in Job /\ g \in Files /\ vectors \in Symbols /\ graph \in Symbols
      /\ missed \in [rows: SUBSET Files, symbols: SUBSET Files]
      /\ UNCHANGED <<disk, enabled, running, index, entry, chain, graph, drawn, count>>
  BY TypeFacts, JobFields DEF fileVars, IndexInv, IndexTypeOK
<1>2. /\ job'.id = job.id /\ job'.batch = job.batch /\ job'.changed = job.changed
      /\ job'.todo = job.todo /\ job'.pc = "vectors" /\ job' \in Job
  BY <1>1 DEF Job
<1>3. /\ vectors' \in Symbols /\ missed' \in [rows: SUBSET Files, symbols: SUBSET Files]
      /\ missed.rows \subseteq missed'.rows /\ missed'.symbols = missed.symbols
      /\ \A f \in Files : f # g => vectors'[f] = vectors[f]
      /\ g \notin missed'.rows => vectors'[g] = job.bytes
  BY <1>1 DEF Symbols
<1>4. IndexTypeOK'
  BY <1>1, <1>2, <1>3 DEF IndexInv, IndexTypeOK
<1>5. PlacesInv'
  BY <1>1, <1>2 DEF IndexInv, PlacesInv, Working
<1>6. DrawnInv'
  BY <1>1, <1>2 DEF IndexInv, DrawnInv, Working, Redraws
<1>7. ASSUME NEW f \in Files, f \notin missed'.rows, RowSettled(f)
      PROVE  RowSettled(f)'
  <2> HIDE DEF g
  <2>1. CASE f = g
    BY <1>1, <1>2, <1>3, <1>7, <2>1 DEF RowSettled, RowDue, Reading, g
  <2>2. CASE f # g
    BY <1>1, <1>2, <1>3, <1>7, <2>2 DEF RowSettled, RowDue, Reading, g
  <2> QED BY <2>1, <2>2
<1>8. ASSUME NEW f \in Files, SymbolsSettled(f)
      PROVE  SymbolsSettled(f)'
  BY <1>1, <1>2, <1>8 DEF SymbolsSettled, SymbolsDue, SymbolsKept, Reading, Redraws, Good, Read, Drawn
<1> QED BY <1>1, <1>3, <1>4, <1>5, <1>6, <1>7, <1>8, SameIndexes, IndexStepKeeps

LEMMA EmbeddedKeeps == IndexInv /\ Embedded => IndexInv'
<1> SUFFICES ASSUME IndexInv, Embedded
             PROVE  IndexInv'
  OBVIOUS
<1>1. job.bytes \in Versions
  BY DEF IndexInv, PlacesInv, Embedded
<1>2. faults' \in 0 .. MaxFaults
  BY DEF IndexInv, IndexTypeOK, Embedded
<1> QED BY <1>1, <1>2, EmbedEnds DEF Embedded

LEMMA FaultCounts ==
  ASSUME IndexTypeOK, Fault
  PROVE  faults' \in 0 .. MaxFaults
BY IndexAssumption DEF IndexTypeOK, Fault

LEMMA EmbedFailsKeeps == IndexInv /\ EmbedFails => IndexInv'
<1> SUFFICES ASSUME IndexInv, EmbedFails
             PROVE  IndexInv'
  OBVIOUS
<1>1. faults' \in 0 .. MaxFaults
  BY FaultCounts DEF IndexInv, EmbedFails
<1>2. UNCHANGED <<fileVars, index, entry, chain, graph, vectors, drawn, count>>
  BY DEF EmbedFails, storedVars
<1> QED BY <1>1, <1>2, EmbedEnds DEF EmbedFails

\* A step that changes nothing of the indexes but what the one of the batch has read.
LEMMA ReadsMore ==
  ASSUME IndexInv, NEW known \in Symbols, job.id \in IndexIds,
         index' = [index EXCEPT ![job.id].extractions = known]
  PROVE  /\ index' \in [IndexIds -> Index]
         /\ index'[job.id].extractions = known
         /\ \A i \in IndexIds : i # job.id => index'[i] = index[i]
         /\ \A i \in IndexIds :
               /\ index'[i].at = index[i].at /\ index'[i].watch = index[i].watch
               /\ index'[i].open = index[i].open /\ index'[i].pending = index[i].pending
         /\ \A f \in Files : SameHeard(f)
<1>1. index \in [IndexIds -> Index]
  BY DEF IndexInv, IndexTypeOK
<1>2. index'[job.id] = [index[job.id] EXCEPT !.extractions = known]
  BY <1>1
<1>3. /\ index'[job.id] \in Index
      /\ index'[job.id].extractions = known
      /\ index'[job.id].at = index[job.id].at /\ index'[job.id].watch = index[job.id].watch
      /\ index'[job.id].open = index[job.id].open
      /\ index'[job.id].pending = index[job.id].pending
  BY <1>1, <1>2 DEF Index
<1>4. index' \in [IndexIds -> Index] /\ \A i \in IndexIds : i # job.id => index'[i] = index[i]
  BY <1>1, <1>3
<1>5. \A i \in IndexIds :
         /\ index'[i].at = index[i].at /\ index'[i].watch = index[i].watch
         /\ index'[i].open = index[i].open /\ index'[i].pending = index[i].pending
  BY <1>3, <1>4
<1>6. \A f \in Files : SameHeard(f)
  BY <1>5 DEF SameHeard, Hears
<1> QED BY <1>3, <1>4, <1>5, <1>6

LEMMA JobId == IndexInv /\ job.pc # "idle" => job.id \in IndexIds /\ job.id # NoOne
BY NoOneIsNone DEF IndexInv, PlacesInv, Working

LEMMA GraphBeginsKeeps == IndexInv /\ GraphBegins => IndexInv'
<1> SUFFICES ASSUME IndexInv, GraphBegins
             PROVE  IndexInv'
  OBVIOUS
<1> DEFINE known == index[job.id].extractions
           left  == Holds(known, job.batch.removed)
<1>1. /\ job.pc = "vectors" /\ job.todo = {} /\ job.id \in IndexIds /\ job.id # NoOne
      /\ job \in Job /\ job.batch \in Batch /\ index \in [IndexIds -> Index] /\ known \in Symbols
      /\ UNCHANGED <<disk, enabled, running, entry, chain, vectors, graph, missed, drawn, count, faults>>
  BY JobId, JobFields, IndexFields
     DEF GraphBegins, fileVars, storedVars, historyVars, IndexInv, IndexTypeOK
<1>2. /\ left \in Symbols
      /\ \A f \in Files : left[f] = IF f \in job.batch.removed THEN Absent ELSE known[f]
  BY <1>1 DEF Holds, Symbols
<1>3. index' = [index EXCEPT ![job.id].extractions = left]
  BY DEF GraphBegins
<1>4. /\ index' \in [IndexIds -> Index] /\ index'[job.id].extractions = left
      /\ \A i \in IndexIds : i # job.id => index'[i] = index[i]
      /\ \A i \in IndexIds :
            /\ index'[i].at = index[i].at /\ index'[i].watch = index[i].watch
            /\ index'[i].open = index[i].open /\ index'[i].pending = index[i].pending
      /\ \A f \in Files : SameHeard(f)
  <2> HIDE DEF left
  <2> QED BY <1>1, <1>2, <1>3, ReadsMore
<1>5. /\ job'.pc = "graph" /\ job'.id = job.id /\ job'.batch = job.batch
      /\ job'.todo = job.batch.added \cup job.batch.changed
      /\ job'.changed = \E f \in job.batch.removed : known[f] # Absent
      /\ job' \in Job
  <2>1. job.batch.added \cup job.batch.changed \in SUBSET Files
    BY <1>1, NamedFiles
  <2> QED BY <1>1, <2>1 DEF GraphBegins, Job
<1> HIDE DEF known, left
<1>6. IndexTypeOK'
  BY <1>1, <1>4, <1>5 DEF IndexInv, IndexTypeOK
<1>7. PlacesInv'
  <2>1. entry \in IndexIds \cup {NoOne}
    BY DEF IndexInv, IndexTypeOK
  <2>2. job'.todo \subseteq Named(job'.batch)
    BY <1>5 DEF Named
  <2> QED BY <1>1, <1>4, <1>5, <2>1, <2>2 DEF IndexInv, PlacesInv, Working
<1>8. drawn \subseteq Files /\ \A f \in drawn : graph[f] = known[f]
  BY <1>1 DEF IndexInv, IndexTypeOK, DrawnInv, Working, Redraws, known
<1>9. DrawnInv'
  <2>1. entry \in IndexIds \cup {NoOne} /\ (entry \notin {job.id, NoOne} => drawn = {})
    BY <1>1 DEF IndexInv, DrawnInv, IndexTypeOK, Working
  <2>2. \A f \in drawn : graph[f] = left[f] \/ Redraws'
    BY <1>1, <1>2, <1>5, <1>8 DEF Redraws
  <2> QED BY <1>1, <1>4, <1>5, <2>1, <2>2 DEF DrawnInv, Working
<1>10. ASSUME NEW f \in Files, RowSettled(f)
       PROVE  RowSettled(f)'
  BY <1>1, <1>5, <1>10 DEF RowSettled, RowDue, Reading
<1>11. ASSUME NEW f \in Files, SymbolsSettled(f)
       PROVE  SymbolsSettled(f)'
  <2>1. CASE SymbolsDue(f) /\ disk[f] # Absent
    BY <1>1, <1>5, <2>1 DEF SymbolsSettled, SymbolsDue, Reading, Good
  <2>2. CASE SymbolsDue(f) /\ disk[f] = Absent
    <3>1. f \in job.batch.removed /\ entry \in {job.id, NoOne} /\ disk[f] \notin Versions
      BY <1>1, <2>2, IndexAssumption DEF SymbolsDue, Reading, Good, Absent
    <3>2. entry' # NoOne => index'[entry'].extractions[f] = Read(f)'
      BY <1>1, <1>2, <1>4, <3>1 DEF Read
    <3>3. Drawn(f)' \/ (Redraws' /\ f \in Named(job'.batch))
      <4>1. CASE known[f] = Absent
        BY <1>1, <1>8, <3>1, <4>1 DEF Drawn
      <4>2. CASE known[f] # Absent
        BY <1>1, <1>5, <3>1, <4>2 DEF Redraws, Named
      <4> QED BY <4>1, <4>2
    <3> QED BY <1>5, <3>2, <3>3 DEF SymbolsSettled, SymbolsKept, Reading
  <2>3. CASE SymbolsKept(f)
    <3>1. f \notin Named(job.batch) /\ Drawn(f) /\ f \notin job.batch.removed
          /\ (entry # NoOne => index[entry].extractions[f] = Read(f))
      BY <1>1, <2>3 DEF SymbolsKept, Reading, Redraws, Named
    <3>2. entry' # NoOne => index'[entry'].extractions[f] = Read(f)'
      <4>1. entry \in IndexIds \cup {NoOne}
        BY DEF IndexInv, IndexTypeOK
      <4> QED BY <1>1, <1>2, <1>4, <3>1, <4>1 DEF Read, known
    <3> QED BY <1>1, <1>5, <3>1, <3>2 DEF SymbolsSettled, SymbolsKept, Reading, Drawn
  <2> QED BY <1>11, <2>1, <2>2, <2>3 DEF SymbolsSettled
<1>12. missed' = missed /\ disk' = disk /\ chain' = chain
  BY <1>1
<1> QED BY <1>4, <1>6, <1>7, <1>9, <1>10, <1>11, <1>12, IndexStepKeeps

LEMMA ExtractSymbolsKeeps ==
  ASSUME IndexInv, NEW g \in Files, ExtractSymbols(g)
  PROVE  IndexInv'
<1> DEFINE known == index[job.id].extractions
           left  == [known EXCEPT ![g] = Read(g)]
<1>1. /\ job.pc = "graph" /\ g \in job.todo /\ job.id \in IndexIds /\ job.id # NoOne
      /\ job \in Job /\ job.batch \in Batch /\ index \in [IndexIds -> Index] /\ known \in Symbols
      /\ entry \in IndexIds \cup {NoOne}
      /\ UNCHANGED <<disk, enabled, running, entry, chain, vectors, graph, missed, drawn, count, faults>>
  BY JobId, JobFields, IndexFields
     DEF ExtractSymbols, fileVars, storedVars, historyVars, IndexInv, IndexTypeOK
<1>2. /\ left \in Symbols
      /\ \A f \in Files : left[f] = IF f = g THEN Read(g) ELSE known[f]
  <2>1. Read(g) \in Versions \cup {Absent}
    BY DEF Read
  <2> HIDE DEF known
  <2> QED BY <1>1, <2>1 DEF Symbols
<1>3. index' = [index EXCEPT ![job.id].extractions = left]
  BY DEF ExtractSymbols, Read
<1>4. /\ index' \in [IndexIds -> Index] /\ index'[job.id].extractions = left
      /\ \A i \in IndexIds : i # job.id => index'[i] = index[i]
      /\ \A i \in IndexIds :
            /\ index'[i].at = index[i].at /\ index'[i].watch = index[i].watch
            /\ index'[i].open = index[i].open /\ index'[i].pending = index[i].pending
      /\ \A f \in Files : SameHeard(f)
  <2> HIDE DEF left
  <2> QED BY <1>1, <1>2, <1>3, ReadsMore
<1>5. /\ job'.pc = "graph" /\ job'.id = job.id /\ job'.batch = job.batch
      /\ job'.todo = job.todo \ {g}
      /\ job'.changed = (job.changed \/ known[g] # Absent \/ Read(g) # Absent)
      /\ job' \in Job
  BY <1>1 DEF ExtractSymbols, Job, Read
<1> HIDE DEF known, left
<1>6. IndexTypeOK'
  BY <1>1, <1>4, <1>5 DEF IndexInv, IndexTypeOK
<1>7. PlacesInv' /\ job.todo \subseteq Named(job.batch)
  BY <1>1, <1>4, <1>5 DEF IndexInv, PlacesInv, Working
<1>8. drawn \subseteq Files /\ \A f \in drawn : graph[f] = known[f] \/ job.changed
  BY <1>1 DEF IndexInv, IndexTypeOK, DrawnInv, Working, Redraws, known
<1>9. DrawnInv'
  <2>1. entry \notin {job.id, NoOne} => drawn = {}
    BY <1>1 DEF IndexInv, DrawnInv, Working
  <2>2. \A f \in drawn : graph[f] = left[f] \/ Redraws'
    BY <1>1, <1>2, <1>5, <1>8 DEF Redraws
  <2> QED BY <1>1, <1>4, <1>5, <2>1, <2>2 DEF DrawnInv, Working
<1>10. ASSUME NEW f \in Files, RowSettled(f)
       PROVE  RowSettled(f)'
  BY <1>1, <1>5, <1>10 DEF RowSettled, RowDue, Reading
<1>11. ASSUME NEW f \in Files, SymbolsSettled(f)
       PROVE  SymbolsSettled(f)'
  <2>1. CASE SymbolsDue(f) /\ f # g
    BY <1>1, <1>5, <2>1 DEF SymbolsSettled, SymbolsDue, Reading
  <2>2. CASE SymbolsDue(f) /\ f = g
    <3>1. entry \in {job.id, NoOne} /\ g \in Named(job.batch)
      BY <1>1, <1>7, <2>2 DEF SymbolsDue
    <3>2. entry' # NoOne => index'[entry'].extractions[f] = Read(f)'
      BY <1>1, <1>2, <1>4, <2>2, <3>1 DEF Read
    <3>3. Drawn(f)' \/ (Redraws' /\ f \in Named(job'.batch))
      <4>1. CASE job.changed \/ known[g] # Absent \/ Read(g) # Absent
        BY <1>1, <1>5, <2>2, <3>1, <4>1 DEF Redraws
      <4>2. CASE ~ (job.changed \/ known[g] # Absent \/ Read(g) # Absent)
        <5>1. disk[g] \notin Versions
          BY <4>2, IndexAssumption DEF Read, Absent
        <5> QED BY <1>1, <1>8, <2>2, <4>2, <5>1 DEF Drawn
      <4> QED BY <4>1, <4>2
    <3> QED BY <1>5, <3>2, <3>3 DEF SymbolsSettled, SymbolsKept, Reading
  <2>3. CASE SymbolsKept(f)
    <3>1. entry' # NoOne => index'[entry'].extractions[f] = Read(f)'
      BY <1>1, <1>2, <1>4, <2>3 DEF SymbolsKept, Read, known
    <3>2. Drawn(f)' \/ (Redraws' /\ f \in Named(job'.batch))
      BY <1>1, <1>5, <2>3 DEF SymbolsKept, Drawn, Redraws
    <3> QED BY <1>5, <3>1, <3>2 DEF SymbolsSettled, SymbolsKept, Reading
  <2> QED BY <1>11, <2>1, <2>2, <2>3 DEF SymbolsSettled
<1>12. missed' = missed /\ disk' = disk /\ chain' = chain
  BY <1>1
<1> QED BY <1>4, <1>6, <1>7, <1>9, <1>10, <1>11, <1>12, IndexStepKeeps

LEMMA ExtractionFailsKeeps ==
  ASSUME IndexInv, NEW g \in Files, ExtractionFails(g)
  PROVE  IndexInv'
<1>1. /\ job.pc = "graph" /\ g \in job.todo /\ job \in Job
      /\ missed' = [missed EXCEPT !.symbols = @ \cup {g}]
      /\ UNCHANGED <<disk, enabled, running, index, entry, chain, vectors, graph, drawn, count>>
  BY DEF ExtractionFails, fileVars, storedVars, IndexInv, IndexTypeOK
<1>2. /\ job'.pc = "graph" /\ job'.id = job.id /\ job'.batch = job.batch
      /\ job'.todo = job.todo \ {g} /\ job'.changed = job.changed /\ job' \in Job
  BY <1>1 DEF ExtractionFails, Job
<1>3. /\ missed' \in [rows: SUBSET Files, symbols: SUBSET Files]
      /\ missed'.rows = missed.rows /\ missed'.symbols = missed.symbols \cup {g}
  BY <1>1 DEF IndexInv, IndexTypeOK
<1>4. IndexTypeOK'
  <2>1. faults' \in 0 .. MaxFaults
    BY FaultCounts DEF IndexInv, ExtractionFails
  <2> QED BY <1>1, <1>2, <1>3, <2>1 DEF IndexInv, IndexTypeOK
<1>5. PlacesInv'
  BY <1>1, <1>2 DEF IndexInv, PlacesInv, Working
<1>6. DrawnInv'
  BY <1>1, <1>2 DEF IndexInv, DrawnInv, Working, Redraws
<1>7. ASSUME NEW f \in Files, RowSettled(f)
      PROVE  RowSettled(f)'
  BY <1>1, <1>2, <1>7 DEF RowSettled, RowDue, Reading
<1>8. ASSUME NEW f \in Files, f # g, SymbolsSettled(f)
      PROVE  SymbolsSettled(f)'
  BY <1>1, <1>2, <1>8 DEF SymbolsSettled, SymbolsDue, SymbolsKept, Reading, Redraws, Read, Drawn
<1> QED BY <1>1, <1>3, <1>4, <1>5, <1>6, <1>7, <1>8, SameIndexes, IndexStepKeeps

LEMMA NoJobFields ==
  /\ NoJob.pc = "idle" /\ NoJob.id = NoOne /\ NoJob.batch = NoBatch /\ NoJob.todo = {}
  /\ NoJob.changed = FALSE
BY DEF NoJob

LEMMA BatchEndsKeeps == IndexInv /\ BatchEnds => IndexInv'
<1> SUFFICES ASSUME IndexInv, BatchEnds
             PROVE  IndexInv'
  OBVIOUS
<1> DEFINE known == index[job.id].extractions
<1>1. /\ job.pc = "graph" /\ job.todo = {} /\ job.id \in IndexIds /\ job.id # NoOne
      /\ job \in Job /\ index \in [IndexIds -> Index] /\ known \in Symbols
      /\ entry \in IndexIds \cup {NoOne} /\ vectors \in Symbols /\ graph \in Symbols
      /\ drawn \subseteq Files /\ missed \in [rows: SUBSET Files, symbols: SUBSET Files]
      /\ UNCHANGED <<disk, enabled, running, index, entry, chain, vectors, count, faults>>
  BY JobId, JobFields, IndexFields, TypeFacts DEF BatchEnds, fileVars, IndexInv, IndexTypeOK
<1>2. job' = NoJob /\ graph' = IF job.changed THEN known ELSE graph
  BY DEF BatchEnds
<1>3. CASE job.changed /\ job.id # entry
  <2>1. /\ drawn' = drawn /\ missed'.rows = missed.rows /\ missed'.symbols = Files
        /\ missed' \in [rows: SUBSET Files, symbols: SUBSET Files]
    BY <1>1, <1>3 DEF BatchEnds
  <2>2. entry # NoOne => drawn = {}
    BY <1>1, <1>3 DEF IndexInv, DrawnInv, Working
  <2>3. IndexTypeOK'
    BY <1>1, <1>2, <2>1, NoJobIsOne DEF IndexInv, IndexTypeOK
  <2>4. PlacesInv'
    BY <1>1, <1>2, NoJobFields DEF IndexInv, PlacesInv, Working
  <2>5. DrawnInv'
    BY <1>1, <1>2, <2>1, <2>2, NoJobFields DEF DrawnInv, Working
  <2>6. ASSUME NEW f \in Files, RowSettled(f)
        PROVE  RowSettled(f)'
    BY <1>1, <1>2, <2>6, NoJobFields DEF RowSettled, RowDue, Reading
  <2> QED BY <1>1, <2>1, <2>3, <2>4, <2>5, <2>6, SameIndexes, IndexStepKeeps
<1>4. CASE ~ (job.changed /\ job.id # entry)
  <2>1. /\ missed' = missed
        /\ drawn' = IF job.changed THEN drawn \cup {f \in Files : known[f] # Absent} ELSE drawn
    BY <1>4 DEF BatchEnds
  <2>2. IndexTypeOK'
    <3>1. graph' \in Symbols /\ drawn' \subseteq Files
      BY <1>1, <1>2, <2>1
    <3> QED BY <1>1, <1>2, <2>1, <3>1, NoJobIsOne DEF IndexInv, IndexTypeOK
  <2>3. PlacesInv'
    BY <1>1, <1>2, NoJobFields DEF IndexInv, PlacesInv, Working
  <2>4. DrawnInv'
    <3> SUFFICES ASSUME entry # NoOne, NEW f \in drawn'
                 PROVE  graph'[f] = index[entry].extractions[f]
      BY <1>1, <1>2, NoJobFields DEF DrawnInv, Working
    <3>1. CASE job.changed
      BY <1>1, <1>2, <1>4, <3>1
    <3>2. CASE ~job.changed
      BY <1>1, <1>2, <2>1, <3>2 DEF IndexInv, DrawnInv, Redraws
    <3> QED BY <3>1, <3>2
  <2>5. ASSUME NEW f \in Files, RowSettled(f)
        PROVE  RowSettled(f)'
    BY <1>1, <1>2, <2>5, NoJobFields DEF RowSettled, RowDue, Reading
  <2>6. ASSUME NEW f \in Files, SymbolsSettled(f)
        PROVE  SymbolsSettled(f)'
    <3>1. /\ entry # NoOne => index[entry].extractions[f] = Read(f)
          /\ Drawn(f) \/ job.changed
      BY <1>1, <2>6 DEF SymbolsSettled, SymbolsDue, SymbolsKept, Redraws, Reading
    <3>2. Drawn(f)'
      <4>1. CASE job.changed
        BY <1>1, <1>2, <1>4, <3>1, <4>1 DEF Drawn, Read
      <4>2. CASE ~job.changed
        BY <1>1, <1>2, <2>1, <3>1, <4>2 DEF Drawn
      <4> QED BY <4>1, <4>2
    <3>3. (entry # NoOne => index[entry].extractions[f] = Read(f))'
      BY <1>1, <3>1 DEF Read
    <3> QED BY <1>2, <3>2, <3>3, NoJobFields DEF SymbolsSettled, SymbolsKept, Reading
  <2> QED BY <1>1, <2>1, <2>2, <2>3, <2>4, <2>5, <2>6, SameIndexes, IndexStepKeeps
<1> QED BY <1>3, <1>4

LEMMA GraphNotStoredKeeps == IndexInv /\ GraphNotStored => IndexInv'
<1> SUFFICES ASSUME IndexInv, GraphNotStored
             PROVE  IndexInv'
  OBVIOUS
<1>1. /\ job.pc = "graph" /\ job.todo = {} /\ job' = NoJob /\ drawn' = {}
      /\ entry \in IndexIds \cup {NoOne}
      /\ UNCHANGED <<disk, enabled, running, index, entry, chain, vectors, graph, count>>
  BY DEF GraphNotStored, fileVars, storedVars, IndexInv, IndexTypeOK
<1>2. /\ missed' \in [rows: SUBSET Files, symbols: SUBSET Files]
      /\ missed'.rows = missed.rows /\ missed'.symbols = Files
  BY DEF GraphNotStored, IndexInv, IndexTypeOK
<1>3. IndexTypeOK'
  <2>1. faults' \in 0 .. MaxFaults
    BY FaultCounts DEF IndexInv, GraphNotStored
  <2> QED BY <1>1, <1>2, <2>1, NoJobIsOne DEF IndexInv, IndexTypeOK
<1>4. PlacesInv'
  BY <1>1, NoJobFields DEF IndexInv, PlacesInv, Working
<1>5. DrawnInv'
  BY <1>1 DEF DrawnInv
<1>6. ASSUME NEW f \in Files, RowSettled(f)
      PROVE  RowSettled(f)'
  BY <1>1, <1>6, NoJobFields DEF RowSettled, RowDue, Reading
<1> QED BY <1>1, <1>2, <1>3, <1>4, <1>5, <1>6, SameIndexes, IndexStepKeeps

-----------------------------------------------------------------------------
(* The index: the switch                                                   *)

\* What the switch leaves alone settles as much as before.
LEMMA SwitchKeepsRows ==
  ASSUME NEW f \in Files, UNCHANGED <<disk, job, vectors>>, RowSettled(f)
  PROVE  RowSettled(f)'
BY DEF RowSettled, RowDue, Reading

\* A new index takes a place nobody is in.
LEMMA EnsuresIndex ==
  ASSUME IndexInv, EnsureIndex, UNCHANGED <<disk, chain, job, entry, vectors, graph, missed, drawn>>,
         enabled' \in BOOLEAN, running' \in BOOLEAN,
         count' \in [changes: 0 .. MaxChanges, switches: 0 .. MaxSwitches, quits: 0 .. MaxRestarts]
  PROVE  IndexInv'
<1>1. /\ index \in [IndexIds -> Index] /\ entry \in IndexIds \cup {NoOne}
      /\ vectors \in Symbols /\ graph \in Symbols
  BY TypeFacts DEF IndexInv, IndexTypeOK
<1>2. faults' \in 0 .. MaxFaults
  BY FaultCounts DEF EnsureIndex, IndexInv, IndexTypeOK
<1>3. /\ index' \in [IndexIds -> Index]
      /\ \/ index' = index
         \/ /\ entry = NoOne
            /\ \E n \in IndexIds :
                  /\ index[n].at = "gone" /\ job.id # n
                  /\ index'[n].at = "starting" /\ index'[n].watch /\ index'[n].open
                  /\ index'[n].pending = NoBatch
                  /\ \A i \in IndexIds \ {n} : index'[i] = index[i]
  <2>1. CASE index' = index
    BY <1>1, <2>1
  <2>2. CASE index' # index
    <3> DEFINE n   == CHOOSE i \in Free : TRUE
               new == [NoIndex EXCEPT !.at = "starting", !.watch = TRUE, !.open = TRUE]
    <3>1. entry = NoOne /\ Free # {} /\ index' = [index EXCEPT ![n] = new]
      BY <2>2 DEF EnsureIndex
    <3>2. n \in Free
      BY <3>1
    <3>3. n \in IndexIds /\ index[n].at = "gone" /\ job.id # n
      BY <3>2 DEF Free
    <3>4. new \in Index /\ new.at = "starting" /\ new.watch /\ new.open /\ new.pending = NoBatch
      BY EmptyBatch, EmptySymbols DEF NoIndex, Index
    <3> HIDE DEF n, new
    <3> QED BY <1>1, <3>1, <3>3, <3>4
  <2> QED BY <2>1, <2>2
<1>4. \A f \in Files : SameHeard(f)
  <2>1. \A i \in IndexIds : index[i].watch => index[i].at # "gone"
    BY DEF IndexInv, PlacesInv
  <2> QED BY <1>3, <2>1, EmptyBatch DEF SameHeard, Hears
<1>5. IndexTypeOK'
  BY <1>1, <1>2, <1>3 DEF IndexInv, IndexTypeOK
<1>6. PlacesInv'
  BY <1>1, <1>3, NoOneIsNone DEF IndexInv, PlacesInv, Working
<1>7. DrawnInv'
  <2>1. Working => job.id \in IndexIds
    BY JobId DEF Working
  <2> QED BY <1>1, <1>3, <2>1 DEF IndexInv, DrawnInv, Working, Redraws
<1>8. ASSUME NEW f \in Files, SymbolsSettled(f)
      PROVE  SymbolsSettled(f)'
  BY <1>1, <1>3, <1>8 DEF SymbolsSettled, SymbolsDue, SymbolsKept, Reading, Redraws, Good, Read, Drawn
<1> QED BY <1>4, <1>5, <1>6, <1>7, <1>8, SwitchKeepsRows, IndexStepKeeps

LEMMA SwitchCounts ==
  ASSUME IndexTypeOK, NEW on \in BOOLEAN, Switch(on)
  PROVE  /\ enabled' \in BOOLEAN /\ running' \in BOOLEAN
         /\ count' \in [changes: 0 .. MaxChanges, switches: 0 .. MaxSwitches, quits: 0 .. MaxRestarts]
         /\ UNCHANGED <<disk, running, chain, job, vectors, graph>>
<1>1. /\ enabled' = on /\ UNCHANGED <<disk, running, chain, job, vectors, graph>>
      /\ count.switches < MaxSwitches /\ count' = [count EXCEPT !.switches = @ + 1]
  BY DEF Switch, storedVars
<1>2. running' \in BOOLEAN
  BY <1>1 DEF IndexTypeOK
<1>3. count \in [changes: 0 .. MaxChanges, switches: 0 .. MaxSwitches, quits: 0 .. MaxRestarts]
  BY DEF IndexTypeOK
<1>4. MaxSwitches \in Nat
  BY IndexAssumption
<1>5. count.switches + 1 \in 0 .. MaxSwitches
  BY <1>1, <1>3, <1>4
<1>6. count' \in [changes: 0 .. MaxChanges, switches: 0 .. MaxSwitches, quits: 0 .. MaxRestarts]
  BY <1>1, <1>3, <1>5
<1> QED BY <1>1, <1>2, <1>6

LEMMA EnableKeeps == IndexInv /\ Enable => IndexInv'
<1> SUFFICES ASSUME IndexInv, Enable
             PROVE  IndexInv'
  OBVIOUS
<1>1. Switch(TRUE) /\ EnsureIndex /\ UNCHANGED <<entry, missed, drawn>>
  BY DEF Enable
<1>2. /\ enabled' \in BOOLEAN /\ running' \in BOOLEAN
      /\ count' \in [changes: 0 .. MaxChanges, switches: 0 .. MaxSwitches, quits: 0 .. MaxRestarts]
      /\ UNCHANGED <<disk, running, chain, job, vectors, graph>>
  BY <1>1, SwitchCounts DEF IndexInv
<1> QED BY <1>1, <1>2, EnsuresIndex

LEMMA BootKeeps == IndexInv /\ Boot => IndexInv'
<1> SUFFICES ASSUME IndexInv, Boot
             PROVE  IndexInv'
  OBVIOUS
<1>1. /\ enabled' \in BOOLEAN /\ running' \in BOOLEAN
      /\ count' \in [changes: 0 .. MaxChanges, switches: 0 .. MaxSwitches, quits: 0 .. MaxRestarts]
      /\ UNCHANGED <<disk, entry, chain, job, vectors, graph, missed, drawn, count>>
  BY TypeFacts DEF Boot, IndexInv, IndexTypeOK, storedVars
<1>2. CASE enabled
  BY <1>1, <1>2, EnsuresIndex DEF Boot
<1>3. CASE ~enabled
  <2>1. UNCHANGED <<index, faults>>
    BY <1>3 DEF Boot
  <2>2. IndexTypeOK'
    BY <1>1, <2>1 DEF IndexInv, IndexTypeOK
  <2>3. PlacesInv'
    BY <1>1, <2>1 DEF IndexInv, PlacesInv, Working
  <2>4. DrawnInv'
    BY <1>1, <2>1 DEF IndexInv, DrawnInv, Working, Redraws
  <2>5. ASSUME NEW f \in Files, SymbolsSettled(f)
        PROVE  SymbolsSettled(f)'
    BY <1>1, <2>1, <2>5 DEF SymbolsSettled, SymbolsDue, SymbolsKept, Reading, Redraws, Good, Read, Drawn
  <2> QED BY <1>1, <2>1, <2>2, <2>3, <2>4, <2>5, SameIndexes, SwitchKeepsRows, IndexStepKeeps
<1> QED BY <1>2, <1>3

LEMMA ListedKeeps ==
  ASSUME IndexInv, NEW n \in IndexIds, NEW watch \in BOOLEAN, Listed(n, watch),
         faults' \in 0 .. MaxFaults
  PROVE  IndexInv'
<1>1. /\ index[n].at = "starting" /\ entry' = n /\ drawn' = {}
      /\ index \in [IndexIds -> Index] /\ vectors \in Symbols /\ graph \in Symbols
      /\ UNCHANGED <<disk, enabled, running, chain, job, vectors, graph, count>>
  BY TypeFacts DEF Listed, IndexInv, IndexTypeOK, fileVars, storedVars
<1>2. /\ index' \in [IndexIds -> Index]
      /\ index'[n].at = "live" /\ index'[n].watch = watch
      /\ index'[n].open = index[n].open /\ index'[n].pending = index[n].pending
      /\ \A i \in IndexIds \ {n} : index'[i] = index[i]
  <2>1. index' = [index EXCEPT ![n] = [index[n] EXCEPT !.at = "live", !.watch = watch]]
    BY <1>1 DEF Listed
  <2>2. [index[n] EXCEPT !.at = "live", !.watch = watch] \in Index
    BY <1>1 DEF Index
  <2> QED BY <1>1, <2>1, <2>2 DEF Index
<1>3. /\ missed' \in [rows: SUBSET Files, symbols: SUBSET Files]
      /\ missed.rows \subseteq missed'.rows /\ missed'.symbols = Files
      /\ ~watch => Named(index[n].pending) \subseteq missed'.rows
  <2>1. index[n].pending \in Batch /\ Named(index[n].pending) \subseteq Files
    BY <1>1, IndexFields, NamedFiles
  <2> QED BY <2>1 DEF Listed, IndexInv, IndexTypeOK
<1>4. ASSUME NEW f \in Files, f \notin missed'.rows
      PROVE  SameHeard(f) \/ (watch /\ ~index[n].watch)
  <2>1. index[n].watch \in BOOLEAN
    BY <1>1, IndexFields
  <2> QED BY <1>2, <1>3, <1>4, <2>1 DEF SameHeard, Hears
<1>5. IndexTypeOK'
  <2>1. index[n].open
    BY <1>1 DEF IndexInv, PlacesInv
  <2> QED BY <1>1, <1>2, <1>3, <2>1 DEF IndexInv, IndexTypeOK
<1>6. PlacesInv'
  BY <1>1, <1>2 DEF IndexInv, PlacesInv, Working
<1>7. DrawnInv'
  BY <1>1 DEF DrawnInv
<1>8. index[n].watch
  BY <1>1 DEF IndexInv, PlacesInv
<1> QED BY <1>1, <1>3, <1>4, <1>5, <1>6, <1>7, <1>8, SwitchKeepsRows, IndexStepKeeps

LEMMA DisableKeeps == IndexInv /\ Disable => IndexInv'
<1> SUFFICES ASSUME IndexInv, Disable
             PROVE  IndexInv'
  OBVIOUS
<1>1. /\ enabled' \in BOOLEAN /\ running' \in BOOLEAN
      /\ count' \in [changes: 0 .. MaxChanges, switches: 0 .. MaxSwitches, quits: 0 .. MaxRestarts]
      /\ UNCHANGED <<disk, running, chain, job, vectors, graph>>
  BY SwitchCounts DEF IndexInv, Disable
<1>2. /\ UNCHANGED <<drawn, faults>>
      /\ index \in [IndexIds -> Index] /\ entry \in IndexIds \cup {NoOne}
      /\ missed \in [rows: SUBSET Files, symbols: SUBSET Files]
  BY DEF Disable, IndexInv, IndexTypeOK
<1>3. CASE entry = NoOne
  <2>1. UNCHANGED <<index, entry, missed>>
    BY <1>3 DEF Disable
  <2>2. IndexTypeOK'
    BY <1>1, <1>2, <2>1 DEF IndexInv, IndexTypeOK
  <2>3. PlacesInv'
    BY <1>1, <2>1 DEF IndexInv, PlacesInv, Working
  <2>4. DrawnInv'
    BY <1>1, <1>2, <2>1 DEF IndexInv, DrawnInv, Working, Redraws
  <2>5. ASSUME NEW f \in Files, SymbolsSettled(f)
        PROVE  SymbolsSettled(f)'
    BY <1>1, <1>2, <2>1, <2>5 DEF SymbolsSettled, SymbolsDue, SymbolsKept, Reading, Redraws, Good, Read, Drawn
  <2> QED BY <1>1, <1>2, <2>1, <2>2, <2>3, <2>4, <2>5, SameIndexes, SwitchKeepsRows, IndexStepKeeps
<1>4. CASE entry # NoOne
  <2> DEFINE n   == entry
             old == index[n]
  <2>1. n \in IndexIds /\ old \in Index /\ old.at \in {"live", "stopping"}
    BY <1>2, <1>4 DEF IndexInv, PlacesInv
  <2>2. old.pending \in Batch /\ Named(old.pending) \subseteq Files
    BY <2>1, IndexFields, NamedFiles
  <2>3. /\ missed' \in [rows: SUBSET Files, symbols: SUBSET Files]
        /\ missed'.rows = missed.rows \cup Named(old.pending)
        /\ missed'.symbols = missed.symbols \cup Named(old.pending)
    BY <1>2, <1>4, <2>2 DEF Disable, MissedToo
  <2>4. /\ index' \in [IndexIds -> Index]
        /\ \A i \in IndexIds \ {n} : index'[i] = index[i]
        /\ ~index'[n].watch /\ index'[n].extractions = index[n].extractions
        /\ index'[n].at # "starting"
        /\ \/ entry' = n /\ index'[n].open /\ index'[n].at = "stopping"
           \/ entry' = NoOne
    <3>1. CASE old.watch
      <4> DEFINE new == [old EXCEPT !.at = "stopping", !.watch = FALSE, !.pending = NoBatch]
      <4>1. index' = [index EXCEPT ![n] = new] /\ entry' = n
        BY <1>4, <3>1 DEF Disable
      <4>2. /\ new \in Index /\ ~new.watch /\ new.at = "stopping" /\ new.open = old.open
            /\ new.extractions = old.extractions
        BY <2>1, EmptyBatch DEF Index
      <4>3. old.open
        BY <1>4 DEF IndexInv, IndexTypeOK
      <4> HIDE DEF new
      <4> QED BY <1>2, <2>1, <4>1, <4>2, <4>3
    <3>2. CASE ~old.watch
      <4>1. /\ entry' = NoOne
            /\ index' = [index EXCEPT ![n].open = FALSE,
                                      ![n].at = IF @ = "live" THEN "gone" ELSE @]
        BY <1>4, <3>2 DEF Disable
      <4> QED BY <1>2, <2>1, <3>2, <4>1 DEF Index
    <3> QED BY <3>1, <3>2
  <2>5. ASSUME NEW f \in Files, f \notin missed'.rows \/ f \notin missed'.symbols
        PROVE  SameHeard(f)
    BY <2>1, <2>3, <2>4, <2>5 DEF SameHeard, Hears
  <2>6. IndexTypeOK'
    BY <1>1, <1>2, <2>1, <2>3, <2>4, NoOneIsNone DEF IndexInv, IndexTypeOK
  <2>7. PlacesInv'
    BY <1>1, <1>2, <2>1, <2>4, NoOneIsNone DEF IndexInv, PlacesInv, Working
  <2>8. \A i \in IndexIds : index'[i].extractions = index[i].extractions
    BY <2>4
  <2>9. DrawnInv'
    <3>1. Working => job.id \in IndexIds
      BY JobId DEF Working
    <3> QED BY <1>1, <1>2, <2>1, <2>4, <2>8, <3>1 DEF IndexInv, DrawnInv, Working, Redraws
  <2>10. ASSUME NEW f \in Files, SymbolsSettled(f)
         PROVE  SymbolsSettled(f)'
    BY <1>1, <1>2, <2>1, <2>4, <2>8, <2>10
       DEF SymbolsSettled, SymbolsDue, SymbolsKept, Reading, Redraws, Good, Read, Drawn
  <2> QED BY <1>1, <2>3, <2>5, <2>6, <2>7, <2>9, <2>10, SwitchKeepsRows, IndexStepKeeps
<1> QED BY <1>3, <1>4

LEMMA WatcherStoppedKeeps ==
  ASSUME IndexInv, NEW n \in IndexIds, WatcherStopped(n)
  PROVE  IndexInv'
<1>1. /\ index[n].at = "stopping" /\ entry' = NoOne /\ index \in [IndexIds -> Index]
      /\ UNCHANGED <<disk, enabled, running, chain, job, vectors, graph, missed, drawn, count, faults>>
  BY DEF WatcherStopped, IndexInv, IndexTypeOK, fileVars, storedVars, historyVars
<1>2. /\ index' \in [IndexIds -> Index]
      /\ \A i \in IndexIds \ {n} : index'[i] = index[i]
      /\ index'[n].at = "gone" /\ index'[n].watch = index[n].watch
      /\ index'[n].pending = index[n].pending /\ index'[n].extractions = index[n].extractions
  <2> DEFINE new == [index[n] EXCEPT !.at = "gone", !.open = FALSE]
  <2>1. index' = [index EXCEPT ![n] = new]
    BY <1>1 DEF WatcherStopped
  <2>2. /\ new \in Index /\ new.at = "gone" /\ new.watch = index[n].watch
        /\ new.pending = index[n].pending /\ new.extractions = index[n].extractions
    BY <1>1 DEF Index
  <2> HIDE DEF new
  <2> QED BY <1>1, <2>1, <2>2
<1>3. \A f \in Files : SameHeard(f)
  BY <1>2 DEF SameHeard, Hears
<1>4. IndexTypeOK'
  BY <1>1, <1>2 DEF IndexInv, IndexTypeOK
<1>5. PlacesInv'
  BY <1>1, <1>2 DEF IndexInv, PlacesInv, Working
<1>6. DrawnInv'
  <2>1. Working => job.id \in IndexIds
    BY JobId DEF Working
  <2>2. \A i \in IndexIds : index'[i].extractions = index[i].extractions
    BY <1>2
  <2> QED BY <1>1, <2>1, <2>2 DEF IndexInv, DrawnInv, Working, Redraws
<1>7. ASSUME NEW f \in Files, SymbolsSettled(f)
      PROVE  SymbolsSettled(f)'
  BY <1>1, <1>7 DEF SymbolsSettled, SymbolsDue, SymbolsKept, Reading, Redraws, Good, Read, Drawn
<1> QED BY <1>1, <1>3, <1>4, <1>5, <1>6, <1>7, SwitchKeepsRows, IndexStepKeeps

-----------------------------------------------------------------------------
(* The index: the watcher, the chain and the end of the process            *)

LEMMA QueuedParts ==
  \A f : f \in Queued <=> \/ \E n \in DOMAIN chain : f \in Named(chain[n])
                          \/ \E i \in IndexIds : f \in Named(index[i].pending)
                          \/ f \in Named(job.batch)
<1> DEFINE chained == UNION {Named(chain[n]) : n \in DOMAIN chain}
           heard   == UNION {Named(index[i].pending) : i \in IndexIds}
<1>1. \A f : f \in chained <=> \E n \in DOMAIN chain : f \in Named(chain[n])
  OBVIOUS
<1>2. \A f : f \in heard <=> \E i \in IndexIds : f \in Named(index[i].pending)
  OBVIOUS
<1>3. Queued = chained \cup heard \cup Named(job.batch)
  BY DEF Queued
<1> HIDE DEF chained, heard
<1> QED BY <1>1, <1>2, <1>3

LEMMA QuitsKeeps == IndexInv /\ IndexQuits => IndexInv'
<1> SUFFICES ASSUME IndexInv, IndexQuits
             PROVE  IndexInv'
  OBVIOUS
<1>1. /\ running' = FALSE /\ index' = [i \in IndexIds |-> NoIndex] /\ entry' = NoOne
      /\ chain' = <<>> /\ job' = NoJob
      /\ UNCHANGED <<disk, enabled, vectors, graph, drawn, faults>>
      /\ count' \in [changes: 0 .. MaxChanges, switches: 0 .. MaxSwitches, quits: 0 .. MaxRestarts]
  <2>1. /\ running' = FALSE /\ index' = [i \in IndexIds |-> NoIndex] /\ entry' = NoOne
        /\ chain' = <<>> /\ job' = NoJob
        /\ UNCHANGED <<disk, enabled, vectors, graph, drawn, faults>>
        /\ count.quits < MaxRestarts /\ count' = [count EXCEPT !.quits = @ + 1]
    BY DEF IndexQuits, storedVars
  <2>2. count \in [changes: 0 .. MaxChanges, switches: 0 .. MaxSwitches, quits: 0 .. MaxRestarts]
    BY DEF IndexInv, IndexTypeOK
  <2>3. MaxRestarts \in Nat
    BY IndexAssumption
  <2>4. count.quits + 1 \in 0 .. MaxRestarts
    BY <2>1, <2>2, <2>3
  <2>5. count' \in [changes: 0 .. MaxChanges, switches: 0 .. MaxSwitches, quits: 0 .. MaxRestarts]
    BY <2>1, <2>2, <2>4
  <2> QED BY <2>1, <2>5
<1>2. /\ chain \in Seq(Batch) /\ index \in [IndexIds -> Index] /\ job \in Job
      /\ missed \in [rows: SUBSET Files, symbols: SUBSET Files]
  BY DEF IndexInv, IndexTypeOK
<1>3. /\ \A n \in DOMAIN chain : Named(chain[n]) \subseteq Queued /\ Named(chain[n]) \subseteq Files
      /\ \A i \in IndexIds :
            Named(index[i].pending) \subseteq Queued /\ Named(index[i].pending) \subseteq Files
      /\ Named(job.batch) \subseteq Queued /\ Named(job.batch) \subseteq Files
  <2>1. \A n \in DOMAIN chain : chain[n] \in Batch
    BY <1>2
  <2>2. \A i \in IndexIds : index[i].pending \in Batch
    BY <1>2, IndexFields
  <2>3. job.batch \in Batch
    BY <1>2, JobFields
  <2> QED BY <2>1, <2>2, <2>3, NamedFiles, QueuedParts
<1>4. Queued \subseteq Files
  BY <1>3, QueuedParts
<1>5. /\ missed' \in [rows: SUBSET Files, symbols: SUBSET Files]
      /\ missed'.rows = missed.rows \cup Queued /\ missed'.symbols = missed.symbols \cup Queued
  BY <1>2, <1>4 DEF IndexQuits, MissedToo
<1>6. IndexTypeOK'
  <2>1. index' \in [IndexIds -> Index] /\ chain' \in Seq(Batch)
    BY <1>1, NoIndexIsOne
  <2> QED BY <1>1, <1>5, <2>1, NoJobIsOne DEF IndexInv, IndexTypeOK
<1>7. PlacesInv'
  BY <1>1, NoJobFields DEF PlacesInv, Working, NoIndex
<1>8. DrawnInv'
  BY <1>1, NoJobFields DEF DrawnInv, Working
<1>9. ASSUME NEW f \in Files
      PROVE  Heard(f)' /\ ChainNone(f)'
  BY <1>1 DEF Heard, ChainNone, NoIndex
<1>10. ASSUME NEW f \in Files \ Queued, Coming(f)
       PROVE  FALSE
  BY <1>3, <1>10 DEF Coming, Told, ChainGood, Good, Named
<1>11. job.todo \subseteq Queued /\ (job.pc = "embed" => job.file \in Queued)
  BY <1>3 DEF IndexInv, PlacesInv
<1>12. ASSUME NEW f \in Files \ Queued, RowSettled(f)
       PROVE  RowSettled(f)'
  BY <1>1, <1>11, <1>12, NoJobFields DEF RowSettled, RowDue
<1>13. ASSUME NEW f \in Files \ Queued, SymbolsSettled(f)
       PROVE  SymbolsSettled(f)'
  <2>1. f \notin Named(job.batch)
    BY <1>3
  <2>2. Drawn(f)
    BY <1>11, <1>13, <2>1 DEF SymbolsSettled, SymbolsDue, SymbolsKept, Good, Named
  <2> QED BY <1>1, <2>2, NoJobFields DEF SymbolsSettled, SymbolsKept, Reading, Drawn
<1>14. RowsInv'
  BY <1>5, <1>9, <1>10, <1>12 DEF IndexInv, RowsInv
<1>15. SymbolsInv'
  BY <1>5, <1>9, <1>10, <1>13 DEF IndexInv, SymbolsInv, SymbolsSettled
<1> QED BY <1>6, <1>7, <1>8, <1>14, <1>15 DEF IndexInv

LEMMA ChainGrows ==
  ASSUME NEW f \in Files, NEW b \in Batch, chain \in Seq(Batch), chain' = Append(chain, b),
         UNCHANGED disk
  PROVE  /\ Good(b, f) => ChainGood(f)'
         /\ f \notin Named(b) /\ ChainGood(f) => ChainGood(f)'
         /\ f \notin Named(b) /\ ChainNone(f) => ChainNone(f)'
<1>1. /\ DOMAIN chain = 1 .. Len(chain) /\ Len(chain) \in Nat
      /\ DOMAIN chain' = 1 .. Len(chain) + 1
      /\ chain'[Len(chain) + 1] = b
      /\ \A n \in 1 .. Len(chain) : chain'[n] = chain[n]
  OBVIOUS
<1>2. ASSUME Good(b, f)
      PROVE  ChainGood(f)'
  <2> PICK n \in Nat : n = Len(chain) + 1
    BY <1>1
  <2>1. Good(chain[n], f)'
    BY <1>1, <1>2 DEF Good
  <2>2. n \in DOMAIN chain' /\ \A m \in DOMAIN chain' : ~(m > n)
    BY <1>1
  <2> QED BY <2>1, <2>2 DEF ChainGood
<1>3. ASSUME f \notin Named(b), ChainGood(f)
      PROVE  ChainGood(f)'
  <2>1. PICK n \in DOMAIN chain :
           Good(chain[n], f) /\ \A m \in DOMAIN chain : m > n => f \notin Named(chain[m])
    BY <1>3 DEF ChainGood
  <2>2. n \in DOMAIN chain' /\ Good(chain[n], f)'
    BY <1>1, <2>1 DEF Good
  <2>3. \A m \in DOMAIN chain' : m > n => f \notin Named(chain'[m])
    BY <1>1, <1>3, <2>1
  <2> QED BY <2>2, <2>3 DEF ChainGood
<1>4. ASSUME f \notin Named(b), ChainNone(f)
      PROVE  ChainNone(f)'
  BY <1>1, <1>4 DEF ChainNone
<1> QED BY <1>2, <1>3, <1>4

LEMMA FlushKeeps ==
  ASSUME IndexInv, NEW n \in IndexIds, Flush(n)
  PROVE  IndexInv'
<1> DEFINE b == index[n].pending
<1>1. /\ index[n].watch /\ chain' = Append(chain, b)
      /\ index' = [index EXCEPT ![n].pending = NoBatch]
      /\ UNCHANGED <<disk, enabled, running, entry, job, vectors, graph, missed, drawn, count, faults>>
      /\ chain \in Seq(Batch) /\ index \in [IndexIds -> Index]
      /\ entry \in IndexIds \cup {NoOne}
  BY DEF Flush, fileVars, storedVars, historyVars, IndexInv, IndexTypeOK
<1>2. b \in Batch
  BY <1>1, IndexFields
<1>3. /\ index' \in [IndexIds -> Index] /\ index'[n].pending = NoBatch
      /\ \A i \in IndexIds \ {n} : index'[i] = index[i]
      /\ \A i \in IndexIds : /\ index'[i].at = index[i].at /\ index'[i].watch = index[i].watch
                             /\ index'[i].open = index[i].open
                             /\ index'[i].extractions = index[i].extractions
  BY <1>1, EmptyBatch DEF Index
<1> HIDE DEF b
<1>4. IndexTypeOK'
  <2>1. chain' \in Seq(Batch)
    BY <1>1, <1>2
  <2> QED BY <1>1, <1>3, <2>1 DEF IndexInv, IndexTypeOK
<1>5. PlacesInv'
  BY <1>1, <1>3 DEF IndexInv, PlacesInv, Working
<1>6. DrawnInv'
  <2>1. Working => job.id \in IndexIds
    BY JobId DEF Working
  <2> QED BY <1>1, <1>3, <2>1 DEF IndexInv, DrawnInv, Working, Redraws
<1>7. ASSUME NEW f \in Files, SymbolsSettled(f)
      PROVE  SymbolsSettled(f)'
  BY <1>1, <1>3, <1>7 DEF SymbolsSettled, SymbolsDue, SymbolsKept, Reading, Redraws, Good, Read, Drawn
<1>8. ASSUME NEW f \in Files, Heard(f)
      PROVE  Heard(f)'
  BY <1>1, <1>3, <1>8, EmptyBatch DEF Heard, Good
<1>9. ASSUME NEW f \in Files, f \in Named(b), Heard(f)
      PROVE  Coming(f)'
  <2>1. Good(b, f)
    BY <1>1, <1>9 DEF Heard, b
  <2> QED BY <1>1, <1>2, <2>1, ChainGrows DEF Coming
<1>10. ASSUME NEW f \in Files, f \notin Named(b)
       PROVE  (Coming(f) => Coming(f)') /\ (ChainNone(f) => ChainNone(f)')
  <2>1. Told(f) => Told(f)'
    BY <1>3, <1>10 DEF Told, b
  <2> QED BY <1>1, <1>2, <1>10, <2>1, ChainGrows DEF Coming
<1>11. RowsInv'
  <2> SUFFICES ASSUME NEW f \in Files \ missed.rows
               PROVE  (Heard(f) /\ (Coming(f) \/ (ChainNone(f) /\ RowSettled(f))))'
    BY <1>1 DEF RowsInv
  <2>1. Heard(f) /\ (Coming(f) \/ (ChainNone(f) /\ RowSettled(f)))
    BY DEF IndexInv, RowsInv
  <2> QED BY <1>1, <1>8, <1>9, <1>10, <2>1, SwitchKeepsRows
<1>12. SymbolsInv'
  <2> SUFFICES ASSUME NEW f \in Files \ missed.symbols
               PROVE  (Heard(f) /\ (Coming(f) \/ (ChainNone(f) /\ SymbolsSettled(f))))'
    BY <1>1 DEF SymbolsInv, SymbolsSettled
  <2>1. Heard(f) /\ (Coming(f) \/ (ChainNone(f) /\ SymbolsSettled(f)))
    BY DEF IndexInv, SymbolsInv, SymbolsSettled
  <2> QED BY <1>7, <1>8, <1>9, <1>10, <2>1
<1> QED BY <1>4, <1>5, <1>6, <1>11, <1>12 DEF IndexInv

LEMMA QueueFields ==
  ASSUME NEW b \in Batch, NEW g \in Files, NEW kind \in {"added", "changed", "removed"}
  PROVE  /\ Queue(b, kind, g) \in Batch
         /\ kind = "added" => g \in Queue(b, kind, g).added
         /\ kind = "changed" => g \in Queue(b, kind, g).added \cup Queue(b, kind, g).changed
         /\ kind = "removed" =>
               /\ g \in Queue(b, kind, g).removed
               /\ g \notin Queue(b, kind, g).added \cup Queue(b, kind, g).changed
         /\ \A f \in Files \ {g} :
               /\ f \in Queue(b, kind, g).added <=> f \in b.added
               /\ f \in Queue(b, kind, g).changed <=> f \in b.changed
               /\ f \in Queue(b, kind, g).removed <=> f \in b.removed
<1>1. CASE kind = "added"
  BY <1>1 DEF Queue, Batch
<1>2. CASE kind = "changed"
  BY <1>2 DEF Queue, Batch
<1>3. CASE kind = "removed"
  BY <1>3 DEF Queue, Batch
<1> QED BY <1>1, <1>2, <1>3

\* A file that did not change keeps its place in the batch.
LEMMA QueueElsewhere ==
  ASSUME NEW b \in Batch, NEW g \in Files, NEW kind \in {"added", "changed", "removed"},
         NEW f \in Files \ {g}, NEW q, q = Queue(b, kind, g)
  PROVE  /\ f \in q.added <=> f \in b.added
         /\ f \in q.changed <=> f \in b.changed
         /\ f \in q.removed <=> f \in b.removed
<1>1. CASE kind = "added"
  BY <1>1 DEF Queue, Batch
<1>2. CASE kind = "changed"
  BY <1>2 DEF Queue, Batch
<1>3. CASE kind = "removed"
  BY <1>3 DEF Queue, Batch
<1> QED BY <1>1, <1>2, <1>3

LEMMA ChangeKeeps ==
  ASSUME IndexInv, NEW g \in Files, NEW bytes \in Bytes, Change(g, bytes)
  PROVE  IndexInv'
<1> DEFINE kind  == IF disk[g] = Absent THEN "added" ELSE IF bytes = Absent THEN "removed" ELSE "changed"
           ready == {i \in IndexIds : index[i].watch /\ index[i].at = "live"}
           early == {i \in IndexIds : index[i].watch /\ index[i].at = "starting"}
           Heed(i) == [index[i] EXCEPT !.pending = Queue(index[i].pending, kind, g)]
<1>1. /\ disk[g] # bytes /\ disk' = [disk EXCEPT ![g] = bytes]
      /\ disk \in [Files -> Bytes] /\ index \in [IndexIds -> Index]
      /\ vectors \in Symbols /\ graph \in Symbols /\ entry \in IndexIds \cup {NoOne}
      /\ missed \in [rows: SUBSET Files, symbols: SUBSET Files]
      /\ UNCHANGED <<enabled, running, entry, chain, job, vectors, graph, drawn, faults>>
      /\ count' \in [changes: 0 .. MaxChanges, switches: 0 .. MaxSwitches, quits: 0 .. MaxRestarts]
  <2>1. /\ disk[g] # bytes /\ disk' = [disk EXCEPT ![g] = bytes]
        /\ UNCHANGED <<enabled, running, entry, chain, job, vectors, graph, drawn, faults>>
        /\ count.changes < MaxChanges /\ count' = [count EXCEPT !.changes = @ + 1]
    BY DEF Change, storedVars
  <2>2. /\ disk \in [Files -> Bytes] /\ index \in [IndexIds -> Index]
        /\ vectors \in Symbols /\ graph \in Symbols /\ entry \in IndexIds \cup {NoOne}
        /\ missed \in [rows: SUBSET Files, symbols: SUBSET Files]
        /\ count \in [changes: 0 .. MaxChanges, switches: 0 .. MaxSwitches, quits: 0 .. MaxRestarts]
    BY DEF IndexInv, IndexTypeOK
  <2>3. MaxChanges \in Nat
    BY IndexAssumption
  <2>4. count.changes + 1 \in 0 .. MaxChanges
    BY <2>1, <2>2, <2>3
  <2>5. count' \in [changes: 0 .. MaxChanges, switches: 0 .. MaxSwitches, quits: 0 .. MaxRestarts]
    BY <2>1, <2>2, <2>4
  <2> QED BY <2>1, <2>2, <2>5
<1>2. PICK told \in {ready \cup some : some \in SUBSET early} :
         /\ index' = [i \in IndexIds |-> IF i \in told THEN Heed(i) ELSE index[i]]
         /\ IF told = {} \/ ~(early \subseteq told)
            THEN MissedToo({g})
            ELSE missed' = [rows |-> missed.rows \ {g}, symbols |-> missed.symbols \ {g}]
  BY DEF Change
<1>3. /\ told \subseteq {i \in IndexIds : index[i].watch}
      /\ early \subseteq told => \A i \in IndexIds : index[i].watch => i \in told
  <2>1. \A i \in IndexIds : index[i].watch => index[i].at \in {"starting", "live"}
    BY DEF IndexInv, PlacesInv
  <2> QED BY <1>2, <2>1
<1>4. /\ kind \in {"added", "changed", "removed"}
      /\ kind = "removed" <=> bytes = Absent
  BY <1>1
<1> HIDE DEF kind, early, ready
<1>5. ASSUME NEW i \in IndexIds
      PROVE  /\ index[i].pending \in Batch
             /\ Heed(i) \in Index
             /\ Heed(i).at = index[i].at /\ Heed(i).watch = index[i].watch
             /\ Heed(i).open = index[i].open /\ Heed(i).extractions = index[i].extractions
             /\ Heed(i).pending = Queue(index[i].pending, kind, g)
  <2>1. index[i] \in Index /\ index[i].pending \in Batch
    BY <1>1, IndexFields
  <2>2. Queue(index[i].pending, kind, g) \in Batch
    BY <1>4, <2>1, QueueFields
  <2> QED BY <2>1, <2>2 DEF Index
<1> HIDE DEF Heed
<1>6. /\ index' \in [IndexIds -> Index]
      /\ \A i \in IndexIds : /\ index'[i].at = index[i].at /\ index'[i].watch = index[i].watch
                             /\ index'[i].open = index[i].open
                             /\ index'[i].extractions = index[i].extractions
      /\ \A i \in IndexIds : i \in told => index'[i].pending = Queue(index[i].pending, kind, g)
      /\ \A i \in IndexIds : i \notin told => index'[i].pending = index[i].pending
  BY <1>1, <1>2, <1>5
<1>7. /\ missed' \in [rows: SUBSET Files, symbols: SUBSET Files]
      /\ missed.rows \subseteq missed'.rows \cup {g}
      /\ missed.symbols \subseteq missed'.symbols \cup {g}
      /\ g \notin missed'.rows \cap missed'.symbols => told # {} /\ early \subseteq told
  BY <1>1, <1>2 DEF MissedToo
<1>8. disk' \in [Files -> Bytes] /\ disk'[g] = bytes /\ \A f \in Files \ {g} : disk'[f] = disk[f]
  BY <1>1
<1>9. IndexTypeOK'
  BY <1>1, <1>6, <1>7, <1>8 DEF IndexInv, IndexTypeOK
<1>10. PlacesInv'
  BY <1>1, <1>6 DEF IndexInv, PlacesInv, Working
<1>11. DrawnInv'
  <2>1. Working => job.id \in IndexIds
    BY JobId DEF Working
  <2> QED BY <1>1, <1>6, <2>1 DEF IndexInv, DrawnInv, Working, Redraws
<1>12. ASSUME g \notin missed'.rows \cap missed'.symbols
       PROVE  Heard(g)' /\ Coming(g)'
  <2>1. told # {} /\ \A i \in IndexIds : index[i].watch => i \in told
    BY <1>3, <1>7, <1>12
  <2>2. ASSUME NEW i \in told
        PROVE  Good(index[i].pending, g)' /\ g \in Named(index'[i].pending)
    <3>1. i \in IndexIds /\ index'[i].pending = Queue(index[i].pending, kind, g)
      BY <1>3, <1>6
    <3>2. index[i].pending \in Batch
      BY <1>5, <3>1
    <3> DEFINE b == Queue(index[i].pending, kind, g)
    <3>3. /\ kind = "added" => g \in b.added
          /\ kind = "changed" => g \in b.added \cup b.changed
          /\ kind = "removed" => g \in b.removed /\ g \notin b.added \cup b.changed
      BY <1>4, <3>2, QueueFields
    <3> HIDE DEF b
    <3> QED BY <1>4, <1>8, <3>1, <3>3 DEF Good, Named, b
  <2>3. \A i \in IndexIds : index'[i].watch => i \in told
    BY <1>6, <2>1
  <2>4. told \subseteq IndexIds /\ \A i \in told : index'[i].watch
    BY <1>3, <1>6
  <2>5. Heard(g)'
    BY <2>2, <2>3 DEF Heard
  <2>6. Told(g)'
    BY <2>1, <2>2, <2>4 DEF Told
  <2> QED BY <2>5, <2>6 DEF Coming
<1>13. ASSUME NEW f \in Files \ {g}
       PROVE  /\ Heard(f) => Heard(f)'
              /\ Coming(f) => Coming(f)'
              /\ ChainNone(f) => ChainNone(f)'
              /\ RowSettled(f) => RowSettled(f)'
              /\ SymbolsSettled(f) => SymbolsSettled(f)'
  <2>1. ASSUME NEW i \in IndexIds
        PROVE  /\ f \in index'[i].pending.added <=> f \in index[i].pending.added
               /\ f \in index'[i].pending.changed <=> f \in index[i].pending.changed
               /\ f \in index'[i].pending.removed <=> f \in index[i].pending.removed
    <3>1. CASE i \in told
      <4> DEFINE b == index[i].pending
      <4>1. b \in Batch /\ index'[i].pending = Queue(b, kind, g)
        BY <1>5, <1>6, <3>1
      <4>2. /\ f \in Queue(b, kind, g).added <=> f \in b.added
            /\ f \in Queue(b, kind, g).changed <=> f \in b.changed
            /\ f \in Queue(b, kind, g).removed <=> f \in b.removed
        BY <1>4, <4>1, QueueElsewhere
      <4> QED BY <4>1, <4>2
    <3>2. CASE i \notin told
      BY <1>6, <3>2
    <3> QED BY <3>1, <3>2
  <2>2. disk'[f] = disk[f]
    BY <1>8
  <2>3. Heard(f) => Heard(f)'
    BY <1>6, <2>1, <2>2 DEF Heard, Good, Named
  <2>4. Told(f) => Told(f)'
    BY <1>6, <2>1 DEF Told, Named
  <2>5. ChainGood(f) => ChainGood(f)'
    BY <1>1, <2>2 DEF ChainGood, Good
  <2>6. ChainNone(f) => ChainNone(f)'
    BY <1>1 DEF ChainNone
  <2>7. RowSettled(f) => RowSettled(f)'
    BY <1>1, <2>2 DEF RowSettled, RowDue, Reading
  <2>8. SymbolsSettled(f) => SymbolsSettled(f)'
    BY <1>1, <1>6, <2>2
       DEF SymbolsSettled, SymbolsDue, SymbolsKept, Reading, Redraws, Good, Read, Drawn
  <2> QED BY <2>3, <2>4, <2>5, <2>6, <2>7, <2>8 DEF Coming
<1>14. RowsInv'
  <2> SUFFICES ASSUME NEW f \in Files, f \notin missed'.rows
               PROVE  (Heard(f) /\ (Coming(f) \/ (ChainNone(f) /\ RowSettled(f))))'
    BY DEF RowsInv
  <2>1. CASE f = g
    BY <1>12, <2>1
  <2>2. CASE f # g
    BY <1>7, <1>13, <2>2 DEF IndexInv, RowsInv
  <2> QED BY <2>1, <2>2
<1>15. SymbolsInv'
  <2> SUFFICES ASSUME NEW f \in Files, f \notin missed'.symbols
               PROVE  (Heard(f) /\ (Coming(f) \/ (ChainNone(f) /\ SymbolsSettled(f))))'
    BY DEF SymbolsInv, SymbolsSettled
  <2>1. CASE f = g
    BY <1>12, <2>1
  <2>2. CASE f # g
    BY <1>7, <1>13, <2>2 DEF IndexInv, SymbolsInv, SymbolsSettled
  <2> QED BY <2>1, <2>2
<1> QED BY <1>9, <1>10, <1>11, <1>14, <1>15 DEF IndexInv

LEMMA ChainShrinks ==
  ASSUME NEW f \in Files, chain \in Seq(Batch), chain # <<>>, chain' = Tail(chain),
         UNCHANGED disk
  PROVE  /\ ChainGood(f) => ChainGood(f)' \/ (Good(Head(chain), f) /\ ChainNone(f)')
         /\ ChainNone(f) => f \notin Named(Head(chain)) /\ ChainNone(f)'
<1>1. /\ Len(chain) \in Nat \ {0} /\ DOMAIN chain = 1 .. Len(chain) /\ Head(chain) = chain[1]
      /\ DOMAIN chain' = 1 .. Len(chain) - 1
      /\ \A n \in 1 .. Len(chain) - 1 : chain'[n] = chain[n + 1]
  OBVIOUS
<1>2. ASSUME ChainGood(f)
      PROVE  ChainGood(f)' \/ (Good(Head(chain), f) /\ ChainNone(f)')
  <2>1. PICK n \in DOMAIN chain :
           Good(chain[n], f) /\ \A m \in DOMAIN chain : m > n => f \notin Named(chain[m])
    BY <1>2 DEF ChainGood
  <2>2. CASE n = 1
    BY <1>1, <2>1, <2>2 DEF ChainNone
  <2>3. CASE n # 1
    <3> DEFINE k == n - 1
    <3>0. k \in DOMAIN chain' /\ n = k + 1
      BY <1>1, <2>1, <2>3
    <3> HIDE DEF k
    <3>1. Good(chain[k], f)'
      BY <1>1, <2>1, <3>0 DEF Good
    <3>2. \A m \in DOMAIN chain' : m > k => f \notin Named(chain'[m])
      BY <1>1, <2>1, <3>0
    <3> QED BY <3>0, <3>1, <3>2 DEF ChainGood
  <2> QED BY <2>2, <2>3
<1>3. ASSUME ChainNone(f)
      PROVE  f \notin Named(Head(chain)) /\ ChainNone(f)'
  BY <1>1, <1>3 DEF ChainNone
<1> QED BY <1>2, <1>3

LEMMA BatchBeginsKeeps == IndexInv /\ BatchBegins => IndexInv'
<1> SUFFICES ASSUME IndexInv, BatchBegins
             PROVE  IndexInv'
  OBVIOUS
<1> DEFINE b   == Head(chain)
           new == b.added \cup b.changed
<1>1. /\ job.pc = "idle" /\ chain # <<>> /\ chain' = Tail(chain)
      /\ UNCHANGED <<disk, enabled, running, index, entry, graph, drawn, count>>
      /\ chain \in Seq(Batch) /\ entry \in IndexIds \cup {NoOne} /\ job = NoJob
      /\ vectors \in Symbols /\ graph \in Symbols
      /\ missed \in [rows: SUBSET Files, symbols: SUBSET Files]
  BY TypeFacts DEF BatchBegins, fileVars, IndexInv, IndexTypeOK, PlacesInv
<1>2. b \in Batch /\ chain' \in Seq(Batch)
  BY <1>1
<1>3. new \subseteq Files /\ b.removed \subseteq Files /\ Named(b) \subseteq Files
      /\ Named(b) = new \cup b.removed
  BY <1>2, NamedFiles DEF Named
<1>4. ASSUME NEW f \in Files
      PROVE  /\ Heard(f) => Heard(f)'
             /\ Told(f) => Told(f)'
             /\ ChainGood(f) => ChainGood(f)' \/ (Good(b, f) /\ ChainNone(f)')
             /\ ChainNone(f) => f \notin Named(b) /\ ChainNone(f)'
             /\ Good(b, f) => f \in Named(b)
  BY <1>1, ChainShrinks DEF Heard, Told, Good, Named
<1>5. CASE entry = NoOne
  <2>1. MissedToo(Named(b)) /\ UNCHANGED <<job, vectors, faults>>
    BY <1>5 DEF BatchBegins
  <2>2. /\ missed' \in [rows: SUBSET Files, symbols: SUBSET Files]
        /\ missed'.rows = missed.rows \cup Named(b) /\ missed'.symbols = missed.symbols \cup Named(b)
    BY <1>1, <1>3, <2>1 DEF MissedToo
  <2> HIDE DEF b
  <2>3. IndexTypeOK'
    BY <1>1, <1>2, <2>1, <2>2 DEF IndexInv, IndexTypeOK
  <2>4. PlacesInv'
    BY <1>1, <2>1 DEF IndexInv, PlacesInv, Working
  <2>5. DrawnInv'
    BY <1>1, <2>1 DEF IndexInv, DrawnInv, Working, Redraws
  <2>6. ASSUME NEW f \in Files
        PROVE  /\ RowSettled(f) => RowSettled(f)'
               /\ SymbolsSettled(f) => SymbolsSettled(f)'
    <3>1. RowSettled(f) => RowSettled(f)'
      BY <1>1, <2>1, SwitchKeepsRows
    <3>2. SymbolsSettled(f) => SymbolsSettled(f)'
      BY <1>1, <2>1 DEF SymbolsSettled, SymbolsDue, SymbolsKept, Reading, Redraws, Good, Read, Drawn
    <3> QED BY <3>1, <3>2
  <2>7. RowsInv'
    BY <1>4, <2>2, <2>6 DEF IndexInv, RowsInv, Coming
  <2>8. SymbolsInv'
    BY <1>4, <2>2, <2>6 DEF IndexInv, SymbolsInv, SymbolsSettled, Coming
  <2> QED BY <2>3, <2>4, <2>5, <2>7, <2>8 DEF IndexInv
<1>6. CASE entry # NoOne
  <2>1. PICK todo \in {new, {}} :
           /\ IF todo = new THEN UNCHANGED faults ELSE Fault
           /\ job' = [NoJob EXCEPT !.pc = "vectors", !.id = entry, !.batch = b, !.todo = todo]
           /\ missed' = [missed EXCEPT !.rows = @ \cup (new \ todo)]
    BY <1>6 DEF BatchBegins
  <2>2. /\ vectors' = Holds(vectors, b.removed) /\ faults' \in 0 .. MaxFaults
    BY <1>6, <2>1, FaultCounts DEF BatchBegins, IndexInv, IndexTypeOK
  <2>3. /\ missed' \in [rows: SUBSET Files, symbols: SUBSET Files]
        /\ missed'.rows = missed.rows \cup (new \ todo) /\ missed'.symbols = missed.symbols
    BY <1>1, <1>3, <2>1
  <2>4. /\ vectors' \in Symbols
        /\ \A f \in Files : vectors'[f] = IF f \in b.removed THEN Absent ELSE vectors[f]
    BY <1>1, <2>2 DEF Holds, Symbols
  <2>5. /\ job'.pc = "vectors" /\ job'.id = entry /\ job'.batch = b /\ job'.todo = todo
        /\ job' \in Job
    BY <1>1, <1>2, <1>3, <1>6, <2>1, NoJobIsOne DEF Job
  <2>6. todo \subseteq new /\ todo \subseteq Named(b)
    BY <1>3, <2>1
  <2> HIDE DEF b, new
  <2>7. IndexTypeOK'
    BY <1>1, <1>2, <2>2, <2>3, <2>4, <2>5 DEF IndexInv, IndexTypeOK
  <2>8. PlacesInv'
    BY <1>1, <1>6, <2>5, <2>6 DEF IndexInv, PlacesInv, Working
  <2>9. DrawnInv'
    BY <1>1, <1>6, <2>5 DEF IndexInv, DrawnInv, Working, Redraws
  <2>10. ASSUME NEW f \in Files, f \notin missed'.rows, Good(b, f)
         PROVE  RowSettled(f)'
    <3>1. f \in new \/ f \in b.removed
      BY <2>10 DEF Good, new
    <3>2. CASE disk[f] = Absent
      BY <1>1, <2>4, <2>5, <2>10, <3>2 DEF RowSettled, Good
    <3>3. CASE disk[f] \in Versions
      <4>1. disk[f] # Absent
        BY <3>3, IndexAssumption DEF Absent
      <4>2. f \in new
        BY <2>10, <4>1 DEF Good, new
      <4>3. f \in todo
        BY <2>3, <2>10, <4>2
      <4> QED BY <1>1, <2>5, <3>3, <4>3 DEF RowSettled, RowDue, Reading
    <3> QED BY <1>1, <3>2, <3>3 DEF RowSettled, IndexInv, IndexTypeOK, Bytes
  <2>11. ASSUME NEW f \in Files, f \notin Named(b), RowSettled(f)
         PROVE  RowSettled(f)'
    <3>1. f \notin b.removed
      BY <2>11 DEF Named
    <3> QED BY <1>1, <2>4, <2>5, <2>11, <3>1 DEF RowSettled, RowDue, Reading
  <2>12. ASSUME NEW f \in Files, Good(b, f)
         PROVE  SymbolsSettled(f)'
    BY <1>1, <2>5, <2>12 DEF SymbolsSettled, SymbolsDue, Reading, Good
  <2>13. ASSUME NEW f \in Files, f \notin Named(b), SymbolsSettled(f)
         PROVE  SymbolsSettled(f)'
    BY <1>1, <2>5, <2>13 DEF SymbolsSettled, SymbolsDue, SymbolsKept, Reading, Redraws, Read, Drawn
  <2>14. RowsInv'
    BY <1>4, <2>3, <2>10, <2>11 DEF IndexInv, RowsInv, Coming
  <2>15. SymbolsInv'
    BY <1>4, <2>3, <2>12, <2>13 DEF IndexInv, SymbolsInv, SymbolsSettled, Coming
  <2> QED BY <2>7, <2>8, <2>9, <2>14, <2>15 DEF IndexInv
<1> QED BY <1>5, <1>6

-----------------------------------------------------------------------------
(* The index: the theorems                                                 *)

LEMMA IndexInitInv == IndexInit => IndexInv
<1> SUFFICES ASSUME IndexInit
             PROVE  IndexInv
  OBVIOUS
<1>1. IndexTypeOK
  <2>1. /\ index \in [IndexIds -> Index] /\ chain \in Seq(Batch) /\ job \in Job
        /\ {vectors, graph} \subseteq Symbols
    BY EmptySymbols, NoIndexIsOne, NoJobIsOne DEF IndexInit
  <2>2. /\ count \in [changes: 0 .. MaxChanges, switches: 0 .. MaxSwitches, quits: 0 .. MaxRestarts]
        /\ faults \in 0 .. MaxFaults
    BY IndexAssumption DEF IndexInit
  <2>3. missed \in [rows: SUBSET Files, symbols: SUBSET Files]
    BY DEF IndexInit
  <2> QED BY <2>1, <2>2, <2>3 DEF IndexInit, IndexTypeOK
<1>2. PlacesInv
  BY NoJobFields DEF IndexInit, PlacesInv, NoIndex, Working
<1>3. RowsInv /\ SymbolsInv
  BY DEF IndexInit, RowsInv, SymbolsInv
<1>4. DrawnInv
  BY NoJobFields DEF IndexInit, DrawnInv, Working
<1> QED BY <1>1, <1>2, <1>3, <1>4 DEF IndexInv

LEMMA IndexNextKeeps == IndexInv /\ [IndexNext]_indexVars => IndexInv'
<1> SUFFICES ASSUME IndexInv, [IndexNext]_indexVars
             PROVE  IndexInv'
  OBVIOUS
<1>1. ASSUME NEW f \in Files, NEW bytes \in Bytes, Change(f, bytes)
      PROVE  IndexInv'
  BY <1>1, ChangeKeeps
<1>2. ASSUME NEW f \in Files, ReadFile(f) \/ ExtractSymbols(f) \/ ExtractionFails(f)
      PROVE  IndexInv'
  BY <1>2, ReadFileKeeps, ExtractSymbolsKeeps, ExtractionFailsKeeps
<1>3. ASSUME NEW i \in IndexIds, Flush(i) \/ WatcherStopped(i)
      PROVE  IndexInv'
  BY <1>3, FlushKeeps, WatcherStoppedKeeps
<1>4. ASSUME NEW i \in IndexIds, WatcherReady(i)
      PROVE  IndexInv'
  <2>1. faults' \in 0 .. MaxFaults
    BY <1>4 DEF WatcherReady, IndexInv, IndexTypeOK
  <2> QED BY <1>4, <2>1, ListedKeeps DEF WatcherReady
<1>5. ASSUME NEW i \in IndexIds, WatcherFails(i)
      PROVE  IndexInv'
  <2>1. faults' \in 0 .. MaxFaults
    BY <1>5, FaultCounts DEF WatcherFails, IndexInv
  <2> QED BY <1>5, <2>1, ListedKeeps DEF WatcherFails
<1>6. CASE UNCHANGED indexVars
  <2>1. UNCHANGED <<disk, enabled, running, index, entry, chain, job, vectors, graph, missed, drawn, count, faults>>
    BY <1>6 DEF indexVars, fileVars, storedVars, historyVars
  <2>2. IndexTypeOK'
    BY <2>1 DEF IndexInv, IndexTypeOK
  <2>3. PlacesInv'
    BY <2>1 DEF IndexInv, PlacesInv, Working
  <2>4. DrawnInv'
    BY <2>1 DEF IndexInv, DrawnInv, Working, Redraws
  <2>5. ASSUME NEW f \in Files, SymbolsSettled(f)
        PROVE  SymbolsSettled(f)'
    BY <2>1, <2>5 DEF SymbolsSettled, SymbolsDue, SymbolsKept, Reading, Redraws, Good, Read, Drawn
  <2> QED BY <2>1, <2>2, <2>3, <2>4, <2>5, SameIndexes, SwitchKeepsRows, IndexStepKeeps
<1> QED
  BY <1>1, <1>2, <1>3, <1>4, <1>5, <1>6, BatchBeginsKeeps, EmbeddedKeeps, EmbedFailsKeeps,
     GraphBeginsKeeps, BatchEndsKeeps, GraphNotStoredKeeps, EnableKeeps, DisableKeeps,
     QuitsKeeps, BootKeeps
     DEF IndexNext

\* Whatever a watcher has gathered, a batch in the chain and the job on it still have to
\* do with a file leaves nothing out that its last change asks for, as long as that
\* change was not lost; and what the listed index has read is what the graph was drawn
\* from.
THEOREM IndexInvariant == IndexSpec => []IndexInv
<1>1. IndexInit => IndexInv
  BY IndexInitInv
<1>2. IndexInv /\ [IndexNext]_indexVars => IndexInv'
  BY IndexNextKeeps
<1> QED BY <1>1, <1>2, PTL DEF IndexSpec

\* The state of the index has its types.
THEOREM IndexTypes == IndexSpec => []IndexTypeOK
<1>1. IndexInv => IndexTypeOK
  BY DEF IndexInv
<1> QED BY <1>1, IndexInvariant, PTL

LEMMA InvCurrent == IndexInv => IndexCurrent
<1> SUFFICES ASSUME IndexInv, AtRest
             PROVE  /\ \A f \in Files \ missed.rows : disk[f] # Unfit => vectors[f] = disk[f]
                    /\ \A f \in Files \ missed.symbols : Drawn(f)
  BY DEF IndexCurrent, RowsCurrent, GraphCurrent, Drawn
<1>1. \A f \in Files : ~Coming(f)
  BY EmptyBatch DEF AtRest, Coming, Told, ChainGood
<1>2. job.pc = "idle"
  BY DEF AtRest
<1>3. job.todo = {} /\ job.batch = NoBatch
  BY <1>2, NoJobFields DEF IndexInv, PlacesInv
<1>4. \A f \in Files \ missed.rows : RowSettled(f)
  BY <1>1 DEF IndexInv, RowsInv
<1>5. \A f \in Files \ missed.symbols : SymbolsSettled(f)
  BY <1>1 DEF IndexInv, SymbolsInv, SymbolsSettled
<1>6. \A f \in Files \ missed.rows : disk[f] # Unfit => vectors[f] = disk[f]
  BY <1>2, <1>4 DEF RowSettled, RowDue, Reading
<1>7. \A f \in Files \ missed.symbols : Drawn(f)
  BY <1>2, <1>5 DEF SymbolsSettled, SymbolsDue, SymbolsKept, Redraws, Reading
<1> QED BY <1>6, <1>7

\* However changes of files, batches, calls of the switch, failures and restarts
\* interleave: once all has been worked off, search and the graph tools answer from what
\* the files hold, for every file whose last change got through.
THEOREM IndexIsCurrent == IndexSpec => []IndexCurrent
BY IndexInvariant, InvCurrent, PTL
====
