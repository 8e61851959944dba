-------------------------- MODULE AgentRuns_proofs --------------------------
(* Proofs about agent runs: their stored rows, their work in git, the verdicts,   *)
(* and about the runner of one run and its report.                                *)
EXTENDS AgentRuns, SubagentRunners, FiniteSetTheorems, SequenceTheorems, TLAPS

-----------------------------------------------------------------------------
(* The inductive invariant                                                 *)

Under(v)  == review[v].at # "closed"
Removing  == {"remove", "prune", "mark"}
Ended     == {"completed", "failed"}

\* What a run that is not over has not got: a verdict, work in the user's branch, a
\* review. One that has not begun is recorded nowhere.
PhaseInv ==
    \A r \in Runs :
        /\ phase[r] = "idle" => entry[r] = Absent /\ row[r] = Absent /\ r \notin wrote
        /\ phase[r] # "over" =>
              /\ entry[r].status \notin Ended
              /\ entry[r].merge \in {"none", "pending"}
              /\ row[r].merge \in {"none", "pending"}
              /\ r \notin landed
              /\ r # merging
              /\ \A v \in Reviews : Under(v) => review[v].run # r

\* How a row that is over agrees with the registry, and what a prompt is about.
RowsInv ==
    /\ \A r \in Runs : row[r].status \in Ended => entry[r] = Absent \/ entry[r].status = row[r].status
    /\ \A r \in prompts : entry[r] = Absent /\ row[r].status = "running"
    /\ ~up => \A r \in Runs : entry[r] = Absent
    /\ RunningRowExplained

\* Where the work is, by what is known of the worktree and by where a verdict is.
WorkInv ==
    /\ WorkKept
    /\ \A r \in wrote : tree[r] = "clean" => branch[r] = "ahead"
    /\ \A v \in Reviews :
          /\ review[v].at = "merge" /\ review[v].run \in wrote =>
                tree[review[v].run] # "dirty" /\ branch[review[v].run] \in {"ahead", "none"}
          /\ review[v].at \in Removing /\ review[v].verdict = "merged" /\ review[v].run \in wrote =>
                review[v].run \in landed
          /\ review[v].at \in Removing /\ review[v].verdict = "rejected" =>
                review[v].run \in dropped

\* What keeps a run that has landed from being rejected, and the other way round, as
\* long as it is not contested.
VerdictInv ==
    /\ VerdictMatchesRepo
    /\ merging # NoMerge => merging \in contested
    /\ \A v, w \in Reviews : v # w /\ Under(v) /\ Under(w) /\ review[v].run = review[w].run =>
          review[v].run \in contested
    /\ \A r \in landed \ contested :
          /\ \A v \in Reviews : Under(v) /\ review[v].run = r =>
                review[v].at \in Removing /\ review[v].verdict = "merged"
          /\ entry[r].merge = "pending" => \E v \in Reviews : Under(v) /\ review[v].run = r
    /\ \A r \in Runs \ contested :
          entry[r].merge = "rejected" \/ row[r].merge = "rejected" =>
              /\ entry[r].merge # "pending"
              /\ \A v \in Reviews : Under(v) => review[v].run # r

AgentInv == TypeOK /\ PhaseInv /\ RowsInv /\ WorkInv /\ VerdictInv

LEMMA InitAgent == Init => AgentInv
<1> SUFFICES ASSUME Init PROVE AgentInv
  OBVIOUS
<1> USE DEF Init, RegistryInit, ReviewInit
<1>1. order = <<>> /\ order \in Seq(Runs) /\ Len(order) = 0 /\ DOMAIN order = {}
  OBVIOUS
<1>2. RegistryTypeOK
  BY <1>1, RegistryAssumption DEF RegistryTypeOK, IsInjective, ToSet
<1>3. ReviewTypeOK
  BY DEF ReviewTypeOK
<1>4. TypeOK
  BY <1>2, <1>3, RunsAssumption DEF TypeOK, Phases
<1>5. \A v \in Reviews : ~Under(v)
  BY DEF Under, NoReview
<1>6. PhaseInv
  BY <1>5, ReviewAssumption DEF PhaseInv, Absent, Ended
<1>7. RowsInv
  BY DEF RowsInv, Absent, Ended, RunningRowExplained
<1>8. WorkInv
  <2>1. \A v \in Reviews : review[v].at = "closed"
    BY DEF NoReview
  <2> QED BY <2>1 DEF WorkInv, WorkKept, Removing
<1>9. VerdictInv
  BY <1>5 DEF VerdictInv, VerdictMatchesRepo, Absent
<1> QED BY <1>4, <1>6, <1>7, <1>8, <1>9 DEF AgentInv

-----------------------------------------------------------------------------
(* The registry and its copy on disk                                       *)

Rows == AgentRun \cup {Absent}

\* The state of a write: which rows have become what they should, which are as they
\* were, and which of these are known to say running wrongly.
LEMMA WriteEffect ==
  ASSUME RegistryTypeOK, NEW runs \in SUBSET Runs, NEW as \in [Runs -> Rows], Write(runs, as)
  PROVE  /\ row' \in [Runs -> Rows] /\ missed' \subseteq Runs /\ faults' \in 0 .. MaxFaults
         /\ \A r \in Runs \ runs :
               row'[r] = row[r] /\ (r \in missed /\ row[r].status = "running" => r \in missed')
         /\ \A r \in runs :
               \/ row'[r] = as[r]
               \/ row'[r] = row[r] /\ (row[r].status = "running" => r \in missed') /\ faults' # faults
         /\ faults' # faults => \E r \in runs : row'[r] = row[r]
<1>1. PICK lost \in SUBSET runs :
         /\ faults' = faults + Cardinality(lost)
         /\ faults' <= MaxFaults
         /\ row' = [r \in Runs |-> IF r \in runs \ lost THEN as[r] ELSE row[r]]
         /\ missed' = {r \in (missed \ runs) \cup lost : row'[r].status = "running"}
  BY DEF Write
<1>2. row \in [Runs -> Rows] /\ missed \subseteq Runs /\ faults \in 0 .. MaxFaults
  BY DEF RegistryTypeOK, Rows
<1>3. IsFiniteSet(lost) /\ Cardinality(lost) \in Nat
  BY FS_Subset, FS_CardinalityType, RegistryAssumption
<1>4. faults' \in 0 .. MaxFaults
  BY <1>1, <1>2, <1>3, RegistryAssumption
<1>5. lost # {} => faults' # faults
  BY <1>1, <1>2, <1>3, FS_EmptySet, RegistryAssumption
<1>6. faults' # faults => \E r \in runs : row'[r] = row[r]
  <2>1. lost = {} => faults' = faults
    BY <1>1, <1>2, FS_EmptySet, RegistryAssumption
  <2> QED BY <1>1, <2>1
<1> QED BY <1>1, <1>2, <1>4, <1>5, <1>6

\* What a change of the map to new leaves on disk.
Rewritten(new) ==
    /\ row' \in [Runs -> Rows] /\ missed' \subseteq Runs /\ faults' \in 0 .. MaxFaults
    /\ \A r \in Runs :
          \/ /\ row'[r] = row[r]
             /\ new[r] = Absent \/ new[r] = entry[r]
             /\ r \in missed /\ row[r].status = "running" => r \in missed'
          \/ row'[r] = row[r] /\ (row[r].status = "running" => r \in missed')
          \/ row'[r] = new[r] /\ new[r] # Absent

LEMMA EmitRewrites ==
  ASSUME RegistryTypeOK, NEW new \in [Runs -> Rows], Emit(new)
  PROVE  entry' = new /\ Rewritten(new)
<1> DEFINE changed == {r \in Runs : new[r] # Absent /\ new[r] # entry[r]}
<1>1. entry' = new /\ Write(changed, new)
  BY DEF Emit, Mirror
<1>2. changed \in SUBSET Runs
  OBVIOUS
<1>3. /\ row' \in [Runs -> Rows] /\ missed' \subseteq Runs /\ faults' \in 0 .. MaxFaults
      /\ \A r \in Runs \ changed :
            row'[r] = row[r] /\ (r \in missed /\ row[r].status = "running" => r \in missed')
      /\ \A r \in changed :
            \/ row'[r] = new[r]
            \/ row'[r] = row[r] /\ (row[r].status = "running" => r \in missed')
  <2> HIDE DEF changed
  <2> QED BY <1>1, <1>2, WriteEffect
<1> QED BY <1>1, <1>3 DEF Rewritten

\* The list of runs stays a list of at most MaxRuns different ones.
LEMMA TrimmedList ==
  ASSUME RegistryTypeOK, NEW r \in Runs, r \notin ToSet(order),
         NEW kept, kept = Trimmed(Append(order, r))
  PROVE  /\ kept \in Seq(Runs) /\ IsInjective(kept) /\ Len(kept) <= MaxRuns
         /\ ToSet(kept) \subseteq ToSet(order) \cup {r} /\ r \in ToSet(kept)
<1> DEFINE all == Append(order, r)
<1>1. kept = Trimmed(all)
  OBVIOUS
<1>2. /\ order \in Seq(Runs) /\ IsInjective(order) /\ Len(order) <= MaxRuns
      /\ Len(order) \in Nat /\ DOMAIN order = 1 .. Len(order)
  BY LenProperties DEF RegistryTypeOK
<1>3. /\ all \in Seq(Runs) /\ all # <<>> /\ Len(all) = Len(order) + 1
      /\ \A i \in 1 .. Len(order) : all[i] = order[i]
      /\ all[Len(order) + 1] = r
  BY <1>2, AppendProperties
<1>4. DOMAIN all = 1 .. Len(order) + 1
  BY <1>3, LenProperties
<1> HIDE DEF all
<1>5. \A i \in DOMAIN all : i \in DOMAIN order \/ i = Len(order) + 1
  BY <1>2, <1>4
<1>6. \A i \in DOMAIN order : all[i] # r
  BY <1>2, <1>3 DEF ToSet
<1>7. IsInjective(all)
  BY <1>2, <1>3, <1>5, <1>6 DEF IsInjective
<1>8. ToSet(all) \subseteq ToSet(order) \cup {r}
  BY <1>2, <1>3, <1>5 DEF ToSet
<1>9. CASE Len(all) > MaxRuns
  <2>1. kept = Tail(all)
    BY <1>1, <1>9 DEF Trimmed
  <2>2. /\ Tail(all) \in Seq(Runs) /\ Len(Tail(all)) = Len(order)
        /\ \A i \in 1 .. Len(order) : Tail(all)[i] = all[i + 1]
    BY <1>2, <1>3, HeadTailProperties
  <2>3. DOMAIN Tail(all) = 1 .. Len(order)
    BY <2>2, LenProperties
  <2>4. \A i \in 1 .. Len(order) : i + 1 \in DOMAIN all
    BY <1>2, <1>4
  <2>5. IsInjective(Tail(all))
    <3> SUFFICES ASSUME NEW i \in 1 .. Len(order), NEW j \in 1 .. Len(order),
                        Tail(all)[i] = Tail(all)[j]
                 PROVE  i = j
      BY <2>3 DEF IsInjective
    <3>1. i + 1 = j + 1
      BY <1>7, <2>2, <2>4 DEF IsInjective
    <3> QED BY <1>2, <3>1
  <2>6. ToSet(Tail(all)) \subseteq ToSet(all)
    BY <2>2, <2>3, <2>4 DEF ToSet
  <2>7. Len(order) \in 1 .. Len(order)
    BY <1>2, <1>3, <1>9, RegistryAssumption
  <2>8. r \in ToSet(Tail(all))
    BY <1>3, <2>2, <2>3, <2>7 DEF ToSet
  <2> QED BY <1>2, <1>8, <2>1, <2>2, <2>5, <2>6, <2>8
<1>10. CASE ~(Len(all) > MaxRuns)
  <2>1. kept = all
    BY <1>1, <1>10 DEF Trimmed
  <2>2. r \in ToSet(all)
    BY <1>2, <1>3, <1>4 DEF ToSet
  <2> QED BY <1>2, <1>3, <1>7, <1>8, <1>10, <2>1, <2>2, RegistryAssumption
<1> QED BY <1>9, <1>10

LEMMA RegistryFacts ==
  ASSUME RegistryTypeOK
  PROVE  /\ entry \in [Runs -> Rows] /\ row \in [Runs -> Rows]
         /\ prompts \subseteq Runs /\ missed \subseteq Runs /\ left \subseteq Runs
         /\ order \in Seq(Runs) /\ IsInjective(order) /\ Len(order) <= MaxRuns
         /\ \A r \in Runs : r \in ToSet(order) <=> entry[r] # Absent
  BY DEF RegistryTypeOK, Rows

\* A new run is listed, and others may have gone for it.
LEMMA RecordStartEffect ==
  ASSUME RegistryTypeOK, NEW r \in Runs, entry[r] = Absent,
         NEW merge \in {"none", "pending"}, RecordStart(r, merge)
  PROVE  /\ RegistryTypeOK' /\ Rewritten(entry')
         /\ entry'[r] = [status |-> "running", merge |-> merge]
         /\ \A q \in Runs \ {r} : entry'[q] \in {entry[q], Absent}
         /\ left' = left \cup {q \in Runs : row[q].status = "running" /\ entry[q] # entry'[q]}
         /\ prompts' = prompts
<1> DEFINE kept == Trimmed(Append(order, r))
           fresh == [status |-> "running", merge |-> merge]
           new  == [q \in Runs |->
                      CASE q \notin ToSet(kept) -> Absent
                        [] q = r                -> fresh
                        [] OTHER                -> entry[q]]
<1>1. /\ order' = kept /\ Emit(new)
      /\ left' = left \cup {q \in Runs : row[q].status = "running" /\ entry[q] # new[q]}
      /\ prompts' = prompts
  BY DEF RecordStart
<1>2. fresh \in AgentRun /\ fresh # Absent
  BY DEF AgentRun, Absent
<1>3. r \notin ToSet(order)
  BY DEF RegistryTypeOK
<1>4. /\ kept \in Seq(Runs) /\ IsInjective(kept) /\ Len(kept) <= MaxRuns
      /\ ToSet(kept) \subseteq ToSet(order) \cup {r} /\ r \in ToSet(kept)
  BY <1>3, TrimmedList
<1> HIDE DEF kept, fresh
<1>5. \A q \in Runs : new[q] = IF q \notin ToSet(kept) THEN Absent ELSE IF q = r THEN fresh ELSE entry[q]
  <2> SUFFICES ASSUME NEW q \in Runs
               PROVE  new[q] = IF q \notin ToSet(kept) THEN Absent ELSE IF q = r THEN fresh ELSE entry[q]
    OBVIOUS
  <2>1. CASE q \notin ToSet(kept)
    BY <1>4, <2>1
  <2>2. CASE q \in ToSet(kept) /\ q = r
    BY <2>2
  <2>3. CASE q \in ToSet(kept) /\ q # r
    BY <2>3
  <2> QED BY <2>1, <2>2, <2>3
<1>6. new \in [Runs -> Rows]
  <2>1. \A q \in Runs : new[q] \in Rows
    BY <1>2, <1>5, RegistryFacts DEF Rows
  <2> QED BY <2>1
<1>7. \A q \in Runs : q \in ToSet(kept) <=> new[q] # Absent
  BY <1>2, <1>4, <1>5, RegistryFacts
<1>8. new[r] = fresh /\ \A q \in Runs \ {r} : new[q] \in {entry[q], Absent}
  BY <1>4, <1>5
<1> HIDE DEF new
<1>9. entry' = new /\ Rewritten(new)
  BY <1>1, <1>6, EmitRewrites
<1>10. left' \subseteq Runs /\ prompts' \subseteq Runs
  BY <1>1, RegistryFacts
<1>11. RegistryTypeOK'
  BY <1>1, <1>4, <1>6, <1>7, <1>9, <1>10 DEF RegistryTypeOK, Rewritten, Rows
<1> QED BY <1>1, <1>8, <1>9, <1>11 DEF fresh

\* A change of one entry, or of none when the run is no longer listed.
LEMMA EntryChange ==
  ASSUME RegistryTypeOK, NEW r \in Runs, NEW new \in [Runs -> Rows],
         UNCHANGED <<order, prompts, left>>,
         entry[r] = Absent => UNCHANGED <<entry, row, missed, faults>>,
         entry[r] # Absent => Emit(new) /\ new[r] # Absent,
         \A q \in Runs \ {r} : new[q] = entry[q]
  PROVE  /\ RegistryTypeOK' /\ Rewritten(entry')
         /\ \A q \in Runs \ {r} : entry'[q] = entry[q]
         /\ entry'[r] = IF entry[r] = Absent THEN Absent ELSE new[r]
<1>1. CASE entry[r] = Absent
  BY <1>1 DEF RegistryTypeOK, Rewritten, Rows
<1>2. CASE entry[r] # Absent
  <2>1. entry' = new /\ Rewritten(new)
    BY <1>2, EmitRewrites
  <2>2. \A q \in Runs : entry'[q] # Absent <=> entry[q] # Absent
    BY <1>2, <2>1
  <2>3. RegistryTypeOK'
    BY <2>1, <2>2 DEF RegistryTypeOK, Rewritten, Rows
  <2> QED BY <1>2, <2>1, <2>3
<1> QED BY <1>1, <1>2

LEMMA RecordEndEffect ==
  ASSUME RegistryTypeOK, NEW r \in Runs, NEW status \in Ended, RecordEnd(r, status)
  PROVE  /\ RegistryTypeOK' /\ Rewritten(entry')
         /\ \A q \in Runs \ {r} : entry'[q] = entry[q]
         /\ entry'[r] = IF entry[r] = Absent THEN Absent ELSE [entry[r] EXCEPT !.status = status]
         /\ UNCHANGED <<order, prompts, left>>
<1> DEFINE new == [entry EXCEPT ![r].status = status]
           made == [entry[r] EXCEPT !.status = status]
<1>1. /\ UNCHANGED <<order, prompts, left>>
      /\ entry[r] = Absent => UNCHANGED <<entry, row, missed, faults>>
      /\ entry[r] # Absent => Emit(new)
  BY DEF RecordEnd
<1>2. entry[r] # Absent => made \in AgentRun /\ made # Absent
  BY RegistryFacts DEF Rows, AgentRun, Absent, Ended
<1>3. new[r] = made /\ \A q \in Runs \ {r} : new[q] = entry[q]
  BY RegistryFacts
<1>4. CASE entry[r] = Absent
  BY <1>1, <1>4 DEF RegistryTypeOK, Rewritten, Rows
<1>5. CASE entry[r] # Absent
  <2>1. new \in [Runs -> Rows]
    BY <1>2, <1>5, RegistryFacts DEF Rows
  <2> HIDE DEF new, made
  <2>2. /\ RegistryTypeOK' /\ Rewritten(entry')
        /\ \A q \in Runs \ {r} : entry'[q] = entry[q]
        /\ entry'[r] = IF entry[r] = Absent THEN Absent ELSE new[r]
    BY <1>1, <1>2, <1>3, <1>5, <2>1, EntryChange
  <2> QED BY <1>1, <1>3, <1>5, <2>2 DEF made
<1> QED BY <1>4, <1>5

LEMMA SetMergeStatusEffect ==
  ASSUME RegistryTypeOK, NEW r \in Runs, NEW merge \in {"merged", "rejected"}, SetMergeStatus(r, merge)
  PROVE  /\ RegistryTypeOK' /\ Rewritten(entry')
         /\ \A q \in Runs \ {r} : entry'[q] = entry[q]
         /\ entry'[r] = IF entry[r] = Absent THEN Absent ELSE [entry[r] EXCEPT !.merge = merge]
         /\ UNCHANGED <<order, prompts, left>>
<1> DEFINE new == [entry EXCEPT ![r].merge = merge]
           made == [entry[r] EXCEPT !.merge = merge]
<1>1. /\ UNCHANGED <<order, prompts, left>>
      /\ entry[r] = Absent => UNCHANGED <<entry, row, missed, faults>>
      /\ entry[r] # Absent => Emit(new)
  BY DEF SetMergeStatus
<1>2. entry[r] # Absent => made \in AgentRun /\ made # Absent
  BY RegistryFacts DEF Rows, AgentRun, Absent
<1>3. new[r] = made /\ \A q \in Runs \ {r} : new[q] = entry[q]
  BY RegistryFacts
<1>4. CASE entry[r] = Absent
  BY <1>1, <1>4 DEF RegistryTypeOK, Rewritten, Rows
<1>5. CASE entry[r] # Absent
  <2>1. new \in [Runs -> Rows]
    BY <1>2, <1>5, RegistryFacts DEF Rows
  <2> HIDE DEF new, made
  <2>2. /\ RegistryTypeOK' /\ Rewritten(entry')
        /\ \A q \in Runs \ {r} : entry'[q] = entry[q]
        /\ entry'[r] = IF entry[r] = Absent THEN Absent ELSE new[r]
    BY <1>1, <1>2, <1>3, <1>5, <2>1, EntryChange
  <2> QED BY <1>1, <1>3, <1>5, <2>2 DEF made
<1> QED BY <1>4, <1>5

LEMMA ClearEffect ==
  ASSUME RegistryTypeOK, Clear
  PROVE  /\ RegistryTypeOK' /\ Rewritten(entry')
         /\ \A r \in Runs : entry'[r] = Absent
         /\ left' = left \cup {r \in Runs : row[r].status = "running" /\ entry[r] # Absent}
         /\ prompts' = prompts
<1> DEFINE new == [r \in Runs |-> Absent]
<1>1. /\ order' = <<>> /\ Emit(new) /\ prompts' = prompts
      /\ left' = left \cup {r \in ToSet(order) : row[r].status = "running"}
  BY DEF Clear
<1>2. new \in [Runs -> Rows] /\ \A r \in Runs : new[r] = Absent
  BY DEF Rows
<1> HIDE DEF new
<1>3. entry' = new /\ Rewritten(new)
  BY <1>1, <1>2, EmitRewrites
<1>4. ToSet(order) = {r \in Runs : entry[r] # Absent}
  <2>1. ToSet(order) \subseteq Runs
    BY RegistryFacts, ElementOfSeq, LenProperties DEF ToSet
  <2> QED BY <2>1, RegistryFacts
<1>5. /\ order' \in Seq(Runs) /\ IsInjective(order') /\ Len(order') = 0
      /\ ToSet(order') = {}
  <2>1. order' \in Seq(Runs) /\ Len(order') = 0 /\ DOMAIN order' = {}
    BY <1>1
  <2> QED BY <2>1 DEF ToSet, IsInjective
<1>6. left' = left \cup {r \in Runs : row[r].status = "running" /\ entry[r] # Absent}
  BY <1>1, <1>4
<1>7. RegistryTypeOK'
  BY <1>1, <1>2, <1>3, <1>5, <1>6, RegistryFacts, RegistryAssumption DEF RegistryTypeOK, Rewritten, Rows
<1> QED BY <1>1, <1>2, <1>3, <1>6, <1>7

-----------------------------------------------------------------------------
(* The stored rows                                                         *)

\* What may become of one entry of the registry in a step: nothing, or it is dropped,
\* new, over, or given a verdict.
Evolves(r) ==
    \/ entry'[r] = entry[r]
    \/ entry'[r] = Absent /\ (row[r].status = "running" => r \in left')
    \/ entry[r] = Absent /\ row[r] = Absent /\ entry'[r].status = "running"
    \/ entry[r] # Absent /\ entry[r].status \notin Ended /\ entry'[r].status \in Ended
    \/ entry[r] # Absent /\ entry'[r].status = entry[r].status

LEMMA Statuses ==
  \A e \in Rows : /\ e.status \in {"none", "running", "completed", "failed"}
                  /\ e.merge \in {"none", "pending", "merged", "rejected"}
                  /\ e.status = "none" <=> e = Absent
<1>1. \A e \in AgentRun :
         /\ e.status \in {"running", "completed", "failed"}
         /\ e.merge \in {"none", "pending", "merged", "rejected"}
  BY DEF AgentRun
<1>2. Absent.status = "none" /\ Absent.merge = "none"
  BY DEF Absent
<1> QED BY <1>1, <1>2 DEF Rows

\* A stored status may only follow the one before.
RowsMove ==
    \A r \in Runs : row'[r].status = row[r].status
                    \/ <<row[r].status, row'[r].status>> \in Lifecycle!Moves

LEMMA RowsRewritten ==
  ASSUME AgentInv, RegistryTypeOK', Rewritten(entry'), up, up', left \subseteq left', prompts' = prompts,
         \A r \in Runs : Evolves(r)
  PROVE  RowsInv' /\ RowsMove
<1>1. /\ entry \in [Runs -> Rows] /\ row \in [Runs -> Rows] /\ prompts \subseteq Runs
      /\ entry' \in [Runs -> Rows] /\ row' \in [Runs -> Rows]
  BY RegistryFacts DEF AgentInv, TypeOK, RegistryTypeOK, Rows
<1>2. ASSUME NEW r \in Runs
      PROVE  \/ /\ row'[r] = row[r]
                /\ entry'[r] = Absent \/ entry'[r] = entry[r]
                /\ r \in missed /\ row[r].status = "running" => r \in missed'
             \/ row'[r] = row[r] /\ (row[r].status = "running" => r \in missed')
             \/ row'[r] = entry'[r] /\ entry'[r] # Absent
  BY DEF Rewritten
<1>3. ASSUME NEW r \in Runs
      PROVE  row[r].status \in Ended => entry[r] = Absent \/ entry[r].status = row[r].status
  BY DEF AgentInv, RowsInv
<1>4. ASSUME NEW r \in Runs
      PROVE  row'[r].status \in Ended => entry'[r] = Absent \/ entry'[r].status = row'[r].status
  BY <1>1, <1>2, <1>3, Statuses DEF Evolves, Ended
<1>5. ASSUME NEW r \in prompts PROVE entry'[r] = Absent /\ row'[r].status = "running"
  <2>1. r \in Runs /\ entry[r] = Absent /\ row[r].status = "running"
    BY <1>1 DEF AgentInv, RowsInv
  <2>2. entry'[r] = Absent
    BY <1>1, <2>1, Statuses DEF Evolves
  <2> QED BY <1>2, <2>1, <2>2
<1>6. ASSUME NEW r \in Runs, row'[r].status = "running"
      PROVE  entry'[r].status = "running" \/ r \in prompts' \cup left' \cup missed'
  <2>1. CASE row'[r] = entry'[r]
    BY <1>6, <2>1
  <2>2. CASE row'[r] = row[r]
    <3>1. entry[r].status = "running" \/ r \in prompts \cup left \cup missed
      BY <1>6, <2>2 DEF AgentInv, RowsInv, RunningRowExplained
    <3>2. CASE r \in missed'
      BY <3>2
    <3>3. CASE row'[r] = entry'[r] /\ entry'[r] # Absent
      BY <1>6, <3>3
    <3>4. CASE r \notin missed' /\ ~(row'[r] = entry'[r] /\ entry'[r] # Absent)
      <4>1. /\ entry'[r] = Absent \/ entry'[r] = entry[r]
            /\ r \notin missed
        BY <1>2, <1>6, <2>2, <3>4
      <4>2. r \in prompts \cup left => r \in prompts' \cup left'
        OBVIOUS
      <4>3. entry[r].status = "running" /\ entry'[r] = Absent => r \in left'
        <5> SUFFICES ASSUME entry[r].status = "running", entry'[r] = Absent PROVE r \in left'
          OBVIOUS
        <5>1. entry[r] # Absent /\ entry'[r].status = "none"
          BY <1>1, Statuses
        <5>2. row[r].status = "running"
          BY <1>6, <2>2
        <5> QED BY <5>1, <5>2 DEF Evolves, Ended
      <4> QED BY <3>1, <4>1, <4>2, <4>3
    <3> QED BY <3>2, <3>3, <3>4
  <2> QED BY <1>2, <2>1, <2>2
<1>7. RowsInv'
  BY <1>4, <1>5, <1>6 DEF RowsInv, RunningRowExplained
<1>8. ASSUME NEW r \in Runs
      PROVE  row'[r].status = row[r].status
                \/ <<row[r].status, row'[r].status>> \in Lifecycle!Moves
  <2>1. CASE row'[r] = row[r]
    BY <2>1
  <2>2. CASE row'[r] = entry'[r] /\ entry'[r] # Absent
    <3>1. row[r].status \in Ended => entry'[r].status = row[r].status
      BY <1>1, <1>3, <2>2, Statuses DEF Evolves, Ended
    <3>2. row'[r].status \in {"running", "completed", "failed"}
      BY <1>1, <2>2, Statuses
    <3>3. row[r].status \in {"none", "running"} \cup Ended
      BY <1>1, Statuses DEF Ended
    <3> QED BY <2>2, <3>1, <3>2, <3>3 DEF Lifecycle!Moves, Ended
  <2> QED BY <1>2, <2>1, <2>2
<1> QED BY <1>7, <1>8 DEF RowsMove

LEMMA RowsUntouched ==
  ASSUME AgentInv, UNCHANGED registryVars, up' = up
  PROVE  RowsInv' /\ RowsMove
  BY DEF AgentInv, RowsInv, RunningRowExplained, RowsMove, registryVars

-----------------------------------------------------------------------------
(* The work and the verdicts                                               *)

LEMMA ReviewFacts ==
  ASSUME AgentInv
  PROVE  /\ tree \in [Runs -> {"none", "clean", "dirty"}]
         /\ branch \in [Runs -> {"none", "base", "ahead"}]
         /\ landed \subseteq Runs /\ dropped \subseteq Runs /\ contested \subseteq Runs
         /\ wrote \subseteq Runs
         /\ merging \in Runs \cup {NoMerge}
         /\ review \in [Reviews -> Review \cup {NoReview}]
         /\ \A v \in Reviews : Under(v) => review[v] \in Review /\ review[v].run \in Runs
         /\ \A v \in Reviews : review[v].at \in Removing => review[v].verdict \in {"merged", "rejected"}
<1>1. /\ tree \in [Runs -> {"none", "clean", "dirty"}]
      /\ branch \in [Runs -> {"none", "base", "ahead"}]
      /\ landed \subseteq Runs /\ dropped \subseteq Runs /\ contested \subseteq Runs
      /\ wrote \subseteq Runs
      /\ merging \in Runs \cup {NoMerge}
      /\ review \in [Reviews -> Review \cup {NoReview}]
  BY DEF AgentInv, TypeOK, ReviewTypeOK
<1>2. NoReview.at = "closed"
  BY DEF NoReview
<1>3. \A x \in Review : x.run \in Runs
  BY DEF Review
<1>4. \A x \in Review : x.at \in Removing => x.verdict \in {"merged", "rejected"}
  BY DEF Review, Removing
<1> QED BY <1>1, <1>2, <1>3, <1>4 DEF Under, Removing

\* The merge status of a run that has begun is only ever forgotten, but for a verdict.
MergeKept ==
    \A r \in Runs :
        /\ \/ entry'[r].merge \in {entry[r].merge, "none"}
           \/ phase[r] = "idle" /\ entry'[r].merge \in {"none", "pending"}
        /\ row'[r].merge \in {row[r].merge, entry'[r].merge}

\* A change of the registry that gives no verdict says nothing new of the work.
LEMMA VerdictsUntouched ==
  ASSUME AgentInv, MergeKept, UNCHANGED <<landed, contested, merging, review>>,
         wrote \subseteq wrote', \A r \in wrote' \ wrote : phase[r] # "over"
  PROVE  VerdictInv'
<1>1. \A v \in Reviews : Under(v)' <=> Under(v)
  BY DEF Under
<1>2. \A r \in Runs : phase[r] # "over" =>
         /\ entry[r].merge \in {"none", "pending"} /\ row[r].merge \in {"none", "pending"}
         /\ r \notin landed
         /\ \A v \in Reviews : Under(v) => review[v].run # r
  BY DEF AgentInv, PhaseInv
<1>3. VerdictMatchesRepo'
  <2> SUFFICES ASSUME NEW r \in Runs, NEW rec \in {entry'[r], row'[r]}
               PROVE  /\ rec.merge = "merged" /\ r \in wrote' => r \in landed
                      /\ rec.merge = "rejected" /\ r \in landed => r \in contested
    BY DEF VerdictMatchesRepo
  <2>1. /\ "merged" \in {entry[r].merge, row[r].merge} /\ r \in wrote => r \in landed
        /\ "rejected" \in {entry[r].merge, row[r].merge} /\ r \in landed => r \in contested
    BY DEF AgentInv, VerdictInv, VerdictMatchesRepo
  <2>2. rec.merge \in {entry[r].merge, row[r].merge, "none", "pending"}
    BY DEF MergeKept
  <2>3. CASE r \in wrote' \ wrote
    BY <1>2, <2>2, <2>3
  <2>4. CASE r \notin wrote' \ wrote
    BY <2>1, <2>2, <2>4
  <2> QED BY <2>3, <2>4
<1>4. \A r \in landed' \ contested' : entry'[r].merge = "pending" => entry[r].merge = "pending"
  BY <1>2, ReviewFacts DEF MergeKept
<1>5. \A r \in landed' \ contested' :
          /\ \A v \in Reviews : Under(v)' /\ review'[v].run = r =>
                review'[v].at \in Removing /\ review'[v].verdict = "merged"
          /\ entry'[r].merge = "pending" => \E v \in Reviews : Under(v)' /\ review'[v].run = r
  BY <1>1, <1>4 DEF AgentInv, VerdictInv
<1>6. ASSUME NEW r \in Runs \ contested', entry'[r].merge = "rejected" \/ row'[r].merge = "rejected"
      PROVE  entry'[r].merge # "pending" /\ \A v \in Reviews : Under(v)' => review'[v].run # r
  <2>1. phase[r] # "idle"
    <3> SUFFICES ASSUME phase[r] = "idle" PROVE FALSE
      OBVIOUS
    <3> QED BY <1>2, <1>6 DEF MergeKept
  <2>2. entry[r].merge = "rejected" \/ row[r].merge = "rejected"
    BY <1>6, <2>1 DEF MergeKept
  <2>3. /\ entry[r].merge # "pending"
        /\ \A v \in Reviews : Under(v) => review[v].run # r
    BY <2>2 DEF AgentInv, VerdictInv
  <2> QED BY <1>1, <2>1, <2>3 DEF MergeKept
<1>7. \A v, w \in Reviews : v # w /\ Under(v)' /\ Under(w)' /\ review'[v].run = review'[w].run =>
          review'[v].run \in contested'
  BY <1>1 DEF AgentInv, VerdictInv
<1>8. merging' # NoMerge => merging' \in contested'
  BY DEF AgentInv, VerdictInv
<1> QED BY <1>3, <1>5, <1>6, <1>7, <1>8 DEF VerdictInv

\* No verdict is reached on a run that is not over.
LEMMA PhasesKept ==
  ASSUME AgentInv, MergeKept, UNCHANGED <<landed, merging, review>>,
         \A r \in Runs :
            /\ phase'[r] = "idle" => phase[r] = "idle" /\ entry'[r] = Absent /\ row'[r] = Absent
            /\ phase'[r] # "over" => phase[r] # "over" /\ entry'[r].status \notin Ended,
         \A r \in wrote' \ wrote : phase'[r] # "idle"
  PROVE  PhaseInv'
<1> SUFFICES ASSUME NEW r \in Runs
             PROVE  /\ phase'[r] = "idle" => entry'[r] = Absent /\ row'[r] = Absent /\ r \notin wrote'
                    /\ phase'[r] # "over" =>
                          /\ entry'[r].status \notin Ended
                          /\ entry'[r].merge \in {"none", "pending"}
                          /\ row'[r].merge \in {"none", "pending"}
                          /\ r \notin landed'
                          /\ r # merging'
                          /\ \A v \in Reviews : Under(v)' => review'[v].run # r
  BY DEF PhaseInv
<1>1. phase'[r] = "idle" => r \notin wrote'
  BY DEF AgentInv, PhaseInv
<1>2. ASSUME phase'[r] # "over"
      PROVE  entry'[r].merge \in {"none", "pending"} /\ row'[r].merge \in {"none", "pending"}
  <2>1. entry[r].merge \in {"none", "pending"} /\ row[r].merge \in {"none", "pending"}
    BY <1>2 DEF AgentInv, PhaseInv
  <2> QED BY <2>1 DEF MergeKept
<1>3. phase'[r] # "over" =>
          /\ r \notin landed' /\ r # merging'
          /\ \A v \in Reviews : Under(v)' => review'[v].run # r
  BY DEF AgentInv, PhaseInv, Under
<1> QED BY <1>1, <1>2, <1>3

\* Where the work is does not depend on the registry.
LEMMA WorkUntouched ==
  ASSUME AgentInv, UNCHANGED reviewVars, wrote' = wrote
  PROVE  WorkInv'
  BY DEF AgentInv, WorkInv, WorkKept, reviewVars

-----------------------------------------------------------------------------
(* The steps of a run                                                      *)

LEMMA SameRegistry ==
  ASSUME AgentInv, UNCHANGED registryVars
  PROVE  RegistryTypeOK' /\ MergeKept
  BY DEF AgentInv, TypeOK, RegistryTypeOK, MergeKept, registryVars

LEMMA SameReviews ==
  ASSUME AgentInv, UNCHANGED reviewVars
  PROVE  ReviewTypeOK'
  BY DEF AgentInv, TypeOK, ReviewTypeOK, reviewVars

\* A run that is neither begun nor ended by the step.
LEMMA PhaseMoves ==
  ASSUME AgentInv, up, UNCHANGED <<registryVars, reviewVars, up, wrote, quits>>, aborted' \in SUBSET Runs,
         NEW r \in Runs, phase[r] \in Active, NEW p \in Active, phase' = [phase EXCEPT ![r] = p]
  PROVE  AgentInv' /\ RowsMove
<1>1. RegistryTypeOK' /\ MergeKept /\ ReviewTypeOK'
  BY SameRegistry, SameReviews
<1>2. TypeOK'
  BY <1>1 DEF AgentInv, TypeOK, Active, Phases
<1>3. RowsInv' /\ RowsMove
  BY RowsUntouched
<1>4. WorkInv'
  BY WorkUntouched
<1>5. VerdictInv'
  BY <1>1, VerdictsUntouched DEF reviewVars
<1>6. /\ \A q \in Runs : (phase'[q] = "idle" <=> phase[q] = "idle") /\ (phase'[q] = "over" <=> phase[q] = "over")
  BY DEF AgentInv, TypeOK, Active
<1>7. PhaseInv'
  <2>1. \A q \in Runs :
            /\ phase'[q] = "idle" => phase[q] = "idle" /\ entry'[q] = Absent /\ row'[q] = Absent
            /\ phase'[q] # "over" => phase[q] # "over" /\ entry'[q].status \notin Ended
    BY <1>6 DEF AgentInv, PhaseInv, registryVars
  <2> QED BY <1>1, <2>1, PhasesKept DEF reviewVars
<1> QED BY <1>2, <1>3, <1>4, <1>5, <1>7 DEF AgentInv

LEMMA LaunchKeeps ==
  ASSUME AgentInv, up, NEW r \in Runs, Launch(r) PROVE AgentInv' /\ RowsMove
<1>1. /\ phase[r] \in Active /\ UNCHANGED <<registryVars, reviewVars, up, wrote, quits>>
      /\ aborted' \in SUBSET Runs
  BY DEF Launch, Active, AgentInv, TypeOK
<1>2. PICK p \in Active : phase' = [phase EXCEPT ![r] = p]
  BY DEF Launch, Goto, Active
<1> QED BY <1>1, <1>2, PhaseMoves

LEMMA WorkerFailsKeeps ==
  ASSUME AgentInv, up, NEW r \in Runs, WorkerFails(r) PROVE AgentInv' /\ RowsMove
<1>1. /\ phase[r] \in Active /\ UNCHANGED <<registryVars, reviewVars, up, wrote, quits>>
      /\ aborted' \in SUBSET Runs
  BY DEF WorkerFails, Active, AgentInv, TypeOK
<1>2. phase' = [phase EXCEPT ![r] = "inline"] /\ "inline" \in Active
  BY DEF WorkerFails, Goto, Active
<1> QED BY <1>1, <1>2, PhaseMoves

LEMMA AbortKeeps ==
  ASSUME AgentInv, up, NEW r \in Runs, Abort(r) PROVE AgentInv' /\ RowsMove
<1>1. /\ phase[r] \in Active /\ UNCHANGED <<registryVars, reviewVars, up, wrote, quits>>
      /\ aborted' \in SUBSET Runs
  BY DEF Abort, Active, AgentInv, TypeOK
<1> DEFINE p == IF phase[r] = "worker" THEN "inline" ELSE phase[r]
<1>2. p \in Active
  BY <1>1 DEF Active
<1>3. phase' = [phase EXCEPT ![r] = p]
  BY DEF Abort
<1> HIDE DEF p
<1> QED BY <1>1, <1>2, <1>3, PhaseMoves

\* The runner writes: the worktree was clean and the run is not over, so no verdict
\* is looking at it.
LEMMA WorkKeeps ==
  ASSUME AgentInv, up, NEW r \in Runs, Work(r) PROVE AgentInv' /\ RowsMove
<1>1. /\ phase[r] \in {"worker", "inline"} /\ tree[r] = "clean"
      /\ tree' = [tree EXCEPT ![r] = "dirty"] /\ wrote' = wrote \cup {r}
      /\ UNCHANGED <<branch, landed, merging, review, dropped, contested>>
      /\ UNCHANGED <<registryVars, up, phase, aborted, quits>>
  BY DEF Work, WriteInTree
<1>2. RegistryTypeOK' /\ MergeKept
  BY <1>1, SameRegistry
<1>3. TypeOK'
  BY <1>1, <1>2 DEF AgentInv, TypeOK, ReviewTypeOK
<1>4. RowsInv' /\ RowsMove
  BY <1>1, RowsUntouched
<1>5. VerdictInv'
  BY <1>1, <1>2, VerdictsUntouched
<1>6. PhaseInv'
  <2>1. \A q \in Runs :
            /\ phase'[q] = "idle" => phase[q] = "idle" /\ entry'[q] = Absent /\ row'[q] = Absent
            /\ phase'[q] # "over" => phase[q] # "over" /\ entry'[q].status \notin Ended
    BY <1>1 DEF AgentInv, PhaseInv, registryVars
  <2> QED BY <1>1, <1>2, <2>1, PhasesKept
<1>7. WorkInv'
  <2>1. \A v \in Reviews : Under(v) => review[v].run # r
    BY <1>1 DEF AgentInv, PhaseInv
  <2>2. \A v \in Reviews : review[v].at \in Removing \cup {"merge"} => Under(v)
    BY DEF Under, Removing
  <2>3. tree'[r] = "dirty" /\ \A q \in Runs \ {r} : tree'[q] = tree[q]
    BY <1>1, ReviewFacts
  <2>4. WorkKept'
    BY <1>1, <2>3, ReviewFacts DEF AgentInv, WorkInv, WorkKept
  <2>5. \A q \in wrote' : tree'[q] = "clean" => branch'[q] = "ahead"
    BY <1>1, <2>3, ReviewFacts DEF AgentInv, WorkInv
  <2>6. ASSUME NEW v \in Reviews
        PROVE  /\ review'[v].at = "merge" /\ review'[v].run \in wrote' =>
                     tree'[review'[v].run] # "dirty" /\ branch'[review'[v].run] \in {"ahead", "none"}
               /\ review'[v].at \in Removing /\ review'[v].verdict = "merged" /\ review'[v].run \in wrote' =>
                     review'[v].run \in landed'
               /\ review'[v].at \in Removing /\ review'[v].verdict = "rejected" =>
                     review'[v].run \in dropped'
    BY <1>1, <2>1, <2>2, <2>3, ReviewFacts DEF AgentInv, WorkInv
  <2> QED BY <2>4, <2>5, <2>6 DEF WorkInv
<1> QED BY <1>3, <1>4, <1>5, <1>6, <1>7 DEF AgentInv

\* The end of a run is recorded, if it is still listed.
LEMMA SettleKeeps ==
  ASSUME AgentInv, up, NEW r \in Runs, phase[r] \in {"worker", "inline"}, Settle(r)
  PROVE  AgentInv' /\ RowsMove
<1>1. PICK status \in Ended : RecordEnd(r, status)
  BY DEF Settle, Ended
<1>2. /\ phase' = [phase EXCEPT ![r] = "over"] /\ aborted' = aborted \ {r}
      /\ UNCHANGED <<reviewVars, up, wrote, quits>>
  BY DEF Settle, Goto
<1>3. /\ RegistryTypeOK' /\ Rewritten(entry')
      /\ \A q \in Runs \ {r} : entry'[q] = entry[q]
      /\ entry'[r] = IF entry[r] = Absent THEN Absent ELSE [entry[r] EXCEPT !.status = status]
      /\ UNCHANGED <<order, prompts, left>>
  BY <1>1, RecordEndEffect DEF AgentInv, TypeOK
<1>4. /\ entry \in [Runs -> Rows] /\ entry' \in [Runs -> Rows]
      /\ row \in [Runs -> Rows] /\ row' \in [Runs -> Rows]
  BY <1>3, RegistryFacts DEF AgentInv, TypeOK, RegistryTypeOK, Rows
<1>5. entry[r] # Absent => entry'[r].status = status /\ entry'[r].merge = entry[r].merge
  <2> SUFFICES ASSUME entry[r] # Absent
               PROVE  entry'[r].status = status /\ entry'[r].merge = entry[r].merge
    OBVIOUS
  <2>1. entry[r] \in AgentRun
    BY <1>4 DEF Rows
  <2> QED BY <1>3, <2>1 DEF AgentRun
<1>6. entry[r].status \notin Ended
  BY DEF AgentInv, PhaseInv
<1>7. \A q \in Runs : Evolves(q)
  BY <1>3, <1>5, <1>6 DEF Evolves
<1>8. RowsInv' /\ RowsMove
  BY <1>2, <1>3, <1>7, RowsRewritten
<1>9. MergeKept
  <2>1. \A q \in Runs : entry'[q].merge = entry[q].merge
    BY <1>3, <1>5
  <2>2. \A q \in Runs : row'[q] \in {row[q], entry'[q]}
    BY <1>3 DEF Rewritten
  <2> QED BY <2>1, <2>2 DEF MergeKept
<1>10. TypeOK'
  BY <1>2, <1>3, SameReviews DEF AgentInv, TypeOK, Phases
<1>11. VerdictInv' /\ WorkInv'
  BY <1>2, <1>9, VerdictsUntouched, WorkUntouched DEF reviewVars
<1>12. PhaseInv'
  <2>1. phase'[r] = "over" /\ \A q \in Runs \ {r} : phase'[q] = phase[q]
    BY <1>2 DEF AgentInv, TypeOK
  <2>2. ASSUME NEW q \in Runs, phase[q] = "idle" PROVE row'[q] = row[q] \/ row'[q] = Absent
    <3>1. entry[q] = Absent /\ row[q] = Absent
      BY <2>2 DEF AgentInv, PhaseInv
    <3> QED BY <1>3, <2>2, <3>1 DEF Rewritten
  <2>3. \A q \in Runs :
            /\ phase'[q] = "idle" => phase[q] = "idle" /\ entry'[q] = Absent /\ row'[q] = Absent
            /\ phase'[q] # "over" => phase[q] # "over" /\ entry'[q].status \notin Ended
    BY <1>3, <2>1, <2>2 DEF AgentInv, PhaseInv
  <2> QED BY <1>2, <1>9, <2>3, PhasesKept DEF reviewVars
<1> QED BY <1>8, <1>10, <1>11, <1>12 DEF AgentInv

-----------------------------------------------------------------------------
(* The steps of a review                                                   *)

\* A step of the review v: it goes on as x, or is over.
Becomes(v, x) ==
    /\ Under(v) /\ review[v].run \in Runs
    /\ x \in Review \cup {NoReview}
    /\ x.at # "closed" => x.run = review[v].run
    /\ review'[v] = x
    /\ \A w \in Reviews \ {v} : review'[w] = review[w]
    /\ UNCHANGED <<registryVars, runVars>>

\* What such a step may do to the repository, as the verdicts see it.
Judges(v, x) ==
    /\ landed \subseteq landed' /\ landed' \subseteq landed \cup {review[v].run}
    /\ contested \subseteq contested' /\ contested' \subseteq Runs
    /\ merging' \in {merging, review[v].run} /\ (merging' = merging \/ merging' \in contested')
    /\ review[v].run \in landed' \ contested' => x.at \in Removing /\ x.verdict = "merged"

LEMMA VerdictAfterReview ==
  ASSUME AgentInv, NEW v \in Reviews, NEW x, Becomes(v, x), Judges(v, x)
  PROVE  VerdictInv'
<1> DEFINE r0 == review[v].run
<1>1. /\ \A w \in Reviews : Under(w)' => Under(w) /\ review'[w].run = review[w].run
      /\ \A w \in Reviews \ {v} : Under(w)' <=> Under(w)
  BY DEF Becomes, Under
<1>2. /\ Under(v) /\ r0 \in Runs /\ UNCHANGED <<entry, row, wrote>>
      /\ landed \subseteq landed' /\ landed' \subseteq landed \cup {r0}
      /\ contested \subseteq contested' /\ contested' \subseteq Runs
  BY DEF Becomes, Judges, registryVars, runVars
<1>3. r0 \notin contested =>
         /\ entry[r0].merge # "rejected" /\ row[r0].merge # "rejected"
         /\ \A w \in Reviews : Under(w) /\ review[w].run = r0 => w = v
  BY <1>2 DEF AgentInv, VerdictInv
<1>4. VerdictMatchesRepo'
  <2> SUFFICES ASSUME NEW r \in Runs, NEW rec \in {entry[r], row[r]}
               PROVE  /\ rec.merge = "merged" /\ r \in wrote => r \in landed'
                      /\ rec.merge = "rejected" /\ r \in landed' => r \in contested'
    BY <1>2 DEF VerdictMatchesRepo
  <2>1. /\ rec.merge = "merged" /\ r \in wrote => r \in landed
        /\ rec.merge = "rejected" /\ r \in landed => r \in contested
    BY DEF AgentInv, VerdictInv, VerdictMatchesRepo
  <2> QED BY <1>2, <1>3, <2>1
<1>5. merging' # NoMerge => merging' \in contested'
  BY DEF AgentInv, VerdictInv, Judges
<1>6. \A w, u \in Reviews : w # u /\ Under(w)' /\ Under(u)' /\ review'[w].run = review'[u].run =>
          review'[w].run \in contested'
  BY <1>1, <1>2 DEF AgentInv, VerdictInv
<1>7. ASSUME NEW r \in landed' \ contested'
      PROVE  /\ \A w \in Reviews : Under(w)' /\ review'[w].run = r =>
                   review'[w].at \in Removing /\ review'[w].verdict = "merged"
             /\ entry'[r].merge = "pending" => \E w \in Reviews : Under(w)' /\ review'[w].run = r
  <2>1. CASE r = r0
    <3>1. x.at \in Removing /\ x.verdict = "merged" /\ review'[v] = x /\ x.run = r0
      BY <1>7, <2>1 DEF Judges, Becomes, Removing
    <3>2. Under(v)'
      BY <3>1 DEF Under, Removing
    <3> QED BY <1>1, <1>2, <1>3, <1>7, <2>1, <3>1, <3>2
  <2>2. CASE r # r0
    <3>1. r \in landed \ contested
      BY <1>2, <1>7, <2>2
    <3>2. /\ \A w \in Reviews : Under(w) /\ review[w].run = r =>
                review[w].at \in Removing /\ review[w].verdict = "merged"
          /\ entry[r].merge = "pending" => \E w \in Reviews : Under(w) /\ review[w].run = r
      BY <3>1 DEF AgentInv, VerdictInv
    <3>3. \A w \in Reviews : Under(w)' /\ review'[w].run = r => w # v
      BY <1>1, <2>2
    <3>4. \A w \in Reviews : Under(w) /\ review[w].run = r => w # v
      BY <2>2
    <3>5. \A w \in Reviews \ {v} : review'[w] = review[w]
      BY DEF Becomes
    <3> QED BY <1>1, <1>2, <3>2, <3>3, <3>4, <3>5
  <2> QED BY <2>1, <2>2
<1>8. \A r \in Runs \ contested' :
          entry'[r].merge = "rejected" \/ row'[r].merge = "rejected" =>
              /\ entry'[r].merge # "pending"
              /\ \A w \in Reviews : Under(w)' => review'[w].run # r
  BY <1>1, <1>2 DEF AgentInv, VerdictInv
<1> QED BY <1>4, <1>5, <1>6, <1>7, <1>8 DEF VerdictInv

\* Where the work of the run is after such a step.
Carries(v, x) ==
    LET r == review[v].run
    IN  /\ \A q \in Runs \ {r} : tree'[q] = tree[q] /\ branch'[q] = branch[q]
        /\ landed \subseteq landed' /\ dropped \subseteq dropped'
        /\ r \in wrote =>
              /\ r \in dropped' \/ tree'[r] = "dirty" \/ branch'[r] = "ahead" \/ r \in landed'
              /\ tree'[r] = "clean" => branch'[r] = "ahead"
              /\ tree'[r] = "dirty" => tree[r] = "dirty"
              /\ branch'[r] = "base" => branch[r] = "base"
              /\ x.at = "merge" => tree'[r] # "dirty" /\ branch'[r] \in {"ahead", "none"}
              /\ x.at \in Removing /\ x.verdict = "merged" => r \in landed'
        /\ x.at \in Removing /\ x.verdict = "rejected" => r \in dropped'

LEMMA WorkAfterReview ==
  ASSUME AgentInv, ReviewTypeOK', NEW v \in Reviews, NEW x, Becomes(v, x), Carries(v, x)
  PROVE  WorkInv'
<1> DEFINE r0 == review[v].run
<1>1. /\ r0 \in Runs /\ wrote' = wrote /\ wrote \subseteq Runs
      /\ landed \subseteq landed' /\ dropped \subseteq dropped'
      /\ \A q \in Runs \ {r0} : tree'[q] = tree[q] /\ branch'[q] = branch[q]
  BY ReviewFacts DEF Becomes, Carries, runVars
<1>2. r0 \in wrote =>
        /\ r0 \in dropped' \/ tree'[r0] = "dirty" \/ branch'[r0] = "ahead" \/ r0 \in landed'
        /\ tree'[r0] = "clean" => branch'[r0] = "ahead"
        /\ tree'[r0] = "dirty" => tree[r0] = "dirty"
        /\ branch'[r0] = "base" => branch[r0] = "base"
  BY DEF Carries
<1>3. WorkKept'
  BY <1>1, <1>2 DEF AgentInv, WorkInv, WorkKept
<1>4. \A r \in wrote' : tree'[r] = "clean" => branch'[r] = "ahead"
  BY <1>1, <1>2 DEF AgentInv, WorkInv
<1>5. ASSUME NEW w \in Reviews
      PROVE  /\ review'[w].at = "merge" /\ review'[w].run \in wrote =>
                   tree'[review'[w].run] # "dirty" /\ branch'[review'[w].run] \in {"ahead", "none"}
             /\ review'[w].at \in Removing /\ review'[w].verdict = "merged" /\ review'[w].run \in wrote =>
                   review'[w].run \in landed'
             /\ review'[w].at \in Removing /\ review'[w].verdict = "rejected" =>
                   review'[w].run \in dropped'
  <2>1. CASE w = v
    <3>1. review'[w] = x /\ (x.at \in Removing \cup {"merge"} => x.run = r0)
      BY <2>1 DEF Becomes, Removing
    <3>2. /\ r0 \in wrote =>
                /\ x.at = "merge" => tree'[r0] # "dirty" /\ branch'[r0] \in {"ahead", "none"}
                /\ x.at \in Removing /\ x.verdict = "merged" => r0 \in landed'
          /\ x.at \in Removing /\ x.verdict = "rejected" => r0 \in dropped'
      BY DEF Carries
    <3> HIDE DEF r0
    <3> QED BY <3>1, <3>2
  <2>2. CASE w # v
    <3>1. review'[w] = review[w]
      BY <2>2 DEF Becomes
    <3>2. /\ review[w].at = "merge" /\ review[w].run \in wrote =>
                tree[review[w].run] # "dirty" /\ branch[review[w].run] \in {"ahead", "none"}
          /\ review[w].at \in Removing /\ review[w].verdict = "merged" /\ review[w].run \in wrote =>
                review[w].run \in landed
          /\ review[w].at \in Removing /\ review[w].verdict = "rejected" => review[w].run \in dropped
      BY DEF AgentInv, WorkInv
    <3>3. \A q \in Runs : branch'[q] \in {"none", "base", "ahead"}
      BY DEF ReviewTypeOK
    <3> HIDE DEF r0
    <3>4. \A q \in wrote : tree[q] # "dirty" => tree'[q] # "dirty"
      BY <1>1, <1>2
    <3>5. \A q \in wrote : branch[q] \in {"ahead", "none"} => branch'[q] \in {"ahead", "none"}
      BY <1>1, <1>2, <3>3
    <3> QED BY <1>1, <3>1, <3>2, <3>4, <3>5
  <2> QED BY <2>1, <2>2
<1>6. \A w \in Reviews :
          /\ review'[w].at = "merge" /\ review'[w].run \in wrote' =>
                tree'[review'[w].run] # "dirty" /\ branch'[review'[w].run] \in {"ahead", "none"}
          /\ review'[w].at \in Removing /\ review'[w].verdict = "merged" /\ review'[w].run \in wrote' =>
                review'[w].run \in landed'
          /\ review'[w].at \in Removing /\ review'[w].verdict = "rejected" =>
                review'[w].run \in dropped'
  BY <1>1, <1>5
<1> QED BY <1>3, <1>4, <1>6 DEF WorkInv

LEMMA ReviewKeeps ==
  ASSUME AgentInv, ReviewTypeOK', NEW v \in Reviews, NEW x,
         Becomes(v, x), Judges(v, x), Carries(v, x)
  PROVE  AgentInv' /\ RowsMove
<1>1. VerdictInv' /\ WorkInv'
  BY VerdictAfterReview, WorkAfterReview
<1>2. RowsInv' /\ RowsMove
  BY RowsUntouched DEF Becomes, runVars
<1>3. TypeOK'
  BY DEF AgentInv, TypeOK, RegistryTypeOK, Becomes, registryVars, runVars
<1>4. PhaseInv'
  <2>1. phase[review[v].run] = "over"
    BY DEF AgentInv, PhaseInv, Becomes
  <2>2. /\ UNCHANGED <<phase, entry, row, wrote>>
        /\ landed' \subseteq landed \cup {review[v].run}
        /\ merging' \in {merging, review[v].run}
    BY DEF Becomes, Judges, runVars, registryVars
  <2>3. \A w \in Reviews : Under(w)' => Under(w) /\ review'[w].run = review[w].run
    BY DEF Becomes, Under
  <2> QED BY <2>1, <2>2, <2>3 DEF AgentInv, PhaseInv
<1> QED BY <1>1, <1>2, <1>3, <1>4 DEF AgentInv

\* What the moves of a review come to.
LEMMA ReviewMoves ==
  ASSUME AgentInv, NEW v \in Reviews, Under(v)
  PROVE  LET r == review[v].run
         IN  /\ \A at \in Removing :
                  Move(v, at) /\ review[v].at \in Removing \cup {"merge"} =>
                     /\ review'[v] = [at |-> at, run |-> r, verdict |-> review[v].verdict]
                     /\ review'[v] \in Review
             /\ Move(v, "merge") /\ review[v].at = "commit" =>
                  review'[v] = [at |-> "merge", run |-> r, verdict |-> "merged"] /\ review'[v] \in Review
             /\ Close(v) => review'[v] = NoReview
             /\ Fail(v) => review'[v] = NoReview \/ review'[v] = [at |-> "open", run |-> r]
             /\ review[v].at \in {"commit", "merge"} => review[v].verdict = "merged"
             /\ (\E at \in Removing \cup {"merge"} : Move(v, at)) \/ Close(v) \/ Fail(v) =>
                  /\ \A w \in Reviews \ {v} : review'[w] = review[w]
                  /\ DOMAIN review' = Reviews /\ review' \in [Reviews -> {review'[w] : w \in Reviews}]
<1>1. review \in [Reviews -> Review \cup {NoReview}] /\ review[v] \in Review /\ review[v].run \in Runs
  BY ReviewFacts
<1>2. \/ review[v].at = "open"
      \/ review[v].at \in {"commit", "merge"} /\ review[v].verdict = "merged"
         /\ review[v] = [at |-> review[v].at, run |-> review[v].run, verdict |-> "merged"]
      \/ review[v].at \in Removing /\ review[v].verdict \in {"merged", "rejected"}
         /\ review[v] = [at |-> review[v].at, run |-> review[v].run, verdict |-> review[v].verdict]
  BY <1>1 DEF Review, Removing
<1>3. \A at \in Removing : Move(v, at) /\ review[v].at \in Removing \cup {"merge"} =>
         /\ review'[v] = [at |-> at, run |-> review[v].run, verdict |-> review[v].verdict]
         /\ review'[v] \in Review
  BY <1>1, <1>2 DEF Move, Review, Removing
<1>4. Move(v, "merge") /\ review[v].at = "commit" =>
         /\ review'[v] = [at |-> "merge", run |-> review[v].run, verdict |-> "merged"]
         /\ review'[v] \in Review
  BY <1>1, <1>2 DEF Move, Review, Removing
<1>5. /\ Close(v) => review'[v] = NoReview
      /\ Fail(v) => review'[v] = NoReview \/ review'[v] = [at |-> "open", run |-> review[v].run]
  BY <1>1 DEF Close, Fail
<1>6. review[v].at \in {"commit", "merge"} => review[v].verdict = "merged"
  BY <1>2 DEF Removing
<1>7. (\E at \in Removing \cup {"merge"} : Move(v, at)) \/ Close(v) \/ Fail(v) =>
         /\ \A w \in Reviews \ {v} : review'[w] = review[w]
         /\ DOMAIN review' = Reviews /\ review' \in [Reviews -> {review'[w] : w \in Reviews}]
  BY <1>1 DEF Move, Close, Fail
<1> QED BY <1>3, <1>4, <1>5, <1>6, <1>7

\* The types after a step of the review v.
LEMMA ReviewTypes ==
  ASSUME AgentInv, NEW v \in Reviews, NEW x \in Review \cup {NoReview},
         review'[v] = x, \A w \in Reviews \ {v} : review'[w] = review[w], 
         DOMAIN review' = Reviews, review' \in [Reviews -> {review'[w] : w \in Reviews}],
         tree' \in [Runs -> {"none", "clean", "dirty"}], branch' \in [Runs -> {"none", "base", "ahead"}],
         landed' \subseteq Runs, merging' \in Runs \cup {NoMerge},
         dropped' \subseteq Runs, contested' \subseteq Runs
  PROVE  ReviewTypeOK'
<1>1. \A w \in Reviews : review'[w] \in Review \cup {NoReview}
  BY ReviewFacts
<1>2. review' \in [Reviews -> Review \cup {NoReview}]
  BY <1>1
<1> QED BY <1>2 DEF ReviewTypeOK

LEMMA CloseReviewKeeps ==
  ASSUME AgentInv, up, NEW v \in Reviews, CloseReview(v), UNCHANGED runVars
  PROVE  AgentInv' /\ RowsMove
<1> DEFINE r == review[v].run
<1>1. /\ review[v].at = "open" /\ Close(v)
      /\ UNCHANGED <<tree, branch, landed, merging, dropped, contested, registryVars>>
  BY DEF CloseReview
<1>2. Under(v) /\ r \in Runs
  BY <1>1, ReviewFacts DEF Under
<1>3. /\ review'[v] = NoReview /\ \A w \in Reviews \ {v} : review'[w] = review[w]
      /\ DOMAIN review' = Reviews /\ review' \in [Reviews -> {review'[w] : w \in Reviews}]
  BY <1>1, <1>2, ReviewMoves
<1>4. ReviewTypeOK'
  BY <1>1, <1>3, ReviewFacts, ReviewTypes
<1>5. Becomes(v, NoReview)
  BY <1>1, <1>2, <1>3 DEF Becomes, NoReview
<1>6. r \notin landed \ contested
  BY <1>1, <1>2 DEF AgentInv, VerdictInv, Removing
<1>7. Judges(v, NoReview)
  BY <1>1, <1>6, ReviewFacts DEF Judges
<1>8. Carries(v, NoReview)
  BY <1>1, <1>2 DEF Carries, AgentInv, WorkInv, WorkKept, NoReview, Removing
<1> QED BY <1>4, <1>5, <1>7, <1>8, ReviewKeeps

LEMMA AcceptKeeps ==
  ASSUME AgentInv, up, NEW v \in Reviews, Accept(v), UNCHANGED runVars
  PROVE  AgentInv' /\ RowsMove
<1> DEFINE r == review[v].run
           x == [at |-> "commit", run |-> r, verdict |-> "merged"]
<1>1. /\ review[v].at = "open" /\ review' = [review EXCEPT ![v] = x]
      /\ UNCHANGED <<tree, branch, landed, merging, dropped, contested, registryVars>>
  BY DEF Accept
<1>2. Under(v) /\ r \in Runs
  BY <1>1, ReviewFacts DEF Under
<1>3. /\ review'[v] = x /\ \A w \in Reviews \ {v} : review'[w] = review[w]
      /\ DOMAIN review' = Reviews /\ review' \in [Reviews -> {review'[w] : w \in Reviews}]
  BY <1>1, ReviewFacts
<1>4. x \in Review /\ x.at = "commit" /\ x.run = r
  BY <1>2 DEF Review
<1> HIDE DEF x
<1>5. ReviewTypeOK'
  BY <1>1, <1>3, <1>4, ReviewFacts, ReviewTypes
<1>6. Becomes(v, x)
  BY <1>1, <1>2, <1>3, <1>4 DEF Becomes
<1>7. r \notin landed \ contested
  BY <1>1, <1>2 DEF AgentInv, VerdictInv, Removing
<1>8. Judges(v, x)
  BY <1>1, <1>7, ReviewFacts DEF Judges
<1>9. Carries(v, x)
  BY <1>1, <1>2, <1>4 DEF Carries, AgentInv, WorkInv, WorkKept, Removing
<1> QED BY <1>5, <1>6, <1>8, <1>9, ReviewKeeps

LEMMA RejectKeeps ==
  ASSUME AgentInv, up, NEW v \in Reviews, Reject(v), UNCHANGED runVars
  PROVE  AgentInv' /\ RowsMove
<1> DEFINE r == review[v].run
           x == [at |-> "remove", run |-> r, verdict |-> "rejected"]
<1>1. /\ review[v].at = "open" /\ review' = [review EXCEPT ![v] = x] /\ dropped' = dropped \cup {r}
      /\ UNCHANGED <<tree, branch, landed, merging, contested, registryVars>>
  BY DEF Reject
<1>2. Under(v) /\ r \in Runs
  BY <1>1, ReviewFacts DEF Under
<1>3. /\ review'[v] = x /\ \A w \in Reviews \ {v} : review'[w] = review[w]
      /\ DOMAIN review' = Reviews /\ review' \in [Reviews -> {review'[w] : w \in Reviews}]
  BY <1>1, ReviewFacts
<1>4. x \in Review /\ x.at = "remove" /\ x.run = r /\ x.verdict = "rejected"
  BY <1>2 DEF Review
<1> HIDE DEF x
<1>5. dropped' \subseteq Runs
  BY <1>1, <1>2, ReviewFacts
<1>6. ReviewTypeOK'
  BY <1>1, <1>3, <1>4, <1>5, ReviewFacts, ReviewTypes
<1>7. Becomes(v, x)
  BY <1>1, <1>2, <1>3, <1>4 DEF Becomes
<1>8. r \notin landed \ contested
  BY <1>1, <1>2 DEF AgentInv, VerdictInv, Removing
<1>9. Judges(v, x)
  BY <1>1, <1>8, ReviewFacts DEF Judges
<1>10. Carries(v, x)
  BY <1>1, <1>2, <1>4 DEF Carries, AgentInv, WorkInv, WorkKept, Removing
<1> QED BY <1>6, <1>7, <1>9, <1>10, ReviewKeeps

LEMMA CommitWorktreeKeeps ==
  ASSUME AgentInv, up, NEW v \in Reviews, CommitWorktree(v), UNCHANGED runVars
  PROVE  AgentInv' /\ RowsMove
<1> DEFINE r == review[v].run
           x == review'[v]
<1>1. /\ review[v].at = "commit"
      /\ \/ /\ tree[r] # "none" /\ Move(v, "merge")
            /\ tree' = [tree EXCEPT ![r] = "clean"]
            /\ branch' = IF tree[r] = "dirty" THEN [branch EXCEPT ![r] = "ahead"] ELSE branch
         \/ Fail(v) /\ UNCHANGED <<tree, branch>>
      /\ UNCHANGED <<landed, merging, dropped, contested, registryVars>>
  BY DEF CommitWorktree
<1>2. Under(v) /\ r \in Runs
  BY <1>1, ReviewFacts DEF Under
<1>3. Fail(v) => x = NoReview \/ (x = [at |-> "open", run |-> r])
  BY <1>2, ReviewMoves
<1>4. Move(v, "merge") => x = [at |-> "merge", run |-> r, verdict |-> "merged"]
  BY <1>1, <1>2, ReviewMoves
<1>5. x \in Review \cup {NoReview} /\ (x.at # "closed" => x.run = r) /\ x.at \notin Removing
  BY <1>1, <1>2, <1>3, <1>4 DEF Review, NoReview, Removing
<1>6. /\ \A w \in Reviews \ {v} : review'[w] = review[w]
      /\ DOMAIN review' = Reviews /\ review' \in [Reviews -> {review'[w] : w \in Reviews}]
  BY <1>1, <1>2, ReviewMoves
<1>7. /\ tree' \in [Runs -> {"none", "clean", "dirty"}] /\ branch' \in [Runs -> {"none", "base", "ahead"}]
      /\ \A q \in Runs \ {r} : tree'[q] = tree[q] /\ branch'[q] = branch[q]
  BY <1>1, ReviewFacts
<1>8. \/ /\ tree[r] # "none" /\ tree'[r] = "clean"
         /\ branch'[r] = IF tree[r] = "dirty" THEN "ahead" ELSE branch[r]
      \/ x.at # "merge" /\ tree'[r] = tree[r] /\ branch'[r] = branch[r]
  <2>1. Fail(v) => x.at # "merge"
    BY <1>3 DEF NoReview
  <2>2. tree[r] # "none" /\ tree' = [tree EXCEPT ![r] = "clean"] => tree'[r] = "clean"
    BY <1>2, ReviewFacts
  <2>3. branch' = [branch EXCEPT ![r] = "ahead"] => branch'[r] = "ahead"
    BY <1>2, ReviewFacts
  <2> QED BY <1>1, <2>1, <2>2, <2>3
<1>9. UNCHANGED <<landed, merging, dropped, contested, registryVars>>
  BY <1>1
<1>10. ReviewTypeOK'
  BY <1>5, <1>6, <1>7, <1>9, ReviewFacts, ReviewTypes
<1>11. Becomes(v, x)
  BY <1>2, <1>5, <1>6, <1>9 DEF Becomes
<1>12. r \notin landed \ contested
  BY <1>1, <1>2 DEF AgentInv, VerdictInv, Removing
<1> HIDE DEF x
<1>13. Judges(v, x)
  BY <1>9, <1>12, ReviewFacts DEF Judges
<1>14. r \in wrote => /\ r \in dropped \/ tree[r] = "dirty" \/ branch[r] = "ahead" \/ r \in landed
                      /\ tree[r] = "clean" => branch[r] = "ahead"
  BY DEF AgentInv, WorkInv, WorkKept
<1>15. tree[r] \in {"none", "clean", "dirty"}
  BY <1>2, ReviewFacts
<1>16. Carries(v, x)
  BY <1>5, <1>7, <1>8, <1>9, <1>14, <1>15 DEF Carries
<1> QED BY <1>10, <1>11, <1>13, <1>16, ReviewKeeps

LEMMA MergeKeeps ==
  ASSUME AgentInv, up, NEW v \in Reviews, Merge(v), UNCHANGED runVars
  PROVE  AgentInv' /\ RowsMove
<1> DEFINE r == review[v].run
           x == review'[v]
<1>1. /\ review[v].at = "merge"
      /\ \/ /\ branch[r] # "none" /\ merging = NoMerge
            /\ Move(v, "remove")
            /\ landed' = IF branch[r] = "ahead" THEN landed \cup {r} ELSE landed
            /\ UNCHANGED <<merging, contested>>
         \/ /\ branch[r] = "ahead" /\ merging = NoMerge /\ r \notin landed
            /\ Fail(v)
            /\ merging' = r /\ contested' = contested \cup {r} /\ UNCHANGED landed
         \/ Fail(v) /\ UNCHANGED <<landed, merging, contested>>
      /\ UNCHANGED <<tree, branch, dropped, registryVars>>
  BY DEF Merge
<1>2. Under(v) /\ r \in Runs
  BY <1>1, ReviewFacts DEF Under
<1>3. Fail(v) => x = NoReview \/ (x = [at |-> "open", run |-> r])
  BY <1>2, ReviewMoves
<1>4. Move(v, "remove") => x = [at |-> "remove", run |-> r, verdict |-> "merged"]
  BY <1>1, <1>2, ReviewMoves DEF Removing
<1>5. x \in Review \cup {NoReview} /\ (x.at # "closed" => x.run = r) /\ x.at # "merge"
  BY <1>1, <1>2, <1>3, <1>4 DEF Review, NoReview, Removing
<1>6. /\ \A w \in Reviews \ {v} : review'[w] = review[w]
      /\ DOMAIN review' = Reviews /\ review' \in [Reviews -> {review'[w] : w \in Reviews}]
  BY <1>1, <1>2, ReviewMoves DEF Removing
<1>7. \/ /\ x.at = "remove" /\ x.verdict = "merged" /\ branch[r] # "none"
         /\ landed' = IF branch[r] = "ahead" THEN landed \cup {r} ELSE landed
         /\ merging' = merging /\ contested' = contested
      \/ /\ x.at \notin Removing /\ landed' = landed
         /\ \/ merging' = r /\ contested' = contested \cup {r}
            \/ merging' = merging /\ contested' = contested
  BY <1>1, <1>3, <1>4 DEF NoReview, Removing
<1>8. UNCHANGED <<tree, branch, dropped, registryVars>>
  BY <1>1
<1>9. ReviewTypeOK'
  <2>1. landed' \subseteq Runs /\ merging' \in Runs \cup {NoMerge} /\ contested' \subseteq Runs
    BY <1>2, <1>7, ReviewFacts
  <2> QED BY <1>5, <1>6, <1>8, <2>1, ReviewFacts, ReviewTypes
<1>10. Becomes(v, x)
  BY <1>2, <1>5, <1>6, <1>8 DEF Becomes
<1>11. r \notin landed \ contested
  BY <1>1, <1>2 DEF AgentInv, VerdictInv, Removing
<1>12. /\ r \in wrote => /\ r \in dropped \/ tree[r] = "dirty" \/ branch[r] = "ahead" \/ r \in landed
                         /\ tree[r] = "clean" => branch[r] = "ahead"
                         /\ tree[r] # "dirty" /\ branch[r] \in {"ahead", "none"}
  BY <1>1 DEF AgentInv, WorkInv, WorkKept
<1> HIDE DEF x
<1>13. Judges(v, x)
  BY <1>2, <1>7, <1>11, ReviewFacts DEF Judges, Removing
<1>14. Carries(v, x)
  BY <1>5, <1>7, <1>8, <1>12 DEF Carries, Removing
<1> QED BY <1>9, <1>10, <1>13, <1>14, ReviewKeeps

LEMMA RemoveWorktreeKeeps ==
  ASSUME AgentInv, up, NEW v \in Reviews, RemoveWorktree(v), UNCHANGED runVars
  PROVE  AgentInv' /\ RowsMove
<1> DEFINE r == review[v].run
           x == review'[v]
<1>1. /\ review[v].at = "remove"
      /\ \/ (Move(v, "mark") \/ Move(v, "prune")) /\ tree' \in {tree, [tree EXCEPT ![r] = "none"]}
         \/ review[v].verdict = "rejected" /\ Fail(v) /\ UNCHANGED tree
      /\ UNCHANGED <<branch, landed, merging, dropped, contested, registryVars>>
  BY ReviewFacts DEF RemoveWorktree, Removing
<1>2. Under(v) /\ r \in Runs /\ review[v].verdict \in {"merged", "rejected"}
  BY <1>1, ReviewFacts DEF Under, Removing
<1>3. Fail(v) => x = NoReview \/ (x = [at |-> "open", run |-> r])
  BY <1>2, ReviewMoves
<1>4. \A at \in {"mark", "prune"} :
         Move(v, at) => x = [at |-> at, run |-> r, verdict |-> review[v].verdict] /\ x \in Review
  BY <1>1, <1>2, ReviewMoves DEF Removing
<1>5. x \in Review \cup {NoReview} /\ (x.at # "closed" => x.run = r) /\ x.at # "merge"
  BY <1>1, <1>2, <1>3, <1>4 DEF Review, NoReview
<1>6. /\ \A w \in Reviews \ {v} : review'[w] = review[w]
      /\ DOMAIN review' = Reviews /\ review' \in [Reviews -> {review'[w] : w \in Reviews}]
  BY <1>1, <1>2, ReviewMoves DEF Removing
<1>7. \/ x.at \in Removing /\ x.verdict = review[v].verdict
      \/ review[v].verdict = "rejected" /\ x.at \notin Removing /\ tree' = tree
  BY <1>1, <1>3, <1>4 DEF NoReview, Removing
<1>8. /\ tree' \in [Runs -> {"none", "clean", "dirty"}]
      /\ \A q \in Runs \ {r} : tree'[q] = tree[q]
      /\ tree'[r] \in {tree[r], "none"}
      /\ UNCHANGED <<branch, landed, merging, dropped, contested, registryVars>>
  BY <1>1, <1>2, ReviewFacts
<1>9. ReviewTypeOK'
  BY <1>5, <1>6, <1>8, ReviewFacts, ReviewTypes
<1>10. Becomes(v, x)
  BY <1>2, <1>5, <1>6, <1>8 DEF Becomes
<1>11. r \in landed \ contested => review[v].verdict = "merged"
  BY <1>1, <1>2 DEF AgentInv, VerdictInv
<1>12. /\ r \in wrote => /\ r \in dropped \/ tree[r] = "dirty" \/ branch[r] = "ahead" \/ r \in landed
                         /\ tree[r] = "clean" => branch[r] = "ahead"
                         /\ review[v].verdict = "merged" => r \in landed
       /\ review[v].verdict = "rejected" => r \in dropped
  BY <1>1 DEF AgentInv, WorkInv, WorkKept, Removing
<1> HIDE DEF x
<1>13. Judges(v, x)
  BY <1>7, <1>8, <1>11, ReviewFacts DEF Judges
<1>14. Carries(v, x)
  BY <1>2, <1>5, <1>7, <1>8, <1>12 DEF Carries
<1> QED BY <1>9, <1>10, <1>13, <1>14, ReviewKeeps

LEMMA PruneBranchKeeps ==
  ASSUME AgentInv, up, NEW v \in Reviews, PruneBranch(v), UNCHANGED runVars
  PROVE  AgentInv' /\ RowsMove
<1> DEFINE r == review[v].run
           x == review'[v]
<1>1. /\ review[v].at = "prune" /\ Move(v, "mark")
      /\ \/ tree[r] = "none" /\ branch' = [branch EXCEPT ![r] = "none"]
         \/ UNCHANGED branch
      /\ UNCHANGED <<tree, landed, merging, dropped, contested, registryVars>>
  BY DEF PruneBranch
<1>2. Under(v) /\ r \in Runs /\ review[v].verdict \in {"merged", "rejected"}
  BY <1>1, ReviewFacts DEF Under, Removing
<1>3. x = [at |-> "mark", run |-> r, verdict |-> review[v].verdict] /\ x \in Review
  BY <1>1, <1>2, ReviewMoves DEF Removing
<1>4. x.at = "mark" /\ x.run = r /\ x.verdict = review[v].verdict
  BY <1>3
<1>5. /\ \A w \in Reviews \ {v} : review'[w] = review[w]
      /\ DOMAIN review' = Reviews /\ review' \in [Reviews -> {review'[w] : w \in Reviews}]
  BY <1>1, <1>2, ReviewMoves DEF Removing
<1>6. UNCHANGED <<tree, landed, merging, dropped, contested, registryVars>>
  BY <1>1
<1>7. /\ branch' \in [Runs -> {"none", "base", "ahead"}]
      /\ \A q \in Runs \ {r} : branch'[q] = branch[q]
      /\ branch'[r] = branch[r] \/ (tree[r] = "none" /\ branch'[r] = "none")
  <2>1. branch' = [branch EXCEPT ![r] = "none"] =>
           /\ branch' \in [Runs -> {"none", "base", "ahead"}]
           /\ \A q \in Runs \ {r} : branch'[q] = branch[q]
           /\ branch'[r] = "none"
    BY <1>2, ReviewFacts
  <2>2. branch \in [Runs -> {"none", "base", "ahead"}]
    BY ReviewFacts
  <2>3. CASE branch' = branch
    BY <2>2, <2>3
  <2>4. CASE tree[r] = "none" /\ branch' = [branch EXCEPT ![r] = "none"]
    BY <1>1, <2>1, <2>4
  <2> QED BY <1>1, <2>3, <2>4
<1>8. ReviewTypeOK'
  BY <1>3, <1>5, <1>7, <1>6, ReviewFacts, ReviewTypes
<1>9. Becomes(v, x)
  BY <1>2, <1>3, <1>4, <1>5, <1>6 DEF Becomes
<1>10. r \in landed \ contested => review[v].verdict = "merged"
  BY <1>1, <1>2 DEF AgentInv, VerdictInv
<1>11. /\ r \in wrote => /\ r \in dropped \/ tree[r] = "dirty" \/ branch[r] = "ahead" \/ r \in landed
                         /\ tree[r] = "clean" => branch[r] = "ahead"
                         /\ review[v].verdict = "merged" => r \in landed
       /\ review[v].verdict = "rejected" => r \in dropped
  BY <1>1 DEF AgentInv, WorkInv, WorkKept, Removing
<1> HIDE DEF x
<1>12. Judges(v, x)
  BY <1>4, <1>10, <1>6, ReviewFacts DEF Judges, Removing
<1>13. Carries(v, x)
  BY <1>2, <1>4, <1>7, <1>11, <1>6 DEF Carries
<1> QED BY <1>8, <1>9, <1>12, <1>13, ReviewKeeps

\* A review is opened of a run that is over, and is contested when another one is on it.
LEMMA OpenReviewKeeps ==
  ASSUME AgentInv, up, NEW v \in Reviews, NEW r \in Runs, OpenReview(v, r), UNCHANGED runVars
  PROVE  AgentInv' /\ RowsMove
<1> DEFINE x == [at |-> "open", run |-> r]
<1>1. /\ review[v].at = "closed" /\ \A w \in Reviews : review[w].at # "open"
      /\ entry[r].status \in Ended /\ entry[r].merge = "pending"
      /\ review' = [review EXCEPT ![v] = x]
      /\ contested' = IF InFlight(r) = {} THEN contested ELSE contested \cup {r}
      /\ UNCHANGED <<tree, branch, landed, merging, dropped, registryVars>>
  BY DEF OpenReview, Ended
<1>2. /\ review'[v] = x /\ \A w \in Reviews \ {v} : review'[w] = review[w]
      /\ DOMAIN review' = Reviews /\ review' \in [Reviews -> {review'[w] : w \in Reviews}]
  BY <1>1, ReviewFacts
<1>3. x \in Review /\ x.at = "open" /\ x.run = r
  BY DEF Review
<1> HIDE DEF x
<1>4. contested \subseteq contested' /\ contested' \subseteq Runs
  BY <1>1, ReviewFacts
<1>5. \A w \in Reviews : Under(w) /\ review[w].run = r => r \in contested'
  <2> SUFFICES ASSUME NEW w \in Reviews, Under(w), review[w].run = r PROVE r \in contested'
    OBVIOUS
  <2>1. w \in InFlight(r)
    BY <1>1 DEF Under, InFlight
  <2> QED BY <1>1, <2>1
<1>6. ReviewTypeOK'
  BY <1>1, <1>2, <1>3, <1>4, ReviewFacts, ReviewTypes
<1>7. UNCHANGED <<entry, row, landed, merging, wrote, phase>>
  BY <1>1 DEF registryVars, runVars
<1>8. /\ Under(v)' /\ review'[v].run = r /\ ~Under(v)
      /\ \A w \in Reviews \ {v} : (Under(w)' <=> Under(w)) /\ review'[w].run = review[w].run
  BY <1>1, <1>2, <1>3 DEF Under
<1>9. TypeOK'
  BY <1>1, <1>6 DEF AgentInv, TypeOK, RegistryTypeOK, registryVars, runVars
<1>10. RowsInv' /\ RowsMove
  BY <1>1, RowsUntouched DEF runVars
<1>11. phase[r] = "over"
  BY <1>1 DEF AgentInv, PhaseInv
<1>12. PhaseInv'
  <2>1. \A q \in Runs : phase[q] # "over" => \A w \in Reviews : Under(w)' => review'[w].run # q
    BY <1>8, <1>11 DEF AgentInv, PhaseInv
  <2> QED BY <1>7, <2>1 DEF AgentInv, PhaseInv
<1>13. WorkInv'
  <2>1. \A w \in Reviews : review'[w] = review[w] \/ (review'[w].at \notin Removing \cup {"merge"})
    BY <1>2, <1>3 DEF Removing
  <2> QED BY <1>1, <1>7, <2>1 DEF AgentInv, WorkInv, WorkKept
<1>14. VerdictInv'
  <2>1. VerdictMatchesRepo'
    BY <1>4, <1>7 DEF AgentInv, VerdictInv, VerdictMatchesRepo
  <2>2. merging' # NoMerge => merging' \in contested'
    BY <1>4, <1>7 DEF AgentInv, VerdictInv
  <2>3. ASSUME NEW w \in Reviews, NEW u \in Reviews, w # u, Under(w)', Under(u)',
               review'[w].run = review'[u].run
        PROVE  review'[w].run \in contested'
    <3>1. CASE w = v
      BY <1>5, <1>8, <2>3, <3>1
    <3>2. CASE u = v
      BY <1>5, <1>8, <2>3, <3>2
    <3>3. CASE w # v /\ u # v
      BY <1>4, <1>8, <2>3, <3>3 DEF AgentInv, VerdictInv
    <3> QED BY <3>1, <3>2, <3>3
  <2>4. ASSUME NEW q \in landed' \ contested'
        PROVE  /\ \A w \in Reviews : Under(w)' /\ review'[w].run = q =>
                     review'[w].at \in Removing /\ review'[w].verdict = "merged"
               /\ entry'[q].merge = "pending" => \E w \in Reviews : Under(w)' /\ review'[w].run = q
    <3>1. /\ \A w \in Reviews : Under(w) /\ review[w].run = q =>
                review[w].at \in Removing /\ review[w].verdict = "merged"
          /\ entry[q].merge = "pending" => \E w \in Reviews : Under(w) /\ review[w].run = q
      BY <1>4, <1>7 DEF AgentInv, VerdictInv
    <3>2. q # r
      BY <1>1, <1>5, <3>1
    <3> QED BY <1>2, <1>7, <1>8, <3>1, <3>2
  <2>5. ASSUME NEW q \in Runs \ contested', entry'[q].merge = "rejected" \/ row'[q].merge = "rejected"
        PROVE  entry'[q].merge # "pending" /\ \A w \in Reviews : Under(w)' => review'[w].run # q
    <3>1. entry[q].merge # "pending" /\ \A w \in Reviews : Under(w) => review[w].run # q
      BY <1>4, <1>7, <2>5 DEF AgentInv, VerdictInv
    <3> QED BY <1>1, <1>7, <1>8, <3>1
  <2> QED BY <2>1, <2>2, <2>3, <2>4, <2>5 DEF VerdictInv
<1> QED BY <1>9, <1>10, <1>12, <1>13, <1>14 DEF AgentInv

\* The verdict is recorded: the work is where it says, and no other review is on the run
\* unless it is contested.
LEMMA MarkVerdictKeeps ==
  ASSUME AgentInv, up, NEW v \in Reviews, MarkVerdict(v), UNCHANGED runVars
  PROVE  AgentInv' /\ RowsMove
<1> DEFINE r == review[v].run
           verdict == review[v].verdict
<1>1. /\ review[v].at = "mark" /\ SetMergeStatus(r, verdict) /\ Close(v)
      /\ UNCHANGED <<tree, branch, landed, merging, dropped, contested>>
  BY DEF MarkVerdict
<1>2. Under(v) /\ r \in Runs /\ verdict \in {"merged", "rejected"}
  BY <1>1, ReviewFacts DEF Under, Removing
<1>3. /\ review'[v] = NoReview /\ \A w \in Reviews \ {v} : review'[w] = review[w]
      /\ DOMAIN review' = Reviews /\ review' \in [Reviews -> {review'[w] : w \in Reviews}]
  BY <1>1, <1>2, ReviewMoves
<1>4. /\ verdict = "merged" /\ r \in wrote => r \in landed
      /\ r \in landed \ contested => verdict = "merged"
  BY <1>1, <1>2 DEF AgentInv, WorkInv, VerdictInv, Removing
<1>5. phase[r] = "over"
  BY <1>2 DEF AgentInv, PhaseInv
<1> HIDE DEF r, verdict
<1>6. /\ RegistryTypeOK' /\ Rewritten(entry')
      /\ \A q \in Runs \ {r} : entry'[q] = entry[q]
      /\ entry'[r] = IF entry[r] = Absent THEN Absent ELSE [entry[r] EXCEPT !.merge = verdict]
      /\ UNCHANGED <<order, prompts, left>>
  BY <1>1, <1>2, SetMergeStatusEffect DEF AgentInv, TypeOK
<1>7. UNCHANGED <<up, phase, wrote, quits, aborted, tree, branch, landed, merging, dropped, contested>>
  BY <1>1 DEF runVars
<1>8. \/ entry'[r] = Absent /\ entry[r] = Absent
      \/ entry[r] # Absent /\ entry'[r].status = entry[r].status /\ entry'[r].merge = verdict
  <2>1. entry[r] # Absent => entry[r] \in AgentRun
    BY <1>2, RegistryFacts DEF AgentInv, TypeOK, Rows
  <2> QED BY <1>6, <2>1 DEF AgentRun
<1>9. \A q \in Runs : Evolves(q)
  BY <1>6, <1>8 DEF Evolves
<1>10. RowsInv' /\ RowsMove
  BY <1>6, <1>7, <1>9, RowsRewritten
<1>11. \A q \in Runs : row'[q] = row[q] \/ row'[q] = entry'[q]
  BY <1>6 DEF Rewritten
<1>12. ReviewTypeOK'
  BY <1>3, <1>7, ReviewFacts, ReviewTypes, <1>2
<1>13. TypeOK'
  BY <1>6, <1>7, <1>12 DEF AgentInv, TypeOK
<1>14. ~Under(v)' /\ \A w \in Reviews : Under(w)' => w # v /\ Under(w) /\ review'[w] = review[w]
  BY <1>3 DEF Under, NoReview
<1>15. entry'[r].merge \in {"none", verdict}
  BY <1>8 DEF Absent
<1>16. PhaseInv'
  <2> SUFFICES ASSUME NEW q \in Runs, phase[q] # "over"
               PROVE  /\ phase[q] = "idle" => entry'[q] = Absent /\ row'[q] = Absent /\ q \notin wrote
                      /\ entry'[q].status \notin Ended
                      /\ entry'[q].merge \in {"none", "pending"}
                      /\ row'[q].merge \in {"none", "pending"}
                      /\ q \notin landed
                      /\ q # merging
                      /\ \A w \in Reviews : Under(w)' => review'[w].run # q
    BY <1>7 DEF PhaseInv
  <2>1. entry'[q] = entry[q] /\ (row'[q] = row[q] \/ row'[q] = entry[q])
    BY <1>5, <1>6, <1>11
  <2> QED BY <1>14, <2>1 DEF AgentInv, PhaseInv
<1>17. WorkInv'
  <2>1. \A w \in Reviews : review'[w].at \in Removing \cup {"merge"} => review'[w] = review[w]
    BY <1>3 DEF Removing, NoReview
  <2> QED BY <1>7, <2>1 DEF AgentInv, WorkInv, WorkKept
<1>18. VerdictInv'
  <2>1. VerdictMatchesRepo'
    <3> SUFFICES ASSUME NEW q \in Runs, NEW rec \in {entry'[q], row'[q]}
                 PROVE  /\ rec.merge = "merged" /\ q \in wrote => q \in landed
                        /\ rec.merge = "rejected" /\ q \in landed => q \in contested
      BY <1>7 DEF VerdictMatchesRepo
    <3>1. \A old \in {entry[q], row[q]} :
             /\ old.merge = "merged" /\ q \in wrote => q \in landed
             /\ old.merge = "rejected" /\ q \in landed => q \in contested
      BY DEF AgentInv, VerdictInv, VerdictMatchesRepo
    <3>2. CASE q = r /\ rec = entry'[q]
      BY <1>2, <1>4, <1>15, <3>2
    <3>3. CASE rec = entry[q] \/ rec = row[q]
      BY <3>1, <3>3
    <3> QED BY <1>6, <1>11, <3>2, <3>3
  <2>2. merging' # NoMerge => merging' \in contested'
    BY <1>7 DEF AgentInv, VerdictInv
  <2>3. \A w, u \in Reviews : w # u /\ Under(w)' /\ Under(u)' /\ review'[w].run = review'[u].run =>
            review'[w].run \in contested'
    BY <1>7, <1>14 DEF AgentInv, VerdictInv
  <2>4. ASSUME NEW q \in landed' \ contested'
        PROVE  /\ \A w \in Reviews : Under(w)' /\ review'[w].run = q =>
                     review'[w].at \in Removing /\ review'[w].verdict = "merged"
               /\ entry'[q].merge = "pending" => \E w \in Reviews : Under(w)' /\ review'[w].run = q
    <3>1. /\ \A w \in Reviews : Under(w) /\ review[w].run = q =>
                review[w].at \in Removing /\ review[w].verdict = "merged"
          /\ entry[q].merge = "pending" => \E w \in Reviews : Under(w) /\ review[w].run = q
      BY <1>7 DEF AgentInv, VerdictInv
    <3>2. q = r => entry'[q].merge # "pending"
      BY <1>2, <1>15
    <3>3. q # r => \A w \in Reviews : review[w].run = q => w # v
      BY DEF r
    <3>4. q \in Runs
      BY <1>7, ReviewFacts
    <3>5. \A w \in Reviews \ {v} : (Under(w)' <=> Under(w)) /\ review'[w] = review[w]
      BY <1>3 DEF Under
    <3> QED BY <1>6, <1>14, <3>1, <3>2, <3>3, <3>4, <3>5
  <2>5. ASSUME NEW q \in Runs \ contested', entry'[q].merge = "rejected" \/ row'[q].merge = "rejected"
        PROVE  entry'[q].merge # "pending" /\ \A w \in Reviews : Under(w)' => review'[w].run # q
    <3>1. CASE q = r
      <4>1. \A w \in Reviews : Under(w) /\ review[w].run = q => w = v
        BY <1>2, <1>7, <2>5, <3>1 DEF AgentInv, VerdictInv, r
      <4> QED BY <1>2, <1>14, <1>15, <3>1, <4>1
    <3>2. CASE q # r
      <4>1. entry[q].merge = "rejected" \/ row[q].merge = "rejected"
        BY <1>6, <1>11, <2>5, <3>2
      <4>2. entry[q].merge # "pending" /\ \A w \in Reviews : Under(w) => review[w].run # q
        BY <1>7, <2>5, <4>1 DEF AgentInv, VerdictInv
      <4> QED BY <1>6, <1>14, <3>2, <4>2
    <3> QED BY <3>1, <3>2
  <2> QED BY <2>1, <2>2, <2>3, <2>4, <2>5 DEF VerdictInv
<1> QED BY <1>10, <1>13, <1>16, <1>17, <1>18 DEF AgentInv

\* A merge in conflict is of a contested run that is over.
LEMMA ConcludeMergeKeeps ==
  ASSUME AgentInv, ConcludeMerge, UNCHANGED runVars
  PROVE  AgentInv' /\ RowsMove
<1>1. /\ merging # NoMerge /\ merging' = NoMerge
      /\ landed' \in {landed, landed \cup {merging}}
      /\ UNCHANGED <<tree, branch, review, dropped, contested, registryVars>>
  BY DEF ConcludeMerge
<1>2. merging \in Runs /\ merging \in contested /\ phase[merging] = "over"
  <2>1. merging \in Runs /\ merging \in contested
    BY <1>1, ReviewFacts DEF AgentInv, VerdictInv
  <2> QED BY <2>1 DEF AgentInv, PhaseInv
<1>3. landed \subseteq landed' /\ landed' \subseteq landed \cup {merging} /\ landed' \subseteq Runs
  BY <1>1, <1>2, ReviewFacts
<1>4. UNCHANGED <<entry, row, wrote, phase, up>>
  BY <1>1 DEF registryVars, runVars
<1>5. TypeOK'
  BY <1>1, <1>3 DEF AgentInv, TypeOK, RegistryTypeOK, ReviewTypeOK, registryVars, runVars
<1>6. RowsInv' /\ RowsMove
  BY <1>1, <1>4, RowsUntouched
<1>7. PhaseInv'
  BY <1>1, <1>2, <1>3, <1>4, ReviewAssumption DEF AgentInv, PhaseInv, Under
<1>8. WorkInv'
  BY <1>1, <1>3, <1>4 DEF AgentInv, WorkInv, WorkKept
<1>9. VerdictInv'
  BY <1>1, <1>2, <1>3, <1>4 DEF AgentInv, VerdictInv, VerdictMatchesRepo, Under
<1> QED BY <1>5, <1>6, <1>7, <1>8, <1>9 DEF AgentInv

-----------------------------------------------------------------------------
(* The start of a run, and the user at the list of runs                    *)

\* A run is recorded, with a worktree or without.
LEMMA StartKeeps ==
  ASSUME AgentInv, up, NEW r \in Runs, Start(r) PROVE AgentInv' /\ RowsMove
<1>1. PICK merge \in {"none", "pending"} : RecordStart(r, merge) /\ (CreateWorktree(r) \/ UNCHANGED reviewVars)
  BY DEF Start, BootstrapWorktreeOrSkip
<1>2. /\ phase[r] = "idle" /\ phase' = [phase EXCEPT ![r] = "started"]
      /\ UNCHANGED <<up, aborted, wrote, quits>>
  BY DEF Start, Goto
<1>3. entry[r] = Absent /\ row[r] = Absent /\ r \notin wrote
  BY <1>2 DEF AgentInv, PhaseInv
<1>4. /\ RegistryTypeOK' /\ Rewritten(entry')
      /\ entry'[r] = [status |-> "running", merge |-> merge]
      /\ \A q \in Runs \ {r} : entry'[q] \in {entry[q], Absent}
      /\ left' = left \cup {q \in Runs : row[q].status = "running" /\ entry[q] # entry'[q]}
      /\ prompts' = prompts
  BY <1>1, <1>3, RecordStartEffect DEF AgentInv, TypeOK
<1>5. entry'[r].status = "running" /\ entry'[r].merge = merge
  BY <1>4
<1>6. \A q \in Runs : Evolves(q)
  <2>1. Evolves(r)
    BY <1>3, <1>5 DEF Evolves
  <2>2. ASSUME NEW q \in Runs \ {r} PROVE Evolves(q)
    BY <1>4 DEF Evolves
  <2> QED BY <2>1, <2>2
<1>7. RowsInv' /\ RowsMove
  <2>1. left \subseteq left'
    BY <1>4
  <2> QED BY <1>2, <1>4, <1>6, <2>1, RowsRewritten
<1>8. MergeKept
  <2>1. \A q \in Runs \ {r} : entry'[q].merge \in {entry[q].merge, "none"}
    BY <1>4 DEF Absent
  <2>2. \A q \in Runs : row'[q] \in {row[q], entry'[q]}
    BY <1>4 DEF Rewritten
  <2> QED BY <1>2, <1>5, <2>1, <2>2 DEF MergeKept
<1>9. /\ UNCHANGED <<landed, merging, review, dropped, contested>>
      /\ \A q \in Runs \ {r} : tree'[q] = tree[q] /\ branch'[q] = branch[q]
      /\ ReviewTypeOK'
  <2>1. CASE CreateWorktree(r)
    BY <2>1 DEF CreateWorktree, AgentInv, TypeOK, ReviewTypeOK
  <2>2. CASE UNCHANGED reviewVars
    BY <2>2, SameReviews DEF reviewVars
  <2> QED BY <1>1, <2>1, <2>2
<1>10. TypeOK'
  BY <1>2, <1>4, <1>9 DEF AgentInv, TypeOK, Phases
<1>11. phase'[r] = "started" /\ \A q \in Runs \ {r} : phase'[q] = phase[q]
  BY <1>2 DEF AgentInv, TypeOK
<1>12. PhaseInv'
  <2>1. ASSUME NEW q \in Runs \ {r}
        PROVE  /\ phase[q] = "idle" => entry'[q] = Absent /\ row'[q] = Absent
               /\ phase[q] # "over" => entry'[q].status \notin Ended
    <3>1. phase[q] = "idle" => entry[q] = Absent /\ row[q] = Absent
      BY DEF AgentInv, PhaseInv
    <3>2. phase[q] # "over" => entry[q].status \notin Ended
      BY DEF AgentInv, PhaseInv
    <3>3. row'[q] \in {row[q], entry'[q]}
      BY <1>4 DEF Rewritten
    <3> QED BY <1>4, <3>1, <3>2, <3>3 DEF Absent, Ended
  <2>2. \A q \in Runs :
            /\ phase'[q] = "idle" => phase[q] = "idle" /\ entry'[q] = Absent /\ row'[q] = Absent
            /\ phase'[q] # "over" => phase[q] # "over" /\ entry'[q].status \notin Ended
    BY <1>2, <1>5, <1>11, <2>1 DEF Ended
  <2> QED BY <1>2, <1>8, <1>9, <2>2, PhasesKept
<1>13. VerdictInv'
  BY <1>2, <1>8, <1>9, VerdictsUntouched
<1>14. WorkInv'
  <2>1. wrote' = wrote /\ \A q \in wrote : q # r /\ tree'[q] = tree[q] /\ branch'[q] = branch[q]
    BY <1>2, <1>3, <1>9, ReviewFacts
  <2> QED BY <1>9, <2>1 DEF AgentInv, WorkInv, WorkKept
<1> QED BY <1>7, <1>10, <1>12, <1>13, <1>14 DEF AgentInv

\* A step that leaves the reviews and the runs alone.
LEMMA RegistryStepKeeps ==
  ASSUME AgentInv, UNCHANGED <<reviewVars, phase, aborted, wrote, quits>>, up' \in BOOLEAN,
         RegistryTypeOK', RowsInv', RowsMove, MergeKept,
         \A r \in Runs : phase[r] = "idle" => entry'[r] = Absent /\ row'[r] = Absent,
         \A r \in Runs : phase[r] # "over" => entry'[r].status \notin Ended
  PROVE  AgentInv' /\ RowsMove
<1>1. ReviewTypeOK'
  BY SameReviews
<1>2. TypeOK'
  BY <1>1 DEF AgentInv, TypeOK
<1>3. WorkInv'
  BY WorkUntouched
<1>4. VerdictInv'
  BY VerdictsUntouched DEF reviewVars
<1>5. PhaseInv'
  BY PhasesKept DEF reviewVars
<1> QED BY <1>2, <1>3, <1>4, <1>5 DEF AgentInv

LEMMA ClearKeeps ==
  ASSUME AgentInv, up, Clear, UNCHANGED reviewVars, UNCHANGED runVars PROVE AgentInv' /\ RowsMove
<1>1. /\ RegistryTypeOK' /\ Rewritten(entry')
      /\ \A r \in Runs : entry'[r] = Absent
      /\ left' = left \cup {r \in Runs : row[r].status = "running" /\ entry[r] # Absent}
      /\ prompts' = prompts
  BY ClearEffect DEF AgentInv, TypeOK
<1>2. UNCHANGED <<reviewVars, phase, aborted, wrote, quits, up>>
  BY DEF runVars
<1>3. \A r \in Runs : Evolves(r)
  BY <1>1 DEF Evolves
<1>4. RowsInv' /\ RowsMove
  <2>1. left \subseteq left'
    BY <1>1
  <2> QED BY <1>1, <1>2, <1>3, <2>1, RowsRewritten
<1>5. \A r \in Runs : row'[r] = row[r]
  BY <1>1 DEF Rewritten
<1>6. MergeKept
  BY <1>1, <1>5 DEF MergeKept, Absent
<1>7. \A r \in Runs : phase[r] = "idle" => entry'[r] = Absent /\ row'[r] = Absent
  BY <1>1, <1>5 DEF AgentInv, PhaseInv
<1>8. \A r \in Runs : phase[r] # "over" => entry'[r].status \notin Ended
  BY <1>1 DEF Absent, Ended
<1>9. up' \in BOOLEAN
  BY <1>2 DEF AgentInv, TypeOK
<1> QED BY <1>1, <1>2, <1>4, <1>6, <1>7, <1>8, <1>9, RegistryStepKeeps

\* A row that may have been marked failed in a step that changes no entry.
LEMMA ClosedRows ==
  ASSUME AgentInv, entry' = entry, row' \in [Runs -> Rows],
         \A r \in Runs : row'[r] = row[r] \/ (row[r].status = "running"
                                              /\ row'[r] = [row[r] EXCEPT !.status = "failed"])
  PROVE  /\ RowsMove /\ MergeKept
         /\ \A r \in Runs : phase[r] = "idle" => entry'[r] = Absent /\ row'[r] = Absent
         /\ \A r \in Runs : phase[r] # "over" => entry'[r].status \notin Ended
         /\ \A r \in Runs : row'[r] = row[r] \/ (row[r].status = "running" /\ row'[r].status = "failed")
<1>1. ASSUME NEW r \in Runs
      PROVE  /\ row'[r].merge = row[r].merge
             /\ row'[r] = row[r] \/ (row[r].status = "running" /\ row'[r].status = "failed")
  <2>1. CASE row'[r] = row[r]
    BY <2>1
  <2>2. CASE row[r].status = "running" /\ row'[r] = [row[r] EXCEPT !.status = "failed"]
    <3>1. row[r] \in AgentRun
      BY <2>2, RegistryFacts, Statuses DEF AgentInv, TypeOK, Rows, Absent
    <3> QED BY <2>2, <3>1 DEF AgentRun
  <2> QED BY <2>1, <2>2
<1>2. RowsMove
  BY <1>1 DEF RowsMove, Lifecycle!Moves
<1>3. MergeKept
  BY <1>1 DEF MergeKept
<1>4. \A r \in Runs : phase[r] = "idle" => entry'[r] = Absent /\ row'[r] = Absent
  BY <1>1 DEF AgentInv, PhaseInv, Absent
<1>5. \A r \in Runs : phase[r] # "over" => entry'[r].status \notin Ended
  BY DEF AgentInv, PhaseInv
<1> QED BY <1>1, <1>2, <1>3, <1>4, <1>5

\* What is written of a row that is closed.
LEMMA FailedRows ==
  ASSUME RegistryTypeOK, NEW runs
  PROVE  /\ Failed(runs) \in [Runs -> Rows]
         /\ \A r \in Runs : /\ Failed(runs)[r] = [row[r] EXCEPT !.status = "failed"]
                            /\ Failed(runs)[r].status = "failed"
<1>1. \A e \in Rows : /\ [e EXCEPT !.status = "failed"] \in Rows
                      /\ [e EXCEPT !.status = "failed"].status = "failed"
  BY DEF Rows, AgentRun, Absent
<1>2. row \in [Runs -> Rows]
  BY RegistryFacts
<1> QED BY <1>1, <1>2 DEF Failed

LEMMA DiscardKeeps ==
  ASSUME AgentInv, up, NEW r \in Runs, Discard(r), UNCHANGED reviewVars, UNCHANGED runVars
  PROVE  AgentInv' /\ RowsMove
<1>1. /\ r \in prompts /\ Write({r}, Failed({r}))
      /\ prompts' = IF faults' = faults THEN prompts \ {r} ELSE prompts
      /\ UNCHANGED <<order, entry, left>>
  BY DEF Discard
<1>2. UNCHANGED <<reviewVars, phase, aborted, wrote, quits, up>>
  BY DEF runVars
<1>3. entry[r] = Absent /\ row[r].status = "running"
  BY <1>1 DEF AgentInv, RowsInv
<1> DEFINE as == Failed({r})
<1>4. as \in [Runs -> Rows] /\ as[r] = [row[r] EXCEPT !.status = "failed"]
  BY FailedRows DEF AgentInv, TypeOK
<1> HIDE DEF as
<1>5. /\ row' \in [Runs -> Rows] /\ missed' \subseteq Runs /\ faults' \in 0 .. MaxFaults
      /\ \A q \in Runs \ {r} :
            row'[q] = row[q] /\ (q \in missed /\ row[q].status = "running" => q \in missed')
      /\ \/ row'[r] = as[r]
         \/ row'[r] = row[r] /\ r \in missed' /\ faults' # faults
      /\ faults' # faults => row'[r] = row[r]
  <2>1. {r} \in SUBSET Runs /\ Write({r}, as) /\ RegistryTypeOK
    BY <1>1 DEF as, AgentInv, TypeOK
  <2>2. /\ row' \in [Runs -> Rows] /\ missed' \subseteq Runs /\ faults' \in 0 .. MaxFaults
        /\ \A q \in Runs \ {r} :
              row'[q] = row[q] /\ (q \in missed /\ row[q].status = "running" => q \in missed')
        /\ \A q \in {r} :
              \/ row'[q] = as[q]
              \/ row'[q] = row[q] /\ (row[q].status = "running" => q \in missed') /\ faults' # faults
        /\ faults' # faults => \E q \in {r} : row'[q] = row[q]
    BY <1>4, <2>1, WriteEffect
  <2> QED BY <1>3, <2>2
<1>6. \A q \in Runs : row'[q] = row[q] \/ (row[q].status = "running"
                                             /\ row'[q] = [row[q] EXCEPT !.status = "failed"])
  BY <1>3, <1>4, <1>5
<1>7. /\ RowsMove /\ MergeKept
      /\ \A q \in Runs : phase[q] = "idle" => entry'[q] = Absent /\ row'[q] = Absent
      /\ \A q \in Runs : phase[q] # "over" => entry'[q].status \notin Ended
      /\ \A q \in Runs : row'[q] = row[q] \/ (row[q].status = "running" /\ row'[q].status = "failed")
  BY <1>1, <1>5, <1>6, ClosedRows
<1>8. RegistryTypeOK'
  BY <1>1, <1>5 DEF AgentInv, TypeOK, RegistryTypeOK, Rows
<1>9. RowsInv'
  <2>1. \A q \in prompts' : q \in prompts /\ (q = r => row'[q] = row[q])
    BY <1>1, <1>3, <1>4, <1>5
  <2>2. \A q \in Runs : row'[q].status \in Ended => entry'[q] = Absent \/ entry'[q].status = row'[q].status
    BY <1>1, <1>3, <1>5 DEF AgentInv, RowsInv
  <2>3. \A q \in prompts' : entry'[q] = Absent /\ row'[q].status = "running"
    BY <1>1, <1>3, <1>5, <2>1, RegistryFacts DEF AgentInv, TypeOK, RowsInv
  <2>4. ASSUME NEW q \in Runs, row'[q].status = "running"
        PROVE  entry'[q].status = "running" \/ q \in prompts' \cup left' \cup missed'
    <3>1. row[q].status = "running"
      BY <1>7, <2>4
    <3>2. entry[q].status = "running" \/ q \in prompts \cup left \cup missed
      BY <3>1 DEF AgentInv, RowsInv, RunningRowExplained
    <3>3. CASE q = r
      <4>1. row'[r] = row[r] /\ r \in missed'
        BY <1>4, <1>5, <2>4, <3>3, FailedRows DEF AgentInv, TypeOK
      <4> QED BY <3>3, <4>1
    <3>4. CASE q # r
      BY <1>1, <1>5, <3>1, <3>2, <3>4
    <3> QED BY <3>3, <3>4
  <2> QED BY <1>2, <2>2, <2>3, <2>4 DEF RowsInv, RunningRowExplained
<1>10. up' \in BOOLEAN
  BY <1>2 DEF AgentInv, TypeOK
<1> QED BY <1>2, <1>7, <1>8, <1>9, <1>10, RegistryStepKeeps

LEMMA ResumeKeeps ==
  ASSUME AgentInv, up, NEW r \in Runs, Resume(r), UNCHANGED reviewVars, UNCHANGED runVars
  PROVE  AgentInv' /\ RowsMove
<1>1. /\ r \in prompts /\ prompts' = prompts \ {r} /\ left' = left \cup {r}
      /\ UNCHANGED <<order, entry, row, missed, faults>>
  BY DEF Resume
<1>2. UNCHANGED <<reviewVars, phase, aborted, wrote, quits, up>>
  BY DEF runVars
<1>3. RegistryTypeOK'
  BY <1>1 DEF AgentInv, TypeOK, RegistryTypeOK
<1>4. RowsInv' /\ RowsMove /\ MergeKept
  BY <1>1, <1>2 DEF AgentInv, RowsInv, RunningRowExplained, RowsMove, MergeKept
<1>5. \A q \in Runs : phase[q] = "idle" => entry'[q] = Absent /\ row'[q] = Absent
  BY <1>1 DEF AgentInv, PhaseInv
<1>6. \A q \in Runs : phase[q] # "over" => entry'[q].status \notin Ended
  BY <1>1 DEF AgentInv, PhaseInv
<1>7. up' \in BOOLEAN
  BY <1>2 DEF AgentInv, TypeOK
<1> QED BY <1>2, <1>3, <1>4, <1>5, <1>6, <1>7, RegistryStepKeeps

-----------------------------------------------------------------------------
(* The process ends and starts                                             *)

LEMMA QuitKeeps ==
  ASSUME AgentInv, Quit PROVE AgentInv' /\ RowsMove
<1>1. /\ quits < MaxQuits /\ quits' = quits + 1 /\ up' = FALSE /\ aborted' = {}
      /\ phase' = [r \in Runs |-> IF phase[r] = "idle" THEN "idle" ELSE "over"]
      /\ order' = <<>> /\ entry' = [r \in Runs |-> Absent] /\ prompts' = {}
      /\ UNCHANGED <<row, missed, left, faults>>
      /\ review' = [v \in Reviews |-> NoReview]
      /\ UNCHANGED <<tree, branch, landed, merging, dropped, contested, wrote>>
  BY DEF Quit, Forget, ReviewsCut
<1>2. \A r \in Runs : /\ entry'[r] = Absent /\ entry'[r].status = "none" /\ entry'[r].merge = "none"
                      /\ phase'[r] = IF phase[r] = "idle" THEN "idle" ELSE "over"
  BY <1>1 DEF Absent
<1>3. \A v \in Reviews : ~Under(v)' /\ review'[v].at = "closed"
  BY <1>1 DEF Under, NoReview
<1>4. TypeOK'
  <2>1. order' \in Seq(Runs) /\ Len(order') = 0 /\ DOMAIN order' = {}
    BY <1>1
  <2>2. IsInjective(order') /\ ToSet(order') = {}
    BY <2>1 DEF IsInjective, ToSet
  <2>3. RegistryTypeOK'
    BY <1>1, <1>2, <2>1, <2>2, RegistryAssumption DEF AgentInv, TypeOK, RegistryTypeOK
  <2>4. ReviewTypeOK'
    BY <1>1 DEF AgentInv, TypeOK, ReviewTypeOK
  <2>5. phase' \in [Runs -> Phases]
    BY <1>1 DEF Phases
  <2>6. quits' \in 0 .. MaxQuits
    BY <1>1, RunsAssumption DEF AgentInv, TypeOK
  <2> QED BY <1>1, <2>3, <2>4, <2>5, <2>6 DEF AgentInv, TypeOK
<1>5. PhaseInv'
  <2> SUFFICES ASSUME NEW r \in Runs, phase'[r] # "over"
               PROVE  /\ phase'[r] = "idle" => entry'[r] = Absent /\ row'[r] = Absent /\ r \notin wrote'
                      /\ entry'[r].status \notin Ended
                      /\ entry'[r].merge \in {"none", "pending"}
                      /\ row'[r].merge \in {"none", "pending"}
                      /\ r \notin landed'
                      /\ r # merging'
                      /\ \A v \in Reviews : Under(v)' => review'[v].run # r
    BY DEF PhaseInv
  <2>1. phase[r] = "idle"
    BY <1>2
  <2> QED BY <1>1, <1>2, <1>3, <2>1 DEF AgentInv, PhaseInv, Ended
<1>6. RowsInv'
  BY <1>1, <1>2 DEF RowsInv, RunningRowExplained
<1>7. WorkInv'
  BY <1>1, <1>3 DEF AgentInv, WorkInv, WorkKept, Removing
<1>8. VerdictInv'
  <2>1. \A r \in Runs : \A rec \in {entry'[r], row'[r]} :
            rec = row[r] \/ (rec.merge # "merged" /\ rec.merge # "rejected")
    BY <1>1, <1>2
  <2>2. VerdictMatchesRepo'
    BY <1>1, <2>1 DEF AgentInv, VerdictInv, VerdictMatchesRepo
  <2>3. \A r \in Runs : entry'[r].merge # "pending" /\ entry'[r].merge # "rejected"
    BY <1>2
  <2>4. \A r \in landed' \ contested' : r \in Runs
    BY <1>1, ReviewFacts
  <2>5. merging' # NoMerge => merging' \in contested'
    BY <1>1 DEF AgentInv, VerdictInv
  <2> QED BY <1>1, <1>3, <2>2, <2>3, <2>4, <2>5 DEF VerdictInv
<1>9. RowsMove
  BY <1>1 DEF RowsMove
<1> QED BY <1>4, <1>5, <1>6, <1>7, <1>8, <1>9 DEF AgentInv

\* The running rows are put before the user, closed, or given up.
LEMMA BootKeeps ==
  ASSUME AgentInv, Boot PROVE AgentInv' /\ RowsMove
<1> DEFINE onDisk  == {r \in OnDisk : row[r].merge # "none"}
           running == {r \in Runs : row[r].status = "running"}
           closed  == running \ onDisk
<1>1. /\ ~up /\ up' = TRUE /\ left' = {}
      /\ UNCHANGED <<order, entry>>
      /\ UNCHANGED <<reviewVars, phase, aborted, wrote, quits>>
      /\ \/ prompts' = running \cap onDisk /\ Write(closed, Failed(closed))
         \/ /\ faults < MaxFaults /\ faults' = faults + 1 /\ missed' = missed \cup running
            /\ UNCHANGED <<prompts, row>>
  BY DEF Boot, HydrateRunRegistryFromStore
<1> HIDE DEF onDisk
<1>2. \A r \in Runs : entry[r] = Absent
  BY <1>1 DEF AgentInv, RowsInv
<1>3. ASSUME prompts' = running \cap onDisk, Write(closed, Failed(closed))
      PROVE  AgentInv' /\ RowsMove
  <2>1. closed \in SUBSET Runs /\ Failed(closed) \in [Runs -> Rows] /\ RegistryTypeOK
    BY FailedRows DEF AgentInv, TypeOK
  <2>2. /\ row' \in [Runs -> Rows] /\ missed' \subseteq Runs /\ faults' \in 0 .. MaxFaults
        /\ \A r \in Runs \ closed :
              row'[r] = row[r] /\ (r \in missed /\ row[r].status = "running" => r \in missed')
        /\ \A r \in closed :
              \/ row'[r] = Failed(closed)[r]
              \/ row'[r] = row[r] /\ (row[r].status = "running" => r \in missed')
    <3> HIDE DEF closed
    <3> QED BY <1>3, <2>1, WriteEffect
  <2>3. \A r \in Runs : Failed(closed)[r] = [row[r] EXCEPT !.status = "failed"]
    BY <2>1, FailedRows
  <2>4. \A r \in Runs : row'[r] = row[r] \/ (row[r].status = "running"
                                               /\ row'[r] = [row[r] EXCEPT !.status = "failed"])
    BY <2>2, <2>3
  <2>5. /\ RowsMove /\ MergeKept
        /\ \A r \in Runs : phase[r] = "idle" => entry'[r] = Absent /\ row'[r] = Absent
        /\ \A r \in Runs : phase[r] # "over" => entry'[r].status \notin Ended
        /\ \A r \in Runs : row'[r] = row[r] \/ (row[r].status = "running" /\ row'[r].status = "failed")
    BY <1>1, <2>2, <2>4, ClosedRows
  <2>6. RegistryTypeOK'
    BY <1>1, <1>3, <2>2 DEF AgentInv, TypeOK, RegistryTypeOK, Rows
  <2>7. RowsInv'
    <3>1. \A r \in prompts' : r \in Runs /\ row'[r].status = "running"
      BY <1>3, <2>2
    <3>2. ASSUME NEW r \in Runs, row'[r].status = "running" PROVE r \in prompts' \cup missed'
      <4>1. row[r].status = "running"
        BY <2>5, <3>2
      <4>2. r \in closed => r \in missed'
        BY <2>1, <2>2, <3>2, <4>1, FailedRows
      <4> QED BY <1>3, <4>1, <4>2
    <3> QED BY <1>1, <1>2, <3>1, <3>2 DEF RowsInv, RunningRowExplained
  <2> HIDE DEF running, closed
  <2> QED BY <1>1, <2>5, <2>6, <2>7, RegistryStepKeeps
<1>4. ASSUME faults < MaxFaults, faults' = faults + 1, missed' = missed \cup running,
             UNCHANGED <<prompts, row>>
      PROVE  AgentInv' /\ RowsMove
  <2>1. RegistryTypeOK'
    BY <1>1, <1>4, RegistryAssumption DEF AgentInv, TypeOK, RegistryTypeOK
  <2>2. RowsInv'
    BY <1>1, <1>2, <1>4 DEF AgentInv, RowsInv, RunningRowExplained
  <2>3. RowsMove /\ MergeKept
    BY <1>1, <1>4 DEF RowsMove, MergeKept
  <2>4. /\ \A r \in Runs : phase[r] = "idle" => entry'[r] = Absent /\ row'[r] = Absent
        /\ \A r \in Runs : phase[r] # "over" => entry'[r].status \notin Ended
    BY <1>1, <1>4 DEF AgentInv, PhaseInv
  <2> HIDE DEF running
  <2> QED BY <1>1, <2>1, <2>2, <2>3, <2>4, RegistryStepKeeps
<1> QED BY <1>1, <1>3, <1>4

-----------------------------------------------------------------------------
(* Every step                                                              *)

LEMMA StutterKeeps ==
  ASSUME AgentInv, UNCHANGED vars PROVE AgentInv' /\ RowsMove
<1>1. UNCHANGED <<registryVars, reviewVars, up, phase, aborted, wrote, quits>>
  BY DEF vars, runVars
<1>2. RegistryTypeOK' /\ MergeKept
  BY <1>1, SameRegistry
<1>3. RowsInv' /\ RowsMove
  BY <1>1, RowsUntouched
<1>4. /\ \A r \in Runs : phase[r] = "idle" => entry'[r] = Absent /\ row'[r] = Absent
      /\ \A r \in Runs : phase[r] # "over" => entry'[r].status \notin Ended
  BY <1>1 DEF AgentInv, PhaseInv, registryVars
<1>5. up' \in BOOLEAN
  BY <1>1 DEF AgentInv, TypeOK
<1> QED BY <1>1, <1>2, <1>3, <1>4, <1>5, RegistryStepKeeps

LEMMA RunStepKeeps ==
  ASSUME AgentInv, up, NEW r \in Runs, RunStep(r) PROVE AgentInv' /\ RowsMove
<1>1. CASE Start(r)
  BY <1>1, StartKeeps
<1>2. CASE Launch(r)
  BY <1>2, LaunchKeeps
<1>3. CASE Work(r)
  BY <1>3, WorkKeeps
<1>4. CASE WorkerResult(r)
  BY <1>4, SettleKeeps DEF WorkerResult
<1>5. CASE WorkerFails(r)
  BY <1>5, WorkerFailsKeeps
<1>6. CASE InlineEnds(r)
  BY <1>6, SettleKeeps DEF InlineEnds
<1>7. CASE Abort(r)
  BY <1>7, AbortKeeps
<1> QED BY <1>1, <1>2, <1>3, <1>4, <1>5, <1>6, <1>7 DEF RunStep

LEMMA UserStepKeeps ==
  ASSUME AgentInv, up, UserStep, UNCHANGED runVars PROVE AgentInv' /\ RowsMove
<1>1. CASE Clear /\ UNCHANGED reviewVars
  BY <1>1, ClearKeeps
<1>2. ASSUME NEW r \in Runs, Discard(r) \/ Resume(r), UNCHANGED reviewVars PROVE AgentInv' /\ RowsMove
  BY <1>2, DiscardKeeps, ResumeKeeps
<1>3. ASSUME NEW v \in Reviews, NEW r \in Runs, OpenReview(v, r) PROVE AgentInv' /\ RowsMove
  BY <1>3, OpenReviewKeeps
<1>4. ASSUME NEW v \in Reviews, CloseReview(v) \/ Accept(v) \/ Reject(v) PROVE AgentInv' /\ RowsMove
  BY <1>4, CloseReviewKeeps, AcceptKeeps, RejectKeeps
<1> QED BY <1>1, <1>2, <1>3, <1>4 DEF UserStep

LEMMA ReviewStepKeeps ==
  ASSUME AgentInv, up, NEW v \in Reviews, ReviewStep(v), UNCHANGED runVars PROVE AgentInv' /\ RowsMove
<1>1. CASE CommitWorktree(v)
  BY <1>1, CommitWorktreeKeeps
<1>2. CASE Merge(v)
  BY <1>2, MergeKeeps
<1>3. CASE RemoveWorktree(v)
  BY <1>3, RemoveWorktreeKeeps
<1>4. CASE PruneBranch(v)
  BY <1>4, PruneBranchKeeps
<1>5. CASE MarkVerdict(v)
  BY <1>5, MarkVerdictKeeps
<1> QED BY <1>1, <1>2, <1>3, <1>4, <1>5 DEF ReviewStep

LEMMA NextKeeps ==
  ASSUME AgentInv, [Next]_vars PROVE AgentInv' /\ RowsMove
<1>1. ASSUME up, NEW r \in Runs, RunStep(r) PROVE AgentInv' /\ RowsMove
  BY <1>1, RunStepKeeps
<1>2. CASE up /\ UserStep /\ UNCHANGED runVars
  BY <1>2, UserStepKeeps
<1>3. ASSUME up, NEW v \in Reviews, ReviewStep(v), UNCHANGED runVars PROVE AgentInv' /\ RowsMove
  BY <1>3, ReviewStepKeeps
<1>4. CASE ConcludeMerge /\ UNCHANGED runVars
  BY <1>4, ConcludeMergeKeeps
<1>5. CASE Quit
  BY <1>5, QuitKeeps
<1>6. CASE Boot
  BY <1>6, BootKeeps
<1>7. CASE UNCHANGED vars
  BY <1>7, StutterKeeps
<1> QED BY <1>1, <1>2, <1>3, <1>4, <1>5, <1>6, <1>7 DEF Next

LEMMA AgentInductive == Spec => []AgentInv
<1>1. AgentInv /\ [Next]_vars => AgentInv'
  BY NextKeeps
<1> QED BY InitAgent, <1>1, PTL DEF Spec

-----------------------------------------------------------------------------
(* The theorems                                                            *)

\* The registry lists at most MaxRuns different runs, exactly those with an entry, and
\* the rows, worktrees, branches and reviews hold only what the code puts there.
THEOREM AgentRunsTypes == Spec => []TypeOK
<1>1. AgentInv => TypeOK
  BY DEF AgentInv
<1> QED BY AgentInductive, <1>1, PTL

\* What a run wrote is in its worktree, on its branch or in the user's branch unless the
\* user discarded it, whatever git commands fail and whenever the process ends
\* (merge-review.ts, removeWorktree() in worktrees.ts).
THEOREM WorkIsKept == Spec => []WorkKept
<1>1. AgentInv => WorkKept
  BY DEF AgentInv, WorkInv
<1> QED BY AgentInductive, <1>1, PTL

\* A recorded verdict is what happened to the repository, unless two verdicts on the
\* run were open at once or its merge had stopped in a conflict (setMergeStatus()).
THEOREM VerdictsMatchRepo == Spec => []VerdictMatchesRepo
<1>1. AgentInv => VerdictMatchesRepo
  BY DEF AgentInv, VerdictInv
<1> QED BY AgentInductive, <1>1, PTL

\* No row is left behind as running but for the reasons RunningRowExplained names: no
\* end of a run, failing write, overflow of the registry or restart adds another
\* (run-store-bridge.ts, run-resume.ts).
THEOREM RunningRowsExplained == Spec => []RunningRowExplained
<1>1. AgentInv => RunningRowExplained
  BY DEF AgentInv, RowsInv
<1> QED BY AgentInductive, <1>1, PTL

\* Every step, of any run or of startup, leaves each stored status or moves it on as
\* RunLifecycle says: the table implements the life of a run.
THEOREM RunsImplementLifecycle == Spec => ImplementsLifecycle
<1> DEFINE life == [r \in Runs |-> row[r].status]
<1>1. Init => Lifecycle!Init
  BY DEF Init, RegistryInit, Lifecycle!Init, Absent
<1>2. AgentInv /\ AgentInv' /\ [Next]_vars => [Lifecycle!Next]_life
  <2> SUFFICES ASSUME AgentInv, AgentInv', [Next]_vars PROVE Lifecycle!Next
    OBVIOUS
  <2>1. row' \in [Runs -> Rows]
    BY RegistryFacts DEF AgentInv, TypeOK, RegistryTypeOK, Rows
  <2>2. \A r \in Runs : row'[r].status \in Lifecycle!Stages
    BY <2>1, Statuses DEF Lifecycle!Stages
  <2>3. RowsMove
    BY NextKeeps
  <2> QED BY <2>2, <2>3 DEF RowsMove, Lifecycle!Next
<1> QED BY <1>1, <1>2, AgentInductive, PTL DEF Spec, ImplementsLifecycle, Lifecycle!Spec

-----------------------------------------------------------------------------
(* One runner of a subagent, and its report: the inductive invariant       *)

Reports == [pending : SUBSET Calls, times : [Calls -> Nat], stop : StopReasons,
            error : BOOLEAN, over : BOOLEAN]

\* A runner is over when its report is, and waits for a child only if it has one.
PlaceInv ==
    /\ run.pc = "over" <=> report.over
    /\ IsCli => run.pc \in {"start", "wait", "over"}
    /\ ~IsCli => run.pc # "wait" /\ ~run.resultEmitted /\ ~run.timedOut
    /\ run.pc = "start" => ~run.resultEmitted /\ ~run.timedOut /\ truth.acted = {}
    /\ run.pc \in {"provider", "tools"} => run.turn < MaxTurns
    /\ run.pc = "tools" => run.batch # <<>>

\* Of a command line's calls those without a result are pending and the others are told
\* once; the internal runner has told nothing, and what it started is in toolEvents or
\* is the call at the head of its batch.
CallsInv ==
    /\ IsCli =>
          /\ report.pending \subseteq truth.acted
          /\ \A c \in Calls :
                report.times[c] = IF c \in truth.acted \ report.pending THEN 1 ELSE 0
    /\ report.over => report.pending = {}
    /\ ~IsCli /\ ~report.over =>
          /\ report.pending = {}
          /\ \A c \in Calls : report.times[c] = 0
          /\ truth.acted \subseteq
                run.toolEvents \cup (IF run.pc = "tools" THEN {Head(run.batch)} ELSE {})

\* What stopped a child, and what its lines have said of the reason.
ReasonInv ==
    /\ child.leader = "dying" => run.aborted \/ run.timedOut
    /\ child.leader = "exit-0" => truth.finished \/ run.aborted \/ run.timedOut
    /\ ~report.over =>
          /\ report.stop \in {"end_turn", "error"}
          /\ report.error => report.stop = "error"
          /\ run.resultEmitted /\ report.stop = "end_turn" => truth.finished

RunnerInv == RunnersTypeOK /\ PlaceInv /\ CallsInv /\ ReasonInv /\ ReportTrue

-----------------------------------------------------------------------------
(* What a report becomes                                                   *)

\* A report keeps its type, whatever is told and however it ends.
LEMMA ToldType ==
    ASSUME NEW g \in Reports, NEW calls \in SUBSET Calls
    PROVE  /\ Told(g, calls) \in Reports
           /\ Told(g, calls).pending = g.pending \ calls
           /\ \A c \in Calls : Told(g, calls).times[c] = g.times[c] + (IF c \in calls THEN 1 ELSE 0)
           /\ Told(g, calls).stop = g.stop /\ Told(g, calls).error = g.error
           /\ Told(g, calls).over = g.over
<1> DEFINE times == [c \in Calls |-> g.times[c] + (IF c \in calls THEN 1 ELSE 0)]
<1>1. times \in [Calls -> Nat]
  BY DEF Reports
<1>2. Told(g, calls) = [g EXCEPT !.pending = g.pending \ calls, !.times = times]
  BY DEF Told, Reports
<1>3. \A c \in Calls : times[c] = g.times[c] + (IF c \in calls THEN 1 ELSE 0)
  OBVIOUS
<1> QED
  <2> HIDE DEF times
  <2> QED BY <1>1, <1>2, <1>3 DEF Reports

\* The collector at the end: nothing pending, each pending call told once more.
LEMMA CollectedReport ==
    ASSUME NEW g \in Reports
    PROVE  /\ Collected(g) \in Reports
           /\ Collected(g).over /\ Collected(g).pending = {}
           /\ \A c \in Calls : Collected(g).times[c] = g.times[c] + (IF c \in g.pending THEN 1 ELSE 0)
           /\ Collected(g).stop = g.stop /\ Collected(g).error = g.error
<1>1. g.pending \in SUBSET Calls
  BY DEF Reports
<1>2. FlushPending(g) = Told(g, g.pending)
  BY DEF FlushPending
<1> DEFINE h == Told(g, g.pending)
<1>3. /\ h \in Reports /\ h.pending = {}
      /\ \A c \in Calls : h.times[c] = g.times[c] + (IF c \in g.pending THEN 1 ELSE 0)
      /\ h.stop = g.stop /\ h.error = g.error
  BY <1>1, ToldType
<1>4. Collected(g) = [h EXCEPT !.over = TRUE]
  BY <1>2 DEF Collected
<1> QED
  <2> HIDE DEF h
  <2> QED BY <1>3, <1>4 DEF Reports

LEMMA BrokenReport ==
    ASSUME NEW g \in Reports
    PROVE  /\ Broken(g) \in Reports
           /\ Broken(g).over /\ Broken(g).pending = {} /\ Broken(g).stop = "cancelled"
           /\ \A c \in Calls : Broken(g).times[c] = g.times[c] + (IF c \in g.pending THEN 1 ELSE 0)
  BY CollectedReport DEF Broken, Reports, StopReasons

\* An error or a reason changes nothing but the reason, unless the loop is left.
LEMMA ReceivedEnd ==
    ASSUME NEW g \in Reports, NEW r \in StopReasons
    PROVE  /\ Received(g, Error) \in Reports
           /\ Received(g, Done(r)) \in Reports
           /\ run.aborted =>
                 Received(g, Error) = Broken(g) /\ Received(g, Done(r)) = Broken(g)
           /\ ~run.aborted =>
                 /\ Received(g, Error) = [g EXCEPT !.stop = "error", !.error = TRUE]
                 /\ Received(g, Done(r)) = [g EXCEPT !.stop = StopFor(g, r)]
<1>1. CASE run.aborted
  BY <1>1, BrokenReport DEF Received
<1>2. CASE ~run.aborted
  <2>1. Received(g, Error) = [g EXCEPT !.stop = "error", !.error = TRUE]
    BY <1>2 DEF Received, Take, Error
  <2>2. Received(g, Done(r)) = [g EXCEPT !.stop = StopFor(g, r)]
    BY <1>2 DEF Received, Take, Done
  <2>3. "error" \in StopReasons /\ g.stop \in StopReasons
    BY DEF StopReasons, Reports
  <2>4. StopFor(g, r) \in StopReasons
    BY <2>3 DEF StopFor
  <2> QED BY <1>2, <2>1, <2>2, <2>3, <2>4 DEF Reports
<1> QED BY <1>1, <1>2

\* How a report ends: by one event or by two, at which the loop is left after an abort.
Ends(g, h) ==
    /\ h \in Reports /\ h.over /\ h.pending = {}
    /\ \A c \in Calls : h.times[c] = g.times[c] + (IF c \in g.pending THEN 1 ELSE 0)

LEMMA EndsWithout ==
    ASSUME NEW g \in Reports
    PROVE  Ends(g, Collected(g)) /\ Collected(g).stop = g.stop
  BY CollectedReport DEF Ends

LEMMA EndsWithDone ==
    ASSUME NEW g \in Reports, NEW r \in StopReasons
    PROVE  LET h == Collected(Received(g, Done(r)))
           IN /\ Ends(g, h)
              /\ run.aborted => h.stop = "cancelled"
              /\ ~run.aborted => h.stop = StopFor(g, r)
<1> DEFINE k == Received(g, Done(r))
<1> DEFINE h == Collected(k)
<1>1. k \in Reports
  BY ReceivedEnd
<1>2. Ends(k, h) /\ h.stop = k.stop
  BY <1>1, EndsWithout
<1>3. CASE run.aborted
  <2>1. k = Broken(g)
    BY <1>3, ReceivedEnd
  <2>2. /\ k.pending = {} /\ k.stop = "cancelled"
        /\ \A c \in Calls : k.times[c] = g.times[c] + (IF c \in g.pending THEN 1 ELSE 0)
    BY <2>1, BrokenReport
  <2>3. \A c \in Calls : k.times[c] \in Nat
    BY <1>1 DEF Reports
  <2> HIDE DEF k, h
  <2> QED BY <1>2, <1>3, <2>2, <2>3 DEF Ends, h, k
<1>4. CASE ~run.aborted
  <2>1. k = [g EXCEPT !.stop = StopFor(g, r)]
    BY <1>4, ReceivedEnd
  <2>2. k.pending = g.pending /\ k.times = g.times /\ k.stop = StopFor(g, r)
    BY <2>1 DEF Reports
  <2> HIDE DEF k, h
  <2> QED BY <1>2, <1>4, <2>2 DEF Ends, h, k
<1> QED BY <1>3, <1>4

LEMMA EndsWithError ==
    ASSUME NEW g \in Reports, NEW r \in StopReasons
    PROVE  LET h == Collected(Received(Received(g, Error), Done(r)))
           IN /\ Ends(g, h)
              /\ run.aborted => h.stop = "cancelled"
              /\ ~run.aborted =>
                    h.stop = IF r \in {"cancelled", "budget_exceeded"} THEN r ELSE "error"
<1> DEFINE k == Received(g, Error)
<1> DEFINE h == Collected(Received(k, Done(r)))
<1>1. k \in Reports
  BY ReceivedEnd
<1>2. /\ Ends(k, h)
      /\ run.aborted => h.stop = "cancelled"
      /\ ~run.aborted => h.stop = StopFor(k, r)
  BY <1>1, EndsWithDone
<1>3. CASE run.aborted
  <2>1. k = Broken(g)
    BY <1>3, ReceivedEnd
  <2>2. /\ k.pending = {}
        /\ \A c \in Calls : k.times[c] = g.times[c] + (IF c \in g.pending THEN 1 ELSE 0)
    BY <2>1, BrokenReport
  <2>3. \A c \in Calls : k.times[c] \in Nat
    BY <1>1 DEF Reports
  <2> HIDE DEF k, h
  <2> QED BY <1>2, <1>3, <2>2, <2>3 DEF Ends, h, k
<1>4. CASE ~run.aborted
  <2>1. k = [g EXCEPT !.stop = "error", !.error = TRUE]
    BY <1>4, ReceivedEnd
  <2>2. k.pending = g.pending /\ k.times = g.times /\ k.stop = "error" /\ k.error
    BY <2>1 DEF Reports
  <2> HIDE DEF k, h
  <2> QED BY <1>2, <1>4, <2>2 DEF Ends, StopFor, h, k
<1> QED BY <1>3, <1>4

\* A command line's report at its end: each call that was made is told once.
LEMMA CliCallsTold ==
    ASSUME RunnerInv, IsCli, report'.over, Ends(report, report'), UNCHANGED truth,
           run'.kind = run.kind
    PROVE  CallsInv' /\ CallsReported'
<1>1. IsCli'
  BY DEF IsCli
<1>2. \A c \in Calls : report.times[c] = IF c \in truth.acted \ report.pending THEN 1 ELSE 0
  BY DEF RunnerInv, CallsInv
<1>3. report.pending \subseteq truth.acted
  BY DEF RunnerInv, CallsInv
<1>4. \A c \in Calls : report'.times[c] = IF c \in truth'.acted THEN 1 ELSE 0
  BY <1>2, <1>3 DEF Ends
<1>5. CallsInv'
  BY <1>1, <1>4 DEF CallsInv, Ends
<1> QED BY <1>4, <1>5 DEF CallsReported

-----------------------------------------------------------------------------
(* The steps of the runners                                                *)

LEMMA RunnersBegin == RunnersInit => RunnerInv
  BY RunnersAssumption DEF RunnersInit, RunnerInv, RunnersTypeOK, PlaceInv, CallsInv, ReasonInv,
     ReportTrue, CallsReported, StopReasonTrue, IsCli, CommandLines, Kinds, StopReasons

LEMMA CliMissingKeeps == RunnerInv /\ CliMissing => RunnerInv'
<1> SUFFICES ASSUME RunnerInv, CliMissing PROVE RunnerInv'
  OBVIOUS
<1> USE DEF RunnerInv
<1>1. report \in Reports /\ "error" \in StopReasons
  BY DEF RunnersTypeOK, Reports, StopReasons
<1>2. report' = Collected(Received(Received(report, Error), Done("error")))
  BY DEF CliMissing, TellLast, Failure
<1>3. /\ Ends(report, report')
      /\ run.aborted => report'.stop = "cancelled"
      /\ ~run.aborted => report'.stop = "error"
  BY <1>1, <1>2, EndsWithError
<1>4. run' = [run EXCEPT !.pc = "over"] /\ IsCli /\ run.pc = "start" /\ UNCHANGED <<child, truth>>
  BY DEF CliMissing, TellLast
<1>5. RunnersTypeOK'
  BY <1>3, <1>4 DEF RunnersTypeOK, Ends, Reports
<1>6. CallsInv' /\ CallsReported'
  BY <1>3, <1>4, CliCallsTold DEF Ends, RunnersTypeOK
<1>7. PlaceInv'
  BY <1>3, <1>4 DEF PlaceInv, Ends, IsCli, RunnersTypeOK
<1>8. ReasonInv'
  BY <1>3, <1>4 DEF ReasonInv, Ends, RunnersTypeOK
<1>9. StopReasonTrue'
  BY <1>3, <1>4 DEF StopReasonTrue, PlaceInv, RunnersTypeOK
<1> QED BY <1>5, <1>6, <1>7, <1>8, <1>9 DEF ReportTrue

LEMMA SpawnThrowsKeeps == RunnerInv /\ SpawnThrows => RunnerInv'
<1> SUFFICES ASSUME RunnerInv, SpawnThrows PROVE RunnerInv'
  OBVIOUS
<1> USE DEF RunnerInv
<1>1. report \in Reports
  BY DEF RunnersTypeOK, Reports
<1>2. report' = [Collected(report) EXCEPT !.stop = "runner_error"]
  BY DEF SpawnThrows, RunnerError
<1>3. Ends(report, Collected(report))
  BY <1>1, EndsWithout
<1>4. Ends(report, report') /\ report'.stop = "runner_error"
  BY <1>2, <1>3 DEF Ends, Reports, StopReasons
<1>5. /\ run' = [run EXCEPT !.pc = "over"] /\ IsCli /\ run.pc = "start" /\ UNCHANGED child
      /\ truth' = [truth EXCEPT !.threw = TRUE]
  BY DEF SpawnThrows
<1>6. RunnersTypeOK'
  BY <1>4, <1>5 DEF RunnersTypeOK, Ends, Reports
<1>7. CallsInv' /\ CallsReported'
  <2>1. \A c \in Calls : report.times[c] = IF c \in truth.acted \ report.pending THEN 1 ELSE 0
    BY <1>5 DEF CallsInv
  <2>2. report.pending \subseteq truth.acted /\ truth'.acted = truth.acted
    BY <1>5 DEF CallsInv, RunnersTypeOK
  <2>3. \A c \in Calls : report'.times[c] = IF c \in truth'.acted THEN 1 ELSE 0
    BY <1>4, <2>1, <2>2 DEF Ends
  <2>4. IsCli'
    BY <1>5 DEF IsCli, RunnersTypeOK
  <2> QED BY <1>4, <2>3, <2>4 DEF CallsInv, CallsReported, Ends
<1>8. PlaceInv'
  BY <1>4, <1>5 DEF PlaceInv, Ends, IsCli, RunnersTypeOK
<1>9. ReasonInv'
  BY <1>4, <1>5 DEF ReasonInv, Ends, RunnersTypeOK
<1>10. StopReasonTrue'
  BY <1>4, <1>5 DEF StopReasonTrue, PlaceInv, RunnersTypeOK
<1> QED BY <1>6, <1>7, <1>8, <1>9, <1>10 DEF ReportTrue

Leaders == {"none", "running", "dying", "killed", "exit-0", "exit-1"}

Truths == [acted : SUBSET Calls, finished : BOOLEAN, threw : BOOLEAN]

\* What touches the process group, the time limit and the abort leave the report alone: it
\* keeps what a run is and where it stands, when it stops a child only for a reason.
LEMMA ChildOnly ==
    ASSUME RunnerInv, UNCHANGED report,
           run'.kind = run.kind, run'.pc = run.pc \/ (run.pc = "start" /\ run'.pc = "wait" /\ IsCli),
           run'.turn = run.turn, run'.batch = run.batch, run'.toolEvents = run.toolEvents,
           run'.lines = run.lines, run'.resultEmitted = run.resultEmitted,
           run.aborted => run'.aborted, run.timedOut => run'.timedOut,
           run'.aborted # run.aborted => ~report.over,
           run'.timedOut # run.timedOut => IsCli /\ run.pc = "wait",
           truth'.acted = truth.acted, truth'.threw = truth.threw,
           truth.finished => truth'.finished,
           child'.leader = "dying" => child.leader = "dying" \/ run'.aborted \/ run'.timedOut,
           child'.leader = "exit-0" =>
               child.leader = "exit-0" \/ truth'.finished \/ run'.aborted \/ run'.timedOut
    PROVE  PlaceInv' /\ CallsInv' /\ ReasonInv' /\ ReportTrue'
<1> USE DEF RunnerInv
<1>1. IsCli' = IsCli
  BY DEF IsCli
<1>2. PlaceInv'
  BY <1>1 DEF PlaceInv
<1>3. report.over => run'.pc = "over" /\ run'.aborted = run.aborted /\ run'.timedOut = run.timedOut
  BY DEF PlaceInv
<1>4. CallsInv'
  <2>1. run'.pc = "tools" <=> run.pc = "tools"
    OBVIOUS
  <2> QED BY <1>1, <2>1 DEF CallsInv
<1>5. ReasonInv'
  BY DEF ReasonInv
<1>6. CallsReported'
  BY <1>3 DEF ReportTrue, CallsReported
<1>7. StopReasonTrue'
  BY <1>3 DEF ReportTrue, StopReasonTrue
<1> QED BY <1>2, <1>4, <1>5, <1>6, <1>7 DEF ReportTrue

LEMMA SpawnKeeps == RunnerInv /\ Spawn => RunnerInv'
<1> SUFFICES ASSUME RunnerInv, Spawn PROVE RunnerInv'
  OBVIOUS
<1>1. /\ RunnersTypeOK /\ IsCli /\ run.pc = "start" /\ run' = [run EXCEPT !.pc = "wait"]
      /\ UNCHANGED <<report, truth>>
  BY DEF RunnerInv, Spawn
<1>2. child' = [child EXCEPT !.leader = IF run.aborted THEN "dying" ELSE "running"]
  BY DEF Spawn, TreeKill, RunnerInv, RunnersTypeOK
<1>3. /\ child'.leader = IF run.aborted THEN "dying" ELSE "running"
      /\ child' \in [leader : Leaders, helper : BOOLEAN]
  BY <1>1, <1>2 DEF RunnersTypeOK, Leaders
<1>4. RunnersTypeOK'
  BY <1>1, <1>3 DEF RunnersTypeOK, Leaders
<1>5. /\ run'.kind = run.kind /\ run'.pc = "wait" /\ run'.turn = run.turn
      /\ run'.batch = run.batch /\ run'.toolEvents = run.toolEvents /\ run'.lines = run.lines
      /\ run'.resultEmitted = run.resultEmitted /\ run'.aborted = run.aborted
      /\ run'.timedOut = run.timedOut
  BY <1>1 DEF RunnersTypeOK
<1> QED BY <1>1, <1>3, <1>4, <1>5, ChildOnly DEF RunnerInv

LEMMA BudgetKeeps == RunnerInv /\ BudgetFires => RunnerInv'
<1> SUFFICES ASSUME RunnerInv, BudgetFires PROVE RunnerInv'
  OBVIOUS
<1>1. /\ RunnersTypeOK /\ IsCli /\ run.pc = "wait" /\ run' = [run EXCEPT !.timedOut = TRUE]
      /\ child' = TreeKill(child) /\ UNCHANGED <<report, truth>>
  BY DEF RunnerInv, BudgetFires
<1>2. /\ child' \in [leader : Leaders, helper : BOOLEAN]
      /\ child'.leader \in {"dying", child.leader}
  BY <1>1 DEF RunnersTypeOK, TreeKill, Leaders
<1>3. RunnersTypeOK'
  BY <1>1, <1>2 DEF RunnersTypeOK, Leaders
<1>4. /\ run'.kind = run.kind /\ run'.pc = run.pc /\ run'.turn = run.turn
      /\ run'.batch = run.batch /\ run'.toolEvents = run.toolEvents /\ run'.lines = run.lines
      /\ run'.resultEmitted = run.resultEmitted /\ run'.aborted = run.aborted
      /\ run'.timedOut
  BY <1>1 DEF RunnersTypeOK
<1> QED BY <1>1, <1>2, <1>3, <1>4, ChildOnly DEF RunnerInv

LEMMA AbortRunnerKeeps == RunnerInv /\ AbortRunner => RunnerInv'
<1> SUFFICES ASSUME RunnerInv, AbortRunner PROVE RunnerInv'
  OBVIOUS
<1>1. /\ RunnersTypeOK /\ ~report.over /\ run' = [run EXCEPT !.aborted = TRUE]
      /\ UNCHANGED <<report, truth>>
  BY DEF RunnerInv, AbortRunner
<1>2. /\ child' \in [leader : Leaders, helper : BOOLEAN]
      /\ child'.leader \in {"dying", child.leader}
  BY <1>1 DEF AbortRunner, RunnersTypeOK, TreeKill, Leaders
<1>3. RunnersTypeOK'
  BY <1>1, <1>2 DEF RunnersTypeOK, Leaders
<1>4. /\ run'.kind = run.kind /\ run'.pc = run.pc /\ run'.turn = run.turn
      /\ run'.batch = run.batch /\ run'.toolEvents = run.toolEvents /\ run'.lines = run.lines
      /\ run'.resultEmitted = run.resultEmitted /\ run'.aborted
      /\ run'.timedOut = run.timedOut
  BY <1>1 DEF RunnersTypeOK
<1> QED BY <1>1, <1>2, <1>3, <1>4, ChildOnly DEF RunnerInv

LEMMA GroupKeeps ==
    RunnerInv /\ (GraceEnds \/ LeaderExits \/ StartHelper \/ HelperEnds) => RunnerInv'
<1> SUFFICES ASSUME RunnerInv, GraceEnds \/ LeaderExits \/ StartHelper \/ HelperEnds
             PROVE  RunnerInv'
  OBVIOUS
<1>1. RunnersTypeOK /\ child \in [leader : Leaders, helper : BOOLEAN] /\ truth \in Truths
  BY DEF RunnerInv, RunnersTypeOK, Leaders, Truths
<1>2. /\ UNCHANGED <<run, report>> /\ child' \in [leader : Leaders, helper : BOOLEAN]
      /\ truth' \in Truths /\ truth'.acted = truth.acted /\ truth'.threw = truth.threw
      /\ truth.finished => truth'.finished
      /\ child'.leader = "dying" => child.leader = "dying"
      /\ child'.leader = "exit-0" =>
            child.leader \in {"exit-0", "dying"} \/ truth'.finished
  <2>1. CASE GraceEnds
    BY <1>1, <2>1 DEF GraceEnds, Leaders
  <2>2. CASE StartHelper
    BY <1>1, <2>2 DEF StartHelper
  <2>3. CASE HelperEnds
    BY <1>1, <2>3 DEF HelperEnds
  <2>4. CASE LeaderExits
    <3>1. PICK how \in {"exit-0", "exit-1", "killed"} :
             /\ child.leader \in {"running", "dying"} /\ UNCHANGED <<run, report>>
             /\ child' = [child EXCEPT !.leader = how]
             /\ truth' = [truth EXCEPT !.finished =
                             truth.finished \/ (child.leader = "running" /\ how = "exit-0")]
      BY <2>4 DEF LeaderExits
    <3>2. /\ child' \in [leader : Leaders, helper : BOOLEAN] /\ child'.leader = how
      BY <1>1, <3>1 DEF Leaders
    <3>3. /\ truth' \in Truths /\ truth'.acted = truth.acted /\ truth'.threw = truth.threw
          /\ truth'.finished = (truth.finished \/ (child.leader = "running" /\ how = "exit-0"))
      BY <1>1, <3>1 DEF Truths
    <3> QED BY <3>1, <3>2, <3>3
  <2> QED BY <2>1, <2>2, <2>3, <2>4
<1>3. RunnersTypeOK'
  BY <1>1, <1>2 DEF RunnersTypeOK, Leaders, Truths
<1>4. child.leader = "dying" => run.aborted \/ run.timedOut
  BY DEF RunnerInv, ReasonInv
<1> QED BY <1>2, <1>3, <1>4, ChildOnly DEF RunnerInv

LEMMA ChildKeeps ==
    RunnerInv /\ (Spawn \/ BudgetFires \/ GraceEnds \/ LeaderExits \/ StartHelper \/ HelperEnds
                  \/ AbortRunner)
        => RunnerInv'
  BY SpawnKeeps, BudgetKeeps, AbortRunnerKeeps, GroupKeeps

LEMMA OutputClosesKeeps == RunnerInv /\ OutputCloses => RunnerInv'
<1> SUFFICES ASSUME RunnerInv, OutputCloses PROVE RunnerInv'
  OBVIOUS
<1> USE DEF RunnerInv
<1>1. /\ report \in Reports
      /\ {"cancelled", "end_turn", "budget_exceeded", "error"} \subseteq StopReasons
  BY DEF RunnersTypeOK, Reports, StopReasons
<1>2. /\ run' = [run EXCEPT !.pc = "over"] /\ IsCli /\ run.pc = "wait"
      /\ UNCHANGED <<child, truth>> /\ Gone
      /\ report' = Collected(Closing(report))
  BY DEF OutputCloses, TellLast
<1>3. ~report.over
  BY <1>2 DEF PlaceInv
<1>4. /\ Ends(report, report')
      /\ run.aborted =>
            \/ report'.stop = "cancelled"
            \/ run.resultEmitted /\ report'.stop = report.stop
      /\ ~run.aborted =>
            report'.stop = IF run.resultEmitted THEN report.stop
                           ELSE IF run.timedOut THEN "budget_exceeded"
                           ELSE IF child.leader = "exit-0" THEN StopFor(report, "end_turn")
                           ELSE "error"
  <2>1. CASE run.resultEmitted
    BY <1>1, <1>2, <2>1, EndsWithout DEF Closing
  <2>2. CASE ~run.resultEmitted /\ run.aborted
    <3>1. report' = Collected(Received(report, Done("cancelled")))
      BY <1>2, <2>2 DEF Closing
    <3>2. Ends(report, report') /\ report'.stop = "cancelled"
      BY <1>1, <2>2, <3>1, EndsWithDone
    <3> QED BY <2>2, <3>2
  <2>3. CASE ~run.resultEmitted /\ ~run.aborted /\ run.timedOut
    <3>1. report' = Collected(Received(Received(report, Error), Done("budget_exceeded")))
      BY <1>2, <2>3 DEF Closing
    <3> QED BY <1>1, <2>3, <3>1, EndsWithError
  <2>4. CASE ~run.resultEmitted /\ ~run.aborted /\ ~run.timedOut /\ child.leader = "exit-0"
    <3>1. report' = Collected(Received(report, Done("end_turn")))
      BY <1>2, <2>4 DEF Closing
    <3> QED BY <1>1, <2>4, <3>1, EndsWithDone
  <2>5. CASE ~run.resultEmitted /\ ~run.aborted /\ ~run.timedOut /\ child.leader # "exit-0"
    <3>1. report' = Collected(Received(Received(report, Error), Done("error")))
      BY <1>2, <2>5 DEF Closing, Failure
    <3> QED BY <1>1, <2>5, <3>1, EndsWithError
  <2> QED BY <2>1, <2>2, <2>3, <2>4, <2>5
<1>5. RunnersTypeOK'
  BY <1>2, <1>4 DEF RunnersTypeOK, Ends, Reports
<1>6. CallsInv' /\ CallsReported'
  BY <1>2, <1>4, CliCallsTold DEF Ends, RunnersTypeOK
<1>7. PlaceInv'
  BY <1>2, <1>4 DEF PlaceInv, Ends, IsCli, RunnersTypeOK
<1>8. ReasonInv'
  BY <1>2, <1>4 DEF ReasonInv, Ends, RunnersTypeOK
<1>9. StopReasonTrue'
  <2>1. run'.aborted = run.aborted /\ run'.timedOut = run.timedOut
        /\ run'.resultEmitted = run.resultEmitted
    BY <1>2 DEF RunnersTypeOK
  <2> QED BY <1>2, <1>3, <1>4, <2>1 DEF StopReasonTrue, ReasonInv, StopFor, RunnersTypeOK
<1> QED BY <1>5, <1>6, <1>7, <1>8, <1>9 DEF ReportTrue

\* A line whose event the collector takes: what it is of a command line still at work, and
\* what it makes of the report.
LEMMA TakenLine ==
    ASSUME RunnerInv, ~run.aborted, NEW e, Line(e)
    PROVE  /\ IsCli /\ ~report.over /\ report \in Reports /\ truth \in Truths
           /\ report' = Take(report, e)
<1>1. IsCli /\ run.pc = "wait" /\ report' = Received(report, e)
  BY DEF Line
<1>2. report \in Reports /\ truth \in Truths /\ ~report.over
  BY <1>1 DEF RunnerInv, RunnersTypeOK, PlaceInv, Reports, Truths
<1> QED BY <1>1, <1>2 DEF Received

LEMMA TakenText ==
    ASSUME RunnerInv, ~run.aborted, Line(Text)
    PROVE  report' = report /\ Text.type # "done"
<1>1. report' = Take(report, Text)
  BY TakenLine
<1> QED BY <1>1 DEF Take, Text

LEMMA TakenError ==
    ASSUME RunnerInv, ~run.aborted, Line(Error)
    PROVE  report' = [report EXCEPT !.stop = "error", !.error = TRUE] /\ Error.type # "done"
<1>1. report' = Take(report, Error)
  BY TakenLine
<1> QED BY <1>1 DEF Take, Error

LEMMA TakenCall ==
    ASSUME RunnerInv, ~run.aborted, NEW c, Line(Call(c))
    PROVE  report' = [report EXCEPT !.pending = report.pending \cup {c}] /\ Call(c).type # "done"
<1>1. report' = Take(report, Call(c))
  BY TakenLine
<1> QED BY <1>1 DEF Take, Call

LEMMA TakenResult ==
    ASSUME RunnerInv, ~run.aborted, NEW c, Line(Result(c))
    PROVE  report' = Told(report, report.pending \cap {c}) /\ Result(c).type # "done"
<1>1. report' = Take(report, Result(c))
  BY TakenLine
<1> QED BY <1>1 DEF Take, Result

LEMMA TakenDone ==
    ASSUME RunnerInv, ~run.aborted, NEW r, Line(Done(r))
    PROVE  report' = [report EXCEPT !.stop = StopFor(report, r)]
<1>1. report' = Take(report, Done(r))
  BY TakenLine
<1> QED BY <1>1 DEF Take, Done

\* A line at which the collector leaves its loop.
LEMMA LineBreaks ==
    ASSUME RunnerInv, NEW e, Line(e), run.aborted,
           truth' \in Truths, truth'.acted = truth.acted, truth.finished => truth'.finished
    PROVE  RunnerInv'
<1> USE DEF RunnerInv
<1>1. /\ IsCli /\ run.pc = "wait" /\ run.lines < MaxLines
      /\ run'.kind = run.kind /\ run'.pc = "over" /\ run'.aborted
      /\ run'.lines = run.lines + 1 /\ run'.timedOut = run.timedOut
      /\ child' = TreeKill(child)
      /\ report' = Broken(report)
  BY DEF Line, Received, RunnersTypeOK
<1>2. report \in Reports /\ ~report.over
  BY <1>1 DEF RunnersTypeOK, Reports, PlaceInv
<1>3. Ends(report, report') /\ report'.stop = "cancelled"
  BY <1>1, <1>2, BrokenReport DEF Ends
<1>4. RunnersTypeOK'
  <2>1. run' = [run EXCEPT !.lines = run.lines + 1, !.pc = "over",
                           !.resultEmitted = run.resultEmitted \/ e.type = "done"]
    BY DEF Line
  <2>0. run.lines \in 0 .. MaxLines
    BY DEF RunnersTypeOK
  <2>2. run.lines + 1 \in 0 .. MaxLines
    BY <1>1, <2>0, RunnersAssumption
  <2>3. child' \in [leader : {"none", "running", "dying", "killed", "exit-0", "exit-1"},
                    helper : BOOLEAN]
    BY <1>1 DEF TreeKill, RunnersTypeOK
  <2>4. report' \in Reports
    BY <1>3 DEF Ends
  <2>5. run' \in [kind : Kinds, aborted : BOOLEAN, timedOut : BOOLEAN, lines : 0 .. MaxLines,
                 resultEmitted : BOOLEAN, turn : 0 .. MaxTurns, batch : Seq(Calls),
                 toolEvents : SUBSET Calls,
                 pc : {"start", "wait", "head", "provider", "tools", "over"}]
    BY <2>1, <2>2 DEF RunnersTypeOK
  <2> QED BY <2>3, <2>4, <2>5 DEF RunnersTypeOK, Reports, Truths
<1>5. PlaceInv' /\ StopReasonTrue'
  BY <1>1, <1>3 DEF PlaceInv, Ends, IsCli, StopReasonTrue, CommandLines
<1>6. ReasonInv'
  BY <1>1, <1>3 DEF ReasonInv, Ends, TreeKill, RunnersTypeOK
<1>7. \A c \in Calls : report'.times[c] = IF c \in truth'.acted THEN 1 ELSE 0
  BY <1>1, <1>3 DEF CallsInv, Ends
<1>8. CallsInv' /\ CallsReported'
  BY <1>1, <1>3, <1>7 DEF CallsInv, CallsReported, Ends, IsCli
<1> QED BY <1>4, <1>5, <1>6, <1>8 DEF ReportTrue

\* A line whose event the collector takes, when it keeps the account of the calls and
\* says of the outcome what happened.
LEMMA LineTaken ==
    ASSUME RunnerInv, NEW e, Line(e), ~run.aborted,
           truth' \in Truths, truth.finished => truth'.finished,
           report' \in Reports, ~report'.over,
           report'.pending \subseteq truth'.acted,
           \A c \in Calls : report'.times[c] = IF c \in truth'.acted \ report'.pending THEN 1 ELSE 0,
           report'.stop \in {"end_turn", "error"}, report'.error => report'.stop = "error",
           e.type = "done" \/ run.resultEmitted => (report'.stop = "end_turn" => truth'.finished)
    PROVE  RunnerInv'
<1> USE DEF RunnerInv
<1>1. /\ IsCli /\ run.pc = "wait" /\ run.lines < MaxLines /\ child' = child
      /\ run' = [run EXCEPT !.lines = run.lines + 1, !.pc = run.pc,
                            !.resultEmitted = run.resultEmitted \/ e.type = "done"]
  BY DEF Line
<1>2. /\ run'.kind = run.kind /\ run'.pc = "wait" /\ run'.aborted = run.aborted
      /\ run'.timedOut = run.timedOut
      /\ run'.resultEmitted = (run.resultEmitted \/ e.type = "done")
  BY <1>1 DEF RunnersTypeOK
<1>3. RunnersTypeOK'
  <2>0. run.lines \in 0 .. MaxLines
    BY DEF RunnersTypeOK
  <2>1. run.lines + 1 \in 0 .. MaxLines
    BY <1>1, <2>0, RunnersAssumption
  <2> QED BY <1>1, <2>1 DEF RunnersTypeOK, Reports, Truths
<1>4. PlaceInv'
  BY <1>1, <1>2 DEF PlaceInv, IsCli, CommandLines
<1>5. CallsInv' /\ ReportTrue'
  BY <1>1, <1>2 DEF CallsInv, IsCli, ReportTrue, CallsReported, StopReasonTrue
<1>6. ReasonInv'
  BY <1>1, <1>2 DEF ReasonInv
<1> QED BY <1>3, <1>4, <1>5, <1>6

LEMMA LinesKeep ==
    RunnerInv /\ (TextLine \/ CallLine \/ ResultLine \/ ErrorLine \/ OutcomeLine) => RunnerInv'
<1> SUFFICES ASSUME RunnerInv, TextLine \/ CallLine \/ ResultLine \/ ErrorLine \/ OutcomeLine
             PROVE  RunnerInv'
  OBVIOUS
<1>a. report \in Reports /\ truth \in Truths
  BY DEF RunnerInv, RunnersTypeOK, Reports, Truths
<1>c. IsCli /\ ~report.over
  BY DEF TextLine, CallLine, ResultLine, ErrorLine, OutcomeLine, Line, RunnerInv, PlaceInv
<1>b. /\ IsCli => report.pending \subseteq truth.acted
      /\ IsCli => \A c \in Calls :
            report.times[c] = IF c \in truth.acted \ report.pending THEN 1 ELSE 0
      /\ ~report.over => /\ report.stop \in {"end_turn", "error"}
                         /\ report.error => report.stop = "error"
                         /\ run.resultEmitted /\ report.stop = "end_turn" => truth.finished
  BY DEF RunnerInv, CallsInv, ReasonInv
<1>1. CASE TextLine
  <2>1. Line(Text) /\ truth' = truth
    BY <1>1 DEF TextLine
  <2>2. CASE run.aborted
    BY <1>a, <1>c, <2>1, <2>2, LineBreaks
  <2>3. CASE ~run.aborted
    <3>1. report' = report /\ Text.type # "done"
      BY <2>1, <2>3, TakenText
    <3> QED BY <1>a, <1>b, <1>c, <2>1, <2>3, <3>1, LineTaken
  <2> QED BY <2>2, <2>3
<1>2. CASE ErrorLine
  <2>1. Line(Error) /\ truth' = truth
    BY <1>2 DEF ErrorLine
  <2>2. CASE run.aborted
    BY <1>a, <1>c, <2>1, <2>2, LineBreaks
  <2>3. CASE ~run.aborted
    <3>1. report' = [report EXCEPT !.stop = "error", !.error = TRUE] /\ Error.type # "done"
      BY <2>1, <2>3, TakenError
    <3>2. /\ report' \in Reports /\ ~report'.over /\ report'.stop = "error"
          /\ report'.pending = report.pending /\ report'.times = report.times
      BY <1>a, <1>c, <3>1 DEF Reports, StopReasons
    <3> QED BY <1>a, <1>b, <1>c, <2>1, <2>3, <3>1, <3>2, LineTaken
  <2> QED BY <2>2, <2>3
<1>3. CASE CallLine
  <2>1. PICK c \in Calls \ truth.acted :
            /\ Line(Call(c))
            /\ truth' = [truth EXCEPT !.acted = @ \cup (IF run.aborted THEN {} ELSE {c})]
    BY <1>3 DEF CallLine
  <2>2. CASE run.aborted
    <3>1. truth' = truth
      BY <1>a, <2>1, <2>2 DEF Truths
    <3> QED BY <1>a, <2>1, <2>2, <3>1, LineBreaks
  <2>3. CASE ~run.aborted
    <3>1. report' = [report EXCEPT !.pending = report.pending \cup {c}] /\ Call(c).type # "done"
      BY <2>1, <2>3, TakenCall
    <3>2. /\ report' \in Reports /\ ~report'.over /\ report'.stop = report.stop
          /\ report'.pending = report.pending \cup {c} /\ report'.times = report.times
      BY <1>a, <1>c, <3>1 DEF Reports
    <3>3. report'.error = report.error
      BY <1>a, <3>1 DEF Reports
    <3>4. truth' \in Truths /\ truth'.acted = truth.acted \cup {c} /\ truth'.finished = truth.finished
      BY <1>a, <2>1, <2>3 DEF Truths
    <3>5. \A d \in Calls : report'.times[d] = IF d \in truth'.acted \ report'.pending THEN 1 ELSE 0
      BY <1>a, <1>b, <1>c, <2>1, <3>2, <3>4
    <3>6. /\ report'.pending \subseteq truth'.acted
          /\ truth.finished => truth'.finished
          /\ report'.stop \in {"end_turn", "error"}
          /\ report'.error => report'.stop = "error"
          /\ Call(c).type = "done" \/ run.resultEmitted =>
                (report'.stop = "end_turn" => truth'.finished)
      BY <1>b, <1>c, <3>1, <3>2, <3>3, <3>4
    <3> QED BY <2>1, <2>3, <3>2, <3>4, <3>5, <3>6, LineTaken
  <2> QED BY <2>2, <2>3
<1>4. CASE ResultLine
  <2>1. PICK c \in truth.acted : Line(Result(c)) /\ truth' = truth
    BY <1>4 DEF ResultLine
  <2>2. CASE run.aborted
    BY <1>a, <1>c, <2>1, <2>2, LineBreaks
  <2>3. CASE ~run.aborted
    <3>1. report' = Told(report, report.pending \cap {c}) /\ Result(c).type # "done"
      BY <2>1, <2>3, TakenResult
    <3>2. report.pending \cap {c} \in SUBSET Calls
      BY <1>a DEF Reports
    <3>3. /\ report' \in Reports /\ ~report'.over /\ report'.stop = report.stop
          /\ report'.error = report.error
          /\ report'.pending = report.pending \ {c}
          /\ \A d \in Calls : report'.times[d]
                = report.times[d] + (IF d \in report.pending \cap {c} THEN 1 ELSE 0)
      BY <1>a, <1>c, <3>1, <3>2, ToldType
    <3>4. \A d \in Calls : report'.times[d] = IF d \in truth'.acted \ report'.pending THEN 1 ELSE 0
      BY <1>a, <1>b, <1>c, <2>1, <3>3
    <3>5. /\ report'.pending \subseteq truth'.acted
          /\ report'.stop \in {"end_turn", "error"}
          /\ report'.error => report'.stop = "error"
          /\ run.resultEmitted => (report'.stop = "end_turn" => truth'.finished)
      BY <1>b, <1>c, <2>1, <3>3
    <3> QED BY <1>a, <2>1, <2>3, <3>1, <3>3, <3>4, <3>5, LineTaken
  <2> QED BY <2>2, <2>3
<1>5. CASE OutcomeLine
  <2>1. PICK r \in {"end_turn", "error"} :
            /\ Line(Done(r))
            /\ truth' = [truth EXCEPT !.finished = @ \/ r = "end_turn"]
    BY <1>5 DEF OutcomeLine
  <2>2. /\ truth' \in Truths /\ truth'.acted = truth.acted
        /\ truth'.finished = (truth.finished \/ r = "end_turn")
    BY <1>a, <2>1 DEF Truths
  <2>3. CASE run.aborted
    BY <1>a, <2>1, <2>2, <2>3, LineBreaks
  <2>4. CASE ~run.aborted
    <3>1. report' = [report EXCEPT !.stop = StopFor(report, r)]
      BY <2>1, <2>4, TakenDone
    <3>2. /\ StopFor(report, r) \in {"end_turn", "error"} \cap StopReasons
          /\ StopFor(report, r) = "end_turn" => r = "end_turn"
          /\ report.error => StopFor(report, r) = "error"
      BY <1>a, <1>b, <1>c, <2>1 DEF StopFor, StopReasons
    <3>3. /\ report' \in Reports /\ ~report'.over /\ report'.stop = StopFor(report, r)
          /\ report'.error = report.error
          /\ report'.pending = report.pending /\ report'.times = report.times
      BY <1>a, <1>c, <3>1, <3>2 DEF Reports
    <3>4. /\ report'.pending \subseteq truth'.acted
          /\ truth.finished => truth'.finished
          /\ report'.stop \in {"end_turn", "error"}
          /\ report'.error => report'.stop = "error"
          /\ report'.stop = "end_turn" => truth'.finished
      BY <1>b, <1>c, <2>2, <3>2, <3>3
    <3>5. \A c \in Calls : report'.times[c] = IF c \in truth'.acted \ report'.pending THEN 1 ELSE 0
      BY <1>b, <1>c, <2>2, <3>3
    <3> QED BY <2>1, <2>2, <2>4, <3>3, <3>4, <3>5, LineTaken
  <2> QED BY <2>3, <2>4
<1> QED BY <1>1, <1>2, <1>3, <1>4, <1>5

\* What the internal runner has told of its calls when it is over without an abort.
InternalTold(calls) ==
    /\ report' \in Reports /\ report'.over /\ report'.pending = {}
    /\ \A c \in Calls : report'.times[c] = IF c \in calls THEN 1 ELSE 0

\* The internal runner ends: with a failure, or by a replay of what it did.
LEMMA FailureEnds ==
    ASSUME RunnerInv, ~IsCli, ~report.over, TellLast(Failure(report))
    PROVE  /\ run' = [run EXCEPT !.pc = "over"]
           /\ InternalTold({})
           /\ run.aborted => report'.stop = "cancelled"
           /\ ~run.aborted => report'.stop = "error"
<1>1. report \in Reports /\ "error" \in StopReasons
  BY DEF RunnerInv, RunnersTypeOK, Reports, StopReasons
<1>2. report' = Collected(Received(Received(report, Error), Done("error")))
  BY DEF TellLast, Failure
<1>3. /\ Ends(report, report')
      /\ run.aborted => report'.stop = "cancelled"
      /\ ~run.aborted => report'.stop = "error"
  BY <1>1, <1>2, EndsWithError
<1>4. report.pending = {} /\ \A c \in Calls : report.times[c] = 0
  BY DEF RunnerInv, CallsInv
<1>5. InternalTold({})
  BY <1>3, <1>4 DEF Ends, InternalTold
<1> QED BY <1>3, <1>5 DEF TellLast

LEMMA FinalizeEnds ==
    ASSUME RunnerInv, ~IsCli, ~report.over, NEW calls \in SUBSET Calls, NEW error \in BOOLEAN,
           NEW stop, Finalize(calls, stop, error)
    PROVE  /\ run' = [run EXCEPT !.pc = "over"]
           /\ report' \in Reports /\ report'.over /\ report'.pending = {}
           /\ run.aborted => report'.stop = "cancelled"
           /\ ~run.aborted => /\ InternalTold(calls)
                              /\ report'.stop \in {MapStop(stop), "error"}
<1>1. report \in Reports /\ MapStop(stop) \in StopReasons
  BY DEF RunnerInv, RunnersTypeOK, Reports, StopReasons, MapStop
<1>2. CASE run.aborted
  <2>1. TellLast(Failure(report))
    BY <1>2 DEF Finalize
  <2> QED BY <1>2, <2>1, FailureEnds DEF InternalTold
<1>3. CASE ~run.aborted
  <2> DEFINE told == Told(report, calls)
  <2>1. report.pending = {} /\ \A c \in Calls : report.times[c] = 0
    BY DEF RunnerInv, CallsInv
  <2>2. /\ told \in Reports /\ told.pending = {}
        /\ \A c \in Calls : told.times[c] = IF c \in calls THEN 1 ELSE 0
        /\ told.stop = report.stop
    BY <1>1, <2>1, ToldType
  <2>3. CASE error
    <3>1. TellLast(Received(Received(told, Error), Done(MapStop(stop))))
      BY <1>3, <2>3 DEF Finalize
    <3>2. report' = Collected(Received(Received(told, Error), Done(MapStop(stop))))
      BY <3>1 DEF TellLast
    <3> HIDE DEF told
    <3>3. /\ Ends(told, report')
          /\ report'.stop = IF MapStop(stop) \in {"cancelled", "budget_exceeded"}
                            THEN MapStop(stop) ELSE "error"
      BY <1>1, <1>3, <2>2, <3>2, EndsWithError
    <3>4. InternalTold(calls) /\ report'.stop \in {MapStop(stop), "error"}
      BY <2>2, <3>3 DEF Ends, InternalTold
    <3> QED BY <1>3, <3>1, <3>4 DEF TellLast, InternalTold
  <2>4. CASE ~error
    <3>1. TellLast(Received(told, Done(MapStop(stop))))
      BY <1>3, <2>4 DEF Finalize
    <3>2. report' = Collected(Received(told, Done(MapStop(stop))))
      BY <3>1 DEF TellLast
    <3> HIDE DEF told
    <3>3. Ends(told, report') /\ report'.stop = StopFor(told, MapStop(stop))
      BY <1>1, <1>3, <2>2, <3>2, EndsWithDone
    <3>4. told.stop \in {"end_turn", "error"} /\ (told.error => told.stop = "error")
      BY <2>2, ToldType, <1>1 DEF told, RunnerInv, ReasonInv
    <3>5. StopFor(told, MapStop(stop)) \in {MapStop(stop), "error"}
      BY <3>4 DEF StopFor
    <3>6. InternalTold(calls) /\ report'.stop \in {MapStop(stop), "error"}
      BY <2>2, <3>3, <3>5 DEF Ends, InternalTold
    <3> QED BY <1>3, <3>1, <3>6 DEF TellLast, InternalTold
  <2> QED BY <2>3, <2>4
<1> QED BY <1>2, <1>3

\* The internal runner is over: all it did is told, unless it was aborted or its provider
\* has thrown, and a reason other than an error is that of a finished answer.
LEMMA InternalOver ==
    ASSUME RunnerInv, ~IsCli, run.pc # "over", run' = [run EXCEPT !.pc = "over"], child' = child,
           truth' \in Truths, report' \in Reports, report'.over, report'.pending = {},
           run.aborted => report'.stop = "cancelled",
           ~run.aborted => report'.stop \in {"end_turn", "tool_use", "max_tokens", "error"},
           ~run.aborted /\ report'.stop # "error" => truth'.finished,
           ~run.aborted /\ ~truth'.threw =>
               \E calls \in SUBSET Calls : InternalTold(calls) /\ truth'.acted \subseteq calls,
           truth.finished => truth'.finished
    PROVE  RunnerInv'
<1> USE DEF RunnerInv
<1>1. /\ run'.pc = "over" /\ run'.kind = run.kind /\ run'.aborted = run.aborted
      /\ run'.timedOut = run.timedOut /\ run'.resultEmitted = run.resultEmitted
      /\ run.kind = "internal" /\ ~run.timedOut /\ ~run.resultEmitted
  BY DEF RunnersTypeOK, PlaceInv, IsCli, Kinds
<1>2. RunnersTypeOK'
  BY DEF RunnersTypeOK, Reports, Truths
<1>3. PlaceInv'
  BY <1>1 DEF PlaceInv, IsCli
<1>4. CallsInv'
  BY <1>1 DEF CallsInv, IsCli
<1>5. ReasonInv'
  BY <1>1 DEF ReasonInv
<1>6. CallsReported'
  <2>1. \A c \in Calls : c \in truth'.acted => c \in Calls
    OBVIOUS
  <2> QED BY <1>1 DEF CallsReported, InternalTold
<1>7. StopReasonTrue'
  BY <1>1 DEF StopReasonTrue
<1> QED BY <1>2, <1>3, <1>4, <1>5, <1>6, <1>7 DEF ReportTrue

\* The internal runner goes on: it has told nothing yet.
LEMMA InternalGoesOn ==
    ASSUME RunnerInv, ~IsCli, ~report.over, UNCHANGED <<child, report>>, truth' \in Truths,
           truth.finished => truth'.finished, RunnersTypeOK',
           run'.kind = run.kind, run'.aborted = run.aborted, run'.timedOut = run.timedOut,
           run'.resultEmitted = run.resultEmitted, run'.pc \in {"head", "provider", "tools"},
           run'.pc \in {"provider", "tools"} => run'.turn < MaxTurns,
           run'.pc = "tools" => run'.batch # <<>>,
           truth'.acted \subseteq
               run'.toolEvents \cup (IF run'.pc = "tools" THEN {Head(run'.batch)} ELSE {})
    PROVE  RunnerInv'
<1>1. PlaceInv'
  BY DEF RunnerInv, PlaceInv, IsCli
<1>2. CallsInv'
  BY DEF RunnerInv, CallsInv, IsCli
<1>3. ReasonInv'
  BY DEF RunnerInv, ReasonInv
<1>4. ReportTrue'
  BY DEF ReportTrue, CallsReported, StopReasonTrue
<1> QED BY <1>1, <1>2, <1>3, <1>4 DEF RunnerInv

LEMMA InternalFacts ==
    ASSUME RunnerInv, NEW p, Internal(p), p \in {"start", "head", "provider", "tools"}
    PROVE  /\ ~IsCli /\ run.pc = p /\ ~report.over
           /\ truth \in Truths /\ run.toolEvents \in SUBSET Calls /\ run.batch \in Seq(Calls)
           /\ p # "tools" => truth.acted \subseteq run.toolEvents
           /\ p = "tools" => /\ run.batch # <<>> /\ run.turn < MaxTurns
                             /\ truth.acted \subseteq run.toolEvents \cup {Head(run.batch)}
           /\ p = "provider" => run.turn < MaxTurns
<1>1. run.kind = "internal" /\ run.pc = p
  BY DEF Internal
<1>2. ~IsCli /\ ~report.over
  BY <1>1 DEF RunnerInv, PlaceInv, IsCli, CommandLines
<1> QED BY <1>1, <1>2 DEF RunnerInv, RunnersTypeOK, PlaceInv, CallsInv, Truths

\* What ends the internal runner with a failure: aborted, or nothing was done, or thrown.
LEMMA FailureKeeps ==
    ASSUME RunnerInv, NEW p, Internal(p), p \in {"start", "provider"}, TellLast(Failure(report)),
           UNCHANGED child, truth' = truth \/ truth' = [truth EXCEPT !.threw = TRUE],
           p = "provider" => truth'.threw, p = "start" => truth.acted = {}
    PROVE  RunnerInv'
<1>1. /\ ~IsCli /\ run.pc = p /\ ~report.over /\ truth \in Truths
  BY InternalFacts
<1>2. /\ run' = [run EXCEPT !.pc = "over"]
      /\ InternalTold({})
      /\ run.aborted => report'.stop = "cancelled"
      /\ ~run.aborted => report'.stop = "error"
  BY <1>1, FailureEnds
<1>3. truth' \in Truths /\ truth'.finished = truth.finished /\ truth'.acted = truth.acted
  BY <1>1 DEF Truths
<1>4. ~truth'.threw => InternalTold({}) /\ truth'.acted \subseteq {}
  BY <1>1, <1>2, <1>3
<1>5. report' \in Reports /\ report'.over /\ report'.pending = {}
  BY <1>2 DEF InternalTold
<1> QED BY <1>1, <1>2, <1>3, <1>4, <1>5, InternalOver

LEMMA FinalizeKeeps ==
    ASSUME RunnerInv, NEW p, Internal(p), p \in {"head", "provider"}, UNCHANGED child,
           NEW calls \in SUBSET Calls, run.toolEvents \subseteq calls, NEW error \in BOOLEAN,
           NEW stop, Finalize(calls, stop, error),
           truth' = truth \/ truth' = [truth EXCEPT !.finished = TRUE],
           MapStop(stop) # "error" => truth'.finished
    PROVE  RunnerInv'
<1>1. /\ ~IsCli /\ run.pc = p /\ ~report.over /\ truth \in Truths
      /\ truth.acted \subseteq run.toolEvents
  BY InternalFacts
<1>2. /\ run' = [run EXCEPT !.pc = "over"]
      /\ report' \in Reports /\ report'.over /\ report'.pending = {}
      /\ run.aborted => report'.stop = "cancelled"
      /\ ~run.aborted => InternalTold(calls) /\ report'.stop \in {MapStop(stop), "error"}
  BY <1>1, FinalizeEnds
<1>3. /\ truth' \in Truths /\ (truth.finished => truth'.finished)
      /\ truth'.acted = truth.acted
  BY <1>1 DEF Truths
<1>4. MapStop(stop) \in {"end_turn", "tool_use", "max_tokens", "error"}
  BY DEF MapStop
<1>5. ~run.aborted => InternalTold(calls) /\ truth'.acted \subseteq calls
  BY <1>1, <1>2, <1>3
<1> QED BY <1>1, <1>2, <1>3, <1>4, <1>5, InternalOver

LEMMA LoadKeeps == RunnerInv /\ Load => RunnerInv'
<1> SUFFICES ASSUME RunnerInv, Load PROVE RunnerInv'
  OBVIOUS
<1>1. Internal("start") /\ UNCHANGED <<child, truth>>
  BY DEF Load
<1>2. /\ ~IsCli /\ run.pc = "start" /\ ~report.over /\ truth \in Truths
      /\ truth.acted \subseteq run.toolEvents
  BY <1>1, InternalFacts
<1>3. CASE TellLast(Failure(report))
  <2>1. truth.acted = {}
    BY <1>2 DEF RunnerInv, PlaceInv
  <2> QED BY <1>1, <1>3, <2>1, FailureKeeps
<1>4. CASE run' = [run EXCEPT !.pc = "head"] /\ UNCHANGED report
  <2>1. /\ run'.kind = run.kind /\ run'.aborted = run.aborted /\ run'.timedOut = run.timedOut
        /\ run'.resultEmitted = run.resultEmitted /\ run'.pc = "head"
        /\ run'.toolEvents = run.toolEvents
    BY <1>4 DEF RunnerInv, RunnersTypeOK
  <2>2. RunnersTypeOK'
    BY <1>1, <1>4 DEF RunnerInv, RunnersTypeOK
  <2> QED BY <1>1, <1>2, <1>4, <2>1, <2>2, InternalGoesOn
<1> QED BY <1>3, <1>4 DEF Load

LEMMA LoopHeadKeeps == RunnerInv /\ LoopHead => RunnerInv'
<1> SUFFICES ASSUME RunnerInv, LoopHead PROVE RunnerInv'
  OBVIOUS
<1>1. Internal("head") /\ UNCHANGED <<child, truth>>
  BY DEF LoopHead
<1>2. /\ ~IsCli /\ run.pc = "head" /\ ~report.over /\ truth \in Truths
      /\ truth.acted \subseteq run.toolEvents /\ run.toolEvents \in SUBSET Calls
  BY <1>1, InternalFacts
<1>3. CASE run.turn < MaxTurns /\ run' = [run EXCEPT !.pc = "provider"] /\ UNCHANGED report
  <2>1. /\ run'.kind = run.kind /\ run'.aborted = run.aborted /\ run'.timedOut = run.timedOut
        /\ run'.resultEmitted = run.resultEmitted /\ run'.pc = "provider"
        /\ run'.toolEvents = run.toolEvents /\ run'.turn = run.turn
    BY <1>3 DEF RunnerInv, RunnersTypeOK
  <2>2. RunnersTypeOK'
    BY <1>1, <1>3 DEF RunnerInv, RunnersTypeOK
  <2> QED BY <1>1, <1>2, <1>3, <2>1, <2>2, InternalGoesOn
<1>4. CASE \E error \in BOOLEAN : Finalize(run.toolEvents, "budget_exceeded", error)
  <2>1. MapStop("budget_exceeded") = "error"
    BY DEF MapStop
  <2> QED BY <1>1, <1>2, <1>4, <2>1, FinalizeKeeps
<1> QED BY <1>3, <1>4 DEF LoopHead

LEMMA ProviderCallsKeeps == RunnerInv /\ ProviderCalls => RunnerInv'
<1> SUFFICES ASSUME RunnerInv, ProviderCalls PROVE RunnerInv'
  OBVIOUS
<1>1. Internal("provider") /\ UNCHANGED <<child, report, truth>>
  BY DEF ProviderCalls
<1>2. /\ ~IsCli /\ run.pc = "provider" /\ ~report.over /\ truth \in Truths
      /\ truth.acted \subseteq run.toolEvents /\ run.turn < MaxTurns /\ run.batch \in Seq(Calls)
  BY <1>1, InternalFacts
<1>3. PICK c \in Calls : run' = [run EXCEPT !.batch = Append(run.batch, c)]
  BY DEF ProviderCalls
<1>4. /\ run'.kind = run.kind /\ run'.aborted = run.aborted /\ run'.timedOut = run.timedOut
      /\ run'.resultEmitted = run.resultEmitted /\ run'.pc = "provider"
      /\ run'.toolEvents = run.toolEvents /\ run'.turn = run.turn
  BY <1>2, <1>3 DEF RunnerInv, RunnersTypeOK
<1>5. RunnersTypeOK'
  <2>1. Append(run.batch, c) \in Seq(Calls)
    BY <1>2
  <2> QED BY <1>1, <1>3, <2>1 DEF RunnerInv, RunnersTypeOK
<1> QED BY <1>1, <1>2, <1>4, <1>5, InternalGoesOn

LEMMA ProviderFailsKeeps == RunnerInv /\ ProviderFails => RunnerInv'
<1> SUFFICES ASSUME RunnerInv, ProviderFails PROVE RunnerInv'
  OBVIOUS
<1>1. Internal("provider") /\ UNCHANGED child
  BY DEF ProviderFails
<1>2. run.toolEvents \in SUBSET Calls /\ truth \in Truths
  BY <1>1, InternalFacts
<1>3. CASE Finalize(run.toolEvents, "error", TRUE) /\ UNCHANGED truth
  <2>1. MapStop("error") = "error"
    BY DEF MapStop
  <2> QED BY <1>1, <1>2, <1>3, <2>1, FinalizeKeeps
<1>4. CASE TellLast(Failure(report)) /\ truth' = [truth EXCEPT !.threw = TRUE]
  <2>1. truth'.threw
    BY <1>2, <1>4 DEF Truths
  <2> QED BY <1>1, <1>4, <2>1, FailureKeeps
<1> QED BY <1>3, <1>4 DEF ProviderFails

LEMMA ProviderAnswersKeeps == RunnerInv /\ ProviderAnswers => RunnerInv'
<1> SUFFICES ASSUME RunnerInv, ProviderAnswers PROVE RunnerInv'
  OBVIOUS
<1>1. Internal("provider") /\ UNCHANGED child
  BY DEF ProviderAnswers
<1>2. /\ ~IsCli /\ run.pc = "provider" /\ ~report.over /\ truth \in Truths
      /\ truth.acted \subseteq run.toolEvents /\ run.turn < MaxTurns /\ run.batch \in Seq(Calls)
      /\ run.toolEvents \in SUBSET Calls
  BY <1>1, InternalFacts
<1>3. CASE /\ \E stop \in {"end_turn", "tool_use", "max_tokens"} :
                 Finalize(run.toolEvents, stop, FALSE)
           /\ truth' = [truth EXCEPT !.finished = TRUE]
  <2>1. truth'.finished
    BY <1>2, <1>3 DEF Truths
  <2> QED BY <1>1, <1>2, <1>3, <2>1, FinalizeKeeps
<1>4. CASE /\ run.batch # <<>>
           /\ run' = [run EXCEPT !.pc = "tools"]
           /\ truth' = [truth EXCEPT !.acted = @ \cup Started(run.batch)]
           /\ UNCHANGED report
  <2>1. /\ run'.kind = run.kind /\ run'.aborted = run.aborted /\ run'.timedOut = run.timedOut
        /\ run'.resultEmitted = run.resultEmitted /\ run'.pc = "tools"
        /\ run'.toolEvents = run.toolEvents /\ run'.turn = run.turn /\ run'.batch = run.batch
    BY <1>2, <1>4 DEF RunnerInv, RunnersTypeOK
  <2>2. Started(run.batch) \subseteq {Head(run.batch)} /\ Head(run.batch) \in Calls
    BY <1>2, <1>4 DEF Started
  <2>3. /\ truth' \in Truths /\ truth'.finished = truth.finished
        /\ truth'.acted = truth.acted \cup Started(run.batch)
    BY <1>2, <1>4, <2>2 DEF Truths
  <2>4. RunnersTypeOK'
    BY <1>1, <1>4, <2>3 DEF RunnerInv, RunnersTypeOK, Truths
  <2> QED BY <1>1, <1>2, <1>4, <2>1, <2>2, <2>3, <2>4, InternalGoesOn
<1>5. CASE /\ \E i \in Refused :
                 Finalize(run.toolEvents \cup {run.batch[i]}, "unauthorized_tool", TRUE)
           /\ UNCHANGED truth
  <2>1. PICK i \in Refused : Finalize(run.toolEvents \cup {run.batch[i]}, "unauthorized_tool", TRUE)
    BY <1>5
  <2>2. run.batch[i] \in Calls
    BY <1>2, <2>1 DEF Refused
  <2>3. MapStop("unauthorized_tool") = "error"
    BY DEF MapStop
  <2> QED BY <1>1, <1>2, <1>5, <2>1, <2>2, <2>3, FinalizeKeeps
<1> QED BY <1>3, <1>4, <1>5 DEF ProviderAnswers

LEMMA ToolSettlesKeeps == RunnerInv /\ ToolSettles => RunnerInv'
<1> SUFFICES ASSUME RunnerInv, ToolSettles PROVE RunnerInv'
  OBVIOUS
<1> DEFINE rest == Tail(run.batch)
<1>1. Internal("tools") /\ UNCHANGED <<child, report>>
  BY DEF ToolSettles
<1>2. /\ ~IsCli /\ run.pc = "tools" /\ ~report.over /\ truth \in Truths
      /\ run.batch \in Seq(Calls) /\ run.batch # <<>> /\ run.turn < MaxTurns
      /\ run.toolEvents \in SUBSET Calls
      /\ truth.acted \subseteq run.toolEvents \cup {Head(run.batch)}
  BY <1>1, InternalFacts
<1>3. rest \in Seq(Calls) /\ Head(run.batch) \in Calls
  BY <1>2
<1> HIDE DEF rest
<1>4. /\ run' = [run EXCEPT !.batch = rest,
                            !.toolEvents = @ \cup {Head(run.batch)},
                            !.pc = IF rest = <<>> THEN "head" ELSE "tools",
                            !.turn = IF rest = <<>> THEN @ + 1 ELSE @]
      /\ truth' = [truth EXCEPT !.acted = @ \cup Started(rest)]
  BY DEF ToolSettles, rest
<1>5. /\ run'.kind = run.kind /\ run'.aborted = run.aborted /\ run'.timedOut = run.timedOut
      /\ run'.resultEmitted = run.resultEmitted /\ run'.batch = rest
      /\ run'.toolEvents = run.toolEvents \cup {Head(run.batch)}
      /\ run'.pc = IF rest = <<>> THEN "head" ELSE "tools"
      /\ run'.turn = IF rest = <<>> THEN run.turn + 1 ELSE run.turn
  BY <1>2, <1>4 DEF RunnerInv, RunnersTypeOK
<1>6. /\ Started(rest) \subseteq Calls
      /\ rest = <<>> => Started(rest) = {}
      /\ rest # <<>> => Started(rest) \subseteq {Head(rest)}
  BY <1>3 DEF Started
<1>7. /\ truth' \in Truths /\ truth'.finished = truth.finished
      /\ truth'.acted = truth.acted \cup Started(rest)
  BY <1>2, <1>4, <1>6 DEF Truths
<1>8. RunnersTypeOK'
  <2>1. run.turn \in 0 .. MaxTurns /\ MaxTurns \in Nat
    BY RunnersAssumption DEF RunnerInv, RunnersTypeOK
  <2>2. run'.turn \in 0 .. MaxTurns
    BY <1>2, <1>5, <2>1
  <2>3. rest \in Seq(Calls) /\ run'.toolEvents \subseteq Calls
    BY <1>2, <1>3, <1>5 DEF RunnerInv, RunnersTypeOK
  <2> QED BY <1>1, <1>2, <1>4, <1>5, <1>7, <2>2, <2>3 DEF RunnerInv, RunnersTypeOK, Truths
<1> QED BY <1>1, <1>2, <1>5, <1>6, <1>7, <1>8, InternalGoesOn

LEMMA RunnerStepKeeps == RunnerInv /\ [RunnerStep]_runnerVars => RunnerInv'
<1> SUFFICES ASSUME RunnerInv, [RunnerStep]_runnerVars PROVE RunnerInv'
  OBVIOUS
<1>1. CASE CliMissing \/ SpawnThrows \/ OutputCloses
  BY <1>1, CliMissingKeeps, SpawnThrowsKeeps, OutputClosesKeeps
<1>2. CASE TextLine \/ CallLine \/ ResultLine \/ ErrorLine \/ OutcomeLine
  BY <1>2, LinesKeep
<1>3. CASE Spawn \/ BudgetFires \/ GraceEnds \/ LeaderExits \/ StartHelper \/ HelperEnds
           \/ AbortRunner
  BY <1>3, ChildKeeps
<1>4. CASE Load \/ LoopHead \/ ProviderCalls \/ ProviderFails \/ ProviderAnswers \/ ToolSettles
  BY <1>4, LoadKeeps, LoopHeadKeeps, ProviderCallsKeeps, ProviderFailsKeeps,
     ProviderAnswersKeeps, ToolSettlesKeeps
<1>5. CASE UNCHANGED runnerVars
  <2>1. run' = run /\ child' = child /\ report' = report /\ truth' = truth
    BY <1>5 DEF runnerVars
  <2>2. RunnersTypeOK'
    BY <2>1 DEF RunnerInv, RunnersTypeOK
  <2>3. PlaceInv' /\ CallsInv'
    BY <2>1 DEF RunnerInv, PlaceInv, CallsInv, IsCli
  <2>4. ReasonInv' /\ ReportTrue'
    BY <2>1 DEF RunnerInv, ReasonInv, ReportTrue, CallsReported, StopReasonTrue
  <2> QED BY <2>2, <2>3, <2>4 DEF RunnerInv
<1> QED BY <1>1, <1>2, <1>3, <1>4, <1>5 DEF RunnerStep

\* The invariant of one runner is kept by every step: lines, calls, abort and time limit,
\* exits of the child and of its helpers, and the internal loop, in any order
\* (packages/core/src/runner.ts, the runner packages, agent/subagent.ts).
THEOREM RunnerInvariant == RunnersSpec => []RunnerInv
  BY RunnersBegin, RunnerStepKeeps, PTL DEF RunnersSpec

\* Every runner, child and report is well typed, whatever the child writes.
THEOREM RunnerTypes == RunnersSpec => []RunnersTypeOK
<1>1. RunnerInv => RunnersTypeOK
  BY DEF RunnerInv
<1> QED BY RunnerInvariant, <1>1, PTL

\* The report of a subagent tells each call it made once and gives the reason its run
\* ended for, in every order of output, exit, abort and time limit
\* (collectSubagentResult() and the closing of each runner).
THEOREM ReportsAreTrue == RunnersSpec => []ReportTrue
<1>1. RunnerInv => ReportTrue
  BY DEF RunnerInv
<1> QED BY RunnerInvariant, <1>1, PTL
=============================================================================
