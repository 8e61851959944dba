---------------------------- MODULE Checkpoints_proofs ----------------------------
(* Proofs about file checkpoints: the pre-images that stay, and what a restore     *)
(* brings back.                                                                     *)
EXTENDS Checkpoints, FiniteSetTheorems, SequenceTheorems, WellFoundedInduction, TLAPS

-----------------------------------------------------------------------------
(* The invariant                                                           *)

\* Nobody is at work: neither a turn nor a restore.
Quiet == ~Restoring /\ \A t \in Turns : turn[t] # "running"

\* Who is at work, and on which rows.
JobsInv ==
    /\ \A t \in Turns : job[t].pc # "none" =>
          turn[t] = "running" /\ job[t].cp \in DOMAIN store /\ store[job[t].cp].turn = t
    /\ Restoring =>
          /\ job[Restorer].cp \in DOMAIN store /\ job[Restorer].undo \in DOMAIN store
          /\ job[Restorer].cp # job[Restorer].undo
          /\ store[job[Restorer].undo].turn = store[job[Restorer].cp].turn
          /\ store[job[Restorer].undo].label = "Before-restore"
    /\ job[Restorer].pc # "none" => Restoring

\* Bytes on their way into the store are bytes that are kept.
BytesInv ==
    \A x \in Actors :
        /\ job[x].pc \in {"put", "rename", "add"} => job[x].bytes \in Contents \ Large
        /\ job[x].pc = "add" => job[x].bytes \in blobs \cup swept

\* The bytes every kept row lists are in S.
BackedBy(S) ==
    \A c \in DOMAIN store, f \in Files :
        store[c].status # "deleted" /\ store[c].entries[f] \in Contents => store[c].entries[f] \in S

\* What the collection noted as referenced still covers the rows, while nobody is beside it.
GcInv ==
    /\ gc.pc = "start" => Quiet
    /\ gc.pc = "sweep" /\ ~gc.beside => Quiet /\ BackedBy(gc.refs)

\* A turn whose captures succeeded, and which no restore has joined, has one row, active
\* while it runs.
RowsInv ==
    /\ \A c \in DOMAIN store :
          /\ turn[store[c].turn] # "idle"
          /\ turn[store[c].turn] = "running" /\ store[c].turn \notin partial =>
                store[c].label = "Before-this-turn" /\ store[c].status = "active"
    /\ \A c, d \in DOMAIN store :
          /\ store[c].turn \notin partial /\ store[d].turn = store[c].turn
          /\ store[c].label = "Before-this-turn" /\ store[d].label = "Before-this-turn"
          => c = d

\* What such a turn has changed, or is about to, is listed.
OriginInv ==
    \A t \in Turns \ partial :
        /\ \A f \in Files : origin[t][f] # Nothing =>
              \E c \in DOMAIN store : /\ store[c].turn = t /\ store[c].label = "Before-this-turn"
                                      /\ store[c].entries[f] # Nothing
        /\ job[t].pc = "act" => store[job[t].cp].entries[job[t].file] # Nothing

CheckpointInv ==
    TypeOK /\ JobsInv /\ BytesInv /\ BackedBy(blobs \cup swept) /\ GcInv /\ RowsInv /\ OriginInv

InHand == {"put", "rename", "add"}

\* What the restore has come to is as its checkpoint says, but for what it has skipped and
\* what a turn has changed since.
RestoreInv ==
    Restoring =>
        /\ job[Restorer].pc # "none" => job[Restorer].file \notin todo
        /\ \A f \in due : Target(f) # Nothing
        /\ ~skipped => \A f \in due \ (todo \cup exposed) :
              job[Restorer].pc = "none" \/ job[Restorer].file # f => disk[f] = Target(f)

\* A file the restore has yet to write, and the actors that fill its undo checkpoint.
Ahead(f) == f \in todo \/ (job[Restorer].pc # "none" /\ job[Restorer].file = f)
Fills(a) == a = Restorer \/ job[a].cp = job[Restorer].undo

\* What is listed or in hand of such a file is what the restore will overwrite.
UndoInv ==
    Restoring =>
        /\ \A f \in Files \ exposed : Ahead(f) =>
              /\ store[job[Restorer].undo].entries[f] # Nothing => UndoLists(f)
              /\ \A a \in Actors : Fills(a) /\ Keeping(a, f) => job[a].bytes = disk[f]
        /\ job[Restorer].pc = "act" /\ job[Restorer].file \notin exposed =>
              store[job[Restorer].undo].entries[job[Restorer].file] # Nothing

\* The entry of a file, and the entries of a running turn: each its file's first content,
\* when nobody else has changed the file in between.
Pre(bytes) == IF bytes \in Large THEN TooLarge ELSE bytes

PreInv ==
    \A t \in Turns \ partial : \A f \in Files : <<t, f>> \notin raced =>
        /\ Keeping(t, f) /\ origin[t][f] = Nothing => job[t].bytes = disk[f]
        /\ \A c \in DOMAIN store :
              store[c].turn = t /\ store[c].label = "Before-this-turn" =>
                  /\ origin[t][f] # Nothing => store[c].entries[f] = Pre(origin[t][f])
                  /\ turn[t] = "running" /\ origin[t][f] = Nothing /\ store[c].entries[f] # Nothing
                       => store[c].entries[f] = Pre(disk[f])

-----------------------------------------------------------------------------
(* Rows and jobs                                                           *)

\* Every set of numbers has a least one.
LEMMA EarliestExists ==
  ASSUME NEW S \in SUBSET Nat, S # {}
  PROVE  \E m \in S : \A n \in S : m <= n
<1> DEFINE Below(n) == 0 .. (n - 1)
           T == {Below(n) : n \in S}
           R == StrictSubsetOrdering(Nat)
<1>1. \A n \in Nat : Below(n) \in FiniteSubsetsOf(Nat)
  BY FS_Interval DEF FiniteSubsetsOf
<1>2. T \subseteq FiniteSubsetsOf(Nat) /\ T # {}
  BY <1>1
<1>3. \A m, n \in Nat : n < m => <<Below(n), Below(m)>> \in R
  <2> SUFFICES ASSUME NEW m \in Nat, NEW n \in Nat, n < m
               PROVE  <<Below(n), Below(m)>> \in R
    OBVIOUS
  <2>1. n \in Below(m) /\ n \notin Below(n)
    OBVIOUS
  <2>2. Below(n) \subseteq Below(m) /\ Below(m) \subseteq Nat
    OBVIOUS
  <2> QED BY <2>1, <2>2 DEF StrictSubsetOrdering
<1>4. IsWellFoundedOn(R, FiniteSubsetsOf(Nat))
  BY FS_StrictSubsetOrderingWellFounded
<1> HIDE DEF R, Below
<1>5. PICK x \in T : \A y \in T : ~ (<<y, x>> \in R)
  <2> HIDE DEF T
  <2> QED BY <1>2, <1>4, WFMin
<1>6. PICK m \in S : x = Below(m)
  BY <1>5
<1>7. \A n \in S : ~ (n < m)
  BY <1>3, <1>5, <1>6
<1> QED BY <1>7

\* The newest of some checkpoints is one of them.
LEMMA NewestIsIn ==
  ASSUME NEW n \in Nat, NEW S \in SUBSET (1 .. n), S # {}
  PROVE  Newest(S) \in S
<1> DEFINE Back(x) == n - x
           T == {Back(x) : x \in S}
<1>1. T \in SUBSET Nat /\ T # {}
  <2>1. \A x \in S : Back(x) \in Nat
    OBVIOUS
  <2> HIDE DEF Back
  <2> QED BY <2>1
<1>2. PICK m \in T : \A y \in T : m <= y
  <2> HIDE DEF T
  <2> QED BY <1>1, EarliestExists
<1>3. PICK c \in S : m = Back(c)
  BY <1>2
<1>4. \A d \in S : Back(c) <= Back(d)
  BY <1>2, <1>3
<1>5. \A d \in S : d <= c
  BY <1>4
<1>6. \E x \in S : \A d \in S : d <= x
  BY <1>5
<1> QED BY <1>6 DEF Newest

LEMMA NextIndex ==
  ASSUME NEW n \in Nat
  PROVE  /\ 1 .. (n + 1) = (1 .. n) \cup {n + 1}
         /\ n + 1 \notin 1 .. n /\ n + 1 \in Nat /\ n + 1 # 0
OBVIOUS

LEMMA OneMore ==
  ASSUME NEW m \in Nat, NEW n \in 0 .. m, n < m
  PROVE  n + 1 \in 0 .. m
OBVIOUS

Pcs == {"none", "read", "put", "rename", "add", "act"}
Statuses == {"active", "restored", "superseded", "deleted"}
Listed == Bytes \cup {TooLarge, Nothing}

LEMMA TypeFacts ==
  ASSUME TypeOK
  PROVE  /\ disk \in [Files -> Bytes] /\ store \in Seq(Checkpoint)
         /\ blobs \subseteq Contents /\ temps \subseteq Actors /\ swept \subseteq Contents
         /\ turn \in [Turns -> {"idle", "running", "over"}]
         /\ writes \in [Turns -> 0 .. MaxWrites] /\ job \in [Actors -> Job]
         /\ due \subseteq Files /\ todo \subseteq Files /\ exposed \subseteq Files
         /\ skipped \in BOOLEAN /\ partial \subseteq Turns /\ raced \subseteq Turns \X Files
         /\ gc.pc \in {"start", "sweep", "done"}
         /\ origin \in [Turns -> [Files -> Bytes \cup {Nothing}]]
         /\ restores \in 0 .. MaxRestores /\ crashes \in 0 .. MaxCrashes
         /\ gc \in [pc: {"start", "sweep", "done"}, refs: SUBSET Contents, beside: BOOLEAN]
BY DEF TypeOK

LEMMA RowFacts ==
  ASSUME NEW s \in Seq(Checkpoint)
  PROVE  /\ Len(s) \in Nat /\ DOMAIN s = 1 .. Len(s)
         /\ \A c \in DOMAIN s :
               /\ s[c] \in Checkpoint /\ s[c].turn \in Turns
               /\ s[c].label \in {"Before-this-turn", "Before-restore"}
               /\ s[c].status \in Statuses
               /\ s[c].entries \in [Files -> Listed]
               /\ \A f \in Files : s[c].entries[f] \in Listed
<1>1. \A c \in DOMAIN s : s[c] \in Checkpoint
  OBVIOUS
<1>2. Len(s) \in Nat /\ DOMAIN s = 1 .. Len(s)
  OBVIOUS
<1> QED BY <1>1, <1>2 DEF Checkpoint, Statuses, Listed

LEMMA JobFacts ==
  ASSUME NEW j \in Job
  PROVE  /\ j.pc \in Pcs /\ j.cp \in Nat /\ j.undo \in Nat /\ j.file \in Files
         /\ j.bytes \in Bytes
BY DEF Job, Pcs

LEMMA IdleFacts ==
  /\ Idle \in Job /\ Idle.pc = "none" /\ Idle.cp = 0 /\ Idle.undo = 0 /\ Idle.file \in Files
<1>1. (CHOOSE f \in Files : TRUE) \in Files
  BY CheckpointAssumption
<1> QED BY <1>1 DEF Idle, Job, Bytes

LEMMA ActorFacts ==
  /\ Restorer \in Actors /\ Turns \subseteq Actors /\ Restorer \notin Turns
  /\ \A a \in Actors : a = Restorer \/ a \in Turns
BY CheckpointAssumption DEF Actors

LEMMA ValueFacts ==
  /\ Nothing \notin Bytes /\ TooLarge \notin Bytes /\ Nothing # TooLarge
  /\ Absent \notin Contents /\ Nothing \notin Contents /\ TooLarge \notin Contents
  /\ Large \subseteq Contents /\ Contents \subseteq Bytes /\ Bytes = Contents \cup {Absent}
BY CheckpointAssumption DEF Bytes, Absent, TooLarge, Nothing

\* A row is appended.
Grown(s, u, t, label) ==
    /\ u \in Seq(Checkpoint) /\ Len(s) + 1 \notin DOMAIN s
    /\ Len(s) + 1 \in Nat /\ Len(s) + 1 # 0
    /\ DOMAIN u = DOMAIN s \cup {Len(s) + 1}
    /\ \A c \in DOMAIN s : u[c] = s[c]
    /\ u[Len(s) + 1].turn = t /\ u[Len(s) + 1].label = label
    /\ u[Len(s) + 1].status = "active"
    /\ \A f \in Files : u[Len(s) + 1].entries[f] = Nothing

LEMMA RowAppended ==
  ASSUME NEW s \in Seq(Checkpoint), NEW t \in Turns,
         NEW label \in {"Before-this-turn", "Before-restore"}
  PROVE  Grown(s, Append(s, NewCheckpoint(t, label)), t, label)
<1> DEFINE r == NewCheckpoint(t, label)
           u == Append(s, r)
           n == Len(s) + 1
<1>1. NoEntries \in [Files -> Listed] /\ \A f \in Files : NoEntries[f] = Nothing
  BY DEF NoEntries, Listed
<1>2. /\ r \in Checkpoint /\ r.turn = t /\ r.label = label /\ r.status = "active"
      /\ r.entries = NoEntries
  BY <1>1 DEF NewCheckpoint, Checkpoint, Listed
<1> HIDE DEF r
<1>3. /\ u \in Seq(Checkpoint) /\ Len(u) = Len(s) + 1
      /\ \A i \in 1 .. Len(s) : u[i] = s[i]
      /\ u[Len(s) + 1] = r
  <2>1. s \in Seq(Checkpoint) /\ r \in Checkpoint
    BY <1>2
  <2>2. /\ Append(s, r) \in Seq(Checkpoint)
        /\ Append(s, r) # << >>
        /\ Len(Append(s, r)) = Len(s) + 1
        /\ \A i \in 1 .. Len(s) : Append(s, r)[i] = s[i]
        /\ Append(s, r)[Len(s) + 1] = r
    BY <2>1, AppendProperties, Zenon
  <2> QED BY <2>2
<1>4. Len(s) \in Nat /\ DOMAIN s = 1 .. Len(s)
  BY RowFacts
<1> HIDE DEF u
<1>5. DOMAIN u = 1 .. Len(u)
  BY <1>3, RowFacts
<1>6. n \in Nat /\ n # 0 /\ DOMAIN u = DOMAIN s \cup {n} /\ n \notin DOMAIN s
  <2>1. Len(s) \in Nat /\ n = Len(s) + 1
    BY <1>4 DEF n
  <2> HIDE DEF n
  <2>2. /\ 1 .. (Len(s) + 1) = (1 .. Len(s)) \cup {Len(s) + 1}
        /\ Len(s) + 1 \notin 1 .. Len(s) /\ Len(s) + 1 \in Nat /\ Len(s) + 1 # 0
    BY <2>1, NextIndex, Zenon
  <2> QED BY <1>3, <1>4, <1>5, <2>1, <2>2
<1>7. (\A c \in DOMAIN s : u[c] = s[c]) /\ u[n] = r
  BY <1>3, <1>4
<1> HIDE DEF u, n
<1>8. /\ u[n].turn = t /\ u[n].label = label /\ u[n].status = "active"
      /\ \A f \in Files : u[n].entries[f] = Nothing
  BY <1>1, <1>2, <1>7
<1> QED BY <1>3, <1>6, <1>7, <1>8 DEF u, n, r, Grown

\* Rows that only differ in their status.
Restated(s, u) ==
    /\ u \in Seq(Checkpoint) /\ DOMAIN u = DOMAIN s
    /\ \A c \in DOMAIN s : /\ u[c].turn = s[c].turn /\ u[c].label = s[c].label
                           /\ u[c].entries = s[c].entries
                           /\ s[c].status = "deleted" => u[c].status = "deleted"

Marked(s, c, status) == [s EXCEPT ![c].status = status]

\* u is s with one status set.
Marking(s, c, status, u) ==
    /\ u \in Seq(Checkpoint) /\ DOMAIN u = DOMAIN s
    /\ \A d \in DOMAIN s : /\ u[d].turn = s[d].turn /\ u[d].label = s[d].label
                           /\ u[d].entries = s[d].entries
                           /\ u[d].status = IF d = c THEN status ELSE s[d].status

LEMMA StatusSet ==
  ASSUME NEW s \in Seq(Checkpoint), NEW c \in DOMAIN s,
         NEW status \in Statuses
  PROVE  Marking(s, c, status, Marked(s, c, status))
<1> DEFINE r == [s[c] EXCEPT !.status = status]
           u == [s EXCEPT ![c] = r]
<1>1. s[c] \in Checkpoint
  BY RowFacts
<1>2. /\ r \in Checkpoint /\ r.turn = s[c].turn /\ r.label = s[c].label
      /\ r.entries = s[c].entries /\ r.status = status
  BY <1>1 DEF Checkpoint, Statuses
<1> HIDE DEF r
<1>3. u \in Seq(Checkpoint) /\ DOMAIN u = DOMAIN s
  BY <1>2
<1>4. \A d \in DOMAIN s : u[d] = IF d = c THEN r ELSE s[d]
  OBVIOUS
<1>5. Marked(s, c, status) = u
  BY DEF r, Marked
<1> HIDE DEF u
<1>6. \A d \in DOMAIN s : /\ u[d].turn = s[d].turn /\ u[d].label = s[d].label
                          /\ u[d].entries = s[d].entries
                          /\ u[d].status = IF d = c THEN status ELSE s[d].status
  BY <1>2, <1>4
<1>7. Marking(s, c, status, u)
  BY <1>3, <1>6 DEF Marking
<1> QED BY <1>5, <1>7

LEMMA StatusRestated ==
  ASSUME NEW s \in Seq(Checkpoint), NEW c \in DOMAIN s,
         NEW status \in Statuses
  PROVE  LET u == WithStatus(s, c, status)
         IN  /\ Restated(s, u)
             /\ \A d \in DOMAIN s : u[d].status = IF d = c /\ s[c].status # "deleted"
                                                  THEN status ELSE s[d].status
<1> DEFINE u == Marked(s, c, status)
<1>1. /\ u \in Seq(Checkpoint) /\ DOMAIN u = DOMAIN s
      /\ \A d \in DOMAIN s : /\ u[d].turn = s[d].turn /\ u[d].label = s[d].label
                             /\ u[d].entries = s[d].entries
                             /\ u[d].status = IF d = c THEN status ELSE s[d].status
  <2>1. Marking(s, c, status, u)
    BY StatusSet
  <2> QED BY <2>1 DEF Marking
<1>2. WithStatus(s, c, status) = IF s[c].status = "deleted" THEN s ELSE u
  BY DEF WithStatus, Marked
<1> HIDE DEF u
<1>3. CASE s[c].status = "deleted"
  <2>1. WithStatus(s, c, status) = s
    BY <1>2, <1>3
  <2> QED BY <1>3, <2>1 DEF Restated
<1>4. CASE s[c].status # "deleted"
  <2>1. WithStatus(s, c, status) = u
    BY <1>2, <1>4
  <2> QED BY <1>1, <1>4, <2>1 DEF Restated
<1> QED BY <1>3, <1>4

\* An entry is listed, unless there is one.
LEMMA EntryListed ==
  ASSUME NEW s \in Seq(Checkpoint), NEW c \in DOMAIN s, NEW f \in Files, NEW value \in Listed
  PROVE  LET u == WithEntry(s, c, f, value)
         IN  /\ u \in Seq(Checkpoint) /\ DOMAIN u = DOMAIN s
             /\ \A d \in DOMAIN s : /\ u[d].turn = s[d].turn /\ u[d].label = s[d].label
                                    /\ u[d].status = s[d].status
             /\ \A d \in DOMAIN s, g \in Files :
                   u[d].entries[g] = IF d = c /\ g = f /\ s[c].entries[f] = Nothing
                                     THEN value ELSE s[d].entries[g]
<1> DEFINE entries == [s[c].entries EXCEPT ![f] = value]
           r == [s[c] EXCEPT !.entries = entries]
           u == [s EXCEPT ![c] = r]
<1>1. s[c] \in Checkpoint /\ s[c].entries \in [Files -> Listed]
  BY RowFacts
<1>2. entries \in [Files -> Listed]
  BY <1>1
<1>3. \A g \in Files : entries[g] = IF g = f THEN value ELSE s[c].entries[g]
  BY <1>1
<1>4. [s EXCEPT ![c].entries[f] = value] = u
  BY <1>1
<1> HIDE DEF entries
<1>5. /\ r \in Checkpoint /\ r.turn = s[c].turn /\ r.label = s[c].label
      /\ r.entries = entries /\ r.status = s[c].status
  BY <1>1, <1>2 DEF Checkpoint, Listed
<1> HIDE DEF r
<1>6. u \in Seq(Checkpoint) /\ DOMAIN u = DOMAIN s
  BY <1>5
<1>7. \A d \in DOMAIN s : u[d] = IF d = c THEN r ELSE s[d]
  OBVIOUS
<1>8. WithEntry(s, c, f, value) = IF s[c].entries[f] = Nothing THEN u ELSE s
  BY <1>4 DEF WithEntry
<1> HIDE DEF u
<1>9. CASE s[c].entries[f] = Nothing
  <2>1. WithEntry(s, c, f, value) = u
    BY <1>8, <1>9
  <2>2. \A d \in DOMAIN s : /\ u[d].turn = s[d].turn /\ u[d].label = s[d].label
                            /\ u[d].status = s[d].status
    BY <1>5, <1>7
  <2>3. \A d \in DOMAIN s, g \in Files :
           u[d].entries[g] = IF d = c /\ g = f THEN value ELSE s[d].entries[g]
    BY <1>3, <1>5, <1>7
  <2> QED BY <1>6, <1>9, <2>1, <2>2, <2>3
<1>10. CASE s[c].entries[f] # Nothing
  <2>1. WithEntry(s, c, f, value) = s
    BY <1>8, <1>10
  <2> QED BY <1>10, <2>1
<1> QED BY <1>9, <1>10

\* A job goes on.
LEMMA JobMoved ==
  ASSUME job \in [Actors -> Job], NEW a \in Actors, NEW pc \in Pcs, Goto(a, pc)
  PROVE  /\ job' \in [Actors -> Job] /\ (\A b \in Actors \ {a} : job'[b] = job[b])
         /\ job'[a].pc = pc /\ job'[a].cp = job[a].cp /\ job'[a].undo = job[a].undo
         /\ job'[a].file = job[a].file /\ job'[a].bytes = job[a].bytes
<1> DEFINE j == [job[a] EXCEPT !.pc = pc]
<1>1. /\ j \in Job /\ j.pc = pc /\ j.cp = job[a].cp /\ j.undo = job[a].undo
      /\ j.file = job[a].file /\ j.bytes = job[a].bytes
  BY DEF Job, Pcs
<1>2. job' = [job EXCEPT ![a] = j]
  BY DEF Goto
<1> HIDE DEF j
<1> QED BY <1>1, <1>2

LEMMA JobSet ==
  ASSUME job \in [Actors -> Job], NEW a \in Actors, NEW j \in Job, job' = [job EXCEPT ![a] = j]
  PROVE  job' \in [Actors -> Job] /\ (\A b \in Actors \ {a} : job'[b] = job[b]) /\ job'[a] = j
OBVIOUS

-----------------------------------------------------------------------------
(* The work of an actor: a file is read, kept, and listed                  *)

Row(a) == IF a = Restorer THEN job[a].undo ELSE job[a].cp

\* What a step of an actor between the file and the row of it may do.
WorksRows(a) ==
    /\ DOMAIN store' = DOMAIN store
    /\ \A c \in DOMAIN store :
          /\ store'[c].turn = store[c].turn /\ store'[c].label = store[c].label
          /\ \/ store'[c].status = store[c].status
             \/ /\ store[c].turn = a /\ a \in partial'
                /\ store[c].status # "deleted" /\ store'[c].status = "superseded"
    /\ \A c \in DOMAIN store, f \in Files :
          \/ store'[c].entries[f] = store[c].entries[f]
          \/ /\ c = Row(a) /\ f = job[a].file /\ store[c].entries[f] = Nothing
             /\ store'[c].entries[f] \in Contents => store'[c].entries[f] \in blobs \cup swept
             /\ store'[c].entries[f] =
                   IF job[a].pc = "add" THEN job[a].bytes ELSE Pre(disk[f])

WorksOn(a) ==
    /\ job'[a].cp = job[a].cp /\ job'[a].undo = job[a].undo /\ job'[a].file = job[a].file
    /\ job'[a].pc # "none" /\ due' = due /\ todo' = todo /\ skipped' = skipped
    /\ exposed \subseteq exposed'
    /\ job'[a].pc = "read" => job[a].pc = "read"
    /\ job'[a].pc # "act" => store' = store
    /\ job'[a].pc \in InHand =>
          /\ job'[a].bytes \in Contents \ Large
          /\ job'[a].bytes = IF job[a].pc \in InHand THEN job[a].bytes ELSE disk[job[a].file]
    /\ job'[a].pc = "add" => job'[a].bytes \in blobs' \cup swept'
    /\ job'[a].pc = "act" /\ a \notin partial' /\ (a = Restorer => job[a].file \notin exposed') =>
          store'[Row(a)].entries[job[a].file] # Nothing

Works(a) ==
    /\ TypeOK'
    /\ UNCHANGED <<disk, turn, gc, origin, raced>>
    /\ \A b \in Actors \ {a} : job'[b] = job[b]
    /\ partial \subseteq partial' /\ partial' \subseteq partial \cup {a}
    /\ blobs \cup swept \subseteq blobs' \cup swept'
    /\ WorksRows(a)
    /\ WorksOn(a) \/ (a = Restorer /\ job'[a] = Idle)

\* The state around such a step.
Around ==
    /\ UNCHANGED <<disk, turn, writes, gc, boundVars, origin, raced>>
    /\ temps' \subseteq Actors /\ blobs' \subseteq Contents /\ swept' \subseteq Contents
    /\ blobs \cup swept \subseteq blobs' \cup swept'

LEMMA AroundType ==
  ASSUME TypeOK, Around, store' \in Seq(Checkpoint), job' \in [Actors -> Job],
         due' \subseteq Files, todo' \subseteq Files, skipped' \in BOOLEAN,
         exposed' \subseteq Files, partial' \subseteq Turns
  PROVE  TypeOK'
BY DEF TypeOK, Around, boundVars

\* The rows an actor works on.
LEMMA RowIsThere ==
  ASSUME CheckpointInv, NEW a \in Actors, job[a].pc # "none"
  PROVE  /\ Row(a) \in DOMAIN store
         /\ a \in Turns =>
               turn[a] = "running" /\ Row(a) = job[a].cp /\ store[Row(a)].turn = a
         /\ a = Restorer =>
               Restoring /\ Row(a) = job[a].undo /\ store[Row(a)].label = "Before-restore"
BY ActorFacts DEF CheckpointInv, JobsInv, Row

LEMMA CaptureFailsWorks ==
  ASSUME CheckpointInv, NEW t \in Turns, job[t].pc # "none", CaptureFails(t), Around,
         UNCHANGED <<due, todo, skipped, exposed>>
  PROVE  Works(t)
<1>1. TypeOK /\ t \in Actors /\ t # Restorer
  BY ActorFacts DEF CheckpointInv
<1>2. /\ store \in Seq(Checkpoint) /\ job \in [Actors -> Job] /\ partial \subseteq Turns
      /\ due \subseteq Files /\ todo \subseteq Files /\ skipped \in BOOLEAN
      /\ exposed \subseteq Files
  BY <1>1, TypeFacts
<1>3. "act" \in Pcs
  BY DEF Pcs
<1>4. Goto(t, "act") /\ partial' = partial \cup {t}
  BY DEF CaptureFails
<1>5. /\ job' \in [Actors -> Job] /\ (\A b \in Actors \ {t} : job'[b] = job[b])
      /\ job'[t].pc = "act" /\ job'[t].cp = job[t].cp /\ job'[t].undo = job[t].undo
      /\ job'[t].file = job[t].file /\ job'[t].bytes = job[t].bytes
  <2> DEFINE pc == "act"
  <2>1. pc \in Pcs /\ Goto(t, pc)
    BY <1>3, <1>4
  <2> HIDE DEF pc
  <2>2. /\ job' \in [Actors -> Job] /\ (\A b \in Actors \ {t} : job'[b] = job[b])
        /\ job'[t].pc = pc /\ job'[t].cp = job[t].cp /\ job'[t].undo = job[t].undo
        /\ job'[t].file = job[t].file /\ job'[t].bytes = job[t].bytes
    BY <1>1, <1>2, <2>1, JobMoved
  <2> QED BY <2>2 DEF pc
<1>6. /\ store' \in Seq(Checkpoint) /\ DOMAIN store' = DOMAIN store
      /\ \A c \in DOMAIN store :
            /\ store'[c].turn = store[c].turn /\ store'[c].label = store[c].label
            /\ store'[c].entries = store[c].entries
            /\ \/ store'[c].status = store[c].status
               \/ /\ store[c].turn = t /\ store[c].status # "deleted"
                  /\ store'[c].status = "superseded"
  <2>1. CASE ActiveOf(t) = {}
    BY <1>2, <2>1 DEF CaptureFails
  <2>2. CASE ActiveOf(t) # {}
    <3> DEFINE c == Newest(ActiveOf(t))
               status == "superseded"
               u == WithStatus(store, c, status)
    <3>1. Len(store) \in Nat /\ ActiveOf(t) \in SUBSET (1 .. Len(store))
      BY <1>2, RowFacts DEF ActiveOf
    <3>2. c \in ActiveOf(t)
      BY <2>2, <3>1, NewestIsIn
    <3>3. c \in DOMAIN store /\ store[c].turn = t /\ status \in Statuses
      BY <3>2 DEF ActiveOf, Statuses
    <3>4. store' = u
      BY <2>2 DEF CaptureFails
    <3> HIDE DEF c, status
    <3>5. /\ Restated(store, u)
          /\ \A d \in DOMAIN store : u[d].status = IF d = c /\ store[c].status # "deleted"
                                                   THEN status ELSE store[d].status
      BY <1>2, <3>3, StatusRestated
    <3> HIDE DEF u
    <3> QED BY <3>3, <3>4, <3>5 DEF Restated, status
  <2> QED BY <2>1, <2>2
<1>7. TypeOK'
  BY <1>1, <1>2, <1>4, <1>5, <1>6, AroundType
<1>8. WorksRows(t)
  BY <1>4, <1>6 DEF WorksRows
<1>9. WorksOn(t)
  BY <1>4, <1>5 DEF WorksOn, InHand
<1> QED BY <1>4, <1>5, <1>7, <1>8, <1>9 DEF Works, Around

LEMMA KeepingFailsWorks ==
  ASSUME CheckpointInv, NEW a \in Actors, job[a].pc # "none", KeepingFails(a), Around
  PROVE  Works(a)
<1>1. CASE a = Restorer
  <2>1. TypeOK
    BY DEF CheckpointInv
  <2>2. /\ store \in Seq(Checkpoint) /\ job \in [Actors -> Job] /\ partial \subseteq Turns
    BY <2>1, TypeFacts
  <2>3. /\ job' = [job EXCEPT ![a] = Idle] /\ due' = {} /\ todo' = {} /\ skipped' = FALSE
        /\ exposed' = {} /\ UNCHANGED <<store, partial>>
    BY <1>1 DEF KeepingFails, SnapshotThrows, RestoreGone
  <2>4. job' \in [Actors -> Job] /\ (\A b \in Actors \ {a} : job'[b] = job[b]) /\ job'[a] = Idle
    BY <2>2, <2>3, IdleFacts, JobSet
  <2>5. TypeOK'
    BY <2>1, <2>2, <2>3, <2>4, AroundType
  <2>6. WorksRows(a)
    BY <2>3 DEF WorksRows
  <2> QED BY <1>1, <2>3, <2>4, <2>5, <2>6 DEF Works, Around
<1>2. CASE a # Restorer
  <2>1. a \in Turns
    BY <1>2, ActorFacts
  <2>2. CaptureFails(a) /\ UNCHANGED <<due, todo, skipped, exposed>>
    BY <1>2 DEF KeepingFails, restoreVars
  <2> QED BY <2>1, <2>2, CaptureFailsWorks
<1> QED BY <1>1, <1>2

LEMMA ListsWorks ==
  ASSUME CheckpointInv, NEW a \in Actors, job[a].pc # "none",
         NEW value \in Listed, value # Nothing,
         value = IF job[a].pc = "add" THEN job[a].bytes ELSE Pre(disk[job[a].file]),
         value \in Contents => value \in blobs \cup swept,
         Lists(a, value), Around
  PROVE  Works(a)
<1> DEFINE c == Row(a)
           f == job[a].file
           u == WithEntry(store, c, f, value)
<1>1. CASE store[c].status = "deleted"
  <2>1. KeepingFails(a)
    BY <1>1 DEF Lists, Row
  <2> QED BY <2>1, KeepingFailsWorks
<1>2. CASE store[c].status # "deleted"
  <2>1. TypeOK /\ c \in DOMAIN store
    BY RowIsThere DEF CheckpointInv
  <2>2. /\ store \in Seq(Checkpoint) /\ job \in [Actors -> Job] /\ partial \subseteq Turns
        /\ due \subseteq Files /\ todo \subseteq Files /\ skipped \in BOOLEAN
        /\ exposed \subseteq Files
    BY <2>1, TypeFacts
  <2>3. f \in Files
    BY <2>2, JobFacts
  <2>4. /\ store' = u /\ Goto(a, "act") /\ UNCHANGED <<due, todo, skipped, exposed, partial>>
    BY <1>2 DEF Lists, Row, restoreVars
  <2>5. /\ job' \in [Actors -> Job] /\ (\A b \in Actors \ {a} : job'[b] = job[b])
        /\ job'[a].pc = "act" /\ job'[a].cp = job[a].cp /\ job'[a].undo = job[a].undo
        /\ job'[a].file = job[a].file /\ job'[a].bytes = job[a].bytes
    <3> DEFINE pc == "act"
    <3>1. pc \in Pcs /\ Goto(a, pc)
      BY <2>4 DEF Pcs
    <3> HIDE DEF pc
    <3>2. /\ job' \in [Actors -> Job] /\ (\A b \in Actors \ {a} : job'[b] = job[b])
          /\ job'[a].pc = pc /\ job'[a].cp = job[a].cp /\ job'[a].undo = job[a].undo
          /\ job'[a].file = job[a].file /\ job'[a].bytes = job[a].bytes
      BY <2>2, <3>1, JobMoved
    <3> QED BY <3>2 DEF pc
  <2> HIDE DEF c, f
  <2>6. /\ u \in Seq(Checkpoint) /\ DOMAIN u = DOMAIN store
        /\ \A d \in DOMAIN store : /\ u[d].turn = store[d].turn /\ u[d].label = store[d].label
                                   /\ u[d].status = store[d].status
        /\ \A d \in DOMAIN store, g \in Files :
              u[d].entries[g] = IF d = c /\ g = f /\ store[c].entries[f] = Nothing
                                THEN value ELSE store[d].entries[g]
    BY <2>1, <2>2, <2>3, EntryListed
  <2> HIDE DEF u
  <2>7. TypeOK'
    BY <2>1, <2>2, <2>4, <2>5, <2>6, AroundType
  <2>8. WorksRows(a)
    BY <2>4, <2>6 DEF WorksRows, c, f
  <2>9. store'[c].entries[f] # Nothing
    BY <2>1, <2>3, <2>4, <2>6
  <2>10. WorksOn(a)
    BY <2>4, <2>5, <2>9 DEF WorksOn, InHand, c, f
  <2> QED BY <2>4, <2>5, <2>7, <2>8, <2>10 DEF Works, Around
<1> QED BY <1>1, <1>2

\* A step that touches no row.
LEMMA JobWorks ==
  ASSUME CheckpointInv, NEW a \in Actors, job[a].pc # "none", Around,
         UNCHANGED <<store, partial>>, job' \in [Actors -> Job], exposed' \subseteq Files,
         \A b \in Actors \ {a} : job'[b] = job[b], WorksOn(a)
  PROVE  Works(a)
<1>1. TypeOK
  BY DEF CheckpointInv
<1>2. /\ store \in Seq(Checkpoint) /\ partial \subseteq Turns
      /\ due \subseteq Files /\ todo \subseteq Files /\ skipped \in BOOLEAN
  BY <1>1, TypeFacts
<1>3. due' = due /\ todo' = todo /\ skipped' = skipped
  BY DEF WorksOn
<1>4. TypeOK'
  BY <1>1, <1>2, <1>3, AroundType
<1>5. WorksRows(a)
  BY DEF WorksRows
<1> QED BY <1>4, <1>5 DEF Works, Around

LEMMA ReadBytesWorks ==
  ASSUME CheckpointInv, NEW a \in Actors, ReadBytes(a)
  PROVE  Works(a)
<1> DEFINE f == job[a].file
           bytes == disk[f]
<1>1. TypeOK
  BY DEF CheckpointInv
<1>2. job \in [Actors -> Job] /\ disk \in [Files -> Bytes] /\ exposed \subseteq Files
  BY <1>1, TypeFacts
<1>3. f \in Files /\ bytes \in Bytes
  BY <1>2, JobFacts
<1>4. job[a].pc = "read" /\ Around
  BY <1>1, TypeFacts DEF ReadBytes, Around, fileVars, turnVars, pastVars
<1>5. CASE bytes = Absent \/ bytes \in Large
  <2> DEFINE value == IF bytes = Absent THEN Absent ELSE TooLarge
  <2>1. Lists(a, value)
    BY <1>5 DEF ReadBytes
  <2>2. /\ value \in Listed /\ value # Nothing /\ value \notin Contents /\ value = Pre(bytes)
    BY <1>5, ValueFacts DEF Listed, Pre
  <2> HIDE DEF value
  <2>3. /\ job[a].pc # "none" /\ (value \in Contents => value \in blobs \cup swept)
        /\ value = IF job[a].pc = "add" THEN job[a].bytes ELSE Pre(disk[job[a].file])
    BY <1>4, <2>2
  <2> QED BY <1>4, <2>1, <2>2, <2>3, ListsWorks
<1>6. CASE ~(bytes = Absent \/ bytes \in Large)
  <2> DEFINE j == [job[a] EXCEPT !.pc = "put", !.bytes = bytes]
  <2>1. bytes \in Contents \ Large
    BY <1>3, <1>6, ValueFacts
  <2>2. /\ j \in Job /\ j.pc = "put" /\ j.bytes = bytes /\ j.cp = job[a].cp
        /\ j.undo = job[a].undo /\ j.file = f
    BY <1>2, <1>3 DEF Job
  <2>3. job' = [job EXCEPT ![a] = j] /\ UNCHANGED <<store, due, todo, skipped, exposed, partial>>
    BY <1>2, <1>6 DEF ReadBytes, restoreVars
  <2> HIDE DEF j
  <2>4. job' \in [Actors -> Job] /\ (\A b \in Actors \ {a} : job'[b] = job[b]) /\ job'[a] = j
    BY <1>2, <2>2, <2>3, JobSet
  <2>5. WorksOn(a)
    BY <1>4, <2>1, <2>2, <2>3, <2>4 DEF WorksOn, InHand
  <2>6. exposed' \subseteq Files
    BY <1>2, <2>3
  <2> QED BY <1>4, <2>3, <2>4, <2>5, <2>6, JobWorks
<1> QED BY <1>5, <1>6

LEMMA ReadFailsWorks ==
  ASSUME CheckpointInv, NEW a \in Actors, ReadFails(a)
  PROVE  Works(a)
<1>1. TypeOK
  BY DEF CheckpointInv
<1>2. job \in [Actors -> Job] /\ exposed \subseteq Files
  BY <1>1, TypeFacts
<1>3. job[a].pc = "read" /\ Around
  BY <1>1, TypeFacts DEF ReadFails, Around, fileVars, turnVars, pastVars
<1>4. CASE a = Restorer
  <2> DEFINE pc == "act"
  <2>1. /\ pc \in Pcs /\ Goto(a, pc) /\ exposed' = exposed \cup {job[a].file}
        /\ UNCHANGED <<store, due, todo, skipped, partial>>
    BY <1>4 DEF ReadFails, Pcs
  <2> HIDE DEF pc
  <2>2. /\ job' \in [Actors -> Job] /\ (\A b \in Actors \ {a} : job'[b] = job[b])
        /\ job'[a].pc = pc /\ job'[a].cp = job[a].cp /\ job'[a].undo = job[a].undo
        /\ job'[a].file = job[a].file /\ job'[a].bytes = job[a].bytes
    BY <1>2, <2>1, JobMoved
  <2>3. WorksOn(a)
    BY <1>3, <1>4, <2>1, <2>2 DEF WorksOn, InHand, pc
  <2>4. exposed' \subseteq Files
    BY <1>2, <2>1, JobFacts
  <2> QED BY <1>3, <2>1, <2>2, <2>3, <2>4, JobWorks
<1>5. CASE a # Restorer
  <2>1. a \in Turns
    BY <1>5, ActorFacts
  <2>2. CaptureFails(a) /\ UNCHANGED <<due, todo, skipped, exposed>>
    BY <1>5 DEF ReadFails, restoreVars
  <2> QED BY <1>3, <2>1, <2>2, CaptureFailsWorks
<1> QED BY <1>4, <1>5

LEMMA PutBeginsWorks ==
  ASSUME CheckpointInv, NEW a \in Actors, PutBegins(a)
  PROVE  Works(a)
<1> DEFINE pc == IF job[a].bytes \in blobs THEN "add" ELSE "rename"
<1>1. TypeOK
  BY DEF CheckpointInv
<1>2. job \in [Actors -> Job] /\ temps \subseteq Actors /\ exposed \subseteq Files
  BY <1>1, TypeFacts
<1>3. job[a].pc = "put" /\ Around
  BY <1>1, TypeFacts DEF PutBegins, Around, turnVars, pastVars
<1>4. pc \in Pcs /\ Goto(a, pc) /\ UNCHANGED <<store, due, todo, skipped, exposed, partial, blobs,
                                               swept>>
  BY DEF PutBegins, Pcs, restoreVars, pastVars
<1>5. /\ pc \in {"add", "rename"}
      /\ pc = "add" => job[a].bytes \in blobs
  OBVIOUS
<1> HIDE DEF pc
<1>6. /\ job' \in [Actors -> Job] /\ (\A b \in Actors \ {a} : job'[b] = job[b])
      /\ job'[a].pc = pc /\ job'[a].cp = job[a].cp /\ job'[a].undo = job[a].undo
      /\ job'[a].file = job[a].file /\ job'[a].bytes = job[a].bytes
  BY <1>2, <1>4, JobMoved
<1>7. job[a].bytes \in Contents \ Large
  BY <1>3 DEF CheckpointInv, BytesInv
<1>8. WorksOn(a)
  <2>1. job'[a].pc # "none" /\ job'[a].pc # "read" /\ job'[a].pc # "act"
    BY <1>5, <1>6
  <2>2. /\ job'[a].bytes \in Contents \ Large /\ job[a].pc \in InHand
        /\ job'[a].pc = "add" => job'[a].bytes \in blobs' \cup swept'
    BY <1>3, <1>4, <1>5, <1>6, <1>7 DEF InHand
  <2>3. UNCHANGED <<due, todo, skipped, exposed, store>>
    BY <1>4
  <2> QED BY <1>6, <2>1, <2>2, <2>3 DEF WorksOn
<1>9. exposed' \subseteq Files
  BY <1>2, <1>4
<1> QED BY <1>3, <1>4, <1>6, <1>8, <1>9, JobWorks

LEMMA PutFailsWorks ==
  ASSUME CheckpointInv, NEW a \in Actors, PutFails(a)
  PROVE  Works(a)
<1>1. TypeOK
  BY DEF CheckpointInv
<1>2. job[a].pc # "none" /\ Around /\ KeepingFails(a)
  BY <1>1, TypeFacts DEF PutFails, Around, fileVars, turnVars, pastVars
<1> QED BY <1>2, KeepingFailsWorks

LEMMA PutRenamesWorks ==
  ASSUME CheckpointInv, NEW a \in Actors, PutRenames(a)
  PROVE  Works(a)
<1> DEFINE bytes == job[a].bytes
<1>1. TypeOK
  BY DEF CheckpointInv
<1>2. /\ job \in [Actors -> Job] /\ temps \subseteq Actors
      /\ blobs \subseteq Contents /\ swept \subseteq Contents /\ exposed \subseteq Files
  BY <1>1, TypeFacts
<1>3. job[a].pc = "rename" /\ temps' = temps \ {a}
      /\ UNCHANGED <<disk, turn, writes, gc, boundVars, origin, raced>>
  BY DEF PutRenames, turnVars
<1>4. bytes \in Contents \ Large
  BY <1>3 DEF CheckpointInv, BytesInv
<1> HIDE DEF bytes
<1>5. CASE a \in temps \/ bytes \in blobs
  <2>1. /\ blobs' = IF a \in temps THEN blobs \cup {bytes} ELSE blobs
        /\ swept' = IF a \in temps THEN swept \ {bytes} ELSE swept
        /\ UNCHANGED <<store, due, todo, skipped, exposed, partial>>
    BY <1>5 DEF PutRenames, restoreVars, bytes
  <2>2. Around /\ bytes \in blobs'
    BY <1>2, <1>3, <1>4, <1>5, <2>1 DEF Around
  <2> DEFINE pc == "add"
  <2>3. pc \in Pcs /\ Goto(a, pc)
    BY <1>5 DEF PutRenames, Pcs, bytes
  <2> HIDE DEF pc
  <2>4. /\ job' \in [Actors -> Job] /\ (\A b \in Actors \ {a} : job'[b] = job[b])
        /\ job'[a].pc = pc /\ job'[a].cp = job[a].cp /\ job'[a].undo = job[a].undo
        /\ job'[a].file = job[a].file /\ job'[a].bytes = job[a].bytes
    BY <1>2, <2>3, JobMoved
  <2>5. WorksOn(a)
    BY <1>3, <1>4, <2>1, <2>2, <2>4 DEF WorksOn, InHand, pc, bytes
  <2>6. job[a].pc # "none" /\ exposed' \subseteq Files
    BY <1>2, <1>3, <2>1
  <2> QED BY <2>1, <2>2, <2>4, <2>5, <2>6, JobWorks
<1>6. CASE ~(a \in temps \/ bytes \in blobs)
  <2>1. KeepingFails(a) /\ UNCHANGED <<blobs, swept>>
    BY <1>6 DEF PutRenames, bytes
  <2>2. Around /\ job[a].pc # "none"
    BY <1>2, <1>3, <2>1 DEF Around
  <2> QED BY <2>1, <2>2, KeepingFailsWorks
<1> QED BY <1>5, <1>6

LEMMA ListBlobWorks ==
  ASSUME CheckpointInv, NEW a \in Actors, ListBlob(a)
  PROVE  Works(a)
<1> DEFINE value == job[a].bytes
<1>1. TypeOK
  BY DEF CheckpointInv
<1>2. job[a].pc = "add" /\ Around /\ Lists(a, value)
  BY <1>1, TypeFacts DEF ListBlob, Around, fileVars, turnVars, pastVars
<1>3. value \in Contents \ Large /\ value \in blobs \cup swept
  BY <1>2 DEF CheckpointInv, BytesInv
<1>4. value \in Listed /\ value # Nothing
  BY <1>3, ValueFacts DEF Listed
<1>5. /\ job[a].pc # "none" /\ (value \in Contents => value \in blobs \cup swept)
      /\ value = IF job[a].pc = "add" THEN job[a].bytes ELSE Pre(disk[job[a].file])
  BY <1>2, <1>3
<1> HIDE DEF value
<1> QED BY <1>2, <1>4, <1>5, ListsWorks

-----------------------------------------------------------------------------
(* The invariant is kept                                                   *)

LEMMA InvFacts ==
  ASSUME CheckpointInv
  PROVE  /\ TypeOK /\ JobsInv /\ BytesInv /\ GcInv /\ RowsInv /\ OriginInv
         /\ BackedBy(blobs \cup swept)
BY DEF CheckpointInv

\* Nobody is at work as long as the collection has not begun, nor while it goes on
\* with nobody beside it.
LEMMA WorkIsBeside ==
  ASSUME CheckpointInv, NEW a \in Actors, job[a].pc # "none"
  PROVE  gc.pc # "start" /\ (gc.pc = "sweep" => gc.beside)
<1>1. ~Quiet
  BY RowIsThere, ActorFacts DEF Quiet
<1> QED BY <1>1 DEF CheckpointInv, GcInv

LEMMA WorkKeeps ==
  ASSUME CheckpointInv, NEW a \in Actors, job[a].pc # "none", Works(a)
  PROVE  CheckpointInv'
<1>1. /\ TypeOK /\ JobsInv /\ BytesInv /\ GcInv /\ RowsInv /\ OriginInv
      /\ BackedBy(blobs \cup swept) /\ TypeOK'
  BY InvFacts DEF Works
<1>2. /\ UNCHANGED <<disk, turn, gc, origin>>
      /\ \A b \in Actors \ {a} : job'[b] = job[b]
      /\ partial \subseteq partial' /\ partial' \subseteq partial \cup {a}
      /\ blobs \cup swept \subseteq blobs' \cup swept'
      /\ WorksRows(a)
      /\ WorksOn(a) \/ (a = Restorer /\ job'[a] = Idle)
  BY DEF Works
<1>3. /\ DOMAIN store' = DOMAIN store
      /\ \A c \in DOMAIN store :
            /\ store'[c].turn = store[c].turn /\ store'[c].label = store[c].label
            /\ \/ store'[c].status = store[c].status
               \/ /\ store[c].turn = a /\ a \in partial'
                  /\ store[c].status # "deleted" /\ store'[c].status = "superseded"
  BY <1>2 DEF WorksRows
<1>4. \A c \in DOMAIN store, f \in Files :
         \/ store'[c].entries[f] = store[c].entries[f]
         \/ /\ store[c].entries[f] = Nothing
            /\ store'[c].entries[f] \in Contents => store'[c].entries[f] \in blobs \cup swept
  BY <1>2 DEF WorksRows
<1>5. \/ /\ job'[a].cp = job[a].cp /\ job'[a].undo = job[a].undo
         /\ job'[a].file = job[a].file /\ job'[a].pc # "none"
      \/ a = Restorer /\ job'[a].pc = "none" /\ job'[a].undo = 0
  BY <1>2, IdleFacts DEF WorksOn
<1>6. JobsInv'
  <2>1. ASSUME NEW t \in Turns, job'[t].pc # "none"
        PROVE  turn[t] = "running" /\ job'[t].cp \in DOMAIN store /\ store[job'[t].cp].turn = t
    <3>1. t \in Actors /\ t # Restorer
      BY ActorFacts
    <3>2. job'[t].cp = job[t].cp /\ job[t].pc # "none"
      BY <1>2, <1>5, <2>1, <3>1
    <3> QED BY <1>1, <3>2 DEF JobsInv
  <2>2. \A t \in Turns : job'[t].pc # "none" =>
           turn'[t] = "running" /\ job'[t].cp \in DOMAIN store' /\ store'[job'[t].cp].turn = t
    BY <1>2, <1>3, <2>1
  <2>3. job'[Restorer].undo # 0 =>
           job'[Restorer].cp = job[Restorer].cp /\ job'[Restorer].undo = job[Restorer].undo
    BY <1>2, <1>5, ActorFacts
  <2>4. job'[Restorer].undo # 0 =>
           /\ job[Restorer].cp \in DOMAIN store /\ job[Restorer].undo \in DOMAIN store
           /\ job[Restorer].cp # job[Restorer].undo
           /\ store[job[Restorer].undo].turn = store[job[Restorer].cp].turn
           /\ store[job[Restorer].undo].label = "Before-restore"
    BY <1>1, <2>3 DEF JobsInv, Restoring
  <2>5. job'[Restorer].undo # 0 =>
           /\ job'[Restorer].cp \in DOMAIN store' /\ job'[Restorer].undo \in DOMAIN store'
           /\ job'[Restorer].cp # job'[Restorer].undo
           /\ store'[job'[Restorer].undo].turn = store'[job'[Restorer].cp].turn
           /\ store'[job'[Restorer].undo].label = "Before-restore"
    BY <1>3, <2>3, <2>4
  <2>6. job'[Restorer].pc # "none" => job'[Restorer].undo # 0
    <3>1. job[Restorer].pc # "none" => job[Restorer].undo # 0
      BY <1>1 DEF JobsInv, Restoring
    <3>2. CASE a = Restorer
      BY <1>5, <3>1, <3>2
    <3>3. CASE a # Restorer
      BY <1>2, <3>1, <3>3, ActorFacts
    <3> QED BY <3>2, <3>3
  <2> QED BY <2>2, <2>5, <2>6 DEF JobsInv, Restoring
<1>7. BytesInv'
  <2>1. \A x \in Actors \ {a} :
           /\ job'[x].pc \in {"put", "rename", "add"} => job'[x].bytes \in Contents \ Large
           /\ job'[x].pc = "add" => job'[x].bytes \in blobs' \cup swept'
    BY <1>1, <1>2 DEF BytesInv
  <2>2. /\ job'[a].pc \in {"put", "rename", "add"} => job'[a].bytes \in Contents \ Large
        /\ job'[a].pc = "add" => job'[a].bytes \in blobs' \cup swept'
    BY <1>2, IdleFacts DEF WorksOn, InHand
  <2> QED BY <2>1, <2>2 DEF BytesInv
<1>8. BackedBy(blobs \cup swept)'
  <2>1. \A c \in DOMAIN store, f \in Files :
           store[c].status # "deleted" /\ store[c].entries[f] \in Contents =>
              store[c].entries[f] \in blobs \cup swept
    BY <1>1 DEF BackedBy
  <2>2. \A c \in DOMAIN store : store'[c].status # "deleted" => store[c].status # "deleted"
    BY <1>3
  <2>3. ASSUME NEW c \in DOMAIN store, NEW f \in Files,
               store'[c].status # "deleted", store'[c].entries[f] \in Contents
        PROVE  store'[c].entries[f] \in blobs' \cup swept'
    <3>1. store'[c].entries[f] \in blobs \cup swept
      BY <1>4, <2>1, <2>2, <2>3
    <3> QED BY <1>2, <3>1
  <2> QED BY <1>3, <2>3 DEF BackedBy
<1>9. GcInv'
  <2>1. gc.pc # "start" /\ (gc.pc = "sweep" => gc.beside)
    BY WorkIsBeside
  <2> QED BY <1>2, <2>1 DEF GcInv
<1>10. RowsInv'
  <2>1. \A c \in DOMAIN store' :
           /\ turn'[store'[c].turn] # "idle"
           /\ turn'[store'[c].turn] = "running" /\ store'[c].turn \notin partial' =>
                 store'[c].label = "Before-this-turn" /\ store'[c].status = "active"
    BY <1>1, <1>2, <1>3 DEF RowsInv
  <2>2. \A c, d \in DOMAIN store' :
           /\ store'[c].turn \notin partial' /\ store'[d].turn = store'[c].turn
           /\ store'[c].label = "Before-this-turn" /\ store'[d].label = "Before-this-turn"
           => c = d
    BY <1>1, <1>2, <1>3 DEF RowsInv
  <2> QED BY <2>1, <2>2 DEF RowsInv
<1>11. OriginInv'
  <2>1. ASSUME NEW t \in Turns, t \notin partial', NEW f \in Files, origin[t][f] # Nothing
        PROVE  \E c \in DOMAIN store' : /\ store'[c].turn = t
                                        /\ store'[c].label = "Before-this-turn"
                                        /\ store'[c].entries[f] # Nothing
    <3>1. t \notin partial
      BY <1>2, <2>1
    <3>2. PICK c \in DOMAIN store : /\ store[c].turn = t /\ store[c].label = "Before-this-turn"
                                    /\ store[c].entries[f] # Nothing
      BY <1>1, <2>1, <3>1 DEF OriginInv
    <3>3. store'[c].entries[f] # Nothing
      BY <1>4, <3>2
    <3> QED BY <1>3, <3>2, <3>3
  <2>2. ASSUME NEW t \in Turns, t \notin partial', job'[t].pc = "act"
        PROVE  store'[job'[t].cp].entries[job'[t].file] # Nothing
    <3>1. t \in Actors /\ t # Restorer /\ t \notin partial
      BY <1>2, <2>2, ActorFacts
    <3>2. CASE t = a
      <4>1. WorksOn(a) /\ Row(a) = job[a].cp
        BY <1>2, <3>1, <3>2 DEF Row
      <4> QED BY <2>2, <3>1, <3>2, <4>1 DEF WorksOn
    <3>3. CASE t # a
      <4>1. job'[t] = job[t]
        BY <1>2, <3>1, <3>3
      <4>2. store[job[t].cp].entries[job[t].file] # Nothing /\ job[t].cp \in DOMAIN store
        <5>1. job[t].pc = "act" /\ t \in Turns \ partial
          BY <2>2, <3>1, <4>1
        <5>2. store[job[t].cp].entries[job[t].file] # Nothing
          BY <1>1, <5>1 DEF OriginInv
        <5>3. job[t].cp \in DOMAIN store
          BY <1>1, <5>1 DEF JobsInv
        <5> QED BY <5>2, <5>3
      <4>3. job[t].file \in Files
        BY <1>1, <3>1, TypeFacts, JobFacts
      <4> QED BY <1>4, <4>1, <4>2, <4>3
    <3> QED BY <3>2, <3>3
  <2>3. \A t \in Turns \ partial' :
           /\ \A f \in Files : origin'[t][f] # Nothing =>
                 \E c \in DOMAIN store' : /\ store'[c].turn = t
                                          /\ store'[c].label = "Before-this-turn"
                                          /\ store'[c].entries[f] # Nothing
           /\ job'[t].pc = "act" => store'[job'[t].cp].entries[job'[t].file] # Nothing
    BY <1>2, <2>1, <2>2
  <2> QED BY <2>3 DEF OriginInv
<1> QED BY <1>1, <1>6, <1>7, <1>8, <1>9, <1>10, <1>11 DEF CheckpointInv

\* The parts of the invariant, of one actor or one turn.
LEMMA TurnJob ==
  ASSUME CheckpointInv, NEW t \in Turns, job[t].pc # "none"
  PROVE  turn[t] = "running" /\ job[t].cp \in DOMAIN store /\ store[job[t].cp].turn = t
BY DEF CheckpointInv, JobsInv

\* The row of a turn all of whose captures succeeded.
LEMMA TurnRow ==
  ASSUME CheckpointInv, NEW t \in Turns, t \notin partial, job[t].pc # "none"
  PROVE  store[job[t].cp].label = "Before-this-turn" /\ store[job[t].cp].status = "active"
BY TurnJob, InvFacts DEF RowsInv

LEMMA RestoreJob ==
  ASSUME CheckpointInv, job[Restorer].undo # 0
  PROVE  /\ job[Restorer].cp \in DOMAIN store /\ job[Restorer].undo \in DOMAIN store
         /\ job[Restorer].cp # job[Restorer].undo
         /\ store[job[Restorer].undo].turn = store[job[Restorer].cp].turn
         /\ store[job[Restorer].undo].label = "Before-restore"
BY DEF CheckpointInv, JobsInv, Restoring

\* A turn that runs beside its own restore counts as one of which a capture failed.
LEMMA RestoredTurn ==
  ASSUME CheckpointInv, job[Restorer].undo # 0, turn[store[job[Restorer].cp].turn] = "running"
  PROVE  store[job[Restorer].cp].turn \in partial
BY RestoreJob, InvFacts DEF RowsInv

LEMMA OriginOf ==
  ASSUME CheckpointInv, NEW t \in Turns, t \notin partial, NEW f \in Files, origin[t][f] # Nothing
  PROVE  \E c \in DOMAIN store : /\ store[c].turn = t /\ store[c].label = "Before-this-turn"
                                 /\ store[c].entries[f] # Nothing
BY DEF CheckpointInv, OriginInv

LEMMA ActOf ==
  ASSUME CheckpointInv, NEW t \in Turns, t \notin partial, job[t].pc = "act"
  PROVE  store[job[t].cp].entries[job[t].file] # Nothing
BY DEF CheckpointInv, OriginInv

\* A turn or a restore that begins is beside a collection that goes on.
LEMMA OpenedFacts ==
  ASSUME TypeOK, Opened
  PROVE  /\ gc.pc # "start" /\ gc'.pc = gc.pc /\ gc'.refs = gc.refs
         /\ gc'.pc = "sweep" => gc'.beside
         /\ gc' \in [pc: {"start", "sweep", "done"}, refs: SUBSET Contents, beside: BOOLEAN]
BY TypeFacts DEF Opened

LEMMA StartTurnKeeps ==
  ASSUME CheckpointInv, NEW t \in Turns, StartTurn(t)
  PROVE  CheckpointInv'
<1>1. /\ TypeOK /\ JobsInv /\ BytesInv /\ GcInv /\ RowsInv /\ OriginInv
      /\ BackedBy(blobs \cup swept)
  BY InvFacts
<1>2. /\ turn[t] = "idle" /\ Opened /\ turn' = [turn EXCEPT ![t] = "running"]
      /\ UNCHANGED <<disk, blobs, temps, store, writes, job, due, todo, skipped, exposed,
                     restores, crashes, origin, partial, raced, swept>>
  BY DEF StartTurn, fileVars, restoreVars, boundVars, pastVars
<1>3. turn \in [Turns -> {"idle", "running", "over"}]
  BY <1>1, TypeFacts
<1>4. /\ turn' \in [Turns -> {"idle", "running", "over"}] /\ turn'[t] = "running"
      /\ \A u \in Turns \ {t} : turn'[u] = turn[u]
  BY <1>2, <1>3
<1>5. /\ gc.pc # "start" /\ gc'.pc = gc.pc
      /\ gc'.pc = "sweep" => gc'.beside
      /\ gc' \in [pc: {"start", "sweep", "done"}, refs: SUBSET Contents, beside: BOOLEAN]
  BY <1>1, <1>2, OpenedFacts
<1>6. TypeOK'
  BY <1>1, <1>2, <1>4, <1>5, TypeFacts DEF TypeOK
<1>7. \A c \in DOMAIN store : store[c].turn \in Turns \ {t}
  BY <1>1, <1>2, TypeFacts, RowFacts DEF RowsInv
<1>8. JobsInv'
  <2>1. \A u \in Turns : job[u].pc # "none" => turn'[u] = "running"
    BY <1>4, TurnJob
  <2>2. job' = job /\ store' = store
    BY <1>2
  <2> QED BY <1>1, <2>1, <2>2 DEF JobsInv, Restoring
<1>9. BytesInv' /\ BackedBy(blobs \cup swept)'
  BY <1>1, <1>2 DEF BytesInv, BackedBy
<1>10. GcInv'
  BY <1>5 DEF GcInv
<1>11. RowsInv'
  <2>1. \A c \in DOMAIN store : turn'[store[c].turn] = turn[store[c].turn]
    BY <1>4, <1>7
  <2>2. store' = store /\ partial' = partial
    BY <1>2
  <2> QED BY <1>1, <2>1, <2>2 DEF RowsInv
<1>12. OriginInv'
  BY <1>1, <1>2 DEF OriginInv
<1> QED BY <1>6, <1>8, <1>9, <1>10, <1>11, <1>12 DEF CheckpointInv

LEMMA EndTurnKeeps ==
  ASSUME CheckpointInv, NEW t \in Turns, EndTurn(t)
  PROVE  CheckpointInv'
<1>1. /\ TypeOK /\ JobsInv /\ BytesInv /\ GcInv /\ RowsInv /\ OriginInv
      /\ BackedBy(blobs \cup swept)
  BY InvFacts
<1>2. /\ turn[t] = "running" /\ job[t].pc = "none" /\ turn' = [turn EXCEPT ![t] = "over"]
      /\ UNCHANGED <<disk, blobs, temps, store, writes, job, due, todo, skipped, exposed, gc,
                     restores, crashes, origin, partial, raced, swept>>
  BY DEF EndTurn, fileVars, restoreVars, boundVars, pastVars
<1>3. turn \in [Turns -> {"idle", "running", "over"}]
  BY <1>1, TypeFacts
<1>4. /\ turn' \in [Turns -> {"idle", "running", "over"}] /\ turn'[t] = "over"
      /\ \A u \in Turns \ {t} : turn'[u] = turn[u]
  BY <1>2, <1>3
<1>5. TypeOK'
  BY <1>1, <1>2, <1>4, TypeFacts DEF TypeOK
<1>6. /\ \A u \in Turns : turn'[u] = "idle" => turn[u] = "idle"
      /\ \A u \in Turns : turn'[u] = "running" => turn[u] = "running"
      /\ \A u \in Turns : job[u].pc # "none" => turn'[u] = turn[u]
  BY <1>2, <1>4
<1>7. \A c \in DOMAIN store : store[c].turn \in Turns
  BY <1>1, TypeFacts, RowFacts
<1>8. job' = job /\ store' = store /\ partial' = partial /\ gc' = gc
  BY <1>2
<1>9. JobsInv'
  <2>1. \A u \in Turns : job[u].pc # "none" => turn'[u] = "running"
    BY <1>6, TurnJob
  <2> QED BY <1>1, <1>8, <2>1 DEF JobsInv, Restoring
<1>10. BytesInv' /\ BackedBy(blobs \cup swept)'
  BY <1>1, <1>2 DEF BytesInv, BackedBy
<1>11. GcInv'
  BY <1>1, <1>6, <1>8 DEF GcInv, Quiet, Restoring, BackedBy
<1>12. RowsInv'
  BY <1>1, <1>6, <1>7, <1>8 DEF RowsInv
<1>13. OriginInv'
  <2>1. origin' = origin /\ job' = job /\ store' = store /\ partial' = partial
    BY <1>2
  <2> QED BY <1>1, <2>1 DEF OriginInv
<1> QED BY <1>5, <1>9, <1>10, <1>11, <1>12, <1>13 DEF CheckpointInv

\* What the invariant asks of the rows of one turn.
OriginKnown(t, g) ==
    origin[t][g] # Nothing =>
        \E c \in DOMAIN store : /\ store[c].turn = t /\ store[c].label = "Before-this-turn"
                                /\ store[c].entries[g] # Nothing

Listing(t) == job[t].pc = "act" => store[job[t].cp].entries[job[t].file] # Nothing

OriginParts == \A t \in Turns \ partial : (\A g \in Files : OriginKnown(t, g)) /\ Listing(t)

LEMMA OriginIntro ==
  OriginParts => OriginInv
BY DEF OriginInv, OriginParts, OriginKnown, Listing

LEMMA OriginIntroNext ==
  ASSUME \A t \in Turns \ partial' : (\A g \in Files : OriginKnown(t, g)') /\ Listing(t)'
  PROVE  OriginInv'
<1>1. OriginParts'
  BY DEF OriginParts
<1> QED BY <1>1, OriginIntro, PTL

\* What the change of a file does to the captures of others.
LEMMA RacesFacts ==
  ASSUME TypeOK, NEW f \in Files, NEW bytes, NEW turns \in SUBSET Turns, Races(f, bytes, turns)
  PROVE  /\ raced' \subseteq Turns \X Files /\ raced \subseteq raced'
         /\ bytes # disk[f] => \A u \in turns : Captured(u, f) => <<u, f>> \in raced'
<1>1. raced \subseteq Turns \X Files
  BY TypeFacts
<1>2. {u \in turns : Captured(u, f)} \subseteq Turns
  OBVIOUS
<1> QED BY <1>1, <1>2 DEF Races

LEMMA ToolActsKeeps ==
  ASSUME CheckpointInv, NEW t \in Turns, NEW bytes \in Contents \cup {disk[job[t].file]},
         ToolActs(t, bytes)
  PROVE  CheckpointInv'
<1> DEFINE f == job[t].file
           o == [origin[t] EXCEPT ![f] = disk[f]]
<1>1. /\ TypeOK /\ JobsInv /\ BytesInv /\ GcInv /\ RowsInv /\ OriginInv
      /\ BackedBy(blobs \cup swept)
  BY InvFacts
<1>2. /\ disk \in [Files -> Bytes] /\ job \in [Actors -> Job] /\ exposed \subseteq Files
      /\ origin \in [Turns -> [Files -> Bytes \cup {Nothing}]]
  BY <1>1, TypeFacts
<1>3. t \in Actors /\ t # Restorer
  BY ActorFacts
<1>4. f \in Files /\ disk[f] \in Bytes /\ bytes \in Bytes
  BY <1>2, <1>3, JobFacts, ValueFacts
<1>5. job[t].pc = "act" /\ disk' = [disk EXCEPT ![f] = bytes] /\ job' = [job EXCEPT ![t] = Idle]
  BY DEF ToolActs, Mutates
<1>6. UNCHANGED <<blobs, temps, store, turn, writes, due, todo, skipped, gc, restores, crashes,
                  partial, swept>>
  BY DEF ToolActs, turnVars, boundVars
<1>7. /\ origin' = origin \/ origin' = [origin EXCEPT ![t] = o]
      /\ Races(f, bytes, Turns \ {t}) /\ (exposed' = exposed \/ exposed' = exposed \cup {f})
  BY <1>2 DEF ToolActs, Mutates
<1>8. o \in [Files -> Bytes \cup {Nothing}] /\ \A g \in Files \ {f} : o[g] = origin[t][g]
  BY <1>2, <1>4
<1> HIDE DEF o, f
<1>9. /\ origin' \in [Turns -> [Files -> Bytes \cup {Nothing}]]
      /\ \A u \in Turns, g \in Files : u # t \/ g # f => origin'[u][g] = origin[u][g]
  BY <1>2, <1>7, <1>8
<1>10. disk' \in [Files -> Bytes]
  BY <1>2, <1>4, <1>5
<1>11. job' \in [Actors -> Job] /\ (\A b \in Actors \ {t} : job'[b] = job[b]) /\ job'[t] = Idle
  BY <1>2, <1>3, <1>5, IdleFacts, JobSet
<1>12. TypeOK'
  <2>1. raced' \subseteq Turns \X Files
    BY <1>1, <1>4, <1>7, RacesFacts
  <2>2. exposed' \subseteq Files
    BY <1>2, <1>4, <1>7
  <2> QED BY <1>1, <1>6, <1>9, <1>10, <1>11, <2>1, <2>2, TypeFacts DEF TypeOK
<1>13. job'[t].pc = "none" /\ job'[Restorer] = job[Restorer]
  BY <1>3, <1>11, IdleFacts, ActorFacts
<1>14. JobsInv'
  <2>1. \A u \in Turns : job'[u].pc # "none" => job'[u] = job[u]
    BY <1>11, <1>13, ActorFacts
  <2>2. store' = store /\ turn' = turn
    BY <1>6
  <2>3. \A u \in Turns : job'[u].pc # "none" =>
           turn'[u] = "running" /\ job'[u].cp \in DOMAIN store' /\ store'[job'[u].cp].turn = u
    BY <2>1, <2>2, TurnJob
  <2> QED BY <1>1, <1>13, <2>2, <2>3 DEF JobsInv, Restoring
<1>15. BytesInv'
  BY <1>1, <1>6, <1>11, <1>13 DEF BytesInv
<1>16. GcInv' /\ BackedBy(blobs \cup swept)'
  BY <1>1, <1>6, <1>13 DEF GcInv, BackedBy, Quiet, Restoring
<1>17. RowsInv'
  BY <1>1, <1>6 DEF RowsInv
<1>18. OriginInv'
  <2>1. store' = store /\ partial' = partial
    BY <1>6
  <2>2. ASSUME NEW u \in Turns, u \notin partial', NEW g \in Files, origin'[u][g] # Nothing
        PROVE  \E c \in DOMAIN store' : /\ store'[c].turn = u
                                        /\ store'[c].label = "Before-this-turn"
                                        /\ store'[c].entries[g] # Nothing
    <3>1. u \notin partial
      BY <2>1, <2>2
    <3>2. CASE u = t /\ g = f
      <4>1. store[job[t].cp].entries[f] # Nothing
        BY <1>5, <3>1, <3>2, ActOf DEF f
      <4>2. /\ job[t].cp \in DOMAIN store /\ store[job[t].cp].turn = t
            /\ store[job[t].cp].label = "Before-this-turn"
        BY <1>5, <3>1, <3>2, TurnJob, TurnRow
      <4> QED BY <2>1, <3>2, <4>1, <4>2
    <3>3. CASE u # t \/ g # f
      <4>1. origin[u][g] # Nothing
        BY <1>9, <2>2, <3>3
      <4>2. \E c \in DOMAIN store : /\ store[c].turn = u /\ store[c].label = "Before-this-turn"
                                    /\ store[c].entries[g] # Nothing
        BY <3>1, <4>1, OriginOf
      <4> QED BY <2>1, <4>2
    <3> QED BY <3>2, <3>3
  <2>3. ASSUME NEW u \in Turns, u \notin partial', job'[u].pc = "act"
        PROVE  store'[job'[u].cp].entries[job'[u].file] # Nothing
    <3>1. job'[u] = job[u]
      BY <1>11, <1>13, <2>3, ActorFacts
    <3>2. u \notin partial /\ job[u].pc = "act"
      BY <2>1, <2>3, <3>1
    <3> QED BY <2>1, <3>1, <3>2, ActOf
  <2>4. ASSUME NEW u \in Turns \ partial', NEW g \in Files
        PROVE  OriginKnown(u, g)'
    <3>1. u \notin partial'
      OBVIOUS
    <3>2. CASE origin'[u][g] # Nothing
      <4>1. \E c \in DOMAIN store' : /\ store'[c].turn = u
                                     /\ store'[c].label = "Before-this-turn"
                                     /\ store'[c].entries[g] # Nothing
        BY <2>2, <3>1, <3>2
      <4> QED BY <4>1 DEF OriginKnown
    <3> QED BY <3>2 DEF OriginKnown
  <2>5. ASSUME NEW u \in Turns \ partial'
        PROVE  Listing(u)'
    BY <2>3 DEF Listing
  <2> QED BY <2>4, <2>5, OriginIntroNext
<1> QED BY <1>12, <1>14, <1>15, <1>16, <1>17, <1>18 DEF CheckpointInv

-----------------------------------------------------------------------------
(* The steps that list nothing                                             *)

\* The rows go on saying what they said.
RowsStay ==
    /\ DOMAIN store \subseteq DOMAIN store'
    /\ \A c \in DOMAIN store :
          /\ store'[c].turn = store[c].turn /\ store'[c].label = store[c].label
          /\ store'[c].entries = store[c].entries
          /\ store[c].status = "deleted" => store'[c].status = "deleted"

LEMMA OriginStays ==
  ASSUME CheckpointInv, RowsStay, origin' = origin, partial \subseteq partial',
         \A t \in Turns \ partial' :
            job'[t].pc = "act" => job'[t] = job[t] \/ Listing(t)'
  PROVE  OriginInv'
<1>1. ASSUME NEW t \in Turns \ partial', NEW g \in Files
      PROVE  OriginKnown(t, g)'
  <2>1. CASE origin'[t][g] # Nothing
    <3>1. origin[t][g] # Nothing /\ t \in Turns /\ t \notin partial
      BY <2>1
    <3>2. PICK c \in DOMAIN store : /\ store[c].turn = t /\ store[c].label = "Before-this-turn"
                                    /\ store[c].entries[g] # Nothing
      BY <3>1, OriginOf
    <3>3. /\ c \in DOMAIN store' /\ store'[c].turn = t /\ store'[c].label = "Before-this-turn"
          /\ store'[c].entries[g] # Nothing
      BY <3>2 DEF RowsStay
    <3> QED BY <3>3 DEF OriginKnown
  <2> QED BY <2>1 DEF OriginKnown
<1>2. ASSUME NEW t \in Turns \ partial'
      PROVE  Listing(t)'
  <2>1. CASE job'[t].pc = "act" /\ job'[t] = job[t]
    <3>1. t \notin partial /\ job[t].pc = "act"
      BY <2>1
    <3>2. store[job[t].cp].entries[job[t].file] # Nothing /\ job[t].cp \in DOMAIN store
      BY <3>1, ActOf, TurnJob
    <3>3. store'[job[t].cp].entries[job[t].file] # Nothing
      BY <3>2 DEF RowsStay
    <3> QED BY <2>1, <3>3 DEF Listing
  <2>2. CASE job'[t].pc # "act"
    BY <2>2 DEF Listing
  <2> QED BY <2>1, <2>2
<1> QED BY <1>1, <1>2, OriginIntroNext

LEMMA JobsStay ==
  ASSUME CheckpointInv, RowsStay,
         \A t \in Turns : job'[t].pc # "none" => job'[t] = job[t] /\ turn'[t] = "running",
         job'[Restorer].undo # 0 =>
            job'[Restorer].cp = job[Restorer].cp /\ job'[Restorer].undo = job[Restorer].undo,
         job'[Restorer].pc # "none" => job'[Restorer].undo # 0
  PROVE  JobsInv'
<1>1. ASSUME NEW t \in Turns, job'[t].pc # "none"
      PROVE  turn'[t] = "running" /\ job'[t].cp \in DOMAIN store' /\ store'[job'[t].cp].turn = t
  <2>1. job[t].pc # "none" /\ job'[t] = job[t]
    BY <1>1
  <2>2. job[t].cp \in DOMAIN store /\ store[job[t].cp].turn = t
    BY <2>1, TurnJob
  <2> QED BY <1>1, <2>1, <2>2 DEF RowsStay
<1>2. ASSUME job'[Restorer].undo # 0
      PROVE  /\ job'[Restorer].cp \in DOMAIN store' /\ job'[Restorer].undo \in DOMAIN store'
             /\ job'[Restorer].cp # job'[Restorer].undo
             /\ store'[job'[Restorer].undo].turn = store'[job'[Restorer].cp].turn
             /\ store'[job'[Restorer].undo].label = "Before-restore"
  <2> DEFINE cp == job[Restorer].cp
             undo == job[Restorer].undo
  <2>1. job'[Restorer].cp = cp /\ job'[Restorer].undo = undo
    BY <1>2
  <2>2. /\ cp \in DOMAIN store /\ undo \in DOMAIN store /\ cp # undo
        /\ store[undo].turn = store[cp].turn /\ store[undo].label = "Before-restore"
    BY <1>2, RestoreJob
  <2> HIDE DEF cp, undo
  <2>3. /\ cp \in DOMAIN store' /\ undo \in DOMAIN store'
        /\ store'[cp].turn = store[cp].turn /\ store'[undo].turn = store[undo].turn
        /\ store'[undo].label = "Before-restore"
    BY <2>2 DEF RowsStay
  <2> QED BY <2>1, <2>2, <2>3
<1> QED BY <1>1, <1>2 DEF JobsInv, Restoring

LEMMA BackedStays ==
  ASSUME CheckpointInv, RowsStay, DOMAIN store' = DOMAIN store,
         blobs \cup swept \subseteq blobs' \cup swept'
  PROVE  BackedBy(blobs \cup swept)'
<1>1. BackedBy(blobs \cup swept)
  BY InvFacts
<1> QED BY <1>1 DEF BackedBy, RowsStay

LEMMA RowsStatesStay ==
  ASSUME CheckpointInv, RowsStay, DOMAIN store' = DOMAIN store, partial' = partial,
         \A t \in Turns : turn[t] # "idle" => turn'[t] # "idle",
         \A c \in DOMAIN store : turn'[store[c].turn] = "running" /\ store[c].turn \notin partial =>
            turn[store[c].turn] = "running" /\ store'[c].status = store[c].status
  PROVE  RowsInv'
<1>1. RowsInv /\ \A c \in DOMAIN store : store[c].turn \in Turns
  BY InvFacts, TypeFacts, RowFacts
<1> QED BY <1>1 DEF RowsInv, RowsStay

LEMMA BytesStay ==
  ASSUME CheckpointInv, blobs \cup swept \subseteq blobs' \cup swept',
         \A a \in Actors : job'[a].pc \in InHand =>
            job'[a].pc = job[a].pc /\ job'[a].bytes = job[a].bytes
  PROVE  BytesInv'
<1>1. BytesInv
  BY InvFacts
<1>2. \A a \in Actors :
        /\ job'[a].pc \in {"put", "rename", "add"} => job'[a].bytes \in Contents \ Large
        /\ job'[a].pc = "add" => job'[a].bytes \in blobs' \cup swept'
  BY <1>1 DEF BytesInv, InHand
<1> QED BY <1>2 DEF BytesInv

LEMMA GcStays ==
  ASSUME CheckpointInv, gc' = gc, ~Quiet
  PROVE  GcInv'
<1>1. gc.pc # "start" /\ (gc.pc = "sweep" => gc.beside)
  BY InvFacts DEF GcInv
<1> QED BY <1>1 DEF GcInv

\* Nobody is at work while it is quiet.
LEMMA QuietFacts ==
  ASSUME CheckpointInv, Quiet
  PROVE  /\ job[Restorer].undo = 0 /\ \A a \in Actors : job[a].pc = "none"
         /\ \A t \in Turns : turn[t] # "running"
<1>1. JobsInv
  BY InvFacts
<1> QED BY <1>1, ActorFacts DEF JobsInv, Quiet, Restoring

LEMMA GcRemovesTempKeeps ==
  ASSUME CheckpointInv, NEW a \in Actors, GcRemovesTemp(a)
  PROVE  CheckpointInv'
<1>1. /\ TypeOK /\ JobsInv /\ BytesInv /\ GcInv /\ RowsInv /\ OriginInv
      /\ BackedBy(blobs \cup swept)
  BY InvFacts
<1>2. /\ temps' = temps \ {a}
      /\ UNCHANGED <<disk, blobs, store, turn, writes, job, due, todo, skipped, exposed, gc,
                     restores, crashes, origin, partial, raced, swept>>
  BY DEF GcRemovesTemp, turnVars, restoreVars, boundVars, pastVars
<1>3. TypeOK'
  BY <1>1, <1>2, TypeFacts DEF TypeOK
<1>4. JobsInv' /\ BytesInv' /\ GcInv' /\ RowsInv' /\ BackedBy(blobs \cup swept)'
  BY <1>1, <1>2 DEF JobsInv, BytesInv, GcInv, RowsInv, BackedBy, Restoring, Quiet
<1>5. OriginInv'
  BY <1>2, OriginStays DEF RowsStay
<1> QED BY <1>3, <1>4, <1>5 DEF CheckpointInv

LEMMA GcEndsKeeps ==
  ASSUME CheckpointInv, GcEnds
  PROVE  CheckpointInv'
<1>1. /\ TypeOK /\ JobsInv /\ BytesInv /\ GcInv /\ RowsInv /\ OriginInv
      /\ BackedBy(blobs \cup swept)
  BY InvFacts
<1>2. /\ gc' = [AtBoot EXCEPT !.pc = "done"]
      /\ UNCHANGED <<disk, blobs, temps, store, turn, writes, job, due, todo, skipped, exposed,
                     restores, crashes, origin, partial, raced, swept>>
  BY DEF GcEnds, fileVars, turnVars, restoreVars, boundVars, pastVars
<1>3. /\ gc'.pc = "done"
      /\ gc' \in [pc: {"start", "sweep", "done"}, refs: SUBSET Contents, beside: BOOLEAN]
  BY <1>2 DEF AtBoot
<1>4. TypeOK'
  BY <1>1, <1>2, <1>3, TypeFacts DEF TypeOK
<1>5. JobsInv' /\ BytesInv' /\ RowsInv' /\ BackedBy(blobs \cup swept)'
  BY <1>1, <1>2 DEF JobsInv, BytesInv, RowsInv, BackedBy, Restoring
<1>6. GcInv'
  BY <1>3 DEF GcInv
<1>7. OriginInv'
  BY <1>2, OriginStays DEF RowsStay
<1> QED BY <1>4, <1>5, <1>6, <1>7 DEF CheckpointInv

LEMMA GcRemovesBlobKeeps ==
  ASSUME CheckpointInv, NEW b \in Contents, GcRemovesBlob(b)
  PROVE  CheckpointInv'
<1>1. /\ TypeOK /\ JobsInv /\ BytesInv /\ GcInv /\ RowsInv /\ OriginInv
      /\ BackedBy(blobs \cup swept)
  BY InvFacts
<1>2. /\ gc.pc = "sweep" /\ b \in blobs \ gc.refs /\ blobs' = blobs \ {b}
      /\ swept' = IF gc.beside THEN swept \cup {b} ELSE swept
      /\ UNCHANGED <<disk, temps, store, turn, writes, job, due, todo, skipped, exposed, gc,
                     restores, crashes, origin, partial, raced>>
  BY DEF GcRemovesBlob, turnVars, restoreVars, boundVars
<1>3. TypeOK'
  BY <1>1, <1>2, TypeFacts DEF TypeOK
<1>4. JobsInv' /\ RowsInv' /\ GcInv'
  BY <1>1, <1>2 DEF JobsInv, RowsInv, GcInv, BackedBy, Quiet, Restoring
<1>5. OriginInv' /\ RowsStay
  BY <1>2, OriginStays DEF RowsStay
<1>6. CASE gc.beside
  <2>1. blobs \cup swept \subseteq blobs' \cup swept'
    BY <1>2, <1>6
  <2>2. BytesInv'
    BY <1>2, <2>1, BytesStay
  <2>3. BackedBy(blobs \cup swept)'
    BY <1>2, <1>5, <2>1, BackedStays
  <2> QED BY <1>3, <1>4, <1>5, <2>2, <2>3 DEF CheckpointInv
<1>7. CASE ~gc.beside
  <2>1. Quiet /\ BackedBy(gc.refs)
    BY <1>1, <1>2, <1>7 DEF GcInv
  <2>2. \A a \in Actors : job'[a].pc = "none"
    BY <1>2, <2>1, QuietFacts
  <2>3. BytesInv'
    BY <2>2 DEF BytesInv
  <2>4. BackedBy(blobs \cup swept)'
    BY <1>1, <1>2, <1>7, <2>1 DEF BackedBy
  <2> QED BY <1>3, <1>4, <1>5, <2>3, <2>4 DEF CheckpointInv
<1> QED BY <1>6, <1>7

LEMMA GcStartsKeeps ==
  ASSUME CheckpointInv, GcStarts
  PROVE  CheckpointInv' /\ RowsStay
<1>1. /\ TypeOK /\ JobsInv /\ BytesInv /\ GcInv /\ RowsInv /\ OriginInv
      /\ BackedBy(blobs \cup swept)
  BY InvFacts
<1>2. /\ gc.pc = "start"
      /\ UNCHANGED <<disk, blobs, temps, turn, writes, job, due, todo, skipped, exposed, restores,
                     crashes, origin, partial, raced, swept>>
  BY DEF GcStarts, fileVars, turnVars, restoreVars, boundVars, pastVars
<1>3. store \in Seq(Checkpoint)
  BY <1>1, TypeFacts
<1>4. PICK gone \in SUBSET DOMAIN store :
         store' = [c \in DOMAIN store |->
                      IF c \in gone THEN [store[c] EXCEPT !.status = "deleted"] ELSE store[c]]
  <2> DEFINE live == {c \in DOMAIN store : store[c].status # "deleted"}
  <2>1. PICK kept \in SUBSET live :
           store' = [c \in DOMAIN store |->
                        IF c \in live \ kept THEN [store[c] EXCEPT !.status = "deleted"]
                        ELSE store[c]]
    BY DEF GcStarts
  <2>2. live \ kept \in SUBSET DOMAIN store
    OBVIOUS
  <2> HIDE DEF live
  <2> QED BY <2>1, <2>2
<1>5. /\ store' \in Seq(Checkpoint) /\ DOMAIN store' = DOMAIN store
      /\ \A c \in DOMAIN store :
            /\ store'[c].turn = store[c].turn /\ store'[c].label = store[c].label
            /\ store'[c].entries = store[c].entries
            /\ store[c].status = "deleted" => store'[c].status = "deleted"
  <2> DEFINE r(c) == IF c \in gone THEN [store[c] EXCEPT !.status = "deleted"] ELSE store[c]
             u == [c \in DOMAIN store |-> r(c)]
  <2>1. ASSUME NEW c \in DOMAIN store
        PROVE  /\ r(c) \in Checkpoint /\ r(c).turn = store[c].turn /\ r(c).label = store[c].label
               /\ r(c).entries = store[c].entries
               /\ store[c].status = "deleted" => r(c).status = "deleted"
    <3>1. store[c] \in Checkpoint
      BY <1>3, RowFacts
    <3> QED BY <3>1 DEF Checkpoint
  <2>2. store' = u
    BY <1>4
  <2>3. DOMAIN store = 1 .. Len(store) /\ Len(store) \in Nat
    BY <1>3, RowFacts
  <2> HIDE DEF r
  <2>4. u \in Seq(Checkpoint) /\ DOMAIN u = DOMAIN store
    BY <2>1, <2>3
  <2>5. \A c \in DOMAIN store : u[c] = r(c)
    OBVIOUS
  <2> HIDE DEF u
  <2> QED BY <2>1, <2>2, <2>4, <2>5
<1>6. RowsStay
  BY <1>5 DEF RowsStay
<1>7. /\ Quiet /\ job[Restorer].undo = 0 /\ \A a \in Actors : job[a].pc = "none"
      /\ \A t \in Turns : turn[t] # "running"
  BY <1>1, <1>2, QuietFacts DEF GcInv
<1>8. gc' = [AtBoot EXCEPT !.pc = IF blobs = {} /\ temps = {} THEN "done" ELSE "sweep",
                           !.refs = Referenced']
  BY DEF GcStarts
<1>9. Referenced' \in SUBSET Contents
  BY DEF Referenced
<1>10. /\ gc' \in [pc: {"start", "sweep", "done"}, refs: SUBSET Contents, beside: BOOLEAN]
       /\ gc'.pc # "start" /\ gc'.refs = Referenced'
  BY <1>8, <1>9 DEF AtBoot
<1>11. TypeOK'
  BY <1>1, <1>2, <1>5, <1>10, TypeFacts DEF TypeOK
<1>12. JobsInv' /\ BytesInv'
  BY <1>1, <1>2, <1>7 DEF JobsInv, BytesInv, Restoring
<1>13. BackedBy(blobs \cup swept)'
  BY <1>2, <1>5, <1>6, BackedStays
<1>14. GcInv'
  <2>1. \A c \in DOMAIN store', f \in Files :
           store'[c].status # "deleted" /\ store'[c].entries[f] \in Contents =>
              store'[c].entries[f] \in Referenced'
    BY DEF Referenced
  <2>2. BackedBy(gc.refs)'
    BY <1>10, <2>1 DEF BackedBy
  <2>3. Quiet'
    BY <1>2, <1>7 DEF Quiet, Restoring
  <2> QED BY <1>10, <2>2, <2>3 DEF GcInv
<1>15. RowsInv'
  <2>1. \A c \in DOMAIN store : store[c].turn \in Turns
    BY <1>3, RowFacts
  <2> QED BY <1>2, <1>5, <1>6, <1>7, <2>1, RowsStatesStay
<1>16. OriginInv'
  BY <1>2, <1>6, OriginStays
<1> QED BY <1>6, <1>11, <1>12, <1>13, <1>14, <1>15, <1>16 DEF CheckpointInv

LEMMA CrashKeeps ==
  ASSUME CheckpointInv, CrashAndBoot
  PROVE  CheckpointInv'
<1>1. /\ TypeOK /\ JobsInv /\ BytesInv /\ GcInv /\ RowsInv /\ OriginInv
      /\ BackedBy(blobs \cup swept)
  BY InvFacts
<1>2. /\ crashes < MaxCrashes /\ crashes' = crashes + 1
      /\ turn' = [t \in Turns |-> IF turn[t] = "running" THEN "over" ELSE turn[t]]
      /\ job' = [a \in Actors |-> Idle] /\ gc' = AtBoot
      /\ due' = {} /\ todo' = {} /\ skipped' = FALSE /\ exposed' = {}
      /\ UNCHANGED <<disk, blobs, temps, store, writes, restores, origin, partial, raced, swept>>
  BY DEF CrashAndBoot, RestoreGone, fileVars, pastVars
<1>3. /\ turn \in [Turns -> {"idle", "running", "over"}]
      /\ crashes \in 0 .. MaxCrashes
  BY <1>1, TypeFacts
<1>4. /\ turn' \in [Turns -> {"idle", "running", "over"}]
      /\ \A t \in Turns : /\ turn'[t] # "running"
                          /\ turn[t] # "idle" => turn'[t] = "over"
  BY <1>2, <1>3
<1>5. job' \in [Actors -> Job] /\ \A a \in Actors : job'[a].pc = "none" /\ job'[a].undo = 0
  BY <1>2, IdleFacts
<1>6. crashes' \in 0 .. MaxCrashes
  <2>1. MaxCrashes \in Nat
    BY CheckpointAssumption
  <2> QED BY <1>2, <1>3, <2>1, OneMore
<1>7. /\ gc' \in [pc: {"start", "sweep", "done"}, refs: SUBSET Contents, beside: BOOLEAN]
      /\ gc'.pc = "start"
  BY <1>2 DEF AtBoot
<1>8. TypeOK'
  BY <1>1, <1>2, <1>4, <1>5, <1>6, <1>7, TypeFacts DEF TypeOK
<1>9. RowsStay /\ DOMAIN store' = DOMAIN store /\ blobs \cup swept \subseteq blobs' \cup swept'
  BY <1>2 DEF RowsStay
<1>10. JobsInv' /\ BytesInv' /\ GcInv'
  BY <1>4, <1>5, <1>7, ActorFacts DEF JobsInv, BytesInv, GcInv, Quiet, Restoring
<1>11. BackedBy(blobs \cup swept)'
  BY <1>9, BackedStays
<1>12. RowsInv'
  <2>1. \A c \in DOMAIN store : store[c].turn \in Turns
    BY <1>1, TypeFacts, RowFacts
  <2> QED BY <1>2, <1>4, <1>9, <2>1, RowsStatesStay
<1>13. OriginInv'
  BY <1>2, <1>5, <1>9, ActorFacts, OriginStays
<1> QED BY <1>8, <1>10, <1>11, <1>12, <1>13 DEF CheckpointInv

\* A step of the restore's loop, which keeps the rows and the jobs of the turns.
LoopStep ==
    /\ UNCHANGED <<store, temps, blobs, turn, writes, due, gc, restores, crashes, origin, partial,
                   swept>>
    /\ job' \in [Actors -> Job] /\ \A a \in Actors \ {Restorer} : job'[a] = job[a]
    /\ job'[Restorer].cp = job[Restorer].cp /\ job'[Restorer].undo = job[Restorer].undo
    /\ job'[Restorer].pc \notin InHand
    /\ disk' \in [Files -> Bytes] /\ todo' \subseteq Files /\ skipped' \in BOOLEAN
    /\ exposed' \subseteq Files /\ raced' \subseteq Turns \X Files

LEMMA LoopStepKeeps ==
  ASSUME CheckpointInv, LoopStep, Restoring
  PROVE  CheckpointInv'
<1>1. /\ TypeOK /\ JobsInv /\ BytesInv /\ GcInv /\ RowsInv /\ OriginInv
      /\ BackedBy(blobs \cup swept)
  BY InvFacts
<1>2. /\ UNCHANGED <<store, temps, blobs, turn, writes, due, gc, restores, crashes, origin,
                     partial, swept>>
      /\ job' \in [Actors -> Job] /\ \A a \in Actors \ {Restorer} : job'[a] = job[a]
      /\ job'[Restorer].cp = job[Restorer].cp /\ job'[Restorer].undo = job[Restorer].undo
      /\ job'[Restorer].pc \notin InHand
      /\ disk' \in [Files -> Bytes] /\ todo' \subseteq Files /\ skipped' \in BOOLEAN
      /\ exposed' \subseteq Files /\ raced' \subseteq Turns \X Files
  BY DEF LoopStep
<1>3. TypeOK'
  BY <1>1, <1>2, TypeFacts DEF TypeOK
<1>4. RowsStay /\ DOMAIN store' = DOMAIN store /\ blobs \cup swept \subseteq blobs' \cup swept'
  BY <1>2 DEF RowsStay
<1>5. \A t \in Turns : job'[t] = job[t]
  BY <1>2, ActorFacts
<1>6. JobsInv'
  <2>1. \A t \in Turns : job'[t].pc # "none" => job'[t] = job[t] /\ turn'[t] = "running"
    BY <1>2, <1>5, TurnJob
  <2>2. job'[Restorer].undo # 0
    BY <1>2 DEF Restoring
  <2> QED BY <1>2, <1>4, <2>1, <2>2, JobsStay
<1>7. BytesInv'
  <2>1. \A a \in Actors : job'[a].pc \in InHand =>
           job'[a].pc = job[a].pc /\ job'[a].bytes = job[a].bytes
    BY <1>2
  <2> QED BY <1>4, <2>1, BytesStay
<1>8. BackedBy(blobs \cup swept)'
  BY <1>4, BackedStays
<1>9. GcInv'
  BY <1>2, GcStays DEF Quiet
<1>10. RowsInv'
  BY <1>2, <1>4, RowsStatesStay
<1>11. OriginInv'
  BY <1>2, <1>4, <1>5, OriginStays
<1> QED BY <1>3, <1>6, <1>7, <1>8, <1>9, <1>10, <1>11 DEF CheckpointInv

LEMMA RestoreNextKeeps ==
  ASSUME CheckpointInv, NEW f \in Files, RestoreNext(f)
  PROVE  CheckpointInv'
<1>1. TypeOK
  BY InvFacts
<1>2. /\ disk \in [Files -> Bytes] /\ job \in [Actors -> Job] /\ todo \subseteq Files
      /\ skipped \in BOOLEAN /\ Restorer \in Actors
      /\ exposed \subseteq Files /\ raced \subseteq Turns \X Files
  BY <1>1, TypeFacts, ActorFacts
<1>3. /\ Restoring /\ job[Restorer].pc = "none" /\ todo' = todo \ {f}
      /\ UNCHANGED <<disk, blobs, temps, store, turn, writes, due, exposed, gc, restores, crashes,
                     origin, partial, raced, swept>>
  BY DEF RestoreNext, fileVars, turnVars, boundVars, pastVars
<1> DEFINE pc == IF store[job[Restorer].undo].entries[f] # Nothing THEN "act" ELSE "read"
           j == [job[Restorer] EXCEPT !.pc = pc, !.file = f]
<1>4. /\ j \in Job /\ j.pc \notin InHand /\ j.file = f /\ j.cp = job[Restorer].cp
      /\ j.undo = job[Restorer].undo
  BY <1>2 DEF Job, InHand
<1>5. \/ job' = job /\ skipped' = TRUE
      \/ job' = [job EXCEPT ![Restorer] = j] /\ skipped' = skipped
  BY <1>2 DEF RestoreNext
<1> HIDE DEF j
<1>6. CASE job' = job /\ skipped' = TRUE
  <2>1. LoopStep
    BY <1>2, <1>3, <1>6 DEF LoopStep, InHand
  <2> QED BY <1>3, <2>1, LoopStepKeeps
<1>7. CASE job' = [job EXCEPT ![Restorer] = j] /\ skipped' = skipped
  <2>1. /\ job' \in [Actors -> Job] /\ (\A a \in Actors \ {Restorer} : job'[a] = job[a])
        /\ job'[Restorer] = j
    BY <1>2, <1>4, <1>7, JobSet
  <2>2. LoopStep
    BY <1>2, <1>3, <1>4, <1>7, <2>1 DEF LoopStep, InHand
  <2> QED BY <1>3, <2>2, LoopStepKeeps
<1> QED BY <1>5, <1>6, <1>7

\* What the writing of an entry does to the restore's job.
LEMMA RestorerMoved ==
  ASSUME CheckpointInv, Goto(Restorer, "none")
  PROVE  /\ job' \in [Actors -> Job] /\ (\A a \in Actors \ {Restorer} : job'[a] = job[a])
         /\ job'[Restorer].pc = "none" /\ job'[Restorer].cp = job[Restorer].cp
         /\ job'[Restorer].undo = job[Restorer].undo
<1> DEFINE pc == "none"
<1>1. job \in [Actors -> Job] /\ Restorer \in Actors /\ pc \in Pcs /\ Goto(Restorer, pc)
  BY InvFacts, TypeFacts, ActorFacts DEF Pcs
<1> HIDE DEF pc
<1>2. /\ job' \in [Actors -> Job] /\ (\A a \in Actors \ {Restorer} : job'[a] = job[a])
      /\ job'[Restorer].pc = pc /\ job'[Restorer].cp = job[Restorer].cp
      /\ job'[Restorer].undo = job[Restorer].undo
      /\ job'[Restorer].file = job[Restorer].file /\ job'[Restorer].bytes = job[Restorer].bytes
  BY <1>1, JobMoved
<1> QED BY <1>2 DEF pc

\* The restore is done with a file: it has put it back, passed it over or failed on it.
WritesBack ==
    \/ WriteBack
    \/ \E bytes \in Contents \cup {disk[job[Restorer].file]} : WriteBackFails(bytes)

WritesTo(f, bytes) ==
    \/ /\ disk' = [disk EXCEPT ![f] = bytes] /\ Races(f, bytes, Turns)
       /\ exposed' = exposed \ {f}
       /\ skipped' = TRUE \/ (skipped' = skipped /\ bytes = Target(f))
    \/ disk' = disk /\ raced' = raced /\ exposed' = exposed /\ skipped' = TRUE

LEMMA WriteBackDisk ==
  ASSUME CheckpointInv, WritesBack
  PROVE  /\ job[Restorer].pc = "act" /\ Goto(Restorer, "none")
         /\ UNCHANGED <<blobs, temps, store, turn, writes, due, todo, gc, restores, crashes, origin,
                        partial, swept>>
         /\ \E bytes \in Bytes : WritesTo(job[Restorer].file, bytes)
<1> DEFINE f == job[Restorer].file
<1>1. /\ job[Restorer].pc = "act" /\ Goto(Restorer, "none")
      /\ UNCHANGED <<blobs, temps, store, turn, writes, due, todo, gc, restores, crashes, origin,
                     partial, swept>>
  BY DEF WritesBack, WriteBack, WriteBackFails, turnVars, boundVars
<1>2. blobs \subseteq Contents /\ disk \in [Files -> Bytes] /\ f \in Files
  BY InvFacts, TypeFacts, ActorFacts, JobFacts
<1>3. \E bytes \in Bytes : WritesTo(f, bytes)
  <2>1. CASE WriteBack
    <3>1. Target(f) = Absent \/ Target(f) \in blobs => Target(f) \in Bytes
      BY <1>2 DEF Bytes
    <3>2. IF Target(f) = Absent \/ Target(f) \in blobs
          THEN PutsBack(f, Target(f)) /\ UNCHANGED skipped ELSE PassesOver
      BY <2>1 DEF WriteBack
    <3>3. Absent \in Bytes
      BY DEF Bytes
    <3>4. CASE Target(f) = Absent \/ Target(f) \in blobs
      BY <3>1, <3>2, <3>4 DEF PutsBack, WritesTo
    <3>5. CASE ~(Target(f) = Absent \/ Target(f) \in blobs)
      BY <3>2, <3>3, <3>5 DEF PassesOver, WritesTo
    <3> QED BY <3>4, <3>5
  <2>2. CASE \E bytes \in Contents \cup {disk[f]} : WriteBackFails(bytes)
    <3>1. PICK bytes \in Contents \cup {disk[f]} : WriteBackFails(bytes)
      BY <2>2
    <3>2. PutsBack(f, bytes) /\ skipped' = TRUE
      BY <3>1 DEF WriteBackFails
    <3>3. bytes \in Bytes
      BY <1>2 DEF Bytes
    <3> QED BY <3>2, <3>3 DEF PutsBack, WritesTo
  <2> QED BY <2>1, <2>2 DEF WritesBack
<1> QED BY <1>1, <1>3

LEMMA WriteBackKeeps ==
  ASSUME CheckpointInv, WritesBack
  PROVE  CheckpointInv'
<1> DEFINE f == job[Restorer].file
<1>1. TypeOK /\ JobsInv
  BY InvFacts
<1>2. /\ disk \in [Files -> Bytes] /\ job \in [Actors -> Job] /\ todo \subseteq Files
      /\ skipped \in BOOLEAN /\ Restorer \in Actors
      /\ exposed \subseteq Files /\ raced \subseteq Turns \X Files
  BY <1>1, TypeFacts, ActorFacts
<1>3. /\ job[Restorer].pc = "act" /\ Goto(Restorer, "none")
      /\ UNCHANGED <<blobs, temps, store, turn, writes, due, todo, gc, restores, crashes, origin,
                     partial, swept>>
  BY WriteBackDisk
<1>4. f \in Files
  BY <1>2, JobFacts
<1>5. /\ disk' \in [Files -> Bytes] /\ skipped' \in BOOLEAN
      /\ exposed' \subseteq Files /\ raced' \subseteq Turns \X Files
  <2>1. PICK bytes \in Bytes : WritesTo(f, bytes)
    BY WriteBackDisk
  <2> HIDE DEF f
  <2>2. CASE disk' = disk /\ raced' = raced /\ exposed' = exposed /\ skipped' = TRUE
    BY <1>2, <2>2
  <2>3. CASE /\ disk' = [disk EXCEPT ![f] = bytes] /\ Races(f, bytes, Turns)
             /\ exposed' = exposed \ {f} /\ skipped' \in {TRUE, skipped}
    <3>1. raced' \subseteq Turns \X Files
      BY <1>1, <1>4, <2>3, RacesFacts
    <3> QED BY <1>2, <1>4, <2>3, <3>1
  <2> QED BY <2>1, <2>2, <2>3 DEF WritesTo
<1>6. Restoring
  BY <1>1, <1>3 DEF JobsInv
<1>7. LoopStep
  BY <1>2, <1>3, <1>5, RestorerMoved DEF LoopStep, InHand
<1> QED BY <1>6, <1>7, LoopStepKeeps

\* What the end of a restore does to the rows.
LEMMA RestoreEndsRows ==
  ASSUME CheckpointInv, RestoreEnds
  PROVE  /\ store' \in Seq(Checkpoint) /\ DOMAIN store' = DOMAIN store /\ RowsStay
         /\ \A c \in DOMAIN store :
               \/ store'[c].status = store[c].status
               \/ c = job[Restorer].cp \/ c = job[Restorer].undo
<1> DEFINE undo == job[Restorer].undo
           cp == job[Restorer].cp
           status == "restored"
           away == "deleted"
           done == WithStatus(store, cp, status)
           u == Marked(done, undo, away)
<1>1. /\ store \in Seq(Checkpoint) /\ cp \in DOMAIN store /\ undo \in DOMAIN store
  BY InvFacts, TypeFacts, RestoreJob DEF RestoreEnds, Restoring
<1>2. status \in Statuses /\ away \in Statuses /\ away = "deleted"
  BY DEF Statuses
<1>3. store' = u \/ store' = done
  BY DEF RestoreEnds, Marked
<1> HIDE DEF undo, cp, status, away
<1>4. /\ Restated(store, done)
      /\ \A d \in DOMAIN store : done[d].status = IF d = cp /\ store[cp].status # "deleted"
                                                  THEN status ELSE store[d].status
  BY <1>1, <1>2, StatusRestated
<1> HIDE DEF done
<1>5. done \in Seq(Checkpoint) /\ undo \in DOMAIN done
  BY <1>1, <1>4 DEF Restated
<1>6. /\ u \in Seq(Checkpoint) /\ DOMAIN u = DOMAIN done
      /\ \A d \in DOMAIN done : /\ u[d].turn = done[d].turn /\ u[d].label = done[d].label
                                /\ u[d].entries = done[d].entries
                                /\ u[d].status = IF d = undo THEN away ELSE done[d].status
  <2>1. away \in Statuses
    BY <1>2
  <2>2. Marking(done, undo, away, u)
    BY <1>5, <2>1, StatusSet
  <2> QED BY <2>2 DEF Marking
<1> HIDE DEF u
<1>7. CASE store' = done
  BY <1>4, <1>7 DEF Restated, RowsStay, cp
<1>8. CASE store' = u
  BY <1>2, <1>4, <1>6, <1>8 DEF Restated, RowsStay, cp, undo
<1> QED BY <1>3, <1>7, <1>8

LEMMA RestoreEndsKeeps ==
  ASSUME CheckpointInv, RestoreEnds
  PROVE  CheckpointInv' /\ RowsStay
<1>1. TypeOK
  BY InvFacts
<1>2. /\ Restoring /\ job' = [job EXCEPT ![Restorer] = Idle]
      /\ due' = {} /\ todo' = {} /\ skipped' = FALSE /\ exposed' = {}
      /\ UNCHANGED <<disk, blobs, temps, turn, writes, gc, restores, crashes, origin, partial,
                     raced, swept>>
  BY DEF RestoreEnds, RestoreGone, fileVars, turnVars, boundVars, pastVars
<1>3. /\ job \in [Actors -> Job] /\ Restorer \in Actors /\ store \in Seq(Checkpoint)
  BY <1>1, TypeFacts, ActorFacts
<1>4. /\ job' \in [Actors -> Job] /\ (\A a \in Actors \ {Restorer} : job'[a] = job[a])
      /\ job'[Restorer] = Idle
  BY <1>2, <1>3, IdleFacts, JobSet
<1>5. /\ store' \in Seq(Checkpoint) /\ DOMAIN store' = DOMAIN store /\ RowsStay
      /\ \A c \in DOMAIN store :
            \/ store'[c].status = store[c].status
            \/ c = job[Restorer].cp \/ c = job[Restorer].undo
  BY RestoreEndsRows
<1>6. TypeOK'
  BY <1>1, <1>2, <1>4, <1>5, TypeFacts DEF TypeOK
<1>7. \A t \in Turns : job'[t] = job[t]
  BY <1>4, ActorFacts
<1>8. job'[Restorer].pc = "none" /\ job'[Restorer].undo = 0
  BY <1>4, IdleFacts
<1>9. JobsInv'
  <2>1. \A t \in Turns : job'[t].pc # "none" => job'[t] = job[t] /\ turn'[t] = "running"
    BY <1>2, <1>7, TurnJob
  <2> QED BY <1>5, <1>8, <2>1, JobsStay
<1>10. BytesInv'
  <2>1. \A a \in Actors : job'[a].pc \in InHand =>
           job'[a].pc = job[a].pc /\ job'[a].bytes = job[a].bytes
    BY <1>4, <1>8 DEF InHand
  <2>2. blobs \cup swept \subseteq blobs' \cup swept'
    BY <1>2
  <2> QED BY <2>1, <2>2, BytesStay
<1>11. BackedBy(blobs \cup swept)'
  BY <1>2, <1>5, BackedStays
<1>12. GcInv'
  BY <1>2, GcStays DEF Quiet
<1>13. RowsInv'
  <2>1. \A c \in {job[Restorer].cp, job[Restorer].undo} :
           turn[store[c].turn] = "running" => store[c].turn \in partial
    BY <1>2, RestoreJob, RestoredTurn DEF Restoring
  <2>2. \A c \in DOMAIN store : turn[store[c].turn] = "running" /\ store[c].turn \notin partial =>
           store'[c].status = store[c].status
    BY <1>5, <2>1
  <2> QED BY <1>2, <1>5, <2>2, RowsStatesStay
<1>14. OriginInv'
  BY <1>2, <1>5, <1>7, OriginStays
<1> QED BY <1>5, <1>6, <1>9, <1>10, <1>11, <1>12, <1>13, <1>14 DEF CheckpointInv

-----------------------------------------------------------------------------
(* The steps that begin a checkpoint                                       *)

\* What a row that is appended leaves as it was.
LEMMA RowBegins ==
  ASSUME CheckpointInv, NEW t \in Turns, NEW label \in {"Before-this-turn", "Before-restore"},
         store' = Append(store, NewCheckpoint(t, label)), blobs' = blobs, swept' = swept
  PROVE  /\ store' \in Seq(Checkpoint) /\ RowsStay
         /\ Len(store) + 1 \notin DOMAIN store /\ Len(store) + 1 \in Nat /\ Len(store) + 1 # 0
         /\ DOMAIN store' = DOMAIN store \cup {Len(store) + 1}
         /\ store'[Len(store) + 1].turn = t /\ store'[Len(store) + 1].label = label
         /\ store'[Len(store) + 1].status = "active"
         /\ \A f \in Files : store'[Len(store) + 1].entries[f] = Nothing
         /\ \A c \in DOMAIN store : store'[c] = store[c]
         /\ BackedBy(blobs \cup swept)'
<1> DEFINE u == Append(store, NewCheckpoint(t, label))
           n == Len(store) + 1
<1>1. store \in Seq(Checkpoint) /\ Len(store) \in Nat /\ BackedBy(blobs \cup swept)
  BY InvFacts, TypeFacts, RowFacts
<1>2. Grown(store, u, t, label)
  BY <1>1, RowAppended, Zenon
<1> HIDE DEF u
<1>3. /\ u \in Seq(Checkpoint) /\ n \notin DOMAIN store /\ n \in Nat /\ n # 0
      /\ DOMAIN u = DOMAIN store \cup {n}
      /\ \A c \in DOMAIN store : u[c] = store[c]
      /\ u[n].turn = t /\ u[n].label = label /\ u[n].status = "active"
      /\ \A f \in Files : u[n].entries[f] = Nothing
  BY <1>2 DEF Grown
<1>4. store' = u
  BY DEF u
<1> HIDE DEF n
<1>5. RowsStay
  BY <1>3, <1>4 DEF RowsStay
<1>6. BackedBy(blobs \cup swept)'
  <2>1. \A c \in DOMAIN store, f \in Files :
           store[c].status # "deleted" /\ store[c].entries[f] \in Contents =>
              store[c].entries[f] \in blobs \cup swept
    BY <1>1 DEF BackedBy
  <2>2. Nothing \notin Contents
    BY ValueFacts
  <2>3. ASSUME NEW c \in DOMAIN store', NEW f \in Files,
               store'[c].status # "deleted", store'[c].entries[f] \in Contents
        PROVE  store'[c].entries[f] \in blobs' \cup swept'
    <3>1. c # n
      BY <1>3, <1>4, <2>2, <2>3
    <3>2. c \in DOMAIN store /\ store'[c] = store[c]
      BY <1>3, <1>4, <3>1
    <3> QED BY <2>1, <2>3, <3>2
  <2> QED BY <2>3 DEF BackedBy
<1> QED BY <1>3, <1>4, <1>5, <1>6 DEF n

\* What a restore begins with.
RestoreStarts(c, n, t) ==
    /\ c \in DOMAIN store /\ c \in Nat /\ store[c].turn = t /\ t \in Turns
    /\ store' \in Seq(Checkpoint) /\ RowsStay
    /\ n \notin DOMAIN store /\ n \in Nat /\ n # 0
    /\ DOMAIN store' = DOMAIN store \cup {n}
    /\ store'[n].turn = t /\ store'[n].label = "Before-restore"
    /\ \A f \in Files : store'[n].entries[f] = Nothing
    /\ \A d \in DOMAIN store : store'[d] = store[d]
    /\ BackedBy(blobs \cup swept)'
    /\ job' \in [Actors -> Job] /\ \A a \in Actors \ {Restorer} : job'[a] = job[a]
    /\ job'[Restorer].pc = "none" /\ job'[Restorer].cp = c /\ job'[Restorer].undo = n
    /\ due' = {f \in Files : store[c].entries[f] # Nothing} /\ todo' = due'
    /\ skipped' = FALSE /\ exposed' = {}
    /\ partial' = IF turn[t] = "running" THEN partial \cup {t} ELSE partial
    /\ UNCHANGED <<disk, blobs, temps, turn, writes, crashes, origin, raced, swept>>

LEMMA RestoreStarting ==
  ASSUME CheckpointInv, NEW c \in DOMAIN store, RestoreBegins(c)
  PROVE  RestoreStarts(c, Len(store) + 1, store[c].turn)
<1> DEFINE t == store[c].turn
           n == Len(store) + 1
           label == "Before-restore"
           j == [Idle EXCEPT !.cp = c, !.undo = n]
<1>1. /\ job \in [Actors -> Job] /\ Restorer \in Actors /\ store \in Seq(Checkpoint)
  BY InvFacts, TypeFacts, ActorFacts
<1>2. /\ store' = Append(store, NewCheckpoint(t, label))
      /\ partial' = IF turn[t] = "running" THEN partial \cup {t} ELSE partial
      /\ job' = [job EXCEPT ![Restorer] = j]
      /\ due' = {f \in Files : store[c].entries[f] # Nothing} /\ todo' = due'
      /\ skipped' = FALSE /\ exposed' = {}
      /\ UNCHANGED <<disk, blobs, temps, turn, writes, crashes, origin, raced, swept>>
  BY DEF RestoreBegins, fileVars, turnVars, pastVars
<1>3. t \in Turns /\ c \in Nat
  BY <1>1, RowFacts
<1>4. label \in {"Before-this-turn", "Before-restore"} /\ label = "Before-restore"
  OBVIOUS
<1> HIDE DEF label, t
<1>5. /\ store' \in Seq(Checkpoint) /\ RowsStay
      /\ n \notin DOMAIN store /\ n \in Nat /\ n # 0
      /\ DOMAIN store' = DOMAIN store \cup {n}
      /\ store'[n].turn = t /\ store'[n].label = label
      /\ \A f \in Files : store'[n].entries[f] = Nothing
      /\ \A d \in DOMAIN store : store'[d] = store[d]
      /\ BackedBy(blobs \cup swept)'
  BY <1>2, <1>3, <1>4, RowBegins
<1>6. /\ j \in Job /\ j.pc = "none" /\ j.cp = c /\ j.undo = n
  BY <1>3, <1>5, IdleFacts DEF Job
<1> HIDE DEF j, n
<1>7. /\ job' \in [Actors -> Job] /\ (\A a \in Actors \ {Restorer} : job'[a] = job[a])
      /\ job'[Restorer] = j
  BY <1>1, <1>2, <1>6, JobSet
<1>8. store[c].turn = t
  BY DEF t
<1>9. RestoreStarts(c, n, t)
  BY <1>2, <1>3, <1>4, <1>5, <1>6, <1>7, <1>8 DEF RestoreStarts
<1> QED BY <1>9 DEF n, t

LEMMA RestoreBeginsKeeps ==
  ASSUME CheckpointInv, NEW c \in DOMAIN store, RestoreBegins(c)
  PROVE  CheckpointInv' /\ RowsStay
<1> DEFINE n == Len(store) + 1
           t == store[c].turn
<1>1. TypeOK /\ JobsInv /\ RowsInv
  BY InvFacts
<1>2. Opened /\ restores < MaxRestores /\ restores' = restores + 1
  BY DEF RestoreBegins
<1>3. restores \in 0 .. MaxRestores /\ MaxRestores \in Nat /\ partial \subseteq Turns
  BY <1>1, TypeFacts, CheckpointAssumption
<1>4. RestoreStarts(c, n, t)
  BY RestoreStarting
<1> HIDE DEF n, t
<1>5. /\ c \in DOMAIN store /\ store[c].turn = t /\ t \in Turns
      /\ store' \in Seq(Checkpoint) /\ RowsStay /\ n \notin DOMAIN store /\ n # 0
      /\ DOMAIN store' = DOMAIN store \cup {n}
      /\ store'[n].turn = t /\ store'[n].label = "Before-restore"
      /\ \A d \in DOMAIN store : store'[d] = store[d]
      /\ BackedBy(blobs \cup swept)'
      /\ job' \in [Actors -> Job] /\ \A a \in Actors \ {Restorer} : job'[a] = job[a]
      /\ job'[Restorer].pc = "none" /\ job'[Restorer].cp = c /\ job'[Restorer].undo = n
  BY <1>4 DEF RestoreStarts
<1>6. /\ due' \subseteq Files /\ todo' \subseteq Files /\ skipped' \in BOOLEAN
      /\ exposed' \subseteq Files /\ partial' \subseteq Turns /\ partial \subseteq partial'
      /\ turn[t] = "running" => t \in partial'
      /\ UNCHANGED <<disk, blobs, temps, turn, writes, crashes, origin, raced, swept>>
  BY <1>3, <1>4 DEF RestoreStarts
<1>7. /\ gc.pc # "start" /\ gc'.pc = gc.pc
      /\ gc'.pc = "sweep" => gc'.beside
      /\ gc' \in [pc: {"start", "sweep", "done"}, refs: SUBSET Contents, beside: BOOLEAN]
  BY <1>1, <1>2, OpenedFacts
<1>8. TypeOK'
  <2>1. restores' \in 0 .. MaxRestores
    BY <1>2, <1>3, OneMore
  <2>2. TypeOK
    BY <1>1
  <2> QED BY <1>5, <1>6, <1>7, <2>1, <2>2 DEF TypeOK
<1>9. \A u \in Turns : job'[u] = job[u]
  BY <1>5, ActorFacts
<1>10. JobsInv'
  <2>1. ASSUME NEW u \in Turns, job'[u].pc # "none"
        PROVE  turn'[u] = "running" /\ job'[u].cp \in DOMAIN store' /\ store'[job'[u].cp].turn = u
    <3>1. turn[u] = "running" /\ job[u].cp \in DOMAIN store /\ store[job[u].cp].turn = u
      BY <1>9, <2>1, TurnJob
    <3> QED BY <1>5, <1>6, <1>9, <3>1
  <2>2. /\ c \in DOMAIN store' /\ n \in DOMAIN store' /\ c # n
        /\ store'[c].turn = t /\ store'[n].turn = t /\ store'[n].label = "Before-restore"
    BY <1>5
  <2> QED BY <1>5, <2>1, <2>2 DEF JobsInv, Restoring
<1>11. BytesInv'
  <2>1. \A a \in Actors : job'[a].pc \in InHand =>
           job'[a].pc = job[a].pc /\ job'[a].bytes = job[a].bytes
    BY <1>5 DEF InHand
  <2>2. blobs \cup swept \subseteq blobs' \cup swept'
    BY <1>6
  <2> QED BY <2>1, <2>2, BytesStay
<1>12. GcInv'
  BY <1>7 DEF GcInv
<1>13. RowsInv'
  <2>1. turn' = turn
    BY <1>6
  <2>2. turn[t] # "idle"
    BY <1>1, <1>5 DEF RowsInv
  <2>3. \A d \in DOMAIN store' :
           /\ turn'[store'[d].turn] # "idle"
           /\ turn'[store'[d].turn] = "running" /\ store'[d].turn \notin partial' =>
                 store'[d].label = "Before-this-turn" /\ store'[d].status = "active"
    BY <1>1, <1>5, <1>6, <2>1, <2>2 DEF RowsInv
  <2>4. \A d, e \in DOMAIN store' :
           /\ store'[d].turn \notin partial' /\ store'[e].turn = store'[d].turn
           /\ store'[d].label = "Before-this-turn" /\ store'[e].label = "Before-this-turn"
           => d = e
    BY <1>1, <1>5, <1>6 DEF RowsInv
  <2> QED BY <2>3, <2>4 DEF RowsInv
<1>14. OriginInv'
  BY <1>5, <1>6, <1>9, OriginStays
<1> QED BY <1>5, <1>8, <1>10, <1>11, <1>12, <1>13, <1>14 DEF CheckpointInv

\* What a capture begins with: the row it fills, and the job.
Captures(t, f, c) ==
    /\ turn[t] = "running" /\ job[t].pc = "none"
    /\ UNCHANGED <<disk, blobs, temps, turn, due, todo, skipped, exposed, gc, restores, crashes,
                   origin, partial, raced, swept>>
    /\ writes' \in [Turns -> 0 .. MaxWrites] /\ store' \in Seq(Checkpoint)
    /\ RowsStay /\ BackedBy(blobs \cup swept)' /\ RowsInv'
    /\ c \in DOMAIN store' /\ store'[c].turn = t
    /\ job' \in [Actors -> Job] /\ \A a \in Actors \ {t} : job'[a] = job[a]
    /\ job'[t].cp = c /\ job'[t].file = f /\ job'[t].pc \in {"read", "act"}
    /\ job'[t].pc = "act" => store'[c].entries[f] # Nothing

LEMMA CapturesKeeps ==
  ASSUME CheckpointInv, NEW t \in Turns, NEW f \in Files, NEW c, Captures(t, f, c)
  PROVE  CheckpointInv' /\ RowsStay
<1>1. TypeOK /\ JobsInv
  BY InvFacts
<1>2. /\ turn[t] = "running" /\ job[t].pc = "none"
      /\ UNCHANGED <<disk, blobs, temps, turn, due, todo, skipped, exposed, gc, restores, crashes,
                     origin, partial, raced, swept>>
      /\ writes' \in [Turns -> 0 .. MaxWrites] /\ store' \in Seq(Checkpoint)
      /\ RowsStay /\ BackedBy(blobs \cup swept)' /\ RowsInv'
      /\ c \in DOMAIN store' /\ store'[c].turn = t
      /\ job' \in [Actors -> Job] /\ \A a \in Actors \ {t} : job'[a] = job[a]
      /\ job'[t].cp = c /\ job'[t].file = f /\ job'[t].pc \in {"read", "act"}
      /\ job'[t].pc = "act" => store'[c].entries[f] # Nothing
  BY DEF Captures
<1>3. t \in Actors /\ t # Restorer /\ job'[Restorer] = job[Restorer]
  BY <1>2, ActorFacts
<1>4. TypeOK'
  BY <1>1, <1>2, TypeFacts DEF TypeOK
<1>5. JobsInv'
  <2>1. ASSUME NEW u \in Turns \ {t}, job'[u].pc # "none"
        PROVE  turn'[u] = "running" /\ job'[u].cp \in DOMAIN store' /\ store'[job'[u].cp].turn = u
    <3>1. job'[u] = job[u]
      BY <1>2, ActorFacts
    <3>2. turn[u] = "running" /\ job[u].cp \in DOMAIN store /\ store[job[u].cp].turn = u
      BY <2>1, <3>1, TurnJob
    <3> QED BY <1>2, <3>1, <3>2 DEF RowsStay
  <2>2. turn'[t] = "running" /\ job'[t].cp \in DOMAIN store' /\ store'[job'[t].cp].turn = t
    BY <1>2
  <2>3. \A u \in Turns : job'[u].pc # "none" =>
           turn'[u] = "running" /\ job'[u].cp \in DOMAIN store' /\ store'[job'[u].cp].turn = u
    BY <2>1, <2>2
  <2>4. ASSUME job'[Restorer].undo # 0
        PROVE  /\ job'[Restorer].cp \in DOMAIN store' /\ job'[Restorer].undo \in DOMAIN store'
               /\ job'[Restorer].cp # job'[Restorer].undo
               /\ store'[job'[Restorer].undo].turn = store'[job'[Restorer].cp].turn
               /\ store'[job'[Restorer].undo].label = "Before-restore"
    <3>1. /\ job[Restorer].cp \in DOMAIN store /\ job[Restorer].undo \in DOMAIN store
          /\ job[Restorer].cp # job[Restorer].undo
          /\ store[job[Restorer].undo].turn = store[job[Restorer].cp].turn
          /\ store[job[Restorer].undo].label = "Before-restore"
      BY <1>3, <2>4, RestoreJob
    <3> QED BY <1>2, <1>3, <3>1 DEF RowsStay
  <2>5. job'[Restorer].pc # "none" => job'[Restorer].undo # 0
    BY <1>1, <1>3 DEF JobsInv, Restoring
  <2> QED BY <2>3, <2>4, <2>5 DEF JobsInv, Restoring
<1>6. BytesInv'
  <2>1. \A a \in Actors : job'[a].pc \in InHand =>
           job'[a].pc = job[a].pc /\ job'[a].bytes = job[a].bytes
    BY <1>2 DEF InHand
  <2>2. blobs \cup swept \subseteq blobs' \cup swept'
    BY <1>2
  <2> QED BY <2>1, <2>2, BytesStay
<1>7. GcInv'
  BY <1>2, GcStays DEF Quiet
<1>8. OriginInv'
  <2>1. Listing(t)'
    BY <1>2 DEF Listing
  <2>2. \A u \in Turns \ {t} : job'[u] = job[u]
    BY <1>2, ActorFacts
  <2> QED BY <1>2, <2>1, <2>2, OriginStays
<1> QED BY <1>2, <1>4, <1>5, <1>6, <1>7, <1>8 DEF CheckpointInv

LEMMA CaptureBeginsKeeps ==
  ASSUME CheckpointInv, NEW t \in Turns, NEW f \in Files, CaptureBegins(t, f)
  PROVE  CheckpointInv' /\ RowsStay
<1> DEFINE known == ActiveOf(t)
           n == Len(store) + 1
           c == IF known = {} THEN n ELSE Newest(known)
           held == known # {} /\ store[c].entries[f] # Nothing
           pc == IF held THEN "act" ELSE "read"
           j == [Idle EXCEPT !.pc = pc, !.cp = c, !.file = f]
           label == "Before-this-turn"
<1>1. TypeOK /\ RowsInv /\ BackedBy(blobs \cup swept)
  BY InvFacts
<1>2. /\ turn[t] = "running" /\ job[t].pc = "none" /\ writes[t] < MaxWrites
      /\ writes' = [writes EXCEPT ![t] = @ + 1]
      /\ job' = [job EXCEPT ![t] = j]
      /\ store' = IF known = {} THEN Append(store, NewCheckpoint(t, label)) ELSE store
      /\ UNCHANGED <<disk, blobs, temps, turn, due, todo, skipped, exposed, gc, restores, crashes,
                     origin, partial, raced, swept>>
  BY DEF CaptureBegins, fileVars, restoreVars, boundVars, pastVars
<1>3. /\ job \in [Actors -> Job] /\ t \in Actors /\ store \in Seq(Checkpoint)
      /\ writes \in [Turns -> 0 .. MaxWrites] /\ MaxWrites \in Nat
  BY <1>1, TypeFacts, ActorFacts, CheckpointAssumption
<1>4. writes' \in [Turns -> 0 .. MaxWrites]
  <2>1. writes[t] + 1 \in 0 .. MaxWrites
    BY <1>2, <1>3, OneMore
  <2> QED BY <1>2, <1>3, <2>1
<1>5. known \in SUBSET (1 .. Len(store)) /\ known \subseteq DOMAIN store /\ Len(store) \in Nat
  BY <1>3, RowFacts DEF ActiveOf
<1>6. label \in {"Before-this-turn", "Before-restore"} /\ label = "Before-this-turn"
  OBVIOUS
<1> HIDE DEF known, label
<1>7. ASSUME known # {}
      PROVE  /\ c \in DOMAIN store' /\ store'[c].turn = t
             /\ c \in Nat /\ store' \in Seq(Checkpoint) /\ RowsStay
             /\ BackedBy(blobs \cup swept)' /\ RowsInv'
             /\ held => store'[c].entries[f] # Nothing
  <2>1. store' = store
    BY <1>2, <1>7
  <2>2. c \in known
    BY <1>5, <1>7, NewestIsIn
  <2>3. c \in DOMAIN store /\ store[c].turn = t /\ c \in Nat
    BY <1>5, <2>2 DEF known, ActiveOf
  <2>4. RowsStay /\ DOMAIN store' = DOMAIN store /\ blobs \cup swept \subseteq blobs' \cup swept'
    BY <1>2, <2>1 DEF RowsStay
  <2>5. BackedBy(blobs \cup swept)'
    BY <2>4, BackedStays
  <2>6. RowsInv'
    BY <1>2, <2>1, <2>4, RowsStatesStay
  <2> HIDE DEF c
  <2> QED BY <1>3, <2>1, <2>3, <2>4, <2>5, <2>6
<1>8. ASSUME known = {}
      PROVE  /\ c \in DOMAIN store' /\ store'[c].turn = t
             /\ c \in Nat /\ store' \in Seq(Checkpoint) /\ RowsStay
             /\ BackedBy(blobs \cup swept)' /\ RowsInv'
             /\ ~held
  <2>1. store' = Append(store, NewCheckpoint(t, label)) /\ blobs' = blobs /\ swept' = swept
    BY <1>2, <1>8
  <2>2. /\ store' \in Seq(Checkpoint) /\ RowsStay
        /\ n \notin DOMAIN store /\ n \in Nat
        /\ DOMAIN store' = DOMAIN store \cup {n}
        /\ store'[n].turn = t /\ store'[n].label = label /\ store'[n].status = "active"
        /\ \A d \in DOMAIN store : store'[d] = store[d]
        /\ BackedBy(blobs \cup swept)'
    BY <1>6, <2>1, RowBegins
  <2>3. c = n
    BY <1>8
  <2> HIDE DEF n, c
  <2>4. turn' = turn /\ partial' = partial /\ turn[t] = "running"
    BY <1>2
  <2>5. ASSUME NEW d \in DOMAIN store, store[d].turn = t
        PROVE  t \in partial
    <3>1. store[d].status # "active"
      BY <1>8, <2>5 DEF known, ActiveOf
    <3> QED BY <1>1, <2>4, <2>5, <3>1 DEF RowsInv
  <2>6. \A d \in DOMAIN store' :
           /\ turn'[store'[d].turn] # "idle"
           /\ turn'[store'[d].turn] = "running" /\ store'[d].turn \notin partial' =>
                 store'[d].label = "Before-this-turn" /\ store'[d].status = "active"
    BY <1>1, <1>6, <2>2, <2>4 DEF RowsInv
  <2>7. \A d, e \in DOMAIN store' :
           /\ store'[d].turn \notin partial' /\ store'[e].turn = store'[d].turn
           /\ store'[d].label = "Before-this-turn" /\ store'[e].label = "Before-this-turn"
           => d = e
    BY <1>1, <2>2, <2>4, <2>5 DEF RowsInv
  <2>8. RowsInv'
    BY <2>6, <2>7 DEF RowsInv
  <2>9. ~held
    BY <1>8
  <2> HIDE DEF held
  <2> QED BY <1>6, <2>2, <2>3, <2>8, <2>9
<1>9. /\ c \in DOMAIN store' /\ store'[c].turn = t
      /\ c \in Nat /\ store' \in Seq(Checkpoint) /\ RowsStay
      /\ BackedBy(blobs \cup swept)' /\ RowsInv'
      /\ held => store'[c].entries[f] # Nothing
  <2> HIDE DEF c, held
  <2> QED BY <1>7, <1>8
<1>10. pc \in {"read", "act"} /\ (pc = "act" => held)
  <2> HIDE DEF held
  <2> QED OBVIOUS
<1> HIDE DEF c, held, pc
<1>11. j \in Job /\ j.pc = pc /\ j.cp = c /\ j.file = f
  BY <1>9, <1>10, IdleFacts DEF Job
<1> HIDE DEF j
<1>12. job' \in [Actors -> Job] /\ (\A a \in Actors \ {t} : job'[a] = job[a]) /\ job'[t] = j
  BY <1>2, <1>3, <1>11, JobSet
<1>13. Captures(t, f, c)
  BY <1>2, <1>4, <1>9, <1>10, <1>11, <1>12 DEF Captures
<1> QED BY <1>13, CapturesKeeps

-----------------------------------------------------------------------------
(* The theorems                                                            *)

LEMMA CheckpointInit ==
  Init => CheckpointInv
<1> SUFFICES ASSUME Init PROVE CheckpointInv
  OBVIOUS
<1>1. /\ disk \in [Files -> Bytes] /\ store = <<>> /\ blobs = {} /\ temps = {}
      /\ turn = [t \in Turns |-> "idle"] /\ writes = [t \in Turns |-> 0]
      /\ job = [a \in Actors |-> Idle] /\ due = {} /\ todo = {} /\ skipped = FALSE
      /\ gc = AtBoot /\ restores = 0 /\ crashes = 0 /\ origin = [t \in Turns |-> NoEntries]
      /\ partial = {} /\ raced = {} /\ exposed = {} /\ swept = {}
  BY DEF Init
<1>2. \A m \in Nat : 0 \in 0 .. m
  OBVIOUS
<1>3. MaxWrites \in Nat /\ MaxRestores \in Nat /\ MaxCrashes \in Nat
  BY CheckpointAssumption
<1>4. store \in Seq(Checkpoint) /\ DOMAIN store = {}
  <2>1. Len(store) = 0
    BY <1>1
  <2>2. store \in Seq(Checkpoint)
    BY <1>1
  <2>3. DOMAIN store = 1 .. 0
    BY <2>1, <2>2
  <2> QED BY <2>2, <2>3
<1>5. /\ job \in [Actors -> Job] /\ \A a \in Actors : job[a].pc = "none" /\ job[a].undo = 0
  BY <1>1, IdleFacts
<1>6. gc.pc = "start" /\ gc \in [pc: {"start", "sweep", "done"}, refs: SUBSET Contents,
                                 beside: BOOLEAN]
  BY <1>1 DEF AtBoot
<1>7. origin \in [Turns -> [Files -> Bytes \cup {Nothing}]]
      /\ \A t \in Turns, f \in Files : origin[t][f] = Nothing
  BY <1>1 DEF NoEntries
<1>8. TypeOK
  <2>1. writes \in [Turns -> 0 .. MaxWrites] /\ restores \in 0 .. MaxRestores
        /\ crashes \in 0 .. MaxCrashes
    BY <1>1, <1>2, <1>3
  <2>2. turn \in [Turns -> {"idle", "running", "over"}]
    BY <1>1
  <2> QED BY <1>1, <1>4, <1>5, <1>6, <1>7, <2>1, <2>2 DEF TypeOK
<1>9. JobsInv /\ BytesInv
  BY <1>5, ActorFacts DEF JobsInv, BytesInv, Restoring
<1>10. BackedBy(blobs \cup swept) /\ RowsInv
  BY <1>4 DEF BackedBy, RowsInv
<1>11. GcInv
  BY <1>1, <1>5, <1>6, ActorFacts DEF GcInv, Quiet, Restoring
<1>12. OriginInv
  BY <1>5, <1>7, ActorFacts DEF OriginInv
<1> QED BY <1>8, <1>9, <1>10, <1>11, <1>12 DEF CheckpointInv

LEMMA StutterStays ==
  ASSUME CheckpointInv, UNCHANGED vars
  PROVE  CheckpointInv' /\ RowsStay
<1>1. /\ TypeOK /\ JobsInv /\ BytesInv /\ GcInv /\ RowsInv /\ OriginInv
      /\ BackedBy(blobs \cup swept)
  BY InvFacts
<1>2. UNCHANGED <<disk, blobs, temps, store, turn, writes, job, due, todo, skipped, exposed, gc,
                  restores, crashes, origin, partial, raced, swept>>
  BY DEF vars, fileVars, turnVars, restoreVars, boundVars, pastVars
<1>3. TypeOK'
  BY <1>1, <1>2 DEF TypeOK
<1>4. JobsInv' /\ BytesInv' /\ GcInv' /\ RowsInv' /\ BackedBy(blobs \cup swept)'
  BY <1>1, <1>2 DEF JobsInv, BytesInv, GcInv, RowsInv, BackedBy, Restoring, Quiet
<1>5. RowsStay
  BY <1>2 DEF RowsStay
<1>6. OriginInv'
  BY <1>2, <1>5, OriginStays
<1> QED BY <1>3, <1>4, <1>5, <1>6 DEF CheckpointInv

\* The steps that work on a row, and the others.
WorkStep(a) ==
    ReadBytes(a) \/ ReadFails(a) \/ PutBegins(a) \/ PutFails(a) \/ PutRenames(a) \/ ListBlob(a)

LEMMA WorkStepWorks ==
  ASSUME CheckpointInv, NEW a \in Actors, WorkStep(a)
  PROVE  job[a].pc # "none" /\ Works(a)
<1>1. job[a].pc # "none"
  BY DEF WorkStep, ReadBytes, ReadFails, PutBegins, PutFails, PutRenames, ListBlob
<1>2. Works(a)
  BY ReadBytesWorks, ReadFailsWorks, PutBeginsWorks, PutFailsWorks, PutRenamesWorks,
     ListBlobWorks DEF WorkStep
<1> QED BY <1>1, <1>2

LEMMA OtherStepsStay ==
  ASSUME CheckpointInv, [Next]_vars, \A a \in Actors : ~WorkStep(a)
  PROVE  CheckpointInv' /\ RowsStay
<1> DEFINE Done == CheckpointInv' /\ RowsStay
<1>1. ASSUME NEW t \in Turns, StartTurn(t) PROVE Done
  BY <1>1, StartTurnKeeps DEF StartTurn, RowsStay
<1>2. ASSUME NEW t \in Turns, NEW f \in Files, CaptureBegins(t, f) PROVE Done
  BY <1>2, CaptureBeginsKeeps
<1>3. ASSUME NEW t \in Turns, NEW bytes \in Contents \cup {disk[job[t].file]}, ToolActs(t, bytes)
      PROVE  Done
  <2>1. CheckpointInv'
    BY <1>3, ToolActsKeeps
  <2>2. store' = store
    BY <1>3 DEF ToolActs
  <2> QED BY <2>1, <2>2 DEF RowsStay
<1>4. ASSUME NEW t \in Turns, EndTurn(t) PROVE Done
  BY <1>4, EndTurnKeeps DEF EndTurn, RowsStay
<1>5. ASSUME NEW c \in DOMAIN store, RestoreBegins(c) PROVE Done
  BY <1>5, RestoreBeginsKeeps
<1>6. ASSUME NEW a \in Actors, GcRemovesTemp(a) PROVE Done
  BY <1>6, GcRemovesTempKeeps DEF GcRemovesTemp, RowsStay
<1>7. ASSUME NEW f \in Files, RestoreNext(f) PROVE Done
  <2>1. CheckpointInv'
    BY <1>7, RestoreNextKeeps
  <2>2. store' = store
    BY <1>7 DEF RestoreNext
  <2> QED BY <2>1, <2>2 DEF RowsStay
<1>8. ASSUME WritesBack PROVE Done
  <2>1. store' = store
    BY <1>8, WriteBackDisk
  <2> QED BY <1>8, <2>1, WriteBackKeeps DEF RowsStay
<1>10. ASSUME RestoreEnds PROVE Done
  BY <1>10, RestoreEndsKeeps
<1>11. ASSUME GcStarts PROVE Done
  BY <1>11, GcStartsKeeps
<1>12. ASSUME NEW b \in Contents, GcRemovesBlob(b) PROVE Done
  BY <1>12, GcRemovesBlobKeeps DEF GcRemovesBlob, RowsStay
<1>13. ASSUME GcEnds PROVE Done
  <2>1. store' = store
    BY <1>13 DEF GcEnds
  <2> QED BY <1>13, <2>1, GcEndsKeeps DEF RowsStay
<1>14. ASSUME CrashAndBoot PROVE Done
  <2>1. store' = store
    BY <1>14 DEF CrashAndBoot
  <2> QED BY <1>14, <2>1, CrashKeeps DEF RowsStay
<1>15. ASSUME UNCHANGED vars PROVE Done
  BY <1>15, StutterStays
<1> HIDE DEF Done
<1>16. ASSUME NEW t \in Turns,
              \/ StartTurn(t)
              \/ \E f \in Files : CaptureBegins(t, f)
              \/ \E bytes \in Contents \cup {disk[job[t].file]} : ToolActs(t, bytes)
              \/ EndTurn(t)
       PROVE  Done
  BY <1>1, <1>2, <1>3, <1>4, <1>16
<1>17. ASSUME Next PROVE Done
  <2>1. \/ \E t \in Turns :
              \/ StartTurn(t)
              \/ \E f \in Files : CaptureBegins(t, f)
              \/ \E bytes \in Contents \cup {disk[job[t].file]} : ToolActs(t, bytes)
              \/ EndTurn(t)
        \/ \E a \in Actors : GcRemovesTemp(a)
        \/ \E c \in DOMAIN store : RestoreBegins(c)
        \/ \E f \in Files : RestoreNext(f)
        \/ WritesBack \/ RestoreEnds \/ GcStarts
        \/ \E b \in Contents : GcRemovesBlob(b)
        \/ GcEnds \/ CrashAndBoot
    BY <1>17 DEF Next, WorkStep, WritesBack
  <2> QED BY <1>5, <1>6, <1>7, <1>8, <1>10, <1>11, <1>12, <1>13, <1>14, <1>16, <2>1
<1>18. Done
  BY <1>15, <1>17
<1> QED BY <1>18 DEF Done

LEMMA CheckpointStep ==
  CheckpointInv /\ [Next]_vars => CheckpointInv'
<1> SUFFICES ASSUME CheckpointInv, [Next]_vars PROVE CheckpointInv'
  OBVIOUS
<1>1. CASE \E a \in Actors : WorkStep(a)
  BY <1>1, WorkStepWorks, WorkKeeps
<1>2. CASE \A a \in Actors : ~WorkStep(a)
  BY <1>2, OtherStepsStay
<1> QED BY <1>1, <1>2

THEOREM CheckpointInvariant ==
  Spec => []CheckpointInv
BY CheckpointInit, CheckpointStep, PTL DEF Spec

\* Every state has the type it says: captures, restores, collections and crashes, however they
\* interleave, leave rows with a turn, a label, a status and one entry per file (checkpoints.ts).
THEOREM CheckpointTypes ==
  Spec => []TypeOK
<1>1. CheckpointInv => TypeOK
  BY DEF CheckpointInv
<1> QED BY <1>1, CheckpointInvariant, PTL

\* Every pre-image an entry of a kept checkpoint refers to is in the blob store, but for what a
\* collection removed beside a turn or a restore that began while it was under way
\* (gcOrphanBlobs() reads what is referenced once, before it removes anything).
THEOREM EntriesAreBacked ==
  Spec => []EntriesBacked
<1>1. CheckpointInv => EntriesBacked
  <2> SUFFICES ASSUME CheckpointInv, NEW x \in Referenced
               PROVE  x \in blobs \cup swept
    BY DEF EntriesBacked
  <2>1. PICK c \in DOMAIN store, f \in Files :
           store[c].status # "deleted" /\ x = store[c].entries[f] /\ x \in Contents
    BY DEF Referenced
  <2>2. BackedBy(blobs \cup swept)
    BY InvFacts
  <2> QED BY <2>1, <2>2 DEF BackedBy
<1> QED BY <1>1, CheckpointInvariant, PTL

\* What FirstPreimageWins says of a step.
FirstWins ==
    \A c \in DOMAIN store : \A f \in Files :
        store'[c].entries[f] # store[c].entries[f] =>
            /\ store[c].entries[f] = Nothing
            /\ store[c].label = "Before-this-turn" /\ store[c].turn \notin partial =>
                  origin[store[c].turn][f] = Nothing

LEMMA WorkFirstWins ==
  ASSUME CheckpointInv, NEW a \in Actors, job[a].pc # "none", Works(a)
  PROVE  FirstWins
<1>1. ASSUME NEW c \in DOMAIN store, NEW f \in Files,
             store'[c].entries[f] # store[c].entries[f]
      PROVE  c = Row(a) /\ store[c].entries[f] = Nothing
  BY <1>1 DEF Works, WorksRows
<1>2. ASSUME NEW c \in DOMAIN store, NEW f \in Files,
             store'[c].entries[f] # store[c].entries[f],
             store[c].label = "Before-this-turn", store[c].turn \notin partial
      PROVE  origin[store[c].turn][f] = Nothing
  <2>1. c = Row(a) /\ store[c].entries[f] = Nothing
    BY <1>1, <1>2
  <2>2. a \in Turns /\ store[c].turn = a
    BY <1>2, <2>1, RowIsThere, ActorFacts
  <2>3. ASSUME origin[a][f] # Nothing
        PROVE  FALSE
    <3>1. a \notin partial
      BY <1>2, <2>2
    <3>2. PICK d \in DOMAIN store : /\ store[d].turn = a /\ store[d].label = "Before-this-turn"
                                    /\ store[d].entries[f] # Nothing
      BY <2>2, <2>3, <3>1, OriginOf
    <3>3. RowsInv
      BY InvFacts
    <3>4. d = c
      BY <1>2, <2>2, <3>1, <3>2, <3>3 DEF RowsInv
    <3> QED BY <2>1, <3>2, <3>4
  <2> QED BY <2>2, <2>3
<1> QED BY <1>1, <1>2 DEF FirstWins

\* A pre-image is never replaced (INSERT OR IGNORE), and unless a capture of the turn failed, or
\* the turn was restored while it ran, it is listed before the turn has touched the file
\* (captureBeforeMutation() is awaited).
THEOREM FirstPreimageIsKept ==
  Spec => FirstPreimageWins
<1>1. CheckpointInv /\ [Next]_vars => FirstWins
  <2> SUFFICES ASSUME CheckpointInv, [Next]_vars PROVE FirstWins
    OBVIOUS
  <2>1. CASE \E a \in Actors : WorkStep(a)
    BY <2>1, WorkStepWorks, WorkFirstWins
  <2>2. CASE \A a \in Actors : ~WorkStep(a)
    <3>1. RowsStay
      BY <2>2, OtherStepsStay
    <3> QED BY <3>1 DEF RowsStay, FirstWins
  <2> QED BY <2>1, <2>2
<1>2. [][FirstWins]_vars => FirstPreimageWins
  BY PTL DEF FirstPreimageWins, FirstWins
<1> QED BY <1>1, <1>2, CheckpointInvariant, PTL DEF Spec

-----------------------------------------------------------------------------
(* What a restore brings back                                              *)

LEMMA RestoreFacts ==
  ASSUME RestoreInv, job[Restorer].undo # 0
  PROVE  /\ job[Restorer].pc # "none" => job[Restorer].file \notin todo
         /\ \A f \in due : store[job[Restorer].cp].entries[f] # Nothing
         /\ ~skipped => \A f \in due \ (todo \cup exposed) :
               job[Restorer].pc = "none" \/ job[Restorer].file # f =>
                  disk[f] = store[job[Restorer].cp].entries[f]
BY DEF RestoreInv, Restoring, Target

LEMMA UndoFacts ==
  ASSUME UndoInv, job[Restorer].undo # 0
  PROVE  /\ \A f \in Files \ exposed : Ahead(f) =>
               /\ store[job[Restorer].undo].entries[f] # Nothing => UndoLists(f)
               /\ \A a \in Actors : Fills(a) /\ Keeping(a, f) => job[a].bytes = disk[f]
         /\ job[Restorer].pc = "act" /\ job[Restorer].file \notin exposed =>
               store[job[Restorer].undo].entries[job[Restorer].file] # Nothing
BY DEF UndoInv, Restoring

\* Nothing is asked of the restore when there is none.
LEMMA NoRestore ==
  ASSUME job'[Restorer].undo = 0
  PROVE  RestoreInv' /\ UndoInv'
<1>1. ~Restoring'
  BY DEF Restoring
<1> QED BY <1>1 DEF RestoreInv, UndoInv

\* A step beside the restore leaves what it relies on.
Beside ==
    /\ RowsStay /\ job'[Restorer] = job[Restorer]
    /\ UNCHANGED <<disk, due, todo, skipped, exposed>>
    /\ \A t \in Turns : job'[t].pc \in InHand => job'[t] = job[t]

LEMMA BesideKeeps ==
  ASSUME CheckpointInv, Beside
  PROVE  (RestoreInv => RestoreInv') /\ (UndoInv => UndoInv')
<1> DEFINE cp == job[Restorer].cp
           undo == job[Restorer].undo
<1>1. CASE undo = 0
  BY <1>1, NoRestore DEF Beside
<1>2. CASE undo # 0
  <2>1. cp \in DOMAIN store /\ undo \in DOMAIN store
    BY <1>2, RestoreJob
  <2>2. store'[cp].entries = store[cp].entries /\ store'[undo].entries = store[undo].entries
    BY <2>1 DEF Beside, RowsStay
  <2>3. /\ job'[Restorer] = job[Restorer] /\ UNCHANGED <<disk, due, todo, skipped, exposed>>
        /\ \A t \in Turns : job'[t].pc \in InHand => job'[t] = job[t]
    BY DEF Beside
  <2>4. RestoreInv => RestoreInv'
    BY <2>2, <2>3 DEF RestoreInv, Restoring, Target
  <2>5. ASSUME UndoInv PROVE UndoInv'
    <3>1. ASSUME NEW a \in Actors, NEW f \in Files, Fills(a)', Keeping(a, f)'
          PROVE  Fills(a) /\ Keeping(a, f) /\ job'[a].bytes = job[a].bytes
      <4>1. job'[a] = job[a]
        BY <2>3, <3>1, ActorFacts DEF Keeping, InHand
      <4> QED BY <2>3, <3>1, <4>1 DEF Fills, Keeping
    <3>2. \A f \in Files : Ahead(f)' = Ahead(f)
      BY <2>3 DEF Ahead
    <3>3. \A f \in Files \ exposed : Ahead(f)' =>
             /\ store'[undo].entries[f] # Nothing => UndoLists(f)'
             /\ \A a \in Actors : Fills(a)' /\ Keeping(a, f)' => job'[a].bytes = disk'[f]
      BY <1>2, <2>2, <2>3, <2>5, <3>1, <3>2, UndoFacts DEF UndoLists
    <3>4. job'[Restorer].pc = "act" /\ job'[Restorer].file \notin exposed' =>
             store'[job'[Restorer].undo].entries[job'[Restorer].file] # Nothing
      BY <1>2, <2>2, <2>3, <2>5, UndoFacts
    <3> QED BY <2>3, <3>3, <3>4 DEF UndoInv
  <2> QED BY <2>4, <2>5
<1> QED BY <1>1, <1>2

\* The work of an actor beside a restore that goes on, as the restore sees it.
WorkBeside(a) ==
    /\ job[Restorer].undo # 0 /\ job'[Restorer].cp = job[Restorer].cp
    /\ job'[Restorer].undo = job[Restorer].undo /\ job'[Restorer].file = job[Restorer].file
    /\ job'[Restorer].pc # "none" <=> job[Restorer].pc # "none"
    /\ UNCHANGED <<disk, due, todo, skipped>> /\ exposed \subseteq exposed'
    /\ \A f \in due : store[job[Restorer].cp].entries[f] # Nothing =>
          store'[job[Restorer].cp].entries[f] = store[job[Restorer].cp].entries[f]
    /\ \A f \in Files :
          \/ store'[job[Restorer].undo].entries[f] = store[job[Restorer].undo].entries[f]
          \/ /\ Fills(a) /\ f = job[a].file /\ store[job[Restorer].undo].entries[f] = Nothing
             /\ store'[job[Restorer].undo].entries[f] =
                   IF job[a].pc = "add" THEN job[a].bytes ELSE Pre(disk[f])
    /\ \A b \in Actors, f \in Files : Fills(b)' /\ Keeping(b, f)' =>
          /\ Fills(b)
          /\ \/ Keeping(b, f) /\ job'[b].bytes = job[b].bytes
             \/ job'[b].bytes = disk[f]
    /\ job'[Restorer].pc = "act" /\ job[Restorer].file \notin exposed' =>
          \/ job[Restorer].pc = "act"
          \/ store'[job[Restorer].undo].entries[job[Restorer].file] # Nothing

LEMMA WorkIsBesideIt ==
  ASSUME CheckpointInv, NEW a \in Actors, job[a].pc \in InHand \cup {"read"}, Works(a),
         job'[Restorer].undo # 0
  PROVE  WorkBeside(a)
<1> DEFINE cp == job[Restorer].cp
           undo == job[Restorer].undo
<1>1. /\ disk' = disk /\ \A b \in Actors \ {a} : job'[b] = job[b]
      /\ WorksRows(a) /\ (WorksOn(a) \/ (a = Restorer /\ job'[a] = Idle))
      /\ partial' \subseteq Turns
  BY TypeFacts DEF Works, TypeOK
<1>2. WorksOn(a) /\ job[a].pc # "none"
  BY <1>1, IdleFacts DEF InHand
<1>3. /\ job'[a].cp = job[a].cp /\ job'[a].undo = job[a].undo /\ job'[a].file = job[a].file
      /\ job'[a].pc # "none" /\ UNCHANGED <<due, todo, skipped>> /\ exposed \subseteq exposed'
      /\ job'[a].pc \in InHand =>
            job'[a].bytes = IF job[a].pc \in InHand THEN job[a].bytes ELSE disk[job[a].file]
      /\ job'[a].pc = "act" /\ a \notin partial' /\ (a = Restorer => job[a].file \notin exposed') =>
            store'[Row(a)].entries[job[a].file] # Nothing
  BY <1>2 DEF WorksOn
<1>4. /\ job'[Restorer].cp = cp /\ job'[Restorer].undo = undo
      /\ job'[Restorer].file = job[Restorer].file
      /\ job'[Restorer].pc # "none" <=> job[Restorer].pc # "none"
  BY <1>1, <1>2, <1>3, ActorFacts
<1>5. undo # 0 /\ cp \in DOMAIN store /\ undo \in DOMAIN store
  BY <1>4, RestoreJob
<1>6. due \subseteq Files
  BY InvFacts, TypeFacts
<1>7. Row(a) = undo => Fills(a)
  BY DEF Row, Fills
<1>8. a = Restorer => Row(a) = undo /\ a \notin partial'
  BY <1>1, ActorFacts DEF Row
<1> HIDE DEF cp, undo
<1>9. /\ \A f \in due : store[cp].entries[f] # Nothing =>
                          store'[cp].entries[f] = store[cp].entries[f]
      /\ \A f \in Files :
            \/ store'[undo].entries[f] = store[undo].entries[f]
            \/ /\ Fills(a) /\ f = job[a].file /\ store[undo].entries[f] = Nothing
               /\ store'[undo].entries[f] = IF job[a].pc = "add" THEN job[a].bytes
                                            ELSE Pre(disk[f])
  BY <1>1, <1>5, <1>6, <1>7 DEF WorksRows
<1>10. ASSUME NEW b \in Actors, NEW f \in Files, Fills(b)', Keeping(b, f)'
       PROVE  /\ Fills(b)
              /\ \/ Keeping(b, f) /\ job'[b].bytes = job[b].bytes
                 \/ job'[b].bytes = disk[f]
  <2>1. CASE b = a
    <3>1. Fills(b)
      BY <1>3, <1>4, <1>10, <2>1 DEF Fills, undo
    <3>2. job'[a].pc \in InHand /\ job[a].file = f
      BY <1>3, <1>10, <2>1 DEF Keeping, InHand
    <3> QED BY <1>3, <2>1, <3>1, <3>2 DEF Keeping, InHand
  <2>2. CASE b # a
    <3>1. job'[b] = job[b]
      BY <1>1, <2>2
    <3> QED BY <1>4, <1>10, <3>1 DEF Fills, Keeping, undo
  <2> QED BY <2>1, <2>2
<1>11. ASSUME job'[Restorer].pc = "act", job[Restorer].file \notin exposed'
       PROVE  job[Restorer].pc = "act" \/ store'[undo].entries[job[Restorer].file] # Nothing
  <2>1. CASE a = Restorer
    BY <1>3, <1>8, <1>11, <2>1
  <2>2. CASE a # Restorer
    BY <1>1, <1>11, <2>2, ActorFacts
  <2> QED BY <2>1, <2>2
<1> QED BY <1>1, <1>3, <1>4, <1>5, <1>9, <1>10, <1>11 DEF WorkBeside, cp, undo

LEMMA WorkRestores ==
  ASSUME CheckpointInv, NEW a \in Actors, job[a].pc \in InHand \cup {"read"}, Works(a)
  PROVE  (RestoreInv => RestoreInv') /\ (UndoInv => UndoInv')
<1>1. CASE job'[Restorer].undo = 0
  BY <1>1, NoRestore
<1>2. CASE job'[Restorer].undo # 0
  <2> DEFINE cp == job[Restorer].cp
             undo == job[Restorer].undo
             file == job[Restorer].file
  <2>1. WorkBeside(a)
    BY <1>2, WorkIsBesideIt
  <2>2. /\ undo # 0 /\ job'[Restorer].cp = cp /\ job'[Restorer].undo = undo
        /\ job'[Restorer].file = file
        /\ job'[Restorer].pc # "none" <=> job[Restorer].pc # "none"
        /\ UNCHANGED <<disk, due, todo, skipped>> /\ exposed \subseteq exposed'
    BY <2>1 DEF WorkBeside
  <2>3. /\ todo \subseteq Files /\ file \in Files /\ a \in Actors
    BY InvFacts, TypeFacts, JobFacts, ActorFacts
  <2>4. ASSUME RestoreInv PROVE RestoreInv'
    <3>1. \A f \in due : store[cp].entries[f] # Nothing
      BY <2>2, <2>4, RestoreFacts
    <3>2. \A f \in due : store'[cp].entries[f] = store[cp].entries[f]
      BY <2>1, <3>1 DEF WorkBeside
    <3>3. /\ job'[Restorer].pc # "none" => job'[Restorer].file \notin todo'
          /\ \A f \in due' : store'[job'[Restorer].cp].entries[f] # Nothing
      BY <2>2, <2>4, <3>1, <3>2, RestoreFacts
    <3>4. ~skipped' => \A f \in due' \ (todo' \cup exposed') :
             job'[Restorer].pc = "none" \/ job'[Restorer].file # f =>
                disk'[f] = store'[job'[Restorer].cp].entries[f]
      BY <2>2, <2>4, <3>2, RestoreFacts
    <3> QED BY <3>3, <3>4 DEF RestoreInv, Target
  <2>5. ASSUME UndoInv PROVE UndoInv'
    <3>1. \A f \in Files : Ahead(f)' = Ahead(f)
      BY <2>2 DEF Ahead
    <3>2. ASSUME NEW f \in Files, f \notin exposed', Ahead(f)'
          PROVE  /\ store'[undo].entries[f] # Nothing => UndoLists(f)'
                 /\ \A b \in Actors : Fills(b)' /\ Keeping(b, f)' => job'[b].bytes = disk'[f]
      <4>1. /\ store[undo].entries[f] # Nothing => UndoLists(f)
            /\ \A b \in Actors : Fills(b) /\ Keeping(b, f) => job[b].bytes = disk[f]
        BY <2>2, <2>5, <3>1, <3>2, UndoFacts
      <4>2. \A b \in Actors : Fills(b)' /\ Keeping(b, f)' => job'[b].bytes = disk[f]
        BY <2>1, <4>1 DEF WorkBeside
      <4>3. CASE store'[undo].entries[f] = store[undo].entries[f]
        BY <2>2, <4>1, <4>2, <4>3 DEF UndoLists
      <4>4. CASE /\ Fills(a) /\ f = job[a].file
                 /\ store'[undo].entries[f] = IF job[a].pc = "add" THEN job[a].bytes
                                              ELSE Pre(disk[f])
        <5>1. job[a].pc = "add" => job[a].bytes = disk[f]
          BY <4>1, <4>4 DEF Keeping
        <5>2. \/ store'[undo].entries[f] = disk[f]
              \/ store'[undo].entries[f] = TooLarge /\ disk[f] \in Large
          BY <4>4, <5>1 DEF Pre
        <5> QED BY <2>2, <4>2, <5>2 DEF UndoLists
      <4> QED BY <2>1, <4>3, <4>4 DEF WorkBeside
    <3>3. ASSUME job'[Restorer].pc = "act", file \notin exposed'
          PROVE  store'[undo].entries[file] # Nothing
      <4>1. CASE job[Restorer].pc = "act"
        <5>1. store[undo].entries[file] # Nothing
          BY <2>2, <2>5, <3>3, <4>1, UndoFacts
        <5> QED BY <2>1, <2>3, <5>1 DEF WorkBeside
      <4>2. CASE job[Restorer].pc # "act"
        BY <2>1, <3>3, <4>2 DEF WorkBeside
      <4> QED BY <4>1, <4>2
    <3> QED BY <2>2, <3>2, <3>3 DEF UndoInv
  <2> QED BY <2>4, <2>5
<1> QED BY <1>1, <1>2

\* A turn changes a file beside a restore: what the restore has taken of it is exposed.
LEMMA ToolActsRestores ==
  ASSUME CheckpointInv, NEW t \in Turns, NEW bytes \in Contents \cup {disk[job[t].file]},
         ToolActs(t, bytes)
  PROVE  (RestoreInv => RestoreInv') /\ (UndoInv => UndoInv')
<1> DEFINE g == job[t].file
           undo == job[Restorer].undo
<1>1. /\ disk \in [Files -> Bytes] /\ job \in [Actors -> Job] /\ due \subseteq Files
      /\ t \in Actors /\ t # Restorer /\ Restorer \in Actors
  BY InvFacts, TypeFacts, ActorFacts
<1>2. /\ disk' = [disk EXCEPT ![g] = bytes] /\ job' = [job EXCEPT ![t] = Idle]
      /\ UNCHANGED <<store, due, todo, skipped>>
      /\ exposed' = IF bytes # disk[g] /\ Taken(g) THEN exposed \cup {g} ELSE exposed
  BY DEF ToolActs, Mutates
<1>3. job'[Restorer] = job[Restorer] /\ job'[t] = Idle /\ \A b \in Actors \ {t} : job'[b] = job[b]
  BY <1>1, <1>2
<1> HIDE DEF g
<1>4. exposed \subseteq exposed' /\ \A f \in Files : disk'[f] # disk[f] =>
         f = g /\ bytes # disk[g] /\ (Taken(g) => g \in exposed')
  BY <1>1, <1>2
<1>5. CASE undo = 0
  BY <1>3, <1>5, NoRestore
<1>6. CASE undo # 0
  <2>1. ASSUME RestoreInv PROVE RestoreInv'
    <3>1. ASSUME NEW f \in due, f \notin todo, f \notin exposed', ~skipped,
                 job[Restorer].pc = "none" \/ job[Restorer].file # f
          PROVE  disk'[f] = Target(f)
      <4>1. disk[f] = Target(f)
        BY <1>4, <1>6, <2>1, <3>1, RestoreFacts DEF Target
      <4>2. Taken(f)
        BY <1>6, <3>1 DEF Taken, Restoring
      <4>3. disk'[f] = disk[f]
        BY <1>1, <1>4, <3>1, <4>2
      <4> QED BY <4>1, <4>3
    <3> QED BY <1>2, <1>3, <1>6, <2>1, <3>1, RestoreFacts DEF RestoreInv, Target
  <2>2. ASSUME UndoInv PROVE UndoInv'
    <3>1. ASSUME NEW a \in Actors, NEW f \in Files, Fills(a)', Keeping(a, f)'
          PROVE  Fills(a) /\ Keeping(a, f) /\ job'[a].bytes = job[a].bytes
      <4>1. a # t
        BY <1>3, <3>1, IdleFacts DEF Keeping
      <4>2. job'[a] = job[a]
        BY <1>3, <4>1
      <4> QED BY <1>3, <3>1, <4>2 DEF Fills, Keeping
    <3>2. ASSUME NEW f \in Files, f \notin exposed', Ahead(f)'
          PROVE  /\ store'[undo].entries[f] # Nothing => UndoLists(f)'
                 /\ \A a \in Actors : Fills(a)' /\ Keeping(a, f)' => job'[a].bytes = disk'[f]
      <4>1. Ahead(f) /\ f \notin exposed
        BY <1>2, <1>3, <1>4, <3>2 DEF Ahead
      <4>2. /\ store[undo].entries[f] # Nothing => UndoLists(f)
            /\ \A a \in Actors : Fills(a) /\ Keeping(a, f) => job[a].bytes = disk[f]
        BY <1>6, <2>2, <4>1, UndoFacts
      <4>3. CASE disk'[f] = disk[f]
        BY <1>2, <1>3, <3>1, <4>2, <4>3 DEF UndoLists
      <4>4. CASE disk'[f] # disk[f]
        <5>1. ~Taken(f)
          BY <1>4, <3>2, <4>4
        <5>2. /\ store[undo].entries[f] = Nothing
              /\ \A a \in Actors : ~(Fills(a) /\ Keeping(a, f))
          BY <1>6, <5>1 DEF Taken, Fills, Restoring
        <5> QED BY <1>2, <3>1, <5>2
      <4> QED BY <4>3, <4>4
    <3>3. job'[Restorer].pc = "act" /\ job'[Restorer].file \notin exposed' =>
             store'[job'[Restorer].undo].entries[job'[Restorer].file] # Nothing
      BY <1>2, <1>3, <1>4, <1>6, <2>2, UndoFacts
    <3> QED BY <1>3, <3>2, <3>3 DEF UndoInv
  <2> QED BY <2>1, <2>2
<1> QED BY <1>5, <1>6

LEMMA RestoreBeginsRestores ==
  ASSUME CheckpointInv, NEW c \in DOMAIN store, RestoreBegins(c)
  PROVE  RestoreInv' /\ UndoInv'
<1> DEFINE n == Len(store) + 1
           t == store[c].turn
<1>1. RestoreStarts(c, n, t)
  BY RestoreStarting
<1> HIDE DEF n, t
<1>2. /\ n \notin DOMAIN store /\ \A f \in Files : store'[n].entries[f] = Nothing
      /\ store'[c] = store[c] /\ \A a \in Actors \ {Restorer} : job'[a] = job[a]
      /\ job'[Restorer].pc = "none" /\ job'[Restorer].cp = c /\ job'[Restorer].undo = n
      /\ due' = {f \in Files : store[c].entries[f] # Nothing} /\ todo' = due'
  BY <1>1 DEF RestoreStarts
<1>3. RestoreInv'
  BY <1>2 DEF RestoreInv, Target
<1>4. \A a \in Actors, f \in Files : ~(Fills(a)' /\ Keeping(a, f)')
  <2> SUFFICES ASSUME NEW a \in Actors, NEW f \in Files, Fills(a)', Keeping(a, f)'
               PROVE  FALSE
    OBVIOUS
  <2>1. a \in Turns /\ a # Restorer
    BY <1>2, ActorFacts DEF Keeping
  <2>2. job[a].pc # "none" /\ job[a].cp = n
    BY <1>2, <2>1 DEF Keeping, Fills
  <2> QED BY <1>2, <2>1, <2>2, TurnJob
<1>5. UndoInv'
  BY <1>2, <1>4 DEF UndoInv
<1> QED BY <1>3, <1>5

\* What a step of the restore's loop leaves of the rows and the jobs of the turns.
LEMMA LoopFills ==
  ASSUME job'[Restorer].undo = job[Restorer].undo, job'[Restorer].pc \notin InHand,
         \A b \in Actors \ {Restorer} : job'[b] = job[b],
         NEW a \in Actors, NEW f \in Files, Fills(a)', Keeping(a, f)'
  PROVE  Fills(a) /\ Keeping(a, f) /\ job'[a].bytes = job[a].bytes
<1>1. a # Restorer
  BY DEF Keeping, InHand
<1>2. job'[a] = job[a]
  BY <1>1
<1> QED BY <1>2 DEF Fills, Keeping

LEMMA RestoreNextRestores ==
  ASSUME CheckpointInv, NEW f \in Files, RestoreNext(f)
  PROVE  (RestoreInv => RestoreInv') /\ (UndoInv => UndoInv')
<1> DEFINE cp == job[Restorer].cp
           undo == job[Restorer].undo
           pc == IF store[undo].entries[f] # Nothing THEN "act" ELSE "read"
           j == [job[Restorer] EXCEPT !.pc = pc, !.file = f]
<1>1. job \in [Actors -> Job] /\ Restorer \in Actors
  BY InvFacts, TypeFacts, ActorFacts
<1>2. /\ undo # 0 /\ job[Restorer].pc = "none" /\ todo' = todo \ {f} /\ f \in todo
      /\ UNCHANGED <<store, disk, due, exposed>>
  BY DEF RestoreNext, fileVars, Restoring
<1>3. /\ j \in Job /\ j.pc = pc /\ j.file = f /\ j.cp = cp /\ j.undo = undo
  BY <1>1 DEF Job
<1>4. \/ job' = job /\ skipped' = TRUE
      \/ job' = [job EXCEPT ![Restorer] = j] /\ skipped' = skipped
  BY <1>1 DEF RestoreNext
<1> HIDE DEF j
<1>5. /\ job'[Restorer].cp = cp /\ job'[Restorer].undo = undo
      /\ \A b \in Actors \ {Restorer} : job'[b] = job[b]
      /\ \/ job'[Restorer].pc = "none" /\ skipped' = TRUE
         \/ job'[Restorer].pc = pc /\ job'[Restorer].file = f /\ skipped' = skipped
  BY <1>1, <1>2, <1>3, <1>4
<1>6. pc \in {"act", "read"} /\ (pc = "act" => store[undo].entries[f] # Nothing)
  OBVIOUS
<1> HIDE DEF cp, undo, pc
<1>7. ASSUME RestoreInv PROVE RestoreInv'
  <2>1. /\ \A g \in due : store[cp].entries[g] # Nothing
        /\ ~skipped => \A g \in due \ (todo \cup exposed) : disk[g] = store[cp].entries[g]
    BY <1>2, <1>7, RestoreFacts DEF cp, undo
  <2>2. /\ job'[Restorer].pc # "none" => job'[Restorer].file \notin todo'
        /\ \A g \in due' : store'[job'[Restorer].cp].entries[g] # Nothing
        /\ ~skipped' => \A g \in due' \ (todo' \cup exposed') :
              job'[Restorer].pc = "none" \/ job'[Restorer].file # g =>
                 disk'[g] = store'[job'[Restorer].cp].entries[g]
    BY <1>2, <1>5, <1>6, <2>1
  <2> QED BY <2>2 DEF RestoreInv, Target
<1>8. ASSUME UndoInv PROVE UndoInv'
  <2>1. \A g \in Files : Ahead(g)' => Ahead(g)
    BY <1>2, <1>5 DEF Ahead
  <2>2. job'[Restorer].pc \notin InHand
    BY <1>5, <1>6 DEF InHand
  <2>3. \A a \in Actors, g \in Files : Fills(a)' /\ Keeping(a, g)' =>
           Fills(a) /\ Keeping(a, g) /\ job'[a].bytes = job[a].bytes
    BY <1>5, <2>2, LoopFills DEF undo
  <2>4. \A g \in Files \ exposed' : Ahead(g)' =>
           /\ store'[undo].entries[g] # Nothing => UndoLists(g)'
           /\ \A a \in Actors : Fills(a)' /\ Keeping(a, g)' => job'[a].bytes = disk'[g]
    BY <1>2, <1>5, <1>8, <2>1, <2>3, UndoFacts DEF UndoLists, undo
  <2>5. job'[Restorer].pc = "act" => store'[undo].entries[job'[Restorer].file] # Nothing
    BY <1>2, <1>5, <1>6
  <2> QED BY <1>5, <2>4, <2>5 DEF UndoInv
<1> QED BY <1>7, <1>8

\* An entry is done with, put back or not.
LEMMA WriteBackRestores ==
  ASSUME CheckpointInv, RestoreInv, WritesBack
  PROVE  RestoreInv' /\ (UndoInv => UndoInv')
<1> DEFINE cp == job[Restorer].cp
           undo == job[Restorer].undo
           file == job[Restorer].file
<1>1. /\ disk \in [Files -> Bytes] /\ job \in [Actors -> Job] /\ Restorer \in Actors
      /\ due \subseteq Files
  BY InvFacts, TypeFacts, ActorFacts
<1>2. job[Restorer].pc = "act" /\ Goto(Restorer, "none") /\ UNCHANGED <<store, due, todo>>
  BY WriteBackDisk
<1>3. PICK bytes \in Bytes :
         \/ /\ disk' = [disk EXCEPT ![file] = bytes] /\ exposed' = exposed \ {file}
            /\ skipped' = TRUE \/ (skipped' = skipped /\ bytes = Target(file))
         \/ disk' = disk /\ exposed' = exposed /\ skipped' = TRUE
  BY WriteBackDisk DEF WritesTo
<1>4. /\ job'[Restorer].pc = "none" /\ job'[Restorer].cp = cp /\ job'[Restorer].undo = undo
      /\ \A b \in Actors \ {Restorer} : job'[b] = job[b]
  BY <1>2, RestorerMoved
<1>5. file \in Files /\ undo # 0
  BY <1>1, <1>2, JobFacts, InvFacts DEF JobsInv, Restoring
<1>6. Target(file) = store[cp].entries[file]
  BY DEF Target
<1> HIDE DEF cp, undo, file
<1>7. /\ file \notin todo
      /\ \A g \in due : store[cp].entries[g] # Nothing
      /\ ~skipped => \A g \in due \ (todo \cup exposed) : file # g => disk[g] = store[cp].entries[g]
  BY <1>2, <1>5, RestoreFacts DEF cp, undo, file
<1>8. RestoreInv'
  <2>1. ~skipped' => \A g \in due \ (todo \cup exposed') : disk'[g] = store[cp].entries[g]
    BY <1>1, <1>3, <1>5, <1>6, <1>7
  <2> QED BY <1>2, <1>4, <1>7, <2>1 DEF RestoreInv, Target
<1>9. ASSUME UndoInv PROVE UndoInv'
  <2>1. job'[Restorer].pc \notin InHand
    BY <1>4 DEF InHand
  <2>2. \A a \in Actors, g \in Files : Fills(a)' /\ Keeping(a, g)' =>
           Fills(a) /\ Keeping(a, g) /\ job'[a].bytes = job[a].bytes
    BY <1>4, <2>1, LoopFills DEF undo
  <2>3. ASSUME NEW g \in Files \ exposed', Ahead(g)'
        PROVE  Ahead(g) /\ g \notin exposed /\ disk'[g] = disk[g]
    <3>1. g \in todo /\ g # file
      BY <1>2, <1>4, <1>7, <2>3 DEF Ahead
    <3> QED BY <1>1, <1>3, <1>5, <3>1 DEF Ahead
  <2>4. \A g \in Files \ exposed' : Ahead(g)' =>
           /\ store'[undo].entries[g] # Nothing => UndoLists(g)'
           /\ \A a \in Actors : Fills(a)' /\ Keeping(a, g)' => job'[a].bytes = disk'[g]
    BY <1>2, <1>4, <1>5, <1>9, <2>2, <2>3, UndoFacts DEF UndoLists, undo
  <2> QED BY <1>4, <2>4 DEF UndoInv
<1> QED BY <1>8, <1>9

\* The other steps, as the restore sees them.
RestoreStep ==
    \/ Beside
    \/ job'[Restorer].undo = 0 /\ disk' = disk
    \/ \E t \in Turns : \E bytes \in Contents \cup {disk[job[t].file]} : ToolActs(t, bytes)
    \/ \E c \in DOMAIN store : RestoreBegins(c)
    \/ \E f \in Files : RestoreNext(f)
    \/ WritesBack

LEMMA CaptureIsBeside ==
  ASSUME CheckpointInv, NEW t \in Turns, NEW f \in Files, CaptureBegins(t, f), RowsStay
  PROVE  Beside
<1> DEFINE known == ActiveOf(t)
           c == IF known = {} THEN Len(store) + 1 ELSE Newest(known)
           pc == IF known # {} /\ store[c].entries[f] # Nothing THEN "act" ELSE "read"
           j == [Idle EXCEPT !.pc = pc, !.cp = c, !.file = f]
<1>1. /\ job \in [Actors -> Job] /\ Restorer \in Actors /\ Turns \subseteq Actors
      /\ Restorer \notin Turns
  BY InvFacts, TypeFacts, ActorFacts
<1>2. job' = [job EXCEPT ![t] = j] /\ UNCHANGED <<disk, due, todo, skipped, exposed>>
  BY DEF CaptureBegins, fileVars, restoreVars
<1>3. pc \in {"act", "read"}
  OBVIOUS
<1> HIDE DEF c, pc
<1>4. j.pc \notin InHand
  BY <1>3 DEF Idle, InHand
<1> HIDE DEF j
<1>5. job'[Restorer] = job[Restorer] /\ \A u \in Turns : job'[u].pc \in InHand => job'[u] = job[u]
  BY <1>1, <1>2, <1>4
<1> QED BY <1>2, <1>5 DEF Beside

LEMMA OtherKinds ==
  ASSUME CheckpointInv, [Next]_vars, \A a \in Actors : ~WorkStep(a)
  PROVE  RestoreStep
<1>1. RowsStay /\ job \in [Actors -> Job] /\ Restorer \in Actors
  BY OtherStepsStay, InvFacts, TypeFacts, ActorFacts
<1>2. ASSUME UNCHANGED <<disk, due, todo, skipped, exposed, job>> PROVE Beside
  BY <1>1, <1>2 DEF Beside
<1>3. ASSUME NEW t \in Turns, StartTurn(t) \/ EndTurn(t) PROVE Beside
  BY <1>2, <1>3 DEF StartTurn, EndTurn, fileVars, restoreVars
<1>4. ASSUME NEW t \in Turns, NEW f \in Files, CaptureBegins(t, f) PROVE Beside
  BY <1>1, <1>4, CaptureIsBeside
<1>5. ASSUME NEW a \in Actors, GcRemovesTemp(a) PROVE Beside
  BY <1>2, <1>5 DEF GcRemovesTemp, restoreVars
<1>6. ASSUME GcStarts \/ GcEnds PROVE Beside
  BY <1>2, <1>6 DEF GcStarts, GcEnds, restoreVars, fileVars
<1>7. ASSUME NEW b \in Contents, GcRemovesBlob(b) PROVE Beside
  BY <1>2, <1>7 DEF GcRemovesBlob, restoreVars
<1>8. ASSUME UNCHANGED vars PROVE Beside
  BY <1>2, <1>8 DEF vars, restoreVars, fileVars
<1>9. ASSUME CrashAndBoot PROVE job'[Restorer].undo = 0 /\ disk' = disk
  BY <1>1, <1>9, IdleFacts DEF CrashAndBoot, fileVars
<1>10. ASSUME RestoreEnds PROVE job'[Restorer].undo = 0 /\ disk' = disk
  BY <1>1, <1>10, IdleFacts DEF RestoreEnds, fileVars
<1>11. \/ \E t \in Turns :
             \/ StartTurn(t) \/ EndTurn(t)
             \/ \E f \in Files : CaptureBegins(t, f)
             \/ \E bytes \in Contents \cup {disk[job[t].file]} : ToolActs(t, bytes)
       \/ \E c \in DOMAIN store : RestoreBegins(c)
       \/ \E a \in Actors : GcRemovesTemp(a)
       \/ \E f \in Files : RestoreNext(f)
       \/ WritesBack \/ RestoreEnds \/ GcStarts
       \/ \E b \in Contents : GcRemovesBlob(b)
       \/ GcEnds \/ CrashAndBoot \/ UNCHANGED vars
  BY DEF Next, WorkStep, WritesBack
<1> QED BY <1>3, <1>4, <1>5, <1>6, <1>7, <1>8, <1>9, <1>10, <1>11 DEF RestoreStep

LEMMA WorkStepPc ==
  ASSUME NEW a \in Actors, WorkStep(a)
  PROVE  job[a].pc \in InHand \cup {"read"}
BY DEF WorkStep, ReadBytes, ReadFails, PutBegins, PutFails, PutRenames, ListBlob, InHand

LEMMA RestoreStepKeeps ==
  CheckpointInv /\ RestoreInv /\ [Next]_vars => RestoreInv' /\ (UndoInv => UndoInv')
<1> DEFINE Goes == RestoreInv' /\ (UndoInv => UndoInv')
<1> SUFFICES ASSUME CheckpointInv, RestoreInv, [Next]_vars PROVE Goes
  OBVIOUS
<1>1. ASSUME NEW a \in Actors, WorkStep(a) PROVE Goes
  BY <1>1, WorkStepWorks, WorkStepPc, WorkRestores
<1>2. ASSUME Beside PROVE Goes
  BY <1>2, BesideKeeps
<1>3. ASSUME job'[Restorer].undo = 0 PROVE Goes
  BY <1>3, NoRestore
<1>4. ASSUME NEW t \in Turns, NEW bytes \in Contents \cup {disk[job[t].file]}, ToolActs(t, bytes)
      PROVE  Goes
  BY <1>4, ToolActsRestores
<1>5. ASSUME NEW c \in DOMAIN store, RestoreBegins(c) PROVE Goes
  BY <1>5, RestoreBeginsRestores
<1>6. ASSUME NEW f \in Files, RestoreNext(f) PROVE Goes
  BY <1>6, RestoreNextRestores
<1>7. ASSUME WritesBack PROVE Goes
  BY <1>7, WriteBackRestores
<1> HIDE DEF Goes
<1>8. CASE \A a \in Actors : ~WorkStep(a)
  <2>1. RestoreStep
    BY <1>8, OtherKinds
  <2> QED BY <1>2, <1>3, <1>4, <1>5, <1>6, <1>7, <2>1 DEF RestoreStep
<1> QED BY <1>1, <1>8

LEMMA RestoreInit ==
  Init => RestoreInv /\ UndoInv
<1> SUFFICES ASSUME Init PROVE ~Restoring
  BY DEF RestoreInv, UndoInv
<1> QED BY IdleFacts, ActorFacts DEF Init, Restoring

\* A restore that skipped nothing leaves every file its checkpoint names as listed, in every
\* run, whatever turns do beside it: its own live turn's changes included, only what a turn
\* has changed since the file was read or put back may differ (restoreCheckpoint(), manager.ts).
THEOREM RestoresRevert ==
  Spec => []RestoreReverts
<1>1. RestoreInv => RestoreReverts
  <2> SUFFICES ASSUME RestoreInv, Restoring, job[Restorer].pc = "none", todo = {}, ~skipped,
                      NEW f \in due, f \notin exposed
               PROVE  disk[f] = Target(f)
    BY DEF RestoreReverts
  <2> QED BY RestoreFacts DEF Restoring, Target
<1>2. Init => RestoreInv
  BY RestoreInit
<1>3. CheckpointInv /\ RestoreInv /\ [Next]_vars => RestoreInv'
  BY RestoreStepKeeps
<1> QED BY <1>1, <1>2, <1>3, CheckpointInvariant, PTL DEF Spec

\* What OverwrittenListed says of a step.
Covered == \A f \in Files : Overwrites(f) /\ f \notin exposed => UndoLists(f)

LEMMA StepCovered ==
  CheckpointInv /\ UndoInv /\ [Next]_vars => Covered
<1> SUFFICES ASSUME CheckpointInv, UndoInv, [Next]_vars, NEW f \in Files,
                    job[Restorer].pc = "act", job'[Restorer].pc = "none", disk'[f] # disk[f],
                    f \notin exposed
             PROVE  UndoLists(f)
  BY DEF Covered, Overwrites
<1>1. disk \in [Files -> Bytes] /\ job \in [Actors -> Job] /\ job[Restorer].undo # 0
  BY InvFacts, TypeFacts DEF JobsInv, Restoring
<1>2. disk' # disk
  OBVIOUS
<1>3. CASE \E a \in Actors : WorkStep(a)
  BY <1>2, <1>3, WorkStepWorks DEF Works
<1>4. CASE \A a \in Actors : ~WorkStep(a)
  <2>1. RestoreStep
    BY <1>4, OtherKinds
  <2>2. ~Beside
    BY <1>2 DEF Beside
  <2>3. ASSUME NEW t \in Turns, NEW bytes \in Contents \cup {disk[job[t].file]}, ToolActs(t, bytes)
        PROVE  FALSE
    <3>1. job' = [job EXCEPT ![t] = Idle]
      BY <2>3 DEF ToolActs
    <3> QED BY <1>1, <3>1, ActorFacts
  <2>4. ASSUME NEW c \in DOMAIN store, RestoreBegins(c) PROVE FALSE
    BY <1>2, <2>4 DEF RestoreBegins, fileVars
  <2>5. ASSUME NEW g \in Files, RestoreNext(g) PROVE FALSE
    BY <1>2, <2>5 DEF RestoreNext, fileVars
  <2>6. WritesBack
    BY <1>2, <2>1, <2>2, <2>3, <2>4, <2>5 DEF RestoreStep
  <2>7. f = job[Restorer].file
    <3>1. PICK bytes \in Bytes : disk' = [disk EXCEPT ![job[Restorer].file] = bytes]
      BY <1>2, <2>6, WriteBackDisk DEF WritesTo
    <3> QED BY <1>1, <3>1
  <2>8. Ahead(f) /\ store[job[Restorer].undo].entries[f] # Nothing
    BY <1>1, <2>7, UndoFacts DEF Ahead
  <2> QED BY <1>1, <2>8, UndoFacts
<1> QED BY <1>3, <1>4

\* What a restore overwrites is listed in its undo checkpoint as it is at that moment, by its
\* bytes or as too large to keep, but for files that could not be read or that a turn has changed
\* since (snapshotCurrentInto(), manager.ts): no restriction on what runs beside the restore, its
\* own live turn included.
THEOREM OverwrittenIsListed ==
  Spec => OverwrittenListed
<1>1. Init => RestoreInv /\ UndoInv
  BY RestoreInit
<1>2. CheckpointInv /\ RestoreInv /\ [Next]_vars => RestoreInv' /\ (UndoInv => UndoInv')
  BY RestoreStepKeeps
<1>3. CheckpointInv /\ UndoInv /\ [Next]_vars => Covered
  BY StepCovered
<1>4. Spec => [][Covered]_vars
  BY <1>1, <1>2, <1>3, CheckpointInvariant, PTL DEF Spec
<1>5. [][Covered]_vars => OverwrittenListed
  BY PTL DEF OverwrittenListed, Covered
<1> QED BY <1>4, <1>5, PTL

\* A restore that skipped nothing puts back what is listed and lists what it overwrites, beside
\* any turns, its own included (restoreCheckpoint(), manager.ts); what a failed read or a turn's
\* write costs is in the statement.
THEOREM RestoresAreFaithful ==
  Spec => RestoresFaithful
BY RestoresRevert, OverwrittenIsListed, PTL DEF RestoresFaithful

-----------------------------------------------------------------------------
(* What the offer of a turn brings back                                    *)

\* What PreInv asks of one file of one turn.
PreAt(t, f) ==
    /\ Keeping(t, f) /\ origin[t][f] = Nothing => job[t].bytes = disk[f]
    /\ \A c \in DOMAIN store :
          store[c].turn = t /\ store[c].label = "Before-this-turn" =>
              /\ origin[t][f] # Nothing => store[c].entries[f] = Pre(origin[t][f])
              /\ turn[t] = "running" /\ origin[t][f] = Nothing /\ store[c].entries[f] # Nothing
                   => store[c].entries[f] = Pre(disk[f])

PreParts == \A t \in Turns \ partial : \A f \in Files : <<t, f>> \notin raced => PreAt(t, f)

LEMMA PreIntro ==
  PreParts <=> PreInv
BY DEF PreParts, PreInv, PreAt

LEMMA PreIntroNext ==
  ASSUME \A t \in Turns \ partial' : \A f \in Files : <<t, f>> \notin raced' => PreAt(t, f)'
  PROVE  PreInv'
<1>1. PreParts'
  BY DEF PreParts
<1> QED BY <1>1, PreIntro, PTL

LEMMA PreFacts ==
  ASSUME PreInv, NEW t \in Turns, t \notin partial, NEW f \in Files, <<t, f>> \notin raced
  PROVE  PreAt(t, f)
BY PreIntro DEF PreParts

\* A step that lists nothing and changes no file.
PreStep ==
    /\ RowsStay /\ partial \subseteq partial' /\ UNCHANGED <<origin, disk, raced>>
    /\ \A t \in Turns : turn'[t] = "running" => turn[t] # "over"
    /\ \A t \in Turns : job'[t].pc \in InHand => job'[t] = job[t]
    /\ \A c \in DOMAIN store' \ DOMAIN store, f \in Files : store'[c].entries[f] = Nothing

LEMMA PreStays ==
  ASSUME CheckpointInv, CheckpointInv', PreInv, PreStep
  PROVE  PreInv'
<1>1. /\ DOMAIN store \subseteq DOMAIN store'
      /\ \A c \in DOMAIN store :
            /\ store'[c].turn = store[c].turn /\ store'[c].label = store[c].label
            /\ store'[c].entries = store[c].entries
      /\ partial \subseteq partial' /\ UNCHANGED <<origin, disk, raced>>
      /\ \A t \in Turns : turn'[t] = "running" => turn[t] # "over"
      /\ \A t \in Turns : job'[t].pc \in InHand => job'[t] = job[t]
      /\ \A c \in DOMAIN store' \ DOMAIN store, f \in Files : store'[c].entries[f] = Nothing
  BY DEF PreStep, RowsStay
<1>2. RowsInv /\ RowsInv' /\ turn \in [Turns -> {"idle", "running", "over"}]
  BY InvFacts, TypeFacts DEF CheckpointInv
<1>3. ASSUME NEW t \in Turns, t \notin partial', NEW f \in Files, <<t, f>> \notin raced',
             NEW c \in DOMAIN store', store'[c].turn = t, store'[c].label = "Before-this-turn"
      PROVE  /\ origin'[t][f] # Nothing => store'[c].entries[f] = Pre(origin'[t][f])
             /\ turn'[t] = "running" /\ origin'[t][f] = Nothing /\ store'[c].entries[f] # Nothing
                  => store'[c].entries[f] = Pre(disk'[f])
  <2>1. t \notin partial /\ <<t, f>> \notin raced
    BY <1>1, <1>3
  <2>2. CASE c \in DOMAIN store
    <3>1. /\ store[c].turn = t /\ store[c].label = "Before-this-turn"
          /\ store'[c].entries[f] = store[c].entries[f]
      BY <1>1, <1>3, <2>2
    <3>2. turn[t] # "idle"
      BY <1>2, <2>2, <3>1 DEF RowsInv
    <3>3. turn'[t] = "running" => turn[t] = "running"
      BY <1>1, <1>2, <3>2
    <3>4. /\ origin[t][f] # Nothing => store[c].entries[f] = Pre(origin[t][f])
          /\ turn[t] = "running" /\ origin[t][f] = Nothing /\ store[c].entries[f] # Nothing
               => store[c].entries[f] = Pre(disk[f])
      BY <2>1, <2>2, <3>1, PreFacts DEF PreAt
    <3> QED BY <1>1, <3>1, <3>3, <3>4
  <2>3. CASE c \notin DOMAIN store
    <3>1. store'[c].entries[f] = Nothing
      BY <1>1, <2>3
    <3>2. ASSUME origin[t][f] # Nothing
          PROVE  FALSE
      <4>1. PICK d \in DOMAIN store : store[d].turn = t /\ store[d].label = "Before-this-turn"
        BY <2>1, <3>2, OriginOf
      <4>2. d \in DOMAIN store' /\ store'[d].turn = t /\ store'[d].label = "Before-this-turn"
        BY <1>1, <4>1
      <4>3. d = c
        BY <1>2, <1>3, <4>2 DEF RowsInv
      <4> QED BY <2>3, <4>1, <4>3
    <3> QED BY <1>1, <3>1, <3>2
  <2> QED BY <2>2, <2>3
<1>4. ASSUME NEW t \in Turns, t \notin partial', NEW f \in Files, <<t, f>> \notin raced',
             Keeping(t, f)', origin'[t][f] = Nothing
      PROVE  job'[t].bytes = disk'[f]
  <2>1. job'[t] = job[t]
    BY <1>1, <1>4 DEF Keeping, InHand
  <2>2. Keeping(t, f) /\ t \notin partial /\ <<t, f>> \notin raced /\ origin[t][f] = Nothing
    BY <1>1, <1>4, <2>1 DEF Keeping
  <2> QED BY <1>1, <2>1, <2>2, PreFacts DEF PreAt
<1>5. ASSUME NEW t \in Turns \ partial', NEW f \in Files, <<t, f>> \notin raced'
      PROVE  PreAt(t, f)'
  BY <1>3, <1>4, <1>5 DEF PreAt
<1> QED BY <1>5, PreIntroNext

\* An entry is listed: the pre-image of a file its turn has not touched.
LEMMA WorkPre ==
  ASSUME CheckpointInv, PreInv, NEW a \in Actors, job[a].pc # "none", Works(a)
  PROVE  PreInv'
<1>1. /\ UNCHANGED <<disk, turn, origin, raced>>
      /\ \A b \in Actors \ {a} : job'[b] = job[b]
      /\ partial \subseteq partial'
      /\ WorksRows(a) /\ (WorksOn(a) \/ (a = Restorer /\ job'[a] = Idle))
  BY DEF Works
<1>2. /\ DOMAIN store' = DOMAIN store
      /\ \A c \in DOMAIN store : store'[c].turn = store[c].turn /\ store'[c].label = store[c].label
      /\ \A c \in DOMAIN store, f \in Files :
            \/ store'[c].entries[f] = store[c].entries[f]
            \/ /\ c = Row(a) /\ f = job[a].file /\ store[c].entries[f] = Nothing
               /\ store'[c].entries[f] =
                     IF job[a].pc = "add" THEN job[a].bytes ELSE Pre(disk[f])
  BY <1>1 DEF WorksRows
<1>3. ASSUME NEW t \in Turns, t \notin partial, NEW f \in Files, <<t, f>> \notin raced,
             Keeping(t, f)', origin[t][f] = Nothing
      PROVE  job'[t].bytes = disk[f]
  <2>1. t \in Actors /\ t # Restorer
    BY ActorFacts
  <2>2. Keeping(t, f) => job[t].bytes = disk[f]
    BY <1>3, PreFacts DEF PreAt
  <2>3. CASE t = a
    <3>1. /\ job'[a].file = job[a].file
          /\ job'[a].pc \in InHand =>
                job'[a].bytes = IF job[a].pc \in InHand THEN job[a].bytes ELSE disk[job[a].file]
      BY <1>1, <2>1, <2>3 DEF WorksOn
    <3>2. job'[a].pc \in InHand /\ job[a].file = f
      BY <1>3, <2>3, <3>1 DEF Keeping, InHand
    <3> QED BY <2>2, <2>3, <3>1, <3>2 DEF Keeping, InHand
  <2>4. CASE t # a
    BY <1>1, <1>3, <2>1, <2>2, <2>4 DEF Keeping
  <2> QED BY <2>3, <2>4
<1>4. ASSUME NEW t \in Turns, t \notin partial, NEW f \in Files, <<t, f>> \notin raced,
             NEW c \in DOMAIN store, store[c].turn = t, store[c].label = "Before-this-turn"
      PROVE  /\ origin[t][f] # Nothing => store'[c].entries[f] = Pre(origin[t][f])
             /\ turn[t] = "running" /\ origin[t][f] = Nothing /\ store'[c].entries[f] # Nothing
                  => store'[c].entries[f] = Pre(disk[f])
  <2>1. /\ Keeping(t, f) /\ origin[t][f] = Nothing => job[t].bytes = disk[f]
        /\ origin[t][f] # Nothing => store[c].entries[f] = Pre(origin[t][f])
        /\ turn[t] = "running" /\ origin[t][f] = Nothing /\ store[c].entries[f] # Nothing
             => store[c].entries[f] = Pre(disk[f])
    BY <1>4, PreFacts DEF PreAt
  <2>2. CASE store'[c].entries[f] = store[c].entries[f]
    BY <2>1, <2>2
  <2>3. CASE store'[c].entries[f] # store[c].entries[f]
    <3>1. /\ c = Row(a) /\ f = job[a].file /\ store[c].entries[f] = Nothing
          /\ store'[c].entries[f] = IF job[a].pc = "add" THEN job[a].bytes ELSE Pre(disk[f])
      BY <1>2, <2>3
    <3>2. a = t
      BY <1>4, <3>1, RowIsThere, ActorFacts
    <3>3. origin[t][f] = Nothing
      BY <1>4, <2>3, WorkFirstWins DEF FirstWins
    <3>4. job[a].pc = "add" => job[a].bytes = disk[f] /\ job[a].bytes \notin Large
      BY <2>1, <3>1, <3>2, <3>3, InvFacts, ActorFacts DEF BytesInv, Keeping
    <3>5. store'[c].entries[f] = Pre(disk[f])
      BY <3>1, <3>4 DEF Pre
    <3> QED BY <3>3, <3>5
  <2> QED BY <2>2, <2>3
<1>5. ASSUME NEW t \in Turns \ partial', NEW f \in Files, <<t, f>> \notin raced'
      PROVE  PreAt(t, f)'
  <2>1. t \in Turns /\ t \notin partial /\ <<t, f>> \notin raced
    BY <1>1, <1>5
  <2>2. Keeping(t, f)' /\ origin'[t][f] = Nothing => job'[t].bytes = disk'[f]
    BY <1>1, <1>3, <2>1
  <2>3. \A c \in DOMAIN store' :
           store'[c].turn = t /\ store'[c].label = "Before-this-turn" =>
              /\ origin'[t][f] # Nothing => store'[c].entries[f] = Pre(origin'[t][f])
              /\ turn'[t] = "running" /\ origin'[t][f] = Nothing /\ store'[c].entries[f] # Nothing
                   => store'[c].entries[f] = Pre(disk'[f])
    BY <1>1, <1>2, <1>4, <2>1
  <2> QED BY <2>2, <2>3 DEF PreAt
<1> QED BY <1>5, PreIntroNext

\* A file is changed under a turn that has read it: the turn no longer counts for that file.
LEMMA ChangedPre ==
  ASSUME CheckpointInv, PreInv, NEW g \in Files, NEW bytes, NEW turns \in SUBSET Turns,
         disk' = [disk EXCEPT ![g] = bytes], Races(g, bytes, turns), UNCHANGED <<store, turn>>,
         NEW u \in Turns, u \notin partial, NEW f \in Files, <<u, f>> \notin raced',
         origin'[u][f] = origin[u][f], Keeping(u, f)' => job'[u] = job[u],
         f = g /\ bytes # disk[g] => u \in turns
  PROVE  PreAt(u, f)'
<1>1. disk \in [Files -> Bytes]
  BY InvFacts, TypeFacts
<1>2. /\ raced \subseteq raced'
      /\ bytes # disk[g] => \A v \in turns : Captured(v, g) => <<v, g>> \in raced'
  BY InvFacts, RacesFacts
<1>3. <<u, f>> \notin raced
  BY <1>2
<1>4. PreAt(u, f)
  BY <1>3, PreFacts
<1>5. Keeping(u, f)' => Keeping(u, f) /\ job'[u].bytes = job[u].bytes
  BY DEF Keeping
<1>6. CASE disk'[f] = disk[f]
  BY <1>4, <1>5, <1>6 DEF PreAt
<1>7. CASE disk'[f] # disk[f]
  <2>1. f = g /\ bytes # disk[g] /\ u \in turns
    BY <1>1, <1>7
  <2>2. ~Captured(u, f)
    BY <1>2, <2>1
  <2>3. Keeping(u, f) => turn[u] = "running"
    BY TurnJob DEF Keeping
  <2>4. origin[u][f] = Nothing =>
           /\ ~Keeping(u, f)
           /\ turn[u] = "running" => \A c \in DOMAIN store : store[c].turn = u =>
                 store[c].entries[f] = Nothing
    BY <2>2, <2>3 DEF Captured
  <2> QED BY <1>4, <1>5, <2>4 DEF PreAt
<1> QED BY <1>6, <1>7

\* The tool acts: what it overwrites, when it is its turn's first write, is what is listed.
LEMMA ToolActsPre ==
  ASSUME CheckpointInv, PreInv, NEW t \in Turns, NEW bytes \in Contents \cup {disk[job[t].file]},
         ToolActs(t, bytes)
  PROVE  PreInv'
<1> DEFINE g == job[t].file
           o == [origin[t] EXCEPT ![g] = disk[g]]
<1>1. /\ disk \in [Files -> Bytes] /\ job \in [Actors -> Job] /\ t \in Actors
      /\ origin \in [Turns -> [Files -> Bytes \cup {Nothing}]] /\ g \in Files
  BY InvFacts, TypeFacts, ActorFacts, JobFacts
<1>2. /\ job[t].pc = "act" /\ disk' = [disk EXCEPT ![g] = bytes]
      /\ job' = [job EXCEPT ![t] = Idle] /\ UNCHANGED <<store, turn, partial>>
      /\ Races(g, bytes, Turns \ {t})
  BY DEF ToolActs, Mutates, turnVars
<1>3. \/ bytes # disk[g] /\ origin[t][g] = Nothing /\ origin' = [origin EXCEPT ![t] = o]
      \/ (bytes = disk[g] \/ origin[t][g] # Nothing) /\ origin' = origin
  BY <1>1 DEF ToolActs, Mutates
<1>4. o \in [Files -> Bytes \cup {Nothing}] /\ o[g] = disk[g]
      /\ \A h \in Files \ {g} : o[h] = origin[t][h]
  BY <1>1
<1> HIDE DEF g, o
<1>5. /\ \A u \in Turns, h \in Files : u # t \/ h # g => origin'[u][h] = origin[u][h]
      /\ \/ bytes # disk[g] /\ origin[t][g] = Nothing /\ origin'[t][g] = disk[g]
         \/ (bytes = disk[g] \/ origin[t][g] # Nothing) /\ origin'[t][g] = origin[t][g]
  BY <1>1, <1>3, <1>4
<1>6. ASSUME NEW u \in Turns, NEW h \in Files, Keeping(u, h)'
      PROVE  u # t /\ job'[u] = job[u]
  BY <1>1, <1>2, <1>6, IdleFacts, ActorFacts DEF Keeping
<1>7. raced \subseteq raced'
  BY <1>1, <1>2, InvFacts, RacesFacts
<1>8. ASSUME NEW u \in Turns \ partial', NEW f \in Files, <<u, f>> \notin raced'
      PROVE  PreAt(u, f)'
  <2>1. u \notin partial /\ <<u, f>> \notin raced
    BY <1>2, <1>7, <1>8
  <2>2. CASE u # t \/ f # g \/ bytes = disk[g]
    <3> DEFINE turns == Turns \ {t}
    <3>1. turns \in SUBSET Turns /\ Races(g, bytes, turns)
      BY <1>2
    <3>2. /\ origin'[u][f] = origin[u][f] /\ (Keeping(u, f)' => job'[u] = job[u])
          /\ f = g /\ bytes # disk[g] => u \in turns
      BY <1>5, <1>6, <2>2
    <3> HIDE DEF turns
    <3> QED BY <1>1, <1>2, <1>8, <2>1, <3>1, <3>2, ChangedPre
  <2>3. CASE u = t /\ f = g /\ bytes # disk[g]
    <3>1. /\ turn[t] = "running" /\ job[t].cp \in DOMAIN store /\ store[job[t].cp].turn = t
          /\ store[job[t].cp].label = "Before-this-turn"
          /\ store[job[t].cp].entries[g] # Nothing
      BY <1>2, <2>1, <2>3, TurnJob, TurnRow, ActOf DEF g
    <3>2. ASSUME NEW c \in DOMAIN store, store[c].turn = t, store[c].label = "Before-this-turn"
          PROVE  c = job[t].cp
      BY <2>1, <2>3, <3>1, <3>2, InvFacts DEF RowsInv
    <3>3. PreAt(t, g)
      BY <2>1, <2>3, PreFacts
    <3>4. origin'[t][g] # Nothing
      BY <1>1, <1>5, <2>3, ValueFacts
    <3>5. ASSUME NEW c \in DOMAIN store, store[c].turn = t, store[c].label = "Before-this-turn"
          PROVE  store[c].entries[g] = Pre(origin'[t][g])
      BY <1>5, <2>3, <3>1, <3>2, <3>3, <3>5 DEF PreAt
    <3> QED BY <1>2, <2>3, <3>4, <3>5 DEF PreAt
  <2> QED BY <2>2, <2>3
<1> QED BY <1>8, PreIntroNext

\* A restore writes: turns that run and have read the file no longer count for it.
LEMMA WriteBackPre ==
  ASSUME CheckpointInv, PreInv, WritesBack
  PROVE  PreInv'
<1> DEFINE g == job[Restorer].file
<1>1. g \in Files
  BY InvFacts, TypeFacts, ActorFacts, JobFacts
<1>2. UNCHANGED <<store, turn, partial, origin>> /\ Goto(Restorer, "none")
  BY WriteBackDisk
<1>3. \A u \in Turns : job'[u] = job[u]
  BY <1>2, RestorerMoved, ActorFacts
<1>4. PICK bytes \in Bytes :
         \/ disk' = [disk EXCEPT ![g] = bytes] /\ Races(g, bytes, Turns)
         \/ disk' = disk /\ raced' = raced
  BY WriteBackDisk DEF WritesTo
<1> HIDE DEF g
<1>5. ASSUME NEW u \in Turns \ partial', NEW f \in Files, <<u, f>> \notin raced'
      PROVE  PreAt(u, f)'
  <2>1. CASE disk' = disk /\ raced' = raced
    <3>1. PreAt(u, f)
      BY <1>2, <1>5, <2>1, PreFacts
    <3> QED BY <1>2, <1>3, <2>1, <3>1 DEF PreAt, Keeping
  <2>2. CASE disk' = [disk EXCEPT ![g] = bytes] /\ Races(g, bytes, Turns)
    <3> DEFINE turns == Turns
    <3>1. turns \in SUBSET Turns /\ Races(g, bytes, turns) /\ u \in turns
      BY <2>2
    <3> HIDE DEF turns
    <3> QED BY <1>1, <1>2, <1>3, <1>5, <2>2, <3>1, ChangedPre
  <2> QED BY <1>4, <2>1, <2>2
<1> QED BY <1>5, PreIntroNext

\* A step that touches neither a file nor the work of a turn.
LEMMA PreStepIntro ==
  ASSUME RowsStay, partial' = partial, UNCHANGED <<origin, disk, raced>>,
         \A t \in Turns : turn'[t] = "running" => turn[t] # "over",
         \A t \in Turns : job'[t].pc \in InHand => job'[t] = job[t],
         DOMAIN store' = DOMAIN store
  PROVE  PreStep
BY DEF PreStep

LEMMA CapturePre ==
  ASSUME CheckpointInv, NEW t \in Turns, NEW f \in Files, CaptureBegins(t, f), RowsStay
  PROVE  PreStep
<1> DEFINE known == ActiveOf(t)
           label == "Before-this-turn"
<1>1. /\ UNCHANGED <<disk, partial, origin, raced, turn, blobs, swept>>
      /\ store' = IF known = {} THEN Append(store, NewCheckpoint(t, label)) ELSE store
  BY DEF CaptureBegins, fileVars, pastVars
<1> HIDE DEF known, label
<1>2. \A u \in Turns : job'[u].pc \in InHand => job'[u] = job[u]
  BY CaptureIsBeside DEF Beside
<1>3. \A d \in DOMAIN store' \ DOMAIN store, h \in Files : store'[d].entries[h] = Nothing
  <2>1. CASE store' = store
    BY <2>1
  <2>2. CASE store' = Append(store, NewCheckpoint(t, label))
    <3>1. label \in {"Before-this-turn", "Before-restore"}
      BY DEF label
    <3>2. /\ DOMAIN store' = DOMAIN store \cup {Len(store) + 1}
          /\ \A h \in Files : store'[Len(store) + 1].entries[h] = Nothing
      BY <1>1, <2>2, <3>1, RowBegins
    <3> QED BY <3>2
  <2> QED BY <1>1, <2>1, <2>2
<1> QED BY <1>1, <1>2, <1>3 DEF PreStep

LEMMA RestoreBeginsPre ==
  ASSUME CheckpointInv, NEW c \in DOMAIN store, RestoreBegins(c)
  PROVE  PreStep
<1> DEFINE n == Len(store) + 1
           t == store[c].turn
<1>1. RestoreStarts(c, n, t)
  BY RestoreStarting
<1> HIDE DEF n, t
<1>2. /\ RowsStay /\ partial \subseteq partial' /\ UNCHANGED <<disk, origin, raced, turn>>
      /\ DOMAIN store' = DOMAIN store \cup {n}
      /\ \A f \in Files : store'[n].entries[f] = Nothing
      /\ \A a \in Actors \ {Restorer} : job'[a] = job[a]
  BY <1>1 DEF RestoreStarts
<1>3. \A u \in Turns : job'[u] = job[u]
  BY <1>2, ActorFacts
<1> QED BY <1>2, <1>3 DEF PreStep

LEMMA OtherPreSteps ==
  ASSUME CheckpointInv, [Next]_vars, \A a \in Actors : ~WorkStep(a), ~WritesBack,
         \A t \in Turns : \A bytes \in Contents \cup {disk[job[t].file]} : ~ToolActs(t, bytes)
  PROVE  PreStep
<1>1. /\ RowsStay /\ job \in [Actors -> Job] /\ turn \in [Turns -> {"idle", "running", "over"}]
      /\ Restorer \in Actors /\ Turns \subseteq Actors /\ Restorer \notin Turns
      /\ Idle.pc \notin InHand
  BY OtherStepsStay, InvFacts, TypeFacts, ActorFacts, IdleFacts DEF InHand
<1>2. ASSUME NEW t \in Turns, StartTurn(t) PROVE PreStep
  <2>1. /\ UNCHANGED <<job, disk, store, partial, origin, raced>> /\ turn[t] = "idle"
        /\ turn' = [turn EXCEPT ![t] = "running"]
    BY <1>2 DEF StartTurn, fileVars, pastVars
  <2>2. \A u \in Turns : turn'[u] = "running" => turn[u] # "over"
    BY <1>1, <2>1
  <2> QED BY <1>1, <2>1, <2>2, PreStepIntro
<1>3. ASSUME NEW t \in Turns, EndTurn(t) PROVE PreStep
  <2>1. /\ UNCHANGED <<job, disk, store, partial, origin, raced>>
        /\ turn' = [turn EXCEPT ![t] = "over"]
    BY <1>3 DEF EndTurn, fileVars, pastVars
  <2>2. \A u \in Turns : turn'[u] = "running" => turn[u] # "over"
    BY <1>1, <2>1
  <2> QED BY <1>1, <2>1, <2>2, PreStepIntro
<1>4. ASSUME NEW t \in Turns, NEW f \in Files, CaptureBegins(t, f) PROVE PreStep
  BY <1>1, <1>4, CapturePre
<1>5. ASSUME NEW c \in DOMAIN store, RestoreBegins(c) PROVE PreStep
  BY <1>5, RestoreBeginsPre
<1>6. ASSUME NEW f \in Files, RestoreNext(f) PROVE PreStep
  <2> DEFINE pc == IF store[job[Restorer].undo].entries[f] # Nothing THEN "act" ELSE "read"
  <2>1. UNCHANGED <<disk, partial, origin, raced, turn, store>>
    BY <1>6 DEF RestoreNext, fileVars, turnVars, pastVars
  <2>2. \/ job' = job
        \/ job' = [job EXCEPT ![Restorer].pc = pc, ![Restorer].file = f]
    BY <1>6 DEF RestoreNext
  <2> HIDE DEF pc
  <2>3. \A u \in Turns : job'[u] = job[u]
    BY <1>1, <2>2
  <2> QED BY <1>1, <2>1, <2>3, PreStepIntro
<1>8. ASSUME RestoreEnds PROVE PreStep
  <2>1. /\ UNCHANGED <<disk, partial, origin, raced, turn>>
        /\ job' = [job EXCEPT ![Restorer] = Idle]
    BY <1>8 DEF RestoreEnds, fileVars, turnVars, pastVars
  <2>2. \A u \in Turns : job'[u] = job[u]
    BY <1>1, <2>1
  <2>3. DOMAIN store' = DOMAIN store
    BY <1>8, RestoreEndsRows
  <2> QED BY <1>1, <2>1, <2>2, <2>3, PreStepIntro
<1>9. ASSUME GcStarts PROVE PreStep
  <2>1. UNCHANGED <<disk, partial, origin, raced, turn, job>>
    BY <1>9 DEF GcStarts, fileVars, turnVars, pastVars
  <2>2. DOMAIN store' = DOMAIN store
    BY <1>9 DEF GcStarts
  <2> QED BY <1>1, <2>1, <2>2, PreStepIntro
<1>10. ASSUME \/ \E a \in Actors : GcRemovesTemp(a)
              \/ \E b \in Contents : GcRemovesBlob(b)
       PROVE  PreStep
  <2>1. UNCHANGED <<disk, partial, origin, raced, turn, job, store>>
    BY <1>10 DEF GcRemovesTemp, GcRemovesBlob, turnVars, pastVars
  <2> QED BY <1>1, <2>1, PreStepIntro
<1>11. ASSUME GcEnds \/ UNCHANGED vars PROVE PreStep
  <2>1. UNCHANGED <<disk, partial, origin, raced, turn, job, store>>
    BY <1>11 DEF GcEnds, vars, fileVars, turnVars, pastVars
  <2> QED BY <1>1, <2>1, PreStepIntro
<1>12. ASSUME CrashAndBoot PROVE PreStep
  <2>1. /\ UNCHANGED <<disk, partial, origin, raced, store>> /\ job' = [a \in Actors |-> Idle]
        /\ turn' = [t \in Turns |-> IF turn[t] = "running" THEN "over" ELSE turn[t]]
    BY <1>12 DEF CrashAndBoot, fileVars, pastVars
  <2>2. \A u \in Turns : job'[u].pc \notin InHand
    BY <1>1, <2>1
  <2>3. \A u \in Turns : turn'[u] # "running"
    BY <2>1
  <2> QED BY <1>1, <2>1, <2>2, <2>3, PreStepIntro
<1>13. \/ \E t \in Turns : StartTurn(t)
       \/ \E t \in Turns : \E f \in Files : CaptureBegins(t, f)
       \/ \E t \in Turns : EndTurn(t)
       \/ \E c \in DOMAIN store : RestoreBegins(c)
       \/ \E a \in Actors : GcRemovesTemp(a)
       \/ \E f \in Files : RestoreNext(f)
       \/ RestoreEnds \/ GcStarts
       \/ \E b \in Contents : GcRemovesBlob(b)
       \/ GcEnds \/ CrashAndBoot \/ UNCHANGED vars
  BY DEF Next, WorkStep, WritesBack
<1> QED BY <1>2, <1>3, <1>4, <1>5, <1>6, <1>8, <1>9, <1>10, <1>11, <1>12, <1>13

LEMMA PreInvKept ==
  CheckpointInv /\ PreInv /\ [Next]_vars => PreInv'
<1> SUFFICES ASSUME CheckpointInv, PreInv, [Next]_vars PROVE PreInv'
  OBVIOUS
<1>1. CASE \E a \in Actors : WorkStep(a)
  BY <1>1, WorkStepWorks, WorkPre
<1>2. CASE \E t \in Turns : \E bytes \in Contents \cup {disk[job[t].file]} : ToolActs(t, bytes)
  BY <1>2, ToolActsPre
<1>3. CASE WritesBack
  BY <1>3, WriteBackPre
<1>4. CASE /\ \A a \in Actors : ~WorkStep(a)
           /\ ~WritesBack
           /\ \A t \in Turns : \A bytes \in Contents \cup {disk[job[t].file]} : ~ToolActs(t, bytes)
  <2>1. PreStep /\ CheckpointInv'
    BY <1>4, OtherPreSteps, OtherStepsStay
  <2> QED BY <2>1, PreStays
<1> QED BY <1>1, <1>2, <1>3, <1>4

\* The restore offered for a turn lists the pre-image of every file the turn changed, with any
\* number of turns and restores beside it, unless a capture of it failed or it was restored
\* while it ran, and but for files another changed after it had read them (captureBeforeMutation(),
\* restoreCheckpoint()).
THEOREM OffersRevert ==
  Spec => []OfferReverts
<1>1. Init => PreInv
  <2> SUFFICES ASSUME Init PROVE PreInv
    OBVIOUS
  <2>1. DOMAIN store = {} /\ \A t \in Turns : job[t].pc = "none"
    BY IdleFacts, ActorFacts DEF Init
  <2> QED BY <2>1 DEF PreInv, Keeping
<1>2. CheckpointInv /\ PreInv /\ [Next]_vars => PreInv'
  BY PreInvKept
<1>3. CheckpointInv /\ PreInv => OfferReverts
  <2> SUFFICES ASSUME CheckpointInv, PreInv, NEW t \in Turns \ partial, Offers(t) # {},
                      store[Newest(Offers(t))].label = "Before-this-turn", NEW f \in Files,
                      origin[t][f] \notin {Nothing} \cup Large, <<t, f>> \notin raced
               PROVE  store[Newest(Offers(t))].entries[f] = origin[t][f]
    BY DEF OfferReverts
  <2> DEFINE c == Newest(Offers(t))
  <2>1. store \in Seq(Checkpoint)
    BY InvFacts, TypeFacts
  <2>2. Len(store) \in Nat /\ Offers(t) \in SUBSET (1 .. Len(store))
    BY <2>1, RowFacts DEF Offers, ActiveOf
  <2>3. c \in Offers(t)
    BY <2>2, NewestIsIn
  <2>4. c \in DOMAIN store /\ store[c].turn = t
    BY <2>3 DEF Offers, ActiveOf
  <2> HIDE DEF c
  <2>5. store[c].label = "Before-this-turn"
    BY DEF c
  <2>6. store[c].entries[f] = Pre(origin[t][f])
    BY <2>4, <2>5, PreFacts DEF PreAt
  <2> QED BY <2>6 DEF Pre, c
<1> QED BY <1>1, <1>2, <1>3, CheckpointInvariant, PTL DEF Spec

=============================================================================
