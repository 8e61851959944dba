---------------------------- MODULE Checkpoints ----------------------------
(***************************************************************************)
(* File checkpoints (apps/desktop/src/main/checkpoints/manager.ts,         *)
(* blob-store.ts, storage/checkpoints.ts): before a mutating tool of a     *)
(* chat turn touches a file, the file's bytes are kept in a content-       *)
(* addressed blob store and listed in the turn's checkpoint; a restore     *)
(* puts them back, after it has listed what it overwrites in a checkpoint  *)
(* of its own; a startup collection drops old checkpoints and the blobs no *)
(* entry refers to.                                                        *)
(*                                                                         *)
(* Every file operation is awaited, so turns, restores and the collection  *)
(* interleave between any two of them; database calls are synchronous. A   *)
(* blob is its content (its name is the hash), a file's bytes are a member *)
(* of Contents, and paths that leave the workspace are not modelled.       *)
(***************************************************************************)
EXTENDS Naturals, Sequences, FiniteSets

CONSTANTS
    Turns,          \* assistant messages, each a chat turn
    Files,          \* files of the workspace
    Contents,       \* what a file may hold
    Large,          \* the contents above MAX_FILE_BYTES
    MaxWrites,      \* bound: mutating tool calls of a turn
    MaxRestores,    \* bound: how often the user restores
    MaxCrashes,     \* bound: how often the process dies
    MaxKept         \* RETENTION_MAX_COUNT

Absent   == "absent"
TooLarge == "too_large"
Nothing  == "no-entry"

\* One restore at a time: a bound, the window only keeps the two of one turn apart.
Restorer == "restore"
Actors   == Turns \cup {Restorer}

ASSUME CheckpointAssumption ==
    /\ Files # {}
    /\ Large \subseteq Contents
    /\ Contents \cap {Absent, TooLarge, Nothing} = {}
    /\ Restorer \notin Turns
    /\ {MaxWrites, MaxRestores, MaxCrashes, MaxKept} \subseteq Nat

VARIABLES
    disk,       \* the workspace
    store,      \* the checkpoints table, oldest first, with its entries
    blobs,      \* the blob store
    temps,      \* actors whose blob is written but not yet renamed
    turn,       \* idle, running or over
    writes,     \* mutating calls each turn has made (bound)
    job,        \* what each actor is doing
    due,        \* the files listed when the restore read its checkpoint
    todo,       \* those of them it has not come to
    skipped,    \* whether the restore has skipped an entry
    gc,         \* the startup collection
    restores,   \* restores begun (bound)
    crashes,    \* process deaths (bound)
    origin,     \* history: what each turn's first write to a file replaced
    partial,    \* history: turns of which a capture failed, or restored while they ran
    raced,      \* history: files others changed between a turn's capture and its change
    exposed,    \* history: files of the restore not read, or changed by a turn since
    swept       \* history: blobs removed while a turn or restore was beside it

fileVars    == <<disk, blobs, temps>>
turnVars    == <<turn, writes>>
restoreVars == <<due, todo, skipped, exposed>>
boundVars   == <<restores, crashes>>
pastVars    == <<origin, raced, swept>>
vars == <<fileVars, store, turnVars, job, restoreVars, gc, boundVars, partial, pastVars>>

-----------------------------------------------------------------------------

Bytes == Contents \cup {Absent}

Checkpoint ==
    [turn: Turns, label: {"Before-this-turn", "Before-restore"},
     status: {"active", "restored", "superseded", "deleted"},
     entries: [Files -> Bytes \cup {TooLarge, Nothing}]]

Job == [pc: {"none", "read", "put", "rename", "add", "act"},
        cp: Nat, undo: Nat, file: Files, bytes: Bytes]

TypeOK ==
    /\ disk \in [Files -> Bytes]
    /\ store \in Seq(Checkpoint)
    /\ blobs \in SUBSET Contents
    /\ temps \in SUBSET Actors
    /\ turn \in [Turns -> {"idle", "running", "over"}]
    /\ writes \in [Turns -> 0 .. MaxWrites]
    /\ job \in [Actors -> Job]
    /\ due \in SUBSET Files
    /\ todo \in SUBSET Files
    /\ skipped \in BOOLEAN
    /\ gc \in [pc: {"start", "sweep", "done"}, refs: SUBSET Contents, beside: BOOLEAN]
    /\ restores \in 0 .. MaxRestores
    /\ crashes \in 0 .. MaxCrashes
    /\ origin \in [Turns -> [Files -> Bytes \cup {Nothing}]]
    /\ partial \in SUBSET Turns
    /\ raced \in SUBSET (Turns \X Files)
    /\ exposed \in SUBSET Files
    /\ swept \in SUBSET Contents

NoEntries == [f \in Files |-> Nothing]
Idle == [pc |-> "none", cp |-> 0, undo |-> 0, file |-> CHOOSE f \in Files : TRUE,
         bytes |-> Absent]
AtBoot == [pc |-> "start", refs |-> {}, beside |-> FALSE]

Init ==
    /\ disk \in [Files -> Bytes]
    /\ store = <<>>
    /\ blobs = {}
    /\ temps = {}
    /\ turn = [t \in Turns |-> "idle"]
    /\ writes = [t \in Turns |-> 0]
    /\ job = [a \in Actors |-> Idle]
    /\ due = {}
    /\ todo = {}
    /\ skipped = FALSE
    /\ gc = AtBoot
    /\ restores = 0
    /\ crashes = 0
    /\ origin = [t \in Turns |-> NoEntries]
    /\ partial = {}
    /\ raced = {}
    /\ exposed = {}
    /\ swept = {}

-----------------------------------------------------------------------------
(* The tables                                                              *)

Referenced == {store[c].entries[f] : c \in {d \in DOMAIN store : store[d].status # "deleted"},
                                     f \in Files} \cap Contents

NewCheckpoint(t, label) ==
    [turn |-> t, label |-> label, status |-> "active", entries |-> NoEntries]

ActiveOf(t) == {c \in DOMAIN store : store[c].turn = t /\ store[c].status = "active"}

Newest(S) == CHOOSE c \in S : \A d \in S : d <= c

\* addCheckpointEntry(): INSERT OR IGNORE, the first pre-image of a path wins.
WithEntry(s, c, f, value) ==
    IF s[c].entries[f] = Nothing THEN [s EXCEPT ![c].entries[f] = value] ELSE s

\* setCheckpointStatus(): a row that is gone stays gone.
WithStatus(s, c, status) ==
    IF s[c].status = "deleted" THEN s ELSE [s EXCEPT ![c].status = status]

\* The checkpoint the window offers to restore for a turn.
Offers(t) == {c \in ActiveOf(t) : store[c].entries # NoEntries}

Restoring == job[Restorer].undo # 0

\* Windows open after the collection has begun (index.ts), and do not wait for it: a
\* turn or a restore may begin beside it.
Opened ==
    /\ gc.pc # "start"
    /\ gc' = [gc EXCEPT !.beside = (gc.pc = "sweep")]

Goto(a, pc) == job' = [job EXCEPT ![a].pc = pc]

\* An actor that has read a file and not yet listed it.
Keeping(a, f) == job[a].pc \in {"put", "rename", "add"} /\ job[a].file = f

\* The turn has read the file for its checkpoint and not changed it yet.
Captured(t, f) ==
    /\ turn[t] = "running"
    /\ origin[t][f] = Nothing
    /\ \/ Keeping(t, f)
       \/ \E c \in DOMAIN store : store[c].turn = t /\ store[c].entries[f] # Nothing

\* A restore goes by what the file held earlier: its bytes were read for the undo
\* checkpoint, by the restore or by the turn it is beside, or it was put back.
Taken(f) ==
    /\ Restoring
    /\ \/ store[job[Restorer].undo].entries[f] # Nothing
       \/ \E a \in Actors : Keeping(a, f) /\ (a = Restorer \/ job[a].cp = job[Restorer].undo)
       \/ f \notin todo /\ ~(job[Restorer].pc = "read" /\ job[Restorer].file = f)

\* What a change of a file by one of the actors does to the captures of the turns.
Races(f, bytes, turns) ==
    raced' = IF bytes = disk[f] THEN raced
             ELSE raced \cup {<<u, f>> : u \in {v \in turns : Captured(v, f)}}

-----------------------------------------------------------------------------
(* A turn                                                                  *)

StartTurn(t) ==
    /\ turn[t] = "idle"
    /\ Opened
    /\ turn' = [turn EXCEPT ![t] = "running"]
    /\ UNCHANGED <<fileVars, store, writes, job, restoreVars, boundVars, partial, pastVars>>

\* (mutant) Every capture makes a checkpoint of its own.
CaptureBeginsAnew(t, f) ==
    /\ turn[t] = "running"
    /\ job[t].pc = "none"
    /\ writes[t] < MaxWrites
    /\ writes' = [writes EXCEPT ![t] = @ + 1]
    /\ store' = Append(store, NewCheckpoint(t, "Before-this-turn"))
    /\ job' = [job EXCEPT ![t] = [Idle EXCEPT !.pc = "read", !.cp = Len(store) + 1, !.file = f]]
    /\ UNCHANGED <<fileVars, turn, restoreVars, gc, boundVars, partial, pastVars>>

\* captureBeforeMutation(), up to the read: the turn's newest active checkpoint, made
\* when there is none, and nothing more to do when it lists the file. While the turn
\* itself is being restored, that is the restore's undo checkpoint.
CaptureBegins(t, f) ==
    /\ turn[t] = "running"
    /\ job[t].pc = "none"
    /\ writes[t] < MaxWrites
    /\ writes' = [writes EXCEPT ![t] = @ + 1]
    /\ LET known == ActiveOf(t)
           c     == IF known = {} THEN Len(store) + 1 ELSE Newest(known)
           held  == known # {} /\ store[c].entries[f] # Nothing
       IN  /\ store' = IF known = {} THEN Append(store, NewCheckpoint(t, "Before-this-turn"))
                       ELSE store
           /\ job' = [job EXCEPT ![t] = [Idle EXCEPT !.pc = IF held THEN "act" ELSE "read",
                                                     !.cp = c, !.file = f]]
    /\ UNCHANGED <<fileVars, turn, restoreVars, gc, boundVars, partial, pastVars>>

\* The catch block: the turn's active checkpoint, if any, is superseded, and the
\* tool runs all the same.
CaptureFails(t) ==
    /\ store' = IF ActiveOf(t) = {} THEN store
                ELSE WithStatus(store, Newest(ActiveOf(t)), "superseded")
    /\ partial' = partial \cup {t}
    /\ Goto(t, "act")

\* No restore is under way any more.
RestoreGone == due' = {} /\ todo' = {} /\ skipped' = FALSE /\ exposed' = {}

\* A restore that throws leaves its checkpoint active and its undo behind.
SnapshotThrows ==
    /\ job' = [job EXCEPT ![Restorer] = Idle]
    /\ RestoreGone
    /\ UNCHANGED <<store, partial>>

\* What an exception in the middle of keeping a file's bytes leads to.
KeepingFails(a) ==
    IF a = Restorer
    THEN SnapshotThrows
    ELSE CaptureFails(a) /\ UNCHANGED restoreVars

\* The entry goes into the checkpoint the actor fills; the foreign key refuses
\* it when the checkpoint has been deleted.
Lists(a, value) ==
    LET c == IF a = Restorer THEN job[a].undo ELSE job[a].cp IN
    IF store[c].status = "deleted"
    THEN KeepingFails(a)
    ELSE /\ store' = WithEntry(store, c, job[a].file, value)
         /\ Goto(a, "act")
         /\ UNCHANGED <<restoreVars, partial>>

\* The file is read: an absent one is listed as absent, one above the cap as too
\* large, and otherwise the bytes go to the blob store.
ReadBytes(a) ==
    /\ job[a].pc = "read"
    /\ LET bytes == disk[job[a].file] IN
       IF bytes = Absent \/ bytes \in Large
       THEN Lists(a, IF bytes = Absent THEN Absent ELSE TooLarge)
       ELSE /\ job' = [job EXCEPT ![a].pc = "put", ![a].bytes = bytes]
            /\ UNCHANGED <<store, restoreVars, partial>>
    /\ UNCHANGED <<fileVars, turnVars, gc, boundVars, pastVars>>

\* The read fails: a capture gives up, a snapshot goes on without an entry.
ReadFails(a) ==
    /\ job[a].pc = "read"
    /\ IF a = Restorer
       THEN /\ Goto(a, "act")
            /\ exposed' = exposed \cup {job[a].file}
            /\ UNCHANGED <<store, due, todo, skipped, partial>>
       ELSE CaptureFails(a) /\ UNCHANGED restoreVars
    /\ UNCHANGED <<fileVars, turnVars, gc, boundVars, pastVars>>

\* putBlob(): nothing to write when the blob is there, else a temporary file.
PutBegins(a) ==
    /\ job[a].pc = "put"
    /\ IF job[a].bytes \in blobs
       THEN Goto(a, "add") /\ UNCHANGED temps
       ELSE Goto(a, "rename") /\ temps' = temps \cup {a}
    /\ UNCHANGED <<disk, blobs, store, turnVars, restoreVars, gc, boundVars, partial, pastVars>>

PutFails(a) ==
    /\ job[a].pc = "put"
    /\ KeepingFails(a)
    /\ UNCHANGED <<fileVars, turnVars, gc, boundVars, pastVars>>

\* The rename. It fails when the temporary file was collected, which is fine
\* when another writer's blob is there.
PutRenames(a) ==
    /\ job[a].pc = "rename"
    /\ temps' = temps \ {a}
    /\ IF a \in temps \/ job[a].bytes \in blobs
       THEN /\ blobs' = IF a \in temps THEN blobs \cup {job[a].bytes} ELSE blobs
            /\ swept' = IF a \in temps THEN swept \ {job[a].bytes} ELSE swept
            /\ Goto(a, "add")
            /\ UNCHANGED <<store, restoreVars, partial>>
       ELSE KeepingFails(a) /\ UNCHANGED <<blobs, swept>>
    /\ UNCHANGED <<disk, turnVars, gc, boundVars, origin, raced>>

ListBlob(a) ==
    /\ job[a].pc = "add"
    /\ Lists(a, job[a].bytes)
    /\ UNCHANGED <<fileVars, turnVars, gc, boundVars, pastVars>>

\* A mutating tool leaves the file with these bytes.
Mutates(t, f, bytes) ==
    /\ disk' = [disk EXCEPT ![f] = bytes]
    /\ origin' = IF bytes # disk[f] /\ origin[t][f] = Nothing
                 THEN [origin EXCEPT ![t][f] = disk[f]] ELSE origin
    /\ Races(f, bytes, Turns \ {t})
    /\ exposed' = IF bytes # disk[f] /\ Taken(f) THEN exposed \cup {f} ELSE exposed

\* (mutant) The tool runs beside the capture of its pre-image.
ToolActsEarly(t, bytes) ==
    /\ job[t].pc \in {"read", "act"}
    /\ Mutates(t, job[t].file, bytes)
    /\ IF job[t].pc = "act" THEN job' = [job EXCEPT ![t] = Idle] ELSE UNCHANGED job
    /\ UNCHANGED <<blobs, temps, store, turnVars, due, todo, skipped, gc, boundVars, partial,
                   swept>>

\* The tool runs and settles; it may fail and leave the file as it was.
ToolActs(t, bytes) ==
    /\ job[t].pc = "act"
    /\ Mutates(t, job[t].file, bytes)
    /\ job' = [job EXCEPT ![t] = Idle]
    /\ UNCHANGED <<blobs, temps, store, turnVars, due, todo, skipped, gc, boundVars, partial,
                   swept>>

EndTurn(t) ==
    /\ turn[t] = "running"
    /\ job[t].pc = "none"
    /\ turn' = [turn EXCEPT ![t] = "over"]
    /\ UNCHANGED <<fileVars, store, writes, job, restoreVars, gc, boundVars, partial, pastVars>>

-----------------------------------------------------------------------------
(* A restore                                                               *)

\* restoreCheckpoint(): its handler takes any checkpoint the table has, whether its turn
\* is over or not; the button names one with entries, which may be restored, superseded
\* or no longer the newest by now. The undo checkpoint is made first.
RestoreBegins(c) ==
    /\ ~Restoring
    /\ Opened
    /\ restores < MaxRestores
    /\ restores' = restores + 1
    /\ store[c].status # "deleted"
    /\ store[c].entries # NoEntries
    /\ LET t == store[c].turn IN
       /\ store' = Append(store, NewCheckpoint(t, "Before-restore"))
       /\ partial' = IF turn[t] = "running" THEN partial \cup {t} ELSE partial
    /\ job' = [job EXCEPT ![Restorer] = [Idle EXCEPT !.cp = c, !.undo = Len(store) + 1]]
    /\ due' = {f \in Files : store[c].entries[f] # Nothing}
    /\ todo' = due'
    /\ skipped' = FALSE
    /\ exposed' = {}
    /\ UNCHANGED <<fileVars, turnVars, crashes, pastVars>>

\* The entry as the restore read it at its start (entries never change).
Target(f) == store[job[Restorer].cp].entries[f]

\* (mutant) The files of the checkpoint itself are taken for listed already.
RestoreNextUnlisted(f) ==
    /\ Restoring
    /\ job[Restorer].pc = "none"
    /\ f \in todo
    /\ todo' = todo \ {f}
    /\ IF Target(f) = TooLarge
       THEN skipped' = TRUE /\ UNCHANGED job
       ELSE /\ job' = [job EXCEPT ![Restorer].pc = "act", ![Restorer].file = f]
            /\ UNCHANGED skipped
    /\ UNCHANGED <<fileVars, store, turnVars, due, exposed, gc, boundVars, partial, pastVars>>

\* The next entry. What was too large to keep is skipped, and what the undo lists
\* already (the turn's own capture may have) is not read again.
RestoreNext(f) ==
    /\ Restoring
    /\ job[Restorer].pc = "none"
    /\ f \in todo
    /\ todo' = todo \ {f}
    /\ LET listed == store[job[Restorer].undo].entries[f] # Nothing IN
       IF Target(f) = TooLarge
       THEN skipped' = TRUE /\ UNCHANGED job
       ELSE /\ job' = [job EXCEPT ![Restorer].pc = IF listed THEN "act" ELSE "read",
                                  ![Restorer].file = f]
            /\ UNCHANGED skipped
    /\ UNCHANGED <<fileVars, store, turnVars, due, exposed, gc, boundVars, partial, pastVars>>

\* The file holds what the restore has put there.
PutsBack(f, bytes) ==
    /\ disk' = [disk EXCEPT ![f] = bytes]
    /\ Races(f, bytes, Turns)
    /\ exposed' = exposed \ {f}

\* An entry is passed over: the file stays as it is.
PassesOver == skipped' = TRUE /\ UNCHANGED <<disk, raced, exposed>>

\* (mutant) A file the turn created is left where it is.
WriteBackOnlyBytes ==
    /\ job[Restorer].pc = "act"
    /\ LET f == job[Restorer].file IN
       IF Target(f) = Absent
       THEN UNCHANGED <<disk, raced, skipped>> /\ exposed' = exposed \ {f}
       ELSE IF Target(f) \in blobs THEN PutsBack(f, Target(f)) /\ UNCHANGED skipped ELSE PassesOver
    /\ Goto(Restorer, "none")
    /\ UNCHANGED <<blobs, temps, store, turnVars, due, todo, gc, boundVars, partial, origin,
                   swept>>

\* The pre-image is put back, or the file removed when there was none. An entry
\* whose blob is gone is skipped.
WriteBack ==
    /\ job[Restorer].pc = "act"
    /\ LET f == job[Restorer].file IN
       IF Target(f) = Absent \/ Target(f) \in blobs
       THEN PutsBack(f, Target(f)) /\ UNCHANGED skipped
       ELSE PassesOver
    /\ Goto(Restorer, "none")
    /\ UNCHANGED <<blobs, temps, store, turnVars, due, todo, gc, boundVars, partial, origin,
                   swept>>

\* The removal or the write fails. A write is not atomic: cut off, by the death of the
\* process as well, it leaves the file with whatever came through.
WriteBackFails(bytes) ==
    /\ job[Restorer].pc = "act"
    /\ LET f == job[Restorer].file IN
       /\ bytes = disk[f] \/ Target(f) \in blobs
       /\ PutsBack(f, bytes)
    /\ skipped' = TRUE
    /\ Goto(Restorer, "none")
    /\ UNCHANGED <<blobs, temps, store, turnVars, due, todo, gc, boundVars, partial, origin,
                   swept>>

\* The checkpoint is restored whatever was skipped, and an empty undo goes.
RestoreEnds ==
    /\ Restoring
    /\ job[Restorer].pc = "none"
    /\ todo = {}
    /\ LET undo == job[Restorer].undo
           done == WithStatus(store, job[Restorer].cp, "restored")
       IN  store' = IF store[undo].entries = NoEntries
                    THEN [done EXCEPT ![undo].status = "deleted"] ELSE done
    /\ job' = [job EXCEPT ![Restorer] = Idle]
    /\ RestoreGone
    /\ UNCHANGED <<fileVars, turnVars, gc, boundVars, partial, pastVars>>

-----------------------------------------------------------------------------
(* The startup collection, and the death of the process                    *)

\* (mutant) Only what is still offered counts as referenced.
GcStartsForActive ==
    /\ gc.pc = "start"
    /\ store' = store
    /\ gc' = [AtBoot EXCEPT !.pc = IF blobs = {} /\ temps = {} THEN "done" ELSE "sweep",
                            !.refs = {store[c].entries[f] :
                                c \in {d \in DOMAIN store : store[d].status = "active"},
                                f \in Files} \cap Contents]
    /\ UNCHANGED <<fileVars, turnVars, job, restoreVars, boundVars, partial, pastVars>>

\* gc(): the age, count and size caps each keep some of the newest checkpoints;
\* the entries of the rest cascade, and what is still referenced is noted. Shard
\* directories without files are taken as absent: there is nothing to go through.
GcStarts ==
    /\ gc.pc = "start"
    /\ LET live == {c \in DOMAIN store : store[c].status # "deleted"} IN
       \E kept \in SUBSET live :
          /\ \A c \in kept : \A d \in live : d > c => d \in kept
          /\ Cardinality(kept) <= MaxKept
          /\ store' = [c \in DOMAIN store |->
                          IF c \in live \ kept THEN [store[c] EXCEPT !.status = "deleted"]
                          ELSE store[c]]
    /\ gc' = [AtBoot EXCEPT !.pc = IF blobs = {} /\ temps = {} THEN "done" ELSE "sweep",
                            !.refs = Referenced']
    /\ UNCHANGED <<fileVars, turnVars, job, restoreVars, boundVars, partial, pastVars>>

\* gcOrphanBlobs(): as the directories are listed, blobs nothing referred to
\* and temporary files are removed. A removal may fail, and what is written after
\* its directory was listed stays.
GcRemovesBlob(b) ==
    /\ gc.pc = "sweep"
    /\ b \in blobs \ gc.refs
    /\ blobs' = blobs \ {b}
    /\ swept' = IF gc.beside THEN swept \cup {b} ELSE swept
    /\ UNCHANGED <<disk, temps, store, turnVars, job, restoreVars, gc, boundVars, partial, origin,
                   raced>>

GcRemovesTemp(a) ==
    /\ gc.pc = "sweep"
    /\ a \in temps
    /\ temps' = temps \ {a}
    /\ UNCHANGED <<disk, blobs, store, turnVars, job, restoreVars, gc, boundVars, partial,
                   pastVars>>

GcEnds ==
    /\ gc.pc = "sweep"
    /\ gc' = [AtBoot EXCEPT !.pc = "done"]
    /\ UNCHANGED <<fileVars, store, turnVars, job, restoreVars, boundVars, partial, pastVars>>

\* The process dies and starts again: turns and restores are cut off where they
\* are, their temporary files stay, and the collection runs anew.
CrashAndBoot ==
    /\ crashes < MaxCrashes
    /\ crashes' = crashes + 1
    /\ turn' = [t \in Turns |-> IF turn[t] = "running" THEN "over" ELSE turn[t]]
    /\ job' = [a \in Actors |-> Idle]
    /\ RestoreGone
    /\ gc' = AtBoot
    /\ UNCHANGED <<fileVars, store, writes, restores, partial, pastVars>>

Next ==
    \/ \E t \in Turns :
          \/ StartTurn(t)
          \/ \E f \in Files : CaptureBegins(t, f)
          \/ \E bytes \in Contents \cup {disk[job[t].file]} : ToolActs(t, bytes)
          \/ EndTurn(t)
    \/ \E a \in Actors :
          \/ ReadBytes(a)
          \/ ReadFails(a)
          \/ PutBegins(a)
          \/ PutFails(a)
          \/ PutRenames(a)
          \/ ListBlob(a)
          \/ GcRemovesTemp(a)
    \/ \E c \in DOMAIN store : RestoreBegins(c)
    \/ \E f \in Files : RestoreNext(f)
    \/ WriteBack
    \/ \E bytes \in Contents \cup {disk[job[Restorer].file]} : WriteBackFails(bytes)
    \/ RestoreEnds
    \/ GcStarts
    \/ \E b \in Contents : GcRemovesBlob(b)
    \/ GcEnds
    \/ CrashAndBoot

Spec == Init /\ [][Next]_vars

-----------------------------------------------------------------------------
(* Properties                                                              *)

\* Every pre-image an entry refers to is in the blob store, however writes, restores,
\* collections and crashes interleave: an entry without its blob is a file that cannot be
\* brought back (restoreCheckpoint skips it). The only blobs that may be missing are those
\* a collection has removed beside a turn or restore that began while it was under way:
\* gcOrphanBlobs() reads what is referenced once, before it removes anything.
EntriesBacked == Referenced \subseteq blobs \cup swept

\* The restore offered for a turn that was not yet restored, and of which every capture
\* succeeded, brings back every file the turn changed to what it was before the turn's
\* first change, whatever turns, restores, collections and crashes come between. Two
\* things break that promise and are left out: a turn restored while it ran is in
\* `partial' (its next captures are listed in the undo checkpoint), and a file that another
\* turn or a restore changed after this turn had read it is in `raced' (it comes back as
\* this turn read it, before both changes).
OfferReverts ==
    \A t \in Turns \ partial :
        Offers(t) # {} /\ store[Newest(Offers(t))].label = "Before-this-turn" =>
            \A f \in Files :
                origin[t][f] \notin {Nothing} \cup Large /\ <<t, f>> \notin raced =>
                    store[Newest(Offers(t))].entries[f] = origin[t][f]

\* A pre-image is never replaced, whatever turns and restores do, and unless a capture
\* failed, or the turn was restored while it ran, it is listed before the turn has
\* touched the file.
FirstPreimageWins ==
    [][\A c \in DOMAIN store : \A f \in Files :
          store'[c].entries[f] # store[c].entries[f] =>
              /\ store[c].entries[f] = Nothing
              /\ store[c].label = "Before-this-turn" /\ store[c].turn \notin partial =>
                    origin[store[c].turn][f] = Nothing]_vars

\* A restore that has gone through its entries and skipped none leaves every file they
\* name exactly as listed, files that were not there included, though it may run beside
\* the turn it restores and beside others: only what a turn has changed since the file
\* was read for the undo or put back may differ.
RestoreReverts ==
    Restoring /\ job[Restorer].pc = "none" /\ todo = {} /\ ~skipped =>
        \A f \in due : disk[f] = Target(f) \/ f \in exposed

\* The undo checkpoint lists what the restore is about to overwrite: its bytes, or that
\* they are too many to keep.
UndoLists(f) ==
    \/ store[job[Restorer].undo].entries[f] = disk[f]
    \/ store[job[Restorer].undo].entries[f] = TooLarge /\ disk[f] \in Large

Overwrites(f) == job[Restorer].pc = "act" /\ job'[Restorer].pc = "none" /\ disk'[f] # disk[f]

\* What a restore overwrites is listed in its undo checkpoint as it is at that moment, by
\* the restore or by the capture of the turn it runs beside, but for two cases: the file
\* could not be read, or a turn has changed it since it was read. In both the bytes are lost,
\* against the comment at manager.ts:364, where a restore can always be undone:
\* snapshotCurrentInto() returns as if it had listed the file, and nothing is compared
\* before the write. Listed is not kept: of a file above the cap there is only the mark
\* that it is too large, and its bytes are overwritten all the same.
OverwrittenListed ==
    [][\A f \in Files : Overwrites(f) /\ f \notin exposed => UndoLists(f)]_vars

\* A restore that skipped nothing puts back what is listed, and lists what it overwrites,
\* both with the exceptions stated at the two halves: neither says that a restore can
\* always be undone.
RestoresFaithful == []RestoreReverts /\ OverwrittenListed

=============================================================================
