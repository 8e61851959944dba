--------------------------- MODULE WorkspaceIndex ---------------------------
(***************************************************************************)
(* The search index and the code graph of one workspace                    *)
(* (apps/desktop/src/main/rag/multi-workspace-indexer.ts, watcher.ts,      *)
(* vector-store.ts, code-graph-store.ts and the switch in                  *)
(* workspace/multi-workspace-handlers.ts). Workspaces share no state.      *)
(*                                                                         *)
(* While the switch is on an index is listed: an open vector store, a      *)
(* watcher that gathers changes of files into batches, and the symbols of  *)
(* the files it has read. Batches are worked off one after the other: the  *)
(* rows of each file are replaced once the provider has embedded it, then  *)
(* the code graph is replaced by what the index has read so far. Starting  *)
(* and stopping a watcher, reading and embedding are awaited, and nothing  *)
(* keeps two calls of the switch apart.                                    *)
(*                                                                         *)
(* A file holds a version, or something that is not indexed (too large,    *)
(* binary, no file); its rows and its symbols are known by the version     *)
(* they were made from. The watcher library is external: it reports every  *)
(* change once and in order, though perhaps not before it is ready.        *)
(***************************************************************************)
EXTENDS Naturals, Sequences, FiniteSets

CONSTANTS
    Files,          \* files of the workspace, of an indexed language
    Versions,       \* what a file may hold that is indexed
    MaxIndexes,     \* bound: indexes at once, listed or not
    MaxChanges,     \* bound: changes of files
    MaxSwitches,    \* bound: calls of the switch
    MaxRestarts,    \* bound: how often the process ends
    MaxFaults       \* bound: stores, watchers, providers and extractions that fail

ASSUME IndexAssumption ==
    /\ Files # {}
    /\ {"absent", "unfit"} \cap Versions = {}
    /\ {MaxIndexes, MaxChanges, MaxSwitches, MaxRestarts, MaxFaults} \subseteq Nat

IndexIds == 1 .. MaxIndexes
NoOne    == 0
Absent   == "absent"
Unfit    == "unfit"
Bytes    == Versions \cup {Absent, Unfit}

VARIABLES
    disk,       \* the workspace
    enabled,    \* rag_enabled
    running,    \* whether the process lives
    index,      \* indexes, each with its watcher
    entry,      \* the one in entries, if any
    chain,      \* batches waiting in inFlight
    job,        \* the batch being worked off
    vectors,    \* the rows of each file in vectors.db
    graph,      \* the symbols of each file in the code graph tables
    missed,     \* history: files whose last change did not get through
    drawn,      \* history: files the listed index has put into the graph as it is stored
    count,      \* changes, calls of the switch, ends of the process (bounds)
    faults      \* stores, watchers, providers and extractions that failed (bound)

fileVars    == <<disk, enabled, running>>
storedVars  == <<vectors, graph>>
historyVars == <<missed, drawn>>
indexVars   == <<fileVars, index, entry, chain, job, storedVars, historyVars, count, faults>>

-----------------------------------------------------------------------------

Batch == [added: SUBSET Files, changed: SUBSET Files, removed: SUBSET Files]

Symbols == [Files -> Versions \cup {Absent}]

Index == [at: {"gone", "starting", "live", "stopping"}, watch: BOOLEAN, open: BOOLEAN,
          pending: Batch, extractions: Symbols]

Job == [pc: {"idle", "vectors", "embed", "graph"}, id: IndexIds \cup {NoOne}, batch: Batch,
        todo: SUBSET Files, file: Files, bytes: Bytes, changed: BOOLEAN]

IndexTypeOK ==
    /\ disk \in [Files -> Bytes]
    /\ {enabled, running} \subseteq BOOLEAN
    /\ index \in [IndexIds -> Index]
    /\ entry \in IndexIds \cup {NoOne}
    /\ entry # NoOne => index[entry].open
    /\ chain \in Seq(Batch)
    /\ job \in Job
    /\ {vectors, graph} \subseteq Symbols
    /\ missed \in [rows: SUBSET Files, symbols: SUBSET Files]
    /\ drawn \subseteq Files
    /\ count \in [changes: 0 .. MaxChanges, switches: 0 .. MaxSwitches, quits: 0 .. MaxRestarts]
    /\ faults \in 0 .. MaxFaults

NoBatch   == [added |-> {}, changed |-> {}, removed |-> {}]
NoSymbols == [f \in Files |-> Absent]
NoIndex   == [at |-> "gone", watch |-> FALSE, open |-> FALSE, pending |-> NoBatch,
              extractions |-> NoSymbols]
NoJob     == [pc |-> "idle", id |-> NoOne, batch |-> NoBatch, todo |-> {},
              file |-> CHOOSE f \in Files : TRUE, bytes |-> Absent, changed |-> FALSE]

\* The first start, in a workspace nothing is known of.
IndexInit ==
    /\ disk \in [Files -> Bytes]
    /\ enabled = FALSE
    /\ running = TRUE
    /\ index = [i \in IndexIds |-> NoIndex]
    /\ entry = NoOne
    /\ chain = <<>>
    /\ job = NoJob
    /\ vectors = NoSymbols
    /\ graph = NoSymbols
    /\ missed = [rows |-> Files, symbols |-> Files]
    /\ drawn = {}
    /\ count = [changes |-> 0, switches |-> 0, quits |-> 0]
    /\ faults = 0

-----------------------------------------------------------------------------
(* The watcher                                                             *)

Named(b) == b.added \cup b.changed \cup b.removed

\* queue()
Queue(b, kind, f) ==
    CASE kind = "added"   -> [b EXCEPT !.removed = @ \ {f}, !.added = @ \cup {f}]
      [] kind = "changed" -> [b EXCEPT !.changed = IF f \in b.added THEN @ ELSE @ \cup {f}]
      [] kind = "removed" -> [b EXCEPT !.added = @ \ {f}, !.changed = @ \ {f},
                                       !.removed = @ \cup {f}]

Fault ==
    /\ faults < MaxFaults
    /\ faults' = faults + 1

MissedToo(files) ==
    missed' = [rows |-> missed.rows \cup files, symbols |-> missed.symbols \cup files]

\* Something writes or removes a file. Watchers that are ready are told; a change that
\* one of the others was not told of counts as missed.
Change(f, bytes) ==
    LET kind  == IF disk[f] = Absent THEN "added" ELSE IF bytes = Absent THEN "removed" ELSE "changed"
        ready == {i \in IndexIds : index[i].watch /\ index[i].at = "live"}
        early == {i \in IndexIds : index[i].watch /\ index[i].at = "starting"}
    IN  /\ disk[f] # bytes
        /\ count.changes < MaxChanges
        /\ count' = [count EXCEPT !.changes = @ + 1]
        /\ disk' = [disk EXCEPT ![f] = bytes]
        /\ \E told \in {ready \cup some : some \in SUBSET early} :
              /\ index' = [i \in IndexIds |-> IF i \in told
                                         THEN [index[i] EXCEPT !.pending = Queue(@, kind, f)]
                                         ELSE index[i]]
              /\ IF told = {} \/ ~(early \subseteq told)
                 THEN MissedToo({f})
                 ELSE missed' = [rows |-> missed.rows \ {f}, symbols |-> missed.symbols \ {f}]
        /\ UNCHANGED <<enabled, running, entry, chain, job, storedVars, drawn, faults>>

\* flush(), and onBatch(): the batch waits for those before it.
Flush(i) ==
    /\ index[i].watch
    /\ index[i].pending # NoBatch
    /\ chain' = Append(chain, index[i].pending)
    /\ index' = [index EXCEPT ![i].pending = NoBatch]
    /\ UNCHANGED <<fileVars, entry, job, storedVars, historyVars, count, faults>>

-----------------------------------------------------------------------------
(* A batch                                                                 *)

Holds(v, files) == [f \in Files |-> IF f \in files THEN Absent ELSE v[f]]

\* processBatch(), up to the answer of the embedding resolver: the batch belongs to the
\* index listed now, whose store is open. The rows of removed files go; without a
\* provider that is all.
BatchBegins ==
    LET b   == Head(chain)
        new == b.added \cup b.changed
    IN  /\ job.pc = "idle"
        /\ chain # <<>>
        /\ chain' = Tail(chain)
        /\ IF entry = NoOne
           THEN MissedToo(Named(b)) /\ UNCHANGED <<job, vectors, faults>>
           ELSE /\ vectors' = Holds(vectors, b.removed)
                /\ \E todo \in {new, {}} :
                      /\ IF todo = new THEN UNCHANGED faults ELSE Fault
                      /\ job' = [NoJob EXCEPT !.pc = "vectors", !.id = entry, !.batch = b,
                                              !.todo = todo]
                      /\ missed' = [missed EXCEPT !.rows = @ \cup (new \ todo)]
        /\ UNCHANGED <<fileVars, index, entry, graph, drawn, count>>

\* The next file is read. One that is not to be indexed is passed over.
ReadFile(f) ==
    /\ job.pc = "vectors"
    /\ f \in job.todo
    /\ job' = IF disk[f] \in Versions
              THEN [job EXCEPT !.pc = "embed", !.todo = @ \ {f}, !.file = f, !.bytes = disk[f]]
              ELSE [job EXCEPT !.todo = @ \ {f}]
    /\ UNCHANGED <<fileVars, index, entry, chain, storedVars, historyVars, count, faults>>

\* upsert() of what was embedded. It fails when the store has been closed meanwhile.
Embedded ==
    /\ job.pc = "embed"
    /\ job' = [job EXCEPT !.pc = "vectors"]
    /\ IF index[job.id].open
       THEN vectors' = [vectors EXCEPT ![job.file] = job.bytes] /\ UNCHANGED missed
       ELSE missed' = [missed EXCEPT !.rows = @ \cup {job.file}] /\ UNCHANGED vectors
    /\ UNCHANGED <<fileVars, index, entry, chain, graph, drawn, count, faults>>

EmbedFails ==
    /\ Fault
    /\ job.pc = "embed"
    /\ job' = [job EXCEPT !.pc = "vectors"]
    /\ missed' = [missed EXCEPT !.rows = @ \cup {job.file}]
    /\ UNCHANGED <<fileVars, index, entry, chain, storedVars, drawn, count>>

\* updateGraphForBatch(), the removed files.
GraphBegins ==
    LET known == index[job.id].extractions IN
    /\ job.pc = "vectors"
    /\ job.todo = {}
    /\ index' = [index EXCEPT ![job.id].extractions = Holds(known, job.batch.removed)]
    /\ job' = [job EXCEPT !.pc = "graph", !.todo = job.batch.added \cup job.batch.changed,
                          !.changed = \E f \in job.batch.removed : known[f] # Absent]
    /\ UNCHANGED <<fileVars, entry, chain, storedVars, historyVars, count, faults>>

\* (mutant) Symbols of a file that had none do not count as a change of the graph.
ExtractSymbolsUnnoticed(f) ==
    LET symbols == IF disk[f] \in Versions THEN disk[f] ELSE Absent IN
    /\ job.pc = "graph"
    /\ f \in job.todo
    /\ index' = [index EXCEPT ![job.id].extractions[f] = symbols]
    /\ job' = [job EXCEPT !.todo = @ \ {f},
                          !.changed = @ \/ index[job.id].extractions[f] # Absent]
    /\ UNCHANGED <<fileVars, entry, chain, storedVars, historyVars, count, faults>>

\* updateGraphForBatch(), the next file. Nobody else sees the extractions, so reading
\* the file and keeping its symbols are one step.
ExtractSymbols(f) ==
    LET symbols == IF disk[f] \in Versions THEN disk[f] ELSE Absent IN
    /\ job.pc = "graph"
    /\ f \in job.todo
    /\ index' = [index EXCEPT ![job.id].extractions[f] = symbols]
    /\ job' = [job EXCEPT !.todo = @ \ {f},
                          !.changed = @ \/ index[job.id].extractions[f] # Absent
                                        \/ symbols # Absent]
    /\ UNCHANGED <<fileVars, entry, chain, storedVars, historyVars, count, faults>>

ExtractionFails(f) ==
    /\ Fault
    /\ job.pc = "graph"
    /\ f \in job.todo
    /\ disk[f] \in Versions
    /\ job' = [job EXCEPT !.todo = @ \ {f}]
    /\ missed' = [missed EXCEPT !.symbols = @ \cup {f}]
    /\ UNCHANGED <<fileVars, index, entry, chain, storedVars, drawn, count>>

\* persistWorkspaceGraph(): the graph becomes what this index has read, if that changed.
\* The index need not be listed any more.
BatchEnds ==
    LET known == index[job.id].extractions IN
    /\ job.pc = "graph"
    /\ job.todo = {}
    /\ job' = NoJob
    /\ graph' = IF job.changed THEN known ELSE graph
    /\ IF job.changed /\ job.id # entry
       THEN missed' = [missed EXCEPT !.symbols = Files] /\ UNCHANGED drawn
       ELSE /\ drawn' = IF job.changed THEN drawn \cup {f \in Files : known[f] # Absent}
                        ELSE drawn
            /\ UNCHANGED missed
    /\ UNCHANGED <<fileVars, index, entry, chain, vectors, count, faults>>

\* The rebuild fails, or the database is not there: the stored graph stays, and is no
\* longer what any index has read.
GraphNotStored ==
    /\ Fault
    /\ job.pc = "graph"
    /\ job.todo = {}
    /\ job.changed
    /\ job' = NoJob
    /\ missed' = [missed EXCEPT !.symbols = Files]
    /\ drawn' = {}
    /\ UNCHANGED <<fileVars, index, entry, chain, storedVars, count>>

-----------------------------------------------------------------------------
(* The switch                                                              *)

Free  == {i \in IndexIds : index[i].at = "gone" /\ job.id # i}

Switching == \E i \in IndexIds : index[i].at \in {"starting", "stopping"}

\* ensureIndex(), up to the wait for the watcher: only a listed index is looked for.
EnsureIndex ==
    IF entry # NoOne
    THEN UNCHANGED <<index, faults>>
    ELSE \/ /\ Free # {}
            /\ index' = [index EXCEPT ![CHOOSE i \in Free : TRUE] =
                            [NoIndex EXCEPT !.at = "starting", !.watch = TRUE, !.open = TRUE]]
            /\ UNCHANGED faults
         \/ /\ Fault
            /\ UNCHANGED index

\* ensureIndex(), the rest: the index is listed, in the place of another if need be. When
\* its watcher could not be started it is listed without.
Listed(i, watch) ==
    /\ index[i].at = "starting"
    /\ index' = [index EXCEPT ![i].at = "live", ![i].watch = watch]
    /\ entry' = i
    /\ drawn' = {}
    /\ missed' = [rows    |-> missed.rows \cup (IF watch THEN {} ELSE Named(index[i].pending)),
                  symbols |-> Files]
    /\ UNCHANGED <<fileVars, chain, job, storedVars, count>>

WatcherReady(i) == Listed(i, TRUE) /\ UNCHANGED faults

WatcherFails(i) == Fault /\ Listed(i, FALSE)

Switch(on) ==
    /\ running
    /\ count.switches < MaxSwitches
    /\ count' = [count EXCEPT !.switches = @ + 1]
    /\ enabled' = on
    /\ UNCHANGED <<disk, running, chain, job, storedVars>>

\* workspaces:create or workspaces:set-rag-enabled; also of a workspace that is on.
Enable ==
    /\ Switch(TRUE)
    /\ EnsureIndex
    /\ UNCHANGED <<entry, missed, drawn>>

\* workspaces:set-rag-enabled, and removeWorkspace() up to the end of the watcher, whose
\* pending changes go. Without a watcher to wait for, the store is closed at once.
Disable ==
    /\ Switch(FALSE)
    /\ IF entry = NoOne
       THEN UNCHANGED <<index, entry, missed>>
       ELSE /\ MissedToo(Named(index[entry].pending))
            /\ IF index[entry].watch
               THEN /\ index' = [index EXCEPT ![entry] = [@ EXCEPT !.at = "stopping",
                                    !.watch = FALSE, !.pending = NoBatch]]
                    /\ UNCHANGED entry
               ELSE /\ index' = [index EXCEPT ![entry].open = FALSE,
                                    ![entry].at = IF @ = "live" THEN "gone" ELSE @]
                    /\ entry' = NoOne
    /\ UNCHANGED <<drawn, faults>>

\* removeWorkspace(), the rest: whichever index is listed by now is taken off.
WatcherStopped(i) ==
    /\ index[i].at = "stopping"
    /\ index' = [index EXCEPT ![i].at = "gone", ![i].open = FALSE]
    /\ entry' = NoOne
    /\ UNCHANGED <<fileVars, chain, job, storedVars, historyVars, count, faults>>

-----------------------------------------------------------------------------
(* The process ends and starts                                             *)

Queued == (UNION {Named(chain[n]) : n \in DOMAIN chain})
          \cup (UNION {Named(index[i].pending) : i \in IndexIds}) \cup Named(job.batch)

IndexQuits ==
    /\ running
    /\ count.quits < MaxRestarts
    /\ count' = [count EXCEPT !.quits = @ + 1]
    /\ running' = FALSE
    /\ MissedToo(Queued)
    /\ index' = [i \in IndexIds |-> NoIndex]
    /\ entry' = NoOne
    /\ chain' = <<>>
    /\ job' = NoJob
    /\ UNCHANGED <<disk, enabled, storedVars, drawn, faults>>

\* start(), with the workspaces as they are stored.
Boot ==
    /\ ~running
    /\ running' = TRUE
    /\ IF enabled THEN EnsureIndex ELSE UNCHANGED <<index, faults>>
    /\ UNCHANGED <<disk, enabled, entry, chain, job, storedVars, missed, drawn, count>>

-----------------------------------------------------------------------------

IndexNext ==
    \/ \E f \in Files :
          \/ \E bytes \in Bytes : Change(f, bytes)
          \/ ReadFile(f)
          \/ ExtractSymbols(f)
          \/ ExtractionFails(f)
    \/ \E i \in IndexIds : Flush(i) \/ WatcherReady(i) \/ WatcherFails(i) \/ WatcherStopped(i)
    \/ BatchBegins
    \/ Embedded
    \/ EmbedFails
    \/ GraphBegins
    \/ BatchEnds
    \/ GraphNotStored
    \/ Enable
    \/ Disable
    \/ IndexQuits
    \/ Boot

IndexSpec == IndexInit /\ [][IndexNext]_indexVars

-----------------------------------------------------------------------------
(* Properties                                                              *)

AtRest ==
    /\ running
    /\ ~Switching
    /\ chain = <<>>
    /\ job.pc = "idle"
    /\ \A i \in IndexIds : index[i].pending = NoBatch

\* However changes, batches, calls of the switch and restarts interleave: when everything
\* has been worked off, the rows of a file whose last change got through are those of
\* what it holds, and of a file that is gone there are none (the chain of onBatch(), the
\* merging of events in queue()). Of what is not indexed old rows may be left.
RowsCurrent ==
    AtRest => \A f \in Files \ missed.rows :
        disk[f] # Unfit => vectors[f] = disk[f]

\* The same for the code graph. What is not indexed may still have the symbols another
\* index, or a rebuild before one that failed, left there: they go with the next rebuild.
GraphCurrent ==
    AtRest => \A f \in Files \ missed.symbols :
        /\ disk[f] \in Versions => graph[f] = disk[f]
        /\ f \in drawn /\ disk[f] \notin Versions => graph[f] = Absent

\* What search and the graph tools answer from is the workspace as it is.
IndexCurrent == RowsCurrent /\ GraphCurrent
=============================================================================
