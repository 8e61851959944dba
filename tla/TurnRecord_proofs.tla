-------------------------- MODULE TurnRecord_proofs --------------------------
(* Proofs about what a turn leaves behind: the end it reports, its row, its     *)
(* captures, and what the boot makes of it. They rest on ChatRunner_proofs.     *)
EXTENDS ChatRunner_proofs

-----------------------------------------------------------------------------
(* The inductive invariant                                                 *)

\* Between the grant and the run of a mutating tool its capture has been
\* attempted, or an abort is set, which the start of the tool will see.
CaptureMade(s) ==
    phase[s] \in {"capture", "dispatch", "execute"} /\ Call(s) \in Mutating =>
        turn[s].captured \/ (phase[s] = "dispatch" /\ aborted[s])

\* Which terminal events the sink has had, by where the stream is.
WireKnown(s) ==
    /\ phase[s] \in LivePhases \cup {"idle"} =>
          wire[s] = IF phase[s] = "settled" /\ turn[s].failed THEN "error" ELSE "open"
    /\ phase[s] = "ended" => wire[s] \in {"error", "done", "error-done"}
    /\ wire[s] # "garbled"
    /\ phase[s] = "streaming" => ~turn[s].failed /\ ~turn[s].retry
    /\ phase[s] = "settled" => ~turn[s].failed \/ ~turn[s].retry
    /\ phase[s] = "backoff" => ~turn[s].failed

\* Calls without a result are those of the batch that are still to be answered.
BlocksBalanced(s) ==
    /\ phase[s] \in CallPhases =>
          blocks[s].uses = blocks[s].results + (Len(turn[s].calls) - turn[s].pos) + 1
    /\ phase[s] \notin CallPhases \cup {"lost"} => blocks[s].uses = blocks[s].results
    /\ blocks[s].results <= blocks[s].uses

Prefix(saved, transcript) ==
    /\ saved.results <= saved.uses
    /\ saved.uses <= transcript.uses
    /\ saved.results <= transcript.results

\* The row of a stream that has not begun, has ended, or was cut off.
RowSettled(s) ==
    /\ phase[s] = "idle" => row[s] = NoRow
    /\ phase[s] = "ended" =>
          /\ timer[s] = "idle"
          /\ ~StorageFaults => row[s] \in {NoRow, [status |-> "final", saved |-> blocks[s]]}
    /\ phase[s] = "lost" => timer[s] = "idle" /\ (up => row[s].status # "streaming")

StreamRecord(s) ==
    /\ CaptureMade(s)
    /\ WireKnown(s)
    /\ BlocksBalanced(s)
    /\ Prefix(row[s].saved, blocks[s])
    /\ RowSettled(s)

\* A process that is down runs no stream, and only turns that were cut, or could
\* not be written, are announced.
BootRecord ==
    /\ ~up => \A s \in Streams : ~Live(s)
    /\ \A s \in interrupted \cup surfaced :
          phase[s] = "lost" \/ (StorageFaults /\ phase[s] = "ended")

RecordInv == ControlInv /\ (\A s \in Streams : StreamRecord(s)) /\ BootRecord

LEMMA InitRecord == Init => RecordInv
<1> SUFFICES ASSUME Init PROVE RecordInv
  OBVIOUS
<1>1. ASSUME NEW s \in Streams PROVE StreamRecord(s)
  BY DEF Init, StreamRecord, CaptureMade, WireKnown, BlocksBalanced, Prefix, RowSettled,
         EmptyTranscript, NoRow, NewTurn, CallPhases, LivePhases
<1>2. BootRecord
  BY DEF Init, BootRecord, Live, LivePhases
<1> QED BY <1>1, <1>2, InitControl DEF RecordInv

-----------------------------------------------------------------------------
(* Frames                                                                  *)

\* A step of stream s leaves what the others have recorded.
OthersKept(s) ==
    \A x \in Streams \ {s} :
        /\ phase'[x] = phase[x]
        /\ turn'[x] = turn[x]
        /\ aborted'[x] = aborted[x]
        /\ wire'[x] = wire[x]
        /\ blocks'[x] = blocks[x]
        /\ row'[x] = row[x]
        /\ timer'[x] = timer[x]

LEMMA RecordKept ==
  ASSUME RecordInv, ControlInv', NEW s \in Streams, OthersKept(s), StreamRecord(s)',
         UNCHANGED bootVars,
         phase'[s] \in LivePhases => up,
         phase[s] \in {"ended", "lost"} => phase'[s] = phase[s]
  PROVE  RecordInv'
<1>1. ASSUME NEW x \in Streams \ {s} PROVE StreamRecord(x)'
  <2>1. StreamRecord(x)
    BY DEF RecordInv
  <2>2. /\ phase'[x] = phase[x] /\ turn'[x] = turn[x] /\ aborted'[x] = aborted[x]
        /\ wire'[x] = wire[x] /\ blocks'[x] = blocks[x] /\ row'[x] = row[x]
        /\ timer'[x] = timer[x] /\ up' = up
    BY DEF OthersKept, bootVars
  <2>3. CaptureMade(x)'
    BY <2>1, <2>2 DEF StreamRecord, CaptureMade, Call
  <2>4. WireKnown(x)'
    BY <2>1, <2>2 DEF StreamRecord, WireKnown
  <2>5. BlocksBalanced(x)' /\ Prefix(row'[x].saved, blocks'[x])
    BY <2>1, <2>2 DEF StreamRecord, BlocksBalanced
  <2>6. RowSettled(x)'
    BY <2>1, <2>2 DEF StreamRecord, RowSettled
  <2> QED BY <2>3, <2>4, <2>5, <2>6 DEF StreamRecord
<1>2. BootRecord'
  <2>1. interrupted \cup surfaced \subseteq Streams
    BY DEF RecordInv, ControlInv, TypeOK, BootTypeOK
  <2> QED BY <2>1 DEF RecordInv, BootRecord, OthersKept, Live, bootVars
<1> QED BY <1>1, <1>2 DEF RecordInv

\* What the record needs to know of the types.
LEMMA RecordTypes ==
  ASSUME ControlInv, NEW s \in Streams
  PROVE  /\ turn[s] \in Turn
         /\ Len(turn[s].calls) \in Nat
         /\ blocks[s] \in Transcript
         /\ row[s] \in Row
         /\ blocks[s].uses \in Nat /\ blocks[s].results \in Nat
         /\ row[s].saved.uses \in Nat /\ row[s].saved.results \in Nat
<1>1. turn[s] \in Turn /\ blocks[s] \in Transcript /\ row[s] \in Row
  BY DEF ControlInv, TypeOK, RunnerTypeOK
<1>2. Len(turn[s].calls) \in Nat
  BY <1>1 DEF Turn
<1>3. row[s].saved \in Transcript
  BY <1>1 DEF Row
<1> QED BY <1>1, <1>2, <1>3 DEF Transcript

\* A stream that moves is in a process that is up.
LEMMA LiveIsUp ==
  ASSUME RecordInv, NEW s \in Streams, phase[s] \in LivePhases
  PROVE  up = TRUE
  BY DEF RecordInv, BootRecord, Live, ControlInv, TypeOK, BootTypeOK

LEMMA WholePrefix ==
  ASSUME NEW transcript \in Transcript, transcript.results <= transcript.uses
  PROVE  Prefix(transcript, transcript)
  BY DEF Prefix, Transcript

\* A write that keeps a prefix, whether it succeeds or fails.
LEMMA WrittenPrefix ==
  ASSUME NEW old, NEW r, NEW transcript \in Transcript, Prefix(old.saved, transcript),
         Prefix(r.saved, transcript), NEW new \in Written(old, r)
  PROVE  Prefix(new.saved, transcript)
<1>1. Prefix(NoRow.saved, transcript)
  BY DEF NoRow, EmptyTranscript, Prefix, Transcript
<1> QED BY <1>1 DEF Written

LEMMA SavedPrefix ==
  ASSUME ControlInv, NEW s \in Streams, NEW transcript \in Transcript,
         Prefix(row[s].saved, transcript), transcript.results <= transcript.uses,
         NEW new \in Saved(s, transcript)
  PROVE  Prefix(new.saved, transcript)
<1> DEFINE r == [row[s] EXCEPT !.saved = transcript]
<1>1. r.saved = transcript
  BY RecordTypes DEF Row
<1>2. Prefix(r.saved, transcript)
  BY <1>1 DEF Prefix, Transcript
<1> HIDE DEF r
<1> QED BY <1>2, WrittenPrefix DEF Saved, r

\* checkpoint() leaves a prefix.
LEMMA CheckpointPrefix ==
  ASSUME ControlInv, NEW s \in Streams, NEW transcript \in Transcript,
         Prefix(row[s].saved, transcript), transcript.results <= transcript.uses,
         Checkpoint(s, transcript)
  PROVE  /\ Prefix(row'[s].saved, transcript)
         /\ \A x \in Streams \ {s} : row'[x] = row[x] /\ timer'[x] = timer[x]
<1>1. row \in [Streams -> Row] /\ timer \in [Streams -> {"idle", "open", "trailing"}]
  BY DEF ControlInv, TypeOK, RunnerTypeOK
<1>2. CASE timer[s] = "idle"
  <2>1. PICK r \in Saved(s, transcript) : row' = [row EXCEPT ![s] = r]
    BY <1>2 DEF Checkpoint
  <2>2. Prefix(r.saved, transcript)
    BY <2>1, SavedPrefix
  <2> QED BY <1>1, <1>2, <2>1, <2>2 DEF Checkpoint
<1>3. CASE timer[s] # "idle"
  BY <1>1, <1>3 DEF Checkpoint
<1> QED BY <1>2, <1>3

-----------------------------------------------------------------------------
(* Every action keeps the record                                           *)

\* The end of a turn: its last write, and the end it reports.
LEMMA FinishRecord ==
  ASSUME RecordInv, ControlInv', NEW s \in Streams, phase[s] \in LivePhases \ CallPhases,
         NEW latest \in Row, Prefix(latest.saved, blocks[s]), Finish(s, latest),
         NEW w \in {"error", "done", "error-done"}, wire' = [wire EXCEPT ![s] = w]
  PROVE  RecordInv'
<1>1. /\ phase \in [Streams -> Phases]
      /\ turn \in [Streams -> Turn]
      /\ wire \in [Streams -> Wires]
      /\ row \in [Streams -> Row]
      /\ timer \in [Streams -> {"idle", "open", "trailing"}]
  BY DEF RecordInv, ControlInv, TypeOK, RunnerTypeOK
<1>2. /\ phase'[s] = "ended"
      /\ timer'[s] = "idle"
      /\ wire'[s] = w
      /\ aborted' = aborted /\ blocks' = blocks /\ UNCHANGED bootVars
  BY <1>1 DEF Finish, Goto
<1> DEFINE final == [status |-> "final", saved |-> blocks[s]]
<1>3. PICK r \in Written(latest, final) : row' = [row EXCEPT ![s] = r]
  BY DEF Finish
<1>4. OthersKept(s)
  BY <1>1, <1>2, <1>3 DEF OthersKept, Finish, Goto
<1>5. /\ blocks[s].uses = blocks[s].results /\ blocks[s] \in Transcript
      /\ blocks[s].results <= blocks[s].uses
  BY RecordTypes DEF RecordInv, StreamRecord, BlocksBalanced, LivePhases, CallPhases
<1>6. Prefix(row'[s].saved, blocks[s])
  <2>1. Prefix(final.saved, blocks[s])
    BY <1>5, WholePrefix
  <2> HIDE DEF final
  <2>2. Prefix(r.saved, blocks[s])
    BY <1>5, <2>1, WrittenPrefix
  <2> QED BY <1>1, <1>3, <2>2
<1>7. ~StorageFaults => row'[s] \in {NoRow, final}
  BY <1>1, <1>3 DEF Written
<1>8. StreamRecord(s)'
  <2>1. CaptureMade(s)' /\ WireKnown(s)'
    BY <1>2 DEF CaptureMade, WireKnown, LivePhases
  <2>2. BlocksBalanced(s)'
    BY <1>2, <1>5 DEF BlocksBalanced, CallPhases
  <2>3. RowSettled(s)'
    BY <1>2, <1>7 DEF RowSettled
  <2> QED BY <1>2, <1>6, <2>1, <2>2, <2>3 DEF StreamRecord
<1> QED BY <1>2, <1>4, <1>8, RecordKept DEF LivePhases

LEMMA EndTurnRecord ==
  ASSUME RecordInv, ControlInv', NEW s \in Streams, phase[s] \in LivePhases \ CallPhases,
         NEW w \in {"error", "done", "error-done"}, EndTurn(s, w)
  PROVE  RecordInv'
<1>1. row[s] \in Row /\ Prefix(row[s].saved, blocks[s])
  BY RecordTypes DEF RecordInv, StreamRecord
<1> QED BY <1>1, FinishRecord DEF EndTurn

LEMMA EndingRecord ==
  ASSUME RecordInv, NEW s \in Streams,
         \/ BudgetRefuses(s)
         \/ IterationsExhausted(s)
         \/ ProviderThrows(s)
         \/ CancelSeen(s)
         \/ GiveUp(s)
         \/ ErrorEndsTurn(s)
         \/ CompleteTurn(s)
  PROVE  RecordInv'
<1>1. ControlInv'
  BY EndingControl DEF RecordInv
<1>2. phase[s] \in {"attempt", "streaming", "settled"}
  BY DEF BudgetRefuses, IterationsExhausted, ProviderThrows, CancelSeen, GiveUp, ErrorEndsTurn,
         CompleteTurn
<1>3. phase[s] \in LivePhases \ CallPhases
  BY <1>2 DEF LivePhases, CallPhases
<1>4. WireKnown(s)
  BY DEF RecordInv, StreamRecord
<1>5. CASE BudgetRefuses(s) \/ ProviderThrows(s)
  <2>1. wire[s] = "open"
    BY <1>4, <1>5 DEF WireKnown, LivePhases, BudgetRefuses, ProviderThrows
  <2>2. EndTurn(s, "error")
    BY <1>5, <2>1 DEF BudgetRefuses, ProviderThrows, Throws, Emit
  <2> QED BY <1>1, <1>3, <2>2, EndTurnRecord
<1>6. CASE IterationsExhausted(s)
  <2>1. wire[s] = "open"
    BY <1>4, <1>6 DEF WireKnown, LivePhases, IterationsExhausted
  <2>2. EndTurn(s, "error")
    BY <1>6, <2>1 DEF IterationsExhausted, Emit
  <2> QED BY <1>1, <1>3, <2>2, EndTurnRecord
<1>7. CASE CancelSeen(s)
  <2>1. PICK r \in (IF timer[s] = "idle" THEN Saved(s, blocks[s]) ELSE {row[s]}) : Finish(s, r)
    BY <1>7 DEF CancelSeen
  <2>2. /\ Prefix(row[s].saved, blocks[s])
        /\ blocks[s].results <= blocks[s].uses
        /\ row[s] \in Row /\ blocks[s] \in Transcript
    BY RecordTypes DEF RecordInv, StreamRecord, BlocksBalanced
  <2>3. r \in Row
    <3>1. [row[s] EXCEPT !.saved = blocks[s]] \in Row
      BY <2>2 DEF Row
    <3> QED BY <2>1, <2>2, <3>1, WrittenType DEF Saved
  <2>4. Prefix(r.saved, blocks[s])
    BY <2>1, <2>2, SavedPrefix DEF RecordInv
  <2>5. wire[s] \in {"open", "error"}
    BY <1>3, <1>4 DEF WireKnown
  <2> DEFINE w == IF wire[s] = "open" THEN "done" ELSE wire[s]
  <2>6. wire' = [wire EXCEPT ![s] = w]
    BY <1>7 DEF CancelSeen, Emit
  <2>7. w \in {"error", "done", "error-done"}
    BY <2>5
  <2> HIDE DEF w
  <2> QED BY <1>1, <1>3, <2>1, <2>3, <2>4, <2>6, <2>7, FinishRecord
<1>8. CASE GiveUp(s)
  <2>1. wire[s] = "open"
    BY <1>4, <1>8 DEF WireKnown, LivePhases, GiveUp
  <2>2. EndTurn(s, "error-done")
    BY <1>8, <2>1 DEF GiveUp, Emit
  <2> QED BY <1>1, <1>3, <2>2, EndTurnRecord
<1>9. CASE ErrorEndsTurn(s)
  <2>1. wire[s] = "error"
    BY <1>4, <1>9 DEF WireKnown, LivePhases, ErrorEndsTurn
  <2>2. EndTurn(s, "error-done")
    BY <1>9, <2>1 DEF ErrorEndsTurn, Emit
  <2> QED BY <1>1, <1>3, <2>2, EndTurnRecord
<1>10. CASE CompleteTurn(s)
  <2>1. wire[s] = "open"
    BY <1>4, <1>10 DEF WireKnown, LivePhases, CompleteTurn
  <2>2. EndTurn(s, "done")
    BY <1>10, <2>1 DEF CompleteTurn, Emit
  <2> QED BY <1>1, <1>3, <2>2, EndTurnRecord
<1> QED BY <1>5, <1>6, <1>7, <1>8, <1>9, <1>10

\* A call is answered: its result joins the transcript, and the batch is one shorter.
LEMMA FinishCallRecord ==
  ASSUME RecordInv, ControlInv', NEW s \in Streams, phase[s] \in CallPhases,
         NEW tool, NEW decision, NEW ran, FinishCall(s, tool, decision, ran),
         \A x \in Streams \ {s} : aborted'[x] = aborted[x]
  PROVE  RecordInv'
<1> DEFINE after == [blocks[s] EXCEPT !.results = @ + 1]
           last  == turn[s].pos = Len(turn[s].calls)
<1>1. /\ phase \in [Streams -> Phases]
      /\ turn \in [Streams -> Turn]
      /\ wire \in [Streams -> Wires]
      /\ blocks \in [Streams -> Transcript]
      /\ turn[s] \in Turn /\ blocks[s] \in Transcript
      /\ blocks[s].uses \in Nat /\ blocks[s].results \in Nat
      /\ Len(turn[s].calls) \in Nat
  BY RecordTypes DEF RecordInv, ControlInv, TypeOK, RunnerTypeOK
<1>2. turn[s].pos \in 1 .. Len(turn[s].calls)
  BY DEF RecordInv, ControlInv, LoopInRange
<1>3. blocks[s].uses = blocks[s].results + (Len(turn[s].calls) - turn[s].pos) + 1
  BY DEF RecordInv, StreamRecord, BlocksBalanced
<1>4. /\ after \in Transcript
      /\ after.uses = blocks[s].uses
      /\ after.results = blocks[s].results + 1
      /\ after.results <= after.uses
  BY <1>1, <1>2, <1>3 DEF Transcript
<1>5. Prefix(row[s].saved, after)
  <2>1. Prefix(row[s].saved, blocks[s])
    BY DEF RecordInv, StreamRecord
  <2>2. row[s].saved.uses \in Nat /\ row[s].saved.results \in Nat
    BY RecordTypes DEF RecordInv
  <2> QED BY <1>1, <1>4, <2>1, <2>2 DEF Prefix
<1>6. Checkpoint(s, after) /\ blocks' = [blocks EXCEPT ![s] = after]
  BY DEF FinishCall
<1> HIDE DEF after
<1>7. /\ Prefix(row'[s].saved, after)
      /\ \A x \in Streams \ {s} : row'[x] = row[x] /\ timer'[x] = timer[x]
  BY <1>4, <1>5, <1>6, CheckpointPrefix DEF RecordInv
<1>8. blocks'[s] = after
  BY <1>1, <1>6
<1>9. OthersKept(s) /\ UNCHANGED bootVars
  BY <1>1, <1>6, <1>7 DEF OthersKept, FinishCall, Goto, Send
<1>10. /\ phase'[s] = IF last THEN "attempt" ELSE "call"
       /\ ~last => turn'[s].pos = turn[s].pos + 1 /\ turn'[s].calls = turn[s].calls
  BY <1>1 DEF FinishCall, Goto, Turn
<1>11. wire'[s] = "open"
  <2>1. wire[s] = "open"
    BY DEF RecordInv, StreamRecord, WireKnown, CallPhases, LivePhases
  <2> QED BY <1>1, <2>1 DEF FinishCall, Send, Emit
<1>12. CaptureMade(s)' /\ WireKnown(s)' /\ RowSettled(s)'
  BY <1>10, <1>11 DEF CaptureMade, WireKnown, RowSettled
<1>13. BlocksBalanced(s)'
  <2> DEFINE p == turn[s].pos
             n == Len(turn[s].calls)
  <2>1. p \in 1 .. n /\ n \in Nat /\ blocks[s].results \in Nat
    BY <1>1, <1>2
  <2>2. after.uses = blocks[s].results + (n - p) + 1 /\ after.results = blocks[s].results + 1
    BY <1>3, <1>4
  <2>3. last <=> p = n
    OBVIOUS
  <2>4. ~last => turn'[s].pos = p + 1 /\ Len(turn'[s].calls) = n
    BY <1>10
  <2>5. phase'[s] = IF last THEN "attempt" ELSE "call"
    BY <1>10
  <2> HIDE DEF last, p, n
  <2>6. last => after.uses = after.results
    BY <2>1, <2>2, <2>3
  <2>7. ~last => after.uses = after.results + (n - (p + 1)) + 1
    BY <2>1, <2>2
  <2> QED BY <1>4, <1>8, <2>4, <2>5, <2>6, <2>7 DEF BlocksBalanced, CallPhases
<1>14. up
  BY LiveIsUp DEF CallPhases, LivePhases
<1> QED
  BY <1>7, <1>8, <1>9, <1>12, <1>13, <1>14, RecordKept DEF StreamRecord, CallPhases

\* A grant: a capture is owed, made, or cut short by an abort.
LEMMA GrantedRecord ==
  ASSUME RecordInv, ControlInv', NEW s \in Streams, phase[s] \in {"call", "prompt"},
         NEW g, Granted(s, g, aborted[s]), aborted' = aborted
  PROVE  RecordInv'
<1>1. phase \in [Streams -> Phases] /\ turn \in [Streams -> Turn] /\ turn[s] \in Turn
  BY DEF RecordInv, ControlInv, TypeOK, RunnerTypeOK
<1> DEFINE captures == Call(s) \in Mutating /\ ~aborted[s]
<1>2. /\ phase'[s] = IF captures THEN "capture" ELSE "dispatch"
      /\ turn'[s].captured = captures
      /\ turn'[s].calls = turn[s].calls
      /\ turn'[s].pos = turn[s].pos
  BY <1>1 DEF Granted, Goto, Turn
<1>3. UNCHANGED <<wire, blocks, row, timer>> /\ UNCHANGED bootVars
  BY DEF Granted
<1>4. OthersKept(s)
  BY <1>1, <1>3 DEF OthersKept, Granted, Goto
<1>5. StreamRecord(s)
  BY DEF RecordInv
<1>6. CaptureMade(s)'
  BY <1>2 DEF CaptureMade, Call
<1>7. WireKnown(s)'
  BY <1>2, <1>3, <1>5 DEF StreamRecord, WireKnown, LivePhases
<1>8. BlocksBalanced(s)' /\ RowSettled(s)' /\ Prefix(row'[s].saved, blocks'[s])
  BY <1>2, <1>3, <1>5 DEF StreamRecord, BlocksBalanced, RowSettled, CallPhases
<1>9. up
  BY LiveIsUp DEF LivePhases
<1> QED BY <1>3, <1>4, <1>6, <1>7, <1>8, <1>9, RecordKept DEF StreamRecord

LEMMA CallingRecord ==
  ASSUME RecordInv, NEW s \in Streams,
         \/ UnknownTool(s) \/ RefusedUnasked(s) \/ ToolCancelled(s) \/ ToolSettles(s)
         \/ ReadTool(s) \/ ApprovedUnasked(s)
  PROVE  RecordInv'
<1>1. ControlInv'
  BY SettlingControl, UnaskedControl DEF RecordInv
<1>2. aborted' = aborted
  BY DEF UnknownTool, RefusedUnasked, ToolCancelled, ToolSettles, ReadTool, ApprovedUnasked
<1>3. CASE UnknownTool(s) \/ RefusedUnasked(s) \/ ToolCancelled(s) \/ ToolSettles(s)
  BY <1>1, <1>2, <1>3, FinishCallRecord
  DEF UnknownTool, RefusedUnasked, ToolCancelled, ToolSettles, Denied, NeedsApproval, CallPhases
<1>4. CASE ReadTool(s) \/ ApprovedUnasked(s)
  BY <1>1, <1>2, <1>4, GrantedRecord DEF ReadTool, ApprovedUnasked, NeedsApproval
<1> QED BY <1>3, <1>4

LEMMA AskRecord ==
  ASSUME RecordInv, NEW s \in Streams, AskUser(s)
  PROVE  RecordInv'
<1>1. ControlInv'
  BY AskControl DEF RecordInv
<1>2. phase \in [Streams -> Phases]
  BY DEF RecordInv, ControlInv, TypeOK, RunnerTypeOK
<1>3. /\ phase[s] = "call" /\ phase'[s] = "prompt"
      /\ UNCHANGED <<aborted, turn, wire, blocks, row, timer>> /\ UNCHANGED bootVars
  BY <1>2 DEF AskUser, NeedsApproval, Goto
<1>4. OthersKept(s)
  BY <1>2, <1>3 DEF OthersKept, AskUser, Goto
<1>5. StreamRecord(s)
  BY DEF RecordInv
<1>6. CaptureMade(s)' /\ WireKnown(s)'
  BY <1>3, <1>5 DEF StreamRecord, CaptureMade, WireKnown, LivePhases
<1>7. BlocksBalanced(s)' /\ RowSettled(s)' /\ Prefix(row'[s].saved, blocks'[s])
  BY <1>3, <1>5 DEF StreamRecord, BlocksBalanced, RowSettled, CallPhases
<1>8. up
  BY <1>3, LiveIsUp DEF LivePhases
<1> QED BY <1>1, <1>3, <1>4, <1>6, <1>7, <1>8, RecordKept DEF StreamRecord

\* An abort moves only a stream that waits for an answer.
LEMMA CancelRecord ==
  ASSUME RecordInv, NEW s \in Streams, CancelChatStream(s)
  PROVE  RecordInv'
<1>1. ControlInv'
  BY CancelControl DEF RecordInv
<1>2. aborted \in [Streams -> BOOLEAN]
  BY DEF RecordInv, ControlInv, TypeOK, RunnerTypeOK
<1>3. aborted' = [aborted EXCEPT ![s] = TRUE]
  BY DEF CancelChatStream
<1>4. CASE phase[s] = "prompt"
  <2>1. Denied(s)
    BY <1>4 DEF CancelChatStream
  <2> QED BY <1>1, <1>2, <1>3, <1>4, <2>1, FinishCallRecord DEF Denied, CallPhases
<1>5. CASE phase[s] # "prompt"
  <2>1. UNCHANGED <<phase, turn, wire, blocks, row, timer>> /\ UNCHANGED bootVars
    BY <1>5 DEF CancelChatStream
  <2>2. OthersKept(s)
    BY <1>2, <1>3, <2>1 DEF OthersKept
  <2>3. StreamRecord(s)
    BY DEF RecordInv
  <2>4. CaptureMade(s)'
    BY <1>2, <1>3, <2>1, <2>3 DEF StreamRecord, CaptureMade, Call
  <2>5. WireKnown(s)'
    BY <2>1, <2>3 DEF StreamRecord, WireKnown
  <2>6. BlocksBalanced(s)' /\ RowSettled(s)' /\ Prefix(row'[s].saved, blocks'[s])
    BY <2>1, <2>3 DEF StreamRecord, BlocksBalanced, RowSettled, bootVars
  <2>7. up
    BY DEF CancelChatStream
  <2> QED BY <1>1, <2>1, <2>2, <2>4, <2>5, <2>6, <2>7, RecordKept DEF StreamRecord
<1> QED BY <1>4, <1>5

LEMMA AnswerRecord ==
  ASSUME RecordInv, NEW id \in pending, NEW decision \in Decisions, NEW scope \in Scopes,
         NEW partial \in BOOLEAN, AnswerPrompt(id, decision, scope, partial)
  PROVE  RecordInv'
<1> DEFINE s == asked[id].stream
<1>1. s \in Streams
  BY RequestType DEF RecordInv, ControlInv
<1>2. phase[s] = "prompt"
  BY DEF RecordInv, ControlInv, PromptsMatchRequests
<1>3. ControlInv'
  BY AnswerControl DEF RecordInv
<1>4. aborted' = aborted /\ Answered(s, decision, scope, partial)
  BY DEF AnswerPrompt
<1> HIDE DEF s
<1>5. Denied(s) \/ \E g : Granted(s, g, aborted[s])
  BY <1>4 DEF Answered
<1> QED
  BY <1>1, <1>2, <1>3, <1>4, <1>5, FinishCallRecord, GrantedRecord DEF Denied, CallPhases

\* The steps of the attempt and of the loop that touch neither transcript nor row.
LEMMA PlainRecord ==
  ASSUME RecordInv, ControlInv', NEW s \in Streams,
         \/ RunStream(s)
         \/ BeginAttempt(s)
         \/ \E t \in Tools : ProviderToolCall(s, t)
         \/ \E reason \in StopReasons : ProviderDone(s, reason)
         \/ \E retryable \in BOOLEAN : ProviderError(s, retryable)
         \/ ProviderCutOff(s)
         \/ ScheduleRetry(s)
         \/ WakeFromBackoff(s)
         \/ Captured(s)
         \/ StartTool(s)
  PROVE  RecordInv'
<1>1. /\ phase \in [Streams -> Phases]
      /\ turn \in [Streams -> Turn]
      /\ turn[s] \in Turn
      /\ wire \in [Streams -> Wires]
  BY DEF RecordInv, ControlInv, TypeOK, RunnerTypeOK
<1>2. UNCHANGED <<aborted, blocks, row, timer>> /\ UNCHANGED bootVars
  BY DEF RunStream, BeginAttempt, ProviderToolCall, ProviderDone, ProviderError, ProviderCutOff,
         ScheduleRetry, WakeFromBackoff, Captured, StartTool
<1>3. OthersKept(s)
  BY <1>1, <1>2
  DEF OthersKept, Goto, Send, RunStream, BeginAttempt, ProviderToolCall, ProviderDone,
      ProviderError, ProviderCutOff, ScheduleRetry, WakeFromBackoff, Captured, StartTool
<1>4. StreamRecord(s)
  BY DEF RecordInv
<1>5. CASE Captured(s) \/ StartTool(s)
  <2>1. /\ phase[s] \in {"capture", "dispatch"} /\ phase'[s] \in {"dispatch", "execute"}
        /\ phase[s] = "capture" \/ ~aborted[s]
        /\ UNCHANGED <<turn, wire>>
    BY <1>1, <1>5 DEF Captured, StartTool, Goto
  <2>2. CaptureMade(s)'
    BY <1>4, <2>1 DEF StreamRecord, CaptureMade, Call
  <2>3. WireKnown(s)'
    BY <1>4, <2>1 DEF StreamRecord, WireKnown, LivePhases
  <2>4. BlocksBalanced(s)' /\ RowSettled(s)' /\ Prefix(row'[s].saved, blocks'[s])
    BY <1>2, <1>4, <2>1 DEF StreamRecord, BlocksBalanced, RowSettled, CallPhases
  <2>5. up
    BY <2>1, LiveIsUp DEF LivePhases
  <2> QED BY <1>2, <1>3, <2>1, <2>2, <2>3, <2>4, <2>5, RecordKept DEF StreamRecord
<1>6. CASE ~(Captured(s) \/ StartTool(s))
  <2>1. /\ phase[s] \in {"preparing", "attempt", "streaming", "settled", "backoff"}
        /\ phase'[s] \in {"attempt", "streaming", "settled", "backoff"}
    BY <1>1, <1>6
    DEF Goto, RunStream, BeginAttempt, ProviderToolCall, ProviderDone, ProviderError,
        ProviderCutOff, ScheduleRetry, WakeFromBackoff
  <2>2. CaptureMade(s)'
    BY <2>1 DEF CaptureMade
  <2>3. WireKnown(s)'
    <3>1. WireKnown(s)
      BY <1>4 DEF StreamRecord
    <3>2. CASE RunStream(s) \/ BeginAttempt(s) \/ \E t \in Tools : ProviderToolCall(s, t)
      <4>1. wire'[s] = "open"
        BY <1>1, <3>1, <3>2
        DEF WireKnown, LivePhases, RunStream, BeginAttempt, ProviderToolCall, Send, Emit
      <4>2. CASE RunStream(s)
        BY <1>1, <4>1, <4>2 DEF WireKnown, LivePhases, Goto, RunStream
      <4>3. CASE BeginAttempt(s)
        <5>1. phase'[s] = "streaming" /\ ~turn'[s].failed /\ ~turn'[s].retry
          BY <1>1, <4>3 DEF Goto, BeginAttempt, Turn
        <5> QED BY <4>1, <5>1 DEF WireKnown
      <4>4. ASSUME NEW t \in Tools, ProviderToolCall(s, t) PROVE WireKnown(s)'
        <5>1. phase'[s] = "streaming"
          BY <4>4 DEF ProviderToolCall
        <5>2. turn'[s] = [turn[s] EXCEPT !.calls = Append(@, t)]
          BY <1>1, <4>4 DEF ProviderToolCall
        <5>3. turn'[s].failed = turn[s].failed /\ turn'[s].retry = turn[s].retry
          BY <1>1, <5>2 DEF Turn
        <5>4. ~turn[s].failed /\ ~turn[s].retry
          BY <3>1, <4>4 DEF WireKnown, ProviderToolCall
        <5> QED BY <4>1, <5>1, <5>3, <5>4 DEF WireKnown
      <4> QED BY <3>2, <4>2, <4>3, <4>4
    <3>3. CASE ProviderCutOff(s) \/ \E reason \in StopReasons : ProviderDone(s, reason)
      <4>0. phase[s] = "streaming" /\ wire' = wire /\ phase' = [phase EXCEPT ![s] = "settled"]
        BY <3>3 DEF Goto, ProviderCutOff, ProviderDone
      <4>2. turn' = turn \/ \E reason \in StopReasons : turn' = [turn EXCEPT ![s].stop = reason]
        BY <3>3 DEF ProviderCutOff, ProviderDone
      <4>3. turn'[s].failed = turn[s].failed
        BY <1>1, <4>2 DEF Turn
      <4>4. wire[s] = "open" /\ ~turn[s].failed
        BY <3>1, <4>0 DEF WireKnown, LivePhases
      <4>1. phase'[s] = "settled" /\ wire'[s] = "open" /\ ~turn'[s].failed
        BY <1>1, <4>0, <4>3, <4>4
      <4> QED BY <4>1 DEF WireKnown
    <3>4. ASSUME NEW retryable \in BOOLEAN, ProviderError(s, retryable) PROVE WireKnown(s)'
      <4>1. phase'[s] = "settled"
        BY <1>1, <3>4 DEF Goto, ProviderError
      <4>2. wire[s] = "open" /\ ~turn[s].failed /\ ~turn[s].retry
        BY <3>1, <3>4 DEF WireKnown, LivePhases, ProviderError
      <4>3. CASE turn' = [turn EXCEPT ![s].retry = TRUE] /\ UNCHANGED wire
        <5>1. turn'[s].failed = turn[s].failed
          BY <1>1, <4>3 DEF Turn
        <5> QED BY <4>1, <4>2, <4>3, <5>1 DEF WireKnown
      <4>4. CASE turn' = [turn EXCEPT ![s].failed = TRUE] /\ Send(s, "error")
        <5>1. turn'[s].failed = TRUE /\ turn'[s].retry = turn[s].retry
          BY <1>1, <4>4 DEF Turn
        <5>2. wire'[s] = "error"
          BY <1>1, <4>2, <4>4 DEF Send, Emit
        <5> QED BY <4>1, <4>2, <5>1, <5>2 DEF WireKnown
      <4> QED BY <3>4, <4>3, <4>4 DEF ProviderError
    <3>5. CASE ScheduleRetry(s) \/ WakeFromBackoff(s)
      <4>1. phase'[s] \in {"settled", "backoff", "attempt"} /\ ~turn'[s].failed
        <5>1. CASE ScheduleRetry(s)
          <6>1. phase[s] = "settled" /\ turn[s].retry /\ phase'[s] = "backoff"
            BY <1>1, <5>1 DEF ScheduleRetry, Goto
          <6>2. turn'[s].failed = turn[s].failed
            BY <1>1, <5>1 DEF ScheduleRetry, Turn
          <6> QED BY <3>1, <6>1, <6>2 DEF WireKnown
        <5>2. CASE WakeFromBackoff(s)
          <6>1. phase[s] = "backoff" /\ turn' = turn /\ phase'[s] \in {"settled", "attempt"}
            BY <1>1, <5>2 DEF WakeFromBackoff, Goto
          <6> QED BY <3>1, <6>1 DEF WireKnown
        <5> QED BY <3>5, <5>1, <5>2
      <4>2. wire'[s] = "open"
        BY <3>1, <3>5 DEF WireKnown, LivePhases, ScheduleRetry, WakeFromBackoff
      <4> QED BY <4>1, <4>2 DEF WireKnown
    <3> QED BY <1>6, <3>2, <3>3, <3>4, <3>5
  <2>4. BlocksBalanced(s)' /\ RowSettled(s)' /\ Prefix(row'[s].saved, blocks'[s])
    BY <1>2, <1>4, <2>1 DEF StreamRecord, BlocksBalanced, RowSettled, CallPhases
  <2>5. up
    BY <2>1, LiveIsUp DEF LivePhases
  <2> QED BY <1>2, <1>3, <2>1, <2>2, <2>3, <2>4, <2>5, RecordKept DEF StreamRecord
<1> QED BY <1>5, <1>6

LEMMA StartRecord ==
  ASSUME RecordInv, ControlInv', NEW s \in Streams, StartChatStream(s)
  PROVE  RecordInv'
<1>1. phase \in [Streams -> Phases] /\ row \in [Streams -> Row]
  BY DEF RecordInv, ControlInv, TypeOK, RunnerTypeOK
<1>2. /\ phase[s] = "idle" /\ phase'[s] = "preparing" /\ up
      /\ row'[s].saved = EmptyTranscript
      /\ UNCHANGED <<aborted, turn, wire, blocks, timer>> /\ UNCHANGED bootVars
  BY <1>1 DEF StartChatStream, Goto
<1>3. OthersKept(s)
  BY <1>1, <1>2 DEF OthersKept, StartChatStream, Goto
<1>4. StreamRecord(s)
  BY DEF RecordInv
<1>5. CaptureMade(s)' /\ WireKnown(s)' /\ RowSettled(s)'
  BY <1>2, <1>4 DEF StreamRecord, CaptureMade, WireKnown, RowSettled, LivePhases
<1>6. BlocksBalanced(s)'
  BY <1>2, <1>4 DEF StreamRecord, BlocksBalanced, CallPhases
<1>7. Prefix(row'[s].saved, blocks'[s])
  <2>1. blocks[s].uses \in Nat /\ blocks[s].results \in Nat
    BY RecordTypes DEF RecordInv
  <2>2. EmptyTranscript.uses = 0 /\ EmptyTranscript.results = 0
    BY DEF EmptyTranscript
  <2> HIDE DEF EmptyTranscript
  <2> QED BY <1>2, <2>1, <2>2 DEF Prefix
<1> QED BY <1>2, <1>3, <1>5, <1>6, <1>7, RecordKept DEF StreamRecord

\* The whole batch enters the transcript; the row follows at a later checkpoint.
LEMMA EnterRecord ==
  ASSUME RecordInv, ControlInv', NEW s \in Streams, EnterTools(s)
  PROVE  RecordInv'
<1>1. /\ phase \in [Streams -> Phases] /\ turn \in [Streams -> Turn] /\ turn[s] \in Turn
      /\ blocks \in [Streams -> Transcript] /\ blocks[s] \in Transcript
  BY DEF RecordInv, ControlInv, TypeOK, RunnerTypeOK
<1> DEFINE n == Len(turn[s].calls)
<1>2. /\ phase[s] = "settled" /\ phase'[s] = "call" /\ ~turn[s].failed
      /\ UNCHANGED <<aborted, wire, row, timer>> /\ UNCHANGED bootVars
      /\ turn'[s].pos = 1 /\ Len(turn'[s].calls) = n
  BY <1>1 DEF EnterTools, Goto, Turn
<1>3. OthersKept(s)
  BY <1>1, <1>2 DEF OthersKept, EnterTools, Goto
<1>4. StreamRecord(s)
  BY DEF RecordInv
<1>5. CaptureMade(s)' /\ WireKnown(s)' /\ RowSettled(s)'
  BY <1>2, <1>4 DEF StreamRecord, CaptureMade, WireKnown, RowSettled, LivePhases
<1>6. /\ blocks'[s].uses = blocks[s].uses + n
      /\ blocks'[s].results = blocks[s].results
  BY <1>1 DEF EnterTools, Transcript
<1>7. /\ n \in Nat /\ blocks[s].uses \in Nat /\ blocks[s].results \in Nat
      /\ row[s].saved.uses \in Nat /\ row[s].saved.results \in Nat
  BY RecordTypes DEF RecordInv
<1> HIDE DEF n
<1>8. blocks[s].uses = blocks[s].results
  BY <1>2, <1>4 DEF StreamRecord, BlocksBalanced, CallPhases
<1>9. BlocksBalanced(s)'
  <2>1. /\ blocks'[s].uses = blocks'[s].results + (n - 1) + 1
        /\ blocks'[s].results <= blocks'[s].uses
    BY <1>6, <1>7, <1>8
  <2> QED BY <1>2, <2>1 DEF BlocksBalanced, CallPhases
<1>10. Prefix(row'[s].saved, blocks'[s])
  <2>1. Prefix(row[s].saved, blocks[s]) /\ row'[s] = row[s]
    BY <1>2, <1>4 DEF StreamRecord
  <2> QED BY <1>6, <1>7, <2>1 DEF Prefix
<1>11. up
  BY <1>2, LiveIsUp DEF LivePhases
<1> QED BY <1>2, <1>3, <1>5, <1>9, <1>10, <1>11, RecordKept DEF StreamRecord

\* A text delta and the throttle write the row in the middle of a turn.
LEMMA CheckpointRecord ==
  ASSUME RecordInv, ControlInv', NEW s \in Streams, ProviderText(s) \/ CheckpointTimer(s)
  PROVE  RecordInv'
<1>1. /\ turn \in [Streams -> Turn] /\ turn[s] \in Turn /\ wire \in [Streams -> Wires]
      /\ row \in [Streams -> Row] /\ timer \in [Streams -> {"idle", "open", "trailing"}]
      /\ blocks[s] \in Transcript
  BY DEF RecordInv, ControlInv, TypeOK, RunnerTypeOK
<1>2. StreamRecord(s)
  BY DEF RecordInv
<1>3. Prefix(row[s].saved, blocks[s]) /\ blocks[s].results <= blocks[s].uses
  BY <1>2 DEF StreamRecord, BlocksBalanced
<1>4. UNCHANGED <<phase, aborted, blocks>> /\ UNCHANGED bootVars
  BY DEF ProviderText, CheckpointTimer
<1>5. BlocksBalanced(s)'
  <2>1. turn'[s].calls = turn[s].calls /\ turn'[s].pos = turn[s].pos
    BY <1>1 DEF ProviderText, CheckpointTimer, Turn
  <2> QED BY <1>2, <1>4, <2>1 DEF StreamRecord, BlocksBalanced
<1>6. phase[s] \in LivePhases => up
  BY LiveIsUp
<1>7. CASE ProviderText(s)
  <2>1. /\ Prefix(row'[s].saved, blocks[s])
        /\ \A x \in Streams \ {s} : row'[x] = row[x] /\ timer'[x] = timer[x]
    BY <1>1, <1>3, <1>7, CheckpointPrefix DEF ProviderText, RecordInv
  <2>2. OthersKept(s)
    BY <1>1, <1>4, <1>7, <2>1 DEF OthersKept, ProviderText, Send
  <2>3. phase[s] = "streaming"
    BY <1>7 DEF ProviderText
  <2>4. wire'[s] = "open" /\ ~turn'[s].failed /\ ~turn'[s].retry
    BY <1>1, <1>2, <1>7, <2>3
    DEF StreamRecord, WireKnown, LivePhases, ProviderText, Send, Emit, Turn
  <2>5. CaptureMade(s)' /\ WireKnown(s)' /\ RowSettled(s)'
    BY <1>4, <2>3, <2>4 DEF CaptureMade, WireKnown, RowSettled
  <2> QED
    BY <1>4, <1>5, <1>6, <2>1, <2>2, <2>3, <2>5, RecordKept DEF StreamRecord
<1>8. CASE CheckpointTimer(s)
  <2>1. UNCHANGED <<turn, wire>> /\ timer'[s] = "idle" /\ timer[s] # "idle"
    BY <1>1, <1>8 DEF CheckpointTimer
  <2>2. phase[s] \notin {"ended", "lost"}
    BY <1>2, <2>1 DEF StreamRecord, RowSettled
  <2>3. CASE timer[s] = "trailing"
    <3>1. PICK r \in Saved(s, blocks[s]) : row' = [row EXCEPT ![s] = r]
      BY <1>8, <2>3 DEF CheckpointTimer
    <3>2. Prefix(r.saved, blocks[s])
      BY <1>1, <1>3, <3>1, SavedPrefix DEF RecordInv
    <3>3. row[s] = NoRow => r = NoRow
      BY <3>1 DEF Saved, Written
    <3>4. row'[s] = r /\ (\A x \in Streams \ {s} : row'[x] = row[x])
      BY <1>1, <3>1
    <3>5. OthersKept(s)
      BY <1>1, <1>4, <1>8, <2>1, <3>4 DEF OthersKept, CheckpointTimer
    <3>6. CaptureMade(s)' /\ WireKnown(s)' /\ RowSettled(s)'
      BY <1>2, <1>4, <2>1, <2>2, <3>3, <3>4
      DEF StreamRecord, CaptureMade, WireKnown, RowSettled, Call
    <3> QED
      BY <1>4, <1>5, <1>6, <3>2, <3>4, <3>5, <3>6, RecordKept DEF StreamRecord
  <2>4. CASE timer[s] # "trailing"
    <3>1. UNCHANGED row
      BY <1>8, <2>4 DEF CheckpointTimer
    <3>2. OthersKept(s)
      BY <1>1, <1>4, <1>8, <2>1, <3>1 DEF OthersKept, CheckpointTimer
    <3>3. CaptureMade(s)' /\ WireKnown(s)' /\ RowSettled(s)'
      BY <1>2, <1>4, <2>1, <2>2, <3>1
      DEF StreamRecord, CaptureMade, WireKnown, RowSettled, Call
    <3> QED
      BY <1>3, <1>4, <1>5, <1>6, <3>1, <3>2, <3>3, RecordKept DEF StreamRecord
  <2> QED BY <2>3, <2>4
<1> QED BY <1>7, <1>8

LEMMA QuietRecord ==
  ASSUME RecordInv, NEW s \in Streams, QuietStep(s)
  PROVE  RecordInv'
<1>1. ControlInv'
  BY QuietControl DEF RecordInv
<1> QED
  BY <1>1, PlainRecord, StartRecord, EnterRecord, CheckpointRecord DEF QuietStep

\* An answer that comes too late, and a stuttering step.
LEMMA RecordStays ==
  ASSUME RecordInv, ControlInv', UNCHANGED <<runnerVars, bootVars>>
  PROVE  RecordInv'
<1>1. UNCHANGED <<phase, turn, aborted, wire, blocks, row, timer, up, interrupted, surfaced>>
  BY DEF runnerVars, bootVars
<1>2. ASSUME NEW s \in Streams PROVE StreamRecord(s)'
  <2>1. StreamRecord(s)
    BY DEF RecordInv
  <2>2. Prefix(row'[s].saved, blocks'[s])
    BY <1>1, <2>1 DEF StreamRecord
  <2> QED
    BY <1>1, <2>1, <2>2
    DEF StreamRecord, CaptureMade, WireKnown, BlocksBalanced, RowSettled, Call
<1>3. BootRecord'
  BY <1>1 DEF RecordInv, BootRecord, Live
<1> QED BY <1>2, <1>3 DEF RecordInv

\* The process dies, comes back, is asked, and forgets a conversation.
LEMMA WorldRecord ==
  ASSUME RecordInv,
         \/ Crash
         \/ Boot
         \/ \E c \in Conversations : Reattach(c) \/ DeleteConversation(c)
         \/ ChangeSettings
  PROVE  RecordInv'
<1>1. ControlInv'
  BY WorldControl DEF RecordInv
<1>2. /\ phase \in [Streams -> Phases]
      /\ row \in [Streams -> Row]
      /\ up \in BOOLEAN
      /\ interrupted \subseteq Streams /\ surfaced \subseteq Streams
  BY DEF RecordInv, ControlInv, TypeOK, RunnerTypeOK, BootTypeOK
<1>3. CASE Crash
  <2>1. up' = FALSE /\ interrupted' = {} /\ UNCHANGED <<wire, blocks, row, surfaced>>
    BY <1>3 DEF Crash
  <2>2. ASSUME NEW s \in Streams
        PROVE  /\ phase'[s] = IF phase[s] \in LivePhases THEN "lost" ELSE phase[s]
               /\ phase'[s] \notin LivePhases
               /\ timer'[s] = "idle"
    BY <1>2, <1>3 DEF Crash, Live, LivePhases
  <2>3. ASSUME NEW s \in Streams PROVE StreamRecord(s)'
    <3>1. StreamRecord(s)
      BY DEF RecordInv
    <3>2. CaptureMade(s)' /\ WireKnown(s)'
      BY <2>1, <2>2, <3>1 DEF StreamRecord, CaptureMade, WireKnown, LivePhases
    <3>3. BlocksBalanced(s)'
      BY <2>1, <2>2, <3>1 DEF StreamRecord, BlocksBalanced, CallPhases, LivePhases
    <3>4. RowSettled(s)' /\ Prefix(row'[s].saved, blocks'[s])
      BY <2>1, <2>2, <3>1 DEF StreamRecord, RowSettled, LivePhases
    <3> QED BY <3>2, <3>3, <3>4 DEF StreamRecord
  <2>4. BootRecord'
    <3>1. \A s \in Streams : ~Live(s)'
      BY <2>2 DEF Live
    <3>2. \A s \in surfaced : phase'[s] = "lost" \/ (StorageFaults /\ phase'[s] = "ended")
      BY <1>2, <2>2 DEF RecordInv, BootRecord, LivePhases
    <3> QED BY <2>1, <3>1, <3>2 DEF BootRecord
  <2> QED BY <1>1, <2>3, <2>4 DEF RecordInv
<1>4. CASE Boot
  <2>1. /\ ~up /\ up' = TRUE /\ interrupted' = StreamingRows
        /\ UNCHANGED <<phase, turn, aborted, wire, blocks, timer, surfaced>>
    BY <1>4 DEF Boot
  <2>2. ASSUME NEW s \in Streams
        PROVE  /\ row'[s].saved = row[s].saved
               /\ row'[s].status # "streaming"
               /\ row[s].status # "streaming" => row'[s] = row[s]
    <3>1. row[s] \in Row
      BY <1>2
    <3>2. row'[s] = IF row[s].status = "streaming"
                    THEN [row[s] EXCEPT !.status = "final"] ELSE row[s]
      BY <1>4 DEF Boot, StreamingRows
    <3> QED BY <3>1, <3>2 DEF Row
  <2>3. ASSUME NEW s \in Streams PROVE StreamRecord(s)'
    <3>1. StreamRecord(s)
      BY DEF RecordInv
    <3>2. CaptureMade(s)' /\ WireKnown(s)' /\ BlocksBalanced(s)'
      BY <2>1, <3>1 DEF StreamRecord, CaptureMade, WireKnown, BlocksBalanced, Call
    <3>3. Prefix(row'[s].saved, blocks'[s])
      BY <2>1, <2>2, <3>1 DEF StreamRecord
    <3>4. RowSettled(s)'
      <4>1. NoRow.status # "streaming"
        BY DEF NoRow
      <4>2. [status |-> "final", saved |-> blocks[s]].status # "streaming"
        OBVIOUS
      <4> QED BY <2>1, <2>2, <3>1, <4>1, <4>2 DEF StreamRecord, RowSettled
    <3> QED BY <3>2, <3>3, <3>4 DEF StreamRecord
  <2>4. ASSUME NEW s \in StreamingRows
        PROVE  phase[s] = "lost" \/ (StorageFaults /\ phase[s] = "ended")
    <3>1. s \in Streams /\ row[s].status = "streaming"
      BY DEF StreamingRows
    <3>2. phase[s] \in {"idle", "ended", "lost"}
      BY <1>2, <2>1, <3>1 DEF RecordInv, BootRecord, Live, Phases
    <3>3. RowSettled(s)
      BY <3>1 DEF RecordInv, StreamRecord
    <3>4. row[s] # NoRow /\ row[s] # [status |-> "final", saved |-> blocks[s]]
      BY <3>1 DEF NoRow
    <3> QED BY <3>2, <3>3, <3>4 DEF RowSettled
  <2>5. BootRecord'
    BY <2>1, <2>4 DEF RecordInv, BootRecord
  <2> QED BY <1>1, <2>3, <2>5 DEF RecordInv
<1>5. ASSUME NEW c \in Conversations, Reattach(c) PROVE RecordInv'
  <2>1. UNCHANGED runnerVars /\ up' = up
    BY <1>5 DEF Reattach
  <2>2. UNCHANGED <<phase, turn, aborted, wire, blocks, row, timer>>
    BY <2>1 DEF runnerVars
  <2>3. interrupted' \cup surfaced' \subseteq interrupted \cup surfaced
    BY <1>5 DEF Reattach
  <2>4. ASSUME NEW s \in Streams PROVE StreamRecord(s)'
    <3>1. StreamRecord(s)
      BY DEF RecordInv
    <3>2. Prefix(row'[s].saved, blocks'[s])
      BY <2>2, <3>1 DEF StreamRecord
    <3> QED
      BY <2>1, <2>2, <3>1, <3>2
      DEF StreamRecord, CaptureMade, WireKnown, BlocksBalanced, RowSettled, Call
  <2>5. BootRecord'
    BY <2>1, <2>2, <2>3 DEF RecordInv, BootRecord, Live
  <2> QED BY <1>1, <2>4, <2>5 DEF RecordInv
<1>6. ASSUME NEW c \in Conversations, DeleteConversation(c) PROVE RecordInv'
  <2>1. UNCHANGED <<phase, turn, aborted, wire, blocks, timer, up, interrupted, surfaced>>
    BY <1>6 DEF DeleteConversation
  <2>2. ASSUME NEW s \in Streams PROVE row'[s] \in {NoRow, row[s]}
    BY <1>6 DEF DeleteConversation
  <2>3. ASSUME NEW s \in Streams PROVE StreamRecord(s)'
    <3>1. StreamRecord(s)
      BY DEF RecordInv
    <3>2. CaptureMade(s)' /\ WireKnown(s)' /\ BlocksBalanced(s)'
      BY <2>1, <3>1 DEF StreamRecord, CaptureMade, WireKnown, BlocksBalanced, Call
    <3>3. Prefix(row'[s].saved, blocks'[s])
      <4>1. Prefix(row[s].saved, blocks[s])
        BY <3>1 DEF StreamRecord
      <4>2. Prefix(NoRow.saved, blocks[s])
        <5>1. blocks[s].uses \in Nat /\ blocks[s].results \in Nat
          BY RecordTypes DEF RecordInv
        <5>2. NoRow.saved.uses = 0 /\ NoRow.saved.results = 0
          BY DEF NoRow, EmptyTranscript
        <5> HIDE DEF NoRow
        <5> QED BY <5>1, <5>2 DEF Prefix
      <4> QED BY <2>1, <2>2, <4>1, <4>2
    <3>4. RowSettled(s)'
      <4>1. NoRow.status # "streaming"
        BY DEF NoRow
      <4> HIDE DEF NoRow
      <4> QED BY <2>1, <2>2, <3>1, <4>1 DEF StreamRecord, RowSettled
    <3> QED BY <3>2, <3>3, <3>4 DEF StreamRecord
  <2>4. BootRecord'
    BY <2>1 DEF RecordInv, BootRecord, Live
  <2> QED BY <1>1, <2>3, <2>4 DEF RecordInv
<1>7. CASE UNCHANGED <<runnerVars, bootVars>>
  BY <1>1, <1>7, RecordStays
<1> QED BY <1>3, <1>4, <1>5, <1>6, <1>7 DEF ChangeSettings

LEMMA NextRecord == RecordInv /\ [Next]_vars => RecordInv'
<1> SUFFICES ASSUME RecordInv, [Next]_vars PROVE RecordInv'
  OBVIOUS
<1>1. ASSUME NEW s \in Streams,
             ProviderStep(s) \/ LoopStep(s) \/ UserStep(s) \/ CheckpointTimer(s)
      PROVE  RecordInv'
  BY <1>1, EndingRecord, CallingRecord, AskRecord, CancelRecord, QuietRecord
  DEF ProviderStep, LoopStep, UserStep, QuietStep
<1>2. ASSUME NEW id \in DOMAIN asked, NEW decision \in Decisions, NEW scope \in Scopes,
             NEW partial \in BOOLEAN, AnswerPrompt(id, decision, scope, partial)
      PROVE  RecordInv'
  <2>1. CASE id \in pending
    BY <1>2, <2>1, AnswerRecord
  <2>2. CASE id \notin pending
    <3>1. UNCHANGED <<runnerVars, bootVars>>
      BY <1>2, <2>2 DEF AnswerPrompt, runnerVars
    <3>2. ControlInv'
      <4>1. Next
        BY <1>2 DEF Next
      <4> QED BY <4>1, NextControl DEF RecordInv
    <3> QED BY <3>1, <3>2, RecordStays
  <2> QED BY <2>1, <2>2
<1>3. CASE \/ ChangeSettings \/ Crash \/ Boot
           \/ \E c \in Conversations : Reattach(c) \/ DeleteConversation(c)
  BY <1>3, WorldRecord
<1>4. CASE UNCHANGED vars
  <2>1. ControlInv'
    BY <1>4, NextControl DEF RecordInv
  <2> QED BY <1>4, <2>1, RecordStays DEF vars
<1> QED BY <1>1, <1>2, <1>3, <1>4 DEF Next

-----------------------------------------------------------------------------
(* What a turn leaves behind                                               *)

\* A mutating tool runs only after its pre-image capture was attempted, cancel
\* or not (executeToolCall() in runner.ts).
THEOREM CapturedFirst == Spec => []MutationsCaptured
<1>1. RecordInv => MutationsCaptured
  BY DEF RecordInv, StreamRecord, CaptureMade, MutationsCaptured
<1> QED BY <1>1, InitRecord, NextRecord, PTL DEF Spec

\* A window learns of the end of a turn exactly once, whichever of the ends it
\* is (the emits of runStream() and its catch block).
THEOREM EndsOnce == Spec => []EndReportedOnce
<1>1. RecordInv => EndReportedOnce
  BY DEF RecordInv, StreamRecord, WireKnown, EndReportedOnce
<1> QED BY <1>1, InitRecord, NextRecord, PTL DEF Spec

\* The row is a prefix of the transcript and shows no result without its call,
\* whichever writes the throttle delays and the disk refuses.
THEOREM RowNeverAhead == Spec => []RowIsPrefix
<1>1. RecordInv => RowIsPrefix
  BY DEF RecordInv, StreamRecord, Prefix, RowIsPrefix
<1> QED BY <1>1, InitRecord, NextRecord, PTL DEF Spec

\* The row of a turn that ended by itself is the whole transcript, with a
\* tool_result for every tool_use (finally() in runner.ts).
THEOREM RowsComplete == Spec => []EndedRowsComplete
<1>1. RecordInv => EndedRowsComplete
  <2> SUFFICES ASSUME RecordInv, NEW s \in Streams, phase[s] = "ended",
                      row[s].status = "final", ~StorageFaults
               PROVE  row[s].saved = blocks[s] /\ row[s].saved.uses = row[s].saved.results
    BY DEF EndedRowsComplete
  <2>1. BlocksBalanced(s) /\ RowSettled(s)
    BY DEF RecordInv, StreamRecord
  <2>2. row[s] # NoRow
    BY DEF NoRow
  <2>3. row[s].saved = blocks[s]
    BY <2>1, <2>2 DEF RowSettled
  <2>4. blocks[s].uses = blocks[s].results
    BY <2>1 DEF BlocksBalanced, CallPhases
  <2> QED BY <2>3, <2>4
<1> QED BY <1>1, InitRecord, NextRecord, PTL DEF Spec

\* A crash leaves nothing half done, and the boot announces only turns that were
\* cut off or could not be written (reconcileInterruptedTurns()).
THEOREM CutsSettled == Spec => []CutTurnsSettled
<1>1. RecordInv => CutTurnsSettled
  <2> SUFFICES ASSUME RecordInv PROVE CutTurnsSettled
    OBVIOUS
  <2>1. ASSUME up, NEW s \in StreamingRows
        PROVE  Live(s) \/ (StorageFaults /\ phase[s] = "ended")
    <3>1. s \in Streams /\ row[s].status = "streaming"
      BY DEF StreamingRows
    <3>2. phase[s] \in Phases
      BY <3>1 DEF RecordInv, ControlInv, TypeOK, RunnerTypeOK
    <3>3. RowSettled(s)
      BY <3>1 DEF RecordInv, StreamRecord
    <3>4. row[s] # NoRow /\ row[s] # [status |-> "final", saved |-> blocks[s]]
      BY <3>1 DEF NoRow
    <3> QED BY <2>1, <3>1, <3>2, <3>3, <3>4 DEF RowSettled, Live, Phases
  <2> QED BY <2>1 DEF RecordInv, BootRecord, CutTurnsSettled
<1> QED BY <1>1, InitRecord, NextRecord, PTL DEF Spec

=============================================================================
