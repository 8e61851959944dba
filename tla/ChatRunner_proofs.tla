-------------------------- MODULE ChatRunner_proofs --------------------------
(* Proofs about ChatRunner for every set of streams, tools and conversations. *)
EXTENDS ChatRunner, TLAPS

-----------------------------------------------------------------------------
(* The inductive invariant behind type correctness                         *)

\* While a call is handled there is one, it runs only with a grant, and the
\* loop is within its bounds.
LoopInRange ==
    \A s \in Streams :
        /\ phase[s] \in CallPhases => turn[s].pos \in 1 .. Len(turn[s].calls)
        /\ phase[s] \in CallPhases \cup {"streaming", "settled", "backoff"} =>
              turn[s].iter < MaxIterations
        /\ phase[s] \in {"capture", "dispatch", "execute"} => grant[s] \in Grants

ControlInv == TypeOK /\ LoopInRange /\ PromptsMatchRequests

\* The types of the values a stream starts with.
LEMMA InitialValues ==
  /\ NewTurn \in Turn
  /\ NoRow \in Row
  /\ EmptyTranscript \in Transcript
  /\ DefaultPolicies \in PolicyStore
  /\ AutoTools(DefaultPolicies) \subseteq Tools
<1>1. NewTurn \in Turn
  BY RunnerAssumption DEF NewTurn, Turn, StopReasons
<1>2. EmptyTranscript \in Transcript
  BY DEF EmptyTranscript, Transcript
<1>3. NoRow \in Row
  BY <1>2 DEF NoRow, Row
<1>4. DefaultPolicies \in PolicyStore
  BY DEF DefaultPolicies, PolicyStore, Policies
<1> QED BY <1>1, <1>2, <1>3, <1>4 DEF AutoTools

LEMMA InitControl == Init => ControlInv
<1> SUFFICES ASSUME Init PROVE ControlInv
  OBVIOUS
<1>1. ApprovalTypeOK
  BY InitialValues, ApprovalAssumption DEF Init, ApprovalInit, ApprovalTypeOK, Decisions
<1>2. RunnerTypeOK
  BY InitialValues DEF Init, RunnerTypeOK, Phases, Wires
<1>3. BootTypeOK
  BY RunnerAssumption DEF Init, BootTypeOK
<1>4. LoopInRange
  BY DEF Init, LoopInRange, CallPhases
<1>5. PromptsMatchRequests
  BY DEF Init, ApprovalInit, PromptsMatchRequests
<1> QED BY <1>1, <1>2, <1>3, <1>4, <1>5 DEF ControlInv, TypeOK

\* The call in hand is one of the tools.
LEMMA CallType ==
  ASSUME ControlInv, NEW s \in Streams, phase[s] \in CallPhases
  PROVE  Call(s) \in Tools
<1>1. turn[s] \in Turn
  BY DEF ControlInv, TypeOK, RunnerTypeOK
<1>2. turn[s].calls \in Seq(Tools)
  BY <1>1 DEF Turn
<1>3. turn[s].pos \in 1 .. Len(turn[s].calls)
  BY DEF ControlInv, LoopInRange
<1> QED BY <1>2, <1>3 DEF Call

-----------------------------------------------------------------------------
(* What the helpers return                                                 *)

LEMMA EmitType ==
  ASSUME NEW w \in Wires, NEW event
  PROVE  Emit(w, event) \in Wires
  BY DEF Emit, Wires

LEMMA WrittenType ==
  ASSUME NEW old \in Row, NEW r \in Row, NEW new \in Written(old, r)
  PROVE  new \in Row
  BY DEF Written, NoRow, Row, EmptyTranscript, Transcript

\* checkpoint() keeps the types of the throttle and of the row.
LEMMA CheckpointType ==
  ASSUME TypeOK, NEW s \in Streams, NEW transcript \in Transcript,
         Checkpoint(s, transcript)
  PROVE  /\ timer' \in [Streams -> {"idle", "open", "trailing"}]
         /\ row' \in [Streams -> Row]
<1>1. row \in [Streams -> Row] /\ timer \in [Streams -> {"idle", "open", "trailing"}]
  BY DEF TypeOK, RunnerTypeOK
<1>2. ASSUME NEW r \in Saved(s, transcript) PROVE r \in Row
  <2>1. [row[s] EXCEPT !.saved = transcript] \in Row
    BY <1>1 DEF Row
  <2> QED BY <1>1, <2>1, WrittenType DEF Saved
<1>3. timer' \in [Streams -> {"idle", "open", "trailing"}]
  BY <1>1 DEF Checkpoint
<1>4. row' \in [Streams -> Row]
  BY <1>1, <1>2 DEF Checkpoint
<1> QED BY <1>3, <1>4

LEMMA ClearSessionType ==
  ASSUME TypeOK, NEW s \in Streams, ClearSession(s)
  PROVE  ApprovalTypeOK'
  BY DEF TypeOK, ApprovalTypeOK, ClearSession

\* Ending a turn.
LEMMA FinishType ==
  ASSUME TypeOK, NEW s \in Streams, NEW latest \in Row, Finish(s, latest),
         wire' \in [Streams -> Wires]
  PROVE  TypeOK'
<1> USE DEF TypeOK, RunnerTypeOK
<1>1. ApprovalTypeOK'
  BY ClearSessionType DEF Finish
<1>2. BootTypeOK'
  BY DEF BootTypeOK, Finish, bootVars
<1>3. phase' \in [Streams -> Phases]
  BY DEF Finish, Goto, Phases
<1>4. turn' \in [Streams -> Turn]
  BY InitialValues DEF Finish
<1>5. row' \in [Streams -> Row]
  <2>1. [status |-> "final", saved |-> blocks[s]] \in Row
    BY DEF Row
  <2>2. PICK r \in Written(latest, [status |-> "final", saved |-> blocks[s]]) :
           row' = [row EXCEPT ![s] = r]
    BY DEF Finish
  <2>3. r \in Row
    BY <2>1, WrittenType
  <2> QED BY <2>2, <2>3
<1>6. timer' \in [Streams -> {"idle", "open", "trailing"}]
  BY DEF Finish
<1>7. slot' \in [Conversations -> Streams \cup {NoStream}]
  BY DEF Finish
<1> QED BY <1>1, <1>2, <1>3, <1>4, <1>5, <1>6, <1>7 DEF Finish

LEMMA EndTurnType ==
  ASSUME TypeOK, NEW s \in Streams, NEW w \in Wires, EndTurn(s, w)
  PROVE  TypeOK'
<1>1. row[s] \in Row
  BY DEF TypeOK, RunnerTypeOK
<1>2. wire' \in [Streams -> Wires]
  BY DEF EndTurn, TypeOK, RunnerTypeOK
<1> QED BY <1>1, <1>2, FinishType DEF EndTurn

\* Answering a call.
LEMMA FinishCallType ==
  ASSUME TypeOK, LoopInRange, NEW s \in Streams, phase[s] \in CallPhases,
         NEW tool \in Tools, NEW decision \in Grants \cup {"denied"}, NEW ran \in BOOLEAN,
         Call(s) \in Tools,
         FinishCall(s, tool, decision, ran), aborted' \in [Streams -> BOOLEAN]
  PROVE  RunnerTypeOK' /\ BootTypeOK'
<1> DEFINE after == [blocks[s] EXCEPT !.results = @ + 1]
<1>a. /\ phase \in [Streams -> Phases]
      /\ turn \in [Streams -> Turn]
      /\ blocks \in [Streams -> Transcript]
      /\ wire \in [Streams -> Wires]
      /\ grant \in [Streams -> Grants \cup {NoGrant}]
      /\ ledger \in [Streams -> SUBSET Entry]
  BY DEF TypeOK, RunnerTypeOK
<1>b. after \in Transcript
  BY <1>a DEF Transcript
<1>1. BootTypeOK'
  BY DEF TypeOK, BootTypeOK, FinishCall, bootVars
<1>2. phase' \in [Streams -> Phases]
  BY <1>a DEF FinishCall, Goto, Phases, LivePhases
<1>3. turn' \in [Streams -> Turn]
  <2>1. turn[s] \in Turn /\ turn[s].iter < MaxIterations
    BY <1>a DEF LoopInRange
  <2>2. turn'[s] \in Turn
    <3> DEFINE last == turn[s].pos = Len(turn[s].calls)
    <3>1. turn'[s] = [turn[s] EXCEPT !.captured = FALSE,
                        !.pos = IF last THEN 0 ELSE @ + 1,
                        !.calls = IF last THEN <<>> ELSE @,
                        !.iter = IF last THEN @ + 1 ELSE @,
                        !.attempt = IF last THEN 0 ELSE @]
      BY <1>a DEF FinishCall
    <3>f. /\ turn[s].iter \in 0 .. MaxIterations
          /\ turn[s].attempt \in 0 .. MaxAttempts - 1
          /\ turn[s].calls \in Seq(Tools)
          /\ turn[s].pos \in Nat
      BY <2>1 DEF Turn
    <3>2. CASE last
      <4>1. turn'[s] = [turn[s] EXCEPT !.captured = FALSE, !.pos = 0, !.calls = <<>>,
                                       !.iter = @ + 1, !.attempt = 0]
        BY <3>1, <3>2
      <4>2. turn[s].iter + 1 \in 0 .. MaxIterations /\ 0 \in 0 .. MaxAttempts - 1
        BY <2>1, <3>f, RunnerAssumption
      <4>3. <<>> \in Seq(Tools)
        OBVIOUS
      <4> DEFINE next == turn[s].iter + 1
      <4>4. next \in 0 .. MaxIterations
        BY <4>2
      <4> HIDE DEF next
      <4>5. [turn[s] EXCEPT !.captured = FALSE, !.pos = 0, !.calls = <<>>,
                            !.iter = next, !.attempt = 0] \in Turn
        BY <2>1, <4>2, <4>3, <4>4 DEF Turn
      <4> QED BY <4>1, <4>5 DEF next
    <3>3. CASE ~last
      <4>1. turn'[s] = [turn[s] EXCEPT !.captured = FALSE, !.pos = @ + 1]
        BY <2>1, <3>1, <3>3 DEF Turn
      <4>2. turn[s].pos + 1 \in Nat
        BY <3>f
      <4> QED BY <2>1, <4>1, <4>2 DEF Turn
    <3> QED BY <3>2, <3>3
  <2> QED BY <1>a, <2>2 DEF FinishCall
<1>4. grant' \in [Streams -> Grants \cup {NoGrant}]
  BY <1>a DEF FinishCall
<1>5. wire' \in [Streams -> Wires]
  BY <1>a, EmitType DEF FinishCall, Send
<1>6. blocks' \in [Streams -> Transcript]
  BY <1>a, <1>b DEF FinishCall
<1>7. timer' \in [Streams -> {"idle", "open", "trailing"}] /\ row' \in [Streams -> Row]
  BY <1>b, CheckpointType DEF FinishCall
<1>8. ledger' \in [Streams -> SUBSET Entry]
  <2>1. [tool |-> tool, asked |-> Call(s), decision |-> decision, ran |-> ran] \in Entry
    BY DEF Entry
  <2> QED BY <1>a, <2>1 DEF FinishCall
<1>9. slot' \in [Conversations -> Streams \cup {NoStream}]
  BY DEF TypeOK, RunnerTypeOK, FinishCall
<1> QED BY <1>1, <1>2, <1>3, <1>4, <1>5, <1>6, <1>7, <1>8, <1>9 DEF RunnerTypeOK

\* Letting a call through.
LEMMA GrantedType ==
  ASSUME TypeOK, NEW s \in Streams, NEW g \in Grants, NEW ab \in BOOLEAN,
         Granted(s, g, ab), aborted' \in [Streams -> BOOLEAN]
  PROVE  RunnerTypeOK' /\ BootTypeOK'
<1> USE DEF TypeOK, RunnerTypeOK
<1>1. BootTypeOK'
  BY DEF BootTypeOK, Granted, bootVars
<1>2. phase' \in [Streams -> Phases]
  BY DEF Granted, Goto, Phases, LivePhases
<1>3. turn' \in [Streams -> Turn]
  <2>1. ASSUME NEW t \in Turn PROVE [t EXCEPT !.captured = TRUE] \in Turn
    BY <2>1 DEF Turn
  <2>2. ASSUME NEW t \in Turn PROVE [t EXCEPT !.captured = FALSE] \in Turn
    BY <2>2 DEF Turn
  <2>3. ASSUME NEW c \in BOOLEAN PROVE [turn[s] EXCEPT !.captured = c] \in Turn
    <3>1. turn[s] \in Turn
      OBVIOUS
    <3>2. c = TRUE \/ c = FALSE
      OBVIOUS
    <3> QED BY <2>1, <2>2, <3>1, <3>2, Zenon
  <2> QED BY <2>3 DEF Granted
<1>4. grant' \in [Streams -> Grants \cup {NoGrant}]
  BY DEF Granted
<1> QED BY <1>1, <1>2, <1>3, <1>4 DEF Granted

-----------------------------------------------------------------------------
(* What a step of one stream leaves alone                                  *)

\* A step of stream s leaves every other stream where it is.
OthersStay(s) ==
    \A x \in Streams \ {s} :
        phase'[x] = phase[x] /\ turn'[x] = turn[x] /\ grant'[x] = grant[x]

\* A pending request is one that was made.
LEMMA RequestType ==
  ASSUME TypeOK, NEW id \in pending
  PROVE  /\ id \in 1 .. Len(asked)
         /\ asked[id].stream \in Streams
         /\ asked[id].tool \in Tools
<1>1. asked \in Seq(Request) /\ id \in DOMAIN asked
  BY DEF TypeOK, ApprovalTypeOK
<1>2. asked[id] \in Request
  BY <1>1
<1> QED BY <1>1, <1>2 DEF Request

\* The requests of a stream that does not wait for an answer: none.
LEMMA NoRequestUnlessWaiting ==
  ASSUME PromptsMatchRequests, NEW s \in Streams, phase[s] # "prompt"
  PROVE  PendingOf(s) = {}
  BY DEF PromptsMatchRequests, PendingOf

\* Requests and prompts still match when a stream that waits stops waiting and
\* its requests go.
LEMMA PromptsKept ==
  ASSUME TypeOK, PromptsMatchRequests, NEW s \in Streams, OthersStay(s),
         phase'[s] # "prompt", asked' = asked, pending' = pending \ PendingOf(s)
  PROVE  PromptsMatchRequests'
<1>1. \A id \in pending : asked[id].stream \in Streams
  BY RequestType
<1>2. ASSUME NEW x \in Streams, phase'[x] = "prompt"
      PROVE  \E id \in pending' : PendingOf(x)' = {id} /\ asked'[id].tool = Call(x)'
  <2>1. x # s /\ phase[x] = "prompt" /\ turn'[x] = turn[x]
    BY <1>2 DEF OthersStay
  <2>2. PICK id \in pending : PendingOf(x) = {id} /\ asked[id].tool = Call(x)
    BY <2>1 DEF PromptsMatchRequests
  <2>3. PendingOf(x)' = PendingOf(x)
    BY <2>1 DEF PendingOf
  <2>4. id \in pending'
    BY <2>1, <2>2 DEF PendingOf
  <2> QED BY <2>1, <2>2, <2>3, <2>4 DEF Call
<1>3. ASSUME NEW id \in pending' PROVE phase'[asked'[id].stream] = "prompt"
  <2>1. id \in pending /\ asked[id].stream # s
    BY <1>3 DEF PendingOf
  <2> QED BY <1>1, <2>1 DEF PromptsMatchRequests, OthersStay
<1> QED BY <1>2, <1>3 DEF PromptsMatchRequests

\* The same for a stream that did not wait.
LEMMA PromptsUndisturbed ==
  ASSUME TypeOK, PromptsMatchRequests, NEW s \in Streams, OthersStay(s),
         phase[s] # "prompt", phase'[s] # "prompt", UNCHANGED <<asked, pending>>
  PROVE  PromptsMatchRequests'
<1>1. pending' = pending \ PendingOf(s)
  BY NoRequestUnlessWaiting
<1> QED BY <1>1, PromptsKept

LEMMA LoopKept ==
  ASSUME LoopInRange, NEW s \in Streams, OthersStay(s),
         phase'[s] \in CallPhases => turn'[s].pos \in 1 .. Len(turn'[s].calls),
         phase'[s] \in CallPhases \cup {"streaming", "settled", "backoff"} =>
            turn'[s].iter < MaxIterations,
         phase'[s] \in {"capture", "dispatch", "execute"} => grant'[s] \in Grants
  PROVE  LoopInRange'
  BY DEF LoopInRange, OthersStay

-----------------------------------------------------------------------------
(* Every action keeps the control invariant                                *)

\* The end of a turn, whatever ends it.
LEMMA FinishControl ==
  ASSUME ControlInv, NEW s \in Streams, NEW latest \in Row, Finish(s, latest),
         wire' \in [Streams -> Wires]
  PROVE  ControlInv'
<1> USE DEF ControlInv
<1>1. TypeOK'
  BY FinishType
<1>2. OthersStay(s) /\ phase'[s] = "ended"
  BY DEF TypeOK, RunnerTypeOK, Finish, Goto, OthersStay, ClearSession
<1>3. LoopInRange'
  BY <1>2, LoopKept DEF CallPhases
<1>4. PromptsMatchRequests'
  BY <1>2, PromptsKept DEF Finish, ClearSession
<1> QED BY <1>1, <1>3, <1>4

LEMMA EndTurnControl ==
  ASSUME ControlInv, NEW s \in Streams, NEW w \in Wires, EndTurn(s, w)
  PROVE  ControlInv'
<1>1. row[s] \in Row /\ wire' \in [Streams -> Wires]
  BY DEF ControlInv, TypeOK, RunnerTypeOK, EndTurn
<1> QED BY <1>1, FinishControl DEF EndTurn

LEMMA EndingControl ==
  ASSUME ControlInv, NEW s \in Streams,
         \/ BudgetRefuses(s)
         \/ IterationsExhausted(s)
         \/ ProviderThrows(s)
         \/ CancelSeen(s)
         \/ GiveUp(s)
         \/ ErrorEndsTurn(s)
         \/ CompleteTurn(s)
  PROVE  ControlInv'
<1>1. /\ wire \in [Streams -> Wires]
      /\ row \in [Streams -> Row]
      /\ blocks \in [Streams -> Transcript]
      /\ "open" \in Wires
  BY DEF ControlInv, TypeOK, RunnerTypeOK, Wires
<1>2. CASE Throws(s)
  BY <1>1, <1>2, EmitType, EndTurnControl DEF Throws
<1>3. CASE EndTurn(s, Emit(wire[s], "error"))
  BY <1>1, <1>3, EmitType, EndTurnControl
<1>4. CASE EndTurn(s, Emit(wire[s], "done"))
  BY <1>1, <1>4, EmitType, EndTurnControl
<1>5. CASE GiveUp(s)
  BY <1>1, <1>5, EmitType, EndTurnControl DEF GiveUp
<1>6. CASE CancelSeen(s)
  <2>1. PICK r \in (IF timer[s] = "idle" THEN Saved(s, blocks[s]) ELSE {row[s]}) : Finish(s, r)
    BY <1>6 DEF CancelSeen
  <2>2. r \in Row
    <3>1. [row[s] EXCEPT !.saved = blocks[s]] \in Row
      BY <1>1 DEF Row
    <3> QED BY <1>1, <3>1, WrittenType DEF Saved
  <2>3. wire' \in [Streams -> Wires]
    BY <1>1, <1>6, EmitType DEF CancelSeen
  <2> QED BY <2>1, <2>2, <2>3, FinishControl
<1> QED
  BY <1>2, <1>3, <1>4, <1>5, <1>6
  DEF BudgetRefuses, IterationsExhausted, ProviderThrows, ErrorEndsTurn, CompleteTurn

\* The answers to a call: the request of the stream, if it had one, is gone.
LEMMA FinishCallControl ==
  ASSUME ControlInv, NEW s \in Streams, phase[s] \in CallPhases,
         NEW tool \in Tools, NEW decision \in Grants \cup {"denied"}, NEW ran \in BOOLEAN,
         FinishCall(s, tool, decision, ran), aborted' \in [Streams -> BOOLEAN],
         ApprovalTypeOK', asked' = asked, pending' = pending \ PendingOf(s)
  PROVE  ControlInv'
<1> USE DEF ControlInv
<1>1. TypeOK'
  BY CallType, FinishCallType DEF TypeOK
<1>2. /\ turn \in [Streams -> Turn]
      /\ phase \in [Streams -> Phases]
      /\ grant \in [Streams -> Grants \cup {NoGrant}]
  BY DEF TypeOK, RunnerTypeOK
<1>3. OthersStay(s) /\ phase'[s] \in {"call", "attempt"}
  BY <1>2 DEF FinishCall, Goto, OthersStay
<1>4. LoopInRange'
  <2>1. phase'[s] = "call" => turn'[s].pos \in 1 .. Len(turn'[s].calls)
                              /\ turn'[s].iter < MaxIterations
    <3> SUFFICES ASSUME phase'[s] = "call"
                 PROVE  turn'[s].pos \in 1 .. Len(turn'[s].calls)
                        /\ turn'[s].iter < MaxIterations
      OBVIOUS
    <3>1. turn[s].pos # Len(turn[s].calls)
      BY <1>2 DEF FinishCall, Goto
    <3>2. turn[s].pos \in 1 .. Len(turn[s].calls) /\ turn[s].iter < MaxIterations
      BY DEF LoopInRange
    <3>3. turn[s] \in Turn /\ turn[s].calls \in Seq(Tools) /\ turn[s].pos \in Nat
      BY <1>2 DEF Turn
    <3>4. turn'[s] = [turn[s] EXCEPT !.captured = FALSE, !.pos = @ + 1]
      BY <1>2, <3>1, <3>3 DEF FinishCall, Turn
    <3>5. turn'[s].pos = turn[s].pos + 1 /\ turn'[s].calls = turn[s].calls
          /\ turn'[s].iter = turn[s].iter
      BY <3>3, <3>4 DEF Turn
    <3>6. Len(turn[s].calls) \in Nat
      BY <3>3
    <3> QED BY <3>1, <3>2, <3>3, <3>5, <3>6
  <2> QED BY <1>3, <2>1, LoopKept DEF CallPhases
<1>5. PromptsMatchRequests'
  BY <1>3, PromptsKept
<1> QED BY <1>1, <1>4, <1>5

\* The tool a granted call runs.
LEMMA ExecToolType ==
  ASSUME ControlInv, NEW s \in Streams, phase[s] \in CallPhases
  PROVE  ExecTool(s) \in Tools
  BY CallType, RunnerAssumption DEF ExecTool

\* Without an open prompt, the gateway may stay as it is.
LEMMA FinishCallUnprompted ==
  ASSUME ControlInv, NEW s \in Streams, phase[s] \in CallPhases \ {"prompt"},
         NEW tool \in Tools, NEW decision \in Grants \cup {"denied"}, NEW ran \in BOOLEAN,
         FinishCall(s, tool, decision, ran), UNCHANGED <<approvalVars, aborted>>
  PROVE  ControlInv'
<1>1. ApprovalTypeOK' /\ aborted' \in [Streams -> BOOLEAN] /\ asked' = asked
  BY DEF ControlInv, TypeOK, ApprovalTypeOK, RunnerTypeOK, approvalVars
<1>2. pending' = pending \ PendingOf(s)
  BY NoRequestUnlessWaiting DEF ControlInv, approvalVars
<1> QED BY <1>1, <1>2, FinishCallControl

\* A call is let through.
LEMMA GrantedControl ==
  ASSUME ControlInv, NEW s \in Streams, phase[s] \in CallPhases, NEW g \in Grants,
         NEW ab \in BOOLEAN, Granted(s, g, ab), aborted' \in [Streams -> BOOLEAN],
         ApprovalTypeOK', asked' = asked, pending' = pending \ PendingOf(s)
  PROVE  ControlInv'
<1> USE DEF ControlInv
<1>1. TypeOK'
  BY GrantedType DEF TypeOK
<1>2. /\ turn \in [Streams -> Turn]
      /\ phase \in [Streams -> Phases]
      /\ grant \in [Streams -> Grants \cup {NoGrant}]
  BY DEF TypeOK, RunnerTypeOK
<1>3. OthersStay(s) /\ phase'[s] \in {"capture", "dispatch"} /\ grant'[s] = g
  BY <1>2 DEF Granted, Goto, OthersStay
<1>4. LoopInRange'
  <2>1. turn'[s].pos = turn[s].pos /\ turn'[s].calls = turn[s].calls
        /\ turn'[s].iter = turn[s].iter
    BY <1>2 DEF Granted, Turn
  <2> QED BY <1>3, <2>1, LoopKept DEF CallPhases, LoopInRange
<1>5. PromptsMatchRequests'
  BY <1>3, PromptsKept
<1> QED BY <1>1, <1>4, <1>5

LEMMA SettlingControl ==
  ASSUME ControlInv, NEW s \in Streams,
         UnknownTool(s) \/ RefusedUnasked(s) \/ ToolCancelled(s) \/ ToolSettles(s)
  PROVE  ControlInv'
<1>2. CASE phase[s] = "call" /\ Denied(s) /\ UNCHANGED <<approvalVars, aborted>>
  BY <1>2, CallType, FinishCallUnprompted DEF Denied, CallPhases
<1>3. CASE ToolCancelled(s)
  <2>1. grant[s] \in Grants
    BY <1>3 DEF ControlInv, LoopInRange, ToolCancelled
  <2> QED BY <1>3, <2>1, ExecToolType, FinishCallUnprompted DEF ToolCancelled, CallPhases
<1>4. CASE ToolSettles(s)
  <2>1. grant[s] \in Grants
    BY <1>4 DEF ControlInv, LoopInRange, ToolSettles
  <2> QED BY <1>4, <2>1, ExecToolType, FinishCallUnprompted DEF ToolSettles, CallPhases
<1> QED BY <1>2, <1>3, <1>4 DEF UnknownTool, RefusedUnasked, NeedsApproval

LEMMA UnaskedControl ==
  ASSUME ControlInv, NEW s \in Streams, ReadTool(s) \/ ApprovedUnasked(s)
  PROVE  ControlInv'
<1>1. /\ ApprovalTypeOK'
      /\ aborted' \in [Streams -> BOOLEAN]
      /\ aborted[s] \in BOOLEAN
      /\ asked' = asked
      /\ pending' = pending
  BY DEF ControlInv, TypeOK, ApprovalTypeOK, RunnerTypeOK, approvalVars, ReadTool,
         ApprovedUnasked
<1>2. phase[s] \in CallPhases /\ phase[s] # "prompt"
  BY DEF ReadTool, ApprovedUnasked, NeedsApproval, CallPhases
<1>3. pending' = pending \ PendingOf(s)
  BY <1>1, <1>2, NoRequestUnlessWaiting DEF ControlInv
<1>4. PICK g \in Grants : Granted(s, g, aborted[s])
  <2>1. CASE ReadTool(s)
    BY <2>1 DEF ReadTool, Grants
  <2>2. CASE ApprovedUnasked(s)
    <3>1. Verdict(s, Call(s)).source \in {"policy", "prompt-session"}
      BY DEF Verdict, Refusal
    <3>2. GrantOf(Verdict(s, Call(s)).source) \in Grants
      BY <3>1 DEF GrantOf, Grants
    <3> QED BY <2>2, <3>2 DEF ApprovedUnasked
  <2> QED BY <2>1, <2>2
<1> QED BY <1>1, <1>2, <1>3, <1>4, GrantedControl

LEMMA AskControl ==
  ASSUME ControlInv, NEW s \in Streams, AskUser(s)
  PROVE  ControlInv'
<1> USE DEF ControlInv
<1> DEFINE id == Len(asked) + 1
<1>1. /\ phase[s] = "call"
      /\ Call(s) \in Tools
      /\ phase' = [phase EXCEPT ![s] = "prompt"]
      /\ phase \in [Streams -> Phases]
      /\ UNCHANGED <<turn, grant>>
  BY CallType DEF AskUser, NeedsApproval, Goto, CallPhases, TypeOK, RunnerTypeOK
<1>2. /\ asked \in Seq(Request)
      /\ asked' = Append(asked, [stream |-> s, tool |-> Call(s)])
      /\ pending \in SUBSET (DOMAIN asked)
      /\ pending' = pending \cup {id}
  BY DEF AskUser, Broadcast, TypeOK, ApprovalTypeOK
<1>3. [stream |-> s, tool |-> Call(s)] \in Request
  BY <1>1 DEF Request
<1>4. /\ asked' \in Seq(Request)
      /\ DOMAIN asked' = 1 .. id
      /\ asked'[id] = [stream |-> s, tool |-> Call(s)]
      /\ \A k \in pending : asked'[k] = asked[k] /\ k # id /\ k \in 1 .. Len(asked)
  BY <1>2, <1>3
<1>5. ApprovalTypeOK'
  <2>1. pending' \in SUBSET (DOMAIN asked')
    BY <1>2, <1>4
  <2> QED BY <1>4, <2>1 DEF AskUser, Broadcast, TypeOK, ApprovalTypeOK
<1>6. RunnerTypeOK' /\ BootTypeOK'
  BY <1>1 DEF AskUser, TypeOK, RunnerTypeOK, BootTypeOK, Phases, LivePhases, bootVars
<1>7. LoopInRange'
  BY <1>1, LoopKept DEF LoopInRange, OthersStay, CallPhases
<1>8. PromptsMatchRequests'
  <2>1. PendingOf(s) = {} /\ \A k \in pending : asked[k].stream \in Streams
    BY <1>1, NoRequestUnlessWaiting, RequestType
  <2>2. ASSUME NEW x \in Streams, phase'[x] = "prompt"
        PROVE  \E k \in pending' : PendingOf(x)' = {k} /\ asked'[k].tool = Call(x)'
    <3>1. CASE x = s
      <4>1. PendingOf(x)' = {id}
        BY <1>2, <1>4, <2>1, <3>1 DEF PendingOf
      <4> QED BY <1>1, <1>2, <1>4, <3>1, <4>1 DEF Call
    <3>2. CASE x # s
      <4>1. PICK k \in pending : PendingOf(x) = {k} /\ asked[k].tool = Call(x)
        BY <1>1, <2>2, <3>2 DEF PromptsMatchRequests
      <4>2. PendingOf(x)' = {k}
        BY <1>2, <1>4, <3>2, <4>1 DEF PendingOf
      <4> QED BY <1>1, <1>2, <1>4, <4>1, <4>2 DEF Call
    <3> QED BY <3>1, <3>2
  <2>3. ASSUME NEW k \in pending' PROVE phase'[asked'[k].stream] = "prompt"
    <3>1. CASE k = id
      BY <1>1, <1>4, <3>1
    <3>2. CASE k # id
      BY <1>1, <1>2, <1>4, <2>1, <2>3, <3>2 DEF PromptsMatchRequests
    <3> QED BY <3>1, <3>2
  <2> QED BY <2>2, <2>3 DEF PromptsMatchRequests
<1> QED BY <1>5, <1>6, <1>7, <1>8 DEF TypeOK

\* What an answer or a policy edit leaves in the settings file.
LEMMA PolicyType ==
  ASSUME ApprovalTypeOK, NEW p \in PolicyStore, WritePolicies(p)
  PROVE  policies' \in PolicyStore /\ everAuto' \in SUBSET Tools
  BY DEF ApprovalTypeOK, WritePolicies, AutoTools

LEMMA RespondType ==
  ASSUME TypeOK, NEW id \in pending, NEW decision \in Decisions, NEW scope \in Scopes,
         NEW partial \in BOOLEAN, Respond(id, decision, scope, partial)
  PROVE  ApprovalTypeOK'
<1>1. asked[id].stream \in Streams /\ asked[id].tool \in Tools
  BY RequestType
<1>2. /\ asked' = asked
      /\ pending' = pending \ {id}
      /\ UNCHANGED <<readOnly, edits>>
  BY DEF Respond
<1>3. answers' \in SUBSET Answer
  <2>1. [stream |-> asked[id].stream, tool |-> asked[id].tool, decision |-> decision,
         scope |-> scope, partial |-> partial] \in Answer
    BY <1>1 DEF Answer
  <2> QED BY <2>1 DEF Respond, TypeOK, ApprovalTypeOK
<1>4. session' \in [Streams -> [Tools -> Decisions \cup {Unset}]]
  <2>1. session \in [Streams -> [Tools -> Decisions \cup {Unset}]]
    BY DEF TypeOK, ApprovalTypeOK
  <2>2. [session EXCEPT ![asked[id].stream][asked[id].tool] = decision]
           \in [Streams -> [Tools -> Decisions \cup {Unset}]]
    BY <1>1, <2>1
  <2> QED BY <2>1, <2>2 DEF Respond
<1>5. policies' \in PolicyStore /\ everAuto' \in SUBSET Tools
  <2>1. CASE scope = "always" /\ ~partial
    <3> DEFINE v == IF decision = "allow" THEN "auto" ELSE "deny"
    <3>1. v \in Policies \cup {Unset}
      BY DEF Policies
    <3> HIDE DEF v
    <3>2. [policies EXCEPT !.toolOverrides[asked[id].tool] = v] \in PolicyStore
      BY <1>1, <3>1 DEF TypeOK, ApprovalTypeOK, PolicyStore
    <3>3. WritePolicies([policies EXCEPT !.toolOverrides[asked[id].tool] = v])
      BY <2>1 DEF Respond, v
    <3> QED BY <3>2, <3>3, PolicyType DEF TypeOK
  <2>2. CASE ~(scope = "always" /\ ~partial)
    BY <2>2 DEF Respond, TypeOK, ApprovalTypeOK
  <2> QED BY <2>1, <2>2
<1> QED BY <1>2, <1>3, <1>4, <1>5 DEF TypeOK, ApprovalTypeOK

\* An answer that finds its request.
LEMMA AnswerControl ==
  ASSUME ControlInv, NEW id \in pending, NEW decision \in Decisions, NEW scope \in Scopes,
         NEW partial \in BOOLEAN, AnswerPrompt(id, decision, scope, partial)
  PROVE  ControlInv'
<1> DEFINE s == asked[id].stream
<1>1. /\ s \in Streams
      /\ phase[s] = "prompt"
      /\ Respond(id, decision, scope, partial)
      /\ Answered(s, decision, scope, partial)
      /\ aborted' = aborted
  BY RequestType DEF AnswerPrompt, ControlInv, PromptsMatchRequests
<1>2. PendingOf(s) = {id}
  BY <1>1 DEF ControlInv, PromptsMatchRequests, PendingOf
<1>3. asked' = asked /\ pending' = pending \ PendingOf(s)
  BY <1>1, <1>2 DEF Respond
<1>4. ApprovalTypeOK'
  BY <1>1, RespondType DEF ControlInv
<1>5. aborted' \in [Streams -> BOOLEAN] /\ aborted[s] \in BOOLEAN
  BY <1>1 DEF ControlInv, TypeOK, RunnerTypeOK
<1>6. phase[s] \in CallPhases /\ Call(s) \in Tools
  BY <1>1, CallType DEF CallPhases
<1>7. CASE Denied(s)
  BY <1>1, <1>3, <1>4, <1>5, <1>6, <1>7, FinishCallControl DEF Denied
<1>8. CASE ~Denied(s)
  <2>1. PICK g \in Grants : Granted(s, g, aborted[s])
    <3>1. /\ "prompt-allowed-partial" \in Grants
          /\ GrantOf(SourceOf(scope)) \in Grants
      BY DEF Scopes, SourceOf, GrantOf, Grants
    <3> QED BY <1>1, <1>8, <3>1 DEF Answered
  <2> QED BY <1>1, <1>3, <1>4, <1>5, <1>6, <2>1, GrantedControl
<1> QED BY <1>7, <1>8

LEMMA LateAnswerControl ==
  ASSUME ControlInv, UNCHANGED <<approvalVars, runnerVars, bootVars>>
  PROVE  ControlInv'
<1>1. TypeOK'
  BY DEF ControlInv, TypeOK, ApprovalTypeOK, RunnerTypeOK, BootTypeOK, approvalVars,
         runnerVars, bootVars
<1>2. LoopInRange'
  BY DEF ControlInv, LoopInRange, runnerVars
<1>3. PromptsMatchRequests'
  BY DEF ControlInv, PromptsMatchRequests, PendingOf, Call, runnerVars, approvalVars
<1> QED BY <1>1, <1>2, <1>3 DEF ControlInv

LEMMA CancelControl ==
  ASSUME ControlInv, NEW s \in Streams, CancelChatStream(s)
  PROVE  ControlInv'
<1>1. /\ asked' = asked
      /\ pending' = pending \ PendingOf(s)
      /\ aborted' \in [Streams -> BOOLEAN]
      /\ ApprovalTypeOK'
  BY DEF CancelChatStream, WithdrawRequests, ControlInv, TypeOK, RunnerTypeOK, ApprovalTypeOK
<1>2. CASE phase[s] = "prompt"
  <2>1. Denied(s) /\ phase[s] \in CallPhases /\ Call(s) \in Tools
    BY <1>2, CallType DEF CancelChatStream, CallPhases
  <2> QED BY <1>1, <2>1, FinishCallControl DEF Denied
<1>3. CASE phase[s] # "prompt"
  <2>1. UNCHANGED <<phase, turn, grant, wire, blocks, row, timer, slot, ledger, bootVars>>
    BY <1>3 DEF CancelChatStream
  <2>2. TypeOK'
    BY <1>1, <2>1 DEF ControlInv, TypeOK, RunnerTypeOK, BootTypeOK, bootVars
  <2>3. LoopInRange'
    BY <2>1 DEF ControlInv, LoopInRange
  <2>4. PromptsMatchRequests'
    BY <1>1, <1>3, <2>1, PromptsUndisturbed, NoRequestUnlessWaiting
    DEF ControlInv, OthersStay
  <2> QED BY <2>2, <2>3, <2>4 DEF ControlInv
<1> QED BY <1>2, <1>3

\* The steps of a stream that leave the gateway alone and open no prompt.
QuietStep(s) ==
    \/ StartChatStream(s)
    \/ RunStream(s)
    \/ BeginAttempt(s)
    \/ ProviderText(s)
    \/ \E t \in Tools : ProviderToolCall(s, t)
    \/ \E reason \in StopReasons : ProviderDone(s, reason)
    \/ \E retryable \in BOOLEAN : ProviderError(s, retryable)
    \/ ProviderCutOff(s)
    \/ ScheduleRetry(s)
    \/ WakeFromBackoff(s)
    \/ EnterTools(s)
    \/ Captured(s)
    \/ StartTool(s)
    \/ CheckpointTimer(s)

LEMMA QuietFrame ==
  ASSUME ControlInv, NEW s \in Streams, QuietStep(s)
  PROVE  /\ UNCHANGED <<approvalVars, aborted, grant, ledger, bootVars>>
         /\ OthersStay(s)
         /\ phase'[s] \in Phases \ {"prompt", "call"} \/ EnterTools(s) \/ CheckpointTimer(s)
         /\ phase[s] # "prompt" \/ CheckpointTimer(s)
<1>1. phase \in [Streams -> Phases] /\ turn \in [Streams -> Turn]
  BY DEF ControlInv, TypeOK, RunnerTypeOK
<1> QED
  BY <1>1
  DEF QuietStep, OthersStay, Goto, Phases, LivePhases, StartChatStream, RunStream, BeginAttempt,
      ProviderText, ProviderToolCall, ProviderDone, ProviderError, ProviderCutOff,
      ScheduleRetry, WakeFromBackoff, EnterTools, Captured, StartTool, CheckpointTimer

LEMMA QuietTurn ==
  ASSUME ControlInv, NEW s \in Streams, QuietStep(s)
  PROVE  turn' \in [Streams -> Turn]
<1>1. turn \in [Streams -> Turn] /\ turn[s] \in Turn
  BY DEF ControlInv, TypeOK, RunnerTypeOK
<1>2. CASE BeginAttempt(s)
  <2>1. <<>> \in Seq(Tools)
    OBVIOUS
  <2>2. [turn[s] EXCEPT !.calls = <<>>, !.pos = 0, !.text = FALSE, !.retry = FALSE,
                        !.failed = FALSE, !.stop = "other"] \in Turn
    BY <1>1, <2>1 DEF Turn, StopReasons
  <2> QED BY <1>1, <1>2, <2>2 DEF BeginAttempt
<1>3. CASE ProviderText(s)
  <2>1. [turn[s] EXCEPT !.text = TRUE] \in Turn
    BY <1>1 DEF Turn
  <2> QED BY <1>1, <1>3, <2>1 DEF ProviderText
<1>4. ASSUME NEW t \in Tools, ProviderToolCall(s, t) PROVE turn' \in [Streams -> Turn]
  <2>1. Append(turn[s].calls, t) \in Seq(Tools)
    BY <1>1 DEF Turn
  <2>2. [turn[s] EXCEPT !.calls = Append(@, t)] \in Turn
    BY <1>1, <2>1 DEF Turn
  <2> QED BY <1>1, <1>4, <2>2 DEF ProviderToolCall
<1>5. ASSUME NEW reason \in StopReasons, ProviderDone(s, reason)
      PROVE  turn' \in [Streams -> Turn]
  <2>1. [turn[s] EXCEPT !.stop = reason] \in Turn
    BY <1>1 DEF Turn
  <2> QED BY <1>1, <1>5, <2>1 DEF ProviderDone
<1>6. ASSUME NEW retryable \in BOOLEAN, ProviderError(s, retryable)
      PROVE  turn' \in [Streams -> Turn]
  <2>1. /\ [turn[s] EXCEPT !.retry = TRUE] \in Turn
        /\ [turn[s] EXCEPT !.failed = TRUE] \in Turn
    BY <1>1 DEF Turn
  <2> QED BY <1>1, <1>6, <2>1 DEF ProviderError
<1>7. CASE ScheduleRetry(s)
  <2>1. turn[s].attempt + 1 \in 0 .. MaxAttempts - 1
    BY <1>1, <1>7, RunnerAssumption DEF Turn, ScheduleRetry
  <2> DEFINE next == turn[s].attempt + 1
  <2> HIDE DEF next
  <2>2. [turn[s] EXCEPT !.attempt = next] \in Turn
    BY <1>1, <2>1 DEF Turn, next
  <2> QED BY <1>1, <1>7, <2>2 DEF ScheduleRetry, next
<1>8. CASE EnterTools(s)
  <2>1. [turn[s] EXCEPT !.pos = 1] \in Turn
    BY <1>1 DEF Turn
  <2> QED BY <1>1, <1>8, <2>1 DEF EnterTools
<1>9. CASE UNCHANGED turn
  BY <1>1, <1>9
<1> QED
  BY <1>2, <1>3, <1>4, <1>5, <1>6, <1>7, <1>8, <1>9
  DEF QuietStep, StartChatStream, RunStream, ProviderCutOff, WakeFromBackoff, Captured,
      StartTool, CheckpointTimer

LEMMA QuietRow ==
  ASSUME ControlInv, NEW s \in Streams, QuietStep(s)
  PROVE  row' \in [Streams -> Row] /\ timer' \in [Streams -> {"idle", "open", "trailing"}]
<1>1. /\ row \in [Streams -> Row]
      /\ timer \in [Streams -> {"idle", "open", "trailing"}]
      /\ blocks \in [Streams -> Transcript]
  BY DEF ControlInv, TypeOK, RunnerTypeOK
<1>2. CASE StartChatStream(s)
  <2>1. [status |-> "streaming", saved |-> EmptyTranscript] \in Row
    BY InitialValues DEF Row
  <2> QED BY <1>1, <1>2, <2>1 DEF StartChatStream
<1>3. CASE ProviderText(s)
  BY <1>1, <1>3, CheckpointType DEF ProviderText, ControlInv
<1>4. CASE CheckpointTimer(s)
  <2>1. [row[s] EXCEPT !.saved = blocks[s]] \in Row
    BY <1>1 DEF Row
  <2>2. \A r \in Saved(s, blocks[s]) : r \in Row
    BY <1>1, <2>1, WrittenType DEF Saved
  <2> QED BY <1>1, <1>4, <2>2 DEF CheckpointTimer
<1>5. CASE UNCHANGED <<row, timer>>
  BY <1>1, <1>5
<1> QED
  BY <1>2, <1>3, <1>4, <1>5
  DEF QuietStep, RunStream, BeginAttempt, ProviderToolCall, ProviderDone, ProviderError,
      ProviderCutOff, ScheduleRetry, WakeFromBackoff, EnterTools, Captured, StartTool

LEMMA QuietType ==
  ASSUME ControlInv, NEW s \in Streams, QuietStep(s)
  PROVE  TypeOK'
<1>1. /\ phase \in [Streams -> Phases]
      /\ wire \in [Streams -> Wires]
      /\ blocks \in [Streams -> Transcript]
      /\ slot \in [Conversations -> Streams \cup {NoStream}]
      /\ turn[s] \in Turn
  BY DEF ControlInv, TypeOK, RunnerTypeOK
<1>2. UNCHANGED <<approvalVars, aborted, grant, ledger, bootVars>>
  BY QuietFrame
<1>3. ApprovalTypeOK' /\ BootTypeOK'
  BY <1>2 DEF ControlInv, TypeOK, ApprovalTypeOK, BootTypeOK, approvalVars, bootVars
<1>4. phase' \in [Streams -> Phases]
  <2>1. phase' = phase \/ \E p \in LivePhases : phase' = [phase EXCEPT ![s] = p]
    <3>1. CASE ProviderText(s) \/ \E t \in Tools : ProviderToolCall(s, t)
      BY <3>1 DEF ProviderText, ProviderToolCall
    <3>2. CASE StartChatStream(s) \/ RunStream(s) \/ BeginAttempt(s)
      BY <3>2 DEF Goto, LivePhases, StartChatStream, RunStream, BeginAttempt
    <3>3. CASE \/ \E reason \in StopReasons : ProviderDone(s, reason)
               \/ \E retryable \in BOOLEAN : ProviderError(s, retryable)
               \/ ProviderCutOff(s)
      BY <3>3 DEF Goto, LivePhases, ProviderDone, ProviderError, ProviderCutOff
    <3>4. CASE ScheduleRetry(s) \/ WakeFromBackoff(s)
      BY <3>4 DEF Goto, LivePhases, ScheduleRetry, WakeFromBackoff
    <3>5. CASE EnterTools(s) \/ Captured(s) \/ StartTool(s) \/ CheckpointTimer(s)
      BY <3>5 DEF Goto, LivePhases, EnterTools, Captured, StartTool, CheckpointTimer
    <3> QED BY <3>1, <3>2, <3>3, <3>4, <3>5 DEF QuietStep
  <2> QED BY <1>1, <2>1 DEF Phases
<1>5. wire' \in [Streams -> Wires]
  BY <1>1, EmitType
  DEF QuietStep, Send, StartChatStream, RunStream, BeginAttempt,
      ProviderText, ProviderToolCall, ProviderDone, ProviderError, ProviderCutOff,
      ScheduleRetry, WakeFromBackoff, EnterTools, Captured, StartTool, CheckpointTimer
<1>6. blocks' \in [Streams -> Transcript]
  <2>1. CASE EnterTools(s)
    <3>1. Len(turn[s].calls) \in Nat
      BY <1>1 DEF Turn
    <3>2. blocks[s].uses + Len(turn[s].calls) \in Nat
      BY <1>1, <3>1 DEF Transcript
    <3> DEFINE n == blocks[s].uses + Len(turn[s].calls)
    <3> HIDE DEF n
    <3>3. [blocks[s] EXCEPT !.uses = n] \in Transcript
      BY <1>1, <3>2 DEF Transcript, n
    <3> QED BY <1>1, <2>1, <3>3 DEF EnterTools, n
  <2>2. CASE UNCHANGED blocks
    BY <1>1, <2>2
  <2> QED
    BY <2>1, <2>2
    DEF QuietStep, StartChatStream, RunStream, BeginAttempt, ProviderText, ProviderToolCall,
        ProviderDone, ProviderError, ProviderCutOff, ScheduleRetry, WakeFromBackoff, Captured,
        StartTool, CheckpointTimer
<1>7. slot' \in [Conversations -> Streams \cup {NoStream}]
  BY <1>1
  DEF QuietStep, StartChatStream, RunStream, BeginAttempt,
      ProviderText, ProviderToolCall, ProviderDone, ProviderError, ProviderCutOff,
      ScheduleRetry, WakeFromBackoff, EnterTools, Captured, StartTool, CheckpointTimer
<1>8. aborted' \in [Streams -> BOOLEAN] /\ grant' \in [Streams -> Grants \cup {NoGrant}]
      /\ ledger' \in [Streams -> SUBSET Entry]
  BY <1>2 DEF ControlInv, TypeOK, RunnerTypeOK
<1> QED
  BY <1>3, <1>4, <1>5, <1>6, <1>7, <1>8, QuietTurn, QuietRow DEF TypeOK, RunnerTypeOK

LEMMA QuietControl ==
  ASSUME ControlInv, NEW s \in Streams, QuietStep(s)
  PROVE  ControlInv'
<1>1. /\ phase \in [Streams -> Phases]
      /\ turn \in [Streams -> Turn]
      /\ turn[s] \in Turn
  BY DEF ControlInv, TypeOK, RunnerTypeOK
<1>2. /\ UNCHANGED <<approvalVars, aborted, grant, ledger, bootVars>>
      /\ OthersStay(s)
  BY QuietFrame
<1>3. CASE CheckpointTimer(s)
  <2>1. UNCHANGED <<phase, turn, grant, asked, pending>>
    BY <1>3 DEF CheckpointTimer, approvalVars
  <2>2. LoopInRange'
    BY <2>1 DEF ControlInv, LoopInRange
  <2>3. PromptsMatchRequests'
    BY <2>1 DEF ControlInv, PromptsMatchRequests, PendingOf, Call
  <2> QED BY <2>2, <2>3, QuietType DEF ControlInv
<1>4. CASE ~CheckpointTimer(s)
  <2>1. PromptsMatchRequests'
    <3>1. phase[s] # "prompt" /\ phase'[s] # "prompt"
      BY <1>1, <1>4, QuietFrame DEF EnterTools, Goto
    <3>2. UNCHANGED <<asked, pending>>
      BY <1>2 DEF approvalVars
    <3> QED BY <1>2, <3>1, <3>2, PromptsUndisturbed DEF ControlInv
  <2>2. LoopInRange'
    <3>1. CASE EnterTools(s)
      <4>1. /\ turn'[s].pos = 1
            /\ turn'[s].calls = turn[s].calls
            /\ turn'[s].iter = turn[s].iter
            /\ phase'[s] = "call"
        BY <1>1, <3>1 DEF EnterTools, Goto, Turn
      <4>2. turn[s].calls \in Seq(Tools) /\ turn[s].calls # <<>>
        BY <1>1, <3>1 DEF Turn, EnterTools, WantsTools
      <4>3. 1 \in 1 .. Len(turn[s].calls)
        BY <4>2
      <4>4. turn[s].iter < MaxIterations
        BY <3>1 DEF EnterTools, ControlInv, LoopInRange
      <4> QED BY <1>2, <4>1, <4>3, <4>4, LoopKept DEF ControlInv, CallPhases
    <3>2. CASE Captured(s) \/ StartTool(s)
      <4>1. /\ UNCHANGED <<turn, grant>>
            /\ phase[s] \in {"capture", "dispatch"}
        BY <3>2 DEF Captured, StartTool
      <4> QED BY <1>2, <4>1, LoopKept DEF ControlInv, LoopInRange, CallPhases
    <3>3. CASE StartChatStream(s) \/ RunStream(s)
      BY <1>1, <1>2, <3>3, LoopKept DEF StartChatStream, RunStream, Goto, ControlInv, CallPhases
    <3>4. CASE BeginAttempt(s)
      <4>1. turn'[s].iter = turn[s].iter /\ turn[s].iter < MaxIterations
        BY <1>1, <3>4 DEF BeginAttempt, Turn
      <4>2. phase'[s] = "streaming"
        BY <1>1, <3>4 DEF BeginAttempt, Goto
      <4> QED BY <1>2, <4>1, <4>2, LoopKept DEF ControlInv, CallPhases
    <3>5. CASE \/ ProviderText(s)
               \/ \E t \in Tools : ProviderToolCall(s, t)
               \/ \E reason \in StopReasons : ProviderDone(s, reason)
               \/ \E retryable \in BOOLEAN : ProviderError(s, retryable)
               \/ ProviderCutOff(s)
               \/ ScheduleRetry(s)
      <4>1. phase[s] \in {"streaming", "settled"} /\ phase'[s] \in {"streaming", "settled", "backoff"}
        BY <1>1, <3>5
        DEF ProviderText, ProviderToolCall, ProviderDone, ProviderError, ProviderCutOff,
            ScheduleRetry, Goto
      <4>2. turn'[s].iter = turn[s].iter
        BY <1>1, <3>5
        DEF ProviderText, ProviderToolCall, ProviderDone, ProviderError, ProviderCutOff,
            ScheduleRetry, Turn
      <4> QED BY <1>2, <4>1, <4>2, LoopKept DEF ControlInv, LoopInRange, CallPhases
    <3>6. CASE WakeFromBackoff(s)
      <4>1. phase[s] = "backoff" /\ phase'[s] \in {"settled", "attempt"} /\ turn' = turn
        BY <1>1, <3>6 DEF WakeFromBackoff, Goto
      <4> QED BY <1>2, <4>1, LoopKept DEF ControlInv, LoopInRange, CallPhases
    <3> QED BY <1>4, <3>1, <3>2, <3>3, <3>4, <3>5, <3>6 DEF QuietStep
  <2> QED BY <2>1, <2>2, QuietType DEF ControlInv
<1> QED BY <1>3, <1>4

\* The steps of the process and of the user that are no stream's own.
LEMMA WorldControl ==
  ASSUME ControlInv,
         \/ Crash
         \/ Boot
         \/ \E c \in Conversations : Reattach(c) \/ DeleteConversation(c)
         \/ ChangeSettings
  PROVE  ControlInv'
<1> USE DEF ControlInv, TypeOK
<1>1. CASE Crash
  <2>1. ApprovalTypeOK'
    BY <1>1 DEF Crash, ForgetApprovals, ApprovalTypeOK
  <2>2. RunnerTypeOK'
    BY <1>1, InitialValues DEF Crash, RunnerTypeOK, Phases, LivePhases
  <2>3. BootTypeOK'
    <3>1. crashes' \in 0 .. MaxCrashes
      BY <1>1, RunnerAssumption DEF Crash, BootTypeOK
    <3>2. UNCHANGED <<deleted, surfaced>> /\ up' = FALSE /\ interrupted' = {}
      BY <1>1 DEF Crash
    <3> QED BY <3>1, <3>2 DEF BootTypeOK
  <2>4. LoopInRange' /\ PromptsMatchRequests'
    BY <1>1
    DEF Crash, ForgetApprovals, LoopInRange, PromptsMatchRequests, Live, CallPhases,
        LivePhases, RunnerTypeOK, Phases
  <2> QED BY <2>1, <2>2, <2>3, <2>4
<1>2. CASE Boot
  <2>1. row' \in [Streams -> Row]
    BY <1>2 DEF Boot, RunnerTypeOK, Row, StreamingRows
  <2>2. TypeOK'
    BY <1>2, <2>1 DEF Boot, ApprovalTypeOK, RunnerTypeOK, BootTypeOK, approvalVars, StreamingRows
  <2>3. LoopInRange' /\ PromptsMatchRequests'
    BY <1>2 DEF Boot, approvalVars, LoopInRange, PromptsMatchRequests, PendingOf, Call
  <2> QED BY <2>2, <2>3
<1>3. ASSUME NEW c \in Conversations, Reattach(c) PROVE ControlInv'
  <2>1. TypeOK'
    BY <1>3
    DEF Reattach, approvalVars, runnerVars, ApprovalTypeOK, RunnerTypeOK, BootTypeOK
  <2>2. LoopInRange' /\ PromptsMatchRequests'
    BY <1>3
    DEF Reattach, approvalVars, runnerVars, LoopInRange, PromptsMatchRequests, PendingOf, Call
  <2> QED BY <2>1, <2>2
<1>4. ASSUME NEW c \in Conversations, DeleteConversation(c) PROVE ControlInv'
  <2>1. row' \in [Streams -> Row]
    BY <1>4, InitialValues DEF DeleteConversation, RunnerTypeOK
  <2>2. TypeOK'
    BY <1>4, <2>1, RunnerAssumption
    DEF DeleteConversation, approvalVars, ApprovalTypeOK, RunnerTypeOK, BootTypeOK
  <2>3. LoopInRange' /\ PromptsMatchRequests'
    BY <1>4
    DEF DeleteConversation, approvalVars, LoopInRange, PromptsMatchRequests, PendingOf, Call
  <2> QED BY <2>2, <2>3
<1>5. CASE ChangeSettings
  <2>1. ApprovalTypeOK'
    <3>1. ASSUME NEW t \in Tools, NEW p \in Policies, SetTierPolicy(Tier[t], p)
          PROVE  ApprovalTypeOK'
      <4>1. [policies EXCEPT !.tierDefaults[Tier[t]] = p] \in PolicyStore
        BY ApprovalAssumption DEF ApprovalTypeOK, PolicyStore
      <4> QED BY <3>1, <4>1, PolicyType, ApprovalAssumption DEF SetTierPolicy, ApprovalTypeOK
    <3>2. ASSUME NEW t \in Tools, NEW p \in Policies \cup {Unset}, SetToolPolicy(t, p)
          PROVE  ApprovalTypeOK'
      <4>1. [policies EXCEPT !.toolOverrides[t] = p] \in PolicyStore
        BY DEF ApprovalTypeOK, PolicyStore
      <4> QED BY <3>2, <4>1, PolicyType, ApprovalAssumption DEF SetToolPolicy, ApprovalTypeOK
    <3>3. ASSUME NEW on \in BOOLEAN, SetReadOnly(on) PROVE ApprovalTypeOK'
      BY <3>3, ApprovalAssumption DEF SetReadOnly, ApprovalTypeOK
    <3> QED BY <1>5, <3>1, <3>2, <3>3 DEF ChangeSettings
  <2>2. UNCHANGED <<runnerVars, bootVars, asked, pending>>
    BY <1>5 DEF ChangeSettings, SetTierPolicy, SetToolPolicy, SetReadOnly
  <2>3. RunnerTypeOK' /\ BootTypeOK'
    BY <2>2 DEF RunnerTypeOK, BootTypeOK, runnerVars, bootVars
  <2>4. LoopInRange' /\ PromptsMatchRequests'
    BY <2>2 DEF runnerVars, LoopInRange, PromptsMatchRequests, PendingOf, Call
  <2> QED BY <2>1, <2>3, <2>4
<1> QED BY <1>1, <1>2, <1>3, <1>4, <1>5

LEMMA StutterControl == ControlInv /\ UNCHANGED vars => ControlInv'
  BY LateAnswerControl DEF vars

\* Every step keeps the control invariant.
LEMMA NextControl == ControlInv /\ [Next]_vars => ControlInv'
<1> SUFFICES ASSUME ControlInv, [Next]_vars PROVE ControlInv'
  OBVIOUS
<1>1. ASSUME NEW s \in Streams,
             ProviderStep(s) \/ LoopStep(s) \/ UserStep(s) \/ CheckpointTimer(s)
      PROVE  ControlInv'
  BY <1>1, EndingControl, SettlingControl, UnaskedControl, AskControl, CancelControl,
     QuietControl
  DEF ProviderStep, LoopStep, UserStep, QuietStep
<1>2. ASSUME NEW id \in DOMAIN asked, NEW decision \in Decisions, NEW scope \in Scopes,
             NEW partial \in BOOLEAN, AnswerPrompt(id, decision, scope, partial)
      PROVE  ControlInv'
  <2>1. CASE id \in pending
    BY <1>2, <2>1, AnswerControl
  <2>2. CASE id \notin pending
    BY <1>2, <2>2, LateAnswerControl DEF AnswerPrompt, Respond, runnerVars
  <2> QED BY <2>1, <2>2
<1> QED BY <1>1, <1>2, WorldControl, StutterControl DEF Next

\* The types of the whole state, for every set of streams and tools.
THEOREM TypeCorrect == Spec => []TypeOK
<1>1. ControlInv => TypeOK
  BY DEF ControlInv
<1> QED BY <1>1, InitControl, NextControl, PTL DEF Spec

\* A stream that waits for an answer has exactly its own request in the
\* gateway, and the gateway keeps no request nobody waits for.
THEOREM PromptsMatched == Spec => []PromptsMatchRequests
<1>1. ControlInv => PromptsMatchRequests
  BY DEF ControlInv
<1> QED BY <1>1, InitControl, NextControl, PTL DEF Spec

-----------------------------------------------------------------------------
(* The inductive invariant behind consent                                  *)

RunPhases == {"capture", "dispatch", "execute"}

\* The audit entry a granted call would leave if it ran to its end now.
RunEntry(s) == [tool |-> ExecTool(s), asked |-> Call(s), decision |-> grant[s], ran |-> TRUE]

\* A call on its way to its tool is covered already.
GrantsJustified ==
    \A s \in Streams :
        phase[s] \in RunPhases /\ Tier[Call(s)] # "read" => Backed(s, RunEntry(s))

\* An override that allows stands for an answer that allowed for the session.
SessionsJustified ==
    \A s \in Streams, t \in Tools :
        session[s][t] = "allow" =>
            \E a \in answers : /\ a.stream = s /\ a.tool = t /\ a.decision = "allow"
                               /\ a.scope = "session" /\ ~a.partial

AutoRemembered == AutoTools(policies) \subseteq everAuto

ConsentInv ==
    /\ ControlInv
    /\ GrantsJustified
    /\ SessionsJustified
    /\ AutoRemembered
    /\ SessionsDieWithStream
    /\ ConsentTraceable

HistoryGrows == answers \subseteq answers' /\ everAuto \subseteq everAuto'

LEMMA InitConsent == Init => ConsentInv
<1> SUFFICES ASSUME Init PROVE ConsentInv
  OBVIOUS
<1>1. GrantsJustified
  BY DEF Init, GrantsJustified, RunPhases
<1>2. SessionsJustified /\ SessionsDieWithStream
  BY DEF Init, ApprovalInit, SessionsJustified, SessionsDieWithStream, Unset
<1>3. AutoRemembered
  BY DEF Init, ApprovalInit, AutoRemembered
<1>4. ConsentTraceable
  BY DEF Init, ConsentTraceable
<1> QED BY <1>1, <1>2, <1>3, <1>4, InitControl DEF ConsentInv

LEMMA BackedKept ==
  ASSUME HistoryGrows, NEW s, NEW e, Backed(s, e)
  PROVE  Backed(s, e)'
  BY DEF HistoryGrows, Backed

LEMMA LedgerKept ==
  ASSUME ConsentTraceable, HistoryGrows, ledger' = ledger
  PROVE  ConsentTraceable'
  BY BackedKept DEF ConsentTraceable

LEMMA GrantsKept ==
  ASSUME GrantsJustified, HistoryGrows, NEW s \in Streams, OthersStay(s),
         phase'[s] \in RunPhases /\ Tier[Call(s)'] # "read" => Backed(s, RunEntry(s))'
  PROVE  GrantsJustified'
<1> SUFFICES ASSUME NEW x \in Streams, phase'[x] \in RunPhases, Tier[Call(x)'] # "read"
             PROVE  Backed(x, RunEntry(x))'
  BY DEF GrantsJustified
<1>1. CASE x = s
  BY <1>1
<1>2. CASE x # s
  <2>1. phase'[x] = phase[x] /\ turn'[x] = turn[x] /\ grant'[x] = grant[x]
    BY <1>2 DEF OthersStay
  <2>2. Call(x)' = Call(x) /\ RunEntry(x)' = RunEntry(x)
    BY <2>1 DEF Call, RunEntry, ExecTool
  <2>3. Backed(x, RunEntry(x))
    BY <2>1, <2>2 DEF GrantsJustified
  <2> QED BY <2>2, <2>3 DEF Backed, HistoryGrows
<1> QED BY <1>1, <1>2

LEMMA SessionsKept ==
  ASSUME SessionsJustified, HistoryGrows,
         \A x \in Streams, t \in Tools : session'[x][t] \in {session[x][t], Unset}
  PROVE  SessionsJustified'
<1> SUFFICES ASSUME NEW x \in Streams, NEW t \in Tools, session'[x][t] = "allow"
             PROVE  \E a \in answers' : /\ a.stream = x /\ a.tool = t /\ a.decision = "allow"
                                        /\ a.scope = "session" /\ ~a.partial
  BY DEF SessionsJustified
<1>1. session[x][t] = "allow"
  BY DEF Unset
<1> QED BY <1>1 DEF SessionsJustified, HistoryGrows

\* The end of a turn clears the session and reports nothing new.
LEMMA FinishConsent ==
  ASSUME ConsentInv, ControlInv', NEW s \in Streams, NEW latest, Finish(s, latest)
  PROVE  ConsentInv'
<1> USE DEF ConsentInv
<1>1. /\ phase \in [Streams -> Phases]
      /\ turn \in [Streams -> Turn]
      /\ session \in [Streams -> [Tools -> Decisions \cup {Unset}]]
  BY DEF ControlInv, TypeOK, ApprovalTypeOK, RunnerTypeOK
<1>2. /\ OthersStay(s)
      /\ phase' = [phase EXCEPT ![s] = "ended"]
      /\ session' = [session EXCEPT ![s] = [t \in Tools |-> Unset]]
      /\ UNCHANGED <<policies, answers, everAuto, ledger>>
  BY <1>1 DEF Finish, Goto, OthersStay, ClearSession
<1>3. HistoryGrows
  BY <1>2 DEF HistoryGrows
<1>4. GrantsJustified'
  BY <1>1, <1>2, <1>3, GrantsKept DEF RunPhases
<1>5. SessionsJustified'
  BY <1>1, <1>2, <1>3, SessionsKept
<1>6. AutoRemembered'
  BY <1>2 DEF AutoRemembered, AutoTools, EffectivePolicy
<1>7. SessionsDieWithStream'
  BY <1>1, <1>2 DEF SessionsDieWithStream, Live
<1>8. ConsentTraceable'
  BY <1>2, <1>3, LedgerKept
<1> QED BY <1>4, <1>5, <1>6, <1>7, <1>8

LEMMA EndingConsent ==
  ASSUME ConsentInv, NEW s \in Streams,
         \/ BudgetRefuses(s)
         \/ IterationsExhausted(s)
         \/ ProviderThrows(s)
         \/ CancelSeen(s)
         \/ GiveUp(s)
         \/ ErrorEndsTurn(s)
         \/ CompleteTurn(s)
  PROVE  ConsentInv'
<1>1. ControlInv'
  BY EndingControl DEF ConsentInv
<1>2. PICK latest : Finish(s, latest)
  BY DEF BudgetRefuses, IterationsExhausted, ProviderThrows, CancelSeen, GiveUp,
         ErrorEndsTurn, CompleteTurn, Throws, EndTurn
<1> QED BY <1>1, <1>2, FinishConsent

\* An answered call: what ran was covered, and the gateway only loses requests.
LEMMA FinishCallConsent ==
  ASSUME ConsentInv, ControlInv', NEW s \in Streams, phase[s] \in CallPhases,
         NEW tool, NEW decision, NEW ran \in BOOLEAN,
         FinishCall(s, tool, decision, ran),
         ran /\ Tier[Call(s)] # "read" =>
            Backed(s, [tool |-> tool, asked |-> Call(s), decision |-> decision, ran |-> ran]),
         HistoryGrows, AutoRemembered', SessionsJustified',
         \A x \in Streams, t \in Tools : session'[x][t] # Unset => session[x][t] # Unset \/ x = s
  PROVE  ConsentInv'
<1> USE DEF ConsentInv
<1>1. /\ phase \in [Streams -> Phases]
      /\ turn \in [Streams -> Turn]
      /\ grant \in [Streams -> Grants \cup {NoGrant}]
      /\ ledger \in [Streams -> SUBSET Entry]
  BY DEF ControlInv, TypeOK, RunnerTypeOK
<1>2. /\ OthersStay(s)
      /\ phase'[s] \in {"call", "attempt"}
      /\ \A x \in Streams \ {s} : phase'[x] = phase[x]
  BY <1>1 DEF FinishCall, Goto, OthersStay
<1>3. GrantsJustified'
  BY <1>2, GrantsKept DEF RunPhases
<1>4. SessionsDieWithStream'
  BY <1>2 DEF SessionsDieWithStream, Live, LivePhases
<1>5. ConsentTraceable'
  <2> SUFFICES ASSUME NEW x \in Streams, NEW e \in ledger'[x], e.ran, Tier[e.asked] # "read"
               PROVE  Backed(x, e)'
    BY DEF ConsentTraceable
  <2> DEFINE new == [tool |-> tool, asked |-> Call(s), decision |-> decision, ran |-> ran]
  <2>1. e \in ledger[x] \/ (x = s /\ e = new)
    BY <1>1 DEF FinishCall
  <2>2. CASE e \in ledger[x]
    BY <2>2, BackedKept DEF ConsentTraceable
  <2>3. CASE x = s /\ e = new
    <3>1. Backed(s, e)
      BY <2>3
    <3> QED BY <2>3, <3>1, BackedKept
  <2> QED BY <2>1, <2>2, <2>3
<1> QED BY <1>3, <1>4, <1>5

\* A call let through with a grant that covers it.
LEMMA GrantedConsent ==
  ASSUME ConsentInv, ControlInv', NEW s \in Streams, phase[s] \in CallPhases, NEW g \in Grants,
         NEW ab \in BOOLEAN, Granted(s, g, ab), HistoryGrows, AutoRemembered',
         SessionsJustified',
         Tier[Call(s)] # "read" =>
            Backed(s, [tool  |-> IF g = "prompt-allowed-partial" THEN WriteFile ELSE Call(s),
                       asked |-> Call(s), decision |-> g, ran |-> TRUE])',
         \A x \in Streams, t \in Tools : session'[x][t] # Unset => session[x][t] # Unset \/ x = s
  PROVE  ConsentInv'
<1> USE DEF ConsentInv
<1>1. /\ phase \in [Streams -> Phases]
      /\ turn \in [Streams -> Turn]
      /\ grant \in [Streams -> Grants \cup {NoGrant}]
  BY DEF ControlInv, TypeOK, RunnerTypeOK
<1>2. /\ OthersStay(s)
      /\ phase'[s] \in {"capture", "dispatch"}
      /\ grant'[s] = g
      /\ turn'[s].calls = turn[s].calls /\ turn'[s].pos = turn[s].pos
      /\ ledger' = ledger
  BY <1>1 DEF Granted, Goto, OthersStay, Turn
<1>3. GrantsJustified'
  <2>1. Call(s)' = Call(s)
    BY <1>2 DEF Call
  <2>2. RunEntry(s)' = [tool |-> IF g = "prompt-allowed-partial" THEN WriteFile ELSE Call(s),
                        asked |-> Call(s), decision |-> g, ran |-> TRUE]
    BY <1>2, <2>1 DEF RunEntry, ExecTool
  <2>3. Tier[Call(s)'] # "read" => Backed(s, RunEntry(s))'
    <3> HIDE DEF RunEntry
    <3> QED BY <1>2, <2>1, <2>2 DEF Backed
  <2> QED BY <1>2, <2>3, GrantsKept
<1>4. SessionsDieWithStream'
  BY <1>2 DEF SessionsDieWithStream, Live, LivePhases, OthersStay
<1>5. ConsentTraceable'
  BY <1>2, LedgerKept
<1> QED BY <1>3, <1>4, <1>5

\* What holds of consent when the gateway is left alone.
LEMMA GatewayUntouched ==
  ASSUME ConsentInv, UNCHANGED approvalVars
  PROVE  /\ HistoryGrows
         /\ AutoRemembered'
         /\ SessionsJustified'
         /\ \A x \in Streams, t \in Tools : session'[x][t] = session[x][t]
<1>1. HistoryGrows /\ UNCHANGED <<session, policies, everAuto>>
  BY DEF approvalVars, HistoryGrows
<1>2. AutoRemembered'
  BY <1>1 DEF ConsentInv, AutoRemembered, AutoTools, EffectivePolicy
<1>3. SessionsJustified'
  BY <1>1, SessionsKept DEF ConsentInv
<1> QED BY <1>1, <1>2, <1>3

LEMMA SettlingConsent ==
  ASSUME ConsentInv, NEW s \in Streams,
         UnknownTool(s) \/ RefusedUnasked(s) \/ ToolCancelled(s) \/ ToolSettles(s)
  PROVE  ConsentInv'
<1>1. ControlInv'
  BY SettlingControl DEF ConsentInv
<1>2. UNCHANGED approvalVars
  BY DEF UnknownTool, RefusedUnasked, ToolCancelled, ToolSettles
<1>3. phase[s] \in CallPhases
  BY DEF UnknownTool, RefusedUnasked, NeedsApproval, ToolCancelled, ToolSettles, CallPhases
<1>4. CASE Denied(s)
  BY <1>1, <1>2, <1>3, <1>4, GatewayUntouched, FinishCallConsent DEF Denied
<1>5. CASE ToolCancelled(s)
  BY <1>1, <1>2, <1>3, <1>5, GatewayUntouched, FinishCallConsent DEF ToolCancelled
<1>6. CASE ToolSettles(s)
  <2>1. Tier[Call(s)] # "read" => Backed(s, RunEntry(s))
    BY <1>6 DEF ConsentInv, GrantsJustified, ToolSettles, RunPhases
  <2>2. FinishCall(s, ExecTool(s), grant[s], TRUE)
    BY <1>6 DEF ToolSettles
  <2> QED BY <1>1, <1>2, <1>3, <2>1, <2>2, GatewayUntouched, FinishCallConsent DEF RunEntry
<1> QED BY <1>4, <1>5, <1>6 DEF UnknownTool, RefusedUnasked

LEMMA UnaskedConsent ==
  ASSUME ConsentInv, NEW s \in Streams, ReadTool(s) \/ ApprovedUnasked(s)
  PROVE  ConsentInv'
<1>1. ControlInv'
  BY UnaskedControl DEF ConsentInv
<1>2. UNCHANGED approvalVars /\ UNCHANGED <<answers, everAuto>>
  BY DEF ReadTool, ApprovedUnasked, approvalVars
<1>3. phase[s] \in CallPhases /\ phase[s] = "call" /\ aborted[s] \in BOOLEAN
  BY DEF ReadTool, ApprovedUnasked, NeedsApproval, CallPhases, ConsentInv, ControlInv, TypeOK,
         RunnerTypeOK
<1>4. CASE ReadTool(s)
  <2>1. Granted(s, "auto", aborted[s]) /\ "auto" \in Grants /\ Tier[Call(s)] = "read"
    BY <1>4 DEF ReadTool, Grants
  <2>2. /\ HistoryGrows /\ AutoRemembered' /\ SessionsJustified'
        /\ \A x \in Streams, t \in Tools : session'[x][t] # Unset => session[x][t] # Unset \/ x = s
    BY <1>2, GatewayUntouched
  <2> QED BY <1>1, <1>3, <2>1, <2>2, GrantedConsent
<1>5. CASE ApprovedUnasked(s)
  <2> DEFINE v == Verdict(s, Call(s))
  <2>1. Granted(s, GrantOf(v.source), aborted[s]) /\ v.decision = "allow"
    BY <1>5 DEF ApprovedUnasked
  <2>2. Call(s) \in Tools
    BY <1>3, CallType DEF ConsentInv
  <2>3. turn'[s].calls = turn[s].calls /\ turn'[s].pos = turn[s].pos /\ Call(s)' = Call(s)
    BY <2>1 DEF Granted, Turn, ConsentInv, ControlInv, TypeOK, RunnerTypeOK, Call
  <2>4. CASE v.source = "policy"
    <3>1. EffectivePolicy(policies, Call(s)) = "auto"
      <4>1. session[s][Call(s)] = Unset
        BY <2>1, <2>4 DEF Verdict, Refusal
      <4> QED BY <2>1, <2>4, <4>1 DEF Verdict, Refusal
    <3>2. Call(s) \in everAuto
      BY <2>2, <3>1 DEF ConsentInv, AutoRemembered, AutoTools
    <3>3. GrantOf(v.source) = "auto" /\ "auto" \in Grants
      BY <2>4 DEF GrantOf, Grants
    <3>4. Granted(s, "auto", aborted[s])
      BY <2>1, <3>3
    <3>5. Backed(s, [tool |-> IF "auto" = "prompt-allowed-partial" THEN WriteFile ELSE Call(s),
                     asked |-> Call(s), decision |-> "auto", ran |-> TRUE])'
      BY <1>2, <2>3, <3>2 DEF Backed
    <3> QED BY <1>1, <1>2, <1>3, <3>3, <3>4, <3>5, GatewayUntouched, GrantedConsent
  <2>5. CASE v.source # "policy"
    <3>1. v.source = "prompt-session" /\ session[s][Call(s)] = "allow"
      BY <2>1, <2>5 DEF Verdict, Refusal
    <3>2. PICK a \in answers : /\ a.stream = s /\ a.tool = Call(s) /\ a.decision = "allow"
                               /\ a.scope = "session" /\ ~a.partial
      BY <2>2, <3>1 DEF ConsentInv, SessionsJustified
    <3> DEFINE g == "prompt-allowed-session"
    <3>3. GrantOf(v.source) = g /\ g \in Grants /\ GrantOf(SourceOf("session")) = g
      BY <3>1 DEF GrantOf, Grants, SourceOf
    <3>4. Granted(s, g, aborted[s])
      BY <2>1, <3>3
    <3>5. Backed(s, [tool |-> IF g = "prompt-allowed-partial" THEN WriteFile ELSE Call(s),
                     asked |-> Call(s), decision |-> g, ran |-> TRUE])'
      BY <1>2, <2>3, <3>2, <3>3 DEF Backed
    <3> QED BY <1>1, <1>2, <1>3, <3>3, <3>4, <3>5, GatewayUntouched, GrantedConsent
  <2> QED BY <2>4, <2>5
<1> QED BY <1>4, <1>5

LEMMA AskConsent ==
  ASSUME ConsentInv, NEW s \in Streams, AskUser(s)
  PROVE  ConsentInv'
<1> USE DEF ConsentInv
<1>1. ControlInv'
  BY AskControl
<1>2. /\ UNCHANGED <<session, policies, answers, everAuto, ledger, turn, grant>>
      /\ phase \in [Streams -> Phases]
      /\ phase' = [phase EXCEPT ![s] = "prompt"]
  BY DEF AskUser, Broadcast, Goto, ControlInv, TypeOK, RunnerTypeOK
<1>3. HistoryGrows /\ OthersStay(s)
  BY <1>2 DEF HistoryGrows, OthersStay
<1>4. GrantsJustified'
  BY <1>2, <1>3, GrantsKept DEF RunPhases
<1>5. SessionsJustified' /\ AutoRemembered' /\ ConsentTraceable'
  BY <1>2, <1>3, SessionsKept, LedgerKept DEF AutoRemembered, AutoTools, EffectivePolicy
<1>6. SessionsDieWithStream'
  BY <1>2 DEF SessionsDieWithStream, Live, LivePhases
<1> QED BY <1>1, <1>4, <1>5, <1>6

\* Writing the policies remembers the tools they run silently.
LEMMA WritePoliciesRemembers ==
  ASSUME NEW p, WritePolicies(p)
  PROVE  AutoRemembered' /\ everAuto \subseteq everAuto'
  BY DEF WritePolicies, AutoRemembered, AutoTools, EffectivePolicy

\* What an answer that finds its request does to consent.
LEMMA RespondConsent ==
  ASSUME ConsentInv, NEW id \in pending, NEW decision \in Decisions, NEW scope \in Scopes,
         NEW partial \in BOOLEAN, Respond(id, decision, scope, partial)
  PROVE  /\ HistoryGrows
         /\ AutoRemembered'
         /\ SessionsJustified'
         /\ [stream |-> asked[id].stream, tool |-> asked[id].tool, decision |-> decision,
             scope |-> scope, partial |-> partial] \in answers'
         /\ \A x \in Streams, t \in Tools :
               session'[x][t] # Unset => session[x][t] # Unset \/ x = asked[id].stream
<1> DEFINE a == [stream |-> asked[id].stream, tool |-> asked[id].tool, decision |-> decision,
                 scope |-> scope, partial |-> partial]
<1>1. asked[id].stream \in Streams /\ asked[id].tool \in Tools
  BY RequestType DEF ConsentInv, ControlInv
<1>2. session \in [Streams -> [Tools -> Decisions \cup {Unset}]]
  BY DEF ConsentInv, ControlInv, TypeOK, ApprovalTypeOK
<1>3. answers' = answers \cup {a}
  BY DEF Respond
<1>4. AutoRemembered' /\ everAuto \subseteq everAuto'
  BY WritePoliciesRemembers
  DEF Respond, ConsentInv, AutoRemembered, AutoTools, EffectivePolicy
<1>5. CASE scope = "session" /\ ~partial
  <2>1. session' = [session EXCEPT ![asked[id].stream][asked[id].tool] = decision]
    BY <1>5 DEF Respond
  <2>2. SessionsJustified'
    <3> SUFFICES ASSUME NEW x \in Streams, NEW t \in Tools, session'[x][t] = "allow"
                 PROVE  \E b \in answers' : /\ b.stream = x /\ b.tool = t
                                            /\ b.decision = "allow"
                                            /\ b.scope = "session" /\ ~b.partial
      BY DEF SessionsJustified
    <3>1. CASE x = asked[id].stream /\ t = asked[id].tool
      <4>1. decision = "allow"
        BY <1>1, <1>2, <2>1, <3>1
      <4>2. /\ a.stream = x /\ a.tool = t /\ a.decision = "allow"
            /\ a.scope = "session" /\ ~a.partial /\ a \in answers'
        BY <1>3, <1>5, <3>1, <4>1
      <4> HIDE DEF a
      <4> QED BY <4>2
    <3>2. CASE ~(x = asked[id].stream /\ t = asked[id].tool)
      <4>1. session[x][t] = "allow"
        BY <1>1, <1>2, <2>1, <3>2
      <4> QED BY <1>3, <4>1 DEF ConsentInv, SessionsJustified
    <3> QED BY <3>1, <3>2
  <2>3. \A x \in Streams, t \in Tools :
           session'[x][t] # Unset => session[x][t] # Unset \/ x = asked[id].stream
    BY <1>1, <1>2, <2>1
  <2> QED BY <1>3, <1>4, <2>2, <2>3 DEF HistoryGrows
<1>6. CASE ~(scope = "session" /\ ~partial)
  <2>1. session' = session
    BY <1>6 DEF Respond
  <2>2. SessionsJustified'
    BY <1>3, <1>4, <2>1, SessionsKept DEF ConsentInv, HistoryGrows
  <2> QED BY <1>3, <1>4, <2>1, <2>2 DEF HistoryGrows
<1> QED BY <1>5, <1>6

LEMMA AnswerConsent ==
  ASSUME ConsentInv, NEW id \in pending, NEW decision \in Decisions, NEW scope \in Scopes,
         NEW partial \in BOOLEAN, AnswerPrompt(id, decision, scope, partial)
  PROVE  ConsentInv'
<1>0. PICK s \in Streams : s = asked[id].stream
  BY RequestType DEF ConsentInv, ControlInv
<1>1. ControlInv'
  BY AnswerControl DEF ConsentInv
<1>2. /\ phase[s] = "prompt"
      /\ Respond(id, decision, scope, partial)
      /\ Answered(s, decision, scope, partial)
  BY <1>0 DEF AnswerPrompt, ConsentInv, ControlInv, PromptsMatchRequests
<1>3. phase[s] \in CallPhases /\ aborted[s] \in BOOLEAN
  BY <1>2 DEF CallPhases, ConsentInv, ControlInv, TypeOK, RunnerTypeOK
<1>4. asked[id].tool = Call(s)
  BY <1>0, <1>2 DEF ConsentInv, ControlInv, PromptsMatchRequests, PendingOf
<1>5. CASE Denied(s)
  <2>1. /\ HistoryGrows /\ AutoRemembered' /\ SessionsJustified'
        /\ \A x \in Streams, t \in Tools : session'[x][t] # Unset => session[x][t] # Unset \/ x = s
    BY <1>0, <1>2, RespondConsent
  <2> QED BY <1>1, <1>3, <1>5, <2>1, FinishCallConsent DEF Denied
<1>6. CASE ~Denied(s)
  <2> DEFINE g == IF partial THEN "prompt-allowed-partial" ELSE GrantOf(SourceOf(scope))
             e == [tool |-> IF g = "prompt-allowed-partial" THEN WriteFile ELSE Call(s),
                   asked |-> Call(s), decision |-> g, ran |-> TRUE]
             a == [stream |-> s, tool |-> Call(s), decision |-> decision,
                   scope |-> scope, partial |-> partial]
  <2>1. Granted(s, g, aborted[s]) /\ decision = "allow"
    BY <1>2, <1>6 DEF Answered, Decisions
  <2>2. GrantOf(SourceOf(scope)) \in Grants \ {"prompt-allowed-partial"}
    BY DEF Scopes, SourceOf, GrantOf, Grants
  <2>3. g \in Grants
    BY <2>2 DEF Grants
  <2>4. Call(s)' = Call(s)
    BY <2>1 DEF Granted, Turn, ConsentInv, ControlInv, TypeOK, RunnerTypeOK, Call
  <2>5. a \in answers'
    BY <1>0, <1>2, <1>4, RespondConsent
  <2>6. Backed(s, [tool |-> IF g = "prompt-allowed-partial" THEN WriteFile ELSE Call(s),
                   asked |-> Call(s), decision |-> g, ran |-> TRUE])'
    <3>1. /\ a.stream = s /\ a.tool = e.asked /\ a.decision = "allow"
          /\ IF a.partial
             THEN e.decision = "prompt-allowed-partial" /\ e.tool = WriteFile
             ELSE e.decision = GrantOf(SourceOf(a.scope)) /\ e.tool = e.asked
      BY <2>1, <2>2
    <3>2. e' = e
      BY <2>4
    <3> HIDE DEF a
    <3> QED BY <2>5, <3>1, <3>2 DEF Backed
  <2>7. /\ HistoryGrows /\ AutoRemembered' /\ SessionsJustified'
        /\ \A x \in Streams, t \in Tools :
              session'[x][t] # Unset => session[x][t] # Unset \/ x = s
    BY <1>0, <1>2, RespondConsent
  <2> HIDE DEF g
  <2> QED BY <1>1, <1>3, <2>1, <2>3, <2>6, <2>7, GrantedConsent
<1> QED BY <1>5, <1>6

LEMMA CancelConsent ==
  ASSUME ConsentInv, NEW s \in Streams, CancelChatStream(s)
  PROVE  ConsentInv'
<1> USE DEF ConsentInv
<1>1. ControlInv'
  BY CancelControl
<1>2. UNCHANGED <<session, policies, answers, everAuto>>
  BY DEF CancelChatStream, WithdrawRequests
<1>3. HistoryGrows /\ AutoRemembered' /\ SessionsJustified'
  BY <1>2, SessionsKept DEF HistoryGrows, AutoRemembered, AutoTools, EffectivePolicy
<1>4. CASE phase[s] = "prompt"
  <2>1. Denied(s) /\ phase[s] \in CallPhases
    BY <1>4 DEF CancelChatStream, CallPhases
  <2> QED BY <1>1, <1>2, <1>3, <2>1, FinishCallConsent DEF Denied
<1>5. CASE phase[s] # "prompt"
  <2>1. UNCHANGED <<phase, turn, grant, ledger>>
    BY <1>5 DEF CancelChatStream
  <2>2. GrantsJustified'
    BY <1>2, <2>1 DEF GrantsJustified, Call, RunEntry, ExecTool, Backed
  <2>3. SessionsDieWithStream'
    BY <1>2, <2>1 DEF SessionsDieWithStream, Live
  <2> QED BY <1>1, <1>3, <2>1, <2>2, <2>3, LedgerKept
<1> QED BY <1>4, <1>5

LEMMA QuietConsent ==
  ASSUME ConsentInv, NEW s \in Streams, QuietStep(s)
  PROVE  ConsentInv'
<1> USE DEF ConsentInv
<1>1. ControlInv'
  BY QuietControl
<1>2. /\ phase \in [Streams -> Phases]
      /\ turn \in [Streams -> Turn]
  BY DEF ControlInv, TypeOK, RunnerTypeOK
<1>3. /\ UNCHANGED <<approvalVars, grant, ledger>>
      /\ UNCHANGED <<session, answers, everAuto>>
      /\ OthersStay(s)
  BY QuietFrame DEF approvalVars
<1>4. HistoryGrows /\ AutoRemembered' /\ SessionsJustified'
  BY <1>3, GatewayUntouched
<1>5. GrantsJustified'
  <2>1. CASE phase'[s] \in RunPhases
    <3>1. phase[s] \in RunPhases /\ turn' = turn
      BY <1>2, <2>1
      DEF QuietStep, Goto, RunPhases, StartChatStream, RunStream, BeginAttempt, ProviderText,
          ProviderToolCall, ProviderDone, ProviderError, ProviderCutOff, ScheduleRetry,
          WakeFromBackoff, EnterTools, Captured, StartTool, CheckpointTimer
    <3>2. Call(s)' = Call(s) /\ RunEntry(s)' = RunEntry(s)
      BY <1>3, <3>1 DEF Call, RunEntry, ExecTool
    <3>3. Tier[Call(s)'] # "read" => Backed(s, RunEntry(s))'
      BY <1>3, <3>1, <3>2 DEF GrantsJustified, Backed
    <3> QED BY <1>3, <1>4, <3>3, GrantsKept
  <2>2. CASE phase'[s] \notin RunPhases
    BY <1>3, <1>4, <2>2, GrantsKept
  <2> QED BY <2>1, <2>2
<1>6. SessionsDieWithStream'
  <2>1. Live(s) => phase'[s] \in LivePhases
    BY <1>2
    DEF Live, LivePhases, QuietStep, Goto, StartChatStream, RunStream, BeginAttempt,
        ProviderText, ProviderToolCall, ProviderDone, ProviderError, ProviderCutOff,
        ScheduleRetry, WakeFromBackoff, EnterTools, Captured, StartTool, CheckpointTimer
  <2> QED BY <1>3, <2>1 DEF SessionsDieWithStream, Live, OthersStay
<1> QED BY <1>1, <1>3, <1>4, <1>5, <1>6, LedgerKept

LEMMA WorldConsent ==
  ASSUME ConsentInv,
         \/ Crash
         \/ Boot
         \/ \E c \in Conversations : Reattach(c) \/ DeleteConversation(c)
         \/ ChangeSettings
         \/ UNCHANGED <<approvalVars, runnerVars, bootVars>>
  PROVE  ConsentInv'
<1> USE DEF ConsentInv
<1>1. ControlInv'
  BY WorldControl, LateAnswerControl
<1>2. CASE Crash
  <2>1. /\ session' = [x \in Streams |-> [t \in Tools |-> Unset]]
        /\ phase' = [x \in Streams |-> IF Live(x) THEN "lost" ELSE phase[x]]
        /\ UNCHANGED <<policies, answers, everAuto, ledger>>
    BY <1>2 DEF Crash, ForgetApprovals
  <2>2. HistoryGrows /\ AutoRemembered'
    BY <2>1 DEF HistoryGrows, AutoRemembered, AutoTools, EffectivePolicy
  <2>3. SessionsJustified' /\ ConsentTraceable'
    BY <2>1, <2>2, SessionsKept, LedgerKept
  <2>4. SessionsDieWithStream' /\ GrantsJustified'
    BY <2>1 DEF SessionsDieWithStream, GrantsJustified, Live, LivePhases, RunPhases
  <2> QED BY <1>1, <2>2, <2>3, <2>4
<1>3. CASE UNCHANGED <<phase, turn, grant, ledger, session>>
           /\ answers' = answers /\ everAuto \subseteq everAuto' /\ AutoRemembered'
  <2>1. HistoryGrows
    BY <1>3 DEF HistoryGrows
  <2>2. SessionsJustified' /\ ConsentTraceable'
    BY <1>3, <2>1, SessionsKept, LedgerKept
  <2>3. SessionsDieWithStream'
    BY <1>3 DEF SessionsDieWithStream, Live
  <2>4. GrantsJustified'
    BY <1>3 DEF GrantsJustified, Call, RunEntry, ExecTool, Backed
  <2> QED BY <1>1, <1>3, <2>2, <2>3, <2>4
<1>4. CASE ChangeSettings
  <2>1. UNCHANGED <<phase, turn, grant, ledger, session, answers>>
    BY <1>4 DEF ChangeSettings, runnerVars, SetTierPolicy, SetToolPolicy, SetReadOnly
  <2>2. AutoRemembered' /\ everAuto \subseteq everAuto'
    BY <1>4, WritePoliciesRemembers
    DEF ChangeSettings, SetTierPolicy, SetToolPolicy, SetReadOnly, AutoRemembered, AutoTools,
        EffectivePolicy
  <2> QED BY <1>3, <2>1, <2>2
<1>5. CASE UNCHANGED <<approvalVars, phase, turn, grant, ledger>>
  BY <1>3, <1>5, GatewayUntouched DEF approvalVars
<1> QED
  BY <1>2, <1>4, <1>5 DEF Boot, Reattach, DeleteConversation, runnerVars

\* Every step keeps the consent invariant.
LEMMA NextConsent == ConsentInv /\ [Next]_vars => ConsentInv'
<1> SUFFICES ASSUME ConsentInv, [Next]_vars PROVE ConsentInv'
  OBVIOUS
<1>1. ASSUME NEW s \in Streams,
             ProviderStep(s) \/ LoopStep(s) \/ UserStep(s) \/ CheckpointTimer(s)
      PROVE  ConsentInv'
  BY <1>1, EndingConsent, SettlingConsent, UnaskedConsent, AskConsent, CancelConsent,
     QuietConsent
  DEF ProviderStep, LoopStep, UserStep, QuietStep
<1>2. ASSUME NEW id \in DOMAIN asked, NEW decision \in Decisions, NEW scope \in Scopes,
             NEW partial \in BOOLEAN, AnswerPrompt(id, decision, scope, partial)
      PROVE  ConsentInv'
  <2>1. CASE id \in pending
    BY <1>2, <2>1, AnswerConsent
  <2>2. CASE id \notin pending
    BY <1>2, <2>2, WorldConsent DEF AnswerPrompt, Respond, runnerVars
  <2> QED BY <2>1, <2>2
<1> QED BY <1>1, <1>2, WorldConsent DEF Next, vars

\* Every non-read tool that ran traces back to an answer of the user in that
\* stream, or to an automatic policy, that covers it.
THEOREM Consent == Spec => []ConsentTraceable
<1>1. ConsentInv => ConsentTraceable
  BY DEF ConsentInv
<1> QED BY <1>1, InitConsent, NextConsent, PTL DEF Spec

\* No override given for the session of a stream outlives the stream.
THEOREM SessionsDie == Spec => []SessionsDieWithStream
<1>1. ConsentInv => SessionsDieWithStream
  BY DEF ConsentInv
<1> QED BY <1>1, InitConsent, NextConsent, PTL DEF Spec

-----------------------------------------------------------------------------
(* The loop implements one permit per run                                  *)

\* Only one stream moves, and only its own permit, run and stop can change.
LEMMA OneStreamMoves ==
  ASSUME NEW s \in Streams, OthersStay(s),
         \A x \in Streams \ {s} : aborted'[x] = aborted[x]
  PROVE  \A x \in Streams \ {s} :
            /\ Permits'[x] = Permits[x]
            /\ Running'[x] = Running[x]
            /\ x \in Stopped' <=> x \in Stopped
  BY DEF OthersStay, Permits, Running, Stopped, ExecTool, Call

\* A step of a stream that neither runs nor is about to run a tool before and
\* after it, and does not end: nothing of it shows.
LEMMA IdlePermits ==
  ASSUME NEW s \in Streams, OthersStay(s), aborted' = aborted,
         phase[s] \notin RunPhases \cup {"ended", "lost"},
         phase'[s] \notin RunPhases \cup {"ended", "lost"}
  PROVE  UNCHANGED Permit!vars
<1>1. Permits' = Permits /\ Running' = Running /\ Stopped' = Stopped
  BY DEF OthersStay, RunPhases, Permits, Running, Stopped, ExecTool, Call
<1> QED BY <1>1 DEF Permit!vars

\* The end of a turn stops its stream.
LEMMA FinishPermits ==
  ASSUME ControlInv, NEW s \in Streams, NEW latest, Finish(s, latest),
         phase[s] \notin RunPhases
  PROVE  Permit!Next
<1>1. OthersStay(s) /\ phase'[s] = "ended" /\ aborted' = aborted
  BY DEF ControlInv, TypeOK, RunnerTypeOK, Finish, Goto, OthersStay, ClearSession
<1>2. Permits' = Permits /\ Running' = Running
  BY <1>1 DEF OthersStay, RunPhases, Permits, Running, ExecTool, Call
<1>3. Stopped' = Stopped \cup {s}
  BY <1>1 DEF OthersStay, Stopped
<1> QED BY <1>2, <1>3 DEF Permit!Next, Permit!Stop

\* An answered call gives up its permit or its run.
LEMMA FinishCallPermits ==
  ASSUME ControlInv, NEW s \in Streams, phase[s] \in CallPhases,
         NEW tool, NEW decision, NEW ran, FinishCall(s, tool, decision, ran),
         aborted' = aborted
  PROVE  [Permit!Next]_Permit!vars
<1>1. OthersStay(s) /\ phase'[s] \in {"call", "attempt"}
  BY DEF ControlInv, TypeOK, RunnerTypeOK, FinishCall, Goto, OthersStay
<1>2. Stopped' = Stopped
  BY <1>1 DEF OthersStay, Stopped, CallPhases
<1>3. CASE phase[s] \in {"capture", "dispatch"}
  <2>1. Running' = Running /\ Permits' = [Permits EXCEPT ![s] = NoTool]
    BY <1>1, <1>3 DEF OthersStay, Permits, Running, ExecTool, Call
  <2> QED BY <1>2, <2>1 DEF Permit!Next, Permit!Withdraw
<1>4. CASE phase[s] = "execute"
  <2>1. Permits' = Permits /\ Running' = [Running EXCEPT ![s] = NoTool]
    BY <1>1, <1>4 DEF OthersStay, Permits, Running, ExecTool, Call
  <2> QED BY <1>2, <2>1 DEF Permit!Next, Permit!Return
<1>5. CASE phase[s] \in {"call", "prompt"}
  BY <1>1, <1>5, IdlePermits DEF RunPhases
<1> QED BY <1>3, <1>4, <1>5 DEF CallPhases

LEMMA GrantedPermits ==
  ASSUME ControlInv, ControlInv', NEW s \in Streams, phase[s] \in {"call", "prompt"},
         NEW g, NEW ab, Granted(s, g, ab), aborted' = aborted
  PROVE  Permit!Next
<1>1. OthersStay(s) /\ phase'[s] \in {"capture", "dispatch"}
  BY DEF ControlInv, TypeOK, RunnerTypeOK, Granted, Goto, OthersStay
<1>2. PICK t : t = ExecTool(s)'
  OBVIOUS
<1>3. ExecTool(s)' \in Tools
  <2>1. turn'[s] \in Turn /\ turn'[s].pos \in 1 .. Len(turn'[s].calls)
    BY <1>1 DEF ControlInv, TypeOK, RunnerTypeOK, LoopInRange, CallPhases
  <2>2. turn'[s].calls \in Seq(Tools)
    BY <2>1 DEF Turn
  <2> QED BY <2>1, <2>2, RunnerAssumption DEF ExecTool, Call
<1>4. /\ Permits[s] = NoTool /\ Running[s] = NoTool
      /\ Permits' = [Permits EXCEPT ![s] = t]
      /\ Running' = Running
      /\ Stopped' = Stopped
  <2>1. \A x \in Streams \ {s} : phase'[x] = phase[x] /\ ExecTool(x)' = ExecTool(x)
    BY <1>1 DEF OthersStay, ExecTool, Call
  <2>2. Permits[s] = NoTool /\ Running[s] = NoTool
    BY DEF Permits, Running
  <2>3. Permits' = [Permits EXCEPT ![s] = t]
    BY <1>1, <1>2, <2>1 DEF Permits
  <2>4. Running' = Running
    BY <1>1, <2>1 DEF Running
  <2>5. Stopped' = Stopped
    BY <1>1, <2>1 DEF Stopped
  <2> QED BY <2>2, <2>3, <2>4, <2>5
<1> QED BY <1>2, <1>3, <1>4 DEF Permit!Next, Permit!Give

LEMMA StartToolPermits ==
  ASSUME ControlInv, NEW s \in Streams, StartTool(s)
  PROVE  Permit!Next
<1>1. /\ phase \in [Streams -> Phases] /\ phase' = [phase EXCEPT ![s] = "execute"]
      /\ phase[s] = "dispatch" /\ ~aborted[s]
      /\ UNCHANGED <<turn, grant, aborted>>
  BY DEF ControlInv, TypeOK, RunnerTypeOK, StartTool, Goto
<1>2. ExecTool(s) \in Tools
  BY <1>1, ExecToolType DEF CallPhases
<1>3. /\ Permits[s] # NoTool
      /\ s \notin Stopped
      /\ Running' = [Running EXCEPT ![s] = Permits[s]]
      /\ Permits' = [Permits EXCEPT ![s] = NoTool]
      /\ Stopped' = Stopped
  BY <1>1, <1>2, RunnerAssumption DEF Permits, Running, Stopped, ExecTool, Call
<1> QED BY <1>3 DEF Permit!Next, Permit!Run

LEMMA CancelPermits ==
  ASSUME ControlInv, NEW s \in Streams, CancelChatStream(s)
  PROVE  Permit!Next
<1>1. /\ aborted \in [Streams -> BOOLEAN] /\ aborted' = [aborted EXCEPT ![s] = TRUE]
      /\ Live(s)
  BY DEF ControlInv, TypeOK, RunnerTypeOK, CancelChatStream
<1>2. Permits' = Permits /\ Running' = Running /\ \A x \in Streams \ {s} : phase'[x] = phase[x]
  <2>1. CASE phase[s] = "prompt"
    <3>1. OthersStay(s) /\ phase'[s] \in {"call", "attempt"}
      BY <2>1 DEF CancelChatStream, Denied, ControlInv, TypeOK, RunnerTypeOK, FinishCall, Goto,
                  OthersStay
    <3> QED BY <2>1, <3>1 DEF OthersStay, Permits, Running, ExecTool, Call
  <2>2. CASE phase[s] # "prompt"
    <3>1. UNCHANGED <<phase, turn, grant>>
      BY <2>2 DEF CancelChatStream
    <3> QED BY <3>1 DEF Permits, Running, ExecTool, Call
  <2> QED BY <2>1, <2>2
<1>3. Stopped' = Stopped \cup {s}
  BY <1>1, <1>2 DEF Stopped
<1> QED BY <1>2, <1>3 DEF Permit!Next, Permit!Stop

LEMMA QuietPermits ==
  ASSUME ControlInv, NEW s \in Streams, QuietStep(s)
  PROVE  [Permit!Next]_Permit!vars
<1>1. OthersStay(s) /\ aborted' = aborted /\ UNCHANGED grant
  BY QuietFrame
<1>2. phase \in [Streams -> Phases]
  BY DEF ControlInv, TypeOK, RunnerTypeOK
<1>3. CASE StartTool(s)
  BY <1>3, StartToolPermits
<1>4. CASE Captured(s) \/ CheckpointTimer(s)
  <2>1. /\ UNCHANGED <<turn, grant>>
        /\ \/ phase' = phase
           \/ phase[s] = "capture" /\ phase' = [phase EXCEPT ![s] = "dispatch"]
    BY <1>4 DEF Captured, CheckpointTimer, Goto
  <2>2. Permits' = Permits /\ Running' = Running /\ Stopped' = Stopped
    BY <1>1, <1>2, <2>1 DEF Permits, Running, Stopped, ExecTool, Call
  <2> QED BY <2>2 DEF Permit!vars
<1>5. CASE ~(StartTool(s) \/ Captured(s) \/ CheckpointTimer(s))
  <2>1. /\ phase[s] \notin RunPhases \cup {"ended", "lost"}
        /\ phase'[s] \notin RunPhases \cup {"ended", "lost"}
    BY <1>2, <1>5
    DEF QuietStep, Goto, RunPhases, StartChatStream, RunStream, BeginAttempt, ProviderText,
        ProviderToolCall, ProviderDone, ProviderError, ProviderCutOff, ScheduleRetry,
        WakeFromBackoff, EnterTools
  <2> QED BY <1>1, <2>1, IdlePermits
<1> QED BY <1>3, <1>4, <1>5

LEMMA WorldPermits ==
  ASSUME ControlInv,
         \/ Crash
         \/ Boot
         \/ \E c \in Conversations : Reattach(c) \/ DeleteConversation(c)
         \/ ChangeSettings
         \/ UNCHANGED <<approvalVars, runnerVars, bootVars>>
  PROVE  [Permit!Next]_Permit!vars
<1>1. CASE Crash
  <2> DEFINE S == {x \in Streams : Live(x)}
  <2>1. /\ phase \in [Streams -> Phases]
        /\ phase' = [x \in Streams |-> IF Live(x) THEN "lost" ELSE phase[x]]
        /\ aborted' = aborted
    BY <1>1 DEF Crash, ControlInv, TypeOK, RunnerTypeOK
  <2>2. /\ Permits' = [x \in Streams |-> NoTool]
        /\ Running' = [x \in Streams |-> NoTool]
    BY <2>1 DEF Permits, Running, Live, LivePhases
  <2>3. \A x \in Streams \ S : Permits[x] = NoTool /\ Running[x] = NoTool
    BY DEF Permits, Running, Live, LivePhases
  <2>4. Stopped' = Stopped \cup S
    BY <2>1 DEF Stopped, Live, LivePhases
  <2>5. /\ Permits' = [x \in Streams |-> IF x \in S THEN NoTool ELSE Permits[x]]
        /\ Running' = [x \in Streams |-> IF x \in S THEN NoTool ELSE Running[x]]
    BY <2>2, <2>3
  <2>6. S \in SUBSET Streams
    OBVIOUS
  <2> HIDE DEF S
  <2> QED BY <2>4, <2>5, <2>6 DEF Permit!Next, Permit!Halt
<1>2. CASE UNCHANGED <<phase, turn, grant, aborted>>
  BY <1>2 DEF Permit!vars, Permits, Running, Stopped, ExecTool, Call
<1> QED
  BY <1>1, <1>2 DEF Boot, Reattach, DeleteConversation, ChangeSettings, runnerVars

\* Every step of the loop is a step of the permit specification, or none.
LEMMA NextPermits == ControlInv /\ ControlInv' /\ [Next]_vars => [Permit!Next]_Permit!vars
<1> SUFFICES ASSUME ControlInv, ControlInv', [Next]_vars PROVE [Permit!Next]_Permit!vars
  OBVIOUS
<1>1. ASSUME NEW s \in Streams, NEW latest, Finish(s, latest), phase[s] \notin RunPhases
      PROVE  [Permit!Next]_Permit!vars
  BY <1>1, FinishPermits
<1>2. ASSUME NEW s \in Streams,
             \/ BudgetRefuses(s)
             \/ IterationsExhausted(s)
             \/ ProviderThrows(s)
             \/ CancelSeen(s)
             \/ GiveUp(s)
             \/ ErrorEndsTurn(s)
             \/ CompleteTurn(s)
      PROVE  [Permit!Next]_Permit!vars
  BY <1>1, <1>2
  DEF BudgetRefuses, IterationsExhausted, ProviderThrows, CancelSeen, GiveUp, ErrorEndsTurn,
      CompleteTurn, Throws, EndTurn, RunPhases
<1>3. ASSUME NEW s \in Streams,
             UnknownTool(s) \/ RefusedUnasked(s) \/ ToolCancelled(s) \/ ToolSettles(s)
      PROVE  [Permit!Next]_Permit!vars
  <2>1. aborted' = aborted /\ phase[s] \in CallPhases
    BY <1>3 DEF UnknownTool, RefusedUnasked, NeedsApproval, ToolCancelled, ToolSettles, CallPhases
  <2>2. PICK tool, decision, ran : FinishCall(s, tool, decision, ran)
    BY <1>3 DEF UnknownTool, RefusedUnasked, Denied, ToolCancelled, ToolSettles
  <2> QED BY <2>1, <2>2, FinishCallPermits
<1>4. ASSUME NEW s \in Streams, ReadTool(s) \/ ApprovedUnasked(s)
      PROVE  [Permit!Next]_Permit!vars
  <2>1. aborted' = aborted /\ phase[s] \in {"call", "prompt"}
    BY <1>4 DEF ReadTool, ApprovedUnasked, NeedsApproval
  <2>2. PICK g, ab : Granted(s, g, ab)
    BY <1>4 DEF ReadTool, ApprovedUnasked
  <2> QED BY <2>1, <2>2, GrantedPermits
<1>5. ASSUME NEW s \in Streams, AskUser(s) PROVE [Permit!Next]_Permit!vars
  <2>1. /\ OthersStay(s) /\ aborted' = aborted /\ phase[s] = "call" /\ phase'[s] = "prompt"
    BY <1>5 DEF AskUser, NeedsApproval, Goto, OthersStay, ControlInv, TypeOK, RunnerTypeOK
  <2> QED BY <2>1, IdlePermits DEF RunPhases
<1>6. ASSUME NEW s \in Streams,
             ProviderStep(s) \/ LoopStep(s) \/ UserStep(s) \/ CheckpointTimer(s)
      PROVE  [Permit!Next]_Permit!vars
  BY <1>2, <1>3, <1>4, <1>5, <1>6, QuietPermits, CancelPermits
  DEF ProviderStep, LoopStep, UserStep, QuietStep
<1>7. ASSUME NEW id \in DOMAIN asked, NEW decision \in Decisions, NEW scope \in Scopes,
             NEW partial \in BOOLEAN, AnswerPrompt(id, decision, scope, partial)
      PROVE  [Permit!Next]_Permit!vars
  <2>1. CASE id \in pending
    <3>1. PICK s \in Streams : s = asked[id].stream
      BY <2>1, RequestType DEF ControlInv
    <3>2. phase[s] = "prompt" /\ Answered(s, decision, scope, partial) /\ aborted' = aborted
      BY <1>7, <2>1, <3>1 DEF AnswerPrompt, ControlInv, PromptsMatchRequests
    <3>3. CASE Denied(s)
      BY <3>2, <3>3, FinishCallPermits DEF Denied, CallPhases
    <3>4. CASE ~Denied(s)
      <4>1. PICK g, ab : Granted(s, g, ab)
        BY <3>2, <3>4 DEF Answered
      <4> QED BY <3>2, <4>1, GrantedPermits
    <3> QED BY <3>3, <3>4
  <2>2. CASE id \notin pending
    BY <1>7, <2>2, WorldPermits DEF AnswerPrompt, Respond, runnerVars
  <2> QED BY <2>1, <2>2
<1> QED BY <1>6, <1>7, WorldPermits DEF Next, vars

\* The agent loop with its gateway implements the permit specification: a tool
\* runs on a permit given for that call, once, and never for a stopped stream.
THEOREM PermitsImplemented == Spec => ImplementsPermits
<1>1. Init => Permit!Init
  BY DEF Init, Permit!Init, Permits, Running, Stopped
<1> QED BY <1>1, InitControl, NextControl, NextPermits, PTL DEF Spec, ImplementsPermits, Permit!Spec

-----------------------------------------------------------------------------
(* The reattach index                                                      *)

\* What a step may do to the index and to the streams in it.
SlotsKept ==
    \A s \in Streams :
        slot[Conv[s]] = s /\ phase'[s] \in LivePhases =>
            \/ slot'[Conv[s]] = s
            \/ slot'[Conv[s]] \in Streams /\ phase[slot'[Conv[s]]] = "idle"

\* A turn that ends takes out no stream but its own.
LEMMA FinishSlots ==
  ASSUME ControlInv, NEW s \in Streams, NEW latest, Finish(s, latest)
  PROVE  SlotsKept
<1>1. /\ phase'[s] = "ended"
      /\ slot' = [slot EXCEPT ![Conv[s]] = IF @ = s THEN NoStream ELSE @]
      /\ slot \in [Conversations -> Streams \cup {NoStream}]
  BY DEF Finish, Goto, ControlInv, TypeOK, RunnerTypeOK
<1> QED BY <1>1, RunnerAssumption DEF SlotsKept, LivePhases

\* Of all steps only a start, an end and a crash touch the index.
LEMMA NextSlots == ControlInv /\ [Next]_vars => SlotsKept
<1> SUFFICES ASSUME ControlInv, [Next]_vars PROVE SlotsKept
  OBVIOUS
<1>1. CASE slot' = slot
  BY <1>1 DEF SlotsKept
<1>2. ASSUME NEW s \in Streams, StartChatStream(s) PROVE SlotsKept
  <2>1. /\ phase[s] = "idle"
        /\ slot' = [slot EXCEPT ![Conv[s]] = s]
        /\ slot \in [Conversations -> Streams \cup {NoStream}]
    BY <1>2 DEF StartChatStream, ControlInv, TypeOK, RunnerTypeOK
  <2> QED BY <2>1, RunnerAssumption DEF SlotsKept
<1>3. ASSUME NEW s \in Streams,
             \/ BudgetRefuses(s)
             \/ IterationsExhausted(s)
             \/ ProviderThrows(s)
             \/ CancelSeen(s)
             \/ GiveUp(s)
             \/ ErrorEndsTurn(s)
             \/ CompleteTurn(s)
      PROVE  SlotsKept
  <2>1. PICK latest : Finish(s, latest)
    BY <1>3
    DEF BudgetRefuses, IterationsExhausted, ProviderThrows, CancelSeen, GiveUp, ErrorEndsTurn,
        CompleteTurn, Throws, EndTurn
  <2> QED BY <2>1, FinishSlots
<1>4. ASSUME NEW s \in Streams, NEW tool, NEW decision, NEW ran,
             FinishCall(s, tool, decision, ran)
      PROVE  SlotsKept
  BY <1>1, <1>4 DEF FinishCall
<1>5. ASSUME NEW s \in Streams,
             UnknownTool(s) \/ RefusedUnasked(s) \/ ToolCancelled(s) \/ ToolSettles(s)
      PROVE  SlotsKept
  BY <1>4, <1>5 DEF UnknownTool, RefusedUnasked, ToolCancelled, ToolSettles, Denied
<1>6. ASSUME NEW s \in Streams, NEW g, NEW ab, Granted(s, g, ab) PROVE SlotsKept
  BY <1>1, <1>6 DEF Granted
<1>7. ASSUME NEW s \in Streams, ReadTool(s) \/ ApprovedUnasked(s) PROVE SlotsKept
  BY <1>6, <1>7 DEF ReadTool, ApprovedUnasked
<1>8. ASSUME NEW s \in Streams, AskUser(s) PROVE SlotsKept
  BY <1>1, <1>8 DEF AskUser
<1>9. ASSUME NEW s \in Streams, QuietStep(s) PROVE SlotsKept
  <2>1. StartChatStream(s) \/ slot' = slot
    BY <1>9
    DEF QuietStep, RunStream, BeginAttempt, ProviderText, ProviderToolCall, ProviderDone,
        ProviderError, ProviderCutOff, ScheduleRetry, WakeFromBackoff, EnterTools, Captured,
        StartTool, CheckpointTimer
  <2> QED BY <1>1, <1>2, <2>1
<1>10. ASSUME NEW s \in Streams, CancelChatStream(s) PROVE SlotsKept
  <2>1. Denied(s) \/ slot' = slot
    BY <1>10 DEF CancelChatStream
  <2> QED BY <1>1, <1>4, <2>1 DEF Denied
<1>11. ASSUME NEW id \in DOMAIN asked, NEW decision \in Decisions, NEW scope \in Scopes,
              NEW partial \in BOOLEAN, AnswerPrompt(id, decision, scope, partial)
       PROVE  SlotsKept
  <2>1. CASE id \in pending
    <3>1. asked[id].stream \in Streams
      BY <2>1, RequestType DEF ControlInv
    <3>2. Answered(asked[id].stream, decision, scope, partial)
      BY <1>11, <2>1 DEF AnswerPrompt
    <3>3. Denied(asked[id].stream) \/ \E g, ab : Granted(asked[id].stream, g, ab)
      BY <3>2 DEF Answered
    <3> QED BY <1>4, <1>6, <3>1, <3>3 DEF Denied
  <2>2. CASE id \notin pending
    BY <1>1, <1>11, <2>2 DEF AnswerPrompt, Respond, runnerVars
  <2> QED BY <2>1, <2>2
<1>12. CASE Crash
  <2>1. \A s \in Streams : phase'[s] \notin LivePhases
    BY <1>12 DEF Crash, Live, LivePhases
  <2> QED BY <2>1 DEF SlotsKept
<1>13. CASE \/ Boot
            \/ \E c \in Conversations : Reattach(c) \/ DeleteConversation(c)
            \/ ChangeSettings
            \/ UNCHANGED vars
  BY <1>1, <1>13 DEF Boot, Reattach, DeleteConversation, ChangeSettings, runnerVars, vars
<1>14. ASSUME NEW s \in Streams,
              ProviderStep(s) \/ LoopStep(s) \/ UserStep(s) \/ CheckpointTimer(s)
       PROVE  SlotsKept
  BY <1>3, <1>5, <1>7, <1>8, <1>9, <1>10, <1>14 DEF ProviderStep, LoopStep, UserStep, QuietStep
<1> QED BY <1>11, <1>12, <1>13, <1>14 DEF Next

\* The reattach index loses a live stream only to a newer one of its conversation, never
\* because an older turn of it ends (runner.ts, finally()): for any number of turns.
THEOREM NewestIndexed == Spec => IndexKeepsNewest
<1>1. ControlInv /\ [Next]_vars => [SlotsKept]_vars
  BY NextSlots
<1> QED BY <1>1, InitControl, NextControl, PTL DEF Spec, IndexKeepsNewest, SlotsKept

=============================================================================
