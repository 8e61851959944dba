----------------------------- MODULE ChatWindow -----------------------------
(***************************************************************************)
(* The chat of one window (apps/desktop/src/renderer/state/                *)
(* chat-context.tsx, views/ChatView.tsx), composed with what the main      *)
(* process does with its requests (main/chat/handlers.ts, runner.ts) and   *)
(* with the budgets.                                                       *)
(*                                                                         *)
(* The window follows one turn at a time, the one in activeStreamRef. It   *)
(* sets it when chat.start has answered, or reattaches to a turn that was  *)
(* already running, and lets it go when the turn's done or error event     *)
(* arrives; events of any other turn are ignored. Requests reach the main  *)
(* process in the order they were sent, and its answers and events reach   *)
(* the window in the order they were sent. A turn is here only what the    *)
(* window can tell of it: ChatRunner has the rest.                         *)
(*                                                                         *)
(* React's state, refs and effects change together with the handler that   *)
(* changes them. Left out: the text of the draft, the messages shown, the  *)
(* list's contents, the creation and deletion of conversations.            *)
(***************************************************************************)
EXTENDS BudgetManager, Sequences, SequencesExt

CONSTANTS
    Newest,         \* the conversation that leads the list when the window is loaded
    MaxTurns,       \* bound: turns
    OldTurns,       \* turns the window has started before it was loaded again
    MaxQueue,       \* bound: queued messages
    MaxWire         \* bound: answers and events on their way to the window

ASSUME WindowAssumption ==
    /\ Newest \in Convs
    /\ MaxTurns \in Nat
    /\ OldTurns \subseteq 1 .. MaxTurns
    /\ MaxQueue \in Nat
    /\ MaxWire \in Nat \ {0}

Turns  == 1 .. MaxTurns
NoTurn == 0
NoConv == "none"
NoRef  == [turn |-> NoTurn, conv |-> NoConv, reattached |-> FALSE]

VARIABLES
    phase,      \* where each turn is in the main process
    conv,       \* the conversation of each turn that is not over
    stopped,    \* turns whose AbortController was aborted
    asks,       \* requests on their way to the main process
    wire,       \* answers and events on their way to the window
    activeId,   \* the conversation shown
    ref,        \* activeStreamRef
    streaming,  \* streamingConversationId
    queued,     \* queued: for each message, the conversation it was typed in
    visited,    \* reattachedConvRef
    pending,    \* the conversation whose reattach answer is still wanted
    awaited     \* turns whose chat.start the window awaits

mainVars   == <<phase, conv, stopped>>
windowVars == <<activeId, ref, streaming, queued, visited, pending, awaited>>
vars == <<spent, mainVars, asks, wire, windowVars>>

Phases == {"idle", "asked", "starting", "preparing", "calling", "tools", "refused", "over"}
Live   == {"preparing", "calling", "tools"}     \* listed in active

Request == [kind: {"start"}, turn: Turns] \cup [kind: {"reattach"}, conv: Convs]

Delivery == [kind: {"reply", "rejected"}, turn: Turns, conv: Convs]
       \cup [kind: {"ended"}, turn: Turns, clean: BOOLEAN]
       \cup [kind: {"fetched"}, clean: BOOLEAN]
       \cup [kind: {"reattached"}, conv: Convs, turn: Turns \cup {NoTurn}]

TypeOK ==
    /\ BudgetTypeOK
    /\ phase \in [Turns -> Phases]
    /\ conv \in [Turns -> Convs \cup {NoConv}]
    /\ stopped \subseteq Turns
    /\ asks \in Seq(Request)
    /\ wire \in Seq(Delivery) /\ Len(wire) <= MaxWire
    /\ activeId \in Convs
    /\ ref \in [turn: Turns, conv: Convs, reattached: BOOLEAN] \cup {NoRef}
    /\ streaming \in Convs \cup {NoConv}
    /\ queued \in Seq(Convs) /\ Len(queued) <= MaxQueue
    /\ visited \subseteq Convs
    /\ pending \in Convs \cup {NoConv}
    /\ awaited \subseteq Turns

\* The window is loaded, for the first time or again: then the turns it had started
\* before may still be anywhere in the main process, and whatever was on the way to it
\* is lost.
Init ==
    /\ BudgetInit
    /\ \E old \in SUBSET OldTurns :
         /\ phase \in [Turns -> {"idle", "starting", "preparing", "calling", "tools"}]
         /\ \A t \in Turns : phase[t] = "idle" <=> t \notin old
         /\ conv \in [Turns -> Convs \cup {NoConv}]
         /\ \A t \in Turns : conv[t] = NoConv <=> t \notin old
    /\ stopped = {}
    /\ activeId = Newest
    /\ asks = <<[kind |-> "reattach", conv |-> activeId]>>
    /\ wire = <<>>
    /\ ref = NoRef
    /\ streaming = NoConv
    /\ queued = <<>>
    /\ visited = {activeId}
    /\ pending = activeId
    /\ awaited = {}

-----------------------------------------------------------------------------
(* The main process                                                        *)

Goto(t, p) == phase' = [phase EXCEPT ![t] = p]

\* The first done or error event of a turn, clean when it is the done of a turn that was
\* not stopped. A done that follows an error finds no turn to end and is left out.
Done(t) == [kind |-> "ended", turn |-> t, clean |-> TRUE]
Cut(t)  == [kind |-> "ended", turn |-> t, clean |-> FALSE]
Post(ds) == Len(wire) + Len(ds) <= MaxWire /\ wire' = wire \o ds

LiveIn(c) == {t \in Turns : phase[t] \in Live /\ conv[t] = c}

\* chat:reattach: a live turn of the conversation, the first listed in active; which
\* of several that is is left open. Without one there may be a cut turn to announce.
Reattach(c) ==
    IF LiveIn(c) = {}
    THEN Post(<<[kind |-> "reattached", conv |-> c, turn |-> NoTurn]>>)
    ELSE \E t \in LiveIn(c) : Post(<<[kind |-> "reattached", conv |-> c, turn |-> t]>>)

\* The next request: chat:start begins, chat:reattach is answered.
TakeRequest ==
    /\ asks # <<>>
    /\ asks' = Tail(asks)
    /\ LET q == Head(asks) IN
         \/ q.kind = "start" /\ Goto(q.turn, "starting") /\ UNCHANGED wire
         \/ q.kind = "reattach" /\ Reattach(q.conv) /\ UNCHANGED phase
    /\ UNCHANGED <<spent, conv, stopped, windowVars>>

\* chat.start is answered; nobody waits for the answer to a window that is gone.
Answer(kind, t) == IF t \in awaited THEN <<[kind |-> kind, turn |-> t, conv |-> conv[t]]>> ELSE <<>>

\* The provider is called.
Call(t) ==
    /\ ~Exceeded(conv[t])
    /\ Goto(t, "calling")
    /\ UNCHANGED <<conv, stopped>>

\* The turn is over and no longer in active.
End(t, p) ==
    /\ Goto(t, p)
    /\ stopped' = stopped \ {t}
    /\ conv' = [conv EXCEPT ![t] = NoConv]

\* The model is not in the catalog, or the provider cannot be built.
RejectStart(t) ==
    /\ phase[t] = "starting"
    /\ End(t, "over")
    /\ Post(Answer("rejected", t))
    /\ UNCHANGED <<spent, asks, windowVars>>

\* startChatStream(): rows and active are set; the prompt is prepared, awaited.
Register(t) ==
    /\ phase[t] = "starting"
    /\ Goto(t, "preparing")
    /\ UNCHANGED <<spent, conv, stopped, asks, wire, windowVars>>

\* runStream() is called and runs up to the provider call; then chat:start is
\* answered. A budget that is used up ends the turn there, with an error event that
\* is sent before the answer.
Launch(t) ==
    /\ phase[t] = "preparing"
    /\ \/ Call(t) /\ Post(Answer("reply", t))
       \/ /\ Exceeded(conv[t])
          /\ End(t, "refused")
          /\ Post(<<Cut(t)>> \o Answer("reply", t))
    /\ UNCHANGED <<spent, asks, windowVars>>

\* The provider is done answering: its usage is accrued and the turn goes on to the
\* tools or ends, by itself or with an error.
Answered(t) ==
    /\ phase[t] = "calling"
    /\ t \notin stopped
    /\ \E cost \in Costs : Accrue(conv[t], cost)
    /\ \/ /\ Goto(t, "tools")
          /\ UNCHANGED <<wire, conv, stopped>>
       \/ /\ End(t, "over")
          /\ Post(<<Done(t)>>) \/ Post(<<Cut(t)>>)
    /\ UNCHANGED <<asks, windowVars>>

\* (mutant) A stopped turn ends without a word.
StopsSilently(t) ==
    /\ phase[t] = "calling"
    /\ t \in stopped
    /\ End(t, "over")
    /\ UNCHANGED <<spent, asks, wire, windowVars>>

\* The signal is aborted: the loop over the answer breaks off, or the provider throws.
Stops(t) ==
    /\ phase[t] = "calling"
    /\ t \in stopped
    /\ End(t, "over")
    /\ Post(<<Cut(t)>>)
    /\ UNCHANGED <<spent, asks, windowVars>>

\* The tools are through, and the provider is called again unless a budget is used up or
\* the turn has reached MAX_TOOL_ITERATIONS.
NextCall(t) ==
    /\ phase[t] = "tools"
    /\ \/ Call(t) /\ UNCHANGED wire
       \/ End(t, "over") /\ Post(<<Cut(t)>>)
    /\ UNCHANGED <<spent, asks, windowVars>>

-----------------------------------------------------------------------------
(* The window: what every handler may do                                   *)

Ask(q) == asks' = Append(asks, q)

\* send() in the conversation shown, by the next turn.
Fresh == {t \in Turns : phase[t] = "idle"}

SendAs(t) ==
    /\ t \in Fresh /\ \A u \in Fresh : t <= u
    /\ Goto(t, "asked")
    /\ conv' = [conv EXCEPT ![t] = activeId]
    /\ awaited' = awaited \cup {t}
    /\ streaming' = activeId
    /\ Ask([kind |-> "start", turn |-> t])
    /\ UNCHANGED <<stopped>>

\* The reattach effect, run again for conversation c: an answer still awaited is no
\* longer wanted, and a conversation is asked about once, when it is first shown, unless
\* the window follows a turn of it.
ReattachEffect(c) ==
    IF c \in visited \/ ref.conv = c
    THEN pending' = NoConv /\ UNCHANGED <<visited, asks>>
    ELSE /\ pending' = c
         /\ visited' = visited \cup {c}
         /\ Ask([kind |-> "reattach", conv |-> c])

-----------------------------------------------------------------------------
(* The user                                                                *)

\* (mutant) The queue is kept when another conversation is shown.
SelectKeepingQueue(c) ==
    /\ c # activeId
    /\ activeId' = c
    /\ ReattachEffect(c)
    /\ UNCHANGED <<spent, mainVars, wire, ref, streaming, queued, awaited>>

\* selectConversation(): the queue is dropped.
SelectConversation(c) ==
    /\ c # activeId
    /\ activeId' = c
    /\ queued' = <<>>
    /\ ReattachEffect(c)
    /\ UNCHANGED <<spent, mainVars, wire, ref, streaming, awaited>>

\* handleSubmit(): a message is queued while the conversation shown is streaming, as
\* the window sees it, and sent otherwise. Each queued message keeps a turn for itself.
Submit ==
    /\ Cardinality(Fresh) > Len(queued)
    /\ \/ /\ streaming = activeId
          /\ Len(queued) < MaxQueue
          /\ queued' = Append(queued, activeId)
          /\ UNCHANGED <<mainVars, asks, streaming, awaited>>
       \/ /\ streaming # activeId
          /\ \E t \in Turns : SendAs(t)
          /\ UNCHANGED queued
    /\ UNCHANGED <<spent, wire, activeId, ref, visited, pending>>

RemoveQueued(i) ==
    /\ queued' = RemoveAt(queued, i)
    /\ UNCHANGED <<spent, mainVars, asks, wire, activeId, ref, streaming,
                   visited, pending, awaited>>

\* cancel(), offered while the conversation shown is streaming: the turn followed is
\* stopped, whichever conversation it is of, when it is still live. (What the main
\* process does before the request arrives it may as well have done before it was sent.)
Cancel ==
    /\ streaming = activeId
    /\ ref # NoRef
    /\ phase[ref.turn] \in Live
    /\ stopped' = stopped \cup {ref.turn}
    /\ UNCHANGED <<spent, phase, conv, asks, wire, windowVars>>

\* The list of conversations is broadcast, because of a title or another window.
ListChanged ==
    /\ pending # NoConv
    /\ ReattachEffect(activeId)
    /\ UNCHANGED <<spent, mainVars, wire, activeId, ref, streaming, queued, awaited>>

-----------------------------------------------------------------------------
(* The window: what arrives                                                *)

\* chat.start has answered: the turn is followed from here on, instead of any other.
ReplyArrives(d) ==
    /\ d.kind = "reply"
    /\ ref' = [turn |-> d.turn, conv |-> d.conv, reattached |-> FALSE]
    /\ awaited' = awaited \ {d.turn}
    /\ UNCHANGED <<mainVars, asks, activeId, streaming, queued, visited, pending>>

\* chat.start has thrown: whatever turn is followed is let go.
RejectionArrives(d) ==
    /\ d.kind = "rejected"
    /\ ref' = NoRef
    /\ streaming' = NoConv
    /\ awaited' = awaited \ {d.turn}
    /\ UNCHANGED <<mainVars, asks, activeId, queued, visited, pending>>

\* (mutant) Only the events of a turn that chat.start has answered are handled.
EndArrivesOfOwn(d) ==
    /\ d.kind = "ended"
    /\ IF ref.turn = d.turn /\ ~ref.reattached
       THEN /\ ref' = NoRef
            /\ streaming' = NoConv
            /\ wire' = Append(Tail(wire), [kind |-> "fetched", clean |-> d.clean])
       ELSE UNCHANGED <<ref, streaming>> /\ wire' = Tail(wire)
    /\ UNCHANGED <<mainVars, asks, activeId, queued, visited, pending, awaited>>

\* A done or error event of the turn followed, up to the reads of finalizeStream(), which
\* are answered in order. The queue goes on after a turn of this window that ended by
\* itself.
EndArrives(d) ==
    /\ d.kind = "ended"
    /\ IF ref.turn = d.turn
       THEN /\ ref' = NoRef
            /\ streaming' = NoConv
            /\ wire' = Append(Tail(wire), [kind |-> "fetched", clean |-> d.clean /\ ~ref.reattached])
       ELSE UNCHANGED <<ref, streaming>> /\ wire' = Tail(wire)
    /\ UNCHANGED <<mainVars, asks, activeId, queued, visited, pending, awaited>>

\* finalizeStream() goes on: the list is applied, and the head of the queue is sent.
FetchArrives(d) ==
    /\ d.kind = "fetched"
    /\ pending' = NoConv
    /\ IF d.clean /\ queued # <<>>
       THEN (\E t \in Turns : SendAs(t)) /\ queued' = Tail(queued)
       ELSE UNCHANGED <<mainVars, asks, streaming, awaited, queued>>
    /\ UNCHANGED <<activeId, ref, visited>>

\* A live turn is followed, unless the answer is no longer wanted.
ReattachArrives(d) ==
    /\ d.kind = "reattached"
    /\ IF pending = d.conv
       THEN /\ pending' = NoConv
            /\ IF d.turn # NoTurn
               THEN /\ ref' = [turn |-> d.turn, conv |-> d.conv, reattached |-> TRUE]
                    /\ streaming' = d.conv
               ELSE UNCHANGED <<ref, streaming>>
       ELSE UNCHANGED <<ref, streaming, pending>>
    /\ UNCHANGED <<mainVars, asks, activeId, queued, visited, awaited>>

Arrive ==
    /\ wire # <<>>
    /\ LET d == Head(wire) IN
         \/ EndArrives(d)
         \/ /\ ReplyArrives(d) \/ RejectionArrives(d) \/ FetchArrives(d) \/ ReattachArrives(d)
            /\ wire' = Tail(wire)
    /\ UNCHANGED spent

-----------------------------------------------------------------------------

TurnStep(t) ==
    \/ RejectStart(t)
    \/ Register(t)
    \/ Launch(t)
    \/ Answered(t)
    \/ Stops(t)
    \/ NextCall(t)

UserStep ==
    \/ \E c \in Convs : SelectConversation(c)
    \/ Submit
    \/ \E i \in DOMAIN queued : RemoveQueued(i)
    \/ Cancel

Next ==
    \/ \E t \in Turns : TurnStep(t)
    \/ TakeRequest
    \/ Arrive
    \/ UserStep
    \/ ListChanged
    \/ Midnight /\ UNCHANGED <<mainVars, asks, wire, windowVars>>

Spec == Init /\ [][Next]_vars

\* Requests, answers and events arrive, the prompt of a turn gets prepared, tools return
\* once the turn is stopped, and a provider gives up when its signal is aborted. It need
\* not ever answer otherwise.
FairSpec ==
    /\ Spec
    /\ WF_vars(TakeRequest)
    /\ WF_vars(Arrive)
    /\ \A t \in Turns :
        /\ WF_vars(Launch(t))
        /\ WF_vars(Stops(t))
        /\ WF_vars(t \in stopped /\ NextCall(t))

-----------------------------------------------------------------------------
(* Properties                                                              *)

\* The turn is live, or an event that ends it is on its way to the window.
EndToCome(t) ==
    \/ phase[t] \in Live
    \/ \E i \in DOMAIN wire : wire[i].kind = "ended" /\ wire[i].turn = t

\* A turn the window follows has not ended behind its back, whatever order answers,
\* reattachments, other turns' ends and reloads come in, unless a budget refused it
\* before chat.start was answered (the guard of the event listener in chat-context.tsx
\* ignores every event of a turn not in activeStreamRef).
FollowedTurnEnds ==
    ref # NoRef => phase[ref.turn] = "refused" \/ EndToCome(ref.turn)

\* The renderer finalizes the stream on the first error event (runner.ts): it is not
\* left following a turn whose only error event it has received.
FirstErrorFinalizes ==
    ref # NoRef => EndToCome(ref.turn)

\* A queued message is of the conversation shown, so finalizeStream(), which sends the
\* head of the queue to the conversation shown, sends it where it was typed, whichever
\* turn's end it handles (queuedRef and sendRef in chat-context.tsx).
QueueGoesHome ==
    \A i \in DOMAIN queued : queued[i] = activeId

\* However turns overlap and whenever midnight comes, a hard stop is overrun by no more
\* than one answer for each turn there is (check() and accrue() in budget-manager.ts are
\* apart, and all turns may pass the check before one of them is charged).
OverrunBounded ==
    \A b \in Budgets, k \in Keys :
        spent[b][k] < Amount[b] + MaxCost * Cardinality({t \in Turns : phase[t] # "idle"})

\* A turn that was stopped is let go by the window that follows it: the composer does
\* not go on streaming.
StopLetsGo ==
    \A t \in Turns : t \in stopped /\ ref.turn = t ~> ref.turn # t
=============================================================================
