----------------------------- MODULE ChatStream -----------------------------
(***************************************************************************)
(* What the agent loop takes for granted of a provider (packages/core/src/ *)
(* provider.ts, events.ts; apps/desktop/src/main/chat/runner.ts:437-500):  *)
(* the events of one chat() are text and calls, each call once, perhaps an *)
(* error, and a done which is the last of all; after an error there is     *)
(* nothing but the done, which owns up to it; and the loop is asked to run *)
(* tools only when every call it was told is there as a whole. Or the      *)
(* iterator throws.                                                        *)
(***************************************************************************)
EXTENDS Sequences

CONSTANTS Calls

VARIABLES
    events,     \* the events told so far
    thrown,     \* the iterator has thrown
    exact       \* the provider tells a cut answer from one that asks for tools

vars == <<events, thrown, exact>>

Told(type) == {events[i] : i \in {j \in DOMAIN events : events[j].type = type}}

Init == events = <<>> /\ thrown = FALSE /\ exact \in BOOLEAN

Tell(e) ==
    /\ Told("done") = {} /\ ~thrown
    /\ events' = Append(events, e)
    /\ UNCHANGED <<thrown, exact>>

TellText == Told("error") = {} /\ Tell([type |-> "text_delta"])

TellCall(c, whole) ==
    /\ Told("error") = {}
    /\ \A e \in Told("tool_call") : e.id # c
    /\ Tell([type |-> "tool_call", id |-> c, whole |-> whole])

TellError == Told("error") = {} /\ Tell([type |-> "error"])

TellDone(stop) ==
    /\ IF Told("error") # {} THEN stop \in {"error", "content_filter"} ELSE stop # "error"
    /\ exact /\ stop = "tool_use" => \A e \in Told("tool_call") : e.whole
    /\ Tell([type |-> "done", stop |-> stop])

Throw ==
    /\ Told("done") = {} /\ ~thrown
    /\ thrown' = TRUE
    /\ UNCHANGED <<events, exact>>

Next ==
    \/ TellText \/ TellError \/ Throw
    \/ \E c \in Calls, whole \in BOOLEAN : TellCall(c, whole)
    \/ \E stop \in {"end_turn", "max_tokens", "stop_sequence", "tool_use", "error",
                    "budget_exceeded", "content_filter"} : TellDone(stop)

Spec == Init /\ [][Next]_vars
=============================================================================
