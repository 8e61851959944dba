-------------------------- MODULE ProviderStreams --------------------------
(***************************************************************************)
(* One chat() of a provider: the request with its retries (packages/core/  *)
(* src/retry.ts), the body's pieces (sse.ts, ndjson.ts), and what each     *)
(* adapter makes of them (packages/provider-*/src/translate-stream.ts,     *)
(* provider-openai/src/responses.ts). xAI and OpenRouter use the           *)
(* translator of OpenAI.                                                   *)
(*                                                                         *)
(* The server is external: it sends text and calls, of a call perhaps only *)
(* a part, and a reason; the body may end or break at any piece. Left out: *)
(* usage and cost, pieces that are not valid and are skipped, the waiting  *)
(* times, and a consumer that leaves the iterator, which ends it.          *)
(***************************************************************************)
EXTENDS Naturals, Sequences, SequencesExt

CONSTANTS
    Calls,          \* calls an answer may have
    MaxRequests,    \* maxAttempts of fetchWithRetry()
    MaxTexts        \* bound: pieces of text

ASSUME StreamAssumption == MaxRequests \in Nat \ {0} /\ MaxTexts \in Nat

VARIABLE chat

Providers == {"openai", "responses", "mistral", "anthropic", "google", "ollama"}

\* Those that put a call together by its index and tell it when the answer has ended.
Assembles == {"openai", "responses", "mistral"}

\* Those whose reason does not say that tools are wanted: the calls say it.
CallsSayIt == {"responses", "google", "ollama"}

Reasons == {"none", "stop", "length", "calls", "filter", "fault"}

Text          == [type |-> "text_delta"]
Call(c, whole) == [type |-> "tool_call", id |-> c, whole |-> whole]
Error         == [type |-> "error"]
Done(stop)    == [type |-> "done", stop |-> stop]

StopReasons  == {"end_turn", "max_tokens", "stop_sequence", "tool_use", "error", "cancelled",
                 "budget_exceeded", "content_filter"}
StreamEvents == {Text, Error} \cup {Call(c, whole) : c \in Calls, whole \in BOOLEAN}
                              \cup {Done(stop) : stop \in StopReasons}

StreamTypeOK ==
    chat \in [provider : Providers, pc : {"request", "sleep", "open", "yield", "over"},
              attempt : 1 .. MaxRequests, texts : 0 .. MaxTexts,
              sent : [Calls -> {"none", "part", "whole"}], pending : Seq(Calls),
              reason : Reasons, outbox : Seq(StreamEvents), told : Seq(StreamEvents),
              thrown : BOOLEAN]

StreamInit ==
    \E p \in Providers :
        chat = [provider |-> p, pc |-> "request", attempt |-> 1, texts |-> 0,
                sent |-> [c \in Calls |-> "none"], pending |-> <<>>, reason |-> "none",
                outbox |-> <<>>, told |-> <<>>, thrown |-> FALSE]

\* The generator goes on to yield these events, and is over then.
Yielding(events) == [chat EXCEPT !.pc = "yield", !.outbox = events]

-----------------------------------------------------------------------------
(* The request                                                             *)

AnswerOk ==
    /\ chat.pc = "request"
    /\ chat' = [chat EXCEPT !.pc = "open"]

\* A status that is no success: told as an error, without a further request.
AnswerRefused ==
    /\ chat.pc = "request"
    /\ chat' = Yielding(<<Error, Done("error")>>)

\* 408, 425, 429 or 5xx is worth another request; Ollama makes one only.
AnswerBusy ==
    /\ chat.pc = "request"
    /\ chat.provider # "ollama" /\ chat.attempt < MaxRequests
    /\ chat' = [chat EXCEPT !.pc = "sleep"]

Resend ==
    /\ chat.pc = "sleep"
    /\ chat' = [chat EXCEPT !.pc = "request", !.attempt = @ + 1]

\* The network or the abort, during a request, the delay or the body.
Breaks ==
    /\ chat.pc \in {"request", "sleep", "open"}
    /\ chat' = [chat EXCEPT !.pc = "over", !.thrown = TRUE]

-----------------------------------------------------------------------------
(* The pieces of the body                                                  *)

Receiving == chat.pc = "open" /\ chat.reason = "none"

TextPiece ==
    /\ Receiving
    /\ chat.texts < MaxTexts
    /\ chat' = [chat EXCEPT !.texts = @ + 1, !.told = Append(@, Text)]

\* A call in one piece, told at once.
WholeCall(c) ==
    /\ Receiving
    /\ chat.provider \in {"google", "ollama"}
    /\ chat.sent[c] = "none"
    /\ chat' = [chat EXCEPT !.sent[c] = "whole", !.told = Append(@, Call(c, TRUE))]

\* A call in parts: the first opens an entry or a block, the others add to it.
CallBegins(c) ==
    /\ Receiving
    /\ chat.provider \in Assembles \cup {"anthropic"}
    /\ chat.sent[c] = "none"
    /\ chat' = [chat EXCEPT !.sent[c] = "part", !.pending = Append(@, c)]

CallCompletes(c) ==
    /\ Receiving
    /\ c \in ToSet(chat.pending) /\ chat.sent[c] = "part"
    /\ chat' = [chat EXCEPT !.sent[c] = "whole"]

\* Anthropic ends a block, also one that it cuts: the call is told as it is.
BlockStops(c) ==
    /\ Receiving
    /\ chat.provider = "anthropic"
    /\ \E i \in DOMAIN chat.pending :
          /\ chat.pending[i] = c
          /\ chat' = [chat EXCEPT !.told = Append(@, Call(c, chat.sent[c] = "whole")),
                                  !.pending = RemoveAt(@, i)]

\* The reason: a server that wants tools run, or has nothing to add, has sent its calls
\* as a whole.
ReasonsOf(p) ==
    {"stop", "length"}
        \cup (IF p \in CallsSayIt THEN {} ELSE {"calls"})
        \cup (IF p \in {"responses", "ollama"} THEN {} ELSE {"filter"})
        \cup (IF p = "mistral" THEN {"fault"} ELSE {})

ReasonPiece ==
    /\ Receiving
    /\ \E r \in ReasonsOf(chat.provider) :
          /\ r \in {"stop", "calls"} => \A c \in Calls : chat.sent[c] # "part"
          /\ r = "calls" => \E c \in Calls : chat.sent[c] = "whole"
          /\ chat' = [chat EXCEPT !.reason = r]

\* An error in the body.
ErrorPiece ==
    /\ chat.pc = "open"
    /\ chat.provider \in {"anthropic", "responses"}
    /\ chat' = Yielding(<<Error, Done("error")>>)

-----------------------------------------------------------------------------
(* The end of the body                                                     *)

\* mapStopReason(): an answer without a reason counts as complete.
MapReason ==
    [none |-> "end_turn", stop |-> "end_turn", length |-> "max_tokens",
     calls |-> "tool_use", filter |-> "content_filter", fault |-> "error"]

\* The entries, in the order they were opened.
Flush ==
    IF chat.provider \in Assembles
    THEN [i \in DOMAIN chat.pending |->
             Call(chat.pending[i], chat.sent[chat.pending[i]] = "whole")]
    ELSE <<>>

SawCall == \E e \in ToSet(chat.told \o Flush) : e.type = "tool_call"

StopReason ==
    IF chat.provider \in CallsSayIt /\ SawCall THEN "tool_use" ELSE MapReason[chat.reason]

\* Google has blocked the answer, Mistral has failed in the middle of it.
Blocked == chat.provider = "google" /\ chat.reason = "filter"
Faulted == chat.reason = "fault"

\* (mutant) After the error the generator goes on.
LastWordsGoOn ==
    (IF Faulted THEN <<Error, Done("error")>> ELSE <<>>) \o Flush \o <<Done(StopReason)>>

LastWords ==
    IF Blocked THEN <<Error, Done("content_filter")>>
    ELSE IF Faulted THEN <<Error, Done("error")>>
    ELSE Flush \o <<Done(StopReason)>>

\* The body ends, after the reason or before it.
BodyEnds ==
    /\ chat.pc = "open"
    /\ chat' = Yielding(LastWords)

Yield ==
    /\ chat.pc = "yield"
    /\ chat' = [chat EXCEPT !.told = Append(@, Head(chat.outbox)),
                            !.outbox = Tail(@),
                            !.pc = IF Len(chat.outbox) = 1 THEN "over" ELSE @]

StreamStep ==
    \/ AnswerOk \/ AnswerRefused \/ AnswerBusy \/ Resend \/ Breaks
    \/ TextPiece \/ ReasonPiece \/ ErrorPiece \/ BodyEnds \/ Yield
    \/ \E c \in Calls : WholeCall(c) \/ CallBegins(c) \/ CallCompletes(c) \/ BlockStops(c)

StreamSpec == StreamInit /\ [][StreamStep]_chat

-----------------------------------------------------------------------------
(* What the agent loop is told                                             *)

Heard == INSTANCE ChatStream
    WITH events <- chat.told, thrown <- chat.thrown, exact <- chat.provider # "responses"

\* Whatever the server sends and wherever it stops, every adapter keeps to what the loop
\* takes for granted: one done, last of all, nothing but it after an error, each call
\* once, and tools asked for only with calls that are whole (the Responses API asks for
\* them also when an answer was cut within a call: responses.ts:423-437).
ImplementsChatStream == Heard!Spec
=============================================================================
