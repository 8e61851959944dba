---------------------------- MODULE ChatWindow_proofs ----------------------------
(* Proofs about the chat window and the budgets: where a queued message goes,   *)
(* that the window follows no turn that is over without being told, and by how  *)
(* much turns that overlap may overrun a hard stop.                             *)
EXTENDS ChatWindow, FiniteSetTheorems, SequenceTheorems, TLAPS

-----------------------------------------------------------------------------
(* The invariant                                                           *)

\* A turn that has begun and is not over is of a conversation.
ConvKnown == \A t \in Turns : phase[t] \notin {"idle", "refused", "over"} => conv[t] \in Convs

\* A chat.start on its way is the only one of its turn, which waits for it.
Starts(q, t) == q.kind = "start" /\ q.turn = t

StartsInv ==
    \A i \in DOMAIN asks : \A t \in Turns : Starts(asks[i], t) =>
        /\ phase[t] = "asked"
        /\ \A j \in DOMAIN asks : Starts(asks[j], t) => j = i

\* What makes the window follow turn t, and what makes it let go.
Names(d, t) == d.kind \in {"reply", "reattached"} /\ d.turn = t
Ends(d, t)  == d.kind = "ended" /\ d.turn = t

\* The turn is live or was refused, or its end comes after position i of the wire.
Held(t)            == phase[t] \in Live \cup {"refused"}
EndsAfter(w, i, t) == \E j \in DOMAIN w : j > i /\ Ends(w[j], t)

\* The window may follow what the wire names, and what it follows, until told otherwise.
WireInv == \A i \in DOMAIN wire : \A t \in Turns :
               Names(wire[i], t) => Held(t) \/ EndsAfter(wire, i, t)
RefInv  == \A t \in Turns : ref.turn = t => Held(t) \/ EndsAfter(wire, 0, t)

FollowInv == StartsInv /\ WireInv /\ RefInv

\* The turns that were let through to the provider and will be charged to a budget, and
\* those there have been.
Pays(c, b, k) == b \in Applicable(c) /\ k = PeriodKey(b, c)
Charged(b, k) == {t \in Turns : phase[t] = "calling" /\ Pays(conv[t], b, k)}
Begun         == {t \in Turns : phase[t] # "idle"}

\* The sum of one period of one budget is within the bound, the charges to come included.
Bounded(sum, amount, charged, begun) ==
    sum + MaxCost * Cardinality(charged) < amount + MaxCost * Cardinality(begun)

\* Each of those has at most one charge to come.
SpendInv ==
    \A b \in Budgets, k \in Keys : Bounded(spent[b][k], Amount[b], Charged(b, k), Begun)

WindowInv == TypeOK /\ ConvKnown /\ FollowInv /\ QueueGoesHome /\ SpendInv

-----------------------------------------------------------------------------
(* What the operations leave well typed                                    *)

LEMMA TurnFacts ==
  /\ Turns \subseteq Nat /\ NoTurn \notin Turns
  /\ IsFiniteSet(Turns)
<1>1. MaxTurns \in Nat
  BY WindowAssumption
<1>2. IsFiniteSet(1 .. MaxTurns)
  BY <1>1, FS_Interval
<1> QED BY <1>1, <1>2 DEF Turns, NoTurn

LEMMA TakenApart ==
  ASSUME TypeOK
  PROVE  /\ phase \in [Turns -> Phases] /\ conv \in [Turns -> Convs \cup {NoConv}]
         /\ stopped \subseteq Turns /\ awaited \subseteq Turns
         /\ asks \in Seq(Request) /\ wire \in Seq(Delivery) /\ Len(wire) <= MaxWire
         /\ activeId \in Convs /\ queued \in Seq(Convs)
BY DEF TypeOK

\* An item of two sequences that were joined is one of the first or of the second.
FromEither(a, b, c, j) ==
    \/ j \in DOMAIN a /\ c[j] = a[j]
    \/ \E k \in DOMAIN b : j = Len(a) + k /\ c[j] = b[k]

\* Where the items of two sequences are when they are joined.
LEMMA Joined ==
  ASSUME NEW S, NEW a \in Seq(S), NEW b \in Seq(S), NEW c, c = a \o b
  PROVE  /\ c \in Seq(S)
         /\ \A j \in DOMAIN a : j \in DOMAIN c /\ c[j] = a[j]
         /\ \A j \in DOMAIN b : /\ Len(a) + j \in DOMAIN c
                               /\ c[Len(a) + j] = b[j]
         /\ \A j \in DOMAIN c : FromEither(a, b, c, j)
<1>1. /\ c \in Seq(S) /\ Len(c) = Len(a) + Len(b)
      /\ \A j \in 1 .. Len(a) + Len(b) : c[j] = IF j <= Len(a) THEN a[j] ELSE b[j - Len(a)]
  BY ConcatProperties
<1>2. /\ DOMAIN a = 1 .. Len(a) /\ Len(a) \in Nat
      /\ DOMAIN b = 1 .. Len(b) /\ Len(b) \in Nat
      /\ DOMAIN c = 1 .. Len(a) + Len(b)
  BY <1>1
<1>3. \A j \in DOMAIN a : j \in DOMAIN c /\ c[j] = a[j]
  BY <1>1, <1>2
<1>4. \A j \in DOMAIN b : Len(a) + j \in DOMAIN c /\ c[Len(a) + j] = b[j]
  <2> SUFFICES ASSUME NEW j \in DOMAIN b
               PROVE  Len(a) + j \in DOMAIN c /\ c[Len(a) + j] = b[j]
    OBVIOUS
  <2> DEFINE m == Len(a) + j
  <2>1. m \in 1 .. Len(a) + Len(b) /\ ~(m <= Len(a)) /\ m - Len(a) = j
    BY <1>2
  <2> HIDE DEF m
  <2>2. c[m] = b[j]
    BY <2>1, <1>1
  <2> QED BY <2>1, <2>2, <1>2 DEF m
<1>5. \A j \in DOMAIN c : FromEither(a, b, c, j)
  <2> SUFFICES ASSUME NEW j \in DOMAIN c PROVE FromEither(a, b, c, j)
    OBVIOUS
  <2>1. CASE j <= Len(a)
    BY <2>1, <1>1, <1>2 DEF FromEither
  <2>2. CASE ~(j <= Len(a))
    <3>1. j - Len(a) \in DOMAIN b /\ j = Len(a) + (j - Len(a)) /\ c[j] = b[j - Len(a)]
      BY <2>2, <1>1, <1>2
    <3> QED BY <3>1 DEF FromEither
  <2> QED BY <2>1, <2>2
<1> QED BY <1>1, <1>3, <1>4, <1>5

LEMMA GotoTyped ==
  ASSUME TypeOK, ConvKnown, NEW t \in Turns, NEW p \in Phases, Goto(t, p)
  PROVE  /\ phase' \in [Turns -> Phases]
         /\ phase'[t] = p
         /\ \A u \in Turns : u # t => phase'[u] = phase[u]
         /\ (conv' = conv /\ phase[t] \notin {"idle", "refused", "over"}) => ConvKnown'
<1>1. phase \in [Turns -> Phases]
  BY TakenApart
<1>2. /\ phase' \in [Turns -> Phases]
      /\ phase'[t] = p
      /\ \A u \in Turns : u # t => phase'[u] = phase[u]
  BY <1>1 DEF Goto
<1>3. ASSUME conv' = conv, phase[t] \notin {"idle", "refused", "over"} PROVE ConvKnown'
  <2> SUFFICES ASSUME NEW u \in Turns, phase'[u] \notin {"idle", "refused", "over"}
               PROVE  conv'[u] \in Convs
    BY DEF ConvKnown
  <2>1. phase[u] \notin {"idle", "refused", "over"}
    BY <1>2, <1>3
  <2> QED BY <2>1, <1>3 DEF ConvKnown
<1> QED BY <1>2, <1>3

LEMMA EndTyped ==
  ASSUME TypeOK, ConvKnown, NEW t \in Turns, NEW p \in {"refused", "over"}, End(t, p)
  PROVE  /\ phase' \in [Turns -> Phases] /\ conv' \in [Turns -> Convs \cup {NoConv}]
         /\ stopped' \subseteq Turns
         /\ phase'[t] = p
         /\ \A u \in Turns : u # t => phase'[u] = phase[u] /\ conv'[u] = conv[u]
         /\ ConvKnown'
<1>1. p \in Phases /\ Goto(t, p)
  BY DEF End, Phases
<1>2. /\ phase' \in [Turns -> Phases]
      /\ phase'[t] = p
      /\ \A u \in Turns : u # t => phase'[u] = phase[u]
  BY <1>1, GotoTyped
<1>3. conv \in [Turns -> Convs \cup {NoConv}] /\ stopped \subseteq Turns
  BY TakenApart
<1>4. /\ conv' \in [Turns -> Convs \cup {NoConv}] /\ stopped' \subseteq Turns
      /\ \A u \in Turns : u # t => conv'[u] = conv[u]
  BY <1>3 DEF End
<1>5. ConvKnown'
  <2> SUFFICES ASSUME NEW u \in Turns, phase'[u] \notin {"idle", "refused", "over"}
               PROVE  conv'[u] \in Convs
    BY DEF ConvKnown
  <2>1. u # t
    BY <1>2
  <2>2. phase[u] \notin {"idle", "refused", "over"}
    BY <2>1, <1>2
  <2>3. conv[u] \in Convs
    BY <2>2 DEF ConvKnown
  <2> QED BY <2>1, <2>3, <1>4
<1> QED BY <1>2, <1>4, <1>5

\* What Post puts on the wire.
LEMMA PostTyped ==
  ASSUME TypeOK, NEW ds \in Seq(Delivery), Post(ds)
  PROVE  wire' \in Seq(Delivery) /\ Len(wire') <= MaxWire
<1>1. wire \in Seq(Delivery) /\ MaxWire \in Nat
  BY TakenApart, WindowAssumption
<1> HIDE DEF Delivery
<1>2. wire' = wire \o ds /\ Len(wire) + Len(ds) <= MaxWire
  BY DEF Post
<1>3. wire \o ds \in Seq(Delivery) /\ Len(wire \o ds) = Len(wire) + Len(ds)
  BY <1>1, ConcatProperties
<1> QED BY <1>1, <1>2, <1>3

LEMMA EndDelivered ==
  ASSUME NEW t \in Turns
  PROVE  /\ Done(t) \in Delivery /\ Cut(t) \in Delivery
         /\ <<Done(t)>> \in Seq(Delivery) /\ <<Cut(t)>> \in Seq(Delivery)
         /\ Ends(Done(t), t) /\ Ends(Cut(t), t)
         /\ \A u \in Turns : ~Names(Done(t), u) /\ ~Names(Cut(t), u)
<1>1. Done(t) \in Delivery /\ Cut(t) \in Delivery
  BY DEF Done, Cut, Delivery
<1>2. Ends(Done(t), t) /\ Ends(Cut(t), t)
  BY DEF Done, Cut, Ends
<1>3. \A u \in Turns : ~Names(Done(t), u) /\ ~Names(Cut(t), u)
  BY DEF Done, Cut, Names
<1>4. \A d \in Delivery : <<d>> \in Seq(Delivery)
  <2> HIDE DEF Delivery
  <2> QED OBVIOUS
<1> QED BY <1>1, <1>2, <1>3, <1>4

\* The answer to chat.start is nothing or one delivery that names no turn but t.
LEMMA AnswerDelivered ==
  ASSUME TypeOK, NEW t \in Turns, conv[t] \in Convs, NEW kind \in {"reply", "rejected"}
  PROVE  \/ Answer(kind, t) = <<>>
         \/ \E d \in Delivery : /\ Answer(kind, t) = <<d>>
                                /\ \A u \in Turns : Names(d, u) => u = t /\ kind = "reply"
                                /\ \A u \in Turns : ~Ends(d, u)
<1> DEFINE d == [kind |-> kind, turn |-> t, conv |-> conv[t]]
<1>1. d \in Delivery
  BY DEF Delivery
<1>2. d.kind = kind /\ d.turn = t
  OBVIOUS
<1>3. Answer(kind, t) = <<>> \/ Answer(kind, t) = <<d>>
  BY DEF Answer
<1> HIDE DEF d
<1>4. \A u \in Turns : Names(d, u) => u = t /\ kind = "reply"
  BY <1>2 DEF Names
<1>5. \A u \in Turns : ~Ends(d, u)
  BY <1>2 DEF Ends
<1> QED BY <1>1, <1>3, <1>4, <1>5

LEMMA AnswerTyped ==
  ASSUME TypeOK, NEW t \in Turns, conv[t] \in Convs, NEW kind \in {"reply", "rejected"}
  PROVE  Answer(kind, t) \in Seq(Delivery)
<1>1. \A d \in Delivery : <<d>> \in Seq(Delivery)
  <2> HIDE DEF Delivery
  <2> QED OBVIOUS
<1>2. <<>> \in Seq(Delivery)
  <2> HIDE DEF Delivery
  <2> QED OBVIOUS
<1> QED BY <1>1, <1>2, AnswerDelivered

LEMMA AccrueTyped ==
  ASSUME BudgetTypeOK, NEW c \in Convs, NEW cost \in Costs, Accrue(c, cost)
  PROVE  /\ BudgetTypeOK'
         /\ \A b \in Budgets, k \in Keys :
              spent'[b][k] = spent[b][k] + (IF b \in Applicable(c) /\ k = PeriodKey(b, c)
                                            THEN cost ELSE 0)
<1>1. cost \in Nat /\ cost <= MaxCost
  BY BudgetAssumption
<1> DEFINE More(b, k) == IF b \in Applicable(c) /\ k = PeriodKey(b, c) THEN cost ELSE 0
<1>2. \A b, k : More(b, k) \in Nat
  BY <1>1
<1>3. spent' = [b \in Budgets |-> [k \in Keys |-> spent[b][k] + More(b, k)]]
  BY DEF Accrue
<1> HIDE DEF More
<1>4. \A b \in Budgets, k \in Keys : spent[b][k] \in Nat
  BY DEF BudgetTypeOK
<1>5. \A b \in Budgets, k \in Keys : spent[b][k] + More(b, k) \in Nat
  BY <1>2, <1>4
<1>6. BudgetTypeOK'
  BY <1>3, <1>5 DEF BudgetTypeOK
<1>7. \A b \in Budgets, k \in Keys : spent'[b][k] = spent[b][k] + More(b, k)
  BY <1>3
<1> QED BY <1>6, <1>7 DEF More

LEMMA MidnightTyped ==
  ASSUME BudgetTypeOK, Midnight
  PROVE  /\ BudgetTypeOK'
         /\ \A b \in Budgets, k \in Keys :
              spent'[b][k] = IF k = Today THEN 0 ELSE spent[b][k]
<1>1. \A b \in Budgets : spent[b] \in [Keys -> Nat]
  BY DEF BudgetTypeOK
<1>2. Today \in Keys
  BY DEF Keys
<1>3. \A b \in Budgets : spent'[b] = [spent[b] EXCEPT ![Today] = 0]
  BY DEF Midnight
<1>4. \A b \in Budgets : spent'[b] \in [Keys -> Nat]
  <2> SUFFICES ASSUME NEW b \in Budgets PROVE spent'[b] \in [Keys -> Nat]
    OBVIOUS
  <2> DEFINE before == spent[b]
  <2>1. before \in [Keys -> Nat] /\ spent'[b] = [before EXCEPT ![Today] = 0]
    BY <1>1, <1>3
  <2> HIDE DEF before
  <2> QED BY <2>1, <1>2
<1>5. spent' \in [Budgets -> [Keys -> Nat]]
  BY <1>4 DEF Midnight
<1> QED BY <1>1, <1>3, <1>5 DEF BudgetTypeOK

\* send() takes a turn that has not begun and asks for it once.
LEMMA SendTyped ==
  ASSUME TypeOK, ConvKnown, NEW t \in Turns, SendAs(t)
  PROVE  /\ phase' \in [Turns -> Phases] /\ conv' \in [Turns -> Convs \cup {NoConv}]
         /\ stopped' \subseteq Turns /\ awaited' \subseteq Turns /\ streaming' \in Convs
         /\ asks' = Append(asks, [kind |-> "start", turn |-> t])
         /\ asks' \in Seq(Request)
         /\ phase[t] = "idle" /\ phase'[t] = "asked"
         /\ \A u \in Turns : u # t => phase'[u] = phase[u] /\ conv'[u] = conv[u]
         /\ ConvKnown'
<1>1. phase[t] = "idle" /\ "asked" \in Phases /\ Goto(t, "asked")
  BY DEF SendAs, Fresh, Phases
<1>2. /\ phase' \in [Turns -> Phases]
      /\ phase'[t] = "asked"
      /\ \A u \in Turns : u # t => phase'[u] = phase[u]
  BY <1>1, GotoTyped
<1>3. conv \in [Turns -> Convs \cup {NoConv}] /\ activeId \in Convs
  BY TakenApart
<1>4. conv' = [conv EXCEPT ![t] = activeId]
  BY DEF SendAs
<1>5. /\ conv' \in [Turns -> Convs \cup {NoConv}]
      /\ conv'[t] \in Convs
      /\ \A u \in Turns : u # t => conv'[u] = conv[u]
  BY <1>3, <1>4
<1>6. stopped' \subseteq Turns /\ awaited' \subseteq Turns /\ streaming' \in Convs
  BY TakenApart DEF SendAs
<1>7. asks' = Append(asks, [kind |-> "start", turn |-> t])
  BY DEF SendAs, Ask
<1>8. asks' \in Seq(Request)
  <2>1. [kind |-> "start", turn |-> t] \in Request
    BY DEF Request
  <2>2. asks \in Seq(Request)
    BY TakenApart
  <2> HIDE DEF Request
  <2> QED BY <2>1, <2>2, <1>7
<1>9. ConvKnown'
  <2> SUFFICES ASSUME NEW u \in Turns, phase'[u] \notin {"idle", "refused", "over"}
               PROVE  conv'[u] \in Convs
    BY DEF ConvKnown
  <2>1. CASE u = t
    BY <2>1, <1>5
  <2>2. CASE u # t
    BY <2>2, <1>2, <1>5 DEF ConvKnown
  <2> QED BY <2>1, <2>2
<1> QED BY <1>1, <1>2, <1>5, <1>6, <1>7, <1>8, <1>9

LEMMA ReattachEffectTyped ==
  ASSUME TypeOK, NEW c \in Convs, ReattachEffect(c)
  PROVE  /\ pending' \in Convs \cup {NoConv} /\ visited' \subseteq Convs
         /\ \/ asks' = asks
            \/ asks' = Append(asks, [kind |-> "reattach", conv |-> c])
         /\ asks' \in Seq(Request)
<1>1. asks \in Seq(Request) /\ visited \subseteq Convs
  BY DEF TypeOK
<1>2. [kind |-> "reattach", conv |-> c] \in Request
  BY DEF Request
<1>3. asks' = asks \/ asks' = Append(asks, [kind |-> "reattach", conv |-> c])
  BY DEF ReattachEffect, Ask
<1>4. asks' \in Seq(Request)
  <2> HIDE DEF Request
  <2> QED BY <1>1, <1>2, <1>3
<1>5. pending' \in Convs \cup {NoConv} /\ visited' \subseteq Convs
  BY <1>1 DEF ReattachEffect
<1> QED BY <1>3, <1>4, <1>5

-----------------------------------------------------------------------------
(* Steps of a turn                                                         *)

\* What every step of turn t in the main process does: it moves only t, puts ds on the
\* wire, and tells the end of t when t is live and no longer held.
Moved(t, ds) ==
    /\ phase' \in [Turns -> Phases] /\ conv' \in [Turns -> Convs \cup {NoConv}]
    /\ stopped' \subseteq Turns
    /\ ConvKnown'
    /\ \A u \in Turns : u # t => phase'[u] = phase[u] /\ conv'[u] = conv[u]
    /\ phase[t] \notin {"idle", "asked", "refused", "over"}
    /\ phase'[t] \notin {"idle", "asked"}
    /\ ds \in Seq(Delivery) /\ wire' = wire \o ds
    /\ Held(t) => Held(t)' \/ \E j \in DOMAIN ds : Ends(ds[j], t)
    /\ \A j \in DOMAIN ds, u \in Turns : Names(ds[j], u) => u = t /\ Held(t)'
    /\ UNCHANGED <<asks, windowVars>>

LEMMA MovedTypes ==
  ASSUME TypeOK, ConvKnown, NEW t \in Turns, NEW ds, Moved(t, ds),
         Len(wire') <= MaxWire, BudgetTypeOK'
  PROVE  TypeOK' /\ ConvKnown'
<1>1. wire' \in Seq(Delivery)
  <2>1. wire \in Seq(Delivery) /\ ds \in Seq(Delivery) /\ wire' = wire \o ds
    BY TakenApart DEF Moved
  <2> HIDE DEF Delivery
  <2> QED BY <2>1, ConcatProperties
<1>2. /\ asks' = asks /\ activeId' = activeId /\ ref' = ref /\ streaming' = streaming
      /\ queued' = queued /\ visited' = visited /\ pending' = pending /\ awaited' = awaited
  BY DEF Moved, windowVars
<1>3. /\ phase' \in [Turns -> Phases] /\ conv' \in [Turns -> Convs \cup {NoConv}]
      /\ stopped' \subseteq Turns /\ ConvKnown'
  BY DEF Moved
<1> HIDE DEF Delivery, Request
<1> QED BY <1>1, <1>2, <1>3 DEF TypeOK

\* The one event that ends turn t.
LEMMA EndPosted ==
  ASSUME TypeOK, ConvKnown, NEW t \in Turns, NEW p \in {"refused", "over"}, End(t, p),
         phase[t] \in {"starting", "preparing", "calling", "tools"},
         NEW d \in {Done(t), Cut(t)}, Post(<<d>>),
         UNCHANGED <<asks, windowVars>>
  PROVE  Moved(t, <<d>>) /\ Len(wire') <= MaxWire
<1>1. /\ phase' \in [Turns -> Phases] /\ conv' \in [Turns -> Convs \cup {NoConv}]
      /\ stopped' \subseteq Turns
      /\ phase'[t] = p
      /\ \A u \in Turns : u # t => phase'[u] = phase[u] /\ conv'[u] = conv[u]
      /\ ConvKnown'
  BY EndTyped
<1>2. <<d>> \in Seq(Delivery) /\ Ends(d, t) /\ \A u \in Turns : ~Names(d, u)
  BY EndDelivered
<1>3. Len(wire') <= MaxWire /\ wire' = wire \o <<d>>
  BY <1>2, PostTyped DEF Post
<1>4. DOMAIN <<d>> = {1} /\ <<d>>[1] = d
  OBVIOUS
<1>5. \E j \in DOMAIN <<d>> : Ends(<<d>>[j], t)
  BY <1>2, <1>4
<1>6. \A j \in DOMAIN <<d>>, u \in Turns : ~Names(<<d>>[j], u)
  BY <1>2, <1>4
<1>7. phase'[t] \notin {"idle", "asked"}
  BY <1>1
<1> QED BY <1>1, <1>2, <1>3, <1>5, <1>6, <1>7 DEF Moved

\* Nothing goes on the wire.
LEMMA Silent ==
  ASSUME TypeOK, ConvKnown, NEW t \in Turns, NEW p \in {"preparing", "calling", "tools"},
         Goto(t, p), phase[t] \in {"starting", "preparing", "calling", "tools"},
         UNCHANGED <<conv, stopped, asks, wire, windowVars>>
  PROVE  Moved(t, <<>>) /\ Len(wire') <= MaxWire
<1>1. p \in Phases /\ phase[t] \notin {"idle", "refused", "over"}
  BY DEF Phases
<1>2. /\ phase' \in [Turns -> Phases] /\ phase'[t] = p
      /\ \A u \in Turns : u # t => phase'[u] = phase[u]
      /\ ConvKnown'
  BY <1>1, GotoTyped
<1>3. wire \in Seq(Delivery) /\ Len(wire) <= MaxWire
  BY TakenApart
<1>4. <<>> \in Seq(Delivery) /\ wire' = wire \o <<>>
  <2> HIDE DEF Delivery
  <2> QED BY <1>3, ConcatEmptySeq
<1>5. Held(t)'
  BY <1>2 DEF Held, Live
<1>6. conv' \in [Turns -> Convs \cup {NoConv}] /\ stopped' \subseteq Turns
  BY TakenApart
<1>7. phase'[t] \notin {"idle", "asked"} /\ phase[t] \notin {"idle", "asked", "refused", "over"}
  BY <1>2
<1>8. DOMAIN <<>> = {}
  OBVIOUS
<1> QED BY <1>2, <1>3, <1>4, <1>5, <1>6, <1>7, <1>8 DEF Moved

LEMMA RejectStartMoves ==
  ASSUME TypeOK, ConvKnown, NEW t \in Turns, RejectStart(t)
  PROVE  \E ds : Moved(t, ds) /\ Len(wire') <= MaxWire
<1> DEFINE ds == Answer("rejected", t)
<1>1. phase[t] = "starting" /\ End(t, "over") /\ Post(ds) /\ UNCHANGED <<spent, asks, windowVars>>
  BY DEF RejectStart
<1>2. conv[t] \in Convs
  BY <1>1 DEF ConvKnown
<1>3. ds \in Seq(Delivery)
  BY <1>2, AnswerTyped
<1>4. \A j \in DOMAIN ds, u \in Turns : ~Names(ds[j], u)
  BY <1>2, AnswerDelivered
<1> HIDE DEF ds
<1>5. wire' = wire \o ds /\ Len(wire') <= MaxWire
  BY <1>1, <1>3, PostTyped DEF Post
<1>6. /\ phase' \in [Turns -> Phases] /\ conv' \in [Turns -> Convs \cup {NoConv}]
      /\ stopped' \subseteq Turns
      /\ phase'[t] = "over"
      /\ \A u \in Turns : u # t => phase'[u] = phase[u] /\ conv'[u] = conv[u]
      /\ ConvKnown'
  BY <1>1, EndTyped
<1>7. ~Held(t)
  BY <1>1 DEF Held, Live
<1>8. phase'[t] \notin {"idle", "asked"} /\ phase[t] \notin {"idle", "asked", "refused", "over"}
  BY <1>1, <1>6
<1>9. Moved(t, ds)
  BY <1>1, <1>3, <1>4, <1>5, <1>6, <1>7, <1>8 DEF Moved
<1> QED BY <1>5, <1>9

LEMMA RegisterMoves ==
  ASSUME TypeOK, ConvKnown, NEW t \in Turns, Register(t)
  PROVE  \E ds : Moved(t, ds) /\ Len(wire') <= MaxWire
<1>1. Goto(t, "preparing") /\ phase[t] = "starting"
  BY DEF Register
<1>2. UNCHANGED <<conv, stopped, asks, wire, windowVars>>
  BY DEF Register
<1>3. Moved(t, <<>>) /\ Len(wire') <= MaxWire
  BY <1>1, <1>2, Silent
<1> QED BY <1>3

\* The provider is called, and chat.start answered.
LEMMA LaunchCallMoves ==
  ASSUME TypeOK, ConvKnown, NEW t \in Turns, phase[t] = "preparing", Call(t),
         Post(Answer("reply", t)), UNCHANGED <<asks, windowVars>>
  PROVE  \E ds : Moved(t, ds) /\ Len(wire') <= MaxWire
<1> DEFINE ds == Answer("reply", t)
<1>1. Goto(t, "calling") /\ UNCHANGED <<conv, stopped>>
  BY DEF Call
<1>2. conv[t] \in Convs
  BY DEF ConvKnown
<1>3. ds \in Seq(Delivery)
  BY <1>2, AnswerTyped
<1>4. \A j \in DOMAIN ds, u \in Turns : Names(ds[j], u) => u = t
  BY <1>2, AnswerDelivered
<1>5. Post(ds)
  OBVIOUS
<1> HIDE DEF ds
<1>6. wire' = wire \o ds /\ Len(wire') <= MaxWire
  BY <1>5, <1>3, PostTyped DEF Post
<1>7. "calling" \in Phases /\ phase[t] \notin {"idle", "asked", "refused", "over"}
  BY DEF Phases
<1>8. /\ phase' \in [Turns -> Phases] /\ phase'[t] = "calling"
      /\ \A u \in Turns : u # t => phase'[u] = phase[u]
      /\ ConvKnown'
  BY <1>1, <1>7, GotoTyped
<1>9. Held(t)' /\ phase'[t] \notin {"idle", "asked"}
  BY <1>8 DEF Held, Live
<1>10. conv' \in [Turns -> Convs \cup {NoConv}] /\ stopped' \subseteq Turns
  BY <1>1, TakenApart
<1>11. Moved(t, ds)
  BY <1>1, <1>3, <1>4, <1>6, <1>7, <1>8, <1>9, <1>10 DEF Moved
<1> QED BY <1>6, <1>11

\* A used-up budget ends the turn, and its error event is sent before the answer.
LEMMA LaunchRefusedMoves ==
  ASSUME TypeOK, ConvKnown, NEW t \in Turns, phase[t] = "preparing", End(t, "refused"),
         Post(<<Cut(t)>> \o Answer("reply", t)), UNCHANGED <<asks, windowVars>>
  PROVE  \E ds : Moved(t, ds) /\ Len(wire') <= MaxWire
<1> DEFINE as == Answer("reply", t)
           es == <<Cut(t)>>
           ds == es \o as
<1>1. conv[t] \in Convs
  BY DEF ConvKnown
<1>2. as \in Seq(Delivery)
  BY <1>1, AnswerTyped
<1>3. \A j \in DOMAIN as, u \in Turns : Names(as[j], u) => u = t
  BY <1>1, AnswerDelivered
<1>4. es \in Seq(Delivery) /\ \A j \in DOMAIN es, u \in Turns : ~Names(es[j], u)
  BY EndDelivered
<1>5. Post(ds)
  OBVIOUS
<1> HIDE DEF as, es
<1>6. ds \in Seq(Delivery) /\ \A j \in DOMAIN ds, u \in Turns : Names(ds[j], u) => u = t
  <2>1. as \in Seq(Delivery) /\ es \in Seq(Delivery) /\ ds = es \o as
    BY <1>2, <1>4
  <2> HIDE DEF ds, Delivery
  <2>2. ds \in Seq(Delivery) /\ \A j \in DOMAIN ds : FromEither(es, as, ds, j)
    BY <2>1, Joined
  <2>3. SUFFICES ASSUME NEW j \in DOMAIN ds, NEW u \in Turns, Names(ds[j], u) PROVE u = t
    BY <2>2
  <2> QED BY <2>2, <2>3, <1>3, <1>4 DEF FromEither
<1> HIDE DEF ds
<1>7. wire' = wire \o ds /\ Len(wire') <= MaxWire
  BY <1>5, <1>6, PostTyped DEF Post
<1>8. /\ phase' \in [Turns -> Phases] /\ conv' \in [Turns -> Convs \cup {NoConv}]
      /\ stopped' \subseteq Turns
      /\ phase'[t] = "refused"
      /\ \A u \in Turns : u # t => phase'[u] = phase[u] /\ conv'[u] = conv[u]
      /\ ConvKnown'
  BY EndTyped
<1>9. Held(t)' /\ phase'[t] \notin {"idle", "asked"}
  BY <1>8 DEF Held
<1>10. phase[t] \notin {"idle", "asked", "refused", "over"}
  OBVIOUS
<1>11. Moved(t, ds)
  BY <1>6, <1>7, <1>8, <1>9, <1>10 DEF Moved
<1> QED BY <1>7, <1>11

LEMMA LaunchMoves ==
  ASSUME TypeOK, ConvKnown, NEW t \in Turns, Launch(t)
  PROVE  \E ds : Moved(t, ds) /\ Len(wire') <= MaxWire
<1>1. phase[t] = "preparing" /\ UNCHANGED <<asks, windowVars>>
  BY DEF Launch
<1>2. CASE Call(t) /\ Post(Answer("reply", t))
  BY <1>1, <1>2, LaunchCallMoves
<1>3. CASE End(t, "refused") /\ Post(<<Cut(t)>> \o Answer("reply", t))
  BY <1>1, <1>3, LaunchRefusedMoves
<1> QED BY <1>2, <1>3 DEF Launch

LEMMA AnsweredMoves ==
  ASSUME TypeOK, ConvKnown, NEW t \in Turns, Answered(t)
  PROVE  \E ds : Moved(t, ds) /\ Len(wire') <= MaxWire
<1>1. phase[t] = "calling" /\ UNCHANGED <<asks, windowVars>>
  BY DEF Answered
<1>2. CASE Goto(t, "tools") /\ UNCHANGED <<wire, conv, stopped>>
  <2>1. Moved(t, <<>>) /\ Len(wire') <= MaxWire
    BY <1>1, <1>2, Silent
  <2> QED BY <2>1
<1>3. CASE End(t, "over") /\ (Post(<<Done(t)>>) \/ Post(<<Cut(t)>>))
  <2>1. PICK d \in {Done(t), Cut(t)} : Post(<<d>>)
    BY <1>3
  <2>2. Moved(t, <<d>>) /\ Len(wire') <= MaxWire
    BY <1>1, <1>3, <2>1, EndPosted
  <2> QED BY <2>2
<1> QED BY <1>2, <1>3 DEF Answered

LEMMA StopsMoves ==
  ASSUME TypeOK, ConvKnown, NEW t \in Turns, Stops(t)
  PROVE  \E ds : Moved(t, ds) /\ Len(wire') <= MaxWire
<1>1. Moved(t, <<Cut(t)>>) /\ Len(wire') <= MaxWire
  BY EndPosted DEF Stops
<1> QED BY <1>1

LEMMA NextCallMoves ==
  ASSUME TypeOK, ConvKnown, NEW t \in Turns, NextCall(t)
  PROVE  \E ds : Moved(t, ds) /\ Len(wire') <= MaxWire
<1>1. phase[t] = "tools" /\ UNCHANGED <<asks, windowVars>>
  BY DEF NextCall
<1>2. CASE Call(t) /\ UNCHANGED wire
  <2>1. Moved(t, <<>>) /\ Len(wire') <= MaxWire
    BY <1>1, <1>2, Silent DEF Call
  <2> QED BY <2>1
<1>3. CASE End(t, "over") /\ Post(<<Cut(t)>>)
  <2>1. Moved(t, <<Cut(t)>>) /\ Len(wire') <= MaxWire
    BY <1>1, <1>3, EndPosted
  <2> QED BY <2>1
<1> QED BY <1>2, <1>3 DEF NextCall

LEMMA TurnStepMoves ==
  ASSUME TypeOK, ConvKnown, NEW t \in Turns, TurnStep(t)
  PROVE  \E ds : Moved(t, ds) /\ Len(wire') <= MaxWire
BY RejectStartMoves, RegisterMoves, LaunchMoves, AnsweredMoves, StopsMoves, NextCallMoves DEF TurnStep

\* Only an answer of a provider is charged.
LEMMA TurnStepSpends ==
  ASSUME TypeOK, ConvKnown, NEW t \in Turns, TurnStep(t)
  PROVE  BudgetTypeOK'
<1>1. BudgetTypeOK
  BY DEF TypeOK
<1>2. CASE Answered(t)
  <2>1. PICK cost \in Costs : Accrue(conv[t], cost)
    BY <1>2 DEF Answered
  <2>2. conv[t] \in Convs
    BY <1>2 DEF Answered, ConvKnown
  <2> QED BY <1>1, <2>1, <2>2, AccrueTyped
<1>3. CASE spent' = spent
  BY <1>1, <1>3 DEF BudgetTypeOK
<1> QED BY <1>2, <1>3 DEF TurnStep, RejectStart, Register, Launch, Stops, NextCall

LEMMA TurnStepTypes ==
  ASSUME TypeOK, ConvKnown, NEW t \in Turns, TurnStep(t)
  PROVE  TypeOK' /\ ConvKnown'
BY TurnStepMoves, TurnStepSpends, MovedTypes

-----------------------------------------------------------------------------
(* Types after the other steps                                             *)

LEMMA SameTurns ==
  ASSUME ConvKnown, phase' = phase, conv' = conv
  PROVE  ConvKnown'
BY DEF ConvKnown

LEMMA TakeRequestTypes ==
  ASSUME TypeOK, ConvKnown, StartsInv, TakeRequest
  PROVE  TypeOK' /\ ConvKnown'
<1> DEFINE q == Head(asks)
<1>1. asks \in Seq(Request) /\ asks # <<>> /\ asks' = Tail(asks)
  BY TakenApart DEF TakeRequest
<1>2. q \in Request /\ asks' \in Seq(Request) /\ 1 \in DOMAIN asks /\ q = asks[1]
  <2> HIDE DEF Request
  <2> QED BY <1>1, HeadTailProperties
<1>3. UNCHANGED <<spent, conv, stopped, windowVars>>
  BY DEF TakeRequest
<1> HIDE DEF q
<1>4. CASE q.kind = "start" /\ Goto(q.turn, "starting") /\ UNCHANGED wire
  <2>1. q.turn \in Turns
    BY <1>2, <1>4 DEF Request
  <2>2. phase[q.turn] = "asked"
    BY <1>2, <1>4, <2>1 DEF StartsInv, Starts
  <2>3. "starting" \in Phases
    BY DEF Phases
  <2>4. phase' \in [Turns -> Phases] /\ ConvKnown'
    BY <2>1, <2>2, <2>3, <1>3, <1>4, GotoTyped
  <2> HIDE DEF Request, Delivery
  <2> QED BY <1>2, <1>3, <1>4, <2>4 DEF TypeOK, BudgetTypeOK, windowVars
<1>5. CASE q.kind = "reattach" /\ Reattach(q.conv) /\ UNCHANGED phase
  <2>1. q.conv \in Convs
    BY <1>2, <1>5 DEF Request
  <2>2. PICK u \in Turns \cup {NoTurn} :
          Post(<<[kind |-> "reattached", conv |-> q.conv, turn |-> u]>>)
    BY <1>5 DEF Reattach, LiveIn
  <2> DEFINE d == [kind |-> "reattached", conv |-> q.conv, turn |-> u]
  <2>3. d \in Delivery
    BY <2>1 DEF Delivery
  <2>4. Post(<<d>>)
    BY <2>2
  <2> HIDE DEF d
  <2>5. <<d>> \in Seq(Delivery)
    <3> HIDE DEF Delivery
    <3> QED BY <2>3
  <2>6. wire' \in Seq(Delivery) /\ Len(wire') <= MaxWire
    BY <2>4, <2>5, PostTyped
  <2>7. ConvKnown'
    BY <1>3, <1>5, SameTurns
  <2> HIDE DEF Request, Delivery
  <2> QED BY <1>2, <1>3, <1>5, <2>6, <2>7 DEF TypeOK, BudgetTypeOK, windowVars
<1> QED BY <1>4, <1>5 DEF TakeRequest, q

\* The head of the wire, and what is left of it.
LEMMA WireHead ==
  ASSUME TypeOK, wire # <<>>
  PROVE  /\ Head(wire) \in Delivery /\ 1 \in DOMAIN wire /\ Head(wire) = wire[1]
         /\ Tail(wire) \in Seq(Delivery) /\ Len(Tail(wire)) <= MaxWire
         /\ \A d \in Delivery : /\ Append(Tail(wire), d) \in Seq(Delivery)
                                /\ Len(Append(Tail(wire), d)) <= MaxWire
<1>1. wire \in Seq(Delivery) /\ Len(wire) <= MaxWire /\ MaxWire \in Nat
  BY TakenApart, WindowAssumption
<1> HIDE DEF Delivery
<1>2. /\ Head(wire) \in Delivery /\ Tail(wire) \in Seq(Delivery)
      /\ Len(Tail(wire)) = Len(wire) - 1 /\ Len(wire) \in Nat /\ Len(wire) # 0
      /\ Head(wire) = wire[1]
  BY <1>1, HeadTailProperties
<1>3. \A d \in Delivery : /\ Append(Tail(wire), d) \in Seq(Delivery)
                          /\ Len(Append(Tail(wire), d)) = Len(Tail(wire)) + 1
  BY <1>2, AppendProperties
<1>4. 1 \in DOMAIN wire
  BY <1>1, <1>2
<1> QED BY <1>1, <1>2, <1>3, <1>4

LEMMA RefTypes ==
  ASSUME TypeOK
  PROVE  /\ ref \in [turn: Turns, conv: Convs, reattached: BOOLEAN] \cup {NoRef}
         /\ \A t \in Turns, c \in Convs, b \in BOOLEAN :
              [turn |-> t, conv |-> c, reattached |-> b]
                \in [turn: Turns, conv: Convs, reattached: BOOLEAN] \cup {NoRef}
BY DEF TypeOK

LEMMA ReplyTypes ==
  ASSUME TypeOK, ConvKnown, wire # <<>>, ReplyArrives(Head(wire)), wire' = Tail(wire),
         UNCHANGED spent
  PROVE  TypeOK' /\ ConvKnown'
<1> DEFINE d == Head(wire)
<1>1. d \in Delivery /\ Tail(wire) \in Seq(Delivery) /\ Len(Tail(wire)) <= MaxWire
  BY WireHead
<1>2. /\ d.kind = "reply"
      /\ ref' = [turn |-> d.turn, conv |-> d.conv, reattached |-> FALSE]
      /\ awaited' = awaited \ {d.turn}
      /\ UNCHANGED <<mainVars, asks, activeId, streaming, queued, visited, pending>>
  BY DEF ReplyArrives
<1> HIDE DEF d
<1>3. d.turn \in Turns /\ d.conv \in Convs
  BY <1>1, <1>2 DEF Delivery
<1>4. ref' \in [turn: Turns, conv: Convs, reattached: BOOLEAN] \cup {NoRef}
  BY <1>2, <1>3, RefTypes
<1>5. ConvKnown'
  BY <1>2, SameTurns DEF mainVars
<1> HIDE DEF Request, Delivery
<1> QED BY <1>1, <1>2, <1>4, <1>5 DEF TypeOK, BudgetTypeOK, mainVars

LEMMA RejectionTypes ==
  ASSUME TypeOK, ConvKnown, wire # <<>>, RejectionArrives(Head(wire)), wire' = Tail(wire),
         UNCHANGED spent
  PROVE  TypeOK' /\ ConvKnown'
<1> DEFINE d == Head(wire)
<1>1. Tail(wire) \in Seq(Delivery) /\ Len(Tail(wire)) <= MaxWire
  BY WireHead
<1>2. /\ ref' = NoRef /\ streaming' = NoConv /\ awaited' = awaited \ {d.turn}
      /\ UNCHANGED <<mainVars, asks, activeId, queued, visited, pending>>
  BY DEF RejectionArrives
<1> HIDE DEF d
<1>3. ConvKnown'
  BY <1>2, SameTurns DEF mainVars
<1> HIDE DEF Request, Delivery
<1> QED BY <1>1, <1>2, <1>3 DEF TypeOK, BudgetTypeOK, mainVars

LEMMA EndTypes ==
  ASSUME TypeOK, ConvKnown, wire # <<>>, EndArrives(Head(wire)), UNCHANGED spent
  PROVE  TypeOK' /\ ConvKnown'
<1> DEFINE d == Head(wire)
           f == [kind |-> "fetched", clean |-> d.clean /\ ~ref.reattached]
<1>1. /\ d.kind = "ended"
      /\ \/ ref' = NoRef /\ streaming' = NoConv /\ wire' = Append(Tail(wire), f)
         \/ ref' = ref /\ streaming' = streaming /\ wire' = Tail(wire)
      /\ UNCHANGED <<mainVars, asks, activeId, queued, visited, pending, awaited>>
  BY DEF EndArrives
<1>2. f \in Delivery
  BY DEF Delivery
<1> HIDE DEF d, f
<1>3. wire' \in Seq(Delivery) /\ Len(wire') <= MaxWire
  BY <1>1, <1>2, WireHead
<1>4. ConvKnown'
  BY <1>1, SameTurns DEF mainVars
<1> HIDE DEF Request, Delivery
<1> QED BY <1>1, <1>3, <1>4 DEF TypeOK, BudgetTypeOK, mainVars

LEMMA FetchTypes ==
  ASSUME TypeOK, ConvKnown, wire # <<>>, FetchArrives(Head(wire)), wire' = Tail(wire),
         UNCHANGED spent
  PROVE  TypeOK' /\ ConvKnown'
<1>1. Tail(wire) \in Seq(Delivery) /\ Len(Tail(wire)) <= MaxWire
  BY WireHead
<1>2. pending' = NoConv /\ UNCHANGED <<activeId, ref, visited>>
  BY DEF FetchArrives
<1>3. CASE UNCHANGED <<mainVars, asks, streaming, awaited, queued>>
  <2>1. ConvKnown'
    BY <1>3, SameTurns DEF mainVars
  <2> HIDE DEF Request, Delivery
  <2> QED BY <1>1, <1>2, <1>3, <2>1 DEF TypeOK, BudgetTypeOK, mainVars
<1>4. CASE queued # <<>> /\ (\E t \in Turns : SendAs(t)) /\ queued' = Tail(queued)
  <2>1. PICK t \in Turns : SendAs(t)
    BY <1>4
  <2>2. /\ phase' \in [Turns -> Phases] /\ conv' \in [Turns -> Convs \cup {NoConv}]
        /\ stopped' \subseteq Turns /\ awaited' \subseteq Turns /\ streaming' \in Convs
        /\ asks' \in Seq(Request)
        /\ ConvKnown'
    BY <2>1, SendTyped
  <2>3. queued' \in Seq(Convs) /\ Len(queued') <= MaxQueue
    <3>1. queued \in Seq(Convs) /\ Len(queued) <= MaxQueue /\ MaxQueue \in Nat
      BY WindowAssumption DEF TypeOK
    <3>2. Tail(queued) \in Seq(Convs) /\ Len(Tail(queued)) = Len(queued) - 1
      BY <3>1, <1>4, HeadTailProperties
    <3> QED BY <3>1, <3>2, <1>4
  <2> HIDE DEF Request, Delivery
  <2> QED BY <1>1, <1>2, <2>2, <2>3 DEF TypeOK, BudgetTypeOK
<1> QED BY <1>3, <1>4 DEF FetchArrives

LEMMA ReattachedTypes ==
  ASSUME TypeOK, ConvKnown, wire # <<>>, ReattachArrives(Head(wire)), wire' = Tail(wire),
         UNCHANGED spent
  PROVE  TypeOK' /\ ConvKnown'
<1> DEFINE d == Head(wire)
<1>1. d \in Delivery /\ Tail(wire) \in Seq(Delivery) /\ Len(Tail(wire)) <= MaxWire
  BY WireHead
<1>2. /\ d.kind = "reattached"
      /\ pending' \in {NoConv, pending}
      /\ \/ /\ d.turn # NoTurn /\ streaming' = d.conv
            /\ ref' = [turn |-> d.turn, conv |-> d.conv, reattached |-> TRUE]
         \/ ref' = ref /\ streaming' = streaming
      /\ UNCHANGED <<mainVars, asks, activeId, queued, visited, awaited>>
  BY DEF ReattachArrives
<1> HIDE DEF d
<1>3. d.turn \in Turns \cup {NoTurn} /\ d.conv \in Convs
  BY <1>1, <1>2 DEF Delivery
<1>4. /\ ref' \in [turn: Turns, conv: Convs, reattached: BOOLEAN] \cup {NoRef}
      /\ streaming' \in Convs \cup {NoConv}
  BY <1>2, <1>3, RefTypes DEF TypeOK
<1>5. ConvKnown'
  BY <1>2, SameTurns DEF mainVars
<1> HIDE DEF Request, Delivery
<1> QED BY <1>1, <1>2, <1>4, <1>5 DEF TypeOK, BudgetTypeOK, mainVars

LEMMA ArriveTypes ==
  ASSUME TypeOK, ConvKnown, Arrive
  PROVE  TypeOK' /\ ConvKnown'
<1>1. wire # <<>> /\ UNCHANGED spent
  BY DEF Arrive
<1> QED BY <1>1, ReplyTypes, RejectionTypes, EndTypes, FetchTypes, ReattachedTypes DEF Arrive

LEMMA SelectTypes ==
  ASSUME TypeOK, ConvKnown, NEW c \in Convs, SelectConversation(c)
  PROVE  TypeOK' /\ ConvKnown'
<1>1. /\ activeId' = c /\ queued' = <<>> /\ ReattachEffect(c)
      /\ UNCHANGED <<spent, mainVars, wire, ref, streaming, awaited>>
  BY DEF SelectConversation
<1>2. /\ pending' \in Convs \cup {NoConv} /\ visited' \subseteq Convs
      /\ asks' \in Seq(Request)
  BY <1>1, ReattachEffectTyped
<1>3. queued' \in Seq(Convs) /\ Len(queued') <= MaxQueue
  BY <1>1, WindowAssumption
<1>4. ConvKnown'
  BY <1>1, SameTurns DEF mainVars
<1> HIDE DEF Request, Delivery
<1> QED BY <1>1, <1>2, <1>3, <1>4 DEF TypeOK, BudgetTypeOK, mainVars

LEMMA SubmitTypes ==
  ASSUME TypeOK, ConvKnown, Submit
  PROVE  TypeOK' /\ ConvKnown'
<1>1. UNCHANGED <<spent, wire, activeId, ref, visited, pending>>
  BY DEF Submit
<1>2. CASE /\ Len(queued) < MaxQueue /\ queued' = Append(queued, activeId)
           /\ UNCHANGED <<mainVars, asks, streaming, awaited>>
  <2>1. queued \in Seq(Convs) /\ activeId \in Convs /\ MaxQueue \in Nat
    BY TakenApart, WindowAssumption
  <2>2. Append(queued, activeId) \in Seq(Convs) /\ Len(Append(queued, activeId)) = Len(queued) + 1
    BY <2>1, AppendProperties
  <2>3. Len(queued) \in Nat
    BY <2>1
  <2>4. queued' \in Seq(Convs) /\ Len(queued') <= MaxQueue
    BY <2>1, <2>2, <2>3, <1>2
  <2>5. ConvKnown'
    BY <1>2, SameTurns DEF mainVars
  <2> HIDE DEF Request, Delivery
  <2> QED BY <1>1, <1>2, <2>4, <2>5 DEF TypeOK, BudgetTypeOK, mainVars
<1>3. CASE (\E t \in Turns : SendAs(t)) /\ UNCHANGED queued
  <2>1. PICK t \in Turns : SendAs(t)
    BY <1>3
  <2>2. /\ phase' \in [Turns -> Phases] /\ conv' \in [Turns -> Convs \cup {NoConv}]
        /\ stopped' \subseteq Turns /\ awaited' \subseteq Turns /\ streaming' \in Convs
        /\ asks' \in Seq(Request)
        /\ ConvKnown'
    BY <2>1, SendTyped
  <2> HIDE DEF Request, Delivery
  <2> QED BY <1>1, <1>3, <2>2 DEF TypeOK, BudgetTypeOK
<1> QED BY <1>2, <1>3 DEF Submit

\* The items left when one is removed are items there were.
LEMMA RemovedFrom ==
  ASSUME NEW S, NEW s \in Seq(S), NEW i \in DOMAIN s
  PROVE  /\ RemoveAt(s, i) \in Seq(S)
         /\ Len(RemoveAt(s, i)) <= Len(s)
         /\ \A j \in DOMAIN RemoveAt(s, i) : \E k \in DOMAIN s : RemoveAt(s, i)[j] = s[k]
<1> DEFINE a == SubSeq(s, 1, i - 1)
           b == SubSeq(s, i + 1, Len(s))
           c == RemoveAt(s, i)
<1>1. Len(s) \in Nat /\ DOMAIN s = 1 .. Len(s) /\ i \in 1 .. Len(s)
  OBVIOUS
<1>2. /\ a \in Seq(S) /\ Len(a) = i - 1
      /\ \A j \in 1 .. i - 1 : a[j] = s[j]
  BY <1>1
<1>3. /\ b \in Seq(S) /\ Len(b) = Len(s) - i
      /\ \A j \in 1 .. Len(s) - i : b[j] = s[i + j]
  <2>1. /\ b \in Seq(S) /\ Len(b) = Len(s) - i
        /\ \A j \in 1 .. Len(b) : b[j] = s[i + 1 + j - 1]
    BY <1>1
  <2> HIDE DEF b
  <2>2. \A j \in 1 .. Len(s) - i : i + 1 + j - 1 = i + j
    BY <1>1
  <2> QED BY <2>1, <2>2
<1>4. c = a \o b
  BY DEF RemoveAt
<1> HIDE DEF a, b, c
<1>5. c \in Seq(S) /\ \A j \in DOMAIN c : FromEither(a, b, c, j)
  BY <1>2, <1>3, <1>4, Joined
<1>6. Len(c) = Len(a) + Len(b)
  BY <1>2, <1>3, <1>4, ConcatProperties
<1>7. Len(c) <= Len(s)
  BY <1>1, <1>2, <1>3, <1>6
<1>8. \A j \in DOMAIN c : \E k \in DOMAIN s : c[j] = s[k]
  <2> SUFFICES ASSUME NEW j \in DOMAIN c PROVE \E k \in DOMAIN s : c[j] = s[k]
    OBVIOUS
  <2>1. CASE j \in DOMAIN a /\ c[j] = a[j]
    <3>1. DOMAIN a = 1 .. i - 1
      BY <1>2
    <3>2. j \in 1 .. i - 1 /\ j \in DOMAIN s
      BY <2>1, <3>1, <1>1
    <3> QED BY <2>1, <3>2, <1>2
  <2>2. CASE \E m \in DOMAIN b : j = Len(a) + m /\ c[j] = b[m]
    <3>1. PICK m \in DOMAIN b : c[j] = b[m]
      BY <2>2
    <3>2. DOMAIN b = 1 .. Len(s) - i
      BY <1>3
    <3>3. m \in 1 .. Len(s) - i /\ i + m \in DOMAIN s
      BY <3>2, <1>1
    <3> QED BY <3>1, <3>3, <1>3
  <2> QED BY <1>5, <2>1, <2>2 DEF FromEither
<1> QED BY <1>5, <1>7, <1>8 DEF c

LEMMA RemoveQueuedTypes ==
  ASSUME TypeOK, ConvKnown, NEW i \in DOMAIN queued, RemoveQueued(i)
  PROVE  TypeOK' /\ ConvKnown'
<1>1. /\ queued' = RemoveAt(queued, i)
      /\ UNCHANGED <<spent, mainVars, asks, wire, activeId, ref, streaming,
                     visited, pending, awaited>>
  BY DEF RemoveQueued
<1>2. queued \in Seq(Convs) /\ Len(queued) \in Nat /\ Len(queued) <= MaxQueue /\ MaxQueue \in Nat
  BY WindowAssumption DEF TypeOK
<1>3. queued' \in Seq(Convs) /\ Len(queued') <= Len(queued)
  BY <1>1, <1>2, RemovedFrom
<1>4. Len(queued') \in Nat
  BY <1>3
<1>5. Len(queued') <= MaxQueue
  BY <1>2, <1>3, <1>4
<1>6. ConvKnown'
  BY <1>1, SameTurns DEF mainVars
<1> HIDE DEF Request, Delivery
<1> QED BY <1>1, <1>3, <1>5, <1>6 DEF TypeOK, BudgetTypeOK, mainVars

LEMMA CancelTypes ==
  ASSUME TypeOK, ConvKnown, Cancel
  PROVE  TypeOK' /\ ConvKnown'
<1>1. ref # NoRef /\ stopped' = stopped \cup {ref.turn}
      /\ UNCHANGED <<spent, phase, conv, asks, wire, windowVars>>
  BY DEF Cancel
<1>2. ref.turn \in Turns
  BY <1>1, RefTypes
<1>3. ConvKnown'
  BY <1>1, SameTurns
<1> HIDE DEF Request, Delivery
<1> QED BY <1>1, <1>2, <1>3 DEF TypeOK, BudgetTypeOK, windowVars

LEMMA ListChangedTypes ==
  ASSUME TypeOK, ConvKnown, ListChanged
  PROVE  TypeOK' /\ ConvKnown'
<1>1. /\ ReattachEffect(activeId) /\ activeId \in Convs
      /\ UNCHANGED <<spent, mainVars, wire, activeId, ref, streaming, queued, awaited>>
  BY TakenApart DEF ListChanged
<1>2. /\ pending' \in Convs \cup {NoConv} /\ visited' \subseteq Convs
      /\ asks' \in Seq(Request)
  BY <1>1, ReattachEffectTyped
<1>3. ConvKnown'
  BY <1>1, SameTurns DEF mainVars
<1> HIDE DEF Request, Delivery
<1> QED BY <1>1, <1>2, <1>3 DEF TypeOK, BudgetTypeOK, mainVars

LEMMA MidnightTypes ==
  ASSUME TypeOK, ConvKnown, Midnight, UNCHANGED <<mainVars, asks, wire, windowVars>>
  PROVE  TypeOK' /\ ConvKnown'
<1>1. BudgetTypeOK'
  BY MidnightTyped DEF TypeOK
<1>2. ConvKnown'
  BY SameTurns DEF mainVars
<1> HIDE DEF Request, Delivery
<1> QED BY <1>1, <1>2 DEF TypeOK, mainVars, windowVars

LEMMA StutterTypes ==
  ASSUME TypeOK, ConvKnown, UNCHANGED vars
  PROVE  TypeOK' /\ ConvKnown'
<1>1. ConvKnown'
  BY SameTurns DEF vars, mainVars
<1> HIDE DEF Request, Delivery
<1> QED BY <1>1 DEF TypeOK, BudgetTypeOK, vars, mainVars, windowVars

LEMMA NextTypes ==
  ASSUME TypeOK, ConvKnown, StartsInv, [Next]_vars
  PROVE  TypeOK' /\ ConvKnown'
<1>1. CASE \E t \in Turns : TurnStep(t)
  BY <1>1, TurnStepTypes
<1>2. CASE TakeRequest
  BY <1>2, TakeRequestTypes
<1>3. CASE Arrive
  BY <1>3, ArriveTypes
<1>4. CASE UserStep
  BY <1>4, SelectTypes, SubmitTypes, RemoveQueuedTypes, CancelTypes DEF UserStep
<1>5. CASE ListChanged
  BY <1>5, ListChangedTypes
<1>6. CASE Midnight /\ UNCHANGED <<mainVars, asks, wire, windowVars>>
  BY <1>6, MidnightTypes
<1>7. CASE UNCHANGED vars
  BY <1>7, StutterTypes
<1> QED BY <1>1, <1>2, <1>3, <1>4, <1>5, <1>6, <1>7 DEF Next

LEMMA InitTypes ==
  ASSUME Init
  PROVE  TypeOK /\ ConvKnown
<1>1. BudgetTypeOK
  BY DEF Init, BudgetInit, BudgetTypeOK
<1>2. PICK old \in SUBSET OldTurns :
         /\ phase \in [Turns -> {"idle", "starting", "preparing", "calling", "tools"}]
         /\ \A t \in Turns : phase[t] = "idle" <=> t \notin old
         /\ conv \in [Turns -> Convs \cup {NoConv}]
         /\ \A t \in Turns : conv[t] = NoConv <=> t \notin old
  BY DEF Init
<1>3. phase \in [Turns -> Phases]
  BY <1>2 DEF Phases
<1>4. ConvKnown
  BY <1>2 DEF ConvKnown
<1>5. activeId \in Convs
  BY WindowAssumption DEF Init
<1>6. asks \in Seq(Request)
  <2> DEFINE q == [kind |-> "reattach", conv |-> activeId]
  <2>1. q \in Request
    BY <1>5 DEF Request
  <2>2. asks = <<q>>
    BY DEF Init
  <2> HIDE DEF q, Request
  <2> QED BY <2>1, <2>2
<1>7. wire \in Seq(Delivery) /\ Len(wire) <= MaxWire
  <2>1. wire = <<>> /\ MaxWire \in Nat
    BY WindowAssumption DEF Init
  <2> HIDE DEF Delivery
  <2> QED BY <2>1
<1>8. queued \in Seq(Convs) /\ Len(queued) <= MaxQueue
  BY WindowAssumption DEF Init
<1>9. /\ stopped \subseteq Turns /\ ref = NoRef /\ streaming = NoConv
      /\ visited \subseteq Convs /\ pending \in Convs /\ awaited \subseteq Turns
  BY <1>5 DEF Init
<1> HIDE DEF Request, Delivery
<1> QED BY <1>1, <1>2, <1>3, <1>4, <1>5, <1>6, <1>7, <1>8, <1>9 DEF TypeOK

-----------------------------------------------------------------------------
(* Requests on their way                                                   *)

\* The requests and the turns they wait for stay.
LEMMA StartsKept ==
  ASSUME StartsInv, asks' = asks,
         \A t \in Turns : phase[t] = "asked" => phase'[t] = "asked"
  PROVE  StartsInv'
BY DEF StartsInv

\* An item of a sequence to which one was appended.
LEMMA Appended ==
  ASSUME NEW S, NEW s \in Seq(S), NEW d \in S, NEW r, r = Append(s, d)
  PROVE  /\ \A j \in DOMAIN s : j \in DOMAIN r /\ r[j] = s[j]
         /\ \A j \in DOMAIN r : (j \in DOMAIN s /\ r[j] = s[j]) \/ (j = Len(s) + 1 /\ r[j] = d)
         /\ Len(s) + 1 \notin DOMAIN s
<1>1. /\ Len(r) = Len(s) + 1 /\ Len(s) \in Nat /\ r \in Seq(S)
      /\ DOMAIN s = 1 .. Len(s) /\ DOMAIN r = 1 .. Len(s) + 1
  BY AppendProperties
<1>2. \A j \in 1 .. Len(s) : r[j] = s[j]
  BY AppendProperties
<1>3. r[Len(s) + 1] = d
  BY AppendProperties
<1>4. DOMAIN r = DOMAIN s \cup {Len(s) + 1} /\ Len(s) + 1 \notin DOMAIN s
  BY <1>1
<1>5. \A j \in DOMAIN s : r[j] = s[j]
  BY <1>1, <1>2
<1> QED BY <1>3, <1>4, <1>5

\* The items of the tail come one place earlier.
LEMMA TailItems ==
  ASSUME NEW S, NEW s \in Seq(S), s # <<>>, NEW r, r = Tail(s)
  PROVE  /\ \A j \in DOMAIN r : j \in Nat \ {0} /\ j + 1 \in DOMAIN s /\ r[j] = s[j + 1]
         /\ \A j \in DOMAIN s : j # 1 => j - 1 \in DOMAIN r /\ r[j - 1] = s[j]
<1>1. /\ Len(s) \in Nat /\ Len(s) # 0 /\ r \in Seq(S) /\ Len(r) = Len(s) - 1
      /\ \A j \in 1 .. Len(r) : r[j] = s[j + 1]
  BY HeadTailProperties
<1>2. DOMAIN s = 1 .. Len(s) /\ DOMAIN r = 1 .. Len(s) - 1
  BY <1>1
<1>3. \A j \in DOMAIN r : j \in Nat \ {0} /\ j + 1 \in DOMAIN s /\ r[j] = s[j + 1]
  BY <1>1, <1>2
<1>4. \A j \in DOMAIN s : j # 1 => j - 1 \in DOMAIN r /\ j = (j - 1) + 1
  BY <1>1, <1>2
<1> QED BY <1>3, <1>4

LEMMA StartsTaken ==
  ASSUME TypeOK, StartsInv, asks # <<>>, asks' = Tail(asks),
         \A t \in Turns : phase[t] = "asked" /\ ~Starts(Head(asks), t) => phase'[t] = "asked"
  PROVE  StartsInv'
<1>1. asks \in Seq(Request)
  BY TakenApart
<1> HIDE DEF Request
<1>2. \A j \in DOMAIN asks' : j \in Nat \ {0} /\ j + 1 \in DOMAIN asks /\ asks'[j] = asks[j + 1]
  BY <1>1, TailItems
<1>3. Head(asks) = asks[1] /\ 1 \in DOMAIN asks
  BY <1>1, HeadTailProperties
<1> SUFFICES ASSUME NEW i \in DOMAIN asks', NEW t \in Turns, Starts(asks'[i], t)
             PROVE  /\ phase'[t] = "asked"
                    /\ \A j \in DOMAIN asks' : Starts(asks'[j], t) => j = i
  BY DEF StartsInv
<1>4. i \in Nat \ {0} /\ i + 1 \in DOMAIN asks /\ Starts(asks[i + 1], t)
  BY <1>2
<1>5. phase[t] = "asked" /\ \A j \in DOMAIN asks : Starts(asks[j], t) => j = i + 1
  BY <1>4 DEF StartsInv
<1>6. ~Starts(Head(asks), t)
  <2>1. 1 # i + 1
    BY <1>4
  <2> QED BY <2>1, <1>3, <1>5
<1>7. \A j \in DOMAIN asks' : Starts(asks'[j], t) => j = i
  <2> SUFFICES ASSUME NEW j \in DOMAIN asks', Starts(asks'[j], t) PROVE j = i
    OBVIOUS
  <2>1. j \in Nat /\ j + 1 = i + 1
    BY <1>2, <1>5
  <2> QED BY <2>1, <1>4
<1> QED BY <1>5, <1>6, <1>7

LEMMA StartsAsked ==
  ASSUME TypeOK, StartsInv, NEW d \in Request, asks' = Append(asks, d),
         \A t \in Turns : phase[t] = "asked" => phase'[t] = "asked",
         \A t \in Turns : Starts(d, t) => phase[t] # "asked" /\ phase'[t] = "asked"
  PROVE  StartsInv'
<1>1. asks \in Seq(Request)
  BY TakenApart
<1> HIDE DEF Request
<1>2. \A j \in DOMAIN asks' : \/ j \in DOMAIN asks /\ asks'[j] = asks[j]
                              \/ j = Len(asks) + 1 /\ asks'[j] = d
  BY <1>1, Appended
<1> SUFFICES ASSUME NEW i \in DOMAIN asks', NEW t \in Turns, Starts(asks'[i], t)
             PROVE  /\ phase'[t] = "asked"
                    /\ \A j \in DOMAIN asks' : Starts(asks'[j], t) => j = i
  BY DEF StartsInv
<1>3. CASE Starts(d, t)
  <2>1. phase[t] # "asked" /\ phase'[t] = "asked"
    BY <1>3
  <2>2. \A j \in DOMAIN asks : ~Starts(asks[j], t)
    BY <2>1 DEF StartsInv
  <2>3. \A j \in DOMAIN asks' : Starts(asks'[j], t) => j = Len(asks) + 1
    BY <1>2, <2>2
  <2> QED BY <2>1, <2>3
<1>4. CASE ~Starts(d, t)
  <2>1. \A j \in DOMAIN asks' : Starts(asks'[j], t) => j \in DOMAIN asks /\ asks'[j] = asks[j]
    BY <1>2, <1>4
  <2>2. i \in DOMAIN asks /\ Starts(asks[i], t)
    BY <2>1
  <2>3. phase[t] = "asked" /\ \A j \in DOMAIN asks : Starts(asks[j], t) => j = i
    BY <2>2 DEF StartsInv
  <2> QED BY <2>1, <2>3
<1> QED BY <1>3, <1>4

LEMMA StartsOfTurnStep ==
  ASSUME TypeOK, ConvKnown, StartsInv, NEW t \in Turns, TurnStep(t)
  PROVE  StartsInv'
<1>1. PICK ds : Moved(t, ds)
  BY TurnStepMoves
<1>2. asks' = asks /\ phase[t] # "asked" /\ \A u \in Turns : u # t => phase'[u] = phase[u]
  BY <1>1 DEF Moved
<1> QED BY <1>2, StartsKept

LEMMA StartsOfTakeRequest ==
  ASSUME TypeOK, ConvKnown, StartsInv, TakeRequest
  PROVE  StartsInv'
<1> DEFINE q == Head(asks)
<1>1. asks # <<>> /\ asks' = Tail(asks)
  BY DEF TakeRequest
<1>2. q \in Request
  <2>1. asks \in Seq(Request)
    BY TakenApart
  <2> HIDE DEF Request
  <2> QED BY <1>1, <2>1, HeadTailProperties
<1>3. phase' = phase \/ (q.kind = "start" /\ Goto(q.turn, "starting"))
  BY DEF TakeRequest
<1> HIDE DEF q
<1>4. \A t \in Turns : phase[t] = "asked" /\ ~Starts(q, t) => phase'[t] = "asked"
  <2>1. CASE phase' = phase
    BY <2>1
  <2>2. CASE q.kind = "start" /\ Goto(q.turn, "starting")
    <3>1. q.turn \in Turns /\ "starting" \in Phases
      BY <1>2, <2>2 DEF Request, Phases
    <3>2. \A t \in Turns : t # q.turn => phase'[t] = phase[t]
      BY <3>1, <2>2, GotoTyped
    <3> QED BY <3>2, <2>2 DEF Starts
  <2> QED BY <1>3, <2>1, <2>2
<1> QED BY <1>1, <1>4, StartsTaken DEF q

LEMMA StartsOfSend ==
  ASSUME TypeOK, ConvKnown, StartsInv, NEW t \in Turns, SendAs(t)
  PROVE  StartsInv'
<1> DEFINE d == [kind |-> "start", turn |-> t]
<1>1. /\ asks' = Append(asks, d)
      /\ phase[t] = "idle" /\ phase'[t] = "asked"
      /\ \A u \in Turns : u # t => phase'[u] = phase[u]
  BY SendTyped
<1>2. d \in Request
  BY DEF Request
<1>3. \A u \in Turns : Starts(d, u) => u = t
  BY DEF Starts
<1> HIDE DEF d
<1>4. \A u \in Turns : phase[u] = "asked" => phase'[u] = "asked"
  BY <1>1
<1>5. \A u \in Turns : Starts(d, u) => phase[u] # "asked" /\ phase'[u] = "asked"
  BY <1>1, <1>3
<1> QED BY <1>1, <1>2, <1>4, <1>5, StartsAsked

LEMMA StartsOfReattach ==
  ASSUME TypeOK, StartsInv, NEW c \in Convs, ReattachEffect(c), phase' = phase
  PROVE  StartsInv'
<1> DEFINE d == [kind |-> "reattach", conv |-> c]
<1>1. d \in Request /\ d.kind = "reattach"
  BY DEF Request
<1>2. asks' = asks \/ asks' = Append(asks, d)
  BY ReattachEffectTyped
<1> HIDE DEF d
<1>3. \A u \in Turns : ~Starts(d, u)
  BY <1>1 DEF Starts
<1> QED BY <1>1, <1>2, <1>3, StartsKept, StartsAsked

LEMMA NextStarts ==
  ASSUME TypeOK, ConvKnown, StartsInv, [Next]_vars
  PROVE  StartsInv'
<1>1. CASE \E t \in Turns : TurnStep(t)
  BY <1>1, StartsOfTurnStep
<1>2. CASE TakeRequest
  BY <1>2, StartsOfTakeRequest
<1>3. ASSUME asks' = asks, phase' = phase PROVE StartsInv'
  BY <1>3, StartsKept
<1>4. CASE Arrive
  <2>1. CASE FetchArrives(Head(wire))
    <3>1. (\E t \in Turns : SendAs(t)) \/ UNCHANGED <<mainVars, asks>>
      BY <2>1 DEF FetchArrives
    <3> QED BY <3>1, <1>3, StartsOfSend DEF mainVars
  <2>2. CASE \/ EndArrives(Head(wire)) \/ ReplyArrives(Head(wire))
             \/ RejectionArrives(Head(wire)) \/ ReattachArrives(Head(wire))
    <3>1. UNCHANGED <<mainVars, asks>>
      BY <2>2 DEF EndArrives, ReplyArrives, RejectionArrives, ReattachArrives
    <3> QED BY <3>1, <1>3 DEF mainVars
  <2> QED BY <1>4, <2>1, <2>2 DEF Arrive
<1>5. CASE UserStep
  <2>1. ASSUME NEW c \in Convs, SelectConversation(c) PROVE StartsInv'
    BY <2>1, StartsOfReattach DEF SelectConversation, mainVars
  <2>2. CASE Submit
    <3>1. (\E t \in Turns : SendAs(t)) \/ UNCHANGED <<mainVars, asks>>
      BY <2>2 DEF Submit
    <3> QED BY <3>1, <1>3, StartsOfSend DEF mainVars
  <2>3. ASSUME NEW i \in DOMAIN queued, RemoveQueued(i) PROVE StartsInv'
    BY <2>3, <1>3 DEF RemoveQueued, mainVars
  <2>4. CASE Cancel
    BY <2>4, <1>3 DEF Cancel
  <2> QED BY <1>5, <2>1, <2>2, <2>3, <2>4 DEF UserStep
<1>6. CASE ListChanged
  <2>1. ReattachEffect(activeId) /\ activeId \in Convs /\ phase' = phase
    BY <1>6, TakenApart DEF ListChanged, mainVars
  <2> QED BY <2>1, StartsOfReattach
<1>7. CASE Midnight /\ UNCHANGED <<mainVars, asks, wire, windowVars>>
  BY <1>7, <1>3 DEF mainVars
<1>8. CASE UNCHANGED vars
  BY <1>8, <1>3 DEF vars, mainVars
<1> QED BY <1>1, <1>2, <1>4, <1>5, <1>6, <1>7, <1>8 DEF Next

-----------------------------------------------------------------------------
(* The end of what is followed                                             *)

\* Turn u is known to end after position i of the wire, or may go on.
Known(i, u) == Held(u) \/ EndsAfter(wire, i, u)

\* The main process posts ds: what may be followed stays so, or its end is posted.
LEMMA KnownPosted ==
  ASSUME TypeOK, NEW ds \in Seq(Delivery), wire' = wire \o ds,
         NEW i \in Nat, i <= Len(wire), NEW u \in Turns, Known(i, u),
         Held(u) => Held(u)' \/ \E j \in DOMAIN ds : Ends(ds[j], u)
  PROVE  Held(u)' \/ EndsAfter(wire', i, u)
<1>1. wire \in Seq(Delivery)
  BY TakenApart
<1> HIDE DEF Delivery
<1>2. /\ \A j \in DOMAIN wire : j \in DOMAIN wire' /\ wire'[j] = wire[j]
      /\ \A j \in DOMAIN ds : /\ Len(wire) + j \in DOMAIN wire'
                              /\ wire'[Len(wire) + j] = ds[j]
  BY <1>1, Joined
<1>3. CASE EndsAfter(wire, i, u)
  <2>1. PICK j \in DOMAIN wire : j > i /\ Ends(wire[j], u)
    BY <1>3 DEF EndsAfter
  <2>2. j \in DOMAIN wire' /\ Ends(wire'[j], u)
    BY <2>1, <1>2
  <2> QED BY <2>1, <2>2 DEF EndsAfter
<1>4. CASE \E j \in DOMAIN ds : Ends(ds[j], u)
  <2>1. PICK j \in DOMAIN ds : Ends(ds[j], u)
    BY <1>4
  <2> DEFINE m == Len(wire) + j
  <2>2. m \in DOMAIN wire' /\ Ends(wire'[m], u)
    BY <2>1, <1>2
  <2>3. j \in Nat \ {0} /\ Len(wire) \in Nat
    BY <1>1
  <2>4. m > i
    BY <2>3
  <2> HIDE DEF m
  <2> QED BY <2>2, <2>4 DEF EndsAfter
<1> QED BY <1>3, <1>4 DEF Known

LEMMA FollowPosted ==
  ASSUME TypeOK, WireInv, RefInv, NEW ds \in Seq(Delivery), wire' = wire \o ds, ref' = ref,
         \A u \in Turns : Held(u) => Held(u)' \/ \E j \in DOMAIN ds : Ends(ds[j], u),
         \A j \in DOMAIN ds, u \in Turns : Names(ds[j], u) => Held(u)'
  PROVE  WireInv' /\ RefInv'
<1>1. wire \in Seq(Delivery)
  BY TakenApart
<1>2. \A j \in DOMAIN wire' : FromEither(wire, ds, wire', j)
  <2> HIDE DEF Delivery
  <2> QED BY <1>1, Joined
<1>3. DOMAIN wire = 1 .. Len(wire) /\ Len(wire) \in Nat
  <2> HIDE DEF Delivery
  <2> QED BY <1>1
<1>4. ASSUME NEW i \in DOMAIN wire', NEW u \in Turns, Names(wire'[i], u)
      PROVE  Held(u)' \/ EndsAfter(wire', i, u)
  <2>1. CASE i \in DOMAIN wire /\ wire'[i] = wire[i]
    <3>1. Known(i, u)
      BY <1>4, <2>1 DEF WireInv, Known
    <3>2. i \in Nat /\ i <= Len(wire)
      BY <2>1, <1>3
    <3> QED BY <3>1, <3>2, KnownPosted
  <2>2. CASE \E k \in DOMAIN ds : wire'[i] = ds[k]
    BY <1>4, <2>2
  <2> QED BY <1>2, <2>1, <2>2 DEF FromEither
<1>5. ASSUME NEW u \in Turns, ref'.turn = u PROVE Held(u)' \/ EndsAfter(wire', 0, u)
  <2>1. Known(0, u)
    BY <1>5 DEF RefInv, Known
  <2>2. 0 \in Nat /\ 0 <= Len(wire)
    BY <1>3
  <2> QED BY <2>1, <2>2, KnownPosted
<1> QED BY <1>4, <1>5 DEF WireInv, RefInv

\* Nothing is posted and nothing arrives.
LEMMA FollowKept ==
  ASSUME WireInv, RefInv, wire' = wire, ref' = ref,
         \A u \in Turns : Held(u) => Held(u)'
  PROVE  WireInv' /\ RefInv'
BY DEF WireInv, RefInv, EndsAfter

\* The head of the wire is gone; nothing the window could follow has come in its place.
Shifted(r) ==
    /\ \A j \in DOMAIN wire : j # 1 => j - 1 \in DOMAIN r /\ r[j - 1] = wire[j]
    /\ \A j \in DOMAIN r : \/ j \in Nat \ {0} /\ j + 1 \in DOMAIN wire /\ r[j] = wire[j + 1]
                           \/ r[j].kind = "fetched"

LEMMA TailShifted ==
  ASSUME TypeOK, wire # <<>>
  PROVE  /\ Shifted(Tail(wire))
         /\ \A d \in Delivery : d.kind = "fetched" => Shifted(Append(Tail(wire), d))
<1> DEFINE r == Tail(wire)
<1>1. wire \in Seq(Delivery) /\ r \in Seq(Delivery)
  BY TakenApart, WireHead
<1>2. /\ \A j \in DOMAIN r : j \in Nat \ {0} /\ j + 1 \in DOMAIN wire /\ r[j] = wire[j + 1]
      /\ \A j \in DOMAIN wire : j # 1 => j - 1 \in DOMAIN r /\ r[j - 1] = wire[j]
  <2> HIDE DEF Delivery
  <2> QED BY <1>1, TailItems
<1> HIDE DEF r
<1>3. Shifted(r)
  BY <1>2 DEF Shifted
<1>4. ASSUME NEW d \in Delivery, d.kind = "fetched" PROVE Shifted(Append(r, d))
  <2> DEFINE a == Append(r, d)
  <2>1. /\ \A j \in DOMAIN r : j \in DOMAIN a /\ a[j] = r[j]
        /\ \A j \in DOMAIN a : (j \in DOMAIN r /\ a[j] = r[j]) \/ (j = Len(r) + 1 /\ a[j] = d)
    <3> HIDE DEF Delivery
    <3> QED BY <1>1, Appended
  <2> HIDE DEF a
  <2>2. \A j \in DOMAIN wire : j # 1 => j - 1 \in DOMAIN a /\ a[j - 1] = wire[j]
    BY <1>2, <2>1
  <2>3. \A j \in DOMAIN a : \/ j \in Nat \ {0} /\ j + 1 \in DOMAIN wire /\ a[j] = wire[j + 1]
                            \/ a[j].kind = "fetched"
    BY <1>2, <1>4, <2>1
  <2> QED BY <2>2, <2>3 DEF Shifted, a
<1> QED BY <1>3, <1>4 DEF r

\* The head arrives, and is not the end of what is followed afterwards.
LEMMA FollowArrived ==
  ASSUME TypeOK, WireInv, RefInv, wire # <<>>, Shifted(wire'),
         \A u \in Turns : Held(u) => Held(u)',
         \A u \in Turns : ref'.turn = u =>
            (ref.turn = u /\ ~Ends(Head(wire), u)) \/ Names(Head(wire), u)
  PROVE  WireInv' /\ RefInv'
<1>1. Head(wire) = wire[1] /\ 1 \in DOMAIN wire
  BY WireHead
<1>2. DOMAIN wire \subseteq Nat \ {0}
  <2>1. wire \in Seq(Delivery)
    BY TakenApart
  <2> HIDE DEF Delivery
  <2> QED BY <2>1
<1>3. ASSUME NEW i \in Nat, NEW u \in Turns, Known(i + 1, u)
      PROVE  Held(u)' \/ EndsAfter(wire', i, u)
  <2>1. CASE EndsAfter(wire, i + 1, u)
    <3>1. PICK j \in DOMAIN wire : j > i + 1 /\ Ends(wire[j], u)
      BY <2>1 DEF EndsAfter
    <3>2. j \in Nat /\ j # 1 /\ j - 1 > i
      BY <3>1, <1>2
    <3>3. j - 1 \in DOMAIN wire' /\ wire'[j - 1] = wire[j]
      BY <3>2 DEF Shifted
    <3> QED BY <3>1, <3>2, <3>3 DEF EndsAfter
  <2> QED BY <1>3, <2>1 DEF Known
<1>4. ASSUME NEW i \in DOMAIN wire', NEW u \in Turns, Names(wire'[i], u)
      PROVE  Held(u)' \/ EndsAfter(wire', i, u)
  <2>1. wire'[i].kind # "fetched"
    BY <1>4 DEF Names
  <2>2. i \in Nat /\ i + 1 \in DOMAIN wire /\ wire'[i] = wire[i + 1]
    BY <2>1 DEF Shifted
  <2>3. Known(i + 1, u)
    BY <2>2, <1>4 DEF WireInv, Known
  <2> QED BY <2>2, <2>3, <1>3
<1>5. ASSUME NEW u \in Turns, ref'.turn = u
      PROVE  Held(u)' \/ EndsAfter(wire', 0, u)
  <2>1. Known(1, u)
    <3>1. CASE Names(Head(wire), u)
      BY <3>1, <1>1 DEF WireInv, Known
    <3>2. CASE ref.turn = u /\ ~Ends(Head(wire), u)
      <4>1. CASE EndsAfter(wire, 0, u)
        <5>1. PICK j \in DOMAIN wire : j > 0 /\ Ends(wire[j], u)
          BY <4>1 DEF EndsAfter
        <5>2. j \in Nat /\ j # 1
          BY <5>1, <3>2, <1>1, <1>2
        <5>3. j > 1
          BY <5>1, <5>2
        <5> QED BY <5>1, <5>3 DEF EndsAfter, Known
      <4> QED BY <3>2, <4>1 DEF RefInv, Known
    <3> QED BY <1>5, <3>1, <3>2
  <2>2. 0 \in Nat /\ 0 + 1 = 1
    OBVIOUS
  <2>3. Known(0 + 1, u)
    BY <2>1, <2>2
  <2> QED BY <2>2, <2>3, <1>3
<1> QED BY <1>4, <1>5 DEF WireInv, RefInv

LEMMA FollowOfTurnStep ==
  ASSUME TypeOK, ConvKnown, WireInv, RefInv, NEW t \in Turns, TurnStep(t)
  PROVE  WireInv' /\ RefInv'
<1>1. PICK ds : Moved(t, ds)
  BY TurnStepMoves
<1>2. ds \in Seq(Delivery) /\ wire' = wire \o ds /\ ref' = ref
  BY <1>1 DEF Moved, windowVars
<1>3. \A u \in Turns : Held(u) => Held(u)' \/ \E j \in DOMAIN ds : Ends(ds[j], u)
  <2> SUFFICES ASSUME NEW u \in Turns, Held(u)
               PROVE  Held(u)' \/ \E j \in DOMAIN ds : Ends(ds[j], u)
    OBVIOUS
  <2>1. CASE u = t
    BY <2>1, <1>1 DEF Moved
  <2>2. CASE u # t
    BY <2>2, <1>1 DEF Moved, Held
  <2> QED BY <2>1, <2>2
<1>4. \A j \in DOMAIN ds, u \in Turns : Names(ds[j], u) => Held(u)'
  BY <1>1 DEF Moved
<1> QED BY <1>2, <1>3, <1>4, FollowPosted

LEMMA FollowOfTakeRequest ==
  ASSUME TypeOK, ConvKnown, StartsInv, WireInv, RefInv, TakeRequest
  PROVE  WireInv' /\ RefInv'
<1> DEFINE q == Head(asks)
<1>1. asks # <<>> /\ ref' = ref
  BY DEF TakeRequest, windowVars
<1>2. q \in Request /\ q = asks[1] /\ 1 \in DOMAIN asks
  <2>1. asks \in Seq(Request)
    BY TakenApart
  <2> HIDE DEF Request
  <2> QED BY <1>1, <2>1, HeadTailProperties
<1> HIDE DEF q
<1>3. CASE q.kind = "start" /\ Goto(q.turn, "starting") /\ UNCHANGED wire
  <2>1. q.turn \in Turns /\ "starting" \in Phases
    BY <1>2, <1>3 DEF Request, Phases
  <2>2. phase[q.turn] = "asked"
    BY <1>2, <1>3, <2>1 DEF StartsInv, Starts
  <2>3. \A u \in Turns : u # q.turn => phase'[u] = phase[u]
    BY <2>1, <1>3, GotoTyped
  <2>4. \A u \in Turns : Held(u) => Held(u)'
    BY <2>2, <2>3 DEF Held, Live
  <2> QED BY <1>1, <1>3, <2>4, FollowKept
<1>4. CASE q.kind = "reattach" /\ Reattach(q.conv) /\ UNCHANGED phase
  <2>1. q.conv \in Convs
    BY <1>2, <1>4 DEF Request
  <2>2. PICK u \in Turns \cup {NoTurn} :
          /\ u \in Turns => Held(u)
          /\ Post(<<[kind |-> "reattached", conv |-> q.conv, turn |-> u]>>)
    BY <1>4, TurnFacts DEF Reattach, LiveIn, Held
  <2> DEFINE d == [kind |-> "reattached", conv |-> q.conv, turn |-> u]
             ds == <<d>>
  <2>3. d \in Delivery /\ d.turn = u
    BY <2>1 DEF Delivery
  <2>4. Post(ds)
    BY <2>2
  <2> HIDE DEF d
  <2>5. ds \in Seq(Delivery) /\ \A j \in DOMAIN ds : ds[j] = d
    <3> HIDE DEF Delivery
    <3> QED BY <2>3
  <2> HIDE DEF ds
  <2>6. wire' = wire \o ds
    BY <2>4 DEF Post
  <2>7. \A v \in Turns : Held(v) => Held(v)'
    BY <1>4 DEF Held
  <2>8. \A j \in DOMAIN ds, v \in Turns : Names(ds[j], v) => Held(v)'
    BY <2>2, <2>3, <2>5, <2>7 DEF Names
  <2> QED BY <1>1, <2>5, <2>6, <2>7, <2>8, FollowPosted
<1> QED BY <1>3, <1>4 DEF TakeRequest, q

\* A turn that is sent was neither live nor refused before.
LEMMA HeldAfterSend ==
  ASSUME TypeOK, ConvKnown, NEW t \in Turns, SendAs(t)
  PROVE  \A u \in Turns : Held(u) => Held(u)'
<1>1. phase[t] = "idle" /\ \A u \in Turns : u # t => phase'[u] = phase[u]
  BY SendTyped
<1> QED BY <1>1 DEF Held, Live

LEMMA FollowOfArrive ==
  ASSUME TypeOK, ConvKnown, WireInv, RefInv, Arrive
  PROVE  WireInv' /\ RefInv'
<1> DEFINE d == Head(wire)
<1>1. wire # <<>>
  BY DEF Arrive
<1>2. /\ d \in Delivery /\ Shifted(Tail(wire))
      /\ \A f \in Delivery : f.kind = "fetched" => Shifted(Append(Tail(wire), f))
  BY <1>1, WireHead, TailShifted
<1>3. NoRef.turn = NoTurn /\ NoTurn \notin Turns
  BY TurnFacts DEF NoRef
<1>4. ASSUME phase' = phase PROVE \A u \in Turns : Held(u) => Held(u)'
  BY <1>4 DEF Held
<1> HIDE DEF d
<1>5. CASE EndArrives(d)
  <2> DEFINE f == [kind |-> "fetched", clean |-> d.clean /\ ~ref.reattached]
  <2>1. /\ d.kind = "ended" /\ UNCHANGED mainVars
        /\ \/ ref' = NoRef /\ wire' = Append(Tail(wire), f)
           \/ ref.turn # d.turn /\ ref' = ref /\ wire' = Tail(wire)
    BY <1>5 DEF EndArrives, d
  <2>2. f \in Delivery /\ f.kind = "fetched"
    BY DEF Delivery
  <2> HIDE DEF f
  <2>3. Shifted(wire')
    BY <1>2, <2>1, <2>2
  <2>4. \A u \in Turns : ref'.turn = u => ref.turn = u /\ ~Ends(d, u)
    BY <1>3, <2>1 DEF Ends
  <2>5. \A u \in Turns : Held(u) => Held(u)'
    BY <1>4, <2>1 DEF mainVars
  <2> QED BY <1>1, <2>3, <2>4, <2>5, FollowArrived DEF d
<1>6. CASE (ReplyArrives(d) \/ ReattachArrives(d)) /\ wire' = Tail(wire)
  <2>1. /\ d.kind \in {"reply", "reattached"} /\ UNCHANGED mainVars
        /\ ref'.turn = d.turn \/ ref' = ref
    BY <1>6 DEF ReplyArrives, ReattachArrives
  <2>2. \A u \in Turns : ref'.turn = u => (ref.turn = u /\ ~Ends(d, u)) \/ Names(d, u)
    BY <2>1 DEF Ends, Names
  <2>3. \A u \in Turns : Held(u) => Held(u)'
    BY <1>4, <2>1 DEF mainVars
  <2>4. Shifted(wire')
    BY <1>2, <1>6
  <2> QED BY <1>1, <2>2, <2>3, <2>4, FollowArrived DEF d
<1>7. CASE RejectionArrives(d) /\ wire' = Tail(wire)
  <2>1. UNCHANGED mainVars /\ ref' = NoRef
    BY <1>7 DEF RejectionArrives
  <2>2. \A u \in Turns : ref'.turn # u
    BY <2>1, <1>3
  <2>3. \A u \in Turns : Held(u) => Held(u)'
    BY <1>4, <2>1 DEF mainVars
  <2>4. Shifted(wire')
    BY <1>2, <1>7
  <2> QED BY <1>1, <2>2, <2>3, <2>4, FollowArrived
<1>8. CASE FetchArrives(d) /\ wire' = Tail(wire)
  <2>1. d.kind = "fetched" /\ ref' = ref
    BY <1>8 DEF FetchArrives
  <2>2. (\E t \in Turns : SendAs(t)) \/ UNCHANGED mainVars
    BY <1>8 DEF FetchArrives
  <2>3. \A u \in Turns : Held(u) => Held(u)'
    BY <1>4, <2>2, HeldAfterSend DEF mainVars
  <2>4. \A u \in Turns : ref'.turn = u => ref.turn = u /\ ~Ends(d, u)
    BY <2>1 DEF Ends
  <2>5. Shifted(wire')
    BY <1>2, <1>8
  <2> QED BY <1>1, <2>3, <2>4, <2>5, FollowArrived DEF d
<1> QED BY <1>5, <1>6, <1>7, <1>8 DEF Arrive, d

LEMMA NextFollow ==
  ASSUME TypeOK, ConvKnown, FollowInv, [Next]_vars
  PROVE  FollowInv'
<1>1. StartsInv /\ WireInv /\ RefInv
  BY DEF FollowInv
<1>2. StartsInv'
  BY <1>1, NextStarts
<1> SUFFICES WireInv' /\ RefInv'
  BY <1>2 DEF FollowInv
<1>3. ASSUME wire' = wire, ref' = ref, phase' = phase PROVE WireInv' /\ RefInv'
  BY <1>1, <1>3, FollowKept DEF Held
<1>4. CASE \E t \in Turns : TurnStep(t)
  BY <1>1, <1>4, FollowOfTurnStep
<1>5. CASE TakeRequest
  BY <1>1, <1>5, FollowOfTakeRequest
<1>6. CASE Arrive
  BY <1>1, <1>6, FollowOfArrive
<1>7. CASE UserStep
  <2>1. CASE Submit
    <3>1. wire' = wire /\ ref' = ref
      BY <2>1 DEF Submit
    <3>2. (\E t \in Turns : SendAs(t)) \/ UNCHANGED mainVars
      BY <2>1 DEF Submit
    <3>3. CASE \E t \in Turns : SendAs(t)
      <4>1. \A u \in Turns : Held(u) => Held(u)'
        BY <3>3, HeldAfterSend
      <4> QED BY <1>1, <3>1, <4>1, FollowKept
    <3> QED BY <1>3, <3>1, <3>2, <3>3 DEF mainVars
  <2>2. CASE (\E c \in Convs : SelectConversation(c)) \/ (\E i \in DOMAIN queued : RemoveQueued(i))
    BY <1>3, <2>2 DEF SelectConversation, RemoveQueued, mainVars
  <2>3. CASE Cancel
    BY <1>3, <2>3 DEF Cancel, windowVars
  <2> QED BY <1>7, <2>1, <2>2, <2>3 DEF UserStep
<1>8. CASE ListChanged
  BY <1>3, <1>8 DEF ListChanged, mainVars
<1>9. CASE Midnight /\ UNCHANGED <<mainVars, asks, wire, windowVars>>
  BY <1>3, <1>9 DEF mainVars, windowVars
<1>10. CASE UNCHANGED vars
  BY <1>3, <1>10 DEF vars, mainVars, windowVars
<1> QED BY <1>4, <1>5, <1>6, <1>7, <1>8, <1>9, <1>10 DEF Next

-----------------------------------------------------------------------------
(* Where queued messages go                                                *)

LEMMA NextQueue ==
  ASSUME TypeOK, ConvKnown, QueueGoesHome, [Next]_vars
  PROVE  QueueGoesHome'
<1>1. queued \in Seq(Convs) /\ activeId \in Convs
  BY TakenApart
<1>2. ASSUME queued' = queued, activeId' = activeId PROVE QueueGoesHome'
  BY <1>2 DEF QueueGoesHome
<1>3. CASE \E t \in Turns : TurnStep(t)
  <2>1. PICK t \in Turns : TurnStep(t)
    BY <1>3
  <2>2. PICK ds : Moved(t, ds)
    BY <2>1, TurnStepMoves
  <2> QED BY <2>2, <1>2 DEF Moved, windowVars
<1>4. CASE Arrive
  <2>1. CASE FetchArrives(Head(wire))
    <3>1. activeId' = activeId /\ (queued' = queued \/ (queued # <<>> /\ queued' = Tail(queued)))
      BY <2>1 DEF FetchArrives
    <3>2. CASE queued # <<>> /\ queued' = Tail(queued)
      <4>1. \A j \in DOMAIN queued' : j + 1 \in DOMAIN queued /\ queued'[j] = queued[j + 1]
        BY <1>1, <3>2, TailItems
      <4> QED BY <3>1, <4>1 DEF QueueGoesHome
    <3> QED BY <1>2, <3>1, <3>2
  <2>2. CASE \/ EndArrives(Head(wire)) \/ ReplyArrives(Head(wire))
             \/ RejectionArrives(Head(wire)) \/ ReattachArrives(Head(wire))
    BY <1>2, <2>2 DEF EndArrives, ReplyArrives, RejectionArrives, ReattachArrives
  <2> QED BY <1>4, <2>1, <2>2 DEF Arrive
<1>5. CASE UserStep
  <2>1. CASE \E c \in Convs : SelectConversation(c)
    <3>1. queued' = <<>>
      BY <2>1 DEF SelectConversation
    <3> QED BY <3>1 DEF QueueGoesHome
  <2>2. CASE Submit
    <3>1. activeId' = activeId /\ (queued' = queued \/ queued' = Append(queued, activeId))
      BY <2>2 DEF Submit
    <3>2. CASE queued' = Append(queued, activeId)
      <4>1. \A j \in DOMAIN queued' : \/ j \in DOMAIN queued /\ queued'[j] = queued[j]
                                      \/ j = Len(queued) + 1 /\ queued'[j] = activeId
        BY <1>1, <3>2, Appended
      <4> QED BY <3>1, <4>1 DEF QueueGoesHome
    <3> QED BY <1>2, <3>1, <3>2
  <2>3. ASSUME NEW i \in DOMAIN queued, RemoveQueued(i) PROVE QueueGoesHome'
    <3>1. activeId' = activeId /\ queued' = RemoveAt(queued, i)
      BY <2>3 DEF RemoveQueued
    <3>2. \A j \in DOMAIN queued' : \E k \in DOMAIN queued : queued'[j] = queued[k]
      BY <1>1, <3>1, RemovedFrom
    <3> QED BY <3>1, <3>2 DEF QueueGoesHome
  <2>4. CASE Cancel
    BY <1>2, <2>4 DEF Cancel, windowVars
  <2> QED BY <1>5, <2>1, <2>2, <2>3, <2>4 DEF UserStep
<1>6. CASE TakeRequest \/ ListChanged \/ UNCHANGED vars
           \/ (Midnight /\ UNCHANGED <<mainVars, asks, wire, windowVars>>)
  BY <1>2, <1>6 DEF TakeRequest, ListChanged, windowVars, vars
<1> QED BY <1>3, <1>4, <1>5, <1>6 DEF Next

-----------------------------------------------------------------------------
(* By how much a hard stop is overrun                                      *)

LEMMA Times ==
  ASSUME NEW m \in Nat, NEW x \in Nat, NEW y \in Nat
  PROVE  /\ m * x \in Nat
         /\ x <= y => m * x <= m * y
         /\ m * (x + 1) = m * x + m
OBVIOUS

LEMMA TurnSets ==
  ASSUME NEW A \in SUBSET Turns, NEW B \in SUBSET Turns
  PROVE  /\ IsFiniteSet(A) /\ Cardinality(A) \in Nat
         /\ A \subseteq B => Cardinality(A) <= Cardinality(B)
<1>1. IsFiniteSet(A) /\ IsFiniteSet(B)
  BY TurnFacts, FS_Subset
<1> QED BY <1>1, FS_CardinalityType, FS_Subset

\* A sum stays within its bound when it and the charges to come do not grow, and no turn unbegins.
LEMMA BoundedKept ==
  ASSUME NEW s \in Nat, NEW r \in Nat, NEW a \in Nat,
         NEW C \in SUBSET Turns, NEW D \in SUBSET Turns,
         NEW E \in SUBSET Turns, NEW F \in SUBSET Turns,
         Bounded(s, a, C, E), r <= s, D \subseteq C, E \subseteq F
  PROVE  Bounded(r, a, D, F)
<1> DEFINE c == Cardinality(C)
           d == Cardinality(D)
           e == Cardinality(E)
           f == Cardinality(F)
<1>1. c \in Nat /\ d \in Nat /\ e \in Nat /\ f \in Nat /\ d <= c /\ e <= f
  BY TurnSets
<1>2. MaxCost \in Nat
  BY BudgetAssumption
<1> HIDE DEF c, d, e, f
<1>3. MaxCost * d <= MaxCost * c /\ MaxCost * e <= MaxCost * f
  BY <1>1, <1>2, Times
<1>4. MaxCost * c \in Nat /\ MaxCost * d \in Nat /\ MaxCost * e \in Nat /\ MaxCost * f \in Nat
  BY <1>1, <1>2, Times
<1>5. s + MaxCost * c < a + MaxCost * e
  BY DEF Bounded, c, e
<1> DEFINE pc == MaxCost * c
           pd == MaxCost * d
           pe == MaxCost * e
           pf == MaxCost * f
<1>6. pc \in Nat /\ pd \in Nat /\ pe \in Nat /\ pf \in Nat /\ pd <= pc /\ pe <= pf /\ s + pc < a + pe
  BY <1>3, <1>4, <1>5
<1> HIDE DEF pc, pd, pe, pf
<1>7. r + pd < a + pf
  BY <1>6
<1> QED BY <1>7 DEF Bounded, pd, pf, d, f

\* A sum is within its bound whenever the amount is not reached.
LEMMA BoundedBelow ==
  ASSUME NEW s \in Nat, NEW a \in Nat, NEW D \in SUBSET Turns, NEW F \in SUBSET Turns,
         s < a, D \subseteq F
  PROVE  Bounded(s, a, D, F)
<1> DEFINE d == Cardinality(D)
           f == Cardinality(F)
<1>1. d \in Nat /\ f \in Nat /\ d <= f
  BY TurnSets
<1>2. MaxCost \in Nat
  BY BudgetAssumption
<1> HIDE DEF d, f
<1> DEFINE pd == MaxCost * d
           pf == MaxCost * f
<1>3. pd \in Nat /\ pf \in Nat /\ pd <= pf
  BY <1>1, <1>2, Times
<1> HIDE DEF pd, pf
<1>4. s + pd < a + pf
  BY <1>3
<1> QED BY <1>4 DEF Bounded, pd, pf, d, f

\* One charge that was to come is made.
LEMMA BoundedCharged ==
  ASSUME NEW s \in Nat, NEW a \in Nat, NEW cost \in Nat, cost <= MaxCost,
         NEW C \in SUBSET Turns, NEW t \in C, NEW E \in SUBSET Turns,
         Bounded(s, a, C, E)
  PROVE  Bounded(s + cost, a, C \ {t}, E)
<1> DEFINE D == C \ {t}
           d == Cardinality(D)
           e == Cardinality(E)
<1>1. IsFiniteSet(C) /\ d \in Nat /\ e \in Nat
  BY TurnSets
<1>2. Cardinality(C) \in Nat /\ d = Cardinality(C) - 1
  BY <1>1, TurnSets, FS_RemoveElement
<1>3. Cardinality(C) = d + 1
  BY <1>1, <1>2
<1>4. MaxCost \in Nat
  BY BudgetAssumption
<1> HIDE DEF d, e
<1>5. MaxCost * (d + 1) = MaxCost * d + MaxCost
  BY <1>1, <1>4, Times
<1> DEFINE pd == MaxCost * d
           pe == MaxCost * e
<1>6. pd \in Nat /\ pe \in Nat
  BY <1>1, <1>4, Times
<1>7. s + (pd + MaxCost) < a + pe
  BY <1>3, <1>5 DEF Bounded, e
<1> HIDE DEF pd, pe
<1>8. s + cost + pd < a + pe
  BY <1>4, <1>6, <1>7
<1> QED BY <1>8 DEF Bounded, pd, pe, d, e

LEMMA SpendFacts ==
  ASSUME TypeOK
  PROVE  /\ \A b \in Budgets, k \in Keys :
              /\ spent[b][k] \in Nat /\ Amount[b] \in Nat /\ 0 < Amount[b]
              /\ Charged(b, k) \in SUBSET Turns /\ Charged(b, k) \subseteq Begun
         /\ Begun \in SUBSET Turns
<1>1. \A b \in Budgets, k \in Keys : spent[b][k] \in Nat
  BY DEF TypeOK, BudgetTypeOK
<1>2. \A b \in Budgets : Amount[b] \in Nat /\ 0 < Amount[b]
  BY BudgetAssumption
<1>3. \A b, k : Charged(b, k) \in SUBSET Turns /\ Charged(b, k) \subseteq Begun
  BY DEF Charged, Begun
<1> QED BY <1>1, <1>2, <1>3 DEF Begun

\* Nothing is charged, no turn is let through to a provider, and turns may begin.
LEMMA SpendKept ==
  ASSUME TypeOK, TypeOK', SpendInv, spent' = spent,
         \A t \in Turns : phase'[t] = "calling" => phase[t] = "calling" /\ conv'[t] = conv[t],
         \A t \in Turns : phase[t] # "idle" => phase'[t] # "idle"
  PROVE  SpendInv'
<1> SUFFICES ASSUME NEW b \in Budgets, NEW k \in Keys
             PROVE  Bounded(spent'[b][k], Amount[b], Charged(b, k)', Begun')
  BY DEF SpendInv, Bounded
<1>1. /\ spent[b][k] \in Nat /\ Amount[b] \in Nat
      /\ Charged(b, k) \in SUBSET Turns /\ Begun \in SUBSET Turns
  BY SpendFacts
<1>2. Charged(b, k)' \subseteq Charged(b, k) /\ Begun \subseteq Begun'
  BY DEF Charged, Begun
<1>3. Charged(b, k)' \in SUBSET Turns /\ Begun' \in SUBSET Turns
  BY DEF Charged, Begun
<1>4. Bounded(spent[b][k], Amount[b], Charged(b, k), Begun)
  BY DEF SpendInv
<1>5. spent[b][k] <= spent[b][k] /\ spent'[b][k] = spent[b][k]
  BY <1>1
<1> QED BY <1>1, <1>2, <1>3, <1>4, <1>5, BoundedKept

\* A turn is let through, below the amount of every budget it will be charged to.
LEMMA SpendOfCall ==
  ASSUME TypeOK, ConvKnown, SpendInv, NEW t \in Turns, phase[t] \in {"preparing", "tools"},
         Call(t), spent' = spent
  PROVE  SpendInv'
<1>1. ~Exceeded(conv[t]) /\ Goto(t, "calling") /\ conv' = conv
  BY DEF Call
<1>2. conv[t] \in Convs /\ "calling" \in Phases
  BY DEF ConvKnown, Phases
<1>3. phase'[t] = "calling" /\ \A u \in Turns : u # t => phase'[u] = phase[u]
  BY <1>1, <1>2, GotoTyped
<1> SUFFICES ASSUME NEW b \in Budgets, NEW k \in Keys
             PROVE  Bounded(spent'[b][k], Amount[b], Charged(b, k)', Begun')
  BY DEF SpendInv, Bounded
<1>4. /\ spent[b][k] \in Nat /\ Amount[b] \in Nat
      /\ Charged(b, k) \in SUBSET Turns /\ Begun \in SUBSET Turns
  BY SpendFacts
<1>5. /\ Charged(b, k)' \in SUBSET Turns /\ Begun' \in SUBSET Turns
      /\ Charged(b, k)' \subseteq Begun'
  BY DEF Charged, Begun
<1>6. CASE Pays(conv[t], b, k)
  <2>1. spent[b][k] < Amount[b]
    BY <1>1, <1>4, <1>6 DEF Exceeded, Pays
  <2> QED BY <2>1, <1>4, <1>5, BoundedBelow
<1>7. CASE ~Pays(conv[t], b, k)
  <2>1. Charged(b, k)' \subseteq Charged(b, k)
    BY <1>1, <1>3, <1>7 DEF Charged
  <2>2. Begun \subseteq Begun'
    BY <1>3 DEF Begun
  <2>3. Bounded(spent[b][k], Amount[b], Charged(b, k), Begun)
    BY DEF SpendInv
  <2>4. spent[b][k] <= spent[b][k] /\ spent'[b][k] = spent[b][k]
    BY <1>4
  <2> QED BY <1>4, <1>5, <2>1, <2>2, <2>3, <2>4, BoundedKept
<1> QED BY <1>6, <1>7

\* The answer of a turn that was let through is charged.
LEMMA SpendOfAnswer ==
  ASSUME TypeOK, ConvKnown, SpendInv, NEW t \in Turns, Answered(t)
  PROVE  SpendInv'
<1>1. phase[t] = "calling" /\ conv[t] \in Convs
  BY DEF Answered, ConvKnown
<1>2. PICK cost \in Costs : Accrue(conv[t], cost)
  BY DEF Answered
<1>3. cost \in Nat /\ cost <= MaxCost
  BY BudgetAssumption
<1>4. phase'[t] # "calling" /\ phase'[t] # "idle"
  <2>1. Goto(t, "tools") \/ Goto(t, "over")
    BY DEF Answered, End
  <2>2. {"tools", "over"} \subseteq Phases
    BY DEF Phases
  <2> QED BY <2>1, <2>2, GotoTyped
<1>5. \A u \in Turns : u # t => phase'[u] = phase[u] /\ conv'[u] = conv[u]
  <2>1. TurnStep(t)
    BY DEF TurnStep
  <2>2. PICK ds : Moved(t, ds)
    BY <2>1, TurnStepMoves
  <2> QED BY <2>2 DEF Moved
<1> SUFFICES ASSUME NEW b \in Budgets, NEW k \in Keys
             PROVE  Bounded(spent'[b][k], Amount[b], Charged(b, k)', Begun')
  BY DEF SpendInv, Bounded
<1>6. /\ spent[b][k] \in Nat /\ Amount[b] \in Nat
      /\ Charged(b, k) \in SUBSET Turns /\ Begun \in SUBSET Turns
  BY SpendFacts
<1>7. Bounded(spent[b][k], Amount[b], Charged(b, k), Begun)
  BY DEF SpendInv
<1>8. Charged(b, k)' = Charged(b, k) \ {t}
  BY <1>4, <1>5 DEF Charged
<1>9. Begun' = Begun
  BY <1>1, <1>4, <1>5 DEF Begun
<1>10. spent'[b][k] = spent[b][k] + (IF Pays(conv[t], b, k) THEN cost ELSE 0)
  BY <1>1, <1>2, AccrueTyped DEF Pays, TypeOK
<1>11. CASE Pays(conv[t], b, k)
  <2>1. t \in Charged(b, k)
    BY <1>1, <1>11 DEF Charged
  <2>2. Bounded(spent[b][k] + cost, Amount[b], Charged(b, k) \ {t}, Begun)
    BY <2>1, <1>3, <1>6, <1>7, BoundedCharged
  <2>3. spent'[b][k] = spent[b][k] + cost
    BY <1>10, <1>11
  <2> QED BY <2>2, <2>3, <1>8, <1>9
<1>12. CASE ~Pays(conv[t], b, k)
  <2>1. spent'[b][k] = spent[b][k]
    BY <1>6, <1>10, <1>12
  <2>2. t \notin Charged(b, k)
    BY <1>12 DEF Charged
  <2>3. Charged(b, k)' = Charged(b, k)
    BY <2>2, <1>8
  <2> QED BY <2>1, <2>3, <1>7, <1>9
<1> QED BY <1>11, <1>12

LEMMA SpendOfMidnight ==
  ASSUME TypeOK, SpendInv, Midnight, phase' = phase, conv' = conv
  PROVE  SpendInv'
<1> SUFFICES ASSUME NEW b \in Budgets, NEW k \in Keys
             PROVE  Bounded(spent'[b][k], Amount[b], Charged(b, k)', Begun')
  BY DEF SpendInv, Bounded
<1>1. Charged(b, k)' = Charged(b, k) /\ Begun' = Begun
  BY DEF Charged, Begun
<1>2. /\ Amount[b] \in Nat /\ 0 < Amount[b] /\ 0 \in Nat
      /\ Charged(b, k) \in SUBSET Turns /\ Begun \in SUBSET Turns
      /\ Charged(b, k) \subseteq Begun
  BY SpendFacts
<1>3. Bounded(spent[b][k], Amount[b], Charged(b, k), Begun)
  BY DEF SpendInv
<1>4. Bounded(0, Amount[b], Charged(b, k), Begun)
  BY <1>2, BoundedBelow
<1>5. spent'[b][k] = 0 \/ spent'[b][k] = spent[b][k]
  BY MidnightTyped DEF TypeOK
<1> QED BY <1>1, <1>3, <1>4, <1>5

LEMMA SpendOfTurnStep ==
  ASSUME TypeOK, ConvKnown, SpendInv, NEW t \in Turns, TurnStep(t)
  PROVE  SpendInv'
<1>1. TypeOK'
  BY TurnStepTypes
<1>2. PICK ds : Moved(t, ds)
  BY TurnStepMoves
<1>3. /\ phase[t] # "idle" /\ phase'[t] # "idle"
      /\ \A u \in Turns : u # t => phase'[u] = phase[u] /\ conv'[u] = conv[u]
  BY <1>2 DEF Moved
<1>4. ASSUME spent' = spent, phase'[t] # "calling" PROVE SpendInv'
  <2>1. \A u \in Turns : phase'[u] = "calling" => phase[u] = "calling" /\ conv'[u] = conv[u]
    BY <1>3, <1>4
  <2>2. \A u \in Turns : phase[u] # "idle" => phase'[u] # "idle"
    BY <1>3
  <2> QED BY <2>1, <2>2, <1>1, <1>4, SpendKept
<1>5. ASSUME NEW p \in {"preparing", "refused", "over"}, Goto(t, p), spent' = spent
      PROVE  SpendInv'
  <2>1. p \in Phases
    BY DEF Phases
  <2>2. phase'[t] = p
    BY <2>1, <1>5, GotoTyped
  <2> QED BY <2>2, <1>4, <1>5
<1>6. CASE RejectStart(t) \/ Stops(t)
  BY <1>5, <1>6 DEF RejectStart, Stops, End
<1>7. CASE Register(t)
  BY <1>5, <1>7 DEF Register
<1>8. CASE Launch(t)
  <2>1. phase[t] = "preparing" /\ spent' = spent /\ (Call(t) \/ End(t, "refused"))
    BY <1>8 DEF Launch
  <2> QED BY <2>1, <1>5, SpendOfCall DEF End
<1>9. CASE Answered(t)
  BY <1>9, SpendOfAnswer
<1>10. CASE NextCall(t)
  <2>1. phase[t] = "tools" /\ spent' = spent /\ (Call(t) \/ End(t, "over"))
    BY <1>10 DEF NextCall
  <2> QED BY <2>1, <1>5, SpendOfCall DEF End
<1> QED BY <1>6, <1>7, <1>8, <1>9, <1>10 DEF TurnStep

LEMMA SpendOfSend ==
  ASSUME TypeOK, ConvKnown, TypeOK', SpendInv, NEW t \in Turns, SendAs(t), spent' = spent
  PROVE  SpendInv'
<1>1. /\ phase'[t] = "asked"
      /\ \A u \in Turns : u # t => phase'[u] = phase[u] /\ conv'[u] = conv[u]
  BY SendTyped
<1>2. \A u \in Turns : phase'[u] = "calling" => phase[u] = "calling" /\ conv'[u] = conv[u]
  BY <1>1
<1>3. \A u \in Turns : phase[u] # "idle" => phase'[u] # "idle"
  BY <1>1
<1> QED BY <1>2, <1>3, SpendKept

LEMMA SpendOfTakeRequest ==
  ASSUME TypeOK, ConvKnown, StartsInv, TypeOK', SpendInv, TakeRequest
  PROVE  SpendInv'
<1> DEFINE q == Head(asks)
<1>1. asks # <<>> /\ spent' = spent /\ conv' = conv
  BY DEF TakeRequest
<1>2. q \in Request
  <2>1. asks \in Seq(Request)
    BY TakenApart
  <2> HIDE DEF Request
  <2> QED BY <1>1, <2>1, HeadTailProperties
<1>3. phase' = phase \/ (q.kind = "start" /\ Goto(q.turn, "starting"))
  BY DEF TakeRequest
<1> HIDE DEF q
<1>4. CASE phase' = phase
  BY <1>1, <1>4, SpendKept
<1>5. CASE q.kind = "start" /\ Goto(q.turn, "starting")
  <2>1. q.turn \in Turns /\ "starting" \in Phases
    BY <1>2, <1>5 DEF Request, Phases
  <2>2. phase'[q.turn] = "starting" /\ \A u \in Turns : u # q.turn => phase'[u] = phase[u]
    BY <2>1, <1>5, GotoTyped
  <2>3. \A u \in Turns : phase'[u] = "calling" => phase[u] = "calling" /\ conv'[u] = conv[u]
    BY <2>2, <1>1
  <2>4. \A u \in Turns : phase[u] # "idle" => phase'[u] # "idle"
    BY <2>2
  <2> QED BY <2>3, <2>4, <1>1, SpendKept
<1> QED BY <1>3, <1>4, <1>5

LEMMA NextSpend ==
  ASSUME TypeOK, ConvKnown, StartsInv, SpendInv, [Next]_vars
  PROVE  SpendInv'
<1>1. TypeOK'
  BY NextTypes
<1>2. ASSUME spent' = spent, phase' = phase, conv' = conv PROVE SpendInv'
  BY <1>1, <1>2, SpendKept
<1>3. CASE \E t \in Turns : TurnStep(t)
  BY <1>3, SpendOfTurnStep
<1>4. CASE TakeRequest
  BY <1>1, <1>4, SpendOfTakeRequest
<1>5. CASE Arrive
  <2>1. spent' = spent
    BY <1>5 DEF Arrive
  <2>2. UNCHANGED mainVars \/ \E t \in Turns : SendAs(t)
    BY <1>5 DEF Arrive, FetchArrives, EndArrives, ReplyArrives, RejectionArrives, ReattachArrives
  <2> QED BY <2>1, <2>2, <1>1, <1>2, SpendOfSend DEF mainVars
<1>6. CASE UserStep
  <2>1. CASE Submit
    <3>1. spent' = spent /\ (UNCHANGED mainVars \/ \E t \in Turns : SendAs(t))
      BY <2>1 DEF Submit
    <3> QED BY <3>1, <1>1, <1>2, SpendOfSend DEF mainVars
  <2>2. CASE \/ \E c \in Convs : SelectConversation(c)
             \/ \E i \in DOMAIN queued : RemoveQueued(i)
             \/ Cancel
    BY <2>2, <1>2 DEF SelectConversation, RemoveQueued, Cancel, mainVars
  <2> QED BY <1>6, <2>1, <2>2 DEF UserStep
<1>7. CASE ListChanged
  BY <1>7, <1>2 DEF ListChanged, mainVars
<1>8. CASE Midnight /\ UNCHANGED <<mainVars, asks, wire, windowVars>>
  BY <1>8, SpendOfMidnight DEF mainVars
<1>9. CASE UNCHANGED vars
  BY <1>9, <1>2 DEF vars, mainVars
<1> QED BY <1>3, <1>4, <1>5, <1>6, <1>7, <1>8, <1>9 DEF Next

-----------------------------------------------------------------------------
(* Theorems                                                                *)

LEMMA InitFollows ==
  ASSUME Init
  PROVE  FollowInv /\ QueueGoesHome
<1>1. NoRef.turn = NoTurn /\ NoTurn \notin Turns
  BY TurnFacts DEF NoRef
<1>2. wire = <<>> /\ ref = NoRef /\ queued = <<>>
  BY DEF Init
<1>3. StartsInv
  <2> DEFINE q == [kind |-> "reattach", conv |-> activeId]
  <2>1. asks = <<q>> /\ q.kind = "reattach"
    BY DEF Init
  <2> HIDE DEF q
  <2>2. \A i \in DOMAIN asks : asks[i] = q
    BY <2>1
  <2> QED BY <2>1, <2>2 DEF StartsInv, Starts
<1>4. WireInv /\ RefInv
  BY <1>1, <1>2 DEF WireInv, RefInv
<1>5. QueueGoesHome
  BY <1>2 DEF QueueGoesHome
<1> QED BY <1>3, <1>4, <1>5 DEF FollowInv

LEMMA InitSpends ==
  ASSUME Init
  PROVE  SpendInv
<1>1. TypeOK
  BY InitTypes
<1> SUFFICES ASSUME NEW b \in Budgets, NEW k \in Keys
             PROVE  Bounded(spent[b][k], Amount[b], Charged(b, k), Begun)
  BY DEF SpendInv
<1>2. /\ spent[b][k] \in Nat /\ Amount[b] \in Nat /\ 0 < Amount[b]
      /\ Charged(b, k) \in SUBSET Turns /\ Begun \in SUBSET Turns
      /\ Charged(b, k) \subseteq Begun
  BY <1>1, SpendFacts
<1>3. spent[b][k] = 0
  BY DEF Init, BudgetInit
<1> QED BY <1>2, <1>3, BoundedBelow

\* The invariant of the window, its wire and the budgets: it holds when the window is
\* loaded, whatever turns are running, and every step of the window, the user, the main
\* process and the clock keeps it.
THEOREM WindowInvariant == Spec => []WindowInv
<1>1. Init => WindowInv
  BY InitTypes, InitFollows, InitSpends DEF WindowInv
<1>2. WindowInv /\ [Next]_vars => WindowInv'
  <2> SUFFICES ASSUME WindowInv, [Next]_vars PROVE WindowInv'
    OBVIOUS
  <2>1. TypeOK /\ ConvKnown /\ FollowInv /\ StartsInv /\ QueueGoesHome /\ SpendInv
    BY DEF WindowInv, FollowInv
  <2>2. TypeOK' /\ ConvKnown'
    BY <2>1, NextTypes
  <2>3. FollowInv'
    BY <2>1, NextFollow
  <2>4. QueueGoesHome'
    BY <2>1, NextQueue
  <2>5. SpendInv'
    BY <2>1, NextSpend
  <2> QED BY <2>2, <2>3, <2>4, <2>5 DEF WindowInv
<1> QED BY <1>1, <1>2, PTL DEF Spec

\* The state of the window and of its wire is always well typed; no answer, event or
\* request is about a turn or a conversation there is not.
THEOREM WindowTypes == Spec => []TypeOK
<1>1. WindowInv => TypeOK
  BY DEF WindowInv
<1> QED BY <1>1, WindowInvariant, PTL

\* The window never follows a turn that is over without having been told: its end is on
\* the way, or a budget refused it before chat.start was answered (chat-context.tsx).
THEOREM FollowedTurnsEnd == Spec => []FollowedTurnEnds
<1>1. WindowInv => FollowedTurnEnds
  <2> SUFFICES ASSUME WindowInv, ref # NoRef
               PROVE  phase[ref.turn] = "refused" \/ EndToCome(ref.turn)
    BY DEF FollowedTurnEnds
  <2>1. TypeOK /\ RefInv
    BY DEF WindowInv, FollowInv
  <2>2. ref.turn \in Turns
    BY <2>1, RefTypes
  <2>3. Held(ref.turn) \/ EndsAfter(wire, 0, ref.turn)
    BY <2>1, <2>2 DEF RefInv
  <2> QED BY <2>3 DEF Held, EndsAfter, Ends, EndToCome
<1> QED BY <1>1, WindowInvariant, PTL

\* A queued message is sent to the conversation it was typed in, whichever turn's end
\* sends it (queuedRef in chat-context.tsx).
THEOREM QueuesGoHome == Spec => []QueueGoesHome
<1>1. WindowInv => QueueGoesHome
  BY DEF WindowInv
<1> QED BY <1>1, WindowInvariant, PTL

\* A hard stop is overrun by less than one answer for each turn there has been, for any
\* budgets, amounts and costs (check() and accrue() in budget-manager.ts).
THEOREM OverrunIsBounded == Spec => []OverrunBounded
<1>1. WindowInv => OverrunBounded
  <2> SUFFICES ASSUME WindowInv, NEW b \in Budgets, NEW k \in Keys
               PROVE  spent[b][k] < Amount[b] + MaxCost * Cardinality(Begun)
    BY DEF OverrunBounded, Begun
  <2>1. TypeOK /\ Bounded(spent[b][k], Amount[b], Charged(b, k), Begun)
    BY DEF WindowInv, SpendInv
  <2>2. /\ spent[b][k] \in Nat /\ Amount[b] \in Nat
        /\ Charged(b, k) \in SUBSET Turns /\ Begun \in SUBSET Turns
    BY <2>1, SpendFacts
  <2> DEFINE c == Cardinality(Charged(b, k))
             e == Cardinality(Begun)
             pc == MaxCost * c
             pe == MaxCost * e
  <2>3. c \in Nat /\ e \in Nat /\ MaxCost \in Nat
    BY <2>2, TurnSets, BudgetAssumption
  <2>4. pc \in Nat /\ pe \in Nat
    BY <2>3, Times
  <2>5. spent[b][k] + pc < Amount[b] + pe
    BY <2>1 DEF Bounded
  <2> HIDE DEF pc, pe
  <2>6. spent[b][k] < Amount[b] + pe
    BY <2>2, <2>4, <2>5
  <2> QED BY <2>6 DEF pe
<1> QED BY <1>1, WindowInvariant, PTL
=============================================================================
