----------------------------- MODULE ToolPermit -----------------------------
(***************************************************************************)
(* What the approval gateway and the agent loop promise together: a tool   *)
(* runs on a permit given for this one call, a permit is good for one run  *)
(* at most, and once a stream has been stopped (cancelled, ended, lost     *)
(* with the process) nothing starts on its behalf any more. How permits    *)
(* are decided is left to the implementation.                              *)
(***************************************************************************)
CONSTANTS Streams, Tools, None

VARIABLES
    permit,    \* the tool each stream may run next
    running,   \* the tool each stream runs
    stopped    \* streams on whose behalf nothing may start

vars == <<permit, running, stopped>>

TypeOK ==
    /\ permit \in [Streams -> Tools \cup {None}]
    /\ running \in [Streams -> Tools \cup {None}]
    /\ stopped \in SUBSET Streams

Init ==
    /\ permit = [s \in Streams |-> None]
    /\ running = [s \in Streams |-> None]
    /\ stopped = {}

Give(s, t) ==
    /\ permit[s] = None
    /\ running[s] = None
    /\ permit' = [permit EXCEPT ![s] = t]
    /\ UNCHANGED <<running, stopped>>

Withdraw(s) ==
    /\ permit' = [permit EXCEPT ![s] = None]
    /\ UNCHANGED <<running, stopped>>

\* Running uses the permit up.
Run(s) ==
    /\ permit[s] # None
    /\ s \notin stopped
    /\ running' = [running EXCEPT ![s] = permit[s]]
    /\ permit' = [permit EXCEPT ![s] = None]
    /\ UNCHANGED stopped

Return(s) ==
    /\ running' = [running EXCEPT ![s] = None]
    /\ UNCHANGED <<permit, stopped>>

Stop(s) ==
    /\ stopped' = stopped \cup {s}
    /\ UNCHANGED <<permit, running>>

\* The process dies: every stream that was going on is stopped at once.
Halt(S) ==
    /\ stopped' = stopped \cup S
    /\ permit' = [s \in Streams |-> IF s \in S THEN None ELSE permit[s]]
    /\ running' = [s \in Streams |-> IF s \in S THEN None ELSE running[s]]

Next ==
    \/ \E s \in Streams, t \in Tools : Give(s, t)
    \/ \E s \in Streams : Withdraw(s) \/ Run(s) \/ Return(s) \/ Stop(s)
    \/ \E S \in SUBSET Streams : Halt(S)

Spec == Init /\ [][Next]_vars

\* Nothing starts for a stream that was stopped, in the words of one step.
NothingStartsStopped ==
    [][\A s \in stopped : running'[s] \in {running[s], None}]_vars

=============================================================================
