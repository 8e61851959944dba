---------------------------- MODULE RunLifecycle ----------------------------
(***************************************************************************)
(* What the stored record of an agent run promises whoever reads it after  *)
(* a restart: a run is unknown, then in progress, then over, and how it    *)
(* ended is never rewritten. Many runs may change at one moment, as they   *)
(* do at startup.                                                          *)
(***************************************************************************)
CONSTANT Runs

VARIABLE life

Stages == {"none", "running", "completed", "failed"}

\* A run may be first heard of when it is over: the row of its start was not saved.
Moves == {<<"none", "running">>, <<"none", "completed">>, <<"none", "failed">>,
          <<"running", "completed">>, <<"running", "failed">>}

Init == life = [r \in Runs |-> "none"]

Next ==
    /\ life' \in [Runs -> Stages]
    /\ \A r \in Runs : life'[r] = life[r] \/ <<life[r], life'[r]>> \in Moves

Spec == Init /\ [][Next]_life
=============================================================================
