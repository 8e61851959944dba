---------------------------- MODULE MCScheduler ----------------------------
(* Small instances of Scheduler for TLC. *)
EXTENDS Scheduler, TLC

CONSTANTS t1, t2

TwoTasks == {t1, t2}

\* A task that is due at every tick of the clock, and one that is due now and then.
Often  == {1, 2, 3}
Seldom == {2, 3}
TwoPatterns == {Often, Seldom}

\* The order of tasks in the table decides nothing the model fixes.
TaskSymmetry == Permutations(TwoTasks)
=============================================================================
