--------------------------- MODULE MCCheckpoints ---------------------------
(* Small instances of Checkpoints for TLC. *)
EXTENDS Checkpoints, TLC

CONSTANTS t1, t2, f1, f2, a, huge

OneTurn  == {t1}
TwoTurns == {t1, t2}
OneFile  == {f1}
TwoFiles == {f1, f2}

One         == {a}
OnlyLarge   == {huge}
NoneLarge   == {}
OneAndLarge == {a, huge}
=============================================================================
