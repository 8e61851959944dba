---------------------------- MODULE MCChatWindow ----------------------------
(* Small instances of ChatWindow for TLC. *)
EXTENDS ChatWindow

CONSTANTS c1, c2, daily

TwoConvs  == {c1, c2}
OneBudget == {daily}
CoversAll == [b \in OneBudget |-> TwoConvs]
OneUnit   == [b \in OneBudget |-> 1]
=============================================================================
