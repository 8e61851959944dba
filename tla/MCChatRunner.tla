---------------------------- MODULE MCChatRunner ----------------------------
(* Small instances of ChatRunner for TLC. *)
EXTENDS ChatRunner, TLC

CONSTANTS s1, c1, read, write, shell

OneStream  == {s1}

\* read_file, write_file and run_shell, by what the gateway sees of them.
TwoTools   == {read, write}
AboveRead  == {write, shell}

TierOf(tools) == [t \in tools |-> CASE t = read  -> "read"
                                    [] t = write -> "write"
                                    [] OTHER     -> "execute"]
TierOfAbove == TierOf(AboveRead)
TierOfTwo   == TierOf(TwoTools)

Writers == {write}

OnlyConversation == s1 :> c1

AllAvailable(ss, tools) == [s \in ss |-> tools]
OneHasTwo    == AllAvailable(OneStream, TwoTools)
OneHasNarrow == AllAvailable(OneStream, {shell})
=============================================================================
