----------------------------- MODULE ServerLink -----------------------------
(***************************************************************************)
(* What the manager takes for granted of the client of an MCP server       *)
(* (McpManager; apps/desktop/src/main/mcp/manager.ts:206-300): its link    *)
(* starts, is up once initialize has been answered, and is stopping or     *)
(* gone in the end, also when connect() fails: nothing is left running.    *)
(* Whoever waits for an answer is told one thing, once: an answer only as  *)
(* long as the link is there, and a failure at the latest when it is gone. *)
(***************************************************************************)
CONSTANTS Calls, Initialize

VARIABLES link, call

vars == <<link, call>>

Init == link = "starting" /\ call = [id \in Calls |-> "none"]

AllTold == [id \in Calls |-> IF call[id] = "waiting" THEN "failed" ELSE call[id]]

\* The link is going, perhaps gone at once.
Goes ==
    \/ link' = "stopping" /\ UNCHANGED call
    \/ link' = "gone" /\ call' = AllTold

Begin ==
    /\ link = "starting" /\ call[Initialize] = "none"
    /\ call' = [call EXCEPT ![Initialize] = "waiting"]
    /\ UNCHANGED link

\* A call, which may fail at once.
Call(id) ==
    /\ link # "starting" /\ call[id] = "none" /\ id # Initialize
    /\ \E told \in {"waiting", "failed"} : call' = [call EXCEPT ![id] = told]
    /\ UNCHANGED link

Answer(id) ==
    /\ call[id] = "waiting" /\ link # "gone"
    /\ call' = [call EXCEPT ![id] = "answered"]
    /\ UNCHANGED link

Fail(id) ==
    /\ call[id] = "waiting" /\ id # Initialize
    /\ call' = [call EXCEPT ![id] = "failed"]
    /\ UNCHANGED link

Ready == link = "starting" /\ call[Initialize] = "answered" /\ link' = "up" /\ UNCHANGED call

\* connect() fails: for want of a link, or of initialize, or of what comes after it.
GiveUp ==
    /\ link = "starting"
    /\ link' \in {"stopping", "gone"}
    /\ call' \in {call, [call EXCEPT ![Initialize] = "failed"]}
    /\ call'[Initialize] # "waiting"

Stop == link = "up" /\ Goes

End == link # "gone" /\ link' = "gone" /\ call' = AllTold

Next ==
    \/ Begin \/ Ready \/ GiveUp \/ Stop \/ End
    \/ \E id \in Calls : Call(id) \/ Answer(id) \/ Fail(id)

Spec == Init /\ [][Next]_vars
=============================================================================
