---------------------------- MODULE MCAgentRuns ----------------------------
(***************************************************************************)
(* Small instances of AgentRuns and SubagentRunners for TLC. AgentRuns has *)
(* of a runner that it writes and ends; what a runner does until then and  *)
(* what it reports does not depend on the registry or on verdicts. So a    *)
(* behaviour either has agent runs, or the inside of one runner.           *)
(***************************************************************************)
EXTENDS AgentRuns, SubagentRunners

CONSTANTS r1, r2, c1, c2, c3

TwoRuns    == {r1, r2}
OneTree    == {r1}
ThreeCalls == {c1, c2, c3}
TwoAllowed == {c1, c2}

VARIABLE view

agentVars == <<vars, runnerVars, view>>

AgentsInit ==
    /\ Init
    /\ RunnersInit
    /\ view \in {"runs", "runner"}
    /\ view = "runs" => run.kind = "internal"

AgentsNext ==
    \/ view = "runs" /\ Next /\ UNCHANGED <<runnerVars, view>>
    \/ view = "runner" /\ RunnerStep /\ UNCHANGED <<vars, view>>

AgentsFairness ==
    /\ \A r \in Runs :
        /\ WF_agentVars(view = "runs" /\ HostGoesOn(r) /\ UNCHANGED <<runnerVars, view>>)
        /\ WF_agentVars(view = "runs" /\ AbortedEnds(r) /\ UNCHANGED <<runnerVars, view>>)
    /\ WF_agentVars(view = "runner" /\ RunnerSettles /\ UNCHANGED <<vars, view>>)

AgentsSpec == AgentsInit /\ [][AgentsNext]_agentVars /\ AgentsFairness
=============================================================================
