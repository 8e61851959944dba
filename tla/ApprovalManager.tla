-------------------------- MODULE ApprovalManager --------------------------
(***************************************************************************)
(* The approval gateway of the main process                                *)
(* (apps/desktop/src/main/chat/approvals.ts) and the settings handlers     *)
(* that change what it decides (approval-handlers.ts,                      *)
(* read-only-handlers.ts).                                                 *)
(*                                                                         *)
(* A chat stream that wants to run a tool asks for a verdict: read-only    *)
(* mode, an override given for the session, and the stored policies are    *)
(* consulted in that order, and only when they leave it open is a request  *)
(* broadcast to the windows and kept in the map of pending requests until  *)
(* a window answers, the stream is cancelled, or the stream ends.          *)
(*                                                                         *)
(* Request ids are random in the code; here the k-th request ever made has *)
(* id k, and `asked` remembers what it asked, since a window can answer a  *)
(* prompt long after the main process has forgotten it.                    *)
(***************************************************************************)
EXTENDS Naturals, Sequences

CONSTANTS
    Streams,          \* chat streams (one per user turn)
    Tools,            \* tool names a model may call
    Tier,             \* the permission tier each tool declares
    MaxPolicyEdits    \* bound: how often the settings panel is used

Tiers     == {"read", "write", "execute", "network"}
Policies  == {"auto", "prompt", "deny"}
Decisions == {"allow", "deny"}
Scopes    == {"once", "session", "always"}
Unset     == "unset"

ASSUME ApprovalAssumption ==
    /\ Tier \in [Tools -> Tiers]
    /\ MaxPolicyEdits \in Nat

VARIABLES
    asked,        \* every request ever broadcast, by request id
    pending,      \* ids of the requests still waiting for an answer
    session,      \* session overrides, per stream and tool
    policies,     \* the stored policies: tier defaults and tool overrides
    readOnly,     \* the read-only chat mode switch
    edits,        \* settings edits made so far (bound only)
    answers,      \* history: the answers that found their request
    everAuto      \* history: tools some stored policy has ever run silently

approvalVars == <<asked, pending, session, policies, readOnly, edits, answers, everAuto>>

-----------------------------------------------------------------------------

Request == [stream: Streams, tool: Tools]

Answer == [stream: Streams, tool: Tools, decision: Decisions,
           scope: Scopes, partial: BOOLEAN]

PolicyStore == [tierDefaults: [Tiers -> Policies],
                toolOverrides: [Tools -> Policies \cup {Unset}]]

\* effectivePolicy(): a tool override wins over the default of its tier.
EffectivePolicy(p, tool) ==
    IF p.toolOverrides[tool] # Unset
    THEN p.toolOverrides[tool]
    ELSE p.tierDefaults[Tier[tool]]

AutoTools(p) == {t \in Tools : EffectivePolicy(p, t) = "auto"}

\* The verdict requestApproval() reaches without asking anybody; "ask" when
\* it has to broadcast a prompt. Each verdict carries the outcome's source.
Refusal == [decision |-> "deny", source |-> "policy"]

Verdict(s, tool) ==
    CASE readOnly /\ Tier[tool] # "read" -> Refusal
      [] OTHER ->
         IF session[s][tool] # Unset
         THEN [decision |-> session[s][tool], source |-> "prompt-session"]
         ELSE LET policy == EffectivePolicy(policies, tool) IN
              CASE policy = "auto" -> [decision |-> "allow", source |-> "policy"]
                [] policy = "deny" -> Refusal
                [] OTHER           -> [decision |-> "ask", source |-> "policy"]

-----------------------------------------------------------------------------

ApprovalTypeOK ==
    /\ asked \in Seq(Request)
    /\ pending \in SUBSET (DOMAIN asked)
    /\ session \in [Streams -> [Tools -> Decisions \cup {Unset}]]
    /\ policies \in PolicyStore
    /\ readOnly \in BOOLEAN
    /\ edits \in 0 .. MaxPolicyEdits
    /\ answers \in SUBSET Answer
    /\ everAuto \in SUBSET Tools

DefaultPolicies ==
    [tierDefaults  |-> [tier \in Tiers |-> IF tier = "read" THEN "auto" ELSE "prompt"],
     toolOverrides |-> [t \in Tools |-> Unset]]

ApprovalInit ==
    /\ asked = <<>>
    /\ pending = {}
    /\ session = [s \in Streams |-> [t \in Tools |-> Unset]]
    /\ policies = DefaultPolicies
    /\ readOnly \in BOOLEAN
    /\ edits = 0
    /\ answers = {}
    /\ everAuto = AutoTools(DefaultPolicies)

PendingOf(s) == {id \in pending : asked[id].stream = s}

\* requestApproval(), the branch that registers and broadcasts a prompt.
Broadcast(s, tool) ==
    /\ asked' = Append(asked, [stream |-> s, tool |-> tool])
    /\ pending' = pending \cup {Len(asked) + 1}
    /\ UNCHANGED <<session, policies, readOnly, edits, answers, everAuto>>

\* (mutant) The listener forgets to take the entry out of the map.
WithdrawNothing(s) == UNCHANGED approvalVars

\* The abort listener of each pending request of the stream.
WithdrawRequests(s) ==
    /\ pending' = pending \ PendingOf(s)
    /\ UNCHANGED <<asked, session, policies, readOnly, edits, answers, everAuto>>

WritePolicies(p) ==
    /\ policies' = p
    /\ everAuto' = everAuto \cup AutoTools(p)

\* (mutant) Any answer to a session prompt is kept as an allow.
RespondSessionAllows(id, decision, scope, partial) ==
    IF id \notin pending
    THEN UNCHANGED approvalVars
    ELSE LET r == asked[id] IN
         /\ pending' = pending \ {id}
         /\ answers' = answers \cup {[stream |-> r.stream, tool |-> r.tool,
                                      decision |-> decision, scope |-> scope,
                                      partial |-> partial]}
         /\ session' = IF scope = "session"
                       THEN [session EXCEPT ![r.stream][r.tool] = "allow"] ELSE session
         /\ UNCHANGED <<asked, policies, everAuto, readOnly, edits>>

\* (mutant) An answer is applied whether or not its request is pending.
RespondLate(id, decision, scope, partial) ==
    LET r == asked[id] IN
    /\ pending' = pending \ {id}
    /\ session' = IF scope = "session"
                  THEN [session EXCEPT ![r.stream][r.tool] = decision] ELSE session
    /\ UNCHANGED <<asked, policies, everAuto, answers, readOnly, edits>>

\* respond(): an answer to a request that is no longer pending is ignored. A
\* partial accept is only an allow, and is never stored as a rule.
Respond(id, decision, scope, partial) ==
    IF id \notin pending
    THEN UNCHANGED approvalVars
    ELSE LET r == asked[id] IN
         /\ pending' = pending \ {id}
         /\ answers' = answers \cup {[stream |-> r.stream, tool |-> r.tool,
                                      decision |-> decision, scope |-> scope,
                                      partial |-> partial]}
         /\ IF scope = "session" /\ ~partial
            THEN session' = [session EXCEPT ![r.stream][r.tool] = decision]
            ELSE UNCHANGED session
         /\ IF scope = "always" /\ ~partial
            THEN WritePolicies([policies EXCEPT !.toolOverrides[r.tool] =
                                     IF decision = "allow" THEN "auto" ELSE "deny"])
            ELSE UNCHANGED <<policies, everAuto>>
         /\ UNCHANGED <<asked, readOnly, edits>>

\* clearSession(): runs when the stream's promise settles.
ClearSession(s) ==
    /\ session' = [session EXCEPT ![s] = [t \in Tools |-> Unset]]
    /\ pending' = pending \ PendingOf(s)
    /\ UNCHANGED <<asked, policies, readOnly, edits, answers, everAuto>>

\* approvals:set-policy for a tier (a null policy means "prompt").
SetTierPolicy(tier, policy) ==
    /\ edits < MaxPolicyEdits
    /\ edits' = edits + 1
    /\ WritePolicies([policies EXCEPT !.tierDefaults[tier] = policy])
    /\ UNCHANGED <<asked, pending, session, readOnly, answers>>

\* approvals:set-policy for a tool (a null policy deletes the override).
SetToolPolicy(tool, policy) ==
    /\ edits < MaxPolicyEdits
    /\ edits' = edits + 1
    /\ WritePolicies([policies EXCEPT !.toolOverrides[tool] = policy])
    /\ UNCHANGED <<asked, pending, session, readOnly, answers>>

\* chat:set-read-only-mode.
SetReadOnly(on) ==
    /\ edits < MaxPolicyEdits
    /\ edits' = edits + 1
    /\ readOnly' = on
    /\ UNCHANGED <<asked, pending, session, policies, answers, everAuto>>

\* The process dies: requests and session overrides were only in memory; the
\* policies and the switch are in the settings file.
ForgetApprovals ==
    /\ pending' = {}
    /\ session' = [s \in Streams |-> [t \in Tools |-> Unset]]
    /\ UNCHANGED <<asked, policies, readOnly, edits, answers, everAuto>>

=============================================================================
