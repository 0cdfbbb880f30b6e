---------------------------- MODULE MCAgentLoop ----------------------------
(* Instances of AgentLoop for TLC. *)
EXTENDS AgentLoop

\* The policies the packs make of the default configuration, the one that
\* tightens writes to High, and one that trusts the shell (AgentLoop::new takes
\* any PolicyEngine).
SomePolicies ==
  {DefaultPolicy(mode) : mode \in {"Off", "Ultra"}}
  \cup {[ponytail |-> "Full", shellAuto |-> FALSE, requireSandboxd |-> TRUE],
        [ponytail |-> "Lite", shellAuto |-> TRUE, requireSandboxd |-> FALSE]}

\* Limits on both sides of what one, two and three plans need.
SomeSetups ==
  [policy: SomePolicies, maxTokens: {100, 400, 1500}, maxIterations: {0, 1},
   executor: ExecutorKinds, approver: ApproverKinds]

\* One run over HTTP and one at the prompt, with room for every retry.
OpenSetups ==
  [policy: {DefaultPolicy("Off")}, maxTokens: {1500}, maxIterations: {1},
   executor: {"Host"}, approver: {"Prompt", "Api"}]
=============================================================================
