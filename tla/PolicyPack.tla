----------------------------- MODULE PolicyPack -----------------------------
(***************************************************************************)
(* How a configuration becomes the policy, the budget and the executor of  *)
(* a run: PolicyPack::prepare_runtime (src/core/policy_pack.rs) followed   *)
(* by RuntimeExecutor::from_config (src/core/sandbox_executor.rs), as      *)
(* run_agent_once and the CLI call them.  The two look at the sandboxd     *)
(* settings separately and have to agree.                                  *)
(***************************************************************************)
EXTENDS Policy, Naturals

CONSTANTS
  TokenLimits,      \* values of OZR_BUDGET_MAX_TOKENS
  IterationLimits,  \* values of OZR_BUDGET_MAX_ITERATIONS
  SecondLimits      \* values of OZR_BUDGET_MAX_RUN_SECONDS

ASSUME PolicyPackAssumption ==
  TokenLimits \subseteq Nat /\ IterationLimits \subseteq Nat /\ SecondLimits \subseteq Nat

\* OZR_POLICY_PACK; "other" is any name from_env does not know.
PackNames == {"strict", "balanced", "fast", "production", "other"}
PackFromEnv(name) == IF name = "other" THEN "balanced" ELSE name

Budgets == [tokens: Nat, iterations: Nat, seconds: Nat]

\* The part of AppConfig that decides: hasBase and hasSandbox say that the
\* sandboxd API base and sandbox id are not empty.
AppConfigs ==
  [pack: PackNames, ponytail: PonytailModes, feature: BOOLEAN,
   hasBase: BOOLEAN, hasSandbox: BOOLEAN,
   budget: [tokens: TokenLimits, iterations: IterationLimits, seconds: SecondLimits]]

AtMost(n, limit) == IF n <= limit THEN n ELSE limit
AtLeast(n, limit) == IF n >= limit THEN n ELSE limit

\* PolicyPack::apply on the policy.
PackPolicy(pack, policy) ==
  CASE pack = "strict" -> [policy EXCEPT !.ponytail = "Full", !.shellAuto = FALSE]
    [] pack = "fast" -> [policy EXCEPT !.ponytail = "Off"]
    [] pack = "production" ->
         [policy EXCEPT !.ponytail = "Full", !.shellAuto = FALSE, !.requireSandboxd = TRUE]
    [] pack = "balanced" -> policy

\* PolicyPack::apply on the budget.
PackBudget(pack, b) ==
  CASE pack = "strict" -> [tokens |-> AtMost(b.tokens, 1500),
                           iterations |-> AtMost(b.iterations, 4),
                           seconds |-> AtMost(b.seconds, 12)]
    [] pack = "fast" -> [tokens |-> AtLeast(b.tokens, 3000),
                         iterations |-> AtLeast(b.iterations, 8),
                         seconds |-> AtLeast(b.seconds, 30)]
    [] pack = "production" -> [b EXCEPT !.seconds = AtLeast(@, 900),
                                        !.iterations = AtLeast(@, 5)]
    [] pack = "balanced" -> b

\* SandboxdSettings::is_ready.
SandboxdReady(c) == c.hasBase /\ c.hasSandbox

\* validate_sandboxd_requirements (the faulty one forgets is_ready).
WiredByFlag(c, policy) == policy.requireSandboxd => c.feature
Wired(c, policy) == policy.requireSandboxd => c.feature /\ SandboxdReady(c)

\* RuntimeExecutor::from_config and uses_host_execution.
ExecutorKinds == {"Host", "SandboxdStub", "SandboxdApi"}
ExecutorFor(c) ==
  IF ~c.feature THEN "Host" ELSE IF SandboxdReady(c) THEN "SandboxdApi" ELSE "SandboxdStub"
UsesHostExecution(executor) == executor \in {"Host", "SandboxdStub"}

-----------------------------------------------------------------------------
VARIABLES
  stage,      \* how far the start-up of the run has come
  cfg,        \* the AppConfig
  policy,     \* the PolicyEngine under construction
  budget,     \* the BudgetPreset under construction
  executor    \* the RuntimeExecutor, once there is one

packVars == <<stage, cfg, policy, budget, executor>>

PackInit ==
  /\ stage = "configured"
  /\ cfg \in AppConfigs
  /\ policy = DefaultPolicy(cfg.ponytail)
  /\ budget = cfg.budget
  /\ executor = "None"

ApplyPack ==
  /\ stage = "configured"
  /\ stage' = "packed"
  /\ policy' = PackPolicy(PackFromEnv(cfg.pack), policy)
  /\ budget' = PackBudget(PackFromEnv(cfg.pack), budget)
  /\ UNCHANGED <<cfg, executor>>

\* prepare_runtime returns Err: the run does not start.
Refuse ==
  /\ stage = "packed"
  /\ ~Wired(cfg, policy)
  /\ stage' = "refused"
  /\ UNCHANGED <<cfg, policy, budget, executor>>

\* prepare_runtime returns Ok, and the executor is built from the same cfg.
Start ==
  /\ stage = "packed"
  /\ Wired(cfg, policy)
  /\ stage' = "started"
  /\ executor' = ExecutorFor(cfg)
  /\ UNCHANGED <<cfg, policy, budget>>

PackNext == ApplyPack \/ Refuse \/ Start

PackSpec == PackInit /\ [][PackNext]_packVars

-----------------------------------------------------------------------------
(* Properties *)

\* A run that starts under a policy that requires sandboxd has an executor that
\* keeps off the host: the check in prepare_runtime and the choice made by
\* from_config never disagree, so the loop's own guard is a second line.
RequiredSandboxIsWired ==
  stage = "started" /\ policy.requireSandboxd => ~UsesHostExecution(executor)

\* No pack, ponytail mode or combination of the two lets a write, a network or a
\* shell action through without asking (README.md: medium/high actions block).
RiskyActionsAlwaysAsk ==
  stage = "started" => \A k \in {"Write", "Network", "Shell"} : RequiresApproval(policy, k)

=============================================================================
