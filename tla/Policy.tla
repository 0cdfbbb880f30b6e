------------------------------- MODULE Policy -------------------------------
(***************************************************************************)
(* The risk policy of ozr (src/core/policy.rs, guardrail.rs): which tier a *)
(* kind of action has under a ponytail mode, and whether the loop must ask *)
(* for approval before it executes one.                                    *)
(***************************************************************************)

ActionKinds == {"Read", "Write", "Shell", "Network"}
Tiers == {"Low", "Medium", "High"}
PonytailModes == {"Off", "Lite", "Full", "Ultra"}

\* PolicyEngine.
PolicyEngines == [ponytail: PonytailModes, shellAuto: BOOLEAN, requireSandboxd: BOOLEAN]

\* PolicyEngine::default(), with the configured ponytail mode.
DefaultPolicy(mode) == [ponytail |-> mode, shellAuto |-> FALSE, requireSandboxd |-> FALSE]

BaseTier(kind) ==
  CASE kind = "Read" -> "Low"
    [] kind \in {"Write", "Network"} -> "Medium"
    [] kind = "Shell" -> "High"

\* apply_ponytail_risk.
PonytailTier(mode, tier, kind) ==
  CASE mode \in {"Off", "Lite"} -> tier
    [] mode = "Full" -> IF kind = "Write" /\ tier = "Low" THEN "Medium" ELSE tier
    [] mode = "Ultra" -> IF kind \in {"Write", "Network"} THEN "High" ELSE tier

Tier(policy, kind) == PonytailTier(policy.ponytail, BaseTier(kind), kind)

\* check_plan's requires_approval: evaluate's decision is RequireApproval.
RequiresApproval(policy, kind) ==
  LET tier == Tier(policy, kind)
  IN  tier = "Medium" \/ (tier = "High" /\ ~policy.shellAuto)

=============================================================================
