----------------------------- MODULE GuardedRun -----------------------------
(***************************************************************************)
(* What the agent loop promises, whatever calls, logs and retries it is    *)
(* made of: plans follow each other until one is carried out or the run    *)
(* gives up; a risky plan is carried out only with an approval of its own; *)
(* one plan at most acts, once, and it is the last; and the outcome and    *)
(* the record of a run, set once, say what it did.                         *)
(***************************************************************************)
EXTENDS Naturals

CONSTANTS MaxPlans   \* plans a run may go through

VARIABLES
  plan,      \* which plan the run is at, 0 before the first
  risky,     \* does it need an approval?
  approved,  \* was it approved?
  acted,     \* where it has acted, "none" before
  outcome,   \* how the run ended, "None" before
  record     \* what is recorded of the run, "Other" before

runVars == <<plan, risky, approved, acted, outcome, record>>

Broken == {"Escaped", "Crashed"}
Refused == {"Skipped", "Denied", "Failed"}

RunInit ==
  /\ plan = 0 /\ risky = FALSE /\ approved = FALSE
  /\ acted = "none" /\ outcome = "None" /\ record = "Other"

Open == outcome = "None"

StartRecord ==
  /\ Open /\ plan = 0 /\ record = "Other"
  /\ record' = "Running"
  /\ UNCHANGED <<plan, risky, approved, acted, outcome>>

\* The next plan, in place of one that was not approved and has not acted.
NextPlan ==
  /\ Open /\ plan < MaxPlans /\ ~approved /\ acted = "none"
  /\ plan' = plan + 1
  /\ risky' \in BOOLEAN
  /\ UNCHANGED <<approved, acted, outcome, record>>

ApprovePlan ==
  /\ Open /\ plan > 0 /\ risky /\ ~approved
  /\ approved' = TRUE
  /\ UNCHANGED <<plan, risky, acted, outcome, record>>

MayAct == plan > 0 /\ (risky => approved) /\ acted = "none"

Act ==
  /\ Open /\ MayAct
  /\ acted' \in {"host", "sandbox"}
  /\ UNCHANGED <<plan, risky, approved, outcome, record>>

\* The run ends, and its record, unless that fails or is not its own, with it.
Recorded(status) ==
  record' \in {record} \cup (IF record = "Running" THEN {status} ELSE {})

Complete ==
  /\ Open /\ plan > 0 /\ (risky => approved)
  /\ outcome' = "Completed"
  /\ Recorded("Completed")
  /\ UNCHANGED <<plan, risky, approved, acted>>

\* Denied, skipped or given up, for which no approval is needed, and without
\* effect; only the run that gives up may have been approved.
Refuse ==
  /\ Open /\ acted = "none"
  /\ \/ outcome' = "Failed" /\ Recorded("Failed")
     \/ plan > 0 /\ risky /\ ~approved /\ outcome' = "Denied" /\ Recorded("Failed")
     \/ plan > 0 /\ risky /\ ~approved /\ outcome' = "Skipped" /\ Recorded("Completed")
  /\ UNCHANGED <<plan, risky, approved, acted>>

\* An error or a crash ends the run at any point, with a call under way perhaps:
\* nothing is recorded.
Break ==
  /\ Open
  /\ outcome' \in Broken
  /\ acted' \in {acted} \cup (IF MayAct THEN {"host", "sandbox"} ELSE {})
  /\ UNCHANGED <<plan, risky, approved, record>>

RunNext ==
  StartRecord \/ NextPlan \/ ApprovePlan \/ Act \/ Complete \/ Refuse \/ Break

RunSpec == RunInit /\ [][RunNext]_runVars

=============================================================================
