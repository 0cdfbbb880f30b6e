----------------------------- MODULE AgentLoop -----------------------------
(***************************************************************************)
(* One run of the agent loop: AgentLoop::run_once (src/core/agent_loop.rs) *)
(* with the budget guard, the approval gate, the executor, the audit log   *)
(* and the session checkpoint it calls.  A step lies between two points at *)
(* which the process can die or a call can fail: the append of an audit    *)
(* line, the write of the checkpoint, the model, the gate, the executor.   *)
(* Prompts, tool names, params and results are left out, and so are the    *)
(* audit lines nothing is decided by (ponytail_mode, tools_discovered,     *)
(* plan_tool, sandboxd_task): only the failure to write them is kept.      *)
(***************************************************************************)
EXTENDS Policy, Replay, Naturals

CONSTANTS
  Setups,      \* what a run is started with
  PlanTokens,  \* the estimated_tokens of the plans the model proposes
  Faults       \* the calls that may fail

ExecutorKinds == {"Host", "SandboxdStub", "SandboxdApi"}
ApproverKinds == {"AutoApprove", "AutoDeny", "Prompt", "Api"}

ASSUME AgentLoopAssumption ==
  /\ Setups \subseteq [policy: PolicyEngines, maxTokens: Nat, maxIterations: Nat,
                       executor: ExecutorKinds, approver: ApproverKinds]
  /\ PlanTokens \subseteq Nat
  /\ Faults \subseteq {"audit", "checkpoint", "approver", "executor"}

\* An ApprovalOutcome.  Its reason is a text of the program's own, one the
\* operator typed, or a typed one that breaks its audit line; edited says that
\* edited_params is not blank.
Answers == [decision: {"Approve", "Deny", "Skip", "Retry", "EditPlan"},
            reason: {"default", "typed", "unprintable"}, edited: BOOLEAN]
Answer(decision, reason, edited) ==
  [decision |-> decision, reason |-> reason, edited |-> edited]

\* The audit events that are kept.
Events == {"loop_started", "plan_evaluated", "approved", "denied", "skipped",
           "retry_requested", "plan_edited", "tool_executed", "loop_completed", "loop_failed"}

Steps == {"begin", "session", "budget", "propose", "plan", "ask", "answered", "route",
          "execute", "executed", "summarize", "failing", "closing", "ended"}
Ends == {"None", "Completed", "Skipped", "Denied", "Failed", "Escaped", "Crashed"}

VARIABLES
  setup,      \* the policy, budget limits, executor and approver of the run
  pc,         \* the next thing the loop does
  kind,       \* the action kind of the plan in hand
  proposals,  \* history: how many plans the model was asked for
  attempts,   \* approval_attempts
  tokens,     \* used_tokens
  overtime,   \* has max_run_time elapsed?
  answer,     \* the last ApprovalOutcome
  log,        \* the audit lines of this run
  checkpoint, \* the status in the checkpoint file ("Other": not of this run)
  effect,     \* history: where the tool has acted
  end         \* how run_once ends, once that is decided

planVars == <<kind, proposals, tokens>>
vars == <<setup, pc, kind, proposals, attempts, tokens, overtime, answer, log,
          checkpoint, effect, end>>

TypeOK ==
  /\ setup \in Setups
  /\ pc \in Steps
  /\ kind \in ActionKinds
  /\ proposals \in 0..3
  /\ attempts \in 0..3
  /\ tokens \in Nat
  /\ overtime \in BOOLEAN
  /\ answer \in Answers
  /\ log \in Seq([event: Events, readable: BOOLEAN])
  /\ checkpoint \in {"Other", "Running", "Completed", "Failed"}
  /\ effect \in {"none", "host", "sandbox"}
  /\ end \in Ends
  /\ (pc \in {"closing", "ended"} <=> end # "None")

Init ==
  /\ setup \in Setups
  /\ pc = "begin"
  /\ kind = "Read"
  /\ proposals = 0
  /\ attempts = 0
  /\ tokens = 0
  /\ overtime = FALSE
  /\ answer = Answer("Deny", "default", FALSE)
  /\ log = <<>>
  /\ checkpoint = "Other"
  /\ effect = "none"
  /\ end = "None"

-----------------------------------------------------------------------------
(* What the steps are made of *)

May(fault) == fault \in Faults

GoTo(step) == pc' = step /\ UNCHANGED end

\* Everything is decided but the checkpoint.
Close(how) == pc' = "closing" /\ end' = how

\* `?` leaves run_once at once: no audit line, no checkpoint (the faulty one
\* goes through fail_run).
EscapeByFailRun == pc' = "failing" /\ UNCHANGED end
Escape == pc' = "ended" /\ end' = "Escaped"

Log(event) == log' = Append(log, Line(event, TRUE))
LogReason(event) == log' = Append(log, Line(event, answer.reason # "unprintable"))

\* consume_tokens refuses the sum (the faulty one weighs each plan by itself).
PlanOverBudget(used, count, limit) == count > limit
OverBudget(used, count, limit) == used + count > limit

\* check_plan decides whether to ask (the faulty one asks about the first plan only).
AsksOnce == attempts = 0 /\ RequiresApproval(setup.policy, kind)
Asks == RequiresApproval(setup.policy, kind)

\* `approval_attempts > 2`.
OverRetries(n) == n > 2

\* What the gates answer: CliApprovalGate in its three modes, with
\* prompt_approval's questions for each tier, and approve_session with any body.
GateAnswers(approver, tier) ==
  CASE approver = "AutoApprove" -> {Answer("Approve", "default", FALSE)}
    [] approver = "AutoDeny" -> {Answer("Deny", "default", FALSE)}
    [] approver = "Prompt" ->
         {Answer(d, "default", FALSE) : d \in {"Deny", "Skip", "Retry"}}
         \cup {Answer("EditPlan", "default", TRUE)}
         \cup {Answer("Approve", reason, FALSE) :
                 reason \in IF tier = "High" THEN {"typed", "unprintable"} ELSE {"default"}}
    [] approver = "Api" -> Answers

UsesHostExecution(executor) == executor \in {"Host", "SandboxdStub"}

\* The kinds that have to leave the host (the faulty one forgets all but Shell).
ShellLeavesHost(k) == k = "Shell"
LeavesHost(k) == k # "Read"

\* Where execute acts: reads go to the MCP server whatever the executor is, and
\* the stub only says that it did something.
EffectOf(executor, k) ==
  IF executor = "Host" \/ k = "Read" THEN "host"
  ELSE IF executor = "SandboxdApi" THEN "sandbox" ELSE "none"

\* The status complete_session or fail_session writes.
StatusOf(how) == IF how \in {"Completed", "Skipped"} THEN "Completed" ELSE "Failed"

-----------------------------------------------------------------------------
(* run_once, step by step *)

\* The layout of .ozr, the run id and the first audit line.
Begin ==
  /\ pc = "begin"
  /\ Log("loop_started")
  /\ GoTo("session")
  /\ UNCHANGED <<setup, planVars, attempts, overtime, answer, checkpoint, effect>>

\* begin_session takes the checkpoint file over; its failure is ignored.
BeginSession ==
  /\ pc = "session"
  /\ \/ checkpoint' = "Running"
     \/ May("checkpoint") /\ UNCHANGED checkpoint
  /\ GoTo("budget")
  /\ UNCHANGED <<setup, planVars, attempts, overtime, answer, log, effect>>

\* consume_iteration: the only look at the clock.
ConsumeIteration ==
  /\ pc = "budget"
  /\ GoTo(IF setup.maxIterations = 0 \/ overtime THEN "failing" ELSE "propose")
  /\ UNCHANGED <<setup, planVars, attempts, overtime, answer, log, checkpoint, effect>>

\* The tools are listed (before the first plan), propose_plan, consume_tokens.
Propose ==
  /\ pc = "propose"
  /\ kind' \in ActionKinds
  /\ proposals' = proposals + 1
  /\ \E count \in PlanTokens :
       /\ tokens' = tokens + count
       /\ GoTo(IF OverBudget(tokens, count, setup.maxTokens) THEN "failing" ELSE "plan")
  /\ UNCHANGED <<setup, attempts, overtime, answer, log, checkpoint, effect>>

\* check_plan, with the audit lines of the plan.
CheckPlan ==
  /\ pc = "plan"
  /\ Log("plan_evaluated")
  /\ GoTo(IF Asks THEN "ask" ELSE "route")
  /\ UNCHANGED <<setup, planVars, attempts, overtime, answer, checkpoint, effect>>

\* The approver's request returns.
Request ==
  /\ pc = "ask"
  /\ answer' \in GateAnswers(setup.approver, Tier(setup.policy, kind))
  /\ GoTo("answered")
  /\ UNCHANGED <<setup, planVars, attempts, overtime, log, checkpoint, effect>>

Answered(decision) == pc = "answered" /\ answer.decision = decision

Approve ==
  /\ Answered("Approve")
  /\ LogReason("approved")
  /\ GoTo("route")
  /\ UNCHANGED <<setup, planVars, attempts, overtime, answer, checkpoint, effect>>

Deny ==
  /\ Answered("Deny")
  /\ LogReason("denied")
  /\ Close("Denied")
  /\ UNCHANGED <<setup, planVars, attempts, overtime, answer, checkpoint, effect>>

Skip ==
  /\ Answered("Skip")
  /\ LogReason("skipped")
  /\ Close("Skipped")
  /\ UNCHANGED <<setup, planVars, attempts, overtime, answer, checkpoint, effect>>

\* A faulty Retry that puts the same plan before the operator, uncounted.
RetryAsksAgain ==
  /\ Answered("Retry")
  /\ GoTo("ask")
  /\ UNCHANGED <<setup, planVars, attempts, overtime, answer, log, checkpoint, effect>>

Retry ==
  /\ Answered("Retry")
  /\ attempts' = attempts + 1
  /\ LogReason("retry_requested")
  /\ GoTo(IF OverRetries(attempts + 1) THEN "failing" ELSE "propose")
  /\ UNCHANGED <<setup, planVars, overtime, answer, checkpoint, effect>>

\* The edited params are taken as they are; blank ones fail the run.
EditPlan ==
  /\ Answered("EditPlan")
  /\ IF answer.edited
       THEN LogReason("plan_edited") /\ GoTo("route")
       ELSE UNCHANGED log /\ GoTo("failing")
  /\ UNCHANGED <<setup, planVars, attempts, overtime, answer, checkpoint, effect>>

\* The require_sandboxd guard.
Route ==
  /\ pc = "route"
  /\ GoTo(IF setup.policy.requireSandboxd /\ LeavesHost(kind)
              /\ UsesHostExecution(setup.executor)
            THEN "failing" ELSE "execute")
  /\ UNCHANGED <<setup, planVars, attempts, overtime, answer, log, checkpoint, effect>>

Execute ==
  /\ pc = "execute"
  /\ effect' = EffectOf(setup.executor, kind)
  /\ GoTo("executed")
  /\ UNCHANGED <<setup, planVars, attempts, overtime, answer, log, checkpoint>>

LogExecuted ==
  /\ pc = "executed"
  /\ Log("tool_executed")
  /\ GoTo("summarize")
  /\ UNCHANGED <<setup, planVars, attempts, overtime, answer, checkpoint, effect>>

\* summarize and the last audit line.
Summarize ==
  /\ pc = "summarize"
  /\ Log("loop_completed")
  /\ Close("Completed")
  /\ UNCHANGED <<setup, planVars, attempts, overtime, answer, checkpoint, effect>>

\* fail_run; it ignores a failure of its audit line.
FailRun ==
  /\ pc = "failing"
  /\ \/ Log("loop_failed")
     \/ May("audit") /\ UNCHANGED log
  /\ Close("Failed")
  /\ UNCHANGED <<setup, planVars, attempts, overtime, answer, checkpoint, effect>>

\* complete_session or fail_session: a checkpoint of another run is left alone,
\* and a failure is ignored.  Then run_once returns.
CloseSession ==
  /\ pc = "closing"
  /\ \/ checkpoint' = IF checkpoint = "Other" THEN "Other" ELSE StatusOf(end)
     \/ May("checkpoint") /\ UNCHANGED checkpoint
  /\ pc' = "ended"
  /\ UNCHANGED <<setup, planVars, attempts, overtime, answer, log, effect, end>>

-----------------------------------------------------------------------------
(* What goes wrong *)

\* `audit.append(..)?` fails, where the loop is about to append; ponytail_mode is
\* written before the budget is looked at, tools_discovered before the first plan.
AuditFails ==
  /\ May("audit")
  /\ \/ pc \in {"begin", "budget", "plan", "executed", "summarize"}
     \/ pc = "propose" /\ proposals = 0
     \/ pc = "answered" /\ (answer.decision = "EditPlan" => answer.edited)
  /\ Escape
  /\ UNCHANGED <<setup, planVars, attempts, overtime, answer, log, checkpoint, effect>>

\* The prompt cannot be read; the other approvers never return an error.
RequestFails ==
  /\ May("approver")
  /\ pc = "ask"
  /\ setup.approver = "Prompt"
  /\ Escape
  /\ UNCHANGED <<setup, planVars, attempts, overtime, answer, log, checkpoint, effect>>

\* execute returns Err, before or after the tool has acted (the faulty one has the
\* model propose another plan).
ExecuteFailsAndRetries ==
  /\ May("executor")
  /\ pc = "execute"
  /\ effect' \in {"none", EffectOf(setup.executor, kind)}
  /\ GoTo("propose")
  /\ UNCHANGED <<setup, planVars, attempts, overtime, answer, log, checkpoint>>
ExecuteFails ==
  /\ May("executor")
  /\ pc = "execute"
  /\ EffectOf(setup.executor, kind) # "none"
  /\ effect' \in {"none", EffectOf(setup.executor, kind)}
  /\ Escape
  /\ UNCHANGED <<setup, planVars, attempts, overtime, answer, log, checkpoint>>

\* The process dies; a tool call under way may or may not have acted.
Crash ==
  /\ pc # "ended"
  /\ effect' \in {effect} \cup (IF pc = "execute" THEN {EffectOf(setup.executor, kind)} ELSE {})
  /\ pc' = "ended"
  /\ end' = "Crashed"
  /\ UNCHANGED <<setup, planVars, attempts, overtime, answer, log, checkpoint>>

\* max_run_time runs out.
TimePasses ==
  /\ pc # "ended"
  /\ ~overtime
  /\ overtime' = TRUE
  /\ UNCHANGED <<setup, pc, planVars, attempts, answer, log, checkpoint, effect, end>>

-----------------------------------------------------------------------------
\* What the loop does by itself, and what it waits for others to do.
OwnStep ==
  \/ Begin \/ BeginSession \/ ConsumeIteration \/ CheckPlan
  \/ Approve \/ Deny \/ Skip \/ Retry \/ EditPlan
  \/ Route \/ LogExecuted \/ FailRun \/ CloseSession

Next ==
  \/ OwnStep
  \/ Propose \/ Request \/ Execute \/ Summarize
  \/ AuditFails \/ RequestFails \/ ExecuteFails \/ Crash \/ TimePasses

Spec == Init /\ [][Next]_vars

\* The task of the run is polled; neither the model (curl without a time limit),
\* nor the operator, nor the tool has to answer.
FairSpec == Spec /\ WF_vars(OwnStep)

-----------------------------------------------------------------------------
(* Properties *)

\* The plan in hand was let through: an approval is in the log, and no plan was
\* evaluated after it.
LetThrough ==
  \E i \in DOMAIN log :
    /\ log[i].event \in {"approved", "plan_edited"}
    /\ \A j \in i..Len(log) : log[j].event # "plan_evaluated"

\* No tool acts for a plan that needs approval unless the audit log holds the
\* approval of that very plan: an approval never outlives a retry, and a loop
\* that cannot write it down does not execute (ozr.md, "High-risk action without
\* approval = 0").
GatedExecution ==
  effect # "none" /\ RequiresApproval(setup.policy, kind) => LetThrough

\* A plan that takes the run over its token budget is neither put before the
\* operator nor executed, and a run without iterations does nothing at all.
BudgetRespected ==
  pc \in {"plan", "ask", "answered", "route", "execute", "executed"} \/ effect # "none" =>
    tokens <= setup.maxTokens /\ setup.maxIterations > 0

\* However the operator answers, the model is asked at most three times, each
\* time after the first because of one retry.
RetryBound == proposals <= 3 /\ proposals <= attempts + 1

\* Where the policy requires sandboxd, nothing but a read acts on the host, even
\* if the loop was built with an executor that would.
ProductionNeverOnHost ==
  setup.policy.requireSandboxd /\ effect = "host" => kind = "Read"

\* A run that was denied, skipped or refused has done nothing, whichever retries
\* came before; and nor has one whose checkpoint says Failed, so resuming it
\* does nothing twice.
RefusedDidNothing ==
  end \in {"Skipped", "Denied", "Failed"} \/ checkpoint = "Failed" => effect = "none"

\* The checkpoint is never ahead of the audit log: what it calls completed, the
\* log calls completed or skipped.
CompletedIsLogged ==
  checkpoint = "Completed" =>
    \E i \in DOMAIN log : log[i].event \in {"loop_completed", "skipped"}

\* What replay should say of a run that ended `how`.
OutcomeOf(how) == IF how = "Failed" THEN "Incomplete" ELSE how

\* replay tells how a run ended wherever the loop ends it itself and the lines
\* can be read; and it calls a run completed only if the tool had its turn.
ReplayAgrees ==
  /\ end \in {"Completed", "Skipped", "Denied", "Failed"} /\ answer.reason # "unprintable" =>
       ReplayOf(log).outcome = OutcomeOf(end)
  /\ ReplayOf(log).outcome = "Completed" => \E i \in DOMAIN log : log[i].event = "tool_executed"

\* The two records of a run do not contradict each other: one whose checkpoint is
\* left to be resumed as failed is not completed for replay, and one whose checkpoint
\* is completed ended well there too, if the reason in its last line can be read.
RecordsAgree ==
  /\ checkpoint = "Failed" => ReplayOf(log).outcome \in {"Denied", "Incomplete"}
  /\ checkpoint = "Completed" /\ answer.reason # "unprintable" =>
       ReplayOf(log).outcome \in {"Completed", "Skipped"}

\* A run acts once at most, and after that no model is asked for another plan,
\* whatever fails next.
ActsOnce == [][effect # "none" => UNCHANGED <<effect, kind, proposals>>]_vars

\* A run ends, unless it waits for ever for the model, the operator or the tool:
\* no sequence of answers keeps it going.
Terminates ==
  <>(pc = "ended") \/ <>[](pc \in {"propose", "ask", "execute", "summarize"})

\* replay shows the cause of a failure (ozr.md, acceptance of phase 3): a run that
\* returned an error is not reported as interrupted.
ReplayShowsFailure == end = "Escaped" => ReplayOf(log).reason # "interrupted"

-----------------------------------------------------------------------------
(* Refinement *)

\* A run has an outcome once run_once has returned.
Outcome == IF pc = "ended" THEN end ELSE "None"

Guarded == INSTANCE GuardedRun
             WITH MaxPlans <- 3, plan <- proposals, risky <- Asks, approved <- LetThrough,
                  acted <- effect, outcome <- Outcome, record <- checkpoint

\* The loop, with its audit log for the approvals, its checkpoint for the record
\* and every failure and crash, implements the guarded run: one plan at most acts,
\* once, it is the last and has the approval that it needs, and outcome and record
\* are set once and agree with what was done (ozr.md: no high-risk action without
\* approval, and a decision log for every run).
ImplementsGuardedRun == Guarded!RunSpec

=============================================================================
