-------------------------- MODULE AgentLoopProofs --------------------------
(***************************************************************************)
(* Proofs about AgentLoop for any set of setups, budgets, plans and faults.*)
(***************************************************************************)
EXTENDS AgentLoop, TLAPS

Lines == [event: Events, readable: BOOLEAN]

\* A line put at the end of the log leaves the others where they were.
LEMMA AppendLine ==
  ASSUME log \in Seq(Lines), NEW line \in Lines, log' = Append(log, line)
  PROVE  /\ log' \in Seq(Lines)
         /\ Len(log') = Len(log) + 1 /\ DOMAIN log' = 1..Len(log')
         /\ log'[Len(log')] = line
         /\ \A i \in DOMAIN log : i \in DOMAIN log' /\ log'[i] = log[i]
  OBVIOUS

\* The retries counted, at each step, by the plans proposed.
Counted ==
  /\ pc \in {"begin", "session", "budget"} => proposals = 0 /\ attempts = 0
  /\ pc = "propose" => proposals = attempts /\ attempts <= 2
  /\ pc \in {"plan", "ask", "answered", "route", "execute", "executed", "summarize"} =>
       proposals = attempts + 1 /\ attempts <= 2
  /\ proposals <= attempts + 1

LEMMA AnswerType ==
  \A d \in {"Approve", "Deny", "Skip", "Retry", "EditPlan"},
     reason \in {"default", "typed", "unprintable"}, edited \in BOOLEAN :
       Answer(d, reason, edited) \in Answers
  BY DEF Answer, Answers

\* What the gates answer is an ApprovalOutcome.
LEMMA GateAnswersType ==
  ASSUME NEW approver \in ApproverKinds, NEW tier
  PROVE  GateAnswers(approver, tier) \subseteq Answers
<1>1. CASE approver = "AutoApprove"
  BY <1>1, AnswerType DEF GateAnswers
<1>2. CASE approver = "AutoDeny"
  BY <1>2, AnswerType DEF GateAnswers
<1>3. CASE approver = "Prompt"
  <2>1. GateAnswers(approver, tier) =
          {Answer(d, "default", FALSE) : d \in {"Deny", "Skip", "Retry"}}
          \cup {Answer("EditPlan", "default", TRUE)}
          \cup {Answer("Approve", reason, FALSE) :
                  reason \in IF tier = "High" THEN {"typed", "unprintable"} ELSE {"default"}}
    BY <1>3 DEF GateAnswers
  <2>2. {Answer("Approve", reason, FALSE) :
           reason \in IF tier = "High" THEN {"typed", "unprintable"} ELSE {"default"}}
          \subseteq Answers
    BY AnswerType
  <2>3. {Answer(d, "default", FALSE) : d \in {"Deny", "Skip", "Retry"}} \subseteq Answers
    BY AnswerType
  <2> QED
    BY <2>1, <2>2, <2>3, AnswerType
<1>4. CASE approver = "Api"
  BY <1>4 DEF GateAnswers
<1> QED
  BY <1>1, <1>2, <1>3, <1>4 DEF ApproverKinds

LEMMA CountedInit == Init => TypeOK /\ Counted
<1> SUFFICES ASSUME Init PROVE TypeOK /\ Counted
  OBVIOUS
<1>1. answer \in Answers /\ log \in Seq([event: Events, readable: BOOLEAN])
  BY DEF Init, Answer, Answers
<1>2. proposals = 0 /\ attempts = 0 /\ tokens = 0 /\ pc = "begin" /\ end = "None"
  BY DEF Init
<1>3. Counted
  BY <1>2 DEF Counted
<1>4. /\ setup \in Setups /\ kind \in ActionKinds /\ overtime \in BOOLEAN
      /\ checkpoint \in {"Other", "Running", "Completed", "Failed"}
      /\ effect \in {"none", "host", "sandbox"}
  BY DEF Init, ActionKinds
<1>5. /\ pc \in Steps /\ end \in Ends /\ proposals \in 0..3 /\ attempts \in 0..3 /\ tokens \in Nat
      /\ pc \in {"closing", "ended"} <=> end # "None"
  BY <1>2 DEF Steps, Ends
<1> QED
  BY <1>1, <1>3, <1>4, <1>5 DEF TypeOK

LEMMA SetupType ==
  ASSUME TypeOK
  PROVE  /\ setup.approver \in ApproverKinds /\ setup.executor \in ExecutorKinds
         /\ setup.maxTokens \in Nat /\ setup.maxIterations \in Nat
  BY AgentLoopAssumption DEF TypeOK

\* The appends of the loop, typed.
LEMMA LogType ==
  ASSUME TypeOK, NEW event \in Events, Log(event) \/ LogReason(event)
  PROVE  log' \in Seq(Lines)
<1>1. PICK readable \in BOOLEAN : log' = Append(log, Line(event, readable))
  BY DEF Log, LogReason
<1>2. Line(event, readable) \in Lines
  BY DEF Line, Lines
<1> QED
  BY <1>1, <1>2, AppendLine DEF TypeOK, Lines

LEMMA CountedStep == TypeOK /\ Counted /\ [Next]_vars => TypeOK' /\ Counted'
<1> SUFFICES ASSUME TypeOK, Counted, [Next]_vars PROVE TypeOK' /\ Counted'
  OBVIOUS
<1> USE DEF Counted, Events, Steps, Ends, GoTo, Close, Escape, planVars
<1>1. CASE Begin \/ CheckPlan \/ LogExecuted \/ Summarize
  <2>1. log' \in Seq(Lines)
    BY <1>1, LogType DEF Begin, CheckPlan, LogExecuted, Summarize
  <2>2. CASE Begin
    BY <2>1, <2>2 DEF Begin, TypeOK, Lines
  <2>3. CASE CheckPlan
    BY <2>1, <2>3 DEF CheckPlan, TypeOK, Lines
  <2>4. CASE LogExecuted
    BY <2>1, <2>4 DEF LogExecuted, TypeOK, Lines
  <2>5. CASE Summarize
    BY <2>1, <2>5 DEF Summarize, TypeOK, Lines
  <2> QED
    BY <1>1, <2>2, <2>3, <2>4, <2>5
<1>2. CASE BeginSession \/ ConsumeIteration \/ Route
  BY <1>2 DEF BeginSession, ConsumeIteration, Route, TypeOK
<1>3. CASE Propose
  BY <1>3, AgentLoopAssumption DEF Propose, TypeOK
<1>4. CASE Request
  <2>1. answer' \in Answers
    BY <1>4, GateAnswersType, SetupType DEF Request
  <2> QED
    BY <1>4, <2>1 DEF Request, TypeOK
<1>5. CASE Approve \/ Deny \/ Skip
  <2>1. log' \in Seq(Lines)
    BY <1>5, LogType DEF Approve, Deny, Skip
  <2>2. CASE Approve
    BY <2>1, <2>2 DEF Approve, Answered, TypeOK, Lines
  <2>3. CASE Deny
    BY <2>1, <2>3 DEF Deny, Answered, TypeOK, Lines
  <2>4. CASE Skip
    BY <2>1, <2>4 DEF Skip, Answered, TypeOK, Lines
  <2> QED
    BY <1>5, <2>2, <2>3, <2>4
<1>6. CASE Retry
  <2>1. log' \in Seq(Lines)
    BY <1>6, LogType DEF Retry
  <2> QED
    BY <1>6, <2>1 DEF Retry, Answered, OverRetries, TypeOK, Lines
<1>7. CASE EditPlan
  <2>1. log' \in Seq(Lines)
    BY <1>7, LogType DEF EditPlan, TypeOK, Lines
  <2> QED
    BY <1>7, <2>1 DEF EditPlan, Answered, TypeOK, Lines
<1>8. CASE Execute \/ ExecuteFails \/ Crash
  <2>1. effect' \in {"none", "host", "sandbox"}
    BY <1>8 DEF Execute, ExecuteFails, Crash, EffectOf, TypeOK
  <2> QED
    BY <1>8, <2>1 DEF Execute, ExecuteFails, Crash, TypeOK
<1>9. CASE FailRun
  <2>1. log' \in Seq(Lines)
    BY <1>9, LogType DEF FailRun, TypeOK, Lines
  <2> QED
    BY <1>9, <2>1 DEF FailRun, TypeOK, Lines
<1>10. CASE CloseSession
  BY <1>10 DEF CloseSession, StatusOf, TypeOK
<1>11. CASE AuditFails \/ RequestFails
  BY <1>11 DEF AuditFails, RequestFails, TypeOK
<1>12. CASE TimePasses
  BY <1>12 DEF TimePasses, TypeOK
<1>13. CASE UNCHANGED vars
  BY <1>13 DEF vars, TypeOK
<1> QED
  BY <1>1, <1>2, <1>3, <1>4, <1>5, <1>6, <1>7, <1>8, <1>9, <1>10, <1>11, <1>12, <1>13
     DEF Next, OwnStep

\* Type correctness; the bounds on the counters are the retry limit at work.
THEOREM TypeCorrect == Spec => []TypeOK
  BY CountedInit, CountedStep, PTL DEF Spec

LEMMA CountedCorrect == Spec => []Counted
  BY CountedInit, CountedStep, PTL DEF Spec

\* The model is asked at most three times.
THEOREM RetriesBounded == Spec => []RetryBound
<1>1. TypeOK /\ Counted => RetryBound
  BY DEF TypeOK, Counted, RetryBound
<1> QED
  BY <1>1, TypeCorrect, CountedCorrect, PTL
-----------------------------------------------------------------------------
(* What stands behind an effect *)

Routed == {"execute", "executed", "summarize"}

\* The inductive invariant of the remaining properties: a plan gets to the executor
\* only within budget, let through and off the host where that is required; an
\* effect is there only after the executor; and the ending is settled by then.
ClearedPlans ==
  /\ pc \in {"propose", "plan", "ask", "answered", "route"} \cup Routed =>
       setup.maxIterations > 0
  /\ pc \in {"plan", "ask", "answered", "route"} \cup Routed => tokens <= setup.maxTokens
  /\ pc \in {"route"} \cup Routed /\ RequiresApproval(setup.policy, kind) => LetThrough
  /\ pc \in Routed /\ setup.policy.requireSandboxd /\ LeavesHost(kind) =>
       ~UsesHostExecution(setup.executor)
  /\ effect # "none" =>
       /\ pc \in {"executed", "summarize", "closing", "ended"}
       /\ end \in {"None", "Completed", "Escaped", "Crashed"}
       /\ setup.maxIterations > 0 /\ tokens <= setup.maxTokens
       /\ RequiresApproval(setup.policy, kind) => LetThrough
       /\ setup.policy.requireSandboxd /\ effect = "host" => kind = "Read"
  /\ checkpoint \in {"Completed", "Failed"} => pc = "ended"
  /\ pc = "closing" => end \in {"Completed", "Skipped", "Denied", "Failed"}
  /\ checkpoint = "Failed" => effect = "none"
  /\ pc = "closing" /\ end = "Completed" => \E i \in DOMAIN log : log[i].event = "loop_completed"
  /\ pc = "closing" /\ end = "Skipped" => \E i \in DOMAIN log : log[i].event = "skipped"
  /\ CompletedIsLogged

LEMMA ClearedInit == Init => ClearedPlans
  BY DEF Init, ClearedPlans, Routed, CompletedIsLogged

\* An approval starts to let the plan through, and no other line but the next
\* plan's takes that back.
LEMMA ApprovalLetsThrough ==
  ASSUME TypeOK, NEW event \in {"approved", "plan_edited"}, LogReason(event)
  PROVE  LetThrough'
<1>1. PICK readable \in BOOLEAN : log' = Append(log, Line(event, readable))
  BY DEF LogReason
<1>2. Line(event, readable) \in Lines /\ Line(event, readable).event = event
  BY DEF Line, Lines, Events
<1>3. log \in Seq(Lines)
  BY DEF TypeOK, Lines
<1> DEFINE n == Len(log) + 1
<1>4. n \in DOMAIN log' /\ log'[n].event = event /\ Len(log') = n /\ n \in Nat
  BY <1>1, <1>2, <1>3, AppendLine
<1> QED
  BY <1>4 DEF LetThrough

LEMMA LetThroughStays ==
  ASSUME TypeOK, LetThrough, NEW event \in Events \ {"plan_evaluated"}, Log(event) \/ LogReason(event)
  PROVE  LetThrough'
<1>1. PICK readable \in BOOLEAN : log' = Append(log, Line(event, readable))
  BY DEF Log, LogReason
<1>2. Line(event, readable) \in Lines /\ Line(event, readable).event = event
  BY DEF Line, Lines
<1>3. log \in Seq(Lines) /\ Len(log) \in Nat /\ DOMAIN log = 1..Len(log)
  BY DEF TypeOK, Lines
<1>4. /\ Len(log') = Len(log) + 1 /\ log'[Len(log')].event = event
      /\ \A i \in DOMAIN log : i \in DOMAIN log' /\ log'[i] = log[i]
  BY <1>1, <1>2, <1>3, AppendLine
<1>5. PICK i \in DOMAIN log :
        /\ log[i].event \in {"approved", "plan_edited"}
        /\ \A j \in i..Len(log) : log[j].event # "plan_evaluated"
  BY DEF LetThrough
<1>6. \A j \in i..Len(log') : log'[j].event # "plan_evaluated"
  <2> SUFFICES ASSUME NEW j \in i..Len(log') PROVE log'[j].event # "plan_evaluated"
    OBVIOUS
  <2>1. CASE j = Len(log')
    BY <1>4, <2>1
  <2>2. CASE j # Len(log')
    <3>1. j \in i..Len(log) /\ j \in DOMAIN log
      BY <1>3, <1>4, <1>5, <2>2
    <3> QED
      BY <1>4, <1>5, <3>1
  <2> QED
    BY <2>1, <2>2
<1> QED
  BY <1>4, <1>5, <1>6 DEF LetThrough

\* A line written is there, and stays there.
LEMMA LineWritten ==
  ASSUME TypeOK, NEW event \in Events, Log(event) \/ LogReason(event)
  PROVE  /\ \E i \in DOMAIN log' : log'[i].event = event
         /\ \A e \in Events : (\E i \in DOMAIN log : log[i].event = e)
                             => \E i \in DOMAIN log' : log'[i].event = e
<1>1. PICK readable \in BOOLEAN : log' = Append(log, Line(event, readable))
  BY DEF Log, LogReason
<1>2. Line(event, readable) \in Lines /\ Line(event, readable).event = event
  BY DEF Line, Lines
<1>3. log \in Seq(Lines) /\ Len(log) \in Nat
  BY DEF TypeOK, Lines
<1>4. /\ Len(log') \in DOMAIN log' /\ log'[Len(log')].event = event
      /\ \A i \in DOMAIN log : i \in DOMAIN log' /\ log'[i] = log[i]
  BY <1>1, <1>2, <1>3, AppendLine
<1> QED
  BY <1>4

\* One step per action keeps the invariant.
LEMMA ClearedStep == TypeOK /\ ClearedPlans /\ [Next]_vars => ClearedPlans'
<1> SUFFICES ASSUME TypeOK, ClearedPlans, [Next]_vars PROVE ClearedPlans'
  OBVIOUS
<1> USE DEF ClearedPlans, Routed, GoTo, Close, Escape, planVars, Asks, LeavesHost, CompletedIsLogged
<1>1. CASE Begin \/ CheckPlan
  <2>1. UNCHANGED <<setup, kind, tokens, checkpoint, effect, end>> /\ effect = "none"
        /\ checkpoint \notin {"Completed", "Failed"}
    BY <1>1 DEF Begin, CheckPlan
  <2> QED
    BY <1>1, <2>1 DEF Begin, CheckPlan, TypeOK
<1>2. CASE BeginSession \/ ConsumeIteration
  BY <1>2, SetupType DEF BeginSession, ConsumeIteration, TypeOK, LetThrough
<1>3. CASE Propose
  BY <1>3, SetupType, AgentLoopAssumption DEF Propose, OverBudget, TypeOK
<1>4. CASE Request
  BY <1>4 DEF Request, TypeOK, LetThrough
<1>5. CASE Approve \/ EditPlan
  <2>1. CASE pc' = "route"
    <3>1. LetThrough'
      BY <1>5, <2>1, ApprovalLetsThrough DEF Approve, EditPlan
    <3> QED
      BY <1>5, <2>1, <3>1 DEF Approve, EditPlan, Answered, TypeOK
  <2>2. CASE pc' = "failing"
    BY <1>5, <2>2 DEF Approve, EditPlan, Answered, TypeOK
  <2> QED
    BY <1>5, <2>1, <2>2 DEF Approve, EditPlan
<1>6. CASE Deny \/ Skip \/ Retry
  <2>1. CASE Deny
    BY <2>1 DEF Deny, Answered, TypeOK
  <2>2. CASE Skip
    <3>1. \E i \in DOMAIN log' : log'[i].event = "skipped"
      BY <2>2, LineWritten DEF Skip, Events
    <3> QED
      BY <2>2, <3>1 DEF Skip, Answered, TypeOK
  <2>3. CASE Retry
    BY <2>3 DEF Retry, Answered, TypeOK
  <2> QED
    BY <1>6, <2>1, <2>2, <2>3
<1>7. CASE Route
  BY <1>7 DEF Route, TypeOK, LetThrough
<1>8. CASE Execute \/ ExecuteFails \/ Crash
  <2>1. /\ UNCHANGED <<setup, kind, tokens, log, checkpoint>>
        /\ LetThrough' = LetThrough
    BY <1>8 DEF Execute, ExecuteFails, Crash, LetThrough
  <2>2. effect' # effect => pc = "execute" /\ effect = "none"
                            /\ effect' \in {"none", EffectOf(setup.executor, kind)}
    BY <1>8 DEF Execute, ExecuteFails, Crash
  <2>3. pc = "execute" /\ setup.policy.requireSandboxd /\ effect' = "host" /\ effect' # effect
          => kind = "Read"
    BY <2>2, SetupType DEF EffectOf, UsesHostExecution, ExecutorKinds
  <2>4. pc' \in {"executed", "ended"} /\ end' \in {"None", "Escaped", "Crashed"}
    BY <1>8 DEF Execute, ExecuteFails, Crash, TypeOK
  <2> QED
    BY <1>8, <2>1, <2>2, <2>3, <2>4 DEF Execute, ExecuteFails, Crash, TypeOK
<1>9. CASE LogExecuted \/ Summarize
  <2>1. LetThrough => LetThrough'
    BY <1>9, LetThroughStays DEF LogExecuted, Summarize, Events
  <2>2. Summarize => \E i \in DOMAIN log' : log'[i].event = "loop_completed"
    BY LineWritten DEF Summarize, Events
  <2> QED
    BY <1>9, <2>1, <2>2 DEF LogExecuted, Summarize, TypeOK
<1>10. CASE FailRun
  BY <1>10 DEF FailRun, TypeOK
<1>11. CASE CloseSession
  BY <1>11 DEF CloseSession, StatusOf, TypeOK, LetThrough
<1>12. CASE AuditFails \/ RequestFails \/ TimePasses \/ UNCHANGED vars
  BY <1>12 DEF AuditFails, RequestFails, TimePasses, vars, TypeOK, LetThrough
<1> QED
  BY <1>1, <1>2, <1>3, <1>4, <1>5, <1>6, <1>7, <1>8, <1>9, <1>10, <1>11, <1>12 DEF Next, OwnStep

LEMMA ClearedCorrect == Spec => []ClearedPlans
  BY ClearedInit, ClearedStep, TypeCorrect, PTL DEF Spec

\* No tool acts for a plan that needs approval and has none of its own in the log.
THEOREM EffectsAreGated == Spec => []GatedExecution
<1>1. ClearedPlans => GatedExecution
  BY DEF ClearedPlans, GatedExecution
<1> QED
  BY <1>1, ClearedCorrect, PTL

\* No plan over the token budget is evaluated, asked about or executed.
THEOREM BudgetIsRespected == Spec => []BudgetRespected
<1>1. ClearedPlans => BudgetRespected
  BY DEF ClearedPlans, BudgetRespected, Routed
<1> QED
  BY <1>1, ClearedCorrect, PTL

\* Under a policy that requires sandboxd only reads act on the host.
THEOREM ProductionKeepsOffHost == Spec => []ProductionNeverOnHost
<1>1. ClearedPlans => ProductionNeverOnHost
  BY DEF ClearedPlans, ProductionNeverOnHost
<1> QED
  BY <1>1, ClearedCorrect, PTL

\* A run that was denied, skipped or refused, or whose checkpoint says Failed, has
\* done nothing.
THEOREM RefusedRunsDidNothing == Spec => []RefusedDidNothing
<1>1. ClearedPlans => RefusedDidNothing
  BY DEF ClearedPlans, RefusedDidNothing
<1> QED
  BY <1>1, ClearedCorrect, PTL

\* The checkpoint is never ahead of the audit log.
THEOREM CheckpointFollowsLog == Spec => []CompletedIsLogged
<1>1. ClearedPlans => CompletedIsLogged
  BY DEF ClearedPlans
<1> QED
  BY <1>1, ClearedCorrect, PTL

-----------------------------------------------------------------------------
(* The loop is a guarded run *)

\* The plans one after the other: while one is awaited, evaluated or before the
\* operator none is approved; what the operator refuses had to be asked about.
PlansInTurn ==
  /\ pc \in {"begin", "session", "budget", "propose", "plan", "ask", "answered"} => ~LetThrough
  /\ pc \in {"begin", "session"} => checkpoint = "Other"
  /\ pc \in {"ask", "answered"} => Asks
  /\ pc = "closing" /\ end \in {"Denied", "Skipped"} =>
       Asks /\ ~LetThrough /\ proposals > 0
  /\ pc = "closing" /\ end = "Completed" => (Asks => LetThrough) /\ proposals > 0

PlainEvents == Events \ {"approved", "plan_edited"}

\* Only an approval lets a plan through.
LEMMA NothingElseLetsThrough ==
  ASSUME TypeOK, ~LetThrough, NEW event \in PlainEvents, Log(event) \/ LogReason(event)
  PROVE  ~LetThrough'
<1>1. PICK readable \in BOOLEAN : log' = Append(log, Line(event, readable))
  BY DEF Log, LogReason
<1>2. Line(event, readable) \in Lines /\ Line(event, readable).event = event
  BY DEF Line, Lines, PlainEvents
<1>3. log \in Seq(Lines) /\ Len(log) \in Nat /\ DOMAIN log = 1..Len(log)
  BY DEF TypeOK, Lines
<1>4. /\ Len(log') = Len(log) + 1 /\ DOMAIN log' = 1..Len(log')
      /\ log'[Len(log')].event = event
      /\ \A i \in DOMAIN log : i \in DOMAIN log' /\ log'[i] = log[i]
  BY <1>1, <1>2, <1>3, AppendLine
<1> SUFFICES ASSUME NEW i \in DOMAIN log',
                    log'[i].event \in {"approved", "plan_edited"},
                    \A j \in i..Len(log') : log'[j].event # "plan_evaluated"
             PROVE  FALSE
  BY DEF LetThrough
<1>5. i # Len(log')
  BY <1>4 DEF PlainEvents
<1>6. i \in DOMAIN log /\ log[i].event \in {"approved", "plan_edited"}
  BY <1>3, <1>4, <1>5
<1>7. \A j \in i..Len(log) : log[j].event # "plan_evaluated"
  <2> SUFFICES ASSUME NEW j \in i..Len(log) PROVE log[j].event # "plan_evaluated"
    OBVIOUS
  <2>1. j \in DOMAIN log /\ j \in i..Len(log')
    BY <1>3, <1>4, <1>6
  <2> QED
    BY <1>4, <2>1
<1> QED
  BY <1>6, <1>7 DEF LetThrough

\* A line that is neither an approval nor a plan's leaves it at that.
LEMMA ApprovalKept ==
  ASSUME TypeOK, NEW event \in PlainEvents \ {"plan_evaluated"}, Log(event) \/ LogReason(event)
  PROVE  LetThrough' = LetThrough
<1>1. CASE LetThrough
  BY <1>1, LetThroughStays DEF PlainEvents, LetThrough
<1>2. CASE ~LetThrough
  BY <1>2, NothingElseLetsThrough DEF PlainEvents, LetThrough
<1> QED
  BY <1>1, <1>2

LEMMA PlansInTurnInit == Init => PlansInTurn
  BY DEF Init, PlansInTurn, LetThrough

LEMMA PlansInTurnStep ==
  TypeOK /\ Counted /\ ClearedPlans /\ PlansInTurn /\ [Next]_vars => PlansInTurn'
<1> SUFFICES ASSUME TypeOK, Counted, ClearedPlans, PlansInTurn, [Next]_vars PROVE PlansInTurn'
  OBVIOUS
<1> USE DEF PlansInTurn, GoTo, Close, Escape, planVars
<1>1. CASE Begin \/ CheckPlan
  <2>1. ~LetThrough'
    BY <1>1, NothingElseLetsThrough DEF Begin, CheckPlan, PlainEvents, Events
  <2> QED
    BY <1>1, <2>1 DEF Begin, CheckPlan, TypeOK, Asks
<1>2. CASE BeginSession \/ ConsumeIteration \/ Propose \/ Request \/ Route
  BY <1>2 DEF BeginSession, ConsumeIteration, Propose, Request, Route, TypeOK, LetThrough, Asks
<1>3. CASE Approve \/ EditPlan
  BY <1>3 DEF Approve, EditPlan, Answered, TypeOK
<1>4. CASE Deny \/ Skip \/ Retry
  <2>1. ~LetThrough'
    BY <1>4, NothingElseLetsThrough DEF Deny, Skip, Retry, Answered, PlainEvents, Events
  <2>2. proposals > 0
    BY <1>4 DEF Deny, Skip, Retry, Answered, Counted, TypeOK
  <2> QED
    BY <1>4, <2>1, <2>2 DEF Deny, Skip, Retry, Answered, TypeOK, Asks
<1>5. CASE Execute \/ ExecuteFails \/ Crash \/ AuditFails \/ RequestFails
  BY <1>5 DEF Execute, ExecuteFails, Crash, AuditFails, RequestFails
<1>6. CASE LogExecuted \/ FailRun \/ CloseSession
  BY <1>6 DEF LogExecuted, FailRun, CloseSession
<1>7. CASE Summarize
  <2>1. LetThrough' = LetThrough
    BY <1>7, ApprovalKept DEF Summarize, PlainEvents, Events
  <2>2. (Asks => LetThrough) /\ proposals > 0
    BY <1>7 DEF Summarize, ClearedPlans, Routed, Counted, Asks, TypeOK
  <2> QED
    BY <1>7, <2>1, <2>2 DEF Summarize, Asks
<1>8. CASE TimePasses \/ UNCHANGED vars
  BY <1>8 DEF TimePasses, vars, LetThrough, Asks
<1> QED
  BY <1>1, <1>2, <1>3, <1>4, <1>5, <1>6, <1>7, <1>8 DEF Next, OwnStep

LEMMA PlansInTurnCorrect == Spec => []PlansInTurn
  BY PlansInTurnInit, PlansInTurnStep, TypeCorrect, CountedCorrect, ClearedCorrect, PTL DEF Spec

\* What the guarded run sees of the loop.
seen == <<proposals, Asks, LetThrough, effect, Outcome, checkpoint>>

\* Where a run that goes on has got to.
LEMMA StillOpen ==
  ASSUME TypeOK, ClearedPlans, pc # "ended"
  PROVE  /\ Outcome = "None"
         /\ checkpoint \in {"Other", "Running"}
         /\ pc # "closing" => end = "None"
  BY DEF TypeOK, ClearedPlans, Outcome

\* The steps the guarded run takes.
LEMMA BeginSessionStarts ==
  ASSUME TypeOK, Counted, ClearedPlans, PlansInTurn, BeginSession
  PROVE  Guarded!StartRecord \/ UNCHANGED seen
<1>1. pc = "session" /\ pc' = "budget" /\ UNCHANGED <<setup, planVars, log, effect, end>>
  BY DEF BeginSession, GoTo
<1>2. /\ proposals = 0 /\ checkpoint = "Other" /\ Outcome = "None" /\ Outcome' = "None"
      /\ UNCHANGED <<proposals, Asks, LetThrough, effect>>
  BY <1>1, StillOpen DEF Counted, PlansInTurn, Outcome, Asks, LetThrough, planVars
<1>3. checkpoint' \in {"Running", "Other"}
  BY <1>2 DEF BeginSession
<1> QED
  BY <1>2, <1>3 DEF seen, Guarded!StartRecord, Guarded!Open

LEMMA ProposeIsNextPlan ==
  ASSUME TypeOK, Counted, ClearedPlans, PlansInTurn, Propose
  PROVE  Guarded!NextPlan
<1>1. /\ pc = "propose" /\ pc' \in {"failing", "plan"} /\ proposals' = proposals + 1
      /\ UNCHANGED <<setup, log, checkpoint, effect, end>>
  BY DEF Propose, GoTo
<1>2. effect = "none" /\ ~LetThrough /\ proposals < 3
  BY <1>1 DEF ClearedPlans, Routed, PlansInTurn, Counted, TypeOK
<1>3. Outcome = "None" /\ Outcome' = "None" /\ LetThrough' = LetThrough
  BY <1>1, StillOpen DEF Outcome, LetThrough
<1>4. Asks' \in BOOLEAN
  BY DEF Asks, RequiresApproval
<1> QED
  BY <1>1, <1>2, <1>3, <1>4 DEF Guarded!NextPlan, Guarded!Open

LEMMA ApprovalIsApproval ==
  ASSUME TypeOK, Counted, ClearedPlans, PlansInTurn, pc = "answered", pc' = "route",
         NEW event \in {"approved", "plan_edited"}, LogReason(event),
         UNCHANGED <<setup, planVars, checkpoint, effect, end>>
  PROVE  Guarded!ApprovePlan
<1>1. LetThrough'
  BY ApprovalLetsThrough
<1>2. ~LetThrough /\ Asks /\ proposals > 0
  BY DEF PlansInTurn, Counted, TypeOK
<1>3. Outcome = "None" /\ Outcome' = "None" /\ Asks' = Asks
  BY StillOpen DEF Outcome, Asks, planVars
<1>4. LetThrough' = TRUE
  BY <1>1 DEF LetThrough
<1> QED
  BY <1>2, <1>3, <1>4 DEF Guarded!ApprovePlan, Guarded!Open, planVars

\* Where an effect may come about.
LEMMA ExecuteMayAct ==
  ASSUME TypeOK, Counted, ClearedPlans, pc = "execute"
  PROVE  /\ Guarded!MayAct
         /\ EffectOf(setup.executor, kind) \in {"none", "host", "sandbox"}
  BY DEF Guarded!MayAct, EffectOf, ClearedPlans, Routed, Counted, TypeOK, Asks

LEMMA ExecuteIsAct ==
  ASSUME TypeOK, Counted, ClearedPlans, Execute
  PROVE  Guarded!Act \/ UNCHANGED seen
<1>1. /\ pc = "execute" /\ pc' = "executed" /\ effect' = EffectOf(setup.executor, kind)
      /\ UNCHANGED <<setup, planVars, log, checkpoint, end>>
  BY DEF Execute, GoTo
<1>2. Outcome = "None" /\ Outcome' = "None" /\ UNCHANGED <<proposals, Asks, LetThrough, checkpoint>>
  BY <1>1, StillOpen DEF Outcome, LetThrough, Asks, planVars
<1>3. effect = "none"
  BY <1>1 DEF ClearedPlans
<1> QED
  BY <1>1, <1>2, <1>3, ExecuteMayAct DEF seen, Guarded!Act, Guarded!Open

LEMMA CloseIsCompleteOrRefuse ==
  ASSUME TypeOK, ClearedPlans, PlansInTurn, CloseSession
  PROVE  Guarded!Complete \/ Guarded!Refuse
<1>1. /\ pc = "closing" /\ pc' = "ended"
      /\ UNCHANGED <<setup, planVars, log, effect, end>>
      /\ end \in {"Completed", "Skipped", "Denied", "Failed"}
  BY DEF CloseSession, ClearedPlans
<1>2. Outcome = "None" /\ Outcome' = end /\ UNCHANGED <<proposals, Asks, LetThrough, effect>>
  BY <1>1, StillOpen DEF Outcome, LetThrough, Asks, planVars
<1>3. checkpoint' \in {checkpoint} \cup (IF checkpoint = "Running" THEN {StatusOf(end)} ELSE {})
  BY <1>1, StillOpen DEF CloseSession
<1>4. end # "Completed" => effect = "none"
  BY <1>1 DEF ClearedPlans
<1>5. CASE end = "Completed"
  BY <1>1, <1>2, <1>3, <1>5 DEF PlansInTurn, StatusOf, Guarded!Complete, Guarded!Open, Guarded!Recorded
<1>6. CASE end \in {"Skipped", "Denied", "Failed"}
  BY <1>1, <1>2, <1>3, <1>4, <1>6
     DEF PlansInTurn, StatusOf, Guarded!Refuse, Guarded!Open, Guarded!Recorded
<1> QED
  BY <1>1, <1>5, <1>6

LEMMA FaultsBreak ==
  ASSUME TypeOK, Counted, ClearedPlans,
         AuditFails \/ RequestFails \/ ExecuteFails \/ Crash
  PROVE  Guarded!Break
<1>1. /\ pc # "ended" /\ pc' = "ended" /\ end' \in {"Escaped", "Crashed"}
      /\ UNCHANGED <<setup, planVars, log, checkpoint>>
      /\ effect' # effect => pc = "execute" /\ effect' = EffectOf(setup.executor, kind)
  BY DEF AuditFails, RequestFails, ExecuteFails, Crash, Escape, ClearedPlans
<1>2. /\ Outcome = "None" /\ Outcome' = end'
      /\ UNCHANGED <<proposals, Asks, LetThrough, checkpoint>>
  BY <1>1, StillOpen DEF Outcome, LetThrough, Asks, planVars
<1>3. effect' # effect => Guarded!MayAct /\ effect' \in {"host", "sandbox"}
  <2> SUFFICES ASSUME effect' # effect PROVE Guarded!MayAct /\ effect' \in {"host", "sandbox"}
    OBVIOUS
  <2>1. Guarded!MayAct /\ effect = "none"
    BY <1>1, ExecuteMayAct DEF Guarded!MayAct
  <2> QED
    BY <1>1, <2>1, ExecuteMayAct
<1> QED
  BY <1>1, <1>2, <1>3 DEF Guarded!Break, Guarded!Open, Guarded!Broken

\* The other steps it does not see.
LEMMA OthersStutter ==
  ASSUME TypeOK, ClearedPlans, PlansInTurn,
         \/ Begin \/ ConsumeIteration \/ CheckPlan \/ Request \/ Deny \/ Skip \/ Retry
         \/ EditPlan /\ pc' = "failing"
         \/ Route \/ LogExecuted \/ Summarize \/ FailRun \/ TimePasses
  PROVE  UNCHANGED seen
<1>1. pc # "ended" /\ pc' # "ended" /\ UNCHANGED <<setup, planVars, checkpoint, effect>>
  BY DEF Begin, ConsumeIteration, CheckPlan, Request, Deny, Skip, Retry, EditPlan, Route,
     LogExecuted, Summarize, FailRun, TimePasses, Answered, GoTo, Close
<1>2. LetThrough' = LetThrough
  <2>1. CASE Begin \/ CheckPlan
    <3>1. ~LetThrough /\ ~LetThrough'
      BY <2>1, NothingElseLetsThrough DEF Begin, CheckPlan, PlansInTurn, PlainEvents, Events
    <3> QED
      BY <3>1 DEF LetThrough
  <2>2. CASE UNCHANGED log
    BY <2>2 DEF LetThrough
  <2>3. CASE Deny \/ Skip \/ Retry \/ LogExecuted \/ Summarize \/ (FailRun /\ Log("loop_failed"))
    BY <2>3, ApprovalKept DEF Deny, Skip, Retry, LogExecuted, Summarize, PlainEvents, Events
  <2>4. UNCHANGED log \/ Begin \/ CheckPlan \/ Deny \/ Skip \/ Retry \/ LogExecuted \/ Summarize
          \/ (FailRun /\ Log("loop_failed"))
    BY DEF ConsumeIteration, Request, EditPlan, Route, FailRun, TimePasses, Answered, GoTo
  <2> QED
    BY <2>1, <2>2, <2>3, <2>4
<1>3. Outcome = "None" /\ Outcome' = "None"
  BY <1>1 DEF Outcome
<1> QED
  BY <1>1, <1>2, <1>3 DEF seen, Asks, planVars

\* The loop implements the guarded run: for any budget, policy, executor, operator
\* and fault, one plan at most acts, once, as the last and with the approval that it
\* needs, and outcome and record are set once and agree with it.
THEOREM LoopIsGuardedRun == Spec => ImplementsGuardedRun
<1>1. Init => Guarded!RunInit
  <2> SUFFICES ASSUME Init PROVE Guarded!RunInit
    OBVIOUS
  <2>1. LetThrough = FALSE /\ Outcome = "None"
    BY DEF Init, LetThrough, Outcome
  <2>2. Tier(setup.policy, "Read") = "Low"
    <3>1. setup.policy.ponytail \in PonytailModes
      BY AgentLoopAssumption DEF Init, PolicyEngines
    <3> QED
      BY <3>1 DEF Tier, PonytailTier, BaseTier, PonytailModes
  <2>3. Asks = FALSE
    BY <2>2 DEF Init, Asks, RequiresApproval
  <2> QED
    BY <2>1, <2>3 DEF Init, Guarded!RunInit
<1>2. TypeOK /\ Counted /\ ClearedPlans /\ PlansInTurn /\ [Next]_vars
        => [Guarded!RunNext]_(Guarded!runVars)
  <2> SUFFICES ASSUME TypeOK, Counted, ClearedPlans, PlansInTurn, [Next]_vars
               PROVE  Guarded!RunNext \/ UNCHANGED seen
    BY DEF seen, Guarded!runVars
  <2>1. CASE BeginSession
    BY <2>1, BeginSessionStarts DEF Guarded!RunNext
  <2>2. CASE Propose
    BY <2>2, ProposeIsNextPlan DEF Guarded!RunNext
  <2>3. CASE Approve
    <3>1. Guarded!ApprovePlan
      BY <2>3, ApprovalIsApproval DEF Approve, Answered, GoTo
    <3> QED
      BY <3>1 DEF Guarded!RunNext
  <2>4. CASE EditPlan
    <3>1. CASE answer.edited
      <4>1. Guarded!ApprovePlan
        BY <2>4, <3>1, ApprovalIsApproval DEF EditPlan, Answered, GoTo
      <4> QED
        BY <4>1 DEF Guarded!RunNext
    <3>2. CASE ~answer.edited
      BY <2>4, <3>2, OthersStutter DEF EditPlan, GoTo
    <3> QED
      BY <3>1, <3>2
  <2>5. CASE Execute
    BY <2>5, ExecuteIsAct DEF Guarded!RunNext
  <2>6. CASE CloseSession
    BY <2>6, CloseIsCompleteOrRefuse DEF Guarded!RunNext
  <2>7. CASE AuditFails \/ RequestFails \/ ExecuteFails \/ Crash
    BY <2>7, FaultsBreak DEF Guarded!RunNext
  <2>8. CASE UNCHANGED vars
    BY <2>8 DEF vars, seen, Outcome, Asks, LetThrough
  <2> QED
    BY <2>1, <2>2, <2>3, <2>4, <2>5, <2>6, <2>7, <2>8, OthersStutter DEF Next, OwnStep
<1> QED
  BY <1>1, <1>2, TypeCorrect, CountedCorrect, ClearedCorrect, PlansInTurnCorrect, PTL
     DEF Spec, ImplementsGuardedRun, Guarded!RunSpec

-----------------------------------------------------------------------------
(* What replay makes of the log                                            *)

Started == \E i \in ReadLines(log) : log[i].event = "loop_started"
ToolRan == \E i \in DOMAIN log : log[i].event = "tool_executed"

\* The log ends with the line that decides its replay, which is the one of the end.
EndsWith(event) == Len(log) \in DecisiveLines(log) /\ log[Len(log)].event = event

\* The reason that the operator gave has broken the line.
Unsaid == answer.reason = "unprintable" /\ DecisiveLines(log) = {}

\* A run that goes on has no line yet that decides its replay, and none but the last
\* line of one that ended does.  It ends with the line of its end, unless the reason
\* in it breaks the line or the failure could not be written down.
LastWord ==
  /\ DecisiveLines(log) \subseteq {Len(log)}
  /\ end = "None" => DecisiveLines(log) = {}
  /\ end = "Completed" => EndsWith("loop_completed")
  /\ end = "Denied" => EndsWith("denied") \/ Unsaid
  /\ end = "Skipped" => EndsWith("skipped") \/ Unsaid
  /\ end = "Failed" => DecisiveLines(log) = {} \/ EndsWith("loop_failed")
  /\ pc # "begin" /\ end \notin {"Escaped", "Crashed"} => Started
  /\ pc = "summarize" \/ EndsWith("loop_completed") => ToolRan
  /\ checkpoint = "Completed" => end \in {"Completed", "Skipped"}
  /\ checkpoint = "Failed" => end \in {"Denied", "Failed"}

LEMMA LastWordInit == Init => LastWord
<1> SUFFICES ASSUME Init PROVE LastWord
  OBVIOUS
<1>1. log = <<>> /\ end = "None" /\ pc = "begin" /\ checkpoint = "Other"
  BY DEF Init
<1>2. DecisiveLines(log) = {}
  BY <1>1 DEF DecisiveLines, ReadLines
<1> QED
  BY <1>1, <1>2 DEF LastWord, EndsWith

\* A line put at the end of the log of a run that goes on.
LEMMA WordAdded ==
  ASSUME TypeOK, LastWord, end = "None", NEW event \in Events, NEW readable \in BOOLEAN,
         log' = Append(log, Line(event, readable))
  PROVE  /\ DecisiveLines(log)' = IF readable /\ event \in DecisiveEvents THEN {Len(log')} ELSE {}
         /\ log'[Len(log')].event = event
         /\ Started => Started'
         /\ readable /\ event = "loop_started" => Started'
         /\ ToolRan => ToolRan'
         /\ event = "tool_executed" => ToolRan'
<1> DEFINE line == Line(event, readable)
<1>1. line \in Lines /\ line.event = event /\ line.readable = readable
  BY DEF Line, Lines
<1>2. log \in Seq(Lines) /\ Len(log) \in Nat /\ DOMAIN log = 1..Len(log)
  BY DEF TypeOK, Lines
<1>3. /\ Len(log') = Len(log) + 1 /\ DOMAIN log' = 1..Len(log')
      /\ log'[Len(log')] = line
      /\ \A i \in DOMAIN log : i \in DOMAIN log' /\ log'[i] = log[i]
  BY <1>1, <1>2, AppendLine
<1>4. DOMAIN log' = DOMAIN log \cup {Len(log')}
  BY <1>2, <1>3
<1>5. \A i \in DOMAIN log : ~ (log[i].readable /\ log[i].event \in DecisiveEvents)
  BY DEF LastWord, DecisiveLines, ReadLines
<1> HIDE DEF line
<1>6. DecisiveLines(log)' = {i \in DOMAIN log' : log'[i].readable /\ log'[i].event \in DecisiveEvents}
  BY DEF DecisiveLines, ReadLines
<1>7. DecisiveLines(log)' = IF readable /\ event \in DecisiveEvents THEN {Len(log')} ELSE {}
  BY <1>1, <1>3, <1>4, <1>5, <1>6
<1>8. Started => Started'
  BY <1>3 DEF Started, ReadLines
<1>9. readable /\ event = "loop_started" => Started'
  BY <1>1, <1>3, <1>4 DEF Started, ReadLines
<1>10. (ToolRan => ToolRan') /\ (event = "tool_executed" => ToolRan')
  BY <1>1, <1>3, <1>4 DEF ToolRan
<1> QED
  BY <1>1, <1>3, <1>7, <1>8, <1>9, <1>10

LEMMA LastWordStep == TypeOK /\ ClearedPlans /\ LastWord /\ [Next]_vars => LastWord'
<1> SUFFICES ASSUME TypeOK, ClearedPlans, LastWord, [Next]_vars PROVE LastWord'
  OBVIOUS
<1> USE DEF GoTo, Close, Escape
<1>0. pc \notin {"closing", "ended"} => end = "None" /\ DecisiveLines(log) = {}
  BY DEF TypeOK, LastWord
\* A step that writes nothing and decides nothing.
<1>1. ASSUME UNCHANGED log, answer' = answer \/ end' = "None",
             pc' # "begin" => pc # "begin" \/ end' \in {"Escaped", "Crashed"},
             pc' = "summarize" => pc = "summarize",
             \/ end' = end /\ checkpoint' \in {checkpoint, "Running"}
             \/ pc # "ended" /\ end' \in {"Escaped", "Crashed"} /\ checkpoint' = checkpoint
      PROVE  LastWord'
  <2>1. checkpoint' \in {checkpoint, "Running"}
        /\ (end' # end => checkpoint \notin {"Completed", "Failed"})
    BY <1>1 DEF ClearedPlans
  <2>2. /\ DecisiveLines(log)' = DecisiveLines(log) /\ Len(log)' = Len(log)
        /\ Started' = Started /\ ToolRan' = ToolRan
        /\ \A e : EndsWith(e)' = EndsWith(e)
    BY <1>1 DEF DecisiveLines, ReadLines, EndsWith, Started, ToolRan
  <2>3. end' \notin {"Escaped", "Crashed", "None"} => Unsaid' = Unsaid /\ end' = end
    BY <1>1, <2>2 DEF Unsaid
  <2> QED
    BY <1>1, <2>1, <2>2, <2>3 DEF LastWord
\* A step that writes a line.
<1>2. ASSUME pc \notin {"closing", "ended"}, NEW event \in Events, NEW readable \in BOOLEAN,
             log' = Append(log, Line(event, readable)),
             UNCHANGED <<answer, checkpoint>>,
             pc = "begin" => event = "loop_started" /\ readable,
             pc' = "summarize" => event = "tool_executed",
             event = "loop_completed" => pc = "summarize" /\ readable,
             \/ end' = "None" /\ event \notin DecisiveEvents
             \/ end' = "Completed" /\ event = "loop_completed"
             \/ end' = "Denied" /\ event = "denied" /\ readable = (answer.reason # "unprintable")
             \/ end' = "Skipped" /\ event = "skipped" /\ readable = (answer.reason # "unprintable")
             \/ end' = "Failed" /\ event = "loop_failed"
      PROVE  LastWord'
  <2>1. /\ end = "None"
        /\ DecisiveLines(log)' = IF readable /\ event \in DecisiveEvents THEN {Len(log')} ELSE {}
        /\ log'[Len(log')].event = event
        /\ Started => Started'
        /\ readable /\ event = "loop_started" => Started'
        /\ ToolRan => ToolRan'
        /\ event = "tool_executed" => ToolRan'
    BY <1>0, <1>2, WordAdded
  <2>2. Started'
    BY <1>2, <2>1 DEF LastWord
  <2>3. pc' = "summarize" \/ event = "loop_completed" => ToolRan'
    BY <1>2, <2>1 DEF LastWord
  <2>4. \A e : EndsWith(e)' <=> (readable /\ event \in DecisiveEvents /\ event = e)
    BY <2>1 DEF EndsWith
  <2>5. ~readable => DecisiveLines(log)' = {}
    BY <2>1
  <2>6. end' \in {"Denied", "Skipped"} => EndsWith(event)' \/ Unsaid'
    BY <1>2, <2>4, <2>5 DEF Unsaid, DecisiveEvents
  <2>7. checkpoint' \notin {"Completed", "Failed"}
    BY <1>2 DEF ClearedPlans
  <2> QED
    BY <1>2, <2>1, <2>2, <2>3, <2>4, <2>6, <2>7 DEF LastWord, DecisiveEvents
<1>3. CASE Begin
  BY <1>2, <1>3, <1>0 DEF Begin, Log, Events, DecisiveEvents
<1>4. CASE CheckPlan \/ LogExecuted
  BY <1>2, <1>4, <1>0 DEF CheckPlan, LogExecuted, Log, Events, DecisiveEvents
<1>5. CASE Approve \/ Retry \/ (EditPlan /\ answer.edited)
  BY <1>2, <1>5, <1>0
     DEF Approve, Retry, EditPlan, Answered, LogReason, Events, DecisiveEvents
<1>6. CASE Deny \/ Skip
  BY <1>2, <1>6, <1>0 DEF Deny, Skip, Answered, LogReason, Events, DecisiveEvents
<1>7. CASE Summarize
  BY <1>2, <1>7, <1>0 DEF Summarize, Log, Events, DecisiveEvents
<1>8. CASE FailRun
  <2>1. CASE Log("loop_failed")
    BY <1>2, <1>8, <2>1, <1>0 DEF FailRun, Log, Events, DecisiveEvents
  <2>2. CASE UNCHANGED log
    <3>1. checkpoint' \notin {"Completed", "Failed"}
      BY <1>8 DEF FailRun, ClearedPlans
    <3> QED
      BY <1>0, <1>8, <2>2, <3>1 DEF FailRun, LastWord, EndsWith, Started, ToolRan
  <2> QED
    BY <1>8, <2>1, <2>2 DEF FailRun
<1>9. CASE BeginSession \/ ConsumeIteration \/ Propose \/ Route \/ (EditPlan /\ ~answer.edited)
  BY <1>1, <1>9 DEF BeginSession, ConsumeIteration, Propose, Route, EditPlan, Answered
<1>10. CASE Request
  BY <1>0, <1>1, <1>10 DEF Request
<1>11. CASE Execute \/ ExecuteFails \/ Crash \/ AuditFails \/ RequestFails
  BY <1>1, <1>11 DEF Execute, ExecuteFails, Crash, AuditFails, RequestFails
<1>12. CASE CloseSession
  <2>1. /\ end' = end /\ end \in {"Completed", "Skipped", "Denied", "Failed"}
        /\ checkpoint \notin {"Completed", "Failed"}
        /\ checkpoint' \in {checkpoint, "Other", StatusOf(end)}
        /\ UNCHANGED <<log, answer>> /\ pc = "closing" /\ pc' = "ended"
    BY <1>12 DEF CloseSession, ClearedPlans
  <2>2. /\ checkpoint' = "Completed" => end \in {"Completed", "Skipped"}
        /\ checkpoint' = "Failed" => end \in {"Denied", "Failed"}
    BY <2>1 DEF StatusOf
  <2>3. /\ DecisiveLines(log)' = DecisiveLines(log) /\ Len(log)' = Len(log)
        /\ Started' = Started /\ ToolRan' = ToolRan /\ Unsaid' = Unsaid
        /\ \A e : EndsWith(e)' = EndsWith(e)
    BY <2>1 DEF DecisiveLines, ReadLines, EndsWith, Started, ToolRan, Unsaid
  <2> QED
    BY <2>1, <2>2, <2>3 DEF LastWord
<1>13. CASE TimePasses \/ UNCHANGED vars
  BY <1>1, <1>13 DEF TimePasses, vars
<1> QED
  BY <1>3, <1>4, <1>5, <1>6, <1>7, <1>8, <1>9, <1>10, <1>11, <1>12, <1>13 DEF Next, OwnStep

LEMMA LastWordCorrect == Spec => []LastWord
  BY LastWordInit, LastWordStep, TypeCorrect, ClearedCorrect, PTL DEF Spec

\* What classify_run says, by the last line.
LEMMA VerdictOfOne ==
  ASSUME NEW n \in Nat, DecisiveLines(log) = {n}
  PROVE  ReplayOf(log) = VerdictOf(log[n].event)
<1>1. Max({n}) = n
  BY DEF Max
<1> QED
  BY <1>1 DEF ReplayOf

LEMMA VerdictOfNone ==
  ASSUME DecisiveLines(log) = {}
  PROVE  /\ ReplayOf(log).outcome # "Completed"
         /\ Started => ReplayOf(log).outcome = "Incomplete"
BY DEF ReplayOf, Started, Verdict

LEMMA VerdictOutcomes ==
  /\ VerdictOf("loop_completed").outcome = "Completed"
  /\ VerdictOf("denied").outcome = "Denied"
  /\ VerdictOf("skipped").outcome = "Skipped"
  /\ VerdictOf("loop_failed").outcome = "Incomplete"
BY DEF VerdictOf, Verdict

\* `ozr replay` tells how run_once ended wherever the lines can be read, and calls a
\* run completed only if its tool had its turn.
THEOREM ReplayTellsTheEnd == Spec => []ReplayAgrees
<1>1. TypeOK /\ ClearedPlans /\ LastWord => ReplayAgrees
  <2> SUFFICES ASSUME TypeOK, ClearedPlans, LastWord PROVE ReplayAgrees
    OBVIOUS
  <2>1. Len(log) \in Nat /\ DOMAIN log = 1..Len(log)
    BY DEF TypeOK
  <2>2. \A e : EndsWith(e) => ReplayOf(log) = VerdictOf(e)
    BY <2>1, VerdictOfOne DEF EndsWith, LastWord
  <2>3. ASSUME end \in {"Completed", "Skipped", "Denied", "Failed"}, answer.reason # "unprintable"
        PROVE  ReplayOf(log).outcome = OutcomeOf(end)
    <3>1. CASE end = "Failed"
      <4>1. pc # "begin" /\ Started
        BY <3>1 DEF TypeOK, LastWord
      <4> QED
        BY <2>2, <3>1, <4>1, VerdictOfNone, VerdictOutcomes DEF LastWord, OutcomeOf
    <3>2. CASE end # "Failed"
      BY <2>2, <2>3, <3>2, VerdictOutcomes DEF LastWord, OutcomeOf, Unsaid
    <3> QED
      BY <3>1, <3>2
  <2>4. ASSUME ReplayOf(log).outcome = "Completed"
        PROVE  ToolRan
    <3>1. DecisiveLines(log) = {Len(log)}
      BY <2>4, VerdictOfNone DEF LastWord
    <3>2. log[Len(log)].event \in DecisiveEvents
      BY <3>1 DEF DecisiveLines
    <3>3. EndsWith(log[Len(log)].event)
      BY <3>1 DEF EndsWith
    <3>4. log[Len(log)].event = "loop_completed"
      BY <2>2, <2>4, <3>2, <3>3, VerdictOutcomes DEF DecisiveEvents
    <3> QED
      BY <3>3, <3>4 DEF LastWord
  <2> QED
    BY <2>3, <2>4 DEF ReplayAgrees, ToolRan
<1> QED
  BY <1>1, LastWordCorrect, TypeCorrect, ClearedCorrect, PTL

\* A run that its checkpoint offers for a resume is not completed for replay, and one
\* that the checkpoint calls completed is completed or skipped for replay.
THEOREM RecordsDoNotContradict == Spec => []RecordsAgree
<1>1. TypeOK /\ ClearedPlans /\ LastWord => RecordsAgree
  <2> SUFFICES ASSUME TypeOK, ClearedPlans, LastWord PROVE RecordsAgree
    OBVIOUS
  <2>1. Len(log) \in Nat
    BY DEF TypeOK
  <2>2. \A e : EndsWith(e) => ReplayOf(log) = VerdictOf(e)
    BY <2>1, VerdictOfOne DEF EndsWith, LastWord
  <2>3. ASSUME checkpoint = "Failed"
        PROVE  ReplayOf(log).outcome \in {"Denied", "Incomplete"}
    <3>1. end \in {"Denied", "Failed"} /\ pc = "ended"
      BY <2>3 DEF LastWord, ClearedPlans
    <3>2. Started
      BY <3>1 DEF LastWord
    <3>3. DecisiveLines(log) = {} \/ EndsWith("denied") \/ EndsWith("loop_failed")
      BY <3>1 DEF LastWord, Unsaid
    <3> QED
      BY <2>2, <3>2, <3>3, VerdictOfNone, VerdictOutcomes
  <2>4. ASSUME checkpoint = "Completed", answer.reason # "unprintable"
        PROVE  ReplayOf(log).outcome \in {"Completed", "Skipped"}
    BY <2>2, <2>4, VerdictOutcomes DEF LastWord, Unsaid
  <2> QED
    BY <2>3, <2>4 DEF RecordsAgree
<1> QED
  BY <1>1, LastWordCorrect, TypeCorrect, ClearedCorrect, PTL

\* A tool acts once in a run at most, and no plan comes after it, whatever fails.
THEOREM OneActPerRun == Spec => ActsOnce
<1>1. ClearedPlans /\ [Next]_vars => [effect # "none" => UNCHANGED <<effect, kind, proposals>>]_vars
  <2> SUFFICES ASSUME ClearedPlans, Next, effect # "none"
               PROVE  UNCHANGED <<effect, kind, proposals>>
    OBVIOUS
  <2>1. pc \notin {"propose", "execute"}
    BY DEF ClearedPlans
  <2> USE DEF planVars
  <2>2. CASE Begin \/ BeginSession \/ ConsumeIteration \/ CheckPlan
    BY <2>2 DEF Begin, BeginSession, ConsumeIteration, CheckPlan
  <2>3. CASE Request \/ Approve \/ Deny \/ Skip \/ Retry \/ EditPlan
    BY <2>3 DEF Request, Approve, Deny, Skip, Retry, EditPlan
  <2>4. CASE Route \/ LogExecuted \/ Summarize \/ FailRun \/ CloseSession
    BY <2>4 DEF Route, LogExecuted, Summarize, FailRun, CloseSession
  <2>5. CASE Propose \/ Execute \/ ExecuteFails
    BY <2>1, <2>5 DEF Propose, Execute, ExecuteFails
  <2>6. CASE AuditFails \/ RequestFails \/ Crash \/ TimePasses
    BY <2>1, <2>6 DEF AuditFails, RequestFails, Crash, TimePasses
  <2> QED
    BY <2>2, <2>3, <2>4, <2>5, <2>6 DEF Next, OwnStep
<1> QED
  BY <1>1, ClearedCorrect, PTL DEF Spec, ActsOnce

=============================================================================
