------------------------ MODULE ToolExecutionProofs ------------------------
(***************************************************************************)
(* The safety properties of ToolExecution, for all settings and any pipe.  *)
(***************************************************************************)
EXTENDS ToolExecution, TLAPS

SessionSteps == {"initialize", "request", "check", "read"}
PollSteps    == {"poll", "sleep", "report", "events"}

\* Where execute stands in the MCP branch, and what it has there.
SessionPlaced ==
  /\ alive => pc \in SessionSteps
  /\ pc \notin SessionSteps => pipe = <<>>
  /\ pc = "dispatch" => tries = 0 /\ task = "none" /\ polls = 0
  /\ pc = "spawn" => tries < Attempts
  /\ pc = "initialize" => id = 0
  /\ pc = "request" => id = 1
  /\ pc \in {"check", "read"} => id \in {1, 2}
  /\ pc \in SessionSteps \cup {"spawn"} => task = "none" /\ polls = 0

\* Executions so far; a child that has not executed the tool has one left.
Counted ==
  /\ acts <= tries
  /\ alive /\ ~acted => acts < tries

\* A result under the id of tools/call is only written by a child that acted.
FramesSound ==
  \A i \in 1..Len(pipe) : pipe[i].id = 2 /\ pipe[i].body = "result" => acted

\* Where execute stands in the sandboxd branch: one branch excludes the other.
TaskPlaced ==
  /\ tries > 0 => task = "none" /\ polls = 0
  /\ pc \in PollSteps \cup {"submit"} => tries = 0
  /\ pc = "submit" => task = "none" /\ polls = 0
  /\ pc \in PollSteps => task # "none"
  /\ pc = "poll" => polls < PollAttempts
  /\ pc = "sleep" => payload \in {"running", "unknown", "garbled"} /\ polls > 0

\* What the last payload says, once polling is over.
Reported ==
  pc \in {"report", "events", "ok"} /\ polls > 0 =>
    \/ payload \in {"succeeded", "failed"} /\ task = payload
    \/ payload = "error"
    \/ payload \in {"running", "unknown"} /\ polls = PollAttempts
    \/ payload = "garbled" /\ polls = PollAttempts /\ pc = "report"

\* The delay is already in range when it is only going to be slept.
DelayPlaced ==
  pc \in {"poll", "sleep"} =>
    delay > 0 /\ (delay <= setup.maxInterval \/ delay <= FirstDelay)

IInv ==
  /\ TypeOK
  /\ SessionPlaced
  /\ Counted
  /\ FramesSound
  /\ TaskPlaced
  /\ Reported
  /\ DelayPlaced
  /\ OkMeansExecuted

-----------------------------------------------------------------------------
\* The settings are naturals, and the corrected ones are positive.
LEMMA SettingsPositive ==
  ASSUME setup \in Setups
  PROVE  /\ Attempts \in Nat \ {0}
         /\ PollAttempts \in Nat \ {0}
         /\ FirstDelay \in Nat \ {0}
         /\ Backoff \in Nat \ {0}
         /\ DelayCap \in Nat \ {0}
         /\ setup.maxInterval \in Nat
BY ToolAssumption
   DEF SetupType, Attempts, PollAttempts, FirstDelay, Backoff, DelayCap

\* One back-off keeps a positive delay positive and below the cap.
LEMMA BackoffInRange ==
  ASSUME setup \in Setups, NEW d \in Nat \ {0}
  PROVE  /\ NextDelay(d) \in Nat \ {0}
         /\ NextDelay(d) <= setup.maxInterval \/ NextDelay(d) <= FirstDelay
<1>1. /\ Backoff \in Nat \ {0} /\ DelayCap \in Nat \ {0}
      /\ FirstDelay \in Nat \ {0} /\ setup.maxInterval \in Nat
  BY SettingsPositive
<1>2. d * Backoff \in Nat \ {0}
  <2>1. PICK b \in Nat \ {0} : b = Backoff
    BY <1>1
  <2>2. d * b \in Nat /\ d * b > 0
    BY <2>1
  <2> QED BY <2>1, <2>2
<1>3. NextDelay(d) \in Nat \ {0} /\ NextDelay(d) <= DelayCap
  BY <1>1, <1>2 DEF NextDelay
<1>4. DelayCap = setup.maxInterval \/ DelayCap = FirstDelay
  BY DEF DelayCap
<1> QED BY <1>1, <1>3, <1>4

\* An empty pipe is a pipe.
LEMMA EmptyPipe == <<>> \in Seq(Frames) /\ Len(<<>>) = 0 /\ 0 <= MaxFrames
BY ToolAssumption

LEMMA InitIInv == Init => IInv
<1> SUFFICES ASSUME Init PROVE IInv
  OBVIOUS
<1>1. Attempts \in Nat \ {0} /\ PollAttempts \in Nat \ {0}
  BY SettingsPositive DEF Init
<1>2. late \in BOOLEAN /\ alive \in BOOLEAN /\ acted \in BOOLEAN
  BY DEF Init
<1>3. pipe \in Seq(Frames) /\ Len(pipe) <= MaxFrames
  BY EmptyPipe DEF Init
<1>4. TypeOK
  BY <1>1, <1>2, <1>3 DEF Init, TypeOK, TaskStatuses
<1> QED
  BY <1>1, <1>4 DEF Init, IInv, SessionPlaced, Counted, FramesSound, TaskPlaced, Reported,
     DelayPlaced, OkMeansExecuted, SessionSteps, PollSteps

-----------------------------------------------------------------------------
(* Steps that leave parts of the state alone *)

\* A failed attempt, from a step inside a session or from a dead pipe.
LEMMA AttemptFailsKeepsIInv ==
  ASSUME IInv, pc \in SessionSteps, AttemptFails
  PROVE  IInv'
<1> USE DEF IInv, AttemptFails, Drop, taskVars, SessionSteps
<1>1. Attempts \in Nat \ {0} /\ Attempts' = Attempts /\ PollAttempts' = PollAttempts
  BY SettingsPositive DEF TypeOK, Attempts, PollAttempts
<1>2. tries \in Nat /\ acts \in Nat /\ pc' \in {"spawn", "err"} /\ pipe' = <<>>
  BY <1>1 DEF TypeOK
<1>3. TypeOK'
  BY <1>1, <1>2, EmptyPipe DEF TypeOK
<1>4. SessionPlaced'
  BY <1>1, <1>2 DEF SessionPlaced, TriesLeft
<1>5. FramesSound'
  BY <1>2 DEF FramesSound
<1> QED
  BY <1>1, <1>2, <1>3, <1>4, <1>5
     DEF Counted, TaskPlaced, Reported, DelayPlaced, OkMeansExecuted, PollSteps

\* The head and the rest of a sound pipe.
LEMMA PipeParts ==
  ASSUME TypeOK, FramesSound, pipe # <<>>
  PROVE  /\ Head(pipe) \in Frames
         /\ Tail(pipe) \in Seq(Frames) /\ Len(Tail(pipe)) <= MaxFrames
         /\ Head(pipe).id = 2 /\ Head(pipe).body = "result" => acted
         /\ \A i \in 1..Len(Tail(pipe)) :
              Tail(pipe)[i].id = 2 /\ Tail(pipe)[i].body = "result" => acted
<1>1. pipe \in Seq(Frames) /\ Len(pipe) \in Nat /\ Len(pipe) > 0 /\ Len(pipe) <= MaxFrames
  BY DEF TypeOK
<1>2. Head(pipe) = pipe[1] /\ Head(pipe) \in Frames
  BY <1>1
<1>3. Tail(pipe) \in Seq(Frames) /\ Len(Tail(pipe)) = Len(pipe) - 1
  BY <1>1
<1>4. \A i \in 1..Len(Tail(pipe)) : Tail(pipe)[i] = pipe[i + 1] /\ i + 1 \in 1..Len(pipe)
  BY <1>1, <1>3
<1>5. 1 \in 1..Len(pipe)
  BY <1>1
<1> QED
  BY <1>1, <1>2, <1>3, <1>4, <1>5, ToolAssumption DEF FramesSound

\* A frame more in the pipe.
LEMMA WriteKeepsFrames ==
  ASSUME TypeOK, FramesSound, NEW frame \in Frames, Write(frame),
         frame.id = 2 /\ frame.body = "result" => acted, acted' = acted
  PROVE  pipe' \in Seq(Frames) /\ Len(pipe') <= MaxFrames /\ FramesSound'
<1>1. pipe \in Seq(Frames) /\ Len(pipe) \in Nat /\ Len(pipe) < MaxFrames
  BY DEF TypeOK, Write
<1>2. pipe' = Append(pipe, frame) /\ Len(pipe') = Len(pipe) + 1 /\ pipe' \in Seq(Frames)
  BY <1>1 DEF Write
<1>3. \A i \in 1..Len(pipe') : pipe'[i] = frame \/ (i \in 1..Len(pipe) /\ pipe'[i] = pipe[i])
  BY <1>1, <1>2
<1> QED
  BY <1>1, <1>2, <1>3, ToolAssumption DEF FramesSound

-----------------------------------------------------------------------------
LEMMA DispatchKeepsIInv ==
  ASSUME IInv, Dispatch
  PROVE  IInv'
<1> USE DEF IInv, Dispatch, mcpVars, taskVars
<1>1. Attempts \in Nat \ {0} /\ Attempts' = Attempts /\ PollAttempts' = PollAttempts
  BY SettingsPositive DEF TypeOK, Attempts, PollAttempts
<1>2. TypeOK'
  BY <1>1 DEF TypeOK
<1> QED
  BY <1>1, <1>2
     DEF SessionPlaced, Counted, FramesSound, TaskPlaced, Reported, DelayPlaced,
         OkMeansExecuted, SessionSteps, PollSteps, TypeOK

\* The steps of a session.
LEMMA McpStepKeepsIInv ==
  ASSUME IInv, McpStep
  PROVE  IInv'
<1> USE DEF IInv, taskVars
<1>1. /\ Attempts \in Nat \ {0}
      /\ PollAttempts \in Nat \ {0}
  BY SettingsPositive DEF TypeOK
<1>2. CASE Spawn
  <2>1. /\ Attempts' = Attempts /\ PollAttempts' = PollAttempts
    BY <1>2 DEF Spawn, Attempts, PollAttempts
  <2>2. tries \in Nat /\ tries < Attempts /\ pipe = <<>> /\ acts \in Nat /\ acts <= tries
    BY <1>1, <1>2 DEF Spawn, TypeOK, SessionPlaced, Counted, SessionSteps
  <2>3. late' \in BOOLEAN /\ alive' \in BOOLEAN /\ acted' \in BOOLEAN
    BY <1>2 DEF Spawn, TypeOK
  <2>4. TypeOK'
    BY <1>1, <1>2, <2>1, <2>2, <2>3 DEF Spawn, TypeOK
  <2> QED
    BY <1>1, <1>2, <2>1, <2>2, <2>4
       DEF Spawn, SessionPlaced, Counted, FramesSound, TaskPlaced, Reported, DelayPlaced,
           OkMeansExecuted, SessionSteps, PollSteps
<1>3. CASE SpawnFails
  <2>1. /\ Attempts' = Attempts /\ PollAttempts' = PollAttempts
    BY <1>3 DEF SpawnFails, Attempts, PollAttempts
  <2>2. tries \in Nat /\ tries < Attempts /\ pipe = <<>> /\ acts \in Nat /\ acts <= tries
    BY <1>1, <1>3 DEF SpawnFails, TypeOK, SessionPlaced, Counted, SessionSteps
  <2>3. TypeOK'
    BY <1>1, <1>3, <2>1, <2>2 DEF SpawnFails, TypeOK
  <2> QED
    BY <1>1, <1>3, <2>1, <2>2, <2>3
       DEF SpawnFails, SessionPlaced, Counted, FramesSound, TaskPlaced, Reported, DelayPlaced,
           OkMeansExecuted, SessionSteps, PollSteps
<1>4. CASE Send
  <2>1. /\ Attempts' = Attempts /\ PollAttempts' = PollAttempts
    BY <1>4 DEF Send, Attempts, PollAttempts
  <2>2. id \in {0, 1}
    BY <1>4 DEF Send, SessionPlaced
  <2>3. late' \in BOOLEAN /\ alive' \in BOOLEAN /\ acted' \in BOOLEAN
    BY <1>4 DEF Send, TypeOK
  <2>4. TypeOK'
    BY <1>1, <1>4, <2>1, <2>2, <2>3 DEF Send, TypeOK
  <2> QED
    BY <1>1, <1>4, <2>1, <2>2, <2>4
       DEF Send, SessionPlaced, Counted, FramesSound, TaskPlaced, Reported, DelayPlaced,
           OkMeansExecuted, SessionSteps, PollSteps
<1>5. CASE SendFails
  BY <1>5, AttemptFailsKeepsIInv DEF SendFails, SessionSteps
<1>6. CASE CheckClock
  <2>1. /\ Attempts' = Attempts /\ PollAttempts' = PollAttempts
    BY <1>6 DEF CheckClock, Attempts, PollAttempts
  <2>2. TypeOK'
    BY <1>6, <2>1 DEF CheckClock, TypeOK, mcpVars
  <2> QED
    BY <1>1, <1>6, <2>1, <2>2
       DEF CheckClock, mcpVars, SessionPlaced, Counted, FramesSound, TaskPlaced, Reported,
           DelayPlaced, OkMeansExecuted, SessionSteps, PollSteps
<1>7. CASE RequestTimesOut
  BY <1>7, AttemptFailsKeepsIInv DEF RequestTimesOut, SessionSteps
<1>8. CASE SkipFrame
  <2>1. /\ Attempts' = Attempts /\ PollAttempts' = PollAttempts
    BY <1>8 DEF SkipFrame, Attempts, PollAttempts
  <2>2. TypeOK' /\ FramesSound'
    BY <1>8, <2>1, PipeParts DEF SkipFrame, TypeOK, FramesSound
  <2> QED
    BY <1>1, <1>8, <2>1, <2>2
       DEF SkipFrame, SessionPlaced, Counted, TaskPlaced, Reported,
           DelayPlaced, OkMeansExecuted, SessionSteps, PollSteps
<1>9. CASE Initialized
  <2>1. /\ Attempts' = Attempts /\ PollAttempts' = PollAttempts
    BY <1>9 DEF Initialized, Attempts, PollAttempts
  <2>2. TypeOK' /\ FramesSound'
    BY <1>9, <2>1, PipeParts DEF Initialized, TypeOK, FramesSound
  <2> QED
    BY <1>1, <1>9, <2>1, <2>2
       DEF Initialized, SessionPlaced, Counted, TaskPlaced, Reported,
           DelayPlaced, OkMeansExecuted, SessionSteps, PollSteps
<1>10. CASE CallAnswered
  <2>1. /\ Attempts' = Attempts /\ PollAttempts' = PollAttempts
    BY <1>10 DEF CallAnswered, Attempts, PollAttempts
  <2>2. acted
    BY <1>10, PipeParts DEF CallAnswered, HasResult
  <2>3. TypeOK'
    BY <1>10, <2>1, EmptyPipe DEF CallAnswered, Drop, TypeOK
  <2>4. polls = 0 /\ task = "none"
    BY <1>10 DEF CallAnswered, SessionPlaced, SessionSteps
  <2> QED
    BY <1>1, <1>10, <2>1, <2>2, <2>3, <2>4
       DEF CallAnswered, Drop, SessionPlaced, Counted, FramesSound, TaskPlaced, Reported,
           DelayPlaced, OkMeansExecuted, SessionSteps, PollSteps
<1>11. CASE ReadFails
  BY <1>11, AttemptFailsKeepsIInv DEF ReadFails, SessionSteps
<1> QED
  BY <1>2, <1>3, <1>4, <1>5, <1>6, <1>7, <1>8, <1>9, <1>10, <1>11 DEF McpStep

\* The steps of the sandboxd branch: no session is open there.
LEMMA TaskStepKeepsIInv ==
  ASSUME IInv, TaskStep
  PROVE  IInv'
<1> USE DEF IInv, mcpVars, taskVars
<1>1. /\ Attempts \in Nat \ {0} /\ PollAttempts \in Nat \ {0}
      /\ FirstDelay \in Nat \ {0} /\ setup.maxInterval \in Nat
  BY SettingsPositive DEF TypeOK
<1>2. /\ tries = 0 /\ tries' = 0 /\ alive' = alive /\ acted' = acted /\ pipe' = pipe
      /\ acts' = acts /\ setup' = setup /\ id' = id /\ late' = late
      /\ pc \in {"submit", "poll", "sleep", "report", "events"}
      /\ pc' \in {"poll", "sleep", "report", "events", "ok", "err"}
      /\ ~alive /\ pipe = <<>>
  BY DEF TaskStep, SubmitFails, SubmitOnly, SubmitAccepted, PollAnswered, PollFails, Sleep,
         Report, CaptureEvents, TaskPlaced, SessionPlaced, SessionSteps, PollSteps
<1>3. /\ Attempts' = Attempts /\ PollAttempts' = PollAttempts /\ FirstDelay' = FirstDelay
  BY <1>2 DEF Attempts, PollAttempts, FirstDelay
<1>4. SessionPlaced' /\ Counted' /\ FramesSound' /\ OkMeansExecuted'
  BY <1>2, <1>3 DEF SessionPlaced, Counted, FramesSound, OkMeansExecuted, SessionSteps, TypeOK
<1>5. ASSUME polls' \in 0..PollAttempts, delay' \in Nat, task' \in TaskStatuses,
             payload' \in TaskStatuses \cup {"unknown", "error", "garbled"}
      PROVE  TypeOK'
  BY <1>2, <1>3, <1>5 DEF TypeOK
<1> USE DEF PollSteps, TaskStatuses
<1>6. CASE SubmitFails \/ SubmitOnly \/ SubmitAccepted
  <2>1. polls' = 0 /\ payload' = payload /\ task' \in {"none", "running"}
    BY <1>6 DEF SubmitFails, SubmitOnly, SubmitAccepted, TaskPlaced
  <2>2. delay' \in Nat
    BY <1>1, <1>6 DEF SubmitFails, SubmitOnly, SubmitAccepted, TypeOK
  <2>3. TypeOK'
    BY <1>1, <1>5, <2>1, <2>2 DEF TypeOK
  <2> QED
    BY <1>1, <1>2, <1>3, <1>4, <1>6, <2>1, <2>3
       DEF SubmitFails, SubmitOnly, SubmitAccepted, TaskPlaced, Reported, DelayPlaced
<1>7. CASE PollAnswered
  <2>1. /\ polls < PollAttempts /\ task # "none" /\ task' = task /\ delay' = delay
        /\ polls \in Nat /\ polls' = polls + 1
    BY <1>1, <1>7 DEF PollAnswered, TaskPlaced, TypeOK
  <2>2. payload' \in {"running", "succeeded", "failed", "unknown", "error", "garbled"}
    BY <1>7, <2>1 DEF PollAnswered, TypeOK
  <2>3. TypeOK'
    BY <1>1, <1>5, <2>1, <2>2 DEF TypeOK
  <2>4. TaskPlaced' /\ Reported'
    BY <1>1, <1>2, <1>3, <1>7, <2>1, <2>2
       DEF PollAnswered, TaskPlaced, Reported, TerminalStatus
  <2>5. DelayPlaced'
    BY <1>2, <1>3, <1>7, <2>1 DEF PollAnswered, DelayPlaced
  <2> QED
    BY <1>4, <2>3, <2>4, <2>5
<1>8. CASE PollFails
  <2>1. TypeOK'
    BY <1>5, <1>8 DEF PollFails, TypeOK
  <2> QED
    BY <1>2, <1>3, <1>4, <1>8, <2>1 DEF PollFails, TaskPlaced, Reported, DelayPlaced
<1>9. CASE Sleep
  <2>1. delay \in Nat \ {0} /\ polls \in Nat /\ polls <= PollAttempts
    BY <1>1, <1>9 DEF Sleep, DelayPlaced, TypeOK
  <2>2. /\ delay' \in Nat \ {0}
        /\ delay' <= setup.maxInterval \/ delay' <= FirstDelay
    BY <1>9, <2>1, BackoffInRange DEF Sleep, TypeOK
  <2>3. TypeOK'
    BY <1>5, <1>9, <2>2 DEF Sleep, TypeOK
  <2>4. DelayPlaced'
    BY <1>2, <1>3, <2>2 DEF DelayPlaced
  <2>5. TaskPlaced' /\ Reported'
    BY <1>1, <1>2, <1>3, <1>9, <2>1 DEF Sleep, TaskPlaced, Reported
  <2> QED
    BY <1>4, <2>3, <2>4, <2>5
<1>10. CASE Report \/ CaptureEvents
  <2>1. TypeOK'
    BY <1>5, <1>10 DEF Report, CaptureEvents, TypeOK
  <2> QED
    BY <1>2, <1>3, <1>4, <1>10, <2>1
       DEF Report, CaptureEvents, TaskPlaced, Reported, DelayPlaced
<1> QED
  BY <1>6, <1>7, <1>8, <1>9, <1>10 DEF TaskStep

\* What the services and the clock do.
LEMMA EnvironmentKeepsIInv ==
  ASSUME IInv, Environment
  PROVE  IInv'
<1> USE DEF IInv
<1>1. /\ pc' = pc /\ setup' = setup /\ tries' = tries /\ id' = id
      /\ polls' = polls /\ delay' = delay /\ payload' = payload
  BY DEF Environment, ServerActs, ServerReplies, ServerTalks, ServerDies, TimePasses, TaskEnds,
         mcpVars, taskVars
<1>2. /\ Attempts' = Attempts /\ PollAttempts' = PollAttempts /\ FirstDelay' = FirstDelay
      /\ Attempts \in Nat /\ tries \in Nat /\ acts \in Nat /\ polls \in Nat
  BY <1>1, SettingsPositive DEF TypeOK, Attempts, PollAttempts, FirstDelay
<1> USE DEF taskVars, mcpVars
<1>3. CASE ServerActs
  BY <1>1, <1>2, <1>3
     DEF ServerActs, TypeOK, SessionPlaced, Counted, FramesSound, TaskPlaced, Reported,
         DelayPlaced, OkMeansExecuted
<1>4. CASE ServerReplies \/ ServerTalks
  <2>1. /\ acted' = acted /\ alive' = alive /\ alive /\ acts' = acts /\ late' = late /\ task' = task
    BY <1>4 DEF ServerReplies, ServerTalks
  <2>2. \E frame \in Frames :
          Write(frame) /\ (frame.id = 2 /\ frame.body = "result" => acted)
    BY <1>4 DEF ServerReplies, ServerTalks, Frames, TypeOK
  <2>3. pipe' \in Seq(Frames) /\ Len(pipe') <= MaxFrames /\ FramesSound'
    BY <2>1, <2>2, WriteKeepsFrames
  <2>4. TypeOK'
    BY <1>1, <1>2, <2>1, <2>3 DEF TypeOK
  <2> QED
    BY <1>1, <1>2, <2>1, <2>3, <2>4
       DEF SessionPlaced, Counted, TaskPlaced, Reported, DelayPlaced, OkMeansExecuted
<1>5. CASE ServerDies \/ TimePasses
  <2>1. late' \in BOOLEAN /\ alive' \in BOOLEAN /\ acted' = acted /\ (alive' => alive)
    <3>1. CASE ServerDies
      BY <3>1 DEF ServerDies, TypeOK
    <3>2. CASE TimePasses
      BY <3>2 DEF TimePasses, TypeOK
    <3> QED BY <1>5, <3>1, <3>2
  <2>2. pipe' = pipe /\ acts' = acts /\ task' = task
    BY <1>5 DEF ServerDies, TimePasses
  <2>3. TypeOK'
    BY <1>1, <1>2, <2>1, <2>2 DEF TypeOK
  <2> QED
    BY <1>1, <1>2, <2>1, <2>2, <2>3
       DEF SessionPlaced, Counted, FramesSound, TaskPlaced, Reported, DelayPlaced,
           OkMeansExecuted
<1>6. CASE TaskEnds
  <2>1. TypeOK'
    BY <1>1, <1>2, <1>6 DEF TaskEnds, TypeOK, TaskStatuses
  <2> QED
    BY <1>1, <1>2, <1>6, <2>1
       DEF TaskEnds, SessionPlaced, Counted, FramesSound, TaskPlaced, Reported, DelayPlaced,
           OkMeansExecuted, PollSteps, SessionSteps
<1> QED
  BY <1>3, <1>4, <1>5, <1>6 DEF Environment

LEMMA NextKeepsIInv == IInv /\ [Next]_vars => IInv'
<1> SUFFICES ASSUME IInv, [Next]_vars PROVE IInv'
  OBVIOUS
<1>1. CASE Dispatch
  BY <1>1, DispatchKeepsIInv
<1>2. CASE McpStep
  BY <1>2, McpStepKeepsIInv
<1>3. CASE TaskStep
  BY <1>3, TaskStepKeepsIInv
<1>4. CASE Environment
  BY <1>4, EnvironmentKeepsIInv
<1>5. CASE UNCHANGED vars
  BY <1>5
     DEF vars, IInv, TypeOK, SessionPlaced, Counted, FramesSound, TaskPlaced, Reported,
         DelayPlaced, OkMeansExecuted, Attempts, PollAttempts, FirstDelay
<1> QED
  BY <1>1, <1>2, <1>3, <1>4, <1>5 DEF Next

LEMMA Invariance == Spec => []IInv
<1> QED BY InitIInv, NextKeepsIInv, PTL DEF Spec

-----------------------------------------------------------------------------
\* A call of execute keeps its types, whatever the services answer.
THEOREM TypeCorrect == Spec => []TypeOK
<1>1. IInv => TypeOK
  BY DEF IInv
<1> QED BY <1>1, Invariance, PTL

\* No Ok of the stdio client without an execution of the tool.
THEOREM OkIsEarned == Spec => []OkMeansExecuted
<1>1. IInv => OkMeansExecuted
  BY DEF IInv
<1> QED BY <1>1, Invariance, PTL

\* with_retries opens at most retry_attempts sessions, the tool is executed at
\* most once in each, and never beside a sandboxd task.
THEOREM ExecutionsAreBounded == Spec => []ExecutionsBounded
<1>1. IInv => ExecutionsBounded
  <2> SUFFICES ASSUME IInv PROVE ExecutionsBounded
    OBVIOUS
  <2>1. Attempts \in Nat /\ tries \in 0..Attempts /\ acts \in Nat /\ acts <= tries
    BY SettingsPositive DEF IInv, TypeOK, Counted
  <2>2. task # "none" => tries = 0
    BY <2>1 DEF IInv, TaskPlaced
  <2> QED BY <2>1, <2>2 DEF ExecutionsBounded
<1> QED BY <1>1, Invariance, PTL

\* poll_task_status reports the task's own end, or has used all its attempts.
THEOREM TaskReportIsTrue == Spec => []ReportIsTrue
<1>1. IInv => ReportIsTrue
  BY DEF IInv, Reported, ReportIsTrue
<1> QED BY <1>1, Invariance, PTL

\* The poll delay is positive and bounded for all settings.
THEOREM PollDelayInRange == Spec => []DelayInRange
<1>1. IInv => DelayInRange
  BY DEF IInv, DelayPlaced, DelayInRange
<1> QED BY <1>1, Invariance, PTL

=============================================================================
