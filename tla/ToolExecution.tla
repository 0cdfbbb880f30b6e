---------------------------- MODULE ToolExecution ----------------------------
(***************************************************************************)
(* One call of SandboxExecutor::execute (src/core/sandbox_executor.rs): the *)
(* tool of an approved plan is called at an MCP server over stdio, with    *)
(* retries (src/core/mcp_client.rs), or becomes a task of sandboxd that is *)
(* polled until it ends.  The agent loop sees this module as one step that *)
(* returns Ok or Err; here are the steps, and the two services answer,     *)
(* stay silent, die or garble their answers between any two of them.       *)
(***************************************************************************)
EXTENDS Naturals, Sequences

CONSTANTS
  Setups,      \* the settings and the plan the call may have
  MaxFrames    \* bound: unread frames in the pipe of a server

ExecutorKinds == {"Host", "SandboxdStub", "SandboxdApi"}
Backends      == {"Mock", "Unconfigured", "Stdio"}
TaskStatuses  == {"none", "running", "succeeded", "failed"}

SetupType ==
  [executor : ExecutorKinds, kind : {"Read", "Effect"}, mcp : Backends,
   retries : Nat, transport : BOOLEAN, pollAttempts : Nat, interval : Nat,
   multiplier : Nat, maxInterval : Nat, capture : BOOLEAN,
   eventsLimit : BOOLEAN]   \* is sandboxd_events_max_time_s not 0?

ASSUME ToolAssumption == Setups \subseteq SetupType /\ MaxFrames \in Nat \ {0}

\* What a server writes: a reply to a request of ours (`result` or `error`), a
\* message of its own, which may carry any id or none (0), or no JSON.
Frames == [id : 0..2, body : {"result", "error", "other", "garbage"}]

VARIABLES
  setup,      \* the settings and the plan of this call
  pc,         \* where execute stands
  tries,      \* MCP sessions spawned by with_retries
  id,         \* the id of the request written last: 1 initialize, 2 tools/call
  late,       \* has read_until_id's timeout elapsed?
  alive,      \* does the child of this session live?
  acted,      \* has that child executed the tool?
  pipe,       \* its unread frames
  acts,       \* history: how often MCP servers have executed the tool
  task,       \* the task at sandboxd
  polls,      \* status answers read
  delay,      \* poll_delay_ms
  payload     \* last_payload: the task's status, "unknown" (none in it), "error"
              \* (a final status that is not the task's) or "garbled"

mcpVars  == <<tries, id, late, alive, acted, pipe, acts>>
taskVars == <<task, polls, delay, payload>>
vars == <<setup, pc, tries, id, late, alive, acted, pipe, acts,
          task, polls, delay, payload>>

Ended == pc \in {"ok", "err"}

-----------------------------------------------------------------------------
(* The settings, as the code reads them *)

\* StdioMcpClient::new: retry_attempts.max(1).
Attempts == IF setup.retries = 0 THEN 1 ELSE setup.retries

\* `for attempt in 0..retry_attempts` (the faulty one counts one too many).
OneMoreTry == tries <= Attempts
TriesLeft == tries < Attempts

\* poll_task_status: no poll count or delay is ever zero (the faulty cap is).
PollAttempts == IF setup.pollAttempts = 0 THEN 1 ELSE setup.pollAttempts
FirstDelay   == IF setup.interval = 0 THEN 100 ELSE setup.interval
Backoff      == IF setup.multiplier = 0 THEN 1 ELSE setup.multiplier
RawCap       == setup.maxInterval
DelayCap     == IF setup.maxInterval = 0 THEN FirstDelay ELSE setup.maxInterval

\* saturating_mul, then min: a product past u64 is cut by the cap either way.
NextDelay(d) == IF d * Backoff < DelayCap THEN d * Backoff ELSE DelayCap

\* is_terminal_status (the faulty one takes any known status for an end).
KnownStatus(s)    == s \in TaskStatuses \cup {"error"}
TerminalStatus(s) == s \in {"succeeded", "failed", "error"}

\* parse_json_rpc_response wants a `result` (the faulty one is content with no
\* `error`, as for a request of the server's own).
NoError(frame)   == frame.body \in {"result", "other"}
HasResult(frame) == frame.body = "result"

\* `started.elapsed() > timeout` (the faulty one never looks at the clock).
NeverTimesOut == FALSE
TimedOut == late

\* RuntimeExecutor::execute: which plans go to the MCP client.
ByMcp == setup.executor = "Host" \/ setup.kind = "Read"

-----------------------------------------------------------------------------
TypeOK ==
  /\ setup \in Setups
  /\ pc \in {"dispatch", "spawn", "initialize", "request", "check", "read",
             "submit", "poll", "sleep", "report", "events", "ok", "err"}
  /\ tries \in 0..Attempts
  /\ id \in 0..2
  /\ late \in BOOLEAN /\ alive \in BOOLEAN /\ acted \in BOOLEAN
  /\ pipe \in Seq(Frames) /\ Len(pipe) <= MaxFrames
  /\ acts \in Nat
  /\ task \in TaskStatuses
  /\ polls \in 0..PollAttempts
  /\ delay \in Nat
  /\ payload \in TaskStatuses \cup {"unknown", "error", "garbled"}

Init ==
  /\ setup \in Setups
  /\ pc = "dispatch"
  /\ tries = 0 /\ id = 0 /\ late = FALSE
  /\ alive = FALSE /\ acted = FALSE /\ pipe = <<>> /\ acts = 0
  /\ task = "none" /\ polls = 0 /\ delay = 0 /\ payload = "unknown"

-----------------------------------------------------------------------------
(* The executor *)

\* A session is dropped, kill_on_drop kills its child, and execute goes on at p.
Drop(p) ==
  /\ pc' = p
  /\ alive' = FALSE
  /\ pipe' = <<>>

\* An attempt failed: with_retries sleeps and spawns anew, or returns the error.
AttemptFails ==
  /\ Drop(IF TriesLeft THEN "spawn" ELSE "err")
  /\ UNCHANGED <<setup, tries, id, late, acted, acts, taskVars>>

\* execute: the stub claims to have acted, a client without a command refuses,
\* the mock answers by the tool's name, and sandboxd's transport is validated.
\* (from_config builds the API executor only when it is ready.)
Dispatch ==
  /\ pc = "dispatch"
  /\ \/ ByMcp /\ setup.mcp = "Stdio" /\ pc' = "spawn"
     \/ ByMcp /\ setup.mcp = "Unconfigured" /\ pc' = "err"
     \/ ByMcp /\ setup.mcp = "Mock" /\ pc' \in {"ok", "err"}
     \/ ~ByMcp /\ setup.executor = "SandboxdStub" /\ pc' = "ok"
     \/ ~ByMcp /\ setup.executor = "SandboxdApi"
        /\ pc' = IF setup.transport THEN "submit" ELSE "err"
  /\ UNCHANGED <<setup, mcpVars, taskVars>>

\* AsyncStdioMcpSession::spawn: a fresh child with fresh pipes, next_id = 1.
Spawn ==
  /\ pc = "spawn"
  /\ tries' = tries + 1
  /\ id' = 0
  /\ acted' = FALSE
  /\ alive' = TRUE
  /\ pc' = "initialize"
  /\ UNCHANGED <<setup, late, pipe, acts, taskVars>>

\* "failed to spawn mcp server": no child, and the try counts.
SpawnFails ==
  /\ pc = "spawn"
  /\ tries' = tries + 1
  /\ id' = 0
  /\ pc' = IF tries + 1 < Attempts THEN "spawn" ELSE "err"
  /\ UNCHANGED <<setup, late, alive, acted, pipe, acts, taskVars>>

\* initialize and request write a message and start the clock of read_until_id.
Send ==
  /\ pc \in {"initialize", "request"}
  /\ alive
  /\ id' = id + 1
  /\ late' = FALSE
  /\ pc' = "check"
  /\ UNCHANGED <<setup, tries, alive, acted, pipe, acts, taskVars>>

\* The child is dead: its stdin is a broken pipe.
SendFails ==
  /\ pc \in {"initialize", "request"}
  /\ ~alive
  /\ AttemptFails

\* The clock is looked at before a frame is read, never during the read.
CheckClock ==
  /\ pc = "check"
  /\ ~TimedOut
  /\ pc' = "read"
  /\ UNCHANGED <<setup, mcpVars, taskVars>>

RequestTimesOut == pc = "check" /\ TimedOut /\ AttemptFails

\* A frame for another id is skipped, without a look at its body.
SkipFrame ==
  /\ pc = "read" /\ pipe # <<>>
  /\ Head(pipe).id # id /\ Head(pipe).body # "garbage"
  /\ pipe' = Tail(pipe)
  /\ pc' = "check"
  /\ UNCHANGED <<setup, tries, id, late, alive, acted, acts, taskVars>>

\* The reply to initialize: the initialized notification is written, which
\* fails when the child is gone and waits when it does not read (the next write,
\* Send or SendFails, covers both).
Initialized ==
  /\ pc = "read" /\ pipe # <<>> /\ id = 1
  /\ Head(pipe).id = 1 /\ HasResult(Head(pipe))
  /\ pipe' = Tail(pipe)
  /\ pc' = "request"
  /\ UNCHANGED <<setup, tries, id, late, alive, acted, acts, taskVars>>

\* The reply to tools/call: its text is execute's Ok.
CallAnswered ==
  /\ pc = "read" /\ pipe # <<>> /\ id = 2
  /\ Head(pipe).id = 2 /\ HasResult(Head(pipe))
  /\ Drop("ok")
  /\ UNCHANGED <<setup, tries, id, late, acted, acts, taskVars>>

\* No JSON, an error reply, a message without a result under our id, or EOF.
ReadFails ==
  /\ pc = "read"
  /\ IF pipe = <<>> THEN ~alive
     ELSE \/ Head(pipe).body = "garbage"
          \/ Head(pipe).id = id /\ ~HasResult(Head(pipe))
  /\ AttemptFails

\* submit_task failed or its answer is no JSON: the task may exist all the same.
SubmitFails ==
  /\ pc = "submit"
  /\ task' \in {"none", "running"}
  /\ pc' = "err"
  /\ UNCHANGED <<setup, mcpVars, polls, delay, payload>>

\* An answer without an id, such as an HTTP error with a JSON body: Ok("submit_only").
SubmitOnly ==
  /\ pc = "submit"
  /\ task' \in {"none", "running"}
  /\ pc' = "ok"
  /\ UNCHANGED <<setup, mcpVars, polls, delay, payload>>

SubmitAccepted ==
  /\ pc = "submit"
  /\ task' = "running"
  /\ delay' = FirstDelay
  /\ pc' = "poll"
  /\ UNCHANGED <<setup, mcpVars, polls, payload>>

\* One GET of the task.  curl is called without -f, so an HTTP error is an
\* answer like any other: without a status, with one of its own, which may be
\* final ("error"), or no JSON at all.
PollAnswered ==
  /\ pc = "poll"
  /\ payload' \in {task, "unknown", "error", "garbled"}
  /\ polls' = polls + 1
  /\ pc' = IF TerminalStatus(payload') THEN "report" ELSE "sleep"
  /\ UNCHANGED <<setup, mcpVars, task, delay>>

\* curl itself fails: the task goes on, execute does not.
PollFails ==
  /\ pc = "poll"
  /\ pc' = "err"
  /\ UNCHANGED <<setup, mcpVars, taskVars>>

\* Sleep, back off, and poll again unless that was the last attempt.
Sleep ==
  /\ pc = "sleep"
  /\ delay' = NextDelay(delay)
  /\ pc' = IF polls < PollAttempts THEN "poll" ELSE "report"
  /\ UNCHANGED <<setup, mcpVars, task, polls, payload>>

\* The last payload is parsed once more, whatever status is in it.
Report ==
  /\ pc = "report"
  /\ pc' = IF payload = "garbled" THEN "err" ELSE IF setup.capture THEN "events" ELSE "ok"
  /\ UNCHANGED <<setup, mcpVars, taskVars>>

\* `curl .. | tail` succeeds whatever curl does; only starting the shell can fail.
CaptureEvents ==
  /\ pc = "events"
  /\ pc' \in {"ok", "err"}
  /\ UNCHANGED <<setup, mcpVars, taskVars>>

-----------------------------------------------------------------------------
(* The MCP server, the clock and sandboxd *)

Write(frame) ==
  /\ Len(pipe) < MaxFrames
  /\ pipe' = Append(pipe, frame)

\* The server executes the tool, once per tools/call.
ServerActs ==
  /\ alive /\ id = 2 /\ ~acted
  /\ acted' = TRUE
  /\ acts' = acts + 1
  /\ UNCHANGED <<setup, pc, tries, id, late, alive, pipe, taskVars>>

\* It replies: to tools/call with a result only if it has acted (an assumption
\* on the server: isError in a result is not looked at), with an error at any time.
ServerReplies ==
  /\ alive /\ id > 0 /\ pc \in {"check", "read"}
  /\ \E body \in {"result", "error"} :
       /\ body = "result" /\ id = 2 => acted
       /\ Write([id |-> id, body |-> body])
  /\ UNCHANGED <<setup, pc, tries, id, late, alive, acted, acts, taskVars>>

\* A log notification, a request of its own (ids of its own choice), or noise.
ServerTalks ==
  /\ alive
  /\ \E i \in 0..2, body \in {"other", "garbage"} : Write([id |-> i, body |-> body])
  /\ UNCHANGED <<setup, pc, tries, id, late, alive, acted, acts, taskVars>>

ServerDies ==
  /\ alive
  /\ alive' = FALSE
  /\ UNCHANGED <<setup, pc, tries, id, late, acted, pipe, acts, taskVars>>

TimePasses ==
  /\ pc \in {"check", "read"} /\ ~late
  /\ late' = TRUE
  /\ UNCHANGED <<setup, pc, tries, id, alive, acted, pipe, acts, taskVars>>

\* The task ends, polled or abandoned.
TaskEnds ==
  /\ task = "running"
  /\ task' \in {"succeeded", "failed"}
  /\ UNCHANGED <<setup, pc, mcpVars, polls, delay, payload>>

-----------------------------------------------------------------------------
McpStep ==
  \/ Spawn
  \/ SpawnFails
  \/ Send
  \/ SendFails
  \/ CheckClock
  \/ RequestTimesOut
  \/ SkipFrame
  \/ Initialized
  \/ CallAnswered
  \/ ReadFails

TaskStep ==
  \/ SubmitFails
  \/ SubmitOnly
  \/ SubmitAccepted
  \/ PollAnswered
  \/ PollFails
  \/ Sleep
  \/ Report
  \/ CaptureEvents

Environment ==
  \/ ServerActs
  \/ ServerReplies
  \/ ServerTalks
  \/ ServerDies
  \/ TimePasses
  \/ TaskEnds

Next == Dispatch \/ McpStep \/ TaskStep \/ Environment

Spec == Init /\ [][Next]_vars

\* Execute goes on whenever it can, and the clock runs.  Nobody makes a server
\* write or read: a write to its stdin (Send) has no deadline.  Neither submit nor
\* poll gives curl a time limit, and the one of the events may be 0, which is none.
FairSpec ==
  /\ Spec
  /\ WF_vars(Dispatch \/ Spawn \/ SpawnFails \/ SendFails \/ CheckClock \/ RequestTimesOut)
  /\ WF_vars(SkipFrame \/ Initialized \/ CallAnswered \/ ReadFails)
  /\ WF_vars(Sleep \/ Report)
  /\ WF_vars(setup.eventsLimit /\ CaptureEvents)
  /\ WF_vars(TimePasses)

-----------------------------------------------------------------------------
(* Properties *)

\* An Ok of the stdio client comes from a child that has executed the tool: no
\* message of the server's own and no reply to initialize passes for the answer.
OkMeansExecuted == pc = "ok" /\ tries > 0 => acted

\* A retried call may execute the tool again, but never more often than there
\* were sessions, and with_retries opens at most retry_attempts of them; the
\* plan that goes to sandboxd is executed by no MCP server.
ExecutionsBounded ==
  /\ acts <= tries /\ tries <= Attempts
  /\ task # "none" => acts = 0

\* A final status in an Ok is the task's own, or that of an HTTP error body which
\* names one; any other is only returned when all poll attempts are used up, never
\* because polling stopped early.
ReportIsTrue ==
  pc = "ok" /\ polls > 0 =>
    \/ payload \in {"succeeded", "failed"} /\ task = payload
    \/ payload = "error"
    \/ payload \in {"running", "unknown"} /\ polls = PollAttempts

\* Whatever the poll settings, zeros included, polling never spins (a delay of
\* zero) and never waits longer than the larger of interval and cap.
DelayInRange ==
  pc = "sleep" =>
    /\ delay > 0
    /\ delay <= setup.maxInterval \/ delay <= FirstDelay

\* Waiting for someone who need not answer: a server that does not read what is
\* written to it or writes nothing, or a curl without a time limit.
Silence ==
  \/ pc \in {"initialize", "request"} /\ alive
  \/ pc = "read" /\ pipe = <<>> /\ alive
  \/ pc \in {"submit", "poll"}
  \/ pc = "events" /\ ~setup.eventsLimit

\* However much a server talks, dies or garbles, the call ends, unless from some
\* point on it waits for a server that neither reads nor writes, or for a curl
\* without a time limit that does not return.
EndsUnlessSilent == <>Ended \/ <>[]Silence

=============================================================================
