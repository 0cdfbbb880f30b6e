# ozr: verification project

TLA+ models of [ozr](../src/README.md), an agent harness written in Rust: a model proposes a tool
call, a policy decides whether an operator has to approve it, an executor carries it out, and an
audit log and a checkpoint record what happened. The models are checked with TLC on small instances,
and the safety properties that matter most are proved with TLAPS for all values of the constants.

Paths below are those of the repository (`src/core/agent_loop.rs` and so on).

- [1. The system](#1-the-system)
- [2. Modules](#2-modules)
- [3. Runs](#3-runs)
- [4. Fairness](#4-fairness)
- [5. Proofs](#5-proofs)
- [6. Where the code and its documents disagree](#6-where-the-code-and-its-documents-disagree)
- [7. What is not modelled](#7-what-is-not-modelled)
- [8. Plan](#8-plan)

To check and to prove:

    tlc -config store_channel.cfg MCSessionStore
    tlapm SessionStoreProofs.tla

## 1. The system

### 1.1 Components, their state and their operations

| component (source) | state | operations | what makes it correct |
|---|---|---|---|
| session store, approval gate (`src/api/state.rs`, `approval_gate.rs`) | a map from session ids to sessions behind one fair `RwLock`; for each pending approval a mutex-guarded resolution slot and a `Notify` | `create`, `get_view`, `register_pending`, `submit_approval`, `clear_pending`, `complete`, `fail`; `ApiApprovalGate::request` | a decision reaches the run exactly once and wakes it; a waiting run is visible; the caller is told the truth |
| HTTP handlers (`src/api/handlers.rs`) | none of their own | `start_run` (spawns the run's task), `get_session`, `approve_session` | as above |
| OpenAI shim (`src/api/openai_shim.rs`) | per request: deadline, polling state | start a run, poll its session every 200 ms for 120 s, answer or stream | every request is answered, with the end of its own run |
| agent loop (`src/core/agent_loop.rs`, `budget.rs`, `guardrail.rs`, `runtime.rs`) | the plan, retries, tokens; writes the audit log and the checkpoint | `run_once`, `fail_run` | nothing acts unapproved or over budget; refused runs did nothing; the records agree with what happened |
| approval prompt (`src/core/approval.rs`) | none | `CliApprovalGate::request` in three modes | only answers the tier allows |
| policy and packs (`src/core/policy.rs`, `policy_pack.rs`) | none: a policy and a budget are computed | `evaluate`, `PolicyPack::apply`, `prepare_runtime` | risky actions ask; a required sandbox is really wired |
| session recovery (`src/core/session_recovery.rs`) | one checkpoint file per workspace, no lock | `begin_session`, `touch_session`, `complete_session`, `fail_session`, `detect_interrupted_checkpoint`, `recoverable_prompt` | what the file says of a run is true |
| tool executors (`src/core/sandbox_executor.rs`) | a task at sandboxd; poll counters | `execute`: submit, poll with back-off, capture events | a reported end is the task's own |
| MCP client (`src/core/mcp_client.rs`, `mcp_protocol.rs`) | a child process per attempt, request ids, a pipe | `call_tool`, `list_tool_definitions` | an Ok is the answer to the call; attempts are bounded |
| tool catalog, planning (`src/core/mcp_tool_catalog.rs`, `llm_adapter.rs`) | none: the listed tools and the plan | list and classify tools, choose one from the model's reply | the kind the policy judges is that of the tool, never a safer one |
| audit log, replay, dashboard (`src/core/audit.rs`, `replay.rs`, `trace_replay.rs`, `approval_report.rs`) | an append-only file, shared by all runs, no lock | `append`; `load_runs`, `classify_run`, `collect_approval_stats` | replay tells how a run ended; nothing is counted that was not logged |
| memory (`src/core/memory*.rs`, `vector_backend.rs`, `embedding.rs`) | event log, SQLite index, vector store, the text store it replaces; no lock between statements | migrate, index, recall, ingest | nothing is lost, hidden or doubled; a prompt keeps to its budget |
| command line (`src/cli.rs`) | none | `run`, `session resume`, `serve`, `replay`, reports | announced recovery works |
| desktop GUI (`ui/`) | the child server, the health checks, the page's phase and its polled session | start, adopt, check, stop; submit, poll, approve | the operator is told the truth and never left waiting; no child outlives the shell |
| configuration, JSON helpers, HTTP calls of the LLM adapters, checklist, spec workflow | none | parse, format, call out | conversions |

### 1.2 How they interact

`ozr run` and `ozr session resume` are processes of their own: they look at the checkpoint
(`detect_interrupted_checkpoint`), prepare policy and budget, and call `run_once` with the prompt gate.
`ozr serve` spawns a Tokio task for every `POST /v1/run` and `POST /v1/chat/completions`, and each
runs the same `run_once` with an `ApiApprovalGate`, which waits in the session store until
`POST /v1/session/{id}/approve` fills its slot. All of them append to one audit log and save one
checkpoint file. The loop calls the executor, which calls an MCP server (a child process per attempt)
or sandboxd (HTTP through `curl`).

Before a run, `ozr run` builds the memory (migrating the text store, indexing files) and recalls
hits for the prompt; after it, the run's events go to the event log, the index and the vector store.
`ozr memory` does the same from another process. The desktop shell spawns `ozr serve`, or adopts whatever
answers `/health` on its port, and its page drives runs through the same HTTP API as every other client.

### 1.3 What is hard

* **Interleaving.** The gate looks into the slot, registers for the wakeup and looks again, while
  `submit_approval` holds the read lock of the map and the mutex of the slot. Two callers may approve at
  once; approvals are addressed to sessions, not to plans.
* **Locks.** The slot's mutex is held across the wait for the write lock; a second approval waits for
  the mutex with the read lock in its hand.
* **No lock.** The checkpoint is loaded, changed and saved by any number of processes and tasks. A line
  of the audit log goes out in five `write`s, between which other runs write theirs. The memory database
  is opened, renamed and filled statement by statement, each committed by itself.
* **Failure.** Every `?` in `run_once` leaves without closing the records; a process can die between any
  two writes, and inside one (`fs::write` truncates first). The GUI's server can die while a decision is on its
  way.
* **Ordering.** An approval before a retry must not serve a later plan; an MCP answer shares a pipe with
  notifications and requests of the server's own.
* **Time.** The run's clock is read once, the MCP timeout only between frames, the chat deadline after
  the view was read.
* **Boundaries.** Session ids and run ids are milliseconds; poll settings may be zero; retries, budgets and
  iterations are counted at different places.

`PROJECT.json` lists each hazard at its line with the properties that would catch it going wrong.

## 2. Modules

    ApprovalChannel  <--refines--  SessionStore  <--extends--  ChatShim
                                       ^ MCSessionStore  ^ SessionStoreProofs
    GuardedRun  <--refines--  AgentLoop (MCAgentLoop, AgentLoopProofs)
                                |     |
                              Policy  Replay  <--extends--  AuditLog (MCAuditLog, AuditLogProofs)
                                |
                             PolicyPack
                                ^ extends
                             Planning (MCPlanning, PlanningProofs)
    Checkpoint (MCCheckpoint, CheckpointProofs)
    ToolExecution (MCToolExecution, ToolExecutionProofs)
    Memory (MCMemory, MemoryProofs)
    Desktop (DesktopProofs)

**SessionStore** models the HTTP approval path. One task per run, one handler task per client. A
step is what a task does between two `await`s: the map's lock, the slot's mutex and the `Notify` are in
the state or derived from it (`WriteFree`, `ReadFree`, `SlotHeld`), so that the two rules that matter are
explicit: `submit_approval` keeps its read guard until it returns, and the gate keeps the slot's mutex
while it waits for the write lock (the scrutinee of its `if let`). Session ids are clock readings;
`Tick` lets a millisecond pass. `acked` and `reviewed` are history variables.

**ApprovalChannel** is what the store promises: a plan is asked about, at most one decision is taken
for it, and that decision is delivered. `SessionStore` implements it under the mapping `StageOf`.

**ChatShim** extends the store with the chat requests: a request starts a run and polls its session
under the same lock while other clients approve. The texts a session ends with, and the run that wrote
them, are added, because the question is whose answer the caller gets.

**Policy**, **PolicyPack**: `evaluate` with the ponytail modes; a configuration becomes a policy, a
budget and an executor by `prepare_runtime` and `from_config`, which look at the sandboxd settings
separately.

**Planning** goes on from there: the tools an MCP server lists are classified by the words in their
names, the model's reply (or the mock provider) selects one, and the plan gets the kind of its name. The
policy is the one the start-up made, so that the two halves of the gate, the kind and the judgement of
it, are checked together. Of a name the model keeps which word lists it matches, of a reply which names
occur in it; both are arbitrary.

**GuardedRun** is what the loop promises whatever it is made of: plans follow each other until one is
carried out, a risky one only with its own approval, at most one acts, and the outcome and the record say
what happened. `AgentLoop` implements it (`ImplementsGuardedRun`): the plan is
`proposals`, `approved` is what the log lets through, `acted` the effect, `record` the checkpoint's status, and
`Outcome` is how the run ended.

**AgentLoop** is one run of `run_once`. A step lies between two points where a call can fail or the
process can die: each audit append, the checkpoint, the model, the gate, the executor. `Faults` says which
calls may fail; `Crash` may happen anywhere, also with a tool call under way. `log` is the run's part of
the audit file, with unreadable lines as such. **Replay** is `classify_run` on it, written with the places of
the lines that matter (`ReadLines`, `DecisiveLines`): its loop keeps the last event that decides, which is the
one at the greatest of these places. Nothing is filtered, so that proofs need no induction over the file.

**AuditLog** is the file all runs share. `writeln!` on an unbuffered file hands the kernel one fragment
after the other (`{"ts":N,"run_id":"`, the run id, `","event":"`, the text, the close), so an append is five
steps, an error or a crash may cut it off in any of them, and another run's fragments may come in between.
Of a line the model keeps what the JSON reader tells: whether it parses, and as which run id and events. A
text that `sanitize` leaves with a backslash or a line break breaks its line, or makes two of it (`WriteOdd`). The
key before the timestamp, the timestamp and the key before the id are three fragments of `writeln!` kept as one. The
readers are `load_runs` (`LinesOf`, `LogOf`) with `ReplayOf`, and the dashboard's counts.

**Checkpoint** is the checkpoint file between `ozr run`, `ozr session resume` and the tasks of a
server. A save is two steps (truncate, write) and anything may happen in between; over another save it
may leave a torn file. A crash of the server takes all its tasks along. Runs take their ids from the clock
(`GetId`), and two may get the same; the file tells runs apart by nothing else (`Mine`).

**ToolExecution** is one `execute`: dispatch by executor and kind, the MCP sessions with retries, and
sandboxd's submit, poll and report. The MCP server (it acts, replies, talks, dies), the clock and sandboxd
are the environment. Of the two things are assumed: a server that answers `tools/call` with a result, `isError`
included, has acted; and the body of an HTTP error of sandboxd has no `status` that a task could have ended
with but `error`. The agent loop sees all of it as `Execute` or `ExecuteFails`.

**Memory** is `.ozr/memory.db` with the text store it replaces, the event log, the indexed files and the
vector store, used by processes of `ozr run` and `ozr memory`. Every SQL statement, file check, rename
and append is a step, because each commits by itself and none holds a lock; a process can fail or die at
any of them. The text store holds lines of files, facts, and events of sessions that the log need not have
(`OldSessions`). The migration calls the building that called it, which `stack` and `agenda` carry. A
connection opened before the file was renamed writes no more (`moved`).

**Desktop** is the shell (`Start`, `Settle`, `CheckChild`, `Health`, `Stop`, exit, reload, kill) and the page
(`handleSubmit`, `handleApproval` and their polling, a step per request), against servers that bind, die
and leave, runs that ask again, and other clients that decide. It sees sessions as the HTTP views give
them, with one session for each run; two approvals of one plan may lock its server up (`LockUp`, `Decide`), which is
what `SessionStore` shows, until the later client hangs up or the server goes.

`PROJECT.json` maps every definition to its lines. Definitions described as faulty in a comment are
plausible bugs: each property is shown to be violated when its definition is replaced by one of them.

## 3. Runs

| run | instance | shows |
|---|---|---|
| `store_channel` | 1 run with 3 approvals (the loop's limit), 2 clients that hang up when they get no answer | `NoLostWakeup`, `AckedIsApplied`, and that the store refines `ApprovalChannel`, with its fairness |
| `shim` | 1 chat request and 1 plain run that may share a millisecond, 2 clients | `StatusMatchesPending`, `WaitingIsVisible`, `OwnAnswer`, `ChatIsAnswered` |
| `planning` | every pack, mode and sandboxd wiring; catalogs of up to 2 of 7 tools, any reply | `RequiredSandboxIsWired`, `UnaskedPlansAreReads` |
| `loop_safety` | every executor and approver, 4 policies, budgets for 0 to 3 plans, all faults | `GatedExecution`, `BudgetRespected`, `ProductionNeverOnHost`, `RefusedDidNothing`, `ReplayAgrees`, `ImplementsGuardedRun`, `Terminates` |
| `checkpoint_files` | 2 command-line processes, 1 API run, 2 run ids, 2 prompts | `CheckpointIsTrue`, `EndedStaysEnded`, `FailedDidNothing` |
| `tools` | every executor, kind and backend; every combination of poll settings from {0, small, large}, events with and without a limit | `OkMeansExecuted`, `ExecutionsBounded`, `ReportIsTrue`, `DelayInRange`, `EndsUnlessSilent` |
| `memory` | 2 processes, a text store or none, a file of 2 lines, an old session event, a fact, any failure and crash | `SearchableIsStored`, `MarkedIsIndexed`, `OldStoreKept`, `IndexedOnce`, `LogKnowsFirst`, `RecallWithinBudget`, `IndexNeverShrinks` |
| `audit` | 2 runs of up to 3 events, 2 run ids, any text odd, 2 appends cut off | `RunsReplayInFull`, `CutsSpoilOneLineEach`, `NoVerdictIsInvented`, `DecisionsNotOvercounted` |
| `desktop` | 2 sessions, spawned or external server, 2 polls and 2 health checks, servers that lock up | `ReportsAreTrue`, `NoSilentWait`, `NoOrphan`, `BackToOperator` |
| `store_duplicate_approve` | 1 run, 2 clients that wait for their answer | **violation** of `SubmitUnblocksWaiter`: the gate and a second approval block each other (6.1) |
| `store_stale_approval` | 1 run with 2 approvals, 2 clients | **violation** of `ReviewedPlanIsDecided`: a decision lands on a plan its sender never saw (6.2) |
| `loop_replay_failure` | prompt and HTTP, failing tool | **violation** of `ReplayShowsFailure`: replay shows no cause of the failure (6.3) |

What the properties say, in words:

* `StatusMatchesPending`: a session is PendingApproval exactly when it carries a plan, even when two
  runs share its id. `NoLostWakeup`: a gate asleep beside a filled slot has a permit or is about to get one.
  `AckedIsApplied`: a decision answered with 200 is the one the run acts on. `WaitingIsVisible`: a run
  with its own session id is approvable while it waits.
* `OwnAnswer`: a chat request is answered with its own run's end, never before it. `ChatIsAnswered`:
  it is answered even if nobody ever approves. Both `ImplementsFairChannel` and `ChatIsAnswered` have callers that
  hang up when they get no answer, which undoes the block of 6.1; without that, see `SubmitUnblocksWaiter`.
* `UnaskedPlansAreReads`: a plan that goes unasked is for a tool whose name speaks of reading and of nothing
  else, whatever is listed and replied. `RequiredSandboxIsWired`: where the policy wants a sandbox, the
  executor is one.
* `GatedExecution`: no tool acts for a plan that needs approval unless the log holds that plan's
  approval, none from before a retry. `BudgetRespected`: a plan over budget is neither asked about nor
  executed. `RefusedDidNothing`: denied, skipped, refused runs and those the checkpoint calls failed have
  had no effect. `ReplayAgrees`: replay tells how a run ended wherever the loop ended it itself.
  `ImplementsGuardedRun`: all of it, in the form of the abstract run.
* `CheckpointIsTrue`: whatever races, the file never has one run id's prompt with another's status, nor an
  id as completed or failed of which no run ended so. `EndedStaysEnded`: no late save brings an id back all of whose
  runs have ended. `FailedDidNothing`: a failed id is that of a run that failed without effect. The three speak of the
  runs that bear an id (`Bearers`): where two share one, the file may have the prompt of the one with the end of the
  other (section 6), and only where they do not is it true of the one run it names (`UniqueIdsTellWhose`).
* `OkMeansExecuted`: no message but the reply to `tools/call` makes an Ok. `ExecutionsBounded`: a
  retried call acts at most once per session, and not beside a task. `ReportIsTrue`: a final status is the
  task's; any other comes only after the last poll. `DelayInRange`: no poll setting makes polling spin.
  `EndsUnlessSilent`: what keeps a call waiting is a server that neither writes nor reads what is written to it, or a
  `curl` without a limit: submit, poll, and the events where `OZR_SANDBOXD_EVENTS_MAX_TIME_S` is 0.
* `SearchableIsStored`: the search never finds what is no row. `MarkedIsIndexed`: a file that will not
  be looked at again is in the index to its last line. `OldStoreKept`: as long as builds take turns (`mishap`
  short of overlap) and none leaves an empty file behind inside an open, the text store survives a migration that fails
  anywhere; nothing in the code makes builds take turns. `IndexedOnce`: builds nothing interrupts
  double nothing. `LogKnowsFirst`: a vector is of a session in the log, and the index knows of sessions only what is
  in the log or came with the old store, whose events the migration copies without a look at the log. `RecallWithinBudget`: the hits keep to both budgets, one oversized hit apart. `IndexNeverShrinks`:
  later builds take nothing away. Four of them are conditional on `mishap`, the worst that has happened to a
  build, and say so because the code breaks them otherwise (section 6).
* `RunsReplayInFull`: without overlap and cuts a run that has an id of its own and has written no text that
  breaks its line reads back in full, whatever the others write. `CutsSpoilOneLineEach`: without overlap a crash
  costs one unreadable line, besides those that texts have broken. `NoVerdictIsInvented`: without overlap no run
  is reported to have ended in a way that no run of its id has logged. `DecisionsNotOvercounted`: whatever
  overlaps and whatever is cut off, the dashboard counts nothing twice.
* `ReportsAreTrue`: what the operator is told of a run is what became of it, whoever else decides.
  `NoSilentWait`: no run waits behind a message of success. `NoOrphan`: the server the shell started
  last is gone after exit, unless `start` has dropped it alive because `try_wait` failed. `BackToOperator`: the page
  comes back, unless its server is locked up by two approvals for good, or the port is another service's that need
  not answer; the requests of the page have no limit of their own.

Type invariants are theorems (section 5) rather than parts of the runs, and so are `RetryBound`,
`CompletedIsLogged`, `RecordsAgree` (checkpoint and replay do not contradict each other), `ActsOnce`
(nothing is proposed or executed after a tool has acted), `RiskyActionsAlwaysAsk` and `ReportsStand`. Each,
and each part of the inductive invariants below, was checked by TLC on the run's instance before it was
proved.

### Bounds

* *Runs and clients.* Two of each: the races of the store are between one gate and two callers, or between
  two runs for one id. `store_channel` gives one run all three approvals of the loop instead.
* *Milliseconds.* `MaxClock = 1`: two ids are enough for runs that share one and runs that do not (`shim`).
* *Requests.* `MaxRequests` at most 3: `run_once` asks once and after each of at most two retries.
* *Checkpoint.* Two processes race for the file and a third party overwrites it, and two ids for the three make
  some share one and some not; the theorems hold for any number. What `announced` and `resumes` remember is history
  for `AnnouncedIsResumable` alone, which this run does not check, so that states apart in it are one to the run
  (`WithoutAnnouncements`). The actors are interchangeable, so the run uses symmetry (safety only).
* *Loop.* `PlanTokens` {120, 400} against limits {100, 400, 1500} puts every sum on either side of the
  limit and on it; iterations 0 and 1 because `run_once` counts one.
* *Tools.* Two unread frames: one out of order before the one that counts. Retries 0 and 2, attempts 0 and
  3, interval, multiplier and cap zero, smaller and larger than each other.
* *Chat.* One chat request beside a run that may take its session id; a second chat request would be
  another reader like the first. `Streams` is empty: a stream differs in its reply code and in that
  hanging up does not stop its task. A decision more than `Deny` changes only what the run ends with.
* *Planning.* One tool for each word list, for pairs of lists and for none; the first of two catalog
  entries a reply names is taken, which two entries show. Budgets have one value: the theorems cover them.
* *Memory.* Two processes for every overlap; each builds twice in a run (before the recall and after). Two
  lines of one file are the least for "some but not all"; `MaxItems` = `MaxTokens` = 2 let hits fit, fill
  and exceed both budgets. One old session event is the least that the log need not have.
* *Audit.* Two runs are enough to mix a line, two cuts to have one line spoilt twice or two lines once each.
  A cut may come after any fragment, and any text but the two the log words itself may be an odd one. Two ids let
  the runs share one or not.
* *Desktop.* The page polls one session at a time, so two sessions show what is left behind when it
  turns to another. Two polls and two checks: one that goes on and the last. `MaxPlans = 2`: one plan after
  the one in the dialog.

`CHECK_DEADLOCK FALSE` is set because these systems may stop: runs end and clients go home. `audit` checks
for deadlock, with `Finished` as the only way to stop.

## 4. Fairness

* `SessionStore!ServerFairness`: weak fairness of each gate and of each admitted handler, because Tokio
  polls every task that can go on and its locks are fair queues. Nobody has to start a run, answer an
  approval or hang up. `ImpatientSpec` adds that a caller without an answer hangs up in the end; without
  that, `SubmitUnblocksWaiter` fails (6.1).
* `ChatShim!ShimFairSpec`: the same, the polling of the request, and that its 120 s pass.
* `AgentLoop!FairSpec`: weak fairness of the loop's own steps. Neither the model nor the operator nor the
  tool must answer; `Terminates` allows waiting for them for ever.
* `ToolExecution!FairSpec`: the client's own steps that cannot block and the clock. None of a write to the MCP
  server's stdin (`Send`: `write_all` has no timeout, and a child need not read), of the MCP server, or of `curl`
  without a limit (submit, poll, and the events with `--max-time 0`); `EndsUnlessSilent` names exactly these waits.
* `Desktop!FairSpec`: strong fairness of the page's steps while no other service has the port. A request is queued at
  the store's fair lock and has its turn when the store is free again, however often it was locked up before; while it
  is locked up there is no step to be fair to, and no obligation for the client that could free it. `GiveUp` asks
  nobody. Servers, runs, other clients, the shell and the operator are under no obligation.

## 5. Proofs

Every invariant and every action property of the passing runs is proved for arbitrary constants, and so are
the two refinements without fairness (`ImplementsChannel`, `ImplementsGuardedRun`). The proofs rest on the named
assumptions of the modules (`SessionStoreAssumption`, `ChatShimAssumption`, `PolicyPackAssumption`,
`PlanningAssumption`, `AgentLoopAssumption`, `CheckpointAssumption`, `ToolAssumption`, `MemoryAssumption`,
`BoundsAreUsable`, `AuditLogAssumption`), which give the constants the types they have in the code; TLC evaluates
each of them in a run. Beyond types they say: the bounds are numbers, those on polls and checks not zero; the
text store and the set of runs that log are finite; a run id is no event name, as ids begin with `run-`; no file is called like a
session's news.

* **SessionStoreProofs.** `TypeCorrect`, `StatusCorrect`, `NoWakeupIsLost`, `AckedDecisionIsApplied`,
  `WaitingRunIsVisible` and `StoreImplementsChannel`, for any number of runs, clients, ids and requests.
  The invariants are not inductive alone: `OnlyAskedPlans` (no slot, permit or handler belongs to a plan
  that was not asked about), `FullSlots` (a client past the slot has filled it; a decision in a slot stays)
  and `SessionsExist` (a started run's id is in the map) are added. The refinement maps each step to a
  step or a stutter of the channel. `EveryWaitingIsVisible` and `ReviewedPlanIsDecided` are false (6.4, 6.2).
  Then the chat requests: `ShimImplementsStore` says that a `ShimSpec` behaviour is one of `Spec`, so all of the
  above holds with them, too. `ChatTypeCorrect` and `ChatGetsOwnAnswer` (`OwnAnswer`) rest on `ShimInv`:
  `EndsAreWritten` ties the status and the text of an ended session to the run that wrote both,
  `ChatsHaveRuns` and `AnswersHaveAuthors` tie an answer to a run that had started.
* **PlanningProofs.** For the start-up, `RequiredSandboxWired` and `RiskyActionsAsk`, for all budgets; `Prepared`
  relates the policy at each stage to the configuration. For the plan, `UnaskedPlansRead`, for any set of tools
  and any words in their names: no policy the start-up makes trusts a shell, every entry of the catalog has
  the kind of its name, and so has the plan.
* **AgentLoopProofs.** `TypeCorrect`, `RetriesBounded`, `EffectsAreGated`, `BudgetIsRespected`,
  `ProductionKeepsOffHost`, `RefusedRunsDidNothing`, `CheckpointFollowsLog`, `LoopIsGuardedRun`,
  `ReplayTellsTheEnd`, `RecordsDoNotContradict` and the action property `OneActPerRun`. `Counted` relates proposals, retries and the place in the loop, and `ClearedPlans` says that
  from routing on the log holds the approval of the plan in hand. For the refinement `PlansInTurn` adds that
  no plan is let through before the gate has answered for it, that the record is untouched before the session
  begins, and how a run that is closing got there; each of the loop's steps then maps to one step of
  `GuardedRun` or to none. For the replay `LastWord` says that no line before the last decides anything, that
  the last one decides as the run ended (where it could be written and read), that a completion follows
  an execution, and that the checkpoint's status is the end's.
* **CheckpointProofs.** `TypeCorrect`, `CheckpointTellsTheTruth`, `EndedRunsStayEnded`,
  `FailedRunsDidNothing`, for any number of processes and ids, shared or not; `UniqueIdsTellWhose` says what they come
  to for a run that no other shares its id with. The file alone is not enough: every save under way
  (`buf`) must be true when it lands, which `AllSound`, `Placed` and `OwnSaves` say.
* **ToolExecutionProofs.** `TypeCorrect`, `OkIsEarned`, `ExecutionsAreBounded`, `TaskReportIsTrue`,
  `PollDelayInRange`, for all settings and any pipe. `FramesSound` ties a result in the pipe to the child
  having acted; `SessionPlaced` and `TaskPlaced` keep the two branches of `execute` apart.
* **MemoryProofs.** `TypeCorrect` and all seven properties of the run (`FoundIsStored`, `MarksHideNothing`,
  `TextStoreSurvives`, `OneRowPerLine`, `LogComesFirst`, `BudgetIsKept`, `IndexKeepsAll`), for any number of
  processes, files, lines, facts and hits. What a process still has to do is in the state (`agenda`, `stack`), so
  the invariant is about these lists: `Kinds` and `KnownEvents` say which statements they hold for which goal,
  `MarksEarned` that every mark in one comes after what is missing of its file, `StackHolds` that a list put
  aside is the one of the text store. `Placed`, `Connected` and `HeadIsRow` relate a process to the statement it is
  at; `OneBuilder` turns "no overlap" (`mishap`) into one builder at a time. On top of them `FilesAgree` follows the text store
  through the rename step by step (`TextStoreSurvives` is under its condition: builds that take turns and leave no empty
  database), `Known` and `OldSessionsApart` keep what comes from the old store apart from what a session logs, and `UndisturbedOnce` holds that lines are in the index without their mark only
  while one builder is at their file. The lemmas at the head of the module are about lists of statements and
  about what `TrimToTokenBudget` leaves.
* **AuditLogProofs.** `TypeCorrect`, `UndisturbedLogIsRead`, `CutsAreCheap`, `VerdictsAreSaid`, `CountsAreBegun`, for any
  finite set of runs, any ids, any histories, any odd texts and any number of cuts. `OneWriter` is what "no overlap" means; `TailIsKnown` says
  that the piece after the last line break is then either just what the append under way has written (`Tidy`) or
  the remains of a cut, which garble whatever comes next (`Spoiled`). `OddTail` says that without cuts
  only an odd text that is under way leaves such remains. `CutsPay` charges a spoilt line to its cut or its text from the moment the tail is spoilt; `LinesAreSaid` and `LinesInPlace` say whose lines there are and where.
  `TextsAreBegun`, which holds with overlaps, counts the tail's first text among those begun, because the next
  close makes a line of it. That a set of places has a maximum is proved by well-founded induction.
* **DesktopProofs.** `TypeCorrect`, `ReportsTrue`, `NobodyWaitsUnseen`, `ChildStopsWithShell`, and the action property
  `ReportsAreFinal`, for any number of sessions, polls and checks. `PageInPhase` says what each phase is busy
  with, `RunsAreKnown` that a started run is the page's or was reported on, `PortIsChilds` and `RunsHaveServers` which
  server listens and holds the sessions, and `ChildIsHeld` that a live child can still be killed or was dropped.

Only model-checked: everything under fairness (`SubmitUnblocksWaiter`, `ImplementsFairChannel`,
`ChatIsAnswered`, `Terminates`, `EndsUnlessSilent`, `BackToOperator`), which is out of the prover's reach.
What a recursive definition computes for every input is not proved either; no property here depends on it, because
the readers of the audit log are stated with sets of places instead.

## 6. Where the code and its documents disagree

Shown by runs:

1. **A second approval can stop the server** (`store_duplicate_approve`). The gate asks for the write
   lock with the slot's mutex held; the second `submit_approval` waits for the mutex with the read lock held.
   It ends only if the second caller hangs up. Meanwhile no request is served, chat requests do not time out
   either, and the run does not go on. The documents promise that a submitted approval unblocks its waiter
   (`src/api/state.rs:155` and its test).
2. **A late decision is applied to the next plan** (`store_stale_approval`), against what
   `ui/src/components/ApprovalModal.tsx:67` asks of the operator.
3. **A tool error leaves no trace** (`loop_replay_failure`): no `loop_failed` line, and the checkpoint stays
   running, against `ozr.md:166`.

Stated in a module, without a run of their own:

4. **Runs of one millisecond share a session** (`EveryWaitingIsVisible` of `SessionStore`; two runs and
   `MaxClock = 0` show it), against `README.md:12`.
5. **An announced session is overwritten** (`AnnouncedIsResumable` of `Checkpoint`; two processes of the
   command line show it): `ozr run` says "Use `ozr session resume` to continue" (`src/cli.rs:109`) and then
   overwrites the checkpoint; before it, `resume` refuses because the status is still running; against
   `ozr.md:165`.
6. **Audit lines of concurrent runs mix** (`AuditLog`; `NoVerdictIsInvented` without its `~overlapped`): an append is several
   writes, and a line may come out with one run's id and another's event, so that a denied run replays as
   completed; against `ozr.md:102`.
7. **The GUI adopts any ozr server, and holds a dead child** (`Health`, `Start`): it is not told whether the
   server is its own, and a child that died after it was healthy is never started again; against
   `ui/README.md:15` and `docs/sandboxd-local.md:88`.
8. **The GUI gives up after 20 s** (`GiveUp`) and says the run failed, although it goes on and may ask again;
   against `ui/README.md:58`.
9. **A single hit may exceed the token budget** (`TrimToTokenBudget` always keeps the first), against
   `INTEGRATION_SPEC.md:134`.

Seen while modelling:

* The clock is read once, before the first plan (`agent_loop.rs:68`): tools run after `max_run_time`, where
  `ozr.md:61` has a timeout per step and run.
* At the prompt an edited high-risk plan executes without a typed reason (`approval.rs:133`; `ozr.md:76`),
  and `OZR_APPROVAL_MODE=auto` approves a shell action under every pack (`docs/architecture.md:88`).
* The strict pack turns the ultra mode into full, which lowers writes and network calls from High to Medium;
  the fast and production packs raise a budget above the configured one (`policy_pack.rs:43-65`; `ozr.md:88`).
* A reason with a backslash or a line break makes an unreadable audit line, or two, which the readers skip
  (`audit.rs:42`; `WriteOdd`): `RunsReplayInFull` excepts the runs that have written one.
* Run ids are milliseconds like session ids (`agent_loop.rs:213`): two runs of one millisecond update each other's
  checkpoint, which then has the prompt of one and the end of the other, and replay reads their lines as those of one
  run (`CheckpointIsTrue` and `RunsReplayInFull` are stated for ids, or for runs with an id of their own).
* A crash inside `save_checkpoint` leaves an empty file, and every later `ozr run` fails on it.
  A live run is marked as interrupted by any other command, and resuming repeats what it did
  (`ozr.md:130` plans idempotency keys).
* `call_tool` is retried after errors the server reports and after it has acted (`ozr.md:126-130`); a silent
  server, or one that does not read its stdin, is waited for without end, and so are the events where their limit
  is 0 (`sandbox_executor.rs:293`); a task that failed, or had not ended when the polls ran out, is an Ok,
  which the loop logs as executed.
* A run's error that contains "timed out" makes a chat request answer 504 as if the run went on.
* A process that dies between the creation of `memory.db` and its schema leaves an empty file. The next build
  takes it for a text store and renames it over `memory.db.legacy`, the only copy of the old one
  (`memory_sqlite.rs:76`; `OldStoreKept` with `mishap = Torn`).
* Two builds that overlap on an old text store may both have read it, and the second then renames the new database
  over `memory.db.legacy`, the only copy of the old one (`OldStoreKept` with `mishap = Overlap`); or they mark files
  whose lines went with the renamed one (`MarkedIsIndexed`, `IndexNeverShrinks`).
* The migration copies session events of the text store that the event log may not have, as its own test has it
  (`memory_sqlite.rs:504`): afterwards the index knows sessions that the log does not.
* Indexing that is interrupted begins anew and doubles the lines it had inserted; changes of an indexed
  file, and its lines beyond 200, are never indexed; a fact is never extracted from an event, because no
  caller's events begin with `fact:`; `recall_facts` limits before it filters by trust; a vector store that
  fails aborts the recall of a run, but not its ingest.
* The GUI retries a 200 that is not ozr's `ok`, never drains its child's output, drops the child un-killed
  when `try_wait` fails (`Settle`; `NoOrphan` excepts it), waits without limit for a server that two approvals have
  locked up (`ozrClient.ts:77`; `BackToOperator` excepts it), and loses a run on reload; the failed branch of `finishRun` is never reached.

## 7. What is not modelled

Data the properties do not tell apart: prompts, tool names beyond the words they match, parameters, results,
texts of messages and log lines, time stamps, trust scores and the ranking of hits. Pure input and output:
the HTML of the dashboard, the sandboxd checklist, the spec workflow, help texts, configuration files, the
JSON helpers. Remote services are environments: the model behind the LLM adapters may name any tools in its
reply, the vector store may refuse any point. The loop takes any kind for any plan, a superset of what
`Planning` shows. The byte level of the MCP framings and the cache of `tools/list` are not modelled: the
session steps are those of `call_tool`. The command line is modelled where it drives a component (checkpoint,
memory, start-up, replay); its argument parsing and its printing are not. `integration_fixtures.rs` and
`tests/` test.

## 8. Plan

Done, in this order: `SessionStore` with its abstraction, `Policy`, `PolicyPack`, `AgentLoop` with `Replay`,
`Checkpoint`, `ToolExecution`, `ChatShim`; then `Memory`, `AuditLog`, `Desktop`, `Planning` and `GuardedRun`
with the loop's refinement; then the proofs of `Memory`, `Desktop`, `ChatShim`, `AuditLog` and `ReplayAgrees`, with
which every safety property of the runs is proved.

Next, proving: what the abstract specifications promise, as theorems of their own (`GuardedRun`: at most one
plan acts, and only approved if it is risky; `ApprovalChannel`: one decision for each plan), so that the
refinements carry them over; and more action properties from the invariants there are (a decision taken is never
changed, an ended run's record is final).

Next, modelling: `ToolExecution` as a refinement of the loop's `Execute`, and `Desktop` on top of
`SessionStore` in place of the views it sees.
