----------------------------- MODULE Checkpoint -----------------------------
(***************************************************************************)
(* The session checkpoint of ozr (src/core/session_recovery.rs): the one   *)
(* file in which a run leaves its prompt and status, shared by every `ozr  *)
(* run`, `ozr session resume` and API run of a workspace (src/cli.rs), and *)
(* guarded by no lock.                                                     *)
(*                                                                         *)
(* A step ends where another process can get in: a load reads the file at  *)
(* once, a save is fs::write, which empties the file and then writes it.   *)
(* Left out: time stamps, last_event and failure_reason, the memory context *)
(* that layered memory appends to a prompt, writes that fail, and of the   *)
(* loop all but what it does to the checkpoint (AgentLoop has the rest).   *)
(***************************************************************************)
CONSTANTS
  CliRuns,     \* invocations of `ozr run` and `ozr session resume`, one process each
  ServerRuns,  \* POST /v1/run requests, all of them tasks of one `ozr serve`
  Prompts,     \* the prompts users give
  Ids,         \* the run ids of the clock, one per millisecond
  NoId,        \* no id yet, or nobody's
  NoPrompt     \* no prompt yet

Runs == CliRuns \cup ServerRuns

ASSUME CheckpointAssumption == NoId \notin Ids /\ NoPrompt \notin Prompts

\* SessionCheckpoint, and what a file that holds none looks like.
Record(i, text, status) == [run |-> i, prompt |-> text, status |-> status]
Statuses == {"Running", "Completed", "Failed", "Interrupted"}
Checkpoints == [run: Ids, prompt: Prompts, status: Statuses]
Blank(status) == Record(NoId, NoPrompt, status)

VARIABLES
  file,       \* the checkpoint file
  buf,        \* the checkpoint a run is about to write
  opened,     \* has its fs::write emptied the file already?
  pc,         \* where the run stands
  prompt,     \* its prompt
  id,         \* its run id
  announced,  \* the id it reported as interrupted when it started
  resumes,    \* history: the id of the run whose prompt it took up
  acted,      \* history: has its tool acted?
  result      \* how its run_once ended

ioVars == <<buf, opened>>
historyVars == <<announced, resumes, acted, result>>
vars == <<file, buf, opened, pc, prompt, id, announced, resumes, acted, result>>

TypeOK ==
  /\ file \in Checkpoints \cup {Blank(s) : s \in {"Absent", "Empty", "Torn"}}
  /\ buf \in [Runs -> Checkpoints \cup {Blank("Absent")}]
  /\ opened \in [Runs -> BOOLEAN]
  /\ pc \in [Runs -> {"new", "detect", "prepare", "begin", "loop", "acted",
                      "ended", "refused", "dead"}]
  /\ prompt \in [Runs -> Prompts \cup {NoPrompt}]
  /\ id \in [Runs -> Ids \cup {NoId}]
  /\ announced \in [Runs -> Ids \cup {NoId}]
  /\ resumes \in [Runs -> Ids \cup {NoId}]
  /\ acted \in [Runs -> BOOLEAN]
  /\ result \in [Runs -> {"None", "Completed", "Failed", "Escaped"}]

Init ==
  /\ file = Blank("Absent")
  /\ buf = [r \in Runs |-> Blank("Absent")]
  /\ opened = [r \in Runs |-> FALSE]
  /\ pc = [r \in Runs |-> "new"]
  /\ prompt = [r \in Runs |-> NoPrompt]
  /\ id = [r \in Runs |-> NoId]
  /\ announced = [r \in Runs |-> NoId]
  /\ resumes = [r \in Runs |-> NoId]
  /\ acted = [r \in Runs |-> FALSE]
  /\ result = [r \in Runs |-> "None"]

-----------------------------------------------------------------------------
(* The file *)

\* serde_json cannot parse it.
Unreadable == file.status \in {"Empty", "Torn"}

\* Nothing is being saved: calls are synchronous, so r does one thing at a time.
Saved(r) == buf[r] = Blank("Absent")

GoTo(r, step) == pc' = [pc EXCEPT ![r] = step]

\* save_checkpoint, first half: fs::write opens the file, which empties it.
Truncate(r) ==
  /\ ~Saved(r)
  /\ ~opened[r]
  /\ opened' = [opened EXCEPT ![r] = TRUE]
  /\ file' = Blank("Empty")
  /\ UNCHANGED <<buf, pc, prompt, id, historyVars>>

\* Second half: the bytes go in.  Over what another save has put there meanwhile
\* they may leave a longer text's tail standing, and then the file is no JSON.
WriteOut(r) ==
  /\ opened[r]
  /\ file' \in {buf[r]} \cup (IF file.status = "Empty" THEN {} ELSE {Blank("Torn")})
  /\ buf' = [buf EXCEPT ![r] = Blank("Absent")]
  /\ opened' = [opened EXCEPT ![r] = FALSE]
  /\ UNCHANGED <<pc, prompt, id, historyVars>>

\* The checks of update_status: the file exists, can be parsed, and has this run's
\* id (the faulty one takes any run's), which is one of another run too when the
\* two began in the same millisecond or the clock was set back in between.
AnyCheckpoint(r) == file.status \in Statuses
Mine(r) == file.run = id[r]

\* update_status: load, set the status, save; an error is ignored (the faulty one
\* forgets to set it).
UpdateNothing(r, status) == buf' = IF Mine(r) THEN [buf EXCEPT ![r] = file] ELSE buf
UpdateStatus(r, status) ==
  buf' = IF Mine(r) THEN [buf EXCEPT ![r] = [file EXCEPT !.status = status]] ELSE buf

-----------------------------------------------------------------------------
(* `ozr run` and `ozr session resume` *)

RunCommand(r, p) ==
  /\ r \in CliRuns
  /\ pc[r] = "new"
  /\ prompt' = [prompt EXCEPT ![r] = p]
  /\ GoTo(r, "detect")
  /\ UNCHANGED <<file, ioVars, id, historyVars>>

\* recoverable_prompt: interrupted and failed runs only.
Recoverable == file.status \in {"Interrupted", "Failed"}

ResumeCommand(r) ==
  /\ r \in CliRuns
  /\ pc[r] = "new"
  /\ Recoverable
  /\ prompt' = [prompt EXCEPT ![r] = file.prompt]
  /\ resumes' = [resumes EXCEPT ![r] = file.run]
  /\ GoTo(r, "detect")
  /\ UNCHANGED <<file, ioVars, id, announced, acted, result>>

\* "no recoverable session checkpoint", or one that cannot be parsed.
ResumeRefused(r) ==
  /\ r \in CliRuns
  /\ pc[r] = "new"
  /\ ~Recoverable
  /\ GoTo(r, "refused")
  /\ UNCHANGED <<file, ioVars, prompt, id, historyVars>>

\* detect_interrupted_checkpoint finds a running run, live or not: it saves it as
\* interrupted, and the operator is told to resume it.
DetectInterrupted(r) ==
  /\ pc[r] = "detect"
  /\ file.status = "Running"
  /\ buf' = [buf EXCEPT ![r] = [file EXCEPT !.status = "Interrupted"]]
  /\ announced' = [announced EXCEPT ![r] = file.run]
  /\ GoTo(r, "prepare")
  /\ UNCHANGED <<file, opened, prompt, id, resumes, acted, result>>

DetectNothing(r) ==
  /\ pc[r] = "detect"
  /\ file.status # "Running"
  /\ GoTo(r, IF Unreadable THEN "refused" ELSE "prepare")
  /\ UNCHANGED <<file, ioVars, prompt, id, historyVars>>

\* generate_run_id: the milliseconds of the system clock.
GetId(r) == \E i \in Ids : id' = [id EXCEPT ![r] = i]

\* prepare_runtime, the memory, the run id and the first audit line; any of them
\* may fail.
Prepare(r) ==
  /\ pc[r] = "prepare"
  /\ Saved(r)
  /\ \/ GoTo(r, "begin") /\ GetId(r)
     \/ GoTo(r, "refused") /\ UNCHANGED id
  /\ UNCHANGED <<file, ioVars, prompt, historyVars>>

\* start_run: no look at the checkpoint.
StartServerRun(r, p) ==
  /\ r \in ServerRuns
  /\ pc[r] = "new"
  /\ prompt' = [prompt EXCEPT ![r] = p]
  /\ GoTo(r, "begin") /\ GetId(r)
  /\ UNCHANGED <<file, ioVars, historyVars>>

-----------------------------------------------------------------------------
(* run_once *)

\* begin_session takes the file over, whatever is in it.
BeginSession(r) ==
  /\ pc[r] = "begin"
  /\ buf' = [buf EXCEPT ![r] = Record(id[r], prompt[r], "Running")]
  /\ GoTo(r, "loop")
  /\ UNCHANGED <<file, opened, prompt, id, historyVars>>

\* touch_session: load, and save what was loaded with another last_event.
TouchSession(r) ==
  /\ pc[r] = "loop"
  /\ Saved(r)
  /\ Mine(r)
  /\ buf' = [buf EXCEPT ![r] = file]
  /\ UNCHANGED <<file, opened, pc, prompt, id, historyVars>>

\* The tool acts.
Execute(r) ==
  /\ pc[r] = "loop"
  /\ Saved(r)
  /\ acted' = [acted EXCEPT ![r] = TRUE]
  /\ GoTo(r, "acted")
  /\ UNCHANGED <<file, ioVars, prompt, id, announced, resumes, result>>

\* run_once returns after complete_session or fail_session.
End(r, how) ==
  /\ Saved(r)
  /\ UpdateStatus(r, how)
  /\ result' = [result EXCEPT ![r] = how]
  /\ GoTo(r, "ended")
  /\ UNCHANGED <<file, opened, prompt, id, announced, resumes, acted>>

\* The tool has acted, or the operator skipped.
CompleteSession(r) == pc[r] \in {"loop", "acted"} /\ End(r, "Completed")

\* A denial, or fail_run.
FailSession(r) == pc[r] = "loop" /\ End(r, "Failed")

\* An error leaves run_once by `?` (the faulty one goes through fail_session).
EscapeByFailSession(r) == pc[r] \in {"loop", "acted"} /\ End(r, "Failed")
Escape(r) ==
  /\ pc[r] \in {"loop", "acted"}
  /\ Saved(r)
  /\ result' = [result EXCEPT ![r] = "Escaped"]
  /\ GoTo(r, "ended")
  /\ UNCHANGED <<file, ioVars, prompt, id, announced, resumes, acted>>

-----------------------------------------------------------------------------
(* What goes wrong *)

\* A run that is under way, or has its last save under way.
Alive(r) ==
  \/ pc[r] \in {"detect", "prepare", "begin", "loop", "acted"}
  \/ pc[r] = "ended" /\ ~Saved(r)

\* These processes die; what they have not written is lost.
Die(dead) ==
  /\ pc' = [r \in Runs |-> IF r \in dead THEN "dead" ELSE pc[r]]
  /\ buf' = [r \in Runs |-> IF r \in dead THEN Blank("Absent") ELSE buf[r]]
  /\ opened' = [r \in Runs |-> opened[r] /\ r \notin dead]
  /\ UNCHANGED <<file, prompt, id, historyVars>>

CrashCli(r) == r \in CliRuns /\ Alive(r) /\ Die({r})

\* The server takes its tasks along.
CrashServer ==
  LET tasks == {r \in ServerRuns : Alive(r)} IN tasks # {} /\ Die(tasks)

-----------------------------------------------------------------------------
RunStep(r) ==
  \/ Truncate(r) \/ WriteOut(r)
  \/ \E p \in Prompts : RunCommand(r, p) \/ StartServerRun(r, p)
  \/ ResumeCommand(r) \/ ResumeRefused(r)
  \/ DetectInterrupted(r) \/ DetectNothing(r) \/ Prepare(r)
  \/ BeginSession(r) \/ TouchSession(r) \/ Execute(r)
  \/ CompleteSession(r) \/ FailSession(r) \/ Escape(r)
  \/ CrashCli(r)

Next == (\E r \in Runs : RunStep(r)) \/ CrashServer

Spec == Init /\ [][Next]_vars

-----------------------------------------------------------------------------
(* Properties *)

\* The runs that bear an id: one, unless the clock has given it twice.
Bearers(i) == {r \in Runs : id[r] = i}

\* What a checkpoint says is so of runs that bear its id.
TrueOf(c) ==
  c.status \in Statuses =>
    /\ \E r \in Bearers(c.run) : c.prompt = prompt[r]
    /\ c.status = "Completed" => \E r \in Bearers(c.run) : result[r] = "Completed"
    /\ c.status = "Failed" => \E r \in Bearers(c.run) : result[r] = "Failed"

\* Whatever load-modify-save races with whatever, the file never has the prompt
\* of one run id with the status of another, nor an id as completed or failed of
\* which no run ended so.  Two runs of one id, which the clock allows, are one to
\* the file: it may then have the prompt of one with the end of the other.
CheckpointIsTrue == TrueOf(file)

\* An id whose run has ended and written its last status is never shown as running
\* again, by any save that was under way: a run that bears it is still to end, or
\* to save its end, or has left by an error, which saves nothing.
EndedStaysEnded ==
  file.status = "Running" =>
    \E r \in Bearers(file.run) : ~(pc[r] = "ended" /\ Saved(r) /\ result[r] # "Escaped")

\* An id the checkpoint calls failed is that of a run which failed and has done
\* nothing, so that resuming it does nothing twice (unless another run of the same
\* id did something, and its prompt is the one in the file).
FailedDidNothing ==
  file.status = "Failed" => \E r \in Bearers(file.run) : result[r] = "Failed" /\ ~acted[r]

\* "Detected interrupted session ... Use `ozr session resume` to continue"
\* (src/cli.rs): once the command that says so is over, an announced id whose runs
\* have crashed can be resumed, or has been.
AnnouncedIsResumable ==
  \A r \in CliRuns :
    /\ pc[r] = "ended" /\ Saved(r) /\ announced[r] # NoId
    /\ \A q \in Bearers(announced[r]) : pc[q] = "dead"
    =>
      \/ file.run = announced[r] /\ Recoverable
      \/ \E q \in CliRuns : resumes[q] = announced[r]

=============================================================================
