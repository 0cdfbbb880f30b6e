------------------------------- MODULE Desktop -------------------------------
(***************************************************************************)
(* The desktop GUI: the process that starts and stops `ozr serve`          *)
(* (ui/src-tauri/src/ozr_process.rs, lib.rs) and the page that submits     *)
(* prompts, polls their sessions and posts the operator's decisions        *)
(* (ui/src/components/Workspace.tsx, ui/src/api/ozrClient.ts), against     *)
(* servers that live and die on their own and other clients that decide    *)
(* the same sessions.                                                      *)
(*                                                                         *)
(* A session is what the page sees of it: the view the server gives        *)
(* (src/api/state.rs).  The locks and wakeups under it are those of        *)
(* SessionStore; here is what they come to: a server whose store is locked *)
(* up answers nobody until the client that locked it up hangs up.          *)
(***************************************************************************)
EXTENDS Naturals

CONSTANTS
  Sessions,   \* the runs the operator may start
  MaxPolls,   \* polls before pollSessionUntil gives up (80 in the page)
  MaxChecks,  \* health checks before wait_until_healthy gives up (40)
  MaxPlans    \* bound: plans a run asks about

Nobody == "nobody"
NoSession == "no session"

Decisions == {"approve", "deny", "skip", "retry"}

ASSUME BoundsAreUsable ==
  /\ NoSession \notin Sessions
  /\ MaxPolls \in Nat \ {0} /\ MaxChecks \in Nat \ {0} /\ MaxPlans \in Nat

VARIABLES
  \* the servers
  port,      \* who listens: nobody, our child, another ozr, another service
  child,     \* the spawned process: "none", "starting", "serving" or "dead"
  status,    \* session -> "none", "running", "pending" or how it ended
  home,      \* session -> the server that holds it, nobody once that is gone
  asked,     \* session -> how often it has asked, 0 once it has ended
  decision,  \* session -> the decision taken from its slot or in it, or "none"
  stuck,     \* the session whose gate and second approval block each other
  \* the shell
  mode,      \* "spawned" or "external" (ConnectionMode)
  boot,      \* where prepare_api is, and what came of it
  held,      \* OzrProcess.child is Some
  dropped,   \* history: the child is forgotten alive, for try_wait had failed
  checks,    \* health checks made
  \* the page
  phase,     \* RunPhase
  step,      \* the request the handler makes next
  session,   \* the session of the handler
  polls,     \* polls made
  reported   \* session -> what the operator was told about it in the end

runVars == <<status, home, asked, decision, stuck>>
serverVars == <<port, child, runVars>>
shellVars == <<mode, boot, held, dropped, checks>>
pageVars == <<phase, step, session, polls, reported>>
vars == <<serverVars, shellVars, pageVars>>

-----------------------------------------------------------------------------
(* Servers and runs                                                        *)

Serves(owner) == owner \in {"child", "ozr"}

\* The process `owner` is gone: its port is free, its runs are dead.
Down(owner) ==
  /\ port' = IF port = owner THEN Nobody ELSE port
  /\ status' = [s \in Sessions |->
       IF home[s] = owner /\ status[s] \in {"running", "pending"}
         THEN "killed" ELSE status[s]]
  /\ home' = [s \in Sessions |-> IF home[s] = owner THEN Nobody ELSE home[s]]
  /\ asked' = [s \in Sessions |-> IF home[s] = owner THEN 0 ELSE asked[s]]
  /\ decision' = [s \in Sessions |-> IF home[s] = owner THEN "none" ELSE decision[s]]
  /\ stuck' = IF port = owner THEN NoSession ELSE stuck

\* The child lives on without a shell and is now a server like any other.
Abandon ==
  /\ IF child = "serving"
       THEN /\ port' = "ozr"
            /\ home' = [s \in Sessions |-> IF home[s] = "child" THEN "ozr" ELSE home[s]]
       ELSE UNCHANGED <<port, home>>
  /\ UNCHANGED <<status, asked, decision, stuck>>

\* `ozr serve` binds its port, or exits because it is taken.
ChildBinds ==
  /\ child = "starting"
  /\ IF port = Nobody THEN child' = "serving" /\ port' = "child"
                      ELSE child' = "dead" /\ UNCHANGED port
  /\ UNCHANGED <<runVars, shellVars, pageVars>>

ChildDies ==
  /\ child \in {"starting", "serving"}
  /\ child' = "dead"
  /\ Down("child")
  /\ UNCHANGED <<shellVars, pageVars>>

\* Another process takes the port: a server of ozr, or one of something else.
OtherBinds(owner) ==
  /\ port = Nobody
  /\ port' = owner
  /\ UNCHANGED <<child, runVars, shellVars, pageVars>>

OtherLeaves ==
  /\ port \in {"ozr", "alien"}
  /\ Down(port)
  /\ UNCHANGED <<child, shellVars, pageVars>>

\* The store of the server that listens is locked: whoever needs it waits.
LockedUp == stuck # NoSession

\* Guardrail asks about a plan (register_pending).
Ask(s) ==
  /\ ~LockedUp
  /\ status[s] = "running" /\ asked[s] < MaxPlans
  /\ decision[s] \in {"none", "retry"}
  /\ status' = [status EXCEPT ![s] = "pending"]
  /\ asked' = [asked EXCEPT ![s] = @ + 1]
  /\ decision' = [decision EXCEPT ![s] = "none"]
  /\ UNCHANGED <<port, child, home, stuck, shellVars, pageVars>>

\* Another client decides (submit_approval).
OtherDecides(s, d) ==
  /\ ~LockedUp
  /\ status[s] = "pending" /\ decision[s] = "none"
  /\ decision' = [decision EXCEPT ![s] = d]
  /\ UNCHANGED <<port, child, status, home, asked, stuck, shellVars, pageVars>>

\* The gate has the decision and clears the pending plan.
ClearPending(s) ==
  /\ status[s] = "pending" /\ decision[s] # "none"
  /\ status' = [status EXCEPT ![s] = "running"]
  /\ UNCHANGED <<port, child, home, asked, decision, shellVars, pageVars>>

Resume(s) == ~LockedUp /\ ClearPending(s) /\ UNCHANGED stuck

\* Another client's approval comes second: the gate holds the slot and waits for
\* the store, the approval holds the store and waits for the slot
\* (SessionStore.SubmitUnblocksWaiter).
LockUp(s) ==
  /\ ~LockedUp
  /\ status[s] = "pending" /\ decision[s] # "none"
  /\ stuck' = s
  /\ UNCHANGED <<port, child, status, home, asked, decision, shellVars, pageVars>>

\* That client goes away: its request is dropped, and the gate has the store first.
HangUp ==
  /\ LockedUp /\ step # "hung"
  /\ ClearPending(stuck)
  /\ stuck' = NoSession

\* run_agent_once returns, complete or fail: a denied plan has failed its run, a
\* skipped one has completed it unless the audit log could not be written.
End(s, outcome) ==
  /\ ~LockedUp
  /\ status[s] = "running"
  /\ decision[s] = "deny" => outcome = "failed"
  /\ status' = [status EXCEPT ![s] = outcome]
  /\ asked' = [asked EXCEPT ![s] = 0]
  /\ decision' = [decision EXCEPT ![s] = "none"]
  /\ UNCHANGED <<port, child, home, stuck, shellVars, pageVars>>

-----------------------------------------------------------------------------
(* The shell: OzrProcess, prepare_api                                      *)

\* start: a child that is held, alive or not, is not started again; one that was
\* dropped is.
Start ==
  /\ boot = "start"
  /\ \/ /\ mode = "external" \/ held
        /\ boot' = "check"
        /\ UNCHANGED <<serverVars, dropped>>
     \/ /\ mode = "spawned" /\ ~held
        /\ child' = "starting" /\ boot' = "settle" /\ dropped' = FALSE
        /\ Abandon
     \/ /\ mode = "spawned" /\ ~held
        /\ boot' = "error"                              \* no binary, spawn fails
        /\ UNCHANGED <<serverVars, dropped>>
  /\ UNCHANGED <<mode, held, checks, pageVars>>

\* 250 ms later: try_wait.  Where it fails, start returns as if the child were
\* dead, and drops it without a kill.
Settle ==
  /\ boot = "settle"
  /\ \/ held' = (child # "dead") /\ UNCHANGED dropped
        /\ boot' = IF child = "dead" THEN "error" ELSE "check"
     \/ held' = FALSE /\ dropped' = TRUE /\ boot' = "error"
  /\ UNCHANGED <<serverVars, mode, checks, pageVars>>

\* An attempt of wait_until_healthy: check_child_failed, then GET /health.  Where
\* try_wait fails here, the child stays held.
CheckChild ==
  /\ boot = "check"
  /\ \/ mode = "spawned" /\ boot' = "error" /\ checks' = 0
     \/ ~(mode = "spawned" /\ (~held \/ child = "dead"))
        /\ boot' = "health" /\ UNCHANGED checks
  /\ UNCHANGED <<serverVars, mode, held, dropped, pageVars>>

\* Another service is told only by an answer that is neither 200 nor an error.
Health ==
  /\ boot = "health"
  /\ \/ Serves(port) /\ boot' = "connected" /\ checks' = 0
     \/ port = "alien" /\ boot' = "error" /\ checks' = 0
     \/ ~Serves(port) /\ checks + 1 < MaxChecks /\ boot' = "check" /\ checks' = checks + 1
     \/ ~Serves(port) /\ checks + 1 = MaxChecks /\ boot' = "error" /\ checks' = 0
  /\ UNCHANGED <<serverVars, mode, held, dropped, pageVars>>

\* stop kills the child that is held.  (The faulty one does so only where the page
\* got its connection.)
StopConnected ==
  IF mode = "spawned" /\ held /\ boot = "connected"
    THEN child' = "dead" /\ held' = FALSE /\ Down("child")
    ELSE UNCHANGED <<serverVars, held>>
Stop ==
  IF mode = "spawned" /\ held
    THEN child' = "dead" /\ held' = FALSE /\ Down("child")
    ELSE UNCHANGED <<serverVars, held>>

\* prepare_api is not async: it has the main thread until it returns, so exit and
\* a reload of the page find it done.
Prepared == boot \in {"connected", "error"}

ClosePage ==
  /\ phase' = "idle" /\ step' = "none" /\ session' = NoSession
  /\ polls' = 0

\* What the page was about is told to nobody.
LosePage ==
  /\ ClosePage
  /\ reported' = [s \in Sessions |-> IF s = session THEN "lost" ELSE reported[s]]

\* RunEvent::Exit.
Exit ==
  /\ Prepared
  /\ boot' = "exited"
  /\ Stop
  /\ LosePage
  /\ UNCHANGED <<mode, dropped, checks>>

\* The page is loaded again: its state is lost, and it calls prepare_api again.
Reload ==
  /\ Prepared
  /\ boot' = "start"
  /\ LosePage
  /\ UNCHANGED <<serverVars, mode, held, dropped, checks>>

\* The shell is killed and launched again, without its child.
Killed ==
  /\ boot # "exited"
  /\ boot' = "start" /\ held' = FALSE /\ dropped' = FALSE
  /\ LosePage
  /\ child' = "none"
  /\ Abandon
  /\ checks' = 0
  /\ UNCHANGED mode

-----------------------------------------------------------------------------
(* The page: handleSubmit and handleApproval                               *)

\* The status GET /v1/session/{id} shows; "error" where it throws.
Seen(s) == IF Serves(port) /\ home[s] = port THEN status[s] ELSE "error"

\* The finally block, after the operator was told.
Report(s, what) ==
  /\ reported' = [reported EXCEPT ![s] = what]
  /\ ClosePage

\* The next poll, or the end of polling.  (The faulty one polls for ever.)
PollForEver(onTimeout) == UNCHANGED <<polls, step>>
PollAgain(onTimeout) ==
  IF polls + 1 = MaxPolls
    THEN polls' = 0 /\ step' = onTimeout
    ELSE polls' = polls + 1 /\ UNCHANGED step

Submit(s) ==
  /\ boot = "connected" /\ phase = "idle"
  /\ reported[s] = "nothing" /\ status[s] = "none"
  /\ phase' = "running" /\ step' = "run" /\ session' = s
  /\ UNCHANGED <<serverVars, shellVars, polls, reported>>

\* POST /v1/run.  A request of the page has no time limit (fetch): it is answered,
\* or refused, when the server's store is not locked up.
Run ==
  /\ step = "run" /\ ~LockedUp
  /\ IF Serves(port)
       THEN /\ status' = [status EXCEPT ![session] = "running"]
            /\ home' = [home EXCEPT ![session] = port]
            /\ step' = "poll"
            /\ UNCHANGED <<phase, session, polls, reported>>
       ELSE Report(session, "failed") /\ UNCHANGED <<status, home>>
  /\ UNCHANGED <<port, child, asked, decision, stuck, shellVars>>

\* pollSessionUntil "pending_approval".
Poll ==
  /\ step = "poll" /\ ~LockedUp
  /\ CASE Seen(session) = "pending" ->
            /\ phase' = "awaiting_approval" /\ step' = "none" /\ polls' = 0
            /\ UNCHANGED <<session, reported>>
       [] Seen(session) = "running" ->
            PollAgain("latest") /\ UNCHANGED <<phase, session, reported>>
       [] OTHER ->
            step' = "latest" /\ polls' = 0 /\ UNCHANGED <<phase, session, reported>>
  /\ UNCHANGED <<serverVars, shellVars>>

\* The catch of handleSubmit looks once more, and throws what it caught unless the
\* run has completed.  (The faulty one throws only if it has failed.)
TellUnlessFailed(seen) == IF seen \in {"failed", "error"} THEN "failed" ELSE "completed"
Tell(seen) == IF seen = "completed" THEN "completed" ELSE "failed"

Latest ==
  /\ step = "latest" /\ ~LockedUp
  /\ Report(session, Tell(Seen(session)))
  /\ UNCHANGED <<serverVars, shellVars>>

\* The operator presses a button of the dialog.
Press(d) ==
  /\ phase = "awaiting_approval"
  /\ phase' = "approving" /\ step' = d
  /\ UNCHANGED <<serverVars, shellVars, session, polls, reported>>

\* POST /v1/session/{id}/approve.  The slot takes it if it is empty, whatever
\* plan it belongs to by now; a slot that is taken answers with an error, or the
\* gate and this request block each other, as in LockUp.
TakesDecision(s) == Seen(s) = "pending" /\ decision[s] = "none"

Decide ==
  /\ step \in {"approve", "deny"} /\ ~LockedUp
  /\ \/ /\ TakesDecision(session)
        /\ decision' = [decision EXCEPT ![session] = step]
        /\ IF step = "deny"
             THEN Report(session, "denied")
             ELSE /\ step' = "await" /\ polls' = 0
                  /\ UNCHANGED <<phase, session, reported>>
        /\ UNCHANGED stuck
     \/ /\ ~TakesDecision(session)
        /\ Report(session, "failed")
        /\ UNCHANGED <<decision, stuck>>
     \/ /\ Seen(session) = "pending" /\ decision[session] # "none"
        /\ step' = "hung" /\ stuck' = session
        /\ UNCHANGED <<phase, session, polls, reported, decision>>
  /\ UNCHANGED <<port, child, status, home, asked, shellVars>>

\* The connection of a request that got no answer breaks with its server.
Unhang ==
  /\ step = "hung" /\ Seen(session) = "error"
  /\ Report(session, "failed")
  /\ UNCHANGED <<serverVars, shellVars>>

\* pollSessionUntil "completed", which takes another request for approval for a run
\* that goes on.  (The faulty one takes any end for the one it waits for.)
AnyEnd == {"completed", "failed"}
AwaitedStatuses == {"completed"}
Await ==
  /\ step = "await" /\ ~LockedUp
  /\ CASE Seen(session) \in AwaitedStatuses -> Report(session, "completed")
       [] Seen(session) \in {"running", "pending"} ->
            PollAgain("gave_up") /\ UNCHANGED <<phase, session, reported>>
       [] OTHER -> Report(session, "failed")
  /\ UNCHANGED <<serverVars, shellVars>>

GiveUp ==
  /\ step = "gave_up"
  /\ Report(session, "failed")
  /\ UNCHANGED <<serverVars, shellVars>>

-----------------------------------------------------------------------------
(* Specification                                                           *)

Init ==
  /\ port \in {Nobody, "ozr", "alien"} /\ child = "none"
  /\ status = [s \in Sessions |-> "none"]
  /\ home = [s \in Sessions |-> Nobody]
  /\ asked = [s \in Sessions |-> 0]
  /\ decision = [s \in Sessions |-> "none"]
  /\ stuck = NoSession
  /\ mode \in {"spawned", "external"}
  /\ boot = "start" /\ held = FALSE /\ dropped = FALSE /\ checks = 0
  /\ phase = "idle" /\ step = "none" /\ session = NoSession
  /\ polls = 0
  /\ reported = [s \in Sessions |-> "nothing"]

ServerNext ==
  \/ ChildBinds \/ ChildDies \/ OtherLeaves \/ HangUp
  \/ \E owner \in {"ozr", "alien"} : OtherBinds(owner)
  \/ \E s \in Sessions :
       \/ Ask(s) \/ Resume(s) \/ LockUp(s)
       \/ \E d \in Decisions : OtherDecides(s, d)
       \/ \E outcome \in {"completed", "failed"} : End(s, outcome)

ShellStep == Start \/ Settle \/ CheckChild \/ Health
PageStep == Run \/ Poll \/ Latest \/ Decide \/ Unhang \/ Await \/ GiveUp

Next ==
  \/ ServerNext \/ ShellStep \/ PageStep
  \/ Exit \/ Reload \/ Killed
  \/ \E s \in Sessions : Submit(s)
  \/ \E d \in {"approve", "deny"} : Press(d)

Spec == Init /\ [][Next]_vars

\* Timers fire, and a request is answered by a server of ozr that is not locked up,
\* refused, or cut off when its server goes: however often the page's request finds
\* the store locked up, it is queued there and has its turn.  Another service on
\* the port, and a server that is locked up for good, need not answer.
FairSpec ==
  /\ Spec
  /\ SF_vars(port # "alien" /\ PageStep)
  /\ WF_vars(GiveUp)

-----------------------------------------------------------------------------
(* Properties                                                              *)

TypeOK ==
  /\ port \in {Nobody, "child", "ozr", "alien"}
  /\ child \in {"none", "starting", "serving", "dead"}
  /\ status \in [Sessions -> {"none", "running", "pending", "completed", "failed", "killed"}]
  /\ home \in [Sessions -> {Nobody, "child", "ozr"}]
  /\ asked \in [Sessions -> 0 .. MaxPlans]
  /\ decision \in [Sessions -> Decisions \cup {"none"}]
  /\ stuck \in Sessions \cup {NoSession}
  /\ mode \in {"spawned", "external"}
  /\ boot \in {"start", "settle", "check", "health", "connected", "error", "exited"}
  /\ held \in BOOLEAN /\ dropped \in BOOLEAN
  /\ checks \in 0 .. (MaxChecks - 1)
  /\ phase \in {"idle", "running", "awaiting_approval", "approving"}
  /\ step \in {"none", "run", "poll", "latest", "approve", "deny", "await", "hung", "gave_up"}
  /\ session \in Sessions \cup {NoSession}
  /\ polls \in 0 .. (MaxPolls - 1)
  /\ reported \in [Sessions -> {"nothing", "completed", "failed", "denied", "lost"}]

\* Whatever other clients decide, however late an answer is and whichever server
\* dies: a run the operator was told has completed did complete, and one the
\* operator denied with success never goes on, even where the denial hit a later
\* plan than the one in the dialog.
ReportsAreTrue ==
  \A s \in Sessions :
    /\ reported[s] = "completed" => status[s] = "completed"
    /\ reported[s] = "denied" =>
         \/ status[s] \in {"failed", "killed"}
         \/ status[s] \in {"pending", "running"} /\ decision[s] = "deny"

\* A run that waits for a decision is the one the page is busy with, unless the
\* operator was told that it failed (a time limit, an unreachable server, another
\* client's answer) or the page is gone: it is never left waiting behind a success
\* or a denial.
NoSilentWait ==
  \A s \in Sessions :
    status[s] = "pending" /\ decision[s] = "none" =>
      session = s \/ reported[s] \in {"failed", "lost"}

\* The server the shell has started last is gone once the shell has exited, whether
\* or not the page ever reached it, was reloaded, or the server was adopted; but
\* for one that start has dropped alive because try_wait failed, which nobody stops.
NoOrphan == boot = "exited" => child \notin {"starting", "serving"} \/ dropped

\* The page comes back to the operator with an answer, a dialog or an error, however
\* long the run takes, whatever its server does and whoever else decides, unless
\* from some point on every request goes to a server that two approvals have locked
\* up or to a service that is not ozr: then it stays busy, for fetch has no limit.
BackToOperator ==
  \/ phase \in {"running", "approving"} ~> phase \in {"idle", "awaiting_approval"}
  \/ <>[](LockedUp \/ port = "alien")

=============================================================================
