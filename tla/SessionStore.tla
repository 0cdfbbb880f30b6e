---------------------------- MODULE SessionStore ----------------------------
(***************************************************************************)
(* The HTTP approval path of ozr: SessionStore (src/api/state.rs), the     *)
(* ApiApprovalGate a run waits in (src/api/approval_gate.rs) and the       *)
(* handlers that start runs and submit decisions (src/api/handlers.rs).    *)
(*                                                                         *)
(* Every run is a Tokio task; every client request is a handler task.  A   *)
(* step is what a task does between two points where it may be suspended:  *)
(* the global RwLock over the session map, the mutex of a resolution slot  *)
(* and the Notify of a pending approval.  The data of a session (prompt,   *)
(* result, error, tool, params) is left out.                               *)
(***************************************************************************)
EXTENDS Naturals

CONSTANTS
  Runs,         \* POST /v1/run (or /v1/chat/completions) requests, one task each
  Clients,      \* callers of GET /v1/session and POST /v1/session/{id}/approve
  Decisions,    \* the decisions the clients use
  NoPlan,       \* pending = None
  MaxClock,     \* bound: milliseconds that pass
  MaxRequests   \* bound: approvals a run asks for (run_once asks at most 3 times)

ASSUME SessionStoreAssumption ==
  /\ Decisions \subseteq {"Approve", "Deny", "Skip", "Retry", "EditPlan"}
  /\ MaxClock \in Nat
  /\ MaxRequests \in Nat
  /\ NoPlan \notin Runs \X Nat

\* sess-<millis>: the id of a session is the clock reading that made it.
SessionIds == 0..MaxClock

\* The n-th approval request of run r, with the slot and Notify made for it.
Plans == Runs \X (1..MaxRequests)

Statuses == {"Absent", "Running", "PendingApproval", "Completed", "Failed"}

VARIABLES
  clock,       \* milliseconds since the server started
  sessions,    \* the session map: status and pending plan of every id
  resolution,  \* the resolution slot of every plan
  permit,      \* does the plan's Notify hold a permit?
  pc,          \* where the task of each run stands
  sid,         \* the session id captured by the run's task (once started)
  asked,       \* how many approvals the run has requested
  outcome,     \* the decision its last gate.request returned
  cpc,         \* where each client's request stands
  seen,        \* the plan the client read in GET /v1/session
  target,      \* the pending state its approve handler holds
  choice,      \* the decision it posted
  acked,       \* history: <<plan, decision>> answered with 200
  reviewed     \* history: the plan the accepted poster had read

storeVars   == <<sessions, resolution, permit>>
runVars     == <<pc, sid, asked, outcome>>
clientVars  == <<cpc, seen, target, choice>>
historyVars == <<acked, reviewed>>
vars == <<clock, sessions, resolution, permit, pc, sid, asked, outcome,
          cpc, seen, target, choice, acked, reviewed>>

TypeOK ==
  /\ clock \in SessionIds
  /\ sessions \in [SessionIds -> [status: Statuses, pending: Plans \cup {NoPlan}]]
  /\ resolution \in [Plans -> Decisions \cup {"None"}]
  /\ permit \in [Plans -> BOOLEAN]
  /\ pc \in [Runs -> {"new", "active", "check", "recheck", "wait", "clear", "done"}]
  /\ sid \in [Runs -> SessionIds]
  /\ asked \in [Runs -> 0..MaxRequests]
  /\ outcome \in [Runs -> Decisions \cup {"None"}]
  /\ cpc \in [Clients -> {"idle", "reviewing", "admitted", "submitted"}]
  /\ seen \in [Clients -> Plans \cup {NoPlan}]
  /\ target \in [Clients -> Plans \cup {NoPlan}]
  /\ choice \in [Clients -> Decisions \cup {"None"}]
  /\ acked \subseteq Plans \X Decisions
  /\ reviewed \in [Plans -> Plans \cup {NoPlan}]
  \* a request past its checks has what it needs
  /\ \A c \in Clients :
       /\ cpc[c] # "idle" => seen[c] \in Plans
       /\ cpc[c] \in {"admitted", "submitted"} =>
            target[c] \in Plans /\ choice[c] \in Decisions
  /\ \A r \in Runs : pc[r] \in {"check", "recheck", "wait", "clear"} => asked[r] > 0

Init ==
  /\ clock = 0
  /\ sessions = [id \in SessionIds |-> [status |-> "Absent", pending |-> NoPlan]]
  /\ resolution = [p \in Plans |-> "None"]
  /\ permit = [p \in Plans |-> FALSE]
  /\ pc = [r \in Runs |-> "new"]
  /\ sid = [r \in Runs |-> 0]
  /\ asked = [r \in Runs |-> 0]
  /\ outcome = [r \in Runs |-> "None"]
  /\ cpc = [c \in Clients |-> "idle"]
  /\ seen = [c \in Clients |-> NoPlan]
  /\ target = [c \in Clients |-> NoPlan]
  /\ choice = [c \in Clients |-> "None"]
  /\ acked = {}
  /\ reviewed = [p \in Plans |-> NoPlan]

-----------------------------------------------------------------------------
(* The locks *)

\* The plan run r is waiting on, or was last answered for.
PlanOf(r) == <<r, asked[r]>>

\* A write section contains no await, so it is one step; it needs every read
\* guard released.  submit_approval keeps its read guard until it returns.
WriteFree == \A c \in Clients : cpc[c] \notin {"admitted", "submitted"}

\* Tokio's RwLock is fair: a reader that arrives behind a queued writer waits.
\* The gate queues for the write lock as soon as it has found its decision.
ReadFree == \A r \in Runs : pc[r] # "clear"

\* `if let Some(..) = resolution.lock().await.clone()` keeps the mutex guard of
\* its scrutinee to the end of the block, so across clear_pending's await.
SlotHeld(p) == \E r \in Runs : pc[r] = "clear" /\ PlanOf(r) = p

\* The record register_pending leaves (the faulty one forgets the status).
PendingForgetsStatus(p) == [status |-> "Running", pending |-> p]
Pending(p) == [status |-> "PendingApproval", pending |-> p]

\* What clear_pending leaves of a session (the faulty one keeps the pending state).
ClearedKeepsPending(s) == [s EXCEPT !.status = "Running"]
Cleared(s) ==
  [status  |-> IF s.status = "PendingApproval" THEN "Running" ELSE s.status,
   pending |-> NoPlan]

\* The two checks of submit_approval.
AcceptsApproval(s) == s.status = "PendingApproval" /\ s.pending # NoPlan

\* `slot.is_some()` refuses a second decision (the faulty one overwrites it).
SlotOverwritable(p) == p \in Plans
SlotEmpty(p) == resolution[p] = "None"

\* notify_one wakes the waiter or leaves it a permit (the faulty one is a
\* submit_approval that fills the slot and forgets to notify).
NotifyForgotten(p) == permit[p]
PermitAfterNotify(p) == p \in Plans

\* sessions.get_mut(id): the write is skipped when the id is unknown.
Updated(id, s) ==
  [sessions EXCEPT ![id] = IF @.status = "Absent" THEN @ ELSE s]

-----------------------------------------------------------------------------
(* The environment *)

\* A millisecond passes.
Tick ==
  /\ clock < MaxClock
  /\ clock' = clock + 1
  /\ UNCHANGED <<storeVars, runVars, clientVars, historyVars>>

-----------------------------------------------------------------------------
(* The task of a run *)

\* start_run: a fresh id, an unconditional insert, tokio::spawn.
StartRun(r) ==
  /\ pc[r] = "new"
  /\ WriteFree
  /\ sid' = [sid EXCEPT ![r] = clock]
  /\ sessions' = [sessions EXCEPT ![clock] = [status |-> "Running", pending |-> NoPlan]]
  /\ pc' = [pc EXCEPT ![r] = "active"]
  /\ UNCHANGED <<clock, resolution, permit, asked, outcome, clientVars, historyVars>>

\* The loop asks for approval: of its first plan, or of the plan it proposed
\* after a Retry.  register_pending makes the slot and the Notify.
RegisterPending(r) ==
  /\ pc[r] = "active"
  /\ outcome[r] \in {"None", "Retry"}
  /\ asked[r] < MaxRequests
  /\ WriteFree
  /\ asked' = [asked EXCEPT ![r] = @ + 1]
  /\ sessions' = Updated(sid[r], Pending(<<r, asked[r] + 1>>))
  /\ pc' = [pc EXCEPT ![r] = "check"]
  /\ UNCHANGED <<clock, resolution, permit, sid, outcome, clientVars, historyVars>>

\* Look into the slot at `here`; with a decision in it, keep its mutex and queue
\* for the write lock, without one go on to `next`.
Look(r, here, next) ==
  /\ pc[r] = here
  /\ pc' = [pc EXCEPT ![r] = IF resolution[PlanOf(r)] # "None" THEN "clear" ELSE next]
  /\ UNCHANGED <<clock, storeVars, sid, asked, outcome, clientVars, historyVars>>

\* First look, then `notified = notify.notified()`, then the second look.
GateCheck(r)   == Look(r, "check", "recheck")
GateRecheck(r) == Look(r, "recheck", "wait")

\* notified.await: returns when there is a permit, and consumes it.
GateAwait(r) ==
  /\ pc[r] = "wait"
  /\ permit[PlanOf(r)]
  /\ permit' = [permit EXCEPT ![PlanOf(r)] = FALSE]
  /\ pc' = [pc EXCEPT ![r] = "check"]
  /\ UNCHANGED <<clock, sessions, resolution, sid, asked, outcome, clientVars, historyVars>>

\* clear_pending, then request returns the decision (and drops the slot's guard).
GateClear(r) ==
  /\ pc[r] = "clear"
  /\ WriteFree
  /\ sessions' = Updated(sid[r], Cleared(sessions[sid[r]]))
  /\ outcome' = [outcome EXCEPT ![r] = resolution[PlanOf(r)]]
  /\ pc' = [pc EXCEPT ![r] = "active"]
  /\ UNCHANGED <<clock, resolution, permit, sid, asked, clientVars, historyVars>>

\* The spawned task's last statement: store.complete or store.fail.
Finish(r, status) ==
  /\ pc[r] = "active"
  /\ WriteFree
  /\ sessions' = Updated(sid[r], [status |-> status, pending |-> NoPlan])
  /\ pc' = [pc EXCEPT ![r] = "done"]
  /\ UNCHANGED <<clock, resolution, permit, sid, asked, outcome, clientVars, historyVars>>

\* run_once returned Ok: the operator did not deny.
Complete(r) == outcome[r] # "Deny" /\ Finish(r, "Completed")

\* run_once returned Err: a denial, a budget, or any call the loop escapes from.
Fail(r) == Finish(r, "Failed")

-----------------------------------------------------------------------------
(* A client *)

Idle(c) ==
  /\ cpc' = [cpc EXCEPT ![c] = "idle"]
  /\ seen' = [seen EXCEPT ![c] = NoPlan]
  /\ target' = [target EXCEPT ![c] = NoPlan]
  /\ choice' = [choice EXCEPT ![c] = "None"]

\* get_session answers with a pending plan, and the operator looks at it.
GetSession(c, id) ==
  /\ cpc[c] = "idle"
  /\ ReadFree
  /\ sessions[id].pending # NoPlan
  /\ seen' = [seen EXCEPT ![c] = sessions[id].pending]
  /\ cpc' = [cpc EXCEPT ![c] = "reviewing"]
  /\ UNCHANGED <<clock, storeVars, runVars, target, choice, historyVars>>

\* The session whose id the client has: the one it read the plan in.
SessionOf(c) == sid[seen[c][1]]

\* approve_session posts d for the session (the body names no plan), gets the
\* read guard and finds a pending approval.
SubmitApproval(c, d) ==
  /\ cpc[c] = "reviewing"
  /\ ReadFree
  /\ AcceptsApproval(sessions[SessionOf(c)])
  /\ target' = [target EXCEPT ![c] = sessions[SessionOf(c)].pending]
  /\ choice' = [choice EXCEPT ![c] = d]
  /\ cpc' = [cpc EXCEPT ![c] = "admitted"]
  /\ UNCHANGED <<clock, storeVars, runVars, seen, historyVars>>

\* "session is not pending approval" or "missing pending approval state".
RejectApproval(c) ==
  /\ cpc[c] = "reviewing"
  /\ ReadFree
  /\ ~AcceptsApproval(sessions[SessionOf(c)])
  /\ Idle(c)
  /\ UNCHANGED <<clock, storeVars, runVars, historyVars>>

\* pending.resolution.lock(): an empty slot takes the decision.
FillSlot(c) ==
  /\ cpc[c] = "admitted"
  /\ ~SlotHeld(target[c])
  /\ SlotEmpty(target[c])
  /\ resolution' = [resolution EXCEPT ![target[c]] = choice[c]]
  /\ reviewed' = [reviewed EXCEPT ![target[c]] = seen[c]]
  /\ cpc' = [cpc EXCEPT ![c] = "submitted"]
  /\ UNCHANGED <<clock, sessions, permit, runVars, seen, target, choice, acked>>

\* "approval already submitted".
AlreadySubmitted(c) ==
  /\ cpc[c] = "admitted"
  /\ ~SlotHeld(target[c])
  /\ ~SlotEmpty(target[c])
  /\ Idle(c)
  /\ UNCHANGED <<clock, storeVars, runVars, historyVars>>

\* notify_one, after the slot's guard is gone: wakes the waiter or leaves a
\* permit; then the read guard goes and the client gets its 200.
NotifyOne(c) ==
  /\ cpc[c] = "submitted"
  /\ permit' = [permit EXCEPT ![target[c]] = @ \/ PermitAfterNotify(target[c])]
  /\ acked' = acked \cup {<<target[c], choice[c]>>}
  /\ Idle(c)
  /\ UNCHANGED <<clock, sessions, resolution, runVars, reviewed>>

\* The caller hangs up while its handler awaits the slot: the future is dropped
\* and its read guard with it.  From FillSlot to NotifyOne there is no await.
Disconnect(c) ==
  /\ cpc[c] = "admitted"
  /\ Idle(c)
  /\ UNCHANGED <<clock, storeVars, runVars, historyVars>>

-----------------------------------------------------------------------------
RunStep(r) ==
  \/ StartRun(r)
  \/ RegisterPending(r)
  \/ GateCheck(r)
  \/ GateRecheck(r)
  \/ GateAwait(r)
  \/ GateClear(r)
  \/ Complete(r)
  \/ Fail(r)

ClientStep(c) ==
  \/ \E id \in SessionIds : GetSession(c, id)
  \/ \E d \in Decisions : SubmitApproval(c, d)
  \/ RejectApproval(c)
  \/ FillSlot(c)
  \/ AlreadySubmitted(c)
  \/ NotifyOne(c)
  \/ Disconnect(c)

Next ==
  \/ Tick
  \/ \E r \in Runs : RunStep(r)
  \/ \E c \in Clients : ClientStep(c)

Spec == Init /\ [][Next]_vars

\* Tokio polls every task that can go on: a gate, and a handler already admitted.
\* Nobody has to start a run, to answer one, or to hang up.
ServerFairness ==
  /\ \A r \in Runs : WF_vars(GateCheck(r) \/ GateRecheck(r) \/ GateAwait(r) \/ GateClear(r))
  /\ \A c \in Clients : WF_vars(FillSlot(c) \/ AlreadySubmitted(c) \/ NotifyOne(c))

FairSpec == Spec /\ ServerFairness

\* The same server with callers that give up when they get no answer.
ImpatientSpec == FairSpec /\ \A c \in Clients : WF_vars(Disconnect(c))

-----------------------------------------------------------------------------
(* Properties *)

\* A session is PendingApproval exactly when it carries a pending plan, through
\* every interleaving and even when two runs share an id: submit_approval's
\* "missing pending approval state" branch is never taken.
StatusMatchesPending ==
  \A id \in SessionIds :
    sessions[id].status = "PendingApproval" <=> sessions[id].pending # NoPlan

\* A gate asleep on its Notify while the slot already holds a decision has a
\* permit waiting for it, or a submitter that is about to leave one.
NoLostWakeup ==
  \A r \in Runs :
    pc[r] = "wait" /\ resolution[PlanOf(r)] # "None" =>
      \/ permit[PlanOf(r)]
      \/ \E c \in Clients : cpc[c] = "submitted" /\ target[c] = PlanOf(r)

\* A decision answered with 200 is the one in the slot, so two callers are never
\* both told that their different decisions were taken; and the run that has
\* come back from its gate acts on that decision and no other.
AckedIsApplied ==
  /\ \A a \in acked : resolution[a[1]] = a[2]
  /\ \A r \in Runs : pc[r] \in {"active", "done"} /\ asked[r] > 0 =>
       outcome[r] = resolution[PlanOf(r)] /\ outcome[r] # "None"

\* No other run was given r's session id.
Alone(r) == \A s \in Runs \ {r} : pc[s] # "new" => sid[s] # sid[r]

\* While a run waits for approval, its session shows that plan as pending.
ShowsItsPlan(r) ==
  pc[r] \in {"check", "recheck", "wait", "clear"} =>
    sessions[sid[r]] = [status |-> "PendingApproval", pending |-> PlanOf(r)]

\* A run with a session id of its own is always visible, hence approvable,
\* while it waits.
WaitingIsVisible == \A r \in Runs : Alone(r) => ShowsItsPlan(r)

\* The same of every run: README.md says concurrent /v1/run is supported.
EveryWaitingIsVisible == \A r \in Runs : ShowsItsPlan(r)

\* The plan a decision is applied to is the plan its sender had read.
ReviewedPlanIsDecided == \A p \in Plans : reviewed[p] \in {p, NoPlan}

\* The gate of plan p has returned its decision to the run.
Returned(p) ==
  \/ asked[p[1]] > p[2]
  \/ asked[p[1]] = p[2] /\ pc[p[1]] \in {"active", "done"}

\* Once submit_approval has filled the slot, the waiting run gets out of its gate
\* (state.rs, test submit_approval_unblocks_waiter).
SubmitUnblocksWaiter ==
  \A p \in Plans : (resolution[p] # "None") ~> Returned(p)

-----------------------------------------------------------------------------
(* Refinement *)

StageOf(p) ==
  IF asked[p[1]] < p[2] THEN "unasked"
  ELSE IF Returned(p) THEN "delivered"
  ELSE IF resolution[p] # "None" THEN "decided" ELSE "open"

Channel == INSTANCE ApprovalChannel
             WITH stage <- [p \in Plans |-> StageOf(p)], decision <- resolution

\* The store, the gates and the handlers together implement the channel.
ImplementsChannel == Channel!ChannelSpec

\* And with fair tasks and callers that give up, they deliver every decision.
ImplementsFairChannel == Channel!ChannelFairSpec

=============================================================================
