------------------------------- MODULE ChatShim -------------------------------
(***************************************************************************)
(* POST /v1/chat/completions (src/api/openai_shim.rs) on top of the session *)
(* store: the request starts a run like any other, then reads its session  *)
(* every 200 ms until the run has ended or 120 s have passed.  The run is a *)
(* task of its own: it goes on after a timeout and after a hang-up, and    *)
(* another client may still answer its approval.                           *)
(***************************************************************************)
EXTENDS SessionStore

CONSTANTS
  Chats,     \* the runs started by a chat request
  Streams    \* those of them with "stream": true

ASSUME ChatShimAssumption == Chats \subseteq Runs /\ Streams \subseteq Chats

VARIABLES
  chat,     \* where wait_for_session_terminal of each chat request stands
  late,     \* has the request's deadline passed?
  text,     \* the result or error text of every session
  by,       \* history: the run that wrote that text (empty: none yet)
  reply     \* what each chat request was answered

chatVars == <<chat, late, text, by, reply>>
shimVars == <<vars, chatVars>>

Texts == {"none", "result", "error", "timed out"}

NoReply == [kind |-> "none", code |-> 0, of |-> {}]

ChatTypeOK ==
  /\ TypeOK
  /\ chat \in [Chats -> {"none", "look", "open", "sleep", "answered", "gone"}]
  /\ late \in [Chats -> BOOLEAN]
  /\ text \in [SessionIds -> Texts]
  /\ by \in [SessionIds -> SUBSET Runs]
  /\ reply \in [Chats -> [kind : {"none", "result", "error", "timeout"},
                          code : {0, 200, 500, 504}, of : SUBSET Runs]]
  \* a session that has ended carries the text that belongs to its status, so
  \* the branch "completed session missing result" is never taken
  /\ \A id \in SessionIds :
       /\ sessions[id].status = "Completed" => text[id] = "result"
       /\ sessions[id].status = "Failed" => text[id] \in {"error", "timed out"}
  /\ \A r \in Chats : reply[r].kind \in {"result", "error"} => reply[r].of # {}

ShimInit ==
  /\ Init
  /\ chat = [r \in Chats |-> "none"]
  /\ late = [r \in Chats |-> FALSE]
  /\ text = [id \in SessionIds |-> "none"]
  /\ by = [id \in SessionIds |-> {}]
  /\ reply = [r \in Chats |-> NoReply]

-----------------------------------------------------------------------------
(* The run's task, with the texts it leaves *)

\* start_agent_session, or start_run: create leaves neither result nor error.
Begin(r) ==
  /\ StartRun(r)
  /\ chat' = IF r \in Chats THEN [chat EXCEPT ![r] = "look"] ELSE chat
  /\ text' = [text EXCEPT ![clock] = "none"]
  /\ by' = [by EXCEPT ![clock] = {}]
  /\ UNCHANGED <<late, reply>>

\* store.complete(result), or store.fail(err); the text of an error may say
\* "timed out", as that of the MCP client does.
EndRun(r) ==
  /\ \/ Complete(r) /\ text' = [text EXCEPT ![sid[r]] = "result"]
     \/ Fail(r) /\ \E err \in {"error", "timed out"} : text' = [text EXCEPT ![sid[r]] = err]
  /\ by' = [by EXCEPT ![sid[r]] = {r}]
  /\ UNCHANGED <<chat, late, reply>>

\* The gate of the run.
Wait(r) ==
  /\ RegisterPending(r) \/ GateCheck(r) \/ GateRecheck(r) \/ GateAwait(r) \/ GateClear(r)
  /\ UNCHANGED chatVars

-----------------------------------------------------------------------------
(* The chat request *)

\* The statuses that end the wait (the faulty one: all but Running).
NotRunning(status) == status # "Running"
EndsWait(status) == status \in {"Completed", "Failed"}

\* The deadline is fixed before the loop (the faulty one sets it anew each time).
RenewedDeadline(passed) == FALSE
KeptDeadline(passed) == passed

\* chat_completions judges an error by its text; a stream has sent its 200 long
\* before, and delivers errors as content.
Code(r, t) ==
  IF r \in Streams THEN 200 ELSE IF t = "result" THEN 200
  ELSE IF t = "timed out" THEN 504 ELSE 500

Answer(r, kind, t, of) ==
  /\ reply' = [reply EXCEPT ![r] = [kind |-> kind, code |-> Code(r, t), of |-> of]]
  /\ chat' = [chat EXCEPT ![r] = "answered"]

\* get_view, under the read lock.
GetView(r) ==
  /\ chat[r] = "look"
  /\ ReadFree
  /\ LET s == sid[r] IN
       IF EndsWait(sessions[s].status)
       THEN Answer(r, IF text[s] = "result" THEN "result" ELSE "error", text[s], by[s])
       ELSE chat' = [chat EXCEPT ![r] = "open"] /\ UNCHANGED reply
  /\ UNCHANGED <<vars, late, text, by>>

\* Only now is the clock read: `Instant::now() >= deadline`.
CheckDeadline(r) ==
  /\ chat[r] = "open"
  /\ IF late[r]
     THEN Answer(r, "timeout", "timed out", {})
     ELSE chat' = [chat EXCEPT ![r] = "sleep"] /\ UNCHANGED reply
  /\ UNCHANGED <<vars, late, text, by>>

\* 200 ms later.
Wake(r) ==
  /\ chat[r] = "sleep"
  /\ chat' = [chat EXCEPT ![r] = "look"]
  /\ late' = [late EXCEPT ![r] = KeptDeadline(@)]
  /\ UNCHANGED <<vars, text, by, reply>>

DeadlinePasses(r) ==
  /\ chat[r] \in {"look", "open", "sleep"} /\ ~late[r]
  /\ late' = [late EXCEPT ![r] = TRUE]
  /\ UNCHANGED <<vars, chat, text, by, reply>>

\* The caller goes away while the handler awaits the lock or the sleep: the
\* handler is dropped.  The task that feeds a stream goes on sending to nobody.
HangUp(r) ==
  /\ r \notin Streams
  /\ chat[r] \in {"look", "sleep"}
  /\ chat' = [chat EXCEPT ![r] = "gone"]
  /\ UNCHANGED <<vars, late, text, by, reply>>

ChatStep(r) ==
  \/ GetView(r)
  \/ CheckDeadline(r)
  \/ Wake(r)
  \/ DeadlinePasses(r)
  \/ HangUp(r)

ShimNext ==
  \/ Tick /\ UNCHANGED chatVars
  \/ \E r \in Runs : Begin(r) \/ EndRun(r) \/ Wait(r)
  \/ \E r \in Chats : ChatStep(r)
  \/ \E c \in Clients : ClientStep(c) /\ UNCHANGED chatVars

ShimSpec == ShimInit /\ [][ShimNext]_shimVars

\* Tokio polls the tasks that can go on, callers hang up when they get no
\* answer to a decision, and 120 s pass.
ShimFairSpec ==
  /\ ShimSpec
  /\ \A r \in Runs : WF_shimVars(pc[r] # "active" /\ Wait(r))
  /\ \A c \in Clients :
       /\ WF_shimVars((FillSlot(c) \/ AlreadySubmitted(c) \/ NotifyOne(c)) /\ UNCHANGED chatVars)
       /\ WF_shimVars(Disconnect(c) /\ UNCHANGED chatVars)
  /\ \A r \in Chats :
       /\ WF_shimVars(GetView(r) \/ CheckDeadline(r) \/ Wake(r))
       /\ WF_shimVars(DeadlinePasses(r))

-----------------------------------------------------------------------------
(* Properties *)

\* A chat request that shares its session id with no other run is answered with
\* what its own run ended with: never with another run's text, never with a
\* success of a run that failed or was denied, and never before its run is done.
OwnAnswer ==
  \A r \in Chats :
    Alone(r) /\ reply[r].kind \in {"result", "error"} =>
      /\ reply[r].of = {r}
      /\ pc[r] = "done"
      /\ (reply[r].kind = "result") <=> (sessions[sid[r]].status = "Completed")
      /\ reply[r].kind = "result" => outcome[r] # "Deny"

\* Every chat request is answered or given up by its caller, also while its run
\* waits for an approval nobody gives and however the requests that approve it
\* interleave with its reads.
ChatIsAnswered ==
  \A r \in Chats : (chat[r] = "look") ~> (chat[r] \in {"answered", "gone"})

=============================================================================
