------------------------- MODULE SessionStoreProofs -------------------------
(***************************************************************************)
(* Proofs about SessionStore for any number of runs, clients, approvals    *)
(* and milliseconds, and about ChatShim, which builds on it, for any       *)
(* number of chat requests.                                                *)
(***************************************************************************)
EXTENDS ChatShim, TLAPS

SessionRecords == [status: Statuses, pending: Plans \cup {NoPlan}]

\* A plan is a pair, so it is never NoPlan, and "None" is no decision.
LEMMA Distinct == NoPlan \notin Plans /\ "None" \notin Decisions
  BY SessionStoreAssumption DEF Plans

\* The plan of a run that waits is a plan.
LEMMA PlanOfType ==
  ASSUME TypeOK, NEW r \in Runs, asked[r] > 0
  PROVE  PlanOf(r) \in Plans
  BY SessionStoreAssumption DEF TypeOK, PlanOf, Plans

\* A write to the session map leaves a session map.
LEMMA UpdatedType ==
  ASSUME TypeOK, NEW id \in SessionIds, NEW s \in SessionRecords
  PROVE  Updated(id, s) \in [SessionIds -> SessionRecords]
  BY DEF TypeOK, Updated, SessionRecords

\* Type correctness (store and gate never mix up what they keep).
THEOREM TypeCorrect == Spec => []TypeOK
<1>1. Init => TypeOK
  BY SessionStoreAssumption DEF Init, TypeOK, SessionIds, Statuses
<1>2. TypeOK /\ [Next]_vars => TypeOK'
  <2> SUFFICES ASSUME TypeOK, [Next]_vars PROVE TypeOK'
    OBVIOUS
  <2>1. CASE Tick
    BY <2>1, SessionStoreAssumption
       DEF Tick, TypeOK, SessionIds, storeVars, runVars, clientVars, historyVars
  <2>2. ASSUME NEW r \in Runs, RunStep(r) PROVE TypeOK'
    <3>1. CASE StartRun(r)
      BY <3>1 DEF StartRun, TypeOK, Statuses, clientVars, historyVars
    <3>2. CASE RegisterPending(r)
      <4>1. asked[r] + 1 \in 1..MaxRequests
        BY <3>2, SessionStoreAssumption DEF RegisterPending, TypeOK
      <4>2. Pending(<<r, asked[r] + 1>>) \in SessionRecords
        BY <4>1 DEF Pending, SessionRecords, Statuses, Plans
      <4>3. sessions' \in [SessionIds -> SessionRecords]
        BY <3>2, <4>2, UpdatedType DEF RegisterPending, TypeOK
      <4>4. /\ asked' \in [Runs -> 0..MaxRequests]
            /\ pc' = [pc EXCEPT ![r] = "check"]
            /\ \A q \in Runs : pc'[q] \in {"check", "recheck", "wait", "clear"} => asked'[q] > 0
        BY <3>2, <4>1, SessionStoreAssumption DEF RegisterPending, TypeOK
      <4>5. UNCHANGED <<clock, resolution, permit, sid, outcome, clientVars, historyVars>>
        BY <3>2 DEF RegisterPending
      <4> QED
        BY <4>3, <4>4, <4>5 DEF TypeOK, SessionRecords, clientVars, historyVars
    <3>3. CASE GateCheck(r) \/ GateRecheck(r)
      <4>1. /\ pc[r] \in {"check", "recheck"}
            /\ \E step \in {"clear", "recheck", "wait"} : pc' = [pc EXCEPT ![r] = step]
            /\ UNCHANGED <<clock, storeVars, sid, asked, outcome, clientVars, historyVars>>
        BY <3>3 DEF GateCheck, GateRecheck, Look
      <4>2. PICK step \in {"clear", "recheck", "wait"} : pc' = [pc EXCEPT ![r] = step]
        BY <4>1
      <4> QED
        BY <4>1, <4>2 DEF TypeOK, storeVars, clientVars, historyVars
    <3>4. CASE GateAwait(r)
      BY <3>4, PlanOfType DEF GateAwait, TypeOK, clientVars, historyVars
    <3>5. CASE GateClear(r)
      <4>1. PlanOf(r) \in Plans
        BY <3>5, PlanOfType DEF GateClear, TypeOK
      <4>2. Cleared(sessions[sid[r]]) \in SessionRecords
        BY DEF Cleared, SessionRecords, Statuses, TypeOK
      <4>3. sessions' \in [SessionIds -> SessionRecords]
        BY <3>5, <4>2, UpdatedType DEF GateClear, TypeOK
      <4> QED
        BY <3>5, <4>1, <4>3 DEF GateClear, TypeOK, SessionRecords, clientVars, historyVars
    <3>6. CASE Complete(r) \/ Fail(r)
      <4>1. PICK status \in {"Completed", "Failed"} : Finish(r, status)
        BY <3>6 DEF Complete, Fail
      <4>2. [status |-> status, pending |-> NoPlan] \in SessionRecords
        BY DEF SessionRecords, Statuses
      <4>3. sessions' \in [SessionIds -> SessionRecords]
        BY <4>1, <4>2, UpdatedType DEF Finish, TypeOK
      <4> QED
        BY <4>1, <4>3 DEF Finish, TypeOK, SessionRecords, clientVars, historyVars
    <3> QED
      BY <2>2, <3>1, <3>2, <3>3, <3>4, <3>5, <3>6 DEF RunStep
  <2>3. ASSUME NEW c \in Clients, ClientStep(c) PROVE TypeOK'
    <3>1. ASSUME NEW id \in SessionIds, GetSession(c, id) PROVE TypeOK'
      BY <3>1 DEF GetSession, TypeOK, storeVars, runVars, historyVars
    <3>2. ASSUME NEW d \in Decisions, SubmitApproval(c, d) PROVE TypeOK'
      <4>1. SessionOf(c) \in SessionIds
        BY <3>2 DEF SubmitApproval, SessionOf, TypeOK, Plans
      <4>2. sessions[SessionOf(c)].pending \in Plans
        BY <3>2, <4>1 DEF SubmitApproval, AcceptsApproval, TypeOK
      <4> QED
        BY <3>2, <4>2 DEF SubmitApproval, TypeOK, storeVars, runVars, historyVars
    <3>3. CASE RejectApproval(c) \/ AlreadySubmitted(c) \/ Disconnect(c)
      <4>1. Idle(c) /\ UNCHANGED <<clock, storeVars, runVars, historyVars>>
        BY <3>3 DEF RejectApproval, AlreadySubmitted, Disconnect
      <4> QED
        BY <4>1 DEF Idle, TypeOK, storeVars, runVars, historyVars
    <3>4. CASE FillSlot(c)
      BY <3>4 DEF FillSlot, TypeOK, runVars
    <3>5. CASE NotifyOne(c)
      BY <3>5 DEF NotifyOne, Idle, TypeOK, runVars, PermitAfterNotify
    <3> QED
      BY <2>3, <3>1, <3>2, <3>3, <3>4, <3>5 DEF ClientStep
  <2>4. CASE UNCHANGED vars
    BY <2>4 DEF vars, TypeOK
  <2> QED
    BY <2>1, <2>2, <2>3, <2>4 DEF Next
<1> QED
  BY <1>1, <1>2, PTL DEF Spec
-----------------------------------------------------------------------------
(* The session map *)

\* What a client does changes no run and no session.
LEMMA ClientFrame ==
  ASSUME NEW c \in Clients, ClientStep(c)
  PROVE  UNCHANGED <<clock, sessions, pc, sid, asked, outcome>>
BY DEF ClientStep, GetSession, SubmitApproval, RejectApproval, FillSlot, AlreadySubmitted,
       NotifyOne, Disconnect, storeVars, runVars

Matches(s) == s.status = "PendingApproval" <=> s.pending # NoPlan

\* The only steps that write the session map.
LEMMA SessionWrites ==
  ASSUME [Next]_vars
  PROVE  \/ UNCHANGED sessions
         \/ \E r \in Runs : \/ StartRun(r)
                            \/ RegisterPending(r)
                            \/ GateClear(r)
                            \/ \E status \in {"Completed", "Failed"} : Finish(r, status)
<1>1. CASE Tick \/ UNCHANGED vars
  BY <1>1 DEF Tick, vars, storeVars
<1>2. ASSUME NEW c \in Clients, ClientStep(c) PROVE UNCHANGED sessions
  BY <1>2, ClientFrame
<1>3. ASSUME NEW r \in Runs, RunStep(r)
      PROVE  \/ UNCHANGED sessions
             \/ StartRun(r)
             \/ RegisterPending(r)
             \/ GateClear(r)
             \/ \E status \in {"Completed", "Failed"} : Finish(r, status)
  BY <1>3 DEF RunStep, GateCheck, GateRecheck, Look, GateAwait, Complete, Fail, storeVars
<1> QED
  BY <1>1, <1>2, <1>3 DEF Next

\* A session is PendingApproval exactly when it carries a pending plan: by
\* induction, since each of the four writes leaves such a record.
THEOREM StatusCorrect == Spec => []StatusMatchesPending
<1>1. Init => StatusMatchesPending
  BY DEF Init, StatusMatchesPending
<1>2. TypeOK /\ StatusMatchesPending /\ [Next]_vars => StatusMatchesPending'
  <2> SUFFICES ASSUME TypeOK, StatusMatchesPending, [Next]_vars
               PROVE  StatusMatchesPending'
    OBVIOUS
  <2> USE DEF StatusMatchesPending
  <2>1. ASSUME NEW id \in SessionIds, NEW s, Matches(s), sessions' = Updated(id, s)
        PROVE  StatusMatchesPending'
    BY <2>1 DEF Matches, Updated, TypeOK
  <2>2. CASE UNCHANGED sessions
    BY <2>2
  <2>3. ASSUME NEW r \in Runs, StartRun(r) PROVE StatusMatchesPending'
    BY <2>3 DEF StartRun, TypeOK
  <2>4. ASSUME NEW r \in Runs, RegisterPending(r) PROVE StatusMatchesPending'
    <3>1. <<r, asked[r] + 1>> # NoPlan
      BY Distinct, <2>4, SessionStoreAssumption DEF RegisterPending, TypeOK, Plans
    <3> QED
      BY <2>1, <2>4, <3>1 DEF RegisterPending, Matches, Pending, TypeOK
  <2>5. ASSUME NEW r \in Runs, GateClear(r) PROVE StatusMatchesPending'
    <3>1. Matches(Cleared(sessions[sid[r]]))
      BY DEF Matches, Cleared, TypeOK
    <3> QED
      BY <2>1, <2>5, <3>1 DEF GateClear, TypeOK
  <2>6. ASSUME NEW r \in Runs, NEW status \in {"Completed", "Failed"}, Finish(r, status)
        PROVE  StatusMatchesPending'
    BY <2>1, <2>6 DEF Finish, Matches, TypeOK
  <2> QED
    BY <2>2, <2>3, <2>4, <2>5, <2>6, SessionWrites
<1> QED
  BY <1>1, <1>2, TypeCorrect, PTL DEF Spec
-----------------------------------------------------------------------------
(* The slots *)

\* The run of plan p has asked about it.
Asked(p) == asked[p[1]] >= p[2]

\* A run that has not started has not asked; and only plans that were asked about
\* have a decision, are pending in a session, or are being decided.
OnlyAskedPlans ==
  /\ \A r \in Runs : pc[r] = "new" => asked[r] = 0
  /\ \A p \in Plans : resolution[p] # "None" => Asked(p)
  /\ \A id \in SessionIds : sessions[id].pending \in Plans => Asked(sessions[id].pending)
  /\ \A c \in Clients : cpc[c] \in {"admitted", "submitted"} => Asked(target[c])

\* A gate that has found its decision, or returned it, leaves a full slot behind;
\* and a submitter that is about to notify has filled its slot.
FullSlots ==
  /\ \A p \in Plans : Returned(p) => resolution[p] # "None"
  /\ \A r \in Runs : pc[r] = "clear" => resolution[PlanOf(r)] # "None"
  /\ \A c \in Clients : cpc[c] = "submitted" => resolution[target[c]] = choice[c]

LEMMA OnlyAskedInit == Init => OnlyAskedPlans
  BY Distinct DEF Init, OnlyAskedPlans

LEMMA OnlyAskedStep == TypeOK /\ OnlyAskedPlans /\ [Next]_vars => OnlyAskedPlans'
<1> SUFFICES ASSUME TypeOK, OnlyAskedPlans, [Next]_vars PROVE OnlyAskedPlans'
  OBVIOUS
<1> USE DEF OnlyAskedPlans, Asked
<1>1. CASE Tick \/ UNCHANGED vars
  BY <1>1 DEF Tick, vars, storeVars, runVars, clientVars
<1>2. ASSUME NEW r \in Runs, RunStep(r) PROVE OnlyAskedPlans'
  <2>1. CASE StartRun(r)
    <3>1. sessions' = [sessions EXCEPT ![clock] = [status |-> "Running", pending |-> NoPlan]]
      BY <2>1 DEF StartRun
    <3> QED
      BY <2>1, <3>1, Distinct DEF StartRun, TypeOK, clientVars
  <2>2. CASE RegisterPending(r)
    <3>1. /\ asked' = [asked EXCEPT ![r] = @ + 1]
          /\ pc' = [pc EXCEPT ![r] = "check"]
          /\ UNCHANGED <<resolution, cpc, target>>
      BY <2>2 DEF RegisterPending, clientVars
    <3>2. \A p \in Plans : Asked(p) => Asked(p)'
      BY <3>1, SessionStoreAssumption DEF TypeOK, Plans
    <3>3. sid[r] \in SessionIds /\ asked'[r] = asked[r] + 1 /\ asked[r] \in Nat
      BY <3>1, SessionStoreAssumption DEF TypeOK
    <3>4. \A id \in SessionIds :
            \/ sessions'[id] = sessions[id]
            \/ sessions'[id].pending = <<r, asked[r] + 1>>
      BY <2>2, <3>3 DEF RegisterPending, Updated, Pending, TypeOK
    <3>5. \A id \in SessionIds : sessions'[id].pending \in Plans => Asked(sessions[id].pending)' 
      BY <3>2, <3>3, <3>4
    <3>6. \A c \in Clients : cpc'[c] \in {"admitted", "submitted"} => Asked(target[c])'
      BY <3>1, <3>2 DEF TypeOK
    <3> QED
      BY <3>1, <3>2, <3>5, <3>6 DEF TypeOK
  <2>3. CASE GateCheck(r) \/ GateRecheck(r) \/ GateAwait(r)
    BY <2>3 DEF GateCheck, GateRecheck, Look, GateAwait, TypeOK, storeVars, clientVars
  <2>4. CASE GateClear(r)
    BY <2>4, Distinct DEF GateClear, Cleared, Updated, TypeOK, clientVars
  <2>5. CASE Complete(r) \/ Fail(r)
    BY <2>5, Distinct DEF Complete, Fail, Finish, Updated, TypeOK, clientVars
  <2> QED
    BY <1>2, <2>1, <2>2, <2>3, <2>4, <2>5 DEF RunStep
<1>3. ASSUME NEW c \in Clients, ClientStep(c) PROVE OnlyAskedPlans'
  <2>1. ASSUME NEW id \in SessionIds, GetSession(c, id) PROVE OnlyAskedPlans'
    BY <2>1 DEF GetSession, TypeOK, storeVars, runVars
  <2>2. ASSUME NEW d \in Decisions, SubmitApproval(c, d) PROVE OnlyAskedPlans'
    <3>1. SessionOf(c) \in SessionIds
      BY <2>2 DEF SubmitApproval, SessionOf, TypeOK, Plans
    <3>2. sessions[SessionOf(c)].pending \in Plans
      BY <2>2, <3>1 DEF SubmitApproval, AcceptsApproval, TypeOK
    <3> QED
      BY <2>2, <3>1, <3>2 DEF SubmitApproval, TypeOK, storeVars, runVars
  <2>3. CASE RejectApproval(c) \/ AlreadySubmitted(c) \/ Disconnect(c) \/ NotifyOne(c)
    BY <2>3 DEF RejectApproval, AlreadySubmitted, Disconnect, NotifyOne, Idle, TypeOK,
                storeVars, runVars
  <2>4. CASE FillSlot(c)
    BY <2>4 DEF FillSlot, TypeOK, runVars
  <2> QED
    BY <1>3, <2>1, <2>2, <2>3, <2>4 DEF ClientStep
<1> QED
  BY <1>1, <1>2, <1>3 DEF Next

LEMMA OnlyAskedCorrect == Spec => []OnlyAskedPlans
  BY OnlyAskedInit, OnlyAskedStep, TypeCorrect, PTL DEF Spec

LEMMA FullSlotsInit == Init => FullSlots
  BY SessionStoreAssumption DEF Init, FullSlots, Returned, Plans

LEMMA FullSlotsStep ==
  TypeOK /\ OnlyAskedPlans /\ FullSlots /\ [Next]_vars => FullSlots'
<1> SUFFICES ASSUME TypeOK, OnlyAskedPlans, FullSlots, [Next]_vars PROVE FullSlots'
  OBVIOUS
<1> USE DEF FullSlots
<1>1. CASE Tick \/ UNCHANGED vars
  BY <1>1 DEF Tick, vars, storeVars, runVars, clientVars, Returned, PlanOf
<1>2. ASSUME NEW r \in Runs, RunStep(r) PROVE FullSlots'
  <2>1. CASE StartRun(r)
    \* r had asked nothing, so nothing of r's counts as returned now either
    <3>1. /\ pc' = [pc EXCEPT ![r] = "active"] /\ pc[r] = "new" /\ asked[r] = 0
          /\ UNCHANGED <<asked, resolution, cpc, target, choice>>
      BY <2>1 DEF StartRun, OnlyAskedPlans, clientVars
    <3>2. \A p \in Plans : Returned(p)' => Returned(p)
      BY <3>1, SessionStoreAssumption DEF Returned, Plans, TypeOK
    <3>3. \A q \in Runs : pc'[q] = "clear" => pc[q] = "clear" /\ PlanOf(q)' = PlanOf(q)
      BY <3>1 DEF PlanOf, TypeOK
    <3> QED
      BY <3>1, <3>2, <3>3
  <2>2. CASE RegisterPending(r)
    \* what r had asked before was returned before
    <3>1. /\ asked' = [asked EXCEPT ![r] = @ + 1] /\ pc[r] = "active"
          /\ pc' = [pc EXCEPT ![r] = "check"]
          /\ UNCHANGED <<resolution, cpc, target, choice>>
      BY <2>2 DEF RegisterPending, clientVars
    <3>2. \A p \in Plans : Returned(p)' => Returned(p)
      <4> SUFFICES ASSUME NEW p \in Plans, Returned(p)' PROVE Returned(p)
        OBVIOUS
      <4>1. p[1] \in Runs /\ p[2] \in Nat /\ asked[p[1]] \in Nat
        BY SessionStoreAssumption DEF Plans, TypeOK
      <4>2. CASE p[1] = r
        <5>1. asked'[r] = asked[r] + 1 /\ pc'[r] = "check"
          BY <3>1 DEF TypeOK
        <5> QED
          BY <3>1, <4>1, <4>2, <5>1 DEF Returned
      <4>3. CASE p[1] # r
        BY <3>1, <4>1, <4>3 DEF Returned, TypeOK
      <4> QED
        BY <4>2, <4>3
    <3>3. \A q \in Runs : pc'[q] = "clear" => pc[q] = "clear" /\ PlanOf(q)' = PlanOf(q)
      BY <3>1 DEF PlanOf, TypeOK
    <3> QED
      BY <3>1, <3>2, <3>3
  <2>3. CASE GateCheck(r) \/ GateRecheck(r)
    <3>1. PICK step \in {"recheck", "wait"} :
            /\ pc' = [pc EXCEPT ![r] = IF resolution[PlanOf(r)] # "None" THEN "clear" ELSE step]
            /\ UNCHANGED <<asked, resolution, cpc, target, choice>>
      BY <2>3 DEF GateCheck, GateRecheck, Look, storeVars, clientVars
    <3>2. \A p \in Plans : Returned(p)' => Returned(p)
      BY <3>1 DEF Returned, TypeOK, Plans
    <3>3. \A q \in Runs : PlanOf(q)' = PlanOf(q)
      BY <3>1 DEF PlanOf
    <3>4. \A q \in Runs : pc'[q] = "clear" => resolution[PlanOf(q)] # "None"
      BY <3>1 DEF TypeOK
    <3> QED
      BY <3>1, <3>2, <3>3, <3>4
  <2>4. CASE GateAwait(r)
    <3>1. /\ pc' = [pc EXCEPT ![r] = "check"]
          /\ UNCHANGED <<asked, resolution, cpc, target, choice>>
      BY <2>4 DEF GateAwait, clientVars
    <3> QED
      BY <3>1 DEF Returned, PlanOf, TypeOK, Plans
  <2>5. CASE GateClear(r)
    <3>1. /\ pc[r] = "clear" /\ pc' = [pc EXCEPT ![r] = "active"]
          /\ UNCHANGED <<asked, resolution, cpc, target, choice>>
      BY <2>5 DEF GateClear, clientVars
    <3>2. \A p \in Plans : Returned(p)' => Returned(p) \/ p = PlanOf(r)
      <4> SUFFICES ASSUME NEW p \in Plans, Returned(p)', ~Returned(p) PROVE p = PlanOf(r)
        OBVIOUS
      <4>1. p[1] = r /\ p[2] = asked[r]
        BY <3>1 DEF Returned, TypeOK, Plans
      <4> QED
        BY <4>1 DEF PlanOf, Plans
    <3>3. \A q \in Runs : pc'[q] = "clear" => pc[q] = "clear" /\ PlanOf(q)' = PlanOf(q)
      BY <3>1 DEF PlanOf, TypeOK
    <3> QED
      BY <3>1, <3>2, <3>3
  <2>6. CASE Complete(r) \/ Fail(r)
    <3>1. /\ pc[r] = "active" /\ pc' = [pc EXCEPT ![r] = "done"]
          /\ UNCHANGED <<asked, resolution, cpc, target, choice>>
      BY <2>6 DEF Complete, Fail, Finish, clientVars
    <3> QED
      BY <3>1 DEF Returned, PlanOf, TypeOK, Plans
  <2> QED
    BY <1>2, <2>1, <2>2, <2>3, <2>4, <2>5, <2>6 DEF RunStep
<1>3. ASSUME NEW c \in Clients, ClientStep(c) PROVE FullSlots'
  <2>1. CASE FillSlot(c)
    <3>1. /\ UNCHANGED <<pc, asked, target, choice>> /\ target[c] \in Plans
          /\ cpc' = [cpc EXCEPT ![c] = "submitted"]
          /\ resolution[target[c]] = "None"
          /\ resolution' = [resolution EXCEPT ![target[c]] = choice[c]]
          /\ choice[c] \in Decisions
      BY <2>1 DEF FillSlot, SlotEmpty, runVars, TypeOK
    <3>2. \A p \in Plans : resolution[p] # "None" => resolution'[p] = resolution[p]
      BY <3>1 DEF TypeOK
    <3>3. \A p \in Plans : Returned(p)' => Returned(p)
      BY <3>1 DEF Returned
    <3>4. \A q \in Runs : pc'[q] = "clear" =>
            pc[q] = "clear" /\ PlanOf(q)' = PlanOf(q) /\ PlanOf(q) \in Plans
      BY <3>1, PlanOfType DEF PlanOf, TypeOK
    <3>5. \A b \in Clients : cpc'[b] = "submitted" => resolution'[target[b]] = choice[b]
      <4> SUFFICES ASSUME NEW b \in Clients, cpc'[b] = "submitted"
                   PROVE  resolution'[target[b]] = choice[b]
        OBVIOUS
      <4>1. CASE b = c
        BY <3>1, <4>1 DEF TypeOK
      <4>2. CASE b # c
        <5>1. cpc[b] = "submitted" /\ target[b] \in Plans /\ choice[b] \in Decisions
          BY <3>1, <4>2 DEF TypeOK
        <5> QED
          BY <3>2, <5>1, Distinct
      <4> QED
        BY <4>1, <4>2
    <3> QED
      BY <3>1, <3>2, <3>3, <3>4, <3>5
  <2>2. CASE ~FillSlot(c)
    <3>1. /\ UNCHANGED <<pc, asked, resolution>>
          /\ \A b \in Clients : cpc'[b] = "submitted" =>
               cpc[b] = "submitted" /\ target'[b] = target[b] /\ choice'[b] = choice[b]
      BY <1>3, <2>2 DEF ClientStep, GetSession, SubmitApproval, RejectApproval, AlreadySubmitted,
                        NotifyOne, Disconnect, Idle, TypeOK, storeVars, runVars
    <3> QED
      BY <3>1 DEF Returned, PlanOf
  <2> QED
    BY <2>1, <2>2
<1> QED
  BY <1>1, <1>2, <1>3 DEF Next

LEMMA FullSlotsCorrect == Spec => []FullSlots
  BY FullSlotsInit, FullSlotsStep, TypeCorrect, OnlyAskedCorrect, PTL DEF Spec
-----------------------------------------------------------------------------
(* Wakeups *)

\* No gate sleeps on a decision: it goes to sleep only after it saw the slot empty,
\* whoever fills the slot has the notification ahead of it, and a permit is
\* consumed only by the gate it is for.
THEOREM NoWakeupIsLost == Spec => []NoLostWakeup
<1>1. Init => NoLostWakeup
  BY DEF Init, NoLostWakeup
<1>2. TypeOK /\ NoLostWakeup /\ [Next]_vars => NoLostWakeup'
  <2> SUFFICES ASSUME TypeOK, NoLostWakeup, [Next]_vars,
                      NEW q \in Runs, pc'[q] = "wait", resolution'[PlanOf(q)'] # "None"
               PROVE  \/ permit'[PlanOf(q)']
                      \/ \E c \in Clients : cpc'[c] = "submitted" /\ target'[c] = PlanOf(q)'
    BY DEF NoLostWakeup
  <2> DEFINE Woken == \/ permit[PlanOf(q)]
                      \/ \E c \in Clients : cpc[c] = "submitted" /\ target[c] = PlanOf(q)
  <2>0. pc[q] = "wait" /\ resolution[PlanOf(q)] # "None" => Woken
    BY DEF NoLostWakeup
  <2>1. CASE Tick \/ UNCHANGED vars
    BY <2>0, <2>1 DEF Tick, vars, storeVars, runVars, clientVars, PlanOf
  <2>2. ASSUME NEW r \in Runs, RunStep(r) PROVE Woken'
    <3>1. CASE GateCheck(r) \/ GateRecheck(r)
      \* the gate of r itself goes to sleep only on an empty slot
      <4>1. PICK step \in {"recheck", "wait"} :
              /\ pc' = [pc EXCEPT ![r] = IF resolution[PlanOf(r)] # "None" THEN "clear" ELSE step]
              /\ UNCHANGED <<asked, resolution, permit, cpc, target>>
        BY <3>1 DEF GateCheck, GateRecheck, Look, storeVars, clientVars
      <4>2. q # r
        BY <4>1 DEF PlanOf, TypeOK
      <4> QED
        BY <2>0, <4>1, <4>2 DEF PlanOf, TypeOK
    <3>2. CASE GateAwait(r)
      <4>1. /\ permit' = [permit EXCEPT ![PlanOf(r)] = FALSE]
            /\ pc' = [pc EXCEPT ![r] = "check"]
            /\ UNCHANGED <<asked, resolution, cpc, target>>
        BY <3>2 DEF GateAwait, clientVars
      <4>2. q # r
        BY <4>1 DEF TypeOK
      <4>3. PlanOf(q) # PlanOf(r) /\ PlanOf(q) = PlanOf(q)' /\ pc[q] = "wait"
        BY <4>1, <4>2 DEF PlanOf, TypeOK
      <4>4. PlanOf(q) \in Plans
        BY <4>3, PlanOfType DEF TypeOK
      <4> QED
        BY <2>0, <4>1, <4>3, <4>4 DEF TypeOK
    <3>3. CASE StartRun(r) \/ RegisterPending(r) \/ GateClear(r) \/ Complete(r) \/ Fail(r)
      \* none of these leaves r waiting, and they wake nobody
      <4>1. /\ \E step \in {"active", "check", "done"} : pc' = [pc EXCEPT ![r] = step]
            /\ \/ UNCHANGED asked
               \/ asked' = [asked EXCEPT ![r] = @ + 1]
            /\ UNCHANGED <<resolution, permit, cpc, target>>
        BY <3>3 DEF StartRun, RegisterPending, GateClear, Complete, Fail, Finish, clientVars
      <4>2. q # r /\ pc[q] = "wait"
        BY <4>1 DEF TypeOK
      <4>3. PlanOf(q)' = PlanOf(q)
        BY <4>1, <4>2 DEF PlanOf, TypeOK
      <4> QED
        BY <2>0, <4>1, <4>2, <4>3
    <3> QED
      BY <2>2, <3>1, <3>2, <3>3 DEF RunStep
  <2>3. ASSUME NEW c \in Clients, ClientStep(c) PROVE Woken'
    <3>1. UNCHANGED <<pc, asked>> /\ PlanOf(q)' = PlanOf(q) /\ PlanOf(q) \in Plans
      BY <2>3, ClientFrame, PlanOfType DEF PlanOf, TypeOK
    <3>2. CASE FillSlot(c)
      <4>1. /\ resolution' = [resolution EXCEPT ![target[c]] = choice[c]]
            /\ cpc' = [cpc EXCEPT ![c] = "submitted"]
            /\ UNCHANGED <<permit, target>>
            /\ cpc[c] = "admitted"
        BY <3>2 DEF FillSlot
      <4>2. CASE target[c] = PlanOf(q)
        BY <3>1, <4>1, <4>2 DEF TypeOK
      <4>3. CASE target[c] # PlanOf(q)
        <5>1. Woken
          BY <2>0, <3>1, <4>1, <4>3 DEF TypeOK
        <5> QED
          BY <3>1, <4>1, <5>1 DEF TypeOK
      <4> QED
        BY <4>2, <4>3
    <3>3. CASE NotifyOne(c)
      <4>1. /\ permit' = [permit EXCEPT ![target[c]] = TRUE]
            /\ cpc' = [cpc EXCEPT ![c] = "idle"]
            /\ target' = [target EXCEPT ![c] = NoPlan]
            /\ UNCHANGED resolution
            /\ target[c] \in Plans
        BY <3>3 DEF NotifyOne, Idle, PermitAfterNotify, TypeOK
      <4>2. Woken
        BY <2>0, <3>1, <4>1
      <4>3. CASE target[c] = PlanOf(q)
        BY <3>1, <4>1, <4>3 DEF TypeOK
      <4>4. CASE target[c] # PlanOf(q)
        BY <3>1, <4>1, <4>2, <4>4 DEF TypeOK
      <4> QED
        BY <4>3, <4>4
    <3>4. CASE ~FillSlot(c) /\ ~NotifyOne(c)
      <4>1. /\ UNCHANGED <<resolution, permit>>
            /\ \A b \in Clients : cpc[b] = "submitted" =>
                 cpc'[b] = "submitted" /\ target'[b] = target[b]
        BY <2>3, <3>4 DEF ClientStep, GetSession, SubmitApproval, RejectApproval,
                          AlreadySubmitted, Disconnect, Idle, TypeOK, storeVars
      <4> QED
        BY <2>0, <3>1, <4>1
    <3> QED
      BY <3>2, <3>3, <3>4
  <2> QED
    BY <2>1, <2>2, <2>3 DEF Next
<1> QED
  BY <1>1, <1>2, TypeCorrect, PTL DEF Spec
-----------------------------------------------------------------------------
(* Decisions *)

\* Only FillSlot writes a slot, and only an empty one.
LEMMA SlotWrites ==
  ASSUME [Next]_vars
  PROVE  UNCHANGED resolution \/ \E c \in Clients : FillSlot(c)
<1>1. CASE Tick \/ UNCHANGED vars
  BY <1>1 DEF Tick, vars, storeVars
<1>2. ASSUME NEW r \in Runs, RunStep(r) PROVE UNCHANGED resolution
  BY <1>2 DEF RunStep, StartRun, RegisterPending, GateCheck, GateRecheck, Look, GateAwait,
              GateClear, Complete, Fail, Finish, storeVars
<1>3. ASSUME NEW c \in Clients, ClientStep(c) PROVE UNCHANGED resolution \/ FillSlot(c)
  BY <1>3 DEF ClientStep, GetSession, SubmitApproval, RejectApproval, AlreadySubmitted,
              NotifyOne, Disconnect, storeVars
<1> QED
  BY <1>1, <1>2, <1>3 DEF Next

\* A decision, once in its slot, stays.
LEMMA DecisionStays ==
  ASSUME TypeOK, [Next]_vars, NEW p \in Plans, resolution[p] # "None"
  PROVE  resolution'[p] = resolution[p]
BY SlotWrites DEF FillSlot, SlotEmpty, TypeOK

\* A decision answered with 200 is the one in the slot, and the one its run acts on.
THEOREM AckedDecisionIsApplied == Spec => []AckedIsApplied
<1>1. Init => AckedIsApplied
  BY DEF Init, AckedIsApplied
<1>2. TypeOK /\ OnlyAskedPlans /\ FullSlots /\ AckedIsApplied /\ [Next]_vars => AckedIsApplied'
  <2> SUFFICES ASSUME TypeOK, OnlyAskedPlans, FullSlots, AckedIsApplied, [Next]_vars
               PROVE  AckedIsApplied'
    OBVIOUS
  <2>1. \A a \in acked' : resolution'[a[1]] = a[2]
    <3> SUFFICES ASSUME NEW a \in acked' PROVE resolution'[a[1]] = a[2]
      OBVIOUS
    <3>1. CASE a \in acked
      <4>1. a[1] \in Plans /\ a[2] # "None" /\ resolution[a[1]] = a[2]
        BY <3>1, Distinct DEF AckedIsApplied, TypeOK
      <4> QED
        BY <4>1, DecisionStays
    <3>2. CASE a \notin acked
      <4>1. PICK c \in Clients : NotifyOne(c)
        BY <3>2 DEF Next, vars, Tick, historyVars, RunStep, StartRun, RegisterPending, GateCheck,
                    GateRecheck, Look, GateAwait, GateClear, Complete, Fail, Finish, ClientStep,
                    GetSession, SubmitApproval, RejectApproval, FillSlot, AlreadySubmitted, Disconnect
      <4>2. a = <<target[c], choice[c]>> /\ resolution[target[c]] = choice[c] /\ UNCHANGED resolution
        BY <3>2, <4>1 DEF NotifyOne, FullSlots
      <4> QED
        BY <4>2
    <3> QED
      BY <3>1, <3>2
  <2>2. ASSUME NEW r \in Runs, pc'[r] \in {"active", "done"}, asked'[r] > 0
        PROVE  outcome'[r] = resolution'[PlanOf(r)'] /\ outcome'[r] # "None"
    <3>1. CASE UNCHANGED <<pc, asked, outcome>>
      <4>1. PlanOf(r)' = PlanOf(r) /\ PlanOf(r) \in Plans
        BY <2>2, <3>1, PlanOfType DEF PlanOf
      <4>2. outcome[r] = resolution[PlanOf(r)] /\ outcome[r] # "None"
        BY <2>2, <3>1 DEF AckedIsApplied
      <4> QED
        BY <3>1, <4>1, <4>2, DecisionStays
    <3>2. ASSUME NEW q \in Runs, RunStep(q) 
          PROVE  outcome'[r] = resolution'[PlanOf(r)'] /\ outcome'[r] # "None"
      <4>1. CASE GateClear(q) /\ q = r
        BY <4>1 DEF GateClear, FullSlots, PlanOf, TypeOK
      <4>2. CASE ~(GateClear(q) /\ q = r)
        <5>1. UNCHANGED resolution /\ pc[r] \in {"active", "done"}
              /\ asked'[r] = asked[r] /\ outcome'[r] = outcome[r]
          BY <2>2, <3>2, <4>2
             DEF RunStep, StartRun, RegisterPending, GateCheck, GateRecheck, Look, GateAwait,
                 GateClear, Complete, Fail, Finish, storeVars, OnlyAskedPlans, TypeOK
        <5> QED
          BY <2>2, <5>1 DEF AckedIsApplied, PlanOf
      <4> QED
        BY <4>1, <4>2
    <3> QED
      BY <3>1, <3>2, ClientFrame DEF Next, Tick, vars, runVars
  <2> QED
    BY <2>1, <2>2 DEF AckedIsApplied
<1> QED
  BY <1>1, <1>2, TypeCorrect, OnlyAskedCorrect, FullSlotsCorrect, PTL DEF Spec

-----------------------------------------------------------------------------
(* Visibility *)

\* The session of a run that has started exists.
SessionsExist == \A r \in Runs : pc[r] # "new" => sessions[sid[r]].status # "Absent"

LEMMA SessionsExistCorrect == Spec => []SessionsExist
<1>1. Init => SessionsExist
  BY DEF Init, SessionsExist
<1>2. TypeOK /\ SessionsExist /\ [Next]_vars => SessionsExist'
  <2> SUFFICES ASSUME TypeOK, SessionsExist, [Next]_vars PROVE SessionsExist'
    OBVIOUS
  <2>1. \A id \in SessionIds : sessions[id].status # "Absent" => sessions'[id].status # "Absent"
    <3>1. ASSUME NEW r \in Runs, RegisterPending(r) \/ GateClear(r)
                                 \/ \E status \in {"Completed", "Failed"} : Finish(r, status)
          PROVE  \E s : s.status # "Absent" /\ sessions' = Updated(sid[r], s)
      <4>1. CASE RegisterPending(r)
        BY <4>1 DEF RegisterPending, Pending
      <4>2. CASE GateClear(r)
        <5>1. Cleared(sessions[sid[r]]).status # "Absent"
          BY <4>2 DEF GateClear, Cleared, SessionsExist
        <5> QED
          BY <4>2, <5>1 DEF GateClear
      <4>3. ASSUME NEW status \in {"Completed", "Failed"}, Finish(r, status)
            PROVE  \E s : s.status # "Absent" /\ sessions' = Updated(sid[r], s)
        <5>1. [status |-> status, pending |-> NoPlan].status # "Absent"
          OBVIOUS
        <5> QED
          BY <4>3, <5>1 DEF Finish
      <4> QED
        BY <3>1, <4>1, <4>2, <4>3
    <3>2. ASSUME NEW r \in Runs, NEW s, s.status # "Absent", sessions' = Updated(sid[r], s)
          PROVE  \A id \in SessionIds : sessions[id].status # "Absent" => sessions'[id].status # "Absent"
      BY <3>2 DEF Updated, TypeOK
    <3>3. ASSUME NEW r \in Runs, StartRun(r)
          PROVE  \A id \in SessionIds : sessions[id].status # "Absent" => sessions'[id].status # "Absent"
      BY <3>3 DEF StartRun, TypeOK
    <3> QED
      BY <3>1, <3>2, <3>3, SessionWrites
  <2>2. ASSUME NEW r \in Runs, pc'[r] # "new" PROVE sessions'[sid'[r]].status # "Absent"
    <3>1. CASE StartRun(r)
      BY <3>1 DEF StartRun, TypeOK
    <3>2. CASE ~StartRun(r)
      <4>1. pc[r] # "new" /\ sid'[r] = sid[r]
        <5>1. ASSUME NEW q \in Runs, RunStep(q) PROVE pc[r] # "new" /\ sid'[r] = sid[r]
          BY <2>2, <3>2, <5>1
             DEF RunStep, StartRun, RegisterPending, GateCheck, GateRecheck, Look, GateAwait,
                 GateClear, Complete, Fail, Finish, TypeOK
        <5> QED
          BY <2>2, <5>1, ClientFrame DEF Next, Tick, vars, runVars
      <4> QED
        BY <2>1, <4>1 DEF SessionsExist, TypeOK
    <3> QED
      BY <3>1, <3>2
  <2> QED
    BY <2>2 DEF SessionsExist
<1> QED
  BY <1>1, <1>2, TypeCorrect, PTL DEF Spec

\* A step of run q touches only the session q has, and only q.
LEMMA RunFrame ==
  ASSUME TypeOK, NEW q \in Runs, RunStep(q)
  PROVE  /\ pc'[q] # "new" /\ (pc[q] # "new" => sid'[q] = sid[q])
         /\ \A r \in Runs \ {q} : pc'[r] = pc[r] /\ sid'[r] = sid[r] /\ asked'[r] = asked[r]
         /\ \A id \in SessionIds : id # sid'[q] => sessions'[id] = sessions[id]
<1>1. CASE StartRun(q)
  BY <1>1 DEF StartRun, TypeOK
<1>2. CASE RegisterPending(q)
  BY <1>2 DEF RegisterPending, Updated, TypeOK
<1>3. CASE GateCheck(q) \/ GateRecheck(q) \/ GateAwait(q)
  BY <1>3 DEF GateCheck, GateRecheck, Look, GateAwait, storeVars, TypeOK
<1>4. CASE GateClear(q)
  BY <1>4 DEF GateClear, Updated, TypeOK
<1>5. CASE Complete(q) \/ Fail(q)
  BY <1>5 DEF Complete, Fail, Finish, Updated, TypeOK
<1> QED
  BY <1>1, <1>2, <1>3, <1>4, <1>5 DEF RunStep

\* A run with a session id of its own shows the plan it waits on, all the time.
THEOREM WaitingRunIsVisible == Spec => []WaitingIsVisible
<1>1. Init => WaitingIsVisible
  BY DEF Init, WaitingIsVisible, ShowsItsPlan
<1>2. TypeOK /\ SessionsExist /\ WaitingIsVisible /\ [Next]_vars => WaitingIsVisible'
  <2> SUFFICES ASSUME TypeOK, SessionsExist, WaitingIsVisible, [Next]_vars,
                      NEW r \in Runs, Alone(r)'
               PROVE  ShowsItsPlan(r)'
    BY DEF WaitingIsVisible
  <2>1. CASE UNCHANGED <<sessions, pc, sid, asked>>
    BY <2>1 DEF WaitingIsVisible, Alone, ShowsItsPlan, PlanOf
  <2>2. ASSUME NEW q \in Runs, RunStep(q) PROVE ShowsItsPlan(r)'
    <3>1. Alone(r) \/ pc[r] = "new"
      BY <2>2, RunFrame DEF Alone
    <3>2. CASE q # r
      <4>1. sid'[q] # sid'[r] /\ sid'[r] = sid[r] /\ sid[r] \in SessionIds
        BY <2>2, <3>2, RunFrame DEF Alone, TypeOK
      <4>2. sessions'[sid'[r]] = sessions[sid[r]] /\ pc'[r] = pc[r] /\ PlanOf(r)' = PlanOf(r)
        BY <2>2, <3>2, <4>1, RunFrame DEF PlanOf
      <4> QED
        BY <3>1, <4>2 DEF WaitingIsVisible, ShowsItsPlan
    <3>3. CASE RegisterPending(r)
      BY <3>3 DEF RegisterPending, Updated, Pending, SessionsExist, ShowsItsPlan, PlanOf, TypeOK
    <3>4. CASE GateCheck(r) \/ GateRecheck(r) \/ GateAwait(r)
      <4>1. UNCHANGED <<sessions, sid, asked>> /\ pc[r] \in {"check", "recheck", "wait"}
        BY <3>4 DEF GateCheck, GateRecheck, Look, GateAwait, storeVars
      <4> QED
        BY <3>1, <4>1 DEF WaitingIsVisible, ShowsItsPlan, PlanOf
    <3>5. CASE StartRun(r) \/ GateClear(r) \/ Complete(r) \/ Fail(r)
      BY <3>5 DEF StartRun, GateClear, Complete, Fail, Finish, ShowsItsPlan, TypeOK
    <3> QED
      BY <2>2, <3>2, <3>3, <3>4, <3>5 DEF RunStep
  <2> QED
    BY <2>1, <2>2, ClientFrame DEF Next, Tick, vars, storeVars, runVars
<1> QED
  BY <1>1, <1>2, TypeCorrect, SessionsExistCorrect, PTL DEF Spec

-----------------------------------------------------------------------------
(* Refinement *)

\* The stages of the plans, as the channel sees them.
Stages == [p \in Plans |-> StageOf(p)]

LEMMA StageDependsOn ==
  ASSUME UNCHANGED <<pc, asked, resolution>>
  PROVE  UNCHANGED <<Stages, resolution>>
BY DEF Stages, StageOf, Returned

\* What GateClear does to the stages: it delivers the decision on its plan.
LEMMA ClearDelivers ==
  ASSUME TypeOK, FullSlots, NEW r \in Runs, GateClear(r)
  PROVE  \E p \in Plans : Channel!Deliver(p)
<1>1. PICK p \in Plans : p = PlanOf(r) /\ p[1] = r /\ p[2] = asked[r] /\ resolution[p] # "None"
  BY PlanOfType DEF GateClear, FullSlots, PlanOf, TypeOK
<1>2. /\ pc[r] = "clear" /\ pc' = [pc EXCEPT ![r] = "active"]
      /\ UNCHANGED <<asked, resolution>>
  BY DEF GateClear
<1>3. Stages[p] = "decided" /\ StageOf(p)' = "delivered"
  BY <1>1, <1>2, SessionStoreAssumption DEF Stages, StageOf, Returned, TypeOK
<1>4. \A o \in Plans : o # p => StageOf(o)' = StageOf(o)
  <2> SUFFICES ASSUME NEW o \in Plans, o # p PROVE StageOf(o)' = StageOf(o)
    OBVIOUS
  <2>1. CASE o[1] = r
    <3>1. o[2] # asked[r]
      BY <1>1, <2>1 DEF PlanOf, Plans
    <3> QED
      BY <1>2, <2>1, <3>1, SessionStoreAssumption DEF StageOf, Returned, TypeOK, Plans
  <2>2. CASE o[1] # r
    BY <1>2, <2>2 DEF StageOf, Returned, TypeOK
  <2> QED
    BY <2>1, <2>2
<1>5. Stages' = [Stages EXCEPT ![p] = "delivered"]
  BY <1>1, <1>3, <1>4 DEF Stages
<1> QED
  BY <1>1, <1>2, <1>3, <1>5 DEF Channel!Deliver, Stages

\* What RegisterPending does to them: it asks about the plan it makes.
LEMMA RegisterAsks ==
  ASSUME TypeOK, OnlyAskedPlans, NEW r \in Runs, RegisterPending(r)
  PROVE  \E p \in Plans : Channel!Ask(p)
<1>1. /\ pc[r] = "active" /\ asked[r] < MaxRequests /\ asked[r] \in Nat
      /\ asked' = [asked EXCEPT ![r] = @ + 1] /\ pc' = [pc EXCEPT ![r] = "check"]
      /\ UNCHANGED resolution
  BY SessionStoreAssumption DEF RegisterPending, TypeOK
<1>2. PICK p \in Plans : p[1] = r /\ p[2] = asked[r] + 1 /\ p = <<r, asked[r] + 1>>
  <2>1. <<r, asked[r] + 1>> \in Plans
    BY <1>1, SessionStoreAssumption DEF Plans
  <2> QED
    BY <2>1
<1>3. asked'[r] = asked[r] + 1 /\ pc'[r] = "check"
  BY <1>1 DEF TypeOK
<1>4. resolution[p] = "None"
  BY <1>1, <1>2 DEF OnlyAskedPlans, Asked
<1>5. Stages[p] = "unasked" /\ StageOf(p)' = "open"
  BY <1>1, <1>2, <1>3, <1>4 DEF Stages, StageOf, Returned
<1>6. \A o \in Plans : o # p => StageOf(o)' = StageOf(o)
  <2> SUFFICES ASSUME NEW o \in Plans, o # p PROVE StageOf(o)' = StageOf(o)
    OBVIOUS
  <2>1. CASE o[1] = r
    <3>1. o[2] # asked[r] + 1 /\ o[2] \in Nat
      BY <1>2, <2>1, SessionStoreAssumption DEF Plans
    <3> QED
      BY <1>1, <1>3, <2>1, <3>1 DEF StageOf, Returned
  <2>2. CASE o[1] # r
    BY <1>1, <2>2 DEF StageOf, Returned, TypeOK, Plans
  <2> QED
    BY <2>1, <2>2
<1>7. Stages' = [Stages EXCEPT ![p] = "open"]
  BY <1>5, <1>6 DEF Stages
<1> QED
  BY <1>1, <1>5, <1>7 DEF Channel!Ask, Stages

\* What FillSlot does to them: it decides.
LEMMA FillDecides ==
  ASSUME TypeOK, OnlyAskedPlans, FullSlots, NEW c \in Clients, FillSlot(c)
  PROVE  \E p \in Plans, d \in Decisions : Channel!Decide(p, d)
<1>1. PICK p \in Plans, d \in Decisions :
        /\ p = target[c] /\ d = choice[c]
        /\ Asked(p) /\ resolution[p] = "None"
        /\ resolution' = [resolution EXCEPT ![p] = d]
        /\ UNCHANGED <<pc, asked>>
  BY DEF FillSlot, SlotEmpty, OnlyAskedPlans, TypeOK, runVars
<1>2. ~Returned(p) /\ p[2] \in Nat /\ asked[p[1]] \in Nat
  BY <1>1, SessionStoreAssumption DEF FullSlots, TypeOK, Plans
<1>3. Stages[p] = "open" /\ StageOf(p)' = "decided"
  BY <1>1, <1>2, Distinct DEF Stages, StageOf, Returned, Asked, TypeOK
<1>4. \A o \in Plans : o # p => StageOf(o)' = StageOf(o)
  BY <1>1 DEF StageOf, Returned, TypeOK
<1>5. Stages' = [Stages EXCEPT ![p] = "decided"]
  BY <1>3, <1>4 DEF Stages
<1> QED
  BY <1>1, <1>3, <1>5 DEF Channel!Decide, Stages

\* No other step of a run changes a stage.
LEMMA OtherRunStepsStutter ==
  ASSUME TypeOK, OnlyAskedPlans, NEW r \in Runs, RunStep(r),
         ~RegisterPending(r), ~GateClear(r)
  PROVE  UNCHANGED <<Stages, resolution>>
<1>1. /\ UNCHANGED <<asked, resolution>>
      /\ \/ pc[r] = "new" /\ pc' = [pc EXCEPT ![r] = "active"]
         \/ /\ pc[r] \in {"check", "recheck", "wait"}
            /\ \E step \in {"check", "recheck", "wait", "clear"} : pc' = [pc EXCEPT ![r] = step]
         \/ pc[r] = "active" /\ pc' = [pc EXCEPT ![r] = "done"]
  BY DEF RunStep, StartRun, GateCheck, GateRecheck, Look, GateAwait, Complete, Fail, Finish, storeVars
<1>2. \A o \in Plans : Returned(o)' = Returned(o)
  <2> SUFFICES ASSUME NEW o \in Plans PROVE Returned(o)' = Returned(o)
    OBVIOUS
  <2>1. o[1] \in Runs /\ o[2] \in Nat /\ o[2] > 0 /\ (pc[r] = "new" => asked[r] = 0)
    BY SessionStoreAssumption DEF Plans, OnlyAskedPlans
  <2>2. CASE o[1] = r
    BY <1>1, <2>1, <2>2 DEF Returned, TypeOK
  <2>3. CASE o[1] # r
    BY <1>1, <2>1, <2>3 DEF Returned, TypeOK
  <2> QED
    BY <2>2, <2>3
<1> QED
  BY <1>1, <1>2 DEF Stages, StageOf

\* The store, the gates and the handlers implement the approval channel: each plan
\* gets one decision, which never changes, and its run is handed that one.
THEOREM StoreImplementsChannel == Spec => ImplementsChannel
<1>1. Init => Channel!ChannelInit
  BY SessionStoreAssumption DEF Init, Channel!ChannelInit, StageOf, Plans
<1>2. TypeOK /\ OnlyAskedPlans /\ FullSlots /\ [Next]_vars
        => [Channel!ChannelNext]_(Channel!channelVars)
  <2> SUFFICES ASSUME TypeOK, OnlyAskedPlans, FullSlots, [Next]_vars
               PROVE  [Channel!ChannelNext]_(Channel!channelVars)
    OBVIOUS
  <2>1. UNCHANGED <<Stages, resolution>> => UNCHANGED Channel!channelVars
    BY DEF Channel!channelVars, Stages
  <2>2. CASE Tick \/ UNCHANGED vars
    BY <2>1, <2>2, StageDependsOn DEF Tick, vars, storeVars, runVars
  <2>3. ASSUME NEW r \in Runs, RunStep(r)
        PROVE  Channel!ChannelNext \/ UNCHANGED Channel!channelVars
    BY <2>1, <2>3, RegisterAsks, ClearDelivers, OtherRunStepsStutter DEF Channel!ChannelNext
  <2>4. ASSUME NEW c \in Clients, ClientStep(c)
        PROVE  Channel!ChannelNext \/ UNCHANGED Channel!channelVars
    <3>1. FillSlot(c) \/ UNCHANGED resolution
      BY <2>4 DEF ClientStep, GetSession, SubmitApproval, RejectApproval, AlreadySubmitted,
                  NotifyOne, Disconnect, storeVars
    <3> QED
      BY <2>1, <2>4, <3>1, FillDecides, StageDependsOn, ClientFrame DEF Channel!ChannelNext
  <2> QED
    BY <2>2, <2>3, <2>4 DEF Next
<1> QED
  BY <1>1, <1>2, TypeCorrect, OnlyAskedCorrect, FullSlotsCorrect, PTL
     DEF Spec, ImplementsChannel, Channel!ChannelSpec

-----------------------------------------------------------------------------
(* Chat requests                                                           *)

\* A chat request changes nothing of the store; everything else it does is a step
\* of the store.
LEMMA ChatLooksOn ==
  ASSUME NEW r \in Chats, ChatStep(r)
  PROVE  UNCHANGED <<vars, text, by>>
  BY DEF ChatStep, GetView, CheckDeadline, Wake, DeadlinePasses, HangUp

LEMMA ShimStepIsStoreStep == [ShimNext]_shimVars => [Next]_vars
<1> SUFFICES ASSUME [ShimNext]_shimVars PROVE [Next]_vars
  OBVIOUS
<1>1. ASSUME NEW r \in Runs, Begin(r) \/ EndRun(r) \/ Wait(r) PROVE RunStep(r)
  BY <1>1 DEF Begin, EndRun, Wait, RunStep
<1> QED
  BY <1>1, ChatLooksOn DEF ShimNext, Next, shimVars

\* Whatever chat requests do, time out or hang up, the store under them behaves as
\* one without them: all that is proved of Spec holds of ShimSpec.
THEOREM ShimImplementsStore == ShimSpec => Spec
<1>1. ShimInit => Init
  BY DEF ShimInit
<1> QED
  BY <1>1, ShimStepIsStoreStep, PTL DEF ShimSpec, Spec

\* The types of the chat requests, and of the texts.
ChatTypes ==
  /\ chat \in [Chats -> {"none", "look", "open", "sleep", "answered", "gone"}]
  /\ late \in [Chats -> BOOLEAN]
  /\ text \in [SessionIds -> Texts]
  /\ by \in [SessionIds -> SUBSET Runs]
  /\ reply \in [Chats -> [kind : {"none", "result", "error", "timeout"},
                          code : {0, 200, 500, 504}, of : SUBSET Runs]]

LEMMA ChatDomains ==
  ASSUME ChatTypes
  PROVE  /\ DOMAIN chat = Chats /\ DOMAIN reply = Chats
         /\ DOMAIN text = SessionIds /\ DOMAIN by = SessionIds
  BY DEF ChatTypes

LEMMA ChatTypesNext ==
  ASSUME TypeOK, ChatTypes, [ShimNext]_shimVars
  PROVE  ChatTypes'
<1> USE DEF ChatTypes
<1>1. CASE UNCHANGED chatVars
  BY <1>1 DEF chatVars
<1>2. ASSUME NEW r \in Runs, Begin(r) PROVE ChatTypes'
  BY <1>2 DEF Begin, Texts
<1>3. ASSUME NEW r \in Runs, EndRun(r) PROVE ChatTypes'
  <2>1. /\ \E t \in Texts : text' = [text EXCEPT ![sid[r]] = t]
        /\ by' = [by EXCEPT ![sid[r]] = {r}]
        /\ UNCHANGED <<chat, late, reply>>
    BY <1>3 DEF EndRun, Texts
  <2> QED
    BY <2>1 DEF TypeOK
<1>4. ASSUME NEW r \in Chats, ChatStep(r) PROVE ChatTypes'
  <2>1. UNCHANGED <<text, by>>
    BY <1>4, ChatLooksOn
  <2>2. ASSUME NEW kind \in {"result", "error", "timeout"}, NEW t \in Texts,
               NEW of \in SUBSET Runs, Answer(r, kind, t, of), UNCHANGED late
        PROVE  ChatTypes'
    <3>1. Code(r, t) \in {0, 200, 500, 504}
      BY DEF Code
    <3> QED
      BY <2>1, <2>2, <3>1 DEF Answer
  <2>3. CASE GetView(r)
    <3>1. sid[r] \in SessionIds
      BY ChatShimAssumption DEF TypeOK
    <3>2. CASE EndsWait(sessions[sid[r]].status)
      <4> DEFINE kind == IF text[sid[r]] = "result" THEN "result" ELSE "error"
      <4>1. kind \in {"result", "error", "timeout"}
            /\ Answer(r, kind, text[sid[r]], by[sid[r]]) /\ UNCHANGED late
        BY <2>3, <3>2 DEF GetView
      <4>2. text[sid[r]] \in Texts /\ by[sid[r]] \in SUBSET Runs
        BY <3>1
      <4> HIDE DEF kind
      <4> QED
        BY <4>1, <4>2, <2>2
    <3>3. CASE ~EndsWait(sessions[sid[r]].status)
      BY <2>1, <2>3, <3>3 DEF GetView
    <3> QED
      BY <3>2, <3>3
  <2>4. CASE CheckDeadline(r)
    <3>1. "timed out" \in Texts /\ {} \in SUBSET Runs
      BY DEF Texts
    <3>2. CASE late[r]
      BY <2>4, <3>1, <3>2, <2>2 DEF CheckDeadline
    <3>3. CASE ~late[r]
      BY <2>1, <2>4, <3>3 DEF CheckDeadline
    <3> QED
      BY <3>2, <3>3
  <2>5. CASE Wake(r) \/ DeadlinePasses(r) \/ HangUp(r)
    <3>1. chat' \in [Chats -> {"none", "look", "open", "sleep", "answered", "gone"}]
      BY <2>5 DEF Wake, DeadlinePasses, HangUp
    <3>2. late' \in [Chats -> BOOLEAN]
      <4>1. CASE Wake(r)
        <5>1. PICK passed \in {late[r]} : late' = [late EXCEPT ![r] = passed]
          BY <4>1, Zenon DEF Wake, KeptDeadline
        <5>2. passed \in BOOLEAN
          BY <5>1
        <5> QED
          BY <5>1, <5>2
      <4>2. CASE DeadlinePasses(r) \/ HangUp(r)
        <5>1. late' = [late EXCEPT ![r] = TRUE] \/ late' = late
          BY <4>2 DEF DeadlinePasses, HangUp
        <5>2. late \in [Chats -> BOOLEAN]
          OBVIOUS
        <5> QED
          BY ONLY <5>1, <5>2, r \in Chats
      <4> QED
        BY <2>5, <4>1, <4>2
    <3>3. UNCHANGED reply
      BY <2>5 DEF Wake, DeadlinePasses, HangUp
    <3> QED
      BY <2>1, <3>1, <3>2, <3>3
  <2> QED
    BY <1>4, <2>3, <2>4, <2>5 DEF ChatStep
<1> QED
  BY <1>1, <1>2, <1>3, <1>4 DEF ShimNext, shimVars, Wait

\* A request waits only for a run that has started.
ChatsHaveRuns ==
  \A r \in Chats : pc[r] = "new" => chat[r] = "none" /\ reply[r].kind = "none"

\* The text of a session that has ended is what the run whose end it shows wrote.
EndsAreWritten ==
  \A id \in SessionIds :
    sessions[id].status \in {"Completed", "Failed"} =>
      /\ sessions[id].status = "Completed" => text[id] = "result"
      /\ sessions[id].status = "Failed" => text[id] \in {"error", "timed out"}
      /\ \E q \in Runs :
           /\ by[id] = {q} /\ pc[q] = "done" /\ sid[q] = id
           /\ sessions[id].status = "Completed" => outcome[q] # "Deny"

\* An answer that carries a text has an author.
AnswersHaveAuthors ==
  \A r \in Chats : reply[r].kind \in {"result", "error"} => reply[r].of # {}

ShimInv ==
  /\ TypeOK
  /\ ChatTypes
  /\ ChatsHaveRuns
  /\ EndsAreWritten
  /\ AnswersHaveAuthors
  /\ OwnAnswer

LEMMA ChatsHaveRunsNext ==
  ASSUME TypeOK, ChatTypes, ChatsHaveRuns, [ShimNext]_shimVars
  PROVE  ChatsHaveRuns'
<1> SUFFICES ASSUME NEW r \in Chats, pc'[r] = "new"
             PROVE  chat'[r] = "none" /\ reply'[r].kind = "none"
  BY DEF ChatsHaveRuns
<1> r \in Runs
  BY ChatShimAssumption
<1>1. CASE UNCHANGED <<pc, chatVars>>
  BY <1>1 DEF ChatsHaveRuns, chatVars
<1>2. ASSUME NEW q \in Runs, Begin(q) \/ EndRun(q) \/ Wait(q)
      PROVE  chat'[r] = "none" /\ reply'[r].kind = "none"
  <2>1. RunStep(q)
    BY <1>2 DEF Begin, EndRun, Wait, RunStep
  <2>2. q # r /\ pc[r] = "new"
    BY <2>1, RunFrame
  <2>3. chat'[r] = chat[r] /\ reply' = reply
    <3>1. DOMAIN chat = Chats
      BY ChatDomains
    <3>2. UNCHANGED reply /\ (UNCHANGED chat \/ chat' = [chat EXCEPT ![q] = "look"])
      BY <1>2 DEF Begin, EndRun, Wait, chatVars
    <3> QED
      BY <2>2, <3>1, <3>2
  <2> QED
    BY <2>2, <2>3 DEF ChatsHaveRuns
<1>3. ASSUME NEW q \in Chats, ChatStep(q)
      PROVE  chat'[r] = "none" /\ reply'[r].kind = "none"
  <2>1. pc[r] = "new" /\ chat[r] = "none" /\ reply[r].kind = "none"
    BY <1>3, ChatLooksOn DEF vars, ChatsHaveRuns
  <2>2. q # r
    BY <1>3, <2>1 DEF ChatStep, GetView, CheckDeadline, Wake, DeadlinePasses, HangUp
  <2>3. chat'[r] = chat[r] /\ reply'[r] = reply[r]
    <3>1. DOMAIN chat = Chats /\ DOMAIN reply = Chats
      BY ChatDomains
    <3>2. /\ UNCHANGED chat \/ \E at : chat' = [chat EXCEPT ![q] = at]
          /\ UNCHANGED reply \/ \E answer : reply' = [reply EXCEPT ![q] = answer]
      BY <1>3 DEF ChatStep, GetView, CheckDeadline, Wake, DeadlinePasses, HangUp, Answer
    <3> QED
      BY <2>2, <3>1, <3>2
  <2> QED
    BY <2>1, <2>3
<1> QED
  BY <1>1, <1>2, <1>3, ClientFrame DEF ShimNext, shimVars, vars, Tick, runVars

LEMMA EndsAreWrittenNext ==
  ASSUME TypeOK, ChatTypes, EndsAreWritten, [ShimNext]_shimVars
  PROVE  EndsAreWritten'
<1> SUFFICES ASSUME NEW id \in SessionIds, sessions'[id].status \in {"Completed", "Failed"}
             PROVE  /\ sessions'[id].status = "Completed" => text'[id] = "result"
                    /\ sessions'[id].status = "Failed" => text'[id] \in {"error", "timed out"}
                    /\ \E q \in Runs :
                         /\ by'[id] = {q} /\ pc'[q] = "done" /\ sid'[q] = id
                         /\ sessions'[id].status = "Completed" => outcome'[q] # "Deny"
  BY DEF EndsAreWritten
<1> DEFINE Written ==
      /\ sessions'[id].status = "Completed" => text'[id] = "result"
      /\ sessions'[id].status = "Failed" => text'[id] \in {"error", "timed out"}
      /\ \E q \in Runs :
           /\ by'[id] = {q} /\ pc'[q] = "done" /\ sid'[q] = id
           /\ sessions'[id].status = "Completed" => outcome'[q] # "Deny"
\* A step that writes neither the text nor the status, and leaves what is done alone.
<1>1. ASSUME sessions'[id].status = sessions[id].status, text'[id] = text[id], by'[id] = by[id],
             \A q \in Runs : pc[q] = "done" => pc'[q] = "done" /\ sid'[q] = sid[q]
                                               /\ outcome'[q] = outcome[q]
      PROVE  Written
  <2>1. PICK q \in Runs : /\ by[id] = {q} /\ pc[q] = "done" /\ sid[q] = id
                          /\ sessions[id].status = "Completed" => outcome[q] # "Deny"
    BY <1>1 DEF EndsAreWritten
  <2>2. /\ sessions[id].status = "Completed" => text[id] = "result"
        /\ sessions[id].status = "Failed" => text[id] \in {"error", "timed out"}
    BY <1>1 DEF EndsAreWritten
  <2> QED
    BY <1>1, <2>1, <2>2
<1>2. CASE UNCHANGED <<sessions, pc, sid, outcome, text, by>>
  BY <1>1, <1>2
<1>3. ASSUME NEW r \in Runs, Begin(r) PROVE Written
  <2>1. StartRun(r) /\ text' = [text EXCEPT ![clock] = "none"] /\ by' = [by EXCEPT ![clock] = {}]
    BY <1>3 DEF Begin
  <2>2. id # clock
    BY <2>1 DEF StartRun, TypeOK
  <2>3. /\ sessions'[id] = sessions[id] /\ UNCHANGED outcome
        /\ \A q \in Runs : pc[q] = "done" => pc'[q] = "done" /\ sid'[q] = sid[q]
    BY <2>1, <2>2 DEF StartRun, TypeOK
  <2>4. text'[id] = text[id] /\ by'[id] = by[id]
    BY <2>1, <2>2, ChatDomains
  <2> QED
    BY <1>1, <2>3, <2>4
<1>4. ASSUME NEW r \in Runs, EndRun(r) PROVE Written
  <2>1. PICK t \in {"result", "error", "timed out"}, status \in {"Completed", "Failed"} :
          /\ Finish(r, status)
          /\ status = "Completed" => outcome[r] # "Deny" /\ t = "result"
          /\ status = "Failed" => t \in {"error", "timed out"}
          /\ text' = [text EXCEPT ![sid[r]] = t]
          /\ by' = [by EXCEPT ![sid[r]] = {r}]
    <3>1. CASE Complete(r) /\ text' = [text EXCEPT ![sid[r]] = "result"]
      BY <1>4, <3>1 DEF EndRun, Complete
    <3>2. CASE Fail(r) /\ \E err \in {"error", "timed out"} : text' = [text EXCEPT ![sid[r]] = err]
      BY <1>4, <3>2 DEF EndRun, Fail
    <3> QED
      BY <1>4, <3>1, <3>2 DEF EndRun
  <2>2. /\ pc[r] = "active" /\ pc' = [pc EXCEPT ![r] = "done"] /\ UNCHANGED <<sid, outcome>>
        /\ sessions' = Updated(sid[r], [status |-> status, pending |-> NoPlan])
    BY <2>1 DEF Finish
  <2>3. CASE id = sid[r]
    <3>1. sessions[id].status # "Absent" /\ sessions'[id].status = status
      BY <2>2, <2>3 DEF Updated, TypeOK
    <3>2. text'[id] = t /\ by'[id] = {r} /\ pc'[r] = "done" /\ sid'[r] = id
      BY <2>1, <2>2, <2>3, ChatDomains DEF TypeOK
    <3> QED
      BY <2>1, <2>2, <3>1, <3>2
  <2>4. CASE id # sid[r]
    <3>1. sessions'[id] = sessions[id]
      BY <2>2, <2>4 DEF Updated, TypeOK
    <3>2. text'[id] = text[id] /\ by'[id] = by[id]
      BY <2>1, <2>4, ChatDomains
    <3>3. \A q \in Runs : pc[q] = "done" => pc'[q] = "done"
      BY <2>2 DEF TypeOK
    <3> QED
      BY <1>1, <2>2, <3>1, <3>2, <3>3
  <2> QED
    BY <2>3, <2>4
<1>5. ASSUME NEW r \in Runs, Wait(r) PROVE Written
  <2>1. UNCHANGED <<text, by, sid>>
    BY <1>5 DEF Wait, chatVars, RegisterPending, GateCheck, GateRecheck, Look, GateAwait, GateClear
  <2>2. \A q \in Runs : pc[q] = "done" => pc'[q] = "done" /\ outcome'[q] = outcome[q]
    BY <1>5 DEF Wait, RegisterPending, GateCheck, GateRecheck, Look, GateAwait, GateClear, TypeOK
  <2>3. sessions'[id].status = sessions[id].status
    <3>1. CASE RegisterPending(r)
      BY <3>1 DEF RegisterPending, Updated, Pending, TypeOK
    <3>2. CASE GateClear(r)
      BY <3>2 DEF GateClear, Updated, Cleared, TypeOK
    <3>3. CASE GateCheck(r) \/ GateRecheck(r) \/ GateAwait(r)
      BY <3>3 DEF GateCheck, GateRecheck, Look, GateAwait, storeVars
    <3> QED
      BY <1>5, <3>1, <3>2, <3>3 DEF Wait
  <2> QED
    BY <1>1, <2>1, <2>2, <2>3
<1>6. ASSUME NEW r \in Chats, ChatStep(r) PROVE Written
  BY <1>2, <1>6, ChatLooksOn DEF vars
<1>7. CASE (Tick \/ \E c \in Clients : ClientStep(c)) /\ UNCHANGED chatVars
  BY <1>2, <1>7, ClientFrame DEF Tick, storeVars, runVars, chatVars
<1>8. CASE UNCHANGED shimVars
  BY <1>2, <1>8 DEF shimVars, vars, chatVars
<1>9. Written
  BY <1>3, <1>4, <1>5, <1>6, <1>7, <1>8 DEF ShimNext
<1> QED
  BY <1>9

\* What a step answers: nothing new, or the end of the session it has looked at.
LEMMA AnswersTellEnds ==
  ASSUME TypeOK, ChatTypes, EndsAreWritten, [ShimNext]_shimVars, NEW r \in Chats,
         reply'[r] # reply[r], reply'[r].kind \in {"result", "error"}
  PROVE  LET id == sid[r]
         IN  /\ UNCHANGED vars
             /\ reply'[r].of = by[id]
             /\ sessions[id].status \in {"Completed", "Failed"}
             /\ (reply'[r].kind = "result") <=> (sessions[id].status = "Completed")
<1>1. PICK q \in Chats : ChatStep(q)
  BY DEF ShimNext, Begin, EndRun, Wait, shimVars, chatVars
<1>2. q = r /\ (GetView(r) \/ CheckDeadline(r))
  <2>1. DOMAIN reply = Chats
    BY ChatDomains
  <2>2. UNCHANGED reply \/ \E answer : reply' = [reply EXCEPT ![q] = answer]
    BY <1>1 DEF ChatStep, GetView, CheckDeadline, Wake, DeadlinePasses, HangUp, Answer
  <2>3. q = r
    BY <2>1, <2>2
  <2>4. ~UNCHANGED reply
    OBVIOUS
  <2> QED
    BY <1>1, <2>3, <2>4 DEF ChatStep, Wake, DeadlinePasses, HangUp
<1>3. ~CheckDeadline(r)
  <2>1. DOMAIN reply = Chats
    BY ChatDomains
  <2>2. SUFFICES ASSUME CheckDeadline(r) PROVE FALSE
    OBVIOUS
  <2> DEFINE answer == [kind |-> "timeout", code |-> Code(r, "timed out"), of |-> {}]
  <2>3. UNCHANGED reply \/ reply' = [reply EXCEPT ![r] = answer]
    BY <2>2 DEF CheckDeadline, Answer
  <2>4. answer.kind \notin {"result", "error"}
    OBVIOUS
  <2> HIDE DEF answer
  <2> QED
    BY <2>1, <2>3, <2>4
<1> DEFINE id == sid[r]
<1>4. id \in SessionIds
  BY ChatShimAssumption DEF TypeOK
<1>5. /\ EndsWait(sessions[id].status)
      /\ reply'[r] = [kind |-> IF text[id] = "result" THEN "result" ELSE "error",
                      code |-> Code(r, text[id]), of |-> by[id]]
      /\ UNCHANGED vars
  BY <1>2, <1>3, ChatDomains DEF GetView, Answer
<1>6. (text[id] = "result") <=> (sessions[id].status = "Completed")
  BY <1>4, <1>5 DEF EndsAreWritten, EndsWait
<1> QED
  BY <1>5, <1>6 DEF EndsWait

LEMMA AnswersHaveAuthorsNext ==
  ASSUME TypeOK, ChatTypes, EndsAreWritten, AnswersHaveAuthors, [ShimNext]_shimVars
  PROVE  AnswersHaveAuthors'
<1> SUFFICES ASSUME NEW r \in Chats, reply'[r].kind \in {"result", "error"}
             PROVE  reply'[r].of # {}
  BY DEF AnswersHaveAuthors
<1>1. CASE reply'[r] = reply[r]
  BY <1>1 DEF AnswersHaveAuthors
<1>2. CASE reply'[r] # reply[r]
  <2>1. reply'[r].of = by[sid[r]] /\ sessions[sid[r]].status \in {"Completed", "Failed"}
    BY <1>2, AnswersTellEnds
  <2>2. sid[r] \in SessionIds
    BY ChatShimAssumption DEF TypeOK
  <2> QED
    BY <2>1, <2>2 DEF EndsAreWritten
<1> QED
  BY <1>1, <1>2

\* A run that has started and was alone stays with its session; a finished one does
\* nothing any more, and nobody else writes to its session.
LEMMA OwnAnswerNext ==
  ASSUME TypeOK, ChatTypes, ChatsHaveRuns, EndsAreWritten, OwnAnswer, [ShimNext]_shimVars
  PROVE  OwnAnswer'
<1> SUFFICES ASSUME NEW r \in Chats, Alone(r)', reply'[r].kind \in {"result", "error"}
             PROVE  /\ reply'[r].of = {r} /\ pc'[r] = "done"
                    /\ (reply'[r].kind = "result") <=> (sessions'[sid'[r]].status = "Completed")
                    /\ reply'[r].kind = "result" => outcome'[r] # "Deny"
  BY DEF OwnAnswer
<1> r \in Runs
  BY ChatShimAssumption
<1>1. CASE reply'[r] # reply[r]
  <2>1. /\ UNCHANGED vars /\ reply'[r].of = by[sid[r]]
        /\ sessions[sid[r]].status \in {"Completed", "Failed"}
        /\ (reply'[r].kind = "result") <=> (sessions[sid[r]].status = "Completed")
    BY <1>1, AnswersTellEnds
  <2>2. sid[r] \in SessionIds
    BY DEF TypeOK
  <2>3. PICK q \in Runs : /\ by[sid[r]] = {q} /\ pc[q] = "done" /\ sid[q] = sid[r]
                          /\ sessions[sid[r]].status = "Completed" => outcome[q] # "Deny"
    BY <2>1, <2>2 DEF EndsAreWritten
  <2>4. q = r
    BY <2>1, <2>3 DEF Alone, vars
  <2> QED
    BY <2>1, <2>3, <2>4 DEF vars
<1>2. CASE reply'[r] = reply[r]
  <2>1. pc[r] # "new"
    BY <1>2 DEF ChatsHaveRuns
  <2>2. ASSUME Alone(r), UNCHANGED <<pc, sid, outcome, sessions>>
        PROVE  /\ reply'[r].of = {r} /\ pc'[r] = "done"
               /\ (reply'[r].kind = "result") <=> (sessions'[sid'[r]].status = "Completed")
               /\ reply'[r].kind = "result" => outcome'[r] # "Deny"
    BY <1>2, <2>2 DEF OwnAnswer
  <2>3. CASE UNCHANGED <<pc, sid, outcome, sessions>>
    BY <2>2, <2>3 DEF Alone
  <2>4. ASSUME NEW q \in Runs, RunStep(q)
        PROVE  /\ reply'[r].of = {r} /\ pc'[r] = "done"
               /\ (reply'[r].kind = "result") <=> (sessions'[sid'[r]].status = "Completed")
               /\ reply'[r].kind = "result" => outcome'[r] # "Deny"
    <3>1. Alone(r)
      BY <2>1, <2>4, RunFrame DEF Alone
    <3>2. /\ reply[r].of = {r} /\ pc[r] = "done"
          /\ (reply[r].kind = "result") <=> (sessions[sid[r]].status = "Completed")
          /\ reply[r].kind = "result" => outcome[r] # "Deny"
      BY <1>2, <3>1 DEF OwnAnswer
    <3>3. q # r
      BY <2>4, <3>2 DEF RunStep, StartRun, RegisterPending, GateCheck, GateRecheck, Look,
         GateAwait, GateClear, Complete, Fail, Finish
    <3>4. pc'[r] = pc[r] /\ sid'[r] = sid[r] /\ sid'[q] # sid'[r]
      BY <2>4, <3>3, RunFrame DEF Alone
    <3>5. sessions'[sid[r]] = sessions[sid[r]]
      BY <2>4, <3>4, RunFrame DEF TypeOK
    <3>6. outcome'[r] = outcome[r]
      BY <2>4, <3>3 DEF RunStep, StartRun, RegisterPending, GateCheck, GateRecheck, Look,
         GateAwait, GateClear, Complete, Fail, Finish, TypeOK
    <3> QED
      BY <1>2, <3>2, <3>4, <3>5, <3>6
  <2>5. UNCHANGED <<pc, sid, outcome, sessions>> \/ \E q \in Runs : RunStep(q)
    BY ShimStepIsStoreStep, ClientFrame DEF Next, Tick, vars, storeVars, runVars
  <2> QED
    BY <2>3, <2>4, <2>5
<1> QED
  BY <1>1, <1>2

LEMMA ShimInvCorrect == ShimSpec => []ShimInv
<1>1. ShimInit => ShimInv
  <2> SUFFICES ASSUME ShimInit PROVE ShimInv
    OBVIOUS
  <2>1. ChatTypes /\ ChatsHaveRuns /\ AnswersHaveAuthors /\ OwnAnswer
    BY DEF ShimInit, NoReply, Texts, ChatTypes, ChatsHaveRuns, AnswersHaveAuthors, OwnAnswer
  <2>2. EndsAreWritten
    BY DEF ShimInit, Init, EndsAreWritten
  <2>3. TypeOK
    BY SessionStoreAssumption DEF ShimInit, Init, TypeOK, SessionIds, Statuses
  <2> QED
    BY <2>1, <2>2, <2>3 DEF ShimInv
<1>2. TypeOK /\ TypeOK' /\ ShimInv /\ [ShimNext]_shimVars => ShimInv'
  BY ChatTypesNext, ChatsHaveRunsNext, EndsAreWrittenNext, AnswersHaveAuthorsNext, OwnAnswerNext
     DEF ShimInv
<1> QED
  BY <1>1, <1>2, ShimImplementsStore, TypeCorrect, PTL DEF ShimSpec

\* The chat requests keep their types, and a session that has ended carries the text
\* that belongs to its status: "completed session missing result" is never answered
\* (openai_shim.rs).
THEOREM ChatTypeCorrect == ShimSpec => []ChatTypeOK
<1>1. ShimInv => ChatTypeOK
  BY DEF ShimInv, ChatTypeOK, ChatTypes, EndsAreWritten, AnswersHaveAuthors
<1> QED
  BY <1>1, ShimInvCorrect, PTL

\* A chat request with a session id of its own gets what its own run ended with.
THEOREM ChatGetsOwnAnswer == ShimSpec => []OwnAnswer
<1>1. ShimInv => OwnAnswer
  BY DEF ShimInv
<1> QED
  BY <1>1, ShimInvCorrect, PTL

=============================================================================
