--------------------------- MODULE DesktopProofs ---------------------------
(***************************************************************************)
(* Proofs about Desktop for any number of sessions, polls, health checks   *)
(* and plans.                                                              *)
(***************************************************************************)
EXTENDS Desktop, TLAPS

-----------------------------------------------------------------------------
(* The inductive invariant                                                 *)

\* What each phase of the page is busy with; the page of a session has not reported
\* on it yet, and a run that is about to be posted has not started.
PageInPhase ==
  /\ phase = "idle" <=> session = NoSession
  /\ phase \in {"idle", "awaiting_approval"} <=> step = "none"
  /\ phase = "running" <=> step \in {"run", "poll", "latest"}
  /\ session # NoSession => reported[session] = "nothing"
  /\ step = "run" => status[session] = "none"

\* A run that has started is the page's, or the operator was told something of it.
RunsAreKnown ==
  \A s \in Sessions : status[s] # "none" /\ session # s => reported[s] # "nothing"

\* Who listens, what has become of the child and which runs are alive agree.
PortIsChilds == port = "child" <=> child = "serving"
RunsHaveServers ==
  \A s \in Sessions :
    /\ home[s] \in {Nobody, port}
    /\ status[s] \in {"running", "pending"} => home[s] # Nobody

\* A child that lives was spawned by this shell, which holds it, is just about to or
\* has dropped it.
ChildIsHeld ==
  /\ child \in {"starting", "serving"} =>
       mode = "spawned" /\ (held \/ boot = "settle" \/ dropped)
  /\ boot = "settle" => mode = "spawned"

IInv ==
  /\ TypeOK
  /\ PageInPhase
  /\ RunsAreKnown
  /\ PortIsChilds
  /\ RunsHaveServers
  /\ ChildIsHeld
  /\ ReportsAreTrue
  /\ NoOrphan

-----------------------------------------------------------------------------
(* Types                                                                   *)

LEMMA DownTypes ==
  ASSUME TypeOK, NEW owner \in {"child", "ozr", "alien"}, Down(owner)
  PROVE  /\ port' \in {Nobody, "child", "ozr", "alien"}
         /\ status' \in [Sessions -> {"none", "running", "pending", "completed", "failed", "killed"}]
         /\ home' \in [Sessions -> {Nobody, "child", "ozr"}]
         /\ asked' \in [Sessions -> 0 .. MaxPlans]
         /\ decision' \in [Sessions -> Decisions \cup {"none"}]
         /\ stuck' \in Sessions \cup {NoSession}
  BY BoundsAreUsable DEF TypeOK, Down

LEMMA PageTypes ==
  ASSUME TypeOK, NEW s \in Sessions, NEW what \in {"failed", "completed", "denied"},
         Report(s, what)
  PROVE  /\ phase' = "idle" /\ step' = "none" /\ session' = NoSession /\ polls' = 0
         /\ reported' \in [Sessions -> {"nothing", "completed", "failed", "denied", "lost"}]
  BY DEF TypeOK, Report, ClosePage

LEMMA LostPageTypes ==
  ASSUME TypeOK, LosePage
  PROVE  /\ phase' = "idle" /\ step' = "none" /\ session' = NoSession /\ polls' = 0
         /\ reported' \in [Sessions -> {"nothing", "completed", "failed", "denied", "lost"}]
  BY DEF TypeOK, LosePage, ClosePage

LEMMA StopTypes ==
  ASSUME TypeOK, Stop
  PROVE  /\ child' \in {"none", "starting", "serving", "dead"} /\ held' \in BOOLEAN
         /\ port' \in {Nobody, "child", "ozr", "alien"}
         /\ status' \in [Sessions -> {"none", "running", "pending", "completed", "failed", "killed"}]
         /\ home' \in [Sessions -> {Nobody, "child", "ozr"}]
         /\ asked' \in [Sessions -> 0 .. MaxPlans]
         /\ decision' \in [Sessions -> Decisions \cup {"none"}]
         /\ stuck' \in Sessions \cup {NoSession}
<1>1. CASE mode = "spawned" /\ held
  <2>1. Down("child") /\ child' = "dead" /\ held' = FALSE
    BY <1>1 DEF Stop
  <2> QED
    BY <2>1, DownTypes
<1>2. CASE ~(mode = "spawned" /\ held)
  BY <1>2 DEF Stop, serverVars, runVars, TypeOK
<1> QED
  BY <1>1, <1>2

LEMMA AbandonTypes ==
  ASSUME TypeOK, Abandon
  PROVE  /\ port' \in {Nobody, "child", "ozr", "alien"}
         /\ home' \in [Sessions -> {Nobody, "child", "ozr"}]
         /\ UNCHANGED <<status, asked, decision, stuck>>
  BY DEF TypeOK, Abandon

LEMMA PollTypes ==
  ASSUME TypeOK, NEW onTimeout \in {"latest", "gave_up"}, PollAgain(onTimeout)
  PROVE  /\ polls' \in 0 .. (MaxPolls - 1)
         /\ step' \in {step, onTimeout}
  BY BoundsAreUsable DEF TypeOK, PollAgain

\* A page that makes a request has a session.
LEMMA BusyWithSession ==
  ASSUME TypeOK, PageInPhase, step # "none"
  PROVE  session \in Sessions
  BY DEF TypeOK, PageInPhase

LEMMA TypeNext == ASSUME TypeOK, PageInPhase, [Next]_vars PROVE TypeOK'
<1> USE DEF serverVars, runVars, shellVars, pageVars
<1>1. CASE ServerNext
  <2>0. ASSUME NEW s \in Sessions, ClearPending(s), stuck' \in {stuck, NoSession}
        PROVE  TypeOK'
    BY <2>0 DEF ClearPending, TypeOK
  <2>1. CASE ChildBinds
    BY <2>1 DEF ChildBinds, TypeOK
  <2>2. CASE ChildDies
    BY <2>2, DownTypes DEF ChildDies, TypeOK
  <2>3. CASE OtherLeaves
    BY <2>3, DownTypes DEF OtherLeaves, TypeOK
  <2>4. CASE \E owner \in {"ozr", "alien"} : OtherBinds(owner)
    BY <2>4 DEF OtherBinds, TypeOK
  <2>5. ASSUME NEW s \in Sessions, Ask(s) PROVE TypeOK'
    BY <2>5, BoundsAreUsable DEF Ask, TypeOK
  <2>6. ASSUME NEW s \in Sessions, Resume(s) PROVE TypeOK'
    BY <2>6, <2>0 DEF Resume
  <2>7. ASSUME NEW s \in Sessions, NEW d \in Decisions, OtherDecides(s, d) PROVE TypeOK'
    BY <2>7 DEF OtherDecides, TypeOK
  <2>8. ASSUME NEW s \in Sessions, NEW outcome \in {"completed", "failed"}, End(s, outcome)
        PROVE  TypeOK'
    BY <2>8, BoundsAreUsable DEF End, TypeOK
  <2>9. ASSUME NEW s \in Sessions, LockUp(s) PROVE TypeOK'
    BY <2>9 DEF LockUp, TypeOK
  <2>10. CASE HangUp
    BY <2>10, <2>0 DEF HangUp, LockedUp, TypeOK
  <2> QED
    BY <1>1, <2>1, <2>2, <2>3, <2>4, <2>5, <2>6, <2>7, <2>8, <2>9, <2>10 DEF ServerNext
<1>2. CASE ShellStep
  <2>1. CASE Start
    <3>1. CASE Abandon
      <4>1. /\ child' = child \/ child' = "starting"
            /\ boot' \in {"check", "settle", "error"} /\ dropped' \in {dropped, FALSE}
            /\ UNCHANGED <<mode, held, checks, pageVars>>
        BY <2>1 DEF Start
      <4>2. /\ port' \in {Nobody, "child", "ozr", "alien"}
            /\ home' \in [Sessions -> {Nobody, "child", "ozr"}]
            /\ UNCHANGED <<status, asked, decision, stuck>>
        BY <3>1, AbandonTypes
      <4>3. child' \in {"none", "starting", "serving", "dead"} /\ dropped' \in BOOLEAN
        BY <4>1 DEF TypeOK
      <4> QED
        BY <4>1, <4>2, <4>3 DEF TypeOK
    <3>2. CASE ~Abandon
      BY <2>1, <3>2 DEF Start, TypeOK
    <3> QED
      BY <3>1, <3>2
  <2>2. CASE Settle
    <3>1. held' \in BOOLEAN /\ dropped' \in BOOLEAN
      <4>1. dropped' \in {dropped, TRUE} /\ held' \in {FALSE, child # "dead"}
        BY <2>2 DEF Settle
      <4> QED
        BY <4>1 DEF TypeOK
    <3>2. boot' \in {"check", "error"} /\ UNCHANGED <<serverVars, mode, checks, pageVars>>
      BY <2>2 DEF Settle
    <3> QED
      BY <3>1, <3>2 DEF TypeOK
  <2>3. CASE CheckChild
    BY <2>3, BoundsAreUsable DEF CheckChild, TypeOK
  <2>4. CASE Health
    BY <2>4, BoundsAreUsable DEF Health, TypeOK
  <2> QED
    BY <1>2, <2>1, <2>2, <2>3, <2>4 DEF ShellStep
<1>3. CASE PageStep
  <2>1. CASE Run
    BY <2>1, BusyWithSession, PageTypes, BoundsAreUsable DEF Run, Serves, TypeOK
  <2>2. CASE Poll
    BY <2>2, PollTypes, BoundsAreUsable DEF Poll, TypeOK
  <2>3. CASE Latest
    BY <2>3, BusyWithSession, PageTypes, BoundsAreUsable DEF Latest, Tell, TypeOK
  <2>4. CASE Decide
    BY <2>4, BusyWithSession, PageTypes, BoundsAreUsable DEF Decide, Decisions, TypeOK
  <2>5. CASE Unhang
    BY <2>5, BusyWithSession, PageTypes, BoundsAreUsable DEF Unhang, TypeOK
  <2>6. CASE Await
    BY <2>6, BusyWithSession, PageTypes, PollTypes, BoundsAreUsable DEF Await, TypeOK
  <2>7. CASE GiveUp
    BY <2>7, BusyWithSession, PageTypes, BoundsAreUsable DEF GiveUp, TypeOK
  <2> QED
    BY <1>3, <2>1, <2>2, <2>3, <2>4, <2>5, <2>6, <2>7 DEF PageStep
<1>4. CASE Exit
  <2>1. boot' = "exited" /\ UNCHANGED <<mode, dropped, checks>> /\ 0 \in 0 .. (MaxPolls - 1)
    BY <1>4, BoundsAreUsable DEF Exit
  <2>2. LosePage /\ Stop
    BY <1>4 DEF Exit
  <2> QED
    BY <2>1, <2>2, LostPageTypes, StopTypes DEF TypeOK
<1>5. CASE Reload
  BY <1>5, LostPageTypes, BoundsAreUsable DEF Reload, TypeOK
<1>6. CASE Killed
  <2>1. /\ boot' = "start" /\ held' = FALSE /\ dropped' = FALSE /\ child' = "none"
        /\ checks' = 0 /\ UNCHANGED mode
        /\ 0 \in 0 .. (MaxPolls - 1) /\ 0 \in 0 .. (MaxChecks - 1)
    BY <1>6, BoundsAreUsable DEF Killed
  <2>2. LosePage /\ Abandon
    BY <1>6 DEF Killed
  <2> QED
    BY <2>1, <2>2, LostPageTypes, AbandonTypes DEF TypeOK
<1>7. ASSUME NEW s \in Sessions, Submit(s) PROVE TypeOK'
  BY <1>7 DEF Submit, TypeOK
<1>8. ASSUME NEW d \in {"approve", "deny"}, Press(d) PROVE TypeOK'
  BY <1>8 DEF Press, TypeOK
<1>9. CASE UNCHANGED vars
  BY <1>9 DEF vars, TypeOK
<1> QED
  BY <1>1, <1>2, <1>3, <1>4, <1>5, <1>6, <1>7, <1>8, <1>9 DEF Next

-----------------------------------------------------------------------------
(* Who changes what                                                        *)

LEMMA ServersKeepTheRest ==
  ASSUME ServerNext
  PROVE  UNCHANGED <<shellVars, pageVars>>
  BY DEF ServerNext, ChildBinds, ChildDies, OtherLeaves, OtherBinds, Ask, Resume, ClearPending,
     LockUp, HangUp, OtherDecides, End, shellVars, pageVars

LEMMA ShellKeepsTheRest ==
  ASSUME ShellStep
  PROVE  /\ UNCHANGED <<status, asked, decision, stuck, mode, pageVars>>
         /\ UNCHANGED <<port, home>> \/ Abandon
  BY DEF ShellStep, Start, Abandon, Settle, CheckChild, Health, serverVars, runVars, pageVars

LEMMA PageKeepsTheRest ==
  ASSUME PageStep \/ (\E s \in Sessions : Submit(s)) \/ (\E d \in {"approve", "deny"} : Press(d))
  PROVE  UNCHANGED <<port, child, asked, shellVars>>
  BY DEF PageStep, Submit, Press, Run, Poll, Latest, Decide, Unhang, Await, GiveUp,
     serverVars, runVars, shellVars

\* Stopping the child, if it is held, is what its end does to its runs.
LEMMA StopIsDown ==
  ASSUME Stop
  PROVE  \/ mode = "spawned" /\ held /\ child' = "dead" /\ held' = FALSE /\ Down("child")
         \/ ~(mode = "spawned" /\ held) /\ UNCHANGED <<serverVars, held>>
  BY DEF Stop

\* A run ends once and for all; a run that has not started starts by the page's
\* request alone; a denied plan ends its run or waits to.
RunMoves(s) ==
  /\ status[s] = "none" => status'[s] = "none" \/ (session = s /\ step = "run")
  /\ status[s] = "completed" => status'[s] = "completed"
  /\ status[s] \in {"failed", "killed"} => status'[s] \in {"failed", "killed"}
  /\ status[s] \in {"pending", "running"} /\ decision[s] = "deny" =>
       \/ status'[s] \in {"failed", "killed"}
       \/ status'[s] \in {"pending", "running"} /\ decision'[s] = "deny"

LEMMA DownMoves ==
  ASSUME TypeOK, RunsHaveServers, NEW owner \in {"child", "ozr", "alien"}, Down(owner),
         NEW s \in Sessions
  PROVE  RunMoves(s)
<1>1. /\ status'[s] = IF home[s] = owner /\ status[s] \in {"running", "pending"}
                        THEN "killed" ELSE status[s]
      /\ decision'[s] = IF home[s] = owner THEN "none" ELSE decision[s]
  BY DEF Down
<1> QED
  BY <1>1 DEF RunMoves

LEMMA RunsMove ==
  ASSUME TypeOK, PageInPhase, RunsHaveServers, [Next]_vars, NEW s \in Sessions
  PROVE  RunMoves(s)
<1> USE DEF serverVars, runVars
<1>1. CASE UNCHANGED <<status, decision>>
  BY <1>1 DEF RunMoves
<1>2. CASE ServerNext
  <2>1. CASE ChildBinds \/ (\E owner \in {"ozr", "alien"} : OtherBinds(owner))
    BY <2>1, <1>1 DEF ChildBinds, OtherBinds
  <2>2. CASE ChildDies \/ OtherLeaves
    BY <2>2, DownMoves DEF ChildDies, OtherLeaves
  <2>3. ASSUME NEW q \in Sessions,
               \/ Ask(q) \/ ClearPending(q)
               \/ \E d \in Decisions : OtherDecides(q, d)
               \/ \E outcome \in {"completed", "failed"} : End(q, outcome)
        PROVE  RunMoves(s)
    BY <2>3 DEF Ask, ClearPending, OtherDecides, End, RunMoves, TypeOK
  <2>4. ASSUME NEW q \in Sessions, Resume(q) \/ LockUp(q) PROVE RunMoves(s)
    BY <2>3, <2>4, <1>1 DEF Resume, LockUp
  <2>5. CASE HangUp
    BY <2>3, <2>5 DEF HangUp, LockedUp, TypeOK
  <2> QED
    BY <1>2, <2>1, <2>2, <2>3, <2>4, <2>5 DEF ServerNext
<1>3. CASE ShellStep
  BY <1>3, <1>1, ShellKeepsTheRest
<1>4. CASE PageStep
  <2>1. CASE Run
    BY <2>1 DEF Run, RunMoves, TypeOK, PageInPhase
  <2>2. CASE Decide
    BY <2>2 DEF Decide, TakesDecision, RunMoves, TypeOK
  <2>3. CASE Poll \/ Latest \/ Unhang \/ Await \/ GiveUp
    BY <2>3, <1>1 DEF Poll, Latest, Unhang, Await, GiveUp
  <2> QED
    BY <1>4, <2>1, <2>2, <2>3 DEF PageStep
<1>5. CASE Exit
  BY <1>5, <1>1, StopIsDown, DownMoves DEF Exit
<1>6. CASE Reload \/ Killed \/ (\E q \in Sessions : Submit(q))
           \/ (\E d \in {"approve", "deny"} : Press(d)) \/ UNCHANGED vars
  BY <1>6, <1>1 DEF Reload, Killed, Abandon, Submit, Press, vars
<1> QED
  BY <1>2, <1>3, <1>4, <1>5, <1>6 DEF Next

\* What a step tells the operator: nothing, or how the run of the page stands, as
\* the page closes.
TellsTheTruth ==
  \/ reported'[session] \in {"failed", "lost"}
  \/ reported'[session] = "completed" /\ status'[session] = "completed"
  \/ reported'[session] = "denied" /\ status'[session] = "pending" /\ decision'[session] = "deny"

PageMoves ==
  \/ UNCHANGED <<session, reported>>
  \/ UNCHANGED reported /\ session = NoSession
  \/ /\ session' = NoSession
     /\ \A s \in Sessions \ {session} : reported'[s] = reported[s]
     /\ session \in Sessions => TellsTheTruth

LEMMA ReportMoves ==
  ASSUME TypeOK, session \in Sessions, NEW what, Report(session, what),
         \/ what = "failed"
         \/ what = "completed" /\ status'[session] = "completed"
         \/ what = "denied" /\ status'[session] = "pending" /\ decision'[session] = "deny"
  PROVE  PageMoves
  BY DEF Report, ClosePage, PageMoves, TellsTheTruth, TypeOK

LEMMA PageMove == ASSUME TypeOK, PageInPhase, [Next]_vars PROVE PageMoves
<1>1. CASE UNCHANGED <<session, reported>>
  BY <1>1 DEF PageMoves
<1>2. CASE ServerNext \/ ShellStep
  BY <1>2, <1>1, ServersKeepTheRest, ShellKeepsTheRest DEF pageVars
<1>3. CASE PageStep
  <2> session \in Sessions
    BY <1>3, BusyWithSession DEF PageStep, Run, Poll, Latest, Decide, Unhang, Await, GiveUp
  <2>1. CASE Run
    BY <2>1, <1>1, ReportMoves DEF Run
  <2>2. CASE Poll
    BY <2>2, <1>1 DEF Poll
  <2>3. CASE Latest
    <3>1. Seen(session) = "completed" => status[session] = "completed"
      BY DEF Seen
    <3> QED
      BY <2>3, <3>1, ReportMoves DEF Latest, Tell, serverVars, runVars
  <2>4. CASE Decide
    <3>1. ASSUME TakesDecision(session), step = "deny",
                 decision' = [decision EXCEPT ![session] = step], UNCHANGED status
          PROVE  status'[session] = "pending" /\ decision'[session] = "deny"
      BY <3>1 DEF TakesDecision, Seen, TypeOK
    <3>2. \/ UNCHANGED <<session, reported>>
          \/ Report(session, "failed")
          \/ /\ Report(session, "denied") /\ TakesDecision(session) /\ step = "deny"
             /\ decision' = [decision EXCEPT ![session] = step] /\ UNCHANGED status
      BY <2>4 DEF Decide
    <3> QED
      BY <3>1, <3>2, <1>1, ReportMoves
  <2>5. CASE Unhang \/ GiveUp
    BY <2>5, ReportMoves DEF Unhang, GiveUp
  <2>6. CASE Await
    <3>1. Seen(session) \in AwaitedStatuses => status[session] = "completed"
      BY DEF Seen, AwaitedStatuses
    <3> QED
      BY <2>6, <3>1, <1>1, ReportMoves DEF Await, serverVars, runVars
  <2> QED
    BY <1>3, <2>1, <2>2, <2>3, <2>4, <2>5, <2>6 DEF PageStep
<1>4. CASE Exit \/ Reload \/ Killed
  <2>1. LosePage
    BY <1>4 DEF Exit, Reload, Killed
  <2> QED
    BY <2>1 DEF LosePage, ClosePage, PageMoves, TellsTheTruth, TypeOK
<1>5. ASSUME NEW s \in Sessions, Submit(s) PROVE PageMoves
  BY <1>5 DEF Submit, PageMoves, PageInPhase
<1>6. CASE (\E d \in {"approve", "deny"} : Press(d)) \/ UNCHANGED vars
  BY <1>6, <1>1 DEF Press, vars, pageVars
<1> QED
  BY <1>2, <1>3, <1>4, <1>5, <1>6 DEF Next

-----------------------------------------------------------------------------
(* Every part of the invariant is kept                                     *)

LEMMA PageInPhaseNext ==
  ASSUME TypeOK, PageInPhase, RunsHaveServers, [Next]_vars
  PROVE  PageInPhase'
<1>1. ASSUME UNCHANGED pageVars PROVE PageInPhase'
  <2>1. step = "run" => session \in Sessions
    BY BusyWithSession
  <2>2. ASSUME step = "run" PROVE status'[session] = "none"
    <3>1. CASE status' = status
      BY <2>2, <3>1 DEF PageInPhase
    <3>2. CASE ServerNext \/ ShellStep \/ Exit \/ Reload \/ Killed
      <4>1. UNCHANGED status \/ ServerNext \/ Exit
        BY <3>2, ShellKeepsTheRest DEF Reload, Killed, Abandon, serverVars, runVars
      <4>2. ~Exit
        BY <1>1, <2>2 DEF Exit, LosePage, ClosePage, pageVars
      <4>3. CASE ServerNext
        <5>1. status[session] = "none"
          BY <2>2 DEF PageInPhase
        <5>2. ASSUME NEW q \in Sessions,
                     \/ Ask(q) \/ ClearPending(q) \/ Resume(q) \/ LockUp(q)
                     \/ \E d \in Decisions : OtherDecides(q, d)
                     \/ \E outcome \in {"completed", "failed"} : End(q, outcome)
              PROVE  status'[session] = "none"
          BY <5>1, <5>2, <2>1, <2>2
             DEF Ask, ClearPending, Resume, LockUp, OtherDecides, End, TypeOK
        <5>3. CASE ChildDies \/ OtherLeaves
          BY <5>1, <5>3, <2>1, <2>2 DEF ChildDies, OtherLeaves, Down
        <5>4. CASE ChildBinds \/ (\E owner \in {"ozr", "alien"} : OtherBinds(owner))
          BY <5>1, <5>4 DEF ChildBinds, OtherBinds, runVars
        <5>5. CASE HangUp
          BY <5>2, <5>5 DEF HangUp, LockedUp, TypeOK
        <5> QED
          BY <4>3, <5>2, <5>3, <5>4, <5>5 DEF ServerNext
      <4> QED
        BY <4>1, <4>2, <4>3, <3>1
    <3>3. CASE PageStep
      BY <1>1, <2>2, <3>1, <3>3
         DEF PageStep, Run, Report, ClosePage, Poll, Latest, Decide, Unhang, Await, GiveUp,
             pageVars, serverVars, runVars
    <3>4. CASE \/ (\E s \in Sessions : Submit(s)) \/ (\E d \in {"approve", "deny"} : Press(d))
               \/ UNCHANGED vars
      BY <3>4, <3>1 DEF Submit, Press, vars, serverVars, runVars
    <3> QED
      BY <3>2, <3>3, <3>4 DEF Next
  <2> QED
    BY <1>1, <2>2 DEF PageInPhase, pageVars
<1>2. ASSUME phase' = "idle", step' = "none", session' = NoSession PROVE PageInPhase'
  BY <1>2 DEF PageInPhase
<1>3. CASE ServerNext \/ ShellStep \/ UNCHANGED vars
  BY <1>3, <1>1, ServersKeepTheRest, ShellKeepsTheRest DEF vars
<1>4. CASE Exit \/ Reload \/ Killed
  BY <1>4, <1>2 DEF Exit, Reload, Killed, LosePage, ClosePage
<1>5. CASE PageStep
  <2>1. CASE Run
    BY <2>1, <1>2 DEF Run, Report, ClosePage, PageInPhase
  <2>2. CASE Poll
    BY <2>2 DEF Poll, PollAgain, PageInPhase
  <2>3. CASE Latest \/ Unhang \/ GiveUp
    BY <2>3, <1>2 DEF Latest, Unhang, GiveUp, Report, ClosePage
  <2>4. CASE Decide
    BY <2>4, <1>2 DEF Decide, Report, ClosePage, PageInPhase
  <2>5. CASE Await
    BY <2>5, <1>2 DEF Await, PollAgain, Report, ClosePage, PageInPhase
  <2> QED
    BY <1>5, <2>1, <2>2, <2>3, <2>4, <2>5 DEF PageStep
<1>6. ASSUME NEW s \in Sessions, Submit(s) PROVE PageInPhase'
  BY <1>6, BoundsAreUsable DEF Submit, PageInPhase, serverVars, runVars
<1>7. ASSUME NEW d \in {"approve", "deny"}, Press(d) PROVE PageInPhase'
  BY <1>7 DEF Press, PageInPhase, serverVars, runVars
<1> QED
  BY <1>3, <1>4, <1>5, <1>6, <1>7 DEF Next

LEMMA RunsAreKnownNext ==
  ASSUME TypeOK, PageInPhase, RunsHaveServers, RunsAreKnown, [Next]_vars
  PROVE  RunsAreKnown'
<1> SUFFICES ASSUME NEW s \in Sessions, status'[s] # "none", session' # s
             PROVE  reported'[s] # "nothing"
  BY DEF RunsAreKnown
<1>1. status[s] # "none" \/ session = s
  BY RunsMove DEF RunMoves, TypeOK
<1>2. PageMoves
  BY PageMove
<1>3. CASE session = s
  BY <1>2, <1>3, BoundsAreUsable DEF PageMoves, TellsTheTruth
<1>4. CASE session # s
  BY <1>1, <1>2, <1>4 DEF PageMoves, RunsAreKnown
<1> QED
  BY <1>3, <1>4

LEMMA ReportsAreTrueNext ==
  ASSUME TypeOK, PageInPhase, RunsHaveServers, ReportsAreTrue, [Next]_vars
  PROVE  ReportsAreTrue'
<1> SUFFICES ASSUME NEW s \in Sessions
             PROVE  /\ reported'[s] = "completed" => status'[s] = "completed"
                    /\ reported'[s] = "denied" =>
                         \/ status'[s] \in {"failed", "killed"}
                         \/ status'[s] \in {"pending", "running"} /\ decision'[s] = "deny"
  BY DEF ReportsAreTrue
<1>1. CASE reported'[s] = reported[s]
  BY <1>1, RunsMove DEF RunMoves, ReportsAreTrue
<1>2. CASE reported'[s] # reported[s]
  <2>1. PageMoves
    BY PageMove
  <2>2. session = s /\ TellsTheTruth
    BY <1>2, <2>1 DEF PageMoves
  <2> QED
    BY <2>2 DEF TellsTheTruth
<1> QED
  BY <1>1, <1>2

LEMMA DownKeepsServers ==
  ASSUME TypeOK, PortIsChilds, RunsHaveServers, NEW owner \in {"child", "ozr", "alien"},
         Down(owner), owner = "child" \/ port = owner
  PROVE  /\ RunsHaveServers'
         /\ owner = "child" => port' # "child"
         /\ owner # "child" => port' = Nobody
<1>1. port' = IF port = owner THEN Nobody ELSE port
  BY DEF Down
<1>2. ASSUME NEW s \in Sessions
      PROVE  /\ home'[s] = IF home[s] = owner THEN Nobody ELSE home[s]
             /\ status'[s] = IF home[s] = owner /\ status[s] \in {"running", "pending"}
                               THEN "killed" ELSE status[s]
  BY DEF Down
<1>3. RunsHaveServers'
  BY <1>1, <1>2 DEF RunsHaveServers
<1> QED
  BY <1>1, <1>3 DEF Nobody

LEMMA AbandonKeepsServers ==
  ASSUME TypeOK, PortIsChilds, RunsHaveServers, Abandon, child' \in {"none", "starting"}
  PROVE  PortIsChilds' /\ RunsHaveServers'
<1>1. CASE child = "serving"
  <2>1. port = "child"
    BY <1>1 DEF PortIsChilds
  <2>2. /\ port' = "ozr" /\ UNCHANGED status
        /\ home' = [s \in Sessions |-> IF home[s] = "child" THEN "ozr" ELSE home[s]]
    BY <1>1 DEF Abandon
  <2> QED
    BY <2>1, <2>2 DEF PortIsChilds, RunsHaveServers, Nobody
<1>2. CASE child # "serving"
  BY <1>2 DEF Abandon, PortIsChilds, RunsHaveServers
<1> QED
  BY <1>1, <1>2

LEMMA ServersNext ==
  ASSUME TypeOK, PageInPhase, PortIsChilds, RunsHaveServers, ChildIsHeld, [Next]_vars
  PROVE  PortIsChilds' /\ RunsHaveServers'
<1> USE DEF serverVars, runVars
<1>1. CASE UNCHANGED <<port, child, status, home>>
  BY <1>1 DEF PortIsChilds, RunsHaveServers
<1>2. CASE ServerNext
  <2>1. CASE ChildBinds
    BY <2>1 DEF ChildBinds, PortIsChilds, RunsHaveServers, Nobody
  <2>2. CASE ChildDies
    BY <2>2, DownKeepsServers DEF ChildDies, PortIsChilds
  <2>3. CASE OtherLeaves
    BY <2>3, DownKeepsServers DEF OtherLeaves, PortIsChilds, Nobody
  <2>4. CASE \E owner \in {"ozr", "alien"} : OtherBinds(owner)
    BY <2>4 DEF OtherBinds, PortIsChilds, RunsHaveServers, Nobody
  <2>5. ASSUME NEW q \in Sessions,
               \/ Ask(q) \/ ClearPending(q) \/ LockUp(q)
               \/ \E d \in Decisions : OtherDecides(q, d)
               \/ \E outcome \in {"completed", "failed"} : End(q, outcome)
        PROVE  PortIsChilds' /\ RunsHaveServers'
    <3>1. UNCHANGED <<port, child, home>>
      BY <2>5 DEF Ask, ClearPending, LockUp, OtherDecides, End
    <3>2. ASSUME NEW s \in Sessions, status'[s] \in {"running", "pending"}
          PROVE  status[s] \in {"running", "pending"}
      BY <2>5, <3>2 DEF Ask, ClearPending, LockUp, OtherDecides, End, TypeOK
    <3> QED
      BY <3>1, <3>2 DEF PortIsChilds, RunsHaveServers
  <2>6. CASE HangUp \/ (\E q \in Sessions : Resume(q))
    BY <2>5, <2>6 DEF HangUp, LockedUp, Resume, TypeOK
  <2> QED
    BY <1>2, <2>1, <2>2, <2>3, <2>4, <2>5, <2>6 DEF ServerNext
<1>3. CASE ShellStep
  <2>1. UNCHANGED <<port, child, status, home>> \/ (Abandon /\ child' = "starting")
    BY <1>3 DEF ShellStep, Start, Settle, CheckChild, Health
  <2> QED
    BY <2>1, <1>1, AbandonKeepsServers
<1>4. CASE PageStep
  <2>1. CASE Run
    <3>1. session \in Sessions
      BY <2>1, BusyWithSession DEF Run
    <3>2. CASE Serves(port)
      <4>1. /\ status' = [status EXCEPT ![session] = "running"]
            /\ home' = [home EXCEPT ![session] = port]
            /\ UNCHANGED <<port, child>>
        BY <2>1, <3>2 DEF Run
      <4>2. port # Nobody
        BY <3>2 DEF Serves, Nobody
      <4> QED
        BY <3>1, <4>1, <4>2 DEF PortIsChilds, RunsHaveServers, TypeOK
    <3>3. CASE ~Serves(port)
      BY <2>1, <3>3, <1>1 DEF Run
    <3> QED
      BY <3>2, <3>3
  <2>2. CASE Poll \/ Latest \/ Decide \/ Unhang \/ Await \/ GiveUp
    BY <2>2, <1>1 DEF Poll, Latest, Decide, Unhang, Await, GiveUp
  <2> QED
    BY <1>4, <2>1, <2>2 DEF PageStep
<1>5. CASE Exit
  <2>1. CASE Down("child") /\ child' = "dead"
    BY <2>1, DownKeepsServers DEF PortIsChilds
  <2> QED
    BY <1>5, <2>1, <1>1, StopIsDown DEF Exit
<1>6. CASE Killed
  BY <1>6, AbandonKeepsServers DEF Killed
<1>7. CASE Reload \/ (\E q \in Sessions : Submit(q))
           \/ (\E d \in {"approve", "deny"} : Press(d)) \/ UNCHANGED vars
  BY <1>7, <1>1 DEF Reload, Submit, Press, vars
<1> QED
  BY <1>2, <1>3, <1>4, <1>5, <1>6, <1>7 DEF Next

LEMMA ChildIsHeldNext ==
  ASSUME TypeOK, ChildIsHeld, NoOrphan, [Next]_vars
  PROVE  ChildIsHeld' /\ NoOrphan'
<1> USE DEF ChildIsHeld, NoOrphan
<1>1. CASE UNCHANGED <<child, shellVars>>
  BY <1>1 DEF shellVars
<1>2. CASE ServerNext
  <2>1. UNCHANGED shellVars
    BY <1>2, ServersKeepTheRest
  <2>2. child' \in {"starting", "serving"} => child \in {"starting", "serving"}
    BY <1>2 DEF ServerNext, ChildBinds, ChildDies, OtherLeaves, OtherBinds, Ask, Resume,
       ClearPending, LockUp, HangUp, OtherDecides, End
  <2> QED
    BY <2>1, <2>2 DEF shellVars
<1>3. CASE ShellStep
  <2>1. CASE Start
    BY <2>1 DEF Start, serverVars, TypeOK
  <2>2. CASE Settle
    BY <2>2 DEF Settle, serverVars, TypeOK
  <2>3. CASE CheckChild \/ Health
    BY <2>3 DEF CheckChild, Health, serverVars
  <2> QED
    BY <1>3, <2>1, <2>2, <2>3 DEF ShellStep
<1>4. CASE PageStep \/ (\E s \in Sessions : Submit(s)) \/ (\E d \in {"approve", "deny"} : Press(d))
  BY <1>4, <1>1, PageKeepsTheRest
<1>5. CASE Exit
  BY <1>5, StopIsDown DEF Exit, Prepared, serverVars
<1>6. CASE Reload \/ Killed \/ UNCHANGED vars
  BY <1>6 DEF Reload, Killed, Prepared, vars, serverVars, shellVars
<1> QED
  BY <1>2, <1>3, <1>4, <1>5, <1>6 DEF Next

-----------------------------------------------------------------------------
(* Theorems                                                                *)

LEMMA InitInv == Init => IInv
<1> SUFFICES ASSUME Init PROVE IInv
  OBVIOUS
<1>1. TypeOK
  <2>1. 0 \in 0 .. MaxPlans /\ 0 \in 0 .. (MaxChecks - 1) /\ 0 \in 0 .. (MaxPolls - 1)
    BY BoundsAreUsable
  <2>2. port \in {Nobody, "child", "ozr", "alien"}
    BY DEF Init
  <2> QED
    BY <2>1, <2>2 DEF Init, TypeOK
<1>2. PageInPhase /\ RunsAreKnown /\ RunsHaveServers
  BY DEF Init, PageInPhase, RunsAreKnown, RunsHaveServers
<1>3. PortIsChilds /\ ChildIsHeld /\ ReportsAreTrue /\ NoOrphan
  BY DEF Init, PortIsChilds, ChildIsHeld, ReportsAreTrue, NoOrphan, Nobody
<1> QED
  BY <1>1, <1>2, <1>3 DEF IInv

\* The page, the shell, the servers and the reports stay in step (Workspace.tsx,
\* ozr_process.rs).
THEOREM Inductive == Spec => []IInv
<1>1. IInv /\ [Next]_vars => IInv'
  BY TypeNext, PageInPhaseNext, RunsAreKnownNext, ServersNext, ChildIsHeldNext,
     ReportsAreTrueNext DEF IInv
<1> QED
  BY InitInv, <1>1, PTL DEF Spec

\* Every variable keeps its type; the poll and health counters stay below their
\* limits (pollSessionUntil, wait_until_healthy).
THEOREM TypeCorrect == Spec => []TypeOK
<1>1. IInv => TypeOK
  BY DEF IInv
<1> QED
  BY <1>1, Inductive, PTL

\* What handleSubmit and handleApproval tell the operator is so, and stays so:
\* a run reported as completed is completed, a denied one never goes on.
THEOREM ReportsTrue == Spec => []ReportsAreTrue
<1>1. IInv => ReportsAreTrue
  BY DEF IInv
<1> QED
  BY <1>1, Inductive, PTL

\* No run waits for a decision behind a success, a denial or silence: a started run
\* is the page's or was reported on, and neither a completed run nor a denied one
\* asks again.
THEOREM NobodyWaitsUnseen == Spec => []NoSilentWait
<1>1. IInv => NoSilentWait
  <2> SUFFICES ASSUME IInv, NEW s \in Sessions,
                      status[s] = "pending", decision[s] = "none", session # s
               PROVE  reported[s] \in {"failed", "lost"}
    BY DEF NoSilentWait
  <2>1. reported[s] # "nothing"
    BY DEF IInv, RunsAreKnown
  <2>2. reported[s] \notin {"completed", "denied"}
    BY DEF IInv, ReportsAreTrue
  <2> QED
    BY <2>1, <2>2 DEF IInv, TypeOK
<1> QED
  BY <1>1, Inductive, PTL

\* The shell leaves no child behind but one it has dropped when try_wait failed: any
\* other living child is held, or prepare_api is about to hold it, so stop finds it
\* on exit.
THEOREM ChildStopsWithShell == Spec => []NoOrphan
<1>1. IInv => NoOrphan
  BY DEF IInv
<1> QED
  BY <1>1, Inductive, PTL

\* A report on a run stands.
ReportsStand ==
  [][\A s \in Sessions : reported[s] # "nothing" => reported'[s] = reported[s]]_vars

\* What the operator was told of a run is never taken back or told anew
\* (handleSubmit, handleApproval: one report for each session).
THEOREM ReportsAreFinal == Spec => ReportsStand
<1>1. IInv /\ [Next]_vars =>
        [\A s \in Sessions : reported[s] # "nothing" => reported'[s] = reported[s]]_vars
  <2> SUFFICES ASSUME IInv, [Next]_vars, NEW s \in Sessions, reported[s] # "nothing"
               PROVE  reported'[s] = reported[s]
    OBVIOUS
  <2>1. session # s
    BY BoundsAreUsable DEF IInv, PageInPhase
  <2> QED
    BY <2>1, PageMove DEF IInv, PageMoves
<1> QED
  BY <1>1, Inductive, PTL DEF Spec, ReportsStand

=============================================================================
