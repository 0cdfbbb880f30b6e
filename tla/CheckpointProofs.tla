-------------------------- MODULE CheckpointProofs --------------------------
(***************************************************************************)
(* Proofs about Checkpoint for any processes, tasks, prompts and run ids,  *)
(* shared ids among them.  No save excludes another, so the argument is    *)
(* about every checkpoint that is in the file or on its way there: what it *)
(* says of the runs of its id stays so, because a run's id, prompt and     *)
(* result are each set once.                                               *)
(***************************************************************************)
EXTENDS Checkpoint, TLAPS

\* A checkpoint is of a run that has begun, and says what is so of the runs of its id.
Sound(c) ==
  c.status \in Statuses =>
    /\ \E r \in Runs : /\ id[r] = c.run /\ c.prompt = prompt[r]
                      /\ pc[r] \in {"loop", "acted", "ended", "dead"}
    /\ c.status = "Completed" => \E r \in Runs : id[r] = c.run /\ result[r] = "Completed"
    /\ c.status = "Failed" => \E r \in Runs : id[r] = c.run /\ result[r] = "Failed"

\* The file and everything on its way there is sound.
AllSound == Sound(file) /\ \A r \in Runs : Sound(buf[r])

\* What a run's place says of it: a result comes with the end, the tool acts
\* between loop and acted, and a started run has its prompt.
Placed ==
  \A r \in Runs :
    /\ result[r] # "None" => pc[r] \in {"ended", "dead"}
    /\ acted[r] => pc[r] \in {"acted", "ended", "dead"}
    /\ result[r] = "Failed" => ~acted[r]
    /\ pc[r] \notin {"new", "refused", "dead"} => prompt[r] \in Prompts
    /\ pc[r] \in {"begin", "loop", "acted", "ended"} => id[r] \in Ids
    /\ pc[r] \in {"new", "detect", "prepare"} => id[r] = NoId
    /\ pc[r] \in {"new", "detect"} => Saved(r)
    /\ opened[r] => ~Saved(r)

\* Only a run of an id saves it as running, and not when it has ended.
OwnSaves ==
  \A r \in Runs :
    /\ buf[r].status = "Running" => buf[r].run = id[r]
    /\ pc[r] = "ended" /\ result[r] # "Escaped" => buf[r].status # "Running"

IInv == TypeOK /\ AllSound /\ Placed /\ OwnSaves /\ EndedStaysEnded

-----------------------------------------------------------------------------
LEMMA InitIInv == Init => IInv
<1> SUFFICES ASSUME Init PROVE IInv
  OBVIOUS
<1> USE DEF Init, Blank, Record
<1>1. TypeOK
  BY DEF TypeOK
<1>2. AllSound
  BY DEF AllSound, Sound, Statuses
<1>3. Placed
  BY DEF Placed, Saved
<1>4. OwnSaves
  BY DEF OwnSaves
<1>5. EndedStaysEnded
  BY DEF EndedStaysEnded
<1> QED
  BY <1>1, <1>2, <1>3, <1>4, <1>5 DEF IInv

\* What the steps of one run do to the type invariant.
LEMMA StepType == IInv /\ [Next]_vars => TypeOK'
<1> SUFFICES ASSUME IInv, [Next]_vars PROVE TypeOK'
  OBVIOUS
<1> USE DEF IInv, TypeOK, GoTo, ioVars, historyVars, Blank, Record, Checkpoints, Statuses, Runs
<1>1. ASSUME NEW r \in Runs, RunStep(r) PROVE TypeOK'
  <2>1. CASE Truncate(r)
    BY <2>1 DEF Truncate
  <2>2. CASE WriteOut(r)
    BY <2>2 DEF WriteOut
  <2>3. CASE \E p \in Prompts : RunCommand(r, p) \/ StartServerRun(r, p)
    BY <2>3 DEF RunCommand, StartServerRun, GetId
  <2>4. CASE ResumeCommand(r)
    <3>1. file \in Checkpoints
      BY <2>4 DEF ResumeCommand, Recoverable
    <3> QED
      BY <2>4, <3>1 DEF ResumeCommand
  <2>5. CASE ResumeRefused(r) \/ DetectNothing(r) \/ Prepare(r)
    BY <2>5 DEF ResumeRefused, DetectNothing, Prepare, GetId
  <2>6. CASE DetectInterrupted(r)
    <3>1. file \in Checkpoints
      BY <2>6 DEF DetectInterrupted
    <3>2. [file EXCEPT !.status = "Interrupted"] \in Checkpoints
      BY <3>1
    <3> QED
      BY <2>6, <3>1, <3>2 DEF DetectInterrupted
  <2>7. CASE BeginSession(r)
    <3>1. prompt[r] \in Prompts /\ id[r] \in Ids
      BY <2>7 DEF BeginSession, Placed
    <3> QED
      BY <2>7, <3>1 DEF BeginSession
  <2>8. CASE TouchSession(r)
    <3>1. file \in Checkpoints
      BY <2>8, CheckpointAssumption DEF TouchSession, Mine, Placed
    <3> QED
      BY <2>8, <3>1 DEF TouchSession
  <2>9. CASE Execute(r) \/ Escape(r)
    BY <2>9 DEF Execute, Escape
  <2>10. ASSUME NEW how \in {"Completed", "Failed"}, End(r, how), pc[r] \in {"loop", "acted"}
         PROVE  TypeOK'
    <3>1. CASE Mine(r)
      <4>1. file \in Checkpoints
        BY <2>10, <3>1, CheckpointAssumption DEF Mine, Placed
      <4>2. [file EXCEPT !.status = how] \in Checkpoints
        BY <4>1, <2>10
      <4> QED
        BY <2>10, <3>1, <4>2 DEF End, UpdateStatus
    <3>2. CASE ~Mine(r)
      BY <2>10, <3>2 DEF End, UpdateStatus
    <3> QED
      BY <3>1, <3>2
  <2>11. CASE CompleteSession(r) \/ FailSession(r)
    BY <2>10, <2>11 DEF CompleteSession, FailSession
  <2>12. CASE CrashCli(r)
    BY <2>12 DEF CrashCli, Die
  <2> QED
    BY <1>1, <2>1, <2>2, <2>3, <2>4, <2>5, <2>6, <2>7, <2>8, <2>9, <2>11, <2>12 DEF RunStep
<1>2. CASE CrashServer
  BY <1>2 DEF CrashServer, Die
<1>3. CASE UNCHANGED vars
  BY <1>3 DEF vars
<1> QED
  BY <1>1, <1>2, <1>3 DEF Next

\* A run that has begun keeps its id and prompt, and one that has ended its result.
LEMMA RunKept ==
  ASSUME IInv, [Next]_vars, NEW q \in Runs
  PROVE  /\ pc[q] \in {"loop", "acted", "ended", "dead"} =>
              /\ prompt'[q] = prompt[q] /\ id'[q] = id[q]
              /\ pc'[q] \in {"loop", "acted", "ended", "dead"}
         /\ result[q] # "None" => result'[q] = result[q] /\ id'[q] = id[q]
<1> USE DEF IInv, TypeOK, Next, RunStep, Truncate, WriteOut, RunCommand, StartServerRun, GetId,
     ResumeCommand, ResumeRefused, DetectInterrupted, DetectNothing, Prepare, BeginSession,
     TouchSession, Execute, CompleteSession, FailSession, End, Escape, CrashCli, CrashServer, Die,
     vars
<1>1. pc[q] \in {"loop", "acted", "ended", "dead"} => prompt'[q] = prompt[q]
  OBVIOUS
<1>2. pc[q] \in {"loop", "acted", "ended", "dead"} => id'[q] = id[q]
  OBVIOUS
<1>3. pc[q] \in {"loop", "acted", "ended", "dead"} =>
        pc'[q] \in {"loop", "acted", "ended", "dead"}
  BY DEF GoTo
<1>4. result[q] # "None" => result'[q] = result[q]
  BY DEF Placed, historyVars
<1>5. result[q] # "None" => pc[q] \in {"loop", "acted", "ended", "dead"}
  BY DEF Placed
<1> QED
  BY <1>1, <1>2, <1>3, <1>4, <1>5

\* A checkpoint that is sound stays so.
LEMMA SoundStays ==
  ASSUME IInv, [Next]_vars, NEW c, Sound(c)
  PROVE  Sound(c)'
  BY RunKept DEF Sound

\* A run only ends as it saves, so what update_status saves is so.
LEMMA EndSound ==
  ASSUME IInv, NEW r \in Runs, NEW how \in {"Completed", "Failed"}, End(r, how),
         pc[r] \in {"loop", "acted"}, NEW f, f = file, f.run = id[r], Sound(f)'
  PROVE  Sound([f EXCEPT !.status = how])'
<1>1. f \in Checkpoints
  BY CheckpointAssumption DEF IInv, TypeOK, Placed, Blank, Record
<1>2. result'[r] = how /\ id'[r] = f.run
  BY DEF End, IInv, TypeOK
<1> QED
  BY <1>1, <1>2 DEF Sound, Statuses, Checkpoints

\* Every new content of the file comes from a buffer, every new buffer from a
\* sound file or from the run itself.
LEMMA StepSound == IInv /\ [Next]_vars => AllSound'
<1> SUFFICES ASSUME IInv, [Next]_vars PROVE AllSound'
  OBVIOUS
<1> DEFINE Shapes == Checkpoints \cup {Blank(s) : s \in {"Absent", "Empty", "Torn"}}
<1>1. PICK f \in Shapes : f = file
  BY DEF IInv, TypeOK
<1>2. PICK b \in [Runs -> Shapes] : b = buf
  BY DEF IInv, TypeOK
<1>3. Sound(f)'
  BY <1>1, SoundStays DEF IInv, AllSound
<1>4. \A r \in Runs : Sound(b[r])'
  BY <1>2, SoundStays DEF IInv, AllSound
<1>5. \A s \in {"Absent", "Empty", "Torn"} : Sound(Blank(s))'
  BY DEF Sound, Blank, Record, Statuses
<1>6. Sound(file)'
  <2>1. file' \in {f} \cup {b[r] : r \in Runs} \cup {Blank(s) : s \in {"Empty", "Torn"}}
    BY <1>1, <1>2 DEF Next, RunStep, Truncate, WriteOut, RunCommand, StartServerRun,
       ResumeCommand, ResumeRefused, DetectInterrupted, DetectNothing, Prepare, BeginSession,
       TouchSession, Execute, CompleteSession, FailSession, End, Escape, CrashCli, CrashServer,
       Die, vars, ioVars
  <2>2. PICK n : n = file'
    OBVIOUS
  <2>3. Sound(n)'
    BY <2>1, <2>2, <1>3, <1>4, <1>5
  <2> QED
    BY <2>2, <2>3 DEF Sound
<1>7. ASSUME NEW r \in Runs PROVE Sound(buf[r])'
  <2>1. PICK n : n = buf'[r]
    OBVIOUS
  <2>2. ASSUME NEW q \in Runs, RunStep(q) PROVE Sound(n)'
    <3>1. CASE Truncate(q) \/ WriteOut(q) \/ CrashCli(q)
      <4>1. n \in {b[r], Blank("Absent")}
        BY <3>1, <2>1, <1>2 DEF Truncate, WriteOut, CrashCli, Die
      <4> QED
        BY <4>1, <1>4, <1>5
    <3>2. CASE \/ \E p \in Prompts : RunCommand(q, p) \/ StartServerRun(q, p)
               \/ ResumeCommand(q) \/ ResumeRefused(q) \/ DetectNothing(q) \/ Prepare(q)
               \/ Execute(q) \/ Escape(q)
      BY <3>2, <2>1, <1>2, <1>4 DEF RunCommand, StartServerRun, ResumeCommand, ResumeRefused,
         DetectNothing, Prepare, Execute, Escape, ioVars
    <3>3. CASE DetectInterrupted(q)
      <4>1. f \in Checkpoints
        BY <3>3, <1>1 DEF DetectInterrupted, Blank, Record
      <4>2. Sound([f EXCEPT !.status = "Interrupted"])'
        BY <4>1, <1>3 DEF Sound, Statuses, Checkpoints
      <4>3. n \in {b[r], [f EXCEPT !.status = "Interrupted"]}
        BY <3>3, <2>1, <1>1, <1>2 DEF DetectInterrupted
      <4> QED
        BY <4>2, <4>3, <1>4
    <3>4. CASE BeginSession(q)
      <4>1. CASE r # q
        BY <3>4, <4>1, <2>1, <1>2, <1>4 DEF BeginSession
      <4>2. CASE r = q
        <5>1. n = Record(id[r], prompt[r], "Running")
          BY <3>4, <4>2, <2>1, <1>2 DEF BeginSession
        <5>2. prompt' = prompt /\ id' = id /\ pc'[r] = "loop"
          BY <3>4, <4>2 DEF BeginSession, GoTo, IInv, TypeOK
        <5> QED
          BY <5>1, <5>2 DEF Sound, Record
      <4> QED
        BY <4>1, <4>2
    <3>5. CASE TouchSession(q)
      <4>1. n \in {b[r], f}
        BY <3>5, <2>1, <1>1, <1>2 DEF TouchSession
      <4> QED
        BY <4>1, <1>3, <1>4
    <3>6. ASSUME NEW how \in {"Completed", "Failed"}, End(q, how), pc[q] \in {"loop", "acted"}
          PROVE  Sound(n)'
      <4>1. CASE Mine(q) /\ r = q
        <5>1. n = [f EXCEPT !.status = how]
          BY <3>6, <4>1, <2>1, <1>1, <1>2 DEF End, UpdateStatus
        <5>2. f.run = id[q]
          BY <4>1, <1>1 DEF Mine
        <5> QED
          BY <5>1, <5>2, <3>6, <1>1, <1>3, EndSound
      <4>2. CASE ~(Mine(q) /\ r = q)
        BY <3>6, <4>2, <2>1, <1>2, <1>4 DEF End, UpdateStatus
      <4> QED
        BY <4>1, <4>2
    <3>7. CASE CompleteSession(q) \/ FailSession(q)
      BY <3>6, <3>7 DEF CompleteSession, FailSession
    <3> QED
      BY <2>2, <3>1, <3>2, <3>3, <3>4, <3>5, <3>7 DEF RunStep
  <2>3. ASSUME CrashServer PROVE Sound(n)'
    <3>1. n \in {b[r], Blank("Absent")}
      BY <2>3, <2>1, <1>2 DEF CrashServer, Die
    <3> QED
      BY <3>1, <1>4, <1>5
  <2>4. ASSUME UNCHANGED vars PROVE Sound(n)'
    BY <2>4, <2>1, <1>2, <1>4 DEF vars
  <2>5. Sound(n)'
    BY <2>2, <2>3, <2>4 DEF Next
  <2> QED
    BY <2>1, <2>5 DEF Sound
<1> QED
  BY <1>6, <1>7 DEF AllSound

-----------------------------------------------------------------------------
LEMMA StepPlaced == IInv /\ [Next]_vars => Placed'
<1> SUFFICES ASSUME IInv, [Next]_vars PROVE Placed'
  OBVIOUS
<1> USE DEF IInv, TypeOK, Placed, Saved, GoTo, ioVars, historyVars
<1>1. ASSUME NEW r \in Runs, RunStep(r) PROVE Placed'
  <2>1. CASE Truncate(r)
    BY <2>1 DEF Truncate
  <2>9. CASE WriteOut(r)
    BY <2>9 DEF WriteOut
  <2>10. CASE CrashCli(r)
    BY <2>10 DEF CrashCli, Die, Alive
  <2>2. CASE \E p \in Prompts : RunCommand(r, p) \/ StartServerRun(r, p)
    BY <2>2 DEF RunCommand, StartServerRun, GetId
  <2>3. CASE ResumeCommand(r)
    <3>1. file.prompt \in Prompts
      BY <2>3 DEF ResumeCommand, Recoverable, Blank, Record, Checkpoints
    <3> QED
      BY <2>3, <3>1 DEF ResumeCommand
  <2>4. CASE ResumeRefused(r) \/ DetectNothing(r) \/ Prepare(r) \/ Execute(r) \/ Escape(r)
    BY <2>4 DEF ResumeRefused, DetectNothing, Prepare, GetId, Execute, Escape
  <2>5. CASE DetectInterrupted(r)
    BY <2>5 DEF DetectInterrupted
  <2>6. CASE BeginSession(r)
    BY <2>6 DEF BeginSession, Blank, Record
  <2>7. CASE TouchSession(r)
    BY <2>7 DEF TouchSession
  <2>8. CASE CompleteSession(r) \/ FailSession(r)
    BY <2>8 DEF CompleteSession, FailSession, End, UpdateStatus
  <2> QED
    BY <1>1, <2>1, <2>2, <2>3, <2>4, <2>5, <2>6, <2>7, <2>8, <2>9, <2>10 DEF RunStep
<1>2. CASE CrashServer
  BY <1>2 DEF CrashServer, Die, Alive
<1>3. CASE UNCHANGED vars
  BY <1>3 DEF vars
<1> QED
  BY <1>1, <1>2, <1>3 DEF Next

\* A run that saves an id as running bears it before and after the step, and the
\* step does not end it unless another save is under way then.
LEMMA StepOwn == IInv /\ [Next]_vars => OwnSaves'
<1> SUFFICES ASSUME IInv, [Next]_vars PROVE OwnSaves'
  OBVIOUS
<1> USE DEF IInv, TypeOK, OwnSaves, Saved, GoTo, ioVars, historyVars,
        Blank, Record, Checkpoints, Statuses
<1>1. ASSUME NEW r \in Runs, RunStep(r) PROVE OwnSaves'
  <2>1. CASE Truncate(r) \/ WriteOut(r) \/ CrashCli(r)
    BY <2>1 DEF Truncate, WriteOut, CrashCli, Die, Alive, Placed
  <2>2. CASE \E p \in Prompts : RunCommand(r, p) \/ StartServerRun(r, p)
    BY <2>2 DEF RunCommand, StartServerRun, GetId, Placed
  <2>3. CASE Prepare(r)
    BY <2>3 DEF Prepare, GetId
  <2>4. CASE \/ ResumeCommand(r) \/ ResumeRefused(r) \/ DetectNothing(r)
             \/ Execute(r) \/ Escape(r)
    BY <2>4 DEF ResumeCommand, ResumeRefused, DetectNothing, Execute, Escape
  <2>5. CASE DetectInterrupted(r)
    BY <2>5 DEF DetectInterrupted
  <2>6. CASE BeginSession(r)
    BY <2>6 DEF BeginSession
  <2>7. CASE TouchSession(r)
    BY <2>7 DEF TouchSession, Mine
  <2>8. CASE CompleteSession(r) \/ FailSession(r)
    BY <2>8 DEF CompleteSession, FailSession, End, UpdateStatus, Mine
  <2> QED
    BY <1>1, <2>1, <2>2, <2>3, <2>4, <2>5, <2>6, <2>7, <2>8 DEF RunStep
<1>2. CASE CrashServer
  BY <1>2 DEF CrashServer, Die, Alive
<1>3. CASE UNCHANGED vars
  BY <1>3 DEF vars
<1> QED
  BY <1>1, <1>2, <1>3 DEF Next

\* Is r still to end, to save its end, or gone by an error?
Open(r) == ~(pc[r] = "ended" /\ Saved(r) /\ result[r] # "Escaped")

LEMMA EndedIsNoneOpen ==
  EndedStaysEnded <=> (file.status = "Running" => \E r \in Runs : id[r] = file.run /\ Open(r))
  BY DEF EndedStaysEnded, Bearers, Open

\* An id is given once.
LEMMA IdOnce ==
  ASSUME IInv, [Next]_vars, NEW q \in Runs, id[q] # NoId
  PROVE  id'[q] = id[q]
  BY DEF IInv, TypeOK, Placed, Next, RunStep, Truncate, WriteOut, RunCommand, StartServerRun,
     GetId, ResumeCommand, ResumeRefused, DetectInterrupted, DetectNothing, Prepare, BeginSession,
     TouchSession, Execute, CompleteSession, FailSession, End, Escape, CrashCli, CrashServer, Die,
     vars

\* While the file shows its id as running, an open run stays open.
LEMMA OpenStays ==
  ASSUME IInv, [Next]_vars, NEW q \in Runs, UNCHANGED file, file.status = "Running",
         id[q] = file.run, Open(q)
  PROVE  Open(q)'
<1> SUFFICES ASSUME pc'[q] = "ended", Saved(q)', result'[q] # "Escaped" PROVE FALSE
  BY DEF Open
<1> USE DEF IInv, TypeOK, Saved, GoTo, ioVars, historyVars, Placed
<1>1. ASSUME NEW r \in Runs, RunStep(r) PROVE FALSE
  <2>1. CASE CompleteSession(r) \/ FailSession(r)
    <3>1. PICK how \in {"Completed", "Failed"} : End(r, how) /\ pc[r] \in {"loop", "acted"}
      BY <2>1 DEF CompleteSession, FailSession
    <3>2. CASE r = q
      <4>1. buf'[q].status = how
        BY <3>1, <3>2 DEF End, UpdateStatus, Mine, Checkpoints, Blank, Record
      <4> QED
        BY <4>1 DEF Blank, Record
    <3>3. CASE r # q
      <4>1. pc'[q] = pc[q] /\ buf'[q] = buf[q] /\ result'[q] = result[q]
        BY <3>1, <3>3 DEF End, UpdateStatus
      <4> QED
        BY <4>1 DEF Open
    <3> QED
      BY <3>2, <3>3
  <2>2. CASE WriteOut(r)
    <3>1. r = q
      BY <2>2 DEF WriteOut, Open
    <3>2. file' \in {buf[q], Blank("Torn")}
      BY <2>2, <3>1 DEF WriteOut
    <3>3. file' = buf[q] /\ buf[q].status = "Running"
      BY <3>2 DEF Blank, Record
    <3> QED
      BY <2>2, <3>1, <3>3 DEF OwnSaves, WriteOut
  <2>3. CASE Truncate(r) \/ TouchSession(r) \/ DetectInterrupted(r) \/ BeginSession(r)
    BY <2>3 DEF Truncate, TouchSession, DetectInterrupted, BeginSession, Open
  <2>4. CASE \/ \E p \in Prompts : RunCommand(r, p) \/ StartServerRun(r, p)
             \/ ResumeCommand(r) \/ ResumeRefused(r) \/ DetectNothing(r) \/ Prepare(r)
             \/ Execute(r)
    BY <2>4 DEF RunCommand, StartServerRun, ResumeCommand, ResumeRefused, DetectNothing,
       Prepare, Execute, Open
  <2>5. CASE Escape(r)
    BY <2>5 DEF Escape, Open
  <2>6. CASE CrashCli(r)
    BY <2>6 DEF CrashCli, Die, Open
  <2> QED
    BY <1>1, <2>1, <2>2, <2>3, <2>4, <2>5, <2>6 DEF RunStep
<1>2. CASE CrashServer
  BY <1>2 DEF CrashServer, Die, Open
<1>3. CASE UNCHANGED vars
  BY <1>3 DEF vars, Open
<1> QED
  BY <1>1, <1>2, <1>3 DEF Next

\* A run that is open and shown as running stays open: it ends with a save.  A
\* new Running in the file is one its own run has written, which is then open.
LEMMA StepEnded == IInv /\ [Next]_vars => EndedStaysEnded'
<1> SUFFICES ASSUME IInv, [Next]_vars, file'.status = "Running"
             PROVE  \E r \in Runs : id'[r] = file'.run /\ Open(r)'
  BY DEF EndedStaysEnded, Bearers, Open
<1> USE DEF GoTo, ioVars, historyVars
<1>1. ASSUME UNCHANGED file, NEW q \in Runs, id[q] = file.run, Open(q)
      PROVE  id'[q] = file'.run /\ Open(q)'
  <2>1. file.run \in Ids
    BY <1>1 DEF IInv, TypeOK, Checkpoints, Blank, Record
  <2>3. id'[q] = id[q]
    BY <1>1, <2>1, CheckpointAssumption, IdOnce
  <2>4. Open(q)'
    BY <1>1, OpenStays
  <2> QED
    BY <1>1, <2>3, <2>4
<1>2. CASE UNCHANGED file
  <2>1. PICK q \in Runs : id[q] = file.run /\ Open(q)
    BY <1>2, EndedIsNoneOpen DEF IInv
  <2> QED
    BY <1>1, <1>2, <2>1
<1>3. CASE file' # file
  <2>1. PICK q \in Runs : WriteOut(q) /\ file' = buf[q]
    BY <1>3 DEF Next, RunStep, Truncate, WriteOut, RunCommand, StartServerRun,
       ResumeCommand, ResumeRefused, DetectInterrupted, DetectNothing, Prepare, BeginSession,
       TouchSession, Execute, CompleteSession, FailSession, End, Escape, CrashCli, CrashServer,
       Die, vars, Blank, Record
  <2>2. id'[q] = file'.run
    BY <2>1 DEF IInv, OwnSaves, WriteOut
  <2>3. ~(pc[q] = "ended" /\ result[q] # "Escaped") /\ UNCHANGED <<pc, result>>
    BY <2>1 DEF IInv, OwnSaves, WriteOut
  <2> QED
    BY <2>2, <2>3 DEF Open
<1> QED
  BY <1>2, <1>3

LEMMA Invariance == Spec => []IInv
<1>1. Init => IInv
  BY InitIInv
<1>2. IInv /\ [Next]_vars => IInv'
  BY StepType, StepSound, StepPlaced, StepOwn, StepEnded DEF IInv
<1> QED
  BY <1>1, <1>2, PTL DEF Spec

\* Processes, tasks and their saves keep their types.
THEOREM TypeCorrect == Spec => []TypeOK
<1>1. IInv => TypeOK
  BY DEF IInv
<1> QED
  BY <1>1, Invariance, PTL

\* The checkpoint tells the truth about the runs of its id, however many processes
\* write it; about its run, where no other bears the id.
THEOREM CheckpointTellsTheTruth == Spec => []CheckpointIsTrue
<1>1. IInv => CheckpointIsTrue
  BY DEF IInv, AllSound, Sound, CheckpointIsTrue, TrueOf, Bearers
<1> QED
  BY <1>1, Invariance, PTL

\* No save that was under way brings an ended run back to running.
THEOREM EndedRunsStayEnded == Spec => []EndedStaysEnded
<1>1. IInv => EndedStaysEnded
  BY DEF IInv
<1> QED
  BY <1>1, Invariance, PTL

\* An id the checkpoint calls failed is that of a run that failed without having
\* done anything.
THEOREM FailedRunsDidNothing == Spec => []FailedDidNothing
<1>1. IInv => FailedDidNothing
  BY DEF IInv, AllSound, Sound, Statuses, Placed, FailedDidNothing, Bearers
<1> QED
  BY <1>1, Invariance, PTL

\* What a resumed prompt was: a run whose id no other bears is the one the file
\* speaks of, with its own prompt, end and harmlessness.
OwnIdIsOwnCheckpoint ==
  \A r \in Runs :
    file.run = id[r] /\ file.status \in Statuses /\ Bearers(id[r]) = {r} =>
      /\ file.prompt = prompt[r]
      /\ file.status \in {"Completed", "Failed"} => result[r] = file.status
      /\ file.status = "Failed" => ~acted[r]

\* Where the clock has given an id once, the checkpoint is true of that very run.
THEOREM UniqueIdsTellWhose == Spec => []OwnIdIsOwnCheckpoint
<1>1. CheckpointIsTrue /\ FailedDidNothing => OwnIdIsOwnCheckpoint
  BY DEF CheckpointIsTrue, TrueOf, FailedDidNothing, OwnIdIsOwnCheckpoint
<1> QED
  BY <1>1, CheckpointTellsTheTruth, FailedRunsDidNothing, PTL

=============================================================================
