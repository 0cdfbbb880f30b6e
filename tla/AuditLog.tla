------------------------------ MODULE AuditLog ------------------------------
(***************************************************************************)
(* The audit log `.ozr/audit/runs.log`, written by concurrent runs and     *)
(* read by `ozr replay` and the approval dashboard.                        *)
(*                                                                         *)
(* Every run has a logger of its own (src/core/runtime.rs): tasks of       *)
(* `ozr serve` and other processes append to one file, and no lock spans   *)
(* an append.  The file is opened with O_APPEND and not buffered, so       *)
(* `writeln!` (src/core/audit.rs) hands the kernel one fragment after the  *)
(* other, each of which lands at the end of the file on its own:           *)
(*                                                                         *)
(*     {"ts":N,"run_id":"   run   ","event":"   text   "}\n                *)
(*                                                                         *)
(* What one append has written so far and what another writes meanwhile    *)
(* make one line.  The model keeps of a line what its reader (a JSON       *)
(* parser) can tell: whether it still parses, and as which run and event.  *)
(*                                                                         *)
(* A run is known in the file by its id, "run-<milliseconds>", which two   *)
(* runs of one millisecond share.  The key before the timestamp, the       *)
(* timestamp and the key before the id are three fragments, kept as one:   *)
(* whatever lands between them spoils the line.  The lines of "bootstrap"  *)
(* belong to no run and the readers skip them.                             *)
(***************************************************************************)
EXTENDS Replay

CONSTANTS
  Runs,       \* the runs that log
  Ids,        \* the ids they may have
  Histories,  \* what a run may have to log: sequences of Events
  MaxLength,  \* bound: events of a run
  MaxCuts     \* bound: appends cut off half way

Events == {"loop_started", "approved", "denied", "skipped",
           "tool_executed", "loop_failed", "loop_completed"}

ASSUME AuditLogAssumption ==
  /\ IsFiniteSet(Runs) /\ Ids \cap Events = {}
  /\ Histories \subseteq Seq(Events)
  /\ \A h \in Histories : Len(h) <= MaxLength
  /\ MaxLength \in Nat
  /\ MaxCuts \in Nat

VARIABLES
  id,         \* run -> its id
  history,    \* run -> the events it logs, from the first to the last
  said,       \* run -> how many of them it is done with
  written,    \* run -> fragments of the current one that are in the file
  alive,      \* the runs whose process goes on
  lines,      \* the complete lines of the file
  tail,       \* the file after its last line break
  overlapped, \* some append began or went on inside another one
  cuts,       \* appends cut off by an error or a crash
  odd,        \* the runs that have written a text which breaks its line
  spoils      \* the lines such texts break

vars ==
  <<id, history, said, written, alive, lines, tail, overlapped, cuts, odd, spoils>>

\* The fragments of writeln!, in order; the run id and the event are content.
Fragments == <<"open", "content", "middle", "content", "close">>

Content(r) ==
  IF written[r] = 1 THEN id[r] ELSE history[r][said[r] + 1]

\* What the reader makes of a line is told by the quotes it is in: a run id and a
\* text are free of quotes, so either may land inside either pair of them and the
\* line still parses, unless the text itself breaks it (WriteOdd).
Blank == [at |-> "start", runs |-> <<>>, texts |-> <<>>]
Garbled == [Blank EXCEPT !.at = "garbled"]
TypedLines == [at : {"start", "run_id", "event", "closed", "garbled"},
               runs : Seq(Ids \cup Events), texts : Seq(Ids \cup Events)]

Extended(line, fragment, content) ==
  CASE fragment = "open" /\ line.at = "start" -> [line EXCEPT !.at = "run_id"]
    [] fragment = "content" /\ line.at = "run_id" ->
         [line EXCEPT !.runs = Append(@, content)]
    [] fragment = "middle" /\ line.at = "run_id" -> [line EXCEPT !.at = "event"]
    [] fragment = "content" /\ line.at = "event" ->
         [line EXCEPT !.texts = Append(@, content)]
    [] fragment = "close" /\ line.at = "event" -> [line EXCEPT !.at = "closed"]
    [] OTHER -> Garbled

\* A closed line ends with a line break.  (The faulty one is write! for writeln!.)
WithoutLineBreak(line) == line
AfterClose(line) == Blank

\* The events the log words itself, which the readers compare in whole; the others
\* they know by their prefix.
WholeEvents == {"loop_started", "loop_completed"}

-----------------------------------------------------------------------------
(* Writing                                                                 *)

Init ==
  /\ id \in [Runs -> Ids]
  /\ history \in [Runs -> Histories]
  /\ said = [r \in Runs |-> 0]
  /\ written = [r \in Runs |-> 0]
  /\ alive = Runs
  /\ lines = <<>>
  /\ tail = Blank
  /\ overlapped = FALSE
  /\ cuts = 0
  /\ odd = {}
  /\ spoils = 0

Appending(r) == r \in alive /\ said[r] < Len(history[r])

OthersInside(r) == \E other \in Runs \ {r} : written[other] > 0

\* One write(2) of an append.
Write(r) ==
  /\ Appending(r)
  /\ LET fragment == Fragments[written[r] + 1]
         line == Extended(tail, fragment, Content(r))
     IN  IF fragment = "close"
           THEN /\ lines' = Append(lines, line)
                /\ tail' = AfterClose(line)
                /\ said' = [said EXCEPT ![r] = @ + 1]
                /\ written' = [written EXCEPT ![r] = 0]
           ELSE /\ tail' = line
                /\ written' = [written EXCEPT ![r] = @ + 1]
                /\ UNCHANGED <<said, lines>>
  /\ overlapped' = (overlapped \/ OthersInside(r))
  /\ UNCHANGED <<id, history, alive, cuts, odd, spoils>>

\* sanitize replaces the quotes of a text and nothing else.  A reason, the name of a
\* tool or an error may hold what a JSON string may not, a control character or a
\* backslash, and its line does not parse; or a line break, which makes two lines
\* of it, and neither parses.
WriteOdd(r) ==
  /\ Appending(r) /\ Fragments[written[r] + 1] = "content"
  /\ Content(r) \in Events \ WholeEvents
  /\ tail' = Garbled
  /\ \/ spoils' = spoils + 1 /\ UNCHANGED lines
     \/ spoils' = spoils + 2 /\ lines' = Append(lines, Garbled)
  /\ odd' = odd \cup {r}
  /\ written' = [written EXCEPT ![r] = @ + 1]
  /\ overlapped' = (overlapped \/ OthersInside(r))
  /\ UNCHANGED <<id, history, said, alive, cuts>>

\* The process is killed, or a write fails: then append returns the error, `?`
\* ends run_once, and the run logs nothing more.  Fragments already written stay.
\* (The faulty one appends the line again.)
StopAndRetry(r) ==
  /\ Appending(r) /\ cuts < MaxCuts
  /\ written' = [written EXCEPT ![r] = 0]
  /\ cuts' = cuts + 1
  /\ UNCHANGED <<id, history, said, alive, lines, tail, overlapped, odd, spoils>>
Stop(r) ==
  /\ Appending(r)
  /\ alive' = alive \ {r}
  /\ IF written[r] = 0
       THEN UNCHANGED <<said, written, cuts>>
       ELSE /\ cuts < MaxCuts
            /\ cuts' = cuts + 1
            /\ said' = [said EXCEPT ![r] = @ + 1]
            /\ written' = [written EXCEPT ![r] = 0]
  /\ UNCHANGED <<id, history, lines, tail, overlapped, odd, spoils>>

\* Every run has logged what it had to, or stopped.
Finished ==
  /\ \A r \in Runs : ~Appending(r)
  /\ UNCHANGED vars

Next == (\E r \in Runs : Write(r) \/ WriteOdd(r) \/ Stop(r)) \/ Finished

Spec == Init /\ [][Next]_vars

-----------------------------------------------------------------------------
(* Reading                                                                 *)

\* parse_audit_line: an event without text is no line.
Parses(line) == line.at = "closed" /\ line.texts # <<>>

EventOf(line) ==
  LET first == line.texts[1]
  IN  IF Parses(line) /\ first \in Events /\ (first \in WholeEvents => Len(line.texts) = 1)
        THEN first ELSE "unknown"

\* load_runs: the lines of run r's id.  (The faulty one forgets to group them.)
LinesOfAnyRun(r) == {i \in DOMAIN lines : Parses(lines[i])}
LinesOf(r) == {i \in DOMAIN lines : Parses(lines[i]) /\ lines[i].runs = <<id[r]>>}

\* The log as the replay of run r sees it: the lines of others are none.
LogOf(r) == [i \in DOMAIN lines |-> Line(EventOf(lines[i]), i \in LinesOf(r))]

\* The dashboard's count of an event (collect_approval_stats).
Counted(event) ==
  Cardinality({i \in DOMAIN lines : EventOf(lines[i]) = event})

-----------------------------------------------------------------------------
(* Properties                                                              *)

TypeOK ==
  /\ id \in [Runs -> Ids]
  /\ history \in [Runs -> Histories]
  /\ said \in [Runs -> 0 .. MaxLength]
  /\ written \in [Runs -> 0 .. 4]
  /\ \A r \in Runs : said[r] <= Len(history[r]) /\ (written[r] > 0 => Appending(r))
  /\ alive \subseteq Runs
  /\ lines \in Seq(TypedLines)
  /\ tail \in TypedLines
  /\ overlapped \in BOOLEAN
  /\ cuts \in 0 .. MaxCuts
  /\ odd \subseteq Runs /\ spoils \in Nat

\* The runs that replay takes for r.
Bearers(r) == {q \in Runs : id[q] = id[r]}

\* What run r has logged, the line it was cut off in included.
HasSaid(r, event) == \E i \in 1 .. said[r] : history[r][i] = event

\* The appends of event whose text is in the file.
Begun(event) ==
  {w \in Runs \X (1 .. MaxLength) :
     /\ w[2] <= Len(history[w[1]])
     /\ history[w[1]][w[2]] = event
     /\ w[2] <= said[w[1]] + (IF written[w[1]] = 4 THEN 1 ELSE 0)}

\* How many of the lines of run r's id the file has up to line i.
Place(r, i) == Cardinality({j \in LinesOf(r) : j <= i})

\* While no two appends overlap and none is cut off, every run with an id of its own
\* reads back as exactly what it logged, in order, unless a text of its own broke a
\* line: the file is the log the readers take it for, whatever others write to it.
RunsReplayInFull ==
  ~overlapped /\ cuts = 0 =>
    \A r \in Runs \ odd :
      Bearers(r) = {r} =>
        /\ Cardinality(LinesOf(r)) = said[r]
        /\ \A i \in LinesOf(r) : EventOf(lines[i]) = history[r][Place(r, i)]

\* Without overlap a killed process costs at most the line it was writing and the
\* one that follows it in the file, whoever writes that one: besides the lines that
\* a text has broken, no more than one unreadable line for every cut.
CutsSpoilOneLineEach ==
  ~overlapped =>
    Cardinality({i \in DOMAIN lines : ~Parses(lines[i])}) <= cuts + spoils

\* Without overlap the replay of a run, whatever was cut off, broken or lost, gives no
\* outcome that no run of its id has logged: none is reported as completed, denied,
\* skipped or failed by way of a line of another id.
NoVerdictIsInvented ==
  ~overlapped =>
    \A r \in Runs :
      \A event \in DecisiveEvents :
        ReplayOf(LogOf(r)) = VerdictOf(event) => \E q \in Bearers(r) : HasSaid(q, event)

\* Whatever overlaps and whatever is cut off, the dashboard counts no decision and
\* no execution more often than the runs have begun to log it.
DecisionsNotOvercounted ==
  \A event \in Events \ WholeEvents : Counted(event) <= Cardinality(Begun(event))

=============================================================================
