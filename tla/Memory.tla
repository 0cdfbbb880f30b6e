------------------------------- MODULE Memory -------------------------------
(***************************************************************************)
(* The layered memory of ozr (src/core/memory_sqlite.rs,                   *)
(* memory_orchestrator.rs, vector_backend.rs) as the commands `ozr run`    *)
(* and `ozr memory` use it (src/cli.rs): .ozr/memory.db, the text store it *)
(* replaces, the log of events, the markdown files it indexes and the      *)
(* vector store.                                                           *)
(*                                                                         *)
(* A command is a process.  It shares the files with the others, takes no  *)
(* lock between two statements, opens the database anew for every          *)
(* operation, and commits each statement by itself; so every statement is  *)
(* a step here, and a process can die or fail between any two of them.     *)
(* Left out: time stamps, trust scores and the ranking of hits (a recall   *)
(* finds any hits in any order), directory creation, and edits of a file   *)
(* that has been indexed.                                                  *)
(***************************************************************************)
EXTENDS Naturals, Sequences, FiniteSets, SequencesExt

CONSTANTS
  Procs,         \* processes of `ozr run` and `ozr memory`
  Sources,       \* the markdown files of .ozr/project and .ozr/feedback
  LineCount,     \* how many of its first 200 lines are worth indexing
  OldSources,    \* the files the text store has indexed
  OldFacts,      \* the facts it holds
  OldEvents,     \* the events of sessions it holds
  MaxItems,      \* RecallBudget
  MaxTokens

Entries ==
  (Sources \X Nat) \cup ({"prompt", "completed"} \X Procs) \cup ({"old"} \X OldEvents)

ASSUME MemoryAssumption ==
  /\ LineCount \in [Sources -> Nat]
  /\ OldSources \subseteq Sources
  /\ IsFiniteSet(OldSources) /\ IsFiniteSet(OldFacts) /\ IsFiniteSet(OldEvents)
  /\ Sources \cap {"prompt", "completed", "old"} = {}
  /\ MaxItems \in Nat /\ MaxTokens \in Nat

Lines(s) == {<<s, i>> : i \in 1..LineCount[s]}
DiskLines == UNION {Lines(s) : s \in Sources}
OldSessions == {"old"} \X OldEvents

VARIABLES
  db,         \* what is at .ozr/memory.db
  copy,       \* what is at .ozr/memory.db.legacy
  rows,       \* table session_events of the database
  searchable, \* its full-text index
  facts,      \* its table facts
  marked,     \* its table indexed_sources
  log,        \* sessions/events.log
  vectors,    \* the points of the vector store
  pc,         \* the next step of a process
  goal,       \* what its statements are for: migrate, index or session
  news,       \* the event it has to remember next
  agenda,     \* the statements it has still to execute
  stack,      \* the stores it has read and not yet carried over, innermost first
  todo,       \* the files it has still to look at
  moved,      \* its open connections whose file has been renamed since
  hits,       \* the sizes, in tokens, of what it has recalled for its prompt
  hadOld,     \* history: was there a text store at first?
  doubled,    \* history: was something inserted that its table had already?
  mishap      \* history: the worst that has happened to a build

tables == <<rows, searchable, facts, marked>>
files == <<db, copy, hadOld>>
outside == <<log, vectors>>
local == <<goal, news, agenda, stack, todo>>
vars == <<db, copy, rows, searchable, facts, marked, log, vectors, pc, goal,
          news, agenda, stack, todo, moved, hits, hadOld, doubled, mishap>>

Event(e) == [op |-> "event", of |-> e]
Fact(f) == [op |-> "fact", of |-> f]
Mark(s) == [op |-> "mark", of |-> s]
Reopen == [op |-> "open", of |-> "outer"]
Statements ==
  [op : {"event"}, of : Entries] \cup [op : {"fact"}, of : OldFacts]
    \cup [op : {"mark"}, of : Sources] \cup {Reopen}

\* index_markdown_file: the statements that index a file, the mark last (faulty:
\* the mark first, or never).
MarkFirst(s) ==
  <<Mark(s)>> \o [i \in 1..LineCount[s] |-> Event(<<s, i>>)]
NeverMark(s) == [i \in 1..LineCount[s] |-> Event(<<s, i>>)]
IndexAgenda(s) ==
  [i \in 1..LineCount[s] |-> Event(<<s, i>>)] \o <<Mark(s)>>

\* parse_legacy_state and the loops of migrate_legacy_if_needed: the events of
\* the text store, of files and of sessions, its facts, and a connection for its
\* marks.  An empty file is a text store that holds nothing.
LegacyAgenda(kind) ==
  LET events == SetToSeq(OldSessions \cup UNION {Lines(s) : s \in OldSources})
      old == SetToSeq(OldFacts)
      sources == SetToSeq(OldSources)
  IN IF kind = "text"
     THEN [i \in DOMAIN events |-> Event(events[i])] \o [i \in DOMAIN old |-> Fact(old[i])]
            \o <<Reopen>> \o [i \in DOMAIN sources |-> Mark(sources[i])]
     ELSE <<Reopen>>

Ended == {"done", "failed", "dead"}
\* with_sqlite is under way.
Building(p) == goal[p] # "session" /\ pc[p] \notin Ended \cup {"idle"}

\* What can happen to a build, from bad to worse: a statement fails or a process
\* dies, one dies and leaves an empty database, another build overlaps it.
Clean == 0
Trouble == 1
Torn == 2
Overlap == 3
Note(what) == mishap' = IF what > mishap THEN what ELSE mishap

Init ==
  /\ db \in {"absent", "text"}
  /\ hadOld = (db = "text")
  /\ copy = "none"
  /\ rows = {} /\ searchable = {} /\ facts = {} /\ marked = {}
  /\ log = {} /\ vectors = {}
  /\ pc = [p \in Procs |-> "idle"]
  /\ goal = [p \in Procs |-> "session"]
  /\ news = [p \in Procs |-> "prompt"]
  /\ agenda = [p \in Procs |-> <<>>]
  /\ stack = [p \in Procs |-> <<>>]
  /\ todo = [p \in Procs |-> {}]
  /\ moved = [p \in Procs |-> {}]
  /\ hits = [p \in Procs |-> <<>>]
  /\ doubled = FALSE /\ mishap = Clean

Goto(p, next) == pc' = [pc EXCEPT ![p] = next]

-----------------------------------------------------------------------------
(* ensure_schema and migrate_legacy_if_needed *)

\* build_memory_orchestrator: before the recall, and again when a run is over.
Build(p) ==
  /\ pc[p] \in {"idle", "running"}
  /\ Goto(p, "exists")
  /\ goal' = [goal EXCEPT ![p] = "migrate"]
  /\ news' = [news EXCEPT ![p] = IF pc[p] = "idle" THEN "prompt" ELSE "completed"]
  /\ Note(IF \E q \in Procs \ {p} : Building(q) THEN Overlap ELSE Clean)
  /\ UNCHANGED <<files, tables, outside, agenda, stack, todo, moved, hits, doubled>>

\* db_path.exists().
Exists(p) ==
  /\ pc[p] = "exists"
  /\ Goto(p, IF db = "absent" THEN "open" ELSE "header")
  /\ UNCHANGED <<files, tables, outside, local, moved, hits, doubled, mishap>>

\* Sixteen bytes tell whether the file is SQLite's (faulty: not looked at).
AnyFileIsText(kind) == "raw"
AfterHeader(kind) ==
  CASE kind = "absent" -> "failed" [] kind = "sqlite" -> "open" [] OTHER -> "raw"

Header(p) ==
  /\ pc[p] = "header"
  /\ Goto(p, AfterHeader(db))
  /\ UNCHANGED <<files, tables, outside, local, moved, hits, doubled, mishap>>

\* It is read a second time, as text: a file that has become a database in
\* between fails as such, or parses as a store that holds nothing.
ReadLegacy(p) ==
  /\ pc[p] = "raw"
  /\ \/ /\ db # "absent"
        /\ stack' = [stack EXCEPT ![p] = <<LegacyAgenda(db)>> \o @]
        /\ Goto(p, "rename")
     \/ /\ db \in {"absent", "sqlite"}
        /\ Goto(p, "failed")
        /\ UNCHANGED stack
  /\ UNCHANGED <<files, tables, outside, goal, news, agenda, todo, moved,
                 hits, doubled, mishap>>

\* fs::rename moves whatever is there now, over the copy that is there (faulty:
\* the file is removed).  Who holds a connection to it holds one to a file that
\* has moved, and SQLite writes no more to that.
CopyOfNothing == copy
Copied == db

Rename(p) ==
  /\ pc[p] = "rename"
  /\ \/ /\ db # "absent"
        /\ copy' = Copied
        /\ db' = "absent"
        /\ rows' = {} /\ searchable' = {} /\ facts' = {} /\ marked' = {}
        /\ moved' = [q \in Procs |-> {"outer", "inner"}]
        /\ Goto(p, "exists")
     \/ /\ db = "absent"
        /\ Goto(p, "failed")
        /\ UNCHANGED <<db, copy, tables, moved>>
  /\ UNCHANGED <<hadOld, outside, local, hits, doubled, mishap>>

\* Connection::open creates an empty file if there is none.
Opened == IF db = "absent" THEN "empty" ELSE db

Open(p) ==
  /\ pc[p] = "open"
  /\ db' = Opened
  /\ moved' = [moved EXCEPT ![p] = @ \ {"inner"}]
  /\ Goto(p, "schema")
  /\ UNCHANGED <<copy, hadOld, tables, outside, local, hits, doubled, mishap>>

\* The tables are created if they are not there.  Then the innermost store that
\* was read is carried over, or, when there is none left, the files are indexed.
Schema(p) ==
  /\ pc[p] = "schema"
  /\ "inner" \notin moved[p]
  /\ db' = "sqlite"
  /\ IF stack[p] = <<>>
     THEN /\ goal' = [goal EXCEPT ![p] = "index"]
          /\ todo' = [todo EXCEPT ![p] = Sources]
          /\ Goto(p, "check")
          /\ UNCHANGED <<agenda, stack>>
     ELSE /\ agenda' = [agenda EXCEPT ![p] = Head(stack[p])]
          /\ stack' = [stack EXCEPT ![p] = Tail(@)]
          /\ Goto(p, "work")
          /\ UNCHANGED <<goal, todo>>
  /\ UNCHANGED <<copy, hadOld, tables, outside, news, moved, hits, doubled, mishap>>

-----------------------------------------------------------------------------
(* The statements *)

Subject(p) == Head(agenda[p]).of
Advance(p) == agenda' = [agenda EXCEPT ![p] = Tail(@)]
Ahead(p, op) == pc[p] = "work" /\ agenda[p] # <<>> /\ Head(agenda[p]).op = op

\* ingest_session_event: the row, on a connection of its own (faulty: the row
\* waits for the index).
RowsLater(e) == rows
RowsWith(e) == rows \cup {e}

InsertRow(p) ==
  /\ Ahead(p, "event")
  /\ db = "sqlite"
  /\ moved' = [moved EXCEPT ![p] = @ \ {"inner"}]
  /\ doubled' = (doubled \/ Subject(p) \in rows)
  /\ rows' = RowsWith(Subject(p))
  /\ Goto(p, "fts")
  /\ UNCHANGED <<files, searchable, facts, marked, outside, local, hits, mishap>>

\* ... and then what the full-text search finds.
InsertSearchable(p) ==
  /\ pc[p] = "fts"
  /\ "inner" \notin moved[p]
  /\ searchable' = searchable \cup {Subject(p)}
  /\ Advance(p)
  /\ Goto(p, "work")
  /\ UNCHANGED <<files, rows, facts, marked, outside, goal, news, stack, todo, moved,
                 hits, doubled, mishap>>

\* upsert_fact: look for the fact, then update or insert it.  A query that fails
\* (.ok()) counts as one that finds nothing.
SelectFact(p) ==
  /\ Ahead(p, "fact")
  /\ db = "sqlite"
  /\ moved' = [moved EXCEPT ![p] = @ \ {"inner"}]
  /\ \/ Subject(p) \in facts /\ Goto(p, "updateFact") /\ UNCHANGED mishap
     \/ Subject(p) \notin facts /\ Goto(p, "insertFact") /\ UNCHANGED mishap
     \/ Goto(p, "insertFact") /\ Note(Trouble)
  /\ UNCHANGED <<files, tables, outside, local, hits, doubled>>

WriteFact(p) ==
  /\ pc[p] \in {"updateFact", "insertFact"}
  /\ "inner" \notin moved[p]
  /\ doubled' = (doubled \/ (pc[p] = "insertFact" /\ Subject(p) \in facts))
  /\ facts' = facts \cup {Subject(p)}
  /\ Advance(p)
  /\ Goto(p, "work")
  /\ UNCHANGED <<files, rows, searchable, marked, outside, goal, news, stack, todo, moved,
                 hits, mishap>>

OpenOuter(p) ==
  /\ Ahead(p, "open")
  /\ db' = Opened
  /\ moved' = [moved EXCEPT ![p] = @ \ {"outer"}]
  /\ Advance(p)
  /\ UNCHANGED <<copy, hadOld, tables, outside, pc, goal, news, stack, todo, hits,
                 doubled, mishap>>

\* INSERT OR IGNORE INTO indexed_sources, on the connection opened before.
MarkSource(p) ==
  /\ Ahead(p, "mark")
  /\ db = "sqlite" /\ "outer" \notin moved[p]
  /\ marked' = marked \cup {Subject(p)}
  /\ Advance(p)
  /\ UNCHANGED <<files, rows, searchable, facts, outside, pc, goal, news, stack, todo,
                 moved, hits, doubled, mishap>>

\* The last statement is done: a migration returns to the ensure_schema that
\* called it, a file makes room for the next, an event goes to the vector store.
Finish(p) ==
  /\ pc[p] = "work" /\ agenda[p] = <<>>
  /\ Goto(p, CASE goal[p] = "migrate" -> "open"
               [] goal[p] = "index" -> "check"
               [] OTHER -> "vector")
  /\ UNCHANGED <<files, tables, outside, local, moved, hits, doubled, mishap>>

-----------------------------------------------------------------------------
(* index_markdown_files, recall, ingest_event *)

\* A file is passed over if it is marked when its turn comes, or cannot be read,
\* or is empty.  A query for the mark that fails (unwrap_or) finds none, the one
\* of a database without tables included.
CheckSource(p) ==
  /\ pc[p] = "check"
  /\ \E s \in todo[p] :
       /\ todo' = [todo EXCEPT ![p] = @ \ {s}]
       /\ \/ UNCHANGED <<db, moved, pc, agenda, mishap>>
          \/ /\ db' = Opened
             /\ moved' = [moved EXCEPT ![p] = @ \ {"outer"}]
             /\ agenda' = [agenda EXCEPT ![p] = IndexAgenda(s)]
             /\ Goto(p, "work")
             /\ Note(IF db' = "empty" THEN Torn
                     ELSE IF s \in marked THEN Trouble ELSE Clean)
  /\ UNCHANGED <<copy, hadOld, tables, outside, goal, news, stack, hits, doubled>>

Built(p) ==
  /\ pc[p] = "check" /\ todo[p] = {}
  /\ goal' = [goal EXCEPT ![p] = "session"]
  /\ Goto(p, IF news[p] = "prompt" THEN "recall" ELSE "log")
  /\ UNCHANGED <<files, tables, outside, news, agenda, stack, todo, moved, hits,
                 doubled, mishap>>

\* trim_to_token_budget, on the sizes of the hits: they are kept up to the first
\* that exceeds the budget, and the first of all is kept whatever its size.
Tokens(sizes) == FoldLeft(+, 0, sizes)
CheckedTooLate(sizes) ==
  LET fits(n) == Tokens(SubSeq(sizes, 1, n - 1)) <= MaxTokens
      kept == {n \in 0..Len(sizes) : \A k \in 1..n : fits(k)}
  IN SubSeq(sizes, 1, CHOOSE n \in kept : \A k \in kept : k <= n)
TrimToTokenBudget(sizes) ==
  LET fits(n) == n = 1 \/ Tokens(SubSeq(sizes, 1, n)) <= MaxTokens
      kept == {n \in 0..Len(sizes) : \A k \in 1..n : fits(k)}
  IN SubSeq(sizes, 1, CHOOSE n \in kept : \A k \in kept : k <= n)

\* How many hits a layer may give: the full-text index and the facts up to
\* MaxItems each, the vector store and the files what room there is left.
UpTo(n, layer) == IF layer = {} THEN {0} ELSE 0..n
FtsHits == UpTo(MaxItems, searchable)
FactHits == UpTo(MaxItems, facts)
VectorHits(room) == UpTo(room, vectors)
FileHits(room) == UpTo(room, DiskLines \cup log)
Room(n) == IF n < MaxItems THEN MaxItems - n ELSE 0

\* The hits are ranked, cut to MaxItems and trimmed; of a hit only its size is
\* kept.  `ozr memory` prints them and is done.
Recall(p) ==
  /\ pc[p] = "recall"
  /\ \E a \in FtsHits, b \in FactHits :
       \E c \in VectorHits(Room(a + b)) :
         \E d \in FileHits(Room(a + b + c)) :
           \E sizes \in [1..(MaxItems - Room(a + b + c + d)) -> 1..(MaxTokens + 1)] :
             hits' = [hits EXCEPT ![p] = TrimToTokenBudget(sizes)]
  /\ \E next \in {"log", "done"} : Goto(p, next)
  /\ UNCHANGED <<files, tables, outside, local, moved, doubled, mishap>>

\* ingest_event: the log first, then the index, then the vector store (faulty:
\* the log not at all).  (Its
\* maybe_extract_fact waits for events that begin with "fact:", and no caller
\* has one: facts come from the text store only.)
SilentLog(e) == log
LogWith(e) == log \cup {e}

AppendLog(p) ==
  /\ pc[p] = "log"
  /\ log' = LogWith(<<news[p], p>>)
  /\ hits' = [hits EXCEPT ![p] = <<>>]
  /\ agenda' = [agenda EXCEPT ![p] = <<Event(<<news[p], p>>)>>]
  /\ Goto(p, "work")
  /\ UNCHANGED <<files, tables, vectors, goal, news, stack, todo, moved, doubled, mishap>>

\* The point's id is a hash of its content, so a point put twice is one point.
\* Whether the store takes it makes no difference to the run.
AfterSession(p) == IF news[p] = "prompt" THEN "running" ELSE "done"
PutVector(p) ==
  /\ pc[p] = "vector"
  /\ vectors' \in {vectors, vectors \cup {<<news[p], p>>}}
  /\ Goto(p, AfterSession(p))
  /\ UNCHANGED <<files, tables, log, local, moved, hits, doubled, mishap>>

-----------------------------------------------------------------------------
(* Failures *)

\* A statement fails: the disk is full, the database stays locked, a table is
\* missing, the file was renamed.  Building and recalling give up; what fails
\* in ingest_event is ignored.  To open a missing file is to leave an empty one.
StatementPcs == {"exists", "header", "raw", "rename", "open", "schema", "work", "fts",
                 "updateFact", "insertFact", "check", "recall", "log"}
Interrupted(p) ==
  Note(IF db' = "empty" THEN Torn ELSE IF Building(p) THEN Trouble ELSE Clean)

Fail(p) ==
  /\ pc[p] \in StatementPcs
  /\ db' \in IF pc[p] \in {"open", "work", "check"} THEN {db, Opened} ELSE {db}
  /\ Goto(p, IF goal[p] = "session" /\ pc[p] # "recall" THEN AfterSession(p) ELSE "failed")
  /\ agenda' = [agenda EXCEPT ![p] = <<>>]
  /\ stack' = [stack EXCEPT ![p] = <<>>]
  /\ todo' = [todo EXCEPT ![p] = {}]
  /\ hits' = [hits EXCEPT ![p] = <<>>]
  /\ Interrupted(p)
  /\ UNCHANGED <<copy, hadOld, tables, outside, goal, news, moved, doubled>>

\* The process dies, or the run itself fails and leaves nothing to remember.
Die(p) ==
  /\ pc[p] \notin Ended \cup {"idle"}
  /\ Goto(p, "dead")
  /\ agenda' = [agenda EXCEPT ![p] = <<>>]
  /\ stack' = [stack EXCEPT ![p] = <<>>]
  /\ todo' = [todo EXCEPT ![p] = {}]
  /\ hits' = [hits EXCEPT ![p] = <<>>]
  /\ UNCHANGED <<files, tables, outside, goal, news, moved, doubled>>
  /\ Interrupted(p)

Step(p) ==
  \/ Exists(p) \/ Header(p) \/ ReadLegacy(p) \/ Rename(p) \/ Open(p) \/ Schema(p)
  \/ InsertRow(p) \/ InsertSearchable(p) \/ SelectFact(p) \/ WriteFact(p)
  \/ OpenOuter(p) \/ MarkSource(p) \/ Finish(p)
  \/ CheckSource(p) \/ Built(p) \/ Recall(p) \/ AppendLog(p) \/ PutVector(p)

Next == \E p \in Procs : Build(p) \/ Step(p) \/ Fail(p) \/ Die(p)

Spec == Init /\ [][Next]_vars

-----------------------------------------------------------------------------
(* Properties *)

\* The parts have their types, and only a SQLite file has tables.
TypeOK ==
  /\ db \in {"absent", "empty", "text", "sqlite"}
  /\ copy \in {"none", "empty", "text", "sqlite"}
  /\ rows \subseteq Entries /\ searchable \subseteq Entries
  /\ facts \subseteq OldFacts /\ marked \subseteq Sources
  /\ db # "sqlite" => rows \cup searchable \cup facts \cup marked = {}
  /\ log \subseteq Entries /\ vectors \subseteq Entries
  /\ goal \in [Procs -> {"migrate", "index", "session"}]
  /\ news \in [Procs -> {"prompt", "completed"}]
  /\ pc \in [Procs -> StatementPcs \cup Ended \cup {"idle", "vector", "running"}]
  /\ agenda \in [Procs -> Seq(Statements)]
  /\ stack \in [Procs -> Seq(Seq(Statements))]
  /\ todo \in [Procs -> SUBSET Sources]
  /\ moved \in [Procs -> SUBSET {"outer", "inner"}]
  /\ hits \in [Procs -> Seq(Nat)]
  /\ doubled \in BOOLEAN
  /\ mishap \in Clean..Overlap
  /\ hadOld \in BOOLEAN

\* What the full-text search finds is a row of the table, whatever died or was
\* renamed between the two INSERTs.
SearchableIsStored == searchable \subseteq rows

\* A file that is marked is in the index to the last line it takes: marked files are
\* never looked at again, so a mark that came too soon would hide the rest of
\* the file for good.  Only two builds at once over an old text store can break it.
MarkedIsIndexed ==
  (hadOld /\ mishap = Overlap) \/ \A s \in marked : Lines(s) \subseteq searchable

\* No two builds overlap, and none leaves an empty database behind.  Nothing in the
\* code prevents either: two processes that have both read the text store rename
\* twice, the second time the new database over the text store's copy; and an
\* empty file is taken for a text store and renamed over that copy as well.
InTurnAndWhole == mishap < Torn

\* The text store stays on disk, at one name or the other, through every failure
\* and crash of builds that take turns and leave no empty database: none of them
\* runs the rename a second time over it.
OldStoreKept ==
  hadOld /\ InTurnAndWhole => "text" \in {db, copy}

\* Builds that nothing interrupts, that do not overlap and whose queries succeed
\* index each line and carry over each fact once, however many builds there are.
IndexedOnce == mishap = Clean => ~doubled

\* The log is the first to know: what the vector store remembers the log says too,
\* and what the index remembers the log says or a file, unless it comes from the
\* text store, whose sessions are carried over with no look at the log.
LogKnowsFirst ==
  /\ vectors \subseteq log
  /\ rows \cup searchable
       \subseteq log \cup DiskLines \cup (IF hadOld THEN OldSessions ELSE {})

\* What goes into a prompt keeps to both budgets, except for a single hit that
\* is larger than the token budget by itself.
RecallWithinBudget ==
  \A p \in Procs : /\ Len(hits[p]) <= MaxItems
                   /\ Tokens(hits[p]) <= MaxTokens \/ Len(hits[p]) = 1

\* What the index holds it holds for good: later builds, crashes and failures
\* take nothing away, as long as no two builds overlap.
IndexNeverShrinks ==
  [][mishap # Overlap
     => searchable \subseteq searchable' /\ marked \subseteq marked']_vars
=============================================================================
