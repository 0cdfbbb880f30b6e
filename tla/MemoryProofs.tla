---------------------------- MODULE MemoryProofs ----------------------------
(***************************************************************************)
(* The safety properties of Memory, for any number of processes, files,    *)
(* lines, facts and hits.                                                  *)
(***************************************************************************)
EXTENDS Memory, TLAPS, SequenceTheorems, FiniteSetTheorems, WellFoundedInduction

-----------------------------------------------------------------------------
(* Sequences *)

\* What is left of a sequence once its head is done with.
LEMMA HeadAndTail ==
  ASSUME NEW S, NEW q \in Seq(S), q # <<>>
  PROVE  /\ Len(q) \in Nat /\ Len(q) > 0
         /\ Head(q) = q[1] /\ Head(q) \in S
         /\ Tail(q) \in Seq(S) /\ Len(Tail(q)) = Len(q) - 1
         /\ \A i \in 1 .. Len(q) - 1 : Tail(q)[i] = q[i + 1]
BY HeadTailProperties, LenProperties, ElementOfSeq, EmptySeq

LEMMA Joined ==
  ASSUME NEW S, NEW x \in Seq(S), NEW y \in Seq(S)
  PROVE  /\ x \o y \in Seq(S) /\ Len(x \o y) = Len(x) + Len(y)
         /\ \A i \in 1 .. Len(x) : (x \o y)[i] = x[i]
         /\ \A i \in Len(x) + 1 .. Len(x) + Len(y) : (x \o y)[i] = y[i - Len(x)]
<1>1. Len(x) \in Nat /\ Len(y) \in Nat
  OBVIOUS
<1>2. /\ x \o y \in Seq(S) /\ Len(x \o y) = Len(x) + Len(y)
      /\ \A i \in 1 .. Len(x) + Len(y) :
           (x \o y)[i] = IF i <= Len(x) THEN x[i] ELSE y[i - Len(x)]
  BY ConcatProperties
<1> QED
  BY <1>1, <1>2

\* A finite set can be listed, each element once.
LEMMA SetToSeqLists ==
  ASSUME NEW S, IsFiniteSet(S)
  PROVE  /\ SetToSeq(S) \in Seq(S)
         /\ DOMAIN SetToSeq(S) = 1 .. Len(SetToSeq(S))
         /\ \A i, j \in DOMAIN SetToSeq(S) : SetToSeq(S)[i] = SetToSeq(S)[j] => i = j
         /\ \A x \in S : \E i \in DOMAIN SetToSeq(S) : SetToSeq(S)[i] = x
<1> DEFINE n == Cardinality(S)
<1>1. n \in Nat /\ ExistsBijection(1 .. n, S)
  BY FS_CardinalityType
<1>2. PICK b : b \in Bijection(1 .. n, S)
  BY <1>1 DEF ExistsBijection
<1>3. b \in [1 .. n -> S] /\ IsInjective(b)
  BY <1>2 DEF Bijection, Injection, IsInjective
<1>4. SetToSeq(S) \in [1 .. n -> S] /\ IsInjective(SetToSeq(S))
  BY <1>3 DEF SetToSeq
<1>5. SetToSeq(S) \in Seq(S) /\ DOMAIN SetToSeq(S) = 1 .. Len(SetToSeq(S))
  BY <1>1, <1>4
<1>6. SetToSeq(S) \in Surjection(1 .. n, S)
  <2>1. IsFiniteSet(1 .. n) /\ Cardinality(1 .. n) = n
    BY <1>1, FS_Interval
  <2>2. SetToSeq(S) \in Injection(1 .. n, S)
    BY <1>4 DEF Injection
  <2> QED
    BY <2>1, <2>2, FS_Injection
<1> QED
  BY <1>4, <1>5, <1>6 DEF IsInjective, Surjection

\* A set of numbers up to a bound has a greatest.
LEMMA GreatestExists ==
  ASSUME NEW n \in Nat, NEW K \in SUBSET (0 .. n), K # {}
  PROVE  \E k \in K : \A j \in K : j <= k
<1> DEFINE below == {n - k : k \in K}
<1>1. below \subseteq Nat /\ below # {}
  <2>1. \A k \in K : k \in 0 .. n
    OBVIOUS
  <2>2. \A k \in K : n - k \in Nat
    BY <2>1
  <2> QED
    BY <2>2
<1> HIDE DEF below
<1>2. PICK x \in below : \A y \in below : ~ (<<y, x>> \in OpToRel(<, Nat))
  BY <1>1, WFMin, NatLessThanWellFounded
<1>3. \A y \in below : x <= y
  <2> SUFFICES ASSUME NEW y \in below, y < x PROVE FALSE
    BY <1>1
  <2>1. <<y, x>> \in OpToRel(<, Nat)
    BY <1>1 DEF OpToRel
  <2> QED
    BY <2>1, <1>2
<1>4. PICK k \in K : x = n - k
  BY DEF below
<1>5. ASSUME NEW j \in K PROVE j <= k
  <2>1. n - j \in below
    BY DEF below
  <2> QED
    BY <2>1, <1>3, <1>4
<1> QED
  BY <1>5

-----------------------------------------------------------------------------
(* The statements of a file and of the text store *)

\* Every mark comes after the lines of its file, those that are found already apart.
Covered(q, found) ==
  \A j \in 1 .. Len(q) : q[j].op = "mark" =>
    \A x \in Lines(q[j].of) : x \in found \/ \E i \in 1 .. j - 1 : q[i] = Event(x)

\* Every line comes before the mark of its file.
Announced(q) ==
  \A i \in 1 .. Len(q) : q[i].op = "event" /\ q[i].of \in DiskLines =>
    \E s \in Sources : /\ q[i].of \in Lines(s)
                       /\ \E j \in i + 1 .. Len(q) : q[j] = Mark(s)

\* No line comes twice.
Distinct(q) ==
  \A i, j \in 1 .. Len(q) : q[i].op = "event" /\ q[j] = q[i] => i = j

Ops(q, ops) == \A i \in 1 .. Len(q) : q[i].op \in ops

Within(q, S) == \A i \in 1 .. Len(q) : q[i].op = "event" => q[i].of \in S

\* What builds put into the index: lines of files, and old sessions.
Carried == DiskLines \cup OldSessions

\* A list of statements that indexes whole files.
Orderly(q) == Covered(q, {}) /\ Announced(q) /\ Distinct(q)

LEMMA LinesAreEntries ==
  \A s \in Sources : LineCount[s] \in Nat /\ Lines(s) \subseteq DiskLines /\ Lines(s) \subseteq Entries
BY MemoryAssumption DEF Lines, DiskLines, Entries

\* An old session is no line of a file.
LEMMA OldSessionsApart ==
  OldSessions \subseteq Entries /\ OldSessions \cap DiskLines = {}
<1>1. "old" \notin Sources
  BY MemoryAssumption
<1> QED
  BY <1>1 DEF OldSessions, Entries, DiskLines, Lines

LEMMA StatementParts ==
  /\ \A x : Event(x).op = "event" /\ Event(x).of = x
  /\ \A x : Fact(x).op = "fact" /\ Fact(x).of = x
  /\ \A x : Mark(x).op = "mark" /\ Mark(x).of = x
  /\ Reopen.op = "open"
BY DEF Event, Fact, Mark, Reopen

LEMMA StatementKinds ==
  /\ \A e \in Entries : Event(e) \in Statements /\ Event(e).op = "event" /\ Event(e).of = e
  /\ \A f \in OldFacts : Fact(f) \in Statements /\ Fact(f).op = "fact" /\ Fact(f).of = f
  /\ \A s \in Sources : Mark(s) \in Statements /\ Mark(s).op = "mark" /\ Mark(s).of = s
  /\ Reopen \in Statements /\ Reopen.op = "open"
  /\ \A x \in Statements :
       /\ x.op \in {"event", "fact", "mark", "open"}
       /\ x.op = "event" => x.of \in Entries /\ x = Event(x.of)
       /\ x.op = "fact" => x.of \in OldFacts /\ x = Fact(x.of)
       /\ x.op = "mark" => x.of \in Sources /\ x = Mark(x.of)
       /\ x.op = "open" => x = Reopen
<1>1. \A e \in Entries : Event(e) \in Statements /\ Event(e).op = "event" /\ Event(e).of = e
  BY DEF Statements, Event
<1>2. \A f \in OldFacts : Fact(f) \in Statements /\ Fact(f).op = "fact" /\ Fact(f).of = f
  BY DEF Statements, Fact
<1>3. \A s \in Sources : Mark(s) \in Statements /\ Mark(s).op = "mark" /\ Mark(s).of = s
  BY DEF Statements, Mark
<1>4. Reopen \in Statements /\ Reopen.op = "open"
  BY DEF Statements, Reopen
<1>5. ASSUME NEW x \in Statements
      PROVE  \/ x.op = "event" /\ x.of \in Entries /\ x = Event(x.of)
             \/ x.op = "fact" /\ x.of \in OldFacts /\ x = Fact(x.of)
             \/ x.op = "mark" /\ x.of \in Sources /\ x = Mark(x.of)
             \/ x.op = "open" /\ x = Reopen
  <2>1. \/ \E e \in Entries : x = Event(e)
        \/ \E f \in OldFacts : x = Fact(f)
        \/ \E s \in Sources : x = Mark(s)
        \/ x = Reopen
    BY <1>5 DEF Statements, Event, Fact, Mark
  <2> QED
    BY <2>1, <1>1, <1>2, <1>3, <1>4
<1>6. ASSUME NEW x \in Statements
      PROVE  /\ x.op \in {"event", "fact", "mark", "open"}
             /\ x.op = "event" => x.of \in Entries /\ x = Event(x.of)
             /\ x.op = "fact" => x.of \in OldFacts /\ x = Fact(x.of)
             /\ x.op = "mark" => x.of \in Sources /\ x = Mark(x.of)
             /\ x.op = "open" => x = Reopen
  BY <1>5
<1> QED
  BY <1>1, <1>2, <1>3, <1>4, <1>6

LEMMA IndexAgendaShape ==
  ASSUME NEW s \in Sources
  PROVE  /\ IndexAgenda(s) \in Seq(Statements)
         /\ Len(IndexAgenda(s)) = LineCount[s] + 1
         /\ \A i \in 1 .. LineCount[s] : IndexAgenda(s)[i] = Event(<<s, i>>)
         /\ IndexAgenda(s)[LineCount[s] + 1] = Mark(s)
<1> DEFINE n == LineCount[s]
           events == [i \in 1 .. n |-> Event(<<s, i>>)]
<1>1. n \in Nat /\ \A i \in 1 .. n : <<s, i>> \in Entries
  BY MemoryAssumption DEF Entries
<1>2. events \in Seq(Statements) /\ Len(events) = n
  <2>1. \A i \in 1 .. n : Event(<<s, i>>) \in Statements
    BY <1>1, StatementKinds
  <2>2. events \in [1 .. n -> Statements]
    BY <2>1
  <2> HIDE DEF events
  <2> QED
    BY <1>1, <2>2
<1>3. <<Mark(s)>> \in Seq(Statements) /\ Len(<<Mark(s)>>) = 1 /\ <<Mark(s)>>[1] = Mark(s)
  BY StatementKinds
<1>4. IndexAgenda(s) = events \o <<Mark(s)>>
  BY DEF IndexAgenda
<1> HIDE DEF events
<1>5. /\ events \o <<Mark(s)>> \in Seq(Statements)
      /\ Len(events \o <<Mark(s)>>) = n + 1
      /\ \A i \in 1 .. n + 1 :
           (events \o <<Mark(s)>>)[i] = IF i <= n THEN events[i] ELSE <<Mark(s)>>[i - n]
  BY <1>1, <1>2, <1>3, ConcatProperties
<1> QED
  BY <1>1, <1>3, <1>4, <1>5 DEF events

LEMMA IndexAgendaOrderly ==
  ASSUME NEW s \in Sources
  PROVE  /\ Orderly(IndexAgenda(s))
         /\ Ops(IndexAgenda(s), {"event", "mark"})
         /\ \A i \in 1 .. Len(IndexAgenda(s)) :
              /\ IndexAgenda(s)[i].op = "event" => IndexAgenda(s)[i].of \in Lines(s)
              /\ IndexAgenda(s)[i].op = "mark" => IndexAgenda(s)[i].of = s
<1> DEFINE n == LineCount[s]
           q == IndexAgenda(s)
<1>1. /\ n \in Nat /\ Len(q) = n + 1
      /\ \A i \in 1 .. n : q[i] = Event(<<s, i>>)
      /\ q[n + 1] = Mark(s)
  BY IndexAgendaShape, LinesAreEntries
<1> HIDE DEF q, n
<1>2. \A i \in 1 .. n : q[i].op = "event" /\ q[i].of = <<s, i>>
  BY <1>1, StatementParts
<1>3. q[n + 1].op = "mark" /\ q[n + 1].of = s
  BY <1>1, StatementParts
<1>4. \A i \in 1 .. Len(q) : i \in 1 .. n \/ i = n + 1
  BY <1>1
<1>5. \A x : x \in Lines(s) <=> \E i \in 1 .. n : x = <<s, i>>
  BY DEF Lines, n
<1>6. Covered(q, {})
  <2> SUFFICES ASSUME NEW j \in 1 .. Len(q), q[j].op = "mark", NEW x \in Lines(q[j].of)
               PROVE  \E i \in 1 .. j - 1 : q[i] = Event(x)
    BY DEF Covered
  <2>1. j = n + 1
    BY <1>2, <1>4
  <2>2. PICK i \in 1 .. n : x = <<s, i>>
    BY <2>1, <1>3, <1>5
  <2> QED
    BY <2>1, <2>2, <1>1
<1>7. Announced(q)
  <2> SUFFICES ASSUME NEW i \in 1 .. Len(q), q[i].op = "event", q[i].of \in DiskLines
               PROVE  q[i].of \in Lines(s) /\ \E j \in i + 1 .. Len(q) : q[j] = Mark(s)
    BY DEF Announced
  <2>1. i \in 1 .. n
    BY <1>3, <1>4
  <2>2. n + 1 \in i + 1 .. Len(q)
    BY <2>1, <1>1
  <2> QED
    BY <2>1, <2>2, <1>1, <1>2, <1>5
<1>8. Distinct(q)
  BY <1>1, <1>2, <1>3, <1>4 DEF Distinct
<1> QED
  BY <1>1, <1>2, <1>3, <1>4, <1>5, <1>6, <1>7, <1>8 DEF Orderly, Ops, q

OldEntries == OldSessions \cup UNION {Lines(s) : s \in OldSources}

LEMMA OldEntriesFinite == IsFiniteSet(OldEntries)
<1> DEFINE files_ == {Lines(s) : s \in OldSources}
<1>1. ASSUME NEW s \in OldSources PROVE IsFiniteSet(Lines(s))
  <2>1. LineCount[s] \in Nat
    BY MemoryAssumption
  <2>2. IsFiniteSet(1 .. LineCount[s])
    BY <2>1, FS_Interval
  <2>3. [i \in 1 .. LineCount[s] |-> <<s, i>>] \in Surjection(1 .. LineCount[s], Lines(s))
    BY DEF Surjection, Lines
  <2> QED
    BY <2>2, <2>3, FS_Surjection
<1>2. [s \in OldSources |-> Lines(s)] \in Surjection(OldSources, files_)
  BY DEF Surjection
<1>3. IsFiniteSet(files_)
  BY <1>2, FS_Surjection, MemoryAssumption
<1>4. \A T \in files_ : IsFiniteSet(T)
  BY <1>1
<1> HIDE DEF files_
<1>5. IsFiniteSet(UNION files_)
  BY <1>3, <1>4, FS_UNION
<1>6. [e \in OldEvents |-> <<"old", e>>] \in Surjection(OldEvents, OldSessions)
  BY DEF Surjection, OldSessions
<1>7. IsFiniteSet(OldSessions)
  BY <1>6, FS_Surjection, MemoryAssumption
<1>8. IsFiniteSet(OldSessions \cup UNION files_)
  BY <1>5, <1>7, FS_Union
<1> QED
  BY <1>8 DEF files_, OldEntries

LegacyLines == SetToSeq(OldEntries)
LegacyFacts == SetToSeq(OldFacts)
LegacySources == SetToSeq(OldSources)
Reopening == Len(LegacyLines) + Len(LegacyFacts) + 1

\* Where the statements of a text store are: its lines, its facts, the connection
\* for the marks, and the marks.
LEMMA LegacyShape ==
  LET n == Len(LegacyLines)
      m == Reopening
      k == Len(LegacySources)
      q == LegacyAgenda("text")
  IN  /\ q \in Seq(Statements)
      /\ n \in Nat /\ m \in Nat /\ k \in Nat /\ n < m /\ Len(q) = m + k
      /\ \A i \in 1 .. n : q[i] = Event(LegacyLines[i])
      /\ \A i \in n + 1 .. m - 1 : q[i] = Fact(LegacyFacts[i - n])
      /\ q[m] = Reopen
      /\ \A i \in m + 1 .. m + k : q[i] = Mark(LegacySources[i - m])
      /\ \A i \in 1 .. n :
           LegacyLines[i] \in OldSessions \/ \E s \in OldSources : LegacyLines[i] \in Lines(s)
      /\ \A i, j \in 1 .. n : LegacyLines[i] = LegacyLines[j] => i = j
      /\ \A s \in OldSources : \A x \in Lines(s) : \E i \in 1 .. n : LegacyLines[i] = x
      /\ \A i \in 1 .. k : LegacySources[i] \in OldSources
      /\ \A s \in OldSources : \E i \in 1 .. k : LegacySources[i] = s
<1> DEFINE Old == OldEntries
           lines == LegacyLines
           old == LegacyFacts
           sources == LegacySources
           a == [i \in DOMAIN lines |-> Event(lines[i])]
           b == [i \in DOMAIN old |-> Fact(old[i])]
           c == [i \in DOMAIN sources |-> Mark(sources[i])]
           r == <<Reopen>>
<1>1. /\ lines \in Seq(Old)
      /\ DOMAIN lines = 1 .. Len(lines)
      /\ \A i, j \in DOMAIN lines : lines[i] = lines[j] => i = j
      /\ \A x \in Old : \E i \in DOMAIN lines : lines[i] = x
  BY OldEntriesFinite, SetToSeqLists DEF LegacyLines
<1>2. /\ old \in Seq(OldFacts)
      /\ DOMAIN old = 1 .. Len(old)
  BY MemoryAssumption, SetToSeqLists DEF LegacyFacts
<1>3. /\ sources \in Seq(OldSources)
      /\ DOMAIN sources = 1 .. Len(sources)
      /\ \A x \in OldSources : \E i \in DOMAIN sources : sources[i] = x
  BY MemoryAssumption, SetToSeqLists DEF LegacySources
<1>4. \A x \in Old : x \in Entries /\ (x \in OldSessions \/ \E s \in OldSources : x \in Lines(s))
  BY LinesAreEntries, OldSessionsApart, MemoryAssumption DEF OldEntries
<1>5. LegacyAgenda("text") = ((a \o b) \o r) \o c
  BY DEF LegacyAgenda, LegacyLines, LegacyFacts, LegacySources, OldEntries
<1> HIDE DEF Old, lines, old, sources
<1>6. a \in Seq(Statements) /\ Len(a) = Len(lines) /\ \A i \in 1 .. Len(lines) : a[i] = Event(lines[i])
  <2>1. Len(lines) \in Nat /\ \A i \in 1 .. Len(lines) : lines[i] \in Entries
    BY <1>1, <1>4, ElementOfSeq, LenProperties
  <2>2. \A i \in 1 .. Len(lines) : Event(lines[i]) \in Statements
    BY <2>1, StatementKinds
  <2>3. a \in [1 .. Len(lines) -> Statements] /\ \A i \in 1 .. Len(lines) : a[i] = Event(lines[i])
    BY <2>2, <1>1
  <2> HIDE DEF a
  <2> QED
    BY <2>1, <2>3
<1>7. b \in Seq(Statements) /\ Len(b) = Len(old) /\ \A i \in 1 .. Len(old) : b[i] = Fact(old[i])
  <2>1. Len(old) \in Nat /\ \A i \in 1 .. Len(old) : old[i] \in OldFacts
    BY <1>2, ElementOfSeq, LenProperties
  <2>2. \A i \in 1 .. Len(old) : Fact(old[i]) \in Statements
    BY <2>1, StatementKinds
  <2>3. b \in [1 .. Len(old) -> Statements] /\ \A i \in 1 .. Len(old) : b[i] = Fact(old[i])
    BY <2>2, <1>2
  <2> HIDE DEF b
  <2> QED
    BY <2>1, <2>3
<1>8. /\ c \in Seq(Statements) /\ Len(c) = Len(sources)
      /\ \A i \in 1 .. Len(sources) : c[i] = Mark(sources[i]) /\ sources[i] \in OldSources
  <2>1. Len(sources) \in Nat /\ \A i \in 1 .. Len(sources) : sources[i] \in OldSources
    BY <1>3, ElementOfSeq, LenProperties
  <2>2. \A i \in 1 .. Len(sources) : Mark(sources[i]) \in Statements
    BY <2>1, StatementKinds, MemoryAssumption
  <2>3. c \in [1 .. Len(sources) -> Statements] /\ \A i \in 1 .. Len(sources) : c[i] = Mark(sources[i])
    BY <2>2, <1>3
  <2> HIDE DEF c
  <2> QED
    BY <2>1, <2>3
<1>9. r \in Seq(Statements) /\ Len(r) = 1 /\ r[1] = Reopen
  BY StatementKinds
<1>10. Len(lines) \in Nat /\ Len(old) \in Nat /\ Len(sources) \in Nat
  BY <1>1, <1>2, <1>3, LenProperties
<1> HIDE DEF a, b, c, r
<1> DEFINE ab == a \o b
           abr == ab \o r
           q == abr \o c
           n == Len(lines)
           m == n + Len(old) + 1
<1>11. /\ ab \in Seq(Statements) /\ Len(ab) = n + Len(old)
       /\ \A i \in 1 .. n : ab[i] = a[i]
       /\ \A i \in n + 1 .. n + Len(old) : ab[i] = b[i - n]
  <2>1. a \in Seq(Statements) /\ b \in Seq(Statements)
    BY <1>6, <1>7
  <2>2. /\ ab \in Seq(Statements) /\ Len(ab) = Len(a) + Len(b)
        /\ \A i \in 1 .. Len(a) : ab[i] = a[i]
        /\ \A i \in Len(a) + 1 .. Len(a) + Len(b) : ab[i] = b[i - Len(a)]
    BY ONLY <2>1, Joined
  <2> HIDE DEF ab
  <2> QED
    BY <2>2, <1>6, <1>7
<1> HIDE DEF ab
<1>12. /\ abr \in Seq(Statements) /\ Len(abr) = Len(ab) + Len(r)
       /\ \A i \in 1 .. Len(ab) : abr[i] = ab[i]
       /\ \A i \in Len(ab) + 1 .. Len(ab) + Len(r) : abr[i] = r[i - Len(ab)]
  <2>1. ab \in Seq(Statements) /\ r \in Seq(Statements)
    BY <1>9, <1>11
  <2> QED
    BY ONLY <2>1, Joined
<1> HIDE DEF abr
<1>13. /\ q \in Seq(Statements) /\ Len(q) = Len(abr) + Len(c)
       /\ \A i \in 1 .. Len(abr) : q[i] = abr[i]
       /\ \A i \in Len(abr) + 1 .. Len(abr) + Len(c) : q[i] = c[i - Len(abr)]
  <2>1. abr \in Seq(Statements) /\ c \in Seq(Statements)
    BY <1>8, <1>12
  <2> QED
    BY ONLY <2>1, Joined
<1>14. q = LegacyAgenda("text")
  BY <1>5 DEF ab, abr
<1> HIDE DEF q
<1>15. n \in Nat /\ m \in Nat /\ n < m /\ Len(abr) = m /\ Len(ab) = m - 1 /\ Len(q) = m + Len(sources)
  BY <1>8, <1>9, <1>10, <1>11, <1>12, <1>13
<1> HIDE DEF m, n
<1>16. \A i \in 1 .. n : q[i] = Event(lines[i])
  BY <1>6, <1>11, <1>12, <1>13, <1>15 DEF n
<1>17. \A i \in n + 1 .. m - 1 : q[i] = Fact(old[i - n])
  <2> SUFFICES ASSUME NEW i \in n + 1 .. m - 1 PROVE q[i] = Fact(old[i - n])
    OBVIOUS
  <2>1. i - n \in 1 .. Len(old) /\ i \in n + 1 .. n + Len(old) /\ i \in 1 .. Len(ab) /\ i \in 1 .. m
    BY <1>10, <1>15, <1>11
  <2>2. q[i] = b[i - n]
    BY <2>1, <1>11, <1>12, <1>13, <1>15
  <2> QED
    BY <2>1, <2>2, <1>7
<1>18. q[m] = Reopen
  <2>1. m \in 1 .. Len(abr) /\ m \in Len(ab) + 1 .. Len(ab) + Len(r) /\ m - Len(ab) = 1
    BY <1>9, <1>15
  <2>2. q[m] = abr[m] /\ abr[m] = r[m - Len(ab)]
    BY <2>1, <1>12, <1>13
  <2> QED
    BY <2>1, <2>2, <1>9
<1>19. \A i \in m + 1 .. m + Len(sources) : q[i] = Mark(sources[i - m])
  <2> SUFFICES ASSUME NEW i \in m + 1 .. m + Len(sources) PROVE q[i] = Mark(sources[i - m])
    OBVIOUS
  <2>1. i - m \in 1 .. Len(sources) /\ i \in Len(abr) + 1 .. Len(abr) + Len(c)
    BY <1>8, <1>10, <1>15
  <2>2. q[i] = c[i - m]
    BY <2>1, <1>13, <1>15
  <2> QED
    BY <2>1, <2>2, <1>8
<1>20. \A i \in 1 .. n : lines[i] \in OldSessions \/ \E s \in OldSources : lines[i] \in Lines(s)
  BY <1>1, <1>4, ElementOfSeq DEF n
<1>21. \A s \in OldSources : \A x \in Lines(s) : \E i \in 1 .. n : lines[i] = x
  BY <1>1 DEF Old, OldEntries, n
<1>22. /\ \A i \in 1 .. Len(sources) : sources[i] \in OldSources
       /\ \A s \in OldSources : \E i \in 1 .. Len(sources) : sources[i] = s
  BY <1>3, <1>8
<1>23. \A i, j \in 1 .. n : lines[i] = lines[j] => i = j
  BY <1>1 DEF n
<1>24. q \in Seq(Statements)
  BY <1>13
<1>25. Reopening = m
  BY DEF m, n, old, lines, Reopening
<1> QED
  BY <1>10, <1>14, <1>15, <1>16, <1>17, <1>18, <1>19, <1>20, <1>21, <1>22, <1>23, <1>24, <1>25
     DEF n, old, lines, sources

LEMMA LegacyOrderly ==
  /\ LegacyAgenda("text") \in Seq(Statements)
  /\ Orderly(LegacyAgenda("text"))
  /\ Within(LegacyAgenda("text"), Carried)
<1> DEFINE q == LegacyAgenda("text")
           n == Len(LegacyLines)
           m == Reopening
           k == Len(LegacySources)
<1>1. /\ q \in Seq(Statements)
      /\ n \in Nat /\ m \in Nat /\ k \in Nat /\ n < m /\ Len(q) = m + k
      /\ \A i \in 1 .. n : q[i] = Event(LegacyLines[i])
      /\ \A i \in n + 1 .. m - 1 : q[i] = Fact(LegacyFacts[i - n])
      /\ q[m] = Reopen
      /\ \A i \in m + 1 .. m + k : q[i] = Mark(LegacySources[i - m])
  BY LegacyShape
<1>2. /\ \A i \in 1 .. n :
           LegacyLines[i] \in OldSessions \/ \E s \in OldSources : LegacyLines[i] \in Lines(s)
      /\ \A i, j \in 1 .. n : LegacyLines[i] = LegacyLines[j] => i = j
      /\ \A s \in OldSources : \A x \in Lines(s) : \E i \in 1 .. n : LegacyLines[i] = x
      /\ \A i \in 1 .. k : LegacySources[i] \in OldSources
      /\ \A s \in OldSources : \E i \in 1 .. k : LegacySources[i] = s
  BY LegacyShape
<1> HIDE DEF q, n, m, k
<1>3. \A i \in 1 .. n : q[i].op = "event" /\ q[i].of = LegacyLines[i]
  BY <1>1, StatementParts
<1>4. \A i \in n + 1 .. m - 1 : q[i].op = "fact"
  BY <1>1, StatementParts
<1>5. q[m].op = "open"
  BY <1>1, StatementParts
<1>6. \A i \in m + 1 .. m + k : q[i].op = "mark" /\ q[i].of = LegacySources[i - m]
  BY <1>1, StatementParts
<1>7. \A i \in 1 .. Len(q) : i \in 1 .. n \/ i \in n + 1 .. m - 1 \/ i = m \/ i \in m + 1 .. m + k
  BY <1>1
<1>8. \A i \in 1 .. Len(q) : q[i].op = "event" => i \in 1 .. n
  BY <1>4, <1>5, <1>6, <1>7
<1>9. \A i \in 1 .. Len(q) : q[i].op = "mark" => i \in m + 1 .. m + k
  BY <1>3, <1>4, <1>5, <1>7
<1>10. Covered(q, {})
  <2> SUFFICES ASSUME NEW j \in 1 .. Len(q), q[j].op = "mark", NEW x \in Lines(q[j].of)
               PROVE  \E i \in 1 .. j - 1 : q[i] = Event(x)
    BY DEF Covered
  <2>1. j \in m + 1 .. m + k
    BY <1>9
  <2>2. q[j].of \in OldSources
    <3>1. j - m \in 1 .. k
      BY <1>1, <2>1
    <3> QED
      BY <3>1, <2>1, <1>2, <1>6
  <2>3. PICK i \in 1 .. n : LegacyLines[i] = x
    BY <2>2, <1>2
  <2>4. i \in 1 .. j - 1
    BY <2>1, <1>1
  <2> QED
    BY <2>3, <2>4, <1>1
<1>11. Announced(q)
  <2> SUFFICES ASSUME NEW i \in 1 .. Len(q), q[i].op = "event", q[i].of \in DiskLines
               PROVE  \E s \in Sources : /\ q[i].of \in Lines(s)
                                         /\ \E j \in i + 1 .. Len(q) : q[j] = Mark(s)
    BY DEF Announced
  <2>1. i \in 1 .. n
    BY <1>8
  <2>2. PICK s \in OldSources : q[i].of \in Lines(s)
    BY <2>1, <1>2, <1>3, OldSessionsApart
  <2>3. PICK g \in 1 .. k : LegacySources[g] = s
    BY <1>2
  <2>4. m + g \in m + 1 .. m + k /\ m + g \in i + 1 .. Len(q) /\ (m + g) - m = g
    BY <2>1, <1>1
  <2>5. q[m + g] = Mark(s)
    BY <2>3, <2>4, <1>1
  <2> QED
    BY <2>2, <2>4, <2>5, MemoryAssumption
<1>12. Distinct(q)
  <2> SUFFICES ASSUME NEW i \in 1 .. Len(q), NEW j \in 1 .. Len(q),
                      q[i].op = "event", q[j] = q[i]
               PROVE  i = j
    BY DEF Distinct
  <2>1. i \in 1 .. n /\ j \in 1 .. n
    BY <1>8
  <2> QED
    BY <2>1, <1>2, <1>3
<1>13. Within(q, Carried)
  <2> SUFFICES ASSUME NEW i \in 1 .. Len(q), q[i].op = "event" PROVE q[i].of \in Carried
    BY DEF Within
  <2>1. i \in 1 .. n
    BY <1>8
  <2>2. q[i].of \in OldSessions \/ \E s \in OldSources : q[i].of \in Lines(s)
    BY <2>1, <1>2, <1>3
  <2> QED
    BY <2>2, LinesAreEntries, MemoryAssumption DEF Carried
<1> QED
  BY <1>1, <1>10, <1>11, <1>12, <1>13 DEF Orderly, q

\* A text store that holds nothing, and no statement at all.
LEMMA ReopenOnly ==
  /\ <<Reopen>> \in Seq(Statements)
  /\ Orderly(<<Reopen>>)
  /\ \A S : Within(<<Reopen>>, S)
  /\ Ops(<<Reopen>>, {"open"})
<1>1. <<Reopen>> \in Seq(Statements) /\ Len(<<Reopen>>) = 1 /\ <<Reopen>>[1] = Reopen
  BY StatementKinds
<1>2. \A i \in 1 .. Len(<<Reopen>>) : <<Reopen>>[i].op = "open"
  BY <1>1, StatementParts
<1> QED
  BY <1>1, <1>2 DEF Orderly, Covered, Announced, Distinct, Within, Ops

LEMMA NothingLeft ==
  /\ <<>> \in Seq(Statements)
  /\ Orderly(<<>>) /\ \A S : Within(<<>>, S) /\ Covered(<<>>, S) /\ Ops(<<>>, S)
BY DEF Orderly, Covered, Announced, Distinct, Within, Ops

LEMMA OtherStores == \A kind : kind # "text" => LegacyAgenda(kind) = <<Reopen>>
BY DEF LegacyAgenda

\* What stays true of a list of statements when its head is done with.
LEMMA TailKeeps ==
  ASSUME NEW q \in Seq(Statements), q # <<>>, NEW found
  PROVE  /\ Covered(q, found) =>
              Covered(Tail(q), IF Head(q).op = "event" THEN found \cup {Head(q).of} ELSE found)
         /\ Announced(q) => Announced(Tail(q))
         /\ Distinct(q) => Distinct(Tail(q))
         /\ \A S : Within(q, S) => Within(Tail(q), S)
         /\ \A ops : Ops(q, ops) => Ops(Tail(q), ops)
<1> DEFINE t == Tail(q)
           n == Len(q) - 1
<1>1. /\ Len(q) \in Nat /\ Len(q) > 0 /\ n \in Nat /\ Len(q) = n + 1
      /\ Head(q) = q[1] /\ Head(q) \in Statements
      /\ t \in Seq(Statements) /\ Len(t) = n
      /\ \A i \in 1 .. n : t[i] = q[i + 1]
  BY HeadAndTail
<1> HIDE DEF t, n
<1>2. \A i \in 1 .. n : i + 1 \in 1 .. Len(q)
  BY <1>1
<1>3. ASSUME Covered(q, found)
      PROVE  Covered(t, IF Head(q).op = "event" THEN found \cup {Head(q).of} ELSE found)
  <2> SUFFICES ASSUME NEW j \in 1 .. n, t[j].op = "mark", NEW x \in Lines(t[j].of),
                      x \notin found, \A i \in 1 .. j - 1 : t[i] # Event(x)
               PROVE  Head(q).op = "event" /\ Head(q).of = x
    BY <1>1 DEF Covered
  <2>1. PICK i \in 1 .. j : q[i] = Event(x)
    <3>1. j + 1 \in 1 .. Len(q) /\ q[j + 1] = t[j] /\ (j + 1) - 1 = j
      BY <1>1
    <3> QED
      BY <3>1, <1>3 DEF Covered
  <2>2. i = 1
    <3> SUFFICES ASSUME i # 1 PROVE FALSE
      OBVIOUS
    <3>1. i - 1 \in 1 .. j - 1 /\ i - 1 \in 1 .. n /\ (i - 1) + 1 = i
      BY <1>1
    <3> QED
      BY <3>1, <2>1, <1>1
  <2> QED
    BY <2>1, <2>2, <1>1, StatementParts
<1>4. ASSUME Announced(q) PROVE Announced(t)
  <2> SUFFICES ASSUME NEW i \in 1 .. n, t[i].op = "event", t[i].of \in DiskLines
               PROVE  \E s \in Sources : /\ t[i].of \in Lines(s)
                                         /\ \E j \in i + 1 .. n : t[j] = Mark(s)
    BY <1>1 DEF Announced
  <2>1. PICK s \in Sources, j \in (i + 1) + 1 .. Len(q) : t[i].of \in Lines(s) /\ q[j] = Mark(s)
    <3>1. i + 1 \in 1 .. Len(q) /\ q[i + 1] = t[i]
      BY <1>1
    <3> QED
      BY <3>1, <1>4 DEF Announced
  <2>2. j - 1 \in i + 1 .. n /\ j - 1 \in 1 .. n /\ (j - 1) + 1 = j
    BY <1>1
  <2> QED
    BY <2>1, <2>2, <1>1
<1>5. ASSUME Distinct(q) PROVE Distinct(t)
  <2> SUFFICES ASSUME NEW i \in 1 .. n, NEW j \in 1 .. n, t[i].op = "event", t[j] = t[i]
               PROVE  i = j
    BY <1>1 DEF Distinct
  <2>1. i + 1 = j + 1
    BY <1>1, <1>2, <1>5 DEF Distinct
  <2> QED
    BY <2>1
<1>6. ASSUME NEW S, Within(q, S) PROVE Within(t, S)
  BY <1>1, <1>2, <1>6 DEF Within
<1>7. ASSUME NEW ops, Ops(q, ops) PROVE Ops(t, ops)
  BY <1>1, <1>2, <1>7 DEF Ops
<1> QED
  BY <1>3, <1>4, <1>5, <1>6, <1>7 DEF t

\* More lines in the index never hurt.
LEMMA CoveredGrows ==
  ASSUME NEW q, NEW found, NEW more, found \subseteq more, Covered(q, found)
  PROVE  Covered(q, more)
BY DEF Covered

-----------------------------------------------------------------------------
(* What is recalled *)

LEMMA NoTokens == Tokens(<<>>) = 0
<1> DEFINE IsSum(sum) == sum = [s \in SUBSET {} |->
             IF s = {} THEN 0 ELSE LET x == Max(s) IN sum[s \ {x}] + <<>>[x]]
<1>1. Tokens(<<>>) =
        MapThenFoldSet(LAMBDA x, y : y + x, 0, LAMBDA i : <<>>[i], LAMBDA S : Max(S), {})
  <2>1. Tokens(<<>>) =
          MapThenFoldSet(LAMBDA x, y : y + x, 0, LAMBDA i : <<>>[i], LAMBDA S : Max(S), DOMAIN <<>>)
    BY DEF Tokens, FoldLeft
  <2>2. DOMAIN <<>> = {}
    OBVIOUS
  <2> QED
    BY <2>1, <2>2
<1>2. @ = (CHOOSE sum : IsSum(sum))[{}]
  BY DEF MapThenFoldSet
<1>3. IsSum([s \in SUBSET {} |-> 0])
  OBVIOUS
<1>4. IsSum(CHOOSE sum : IsSum(sum))
  <2> HIDE DEF IsSum
  <2> QED
    BY <1>3
<1> QED
  BY <1>1, <1>2, <1>4

\* What is kept of the hits keeps to the budget, or is the first alone.
LEMMA TrimKeepsBudget ==
  ASSUME NEW sizes \in Seq(Nat)
  PROVE  /\ TrimToTokenBudget(sizes) \in Seq(Nat)
         /\ Len(TrimToTokenBudget(sizes)) <= Len(sizes)
         /\ \/ Tokens(TrimToTokenBudget(sizes)) <= MaxTokens
            \/ Len(TrimToTokenBudget(sizes)) = 1
<1> DEFINE fits(n) == n = 1 \/ Tokens(SubSeq(sizes, 1, n)) <= MaxTokens
           kept == {n \in 0 .. Len(sizes) : \A k \in 1 .. n : fits(k)}
           last == CHOOSE n \in kept : \A k \in kept : k <= n
<1>1. Len(sizes) \in Nat
  BY LenProperties
<1>2. TrimToTokenBudget(sizes) = SubSeq(sizes, 1, last)
  BY DEF TrimToTokenBudget
<1>3. kept \subseteq 0 .. Len(sizes) /\ 0 \in kept
  BY <1>1
<1>4. \E n \in kept : \A k \in kept : k <= n
  <2> HIDE DEF kept
  <2> QED
    BY <1>1, <1>3, GreatestExists
<1>5. last \in kept
  <2> HIDE DEF kept
  <2> QED
    BY <1>4
<1> HIDE DEF last
<1>6. last \in 0 .. Len(sizes) /\ \A k \in 1 .. last : fits(k)
  BY <1>5
<1>7. SubSeq(sizes, 1, last) \in Seq(Nat) /\ Len(SubSeq(sizes, 1, last)) = last
  BY <1>1, <1>6, SubSeqProperties
<1>8. CASE last = 0
  <2>1. SubSeq(sizes, 1, last) = <<>>
    BY <1>7, <1>8, EmptySeq
  <2>2. TrimToTokenBudget(sizes) = <<>>
    BY <2>1, <1>2
  <2>3. Tokens(<<>>) <= MaxTokens
    BY NoTokens, MemoryAssumption
  <2> QED
    BY ONLY <2>2, <2>3, <1>1
<1>9. CASE last # 0
  BY <1>1, <1>2, <1>6, <1>7, <1>9
<1> QED
  BY <1>8, <1>9

\* What a recall may leave in hits.
LEMMA RecalledWithinBudget ==
  ASSUME NEW a \in FtsHits, NEW b \in FactHits, NEW c \in VectorHits(Room(a + b)),
         NEW d \in FileHits(Room(a + b + c)),
         NEW sizes \in [1 .. (MaxItems - Room(a + b + c + d)) -> 1 .. (MaxTokens + 1)]
  PROVE  /\ TrimToTokenBudget(sizes) \in Seq(Nat)
         /\ Len(TrimToTokenBudget(sizes)) <= MaxItems
         /\ \/ Tokens(TrimToTokenBudget(sizes)) <= MaxTokens
            \/ Len(TrimToTokenBudget(sizes)) = 1
<1>0. MaxItems \in Nat /\ MaxTokens \in Nat
  BY MemoryAssumption
<1>1. \A n \in Nat : Room(n) \in 0 .. MaxItems
  BY <1>0 DEF Room
<1>2. \A n \in Nat : \A l : UpTo(n, l) \subseteq Nat
  BY DEF UpTo
<1>3. a \in Nat /\ b \in Nat
  BY <1>0, <1>2 DEF FtsHits, FactHits
<1>4. c \in Nat
  <2>1. Room(a + b) \in Nat
    <3>1. a + b \in Nat
      BY <1>3
    <3> QED
      BY ONLY <3>1, <1>0, <1>1
  <2> QED
    BY <2>1, <1>2 DEF VectorHits
<1>5. d \in Nat
  <2>1. Room(a + b + c) \in Nat
    <3>1. a + b + c \in Nat
      BY <1>3, <1>4
    <3> QED
      BY ONLY <3>1, <1>0, <1>1
  <2> QED
    BY <2>1, <1>2 DEF FileHits
<1>6. MaxItems - Room(a + b + c + d) \in 0 .. MaxItems
  <2>1. a + b + c + d \in Nat
    BY <1>3, <1>4, <1>5
  <2>2. Room(a + b + c + d) \in 0 .. MaxItems
    BY ONLY <2>1, <1>1
  <2> QED
    BY ONLY <2>2, <1>0
<1>7. sizes \in Seq(Nat) /\ Len(sizes) <= MaxItems
  <2> DEFINE n == MaxItems - Room(a + b + c + d)
  <2>1. n \in Nat /\ n <= MaxItems /\ sizes \in [1 .. n -> Nat]
    BY <1>0, <1>6
  <2> HIDE DEF n
  <2> QED
    BY <2>1, <1>0
<1> QED
  <2> DEFINE kept == TrimToTokenBudget(sizes)
  <2>1. /\ kept \in Seq(Nat) /\ Len(kept) <= Len(sizes)
        /\ Tokens(kept) <= MaxTokens \/ Len(kept) = 1
    BY <1>7, TrimKeepsBudget
  <2> HIDE DEF kept
  <2>2. Len(kept) \in Nat /\ Len(sizes) \in Nat
    BY <2>1, <1>7, LenProperties
  <2> QED
    BY <2>1, <2>2, <1>0, <1>7 DEF kept

-----------------------------------------------------------------------------
(* The inductive invariant *)

Working == {"work", "fts", "updateFact", "insertFact"}

\* Which step belongs to which goal, and when there are statements left.
Placed ==
  \A p \in Procs :
    /\ pc[p] \in {"exists", "header", "raw", "rename", "open", "schema",
                  "updateFact", "insertFact"} => goal[p] = "migrate"
    /\ pc[p] = "check" => goal[p] = "index"
    /\ pc[p] \in {"idle", "running", "recall", "log", "vector"} => goal[p] = "session"
    /\ pc[p] \notin Working => agenda[p] = <<>>
    /\ pc[p] = "fts" => agenda[p] # <<>> /\ Head(agenda[p]).op = "event"
    /\ pc[p] \in {"updateFact", "insertFact"} =>
         agenda[p] # <<>> /\ Head(agenda[p]).op = "fact"
    /\ goal[p] # "migrate" => stack[p] = <<>>

\* A build is noticed by every build that overlaps it.
OneBuilder ==
  mishap # Overlap => \A p, q \in Procs : Building(p) /\ Building(q) => p = q

\* Who is between two statements of an open connection has the database before it.
Connected ==
  \A p \in Procs :
    pc[p] \in {"fts", "updateFact", "insertFact"} /\ "inner" \notin moved[p] => db = "sqlite"

\* Someone is between the row and the index: the head of its list is a row.
HeadIsRow ==
  \A p \in Procs : pc[p] = "fts" /\ "inner" \notin moved[p] => Subject(p) \in rows

\* A store that was read is the text store, which was there then, or holds nothing.
StackHolds ==
  \A p \in Procs : \A k \in 1 .. Len(stack[p]) :
    stack[p][k] = <<Reopen>> \/ (hadOld /\ stack[p][k] = LegacyAgenda("text"))

TextWasThere == db = "text" => hadOld

\* What there is to do for each goal.
Kinds ==
  \A p \in Procs :
    /\ goal[p] = "session" => agenda[p] \in {<<>>, <<Event(<<news[p], p>>)>>}
    /\ goal[p] = "index" => Ops(agenda[p], {"event", "mark"})
    /\ goal[p] = "migrate" /\ ~hadOld => Ops(agenda[p], {"open"})

\* What a build may index: old sessions only if there was a text store.
Known == DiskLines \cup (IF hadOld THEN OldSessions ELSE {})

\* Builds index lines of files and old sessions; a session indexes what it has logged.
KnownEvents ==
  \A p \in Procs :
    /\ goal[p] # "session" => Within(agenda[p], Known)
    /\ pc[p] = "vector" \/ (goal[p] = "session" /\ pc[p] \in {"work", "fts"})
         => <<news[p], p>> \in log

\* A mark that can still be set comes after its lines.
MarksEarned ==
  \A p \in Procs :
    /\ goal[p] = "index" /\ "outer" \notin moved[p] => Covered(agenda[p], searchable)
    /\ goal[p] = "migrate" /\ mishap # Overlap => Covered(agenda[p], searchable)

\* What the file is for a process at its step.
FileOf(p) ==
  /\ pc[p] \in {"raw", "rename"} => db = "text"
  /\ pc[p] = "header" => db \in {"text", "sqlite"}
  /\ pc[p] \in {"open", "schema"} => db # "text"
  /\ goal[p] = "migrate" /\ pc[p] \in Working => db = "sqlite"
  /\ stack[p] # <<>> /\ pc[p] # "rename" => db # "text"

\* Where the text store is, at each step of the build that moves it away.
FilesAgree ==
  /\ mishap # Overlap => \A p \in Procs : pc[p] \in {"raw", "rename"} => db # "sqlite"
  /\ mishap < Torn =>
       /\ db = "empty" => \E p \in Procs : pc[p] = "schema"
       /\ hadOld => "text" \in {db, copy}
       /\ \A p \in Procs : FileOf(p)

\* What a session has logged, and how far it is.
LoggedOnce ==
  \A p \in Procs :
    /\ <<"completed", p>> \in log =>
         news[p] = "completed" /\ goal[p] = "session"
           /\ pc[p] \in {"work", "fts", "vector"} \cup Ended
    /\ <<"prompt", p>> \in log =>
         \/ news[p] = "completed"
         \/ goal[p] = "session" /\ pc[p] \in {"work", "fts", "vector", "running"} \cup Ended
    /\ pc[p] \in {"idle", "running", "recall"} => news[p] = "prompt"

Indexing(s) ==
  \E p \in Procs : goal[p] # "session" /\ \E j \in 1 .. Len(agenda[p]) : agenda[p][j] = Mark(s)

\* In builds that nothing disturbs, what a process has still to insert is not there
\* yet, and comes but once.
InsertsOnce(p) ==
  /\ Distinct(agenda[p])
  /\ goal[p] # "session" => Announced(agenda[p])
  /\ \A i \in 1 .. Len(agenda[p]) :
       agenda[p][i].op = "event" /\ (pc[p] = "fts" => i > 1) => agenda[p][i].of \notin rows
  /\ pc[p] = "insertFact" => Subject(p) \notin facts
  /\ stack[p] # <<>> =>
       Building(p) /\ agenda[p] = <<>> /\ Len(stack[p]) = 1 /\ rows \cap Carried = {}

\* The index has lines of a file without its mark only while the mark is to come.
NothingTwice ==
  /\ ~doubled
  /\ \A p \in Procs : InsertsOnce(p)
  /\ \A s \in Sources : s \in marked \/ Lines(s) \cap rows = {} \/ Indexing(s)

UndisturbedOnce == mishap = Clean => NothingTwice

\* All of it: each part is kept with the help of those before it.
IInv ==
  /\ TypeOK /\ Placed /\ OneBuilder /\ Connected /\ HeadIsRow /\ TextWasThere
  /\ StackHolds /\ Kinds /\ KnownEvents
  /\ SearchableIsStored /\ LogKnowsFirst /\ LoggedOnce
  /\ MarksEarned /\ MarkedIsIndexed /\ FilesAgree /\ UndisturbedOnce
  /\ RecallWithinBudget

FilesTyped ==
  /\ db \in {"absent", "empty", "text", "sqlite"}
  /\ copy \in {"none", "empty", "text", "sqlite"}
  /\ rows \subseteq Entries /\ searchable \subseteq Entries
  /\ facts \subseteq OldFacts /\ marked \subseteq Sources
  /\ db # "sqlite" => rows \cup searchable \cup facts \cup marked = {}
  /\ log \subseteq Entries /\ vectors \subseteq Entries
  /\ doubled \in BOOLEAN /\ hadOld \in BOOLEAN
  /\ mishap \in Clean .. Overlap

ControlTyped ==
  /\ goal \in [Procs -> {"migrate", "index", "session"}]
  /\ news \in [Procs -> {"prompt", "completed"}]
  /\ pc \in [Procs -> StatementPcs \cup Ended \cup {"idle", "vector", "running"}]
  /\ todo \in [Procs -> SUBSET Sources]
  /\ moved \in [Procs -> SUBSET {"outer", "inner"}]

ListsTyped ==
  /\ agenda \in [Procs -> Seq(Statements)]
  /\ stack \in [Procs -> Seq(Seq(Statements))]
  /\ hits \in [Procs -> Seq(Nat)]

LEMMA TypeParts == TypeOK <=> FilesTyped /\ ControlTyped /\ ListsTyped
BY DEF TypeOK, FilesTyped, ControlTyped, ListsTyped

Act(p) == Build(p) \/ Step(p) \/ Fail(p) \/ Die(p)

LEMMA ControlNext == ControlTyped /\ [Next]_vars => ControlTyped'
<1> SUFFICES ASSUME ControlTyped, [Next]_vars PROVE ControlTyped'
  OBVIOUS
<1> USE DEF ControlTyped, Goto, local, StatementPcs, Ended
<1>2. CASE UNCHANGED vars
  BY <1>2 DEF vars
<1>3. ASSUME NEW p \in Procs, Build(p) PROVE ControlTyped'
  BY <1>3 DEF Build
<1>4. ASSUME NEW p \in Procs, Exists(p) \/ Header(p) \/ ReadLegacy(p) \/ Rename(p) PROVE ControlTyped'
  BY <1>4 DEF Exists, Header, AfterHeader, ReadLegacy, Rename
<1>5. ASSUME NEW p \in Procs, Open(p) \/ Schema(p) \/ Finish(p) \/ Built(p) PROVE ControlTyped'
  BY <1>5 DEF Open, Schema, Finish, Built
<1>6. ASSUME NEW p \in Procs,
             InsertRow(p) \/ InsertSearchable(p) \/ SelectFact(p) \/ WriteFact(p) PROVE ControlTyped'
  BY <1>6 DEF InsertRow, InsertSearchable, SelectFact, WriteFact
<1>7. ASSUME NEW p \in Procs, OpenOuter(p) \/ MarkSource(p) \/ CheckSource(p) PROVE ControlTyped'
  BY <1>7 DEF OpenOuter, MarkSource, CheckSource
<1>8. ASSUME NEW p \in Procs, Recall(p) \/ AppendLog(p) \/ PutVector(p) PROVE ControlTyped'
  BY <1>8 DEF Recall, AppendLog, PutVector, AfterSession
<1>9. ASSUME NEW p \in Procs, Fail(p) \/ Die(p) PROVE ControlTyped'
  BY <1>9 DEF Fail, Die, AfterSession
<1> QED
  BY <1>2, <1>3, <1>4, <1>5, <1>6, <1>7, <1>8, <1>9 DEF Next, Step

\* What a process has still to do is done from the front, dropped, or taken from what
\* it has read, the files and its news.
LEMMA AgendaNext ==
  ASSUME NEW p \in Procs, Act(p)
  PROVE  \/ UNCHANGED <<agenda, stack>>
         \/ /\ UNCHANGED stack
            /\ InsertSearchable(p) \/ WriteFact(p) \/ OpenOuter(p) \/ MarkSource(p)
            /\ agenda[p] # <<>> \/ pc[p] \in {"fts", "updateFact", "insertFact"}
            /\ agenda' = [agenda EXCEPT ![p] = Tail(@)]
         \/ UNCHANGED agenda /\ ReadLegacy(p) /\ stack' = [stack EXCEPT ![p] = <<LegacyAgenda(db)>> \o @]
         \/ /\ Schema(p) /\ stack[p] # <<>>
            /\ agenda' = [agenda EXCEPT ![p] = Head(stack[p])]
            /\ stack' = [stack EXCEPT ![p] = Tail(@)]
         \/ /\ CheckSource(p) /\ UNCHANGED stack
            /\ \E s \in todo[p] : agenda' = [agenda EXCEPT ![p] = IndexAgenda(s)]
         \/ /\ AppendLog(p) /\ UNCHANGED stack
            /\ agenda' = [agenda EXCEPT ![p] = <<Event(<<news[p], p>>)>>]
         \/ /\ Fail(p) \/ Die(p)
            /\ agenda' = [agenda EXCEPT ![p] = <<>>]
            /\ stack' = [stack EXCEPT ![p] = <<>>]
<1>3. CASE Build(p) \/ Exists(p) \/ Header(p) \/ Rename(p) \/ Open(p) \/ Finish(p) \/ Built(p)
  BY <1>3 DEF Build, Exists, Header, Rename, Open, Finish, Built, local
<1>4. CASE ReadLegacy(p)
  BY <1>4 DEF ReadLegacy
<1>5. CASE Schema(p)
  BY <1>5 DEF Schema
<1>6. CASE InsertRow(p) \/ InsertSearchable(p) \/ SelectFact(p) \/ WriteFact(p)
  BY <1>6 DEF InsertRow, InsertSearchable, SelectFact, WriteFact, Advance, local
<1>7. CASE OpenOuter(p) \/ MarkSource(p)
  BY <1>7 DEF OpenOuter, MarkSource, Advance, Ahead
<1>8. CASE CheckSource(p)
  BY <1>8 DEF CheckSource
<1>9. CASE Recall(p) \/ AppendLog(p) \/ PutVector(p)
  BY <1>9 DEF Recall, AppendLog, PutVector, local
<1>10. CASE Fail(p) \/ Die(p)
  BY <1>10 DEF Fail, Die
<1> QED
  BY <1>3, <1>4, <1>5, <1>6, <1>7, <1>8, <1>9, <1>10 DEF Act, Step

\* What a recall leaves is gone when its process has logged, failed or died.
LEMMA HitsNext ==
  ASSUME NEW p \in Procs, Act(p)
  PROVE  \/ UNCHANGED hits
         \/ hits' = [hits EXCEPT ![p] = <<>>]
         \/ \E kept \in Seq(Nat) : /\ hits' = [hits EXCEPT ![p] = kept]
                                   /\ Len(kept) <= MaxItems
                                   /\ Tokens(kept) <= MaxTokens \/ Len(kept) = 1
<1>1. CASE Recall(p)
  <2>1. PICK a \in FtsHits, b \in FactHits : \E c \in VectorHits(Room(a + b)) :
          \E d \in FileHits(Room(a + b + c)) :
            \E sizes \in [1 .. (MaxItems - Room(a + b + c + d)) -> 1 .. (MaxTokens + 1)] :
              hits' = [hits EXCEPT ![p] = TrimToTokenBudget(sizes)]
    BY <1>1 DEF Recall
  <2>2. PICK c \in VectorHits(Room(a + b)) : \E d \in FileHits(Room(a + b + c)) :
          \E sizes \in [1 .. (MaxItems - Room(a + b + c + d)) -> 1 .. (MaxTokens + 1)] :
            hits' = [hits EXCEPT ![p] = TrimToTokenBudget(sizes)]
    BY <2>1
  <2>3. PICK d \in FileHits(Room(a + b + c)) :
          \E sizes \in [1 .. (MaxItems - Room(a + b + c + d)) -> 1 .. (MaxTokens + 1)] :
            hits' = [hits EXCEPT ![p] = TrimToTokenBudget(sizes)]
    BY <2>2
  <2>4. PICK sizes \in [1 .. (MaxItems - Room(a + b + c + d)) -> 1 .. (MaxTokens + 1)] :
          hits' = [hits EXCEPT ![p] = TrimToTokenBudget(sizes)]
    BY <2>3
  <2> DEFINE kept == TrimToTokenBudget(sizes)
  <2>5. /\ kept \in Seq(Nat)
        /\ Len(kept) <= MaxItems
        /\ Tokens(kept) <= MaxTokens \/ Len(kept) = 1
    BY RecalledWithinBudget
  <2> HIDE DEF kept
  <2> QED
    BY <2>4, <2>5 DEF kept
<1>2. CASE ~Recall(p)
  BY <1>2 DEF Act, Step, Build, Exists, Header, ReadLegacy, Rename, Open, Schema, InsertRow,
    InsertSearchable, SelectFact, WriteFact, OpenOuter, MarkSource, Finish, CheckSource, Built,
    AppendLog, PutVector, Fail, Die
<1> QED
  BY <1>1, <1>2

LEMMA ListsNext ==
  TypeOK /\ Placed /\ [Next]_vars => ListsTyped'
<1> SUFFICES ASSUME TypeOK, Placed, [Next]_vars PROVE ListsTyped'
  OBVIOUS
<1>1. CASE UNCHANGED vars
  BY <1>1, TypeParts DEF vars, ListsTyped
<1>2. ASSUME NEW p \in Procs, Act(p) PROVE ListsTyped'
  <2>1. hits' \in [Procs -> Seq(Nat)]
    <3>1. hits \in [Procs -> Seq(Nat)] /\ <<>> \in Seq(Nat)
      BY DEF TypeOK
    <3> QED
      BY <3>1, <1>2, HitsNext
  <2>2. /\ agenda \in [Procs -> Seq(Statements)] /\ stack \in [Procs -> Seq(Seq(Statements))]
        /\ todo[p] \subseteq Sources /\ news[p] \in {"prompt", "completed"}
    BY DEF TypeOK
  <2>3. agenda[p] \in Seq(Statements) /\ stack[p] \in Seq(Seq(Statements))
    BY <2>2
  <2>4. agenda[p] # <<>> => Tail(agenda[p]) \in Seq(Statements)
    BY ONLY <2>3, HeadAndTail
  <2>5. stack[p] # <<>> => Tail(stack[p]) \in Seq(Seq(Statements)) /\ Head(stack[p]) \in Seq(Statements)
    BY ONLY <2>3, HeadAndTail
  <2>6. pc[p] \in {"fts", "updateFact", "insertFact"} => agenda[p] # <<>>
    BY DEF Placed
  <2>7. LegacyAgenda(db) \in Seq(Statements)
    BY LegacyOrderly, ReopenOnly, OtherStores
  <2>8. <<LegacyAgenda(db)>> \o stack[p] \in Seq(Seq(Statements))
    BY <2>3, <2>7
  <2>9. <<news[p], p>> \in Entries
    BY <2>2 DEF Entries
  <2>10. <<Event(<<news[p], p>>)>> \in Seq(Statements)
    <3>1. Event(<<news[p], p>>) \in Statements
      BY <2>9, StatementKinds
    <3> QED
      BY <3>1
  <2>11. \A s \in todo[p] : IndexAgenda(s) \in Seq(Statements)
    BY <2>2, IndexAgendaShape
  <2>12. <<>> \in Seq(Statements) /\ <<>> \in Seq(Seq(Statements))
    OBVIOUS
  <2>13. agenda' \in [Procs -> Seq(Statements)] /\ stack' \in [Procs -> Seq(Seq(Statements))]
    <3> HIDE DEF Act
    <3>1. CASE UNCHANGED <<agenda, stack>>
      BY <3>1, <2>2
    <3>2. CASE agenda[p] # <<>> /\ UNCHANGED stack /\ agenda' = [agenda EXCEPT ![p] = Tail(@)]
      BY <3>2, <2>2, <2>4
    <3>3. CASE UNCHANGED agenda /\ stack' = [stack EXCEPT ![p] = <<LegacyAgenda(db)>> \o @]
      BY <3>3, <2>2, <2>8
    <3>4. CASE /\ stack[p] # <<>>
               /\ agenda' = [agenda EXCEPT ![p] = Head(stack[p])]
               /\ stack' = [stack EXCEPT ![p] = Tail(@)]
      BY <3>4, <2>2, <2>5
    <3>5. CASE UNCHANGED stack /\ \E s \in todo[p] : agenda' = [agenda EXCEPT ![p] = IndexAgenda(s)]
      BY <3>5, <2>2, <2>11
    <3>6. CASE UNCHANGED stack /\ agenda' = [agenda EXCEPT ![p] = <<Event(<<news[p], p>>)>>]
      BY <3>6, <2>2, <2>10
    <3>7. CASE /\ agenda' = [agenda EXCEPT ![p] = <<>>]
               /\ stack' = [stack EXCEPT ![p] = <<>>]
      BY <3>7, <2>2, <2>12
    <3> QED
      BY <1>2, <2>6, <3>1, <3>2, <3>3, <3>4, <3>5, <3>6, <3>7, AgendaNext
  <2> QED
    BY <2>1, <2>13 DEF ListsTyped
<1> QED
  BY <1>1, <1>2 DEF Next, Act

\* What the statements are about, as the prover needs it.
LEMMA Subjects ==
  ASSUME TypeOK, NEW p \in Procs, agenda[p] # <<>>
  PROVE  /\ Head(agenda[p]) \in Statements
         /\ Head(agenda[p]).op = "event" => Subject(p) \in Entries /\ Head(agenda[p]) = Event(Subject(p))
         /\ Head(agenda[p]).op = "fact" => Subject(p) \in OldFacts
         /\ Head(agenda[p]).op = "mark" =>
              Subject(p) \in Sources /\ Head(agenda[p]) = Mark(Subject(p))
         /\ Head(agenda[p]).op = "open" => Head(agenda[p]) = Reopen
<1>1. agenda[p] \in Seq(Statements)
  BY DEF TypeOK
<1>2. Head(agenda[p]) \in Statements
  BY <1>1, HeadAndTail
<1> QED
  BY <1>2, StatementKinds DEF Subject

LEMMA FilesNext ==
  TypeOK /\ Placed /\ Connected /\ [Next]_vars => FilesTyped'
<1> SUFFICES ASSUME TypeOK, Placed, Connected, [Next]_vars PROVE FilesTyped'
  OBVIOUS
<1>0. FilesTyped /\ ControlTyped
  BY TypeParts
<1> USE DEF FilesTyped, Goto, files, tables, outside, local, Clean, Trouble, Torn, Overlap, Note
<1>1. CASE UNCHANGED vars
  BY <1>0, <1>1 DEF vars
<1>3. ASSUME NEW p \in Procs,
             \/ Build(p) \/ Exists(p) \/ Header(p) \/ ReadLegacy(p) \/ Finish(p) \/ CheckSource(p)
             \/ Built(p) \/ Recall(p)
      PROVE FilesTyped'
  BY <1>0, <1>3 DEF Build, Exists, Header, ReadLegacy, Finish, CheckSource, Opened, Built, Recall
<1>4. ASSUME NEW p \in Procs, Rename(p) \/ Open(p) \/ Schema(p) PROVE FilesTyped'
  BY <1>0, <1>4 DEF Rename, Copied, Open, Schema, Opened
<1>5. ASSUME NEW p \in Procs, InsertRow(p) \/ InsertSearchable(p) PROVE FilesTyped'
  <2>1. agenda[p] # <<>> /\ Head(agenda[p]).op = "event" /\ db = "sqlite"
    BY <1>5 DEF InsertRow, InsertSearchable, Ahead, Placed, Connected
  <2>2. Subject(p) \in Entries
    BY <2>1, Subjects
  <2> QED
    BY <1>0, <1>5, <2>1, <2>2 DEF InsertRow, InsertSearchable, RowsWith
<1>6. ASSUME NEW p \in Procs, SelectFact(p) PROVE FilesTyped'
  BY <1>0, <1>6 DEF SelectFact
<1>7. ASSUME NEW p \in Procs, WriteFact(p) PROVE FilesTyped'
  <2>1. agenda[p] # <<>> /\ Head(agenda[p]).op = "fact" /\ db = "sqlite"
    BY <1>7 DEF WriteFact, Placed, Connected
  <2>2. Subject(p) \in OldFacts
    BY <2>1, Subjects
  <2> QED
    BY <1>0, <1>7, <2>1, <2>2 DEF WriteFact
<1>8. ASSUME NEW p \in Procs, MarkSource(p) PROVE FilesTyped'
  <2>1. Subject(p) \in Sources /\ db = "sqlite"
    BY <1>8, Subjects DEF MarkSource, Ahead
  <2> QED
    BY <1>0, <1>8, <2>1 DEF MarkSource
<1>9. ASSUME NEW p \in Procs, OpenOuter(p) PROVE FilesTyped'
  BY <1>0, <1>9 DEF OpenOuter, Opened
<1>10. ASSUME NEW p \in Procs, AppendLog(p) \/ PutVector(p) PROVE FilesTyped'
  <2>1. <<news[p], p>> \in Entries
    BY <1>0 DEF ControlTyped, Entries
  <2> QED
    BY <1>0, <1>10, <2>1 DEF AppendLog, PutVector, LogWith
<1>11. ASSUME NEW p \in Procs, Fail(p) \/ Die(p) PROVE FilesTyped'
  BY <1>0, <1>11 DEF Fail, Die, Interrupted, Opened
<1> QED
  BY <1>1, <1>3, <1>4, <1>5, <1>6, <1>7, <1>8, <1>9, <1>10, <1>11 DEF Next, Step

LEMMA TypeNext == TypeOK /\ Placed /\ Connected /\ [Next]_vars => TypeOK'
<1> SUFFICES ASSUME TypeOK, Placed, Connected, [Next]_vars PROVE TypeOK'
  OBVIOUS
<1>1. FilesTyped' /\ ControlTyped' /\ ListsTyped'
  BY FilesNext, ControlNext, ListsNext, TypeParts
<1> QED
  BY <1>1 DEF TypeOK, FilesTyped, ControlTyped, ListsTyped

-----------------------------------------------------------------------------
(* The invariant is kept *)

\* A step of one process leaves the others where they are; a rename moves the file
\* under their connections.
LEMMA OthersKeep ==
  ASSUME TypeOK, NEW p \in Procs, Act(p), NEW q \in Procs, q # p
  PROVE  /\ pc'[q] = pc[q] /\ goal'[q] = goal[q] /\ news'[q] = news[q] /\ todo'[q] = todo[q]
         /\ agenda'[q] = agenda[q] /\ stack'[q] = stack[q] /\ hits'[q] = hits[q]
         /\ moved'[q] = moved[q] \/ (Rename(p) /\ moved'[q] = {"outer", "inner"})
<1>1. agenda'[q] = agenda[q] /\ stack'[q] = stack[q]
  BY AgendaNext DEF TypeOK
<1>2. hits'[q] = hits[q]
  BY HitsNext DEF TypeOK
<1>3. goal'[q] = goal[q] /\ news'[q] = news[q] /\ todo'[q] = todo[q]
  BY DEF TypeOK, Act, Step, Build, Exists, Header, ReadLegacy, Rename, Open, Schema, InsertRow,
    InsertSearchable, SelectFact, WriteFact, OpenOuter, MarkSource, Finish, CheckSource, Built,
    Recall, AppendLog, PutVector, Fail, Die, local
<1>4. pc'[q] = pc[q]
  BY DEF TypeOK, Act, Step, Build, Exists, Header, ReadLegacy, Rename, Open, Schema, InsertRow,
    InsertSearchable, SelectFact, WriteFact, OpenOuter, MarkSource, Finish, CheckSource, Built,
    Recall, AppendLog, PutVector, Fail, Die, Goto
<1>5. moved'[q] = moved[q] \/ (Rename(p) /\ moved'[q] = {"outer", "inner"})
  BY DEF TypeOK, Act, Step, Build, Exists, Header, ReadLegacy, Rename, Open, Schema, InsertRow,
    InsertSearchable, SelectFact, WriteFact, OpenOuter, MarkSource, Finish, CheckSource, Built,
    Recall, AppendLog, PutVector, Fail, Die
<1> QED
  BY <1>1, <1>2, <1>3, <1>4, <1>5

\* A build that was disturbed stays disturbed.
LEMMA MishapGrows ==
  ASSUME TypeOK, NEW p \in Procs, Act(p)
  PROVE  /\ mishap \in Clean .. Overlap /\ mishap' \in Clean .. Overlap /\ mishap <= mishap'
         /\ Building(p) /\ (Fail(p) \/ Die(p)) => mishap' # Clean
         /\ (Fail(p) \/ Die(p)) /\ db' = "empty" => mishap' >= Torn
         /\ CheckSource(p) /\ db' # db => mishap' >= Torn
         /\ Build(p) /\ mishap' # Overlap => \A q \in Procs \ {p} : ~Building(q)
<1>0. mishap \in 0 .. 3
  BY DEF TypeOK, Clean, Overlap
<1>1. \A what \in 0 .. 3 : Note(what) => mishap' \in 0 .. 3 /\ mishap <= mishap' /\ what <= mishap'
  BY <1>0 DEF Note
<1>2. \E what \in 0 .. 3 : Note(what) \/ UNCHANGED mishap
  BY DEF Act, Step, Build, Exists, Header, ReadLegacy, Rename, Open, Schema, InsertRow,
    InsertSearchable, SelectFact, WriteFact, OpenOuter, MarkSource, Finish, CheckSource, Built,
    Recall, AppendLog, PutVector, Fail, Die, Interrupted, Clean, Trouble, Torn, Overlap
<1>3. mishap' \in 0 .. 3 /\ mishap <= mishap'
  BY <1>0, <1>1, <1>2
<1>4. ASSUME Fail(p) \/ Die(p)
      PROVE  /\ Building(p) => mishap' # Clean
             /\ db' = "empty" => mishap' >= Torn
  <2>1. Interrupted(p)
    BY <1>4 DEF Fail, Die
  <2>2. CASE db' = "empty"
    BY <2>1, <2>2, <1>1, <1>3 DEF Interrupted, Torn, Clean
  <2>3. CASE db' # "empty" /\ Building(p)
    BY <2>1, <2>3, <1>1, <1>3 DEF Interrupted, Trouble, Clean
  <2> QED
    BY <2>2, <2>3
<1>5. ASSUME Build(p), NEW q \in Procs \ {p}, Building(q) PROVE mishap' = Overlap
  <2>1. Note(Overlap)
    BY <1>5 DEF Build
  <2> QED
    BY <2>1, <1>1, <1>3 DEF Overlap
<1>6. ASSUME CheckSource(p), db' # db PROVE mishap' >= Torn
  <2>1. db' = "empty" /\ \E s \in todo[p] : Note(IF db' = "empty" THEN Torn
                                               ELSE IF s \in marked THEN Trouble ELSE Clean)
    BY <1>6 DEF CheckSource, Opened
  <2>2. Note(Torn)
    BY <2>1
  <2> QED
    BY <2>2, <1>1, <1>3 DEF Torn
<1> QED
  BY <1>0, <1>3, <1>4, <1>5, <1>6 DEF Clean, Overlap

\* Facts are looked up for a migration only.
LEMMA FactsAreCarried ==
  ASSUME TypeOK, Kinds, NEW p \in Procs, SelectFact(p)
  PROVE  goal[p] = "migrate"
<1>0. goal \in [Procs -> {"migrate", "index", "session"}] /\ agenda \in [Procs -> Seq(Statements)]
  BY DEF TypeOK
<1>1. Head(agenda[p]).op = "fact" /\ agenda[p] # <<>>
  BY DEF SelectFact, Ahead
<1>2. CASE goal[p] = "index"
  <2>1. 1 \in 1 .. Len(agenda[p]) /\ Head(agenda[p]) = agenda[p][1]
    BY <1>1, <1>0, HeadAndTail
  <2> QED
    BY <1>1, <1>2, <2>1 DEF Kinds, Ops
<1>3. CASE goal[p] = "session"
  <2> DEFINE e == Event(<<news[p], p>>)
  <2>1. agenda[p] = <<e>>
    BY <1>1, <1>3 DEF Kinds
  <2>2. e.op = "event"
    BY StatementParts
  <2> HIDE DEF e
  <2>3. Head(<<e>>) = e
    OBVIOUS
  <2> QED
    BY <1>1, <2>1, <2>2, <2>3
<1>4. goal[p] \in {"migrate", "index", "session"}
  BY <1>0
<1> QED
  BY ONLY <1>2, <1>3, <1>4

LEMMA PlacedNext == TypeOK /\ Placed /\ Kinds /\ [Next]_vars => Placed'
<1> SUFFICES ASSUME TypeOK, Placed, Kinds, [Next]_vars PROVE Placed'
  OBVIOUS
<1>1. CASE UNCHANGED vars
  BY <1>1 DEF vars, Placed
<1>2. ASSUME NEW p \in Procs, Act(p) PROVE Placed'
  <2> DEFINE At(q) ==
        /\ pc[q] \in {"exists", "header", "raw", "rename", "open", "schema",
                      "updateFact", "insertFact"} => goal[q] = "migrate"
        /\ pc[q] = "check" => goal[q] = "index"
        /\ pc[q] \in {"idle", "running", "recall", "log", "vector"} => goal[q] = "session"
        /\ pc[q] \notin Working => agenda[q] = <<>>
        /\ pc[q] = "fts" => agenda[q] # <<>> /\ Head(agenda[q]).op = "event"
        /\ pc[q] \in {"updateFact", "insertFact"} =>
             agenda[q] # <<>> /\ Head(agenda[q]).op = "fact"
        /\ goal[q] # "migrate" => stack[q] = <<>>
  <2>1. \A q \in Procs : At(q)
    BY DEF Placed
  <2>2. ASSUME NEW q \in Procs, q # p PROVE At(q)'
    BY <2>1, <2>2, <1>2, OthersKeep
  <2>3. At(p)'
    <3>0. /\ pc \in [Procs -> StatementPcs \cup Ended \cup {"idle", "vector", "running"}]
          /\ goal \in [Procs -> {"migrate", "index", "session"}]
          /\ agenda \in [Procs -> Seq(Statements)]
          /\ stack \in [Procs -> Seq(Seq(Statements))]
      BY DEF TypeOK
    <3>00. At(p)
      BY <2>1
    <3> USE DEF Goto, Working, StatementPcs, Ended, local
    <3>1. CASE Build(p) \/ Exists(p) \/ Header(p) \/ ReadLegacy(p) \/ Rename(p) \/ Open(p)
      BY <3>0, <3>00, <3>1 DEF Build, Exists, Header, AfterHeader, ReadLegacy, Rename, Open
    <3>2. CASE Schema(p)
      BY <3>0, <3>00, <3>2 DEF Schema
    <3>3. CASE InsertRow(p) \/ InsertSearchable(p)
      BY <3>0, <3>00, <3>3 DEF InsertRow, InsertSearchable, Ahead
    <3>4. CASE SelectFact(p)
      <4>1. goal[p] = "migrate"
        BY <3>4, FactsAreCarried
      <4> QED
        BY <3>0, <3>00, <3>4, <4>1 DEF SelectFact, Ahead
    <3>5. CASE WriteFact(p) \/ OpenOuter(p) \/ MarkSource(p)
      BY <3>0, <3>00, <3>5 DEF WriteFact, OpenOuter, MarkSource, Ahead
    <3>6. CASE Finish(p) \/ CheckSource(p) \/ Built(p)
      BY <3>0, <3>00, <3>6 DEF Finish, CheckSource, Built
    <3>7. CASE Recall(p) \/ AppendLog(p) \/ PutVector(p)
      BY <3>0, <3>00, <3>7 DEF Recall, AppendLog, PutVector, AfterSession
    <3>8. CASE Fail(p) \/ Die(p)
      BY <3>0, <3>00, <3>8 DEF Fail, Die, AfterSession
    <3> QED
      BY <1>2, <3>1, <3>2, <3>3, <3>4, <3>5, <3>6, <3>7, <3>8 DEF Act, Step
  <2> HIDE DEF At
  <2>4. \A q \in Procs : At(q)'
    BY <2>2, <2>3
  <2> QED
    BY <2>4 DEF At, Placed
<1> QED
  BY <1>1, <1>2 DEF Next, Act

LEMMA OneBuilderNext == TypeOK /\ Placed /\ OneBuilder /\ [Next]_vars => OneBuilder'
<1> SUFFICES ASSUME TypeOK, Placed, OneBuilder, [Next]_vars PROVE OneBuilder'
  OBVIOUS
<1>1. CASE UNCHANGED vars
  BY <1>1 DEF vars, OneBuilder, Building
<1>2. ASSUME NEW r \in Procs, Act(r) PROVE OneBuilder'
  <2> SUFFICES ASSUME mishap' # Overlap, NEW p \in Procs, NEW q \in Procs,
                      Building(p)', Building(q)', p # q
               PROVE  FALSE
    BY DEF OneBuilder
  <2>1. \A x \in Procs : x # r => (Building(x)' <=> Building(x))
    BY <1>2, OthersKeep DEF Building
  <2>2. mishap # Overlap
    BY <1>2, MishapGrows DEF Overlap, Clean
  <2>3. CASE Build(r)
    BY <1>2, <2>1, <2>3, MishapGrows
  <2>4. CASE ~Build(r)
    <3>1. Building(r)' => Building(r)
      BY <1>2, <2>4 DEF TypeOK, Placed, Building, Act, Step, Exists, Header, ReadLegacy, Rename,
        Open, Schema, InsertRow, InsertSearchable, SelectFact, WriteFact, OpenOuter, MarkSource,
        Finish, CheckSource, Built, Recall, AppendLog, PutVector, Fail, Die, AfterSession,
        AfterHeader, Goto, Ended, local, Ahead
    <3> QED
      BY <2>1, <2>2, <3>1 DEF OneBuilder
  <2> QED
    BY <2>3, <2>4
<1> QED
  BY <1>1, <1>2 DEF Next, Act

LEMMA ConnectedNext == TypeOK /\ Connected /\ [Next]_vars => Connected'
<1> SUFFICES ASSUME TypeOK, Connected, [Next]_vars PROVE Connected'
  OBVIOUS
<1>1. CASE UNCHANGED vars
  BY <1>1 DEF vars, Connected
<1>2. ASSUME NEW p \in Procs, Act(p) PROVE Connected'
  <2>1. CASE Rename(p)
    BY <2>1 DEF Rename, Connected, TypeOK, Goto
  <2>2. CASE ~Rename(p)
    <3>1. db = "sqlite" => db' = "sqlite"
      BY <1>2, <2>2 DEF Act, Step, Build, Exists, Header, ReadLegacy, Open, Schema,
        InsertRow, InsertSearchable, SelectFact, WriteFact, OpenOuter, MarkSource, Finish,
        CheckSource, Built, Recall, AppendLog, PutVector, Fail, Die, Opened, files
    <3>2. ASSUME NEW q \in Procs \ {p}
          PROVE  pc'[q] \in {"fts", "updateFact", "insertFact"} /\ "inner" \notin moved'[q]
                   => db' = "sqlite"
      BY <1>2, <2>2, <3>1, OthersKeep DEF Connected
    <3>3. pc'[p] \in {"fts", "updateFact", "insertFact"} => db' = "sqlite"
      BY <1>2, <2>2 DEF TypeOK, Act, Step, Build, Exists, Header, ReadLegacy, Open, Schema,
        InsertRow, InsertSearchable, SelectFact, WriteFact, OpenOuter, MarkSource, Finish,
        CheckSource, Built, Recall, AppendLog, PutVector, Fail, Die, Goto, Ahead, files,
        AfterSession, AfterHeader
    <3> QED
      BY <3>2, <3>3 DEF Connected
  <2> QED
    BY <2>1, <2>2
<1> QED
  BY <1>1, <1>2 DEF Next, Act

LEMMA TextNext == TypeOK /\ TextWasThere /\ [Next]_vars => TextWasThere'
<1> SUFFICES ASSUME TypeOK, TextWasThere, [Next]_vars PROVE TextWasThere'
  OBVIOUS
<1>1. CASE UNCHANGED vars
  BY <1>1 DEF vars, TextWasThere
<1>2. ASSUME NEW p \in Procs, Act(p) PROVE TextWasThere'
  BY <1>2 DEF TextWasThere, Act, Step, Build, Exists, Header, ReadLegacy, Rename, Open,
    Schema, InsertRow, InsertSearchable, SelectFact, WriteFact, OpenOuter, MarkSource, Finish,
    CheckSource, Built, Recall, AppendLog, PutVector, Fail, Die, Opened, files
<1> QED
  BY <1>1, <1>2 DEF Next, Act

LEMMA HadOldStays == [Next]_vars => hadOld' = hadOld
BY DEF Next, vars, Act, Step, Build, Exists, Header, ReadLegacy, Rename, Open,
  Schema, InsertRow, InsertSearchable, SelectFact, WriteFact, OpenOuter, MarkSource, Finish,
  CheckSource, Built, Recall, AppendLog, PutVector, Fail, Die, files

LEMMA StackNext == TypeOK /\ TextWasThere /\ StackHolds /\ [Next]_vars => StackHolds'
<1> SUFFICES ASSUME TypeOK, TextWasThere, StackHolds, [Next]_vars PROVE StackHolds'
  OBVIOUS
<1>0. hadOld' = hadOld
  BY HadOldStays
<1> DEFINE Held(q) == \A k \in 1 .. Len(q) :
             q[k] = <<Reopen>> \/ (hadOld /\ q[k] = LegacyAgenda("text"))
<1>1. CASE UNCHANGED vars
  BY <1>1 DEF vars, StackHolds
<1>2. ASSUME NEW p \in Procs, Act(p) PROVE StackHolds'
  <2>0. stack[p] \in Seq(Seq(Statements)) /\ Held(stack[p])
    BY DEF TypeOK, StackHolds
  <2>1. \A q \in Procs \ {p} : Held(stack'[q])
    BY <1>2, OthersKeep DEF StackHolds
  <2>2. Held(stack'[p])
    <3>1. CASE UNCHANGED stack
      BY <2>0, <3>1
    <3>2. CASE stack[p] # <<>> /\ stack' = [stack EXCEPT ![p] = Tail(@)]
      <4>1. /\ Len(stack[p]) \in Nat /\ Len(Tail(stack[p])) = Len(stack[p]) - 1
            /\ \A i \in 1 .. Len(stack[p]) - 1 : Tail(stack[p])[i] = stack[p][i + 1]
        BY ONLY <2>0, <3>2, HeadAndTail
      <4>2. stack'[p] = Tail(stack[p])
        BY <3>2 DEF TypeOK
      <4>3. \A i \in 1 .. Len(stack[p]) - 1 : i + 1 \in 1 .. Len(stack[p])
        BY <4>1
      <4> QED
        BY <2>0, <4>1, <4>2, <4>3
    <3>3. CASE ReadLegacy(p) /\ stack' = [stack EXCEPT ![p] = <<LegacyAgenda(db)>> \o @]
      <4> DEFINE one == <<LegacyAgenda(db)>>
                 new == one \o stack[p]
      <4>1. one[1] = <<Reopen>> \/ (hadOld /\ one[1] = LegacyAgenda("text"))
        BY OtherStores DEF TextWasThere
      <4>2. one \in Seq(Seq(Statements)) /\ Len(one) = 1
        <5>1. LegacyAgenda(db) \in Seq(Statements)
          BY LegacyOrderly, ReopenOnly, OtherStores
        <5> QED
          BY <5>1
      <4>3. stack'[p] = new
        BY <3>3 DEF TypeOK
      <4> HIDE DEF one
      <4>4. /\ Len(new) = 1 + Len(stack[p]) /\ Len(stack[p]) \in Nat
            /\ \A i \in 1 .. Len(new) : new[i] = IF i <= 1 THEN one[i] ELSE stack[p][i - 1]
        <5>1. stack[p] \in Seq(Seq(Statements)) /\ one \in Seq(Seq(Statements))
          BY <2>0, <4>2
        <5>2. /\ Len(one \o stack[p]) = Len(one) + Len(stack[p]) /\ Len(stack[p]) \in Nat
              /\ \A i \in 1 .. Len(one) + Len(stack[p]) :
                   (one \o stack[p])[i] = IF i <= Len(one) THEN one[i] ELSE stack[p][i - Len(one)]
          BY ONLY <5>1, ConcatProperties, LenProperties
        <5> QED
          BY <5>2, <4>2
      <4> HIDE DEF new
      <4>5. ASSUME NEW i \in 1 .. Len(new)
            PROVE  new[i] = <<Reopen>> \/ (hadOld /\ new[i] = LegacyAgenda("text"))
        <5>1. CASE i = 1
          BY <5>1, <4>1, <4>4
        <5>2. CASE i # 1
          <6>1. i - 1 \in 1 .. Len(stack[p]) /\ new[i] = stack[p][i - 1]
            BY <5>2, <4>4
          <6> QED
            BY <6>1, <2>0
        <5> QED
          BY <5>1, <5>2
      <4> QED
        BY <4>3, <4>5
    <3>4. CASE stack' = [stack EXCEPT ![p] = <<>>]
      BY <3>4 DEF TypeOK
    <3> HIDE DEF Held
    <3> QED
      BY <1>2, <3>1, <3>2, <3>3, <3>4, AgendaNext
  <2> QED
    BY <1>0, <2>1, <2>2 DEF StackHolds
<1> QED
  BY <1>1, <1>2 DEF Next, Act

\* A process changes its goal only between two lists of statements.
LEMMA GoalNext ==
  ASSUME TypeOK, Placed, NEW p \in Procs, Act(p)
  PROVE  UNCHANGED <<goal, news>> \/ (agenda[p] = <<>> /\ UNCHANGED agenda)
<1>1. CASE Build(p) \/ Built(p)
  BY <1>1 DEF Build, Built, Placed, Working
<1>2. CASE Schema(p)
  BY <1>2 DEF Schema, Placed, Working
<1>3. CASE ~Build(p) /\ ~Built(p) /\ ~Schema(p)
  BY <1>3 DEF Act, Step, Exists, Header, ReadLegacy, Rename, Open, InsertRow,
    InsertSearchable, SelectFact, WriteFact, OpenOuter, MarkSource, Finish, CheckSource,
    Recall, AppendLog, PutVector, Fail, Die, local
<1> QED
  BY <1>1, <1>2, <1>3

\* What a step does to the list of its own process.
LEMMA OwnAgenda ==
  ASSUME TypeOK, Placed, NEW p \in Procs, Act(p)
  PROVE  \/ agenda'[p] = <<>> /\ (agenda[p] = <<>> \/ Fail(p) \/ Die(p))
         \/ agenda'[p] = agenda[p] /\ goal' = goal /\ news' = news
         \/ /\ InsertSearchable(p) \/ WriteFact(p) \/ OpenOuter(p) \/ MarkSource(p)
            /\ agenda[p] # <<>> /\ agenda'[p] = Tail(agenda[p]) /\ goal' = goal /\ news' = news
         \/ /\ Schema(p) /\ goal[p] = "migrate" /\ goal' = goal /\ stack[p] # <<>>
            /\ agenda'[p] = Head(stack[p])
         \/ /\ CheckSource(p) /\ goal[p] = "index" /\ goal' = goal
            /\ \E s \in todo[p] : agenda'[p] = IndexAgenda(s)
         \/ /\ AppendLog(p) /\ goal[p] = "session" /\ goal' = goal /\ news' = news
            /\ agenda'[p] = <<Event(<<news[p], p>>)>>
<1>1. \A q : agenda' = [agenda EXCEPT ![p] = q] => agenda'[p] = q
  BY DEF TypeOK
<1>2. pc[p] \in {"fts", "updateFact", "insertFact"} => agenda[p] # <<>>
  BY DEF Placed
<1>3. CASE agenda' # agenda
  <2>1. goal' = goal /\ news' = news
    BY <1>3, GoalNext
  <2>2. /\ Schema(p) => goal[p] = "migrate"
        /\ CheckSource(p) => goal[p] = "index"
        /\ AppendLog(p) => goal[p] = "session"
    BY DEF Schema, CheckSource, AppendLog, Placed
  <2> HIDE DEF Act
  <2> QED
    BY <1>1, <1>2, <1>3, <2>1, <2>2, AgendaNext
<1>4. CASE agenda' = agenda
  BY <1>4, GoalNext
<1> QED
  BY <1>3, <1>4

\* The store that is carried over first is one that was read.
LEMMA TopOfStack ==
  ASSUME TypeOK, StackHolds, NEW p \in Procs, stack[p] # <<>>
  PROVE  Head(stack[p]) = <<Reopen>> \/ (hadOld /\ Head(stack[p]) = LegacyAgenda("text"))
<1>1. stack[p] \in Seq(Seq(Statements))
  BY DEF TypeOK
<1>2. 1 \in 1 .. Len(stack[p]) /\ Head(stack[p]) = stack[p][1]
  BY <1>1, HeadAndTail
<1> QED
  BY <1>2 DEF StackHolds

LEMMA KindsNext == TypeOK /\ Placed /\ StackHolds /\ Kinds /\ [Next]_vars => Kinds'
<1> SUFFICES ASSUME TypeOK, Placed, StackHolds, Kinds, [Next]_vars PROVE Kinds'
  OBVIOUS
<1>0. hadOld' = hadOld
  BY HadOldStays
<1>1. CASE UNCHANGED vars
  BY <1>1 DEF vars, Kinds
<1>2. ASSUME NEW p \in Procs, Act(p) PROVE Kinds'
  <2> DEFINE Kind(x, g, n, q) ==
        /\ g = "session" => q \in {<<>>, <<Event(<<n, x>>)>>}
        /\ g = "index" => Ops(q, {"event", "mark"})
        /\ g = "migrate" /\ ~hadOld => Ops(q, {"open"})
  <2>1. \A q \in Procs : Kind(q, goal[q], news[q], agenda[q])
    BY DEF Kinds
  <2>2. \A g, n : Kind(p, g, n, <<>>)
    BY NothingLeft
  <2>3. agenda[p] # <<>> => Kind(p, goal[p], news[p], Tail(agenda[p]))
    <3>1. agenda[p] \in Seq(Statements)
      BY DEF TypeOK
    <3>2. agenda[p] # <<>> => \A ops : Ops(agenda[p], ops) => Ops(Tail(agenda[p]), ops)
      BY <3>1, TailKeeps
    <3>3. \A e : Tail(<<e>>) = <<>>
      OBVIOUS
    <3> QED
      BY <2>1, <3>2, <3>3
  <2>4. Kind(p, goal'[p], news'[p], agenda'[p])
    <3>1. CASE agenda'[p] = <<>>
      BY <3>1, <2>2
    <3>2. CASE agenda'[p] = agenda[p] /\ goal' = goal /\ news' = news
      BY <3>2, <2>1
    <3>3. CASE agenda[p] # <<>> /\ agenda'[p] = Tail(agenda[p]) /\ goal' = goal /\ news' = news
      BY <3>3, <2>3
    <3>4. CASE goal[p] = "migrate" /\ goal' = goal /\ stack[p] # <<>> /\ agenda'[p] = Head(stack[p])
      BY <3>4, TopOfStack, ReopenOnly
    <3>5. CASE goal[p] = "index" /\ goal' = goal /\ \E s \in todo[p] : agenda'[p] = IndexAgenda(s)
      <4>1. todo[p] \subseteq Sources
        BY DEF TypeOK
      <4> QED
        BY <3>5, <4>1, IndexAgendaOrderly
    <3>6. CASE goal[p] = "session" /\ goal' = goal /\ news' = news
               /\ agenda'[p] = <<Event(<<news[p], p>>)>>
      BY <3>6
    <3> HIDE DEF Kind
    <3> QED
      BY <1>2, <3>1, <3>2, <3>3, <3>4, <3>5, <3>6, OwnAgenda
  <2>5. \A q \in Procs \ {p} : Kind(q, goal'[q], news'[q], agenda'[q])
    BY <1>2, <2>1, OthersKeep
  <2> QED
    BY <1>0, <2>4, <2>5 DEF Kinds
<1> QED
  BY <1>1, <1>2 DEF Next, Act

LEMMA KnownNext ==
  TypeOK /\ Placed /\ StackHolds /\ KnownEvents /\ [Next]_vars => KnownEvents'
<1> SUFFICES ASSUME TypeOK, Placed, StackHolds, KnownEvents, [Next]_vars PROVE KnownEvents'
  OBVIOUS
<1>1. CASE UNCHANGED vars
  BY <1>1 DEF vars, KnownEvents, Known
<1>2. ASSUME NEW p \in Procs, Act(p) PROVE KnownEvents'
  <2>1. log \subseteq log'
    BY <1>2 DEF Act, Step, Build, Exists, Header, ReadLegacy, Rename, Open, Schema, InsertRow,
      InsertSearchable, SelectFact, WriteFact, OpenOuter, MarkSource, Finish, CheckSource, Built,
      Recall, AppendLog, PutVector, Fail, Die, LogWith, outside
  <2>2. \A q \in Procs \ {p} :
          /\ goal'[q] # "session" => Within(agenda'[q], Known)
          /\ pc'[q] = "vector" \/ (goal'[q] = "session" /\ pc'[q] \in {"work", "fts"})
               => <<news'[q], q>> \in log'
    BY <1>2, <2>1, OthersKeep DEF KnownEvents
  <2>3. goal'[p] # "session" => Within(agenda'[p], Known)
    <3>1. CASE agenda'[p] = <<>>
      BY <3>1, NothingLeft
    <3>2. CASE agenda'[p] = agenda[p] /\ goal' = goal
      BY <3>2 DEF KnownEvents
    <3>3. CASE agenda[p] # <<>> /\ agenda'[p] = Tail(agenda[p]) /\ goal' = goal
      <4>1. agenda[p] \in Seq(Statements)
        BY DEF TypeOK
      <4>2. Within(agenda[p], Known) => Within(Tail(agenda[p]), Known)
        BY <3>3, <4>1, TailKeeps
      <4> QED
        BY <3>3, <4>2 DEF KnownEvents
    <3>4. CASE stack[p] # <<>> /\ agenda'[p] = Head(stack[p])
      <4>1. hadOld => Known = Carried
        BY DEF Known, Carried
      <4> QED
        BY <3>4, <4>1, TopOfStack, ReopenOnly, LegacyOrderly
    <3>5. CASE \E s \in todo[p] : agenda'[p] = IndexAgenda(s)
      <4>1. todo[p] \subseteq Sources
        BY DEF TypeOK
      <4> QED
        BY <3>5, <4>1, IndexAgendaOrderly, LinesAreEntries DEF Within, Known
    <3>6. CASE goal[p] = "session" /\ goal' = goal
      BY <3>6
    <3> QED
      BY <1>2, <3>1, <3>2, <3>3, <3>4, <3>5, <3>6, OwnAgenda
  <2>4. pc'[p] = "vector" \/ (goal'[p] = "session" /\ pc'[p] \in {"work", "fts"})
          => <<news'[p], p>> \in log'
    <3>0. /\ pc \in [Procs -> StatementPcs \cup Ended \cup {"idle", "vector", "running"}]
          /\ goal \in [Procs -> {"migrate", "index", "session"}]
          /\ news \in [Procs -> {"prompt", "completed"}]
      BY DEF TypeOK
    <3>1. CASE AppendLog(p)
      BY <3>0, <3>1 DEF AppendLog, LogWith
    <3>2. CASE Build(p) \/ Exists(p) \/ Header(p) \/ ReadLegacy(p) \/ Rename(p) \/ Open(p) \/ Schema(p)
      BY <3>0, <3>2 DEF Build, Exists, Header, AfterHeader, ReadLegacy, Rename, Open, Schema,
        Goto, Placed, local
    <3>3. CASE \/ InsertRow(p) \/ InsertSearchable(p) \/ SelectFact(p) \/ WriteFact(p)
               \/ OpenOuter(p) \/ MarkSource(p) \/ Finish(p)
      BY <3>0, <3>3, <2>1 DEF InsertRow, InsertSearchable, SelectFact, WriteFact, OpenOuter,
        MarkSource, Finish, Goto, Ahead, Placed, KnownEvents, local
    <3>4. CASE CheckSource(p) \/ Built(p) \/ Recall(p) \/ PutVector(p) \/ Fail(p) \/ Die(p)
      BY <3>0, <3>4 DEF CheckSource, Built, Recall, PutVector, AfterSession, Fail, Die, Goto,
        Placed, local
    <3> QED
      BY <1>2, <3>1, <3>2, <3>3, <3>4 DEF Act, Step
  <2>5. Known' = Known
    BY HadOldStays DEF Known
  <2> QED
    BY <2>2, <2>3, <2>4, <2>5 DEF KnownEvents
<1> QED
  BY <1>1, <1>2 DEF Next, Act

\* Who writes to which table, and who takes them away.
LEMMA TablesNext ==
  ASSUME NEW p \in Procs, Act(p)
  PROVE  \/ Rename(p) /\ db' = "absent" /\ rows' = {} /\ searchable' = {} /\ facts' = {} /\ marked' = {}
         \/ /\ rows' = rows \/ (InsertRow(p) /\ rows' = rows \cup {Subject(p)})
            /\ \/ searchable' = searchable
               \/ InsertSearchable(p) /\ searchable' = searchable \cup {Subject(p)}
            /\ facts' = facts \/ (WriteFact(p) /\ facts' = facts \cup {Subject(p)})
            /\ marked' = marked \/ (MarkSource(p) /\ marked' = marked \cup {Subject(p)})
<1>1. CASE Rename(p)
  BY <1>1 DEF Rename, tables
<1>2. CASE InsertRow(p) \/ InsertSearchable(p) \/ WriteFact(p) \/ MarkSource(p)
  BY <1>2 DEF InsertRow, RowsWith, InsertSearchable, WriteFact, MarkSource
<1>3. CASE ~(Rename(p) \/ InsertRow(p) \/ InsertSearchable(p) \/ WriteFact(p) \/ MarkSource(p))
  BY <1>3 DEF Act, Step, Build, Exists, Header, ReadLegacy, Open, Schema, SelectFact,
    OpenOuter, Finish, CheckSource, Built, Recall, AppendLog, PutVector, Fail, Die, tables
<1> QED
  BY <1>1, <1>2, <1>3

LEMMA LogNext ==
  ASSUME NEW p \in Procs, Act(p)
  PROVE  /\ log' = log \/ (AppendLog(p) /\ log' = log \cup {<<news[p], p>>})
         /\ vectors' = vectors \/ (PutVector(p) /\ vectors' \subseteq vectors \cup {<<news[p], p>>})
BY DEF Act, Step, Build, Exists, Header, ReadLegacy, Rename, Open, Schema, InsertRow,
  InsertSearchable, SelectFact, WriteFact, OpenOuter, MarkSource, Finish, CheckSource, Built,
  Recall, AppendLog, PutVector, Fail, Die, LogWith, outside

LEMMA StoredNext ==
  TypeOK /\ HeadIsRow /\ SearchableIsStored /\ [Next]_vars => HeadIsRow' /\ SearchableIsStored'
<1> SUFFICES ASSUME TypeOK, HeadIsRow, SearchableIsStored, [Next]_vars
             PROVE  HeadIsRow' /\ SearchableIsStored'
  OBVIOUS
<1>1. CASE UNCHANGED vars
  BY <1>1 DEF vars, HeadIsRow, SearchableIsStored, Subject
<1>2. ASSUME NEW p \in Procs, Act(p) PROVE HeadIsRow' /\ SearchableIsStored'
  <2>1. SearchableIsStored'
    <3>1. InsertSearchable(p) => Subject(p) \in rows
      BY DEF InsertSearchable, HeadIsRow
    <3>2. InsertSearchable(p) => ~Rename(p) /\ ~InsertRow(p)
      BY DEF InsertSearchable, Rename, InsertRow, Ahead
    <3> HIDE DEF Act
    <3> QED
      BY <1>2, <3>1, <3>2, TablesNext DEF SearchableIsStored
  <2>2. ASSUME Rename(p) PROVE HeadIsRow'
    <3>1. CASE moved' = [q \in Procs |-> {"outer", "inner"}]
      BY <3>1 DEF HeadIsRow
    <3>2. CASE db = "absent" /\ Goto(p, "failed") /\ UNCHANGED <<tables, moved>>
      <4>1. \A q \in Procs : pc'[q] = "fts" => pc[q] = "fts"
        BY <3>2 DEF TypeOK, Goto
      <4>2. agenda' = agenda /\ rows' = rows /\ moved' = moved
        BY <2>2, <3>2 DEF Rename, local, tables
      <4> QED
        BY <4>1, <4>2 DEF HeadIsRow, Subject
    <3> QED
      BY <2>2, <3>1, <3>2 DEF Rename
  <2>3. ASSUME ~Rename(p) PROVE HeadIsRow'
    <3>1. rows \subseteq rows'
      BY <1>2, <2>3, TablesNext
    <3>2. \A q \in Procs \ {p} :
            pc'[q] = "fts" /\ "inner" \notin moved'[q] => Subject(q)' \in rows'
      BY <1>2, <2>3, <3>1, OthersKeep DEF HeadIsRow, Subject
    <3>3. pc'[p] = "fts" => InsertRow(p)
      BY <1>2, <2>3 DEF TypeOK, Act, Step, Build, Exists, Header, ReadLegacy, Open, Schema,
        InsertSearchable, SelectFact, WriteFact, OpenOuter, MarkSource, Finish, CheckSource, Built,
        Recall, AppendLog, PutVector, Fail, Die, Goto, Ahead, AfterSession, AfterHeader
    <3>4. InsertRow(p) => Subject(p)' \in rows'
      BY DEF InsertRow, RowsWith, Subject, local
    <3> QED
      BY <3>2, <3>3, <3>4 DEF HeadIsRow
  <2> QED
    BY <2>1, <2>2, <2>3
<1> QED
  BY <1>1, <1>2 DEF Next, Act

LEMMA LogKnowsNext ==
  TypeOK /\ Placed /\ Kinds /\ KnownEvents /\ SearchableIsStored /\ LogKnowsFirst
    /\ SearchableIsStored' /\ [Next]_vars => LogKnowsFirst'
<1> SUFFICES ASSUME TypeOK, Placed, Kinds, KnownEvents, LogKnowsFirst, SearchableIsStored',
                    [Next]_vars
             PROVE  LogKnowsFirst'
  OBVIOUS
<1>1. CASE UNCHANGED vars
  BY <1>1 DEF vars, LogKnowsFirst
<1>2. ASSUME NEW p \in Procs, Act(p) PROVE LogKnowsFirst'
  <2>1. InsertRow(p) => Subject(p) \in log \cup Known
    <3> SUFFICES ASSUME InsertRow(p) PROVE Subject(p) \in log \cup Known
      OBVIOUS
    <3>1. /\ pc[p] = "work" /\ agenda[p] # <<>> /\ Head(agenda[p]).op = "event"
          /\ agenda[p] \in Seq(Statements)
      BY DEF InsertRow, Ahead, TypeOK
    <3>2. 1 \in 1 .. Len(agenda[p]) /\ Head(agenda[p]) = agenda[p][1]
      BY <3>1, HeadAndTail
    <3>3. CASE goal[p] # "session"
      BY <3>1, <3>2, <3>3 DEF KnownEvents, Within, Subject
    <3>4. CASE goal[p] = "session"
      <4> DEFINE e == Event(<<news[p], p>>)
      <4>1. agenda[p] = <<e>>
        BY <3>1, <3>4 DEF Kinds
      <4>2. e.of = <<news[p], p>>
        BY StatementParts
      <4>3. <<news[p], p>> \in log
        BY <3>1, <3>4 DEF KnownEvents
      <4> HIDE DEF e
      <4>4. Head(<<e>>) = e
        OBVIOUS
      <4> QED
        BY <4>1, <4>2, <4>3, <4>4 DEF Subject
    <3> QED
      BY <3>3, <3>4
  <2>2. PutVector(p) => <<news[p], p>> \in log
    BY DEF PutVector, KnownEvents
  <2>3. log \subseteq log'
    BY <1>2, LogNext
  <2>4. rows' \subseteq log' \cup Known
    <3>1. rows \subseteq log \cup Known
      BY DEF LogKnowsFirst, Known
    <3> QED
      BY <1>2, <2>1, <2>3, <3>1, TablesNext
  <2>5. vectors' \subseteq log'
    BY <1>2, <2>2, <2>3, LogNext DEF LogKnowsFirst
  <2>6. hadOld' = hadOld
    BY HadOldStays
  <2> QED
    BY <2>4, <2>5, <2>6 DEF LogKnowsFirst, SearchableIsStored, Known
<1> QED
  BY <1>1, <1>2 DEF Next, Act

LEMMA LoggedNext == TypeOK /\ Placed /\ Kinds /\ LoggedOnce /\ [Next]_vars => LoggedOnce'
<1> SUFFICES ASSUME TypeOK, Placed, Kinds, LoggedOnce, [Next]_vars PROVE LoggedOnce'
  OBVIOUS
<1>1. CASE UNCHANGED vars
  BY <1>1 DEF vars, LoggedOnce
<1>2. ASSUME NEW p \in Procs, Act(p) PROVE LoggedOnce'
  <2> DEFINE Once(q) ==
        /\ <<"completed", q>> \in log =>
             news[q] = "completed" /\ goal[q] = "session"
               /\ pc[q] \in {"work", "fts", "vector"} \cup Ended
        /\ <<"prompt", q>> \in log =>
             \/ news[q] = "completed"
             \/ goal[q] = "session" /\ pc[q] \in {"work", "fts", "vector", "running"} \cup Ended
        /\ pc[q] \in {"idle", "running", "recall"} => news[q] = "prompt"
  <2>0. \A q \in Procs : Once(q)
    BY DEF LoggedOnce
  <2>1. \A q \in Procs : \A w : q # p /\ <<w, q>> \in log' => <<w, q>> \in log
    BY <1>2, LogNext
  <2>2. ASSUME NEW q \in Procs, q # p PROVE Once(q)'
    BY <2>0, <2>1, <2>2, <1>2, OthersKeep
  <2>3. Once(p)'
    <3>0. /\ pc \in [Procs -> StatementPcs \cup Ended \cup {"idle", "vector", "running"}]
          /\ goal \in [Procs -> {"migrate", "index", "session"}]
          /\ news \in [Procs -> {"prompt", "completed"}]
      BY DEF TypeOK
    <3>00. Once(p)
      BY <2>0
    <3> USE DEF Goto, Ended, local, outside, StatementPcs
    <3>1. CASE Build(p) \/ Exists(p) \/ Header(p) \/ ReadLegacy(p) \/ Rename(p) \/ Open(p) \/ Schema(p)
      BY <3>0, <3>00, <3>1 DEF Build, Exists, Header, AfterHeader, ReadLegacy, Rename, Open, Schema,
        Placed
    <3>2. CASE \/ InsertRow(p) \/ InsertSearchable(p) \/ SelectFact(p) \/ WriteFact(p)
               \/ OpenOuter(p) \/ MarkSource(p) \/ Finish(p)
      BY <3>0, <3>00, <3>2, FactsAreCarried DEF InsertRow, InsertSearchable, SelectFact, WriteFact,
        OpenOuter, MarkSource, Finish, Ahead, Placed
    <3>3. CASE CheckSource(p) \/ Built(p) \/ Recall(p)
      BY <3>0, <3>00, <3>3 DEF CheckSource, Built, Recall, Placed
    <3>4. CASE AppendLog(p)
      BY <3>0, <3>00, <3>4 DEF AppendLog, LogWith, Placed
    <3>5. CASE PutVector(p)
      BY <3>0, <3>00, <3>5 DEF PutVector, AfterSession, Placed
    <3>6. CASE Fail(p)
      <4>1. pc[p] \in StatementPcs /\ news' = news /\ goal' = goal /\ log' = log
        BY <3>6 DEF Fail
      <4>2. pc'[p] = IF goal[p] = "session" /\ pc[p] # "recall" THEN AfterSession(p) ELSE "failed"
        BY <3>0, <3>6 DEF Fail
      <4> QED
        BY <3>0, <3>00, <4>1, <4>2 DEF AfterSession
    <3>7. CASE Die(p)
      BY <3>0, <3>00, <3>7 DEF Die
    <3> QED
      BY <1>2, <3>1, <3>2, <3>3, <3>4, <3>5, <3>6, <3>7 DEF Act, Step
  <2> HIDE DEF Once
  <2>4. \A q \in Procs : Once(q)'
    BY <2>2, <2>3
  <2> QED
    BY <2>4 DEF Once, LoggedOnce
<1> QED
  BY <1>1, <1>2 DEF Next, Act

\* A connection for marks is opened when there is none to set.
LEMMA OuterNext ==
  ASSUME TypeOK, Placed, Kinds, NEW p \in Procs, Act(p),
         goal[p] = "index", agenda[p] # <<>>, "outer" \notin moved'[p]
  PROVE  "outer" \notin moved[p]
<1>1. ~CheckSource(p)
  BY DEF CheckSource, Placed, Working
<1>2. ~OpenOuter(p)
  <2> SUFFICES ASSUME OpenOuter(p) PROVE FALSE
    OBVIOUS
  <2>1. Head(agenda[p]).op = "open" /\ agenda[p] \in Seq(Statements)
    BY DEF OpenOuter, Ahead, TypeOK
  <2>2. 1 \in 1 .. Len(agenda[p]) /\ Head(agenda[p]) = agenda[p][1]
    BY <2>1, HeadAndTail
  <2> QED
    BY <2>1, <2>2 DEF Kinds, Ops
<1> QED
  BY <1>1, <1>2 DEF TypeOK, Act, Step, Build, Exists, Header, ReadLegacy, Rename, Open, Schema,
    InsertRow, InsertSearchable, SelectFact, WriteFact, MarkSource, Finish, Built, Recall,
    AppendLog, PutVector, Fail, Die

LEMMA MarksEarnedNext ==
  TypeOK /\ Placed /\ OneBuilder /\ StackHolds /\ Kinds /\ MarksEarned /\ [Next]_vars
    => MarksEarned'
<1> SUFFICES ASSUME TypeOK, Placed, OneBuilder, StackHolds, Kinds, MarksEarned, [Next]_vars
             PROVE  MarksEarned'
  OBVIOUS
<1>1. CASE UNCHANGED vars
  BY <1>1 DEF vars, MarksEarned
<1>2. ASSUME NEW p \in Procs, Act(p) PROVE MarksEarned'
  <2>0. mishap' # Overlap => mishap # Overlap
    BY <1>2, MishapGrows DEF Clean, Overlap
  <2>1. ~Rename(p) => searchable \subseteq searchable'
    BY <1>2, TablesNext
  <2>2. Rename(p) => agenda[p] = <<>> /\ Building(p)
    BY DEF Rename, Placed, Working, Building, Ended
  <2>3. ASSUME NEW q \in Procs \ {p}
        PROVE  /\ goal'[q] = "index" /\ "outer" \notin moved'[q] => Covered(agenda'[q], searchable')
               /\ goal'[q] = "migrate" /\ mishap' # Overlap => Covered(agenda'[q], searchable')
    <3>1. /\ goal'[q] = goal[q] /\ agenda'[q] = agenda[q]
          /\ moved'[q] = moved[q] \/ (Rename(p) /\ moved'[q] = {"outer", "inner"})
      BY <1>2, <2>3, OthersKeep
    <3>2. CASE ~Rename(p)
      BY <3>1, <3>2, <2>0, <2>1, CoveredGrows DEF MarksEarned
    <3>3. CASE Rename(p) /\ searchable' = searchable
      BY <3>1, <3>3, <2>0 DEF MarksEarned
    <3>4. CASE Rename(p) /\ searchable' # searchable
      <4>1. moved'[q] = {"outer", "inner"}
        BY <3>4 DEF Rename, tables
      <4>2. goal'[q] = "migrate" /\ mishap' # Overlap => agenda'[q] = <<>>
        <5> SUFFICES ASSUME goal[q] = "migrate", mishap # Overlap PROVE agenda[q] = <<>>
          BY <2>0, <3>1
        <5>1. ~Building(q)
          BY <2>2, <2>3, <3>4 DEF OneBuilder
        <5> QED
          BY <5>1 DEF Building, Placed, Working, Ended
      <4> QED
        BY <4>1, <4>2, NothingLeft
    <3> QED
      BY <3>2, <3>3, <3>4
  <2>4. /\ goal'[p] = "index" /\ "outer" \notin moved'[p] => Covered(agenda'[p], searchable')
        /\ goal'[p] = "migrate" /\ mishap' # Overlap => Covered(agenda'[p], searchable')
    <3>1. CASE agenda'[p] = <<>>
      BY <3>1, NothingLeft
    <3>2. CASE agenda'[p] = agenda[p] /\ agenda[p] # <<>> /\ goal' = goal
      <4>1. ~Rename(p) /\ searchable \subseteq searchable'
        BY <2>1, <2>2, <3>2
      <4>2. goal[p] = "index" /\ "outer" \notin moved'[p] => "outer" \notin moved[p]
        BY <1>2, <3>2, OuterNext
      <4> QED
        BY <2>0, <3>2, <4>1, <4>2, CoveredGrows DEF MarksEarned
    <3>3. CASE /\ InsertSearchable(p) \/ WriteFact(p) \/ OpenOuter(p) \/ MarkSource(p)
               /\ agenda[p] # <<>> /\ agenda'[p] = Tail(agenda[p]) /\ goal' = goal
      <4> DEFINE next == IF Head(agenda[p]).op = "event"
                         THEN searchable \cup {Head(agenda[p]).of} ELSE searchable
      <4>1. next \subseteq searchable'
        <5>1. CASE InsertSearchable(p)
          BY <5>1 DEF InsertSearchable, Subject
        <5>2. CASE WriteFact(p) \/ OpenOuter(p) \/ MarkSource(p)
          BY <5>2 DEF WriteFact, OpenOuter, MarkSource, Placed, Ahead, tables
        <5> QED
          BY <3>3, <5>1, <5>2
      <4>2. agenda[p] \in Seq(Statements)
        BY DEF TypeOK
      <4>3. Covered(agenda[p], searchable) => Covered(Tail(agenda[p]), next)
        BY <3>3, <4>2, TailKeeps
      <4>4. goal[p] = "index" /\ "outer" \notin moved'[p] => "outer" \notin moved[p]
        BY <1>2, <3>3, OuterNext
      <4> HIDE DEF next
      <4> QED
        BY <2>0, <3>3, <4>1, <4>3, <4>4, CoveredGrows DEF MarksEarned
    <3>4. CASE stack[p] # <<>> /\ agenda'[p] = Head(stack[p])
      <4>1. Covered(agenda'[p], {})
        BY <3>4, TopOfStack, ReopenOnly, LegacyOrderly DEF Orderly
      <4> QED
        BY <4>1, CoveredGrows
    <3>5. CASE \E s \in todo[p] : agenda'[p] = IndexAgenda(s)
      <4>1. todo[p] \subseteq Sources
        BY DEF TypeOK
      <4>2. Covered(agenda'[p], {})
        BY <3>5, <4>1, IndexAgendaOrderly DEF Orderly
      <4> QED
        BY <4>2, CoveredGrows
    <3>6. CASE goal[p] = "session" /\ goal' = goal
      BY <3>6
    <3> QED
      BY <1>2, <3>1, <3>2, <3>3, <3>4, <3>5, <3>6, OwnAgenda
  <2> QED
    BY <2>3, <2>4 DEF MarksEarned
<1> QED
  BY <1>1, <1>2 DEF Next, Act

LEMMA MarkedNext ==
  TypeOK /\ Kinds /\ MarksEarned /\ MarkedIsIndexed /\ [Next]_vars => MarkedIsIndexed'
<1> SUFFICES ASSUME TypeOK, Kinds, MarksEarned, MarkedIsIndexed, [Next]_vars
             PROVE  MarkedIsIndexed'
  OBVIOUS
<1>0. hadOld' = hadOld
  BY HadOldStays
<1>1. CASE UNCHANGED vars
  BY <1>1 DEF vars, MarkedIsIndexed
<1>2. ASSUME NEW p \in Procs, Act(p) PROVE MarkedIsIndexed'
  <2>0. mishap = Overlap => mishap' = Overlap
    BY <1>2, MishapGrows DEF Clean, Overlap
  <2>1. CASE marked' = {}
    BY <2>1 DEF MarkedIsIndexed
  <2>2. CASE marked' = marked /\ searchable \subseteq searchable'
    BY <1>0, <2>0, <2>2 DEF MarkedIsIndexed
  <2>3. CASE /\ MarkSource(p) /\ marked' = marked \cup {Subject(p)} /\ searchable \subseteq searchable'
             /\ ~(hadOld /\ mishap = Overlap)
    <3> DEFINE q == agenda[p]
               s == Subject(p)
    <3>1. q \in Seq(Statements) /\ q # <<>> /\ Head(q).op = "mark" /\ "outer" \notin moved[p]
      BY <2>3 DEF MarkSource, Ahead, TypeOK
    <3>2. 1 \in 1 .. Len(q) /\ Head(q) = q[1] /\ s = q[1].of
      BY <3>1, HeadAndTail DEF Subject
    <3>3. Covered(q, searchable)
      <4>1. CASE goal[p] = "session"
        <5> DEFINE e == Event(<<news[p], p>>)
        <5>1. q = <<e>>
          BY <3>1, <4>1 DEF Kinds
        <5>2. e.op = "event"
          BY StatementParts
        <5> HIDE DEF e, q
        <5>3. Head(<<e>>) = e
          OBVIOUS
        <5> QED
          BY <5>1, <5>2, <5>3, <3>1
      <4>2. CASE goal[p] = "index"
        BY <3>1, <4>2 DEF MarksEarned
      <4>3. CASE goal[p] = "migrate"
        <5>1. CASE mishap # Overlap
          BY <4>3, <5>1 DEF MarksEarned
        <5>2. CASE ~hadOld
          BY <3>1, <3>2, <4>3, <5>2 DEF Kinds, Ops
        <5> QED
          BY <2>3, <5>1, <5>2
      <4>4. goal[p] \in {"migrate", "index", "session"}
        BY DEF TypeOK
      <4> QED
        BY ONLY <4>1, <4>2, <4>3, <4>4
    <3>4. Lines(s) \subseteq searchable
      <4>1. \A x \in Lines(q[1].of) : x \in searchable \/ \E i \in 1 .. 1 - 1 : q[i] = Event(x)
        BY <3>1, <3>2, <3>3 DEF Covered
      <4> HIDE DEF s, q
      <4> QED
        BY <4>1, <3>2
    <3> QED
      BY <2>3, <3>4 DEF MarkedIsIndexed
  <2>4. CASE hadOld /\ mishap = Overlap
    BY <1>0, <2>0, <2>4 DEF MarkedIsIndexed
  <2> HIDE DEF Act
  <2> QED
    BY <1>2, <2>1, <2>2, <2>3, <2>4, TablesNext
<1> QED
  BY <1>1, <1>2 DEF Next, Act

\* A connection for the marks of a text store is opened by a migration only.
LEMMA MarksAreCarried ==
  ASSUME TypeOK, Kinds, NEW p \in Procs, OpenOuter(p)
  PROVE  goal[p] = "migrate" /\ pc[p] = "work"
<1>0. goal \in [Procs -> {"migrate", "index", "session"}] /\ agenda \in [Procs -> Seq(Statements)]
  BY DEF TypeOK
<1>1. Head(agenda[p]).op = "open" /\ agenda[p] # <<>> /\ pc[p] = "work"
  BY DEF OpenOuter, Ahead
<1>2. CASE goal[p] = "index"
  <2>1. 1 \in 1 .. Len(agenda[p]) /\ Head(agenda[p]) = agenda[p][1]
    BY <1>1, <1>0, HeadAndTail
  <2> QED
    BY <1>1, <1>2, <2>1 DEF Kinds, Ops
<1>3. CASE goal[p] = "session"
  <2> DEFINE e == Event(<<news[p], p>>)
  <2>1. agenda[p] = <<e>>
    BY <1>1, <1>3 DEF Kinds
  <2>2. e.op = "event"
    BY StatementParts
  <2> HIDE DEF e
  <2>3. Head(<<e>>) = e
    OBVIOUS
  <2> QED
    BY <1>1, <2>1, <2>2, <2>3
<1>4. goal[p] \in {"migrate", "index", "session"}
  BY <1>0
<1>5. goal[p] = "migrate"
  BY <1>2, <1>3, <1>4
<1> QED
  BY <1>1, <1>5

\* What becomes of the file.
LEMMA DbNext ==
  ASSUME TypeOK, Placed, Kinds, NEW p \in Procs, Act(p)
  PROVE  /\ \/ db' = db
            \/ Rename(p) /\ db' = "absent" /\ copy' = db
            \/ Schema(p) /\ db' = "sqlite"
            \/ db = "absent" /\ db' = "empty" /\ (Open(p) \/ Fail(p) \/ CheckSource(p))
            \/ /\ db = "absent" /\ db' = "empty"
               /\ OpenOuter(p) /\ goal[p] = "migrate" /\ pc[p] = "work"
         /\ copy' = copy \/ (Rename(p) /\ db' = "absent" /\ copy' = db)
<1>1. CASE Rename(p)
  BY <1>1 DEF Rename, Copied
<1>2. CASE Schema(p)
  BY <1>2 DEF Schema
<1>3. CASE OpenOuter(p)
  BY <1>3, MarksAreCarried DEF OpenOuter, Opened
<1>4. CASE Open(p) \/ Fail(p) \/ CheckSource(p)
  BY <1>4 DEF Open, Fail, CheckSource, Opened
<1>5. CASE ~(Rename(p) \/ Schema(p) \/ OpenOuter(p) \/ Open(p) \/ Fail(p) \/ CheckSource(p))
  BY <1>5 DEF Act, Step, Build, Exists, Header, ReadLegacy, InsertRow, InsertSearchable,
    SelectFact, WriteFact, MarkSource, Finish, Built, Recall, AppendLog, PutVector,
    Die, files
<1> QED
  BY <1>1, <1>2, <1>3, <1>4, <1>5

LEMMA FilesAgreeNext ==
  TypeOK /\ Placed /\ OneBuilder /\ Kinds /\ FilesAgree /\ [Next]_vars => FilesAgree'
<1> SUFFICES ASSUME TypeOK, Placed, OneBuilder, Kinds, FilesAgree, [Next]_vars
             PROVE  FilesAgree'
  OBVIOUS
<1>0. hadOld' = hadOld
  BY HadOldStays
<1>1. CASE UNCHANGED vars
  BY <1>1 DEF vars, FilesAgree, FileOf
<1>2. ASSUME NEW p \in Procs, Act(p) PROVE FilesAgree'
  <2>0. /\ pc \in [Procs -> StatementPcs \cup Ended \cup {"idle", "vector", "running"}]
        /\ goal \in [Procs -> {"migrate", "index", "session"}]
        /\ stack \in [Procs -> Seq(Seq(Statements))]
        /\ db \in {"absent", "empty", "text", "sqlite"}
    BY DEF TypeOK
  <2>1. /\ mishap' # Overlap => mishap # Overlap
        /\ mishap' < Torn => mishap < Torn
        /\ mishap < Torn => mishap # Overlap
        /\ mishap' < Torn /\ (Fail(p) \/ Die(p)) => db' # "empty"
        /\ mishap' < Torn /\ CheckSource(p) => db' = db
    BY <1>2, MishapGrows DEF Clean, Torn, Overlap
  <2>2. /\ \/ db' = db
           \/ Rename(p) /\ db' = "absent" /\ copy' = db
           \/ Schema(p) /\ db' = "sqlite"
           \/ db = "absent" /\ db' = "empty" /\ (Open(p) \/ Fail(p) \/ CheckSource(p))
           \/ /\ db = "absent" /\ db' = "empty"
              /\ OpenOuter(p) /\ goal[p] = "migrate" /\ pc[p] = "work"
        /\ copy' = copy \/ (Rename(p) /\ db' = "absent" /\ copy' = db)
    BY <1>2, DbNext
  <2>3. \A q \in Procs \ {p} : pc'[q] = pc[q] /\ goal'[q] = goal[q] /\ stack'[q] = stack[q]
    BY <1>2, OthersKeep
  <2>4. Rename(p) \/ Schema(p) \/ Open(p) => goal[p] = "migrate" /\ pc[p] \in {"rename", "schema", "open"}
    BY DEF Rename, Schema, Open, Placed
  <2>5. mishap # Overlap /\ (Rename(p) \/ Schema(p) \/ Open(p) \/ (goal[p] = "migrate" /\ pc[p] = "work"))
          => \A q \in Procs \ {p} : ~Building(q)
    <3>1. Rename(p) \/ Schema(p) \/ Open(p) \/ (goal[p] = "migrate" /\ pc[p] = "work") => Building(p)
      BY <2>4 DEF Building, Ended
    <3> HIDE DEF Act
    <3> QED
      BY <3>1 DEF OneBuilder
  <2>6. ASSUME mishap' # Overlap, NEW q \in Procs, pc'[q] \in {"raw", "rename"}
        PROVE  db' # "sqlite"
    <3>1. CASE q = p
      <4>1. Header(p) \/ ReadLegacy(p)
        BY <1>2, <2>0, <2>6, <3>1 DEF Act, Step, Build, Exists, Rename, Open, Schema, InsertRow,
          InsertSearchable, SelectFact, WriteFact, OpenOuter, MarkSource, Finish, CheckSource,
          Built, Recall, AppendLog, PutVector, Fail, Die, Goto, Ahead, AfterSession
      <4>2. Header(p) => db # "sqlite" /\ db' = db
        BY <2>0, <2>6, <3>1 DEF Header, AfterHeader, Goto, files
      <4>3. ReadLegacy(p) => db # "sqlite" /\ db' = db
        BY <2>1, <2>6 DEF ReadLegacy, FilesAgree, files
      <4> QED
        BY <4>1, <4>2, <4>3
    <3>2. CASE q # p
      <4>1. pc[q] \in {"raw", "rename"} /\ Building(q)
        BY <2>3, <2>6, <3>2 DEF Building, Placed, Ended
      <4>2. ~Schema(p)
        BY <2>1, <2>5, <2>6, <3>2, <4>1
      <4>3. db # "sqlite"
        BY <2>1, <2>6, <4>1 DEF FilesAgree
      <4> QED
        BY <2>2, <4>2, <4>3
    <3> QED
      BY <3>1, <3>2
  <2>7. ASSUME mishap' < Torn
        PROVE  /\ db' = "empty" => \E q \in Procs : pc'[q] = "schema"
               /\ hadOld => "text" \in {db', copy'}
               /\ \A q \in Procs : FileOf(q)'
    <3>0. /\ mishap < Torn /\ mishap # Overlap /\ ~(db = "absent" /\ db' = "empty" /\ (Fail(p) \/ CheckSource(p)))
          /\ db = "empty" => \E q \in Procs : pc[q] = "schema"
          /\ hadOld => "text" \in {db, copy}
          /\ \A q \in Procs : FileOf(q)
      BY <2>1, <2>7 DEF FilesAgree, FileOf
    <3>1. ~(db = "absent" /\ OpenOuter(p) /\ goal[p] = "migrate" /\ pc[p] = "work")
      BY <3>0 DEF FileOf, Working
    <3>2. db' = "empty" => \E q \in Procs : pc'[q] = "schema"
      <4> SUFFICES ASSUME db' = "empty" PROVE \E q \in Procs : pc'[q] = "schema"
        OBVIOUS
      <4>1. CASE Open(p)
        BY <2>0, <4>1 DEF Open, Goto
      <4>2. CASE ~Open(p)
        <5>1. db = "empty"
          BY <2>2, <3>0, <3>1, <4>2
        <5>2. PICK q \in Procs : pc[q] = "schema"
          BY <3>0, <5>1
        <5>3. CASE q # p
          BY <2>3, <5>2, <5>3
        <5>4. CASE q = p
          <6>1. Schema(p) \/ Fail(p) \/ Die(p)
            BY <1>2, <5>2, <5>4 DEF Act, Step, Build, Exists, Header, ReadLegacy, Rename, Open,
              InsertRow, InsertSearchable, SelectFact, WriteFact, OpenOuter, MarkSource, Finish,
              CheckSource, Built, Recall, AppendLog, PutVector, Ahead
          <6>2. ~Schema(p)
            BY DEF Schema
          <6> QED
            BY <2>1, <2>7, <6>1, <6>2
        <5> QED
          BY <5>3, <5>4
      <4> QED
        BY <4>1, <4>2
    <3>3. hadOld => "text" \in {db', copy'}
      <4>1. Rename(p) => db = "text"
        BY <3>0 DEF Rename, FileOf
      <4>2. Schema(p) \/ Open(p) => db # "text"
        BY <3>0 DEF Schema, Open, FileOf
      <4> QED
        BY <2>2, <3>0, <3>1, <4>1, <4>2
    <3>4. ASSUME NEW q \in Procs, q # p PROVE FileOf(q)'
      <4>1. pc'[q] = pc[q] /\ goal'[q] = goal[q] /\ stack'[q] = stack[q] /\ FileOf(q)
        BY <2>3, <3>0, <3>4
      <4>2. CASE db' = db
        BY <4>1, <4>2 DEF FileOf
      <4>3. CASE db' # db
        <5>1. db' # "text" /\ ~Building(q)
          BY <2>2, <2>5, <3>0, <3>1, <3>4, <4>3
        <5>2. /\ pc[q] \notin {"raw", "rename", "header"}
              /\ ~(goal[q] = "migrate" /\ pc[q] \in Working)
          BY <5>1 DEF Building, Ended, Placed, Working
        <5> QED
          BY <4>1, <5>1, <5>2 DEF FileOf
      <4> QED
        BY <4>2, <4>3
    <3>5. FileOf(p)'
      <4>0. FileOf(p)
        BY <3>0
      <4> USE DEF Goto, files, local
      <4>1. CASE Build(p)
        BY <2>0, <4>0, <4>1 DEF Build, FileOf, Placed, Working
      <4>2. CASE Exists(p)
        <5>1. db # "empty"
          <6> SUFFICES ASSUME NEW q \in Procs, pc[q] = "schema" PROVE FALSE
            BY <3>0
          <6>1. Building(p) /\ Building(q) /\ p # q
            BY <4>2 DEF Exists, Building, Placed, Ended
          <6> QED
            BY <3>0, <6>1 DEF OneBuilder
        <5> QED
          BY <2>0, <4>0, <4>2, <5>1 DEF Exists, FileOf, Working
      <4>3. CASE Header(p)
        BY <2>0, <4>0, <4>3 DEF Header, AfterHeader, FileOf, Working
      <4>4. CASE ReadLegacy(p)
        BY <2>0, <4>0, <4>4 DEF ReadLegacy, FileOf, Working
      <4>5. CASE Rename(p)
        BY <2>0, <4>0, <4>5 DEF Rename, FileOf, Working
      <4>6. CASE Open(p)
        BY <2>0, <4>0, <4>6 DEF Open, Opened, FileOf, Working
      <4>7. CASE Schema(p)
        BY <2>0, <4>0, <4>7 DEF Schema, FileOf, Working
      <4>8. CASE InsertRow(p) \/ InsertSearchable(p) \/ SelectFact(p) \/ WriteFact(p) \/ MarkSource(p)
        BY <2>0, <4>0, <4>8 DEF InsertRow, InsertSearchable, SelectFact, WriteFact, MarkSource, Ahead,
          FileOf, Working
      <4>9. CASE OpenOuter(p)
        <5>1. db' = db
          BY <2>2, <3>0, <3>1, <4>9, MarksAreCarried DEF OpenOuter, Opened
        <5> QED
          BY <2>0, <4>0, <4>9, <5>1 DEF OpenOuter, FileOf
      <4>10. CASE Finish(p)
        BY <2>0, <4>0, <4>10 DEF Finish, FileOf, Working
      <4>11. CASE CheckSource(p) \/ Built(p) \/ Recall(p) \/ AppendLog(p) \/ PutVector(p)
        BY <2>0, <2>1, <2>7, <4>0, <4>11 DEF CheckSource, Built, Recall, AppendLog, PutVector, AfterSession,
          FileOf, Working, Placed
      <4>12. CASE Fail(p) \/ Die(p)
        BY <2>0, <4>12 DEF Fail, Die, AfterSession, FileOf, Working, Ended
      <4> QED
        BY <1>2, <4>1, <4>2, <4>3, <4>4, <4>5, <4>6, <4>7, <4>8, <4>9, <4>10, <4>11, <4>12
           DEF Act, Step
    <3> QED
      BY <3>2, <3>3, <3>4, <3>5
  <2> QED
    BY <1>0, <2>6, <2>7 DEF FilesAgree, FileOf
<1> QED
  BY <1>1, <1>2 DEF Next, Act

\* A session's event is no line of a file, and no old one.
LEMMA NewsIsNoLine ==
  ASSUME TypeOK, NEW p \in Procs
  PROVE  <<news[p], p>> \notin Carried
<1>1. news[p] \in {"prompt", "completed"}
  BY DEF TypeOK
<1>2. news[p] \notin Sources
  BY <1>1, MemoryAssumption
<1> QED
  BY <1>1, <1>2 DEF Carried, OldSessions, DiskLines, Lines

\* What a row may be that is being inserted.
LEMMA InsertedRow ==
  ASSUME TypeOK, Kinds, KnownEvents, NEW p \in Procs, InsertRow(p)
  PROVE  /\ 1 \in 1 .. Len(agenda[p]) /\ Head(agenda[p]) = agenda[p][1]
         /\ agenda[p][1].op = "event" /\ Subject(p) = agenda[p][1].of
         /\ agenda[p][1] = Event(Subject(p))
         /\ pc[p] = "work"
         /\ goal[p] = "session" => Subject(p) = <<news[p], p>>
         /\ goal[p] # "session" => Subject(p) \in Carried
<1>1. /\ pc[p] = "work" /\ agenda[p] # <<>> /\ Head(agenda[p]).op = "event"
      /\ agenda[p] \in Seq(Statements)
  BY DEF InsertRow, Ahead, TypeOK
<1>2. 1 \in 1 .. Len(agenda[p]) /\ Head(agenda[p]) = agenda[p][1]
  BY <1>1, HeadAndTail
<1>3. agenda[p][1] = Event(Subject(p))
  BY <1>1, <1>2, Subjects
<1>4. goal[p] = "session" => Subject(p) = <<news[p], p>>
  <2> SUFFICES ASSUME goal[p] = "session" PROVE Subject(p) = <<news[p], p>>
    OBVIOUS
  <2> DEFINE e == Event(<<news[p], p>>)
  <2>1. agenda[p] = <<e>>
    BY <1>1 DEF Kinds
  <2>2. e.of = <<news[p], p>>
    BY StatementParts
  <2> HIDE DEF e
  <2>3. Head(<<e>>) = e
    OBVIOUS
  <2> QED
    BY <2>1, <2>2, <2>3 DEF Subject
<1>5. goal[p] # "session" => Subject(p) \in Carried
  BY <1>1, <1>2 DEF KnownEvents, Within, Subject, Known, Carried
<1> QED
  BY <1>1, <1>2, <1>3, <1>4, <1>5 DEF Subject

\* Two processes do not have the same event to insert.
LEMMA NotTheSameEvent ==
  ASSUME TypeOK, Placed, OneBuilder, mishap # Overlap, Kinds, KnownEvents,
         NEW p \in Procs, NEW q \in Procs, p # q, InsertRow(p),
         NEW i \in 1 .. Len(agenda[q]), agenda[q][i].op = "event"
  PROVE  agenda[q][i].of # Subject(p)
<1>0. /\ goal[p] = "session" => Subject(p) = <<news[p], p>>
      /\ goal[p] # "session" => Subject(p) \in Carried /\ Building(p)
  BY InsertedRow DEF Building, Ended
<1>1. CASE goal[q] = "session"
  <2> DEFINE e == Event(<<news[q], q>>)
  <2>0. agenda[q] \in {<<>>, <<e>>} /\ e.of = <<news[q], q>>
    BY <1>1, StatementParts DEF Kinds
  <2> HIDE DEF e
  <2>1. agenda[q][i] = e
    <3>1. CASE agenda[q] = <<>>
      BY <3>1
    <3>2. CASE agenda[q] = <<e>>
      BY <3>2
    <3> QED
      BY <2>0, <3>1, <3>2
  <2>2. agenda[q][i].of = <<news[q], q>>
    BY <2>0, <2>1
  <2>3. <<news[q], q>> # <<news[p], p>> /\ <<news[q], q>> \notin Carried
    BY NewsIsNoLine
  <2> QED
    BY <1>0, <2>2, <2>3
<1>2. CASE goal[q] # "session"
  <2>1. agenda[q][i].of \in Carried
    BY <1>2 DEF KnownEvents, Within, Known, Carried
  <2>2. Building(q)
    <3>1. agenda[q] # <<>>
      <4>1. agenda[q] = <<>> => Len(agenda[q]) = 0
        OBVIOUS
      <4> QED
        BY <4>1
    <3> QED
      BY <1>2, <3>1 DEF Placed, Working, Building, Ended
  <2>3. goal[p] = "session"
    BY <1>0, <2>2 DEF OneBuilder
  <2>4. <<news[p], p>> \notin Carried
    BY NewsIsNoLine
  <2> QED
    BY <1>0, <2>1, <2>3, <2>4
<1> QED
  BY <1>1, <1>2

Undisturbed ==
  /\ TypeOK /\ Placed /\ OneBuilder /\ StackHolds /\ Kinds /\ KnownEvents
  /\ LogKnowsFirst /\ LoggedOnce /\ FilesAgree /\ NothingTwice /\ mishap = Clean

\* The rows and the facts of another process's step are not those of this one.
LEMMA OthersInsertOnce ==
  ASSUME Undisturbed, NEW p \in Procs, Act(p), mishap' = Clean, NEW q \in Procs, q # p
  PROVE  InsertsOnce(q)'
<1>0. /\ TypeOK /\ Placed /\ OneBuilder /\ Kinds /\ KnownEvents /\ InsertsOnce(q)
      /\ mishap = Clean /\ mishap # Overlap
  BY DEF Undisturbed, NothingTwice, Clean, Overlap
<1>1. /\ pc'[q] = pc[q] /\ goal'[q] = goal[q] /\ news'[q] = news[q]
      /\ agenda'[q] = agenda[q] /\ stack'[q] = stack[q]
      /\ Subject(q)' = Subject(q) /\ (Building(q)' <=> Building(q))
  BY <1>0, OthersKeep DEF Subject, Building
<1>2. rows' \subseteq rows \/ (InsertRow(p) /\ rows' = rows \cup {Subject(p)})
  BY TablesNext
<1>3. ASSUME NEW i \in 1 .. Len(agenda[q]), agenda[q][i].op = "event", pc[q] = "fts" => i > 1
      PROVE  agenda[q][i].of \notin rows'
  <2>1. agenda[q][i].of \notin rows
    BY <1>0, <1>3 DEF InsertsOnce
  <2>2. InsertRow(p) => agenda[q][i].of # Subject(p)
    BY <1>0, <1>3, NotTheSameEvent
  <2> QED
    BY <1>2, <2>1, <2>2
<1>4. pc[q] = "insertFact" => Subject(q) \notin facts'
  <2> SUFFICES ASSUME pc[q] = "insertFact" PROVE facts' \subseteq facts
    BY <1>0 DEF InsertsOnce
  <2>1. WriteFact(p) => Building(p) /\ Building(q)
    BY <1>0 DEF WriteFact, Placed, Building, Ended
  <2>2. ~WriteFact(p)
    BY <1>0, <2>1 DEF OneBuilder
  <2> QED
    BY <2>2, TablesNext
<1>5. stack[q] # <<>> => rows' \cap Carried = {}
  <2> SUFFICES ASSUME stack[q] # <<>>, InsertRow(p) PROVE Subject(p) \notin Carried
    BY <1>0, <1>2 DEF InsertsOnce
  <2>1. goal[p] = "session"
    <3>1. Building(q)
      BY <1>0 DEF InsertsOnce
    <3>2. ~Building(p)
      BY <1>0, <3>1 DEF OneBuilder
    <3>3. pc[p] = "work"
      BY DEF InsertRow, Ahead
    <3> QED
      BY <3>2, <3>3 DEF Building, Ended
  <2> QED
    BY <1>0, <2>1, InsertedRow, NewsIsNoLine
<1> QED
  BY <1>0, <1>1, <1>3, <1>4, <1>5 DEF InsertsOnce

\* The stores that were read: one at most, while there is no row of a file.
LEMMA OwnStackOnce ==
  ASSUME Undisturbed, NEW p \in Procs, Act(p), mishap' = Clean
  PROVE  stack'[p] # <<>> =>
           Building(p)' /\ agenda'[p] = <<>> /\ Len(stack'[p]) = 1 /\ rows' \cap Carried = {}
<1> SUFFICES ASSUME stack'[p] # <<>>
             PROVE  /\ Building(p)' /\ agenda'[p] = <<>> /\ Len(stack'[p]) = 1
                    /\ rows' \cap Carried = {}
  OBVIOUS
<1>0. /\ TypeOK /\ Placed /\ Kinds /\ KnownEvents /\ InsertsOnce(p) /\ FileOf(p) /\ mishap < Torn
      /\ pc \in [Procs -> StatementPcs \cup Ended \cup {"idle", "vector", "running"}]
      /\ goal \in [Procs -> {"migrate", "index", "session"}]
      /\ agenda[p] \in Seq(Statements) /\ stack[p] \in Seq(Seq(Statements))
  BY DEF Undisturbed, NothingTwice, FilesAgree, Clean, Torn, TypeOK
<1>1. CASE ReadLegacy(p)
  <2>1. pc[p] = "raw" /\ db = "text"
    BY <1>0, <1>1 DEF ReadLegacy, FileOf
  <2>2. stack[p] = <<>> /\ rows = {}
    BY <1>0, <2>1 DEF FileOf, TypeOK
  <2>3. stack'[p] = <<LegacyAgenda(db)>> \o stack[p]
    BY <1>0, <1>1, <2>1 DEF ReadLegacy, TypeOK
  <2>4. Len(stack'[p]) = 1
    <3> DEFINE a == LegacyAgenda(db)
    <3>1. stack'[p] = <<a>> \o <<>>
      BY <2>2, <2>3
    <3> HIDE DEF a
    <3>2. <<a>> \in Seq({a}) /\ <<>> \in Seq({a}) /\ Len(<<a>>) = 1 /\ Len(<<>>) = 0
      OBVIOUS
    <3>3. Len(<<a>> \o <<>>) = 1
      BY <3>2, ConcatProperties
    <3> QED
      BY <3>1, <3>3
  <2>5. agenda[p] = <<>> /\ agenda' = agenda /\ rows' = rows
    BY <1>0, <1>1, <2>1 DEF ReadLegacy, Placed, Working, tables
  <2>6. Building(p)'
    BY <1>0, <1>1, <2>1 DEF ReadLegacy, Placed, Building, Ended, Goto
  <2> QED
    BY <2>2, <2>4, <2>5, <2>6
<1>2. CASE Schema(p)
  <2> SUFFICES ASSUME stack[p] # <<>> PROVE FALSE
    BY <1>0, <1>2 DEF Schema
  <2>1. Len(stack[p]) = 1 /\ stack'[p] = Tail(stack[p])
    BY <1>0, <1>2 DEF Schema, InsertsOnce, TypeOK
  <2>2. Tail(stack[p]) \in Seq(Seq(Statements)) /\ Len(Tail(stack[p])) = 1 - 1
    BY <1>0, <2>1, HeadAndTail
  <2> QED
    <3>1. Len(Tail(stack[p])) = 0
      BY <2>2
    <3>2. Tail(stack[p]) = <<>>
      BY ONLY <2>2, <3>1, EmptySeq
    <3> QED
      BY <2>1, <3>2
<1>3. CASE Fail(p) \/ Die(p)
  BY <1>0, <1>3 DEF Fail, Die, TypeOK
<1>4. CASE ~ReadLegacy(p) /\ ~Schema(p) /\ ~Fail(p) /\ ~Die(p)
  <2>1. stack' = stack
    BY <1>4, AgendaNext
  <2>2. stack[p] # <<>> /\ goal[p] = "migrate" /\ Building(p) /\ agenda[p] = <<>>
          /\ Len(stack[p]) = 1 /\ rows \cap Carried = {}
    BY <1>0, <2>1 DEF InsertsOnce, Placed
  <2>3. agenda'[p] = <<>>
    <3>1. ~CheckSource(p) /\ ~AppendLog(p)
      BY <1>0, <2>2 DEF CheckSource, AppendLog, Placed
    <3> QED
      BY <1>0, <1>4, <2>2, <3>1, OwnAgenda
  <2>4. rows' \cap Carried = {}
    <3>1. ~InsertRow(p)
      BY <2>2 DEF InsertRow, Ahead
    <3> QED
      BY <2>2, <3>1, TablesNext
  <2>5. Building(p)'
    <3>1. ~Built(p) /\ ~Recall(p) /\ ~AppendLog(p) /\ ~PutVector(p) /\ ~Build(p) /\ ~CheckSource(p)
      BY <1>0, <2>2 DEF Built, Recall, AppendLog, PutVector, Build, CheckSource, Placed, Building, Ended
    <3>2. Header(p) => db # "absent"
      BY <1>0 DEF Header, FileOf
    <3>3. Rename(p) => db # "absent"
      BY <1>0 DEF Rename, FileOf
    <3> QED
      BY <1>0, <1>4, <2>2, <3>1, <3>2, <3>3 DEF Building, Ended, Act, Step, Exists, Header,
        AfterHeader, Rename, Open, InsertRow, InsertSearchable, SelectFact, WriteFact, OpenOuter,
        MarkSource, Finish, Goto, local, Ahead
  <2> QED
    BY <2>1, <2>2, <2>3, <2>4, <2>5
<1> QED
  BY <1>1, <1>2, <1>3, <1>4

\* What a process takes up is not in the index, and what it goes on with was not.
LEMMA OwnInsertOnce ==
  ASSUME Undisturbed, NEW p \in Procs, Act(p), mishap' = Clean
  PROVE  InsertsOnce(p)'
<1>0. /\ TypeOK /\ Placed /\ OneBuilder /\ StackHolds /\ Kinds /\ KnownEvents /\ InsertsOnce(p)
      /\ LogKnowsFirst /\ LoggedOnce /\ mishap # Overlap
      /\ pc \in [Procs -> StatementPcs \cup Ended \cup {"idle", "vector", "running"}]
      /\ agenda[p] \in Seq(Statements) /\ agenda \in [Procs -> Seq(Statements)]
  BY DEF Undisturbed, NothingTwice, Clean, Overlap, TypeOK
<1> DEFINE Good(q) ==
      /\ Distinct(q)
      /\ goal'[p] # "session" => Announced(q)
      /\ \A i \in 1 .. Len(q) :
           q[i].op = "event" /\ (pc'[p] = "fts" => i > 1) => q[i].of \notin rows'
<1>1. Good(agenda'[p])
  <2>1. CASE agenda'[p] = <<>>
    BY <2>1, NothingLeft DEF Orderly
  <2>2. CASE agenda[p] # <<>> /\ agenda'[p] = agenda[p] /\ goal' = goal
    <3>1. CASE InsertRow(p)
      <4>1. /\ rows' = rows \cup {Subject(p)} /\ pc[p] = "work" /\ pc'[p] = "fts"
            /\ agenda[p][1] = Event(Subject(p)) /\ agenda[p][1].op = "event"
            /\ 1 \in 1 .. Len(agenda[p])
        BY <1>0, <3>1, InsertedRow DEF InsertRow, RowsWith, Goto
      <4>2. ASSUME NEW i \in 1 .. Len(agenda[p]), agenda[p][i].op = "event", i > 1
            PROVE  agenda[p][i].of \notin rows'
        <5>1. agenda[p][i].of \notin rows
          BY <1>0, <4>1, <4>2 DEF InsertsOnce
        <5>2. agenda[p][i].of # Subject(p)
          <6> SUFFICES ASSUME agenda[p][i].of = Subject(p) PROVE FALSE
            OBVIOUS
          <6>1. agenda[p][i] \in Statements
            BY <1>0, ElementOfSeq
          <6>2. agenda[p][i] = agenda[p][1]
            BY <4>1, <4>2, <6>1, StatementKinds
          <6> QED
            BY <1>0, <4>1, <4>2, <6>2 DEF InsertsOnce, Distinct
        <5> QED
          BY <4>1, <5>1, <5>2
      <4> QED
        BY <1>0, <2>2, <4>1, <4>2 DEF InsertsOnce
    <3>2. CASE ~InsertRow(p)
      <4>1. rows' \subseteq rows
        BY <3>2, TablesNext
      <4>2. pc[p] = "fts" => pc'[p] = "fts"
        <5>1. ~InsertSearchable(p) /\ ~Fail(p) /\ ~Die(p)
          <6>1. Len(agenda[p]) \in Nat /\ Len(Tail(agenda[p])) = Len(agenda[p]) - 1
            BY <1>0, <2>2, HeadAndTail
          <6>2. agenda[p] # Tail(agenda[p])
            <7> SUFFICES ASSUME Tail(agenda[p]) = agenda[p] PROVE FALSE
              OBVIOUS
            <7>1. Len(Tail(agenda[p])) = Len(agenda[p])
              OBVIOUS
            <7>2. \A n \in Nat : n # n - 1
              OBVIOUS
            <7> QED
              BY <6>1, <7>1, <7>2
          <6>3. InsertSearchable(p) => agenda'[p] = Tail(agenda[p])
            BY <1>0 DEF InsertSearchable, Advance
          <6>4. Fail(p) \/ Die(p) => agenda'[p] = <<>>
            BY <1>0 DEF Fail, Die
          <6> QED
            BY <2>2, <6>2, <6>3, <6>4
        <5> QED
          BY <5>1 DEF Act, Step, Build, Exists, Header, ReadLegacy, Rename, Open, Schema,
            InsertRow, SelectFact, WriteFact, OpenOuter, MarkSource, Finish, CheckSource, Built,
            Recall, AppendLog, PutVector, Ahead
      <4> QED
        BY <1>0, <2>2, <4>1, <4>2 DEF InsertsOnce
    <3> QED
      BY <3>1, <3>2
  <2>3. CASE /\ InsertSearchable(p) \/ WriteFact(p) \/ OpenOuter(p) \/ MarkSource(p)
             /\ agenda[p] # <<>> /\ agenda'[p] = Tail(agenda[p]) /\ goal' = goal
    <3>1. rows' = rows /\ pc'[p] = "work"
      BY <1>0, <2>3 DEF InsertSearchable, WriteFact, OpenOuter, MarkSource, Goto, Ahead, tables
    <3>2. /\ Distinct(Tail(agenda[p]))
          /\ Announced(agenda[p]) => Announced(Tail(agenda[p]))
      BY <1>0, <2>3, TailKeeps DEF InsertsOnce
    <3>3. /\ Len(agenda[p]) \in Nat /\ Len(Tail(agenda[p])) = Len(agenda[p]) - 1
          /\ \A i \in 1 .. Len(agenda[p]) - 1 : Tail(agenda[p])[i] = agenda[p][i + 1]
      BY <1>0, <2>3, HeadAndTail
    <3>4. ASSUME NEW i \in 1 .. Len(Tail(agenda[p])), Tail(agenda[p])[i].op = "event"
          PROVE  Tail(agenda[p])[i].of \notin rows
      <4>1. i + 1 \in 1 .. Len(agenda[p]) /\ i + 1 > 1 /\ Tail(agenda[p])[i] = agenda[p][i + 1]
        BY <3>3
      <4> QED
        BY <1>0, <3>4, <4>1 DEF InsertsOnce
    <3> QED
      BY <1>0, <2>3, <3>1, <3>2, <3>4 DEF InsertsOnce
  <2>4. CASE Schema(p) /\ stack[p] # <<>> /\ agenda'[p] = Head(stack[p])
    <3>1. Orderly(agenda'[p]) /\ Within(agenda'[p], Carried)
      BY <1>0, <2>4, TopOfStack, ReopenOnly, LegacyOrderly
    <3>2. rows' = rows /\ rows \cap Carried = {}
      BY <1>0, <2>4 DEF Schema, InsertsOnce, tables
    <3> QED
      BY <3>1, <3>2 DEF Orderly, Within
  <2>5. CASE CheckSource(p) /\ agenda' # agenda
    <3>1. PICK s \in todo[p] : /\ agenda' = [agenda EXCEPT ![p] = IndexAgenda(s)]
                               /\ Note(IF db' = "empty" THEN Torn
                                       ELSE IF s \in marked THEN Trouble ELSE Clean)
      BY <2>5 DEF CheckSource
    <3>2. s \in Sources /\ agenda'[p] = IndexAgenda(s) /\ rows' = rows
      BY <1>0, <2>5, <3>1 DEF CheckSource, TypeOK, tables
    <3>3. s \notin marked
      BY <3>1 DEF Note, Torn, Trouble, Clean, Undisturbed
    <3>4. ~Indexing(s)
      <4> SUFFICES ASSUME NEW q \in Procs, goal[q] # "session", agenda[q] # <<>> PROVE FALSE
        BY DEF Indexing
      <4>1. Building(q)
        BY <1>0 DEF Building, Placed, Working, Ended
      <4>2. Building(p) /\ agenda[p] = <<>>
        BY <1>0, <2>5 DEF CheckSource, Building, Placed, Working, Ended
      <4> QED
        BY <1>0, <4>1, <4>2 DEF OneBuilder
    <3>5. Lines(s) \cap rows = {}
      BY <3>2, <3>3, <3>4 DEF Undisturbed, NothingTwice
    <3> QED
      BY <3>2, <3>5, IndexAgendaOrderly DEF Orderly
  <2>6. CASE AppendLog(p) /\ agenda'[p] = <<Event(<<news[p], p>>)>> /\ goal[p] = "session" /\ goal' = goal
    <3> DEFINE e == Event(<<news[p], p>>)
    <3>1. rows' = rows /\ pc[p] = "log" /\ agenda'[p] = <<e>> /\ e.of = <<news[p], p>>
      BY <2>6, StatementParts DEF AppendLog, tables
    <3>2. <<news[p], p>> \notin log
      <4>1. pc[p] \notin {"work", "fts", "vector", "running"} \cup Ended
        BY <3>1 DEF Ended
      <4>2. news[p] \in {"prompt", "completed"}
        BY <1>0 DEF TypeOK
      <4>3. CASE news[p] = "prompt"
        BY <1>0, <4>1, <4>3 DEF LoggedOnce
      <4>4. CASE news[p] = "completed"
        BY <1>0, <4>1, <4>4 DEF LoggedOnce
      <4> QED
        BY <4>2, <4>3, <4>4
    <3>3. <<news[p], p>> \notin rows
      BY <1>0, <3>2, NewsIsNoLine DEF LogKnowsFirst, Carried
    <3> HIDE DEF e
    <3>4. Len(<<e>>) = 1 /\ <<e>>[1] = e
      OBVIOUS
    <3>5. Distinct(<<e>>) /\ \A i \in 1 .. Len(<<e>>) : <<e>>[i].of \notin rows'
      BY <3>1, <3>3, <3>4 DEF Distinct
    <3> QED
      BY <2>6, <3>1, <3>5
  <2>7. CheckSource(p) => agenda' # agenda \/ agenda'[p] = <<>>
    BY <1>0 DEF CheckSource, Placed, Working
  <2> HIDE DEF Good
  <2> QED
    BY <1>0, <2>1, <2>2, <2>3, <2>4, <2>5, <2>6, <2>7, OwnAgenda
<1>2. pc'[p] = "insertFact" => Subject(p)' \notin facts'
  <2> SUFFICES ASSUME pc'[p] = "insertFact" PROVE Subject(p)' \notin facts'
    OBVIOUS
  <2>1. SelectFact(p)
    BY <1>0 DEF Act, Step, Build, Exists, Header, AfterHeader, ReadLegacy, Rename, Open, Schema,
      InsertRow, InsertSearchable, WriteFact, OpenOuter, MarkSource, Finish, CheckSource, Built,
      Recall, AppendLog, PutVector, AfterSession, Fail, Die, Goto, Ahead
  <2>2. Subject(p)' = Subject(p) /\ facts' = facts
    BY <2>1 DEF SelectFact, Subject, local, tables
  <2>3. Subject(p) \notin facts
    BY <1>0, <2>1 DEF SelectFact, Goto, Note, Trouble, Clean, Undisturbed
  <2> QED
    BY <2>2, <2>3
<1>3. stack'[p] # <<>> =>
        Building(p)' /\ agenda'[p] = <<>> /\ Len(stack'[p]) = 1 /\ rows' \cap Carried = {}
  BY OwnStackOnce
<1> QED
  BY <1>1, <1>2, <1>3 DEF InsertsOnce

\* A line of a file that has no mark yet has a mark to come.
LEMMA MarksToCome ==
  ASSUME Undisturbed, NEW p \in Procs, Act(p), mishap' = Clean, NEW s \in Sources
  PROVE  s \in marked' \/ Lines(s) \cap rows' = {} \/ Indexing(s)'
<1>0. /\ TypeOK /\ Placed /\ Kinds /\ KnownEvents /\ InsertsOnce(p)
      /\ agenda[p] \in Seq(Statements)
  BY DEF Undisturbed, NothingTwice, TypeOK
<1>1. s \in marked \/ Lines(s) \cap rows = {} \/ Indexing(s)
  BY DEF Undisturbed, NothingTwice
<1>2. marked \subseteq marked' \/ rows' = {}
  BY TablesNext
<1>3. CASE Indexing(s)
  <2>1. PICK q \in Procs : goal[q] # "session" /\ \E j \in 1 .. Len(agenda[q]) : agenda[q][j] = Mark(s)
    BY <1>3 DEF Indexing
  <2>2. PICK j \in 1 .. Len(agenda[q]) : agenda[q][j] = Mark(s)
    BY <2>1
  <2>3. CASE q # p
    <3>1. goal'[q] = goal[q] /\ agenda'[q] = agenda[q]
      BY <1>0, <2>3, OthersKeep
    <3> QED
      BY <2>1, <3>1 DEF Indexing
  <2>4. CASE q = p
    <3>1. agenda[p] # <<>>
      <4>1. agenda[p] = <<>> => Len(agenda[p]) = 0
        OBVIOUS
      <4> QED
        BY <4>1, <2>2, <2>4
    <3>2. Building(p)
      BY <1>0, <2>1, <2>4, <3>1 DEF Building, Placed, Working, Ended
    <3>3. ~Fail(p) /\ ~Die(p)
      BY <1>0, <3>2, MishapGrows DEF Clean, Torn, Overlap
    <3>4. ~Schema(p) /\ ~CheckSource(p) /\ ~AppendLog(p)
      BY <1>0, <3>1 DEF Schema, CheckSource, AppendLog, Placed, Working
    <3>5. CASE agenda'[p] = agenda[p] /\ goal' = goal
      BY <2>1, <2>2, <2>4, <3>5 DEF Indexing
    <3>6. CASE /\ InsertSearchable(p) \/ WriteFact(p) \/ OpenOuter(p) \/ MarkSource(p)
               /\ agenda'[p] = Tail(agenda[p]) /\ goal' = goal
      <4>1. /\ Len(agenda[p]) \in Nat /\ Len(Tail(agenda[p])) = Len(agenda[p]) - 1
            /\ Head(agenda[p]) = agenda[p][1]
            /\ \A i \in 1 .. Len(agenda[p]) - 1 : Tail(agenda[p])[i] = agenda[p][i + 1]
        BY <1>0, <3>1, HeadAndTail
      <4>2. CASE j = 1
        <5>1. Head(agenda[p]).op = "mark" /\ Subject(p) = s
          BY <2>2, <2>4, <4>1, <4>2, StatementParts DEF Subject
        <5>2. MarkSource(p)
          BY <1>0, <3>6, <5>1 DEF InsertSearchable, WriteFact, OpenOuter, Placed, Ahead
        <5> QED
          BY <5>1, <5>2 DEF MarkSource
      <4>3. CASE j # 1
        <5>1. j - 1 \in 1 .. Len(agenda[p]) - 1 /\ (j - 1) + 1 = j
          BY <2>2, <2>4, <4>1, <4>3
        <5>2. Tail(agenda[p])[j - 1] = Mark(s)
          BY <2>2, <2>4, <4>1, <5>1
        <5>3. j - 1 \in 1 .. Len(agenda'[p]) /\ agenda'[p][j - 1] = Mark(s)
          BY <3>6, <4>1, <5>1, <5>2
        <5> QED
          BY <2>1, <2>4, <3>6, <5>3 DEF Indexing
      <4> QED
        BY <4>2, <4>3
    <3> HIDE DEF Act
    <3> QED
      BY <1>0, <3>1, <3>3, <3>4, <3>5, <3>6, OwnAgenda
  <2> QED
    BY <2>3, <2>4
<1>4. CASE Lines(s) \cap rows = {}
  <2>1. CASE rows' \subseteq rows
    BY <1>4, <2>1
  <2>2. CASE InsertRow(p) /\ rows' = rows \cup {Subject(p)} /\ Subject(p) \in Lines(s)
    <3>1. Subject(p) \in DiskLines /\ Subject(p) \in Carried
      BY <2>2, LinesAreEntries DEF Carried
    <3>2. goal[p] # "session"
      <4> SUFFICES ASSUME goal[p] = "session" PROVE FALSE
        OBVIOUS
      <4>1. Subject(p) = <<news[p], p>>
        BY <1>0, <2>2, InsertedRow
      <4> QED
        BY <1>0, <3>1, <4>1, NewsIsNoLine
    <3>3. /\ 1 \in 1 .. Len(agenda[p]) /\ agenda[p][1].op = "event"
          /\ Subject(p) = agenda[p][1].of
      BY <1>0, <2>2, InsertedRow
    <3>4. PICK s2 \in Sources : /\ Subject(p) \in Lines(s2)
                                /\ \E j \in 1 + 1 .. Len(agenda[p]) : agenda[p][j] = Mark(s2)
      BY <1>0, <3>1, <3>2, <3>3 DEF InsertsOnce, Announced
    <3>5. s2 = s
      BY <2>2, <3>4 DEF Lines
    <3>6. goal' = goal /\ agenda' = agenda
      BY <2>2 DEF InsertRow, local
    <3>7. \E j \in 1 .. Len(agenda[p]) : agenda[p][j] = Mark(s)
      BY <3>4, <3>5
    <3> QED
      BY <3>2, <3>6, <3>7 DEF Indexing
  <2>3. CASE InsertRow(p) /\ rows' = rows \cup {Subject(p)} /\ Subject(p) \notin Lines(s)
    BY <1>4, <2>3
  <2> QED
    BY <2>1, <2>2, <2>3, TablesNext
<1>5. CASE s \in marked
  BY <1>2, <1>5
<1> QED
  BY <1>1, <1>3, <1>4, <1>5

LEMMA NothingDoubled ==
  ASSUME Undisturbed, NEW p \in Procs, Act(p)
  PROVE  ~doubled'
<1>0. TypeOK /\ Kinds /\ KnownEvents /\ InsertsOnce(p) /\ ~doubled
  BY DEF Undisturbed, NothingTwice
<1>1. CASE InsertRow(p)
  <2>1. Subject(p) \notin rows
    BY <1>0, <1>1, InsertedRow DEF InsertsOnce
  <2> QED
    BY <1>0, <1>1, <2>1 DEF InsertRow
<1>2. CASE WriteFact(p)
  BY <1>0, <1>2 DEF WriteFact, InsertsOnce
<1>3. CASE ~InsertRow(p) /\ ~WriteFact(p)
  BY <1>0, <1>3 DEF Act, Step, Build, Exists, Header, ReadLegacy, Rename, Open, Schema,
    InsertSearchable, SelectFact, OpenOuter, MarkSource, Finish, CheckSource, Built, Recall,
    AppendLog, PutVector, Fail, Die
<1> QED
  BY <1>1, <1>2, <1>3

LEMMA OnceNext ==
  /\ TypeOK /\ Placed /\ OneBuilder /\ StackHolds /\ Kinds /\ KnownEvents /\ LogKnowsFirst
  /\ LoggedOnce /\ FilesAgree /\ UndisturbedOnce /\ [Next]_vars
  => UndisturbedOnce'
<1> SUFFICES ASSUME TypeOK, Placed, OneBuilder, StackHolds, Kinds, KnownEvents, LogKnowsFirst,
                    LoggedOnce, FilesAgree, UndisturbedOnce, [Next]_vars, mishap' = Clean
             PROVE  NothingTwice'
  BY DEF UndisturbedOnce
<1>1. CASE UNCHANGED vars
  BY <1>1 DEF vars, UndisturbedOnce, NothingTwice, InsertsOnce, Building, Subject, Indexing
<1>2. ASSUME NEW p \in Procs, Act(p) PROVE NothingTwice'
  <2>1. mishap = Clean
    BY <1>2, MishapGrows DEF Clean, Overlap
  <2>2. Undisturbed
    BY <2>1 DEF Undisturbed, UndisturbedOnce
  <2>3. \A q \in Procs : InsertsOnce(q)'
    BY <1>2, <2>2, OthersInsertOnce, OwnInsertOnce
  <2>4. \A s \in Sources : s \in marked' \/ Lines(s) \cap rows' = {} \/ Indexing(s)'
    BY <1>2, <2>2, MarksToCome
  <2>5. ~doubled'
    BY <1>2, <2>2, NothingDoubled
  <2> QED
    BY <2>3, <2>4, <2>5 DEF NothingTwice
<1> QED
  BY <1>1, <1>2 DEF Next, Act

LEMMA BudgetNext == TypeOK /\ RecallWithinBudget /\ [Next]_vars => RecallWithinBudget'
<1> SUFFICES ASSUME TypeOK, RecallWithinBudget, [Next]_vars PROVE RecallWithinBudget'
  OBVIOUS
<1>0. MaxItems \in Nat /\ MaxTokens \in Nat /\ Len(<<>>) <= MaxItems /\ Tokens(<<>>) <= MaxTokens
  BY NoTokens, MemoryAssumption
<1>1. CASE UNCHANGED vars
  BY <1>1 DEF vars, RecallWithinBudget
<1>2. ASSUME NEW p \in Procs, Act(p) PROVE RecallWithinBudget'
  <2>1. hits \in [Procs -> Seq(Nat)]
    BY DEF TypeOK
  <2> HIDE DEF Act
  <2> QED
    BY <1>0, <1>2, <2>1, HitsNext DEF RecallWithinBudget
<1> QED
  BY <1>1, <1>2 DEF Next, Act

LEMMA InitInv == Init => IInv
<1> SUFFICES ASSUME Init PROVE IInv
  OBVIOUS
<1>1. TypeOK
  <2>1. ControlTyped
    BY DEF Init, ControlTyped, StatementPcs, Ended
  <2>2. ListsTyped
    BY DEF Init, ListsTyped
  <2>3. FilesTyped
    <3>1. doubled \in BOOLEAN /\ hadOld \in BOOLEAN
      BY DEF Init
    <3>2. mishap \in Clean .. Overlap
      BY DEF Init, Clean, Overlap
    <3> QED
      BY <3>1, <3>2 DEF Init, FilesTyped
  <2> QED
    BY <2>1, <2>2, <2>3, TypeParts
<1>2. Placed /\ OneBuilder /\ Connected /\ HeadIsRow /\ TextWasThere
  BY DEF Init, Placed, Working, OneBuilder, Building, Connected, HeadIsRow, TextWasThere, Ended
<1>3. StackHolds /\ Kinds /\ KnownEvents /\ MarksEarned
  BY NothingLeft DEF Init, StackHolds, Kinds, KnownEvents, MarksEarned
<1>4. SearchableIsStored /\ LogKnowsFirst /\ LoggedOnce /\ MarkedIsIndexed
  BY DEF Init, SearchableIsStored, LogKnowsFirst, LoggedOnce, MarkedIsIndexed
<1>5. FilesAgree
  BY DEF Init, FilesAgree, FileOf, Working, Clean, Torn, Overlap
<1>6. UndisturbedOnce
  BY NothingLeft DEF Init, UndisturbedOnce, NothingTwice, InsertsOnce, Orderly
<1>7. RecallWithinBudget
  BY NoTokens, MemoryAssumption DEF Init, RecallWithinBudget
<1> QED
  BY <1>1, <1>2, <1>3, <1>4, <1>5, <1>6, <1>7 DEF IInv

LEMMA NextInv == IInv /\ [Next]_vars => IInv'
<1> SUFFICES ASSUME IInv, [Next]_vars PROVE IInv'
  OBVIOUS
<1>1. TypeOK' /\ Placed' /\ OneBuilder' /\ Connected' /\ TextWasThere' /\ StackHolds'
  BY TypeNext, PlacedNext, OneBuilderNext, ConnectedNext, TextNext, StackNext DEF IInv
<1>2. HeadIsRow' /\ SearchableIsStored'
  BY StoredNext DEF IInv
<1>3. Kinds' /\ KnownEvents' /\ LogKnowsFirst' /\ LoggedOnce'
  BY <1>2, KindsNext, KnownNext, LogKnowsNext, LoggedNext DEF IInv
<1>4. MarksEarned' /\ MarkedIsIndexed' /\ FilesAgree'
  BY MarksEarnedNext, MarkedNext, FilesAgreeNext DEF IInv
<1>5. UndisturbedOnce'
  BY OnceNext DEF IInv
<1>6. RecallWithinBudget'
  BY BudgetNext DEF IInv
<1> QED
  BY <1>1, <1>2, <1>3, <1>4, <1>5, <1>6 DEF IInv

\* Database, agendas, connections and marks stay in step, statement by statement.
THEOREM Inductive == Spec => []IInv
BY InitInv, NextInv, PTL DEF Spec

-----------------------------------------------------------------------------
(* What it is for *)

\* The parts of the memory have their types, and only a database has tables.
THEOREM TypeCorrect == Spec => []TypeOK
<1>1. IInv => TypeOK
  BY DEF IInv
<1> QED
  BY <1>1, Inductive, PTL

\* The full-text index finds nothing that the table does not hold, although the two
\* INSERTs of ingest_session_event commit one by one.
THEOREM FoundIsStored == Spec => []SearchableIsStored
<1>1. IInv => SearchableIsStored
  BY DEF IInv
<1> QED
  BY <1>1, Inductive, PTL

\* A mark in indexed_sources never hides a line, whoever died before it was set.
THEOREM MarksHideNothing == Spec => []MarkedIsIndexed
<1>1. IInv => MarkedIsIndexed
  BY DEF IInv
<1> QED
  BY <1>1, Inductive, PTL

\* The rename of a migration never overwrites the only copy of the text store.
THEOREM TextStoreSurvives == Spec => []OldStoreKept
<1>1. IInv => OldStoreKept
  BY DEF IInv, FilesAgree, OldStoreKept, InTurnAndWhole
<1> QED
  BY <1>1, Inductive, PTL

\* Builds that nothing disturbs insert no line and no fact twice.
THEOREM OneRowPerLine == Spec => []IndexedOnce
<1>1. IInv => IndexedOnce
  BY DEF IInv, UndisturbedOnce, NothingTwice, IndexedOnce
<1> QED
  BY <1>1, Inductive, PTL

\* ingest_event writes the log before the index and the vector store.
THEOREM LogComesFirst == Spec => []LogKnowsFirst
<1>1. IInv => LogKnowsFirst
  BY DEF IInv
<1> QED
  BY <1>1, Inductive, PTL

\* What trim_to_token_budget leaves for a prompt keeps to both budgets.
THEOREM BudgetIsKept == Spec => []RecallWithinBudget
<1>1. IInv => RecallWithinBudget
  BY DEF IInv
<1> QED
  BY <1>1, Inductive, PTL

\* Nothing is taken from the index while no two builds overlap: the rename moves
\* a text store only.
THEOREM IndexKeepsAll == Spec => IndexNeverShrinks
<1>1. IInv /\ [Next]_vars
        => [mishap # Overlap => searchable \subseteq searchable' /\ marked \subseteq marked']_vars
  <2> SUFFICES ASSUME IInv, NEW p \in Procs, Act(p), mishap # Overlap
               PROVE  searchable \subseteq searchable' /\ marked \subseteq marked'
    BY DEF Next, Act, vars
  <2>1. Rename(p) => searchable = {} /\ marked = {}
    <3>1. Rename(p) => db # "sqlite"
      BY DEF Rename, IInv, FilesAgree
    <3> QED
      BY <3>1 DEF IInv, TypeOK
  <2> QED
    BY <2>1, TablesNext
<1> QED
  BY <1>1, Inductive, PTL DEF Spec, IndexNeverShrinks

=============================================================================
