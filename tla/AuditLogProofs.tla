--------------------------- MODULE AuditLogProofs ---------------------------
(***************************************************************************)
(* Proofs about AuditLog for any finite set of runs, any ids they may      *)
(* share, any histories of bounded length and any number of cuts.          *)
(***************************************************************************)
EXTENDS AuditLog, TLAPS, SequenceTheorems, FiniteSetTheorems, WellFoundedInduction

-----------------------------------------------------------------------------
(* The inductive invariant                                                 *)

\* While no appends overlap, one at a time is under way.
OneWriter ==
  ~overlapped => \A r, q \in Runs : written[r] > 0 /\ written[q] > 0 => r = q

\* The tail that the fragments of one append make, started on a line of their own.
OwnTail(r) ==
  [at    |-> IF written[r] \in {1, 2} THEN "run_id" ELSE "event",
   runs  |-> IF written[r] = 1 THEN <<>> ELSE <<id[r]>>,
   texts |-> IF written[r] = 4 THEN <<history[r][said[r] + 1]>> ELSE <<>>]

\* The tail is empty between two appends and that of the append under way inside one.
Tidy ==
  \/ tail = Blank /\ \A r \in Runs : written[r] = 0
  \/ \E r \in Runs : written[r] > 0 /\ tail = OwnTail(r)

\* Otherwise it is what a cut has left, which garbles the next append.
Spoiled ==
  /\ tail.at \in {"run_id", "event", "garbled"}
  /\ (\E r \in Runs : written[r] > 0) => tail.at = "garbled"

TailIsKnown == ~overlapped => Tidy \/ Spoiled

\* A cut pays for the tail it leaves, and for the line that becomes of it; a text that
\* breaks its line pays for what becomes of that.
CutsPay ==
  ~overlapped =>
    Cardinality({i \in DOMAIN lines : ~Parses(lines[i])}) + (IF Tidy THEN 0 ELSE 1) <= cuts + spoils

\* Without cuts only a text that is under way leaves the tail untidy.
OddTail ==
  ~overlapped /\ cuts = 0 => Tidy \/ \E r \in odd : written[r] = 4

\* A line that parses is one that its run has said.
LinesAreSaid ==
  ~overlapped =>
    \A i \in DOMAIN lines :
      Parses(lines[i]) =>
        \E r \in Runs : \E k \in 1 .. said[r] :
          lines[i].runs = <<id[r]>> /\ lines[i].texts = <<history[r][k]>>

\* The lines of run r are the events it has said, in their places.
InPlace(r) ==
  /\ Cardinality(LinesOf(r)) = said[r]
  /\ \A i \in LinesOf(r) : Place(r, i) \in 1 .. said[r]
                           /\ lines[i].texts = <<history[r][Place(r, i)]>>

\* Without cuts that is so for the runs with an id of their own and texts that read.
LinesInPlace ==
  ~overlapped /\ cuts = 0 => \A r \in Runs \ odd : Bearers(r) = {r} => InPlace(r)

\* Every text that counts, in a line or in the tail, was begun by an append of its own.
InTail(event) == tail.texts # <<>> /\ tail.texts[1] = event
TextsAreBegun ==
  \A event \in Events \ WholeEvents :
    /\ Counted(event) <= Cardinality(Begun(event))
    /\ InTail(event) => Counted(event) + 1 <= Cardinality(Begun(event))

IInv ==
  /\ TypeOK
  /\ OneWriter
  /\ TailIsKnown
  /\ CutsPay
  /\ OddTail
  /\ LinesAreSaid
  /\ LinesInPlace
  /\ TextsAreBegun

-----------------------------------------------------------------------------
(* What the types say, and what a step does                                *)

LEMMA Facts ==
  ASSUME TypeOK
  PROVE  /\ DOMAIN said = Runs /\ DOMAIN written = Runs
         /\ odd \subseteq Runs /\ spoils \in Nat
         /\ \A r \in Runs : /\ said[r] \in Nat /\ said[r] <= Len(history[r])
                            /\ written[r] \in 0 .. 4
                            /\ written[r] > 0 => Appending(r)
                            /\ id[r] \in Ids /\ id[r] \notin Events
                            /\ history[r] \in Seq(Events) /\ Len(history[r]) \in Nat
                            /\ Len(history[r]) <= MaxLength
                            /\ \A k \in 1 .. Len(history[r]) : history[r][k] \in Events
         /\ lines \in Seq(TypedLines) /\ Len(lines) \in Nat
         /\ DOMAIN lines = 1 .. Len(lines)
         /\ \A i \in DOMAIN lines : lines[i] \in TypedLines
         /\ tail \in TypedLines
         /\ cuts \in Nat /\ MaxLength \in Nat /\ MaxCuts \in Nat
<1>1. /\ history \in [Runs -> Histories] /\ said \in [Runs -> 0 .. MaxLength]
      /\ written \in [Runs -> 0 .. 4] /\ lines \in Seq(TypedLines)
      /\ tail \in TypedLines /\ cuts \in 0 .. MaxCuts
      /\ \A r \in Runs : said[r] <= Len(history[r]) /\ (written[r] > 0 => Appending(r))
  BY DEF TypeOK
<1>2. \A r \in Runs : history[r] \in Histories
  BY <1>1
<1>3. \A r \in Runs : history[r] \in Seq(Events) /\ Len(history[r]) <= MaxLength
  BY <1>2, AuditLogAssumption
<1>4. /\ Len(lines) \in Nat /\ DOMAIN lines = 1 .. Len(lines)
      /\ \A i \in DOMAIN lines : lines[i] \in TypedLines
  BY <1>1
<1>5. \A r \in Runs : /\ Len(history[r]) \in Nat
                      /\ \A k \in 1 .. Len(history[r]) : history[r][k] \in Events
  BY <1>3
<1>6. MaxLength \in Nat /\ MaxCuts \in Nat
  BY AuditLogAssumption
<1>7. \A r \in Runs : id[r] \in Ids /\ id[r] \notin Events
  BY AuditLogAssumption DEF TypeOK
<1>8. odd \subseteq Runs /\ spoils \in Nat
  BY DEF TypeOK
<1> QED
  BY <1>1, <1>3, <1>4, <1>5, <1>6, <1>7, <1>8

LEMMA LineParts ==
  ASSUME NEW line \in TypedLines
  PROVE  /\ line.at \in {"start", "run_id", "event", "closed", "garbled"}
         /\ line.runs \in Seq(Ids \cup Events) /\ line.texts \in Seq(Ids \cup Events)
         /\ Len(line.texts) \in Nat
         /\ line = [at |-> line.at, runs |-> line.runs, texts |-> line.texts]
BY DEF TypedLines

\* What each fragment makes of a line.
LEMMA ExtendedBy ==
  ASSUME NEW line \in TypedLines, NEW c \in Ids \cup Events
  PROVE  /\ Extended(line, "open", c) =
              IF line.at = "start" THEN [at |-> "run_id", runs |-> line.runs, texts |-> line.texts]
              ELSE Garbled
         /\ Extended(line, "content", c) =
              IF line.at = "run_id"
                THEN [at |-> "run_id", runs |-> Append(line.runs, c), texts |-> line.texts]
              ELSE IF line.at = "event"
                THEN [at |-> "event", runs |-> line.runs, texts |-> Append(line.texts, c)]
              ELSE Garbled
         /\ Extended(line, "middle", c) =
              IF line.at = "run_id" THEN [at |-> "event", runs |-> line.runs, texts |-> line.texts]
              ELSE Garbled
         /\ Extended(line, "close", c) =
              IF line.at = "event" THEN [at |-> "closed", runs |-> line.runs, texts |-> line.texts]
              ELSE Garbled
<1>1. \A x : [line EXCEPT !.at = x] = [at |-> x, runs |-> line.runs, texts |-> line.texts]
  BY DEF TypedLines
<1>2. \A x : [line EXCEPT !.runs = x] = [at |-> line.at, runs |-> x, texts |-> line.texts]
  BY DEF TypedLines
<1>3. \A x : [line EXCEPT !.texts = x] = [at |-> line.at, runs |-> line.runs, texts |-> x]
  BY DEF TypedLines
<1> DEFINE A == [line EXCEPT !.at = "run_id"]
           B == [line EXCEPT !.at = "event"]
           C == [line EXCEPT !.at = "closed"]
           D == [line EXCEPT !.runs = Append(@, c)]
           E == [line EXCEPT !.texts = Append(@, c)]
<1>4. /\ Extended(line, "open", c) = IF line.at = "start" THEN A ELSE Garbled
      /\ Extended(line, "content", c) =
           IF line.at = "run_id" THEN D ELSE IF line.at = "event" THEN E ELSE Garbled
      /\ Extended(line, "middle", c) = IF line.at = "run_id" THEN B ELSE Garbled
      /\ Extended(line, "close", c) = IF line.at = "event" THEN C ELSE Garbled
  <2> HIDE DEF A, B, C, D, E
  <2> QED
    BY DEF Extended, Garbled, A, B, C, D, E
<1>5. /\ A = [at |-> "run_id", runs |-> line.runs, texts |-> line.texts]
      /\ B = [at |-> "event", runs |-> line.runs, texts |-> line.texts]
      /\ C = [at |-> "closed", runs |-> line.runs, texts |-> line.texts]
      /\ D = [at |-> line.at, runs |-> Append(line.runs, c), texts |-> line.texts]
      /\ E = [at |-> line.at, runs |-> line.runs, texts |-> Append(line.texts, c)]
  BY <1>1, <1>2, <1>3
<1> HIDE DEF A, B, C, D, E
<1> QED
  BY <1>4, <1>5

LEMMA GarbledParts ==
  /\ Garbled.at = "garbled" /\ Garbled.texts = <<>> /\ Garbled \in TypedLines
  /\ Blank.at = "start" /\ Blank.texts = <<>> /\ Blank.runs = <<>> /\ Blank \in TypedLines
  /\ ~ Parses(Garbled)
<1>1. <<>> \in Seq(Ids \cup Events)
  OBVIOUS
<1> QED
  BY <1>1 DEF Garbled, Blank, TypedLines, Parses

LEMMA ExtendedTyped ==
  ASSUME NEW line \in TypedLines, NEW c \in Ids \cup Events,
         NEW fragment \in {"open", "content", "middle", "close"}
  PROVE  Extended(line, fragment, c) \in TypedLines
<1>1. /\ Append(line.runs, c) \in Seq(Ids \cup Events)
      /\ Append(line.texts, c) \in Seq(Ids \cup Events)
  BY LineParts
<1>2. \A at \in {"run_id", "event", "closed"}, a, b \in Seq(Ids \cup Events) :
        [at |-> at, runs |-> a, texts |-> b] \in TypedLines
  BY DEF TypedLines
<1>3. line.runs \in Seq(Ids \cup Events) /\ line.texts \in Seq(Ids \cup Events)
  BY LineParts
<1>4. Extended(line, "open", c) \in TypedLines
  BY <1>2, <1>3, ExtendedBy, GarbledParts
<1>5. Extended(line, "content", c) \in TypedLines
  <2> DEFINE p == Append(line.runs, c)
             q == Append(line.texts, c)
  <2> HIDE DEF p, q
  <2>1. Extended(line, "content", c) =
          IF line.at = "run_id" THEN [at |-> "run_id", runs |-> p, texts |-> line.texts]
          ELSE IF line.at = "event" THEN [at |-> "event", runs |-> line.runs, texts |-> q]
          ELSE Garbled
    BY ExtendedBy DEF p, q
  <2>2. p \in Seq(Ids \cup Events) /\ q \in Seq(Ids \cup Events)
    BY <1>1 DEF p, q
  <2> QED
    BY <1>2, <1>3, <2>1, <2>2, GarbledParts
<1>6. Extended(line, "middle", c) \in TypedLines
  BY <1>2, <1>3, ExtendedBy, GarbledParts
<1>7. Extended(line, "close", c) \in TypedLines
  BY <1>2, <1>3, ExtendedBy, GarbledParts
<1> QED
  BY <1>4, <1>5, <1>6, <1>7

LEMMA ContentTyped ==
  ASSUME TypeOK, NEW r \in Runs, Appending(r)
  PROVE  /\ Content(r) \in Ids \cup Events
         /\ history[r][said[r] + 1] \in Events
<1>1. said[r] + 1 \in 1 .. Len(history[r])
  BY Facts DEF Appending
<1> QED
  BY <1>1, Facts DEF Content

\* The fragment written is told by how many there are.
LEMMA FragmentAt ==
  /\ Fragments[1] = "open" /\ Fragments[2] = "content" /\ Fragments[3] = "middle"
  /\ Fragments[4] = "content" /\ Fragments[5] = "close"
BY DEF Fragments

LEMMA WriteDoes ==
  ASSUME TypeOK, NEW r \in Runs, Write(r)
  PROVE  /\ Appending(r) /\ UNCHANGED <<id, history, alive, cuts, odd, spoils>>
         /\ overlapped' = (overlapped \/ \E q \in Runs \ {r} : written[q] > 0)
         /\ written[r] = 4 =>
              /\ lines' = Append(lines, Extended(tail, "close", Content(r)))
              /\ tail' = Blank
              /\ said' = [said EXCEPT ![r] = said[r] + 1]
              /\ written' = [written EXCEPT ![r] = 0]
         /\ written[r] # 4 =>
              /\ written[r] \in 0 .. 3
              /\ Fragments[written[r] + 1] \in {"open", "content", "middle"}
              /\ tail' = Extended(tail, Fragments[written[r] + 1], Content(r))
              /\ written' = [written EXCEPT ![r] = written[r] + 1]
              /\ UNCHANGED <<said, lines>>
<1>1. written[r] \in 0 .. 4
  BY Facts
<1>2. CASE written[r] = 4
  <2>1. Fragments[written[r] + 1] = "close"
    BY <1>2, FragmentAt
  <2> QED
    BY <1>2, <2>1 DEF Write, AfterClose, OthersInside
<1>3. CASE written[r] # 4
  <2>1. written[r] \in 0 .. 3
    BY <1>1, <1>3
  <2>2. Fragments[written[r] + 1] \in {"open", "content", "middle"}
    BY <2>1, FragmentAt
  <2> QED
    BY <1>3, <2>1, <2>2 DEF Write, AfterClose, OthersInside
<1> QED
  BY <1>2, <1>3

\* A text that breaks its line is the fragment before the last one.
LEMMA OddDoes ==
  ASSUME TypeOK, NEW r \in Runs, WriteOdd(r)
  PROVE  /\ Appending(r) /\ written[r] = 3
         /\ UNCHANGED <<id, history, said, alive, cuts>>
         /\ overlapped' = (overlapped \/ \E q \in Runs \ {r} : written[q] > 0)
         /\ tail' = Garbled
         /\ \/ UNCHANGED lines /\ spoils' = spoils + 1
            \/ lines' = Append(lines, Garbled) /\ spoils' = spoils + 2
         /\ odd' = odd \cup {r}
         /\ written' = [written EXCEPT ![r] = 4]
<1>1. written[r] \in 0 .. 4 /\ id[r] \notin Events
  BY Facts
<1>2. Fragments[written[r] + 1] = "content" /\ Content(r) \in Events
  BY DEF WriteOdd
<1>3. written[r] \notin {0, 2, 4}
  BY <1>2, FragmentAt
<1>4. written[r] # 1
  BY <1>1, <1>2 DEF Content
<1>5. written[r] = 3
  BY <1>1, <1>3, <1>4
<1> QED
  BY <1>5 DEF WriteOdd, OthersInside

\* A run that stops between two appends leaves everything; inside one it leaves the tail.
LEMMA StopDoes ==
  ASSUME TypeOK, NEW r \in Runs, Stop(r)
  PROVE  /\ Appending(r) /\ UNCHANGED <<id, history, lines, tail, overlapped, odd, spoils>>
         /\ alive' = alive \ {r}
         /\ written[r] = 0 => UNCHANGED <<said, written, cuts>>
         /\ written[r] # 0 => /\ cuts < MaxCuts /\ cuts' = cuts + 1
                              /\ said' = [said EXCEPT ![r] = said[r] + 1]
                              /\ written' = [written EXCEPT ![r] = 0]
BY DEF Stop

LEMMA NextCases ==
  ASSUME [Next]_vars
  PROVE  \/ \E r \in Runs : Write(r)
         \/ \E r \in Runs : WriteOdd(r)
         \/ \E r \in Runs : Stop(r)
         \/ UNCHANGED vars
BY DEF Next, Finished

-----------------------------------------------------------------------------
(* Types                                                                   *)

LEMMA TypeInit ==
  ASSUME Init
  PROVE  TypeOK
<1>1. \A r \in Runs : /\ history[r] \in Histories /\ Len(history[r]) \in Nat
                      /\ said[r] = 0 /\ written[r] = 0
  BY AuditLogAssumption DEF Init
<1>2. /\ said \in [Runs -> 0 .. MaxLength] /\ written \in [Runs -> 0 .. 4]
      /\ cuts \in 0 .. MaxCuts /\ lines \in Seq(TypedLines) /\ tail \in TypedLines
  BY AuditLogAssumption, GarbledParts DEF Init
<1>3. \A r \in Runs : said[r] <= Len(history[r]) /\ (written[r] > 0 => Appending(r))
  BY <1>1
<1>4. /\ history \in [Runs -> Histories] /\ alive \subseteq Runs /\ overlapped \in BOOLEAN
      /\ id \in [Runs -> Ids] /\ odd \subseteq Runs /\ spoils \in Nat
  BY DEF Init
<1> QED
  BY <1>2, <1>3, <1>4 DEF TypeOK

LEMMA TypeNext ==
  ASSUME TypeOK, [Next]_vars
  PROVE  TypeOK'
<1>1. ASSUME NEW r \in Runs, Write(r)
      PROVE  TypeOK'
  <2>1. /\ history' \in [Runs -> Histories] /\ alive' \subseteq Runs
        /\ id' \in [Runs -> Ids] /\ odd' \subseteq Runs /\ spoils' \in Nat
        /\ cuts' \in 0 .. MaxCuts /\ UNCHANGED <<history, alive, cuts>>
    BY <1>1, WriteDoes DEF TypeOK
  <2>2. overlapped' \in BOOLEAN
    BY <1>1 DEF Write
  <2>3. Content(r) \in Ids \cup Events
    BY <1>1, WriteDoes, ContentTyped
  <2>4. said[r] \in Nat /\ said[r] + 1 <= Len(history[r]) /\ said[r] + 1 \in 0 .. MaxLength
    BY <1>1, WriteDoes, Facts DEF Appending
  <2>5. CASE written[r] = 4
    <3>1. tail' \in TypedLines
      BY <1>1, <2>5, WriteDoes, GarbledParts
    <3>2. Extended(tail, "close", Content(r)) \in TypedLines
      BY <2>3, Facts, ExtendedTyped
    <3>3. lines' \in Seq(TypedLines)
      <4>1. lines' = Append(lines, Extended(tail, "close", Content(r)))
        BY <1>1, <2>5, WriteDoes
      <4>2. lines \in Seq(TypedLines)
        BY Facts
      <4> QED
        BY <3>2, <4>1, <4>2
    <3>4. said' \in [Runs -> 0 .. MaxLength] /\ written' \in [Runs -> 0 .. 4]
      <4>1. /\ said' = [said EXCEPT ![r] = said[r] + 1]
            /\ written' = [written EXCEPT ![r] = 0]
        BY <1>1, <2>5, WriteDoes
      <4>2. said \in [Runs -> 0 .. MaxLength] /\ written \in [Runs -> 0 .. 4]
        BY DEF TypeOK
      <4> QED
        BY <2>4, <4>1, <4>2
    <3>5. \A q \in Runs : /\ said'[q] = IF q = r THEN said[r] + 1 ELSE said[q]
                          /\ written'[q] = IF q = r THEN 0 ELSE written[q]
      BY <1>1, <2>5, WriteDoes, Facts
    <3>6. \A q \in Runs : said'[q] <= Len(history'[q]) /\ (written'[q] > 0 => Appending(q)')
      <4> SUFFICES ASSUME NEW q \in Runs
                   PROVE  said'[q] <= Len(history'[q]) /\ (written'[q] > 0 => Appending(q)')
        OBVIOUS
      <4>1. said[q] <= Len(history[q]) /\ (written[q] > 0 => Appending(q))
        BY Facts
      <4>2. CASE q = r
        BY <2>1, <2>4, <3>5, <4>2
      <4>3. CASE q # r
        BY <2>1, <3>5, <4>1, <4>3 DEF Appending
      <4> QED
        BY <4>2, <4>3
    <3> QED
      BY <2>1, <2>2, <3>1, <3>3, <3>4, <3>6 DEF TypeOK
  <2>6. CASE written[r] # 4
    <3>1. tail' \in TypedLines
      <4>1. /\ Fragments[written[r] + 1] \in {"open", "content", "middle"}
            /\ tail' = Extended(tail, Fragments[written[r] + 1], Content(r))
        BY <1>1, <2>6, WriteDoes
      <4>2. tail \in TypedLines
        BY Facts
      <4> QED
        BY <2>3, <4>1, <4>2, ExtendedTyped
    <3>2. said' \in [Runs -> 0 .. MaxLength] /\ lines' \in Seq(TypedLines)
      BY <1>1, <2>6, WriteDoes DEF TypeOK
    <3>3. written' \in [Runs -> 0 .. 4]
      <4>1. written' = [written EXCEPT ![r] = written[r] + 1] /\ written[r] + 1 \in 0 .. 4
        BY <1>1, <2>6, WriteDoes
      <4>2. written \in [Runs -> 0 .. 4]
        BY DEF TypeOK
      <4> QED
        BY <4>1, <4>2
    <3>4. \A q \in Runs : written'[q] = IF q = r THEN written[r] + 1 ELSE written[q]
      BY <1>1, <2>6, WriteDoes, Facts
    <3>5. \A q \in Runs : said'[q] <= Len(history'[q]) /\ (written'[q] > 0 => Appending(q)')
      <4>1. UNCHANGED <<said, history, alive>> /\ Appending(r)
        BY <1>1, <2>6, WriteDoes
      <4> QED
        BY <3>4, <4>1, Facts DEF Appending
    <3> QED
      BY <2>1, <2>2, <3>1, <3>2, <3>3, <3>5 DEF TypeOK
  <2> QED
    BY <2>5, <2>6
<1>2. ASSUME NEW r \in Runs, Stop(r)
      PROVE  TypeOK'
  <2>1. /\ history' \in [Runs -> Histories] /\ alive' \subseteq Runs
        /\ id' \in [Runs -> Ids] /\ odd' \subseteq Runs /\ spoils' \in Nat
        /\ lines' \in Seq(TypedLines) /\ tail' \in TypedLines /\ overlapped' \in BOOLEAN
        /\ UNCHANGED history /\ alive' = alive \ {r}
    BY <1>2, StopDoes DEF TypeOK
  <2>2. said[r] \in Nat /\ said[r] + 1 <= Len(history[r]) /\ said[r] + 1 \in 0 .. MaxLength
    BY <1>2, StopDoes, Facts DEF Appending
  <2>3. CASE written[r] = 0
    <3>1. UNCHANGED <<said, written, cuts>>
      BY <1>2, <2>3, StopDoes
    <3>2. \A q \in Runs : said'[q] <= Len(history'[q]) /\ (written'[q] > 0 => Appending(q)')
      BY <2>1, <2>3, <3>1, Facts DEF Appending
    <3> QED
      BY <2>1, <3>1, <3>2 DEF TypeOK
  <2>4. CASE written[r] # 0
    <3>1. cuts' \in 0 .. MaxCuts
      BY <1>2, <2>4, StopDoes, Facts
    <3>2. said' \in [Runs -> 0 .. MaxLength] /\ written' \in [Runs -> 0 .. 4]
      <4>1. /\ said' = [said EXCEPT ![r] = said[r] + 1]
            /\ written' = [written EXCEPT ![r] = 0]
        BY <1>2, <2>4, StopDoes
      <4>2. said \in [Runs -> 0 .. MaxLength] /\ written \in [Runs -> 0 .. 4]
        BY DEF TypeOK
      <4> QED
        BY <2>2, <4>1, <4>2
    <3>3. \A q \in Runs : /\ said'[q] = IF q = r THEN said[r] + 1 ELSE said[q]
                          /\ written'[q] = IF q = r THEN 0 ELSE written[q]
      BY <1>2, <2>4, StopDoes, Facts
    <3>4. \A q \in Runs : said'[q] <= Len(history'[q]) /\ (written'[q] > 0 => Appending(q)')
      BY <2>1, <2>2, <3>3, Facts DEF Appending
    <3> QED
      BY <2>1, <3>1, <3>2, <3>4 DEF TypeOK
  <2> QED
    BY <2>3, <2>4
<1>3. CASE UNCHANGED vars
  BY <1>3 DEF vars, TypeOK, Appending
<1>4. ASSUME NEW r \in Runs, WriteOdd(r)
      PROVE  TypeOK'
  <2>1. /\ id' \in [Runs -> Ids] /\ history' \in [Runs -> Histories] /\ alive' \subseteq Runs
        /\ said' \in [Runs -> 0 .. MaxLength] /\ cuts' \in 0 .. MaxCuts
        /\ UNCHANGED <<history, said, alive>> /\ Appending(r)
    BY <1>4, OddDoes DEF TypeOK
  <2>2. overlapped' \in BOOLEAN
    BY <1>4 DEF WriteOdd
  <2>3. odd' \subseteq Runs
    BY <1>4, OddDoes, Facts
  <2>4. spoils' \in Nat
    BY <1>4, OddDoes, Facts
  <2>5. tail' \in TypedLines
    BY <1>4, OddDoes, GarbledParts
  <2>6. lines' \in Seq(TypedLines)
    <3>1. lines \in Seq(TypedLines) /\ Garbled \in TypedLines
      BY Facts, GarbledParts
    <3>2. lines' = lines \/ lines' = Append(lines, Garbled)
      BY <1>4, OddDoes
    <3> HIDE DEF Garbled
    <3> QED
      BY <3>1, <3>2
  <2>7. written' \in [Runs -> 0 .. 4]
    <3>1. written' = [written EXCEPT ![r] = 4]
      BY <1>4, OddDoes
    <3>2. written \in [Runs -> 0 .. 4]
      BY DEF TypeOK
    <3> QED
      BY <3>1, <3>2
  <2>8. \A q \in Runs : written'[q] = IF q = r THEN 4 ELSE written[q]
    BY <1>4, OddDoes, Facts
  <2>9. \A q \in Runs : said'[q] <= Len(history'[q]) /\ (written'[q] > 0 => Appending(q)')
    BY <2>1, <2>8, Facts DEF Appending
  <2> QED
    BY <2>1, <2>2, <2>3, <2>4, <2>5, <2>6, <2>7, <2>9 DEF TypeOK
<1> QED
  BY <1>1, <1>2, <1>3, <1>4, NextCases

-----------------------------------------------------------------------------
(* One writer at a time                                                    *)

LEMMA OneWriterNext ==
  ASSUME TypeOK, OneWriter, [Next]_vars
  PROVE  OneWriter'
<1>1. ASSUME NEW r \in Runs, Write(r), ~overlapped'
      PROVE  \A p, q \in Runs : written'[p] > 0 /\ written'[q] > 0 => p = q
  <2>1. \A q \in Runs \ {r} : ~ (written[q] > 0)
    BY <1>1, WriteDoes
  <2>2. \A q \in Runs \ {r} : written'[q] = written[q]
    BY <1>1, WriteDoes, Facts
  <2> QED
    BY <2>1, <2>2
<1>2. ASSUME NEW r \in Runs, Stop(r), ~overlapped'
      PROVE  \A p, q \in Runs : written'[p] > 0 /\ written'[q] > 0 => p = q
  <2>1. ~overlapped
    BY <1>2, StopDoes
  <2>2. \A q \in Runs : written'[q] = written[q] \/ written'[q] = 0
    BY <1>2, StopDoes, Facts
  <2> QED
    BY <2>1, <2>2 DEF OneWriter
<1>3. CASE UNCHANGED vars
  BY <1>3 DEF vars, OneWriter
<1>4. ASSUME NEW r \in Runs, WriteOdd(r), ~overlapped'
      PROVE  \A p, q \in Runs : written'[p] > 0 /\ written'[q] > 0 => p = q
  <2>1. \A q \in Runs \ {r} : ~ (written[q] > 0)
    BY <1>4, OddDoes
  <2>2. \A q \in Runs \ {r} : written'[q] = written[q]
    BY <1>4, OddDoes, Facts
  <2> QED
    BY <2>1, <2>2
<1> QED
  BY <1>1, <1>2, <1>3, <1>4, NextCases DEF OneWriter

\* What one fragment of an append makes of the tail when no append overlaps another:
\* a tidy one stays tidy and gives the line that was said, any other gives a line
\* that does not parse and leaves nothing of it.
LEMMA WriteAlone ==
  ASSUME TypeOK, TailIsKnown, NEW r \in Runs, Write(r), ~overlapped'
  PROVE  /\ ~overlapped
         /\ Tidy => Tidy'
         /\ written[r] = 4 => Tidy'
         /\ ~Tidy /\ written[r] # 4 => Spoiled'
         /\ written[r] = 4 =>
              \E x \in TypedLines :
                /\ lines' = Append(lines, x)
                /\ Tidy => Parses(x) /\ x.runs = <<id[r]>> /\ x.texts = <<history[r][said[r] + 1]>>
                /\ ~Tidy => ~Parses(x)
<1> DEFINE c == Content(r)
           event == history[r][said[r] + 1]
<1>1. ~overlapped /\ \A q \in Runs \ {r} : ~ (written[q] > 0)
  BY WriteDoes
<1>2. \A q \in Runs \ {r} : written[q] = 0 /\ written'[q] = 0
  <2>1. written[r] = 4 \/ written[r] # 4
    OBVIOUS
  <2>2. \A q \in Runs \ {r} : written'[q] = written[q]
    BY <2>1, WriteDoes, Facts
  <2>3. \A q \in Runs : written[q] \in 0 .. 4
    BY Facts
  <2> QED
    BY <1>1, <2>2, <2>3
<1>3. c \in Ids \cup Events /\ event \in Events
  BY WriteDoes, ContentTyped
<1>4. tail \in TypedLines /\ written[r] \in 0 .. 4
  BY Facts
<1>5. ASSUME Tidy
      PROVE  tail = IF written[r] = 0 THEN Blank ELSE OwnTail(r)
  BY <1>2, <1>4, <1>5 DEF Tidy
<1>6. CASE written[r] = 4
  <2>1. /\ lines' = Append(lines, Extended(tail, "close", c)) /\ tail' = Blank
        /\ \A q \in Runs : written'[q] = 0
    BY <1>2, <1>6, WriteDoes, Facts
  <2>2. Tidy'
    BY <2>1 DEF Tidy
  <2>3. Extended(tail, "close", c) \in TypedLines
    BY <1>3, <1>4, ExtendedTyped
  <2>4. ASSUME Tidy
        PROVE  Extended(tail, "close", c) = [at |-> "closed", runs |-> <<id[r]>>, texts |-> <<event>>]
    <3>1. tail.at = "event" /\ tail.runs = <<id[r]>> /\ tail.texts = <<event>>
      BY <1>5, <1>6, <2>4 DEF OwnTail
    <3> QED
      BY <1>3, <1>4, <3>1, ExtendedBy
  <2>5. ASSUME Tidy
        PROVE  LET x == Extended(tail, "close", c)
               IN  Parses(x) /\ x.runs = <<id[r]>> /\ x.texts = <<event>>
    BY <2>4, <2>5 DEF Parses
  <2>6. ASSUME ~Tidy
        PROVE  ~Parses(Extended(tail, "close", c))
    <3>1. tail.at = "garbled"
      BY <1>1, <1>6, <2>6 DEF TailIsKnown, Spoiled
    <3> QED
      BY <1>3, <1>4, <3>1, ExtendedBy, GarbledParts
  <2> QED
    BY <1>1, <1>6, <2>1, <2>2, <2>3, <2>5, <2>6
<1>7. CASE written[r] # 4
  <2>1. /\ tail' = Extended(tail, Fragments[written[r] + 1], c)
        /\ written'[r] = written[r] + 1 /\ written[r] \in 0 .. 3
        /\ UNCHANGED <<id, said, history>>
    BY <1>7, WriteDoes, Facts
  <2>2. ASSUME Tidy
        PROVE  tail' = OwnTail(r)'
    <3>1. CASE written[r] = 0
      <4>1. tail' = [at |-> "run_id", runs |-> <<>>, texts |-> <<>>]
        BY <1>3, <1>4, <1>5, <2>1, <2>2, <3>1, ExtendedBy, GarbledParts, FragmentAt
      <4> QED
        BY <2>1, <3>1, <4>1 DEF OwnTail
    <3>2. CASE written[r] = 1
      <4>1. tail.at = "run_id" /\ tail.runs = <<>> /\ tail.texts = <<>> /\ c = id[r]
        BY <1>5, <2>2, <3>2 DEF OwnTail, Content
      <4>2. tail' = [at |-> "run_id", runs |-> <<id[r]>>, texts |-> <<>>]
        <5>1. Append(tail.runs, c) = <<id[r]>>
          BY <4>1
        <5> QED
          BY <1>3, <1>4, <2>1, <3>2, <4>1, <5>1, ExtendedBy, FragmentAt
      <4> QED
        BY <2>1, <3>2, <4>2 DEF OwnTail
    <3>3. CASE written[r] = 2
      <4>1. tail.at = "run_id" /\ tail.runs = <<id[r]>> /\ tail.texts = <<>>
        BY <1>5, <2>2, <3>3 DEF OwnTail
      <4>2. tail' = [at |-> "event", runs |-> <<id[r]>>, texts |-> <<>>]
        <5>1. tail' = Extended(tail, "middle", c)
          BY <2>1, <3>3, FragmentAt
        <5> QED
          BY <1>3, <1>4, <4>1, <5>1, ExtendedBy
      <4> QED
        BY <2>1, <3>3, <4>2 DEF OwnTail
    <3>4. CASE written[r] = 3
      <4>1. tail.at = "event" /\ tail.runs = <<id[r]>> /\ tail.texts = <<>> /\ c = event
        BY <1>5, <2>2, <3>4 DEF OwnTail, Content
      <4>2. tail' = [at |-> "event", runs |-> <<id[r]>>, texts |-> <<event>>]
        <5>1. Append(tail.texts, c) = <<event>>
          BY <4>1
        <5> QED
          BY <1>3, <1>4, <2>1, <3>4, <4>1, <5>1, ExtendedBy, FragmentAt
      <4>3. event = history'[r][said'[r] + 1]
        BY <2>1
      <4> QED
        BY <2>1, <3>4, <4>2, <4>3 DEF OwnTail
    <3> QED
      BY <2>1, <3>1, <3>2, <3>3, <3>4
  <2>3. Tidy => Tidy'
    BY <2>1, <2>2 DEF Tidy
  <2>4. ASSUME ~Tidy
        PROVE  Spoiled'
    <3>1. tail.at \in {"run_id", "event", "garbled"} /\ (written[r] > 0 => tail.at = "garbled")
      BY <1>1, <2>4 DEF TailIsKnown, Spoiled
    <3>2. tail' = Garbled
      <4>1. CASE written[r] = 0
        BY <1>3, <1>4, <2>1, <3>1, <4>1, ExtendedBy, FragmentAt
      <4>2. CASE written[r] # 0
        <5>1. tail.at = "garbled"
          BY <1>4, <3>1, <4>2
        <5> QED
          BY <1>3, <1>4, <2>1, <5>1, ExtendedBy, FragmentAt
      <4> QED
        BY <4>1, <4>2
    <3> QED
      BY <3>2, GarbledParts DEF Spoiled
  <2> QED
    BY <1>1, <1>7, <2>3, <2>4
<1> QED
  BY <1>6, <1>7

\* A text that breaks its line leaves a tail that garbles what follows it.
LEMMA OddAlone ==
  ASSUME TypeOK, NEW r \in Runs, WriteOdd(r), ~overlapped'
  PROVE  /\ ~overlapped
         /\ Spoiled'
         /\ r \in odd' /\ written'[r] = 4
<1>1. tail'.at = "garbled"
  BY OddDoes, GarbledParts
<1>2. written'[r] = 4
  BY OddDoes, Facts
<1> QED
  BY <1>1, <1>2, OddDoes DEF Spoiled

\* A run that stops between two appends changes nothing of this, one that stops inside
\* an append leaves the tail to the next one.
LEMMA StopAlone ==
  ASSUME TypeOK, OneWriter, TailIsKnown, NEW r \in Runs, Stop(r), ~overlapped'
  PROVE  /\ ~overlapped
         /\ written[r] = 0 => (Tidy => Tidy') /\ (Spoiled => Spoiled')
         /\ written[r] # 0 => Spoiled'
<1>1. ~overlapped /\ UNCHANGED <<id, history, tail>> /\ written[r] \in 0 .. 4
  BY StopDoes, Facts
<1>2. CASE written[r] = 0
  <2>1. UNCHANGED <<id, said, written, history, tail>>
    BY <1>1, <1>2, StopDoes
  <2>2. \A q \in Runs : OwnTail(q)' = OwnTail(q)
    BY <2>1 DEF OwnTail
  <2>3. (Tidy => Tidy') /\ (Spoiled => Spoiled')
    BY <2>1, <2>2 DEF Tidy, Spoiled
  <2> QED
    BY <1>1, <1>2, <2>3
<1>3. CASE written[r] # 0
  <2>1. written[r] > 0
    BY <1>1, <1>3
  <2>2. \A q \in Runs : written[q] > 0 => q = r
    BY <1>1, <2>1 DEF OneWriter
  <2>3. \A q \in Runs : ~ (written'[q] > 0)
    <3>1. \A q \in Runs : written'[q] = IF q = r THEN 0 ELSE written[q]
      BY <1>3, StopDoes, Facts
    <3> QED
      BY <2>2, <3>1
  <2>4. tail.at \in {"run_id", "event", "garbled"}
    <3>1. ASSUME Tidy
          PROVE  tail.at \in {"run_id", "event"}
      <4>1. tail = OwnTail(r)
        BY <2>1, <2>2, <3>1 DEF Tidy
      <4> QED
        BY <4>1 DEF OwnTail
    <3> QED
      BY <1>1, <3>1 DEF TailIsKnown, Spoiled
  <2>5. Spoiled'
    BY <1>1, <2>3, <2>4 DEF Spoiled
  <2> QED
    BY <1>1, <1>3, <2>5
<1> QED
  BY <1>2, <1>3

LEMMA TailIsKnownNext ==
  ASSUME TypeOK, OneWriter, TailIsKnown, [Next]_vars
  PROVE  TailIsKnown'
<1>1. ASSUME NEW r \in Runs, Write(r), ~overlapped'
      PROVE  Tidy' \/ Spoiled'
  BY <1>1, WriteAlone
<1>2. ASSUME NEW r \in Runs, Stop(r), ~overlapped'
      PROVE  Tidy' \/ Spoiled'
  BY <1>2, StopAlone DEF TailIsKnown
<1>3. CASE UNCHANGED vars
  <2>1. \A q \in Runs : OwnTail(q)' = OwnTail(q)
    BY <1>3 DEF vars, OwnTail
  <2> QED
    BY <1>3, <2>1 DEF vars, TailIsKnown, Tidy, Spoiled
<1>4. ASSUME NEW r \in Runs, WriteOdd(r), ~overlapped'
      PROVE  Tidy' \/ Spoiled'
  BY <1>4, OddAlone
<1> QED
  BY <1>1, <1>2, <1>3, <1>4, NextCases DEF TailIsKnown

LEMMA OddTailNext ==
  ASSUME TypeOK, TailIsKnown, OneWriter, OddTail, [Next]_vars
  PROVE  OddTail'
<1>0. /\ OddTail = (~overlapped /\ cuts = 0 => Tidy \/ \E q \in odd : written[q] = 4)
      /\ OddTail' = (~overlapped' /\ cuts' = 0 => Tidy' \/ \E q \in odd' : written'[q] = 4)
  BY DEF OddTail
<1>1. ASSUME NEW r \in Runs, Write(r), ~overlapped', cuts' = 0
      PROVE  Tidy'
  <2>1. ~overlapped /\ cuts = 0 /\ (Tidy => Tidy') /\ (written[r] = 4 => Tidy')
    BY <1>1, WriteAlone, WriteDoes
  <2>2. \A q \in odd : written[q] = 4 => q = r
    <3>1. \A q \in Runs \ {r} : ~ (written[q] > 0)
      BY <1>1, WriteDoes
    <3> QED
      BY <3>1, Facts
  <2> QED
    BY <1>0, <2>1, <2>2
<1>2. ASSUME NEW r \in Runs, WriteOdd(r), ~overlapped'
      PROVE  \E q \in odd' : written'[q] = 4
  BY <1>2, OddAlone
<1>3. ASSUME NEW r \in Runs, Stop(r), ~overlapped', cuts' = 0
      PROVE  Tidy' \/ \E q \in odd' : written'[q] = 4
  <2>1. written[r] = 0
    BY <1>3, StopDoes, Facts
  <2>2. ~overlapped /\ (Tidy => Tidy') /\ UNCHANGED <<written, cuts, odd>>
    BY <1>3, <2>1, StopDoes, StopAlone
  <2> QED
    BY <1>0, <1>3, <2>2
<1>4. CASE UNCHANGED vars
  <2>1. \A q \in Runs : OwnTail(q)' = OwnTail(q)
    BY <1>4 DEF vars, OwnTail
  <2>2. Tidy' <=> Tidy
    BY <1>4, <2>1 DEF vars, Tidy
  <2> QED
    BY <1>0, <1>4, <2>2 DEF vars
<1> QED
  BY <1>0, <1>1, <1>2, <1>3, <1>4, NextCases

-----------------------------------------------------------------------------
(* The lines                                                               *)

LEMMA OneMoreLine ==
  ASSUME TypeOK, NEW x \in TypedLines, lines' = Append(lines, x)
  PROVE  /\ DOMAIN lines = 1 .. Len(lines) /\ Len(lines) \in Nat
         /\ DOMAIN lines' = DOMAIN lines \cup {Len(lines) + 1}
         /\ Len(lines) + 1 \notin DOMAIN lines
         /\ \A i \in DOMAIN lines : lines'[i] = lines[i] /\ i \in Nat /\ i < Len(lines) + 1
         /\ lines'[Len(lines) + 1] = x
<1>1. lines \in Seq(TypedLines) /\ Len(lines) \in Nat /\ DOMAIN lines = 1 .. Len(lines)
  BY Facts
<1>2. /\ Len(lines') = Len(lines) + 1 /\ DOMAIN lines' = 1 .. Len(lines) + 1
      /\ \A i \in 1 .. Len(lines) : lines'[i] = lines[i]
      /\ lines'[Len(lines) + 1] = x
  BY <1>1
<1>3. 1 .. Len(lines) + 1 = (1 .. Len(lines)) \cup {Len(lines) + 1}
  BY <1>1
<1>4. /\ Len(lines) + 1 \notin 1 .. Len(lines)
      /\ \A i \in 1 .. Len(lines) : i \in Nat /\ i < Len(lines) + 1
  BY <1>1
<1> QED
  BY <1>1, <1>2, <1>3, <1>4

LEMMA SomeLines ==
  ASSUME TypeOK, NEW I \in SUBSET DOMAIN lines
  PROVE  IsFiniteSet(I) /\ Cardinality(I) \in Nat
<1>1. IsFiniteSet(DOMAIN lines)
  BY Facts, FS_Interval
<1> QED
  BY <1>1, FS_Subset, FS_CardinalityType

\* The lines that do not parse.
Unread == {i \in DOMAIN lines : ~Parses(lines[i])}

LEMMA CutsPayNext ==
  ASSUME TypeOK, OneWriter, TailIsKnown, CutsPay, [Next]_vars
  PROVE  CutsPay'
<1>0. /\ CutsPay = (~overlapped => Cardinality(Unread) + (IF Tidy THEN 0 ELSE 1) <= cuts + spoils)
      /\ CutsPay' = (~overlapped' => Cardinality(Unread') + (IF Tidy' THEN 0 ELSE 1) <= cuts' + spoils')
  BY DEF CutsPay, Unread
<1>1. cuts \in Nat /\ spoils \in Nat /\ Cardinality(Unread) \in Nat /\ IsFiniteSet(Unread)
  BY Facts, SomeLines DEF Unread
<1>2. ASSUME NEW r \in Runs, Write(r), ~overlapped'
      PROVE  Cardinality(Unread') + (IF Tidy' THEN 0 ELSE 1) <= cuts' + spoils'
  <2>1. Cardinality(Unread) + (IF Tidy THEN 0 ELSE 1) <= cuts + spoils /\ cuts' = cuts /\ spoils' = spoils
    BY <1>0, <1>2, WriteAlone, WriteDoes
  <2>2. CASE written[r] # 4
    <3>1. Unread' = Unread
      BY <1>2, <2>2, WriteDoes DEF Unread
    <3>2. Tidy => Tidy'
      BY <1>2, WriteAlone
    <3> QED
      BY <1>1, <2>1, <3>1, <3>2
  <2>3. CASE written[r] = 4
    <3>1. Tidy'
      BY <1>2, <2>3, WriteAlone
    <3>2. PICK x \in TypedLines : lines' = Append(lines, x) /\ (Tidy => Parses(x))
      BY <1>2, <2>3, WriteAlone
    <3>3. Unread' = IF Parses(x) THEN Unread ELSE Unread \cup {Len(lines) + 1}
      BY <3>2, OneMoreLine DEF Unread
    <3>4. Len(lines) + 1 \notin Unread
      BY <3>2, OneMoreLine DEF Unread
    <3>5. Cardinality(Unread') <= Cardinality(Unread) + (IF Tidy THEN 0 ELSE 1)
      <4>1. CASE Parses(x)
        BY <1>1, <3>3, <4>1
      <4>2. CASE ~Parses(x)
        <5>1. Cardinality(Unread \cup {Len(lines) + 1}) = Cardinality(Unread) + 1
          BY <1>1, <3>4, FS_AddElement
        <5> QED
          BY <1>1, <3>2, <3>3, <4>2, <5>1
      <4> QED
        BY <4>1, <4>2
    <3>6. Cardinality(Unread') \in Nat
      BY <1>1, <3>3, FS_AddElement, FS_CardinalityType
    <3> QED
      BY <1>1, <2>1, <3>1, <3>5, <3>6
  <2> QED
    BY <2>2, <2>3
<1>3. ASSUME NEW r \in Runs, Stop(r), ~overlapped'
      PROVE  Cardinality(Unread') + (IF Tidy' THEN 0 ELSE 1) <= cuts' + spoils'
  <2>1. Cardinality(Unread) + (IF Tidy THEN 0 ELSE 1) <= cuts + spoils
    BY <1>0, <1>3, StopAlone
  <2>2. Unread' = Unread /\ spoils' = spoils
    BY <1>3, StopDoes DEF Unread
  <2>3. CASE written[r] = 0
    <3>1. cuts' = cuts /\ (Tidy => Tidy')
      BY <1>3, <2>3, StopDoes, StopAlone
    <3> QED
      BY <1>1, <2>1, <2>2, <3>1
  <2>4. CASE written[r] # 0
    <3>1. cuts' = cuts + 1
      BY <1>3, <2>4, StopDoes
    <3> QED
      BY <1>1, <2>1, <2>2, <3>1
  <2> QED
    BY <2>3, <2>4
<1>4. CASE UNCHANGED vars
  <2>1. \A q \in Runs : OwnTail(q)' = OwnTail(q)
    BY <1>4 DEF vars, OwnTail
  <2>2. (Tidy' <=> Tidy) /\ Unread' = Unread /\ UNCHANGED <<overlapped, cuts, spoils>>
    BY <1>4, <2>1 DEF vars, Tidy, Unread
  <2> QED
    BY <1>0, <2>2
<1>5. ASSUME NEW r \in Runs, WriteOdd(r), ~overlapped'
      PROVE  Cardinality(Unread') + (IF Tidy' THEN 0 ELSE 1) <= cuts' + spoils'
  <2>0. ~overlapped /\ cuts' = cuts
    BY <1>5, OddDoes
  <2>1. Cardinality(Unread) <= cuts + spoils /\ cuts' = cuts
    <3>1. Cardinality(Unread) + (IF Tidy THEN 0 ELSE 1) <= cuts + spoils
      BY <1>0, <2>0
    <3>2. CASE Tidy
      BY <1>1, <2>0, <3>1, <3>2
    <3>3. CASE ~Tidy
      BY <1>1, <2>0, <3>1, <3>3
    <3> QED
      BY <3>2, <3>3
  <2>2. CASE UNCHANGED lines /\ spoils' = spoils + 1
    <3>1. Unread' = Unread
      BY <2>2 DEF Unread
    <3> QED
      BY <1>1, <2>1, <2>2, <3>1
  <2>3. CASE lines' = Append(lines, Garbled) /\ spoils' = spoils + 2
    <3>1. Garbled \in TypedLines /\ ~Parses(Garbled)
      BY GarbledParts
    <3>2. Unread' = Unread \cup {Len(lines) + 1} /\ Len(lines) + 1 \notin Unread
      BY <2>3, <3>1, OneMoreLine DEF Unread
    <3>3. Cardinality(Unread') = Cardinality(Unread) + 1
      BY <1>1, <3>2, FS_AddElement
    <3> QED
      BY <1>1, <2>1, <2>3, <3>3
  <2> QED
    BY <1>5, <2>2, <2>3, OddDoes
<1> QED
  BY <1>0, <1>2, <1>3, <1>4, <1>5, NextCases

LEMMA SaidGrows ==
  ASSUME TypeOK, [Next]_vars
  PROVE  /\ history' = history /\ id' = id
         /\ \A r \in Runs : said[r] \in Nat /\ said'[r] \in Nat /\ said[r] <= said'[r]
<1>1. ASSUME NEW r \in Runs, Write(r)
      PROVE  /\ history' = history /\ id' = id
             /\ \A q \in Runs : said'[q] = said[q] \/ said'[q] = said[q] + 1
  BY <1>1, WriteDoes, Facts
<1>2. ASSUME NEW r \in Runs, Stop(r)
      PROVE  /\ history' = history /\ id' = id
             /\ \A q \in Runs : said'[q] = said[q] \/ said'[q] = said[q] + 1
  BY <1>2, StopDoes, Facts
<1>3. CASE UNCHANGED vars
  BY <1>3, Facts DEF vars
<1>4. \A q \in Runs : said[q] \in Nat
  BY Facts
<1>5. ASSUME NEW r \in Runs, WriteOdd(r)
      PROVE  history' = history /\ id' = id /\ said' = said
  BY <1>5, OddDoes
<1> QED
  BY <1>1, <1>2, <1>3, <1>4, <1>5, NextCases

\* A line that its run has said.
IsSaid(line) ==
  \E r \in Runs : \E k \in 1 .. said[r] : line.runs = <<id[r]>> /\ line.texts = <<history[r][k]>>

LEMMA LinesAreSaidNext ==
  ASSUME TypeOK, OneWriter, TailIsKnown, LinesAreSaid, [Next]_vars
  PROVE  LinesAreSaid'
<1>0. /\ LinesAreSaid = (~overlapped => \A i \in DOMAIN lines : Parses(lines[i]) => IsSaid(lines[i]))
      /\ LinesAreSaid' = (~overlapped' => \A i \in DOMAIN lines' : Parses(lines'[i]) => IsSaid(lines[i])')
  BY DEF LinesAreSaid, IsSaid
<1>1. \A i \in DOMAIN lines : lines'[i] = lines[i] /\ IsSaid(lines[i]) => IsSaid(lines[i])'
  <2> SUFFICES ASSUME NEW i \in DOMAIN lines, lines'[i] = lines[i], IsSaid(lines[i])
               PROVE  IsSaid(lines[i])'
    OBVIOUS
  <2>1. PICK r \in Runs : \E k \in 1 .. said[r] :
               lines[i].runs = <<id[r]>> /\ lines[i].texts = <<history[r][k]>>
    BY DEF IsSaid
  <2>2. PICK k \in 1 .. said[r] : lines[i].runs = <<id[r]>> /\ lines[i].texts = <<history[r][k]>>
    BY <2>1
  <2>3. k \in 1 .. said'[r] /\ history' = history /\ id' = id
    BY SaidGrows
  <2> QED
    BY <2>2, <2>3 DEF IsSaid
<1>2. ASSUME NEW r \in Runs, Write(r), ~overlapped', NEW i \in DOMAIN lines', Parses(lines'[i])
      PROVE  IsSaid(lines[i])'
  <2>1. ~overlapped
    BY <1>2, WriteAlone
  <2>2. CASE written[r] # 4
    BY <1>0, <1>1, <1>2, <2>1, <2>2, WriteDoes
  <2>3. CASE written[r] = 4
    <3>1. PICK x \in TypedLines :
            /\ lines' = Append(lines, x)
            /\ Tidy => x.runs = <<id[r]>> /\ x.texts = <<history[r][said[r] + 1]>>
            /\ ~Tidy => ~Parses(x)
      BY <1>2, <2>3, WriteAlone
    <3>2. CASE i \in DOMAIN lines
      <4>1. lines'[i] = lines[i]
        BY <3>1, <3>2, OneMoreLine
      <4> QED
        BY <1>0, <1>1, <1>2, <2>1, <3>2, <4>1
    <3>3. CASE i \notin DOMAIN lines
      <4>1. lines'[i] = x
        BY <3>1, <3>3, OneMoreLine
      <4>2. x.runs = <<id[r]>> /\ x.texts = <<history[r][said[r] + 1]>>
        BY <1>2, <3>1, <4>1
      <4>3. said[r] + 1 \in 1 .. said'[r] /\ history' = history /\ id' = id
        BY <1>2, <2>3, WriteDoes, Facts
      <4> QED
        BY <4>1, <4>2, <4>3 DEF IsSaid
    <3> QED
      BY <3>2, <3>3
  <2> QED
    BY <2>2, <2>3
<1>3. ASSUME NEW r \in Runs, Stop(r), ~overlapped', NEW i \in DOMAIN lines', Parses(lines'[i])
      PROVE  IsSaid(lines[i])'
  BY <1>0, <1>1, <1>3, StopDoes, StopAlone
<1>4. ASSUME UNCHANGED vars, ~overlapped', NEW i \in DOMAIN lines', Parses(lines'[i])
      PROVE  IsSaid(lines[i])'
  BY <1>0, <1>1, <1>4 DEF vars
<1>5. ASSUME NEW r \in Runs, WriteOdd(r), ~overlapped', NEW i \in DOMAIN lines', Parses(lines'[i])
      PROVE  IsSaid(lines[i])'
  <2>1. i \in DOMAIN lines /\ lines'[i] = lines[i]
    <3>1. CASE UNCHANGED lines
      BY <1>5, <3>1
    <3>2. CASE lines' = Append(lines, Garbled)
      BY <1>5, <3>2, OneMoreLine, GarbledParts
    <3> QED
      BY <1>5, <3>1, <3>2, OddDoes
  <2> QED
    BY <1>0, <1>1, <1>5, <2>1, OddAlone
<1> QED
  BY <1>0, <1>2, <1>3, <1>4, <1>5, NextCases

\* A line that does not parse is no run's.
LEMMA SameLines ==
  ASSUME TypeOK, UNCHANGED <<id, history>>, NEW x \in TypedLines, ~Parses(x),
         lines' = lines \/ lines' = Append(lines, x),
         NEW q \in Runs, InPlace(q), said'[q] = said[q]
  PROVE  InPlace(q)'
<1>1. LinesOf(q)' = LinesOf(q)
  <2>1. CASE lines' = lines
    BY <2>1 DEF LinesOf
  <2>2. CASE lines' = Append(lines, x)
    BY <2>2, OneMoreLine DEF LinesOf
  <2> QED
    BY <2>1, <2>2
<1>2. \A i \in LinesOf(q) : Place(q, i)' = Place(q, i)
  BY <1>1 DEF Place
<1>3. \A i \in LinesOf(q) : lines'[i] = lines[i]
  BY OneMoreLine DEF LinesOf
<1> QED
  BY <1>1, <1>2, <1>3 DEF InPlace

LEMMA LinesInPlaceNext ==
  ASSUME TypeOK, OneWriter, TailIsKnown, OddTail, LinesInPlace, [Next]_vars
  PROVE  LinesInPlace'
<1>0. /\ ~overlapped /\ cuts = 0 => \A q \in Runs \ odd : Bearers(q) = {q} => InPlace(q)
      /\ id' = id /\ \A q \in Runs : Bearers(q)' = Bearers(q)
      /\ odd \subseteq odd'
  <2>1. ~overlapped /\ cuts = 0 => \A q \in Runs \ odd : Bearers(q) = {q} => InPlace(q)
    BY DEF LinesInPlace
  <2>2. id' = id
    BY SaidGrows
  <2>3. \A q \in Runs : Bearers(q)' = Bearers(q)
    BY <2>2 DEF Bearers
  <2>4. odd \subseteq odd'
    BY WriteDoes, OddDoes, StopDoes, NextCases DEF vars
  <2> QED
    BY <2>1, <2>2, <2>3, <2>4
<1>1. ASSUME NEW q \in Runs, InPlace(q), said'[q] = said[q], UNCHANGED <<id, lines, history>>
      PROVE  InPlace(q)'
  <2>1. LinesOf(q)' = LinesOf(q)
    BY <1>1 DEF LinesOf
  <2>2. \A i \in LinesOf(q) : Place(q, i)' = Place(q, i)
    BY <2>1 DEF Place
  <2> QED
    BY <1>1, <2>1, <2>2 DEF InPlace
<1>2. ASSUME NEW r \in Runs, Write(r), ~overlapped', cuts' = 0,
             NEW q \in Runs \ odd', Bearers(q) = {q}
      PROVE  InPlace(q)'
  <2>1. ~overlapped /\ cuts = 0 /\ history' = history /\ id' = id
    BY <1>2, WriteAlone, WriteDoes
  <2>2. InPlace(q) /\ q \in Runs \ odd
    BY <1>0, <1>2, <2>1
  <2>3. CASE written[r] # 4
    BY <1>1, <1>2, <2>2, <2>3, WriteDoes
  <2>5. CASE written[r] = 4 /\ ~Tidy
    <3>1. PICK w \in odd : written[w] = 4
      BY <2>1, <2>5 DEF OddTail
    <3>2. w = r
      <4>1. \A p \in Runs \ {r} : ~ (written[p] > 0)
        BY <1>2, WriteDoes
      <4> QED
        BY <3>1, <4>1, Facts
    <3>3. q # r
      BY <2>2, <3>1, <3>2
    <3>4. said'[q] = said[q]
      BY <1>2, <2>2, <2>5, <3>3, WriteDoes, Facts
    <3>5. PICK x \in TypedLines : lines' = Append(lines, x) /\ ~Parses(x)
      BY <1>2, <2>5, WriteAlone
    <3> QED
      BY <2>1, <2>2, <3>4, <3>5, SameLines
  <2>4. CASE written[r] = 4 /\ Tidy
    <3>1. Tidy
      BY <2>4
    <3>2. PICK x \in TypedLines :
            /\ lines' = Append(lines, x)
            /\ Parses(x) /\ x.runs = <<id[r]>> /\ x.texts = <<history[r][said[r] + 1]>>
      BY <1>2, <2>4, <3>1, WriteAlone
    <3>0. PICK n : n = Len(lines) + 1
      OBVIOUS
    <3>3. /\ DOMAIN lines' = DOMAIN lines \cup {n} /\ n \notin DOMAIN lines
          /\ \A i \in DOMAIN lines : lines'[i] = lines[i] /\ i \in Nat /\ i < n
          /\ lines'[n] = x /\ n \in Nat
      BY <3>0, <3>2, OneMoreLine
    <3>4. said'[q] = IF q = r THEN said[r] + 1 ELSE said[q]
      BY <1>2, <2>4, WriteDoes, Facts
    <3>5. LinesOf(q)' = IF q = r THEN LinesOf(q) \cup {n} ELSE LinesOf(q)
      <4>1. <<id[q]>> = <<id[r]>> => q = r
        BY <1>2 DEF Bearers
      <4> QED
        BY <2>1, <3>2, <3>3, <4>1 DEF LinesOf
    <3>6. \A i \in LinesOf(q) : Place(q, i)' = Place(q, i)
      <4> SUFFICES ASSUME NEW i \in LinesOf(q)
                   PROVE  Place(q, i)' = Place(q, i)
        OBVIOUS
      <4>1. i \in Nat /\ i < n
        BY <3>3 DEF LinesOf
      <4>2. ~ (n <= i)
        BY <3>3, <4>1
      <4>3. {j \in LinesOf(q)' : j <= i} = {j \in LinesOf(q) : j <= i}
        BY <3>5, <4>2
      <4> QED
        BY <4>3 DEF Place
    <3>7. \A i \in LinesOf(q) : lines'[i] = lines[i]
      BY <3>3 DEF LinesOf
    <3>8. CASE q # r
      <4>1. said'[q] = said[q] /\ LinesOf(q)' = LinesOf(q)
        BY <3>4, <3>5, <3>8
      <4> QED
        BY <2>1, <2>2, <3>6, <3>7, <4>1 DEF InPlace
    <3>9. CASE q = r
      <4>1. said[r] \in Nat /\ said'[r] = said[r] + 1 /\ LinesOf(r)' = LinesOf(r) \cup {n}
        BY <3>4, <3>5, <3>9, Facts
      <4>2. IsFiniteSet(LinesOf(r)) /\ n \notin LinesOf(r)
        BY <3>3, SomeLines DEF LinesOf
      <4>3. Cardinality(LinesOf(r)') = said'[r]
        BY <2>2, <3>9, <4>1, <4>2, FS_AddElement DEF InPlace
      <4>4. Place(r, n)' = said'[r]
        <5>1. \A j \in LinesOf(r)' : j <= n
          BY <3>3, <4>1 DEF LinesOf
        <5>2. {j \in LinesOf(r)' : j <= n} = LinesOf(r)'
          BY <5>1
        <5> QED
          BY <4>3, <5>2 DEF Place
      <4>5. ASSUME NEW i \in LinesOf(r)'
            PROVE  /\ Place(r, i)' \in 1 .. said'[r]
                   /\ lines'[i].texts = <<history'[r][Place(r, i)']>>
        <5>1. CASE i \in LinesOf(r)
          <6>1. Place(r, i)' = Place(r, i) /\ lines'[i] = lines[i]
            BY <3>6, <3>7, <3>9, <5>1
          <6>2. Place(r, i) \in 1 .. said[r] /\ lines[i].texts = <<history[r][Place(r, i)]>>
            BY <2>2, <3>9, <5>1 DEF InPlace
          <6> QED
            BY <2>1, <4>1, <6>1, <6>2
        <5>2. CASE i = n
          BY <2>1, <3>2, <3>3, <4>1, <4>4, <5>2
        <5> QED
          BY <4>1, <5>1, <5>2
      <4> QED
        BY <3>9, <4>3, <4>5 DEF InPlace
    <3> QED
      BY <3>8, <3>9
  <2> QED
    BY <2>3, <2>4, <2>5
<1>3. ASSUME NEW r \in Runs, Stop(r), ~overlapped', cuts' = 0,
             NEW q \in Runs \ odd', Bearers(q) = {q}
      PROVE  InPlace(q)'
  <2>1. written[r] = 0
    BY <1>3, StopDoes, Facts
  <2>2. UNCHANGED <<id, said, cuts, lines, history, overlapped>>
    BY <1>3, <2>1, StopDoes
  <2> QED
    BY <1>0, <1>1, <1>3, <2>2
<1>4. ASSUME UNCHANGED vars, ~overlapped', cuts' = 0,
             NEW q \in Runs \ odd', Bearers(q) = {q}
      PROVE  InPlace(q)'
  BY <1>0, <1>1, <1>4 DEF vars
<1>5. ASSUME NEW r \in Runs, WriteOdd(r), ~overlapped', cuts' = 0,
             NEW q \in Runs \ odd', Bearers(q) = {q}
      PROVE  InPlace(q)'
  <2>1. ~overlapped /\ cuts = 0 /\ said' = said /\ UNCHANGED <<id, history>>
    BY <1>5, OddDoes, OddAlone
  <2>2. InPlace(q) /\ q \in Runs
    BY <1>0, <1>5, <2>1
  <2>3. Garbled \in TypedLines /\ ~Parses(Garbled)
    BY GarbledParts
  <2>4. lines' = lines \/ lines' = Append(lines, Garbled)
    BY <1>5, OddDoes
  <2> QED
    BY <2>1, <2>2, <2>3, <2>4, SameLines
<1>6. ASSUME ~overlapped', cuts' = 0, NEW q \in Runs \ odd', Bearers(q) = {q}
      PROVE  InPlace(q)'
  BY <1>2, <1>3, <1>4, <1>5, <1>6, NextCases
<1> QED
  BY <1>0, <1>6 DEF LinesInPlace

-----------------------------------------------------------------------------
(* The texts begun                                                         *)

LEMMA EventOfLine ==
  ASSUME NEW line \in TypedLines, NEW event \in Events \ WholeEvents
  PROVE  EventOf(line) = event
           <=> line.at = "closed" /\ line.texts # <<>> /\ line.texts[1] = event
<1>1. event # "unknown" /\ event \notin WholeEvents /\ event \in Events
  BY DEF Events
<1> QED
  BY <1>1 DEF EventOf, Parses

\* How far run r is with beginning its texts.
Done(r) == said[r] + (IF written[r] = 4 THEN 1 ELSE 0)

LEMMA BegunIs ==
  ASSUME NEW event
  PROVE  Begun(event) = {w \in Runs \X (1 .. MaxLength) :
                           /\ w[2] <= Len(history[w[1]])
                           /\ history[w[1]][w[2]] = event
                           /\ w[2] <= Done(w[1])}
BY DEF Begun, Done

LEMMA BegunFinite ==
  ASSUME NEW event
  PROVE  IsFiniteSet(Begun(event)) /\ Cardinality(Begun(event)) \in Nat
<1>1. IsFiniteSet(Runs) /\ IsFiniteSet(1 .. MaxLength)
  BY AuditLogAssumption, FS_Interval
<1>2. IsFiniteSet(Runs \X (1 .. MaxLength))
  BY <1>1, FS_Product
<1>3. Begun(event) \subseteq Runs \X (1 .. MaxLength)
  BY DEF Begun
<1> QED
  BY <1>2, <1>3, FS_Subset, FS_CardinalityType

LEMMA DoneGrows ==
  ASSUME TypeOK, [Next]_vars, NEW q \in Runs
  PROVE  Done(q) \in Nat /\ Done(q)' \in Nat /\ Done(q) <= Done(q)'
<1>1. said[q] \in Nat /\ written[q] \in 0 .. 4
  BY Facts
<1>2. ASSUME NEW r \in Runs, Write(r)
      PROVE  Done(q)' = Done(q) \/ Done(q)' = Done(q) + 1
  <2>1. CASE written[r] = 4
    <3>1. /\ said'[q] = IF q = r THEN said[r] + 1 ELSE said[q]
          /\ written'[q] = IF q = r THEN 0 ELSE written[q]
      BY <1>2, <2>1, WriteDoes, Facts
    <3> QED
      BY <1>1, <2>1, <3>1 DEF Done
  <2>2. CASE written[r] # 4
    <3>1. /\ said'[q] = said[q]
          /\ written'[q] = IF q = r THEN written[r] + 1 ELSE written[q]
      BY <1>2, <2>2, WriteDoes, Facts
    <3> QED
      BY <1>1, <2>2, <3>1 DEF Done
  <2> QED
    BY <2>1, <2>2
<1>3. ASSUME NEW r \in Runs, Stop(r)
      PROVE  Done(q)' = Done(q) \/ Done(q)' = Done(q) + 1
  <2>1. CASE written[r] = 0
    BY <1>3, <2>1, StopDoes DEF Done
  <2>2. CASE written[r] # 0
    <3>1. /\ said'[q] = IF q = r THEN said[r] + 1 ELSE said[q]
          /\ written'[q] = IF q = r THEN 0 ELSE written[q]
      BY <1>3, <2>2, StopDoes, Facts
    <3> QED
      BY <1>1, <2>2, <3>1 DEF Done
  <2> QED
    BY <2>1, <2>2
<1>4. ASSUME UNCHANGED vars
      PROVE  Done(q)' = Done(q)
  BY <1>4 DEF vars, Done
<1>5. Done(q) \in Nat
  BY <1>1 DEF Done
<1>6. ASSUME NEW r \in Runs, WriteOdd(r)
      PROVE  Done(q)' = Done(q) \/ Done(q)' = Done(q) + 1
  <2>1. said'[q] = said[q] /\ written'[q] = (IF q = r THEN 4 ELSE written[q]) /\ written[r] = 3
    BY <1>6, OddDoes, Facts
  <2> QED
    BY <1>1, <2>1 DEF Done
<1> QED
  BY <1>2, <1>3, <1>4, <1>5, <1>6, NextCases

LEMMA BegunGrows ==
  ASSUME TypeOK, [Next]_vars, NEW event
  PROVE  Begun(event) \subseteq Begun(event)'
<1>1. history' = history
  BY SaidGrows
<1>2. ASSUME NEW w \in Runs \X (1 .. MaxLength), w[2] <= Done(w[1])
      PROVE  w[2] <= Done(w[1])'
  <2>1. w[1] \in Runs /\ w[2] \in Nat
    BY AuditLogAssumption
  <2>2. Done(w[1]) \in Nat /\ Done(w[1])' \in Nat /\ Done(w[1]) <= Done(w[1])'
    BY <2>1, DoneGrows
  <2> QED
    BY <1>2, <2>1, <2>2
<1>3. Begun(event)' = {w \in Runs \X (1 .. MaxLength) :
                         /\ w[2] <= Len(history'[w[1]])
                         /\ history'[w[1]][w[2]] = event
                         /\ w[2] <= Done(w[1])'}
  BY DEF Begun, Done
<1> QED
  BY <1>1, <1>2, <1>3, BegunIs

LEMMA BegunGrowsBy ==
  ASSUME TypeOK, [Next]_vars, NEW event
  PROVE  /\ Cardinality(Begun(event)) \in Nat /\ Cardinality(Begun(event)') \in Nat
         /\ Cardinality(Begun(event)) <= Cardinality(Begun(event)')
         /\ \A w : w \in Begun(event)' /\ w \notin Begun(event) =>
              Cardinality(Begun(event)) + 1 <= Cardinality(Begun(event)')
<1>1. IsFiniteSet(Begun(event)) /\ IsFiniteSet(Begun(event)')
  <2>1. IsFiniteSet(Runs) /\ IsFiniteSet(1 .. MaxLength)
    BY AuditLogAssumption, FS_Interval
  <2>2. IsFiniteSet(Runs \X (1 .. MaxLength))
    BY <2>1, FS_Product
  <2>3. Begun(event)' \subseteq Runs \X (1 .. MaxLength)
    BY DEF Begun
  <2> QED
    BY <2>2, <2>3, FS_Subset, BegunFinite
<1>2. ASSUME NEW w, w \in Begun(event)', w \notin Begun(event)
      PROVE  Cardinality(Begun(event)) + 1 <= Cardinality(Begun(event)')
  <2>1. Begun(event) \cup {w} \subseteq Begun(event)'
    BY <1>2, BegunGrows
  <2>2. Cardinality(Begun(event) \cup {w}) = Cardinality(Begun(event)) + 1
    BY <1>1, <1>2, FS_AddElement
  <2> QED
    BY <1>1, <2>1, <2>2, FS_Subset
<1>3. Cardinality(Begun(event)) <= Cardinality(Begun(event)')
  BY <1>1, BegunGrows, FS_Subset
<1> QED
  BY <1>1, <1>2, <1>3, FS_CardinalityType

\* The lines that carry a text.
Carrying(event) == {i \in DOMAIN lines : EventOf(lines[i]) = event}

\* What is begun of one event: BegunSoFar is the part of TextsAreBegun about it.
BegunSoFar(event) ==
  /\ Counted(event) <= Cardinality(Begun(event))
  /\ InTail(event) => Counted(event) + 1 <= Cardinality(Begun(event))

LEMMA FirstOfAppended ==
  ASSUME NEW S, NEW q \in Seq(S), NEW c \in S
  PROVE  /\ Append(q, c) # <<>>
         /\ Append(q, c)[1] = IF q = <<>> THEN c ELSE q[1]
<1>1. Len(q) \in Nat /\ Len(Append(q, c)) = Len(q) + 1 /\ (q = <<>> => Len(q) = 0)
  OBVIOUS
<1>2. Append(q, c) # <<>>
  BY <1>1
<1>3. CASE q = <<>>
  BY <1>3
<1>4. CASE q # <<>>
  <2>1. Len(q) >= 1
    BY <1>1, <1>4, EmptySeq
  <2> QED
    BY <1>1, <1>2, <1>4, <2>1
<1> QED
  BY <1>2, <1>3, <1>4

\* A fragment of an append that puts a text that counts first into the tail is its
\* text, so it begins it.
LEMMA TextOfTail ==
  ASSUME TypeOK, NEW r \in Runs, Write(r), written[r] # 4, NEW event \in Events \ WholeEvents,
         InTail(event)', ~InTail(event)
  PROVE  /\ written[r] = 3
         /\ <<r, said[r] + 1>> \in Begun(event)'
         /\ <<r, said[r] + 1>> \notin Begun(event)
<1> DEFINE c == Content(r)
           fragment == Fragments[written[r] + 1]
<1>1. /\ tail' = Extended(tail, fragment, c) /\ fragment \in {"open", "content", "middle"}
      /\ written[r] \in 0 .. 3 /\ written' = [written EXCEPT ![r] = written[r] + 1]
      /\ UNCHANGED <<said, history>> /\ Appending(r)
  BY WriteDoes
<1>2. tail \in TypedLines /\ c \in Ids \cup Events
  BY <1>1, ContentTyped, Facts
<1>3. fragment = "content" /\ c = event
  <2>1. CASE fragment = "open"
    <3>1. tail'.texts = <<>> \/ tail'.texts = tail.texts
      BY <1>1, <1>2, <2>1, ExtendedBy, GarbledParts
    <3> QED
      BY <3>1 DEF InTail
  <2>2. CASE fragment = "middle"
    <3>1. tail'.texts = <<>> \/ tail'.texts = tail.texts
      BY <1>1, <1>2, <2>2, ExtendedBy, GarbledParts
    <3> QED
      BY <3>1 DEF InTail
  <2>3. CASE fragment = "content"
    <3>1. \/ tail'.texts = <<>> \/ tail'.texts = tail.texts
          \/ tail'.texts = Append(tail.texts, c)
      BY <1>1, <1>2, <2>3, ExtendedBy, GarbledParts
    <3>2. tail'.texts = Append(tail.texts, c)
      BY <3>1 DEF InTail
    <3>3. tail'.texts[1] = IF tail.texts = <<>> THEN c ELSE tail.texts[1]
      BY <1>2, <3>2, LineParts, FirstOfAppended
    <3> QED
      BY <2>3, <3>3 DEF InTail
  <2> QED
    BY <1>1, <2>1, <2>2, <2>3
<1>4. written[r] = 3
  <2>1. written[r] # 0 /\ written[r] # 2
    BY <1>3, FragmentAt
  <2>2. written[r] # 1
    BY <1>3, Facts DEF Content
  <2> QED
    BY <1>1, <2>1, <2>2
<1>5. history[r][said[r] + 1] = event
  BY <1>3, <1>4 DEF Content
<1>6. said[r] \in Nat /\ said[r] + 1 <= Len(history[r]) /\ said[r] + 1 \in 1 .. MaxLength
  BY <1>1, Facts DEF Appending
<1>7. Done(r) = said[r] /\ Done(r)' = said[r] + 1
  BY <1>1, <1>4, <1>6, Facts DEF Done
<1>8. <<r, said[r] + 1>> \notin Begun(event)
  BY <1>6, <1>7, BegunIs
<1>9. Begun(event)' = {w \in Runs \X (1 .. MaxLength) :
                         /\ w[2] <= Len(history'[w[1]])
                         /\ history'[w[1]][w[2]] = event
                         /\ w[2] <= Done(w[1])'}
  BY DEF Begun, Done
<1>10. <<r, said[r] + 1>> \in Begun(event)'
  BY <1>1, <1>5, <1>6, <1>7, <1>9
<1> QED
  BY <1>4, <1>8, <1>10

LEMMA TextsAreBegunNext ==
  ASSUME TypeOK, TextsAreBegun, [Next]_vars
  PROVE  TextsAreBegun'
<1> SUFFICES ASSUME NEW event \in Events \ WholeEvents
             PROVE  BegunSoFar(event)'
  BY DEF TextsAreBegun, BegunSoFar, Events, WholeEvents
<1> DEFINE b == Cardinality(Begun(event))
           b2 == Cardinality(Begun(event)')
           n == Cardinality(Carrying(event))
           n2 == Cardinality(Carrying(event)')
<1>1. n <= b /\ (InTail(event) => n + 1 <= b)
  BY DEF TextsAreBegun, Counted, Carrying
<1>2. /\ b \in Nat /\ b2 \in Nat /\ b <= b2
      /\ \A w : w \in Begun(event)' /\ w \notin Begun(event) => b + 1 <= b2
  BY BegunGrowsBy
<1>3. IsFiniteSet(Carrying(event)) /\ n \in Nat
  BY SomeLines DEF Carrying
<1>4. (n2 <= b2 /\ (InTail(event)' => n2 + 1 <= b2)) => BegunSoFar(event)'
  BY DEF BegunSoFar, Counted, Carrying
<1>5. ASSUME UNCHANGED lines
      PROVE  n2 = n
  BY <1>5 DEF Carrying
<1>6. ASSUME NEW r \in Runs, Write(r)
      PROVE  n2 <= b2 /\ (InTail(event)' => n2 + 1 <= b2)
  <2>1. CASE written[r] # 4
    <3>1. n2 = n
      BY <1>5, <1>6, <2>1, WriteDoes
    <3>2. InTail(event)' /\ ~InTail(event) => b + 1 <= b2
      BY <1>2, <1>6, <2>1, TextOfTail
    <3> HIDE DEF b, b2, n, n2
    <3> QED
      BY <1>1, <1>2, <1>3, <3>1, <3>2
  <2>2. CASE written[r] = 4
    <3> DEFINE x == Extended(tail, "close", Content(r))
    <3>1. lines' = Append(lines, x) /\ tail' = Blank /\ Appending(r)
      BY <1>6, <2>2, WriteDoes
    <3>2. tail \in TypedLines /\ Content(r) \in Ids \cup Events
      BY <3>1, ContentTyped, Facts
    <3>3. x \in TypedLines
      BY <3>2, ExtendedTyped
    <3>4. ~ InTail(event)'
      BY <3>1, GarbledParts DEF InTail
    <3>5. EventOf(x) = event => InTail(event)
      <4>1. x.texts = <<>> \/ x.texts = tail.texts
        BY <3>2, ExtendedBy, GarbledParts
      <4> QED
        BY <3>3, <4>1, EventOfLine DEF InTail
    <3>6. PICK m : m = Len(lines) + 1
      OBVIOUS
    <3> HIDE DEF x
    <3>7. Carrying(event)' = IF EventOf(x) = event THEN Carrying(event) \cup {m}
                             ELSE Carrying(event)
      BY <3>1, <3>3, <3>6, OneMoreLine DEF Carrying
    <3>8. m \notin Carrying(event)
      BY <3>1, <3>3, <3>6, OneMoreLine DEF Carrying
    <3>9. n2 = IF EventOf(x) = event THEN n + 1 ELSE n
      BY <1>3, <3>7, <3>8, FS_AddElement
    <3> HIDE DEF b, b2, n, n2
    <3> QED
      BY <1>1, <1>2, <1>3, <3>4, <3>5, <3>9
  <2> QED
    BY <2>1, <2>2
<1>7. ASSUME UNCHANGED <<lines, tail>>
      PROVE  n2 <= b2 /\ (InTail(event)' => n2 + 1 <= b2)
  <2>1. n2 = n /\ (InTail(event)' => InTail(event))
    BY <1>5, <1>7 DEF InTail
  <2> HIDE DEF b, b2, n, n2
  <2> QED
    BY <1>1, <1>2, <1>3, <2>1
<1>8. ASSUME NEW r \in Runs, Stop(r)
      PROVE  UNCHANGED <<lines, tail>>
  BY <1>8, StopDoes
<1>9. CASE UNCHANGED vars
  BY <1>4, <1>7, <1>9 DEF vars
<1>10. ASSUME NEW r \in Runs, WriteOdd(r)
       PROVE  n2 <= b2 /\ (InTail(event)' => n2 + 1 <= b2)
  <2>1. ~ InTail(event)'
    BY <1>10, OddDoes, GarbledParts DEF InTail
  <2>2. EventOf(Garbled) # event /\ Garbled \in TypedLines
    BY GarbledParts, EventOfLine
  <2>3. Carrying(event)' = Carrying(event)
    <3>1. CASE UNCHANGED lines
      BY <3>1 DEF Carrying
    <3>2. CASE lines' = Append(lines, Garbled)
      BY <2>2, <3>2, OneMoreLine DEF Carrying
    <3> QED
      BY <1>10, <3>1, <3>2, OddDoes
  <2>4. n2 = n
    BY <2>3
  <2> HIDE DEF b, b2, n, n2
  <2> QED
    BY <1>1, <1>2, <1>3, <2>1, <2>4
<1> QED
  BY <1>4, <1>6, <1>7, <1>8, <1>9, <1>10, NextCases

-----------------------------------------------------------------------------
(* The inductive invariant                                                 *)

LEMMA InitInv ==
  ASSUME Init
  PROVE  IInv
<1>1. lines = <<>> /\ DOMAIN lines = {} /\ tail = Blank /\ cuts = 0 /\ spoils = 0
      /\ (\A r \in Runs : said[r] = 0 /\ written[r] = 0)
  BY DEF Init
<1>2. Tidy
  BY <1>1 DEF Tidy
<1>3. Cardinality({}) = 0
  BY FS_EmptySet
<1>4. OneWriter /\ TailIsKnown /\ OddTail /\ LinesAreSaid
  BY <1>1, <1>2 DEF OneWriter, TailIsKnown, OddTail, LinesAreSaid
<1>5. CutsPay
  <2>1. {i \in DOMAIN lines : ~Parses(lines[i])} = {}
    BY <1>1
  <2> QED
    BY <1>1, <1>2, <1>3, <2>1 DEF CutsPay
<1>6. LinesInPlace
  <2>1. \A r \in Runs : LinesOf(r) = {}
    BY <1>1 DEF LinesOf
  <2> QED
    BY <1>1, <1>3, <2>1 DEF LinesInPlace, InPlace
<1>7. TextsAreBegun
  <2>1. ASSUME NEW event \in Events \ WholeEvents
        PROVE  Counted(event) <= Cardinality(Begun(event)) /\ ~ InTail(event)
    <3>1. {i \in DOMAIN lines : EventOf(lines[i]) = event} = {}
      BY <1>1
    <3>2. Counted(event) = 0
      BY <1>3, <3>1 DEF Counted
    <3> QED
      BY <1>1, <3>2, BegunFinite, GarbledParts DEF InTail
  <2> QED
    BY <2>1 DEF TextsAreBegun
<1> QED
  BY <1>4, <1>5, <1>6, <1>7, TypeInit DEF IInv

\* Writers, the tail, the lines and the cuts stay in step (writeln! in audit.rs).
THEOREM Inductive == Spec => []IInv
<1>1. IInv /\ [Next]_vars => IInv'
  BY TypeNext, OneWriterNext, TailIsKnownNext, CutsPayNext, OddTailNext,
     LinesAreSaidNext, LinesInPlaceNext, TextsAreBegunNext DEF IInv
<1> QED
  BY InitInv, <1>1, PTL DEF Spec

\* Every variable keeps its type: no run says more than it has to say, and only a run
\* that goes on and has something to say is inside an append.
THEOREM TypeCorrect == Spec => []TypeOK
<1>1. IInv => TypeOK
  BY DEF IInv
<1> QED
  BY <1>1, Inductive, PTL

\* A line of one text that was said reads back as it.
LEMMA SaidEvent ==
  ASSUME NEW line \in TypedLines, Parses(line), NEW event \in Events, line.texts = <<event>>
  PROVE  EventOf(line) = event
<1>1. line.texts[1] = event /\ Len(line.texts) = 1
  OBVIOUS
<1> QED
  BY <1>1 DEF EventOf

\* While no two appends overlap and none is cut off, what load_runs groups under the id
\* of one run is what append was called with, in order, if none of its own texts holds
\* what breaks a line; texts of other runs that do cost it nothing.
THEOREM UndisturbedLogIsRead == Spec => []RunsReplayInFull
<1>1. IInv => RunsReplayInFull
  <2> SUFFICES ASSUME IInv, ~overlapped, cuts = 0, NEW r \in Runs \ odd, Bearers(r) = {r}
               PROVE  /\ Cardinality(LinesOf(r)) = said[r]
                      /\ \A i \in LinesOf(r) : EventOf(lines[i]) = history[r][Place(r, i)]
    BY DEF RunsReplayInFull
  <2>1. /\ Cardinality(LinesOf(r)) = said[r]
        /\ \A i \in LinesOf(r) : Place(r, i) \in 1 .. said[r]
                                 /\ lines[i].texts = <<history[r][Place(r, i)]>>
    BY DEF IInv, LinesInPlace, InPlace
  <2>2. ASSUME NEW i \in LinesOf(r)
        PROVE  EventOf(lines[i]) = history[r][Place(r, i)]
    <3>1. i \in DOMAIN lines /\ Parses(lines[i]) /\ lines[i] \in TypedLines
      BY Facts DEF LinesOf, IInv
    <3>2. Place(r, i) \in 1 .. Len(history[r])
      BY <2>1, Facts DEF IInv
    <3>3. history[r][Place(r, i)] \in Events
      BY <3>2, Facts DEF IInv
    <3> QED
      BY <2>1, <3>1, <3>3, SaidEvent
  <2> QED
    BY <2>1, <2>2
<1> QED
  BY <1>1, Inductive, PTL

\* A process killed inside append costs the line it was writing and at most the one
\* that is written after it; for the rest it is texts that break their own lines.
THEOREM CutsAreCheap == Spec => []CutsSpoilOneLineEach
<1>1. IInv => CutsSpoilOneLineEach
  <2> SUFFICES ASSUME IInv, ~overlapped
               PROVE  Cardinality(Unread) <= cuts + spoils
    BY DEF CutsSpoilOneLineEach, Unread
  <2>1. Cardinality(Unread) + (IF Tidy THEN 0 ELSE 1) <= cuts + spoils
    BY DEF IInv, CutsPay, Unread
  <2>2. Cardinality(Unread) \in Nat /\ cuts \in Nat /\ spoils \in Nat
    BY SomeLines, Facts DEF IInv, Unread
  <2> QED
    BY <2>1, <2>2
<1> QED
  BY <1>1, Inductive, PTL

\* collect_approval_stats counts no decision twice, however appends run into one another.
THEOREM CountsAreBegun == Spec => []DecisionsNotOvercounted
<1>1. IInv => DecisionsNotOvercounted
  BY DEF IInv, TextsAreBegun, DecisionsNotOvercounted
<1> QED
  BY <1>1, Inductive, PTL

-----------------------------------------------------------------------------
(* Verdicts                                                                *)

\* A set of numbers up to a bound has a maximum.
LEMMA MaxExists ==
  ASSUME NEW n \in Nat, NEW K \in SUBSET (1 .. n), K # {}
  PROVE  Max(K) \in K
<1> DEFINE below == {n - k : k \in K}
<1>1. below \subseteq Nat /\ below # {}
  <2>1. \A k \in K : k \in 1 .. n
    OBVIOUS
  <2>2. \A k \in K : n - k \in Nat
    BY <2>1
  <2> QED
    BY <2>2
<1> HIDE DEF below
<1>2. PICK x \in below : \A y \in below : ~ (<<y, x>> \in OpToRel(<, Nat))
  BY <1>1, WFMin, NatLessThanWellFounded
<1>3. \A y \in below : ~ (y < x)
  <2> SUFFICES ASSUME NEW y \in below, y < x PROVE FALSE
    OBVIOUS
  <2>1. <<y, x>> \in OpToRel(<, Nat)
    BY <1>1, y < x DEF OpToRel
  <2> QED
    BY <2>1, <1>2
<1>4. PICK k \in K : x = n - k
  BY DEF below
<1>5. ASSUME NEW j \in K PROVE k >= j
  <2>1. n - j \in below
    BY DEF below
  <2> QED
    BY <2>1, <1>3, <1>4
<1> QED
  BY <1>5 DEF Max

\* No two decisive events have a verdict in common, and none has that of an interruption.
LEMMA VerdictsDiffer ==
  /\ \A d, e \in DecisiveEvents : VerdictOf(d) = VerdictOf(e) => d = e
  /\ \A e \in DecisiveEvents : /\ VerdictOf(e) # Verdict("Incomplete", "interrupted")
                               /\ VerdictOf(e) # Verdict("Unknown", "none")
<1>1. \A e \in DecisiveEvents :
        VerdictOf(e).reason = IF e = "loop_completed" THEN "none"
                              ELSE IF e = "denied" THEN "denied"
                              ELSE IF e = "skipped" THEN "skipped" ELSE "loop_failed"
  BY DEF DecisiveEvents, VerdictOf, Verdict
<1>2. VerdictOf("loop_completed").outcome = "Completed"
  BY DEF VerdictOf, Verdict
<1>3. /\ Verdict("Incomplete", "interrupted").reason = "interrupted"
      /\ Verdict("Unknown", "none").outcome = "Unknown"
      /\ Verdict("Unknown", "none").reason = "none"
  BY DEF Verdict
<1> QED
  BY <1>1, <1>2, <1>3 DEF DecisiveEvents

\* The verdict of a log with a line that decides is that of such a line.
LEMMA VerdictIsRead ==
  ASSUME NEW log, NEW n \in Nat, DOMAIN log = 1 .. n,
         NEW event \in DecisiveEvents, ReplayOf(log) = VerdictOf(event)
  PROVE  \E i \in DOMAIN log : log[i].readable /\ log[i].event = event
<1>1. DecisiveLines(log) # {}
  BY VerdictsDiffer DEF ReplayOf
<1>2. DecisiveLines(log) \subseteq 1 .. n
  BY DEF DecisiveLines, ReadLines
<1>3. PICK i \in DecisiveLines(log) : i = Max(DecisiveLines(log))
  BY <1>1, <1>2, MaxExists
<1>4. VerdictOf(log[i].event) = VerdictOf(event)
  BY <1>1, <1>3 DEF ReplayOf
<1>5. i \in DOMAIN log /\ log[i].readable /\ log[i].event \in DecisiveEvents
  BY DEF DecisiveLines, ReadLines
<1> QED
  BY <1>4, <1>5, VerdictsDiffer

\* classify_run finds for no run an outcome that no run of its id logged, whatever was
\* cut off, broken or lost.
THEOREM VerdictsAreSaid == Spec => []NoVerdictIsInvented
<1>1. IInv => NoVerdictIsInvented
  <2> SUFFICES ASSUME IInv, ~overlapped, NEW r \in Runs, NEW event \in DecisiveEvents,
                      ReplayOf(LogOf(r)) = VerdictOf(event)
               PROVE  \E q \in Bearers(r) : HasSaid(q, event)
    BY DEF NoVerdictIsInvented
  <2>1. TypeOK /\ LinesAreSaid
    BY DEF IInv
  <2>2. DOMAIN LogOf(r) = 1 .. Len(lines) /\ Len(lines) \in Nat /\ DOMAIN lines = 1 .. Len(lines)
    BY <2>1, Facts DEF LogOf
  <2>3. PICK i \in DOMAIN LogOf(r) : LogOf(r)[i].readable /\ LogOf(r)[i].event = event
    BY <2>2, VerdictIsRead
  <2>4. i \in DOMAIN lines /\ i \in LinesOf(r) /\ EventOf(lines[i]) = event
    BY <2>2, <2>3 DEF LogOf, Line
  <2>5. Parses(lines[i]) /\ lines[i].runs = <<id[r]>> /\ lines[i] \in TypedLines
    BY <2>1, <2>4, Facts DEF LinesOf
  <2>6. PICK q \in Runs : \E k \in 1 .. said[q] :
               lines[i].runs = <<id[q]>> /\ lines[i].texts = <<history[q][k]>>
    BY <2>1, <2>4, <2>5 DEF LinesAreSaid
  <2>7. PICK k \in 1 .. said[q] : lines[i].runs = <<id[q]>> /\ lines[i].texts = <<history[q][k]>>
    BY <2>6
  <2>8. q \in Bearers(r)
    BY <2>5, <2>7 DEF Bearers
  <2>9. history[q][k] \in Events
    <3>1. k \in 1 .. Len(history[q])
      BY <2>1, Facts
    <3> QED
      BY <2>1, <3>1, Facts
  <2>10. history[q][k] = event
    BY <2>4, <2>5, <2>7, <2>9, SaidEvent
  <2> QED
    BY <2>8, <2>10 DEF HasSaid
<1> QED
  BY <1>1, Inductive, PTL

=============================================================================
