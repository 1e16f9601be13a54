----------------------------- MODULE CommandProofs -----------------------------
(* What is proved of run_program, for any bounds on rounds and keys, any ranges of
   work amounts and any widths; and of what is read from text, for any lines. *)
EXTENDS MCCommandLine, FiniteSetTheorems, SequenceTheorems, WellFoundedInduction, TLAPS

-----------------------------------------------------------------------------
(* The PilotTUI and the thread that writes to it. *)

Mains == {"away", "begin", "plain", "start", "loop", "select", "join", "back"}

\* The thread is started when the PilotTUI is there, and is of interest until it is joined; it leaves a
\* result behind.
Joinable ==
  /\ main \in Mains
  /\ main \in {"start", "loop", "select", "join"} => alive
  /\ main \in {"away", "begin", "plain", "start"} => thread = "none"
  /\ main \in {"loop", "select", "join"} => thread # "none"
  /\ thread \in {"report", "gone"} => result \in Results
  /\ main = "back" => thread \in {"none", "gone"} /\ returned \in Results /\ returned = result

LEMMA JoinableSuffices == Joinable => JoinedFirst
  BY DEF Joinable, JoinedFirst, Mains

LEMMA JoinableInit == Init => Joinable
  BY DEF Init, TuiInit, Joinable, Mains

LEMMA JoinableStep == Joinable /\ [Next]_vars => Joinable'
<1> SUFFICES ASSUME Joinable, [Next]_vars PROVE Joinable'
  OBVIOUS
<1> USE DEF Joinable, Mains
<1>1. CASE UNCHANGED tui
  BY <1>1 DEF tui
<1>2. CASE UNCHANGED <<main, thread, alive, result, returned>>
  BY <1>2
<1>3. CASE EnterSession
  BY <1>3 DEF EnterSession
<1>4. CASE MainSteps
  <2>1. CASE Construct
    BY <2>1 DEF Construct
  <2>2. CASE RunPlain
    BY <2>2 DEF RunPlain, Endings
  <2>3. CASE Start
    BY <2>3 DEF Start
  <2>4. CASE Await
    BY <2>4 DEF Await
  <2>5. CASE GetKey
    BY <2>5 DEF GetKey
  <2>6. CASE Join
    BY <2>6 DEF Join
  <2> QED
    BY <1>4, <2>1, <2>2, <2>3, <2>4, <2>5, <2>6 DEF MainSteps
<1>5. CASE Thread
  <2>1. CASE Insert
    BY <2>1 DEF Insert
  <2>2. CASE Round
    BY <2>2 DEF Round
  <2>3. CASE EndSession
    BY <2>3 DEF EndSession, Endings
  <2>4. CASE EndThread
    BY <2>4 DEF EndThread
  <2> QED
    BY <1>5, <2>1, <2>2, <2>3, <2>4 DEF Thread
<1> HIDE DEF Joinable, Mains
<1>6. CASE UNCHANGED vars
  BY <1>1, <1>6 DEF vars
<1>7. CASE Tool
  <2>1. CASE \/ Dispatch \/ Parse \/ Program \/ NewWorkload \/ DurationCol \/ WorkAmountRange
             \/ PiOption \/ WpsOption \/ Environment \/ Precision \/ Export
    BY <1>1, <2>1 DEF Dispatch, Parse, Program, NewWorkload, DurationCol, WorkAmountRange, PiOption, WpsOption,
                      Environment, Precision, Export
  <2>2. CASE SessionLimitOption
    BY <1>2, <2>2 DEF SessionLimitOption
  <2>3. CASE Wait
    BY <1>4, <2>3 DEF Wait
  <2> QED
    BY <1>3, <1>7, <2>1, <2>2, <2>3 DEF Tool
<1>8. CASE KeysFail
  BY <1>1, <1>8 DEF KeysFail
<1>9. CASE Runner
  BY <1>5, <1>9 DEF Runner, InProcess
<1>10. CASE InProcess(Press)
  BY <1>2, <1>10 DEF InProcess, Press
<1>11. CASE Sigint
  BY <1>2, <1>11 DEF Sigint
<1> QED
  BY <1>6, <1>7, <1>8, <1>9, <1>10, <1>11 DEF Next

(* The PilotTUI outlives the runner's thread, and pilot_run_workload_tui returns what
   the session in it ended with, whatever keys are pressed and however many rounds
   there are. *)
THEOREM ThreadJoined == Spec => []JoinedFirst
<1>1. Spec => []Joinable
  BY JoinableInit, JoinableStep, PTL DEF Spec
<1> QED
  BY <1>1, JoinableSuffices, PTL

-----------------------------------------------------------------------------
(* The options of a session. *)

Satisfiable == pis = "must" \/ (wps = "must" /\ durations /\ WpsPossible)

\* What is known of the options at the check that comes next.
Checked ==
  /\ stage = "wps" => pis = "must" \/ pis = "none"
  /\ stage \in {"environment", "precision", "session"} => Satisfiable
  /\ stage = "session" => widths[1] >= 0 \/ widths[2] >= 0

LEMMA CheckedSuffices == Checked => WorthRunning
  BY DEF Checked, WorthRunning, Satisfiable

LEMMA CheckedInit == Init => Checked
  BY DEF Init, Checked

LEMMA CheckedStep == Checked /\ [Next]_vars => Checked'
<1> SUFFICES ASSUME Checked, [Next]_vars PROVE Checked'
  OBVIOUS
<1>1. CASE UNCHANGED <<stage, options>>
  BY <1>1 DEF options, Checked, Satisfiable, WpsPossible
<1>2. CASE stage' \in {"over", "dispatch", "parse", "program", "workload", "duration", "amount", "limit", "pis"}
  BY <1>2 DEF Checked
<1>3. CASE UNCHANGED vars
  BY <1>1, <1>3 DEF vars
<1>4. CASE \/ Dispatch \/ Parse \/ Program \/ NewWorkload \/ DurationCol \/ WorkAmountRange \/ SessionLimitOption
           \/ Export \/ KeysFail
  BY <1>2, <1>4 DEF Dispatch, Parse, Program, NewWorkload, DurationCol, WorkAmountRange, SessionLimitOption,
                    Export, KeysFail, Exit, Go
<1>5. CASE PiOption
  BY <1>2, <1>5 DEF PiOption, Exit, Go, Checked
<1>6. CASE WpsOption
  <2>1. CASE stage' = "over"
    BY <1>2, <2>1
  <2>2. CASE stage' = "environment"
    BY <1>6, <2>2 DEF WpsOption, Exit, Go, Checked, Satisfiable, WpsPossible
  <2> QED
    BY <1>6, <2>1, <2>2 DEF WpsOption, Exit, Go
<1>7. CASE Environment
  BY <1>2, <1>7 DEF Environment, Exit, Go, options, Checked, Satisfiable, WpsPossible
<1>8. CASE Precision
  <2>1. CASE stage' = "over"
    BY <1>2, <2>1
  <2>2. CASE stage' = "session"
    <3>1. PICK ci \in Widths \cup {-1}, perc \in Widths \cup {1} : ~(ci < 0 /\ perc < 0) /\ widths' = <<ci, perc>>
      BY <1>8, <2>2 DEF Precision, Exit
    <3>2. ci \in Int /\ perc \in Int
      BY CommandsAssumption
    <3>3. widths'[1] >= 0 \/ widths'[2] >= 0
      BY <3>1, <3>2
    <3> QED
      BY <1>8, <2>2, <3>3 DEF Precision, Checked, Satisfiable, WpsPossible
  <2> QED
    BY <1>8, <2>1, <2>2 DEF Precision, Exit, Go
<1>9. CASE EnterSession \/ Wait \/ Runner \/ InProcess(Press) \/ Sigint
  BY <1>1, <1>9 DEF EnterSession, Wait, Runner, InProcess, Sigint
<1> QED
  BY <1>3, <1>4, <1>5, <1>6, <1>7, <1>8, <1>9 DEF Next, Tool

(* However the options are combined, a session that is started has something that it
   must satisfy, and a width to satisfy it with. *)
THEOREM OptionsSuffice == Spec => []WorthRunning
<1>1. Spec => []Checked
  BY CheckedInit, CheckedStep, PTL DEF Spec
<1> QED
  BY <1>1, CheckedSuffices, PTL
-----------------------------------------------------------------------------
(* The fields of a line. *)

\* Sets of natural numbers have a least element, and a greatest if they are bounded.
LEMMA Least ==
  ASSUME NEW T \in SUBSET Nat, T # {} PROVE \E x \in T : \A y \in T : x <= y
<1> DEFINE R == {x \in Nat \X Nat : x[1] < x[2]}
<1>1. IsWellFoundedOn(R, Nat)
  BY NatLessThanWellFounded DEF OpToRel
<1>2. \E x \in T : \A y \in T : ~(<<y, x>> \in R)
  <2> HIDE DEF R
  <2> QED
    BY <1>1, WFMin
<1>3. \A x, y \in Nat : ~(<<y, x>> \in R) => x <= y
  OBVIOUS
<1> HIDE DEF R
<1> QED
  BY <1>2, <1>3

LEMMA MinIs ==
  ASSUME NEW T \in SUBSET Nat, T # {} PROVE Text!Min(T) \in T /\ \A y \in T : Text!Min(T) <= y
  BY Least DEF Text!Min

LEMMA MaxIs ==
  ASSUME NEW T \in SUBSET Nat, T # {}, NEW n \in Nat, \A y \in T : y <= n
  PROVE  Text!Max(T) \in T /\ \A y \in T : Text!Max(T) >= y
<1> DEFINE D == {n - y : y \in T}
<1>1. D \in SUBSET Nat /\ D # {}
  <2>1. \A y \in T : y \in Nat /\ n - y \in Nat
    OBVIOUS
  <2> QED
    BY <2>1
<1>2. PICK d \in D : \A e \in D : d <= e
  <2> HIDE DEF D
  <2> QED
    BY <1>1, Least
<1>3. PICK x \in T : d = n - x
  OBVIOUS
<1>4. \A y \in T : x >= y
  BY <1>2, <1>3
<1> QED
  BY <1>4, Zenon DEF Text!Max

\* find_first_not_of passes over blanks only.
LEMMA SkipIs ==
  ASSUME NEW line, Len(line) \in Nat, NEW p \in 1 .. Len(line) + 1
  PROVE  /\ Text!Skip(line, p) \in p .. Len(line) + 1
         /\ \A k \in p .. Text!Skip(line, p) - 1 : Text!Blank(line[k])
         /\ Text!Skip(line, p) <= Len(line) => ~Text!Blank(line[Text!Skip(line, p)])
<1> DEFINE rest == {i \in p .. Len(line) : ~Text!Blank(line[i])}
<1>1. Text!Skip(line, p) = IF rest = {} THEN Len(line) + 1 ELSE Text!Min(rest)
  BY DEF Text!Skip
<1>2. \A i \in p .. Len(line) : i \in rest \/ Text!Blank(line[i])
  OBVIOUS
<1>3. CASE rest = {}
  BY <1>1, <1>2, <1>3
<1>4. CASE rest # {}
  <2>1. rest \in SUBSET Nat
    OBVIOUS
  <2>2. Text!Skip(line, p) \in rest /\ \A y \in rest : Text!Skip(line, p) <= y
    <3> HIDE DEF rest
    <3>1. Text!Skip(line, p) = Text!Min(rest)
      BY <1>1, <1>4
    <3>2. Text!Min(rest) \in rest /\ \A y \in rest : Text!Min(rest) <= y
      BY <1>4, <2>1, MinIs
    <3> QED
      BY <3>1, <3>2
  <2> QED
    BY <1>2, <2>2
<1> QED
  BY <1>3, <1>4

\* The number of cuts grows by one at a cut, and nowhere else.
LEMMA CutsAre ==
  ASSUME NEW line
  PROVE  /\ Text!Cuts(line, 0) = 0
         /\ \A i \in Nat : Text!Cuts(line, i) \in Nat
         /\ \A i \in Nat \ {0} : Text!Cuts(line, i) = Text!Cuts(line, i - 1) + (IF Text!Cut(line, i) THEN 1 ELSE 0)
         /\ \A i, k \in Nat : i <= k => Text!Cuts(line, i) <= Text!Cuts(line, k)
         /\ \A i, k \in Nat : i <= k /\ (\A j \in i + 1 .. k : ~Text!Cut(line, j)) =>
              Text!Cuts(line, k) = Text!Cuts(line, i)
<1> DEFINE C(i) == {j \in 1 .. i : Text!Cut(line, j)}
<1>1. \A i \in Nat : Text!Cuts(line, i) = Cardinality(C(i))
  BY Zenon DEF Text!Cuts, Text!Cardinality, Cardinality
<1>2. \A i \in Nat : IsFiniteSet(C(i)) /\ Cardinality(C(i)) \in Nat
  <2> SUFFICES ASSUME NEW i \in Nat PROVE IsFiniteSet(C(i)) /\ Cardinality(C(i)) \in Nat
    OBVIOUS
  <2>1. C(i) \in SUBSET (1 .. i) /\ IsFiniteSet(1 .. i)
    BY FS_Interval
  <2> HIDE DEF C
  <2> QED
    BY <2>1, FS_Subset, FS_CardinalityType
<1>3. Text!Cuts(line, 0) = 0
  <2>1. C(0) = {}
    OBVIOUS
  <2> HIDE DEF C
  <2> QED
    BY <1>1, <2>1, FS_EmptySet
<1>4. ASSUME NEW i \in Nat \ {0}
      PROVE  Text!Cuts(line, i) = Text!Cuts(line, i - 1) + (IF Text!Cut(line, i) THEN 1 ELSE 0)
  <2>1. i - 1 \in Nat /\ i \in Nat
    OBVIOUS
  <2>2. i \notin C(i - 1)
    OBVIOUS
  <2>3. CASE Text!Cut(line, i)
    <3>1. C(i) = C(i - 1) \cup {i}
      BY <2>3
    <3> HIDE DEF C
    <3> QED
      BY <1>1, <1>2, <2>1, <2>2, <2>3, <3>1, FS_AddElement
  <2>4. CASE ~Text!Cut(line, i)
    <3>1. C(i) = C(i - 1)
      BY <2>4
    <3> HIDE DEF C
    <3> QED
      BY <1>1, <1>2, <2>1, <2>4, <3>1
  <2> QED
    BY <2>3, <2>4
<1>5. ASSUME NEW i \in Nat, NEW k \in Nat, i <= k PROVE Text!Cuts(line, i) <= Text!Cuts(line, k)
  <2>1. C(i) \in SUBSET C(k)
    BY <1>5
  <2> HIDE DEF C
  <2> QED
    BY <1>1, <1>2, <2>1, FS_Subset
<1>6. ASSUME NEW i \in Nat, NEW k \in Nat, i <= k, \A j \in i + 1 .. k : ~Text!Cut(line, j)
      PROVE  Text!Cuts(line, k) = Text!Cuts(line, i)
  <2>1. C(i) = C(k)
    BY <1>6
  <2> HIDE DEF C
  <2> QED
    BY <1>1, <2>1
<1>7. \A i \in Nat : Text!Cuts(line, i) \in Nat
  <2> HIDE DEF C
  <2> QED
    BY <1>1, <1>2
<1> HIDE DEF C
<1> QED
  BY <1>3, <1>4, <1>5, <1>6, <1>7

LEMMA CutsGrow ==
  ASSUME NEW line, NEW i \in Nat, NEW k \in Nat, i <= k PROVE Text!Cuts(line, i) <= Text!Cuts(line, k)
  BY CutsAre

LEMMA CutsStep ==
  ASSUME NEW line, NEW i \in Nat, i # 0
  PROVE  Text!Cuts(line, i) = Text!Cuts(line, i - 1) + (IF Text!Cut(line, i) THEN 1 ELSE 0)
  BY CutsAre

LEMMA CutsStay ==
  ASSUME NEW line, NEW i \in Nat, NEW k \in Nat, i <= k, \A j \in i + 1 .. k : ~Text!Cut(line, j)
  PROVE  Text!Cuts(line, k) = Text!Cuts(line, i)
  BY CutsAre

\* Two characters with no cut between them have nothing else between them.
LEMMA NoGap ==
  ASSUME NEW line, Len(line) \in Nat, NEW i \in 1 .. Len(line), NEW p \in 1 .. Len(line), i <= p,
         Text!Plain(line, i), Text!Plain(line, p), Text!Cuts(line, i) = Text!Cuts(line, p)
  PROVE  \A k \in i .. p : Text!Plain(line, k)
<1>1. \A k \in i + 1 .. p : ~Text!Cut(line, k)
  <2> SUFFICES ASSUME NEW k \in i + 1 .. p, Text!Cut(line, k) PROVE FALSE
    OBVIOUS
  <2>1. k \in Nat \ {0} /\ k - 1 \in Nat /\ i \in Nat /\ p \in Nat /\ i <= k - 1 /\ k <= p
    OBVIOUS
  <2>2. PICK c : c = Text!Cuts(line, k - 1) /\ c \in Nat
    BY <2>1, CutsAre
  <2>3. Text!Cuts(line, k) = c + 1
    BY <2>1, <2>2, CutsAre
  <2>4. Text!Cuts(line, i) <= Text!Cuts(line, k - 1) /\ Text!Cuts(line, k) <= Text!Cuts(line, p)
    BY <2>1, CutsGrow
  <2>5. Text!Cuts(line, i) \in Nat /\ Text!Cuts(line, p) \in Nat
    BY <2>1, CutsAre
  <2> QED
    BY <2>2, <2>3, <2>4, <2>5
<1> DEFINE gaps == {k \in i .. p : ~Text!Plain(line, k)}
<1>2. SUFFICES ASSUME gaps # {} PROVE FALSE
  OBVIOUS
<1>3. PICK k \in gaps : \A l \in gaps : k <= l
  <2>1. gaps \in SUBSET Nat
    OBVIOUS
  <2> HIDE DEF gaps
  <2> QED
    BY <1>2, <2>1, Least
<1>4. /\ k \in i .. p /\ k # i /\ k # p /\ ~Text!Plain(line, k)
      /\ \A l \in i .. p : l < k => Text!Plain(line, l)
  BY <1>3
<1> HIDE DEF gaps
<1>5. k \in i + 1 .. p /\ k - 1 \in i .. p /\ k - 1 < k /\ k > 1 /\ k \in 1 .. Len(line) + 1
  BY <1>4
<1>6. Text!Plain(line, k - 1) /\ ~Text!Cut(line, k)
  BY <1>1, <1>4, <1>5
<1>7. Text!Blank(line[k])
  BY <1>4, <1>6 DEF Text!Cut, Text!Plain, Text!Blank
<1>8. PICK q : q = Text!Skip(line, k)
  OBVIOUS
<1>9. /\ q \in k .. Len(line) + 1 /\ (\A l \in k .. q - 1 : Text!Blank(line[l]))
      /\ (q <= Len(line) => ~Text!Blank(line[q]))
  BY <1>5, <1>8, SkipIs
<1>10. q <= p
  <2>1. SUFFICES ASSUME q > p PROVE FALSE
    BY <1>5, <1>9
  <2>2. p \in k .. q - 1
    BY <1>5, <1>9, <2>1
  <2> QED
    BY <1>9, <2>2 DEF Text!Plain, Text!Blank
<1>11. q \in k + 1 .. Len(line) /\ q \in i + 1 .. p /\ ~Text!Blank(line[q])
  BY <1>5, <1>7, <1>9, <1>10
<1>12. Text!Plain(line, q)
  BY <1>1, <1>11 DEF Text!Cut, Text!Plain, Text!Blank
<1> QED
  BY <1>5, <1>6, <1>7, <1>9, <1>11, <1>12 DEF Text!Cut

\* The characters of a field, of those up to p, and the field they make.
Held(line, p, n) == {i \in 1 .. p : Text!Plain(line, i) /\ Text!Cuts(line, i) = n}
Word(line, its) == IF its = {} THEN <<>> ELSE SubSeq(line, Text!Min(its), Text!Max(its))

LEMMA FieldIs ==
  ASSUME NEW line \in Seq(STRING), NEW n PROVE Text!FieldOf(line, n) = Word(line, Held(line, Len(line), n - 1))
<1>1. DOMAIN line = 1 .. Len(line)
  BY LenProperties
<1> QED
  BY <1>1 DEF Text!FieldOf, Word, Held

\* What has been read of a line, before a pass of the loop.
Reached(line, end, s) ==
  /\ s = [pos |-> s.pos, field |-> s.field, fields |-> s.fields]
  /\ s.pos \in 1 .. Len(line) + 1
  /\ s.fields \in Seq(Seq(STRING)) /\ Len(s.fields) = Text!Cuts(line, s.pos - 1)
  /\ \A n \in 1 .. Len(s.fields) : s.fields[n] = Text!FieldOf(line, n)
  /\ s.field = Word(line, Held(line, s.pos - 1, Len(s.fields)))
  /\ s.pos <= end /\ Text!Blank(line[s.pos]) => s.pos > 1 /\ Text!Plain(line, s.pos - 1)

LEMMA HeldSet ==
  ASSUME NEW line, NEW p \in Nat, NEW n
  PROVE  Held(line, p, n) \in SUBSET Nat /\ \A i \in Held(line, p, n) : i \in 1 .. p
  BY DEF Held

LEMMA WordIs ==
  ASSUME NEW line \in Seq(STRING), NEW p \in 0 .. Len(line), NEW n
  PROVE  Word(line, Held(line, p, n)) \in Seq(STRING)
<1> DEFINE its == Held(line, p, n)
<1>1. Len(line) \in Nat /\ p \in Nat /\ p <= Len(line) /\ its \in SUBSET Nat /\ \A i \in its : i \in 1 .. p
  BY LenProperties, HeldSet
<1> HIDE DEF its
<1>2. CASE its = {}
  BY <1>2, EmptySeq DEF Word, its
<1>3. CASE its # {}
  <2>1. PICK a : a = Text!Min(its) /\ a \in its
    BY <1>1, <1>3, MinIs
  <2>4. PICK b : b = Text!Max(its) /\ b \in its
    <3>1. \A i \in its : i <= p
      BY <1>1
    <3> QED
      BY <1>1, <1>3, <3>1, MaxIs
  <2>5. a \in 1 .. Len(line) /\ b \in 1 .. Len(line) /\ a \in Int /\ b \in Int
    BY <1>1, <2>1, <2>4
  <2>2. \A i \in a .. b : line[i] \in STRING
    BY <1>1, <2>5, ElementOfSeq
  <2>3. SubSeq(line, a, b) \in Seq(STRING)
    BY <2>5, <2>2, SubSeqProperties
  <2> QED
    BY <1>3, <2>1, <2>3, <2>4 DEF Word, its
<1> QED
  BY <1>2, <1>3

LEMMA SubSeqGrows ==
  ASSUME NEW line \in Seq(STRING), NEW p \in 1 .. Len(line), NEW a \in 1 .. p
  PROVE  SubSeq(line, a, p) = Append(SubSeq(line, a, p - 1), line[p])
<1>1. Len(line) \in Nat /\ a \in 1 .. Len(line) /\ p \in a .. Len(line) /\ a \in Int /\ p - 1 \in Int
  BY LenProperties
<1>2. SubSeq(line, a, p) = SubSeq(line, a, p - 1) \o <<line[p]>>
  BY <1>1, SubSeqRecursiveSecond
<1>3. \A k \in a .. p - 1 : line[k] \in STRING
  BY <1>1, ElementOfSeq
<1>4. SubSeq(line, a, p - 1) \in Seq(STRING)
  BY <1>1, <1>3, SubSeqProperties
<1> QED
  BY <1>1, <1>2, <1>4, AppendIsConcat, ElementOfSeq

\* A character that is neither a comma nor blank makes the field longer.
LEMMA WordGrows ==
  ASSUME NEW line \in Seq(STRING), NEW p \in 1 .. Len(line), Text!Plain(line, p)
  PROVE  Word(line, Held(line, p, Text!Cuts(line, p))) =
           Append(Word(line, Held(line, p - 1, Text!Cuts(line, p))), line[p])
<1> DEFINE n == Text!Cuts(line, p)
           old == Held(line, p - 1, n)
           new == Held(line, p, n)
<1>1. /\ Len(line) \in Nat /\ p \in Nat /\ p - 1 \in Nat /\ line[p] \in STRING
      /\ old \in SUBSET Nat /\ (\A i \in old : i \in 1 .. p - 1) /\ new \in SUBSET Nat /\ \A i \in new : i \in 1 .. p
  <2>1. Len(line) \in Nat
    BY LenProperties
  <2>2. p \in Nat /\ p - 1 \in Nat
    BY <2>1
  <2> QED
    BY <2>1, <2>2, HeldSet, ElementOfSeq
<1>2. new = old \cup {p}
  BY <1>1 DEF Held
<1>3. CASE old = {}
  <2>1. new = {p}
    BY <1>2, <1>3
  <2>2. Text!Min(new) = p /\ Text!Max(new) = p
    <3> HIDE DEF new
    <3>1. \A y \in new : y <= p
      BY <1>1
    <3> QED
      BY <1>1, <2>1, <3>1, MinIs, MaxIs
  <2>3. SubSeq(line, p, p) = Append(<<>>, line[p])
    <3>1. SubSeq(line, p, p - 1) = <<>>
      BY <1>1, SubSeqEmpty
    <3>2. p \in 1 .. p
      BY <1>1
    <3>3. SubSeq(line, p, p) = Append(SubSeq(line, p, p - 1), line[p])
      BY <3>2, SubSeqGrows
    <3> QED
      BY <3>1, <3>3
  <2> QED
    BY <1>3, <2>1, <2>2, <2>3 DEF Word
<1>4. CASE old # {}
  <2>1. PICK i \in old : TRUE
    BY <1>4
  <2>2. i \in 1 .. p - 1 /\ Text!Plain(line, i) /\ Text!Cuts(line, i) = Text!Cuts(line, p)
    BY <1>1, <2>1 DEF Held
  <2>3. \A k \in i .. p : Text!Plain(line, k)
    BY <1>1, <2>2, NoGap
  <2>4. p - 1 \in i .. p /\ p - 1 \in 1 .. p - 1
    BY <1>1, <2>2
  <2>5. Text!Cuts(line, p - 1) = n
    <3>1. i \in Nat /\ i <= p - 1 /\ p - 1 <= p
      BY <1>1, <2>2
    <3>2. Text!Cuts(line, i) <= Text!Cuts(line, p - 1) /\ Text!Cuts(line, p - 1) <= Text!Cuts(line, p)
      BY <1>1, <3>1, CutsGrow
    <3>3. Text!Cuts(line, i) \in Nat /\ Text!Cuts(line, p - 1) \in Nat /\ Text!Cuts(line, p) \in Nat
      BY <1>1, <3>1, CutsAre
    <3> QED
      BY <2>2, <3>2, <3>3
  <2>6. p - 1 \in old
    BY <2>3, <2>4, <2>5 DEF Held
  <2>7. p \in new /\ new # {} /\ \A y \in new : y \in old \/ y = p
    BY <1>2
  <2>8. PICK a \in Nat : a = Text!Min(old) /\ a \in old /\ \A y \in old : a <= y
    <3> HIDE DEF old, new
    <3> QED
      BY <1>1, <1>4, MinIs
  <2>9. Text!Max(old) = p - 1
    <3> HIDE DEF old, new
    <3>1. \A y \in old : y <= p - 1
      BY <1>1
    <3>2. PICK b : b = Text!Max(old) /\ b \in old /\ b >= p - 1
      BY <1>1, <1>4, <2>6, <3>1, MaxIs
    <3>3. b \in Nat /\ b <= p - 1
      BY <1>1, <3>1, <3>2
    <3> QED
      BY <1>1, <3>2, <3>3
  <2>10. Text!Max(new) = p
    <3> HIDE DEF old, new
    <3>1. \A y \in new : y <= p
      BY <1>1
    <3>2. PICK b : b = Text!Max(new) /\ b \in new /\ b >= p
      BY <1>1, <2>7, <3>1, MaxIs
    <3>3. b \in Nat /\ b <= p
      BY <1>1, <3>1, <3>2
    <3> QED
      BY <1>1, <3>2, <3>3
  <2>11. Text!Min(new) = a
    <3> HIDE DEF old, new
    <3>1. a \in new /\ a <= p - 1
      BY <1>1, <1>2, <2>8
    <3>2. PICK b : b = Text!Min(new) /\ b \in new /\ b <= a
      BY <1>1, <2>7, <3>1, MinIs
    <3>3. b \in old /\ b \in Nat
      BY <1>1, <2>7, <2>8, <3>1, <3>2
    <3> QED
      BY <2>8, <3>2, <3>3
  <2>12. a \in 1 .. p - 1
    BY <1>1, <2>8
  <2>13. SubSeq(line, a, p) = Append(SubSeq(line, a, p - 1), line[p])
    BY <1>1, <2>12, SubSeqGrows
  <2>14. Word(line, new) = SubSeq(line, a, p)
    <3> HIDE DEF new
    <3> QED
      BY <2>7, <2>10, <2>11 DEF Word
  <2>15. Word(line, old) = SubSeq(line, a, p - 1)
    <3> HIDE DEF old
    <3> QED
      BY <1>4, <2>8, <2>9 DEF Word
  <2> QED
    BY <2>13, <2>14, <2>15
<1> QED
  BY <1>3, <1>4

\* Nothing is held by a field that is not begun, and a field that is over holds no more.
LEMMA NotBegun ==
  ASSUME NEW line \in Seq(STRING), NEW p \in 1 .. Len(line) + 1, NEW q \in p .. Len(line) + 1,
         \A k \in p .. q - 1 : ~Text!Plain(line, k), NEW n \in Nat, Text!Cuts(line, p - 1) < n
  PROVE  Held(line, q - 1, n) = {}
<1>1. SUFFICES ASSUME NEW i \in Held(line, q - 1, n) PROVE FALSE
  OBVIOUS
<1>2. Len(line) \in Nat /\ p - 1 \in Nat /\ q - 1 \in Nat
  BY LenProperties
<1>3. i \in 1 .. q - 1 /\ Text!Plain(line, i) /\ Text!Cuts(line, i) = n
  BY DEF Held
<1>4. i \in Nat /\ i <= p - 1
  BY <1>2, <1>3
<1>5. Text!Cuts(line, i) <= Text!Cuts(line, p - 1)
  BY <1>2, <1>4, CutsGrow
<1>6. Text!Cuts(line, i) \in Nat /\ Text!Cuts(line, p - 1) \in Nat
  BY <1>2, <1>4, CutsAre
<1> QED
  BY <1>3, <1>5, <1>6

LEMMA HeldStays ==
  ASSUME NEW line \in Seq(STRING), NEW p \in Nat, NEW q \in Nat, p <= q, NEW n \in Nat,
         \A k \in p + 1 .. q : Text!Plain(line, k) => Text!Cuts(line, k) > n
  PROVE  Held(line, q, n) = Held(line, p, n)
<1>1. \A k \in p + 1 .. q : Text!Plain(line, k) => Text!Cuts(line, k) # n
  BY CutsAre
<1> QED
  BY <1>1 DEF Held

\* A field that a cut ends is what was read of it.
LEMMA FieldOver ==
  ASSUME NEW line \in Seq(STRING), NEW p \in 1 .. Len(line), Text!Cut(line, p), ~Text!Plain(line, p)
  PROVE  Text!FieldOf(line, Text!Cuts(line, p - 1) + 1) = Word(line, Held(line, p - 1, Text!Cuts(line, p - 1)))
<1>1. Len(line) \in Nat /\ p \in Nat /\ p # 0 /\ p - 1 \in Nat /\ p - 1 <= Len(line)
  BY LenProperties
<1>2. PICK n \in Nat : n = Text!Cuts(line, p - 1)
  BY <1>1, CutsAre
<1>3. Text!Cuts(line, p) = n + 1
  BY <1>1, <1>2, CutsStep
<1>4. \A k \in (p - 1) + 1 .. Len(line) : Text!Plain(line, k) => Text!Cuts(line, k) > n
  <2> SUFFICES ASSUME NEW k \in p .. Len(line) PROVE Text!Cuts(line, k) > n
    BY <1>1
  <2>1. k \in Nat /\ p <= k
    BY <1>1
  <2>2. Text!Cuts(line, p) <= Text!Cuts(line, k) /\ Text!Cuts(line, k) \in Nat
    BY <1>1, <2>1, CutsGrow, CutsAre
  <2> QED
    BY <1>2, <1>3, <2>2
<1>5. Held(line, Len(line), n) = Held(line, p - 1, n)
  BY <1>1, <1>4, HeldStays
<1>6. n + 1 - 1 = n
  BY <1>2
<1> QED
  BY <1>2, <1>5, <1>6, FieldIs

\* The pass that ends a field at a cut at p, and goes on where the text goes on.
LEMMA EndedIs ==
  ASSUME NEW line \in Seq(STRING), NEW end \in 0 .. Len(line), NEW s, Reached(line, end, s), s.pos <= Len(line),
         NEW q \in s.pos + 1 .. Len(line) + 1, Text!Cut(line, s.pos),
         \A k \in s.pos .. q - 1 : ~Text!Plain(line, k), \A k \in s.pos + 1 .. q - 1 : Text!Blank(line[k]),
         q <= Len(line) => ~Text!Blank(line[q])
  PROVE  Reached(line, end, Text!Ended(s, q))
<1> DEFINE p == s.pos
<1>1. Len(line) \in Nat /\ p \in Nat /\ p \in 1 .. Len(line) /\ p - 1 \in Nat /\ q \in Nat /\ q - 1 \in Nat
      /\ p <= q - 1 /\ q \in 1 .. Len(line) + 1
  BY LenProperties DEF Reached
<1>2. PICK n \in Nat : n = Text!Cuts(line, p - 1)
  BY <1>1, CutsAre
<1>3. /\ s.fields \in Seq(Seq(STRING)) /\ Len(s.fields) = n
      /\ \A m \in 1 .. n : s.fields[m] = Text!FieldOf(line, m)
      /\ s.field = Word(line, Held(line, p - 1, n))
  BY <1>2 DEF Reached
<1>4. ~Text!Plain(line, p)
  BY <1>1
<1>5. Text!Cuts(line, p) = n + 1
  BY <1>1, <1>2, CutsStep
<1>6. Text!Cuts(line, q - 1) = n + 1
  <2>1. \A k \in p + 1 .. q - 1 : ~Text!Cut(line, k)
    <3> SUFFICES ASSUME NEW k \in p + 1 .. q - 1, Text!Cut(line, k) PROVE FALSE
      OBVIOUS
    <3>1. k - 1 \in p .. q - 1
      BY <1>1
    <3>2. Text!Blank(line[k]) /\ ~Text!Plain(line, k - 1)
      BY <3>1
    <3> QED
      BY <3>2 DEF Text!Cut, Text!Blank
  <2> QED
    BY <1>1, <1>5, <2>1, CutsStay
<1>7. s.field \in Seq(STRING)
  <2>1. p - 1 \in 0 .. Len(line)
    BY <1>1
  <2> QED
    BY <1>3, <2>1, WordIs
<1>8. s.field = Text!FieldOf(line, n + 1)
  BY <1>1, <1>2, <1>3, <1>4, FieldOver
<1> DEFINE more == Append(s.fields, s.field)
<1>9. /\ more \in Seq(Seq(STRING)) /\ Len(more) = n + 1
      /\ (\A m \in 1 .. n : more[m] = s.fields[m]) /\ more[n + 1] = s.field
  <2>1. PICK f, e : f = s.fields /\ e = s.field
    OBVIOUS
  <2>2. f \in Seq(Seq(STRING)) /\ e \in Seq(STRING) /\ Len(f) = n
    BY <1>3, <1>7, <2>1
  <2>3. /\ Append(f, e) \in Seq(Seq(STRING)) /\ Len(Append(f, e)) = n + 1
        /\ (\A m \in 1 .. n : Append(f, e)[m] = f[m]) /\ Append(f, e)[n + 1] = e
    BY <2>2, AppendProperties
  <2> QED
    BY <2>1, <2>3
<1> HIDE DEF more
<1>10. \A m \in 1 .. n + 1 : more[m] = Text!FieldOf(line, m)
  <2>1. \A m \in 1 .. n + 1 : m \in 1 .. n \/ m = n + 1
    OBVIOUS
  <2> QED
    BY <1>3, <1>8, <1>9, <2>1
<1>11. Held(line, q - 1, n + 1) = {}
  <2>1. Text!Cuts(line, p - 1) < n + 1 /\ n + 1 \in Nat
    BY <1>2
  <2>2. p \in 1 .. Len(line) + 1 /\ q \in p .. Len(line) + 1
    BY <1>1
  <2> QED
    BY <1>1, <2>1, <2>2, NotBegun
<1>12. Word(line, Held(line, q - 1, n + 1)) = <<>>
  BY <1>11 DEF Word
<1>13. Text!Ended(s, q) = [pos |-> q, field |-> <<>>, fields |-> more]
  BY DEF Text!Ended, more
<1>14. PICK t : t = Text!Ended(s, q) /\ t = [pos |-> q, field |-> <<>>, fields |-> more]
  BY <1>13
<1>15. t.pos = q /\ t.field = <<>> /\ t.fields = more
  BY <1>14
<1>16. ~(q <= end /\ Text!Blank(line[q]))
  BY <1>1
<1>17. Reached(line, end, t)
  BY <1>1, <1>6, <1>9, <1>10, <1>12, <1>14, <1>15, <1>16 DEF Reached
<1> QED
  BY <1>14, <1>17

LEMMA ReachedAt ==
  ASSUME NEW line \in Seq(STRING), NEW end \in 1 .. Len(line), NEW s, Reached(line, end, s), s.pos <= end
  PROVE  Len(line) \in Nat /\ \E p \in 1 .. Len(line) : p = s.pos
<1>1. Len(line) \in Nat
  BY LenProperties
<1>2. PICK p \in 1 .. Len(line) + 1 : p = s.pos
  BY DEF Reached
<1> QED
  BY <1>1, <1>2

IsComma(line, k) == line[k] = ","

LEMMA Kinds ==
  ASSUME NEW line, NEW k
  PROVE  /\ Text!Blank(line[k]) => ~Text!Plain(line, k) /\ ~IsComma(line, k)
         /\ Text!Plain(line, k) <=> ~Text!Blank(line[k]) /\ ~IsComma(line, k)
         /\ IsComma(line, k) => Text!Cut(line, k)
         /\ Text!Plain(line, k) => ~Text!Cut(line, k)
         /\ Text!Cut(line, k) /\ ~IsComma(line, k) =>
              \E j \in k + 1 .. Len(line) : Text!Plain(line, j) /\ \A l \in k .. j - 1 : Text!Blank(line[l])
  BY Zenon DEF Text!Blank, Text!Plain, Text!Cut, IsComma

LEMMA PassIs ==
  ASSUME NEW line, NEW s
  PROVE  /\ IsComma(line, s.pos) => Text!Pass(line, s) = Text!Ended(s, Text!Skip(line, s.pos + 1))
         /\ Text!Blank(line[s.pos]) /\ IsComma(line, Text!Skip(line, s.pos)) =>
              Text!Pass(line, s) = [s EXCEPT !.pos = Text!Skip(line, s.pos)]
         /\ Text!Blank(line[s.pos]) /\ ~IsComma(line, Text!Skip(line, s.pos)) =>
              Text!Pass(line, s) = Text!Ended(s, Text!Skip(line, s.pos))
         /\ Text!Plain(line, s.pos) =>
              Text!Pass(line, s) = [s EXCEPT !.pos = @ + 1, !.field = Append(@, line[s.pos])]
<1>1. ~(IsComma(line, s.pos) /\ Text!Blank(line[s.pos]))
  BY Kinds
<1> QED
  BY <1>1, Kinds, Zenon DEF Text!Pass, IsComma

\* One pass, over a comma, over whitespace, or over another character.
LEMMA PassComma ==
  ASSUME NEW line \in Seq(STRING), NEW end \in 1 .. Len(line), NEW s, Reached(line, end, s), s.pos <= end,
         IsComma(line, s.pos)
  PROVE  Reached(line, end, Text!Pass(line, s)) /\ Text!Pass(line, s).pos > s.pos
<1>0. PICK p \in 1 .. Len(line) : p = s.pos
  BY ReachedAt
<1>1. Len(line) \in Nat /\ p + 1 \in 1 .. Len(line) + 1 /\ end \in 0 .. Len(line) /\ s.pos <= Len(line)
  BY <1>0, LenProperties
<1>2. PICK q : q = Text!Skip(line, p + 1)
  OBVIOUS
<1>3. /\ q \in p + 1 .. Len(line) + 1 /\ (\A k \in p + 1 .. q - 1 : Text!Blank(line[k]))
      /\ q <= Len(line) => ~Text!Blank(line[q])
  BY <1>1, <1>2, SkipIs
<1>4. \A k \in p .. q - 1 : ~Text!Plain(line, k)
  <2>1. \A k \in p .. q - 1 : k = p \/ k \in p + 1 .. q - 1
    BY <1>1, <1>3
  <2> QED
    BY <1>0, <1>3, <2>1, Kinds
<1>5. Text!Cut(line, p)
  BY <1>0, Kinds
<1>6. Reached(line, end, Text!Ended(s, q))
  BY <1>1, <1>3, <1>4, <1>5, <1>0, EndedIs
<1>7. Text!Pass(line, s) = Text!Ended(s, q) /\ Text!Ended(s, q).pos = q
  BY <1>0, <1>2, PassIs DEF Text!Ended
<1> QED
  BY <1>0, <1>1, <1>3, <1>6, <1>7

LEMMA PassBlank ==
  ASSUME NEW line \in Seq(STRING), NEW end \in 1 .. Len(line), NEW s, Reached(line, end, s), s.pos <= end,
         Text!Blank(line[s.pos]), ~Text!Blank(line[end])
  PROVE  Reached(line, end, Text!Pass(line, s)) /\ Text!Pass(line, s).pos > s.pos
<1>0. PICK p \in 1 .. Len(line) : p = s.pos
  BY ReachedAt
<1>1. /\ Len(line) \in Nat /\ p \in 1 .. Len(line) + 1 /\ end \in 0 .. Len(line) /\ s.pos <= Len(line)
      /\ p \in Nat /\ p # 0 /\ p - 1 \in Nat /\ p > 1 /\ Text!Plain(line, p - 1) /\ Text!Blank(line[p])
  <2>1. p > 1 /\ Text!Plain(line, p - 1) /\ Text!Blank(line[p])
    BY <1>0 DEF Reached
  <2> QED
    BY <1>0, <2>1, LenProperties
<1>2. PICK q : q = Text!Skip(line, p)
  OBVIOUS
<1>3. /\ q \in p .. Len(line) + 1 /\ (\A k \in p .. q - 1 : Text!Blank(line[k]))
      /\ q <= Len(line) => ~Text!Blank(line[q])
  BY <1>1, <1>2, SkipIs
<1>4. q \in p + 1 .. Len(line) /\ ~Text!Blank(line[q]) /\ q \in Nat /\ q - 1 \in Nat
  <2>1. q <= end
    <3>1. SUFFICES ASSUME q > end PROVE FALSE
      BY <1>1, <1>3
    <3>2. end \in p .. q - 1
      BY <1>0, <1>1, <1>3, <3>1
    <3> QED
      BY <1>3, <3>2
  <2>2. q \in Nat /\ q # p
    BY <1>1, <1>3, <2>1
  <2> QED
    BY <1>1, <1>3, <2>1, <2>2
<1>5. \A k \in p .. q - 1 : ~Text!Plain(line, k)
  BY <1>3, Kinds
<1>6. CASE IsComma(line, q)
  <2>1. \A k \in p .. q - 1 : ~Text!Cut(line, k)
    <3> SUFFICES ASSUME NEW k \in p .. q - 1, Text!Cut(line, k) PROVE FALSE
      OBVIOUS
    <3>1. Text!Blank(line[k]) /\ ~IsComma(line, k)
      BY <1>3, Kinds
    <3>2. PICK j \in k + 1 .. Len(line) : Text!Plain(line, j) /\ \A l \in k .. j - 1 : Text!Blank(line[l])
      BY <3>1, Kinds
    <3>3. CASE j <= q - 1
      <4>1. j \in p .. q - 1
        BY <1>1, <1>4, <3>3
      <4> QED
        BY <1>5, <3>2, <4>1
    <3>4. CASE j = q
      BY <1>6, <3>2, <3>4, Kinds
    <3>5. CASE j >= q + 1
      <4>1. q \in k .. j - 1
        BY <1>1, <1>4, <3>5
      <4> QED
        BY <1>4, <3>2, <4>1
    <3> QED
      BY <1>1, <1>4, <3>3, <3>4, <3>5
  <2>2. PICK n \in Nat : n = Text!Cuts(line, p - 1)
    BY <1>1, CutsAre
  <2>3. Text!Cuts(line, q - 1) = n
    <3>1. \A k \in (p - 1) + 1 .. q - 1 : ~Text!Cut(line, k)
      BY <1>1, <2>1
    <3>2. p - 1 <= q - 1
      BY <1>1, <1>4
    <3> QED
      BY <1>1, <1>4, <2>2, <3>1, <3>2, CutsStay
  <2>4. Held(line, q - 1, n) = Held(line, p - 1, n)
    <3>1. \A k \in (p - 1) + 1 .. q - 1 : ~Text!Plain(line, k)
      BY <1>1, <1>5
    <3>2. p - 1 <= q - 1
      BY <1>1, <1>4
    <3> QED
      BY <1>1, <1>4, <2>2, <3>1, <3>2, HeldStays
  <2>5. Text!Pass(line, s) = [s EXCEPT !.pos = q]
    <3>1. ~IsComma(line, p)
      BY <1>1, Kinds
    <3> QED
      BY <1>0, <1>1, <1>2, <1>6, <3>1, PassIs
  <2>6. PICK t : t = Text!Pass(line, s) /\ t = [pos |-> q, field |-> s.field, fields |-> s.fields]
    BY <1>0, <2>5 DEF Reached
  <2>7. t.pos = q /\ t.field = s.field /\ t.fields = s.fields
    BY <2>6
  <2>8. Reached(line, end, t)
    BY <1>1, <1>4, <2>2, <2>3, <2>4, <2>6, <2>7, <1>0 DEF Reached
  <2> QED
    BY <1>0, <1>1, <1>4, <2>6, <2>7, <2>8
<1>7. CASE ~IsComma(line, q)
  <2>1. Text!Plain(line, q)
    BY <1>4, <1>7, Kinds
  <2>2. Text!Cut(line, p)
    BY <1>1, <1>3, <1>4, <2>1 DEF Text!Cut
  <2>3. \A k \in p + 1 .. q - 1 : Text!Blank(line[k])
    BY <1>1, <1>3
  <2>4. q \in p + 1 .. Len(line) + 1
    BY <1>1, <1>4
  <2>5. Reached(line, end, Text!Ended(s, q))
    BY <1>1, <1>4, <1>5, <2>2, <2>3, <2>4, <1>0, EndedIs
  <2>6. ~IsComma(line, p)
    BY <1>1, Kinds
  <2>7. Text!Pass(line, s) = Text!Ended(s, q) /\ Text!Ended(s, q).pos = q
    BY <1>0, <1>1, <1>2, <1>7, <2>6, PassIs DEF Text!Ended
  <2> QED
    BY <1>0, <1>1, <1>4, <2>5, <2>7
<1> QED
  BY <1>6, <1>7

LEMMA PassOther ==
  ASSUME NEW line \in Seq(STRING), NEW end \in 1 .. Len(line), NEW s, Reached(line, end, s), s.pos <= end,
         Text!Plain(line, s.pos)
  PROVE  Reached(line, end, Text!Pass(line, s)) /\ Text!Pass(line, s).pos > s.pos
<1>0. PICK p \in 1 .. Len(line) : p = s.pos
  BY ReachedAt
<1>1. /\ Len(line) \in Nat /\ p \in Nat /\ p # 0 /\ p - 1 \in Nat /\ p + 1 - 1 = p
      /\ Text!Plain(line, p)
  BY <1>0, LenProperties
<1>2. ~IsComma(line, p) /\ ~Text!Blank(line[p]) /\ ~Text!Cut(line, p)
  BY <1>1, Kinds
<1>3. PICK n \in Nat : n = Text!Cuts(line, p - 1)
  BY <1>1, CutsAre
<1>4. Text!Cuts(line, p) = n
  BY <1>1, <1>2, <1>3, CutsStep
<1>5. Word(line, Held(line, p, n)) = Append(Word(line, Held(line, p - 1, n)), line[p])
  BY <1>1, <1>4, WordGrows
<1>6. Text!Pass(line, s) = [s EXCEPT !.pos = @ + 1, !.field = Append(@, line[p])]
  BY <1>0, <1>2, PassIs
<1>7. PICK t : t = Text!Pass(line, s) /\ t = [pos |-> p + 1, field |-> Append(s.field, line[p]), fields |-> s.fields]
  BY <1>0, <1>6 DEF Reached
<1>8. t.pos = p + 1 /\ t.field = Append(s.field, line[p]) /\ t.fields = s.fields
  BY <1>7
<1>9. p + 1 \in 1 .. Len(line) + 1 /\ p + 1 > 1
  BY <1>1
<1>10. Reached(line, end, t)
  BY <1>1, <1>3, <1>4, <1>5, <1>7, <1>8, <1>9, <1>0 DEF Reached
<1> QED
  BY <1>0, <1>1, <1>7, <1>8, <1>10

LEMMA PassReaches ==
  ASSUME NEW line \in Seq(STRING), NEW end \in 1 .. Len(line), NEW s, Reached(line, end, s), s.pos <= end,
         ~Text!Blank(line[end])
  PROVE  Reached(line, end, Text!Pass(line, s)) /\ Text!Pass(line, s).pos > s.pos
  BY PassComma, PassBlank, PassOther, Kinds

\* The loop, in as many passes as there are characters.
Begun(begin) == [pos |-> begin, field |-> <<>>, fields |-> <<>>]

IsLoop(line, begin, end, m, f) ==
  f = [n \in 0 .. m |-> IF n = 0 THEN Begun(begin) ELSE Text!PassUpTo(line, end, f[n - 1])]

LEMMA LoopThere ==
  ASSUME NEW line, Len(line) \in Nat, NEW begin, NEW end
  PROVE  IsLoop(line, begin, end, Len(line), Text!Loop(line, begin, end))
<1> DEFINE N == Len(line)
           missing == {m \in 0 .. N : ~\E f : IsLoop(line, begin, end, m, f)}
<1>1. missing = {}
  <2>1. SUFFICES ASSUME missing # {} PROVE FALSE
    OBVIOUS
  <2>2. PICK m \in missing : \A l \in missing : m <= l
    <3>1. missing \in SUBSET Nat
      OBVIOUS
    <3> HIDE DEF missing
    <3> QED
      BY <2>1, <3>1, Least
  <2>3. m \in 0 .. N /\ ~\E f : IsLoop(line, begin, end, m, f)
    OBVIOUS
  <2>4. \A l \in 0 .. N : l < m => \E f : IsLoop(line, begin, end, l, f)
    BY <2>2, <2>3
  <2> HIDE DEF missing
  <2>5. CASE m = 0
    <3> DEFINE f == [k \in 0 .. m |-> Begun(begin)]
    <3>1. IsLoop(line, begin, end, m, f)
      BY <2>5 DEF IsLoop
    <3> QED
      BY <2>3, <3>1
  <2>6. CASE m # 0
    <3>1. m - 1 \in 0 .. N /\ m - 1 < m
      BY <2>3, <2>6
    <3>2. PICK f : IsLoop(line, begin, end, m - 1, f)
      BY <2>4, <3>1
    <3> DEFINE last == Text!PassUpTo(line, end, f[m - 1])
               g == [k \in 0 .. m |-> IF k = m THEN last ELSE f[k]]
               val(h, k) == IF k = 0 THEN Begun(begin) ELSE Text!PassUpTo(line, end, h[k - 1])
    <3>3. \A k \in 0 .. m - 1 : f[k] = val(f, k)
      BY <3>2 DEF IsLoop
    <3>4. \A k \in 0 .. m - 1 : g[k] = f[k]
      BY <2>3
    <3>5. g[m] = last
      BY <2>3
    <3>6. \A k \in 0 .. m : g[k] = val(g, k)
      <4> SUFFICES ASSUME NEW k \in 0 .. m PROVE g[k] = val(g, k)
        OBVIOUS
      <4> HIDE DEF g
      <4>1. CASE k = m
        <5>1. g[m - 1] = f[m - 1]
          BY <2>3, <2>6, <3>4
        <5> QED
          BY <2>6, <3>5, <4>1, <5>1
      <4>2. CASE k # m
        <5>1. k \in 0 .. m - 1 /\ (k # 0 => k - 1 \in 0 .. m - 1)
          BY <2>3, <4>2
        <5>2. g[k] = val(f, k)
          BY <3>3, <3>4, <5>1
        <5>3. k # 0 => g[k - 1] = f[k - 1]
          BY <3>4, <5>1
        <5> QED
          BY <5>2, <5>3
      <4> QED
        BY <4>1, <4>2
    <3>7. IsLoop(line, begin, end, m, g)
      <4>1. g = [k \in 0 .. m |-> g[k]]
        OBVIOUS
      <4> HIDE DEF g
      <4> QED
        BY <3>6, <4>1 DEF IsLoop
    <3> QED
      BY <2>3, <3>7
  <2> QED
    BY <2>5, <2>6
<1>2. \E f : IsLoop(line, begin, end, N, f)
  BY <1>1
<1> QED
  BY <1>2, Zenon DEF IsLoop, Text!Loop, Begun

\* After k passes at least k characters lie behind, or all.
LEMMA LoopReaches ==
  ASSUME NEW line \in Seq(STRING), NEW begin \in 1 .. Len(line), NEW end \in 1 .. Len(line),
         ~Text!Blank(line[begin]), ~Text!Blank(line[end]),
         \A k \in 1 .. begin - 1 : Text!Blank(line[k]), NEW s, s = Text!Loop(line, begin, end)[Len(line)]
  PROVE  Reached(line, end, s) /\ s.pos > end
<1> DEFINE N == Len(line)
<1>1. N \in Nat /\ begin \in Nat /\ end \in Nat
  BY LenProperties
<1>2. PICK f : f = Text!Loop(line, begin, end) /\ IsLoop(line, begin, end, N, f)
  BY <1>1, LoopThere
<1> DEFINE Good(k) == Reached(line, end, f[k]) /\ (f[k].pos > end \/ f[k].pos >= begin + k)
           bad == {k \in 0 .. N : ~Good(k)}
<1>3. bad = {}
  <2>1. SUFFICES ASSUME bad # {} PROVE FALSE
    OBVIOUS
  <2>2. PICK k \in bad : \A l \in bad : k <= l
    <3>1. bad \in SUBSET Nat
      BY <1>1
    <3> HIDE DEF bad
    <3> QED
      BY <2>1, <3>1, Least
  <2>3. k \in 0 .. N /\ k \in Nat /\ ~Good(k)
    BY <1>1
  <2>4. \A l \in 0 .. N : l < k => Good(l)
    BY <1>1, <2>2, <2>3
  <2> HIDE DEF bad
  <2>5. CASE k = 0
    <3>1. PICK t : t = f[k] /\ t = Begun(begin)
      BY <1>2, <2>3, <2>5 DEF IsLoop
    <3>2. t.pos = begin /\ t.field = <<>> /\ t.fields = <<>> /\ t = [pos |-> begin, field |-> <<>>, fields |-> <<>>]
      BY <3>1 DEF Begun
    <3>3. Text!Cuts(line, begin - 1) = 0
      <4>1. \A j \in 0 + 1 .. begin - 1 : ~Text!Cut(line, j)
        <5> SUFFICES ASSUME NEW j \in 1 .. begin - 1, Text!Cut(line, j) PROVE FALSE
          BY <1>1
        <5>1. Text!Blank(line[j])
          OBVIOUS
        <5>2. j > 1 /\ Text!Plain(line, j - 1)
          BY <5>1, Zenon DEF Text!Cut, Text!Blank
        <5>3. j - 1 \in 1 .. begin - 1
          BY <1>1, <5>2
        <5> QED
          BY <5>2, <5>3, Kinds
      <4>2. begin - 1 \in Nat /\ 0 \in Nat /\ 0 <= begin - 1
        BY <1>1
      <4>3. Text!Cuts(line, begin - 1) = Text!Cuts(line, 0)
        BY <4>1, <4>2, CutsStay
      <4> QED
        BY <4>3, CutsAre
    <3>4. Held(line, begin - 1, 0) = {}
      BY Kinds DEF Held
    <3>5. Word(line, Held(line, begin - 1, 0)) = <<>>
      BY <3>4 DEF Word
    <3>6. <<>> \in Seq(Seq(STRING)) /\ Len(<<>>) = 0 /\ begin \in 1 .. Len(line) + 1
      BY <1>1, EmptySeq
    <3>7. Reached(line, end, t)
      BY <3>2, <3>3, <3>5, <3>6 DEF Reached
    <3>8. t.pos >= begin + k
      BY <1>1, <2>5, <3>2
    <3> QED
      BY <2>3, <3>1, <3>7, <3>8
  <2>6. CASE k # 0
    <3>1. k - 1 \in 0 .. N /\ k - 1 < k /\ k - 1 \in Nat
      BY <1>1, <2>3, <2>6
    <3>2. PICK t : t = f[k - 1] /\ Reached(line, end, t) /\ (t.pos > end \/ t.pos >= begin + (k - 1))
      BY <2>4, <3>1
    <3>3. f[k] = Text!PassUpTo(line, end, t)
      BY <1>2, <2>3, <2>6, <3>2 DEF IsLoop
    <3>4. PICK p \in Nat : p = t.pos
      BY <1>1, <3>2 DEF Reached
    <3>5. CASE p > end
      <4>1. f[k] = t
        BY <3>3, <3>4, <3>5 DEF Text!PassUpTo
      <4> QED
        BY <2>3, <3>2, <3>4, <3>5, <4>1
    <3>6. CASE ~(p > end)
      <4>1. f[k] = Text!Pass(line, t) /\ t.pos <= end
        BY <1>1, <3>3, <3>4, <3>6 DEF Text!PassUpTo
      <4>2. PICK u : u = f[k] /\ Reached(line, end, u) /\ u.pos > p
        BY <3>2, <3>4, <4>1, PassReaches
      <4>3. PICK q \in Nat : q = u.pos
        BY <1>1, <4>2 DEF Reached
      <4>4. p >= begin + (k - 1)
        BY <3>2, <3>4, <3>6
      <4>5. q >= begin + k
        BY <1>1, <2>3, <4>2, <4>3, <4>4
      <4> QED
        BY <2>3, <4>2, <4>3, <4>5
    <3> QED
      BY <3>5, <3>6
  <2> QED
    BY <2>5, <2>6
<1>4. N \in 0 .. N /\ s = f[N]
  BY <1>1, <1>2
<1>5. Reached(line, end, s) /\ (s.pos > end \/ s.pos >= begin + N)
  BY <1>3, <1>4
<1>6. PICK p \in Nat : p = s.pos
  BY <1>1, <1>5 DEF Reached
<1>7. p > end
  BY <1>1, <1>5, <1>6
<1> QED
  BY <1>5, <1>6, <1>7

(* split_csv_line keeps its comment, for every line. *)
LEMMA FieldsRight ==
  ASSUME NEW line \in Seq(STRING)
  PROVE  Text!Fields(line) = Text!FieldsOf(line) /\ Text!Fields(line) \in Seq(Seq(STRING))
<1> DEFINE N == Len(line)
           filled == {i \in DOMAIN line : ~Text!Blank(line[i])}
<1>1. N \in Nat /\ DOMAIN line = 1 .. N /\ \A i \in filled : i \in 1 .. N
  BY LenProperties
<1>2. filled \in SUBSET Nat
  BY <1>1
<1>3. CASE filled = {}
  <2>1. Text!Fields(line) = << <<>> >>
    BY <1>3 DEF Text!Fields
  <2>2. \A k \in 1 .. N : Text!Blank(line[k])
    BY <1>1, <1>3
  <2>3. \A k \in 0 + 1 .. N : ~Text!Cut(line, k)
    BY <1>1, <2>2, Kinds
  <2>4. Text!Cuts(line, N) = 0
    <3>1. 0 \in Nat /\ 0 <= N
      BY <1>1
    <3>2. Text!Cuts(line, N) = Text!Cuts(line, 0)
      BY <1>1, <2>3, <3>1, CutsStay
    <3> QED
      BY <3>2, CutsAre
  <2>5. Held(line, N, 1 - 1) = {}
    BY <1>1, <2>2, Kinds DEF Held
  <2>6. Text!FieldOf(line, 1) = <<>>
    BY <2>5, FieldIs DEF Word
  <2>7. Text!FieldsOf(line) = [n \in 1 .. 1 |-> Text!FieldOf(line, n)]
    BY <2>4 DEF Text!FieldsOf
  <2>8. \A n \in 1 .. 1 : Text!FieldOf(line, n) = <<>>
    BY <2>6
  <2>9. << <<>> >> = [n \in 1 .. 1 |-> <<>>]
    OBVIOUS
  <2>10. << <<>> >> \in Seq(Seq(STRING))
    OBVIOUS
  <2> QED
    BY <2>1, <2>7, <2>8, <2>9, <2>10
<1>4. CASE filled # {}
  <2>1. PICK begin : begin = Text!Min(filled) /\ begin \in filled /\ \A y \in filled : begin <= y
    <3> HIDE DEF filled
    <3> QED
      BY <1>2, <1>4, MinIs
  <2>2. PICK end : end = Text!Max(filled) /\ end \in filled /\ \A y \in filled : end >= y
    <3>1. \A y \in filled : y <= N
      BY <1>1
    <3> HIDE DEF filled
    <3> QED
      BY <1>1, <1>2, <1>4, <3>1, MaxIs
  <2>3. /\ begin \in 1 .. N /\ end \in 1 .. N /\ ~Text!Blank(line[begin]) /\ ~Text!Blank(line[end])
        /\ (\A k \in 1 .. N : k < begin \/ k > end => Text!Blank(line[k]))
    <3>1. begin \in 1 .. N /\ end \in 1 .. N /\ ~Text!Blank(line[begin]) /\ ~Text!Blank(line[end])
      BY <1>1, <2>1, <2>2
    <3>2. ASSUME NEW k \in 1 .. N, k < begin \/ k > end, ~Text!Blank(line[k]) PROVE FALSE
      <4>1. k \in filled
        BY <1>1, <3>2
      <4>2. begin <= k /\ end >= k
        BY <2>1, <2>2, <4>1
      <4>3. k \in Nat /\ begin \in Nat /\ end \in Nat
        BY <1>1, <3>1
      <4> QED
        BY <3>2, <4>2, <4>3
    <3> QED
      BY <3>1, <3>2
  <2>4. PICK s : s = Text!Loop(line, begin, end)[N]
    OBVIOUS
  <2>5. Text!Fields(line) = Append(s.fields, s.field)
    BY <1>4, <2>1, <2>2, <2>4 DEF Text!Fields
  <2> HIDE DEF filled
  <2>6. Reached(line, end, s) /\ s.pos > end
    <3>1. \A k \in 1 .. begin - 1 : Text!Blank(line[k])
      BY <1>1, <2>3
    <3> QED
      BY <2>3, <2>4, <3>1, LoopReaches
  <2>7. PICK p \in 1 .. N + 1 : p = s.pos
    BY <2>6 DEF Reached
  <2>8. p - 1 \in Nat /\ p - 1 <= N /\ p > end /\ p - 1 \in 0 .. Len(line)
    BY <1>1, <2>6, <2>7
  <2>9. PICK n \in Nat : n = Text!Cuts(line, p - 1)
    BY <2>8, CutsAre
  <2>10. \A k \in (p - 1) + 1 .. N : Text!Blank(line[k])
    BY <1>1, <2>3, <2>8
  <2>11. Text!Cuts(line, N) = n
    <3>1. \A k \in (p - 1) + 1 .. N : ~Text!Cut(line, k)
      <4> SUFFICES ASSUME NEW k \in (p - 1) + 1 .. N, Text!Cut(line, k) PROVE FALSE
        OBVIOUS
      <4>1. ~IsComma(line, k)
        BY <2>10, Kinds
      <4>2. PICK j \in k + 1 .. Len(line) : Text!Plain(line, j)
        BY <4>1, Kinds
      <4>3. j \in (p - 1) + 1 .. N
        BY <1>1, <2>8
      <4> QED
        BY <2>10, <4>2, <4>3, Kinds
    <3> QED
      BY <1>1, <2>8, <2>9, <3>1, CutsStay
  <2>12. Held(line, N, n) = Held(line, p - 1, n)
    <3>1. \A k \in (p - 1) + 1 .. N : ~Text!Plain(line, k)
      BY <2>10, Kinds
    <3> QED
      BY <1>1, <2>8, <2>9, <3>1, HeldStays
  <2>13. s.field = Word(line, Held(line, p - 1, n)) /\ s.fields \in Seq(Seq(STRING)) /\ Len(s.fields) = n
         /\ \A m \in 1 .. n : s.fields[m] = Text!FieldOf(line, m)
    BY <2>6, <2>7, <2>9 DEF Reached
  <2>14. n + 1 - 1 = n
    BY <2>9
  <2>15. s.field = Text!FieldOf(line, n + 1)
    BY <2>12, <2>13, <2>14, FieldIs
  <2>16. s.field \in Seq(STRING)
    BY <2>8, <2>13, WordIs
  <2>17. Text!FieldsOf(line) = [m \in 1 .. n + 1 |-> Text!FieldOf(line, m)]
    BY <2>11 DEF Text!FieldsOf
  <2>18. PICK g, e : g = s.fields /\ e = s.field
    OBVIOUS
  <2>19. g \in Seq(Seq(STRING)) /\ e \in Seq(STRING) /\ Len(g) = n
    BY <2>13, <2>16, <2>18
  <2>20. \A m \in 1 .. n + 1 : Append(g, e)[m] = Text!FieldOf(line, m)
    <3>1. (\A m \in 1 .. n : Append(g, e)[m] = g[m]) /\ Append(g, e)[n + 1] = e
      BY <2>19, AppendProperties
    <3>2. \A m \in 1 .. n + 1 : m \in 1 .. n \/ m = n + 1
      OBVIOUS
    <3> QED
      BY <2>13, <2>15, <2>18, <3>1, <3>2
  <2>21. Append(g, e) = [m \in 1 .. n + 1 |-> Append(g, e)[m]]
    <3>1. Append(g, e) \in Seq(Seq(STRING)) /\ Len(Append(g, e)) = n + 1
      BY <2>19, AppendProperties
    <3>2. PICK h : h = Append(g, e)
      OBVIOUS
    <3>3. h \in [1 .. n + 1 -> Seq(STRING)]
      BY <3>1, <3>2, LenProperties
    <3>4. h = [m \in 1 .. n + 1 |-> h[m]]
      BY <3>3
    <3> QED
      BY <3>2, <3>4
  <2>22. Append(g, e) = [m \in 1 .. n + 1 |-> Text!FieldOf(line, m)]
    BY <2>20, <2>21
  <2>23. Append(g, e) \in Seq(Seq(STRING))
    BY <2>19, AppendProperties
  <2> QED
    BY <2>5, <2>17, <2>18, <2>22, <2>23
<1> QED
  BY <1>3, <1>4

-----------------------------------------------------------------------------
(* The client's output. *)

LEMMA OutputRead == ASSUME Text!ParseOutput PROVE Text!LinesRead'
<1>1. PICK line \in Outputs, cols \in {<<>>, <<0>>, <<1, 0>>}, ratio \in BOOLEAN, d \in -1 .. 1 :
        \E fields \in {Text!Fields(line)} :
          /\ text' = <<line>>
          /\ given' = [cols |-> cols, ratio |-> ratio, duration |-> d]
          /\ Text!TakeOutput([i \in DOMAIN cols |-> Text!Extract(fields, cols[i])], ratio,
                             IF d = -1 THEN [kind |-> "none"] ELSE Text!Extract(fields, d))
  BY Zenon DEF Text!ParseOutput
<1> DEFINE fields == Text!FieldsOf(line)
           found == [i \in DOMAIN cols |-> Text!Extract(fields, cols[i])]
           reported == IF d = -1 THEN [kind |-> "none"] ELSE Text!Extract(fields, d)
<1>2. line \in Seq(STRING) /\ Text!Fields(line) = fields /\ fields \in Seq(Seq(STRING))
  BY InputsAssumption, FieldsRight
<1>3. text'[1] = line /\ given'.cols = cols /\ given'.ratio = ratio /\ given'.duration = d /\ d \in Int
  BY <1>1
<1>4. Text!TakeOutput(found, ratio, reported)
  BY <1>1, <1>2
<1> HIDE DEF fields
<1>5. \A n : Text!Extract(fields, n).kind = "number" =>
        /\ n + 1 \in DOMAIN fields /\ Text!Extract(fields, n).value = Text!Value(fields[n + 1])
        /\ Text!Numeric(fields[n + 1])
  BY DEF Text!Extract
<1> SUFFICES ASSUME answer' = "0"
             PROVE  /\ \A i \in DOMAIN data' : data'[i] = Text!Value(fields[cols[i] + 1])
                    /\ ratio => 0 \notin Text!ToSet(data')
                    /\ d # -1 => (duration' = 0) = (fields[d + 1] = <<"d">>)
  BY <1>2, <1>3 DEF Text!LinesRead, fields
<1>6. /\ \A i \in DOMAIN found : found[i].kind = "number" /\ ~(ratio /\ found[i].value = 0)
      /\ data' = [i \in DOMAIN found |-> found[i].value]
      /\ IF reported.kind = "none" THEN UNCHANGED duration
         ELSE reported.kind = "number" /\ duration' = Text!Nanoseconds(reported.value)
  <2> HIDE DEF found, reported
  <2> QED
    BY <1>4 DEF Text!TakeOutput, Text!Over
<1>7. \A i \in DOMAIN data' : data'[i] = Text!Value(fields[cols[i] + 1])
  BY <1>5, <1>6
<1>8. ratio => 0 \notin Text!ToSet(data')
  BY <1>6 DEF Text!ToSet
<1>9. ASSUME d # -1 PROVE (duration' = 0) = (fields[d + 1] = <<"d">>)
  <2>1. reported = Text!Extract(fields, d)
    BY <1>9
  <2>2. Text!Extract(fields, d).kind # "none"
    BY DEF Text!Extract
  <2>3. /\ d + 1 \in DOMAIN fields /\ Text!Numeric(fields[d + 1])
        /\ duration' = Text!Nanoseconds(Text!Value(fields[d + 1]))
    <3> HIDE DEF reported
    <3> QED
      BY <1>5, <1>6, <2>1, <2>2
  <2>4. PICK f : f = fields[d + 1] /\ f \in Seq(STRING)
    BY <1>2, <2>3, LenProperties, ElementOfSeq
  <2>5. f # <<>> /\ Text!ToSet(f) = {"d"} /\ Len(f) \in Nat /\ Len(f) # 0 /\ DOMAIN f = 1 .. Len(f)
    BY <2>3, <2>4, EmptySeq, LenProperties DEF Text!Numeric
  <2>6. \A i \in 1 .. Len(f) : f[i] = "d"
    BY <2>5 DEF Text!ToSet
  <2>7. PICK n \in Nat : n = Len(f) - 1
    <3>1. Len(f) - 1 \in Nat
      BY <2>5
    <3> QED
      BY <3>1
  <2>8. (duration' = 0) = (n = 0)
    <3>1. duration' = Text!Nanoseconds(n)
      BY <2>3, <2>4, <2>7 DEF Text!Value
    <3>2. n = 0 => Text!Nanoseconds(n) = 0
      BY DEF Text!Nanoseconds
    <3>3. n # 0 => Text!Nanoseconds(n) # 0
      BY DEF Text!Nanoseconds
    <3> QED
      BY <3>1, <3>2, <3>3
  <2>9. n = 0 => f = <<"d">>
    BY <2>4, <2>5, <2>6, <2>7
  <2>10. f = <<"d">> => n = 0
    BY <2>7
  <2> QED
    BY <2>4, <2>8, <2>9, <2>10
<1> QED
  BY <1>7, <1>8, <1>9

-----------------------------------------------------------------------------
(* The readers. *)

\* The lines of a file that are no readings.
Skipped ==
  IF given.ignore = -1
    THEN IF text # <<>> /\ ~Text!Numeric(Text!FieldsOf(text[1])[given.col + 1]) THEN 1 ELSE 0
    ELSE given.ignore

\* Each line after the first n is a reading.
ReadingsAfter(n) ==
  /\ data \in Seq(Int) /\ Len(data) = IF Len(text) > n THEN Len(text) - n ELSE 0
  /\ \A i \in 1 .. Len(data) : data[i] = Text!Value(Text!FieldsOf(text[n + i])[given.col + 1])

Accepted == at # "over" \/ answer \in {"0", "4", "5"}

FileRead ==
  reader \in {"analyze", "detect"} =>
    /\ at \in {"open", "read", "analyse", "over"}
    /\ text \in Seq(Seq(STRING))
    /\ at = "open" => text = <<>> /\ data = <<>>
    /\ Accepted /\ at # "open" => given.ignore \in Nat \cup {-1} /\ given.col \in 0 .. 1 /\ ReadingsAfter(Skipped)

\* The rows of a PI, and the baselines, after the first n rows.
Own(n, pi) == {i \in 1 .. n : rows[i].piid = pi}
BaselinesAfter(n) ==
  \A t \in Text!Types, pi \in 0 .. numPI - 1 :
    base[t][pi] = IF Own(n, pi) = {} THEN before[t][pi]
                  ELSE IF rows[Text!Max(Own(n, pi))][t] > 0 THEN Text!Max(Own(n, pi)) ELSE 0

Row == [piid : Nat, readings : Int, unit_readings : Int]

BaselinesRead ==
  reader = "baseline" =>
    /\ at \in {"open", "rows", "apply", "over"} /\ (at # "over" => answer = "none")
    /\ numPI \in Nat /\ rows \in Seq(Row)
    /\ base \in [Text!Types -> [0 .. numPI - 1 -> Int]]
    /\ at \in {"open", "rows"} => used = 0 /\ base = before
    /\ at = "apply" \/ answer = "0" => used \in 0 .. Len(rows) /\ BaselinesAfter(used)
    /\ answer = "0" => used = Len(rows) /\ comparing

RoundRead == reader = "round" => at \in {"open", "over"} /\ Text!LinesRead

Reading == reader \in {"round", "analyze", "detect", "baseline"} /\ RoundRead /\ FileRead /\ BaselinesRead

LEMMA ReadingInit == Text!Init => Reading
<1> SUFFICES ASSUME Text!Init PROVE Reading
  OBVIOUS
<1> USE DEF Text!Init
<1>1. RoundRead
  BY DEF RoundRead, Text!LinesRead
<1>2. FileRead
  BY EmptySeq DEF FileRead
<1>3. BaselinesRead
  BY EmptySeq DEF BaselinesRead, Text!Unset
<1> QED
  BY <1>1, <1>2, <1>3 DEF Reading

\* A file's reader changes nothing of the others, and the others nothing of it.
LEMMA OthersStay ==
  ASSUME Reading
  PROVE  /\ reader' \in {"analyze", "detect"} /\ FileRead' => Reading'
         /\ reader' = "baseline" /\ BaselinesRead' => Reading'
         /\ reader' = "round" /\ RoundRead' => Reading'
  BY DEF Reading, RoundRead, FileRead, BaselinesRead

LEMMA OpenStep == ASSUME Reading, Text!Reject \/ Text!Open PROVE Reading'
<1> USE DEF Reading, FileRead, Accepted, Text!Over
<1>1. CASE Text!Reject
  <2>1. FileRead'
    BY <1>1 DEF Text!Reject
  <2> QED
    BY <1>1, <2>1, OthersStay DEF Text!Reject
<1>2. CASE Text!Open
  <2>1. PICK stdin, exists, harmonic \in BOOLEAN, n \in Ignoring, col \in 0 .. 1 :
          given' = [stdin |-> stdin, exists |-> exists, harmonic |-> harmonic, ignore |-> n, col |-> col]
    BY <1>2, Zenon DEF Text!Open
  <2>2. given'.ignore \in Nat \cup {-1} /\ given'.col \in 0 .. 1
    BY <2>1, InputsAssumption
  <2>3. text = <<>> /\ data = <<>> /\ text' = <<>> /\ data' = <<>> /\ reader' \in {"analyze", "detect"}
    BY <1>2 DEF Text!Open
  <2>4. PICK k \in Nat : k = Skipped'
    BY <2>2, <2>3 DEF Skipped
  <2>5. ReadingsAfter(k)'
    <3>1. text' = <<>> /\ data' = <<>> /\ <<>> \in Seq(Int) /\ Len(<<>>) = 0
      BY <2>3, EmptySeq
    <3> QED
      BY <3>1 DEF ReadingsAfter
  <2>6. FileRead'
    BY <1>2, <2>2, <2>3, <2>4, <2>5 DEF Text!Open
  <2> QED
    BY <2>3, <2>6, OthersStay
<1> QED
  BY <1>1, <1>2

\* A line that is read is one more of the text.
LEMMA LineRead ==
  ASSUME FileRead, reader \in {"analyze", "detect"}, NEW line \in Seq(STRING), Text!GetLine(line)
  PROVE  /\ text' \in Seq(Seq(STRING)) /\ Len(text) \in Nat /\ Len(text') = Len(text) + 1
         /\ \A i \in 1 .. Len(text) : text'[i] = text[i]
         /\ text'[Len(text) + 1] = line /\ text' # <<>>
<1>1. text \in Seq(Seq(STRING)) /\ text' = Append(text, line)
  BY DEF FileRead, Text!GetLine
<1>2. PICK S : S = Seq(STRING)
  OBVIOUS
<1>3. text \in Seq(S) /\ line \in S
  BY <1>1, <1>2
<1>4. /\ text' \in Seq(S) /\ Len(text) \in Nat /\ Len(text') = Len(text) + 1
      /\ \A i \in 1 .. Len(text) : text'[i] = text[i]
      /\ text'[Len(text) + 1] = line /\ text' # <<>>
  BY <1>1, <1>3, AppendProperties, LenProperties
<1> QED
  BY <1>2, <1>4

\* The lines to be ignored are none of them.
LEMMA IgnoreStep == ASSUME Reading, Text!IgnoreLine \/ Text!IgnoreFails PROVE Reading'
<1> USE DEF Reading, FileRead, Accepted, Text!Over
<1>1. reader \in {"analyze", "detect"} /\ at = "read" /\ Len(text) < given.ignore /\ UNCHANGED <<reader, given, data>>
  BY DEF BaselinesRead, RoundRead, Text!IgnoreLine, Text!IgnoreFails
<1>2. PICK n \in Nat : n = given.ignore
  <2>1. given.ignore \in Nat \cup {-1} /\ Len(text) \in Nat
    BY <1>1, LenProperties
  <2> QED
    BY <1>1, <2>1
<1>3. Skipped = n /\ Skipped' = n
  BY <1>1, <1>2 DEF Skipped
<1>4. CASE Text!IgnoreLine
  <2>1. PICK line \in Lines : Text!GetLine(line)
    BY <1>4 DEF Text!IgnoreLine
  <2>2. line \in Seq(STRING)
    BY InputsAssumption
  <2>3. text' \in Seq(Seq(STRING)) /\ Len(text) \in Nat /\ Len(text') = Len(text) + 1
    BY <1>1, <2>1, <2>2, LineRead
  <2>4. ReadingsAfter(n)
    BY <1>1, <1>3
  <2>5. Len(data) = 0 /\ data' = data
    BY <1>1, <1>2, <2>3, <2>4 DEF ReadingsAfter
  <2>6. ReadingsAfter(n)'
    BY <1>1, <1>2, <2>3, <2>4, <2>5 DEF ReadingsAfter
  <2>7. FileRead'
    BY <1>1, <1>3, <1>4, <2>3, <2>6 DEF Text!IgnoreLine
  <2> QED
    BY <1>1, <2>7, OthersStay
<1>5. CASE Text!IgnoreFails
  <2>1. UNCHANGED text
    BY <1>5 DEF Text!IgnoreFails
  <2>2. ReadingsAfter(n) => ReadingsAfter(n)'
    BY <1>1, <2>1 DEF ReadingsAfter
  <2>3. FileRead'
    BY <1>1, <1>3, <1>5, <2>1, <2>2 DEF Text!IgnoreFails
  <2> QED
    BY <1>1, <2>3, OthersStay
<1> QED
  BY <1>4, <1>5

\* The reading of a line, if it has one.
LEMMA ReadingOf ==
  ASSUME NEW line \in Seq(STRING), NEW col \in 0 .. 1, NEW found, found = Text!Extract(Text!Fields(line), col)
  PROVE  /\ found.kind = "number" =>
              /\ found.value = Text!Value(Text!FieldsOf(line)[col + 1]) /\ found.value \in Int
              /\ Text!Numeric(Text!FieldsOf(line)[col + 1])
         /\ found.kind = "bad_lexical_cast" => ~Text!Numeric(Text!FieldsOf(line)[col + 1])
<1> DEFINE fields == Text!FieldsOf(line)
<1>1. Text!Fields(line) = fields /\ fields \in Seq(Seq(STRING))
  BY FieldsRight
<1> HIDE DEF fields
<1>2. found = Text!Extract(fields, col)
  BY <1>1
<1>3. found.kind = "number" => /\ col + 1 \in DOMAIN fields /\ found.value = Text!Value(fields[col + 1])
                               /\ Text!Numeric(fields[col + 1])
  BY <1>2 DEF Text!Extract
<1>4. found.kind = "bad_lexical_cast" => ~Text!Numeric(fields[col + 1])
  BY <1>2 DEF Text!Extract
<1>5. ASSUME col + 1 \in DOMAIN fields PROVE Text!Value(fields[col + 1]) \in Int
  <2>1. PICK f : f = fields[col + 1] /\ f \in Seq(STRING)
    BY <1>1, <1>5, LenProperties, ElementOfSeq
  <2>2. Len(f) \in Nat
    BY <2>1, LenProperties
  <2> QED
    BY <2>1, <2>2 DEF Text!Value
<1> QED
  BY <1>3, <1>4, <1>5 DEF fields

LEMMA TakeStep == ASSUME Reading, Text!TakeLine PROVE Reading'
<1> USE DEF Reading, FileRead, Accepted, Text!Over
<1>1. reader \in {"analyze", "detect"} /\ at = "read" /\ Len(text) >= given.ignore /\ UNCHANGED <<reader, given>>
  BY DEF BaselinesRead, RoundRead, Text!TakeLine
<1>2. PICK line \in Lines : \E found \in {Text!Extract(Text!Fields(line), given.col)} :
        /\ Text!GetLine(line)
        /\ IF found.kind = "number" THEN data' = Append(data, found.value) /\ UNCHANGED <<at, answer>>
           ELSE /\ UNCHANGED data
                /\ IF reader = "detect" THEN Text!Over("terminate")
                   ELSE IF found.kind = "bad_lexical_cast" /\ Text!MayBeHeader THEN UNCHANGED <<at, answer>>
                   ELSE Text!Over("6")
  BY Zenon DEF Text!TakeLine
<1>3. PICK found : found = Text!Extract(Text!Fields(line), given.col)
  OBVIOUS
<1>4. line \in Seq(STRING) /\ Text!GetLine(line)
  BY <1>2, InputsAssumption
<1>5. PICK col \in 0 .. 1 : col = given.col
  BY <1>1
<1>6. /\ text \in Seq(Seq(STRING)) /\ text' \in Seq(Seq(STRING)) /\ Len(text) \in Nat /\ Len(text') = Len(text) + 1
      /\ \A i \in 1 .. Len(text) : text'[i] = text[i]
      /\ text'[Len(text) + 1] = line /\ text' # <<>> /\ (text = <<>> => Len(text) = 0) /\ (Len(text) = 0 => text = <<>>)
  BY <1>1, <1>4, LineRead, EmptySeq
<1>7. PICK n \in Nat : n = Skipped /\ n <= Len(text) /\ ReadingsAfter(n)
  <2>1. CASE given.ignore = -1
    <3>1. Skipped \in {0, 1} /\ (Skipped = 1 => text # <<>>)
      BY <2>1 DEF Skipped
    <3> QED
      BY <1>1, <1>6, <3>1
  <2>2. CASE given.ignore # -1
    <3>1. Skipped = given.ignore /\ given.ignore \in Nat
      BY <1>1, <2>2 DEF Skipped
    <3> QED
      BY <1>1, <3>1
  <2> QED
    BY <2>1, <2>2
<1>8. data \in Seq(Int) /\ Len(data) = Len(text) - n /\ Len(data) \in Nat
      /\ \A i \in 1 .. Len(data) : data[i] = Text!Value(Text!FieldsOf(text[n + i])[col + 1])
  BY <1>5, <1>6, <1>7 DEF ReadingsAfter
\* A line before it makes a line neither a header nor none.
<1>9. Skipped' = IF given.ignore = -1 /\ text = <<>>
                   THEN IF Text!Numeric(Text!FieldsOf(line)[col + 1]) THEN 0 ELSE 1 ELSE n
  <2>1. given.ignore = -1 /\ text # <<>> => text'[1] = text[1]
    <3>1. text # <<>> => 1 \in 1 .. Len(text)
      BY <1>6
    <3> QED
      BY <1>6, <3>1
  <2>2. text = <<>> => text'[1] = line
    BY <1>6
  <2>3. given' = given
    BY <1>1
  <2>4. CASE given.ignore = -1
    BY <1>5, <1>6, <1>7, <2>1, <2>2, <2>3, <2>4 DEF Skipped
  <2>5. CASE given.ignore # -1
    BY <1>7, <2>3, <2>5 DEF Skipped
  <2> QED
    BY <2>4, <2>5
<1>10. CASE found.kind = "number"
  <2>1. PICK v \in Int : v = found.value /\ v = Text!Value(Text!FieldsOf(line)[col + 1])
    BY <1>3, <1>4, <1>5, <1>10, ReadingOf
  <2>2. Text!Numeric(Text!FieldsOf(line)[col + 1])
    BY <1>3, <1>4, <1>5, <1>10, ReadingOf
  <2>3. data' = Append(data, v) /\ UNCHANGED <<at, answer>>
    BY <1>2, <1>3, <1>10, <2>1
  <2>4. Skipped' = n
    <3>1. given.ignore = -1 /\ text = <<>> => n = 0
      BY <1>7 DEF Skipped
    <3> QED
      BY <1>9, <2>2, <3>1
  <2>5. /\ data' \in Seq(Int) /\ Len(data') = Len(data) + 1
        /\ (\A i \in 1 .. Len(data) : data'[i] = data[i]) /\ data'[Len(data) + 1] = v
    BY <1>8, <2>3, AppendProperties
  <2>6. Len(data') = Len(text') - n /\ Len(text') > n
    BY <1>6, <1>7, <1>8, <2>5
  <2>7. \A i \in 1 .. Len(data') : data'[i] = Text!Value(Text!FieldsOf(text'[n + i])[col + 1])
    <3> SUFFICES ASSUME NEW i \in 1 .. Len(data')
                 PROVE  data'[i] = Text!Value(Text!FieldsOf(text'[n + i])[col + 1])
      OBVIOUS
    <3>1. CASE i \in 1 .. Len(data)
      <4>1. n + i \in 1 .. Len(text)
        BY <1>6, <1>7, <1>8, <3>1
      <4>2. text'[n + i] = text[n + i] /\ data'[i] = data[i]
        BY <1>6, <2>5, <3>1, <4>1
      <4> QED
        BY <1>8, <3>1, <4>2
    <3>2. CASE i \notin 1 .. Len(data)
      <4>1. i = Len(data) + 1 /\ n + i = Len(text) + 1
        BY <1>6, <1>7, <1>8, <2>5, <3>2
      <4> QED
        BY <1>6, <2>1, <2>5, <4>1
    <3> QED
      BY <3>1, <3>2
  <2>8. ReadingsAfter(n)'
    BY <1>1, <1>5, <2>5, <2>6, <2>7 DEF ReadingsAfter
  <2>9. FileRead'
    BY <1>1, <1>6, <2>3, <2>4, <2>8
  <2> QED
    BY <1>1, <2>9, OthersStay
<1>11. CASE found.kind # "number"
  <2>1. CASE at' = "over"
    <3>1. FileRead'
      BY <1>1, <1>2, <1>3, <1>6, <1>11, <2>1
    <3> QED
      BY <1>1, <3>1, OthersStay
  <2>2. CASE at' # "over"
    <3>1. found.kind = "bad_lexical_cast" /\ Text!MayBeHeader /\ UNCHANGED <<at, answer, data>>
      BY <1>1, <1>2, <1>3, <1>11, <2>2
    <3>2. ~Text!Numeric(Text!FieldsOf(line)[col + 1])
      BY <1>3, <1>4, <1>5, <3>1, ReadingOf
    <3>3. text = <<>> /\ given.ignore = -1 /\ Skipped' = 1
      BY <1>9, <3>1, <3>2 DEF Text!MayBeHeader
    <3>4. Len(text') = 1 /\ Len(data') = 0 /\ data' \in Seq(Int)
      BY <1>6, <1>7, <1>8, <3>1, <3>3
    <3>5. ReadingsAfter(1)'
      BY <3>4 DEF ReadingsAfter
    <3>6. FileRead'
      BY <1>1, <1>6, <3>1, <3>3, <3>5
    <3> QED
      BY <1>1, <3>6, OthersStay
  <2> QED
    BY <2>1, <2>2
<1> QED
  BY <1>10, <1>11

LEMMA EndStep == ASSUME Reading, Text!EndOfFile \/ Text!Finish PROVE Reading'
<1> USE DEF Reading, FileRead, Accepted, Text!Over
<1>1. reader \in {"analyze", "detect"} /\ at \in {"read", "analyse"} /\ at' # "open"
      /\ UNCHANGED <<reader, given, text, data>>
  BY DEF BaselinesRead, RoundRead, Text!EndOfFile, Text!Finish
<1>2. ReadingsAfter(Skipped)'
  BY <1>1 DEF ReadingsAfter, Skipped
<1>3. FileRead'
  BY <1>1, <1>2 DEF Text!EndOfFile, Text!Finish
<1> QED
  BY <1>1, <1>3, OthersStay

-----------------------------------------------------------------------------
(* The baselines. *)

LEMMA UnsetIs == ASSUME NEW n \in Nat PROVE Text!Unset(n) \in [Text!Types -> [0 .. n - 1 -> Int]]
  BY DEF Text!Unset

LEMMA BaselinesStay ==
  ASSUME UNCHANGED <<rows, numPI, base, before>>, NEW n, BaselinesAfter(n) PROVE BaselinesAfter(n)'
<1>1. \A pi : Own(n, pi)' = Own(n, pi)
  BY DEF Own
<1> QED
  BY <1>1 DEF BaselinesAfter

LEMMA BeginStep ==
  ASSUME Reading, Text!SetNumOfPi \/ Text!SetBaseline \/ Text!OpenFails \/ Text!ReadHeader PROVE Reading'
<1> USE DEF Reading, BaselinesRead, Text!Over, Text!Loading
<1>1. reader = "baseline" /\ at = "open" /\ reader' = reader /\ UNCHANGED <<rows, used>>
  BY DEF Text!SetNumOfPi, Text!SetBaseline, Text!OpenFails, Text!ReadHeader, Text!Texts
<1>2. CASE Text!SetNumOfPi
  <2>1. /\ numPI' \in Nat /\ base' \in [Text!Types -> [0 .. numPI' - 1 -> Int]] /\ base' = before'
        /\ UNCHANGED <<at, answer>>
    <3>1. PICK n : n = numPI'
      OBVIOUS
    <3>2. n \in Nat /\ n \in 1 .. MaxPI
      BY <1>2, <3>1, InputsAssumption DEF Text!SetNumOfPi
    <3>3. base' = Text!Unset(n) /\ base' = before' /\ UNCHANGED <<at, answer>>
      BY <1>2, <3>1 DEF Text!SetNumOfPi
    <3> QED
      BY <3>1, <3>2, <3>3, UnsetIs
  <2>2. BaselinesRead'
    BY <1>1, <2>1
  <2> QED
    BY <1>1, <2>2, OthersStay
<1>3. CASE Text!SetBaseline
  <2>1. base' \in [Text!Types -> [0 .. numPI - 1 -> Int]] /\ base' = before' /\ UNCHANGED <<at, answer, numPI>>
    BY <1>1, <1>3 DEF Text!SetBaseline
  <2>2. BaselinesRead'
    BY <1>1, <2>1
  <2> QED
    BY <1>1, <2>2, OthersStay
<1>4. CASE Text!OpenFails
  <2>1. BaselinesRead'
    BY <1>1, <1>4 DEF Text!OpenFails
  <2> QED
    BY <1>1, <2>1, OthersStay
<1>5. CASE Text!ReadHeader
  <2>1. (at' = "rows" /\ answer' = answer) \/ (at' = "over" /\ answer' = "terminate")
    BY <1>5, Zenon DEF Text!ReadHeader
  <2>2. UNCHANGED <<numPI, base, before>>
    BY <1>5 DEF Text!ReadHeader
  <2>3. BaselinesRead'
    BY <1>1, <2>1, <2>2
  <2> QED
    BY <1>1, <2>3, OthersStay
<1> QED
  BY <1>2, <1>3, <1>4, <1>5

\* What a row has in a column is a number.
LEMMA ColumnIs ==
  ASSUME NEW cells \in [DOMAIN header -> Cells], NEW name, NEW default \in Int
  PROVE  Text!Column(cells, name, default) \in Int
<1>1. CASE name \in Text!ToSet(header)
  <2>1. \E i \in DOMAIN header : header[i] = name
    BY <1>1 DEF Text!ToSet
  <2>2. PICK k : k = CHOOSE i \in DOMAIN header : header[i] = name
    OBVIOUS
  <2>3. k \in DOMAIN header
    BY <2>1, <2>2, Zenon
  <2>4. Text!Column(cells, name, default) = cells[k]
    BY <1>1, <2>2, Zenon DEF Text!Column
  <2> QED
    BY <2>3, <2>4, InputsAssumption
<1>2. CASE name \notin Text!ToSet(header)
  BY <1>2 DEF Text!Column
<1> QED
  BY <1>1, <1>2

LEMMA RowStep == ASSUME Reading, Text!ReadRow PROVE Reading'
<1> USE DEF Reading, BaselinesRead, Text!Over
<1>1. reader = "baseline" /\ at = "rows" /\ reader' = reader /\ UNCHANGED <<numPI, base, before, used>>
  BY DEF FileRead, RoundRead, Text!ReadRow, Text!Texts
<1>2. CASE rows' = rows /\ at' = "over" /\ answer' = "terminate"
  <2>1. BaselinesRead'
    BY <1>1, <1>2
  <2> QED
    BY <1>1, <2>1, OthersStay
<1>3. CASE UNCHANGED <<at, answer>> /\
           \E cells \in [DOMAIN header -> Cells] :
             /\ Text!Column(cells, "piid", 0) >= 0
             /\ rows' = Append(rows, [piid |-> Text!Column(cells, "piid", 0),
                                      readings |-> Text!Column(cells, "readings_num", -1),
                                      unit_readings |-> Text!Column(cells, "unit_readings_num", -1)])
  <2>1. PICK cells \in [DOMAIN header -> Cells] :
             /\ Text!Column(cells, "piid", 0) >= 0
             /\ rows' = Append(rows, [piid |-> Text!Column(cells, "piid", 0),
                                      readings |-> Text!Column(cells, "readings_num", -1),
                                      unit_readings |-> Text!Column(cells, "unit_readings_num", -1)])
    BY <1>3
  <2>2. PICK row \in Row : rows' = Append(rows, row)
    <3>1. /\ Text!Column(cells, "piid", 0) \in Int /\ Text!Column(cells, "readings_num", -1) \in Int
          /\ Text!Column(cells, "unit_readings_num", -1) \in Int
      BY ColumnIs
    <3> QED
      BY <2>1, <3>1 DEF Row
  <2>3. rows' \in Seq(Row)
    <3>1. PICK R : R = Row
      OBVIOUS
    <3>2. rows \in Seq(R) /\ row \in R
      BY <1>1, <3>1
    <3> QED
      BY <2>2, <3>1, <3>2, AppendProperties
  <2>4. BaselinesRead'
    BY <1>1, <1>3, <2>3
  <2> QED
    BY <1>1, <2>4, OthersStay
<1> QED
  BY <1>2, <1>3, Zenon DEF Text!ReadRow, Text!Over

LEMMA RowsStep == ASSUME Reading, Text!EndRows PROVE Reading'
<1> USE DEF Reading, BaselinesRead, Text!Over
<1>1. reader = "baseline" /\ at = "rows" /\ reader' = reader /\ UNCHANGED <<rows, used>>
  BY DEF FileRead, RoundRead, Text!EndRows, Text!Texts
<1>2. rows \in Seq(Row) /\ Len(rows) \in Nat
  <2>1. PICK R : R = Row
    OBVIOUS
  <2>2. rows \in Seq(R)
    BY <1>1, <2>1
  <2> QED
    BY <2>1, <2>2, LenProperties
<1>3. base' \in [Text!Types -> [0 .. numPI' - 1 -> Int]] /\ numPI' \in Nat /\ base' = before'
  <2>1. CASE UNCHANGED <<numPI, base, before>>
    BY <1>1, <2>1
  <2>2. CASE numPI' = Len(rows) /\ base' = Text!Unset(numPI') /\ before' = base'
    BY <1>2, <2>2, UnsetIs
  <2> QED
    BY <2>1, <2>2 DEF Text!EndRows
<1>4. PICK n \in Nat : n = used' /\ n = 0 /\ n \in 0 .. Len(rows) /\ BaselinesAfter(n)'
  <2>1. Own(0, 0)' = {} /\ \A pi : Own(0, pi)' = {}
    BY DEF Own
  <2>2. BaselinesAfter(0)'
    BY <1>3, <2>1 DEF BaselinesAfter
  <2>3. used' = 0
    BY <1>1
  <2> QED
    BY <1>2, <2>2, <2>3
<1>5. (at' = "apply" /\ answer' = answer) \/ (at' = "over" /\ answer' = "abort")
  BY DEF Text!EndRows
<1>6. BaselinesRead'
  BY <1>1, <1>2, <1>3, <1>4, <1>5
<1> QED
  BY <1>1, <1>6, OthersStay

\* A row that is used is the last one of its PI.
LEMMA ApplyStep == ASSUME Reading, Text!ApplyRow PROVE Reading'
<1> USE DEF Reading, BaselinesRead, Text!Over
<1>1. /\ reader = "baseline" /\ at = "apply" /\ reader' = reader /\ UNCHANGED <<rows, numPI, before, comparing>>
      /\ used < Len(rows) /\ used' = used + 1 /\ answer = "none"
  BY DEF FileRead, RoundRead, Text!ApplyRow, Text!Texts
<1>2. PICK n \in Nat : n = used /\ n + 1 \in 1 .. Len(rows) /\ Len(rows) \in Nat /\ used' = n + 1
  <2>1. PICK R : R = Row
    OBVIOUS
  <2>2. rows \in Seq(R)
    BY <1>1, <2>1
  <2>3. Len(rows) \in Nat
    BY <2>2, LenProperties
  <2> QED
    BY <1>1, <2>3
<1>3. PICK row : row = rows[n + 1] /\ row \in Row
  <2>1. PICK R : R = Row
    OBVIOUS
  <2>2. rows \in Seq(R)
    BY <1>1, <2>1
  <2> QED
    BY <1>2, <2>1, <2>2, ElementOfSeq
<1>4. row.piid \in Nat /\ row["readings"] \in Int /\ row["unit_readings"] \in Int
  BY <1>3 DEF Row
<1>5. CASE row.piid >= numPI
  <2>1. at' = "over" /\ answer' = "abort" /\ base' = base
    BY <1>1, <1>2, <1>3, <1>5 DEF Text!ApplyRow
  <2>2. BaselinesRead'
    BY <1>1, <2>1
  <2> QED
    BY <1>1, <2>2, OthersStay
<1>6. CASE ~(row.piid >= numPI)
  <2>1. /\ base' = [t \in Text!Types |-> [base[t] EXCEPT ![row.piid] = Text!OfRow(row[t], n + 1)]]
        /\ UNCHANGED <<at, answer>>
    BY <1>1, <1>2, <1>3, <1>6 DEF Text!ApplyRow
  <2>2. PICK q \in 0 .. numPI - 1 : q = row.piid
    BY <1>1, <1>4, <1>6
  <2>3. \A t \in Text!Types : row[t] \in Int
    BY <1>4 DEF Text!Types
  <2>4. \A t \in Text!Types : Text!OfRow(row[t], n + 1) = (IF row[t] > 0 THEN n + 1 ELSE 0)
                              /\ Text!OfRow(row[t], n + 1) \in Int
    BY <2>3 DEF Text!OfRow
  <2>5. \A t \in Text!Types : base[t] \in [0 .. numPI - 1 -> Int]
    BY <1>1
  <2>6. base' \in [Text!Types -> [0 .. numPI - 1 -> Int]]
    BY <2>1, <2>2, <2>4, <2>5
  <2>7. BaselinesAfter(n)
    BY <1>1, <1>2
  <2>8. ASSUME NEW t \in Text!Types, NEW pi \in 0 .. numPI - 1
        PROVE  base'[t][pi] = IF Own(n + 1, pi) = {} THEN before[t][pi]
                              ELSE IF rows[Text!Max(Own(n + 1, pi))][t] > 0 THEN Text!Max(Own(n + 1, pi)) ELSE 0
    <3>1. CASE pi = q
      <4> DEFINE own == Own(n + 1, pi)
      <4>1. n + 1 \in own /\ own # {} /\ own \in SUBSET Nat /\ \A y \in own : y <= n + 1
        BY <1>2, <1>3, <2>2, <3>1 DEF Own
      <4> HIDE DEF own
      <4>2. Text!Max(own) = n + 1
        <5>1. PICK b : b = Text!Max(own) /\ b \in own /\ b >= n + 1
          BY <1>2, <4>1, MaxIs
        <5>2. b \in Nat /\ b <= n + 1
          BY <4>1, <5>1
        <5> QED
          BY <1>2, <5>1, <5>2
      <4>3. base'[t][pi] = Text!OfRow(row[t], n + 1)
        BY <2>1, <2>2, <2>5, <3>1
      <4>4. base'[t][pi] = IF own = {} THEN before[t][pi]
                           ELSE IF rows[Text!Max(own)][t] > 0 THEN Text!Max(own) ELSE 0
        BY <1>3, <2>4, <4>1, <4>2, <4>3
      <4> QED
        BY <4>4 DEF own
    <3>2. CASE pi # q
      <4>1. Own(n + 1, pi) = Own(n, pi)
        BY <1>2, <1>3, <2>2, <3>2 DEF Own
      <4>2. base'[t][pi] = base[t][pi]
        BY <2>1, <2>2, <2>5, <3>2
      <4> QED
        BY <2>7, <4>1, <4>2 DEF BaselinesAfter
    <3> QED
      BY <3>1, <3>2
  <2>9. BaselinesAfter(n + 1)'
    <3>1. \A k, pi : Own(k, pi)' = Own(k, pi)
      BY <1>1 DEF Own
    <3> QED
      BY <1>1, <2>8, <3>1 DEF BaselinesAfter
  <2>10. BaselinesRead'
    BY <1>1, <1>2, <2>1, <2>6, <2>9
  <2> QED
    BY <1>1, <2>10, OthersStay
<1> QED
  BY <1>5, <1>6

LEMMA LoadedStep == ASSUME Reading, Text!Loaded PROVE Reading'
<1> USE DEF Reading, BaselinesRead, Text!Over
<1>1. /\ reader = "baseline" /\ at = "apply" /\ reader' = reader /\ UNCHANGED <<rows, numPI, base, before, used>>
      /\ used = Len(rows) /\ comparing' /\ at' = "over" /\ answer' = "0"
  BY DEF FileRead, RoundRead, Text!Loaded, Text!Texts
<1>2. PICK n : n = used /\ n = used' /\ BaselinesAfter(n)'
  <2>1. BaselinesAfter(used) /\ UNCHANGED <<rows, numPI, base, before>>
    BY <1>1
  <2> QED
    BY <1>1, <2>1, BaselinesStay
<1>3. BaselinesRead'
  BY <1>1, <1>2
<1> QED
  BY <1>1, <1>3, OthersStay

LEMMA ReadingStep == Reading /\ [Text!Next]_Text!vars => Reading'
<1> SUFFICES ASSUME Reading, [Text!Next]_Text!vars PROVE Reading'
  OBVIOUS
<1>1. CASE UNCHANGED Text!vars
  <2>1. FileRead'
    BY <1>1 DEF Reading, FileRead, Accepted, ReadingsAfter, Skipped, Text!vars
  <2>2. BaselinesRead'
    <3>1. PICK n : n = used /\ n = used' /\ (BaselinesAfter(used) => BaselinesAfter(n)')
      BY <1>1, BaselinesStay DEF Text!vars
    <3> QED
      BY <1>1, <3>1 DEF Reading, BaselinesRead, Text!vars
  <2>3. RoundRead'
    BY <1>1 DEF Reading, RoundRead, Text!LinesRead, Text!vars
  <2> QED
    BY <1>1, <2>1, <2>2, <2>3 DEF Reading, Text!vars
<1>2. CASE Text!ParseOutput
  <2>1. reader' = "round" /\ at' = "over"
    <3>1. \A found, ratio, reported : Text!TakeOutput(found, ratio, reported) => at' = "over"
      BY Zenon DEF Text!TakeOutput, Text!Over
    <3> QED
      BY <1>2, <3>1, Zenon DEF Text!ParseOutput
  <2>2. RoundRead'
    BY <1>2, <2>1, OutputRead DEF RoundRead
  <2> QED
    BY <2>1, <2>2, OthersStay
<1>3. CASE Text!Reject \/ Text!Open
  BY <1>3, OpenStep
<1>4. CASE Text!IgnoreLine \/ Text!IgnoreFails
  BY <1>4, IgnoreStep
<1>5. CASE Text!TakeLine
  BY <1>5, TakeStep
<1>6. CASE Text!EndOfFile \/ Text!Finish
  BY <1>6, EndStep
<1>7. CASE Text!SetNumOfPi \/ Text!SetBaseline \/ Text!OpenFails \/ Text!ReadHeader
  BY <1>7, BeginStep
<1>8. CASE Text!ReadRow
  BY <1>8, RowStep
<1>9. CASE Text!EndRows
  BY <1>9, RowsStep
<1>10. CASE Text!ApplyRow
  BY <1>10, ApplyStep
<1>11. CASE Text!Loaded
  BY <1>11, LoadedStep
<1> QED
  BY <1>1, <1>2, <1>3, <1>4, <1>5, <1>6, <1>7, <1>8, <1>9, <1>10, <1>11 DEF Text!Next

LEMMA AlwaysReading == Text!Spec => []Reading
  BY ReadingInit, ReadingStep, PTL DEF Text!Spec

(* For every line a client program may print, split_csv_line makes the fields that
   its comment promises, and a round that is accepted has the numbers of the columns
   asked for. *)
THEOREM OutputAsPromised == Text!Spec => []LinesRead
<1>1. Reading => LinesRead
  BY DEF Reading, RoundRead, LinesRead, Text!LinesRead
<1> QED
  BY <1>1, AlwaysReading, PTL

\* What is left of a text that has been read.
LEMMA RestIs ==
  ASSUME text \in Seq(Seq(STRING)), NEW n \in Nat, ReadingsAfter(n)
  PROVE  data = Text!Column0(SubSeq(text, n + 1, Len(text)), given.col)
<1>1. PICK rest : rest = SubSeq(text, n + 1, Len(text))
  OBVIOUS
<1>2. Len(text) \in Nat /\ n + 1 \in Int
  BY LenProperties
<1>3. /\ rest \in Seq(Seq(STRING)) /\ Len(rest) = (IF n + 1 <= Len(text) THEN Len(text) - (n + 1) + 1 ELSE 0)
      /\ \A i \in 1 .. Len(text) - (n + 1) + 1 : rest[i] = text[n + 1 + i - 1]
  <2>1. PICK S : S = Seq(STRING)
    OBVIOUS
  <2>2. \A i \in n + 1 .. Len(text) : text[i] \in S
    <3>1. \A i \in n + 1 .. Len(text) : i \in 1 .. Len(text)
      BY <1>2
    <3>2. text \in Seq(S)
      BY <2>1
    <3> QED
      BY <3>1, <3>2, ElementOfSeq
  <2>3. /\ rest \in Seq(S) /\ Len(rest) = (IF n + 1 <= Len(text) THEN Len(text) - (n + 1) + 1 ELSE 0)
        /\ \A i \in 1 .. Len(text) - (n + 1) + 1 : rest[i] = text[n + 1 + i - 1]
    BY <1>1, <1>2, <2>2, SubSeqProperties
  <2> QED
    BY <2>1, <2>3
<1>4. Len(data) = Len(rest) /\ DOMAIN rest = 1 .. Len(data) /\ data = [i \in 1 .. Len(data) |-> data[i]]
  <2>1. DOMAIN rest = 1 .. Len(rest)
    BY <1>3, LenProperties
  <2>2. data \in [1 .. Len(data) -> Int]
    BY LenProperties DEF ReadingsAfter
  <2>3. Len(data) = Len(rest)
    BY <1>2, <1>3 DEF ReadingsAfter
  <2> QED
    BY <2>1, <2>2, <2>3
<1>5. \A i \in 1 .. Len(data) : data[i] = Text!Value(Text!FieldsOf(rest[i])[given.col + 1])
  <2> SUFFICES ASSUME NEW i \in 1 .. Len(data)
               PROVE  data[i] = Text!Value(Text!FieldsOf(rest[i])[given.col + 1])
    OBVIOUS
  <2>1. rest[i] = text[n + i]
    <3>1. i \in 1 .. Len(text) - (n + 1) + 1 /\ n + 1 + i - 1 = n + i
      <4>1. PICK m \in Nat : m = Len(text)
        BY <1>2
      <4>2. Len(data) = IF n + 1 <= m THEN m - (n + 1) + 1 ELSE 0
        BY <1>3, <1>4, <4>1
      <4>3. i \in 1 .. (IF n + 1 <= m THEN m - (n + 1) + 1 ELSE 0)
        BY <4>2
      <4>4. n + 1 <= m /\ i \in 1 .. m - (n + 1) + 1 /\ i \in Nat
        BY <4>3
      <4> QED
        BY <4>1, <4>4
    <3> QED
      BY <1>3, <3>1
  <2> QED
    BY <2>1 DEF ReadingsAfter
<1> QED
  BY <1>1, <1>4, <1>5, Zenon DEF Text!Column0

(* Whatever is in them, files are read without a reading lost or made up, and a
   baseline file that is accepted leaves each PI with what its last row says. *)
THEOREM FilesAsGiven == Text!Spec => []FilesRead
<1>1. ASSUME Reading, reader \in {"analyze", "detect"}, at = "over", answer \in {"0", "4", "5"}
      PROVE  LET header0 == Text!Numeric(Text!FieldsOf(text[1])[given.col + 1])
                 first == IF given.ignore = -1 /\ text # <<>> /\ ~header0 THEN 2 ELSE 1
             IN data = Text!Column0(IF given.ignore = -1 THEN SubSeq(text, first, Len(text))
                                    ELSE SubSeq(text, given.ignore + 1, Len(text)), given.col)
  <2>1. given.ignore \in Nat \cup {-1} /\ ReadingsAfter(Skipped) /\ text \in Seq(Seq(STRING))
    BY <1>1 DEF Reading, FileRead, Accepted
  <2>2. PICK n \in Nat : n = Skipped
    BY <2>1 DEF Skipped
  <2>3. data = Text!Column0(SubSeq(text, n + 1, Len(text)), given.col)
    BY <2>1, <2>2, RestIs
  <2> QED
    BY <2>2, <2>3 DEF Skipped
<1>2. ASSUME Reading, reader = "baseline", answer = "0"
      PROVE  /\ comparing
             /\ \A t \in Text!Types, pi \in 0 .. numPI - 1 :
                  base[t][pi] = IF Text!RowsOf(pi) = {} THEN before[t][pi]
                                ELSE IF rows[Text!Max(Text!RowsOf(pi))][t] > 0 THEN Text!Max(Text!RowsOf(pi)) ELSE 0
  <2>1. used = Len(rows) /\ comparing /\ BaselinesAfter(used) /\ rows \in Seq(Row)
    BY <1>2 DEF Reading, BaselinesRead
  <2>2. DOMAIN rows = 1 .. Len(rows)
    BY <2>1, LenProperties
  <2>3. \A pi : Text!RowsOf(pi) = Own(Len(rows), pi)
    BY <2>2 DEF Text!RowsOf, Own
  <2> QED
    BY <2>1, <2>3 DEF BaselinesAfter
<1>3. Reading => FilesRead
  BY <1>1, <1>2 DEF FilesRead, Text!FilesRead, Text!Loading
<1> QED
  BY <1>3, AlwaysReading, PTL
=============================================================================
