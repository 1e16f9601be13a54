-------------------------------- MODULE Inputs ---------------------------------
(* What is read from text: the files of the analyze and detect_changepoint_edm
   commands, a baseline file, and the line a client program prints in a round. A
   behaviour is of one reader. Texts are sequences of characters of four kinds,
   and a number is written in as many digits "d" as it is great, and one more. *)
EXTENDS Integers, SequencesExt

CONSTANTS
  Lines,      \* the lines there may be in a file
  MaxLines,   \* the most lines of a file
  Ignoring,   \* what may be given for --ignore-lines, -1 for nothing
  Outputs,    \* the lines a client program may print
  MaxSeconds, \* MAX_ROUND_DURATION_IN_SEC, in quarters of a nanosecond
  MinDetect,  \* the fewest readings for changepoint detection
  Headers,    \* the column names of baseline files
  Cells,      \* what a row of a baseline file may have in a column
  MaxPI       \* the most PIs

VARIABLES
  reader, at, code, \* who reads, where it is, and its exit code or answer
  options,
  text,             \* the lines read
  data,             \* the readings of the file or of the round
  duration,         \* *round_duration, 0 if it is not reported
  header, rows,     \* of a baseline file
  numPI, base,      \* num_of_pi_, and the baselines: the number of the row each is from,
                    \* 0 if it is not set, -1 if the program set it
  before,           \* history: the baselines before the file was read
  used,             \* the number of rows used
  comparing         \* whether the comparison takes part in planning

vars == <<reader, at, code, options, text, data, duration, header, rows, numPI, base, before, used, comparing>>

Over(c) == at' = "over" /\ code' = c
-----------------------------------------------------------------------------
(* One line. *)

Blank(c) == c = " "

\* find_first_not_of
Skip(line, p) == LET rest == {i \in p .. Len(line) : ~Blank(line[i])}
                 IN IF rest = {} THEN Len(line) + 1 ELSE Min(rest)

Ended(s, p) == [pos |-> p, field |-> <<>>, fields |-> Append(s.fields, s.field)]

\* Mutant: whitespace before a comma is a separator of its own.
PassTwice(line, s) ==
  CASE line[s.pos] = "," -> Ended(s, Skip(line, s.pos + 1))
    [] Blank(line[s.pos]) -> Ended(s, Skip(line, s.pos))
    [] OTHER -> [s EXCEPT !.pos = @ + 1, !.field = Append(@, line[s.pos])]

\* A pass of the loop of split_csv_line.
Pass(line, s) ==
  LET next == Skip(line, s.pos)
  IN CASE line[s.pos] = "," -> Ended(s, Skip(line, s.pos + 1))
       [] Blank(line[s.pos]) -> IF line[next] = "," THEN [s EXCEPT !.pos = next] ELSE Ended(s, next)
       [] OTHER -> [s EXCEPT !.pos = @ + 1, !.field = Append(@, line[s.pos])]

PassUpTo(line, end, s) == IF s.pos > end THEN s ELSE Pass(line, s)

\* The loop, which passes over at least one character each time.
Loop(line, begin, end) ==
  LET after[n \in 0 .. Len(line)] ==
        IF n = 0 THEN [pos |-> begin, field |-> <<>>, fields |-> <<>>]
        ELSE PassUpTo(line, end, after[n - 1])
  IN after

Fields(line) ==
  LET filled == {i \in DOMAIN line : ~Blank(line[i])}
      last == Loop(line, Min(filled), Max(filled))[Len(line)]
  IN IF filled = {} THEN << <<>> >> ELSE Append(last.fields, last.field)

Numeric(field) == field # <<>> /\ ToSet(field) = {"d"}
Value(field) == Len(field) - 1

\* extract_csv_fields for one column: a reading, or the exception it throws.
Extract(fields, col) ==
  IF col + 1 \notin DOMAIN fields THEN [kind |-> "runtime_error"]
  ELSE IF Numeric(fields[col + 1]) THEN [kind |-> "number", value |-> Value(fields[col + 1])]
  ELSE [kind |-> "bad_lexical_cast"]

\* llround, but no less than one if something was reported.
Nanoseconds(d) == IF d > 0 /\ (d + 2) \div 4 = 0 THEN 1 ELSE (d + 2) \div 4

\* workload_func, once there is a line: the PIs' columns, then that of the duration.
TakeOutput(found, ratio, reported) ==
  IF \E i \in DOMAIN found : found[i].kind # "number" \/ (ratio /\ found[i].value = 0)
    THEN Over("ERR_WL_FAIL") /\ UNCHANGED <<data, duration>>
    ELSE /\ data' = [i \in DOMAIN found |-> found[i].value]
         /\ IF reported.kind = "none" THEN Over("0") /\ UNCHANGED duration
            ELSE IF reported.kind # "number" \/ reported.value > MaxSeconds
              THEN Over("ERR_WL_FAIL") /\ UNCHANGED duration
              ELSE Over("0") /\ duration' = Nanoseconds(reported.value)

ParseOutput ==
  /\ reader = "round" /\ at = "open"
  /\ \E line \in Outputs, cols \in {<<>>, <<0>>, <<1, 0>>}, ratio \in BOOLEAN, d \in -1 .. 1 :
       \E fields \in {Fields(line)} :
         /\ text' = <<line>>
         /\ options' = [cols |-> cols, ratio |-> ratio, duration |-> d]
         /\ TakeOutput([i \in DOMAIN cols |-> Extract(fields, cols[i])], ratio,
                       IF d = -1 THEN [kind |-> "none"] ELSE Extract(fields, d))
  /\ UNCHANGED <<reader, header, rows, numPI, base, before, used, comparing>>
-----------------------------------------------------------------------------
(* The commands that analyse a file. *)

Baselines == <<header, rows, numPI, base, before, used, comparing>>

\* Options that are not accepted; analyze takes all of them for the same.
Reject ==
  /\ reader \in {"analyze", "detect"} /\ at = "open"
  /\ \E c \in IF reader = "analyze" THEN {"2"} ELSE {"1", "2"} : Over(c)
  /\ UNCHANGED <<reader, options, text, data, duration, Baselines>>

\* A file that cannot be opened is an exception for analyze only.
Open ==
  /\ reader \in {"analyze", "detect"} /\ at = "open"
  /\ \E stdin, exists, harmonic \in BOOLEAN, n \in Ignoring, col \in 0 .. 1 :
       /\ stdin => exists
       /\ reader = "detect" => ~harmonic /\ n >= 0
       /\ options' = [stdin |-> stdin, exists |-> exists, harmonic |-> harmonic, ignore |-> n, col |-> col]
       /\ IF reader = "analyze" /\ ~exists THEN Over("errno") ELSE at' = "read" /\ UNCHANGED code
  /\ UNCHANGED <<reader, text, data, duration, Baselines>>

GetLine(line) ==
  /\ options.exists /\ Len(text) < MaxLines
  /\ text' = Append(text, line)

IgnoreLine ==
  /\ at = "read" /\ Len(text) < options.ignore
  /\ \E line \in Lines : GetLine(line)
  /\ UNCHANGED <<reader, at, code, options, data, duration, Baselines>>

\* The end of a file that analyze opened is an exception, and goes on with no data.
IgnoreFails ==
  /\ at = "read" /\ Len(text) < options.ignore
  /\ IF reader = "analyze" /\ ~options.stdin THEN at' = "analyse" /\ UNCHANGED code ELSE Over("3")
  /\ UNCHANGED <<reader, options, text, data, duration, Baselines>>

\* Mutant: every line that is not a number is taken for a header.
MayBeHeaderAnywhere == options.ignore = -1

\* A first line that is not a number is a header, unless --ignore-lines was given.
MayBeHeader == text = <<>> /\ options.ignore = -1

TakeLine ==
  /\ at = "read" /\ Len(text) >= options.ignore
  /\ \E line \in Lines : \E found \in {Extract(Fields(line), options.col)} :
       /\ GetLine(line)
       /\ IF found.kind = "number" THEN data' = Append(data, found.value) /\ UNCHANGED <<at, code>>
          ELSE /\ UNCHANGED data
               /\ IF reader = "detect" THEN Over("terminate")
                  ELSE IF found.kind = "bad_lexical_cast" /\ MayBeHeader THEN UNCHANGED <<at, code>>
                  ELSE Over("6")
  /\ UNCHANGED <<reader, options, duration, Baselines>>

EndOfFile ==
  /\ at = "read" /\ Len(text) >= options.ignore /\ at' = "analyse"
  /\ UNCHANGED <<reader, code, options, text, data, duration, Baselines>>

\* Too few or too correlated data have no subsession size, or no changepoints.
Finish ==
  /\ at = "analyse"
  /\ \/ reader = "analyze" /\ options.harmonic /\ 0 \in ToSet(data) /\ Over("6")
     \/ reader = "analyze" /\ ~(options.harmonic /\ 0 \in ToSet(data))
        /\ \E c \in IF data = <<>> THEN {"5"} ELSE {"0", "5"} : Over(c)
     \/ reader = "detect" /\ \E c \in IF Len(data) < MinDetect THEN {"4"} ELSE {"0", "4"} : Over(c)
  /\ UNCHANGED <<reader, options, text, data, duration, Baselines>>
-----------------------------------------------------------------------------
(* Baselines. *)

Types == {"readings", "unit_readings"}
Loading == reader = "baseline"
Texts == <<reader, options, text, data, duration>>

Unset(n) == [t \in Types |-> [pi \in 0 .. n - 1 |-> 0]]

SetNumOfPi ==
  /\ Loading /\ at = "open" /\ numPI = 0
  /\ numPI' \in 1 .. MaxPI /\ base' = Unset(numPI') /\ before' = base'
  /\ UNCHANGED <<Texts, at, code, header, rows, used, comparing>>

SetBaseline ==
  /\ Loading /\ at = "open"
  /\ \E t \in Types, pi \in 0 .. numPI - 1 : base' = [base EXCEPT ![t][pi] = -1]
  /\ before' = base' /\ comparing' = TRUE
  /\ UNCHANGED <<Texts, at, code, header, rows, numPI, used>>

\* The exceptions of the reader are caught by nobody.
OpenFails ==
  /\ Loading /\ at = "open" /\ Over("terminate")
  /\ UNCHANGED <<Texts, header, rows, numPI, base, before, used, comparing>>

Known == {"piid", "readings_num", "unit_readings_num"}

ReadHeader ==
  /\ Loading /\ at = "open"
  /\ \E names \in Headers :
       /\ header' = names
       /\ IF IsInjective(names) /\ ToSet(names) \subseteq Known
            THEN at' = "rows" /\ UNCHANGED code
            ELSE Over("terminate")
  /\ UNCHANGED <<Texts, rows, numPI, base, before, used, comparing>>

Column(cells, name, default) ==
  IF name \in ToSet(header) THEN cells[CHOOSE i \in DOMAIN header : header[i] = name] ELSE default

\* A column that is missing counts as no readings; the PIID is then that of the row before, or 0.
ReadRow ==
  /\ at = "rows" /\ Len(rows) < MaxLines
  /\ \/ /\ \E cells \in [DOMAIN header -> Cells] :
             /\ Column(cells, "piid", 0) >= 0
             /\ rows' = Append(rows, [piid |-> Column(cells, "piid", 0),
                                      readings |-> Column(cells, "readings_num", -1),
                                      unit_readings |-> Column(cells, "unit_readings_num", -1)])
        /\ UNCHANGED <<at, code>>
     \/ Over("terminate") /\ UNCHANGED rows
  /\ UNCHANGED <<Texts, header, numPI, base, before, used, comparing>>

\* All rows are read before any is used.
EndRows ==
  /\ at = "rows"
  /\ IF numPI # 0 /\ Len(rows) > numPI
       THEN Over("abort") /\ UNCHANGED <<numPI, base, before>>
       ELSE /\ at' = "apply" /\ UNCHANGED code
            /\ IF numPI # 0 THEN UNCHANGED <<numPI, base, before>>
               ELSE numPI' = Len(rows) /\ base' = Unset(numPI') /\ before' = base'
  /\ UNCHANGED <<Texts, header, rows, used, comparing>>

\* What a row makes of a baseline.
OfRow(n, i) == IF n <= 0 THEN 0 ELSE i

ApplyRow ==
  /\ at = "apply" /\ used < Len(rows) /\ used' = used + 1
  /\ IF rows[used'].piid >= numPI THEN Over("abort") /\ UNCHANGED base
     ELSE /\ base' = [t \in Types |-> [base[t] EXCEPT ![rows[used'].piid] = OfRow(rows[used'][t], used')]]
          /\ UNCHANGED <<at, code>>
  /\ UNCHANGED <<Texts, header, rows, numPI, before, comparing>>

Loaded ==
  /\ at = "apply" /\ used = Len(rows)
  /\ comparing' = TRUE /\ Over("0")
  /\ UNCHANGED <<Texts, header, rows, numPI, base, before, used>>
-----------------------------------------------------------------------------
Init ==
  /\ reader \in {"round", "analyze", "detect", "baseline"} /\ at = "open" /\ code = "none"
  /\ options = <<>> /\ text = <<>> /\ data = <<>> /\ duration = 0
  /\ header = <<>> /\ rows = <<>> /\ numPI = 0 /\ base = Unset(0) /\ before = base /\ used = 0 /\ comparing = FALSE

Next ==
  \/ ParseOutput
  \/ Reject \/ Open \/ IgnoreLine \/ IgnoreFails \/ TakeLine \/ EndOfFile \/ Finish
  \/ SetNumOfPi \/ SetBaseline \/ OpenFails \/ ReadHeader \/ ReadRow \/ EndRows \/ ApplyRow \/ Loaded

Spec == Init /\ [][Next]_vars
-----------------------------------------------------------------------------
(* References: a line is cut at its commas, and at whitespace between two
   characters that are neither. *)

Plain(line, i) == line[i] \notin {",", " "}
Cut(line, i) ==
  \/ line[i] = ","
  \/ /\ Blank(line[i]) /\ i > 1 /\ Plain(line, i - 1)
     /\ \E j \in i + 1 .. Len(line) : Plain(line, j) /\ \A k \in i .. j - 1 : Blank(line[k])
Cuts(line, i) == Cardinality({j \in 1 .. i : Cut(line, j)})
FieldOf(line, n) ==
  LET its == {i \in DOMAIN line : Plain(line, i) /\ Cuts(line, i) = n - 1}
  IN IF its = {} THEN <<>> ELSE SubSeq(line, Min(its), Max(its))
FieldsOf(line) == [n \in 1 .. Cuts(line, Len(line)) + 1 |-> FieldOf(line, n)]

Column0(lines, col) == [i \in DOMAIN lines |-> Value(FieldsOf(lines[i])[col + 1])]

(* split_csv_line keeps its comment: fields end at a comma, or at whitespace that
   is not next to one, and only commas make empty fields. A round that is accepted
   then has the numbers of the columns that were asked for, positive ones for
   ratios, and a duration that is 0 only if the client said so. *)
LinesRead ==
  reader = "round" /\ at = "over" =>
    /\ Fields(text[1]) = FieldsOf(text[1])
    /\ code = "0" =>
         /\ \A i \in DOMAIN data : data[i] = Value(FieldsOf(text[1])[options.cols[i] + 1])
         /\ options.ratio => 0 \notin ToSet(data)
         /\ options.duration # -1 =>
              (duration = 0) = (FieldsOf(text[1])[options.duration + 1] = <<"d">>)

\* The rows of a PI.
RowsOf(pi) == {i \in DOMAIN rows : rows[i].piid = pi}

(* No line of a file is lost, doubled or made up: analyze and
   detect_changepoint_edm analyse the numbers of all lines but those to be ignored,
   and of a header only when nothing was said about it. Loading a baseline file
   that is accepted leaves each PI that is in it with what its last row says, also
   if that is no baseline, every other PI with the baseline it had, and the
   comparison switched on. *)
FilesRead ==
  /\ reader \in {"analyze", "detect"} /\ at = "over" /\ code \in {"0", "4", "5"} =>
       LET given == SubSeq(text, options.ignore + 1, Len(text))
           first == IF options.ignore = -1 /\ text # <<>> /\ ~Numeric(FieldsOf(text[1])[options.col + 1]) THEN 2 ELSE 1
       IN data = Column0(IF options.ignore = -1 THEN SubSeq(text, first, Len(text)) ELSE given, options.col)
  /\ Loading /\ code = "0" =>
       /\ comparing
       /\ \A t \in Types, pi \in 0 .. numPI - 1 :
            base[t][pi] = IF RowsOf(pi) = {} THEN before[t][pi]
                          ELSE IF rows[Max(RowsOf(pi))][t] > 0 THEN Max(RowsOf(pi)) ELSE 0

(* pilot_load_baseline_file returns 0 on a successful read and ERR_IO on failures
   (libpilot.h). *)
BaselineAnswers == Loading /\ at = "over" => code \in {"0", "ERR_IO"}
=============================================================================
