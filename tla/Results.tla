-------------------------------- MODULE Results --------------------------------
(* What a workload says of itself: the analysis that is kept in analytical_result_
   and done again when it is read and out of date (workload.cc 284-508), the copy a
   caller gets (libpilot.cc 906-978), and the files of pilot_export (644-808). Of the
   data only a version is kept, of an analysis what it was made from. *)
EXTENDS Integers, Sequences, FiniteSets, FiniteSetsExt, SequencesExt

CONSTANTS
  NumPI,       \* num_of_pi_
  DetectMin,   \* MIN_CHANGEPOINT_DETECTION_SAMPLE_SIZE
  Few,         \* 200: so few readings are searched for changepoints every time
  Part,        \* 100: of more, when a part of 1 / 100 is new
  Rounds,      \* what rounds may bring: <<PIs with a reading, PIs that have unit readings then>>
  Batches,     \* how many rounds may come between two reads
  Coarse,      \* the clock may stand still between two of its readings
  MaxImports, MaxSets, MaxExports  \* bounds

PIs == 1 .. NumPI

ASSUMPTION ResultsAssumption ==
  /\ {NumPI, DetectMin, Few, Part} \subseteq Nat \ {0} /\ Coarse \in BOOLEAN
  /\ Batches \subseteq Nat \ {0} /\ Rounds \subseteq (SUBSET PIs) \X (SUBSET PIs)
  /\ {MaxImports, MaxSets, MaxExports} \subseteq Nat

VARIABLES
  clock,      \* the steady clock
  raw,        \* raw_data_changed_time_
  upd,        \* analytical_result_update_time_, -1 for time_point::min()
  num,        \* how many readings of each PI there are
  units,      \* whether there are unit readings of each PI
  version,    \* of the raw data
  setting,    \* confidence_level_, the limit of autocorrelation, min_sample_size_: how often set
  checked,    \* readings_changepoint_checked_at_
  result,     \* analytical_result_
  hooked,     \* calc_required_unit_readings_func_ is set
  job,        \* what the analysis is read for, "none" if nothing
  at,         \* the PI whose turn it is, 0 before the check, NumPI + 1 for WPS and after
  inHook,     \* the hook of PI at runs
  hookView,   \* what it read of its own PI
  info,       \* the struct of the caller, of which only the WPS fields are not always written
  logs,       \* of each export: its messages from one to another, the last that session_log.txt has,
              \* and how the writing of it ended
  files,      \* what the export in progress has written
  answer,     \* what the export returned
  logged,     \* how many messages were logged
  emptied     \* how many of them are no longer in g_in_mem_log_buffer

vars == <<clock, raw, upd, num, units, version, setting, checked, result, hooked, job, at, inHook, hookView,
          info, logs, files, answer, logged, emptied>>
dataVars == <<raw, num, units, version, setting>>
analysisVars == <<upd, checked, result>>
exportVars == <<logs, files, answer, emptied>>

None == [data |-> 0, setting |-> -1]
Basis == [data |-> version, setting |-> setting]

\* What there is before any analysis (set_num_of_pi of the result).
Unset == [readings |-> None, changepoint |-> 0, units |-> None, required |-> None, fromUser |-> FALSE]

Init ==
  /\ clock = 0 /\ raw = 0 /\ upd = -1
  /\ num = [p \in PIs |-> 0] /\ units = [p \in PIs |-> FALSE] /\ version = 1 /\ setting = 0
  /\ checked = [p \in PIs |-> 0]
  /\ result = [pi |-> [p \in PIs |-> Unset], has |-> FALSE, wps |-> None]
  /\ hooked \in BOOLEAN
  /\ job = "none" /\ at = 0 /\ inHook = FALSE /\ hookView = <<>> /\ info = [has |-> FALSE, wps |-> None]
  /\ logs = <<>> /\ files = <<>> /\ answer = "none" /\ logged = 0 /\ emptied = 0

\* The clock is read.
Ticks == IF Coarse THEN {clock, clock + 1} ELSE {clock + 1}

-----------------------------------------------------------------------------
(* What changes the data and the settings. *)

\* pilot_import_benchmark_results, once or several times in a row: the time is taken first; a round
\* brings a reading or none, and may be the first with unit readings, or replace the last with them.
Import ==
  /\ job = "none" /\ version <= MaxImports
  /\ \E t \in Ticks : clock' = t /\ raw' = t
  /\ version' = version + 1 /\ logged' = logged + 1
  /\ \E r \in Rounds, n \in Batches :
       /\ num' = [p \in PIs |-> num[p] + (IF p \in r[1] THEN n ELSE 0)]
       /\ units' = [p \in PIs |-> p \in r[2]]
  /\ UNCHANGED <<setting, analysisVars, hooked, job, at, inHook, hookView, info, exportVars>>

\* The time of the analysis that the setters leave.
\* Mutant: a setter that leaves it alone.
ResetKept == upd

Reset == -1

\* pilot_set_confidence_level, pilot_set_autocorrelation_coefficient, pilot_set_min_sample_size. The first
\* two set nothing when the value is out of range.
Set ==
  /\ job = "none" /\ setting < MaxSets
  /\ setting' = setting + 1 /\ upd' = Reset
  /\ UNCHANGED <<clock, raw, num, units, version, checked, result, hooked, job, at, inHook, hookView, info,
                 exportVars, logged>>

-----------------------------------------------------------------------------
(* refresh_analytical_result. *)

\* It is read: by pilot_analytical_result, the required numbers of readings or the summary.
Read ==
  /\ job = "none" /\ job' = "read" /\ at' = 0
  /\ UNCHANGED <<clock, dataVars, analysisVars, hooked, inHook, hookView, info, exportVars, logged>>

\* The analysis is not older than the data.
UpToDate == raw <= upd

\* The check; the time is taken before anything is computed.
Check ==
  /\ job /= "none" /\ at = 0
  /\ IF UpToDate
     THEN at' = NumPI + 2 /\ UNCHANGED <<clock, upd, logged>>
     ELSE /\ \E t \in Ticks : clock' = t /\ upd' = t
          /\ at' = 1 /\ logged' = logged + 1
  /\ UNCHANGED <<dataVars, checked, result, hooked, job, inHook, hookView, info, exportVars>>

\* pilot_changepoint_detection_is_due.
\* Mutant: once there are many readings it never is.
DueOnce(n, last) == n <= Few

Due(n, last) == n <= Few \/ n < last \/ n >= last + last \div Part

\* Whether the readings are searched.
Search(p) == num[p] >= 2 /\ Due(num[p], checked[p]) /\ num[p] > DetectMin

\* pilot_find_one_changepoint: none, or one that leaves enough on both sides; -1 for the abort that
\* any other answer leads to.
Changepoints(p) ==
  IF ~Search(p) THEN {result.pi[p].changepoint}
  ELSE IF num[p] < DetectMin THEN {-1}
  ELSE {0} \union (DetectMin .. num[p] - DetectMin)

\* Unit readings and what is required of them.
\* Mutant: the hook runs before the analysis of its PI.
UnitsLate(p) == result.pi[p].units

UnitsOf(p) == IF units[p] THEN Basis ELSE None

\* One PI, up to the call of the hook, which is only made when there are unit readings.
Analyse ==
  /\ at \in PIs /\ ~inHook
  /\ \E cp \in Changepoints(at) :
       result' = [result EXCEPT !.pi[at] =
         [readings |-> IF num[at] >= 2 THEN Basis ELSE None, changepoint |-> cp,
          units |-> UnitsOf(at), required |-> UnitsOf(at), fromUser |-> FALSE]]
  /\ checked' = IF Search(at) THEN [checked EXCEPT ![at] = num[at]] ELSE checked
  /\ IF units[at] /\ hooked
     THEN inHook' = TRUE /\ UNCHANGED at
     ELSE at' = at + 1 /\ UNCHANGED inHook
  /\ UNCHANGED <<clock, dataVars, upd, hooked, job, hookView, info, exportVars, logged>>

\* The hook: it may read the analysis, which is up to date by its time though not done, so that it gets
\* what there is. Its answer replaces the number that was computed.
Hook ==
  /\ inHook
  /\ UpToDate
  /\ hookView' = <<result.pi[at].units, Basis>>
  /\ result' = [result EXCEPT !.pi[at].required = hookView'[1], !.pi[at].fromUser = TRUE]
  /\ inHook' = FALSE /\ at' = at + 1
  /\ UNCHANGED <<clock, dataVars, upd, checked, hooked, job, info, exportVars, logged>>

\* refresh_wps_analysis_results comes last; it may find no model.
Wps ==
  /\ at = NumPI + 1
  /\ \E has \in BOOLEAN : result' = [result EXCEPT !.has = has, !.wps = IF has THEN Basis ELSE None]
  /\ at' = at + 1
  /\ UNCHANGED <<clock, dataVars, upd, checked, hooked, job, inHook, hookView, info, exportVars, logged>>

\* pilot_analytical_result_t::_copyfrom: of the WPS analysis only what has data.
Copied(to) == [has |-> result.has, wps |-> IF result.has THEN result.wps ELSE to.wps]

\* The caller of pilot_analytical_result gets a copy, in a new struct or its old one.
Return ==
  /\ job = "read" /\ at = NumPI + 2
  /\ info' = Copied(info) /\ job' = "none" /\ at' = 0 /\ hookView' = <<>>
  /\ UNCHANGED <<clock, dataVars, analysisVars, hooked, inHook, exportVars, logged>>

-----------------------------------------------------------------------------
(* pilot_export. A directory is its place in logs; one is never exported to again. *)

\* How the log is written: not at all, if mkdir fails; not or in part, if open or << does, which leaves the
\* buffer; not or in part, if close does after the buffer was emptied; or in full.
Endings == {"errno", "unwritten", "unclosed", "written"}
Failed(end) == end /= "written"

\* The messages that are no longer in the buffer then.
\* Mutant: it is emptied first.
EmptiedFirst(end) == logged

Emptied(end) == IF end \in {"unclosed", "written"} THEN logged ELSE emptied

\* Where an export begins with the analysis.
\* Mutant: it takes the last one there is.
ExportsFromLast == NumPI + 2

ExportsFrom == 0

\* mkdir fails, or the directory is there or made, and the log is the first file. A failure ends the export
\* with a message of its own.
StartExport ==
  /\ job = "none" /\ Len(logs) < MaxExports
  /\ \E end \in Endings, kept \in emptied .. logged :
       /\ end = "errno" => kept = emptied
       /\ end = "written" => kept = logged
       /\ emptied' = IF end = "errno" THEN emptied ELSE Emptied(end)
       /\ logs' = Append(logs, [from |-> emptied, to |-> emptied', kept |-> kept, end |-> end])
       /\ answer' = IF end = "errno" THEN end ELSE IF Failed(end) THEN "ERR_IO" ELSE "none"
       /\ logged' = IF Failed(end) THEN logged + 1 ELSE logged
       /\ job' = IF Failed(end) THEN "none" ELSE "export"
  /\ at' = ExportsFrom
  /\ UNCHANGED <<clock, dataVars, analysisVars, hooked, inHook, hookView, info, files>>

\* The files in their order, each with what it is made from.
Contents ==
  LET analysis == [pi |-> result.pi, has |-> result.has, wps |-> IF result.has THEN result.wps ELSE None]
  IN <<[name |-> "wps_analysis", of |-> analysis], [name |-> "rounds", of |-> version],
       [name |-> "readings", of |-> version], [name |-> "unit_readings", of |-> version],
       [name |-> "summary", of |-> version], [name |-> "pi_results", of |-> analysis]>>

\* The next file is written, or an I/O error ends the export.
WriteFile ==
  /\ job = "export" /\ at = NumPI + 2
  /\ IF Len(files) = Len(Contents)
     THEN /\ answer' = "0" /\ job' = "none" /\ at' = 0 /\ files' = <<>>
          /\ UNCHANGED logged
     ELSE \/ /\ files' = Append(files, Contents[Len(files) + 1])
             /\ UNCHANGED <<answer, job, at, logged>>
          \/ /\ answer' = "ERR_IO" /\ job' = "none" /\ at' = 0 /\ logged' = logged + 1 /\ files' = <<>>
  /\ hookView' = <<>>
  /\ UNCHANGED <<clock, dataVars, analysisVars, hooked, inHook, info, logs, emptied>>

Next == Import \/ Set \/ Read \/ Check \/ Analyse \/ Hook \/ Wps \/ Return \/ StartExport \/ WriteFile

Spec == Init /\ [][Next]_vars
-----------------------------------------------------------------------------
\* What a caller of pilot_analytical_result gets (224-232) is made from the data and the settings of
\* now, all PIs and the WPS analysis, whatever was imported and set between two reads, and nothing
\* of an earlier analysis shows where there is no data (347-377, 419-437).
ReadFresh ==
  [][(job = "read" /\ job' = "none") =>
       /\ \A p \in PIs : /\ result.pi[p].readings = IF num[p] >= 2 THEN Basis ELSE None
                         /\ result.pi[p].units = IF units[p] THEN Basis ELSE None
                         /\ result.pi[p].required = result.pi[p].units
                         /\ result.pi[p].fromUser = (hooked /\ units[p])
       /\ info'.has => info'.wps = Basis]_vars

\* A changepoint leaves enough readings on both sides, also when more came since (303-340), the search is
\* never asked for with too few, and of an analysis that is done the search is recent: nothing new
\* since with few readings, less than a part with many (1661-1664).
ChangepointUsable ==
  \A p \in PIs :
    LET cp == result.pi[p].changepoint
    IN /\ cp /= 0 => cp >= DetectMin /\ num[p] - cp >= DetectMin
       /\ (job = "read" /\ at = NumPI + 2 /\ num[p] > DetectMin) =>
            \/ checked[p] = num[p]
            \/ checked[p] > Few - 1 /\ (num[p] - checked[p]) * Part < checked[p] + Part

\* A hook that is called in the middle of an analysis (497-504) may read it: it finds its own PI done with
\* the data of now, and the analysis is not started again under it.
HookSeesOwnPi == hookView /= <<>> => hookView[1] = hookView[2]

\* The files of an export (644-797) are of the same data, also those made from the analysis.
ExportConsistent ==
  LET Data(f) == IF f.name \in {"wps_analysis", "pi_results"}
                 THEN {f.of.wps.data} \union {f.of.pi[p].readings.data : p \in PIs}
                                     \union {f.of.pi[p].units.data : p \in PIs}
                 ELSE {f.of}
  IN Cardinality((UNION {Data(files[i]) : i \in DOMAIN files}) \ {0}) <= 1

\* Of any number of exports, failed or not, each message is in the buffer, or an export took it out (661-670):
\* that one put it into its session_log.txt, or lost it because the close of the file failed, and said so
\* with ERR_IO. No message was taken out twice.
LogKept ==
  LET Took(d, i) == logs[d].from < i /\ i <= logs[d].to
  IN /\ \A i \in 1 .. emptied : \E d \in DOMAIN logs : Took(d, i) /\ (i <= logs[d].kept \/ logs[d].end = "unclosed")
     /\ \A d, e \in DOMAIN logs : d < e => logs[d].to <= logs[e].from
=============================================================================
