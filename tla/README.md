# Verification of Pilot

Pilot (pilot-bench) runs a benchmark in rounds, analyses the readings as they come in, and decides
after each round whether it has enough of them, and if not how much work the next round shall do.
This directory holds TLA+ models of that core, the TLC configurations that check them, and proofs for
TLAPS. Line numbers are those of `src/`; `PROJECT.json` maps each definition to the lines it models.

## The system

| part | source | state | operations | status |
|---|---|---|---|---|
| session loop | `lib/libpilot.cc` 322-545 | `status_`, `wholly_rejected_rounds_`, the clock | `pilot_run_workload`, `pilot_stop_workload` | modelled: `Session` |
| work amount planner | `lib/workload.cc` 164-223, 973-978; `lib/libpilot.cc` 1999-2308 | `adjusted_min_work_amount_`, `wps_slices_`, which plugins are finished | `calc_next_round_work_amount`, five runtime analysis plugins | partly: `WorkAmount` |
| round store | `lib/libpilot.cc` 1703-1749, 1776-1959; `priv_include/workload.hpp` 455-553 | `readings_`, `unit_readings_`, `warm_up_phase_len_`, totals | `pilot_import_benchmark_results`, `set_num_of_pi`, the unit readings iterator | partly: `RoundStore` |
| client program runner | `cli/run_program.cc` 88-358, 741-796 | the child's pid and pipe, buffered output | `read_client_output`, `workload_func`, SIGINT handler, end of `handle_run_program` | partly: `ClientProgram`, `RunProgram` |
| analysis cache | `lib/workload.cc` 284-508; `lib/libpilot.cc` 906-1062, 1661-1664 | `analytical_result_`, its update time, when changepoints were looked for | `refresh_analytical_result`, the setters that reset the time, the copy for a caller | modelled: `Results` |
| export, log | `lib/libpilot.cc` 644-808 | `g_in_mem_log_buffer`, files | `pilot_export` | modelled: `Results` |
| changepoints | `lib/libpilot.cc` 1277-1303, 1555-1773 | places, their links and keys | three functions on one `detect_changepoints` | modelled: `Changepoint` |
| statistics | `libpilotcpp.h` 77-540; `lib/libpilot.cc` 1162-1550; `lib/workload.cc` 235-266, 675-798 | none; the WPS fields of the result | means, variances, sample sizes, tests, regression | partly: `Statistics`, `Samples`, `WpsAnalysis` |
| TUI | `pilot_tui.hpp` 541-803, `pilot_workload_runner.hpp`, `lib/libpilot.cc` 519-540 | lock, PilotTUI, the session's thread | key loop, insertions, start and join | partly: `Tui` |
| command line | `cli/run_program.cc` 360-796, `cli/pilot.cc`, `cli/pilot-cli.h`, `cli/analyze.cc`, `cli/detect_changepoint_edm.cc` | options, exit code, lines read | dispatch, option checks, readers | partly: `Commands`, `Inputs` |
| baselines | `lib/workload.cc` 842-954 | `baseline_of_readings_`, `baseline_of_unit_readings_` | `set_baseline`, `load_baseline_file` | modelled: `Inputs` |
| other | allocation of result records, simple runners, Python binding, helpers | | | not modelled |

How they interact. `pilot_run_workload` asks the planner for the next amount, runs the workload
function, hands its data to the round store, and looks at its clock. The planner reads the store and
the cached analysis. `pilot_stop_workload` writes `status_` from a signal handler or another thread, and
is the only thing that reaches into a running session; with the TUI the whole session runs in a thread
of its own. The workload function of the CLI starts a client program and reads its output.

What is hard: the races on `status_`; sessions that follow each other on one workload, and what one
leaves to the next; rounds that are replaced after they were imported; rounds with a warm-up phase,
without data, or for some performance indices (PIs) only; amounts computed from averages over rounds
of very different length; questions that change what is asked about; an analysis that is cached by time while data
and settings change; places and keys that go stale while changepoints are taken out; a terminal that is waited for in one
thread and drawn to in another; files and lines that come from users. `PROJECT.json` lists the hazards
line by line, with the properties that cover them, or why none does.

## Modules

### Session, SoloSession, SessionContract

`Session` is the loop with any set of `Callers`. `status_` is a `volatile std::atomic`
(`workload.hpp` 148-149), so a caller's steps are cut at its accesses to it: the check on entry (`Call`,
line 328), the store of `WL_RUNNING` (`Claim`, 334), the poll before a round (`Poll`, 366) and the store
of the scope guard on every way out (`Leave`, 332-333). The other actions are the stations of the loop in
the order of the code: `Plan`, `Admit` (the limit on rejected rounds), `PreHook`, `StartRound`,
`FinishRound` (the workload function and what is made of its result), `Import`, `PostHook`,
`CheckClock`. `Stop` is `pilot_stop_workload`, at any moment. `abort()` in `Call` ends the process, so
all callers are then `"aborted"`. What the hooks, the plugins and the workload function answer is a choice.
`asked` and `late` are history variables.

`SoloSession` is the case of one caller, as in every program of the repository. It implements
`SessionContract`, which knows only whether a session runs, whether it was asked to stop, how many rounds
started since, and its result. The refinement mapping hides the result until the loop is left.

### RoundStore

One action, `ImportRound`, is the whole of `pilot_import_benchmark_results`: it appends a round or
replaces the data of an old one. Of a unit reading only the place is kept; `Outcomes` says what the
warm-up removal may leave of n readings for each method: everything, a fixed percentage, the dominant
segment of the changepoint detection (`Dominant`: any one longer than half, as the search at 1703-1749
returns), or nothing. `Column` is one PI's way through lines 1868-1919. The iterator is the operators
`IterNew`, `IterNext`, `IterValid`, and `Walk` is its way from the first reading to the one that is not valid any more. `wild` records an access beyond a vector: the code has no bounds check,
so what follows one is not modelled. Constants say what callers do: `Replacing`, `NullColumns`,
`ReadingsGiven`, `LateSetup`.

### WorkAmount

`Answers` is `calc_next_round_work_amount` with its five plugins in their order of loading, each an
operator named for the function; it yields the amount, whether there is a next round, and what the
plugins leave behind (they write `mutable` fields of a const workload). `Decide` is the session loop's
call, `Query` is `pilot_next_round_work_amount` between rounds. What the statistics would say of a round is
chosen when it ends (`demand`, `short`), because it does not change until the next round. Amounts are
computed as in the code, but in unbounded integers. `MCWorkAmount` holds the ranges.

### ClientProgram, RunProgram

`ClientProgram` is `workload_func` and `read_client_output` of the command line tool with the children they
start. `at` is the place in the code: `"try"` the head of the retry loop (line 179), `"scan"` the loop over
the buffer (183), `"reap"` after the stream was closed (206), `"parse"` the rest of `workload_func`; an
exception, and any other error return, ends in `"failed"`. `pid`, `stream` and `buffer` are `g_client_pid`,
`g_client_out_fs` and `g_prog_stdout`, which outlive a round: a child that prints many lines serves many
rounds. Children do what they like at any time: `Write` a chunk as `fgets` would return it (a piece of a
line, the rest of one with its newline, a newline alone), `Close` their output, `Exit`. Texts are left out:
a chunk is its child, its place in the output and its kind, which is all `NothingLost` and `WholeLines` need. `Dealt` is the output of
a child that has left the pipe: that of its lines, one after the other, and then that of the buffer. `NothingLost` says three things of it:
nothing in it was not written (`NoneInvented`), nothing that was written before is missing (`NoneMissing`), and it is in order (`InOrder`).

`RunProgram` composes it with `Session`, instantiated as `Loop` with one caller and `workload_func` as the
workload function: `StartWork` is the call, `Work` its steps, `FinishWork` what the loop makes of its result.
No hooks are set, and a round always brings readings, so `Advance` leaves those choices of `Session` out. `Sigint`
may come from the moment its handler is set to the end of the program; `Export` and `Kill` are the end of
`handle_run_program`. `Terminate` is an exception of `create_directories` (289), which is outside the `try` block and leaves the `noexcept`
session loop.

### Changepoint

The search for changepoints with the readings left out: a segment may be split at any place that leaves both
sides long enough (`Splits`), and a test may say anything (`Verdicts`: p and |t| by rank, and "no evidence" for segments of
a single reading). What remains is the algorithm: the stack of parts (`Propose`), the links between neighbours and the
ordered set of keys (`TestAll`), the removal of the worst place with new tests for its neighbours (`Dispose`), and the three
callers' answers (`Reply`, `Dominant`). A place stands for its own index; `seen` is history: the segments of its last test.
`Dominant` goes over the segments with the best one so far in hand, as the code does: `Visits` is that way, a function of the number visited.

### Statistics, Samples, WpsAnalysis

`Statistics` holds the formulas in exact fractions: subsessions, variance and autocorrelation, the number of
readings required, the comparison of two means, the split of least squares, the rank-sum test with ties and Fisher's
test. The harmonic mean of ratios is that of their reciprocals (`libpilotcpp.h` 118-125), which a caller passes. Its interval is from
1 / (ybar + d) to 1 / (ybar - d), or infinite (`HarmonicWidthSquared`, 283-289), and its size is for the d that gives the required width
(`HarmonicSize`, 343-353). Where the code takes a root the model keeps squares, and where it adds one (350) it takes the least
number whose square is enough (`NotBelow`); quantiles of the t distribution are constants. `Samples` feeds it readings
one by one and holds the reference definitions: all ways of dealing the ranks, all samples of a size, all splits. A difference
that the baseline's own error reaches never counts as significant, whatever is added (`ComparisonDecides`).
`WpsAnalysis` is `refresh_wps_analysis_results` with its loop of regressions, each over the rounds longer than the
threshold (`Filtered`), which the one before may have raised.

### Results

The analysis of a workload as what it was made from: `Basis` is the version of the data and of the settings. `Check` takes the
time before it computes anything, `Analyse` does one PI, `Hook` is the caller's function for required unit
readings, which runs in the middle and may read the analysis; `Wps` is last. `Return` copies it into a struct the caller may
have used before. `StartExport` and `WriteFile` are `pilot_export`, which refreshes the analysis on its way and can fail at each
file. `Endings` are those of the first one, `session_log.txt`: a failure may leave any part of it, and comes before the buffer is emptied
(669) or after, at the close (670); `logs` and `emptied` account for each message. One call at a time: nothing in the repository reads an analysis from two threads.

### Tui, Commands, Inputs

`Tui` is `pilot_run_workload_tui`: the main thread constructs the PilotTUI, starts the runner's thread, waits for keys and joins;
the thread inserts text under the lock, each insertion by itself. The session inside is what `SessionContract`
leaves of it: some rounds and a result. `Commands` extends it to `handle_run_program`: the options in the order in which they
are checked, one action each, then the session with or without `Tui`, then the export and the exit code. `Inputs` are the readers of
text: `Loop` is that of `split_csv_line` on sequences of four kinds of characters, one `Pass` after another (which takes
a character into the field, skips blanks, or ends a field at a comma or at blanks), and `Fields` what it leaves; the loops over the lines of a file; and a baseline file, whose rows are read before any is applied. A number is as many
digits as it is great, and one more, so that a value that was mangled shows.

## Runs

Passing:

- `SoloSessions`: one caller, without a duration limit to help. `StopHonoured`: at most one round starts
  after a stop request. `NeverAborts`: every way out of a session leaves the status such that the next call
  gets in, stop requests between the sessions included. `RejectedBudget`: the rejected rounds of all sessions
  stay within the limit plus one. `KeepsContract`: refinement of `SessionContract`, with its promise that a stop
  request ends the session.
- `PairStops`: two callers, overlapping sessions, with a duration limit. `FreshStop`: no session reports a
  stop it was not asked for. `LimitEndsSession`: the limit ends each of them, even if the plugins never
  have enough data.
- `StoreAppend`, `StoreReplace`: `IteratorExact` (the iterator meets every stable reading once), `RejectedExact`; and
  `WarmWithinRound`, `TotalsExact`, `ReadingsAligned`, `NoWildAccess`, each for the callers for which it holds: rounds appended
  for two PIs, and rounds replaced by a caller that always brings readings.
- `Amounts`: `WithinRange`, and `TrapOnlyAtFirst` for 5, 9 or 30 slices asked for by the first round, over narrow ranges and all
  that the analyses may ask for: the division by a slice of no units (`libpilot.cc` 2253), which 30 slices reach here, never comes
  from the doubling or from a range that is too small;
  `SoftLimitKeepsMinimum` and `ShortRoundGrows` over twelve rounds of a wide one, and `QueryPredicts`: with WPS analysis off,
  asking for the next amount foretells it and changes nothing.
- `RunClient`: the whole command. `StreamOpen`: a child is read only through its own open stream, also after
  a bad exit code, which leaves a stale pid beside a NULL stream. `NothingLost`, `WholeLines`: each round gets one line, in
  order, never a mixture of two children. `LastClientOnly`: at the end of the program no client runs
  but the last, which was sent SIGTERM if the end of the command was reached. It is not when the export failed or a result
  directory could not be made: these ways out leave it running. `RoundEnds`: a round ends
  when its client does.
- `Statistics`: three subjects side by side. Detection: `ProposalsSound` (segments long enough, none forgotten),
  `TestsCurrent` (no stale key, link or test while places go), `AnswerRight`, `DetectionEnds`. Samples: `ChangesFound` (the p-values are
  those of counting all samples, the split is that of least squares), `EnoughAsked` (the number of readings asked for is
  reached exactly when the interval is narrow enough or the difference significant). Rounds: `ModelTrue` (a model that is
  reported is of the rounds of now, exact if they lie on a line, its error comparable with the naive one), `RegressionsEnd`.
- `Results`: `ReadFresh` (what a caller reads is of the data and settings of now, all of it), `ChangepointUsable`,
  `HookSeesOwnPi`, `ExportConsistent` (the files of an export are of the same data), `LogKept` (each message is in the
  buffer or in the log of the one export that took it out, unless the close of that log failed).
- `CommandLine`: two subjects side by side. The program: `JoinedFirst` (the PilotTUI outlives the thread that writes to it),
  `NobodyWaitsForKeys` (waiting for a key holds up nothing, and after the user quits the program ends with the session),
  `WorthRunning` (no combination of options starts a session that has nothing to satisfy). The readers: `LinesRead`, `FilesRead`.

Violated, each a finding in `PROJECT.json`:

- `PairOverlap`: two callers pass the check of the status before either sets it, and run at once.
- `BaselineFile`: a malformed baseline file ends the program, where the header promises `ERR_IO`.
- `TuiExitCode`: with `--tui` a session ended by its limit exits with 0, where the documentation says 13.

Bounds. `MaxRejected` 2 and `SessionLimit` 2 with rounds of length 1 or 2 let each limit be reached, passed
exactly and passed by more. `elapsed` stops counting just past the limit: nothing looks further. `late`
stops at 2, which is already wrong. Two callers are the fewest that can race, and the loop never counts
its callers. The store needs two rounds before the one replaced or skipped and one PI that differs from
another: three or four imports, two PIs where rounds are only appended, rounds of up to two or three
readings with detection from two on, so that rounds may be empty, all warm-up, partly warm-up and cut at
the end. The ranges of work amounts are: none, one amount, no lower end, too narrow for the slices, and
wide. Five rounds pass the `round > 3` of the WPS plugin; twelve let the average fall behind the
doubling. Two rounds and three chunks of output in all let a child serve both rounds, leave part of a line, an
empty line or nothing at its end, and be followed by up to three others per round.

Nine readings hold four places at a shortest segment of two, so that a removed place has neighbours on both sides which have
neighbours too; p-values by three ranks and |t| by two are what the order of the keys can tell apart. Samples of up to six readings hold
the cases of the tests: all different, pairs, groups on one or both sides, and classes of any size (`TieFactor` is
lowered from 0.99, which no tie of a small sample passes). Up to six rounds of durations 1 to 3, amounts that vary and
amounts that repeat (which groups them), let the threshold grow and the regression fail after a success. In `Results` the
thresholds are 3 readings for a search, 4 for "few" and a third for "a part", which one batch of six passes and one round may not; two
imports and one change of settings between any two reads, and a second export after at most one import (`MCNext`). Rates are readings
of 1 to 4, whose interval is infinite in a few samples and within the width in most. All lines of up to four characters reach every
branch of the splitting; files have up to three lines, of which up to two are ignored.

The bounds (`MaxImports`, `MaxRounds`, `MaxKeys`, `MaxLines`...) are guards; behaviour stops there, at a decided end or at the end of the
program, which is why only the session runs and `Results` check for deadlock.

Fairness. `Session` assumes weak fairness of each caller's `Step` and nothing else: a caller inside
`pilot_run_workload` is a running thread, waits for nobody, and the user's hooks and workload function return.
No one has to call, stop or set anything. The loop itself is not assumed to end. `RunProgram` assumes weak
fairness of the tool's own steps, of which one is possible at a time, and that children exit some time: `fgets` and
`waitpid` block, so without that a client that hangs keeps the tool waiting, whatever limit or signal comes.
Children need not write anything or close their output before. `Commands` assumes it of the main thread and of the session's
thread, which both run whenever they do not wait; keys and signals need not come. `MaxRounds` makes its sessions finite, which a
session is only if its plugins or its limit end it: that is `LimitEndsSession`. `Changepoint` assumes that the detection, a single
thread, goes on; nobody has to call it or take its answer.

## Proofs

`tlapm` proves, for every value of the constants allowed by their assumptions:

- `SessionProofs`: `Typing`, and `Fresh` (`FreshStop`) for any set of callers. `FreshStop` is not inductive: a
  caller's poll sees the status, not its own `asked`. `RequestIsSeen` supplies the link: if the status is
  `STOP_REQUESTED`, every caller in its session was asked, because the request told all of them and
  a session that starts overwrites the status.
  For one caller (`Solo`): `Honoured`, `NoAbort`, `Budget`, and `Implements`, that every step of the one
  caller maps to a step or a stutter of `SessionContract`. `SoloInv` says which status goes with which
  place in the loop (`STOP_REQUESTED` exactly if asked, while in the session), where `late` may already be 1, and
  that `rejected` may exceed its limit only between an import and the next `Admit`.
- `RoundStoreProofs`, for `Regular` callers (number of PIs set first, no NULL columns): `StoreTyping`,
  `EntriesAligned`, `WarmUpWithin`, `TotalsRight`. With `AlwaysReadings` also `StaysInside` and `ReadingsInPlace`, and if
  they always bring readings or never replace a round, `RejectedRight`: no round that was empty is imported again (`Tally`). The
  invariant is `Shape` (lengths and warm-ups) with `Counted` (the totals). The step for the totals exchanges the
  cells of one round: the kept readings are those of the other rounds, disjoint from those of this one, so
  the cardinality changes by what the code adds and subtracts.
  `IteratorRight` needs no further invariant, but the recursion along the walk: the rank of a place is the number of readings before
  it that count, each step of the iterator goes to the place of the next rank, and so the walk meets the ranks from 0 to the total
  in order and stops there. That `Walk` is a function at all is part of the lemma.
- `WorkAmountProofs`, with `Ordered` (no initial amount above its limit) for `LimitHolds`, `RangeHolds`, `MinimumKept`
  and `ShortRoundsGrow`. The arithmetic core is two lemmas on the sum: while short rounds grow, five times
  their average stays above the last (`AverageGrows`), and five times the average of all rounds stays above the lower bound ever
  after (`AverageKeeps`). `DoublingIsSafe` (`TrapOnlyAtFirst`) is for any
  durations: `SlicesKept` says that there are no more slices than units between the lower bound and the limit, or as many as a
  round's duration asked for at first, and they are doubled only while each has two units (`HalfSlices`).
  `PredictionsHold` (`QueryPredicts`), with WPS analysis off: a question changes nothing in what the next call says
  (`WorkStands`), so that what was promised stands until the round is decided (`Promised`).
- `RunProofs`: for `ClientProgram`, `ClientTyping`, `NoZombies`, `NoNullStream`, `LinesWhole` and `OutputDealtOut` (`NothingLost`:
  a step of a child leaves the chunks before as they were, the reaped are done with, and the buffer starts at the first chunk
  that no line has, `BufferStartsLine`); for the command, `UsedWell` (every behaviour of `RunProgram` is one of
  `ClientProgram`, so the former hold in it) and `OthersWaitedFor` (`LastClientOnly`), for every way out of the program. `ClientInv` says when pid and stream agree (`PidSound`), that the reaped have ended, and that
  the buffer is a run of consecutive chunks of that pid of which only the last can have a newline
  (`BufferSound`): `fgets` stops at a newline and is not called while there is one. So the whole buffer
  is taken as the line (`LineTaken`). `UsedWell` needs `FailedEnds`: a failed round has the session on its way out.
- `StatisticsProofs`, for the three subjects of `MCStatistics`. Detection, for any number of readings, any splits and any verdicts:
  `ProposalsAreSound`, from `SplitInv` (the stack
  holds each segment that can still be split exactly once, `PartsOf`, so an empty stack means that none is left);
  `TestsAreCurrent` and `AnswersAreRight`, from `LinkInv`: the places left are linked with their neighbours and each has one key.
  Two lemmas carry the removal of a place: `Unlink` (linking the two neighbours restores all links) and `KeysReplaced` (the
  keys erased and inserted are exactly those that changed). That the dominant segment is the longest is an invariant of the visits (`VisitedTo`).
  Rounds, from `RoundsAssumption`: `AnalysisEnds` (`RegressionsEnd`), since each regression but the last leaves out
  a round more (`LongerFewer`, `Ending`); and `ModelsAreTrue` (`ModelTrue`), from `Reporting`: a model is there while nothing
  is analysed only if it is the regression of the rounds longer than the last threshold. Fractions are
  kept in lowest terms; the proofs say of one that it `Is` n/d for some integers and compare those by cross
  multiplication, and two that stand for the same number are the same pair (`SameNumber`). So the sums of a regression are sums
  of integers (`SumTo`) and its slope is the quotient of two of them (`Spread`); rounds on a line stay on it when grouped
  (`FitOnLine`), so that the regression finds it (`LineFound`); and the line leaves the least squares, hence no more than the
  naive speed (`LeastSquares`, `ErrorsInOrder`). Samples, from `SamplesAssumption`: `EnoughIsAsked`. The number of readings asked for is the least for which the interval is narrow
  enough (`NarrowOf`, `NarrowProportion`), or the difference from the baseline significant (`SignificantIs`, `NewSizeIs`).
  For a harmonic mean width and size are different functions of the deviation. Both come down to one condition on integers, `WithinWidth`:
  for the width after cross multiplication (`HarmonicWidthOf`), for the size by completing the square (`WidthByRoot`); and it stays true as
  subsessions are added (`WidthKept`).
- `ChangeProofs`, from `SamplesAssumption`: `ChangesAreFound` (`ChangesFound`), for any two samples of any readings, ties and sizes. What
  it says of the code's arithmetic is proved in four parts:
  - `LowerTailIs`, `RankSumPIs`: the numbers of ways that k of m + k ranks have a given sum obey the recursion by which the last
    rank is chosen or not (`Count`, `UCount`), and so does what is left of the product of fractions after i of its factors
    (`Tells`), which therefore has these numbers over the number of all choices as its coefficients. That a sum and the one opposite to it
    have as many choices makes the tail of one side enough for both.
  - `RankSumTail`: a dealing gives each value as many ranks of its group as the sample has of it (`Dealt`). Its sum is least if
    they are the lowest of each group and greatest if they are the highest, and the p-value falls as the sum gets further from
    the middle: so one of the two ends is the least favourable, unless the middle lies between them.
  - `FisherIs`: a choice of ranks is a pair of choices, below and above the end of the class, so the tables of `fisher_exact_test` count
    the choices as uneven as the sample's (`FarSplits`).
  - `BestSplitIs`: what a split takes from the squares and what it leaves have a constant sum (`TakenAndLeft`, at the end of
    `StatisticsProofs` with the other facts about fractions), so the first greatest of one is the first least of the other.

  Neither the readings nor the order of the two samples matter beyond the sizes of the groups of values (`ValuesOf`), which is
  what lets the swap of samples in the code go unnoticed.
- `ResultsProofs`, when no two things happen in one tick of the clock (`~Coarse`): `ReadsAreFresh`, `HooksSeeTheirPi`,
  `ExportsConsistent`, and `ChangepointsUsable` with `Few <= 2 * Part` (200 and 100 in the code). `CacheInv` says what the update time
  tells (`Times`), and that during an analysis all PIs before the present one are of the data of now (`Progress`): the time is
  taken first, so an analysis cut short by a failure must not look newer than it is. `MessagesKept` needs no assumption on the
  clock: the exports took the messages out in order, each from where the last one stopped (`LogInv`).
- `CommandProofs`: `ThreadJoined`, from `Joinable` (as long as the thread is not joined the PilotTUI lives, and a thread that ended
  left its result), and `OptionsSuffice`, from `Checked`, which says at each of the option checks what the earlier ones established.
  For the readers, from `InputsAssumption`: `OutputAsPromised` (`LinesRead`) and `FilesAsGiven` (`FilesRead`). Both rest on `FieldsRight`: for every
  line, the loop of `split_csv_line` leaves the fields that the reference finds. Its invariant is `Reached` (the fields so far are
  those of the characters gone over), and each pass goes over one character at least. The readers of files are in `Reading`:
  a row that was read is in its place, and what is left of the file will give the rest (`ReadingsAfter`, `Skipped`, `BaselinesAfter`).

Only model-checked: the liveness properties and `Answers` of the contract (fairness and ENABLED are beyond
the prover). Every invariant of a passing run is a theorem, some under a constant named above that the property needs.

## Known deviations

What the models exclude by a constant or a bound because the property does not hold there; none is reached by the programs of the
repository unless said so:

- A PI without unit readings (a NULL column) in a short round gets a warm-up longer than its empty round (`libpilot.cc` 1921), on which the
  iterator aborts: `NullColumns = TRUE` violates `WarmWithinRound`.
- After a round without readings `readings_[piid]` is no longer indexed by round (1943), as `workload.hpp` 193 says:
  `ReadingsGiven = {TRUE, FALSE}` with `Replacing` violates `ReadingsAligned`.
- The number of PIs set after a round (`LateSetup = TRUE`) violates `NoWildAccess`; a caller that imports empty rounds again counts them
  twice in `RejectedExact`.
- With WPS analysis on, asking for the next amount doubles `wps_slices_` (2246) and so changes the answer. An `init_work_amount_` above the limit is taken by the first round as it is.
- An import within the same tick of the clock as an analysis compares as not newer (`Coarse = TRUE` violates `ReadFresh`). `pilot_set_required_confidence_interval`,
  `pilot_set_pi_info`, `set_wps_analysis`, the hooks and the baselines do not reset the analysis. A changepoint is not looked for again when
  more than 200 readings were replaced by as many others.
- A second export to the same directory writes `session_log.txt` anew, and the messages of the first are gone from it.
- `analyze -i N` on a file of fewer lines goes on with no data (exit code 5, not 3); `detect_changepoint_edm` is ended by the exception of a
  malformed line; setting the number of PIs after baselines were loaded aborts; `--ci 0` passes the check that some width is required, as does
  `--ci-perc 0`, though no number of readings reaches it. These are as modelled, and reached by the programs.
- The log sink keeps its pointer to the PilotTUI after this is gone (`pilot_tui.hpp` 603-631), and the command logs once more when it ends the client
  (`run_program.cc` 789): undefined behaviour, reached by every `--tui` run, outside the models. Lines of two threads that log at once may mix.

What the models show to happen, and the properties therefore say so:

- A first round with slow units makes more slices than there are units of work (2200), hence a slice of size 0 (2205), by which is then
  divided (2253). `run_program --wps` reaches it: a limit of 100, a minimum of 16 and 2 s per unit give 168 slices for 84 units.
- `run_program` leaves its client running when the export fails (`run_program.cc` 788 returns before 791), and ends without
  unwinding when a result directory cannot be made (289).
- When the close of `session_log.txt` fails (670) the messages of that log are lost: the buffer was emptied at 669.

## Not modelled

The width of `size_t`: sums of amounts near 2^62 would wrap, and no caller sets such limits. Rounding of
floating point, the normal approximation for large samples, and the p-value of a comparison.
`next_round_work_amount_hook_`, which replaces the planner. Of the command: what is put into the result directories, the Lua prompt, what
`analyze` and the summary print, and the signal to a pid that was already reaped. Of the TUI: windows and colours. The simple
runners are one call of the session loop; the Python binding wraps the statistics. Memory management, formatting, logging, tests and examples.

## Plan

Done: all modules above. Left, in this order:

- two exports in any order with imports and settings in one run of `Results`, which takes several minutes more;
- the p-value and interval of the comparison with a baseline (`libpilot.cc` 1115-1161), given a table of the t distribution;
- the result directories of the command and the Lua prompt, and `next_round_work_amount_hook_` in place of the planner;
- `size_t` amounts with their width, to say for which limits no product of `calc_next_round_work_amount` wraps.
