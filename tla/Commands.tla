-------------------------------- MODULE Commands -------------------------------
(* The command line of bench, and run_program from its options to its exit code,
   with or without the text user interface. Each check of an option is an action,
   in the order of the code; it chooses what the user gave, and goes on with what it
   sets, or ends the program. The other commands are in Inputs, the client program
   and the steps of the session in RunProgram. *)
EXTENDS Tui, Integers

CONSTANTS
  Ranges,     \* what --work-amount may be, [min, max] as <<min, max>>
  Widths      \* what --ci and --ci-perc may be, -1 for disabled

ASSUME CommandsAssumption == Ranges \subseteq Nat \X Nat /\ Widths \subseteq Int

VARIABLES
  stage,     \* where handle_run_program is
  code,      \* the exit code
  useTui,    \* --tui
  durations, \* --duration-col is given
  amounts,   \* the range of --work-amount, as a set of none or one
  pis,       \* the PIs: "none", or at least one, which "must" be satisfied
  wps,       \* the WPS analysis: "off", "on", or it "must" be satisfied
  widths,    \* the required widths of confidence intervals, absolute and relative
  exported   \* whether pilot_export succeeded

options == <<useTui, durations, amounts, pis, wps, widths>>
vars == <<tui, stage, code, options, exported>>

Init ==
  /\ TuiInit
  /\ stage = "dispatch" /\ code = -1 /\ exported = FALSE
  /\ useTui = FALSE /\ durations = FALSE /\ amounts = {} /\ pis = "none" /\ wps = "off" /\ widths = <<-1, -1>>

Exit(c) == stage' = "over" /\ code' = c
Go(to) == stage' = to /\ UNCHANGED code

\* main: help, an unknown command and none at all end it.
Dispatch ==
  /\ stage = "dispatch" /\ (Go("parse") \/ Exit(2))
  /\ UNCHANGED <<tui, options, exported>>

\* What boost::program_options makes of the arguments, --help, and both --quiet and --verbose.
Parse ==
  /\ stage = "parse"
  /\ \/ Go("program") /\ useTui' \in BOOLEAN
     \/ (Exit(1) \/ Exit(2)) /\ UNCHANGED useTui
  /\ UNCHANGED <<tui, durations, amounts, pis, wps, widths, exported>>

\* The directories are there when the program turns out to be missing.
Program ==
  /\ stage = "program" /\ (Go("workload") \/ Exit(2))
  /\ UNCHANGED <<tui, options, exported>>

\* pilot_new_workload and signal().
NewWorkload ==
  /\ stage = "workload" /\ (Go("duration") \/ Exit(1) \/ Exit(3))
  /\ UNCHANGED <<tui, options, exported>>

DurationCol ==
  /\ stage = "duration"
  /\ \/ Go("amount") /\ durations' \in BOOLEAN
     \/ Exit(2) /\ UNCHANGED durations
  /\ UNCHANGED <<tui, useTui, amounts, pis, wps, widths, exported>>

WorkAmountRange ==
  /\ stage = "amount"
  /\ \/ Go("limit") /\ amounts' = {}
     \/ \E r \in Ranges : IF r[1] > r[2] THEN Exit(2) /\ UNCHANGED amounts
                                         ELSE Go("limit") /\ amounts' = {r}
     \/ Exit(2) /\ UNCHANGED amounts
  /\ UNCHANGED <<tui, useTui, durations, pis, wps, widths, exported>>

SessionLimitOption ==
  /\ stage = "limit"
  /\ \/ Go("pis") /\ limited' \in BOOLEAN
     \/ Exit(2) /\ UNCHANGED limited
  /\ UNCHANGED <<main, thread, inserts, lock, alive, key, keys, rounds, stop, result, returned, options, exported>>

\* Mutant: it is enough that there are PIs.
PiOptionAny ==
  /\ stage = "pis"
  /\ \/ Go("wps") /\ pis' \in {"must", "recorded"}
     \/ Exit(2) /\ UNCHANGED pis
     \/ (IF durations THEN Go("wps") ELSE Exit(2)) /\ pis' = "none"
  /\ UNCHANGED <<tui, useTui, durations, amounts, wps, widths, exported>>

\* PIs of which one must be satisfied; or PIs that are malformed, or only recorded; or none.
PiOption ==
  /\ stage = "pis"
  /\ \/ Go("wps") /\ pis' = "must"
     \/ Exit(2) /\ UNCHANGED pis
     \/ (IF durations THEN Go("wps") ELSE Exit(2)) /\ pis' = "none"
  /\ UNCHANGED <<tui, useTui, durations, amounts, wps, widths, exported>>

\* pilot_set_wps_analysis accepts to enable the analysis.
WpsPossible == \E r \in amounts : r[2] > r[1]

\* --wps, or no PIs, asks for the analysis; without it is done if it can be.
WpsOption ==
  /\ stage = "wps"
  /\ \/ /\ IF durations /\ WpsPossible THEN Go("environment") /\ wps' = "must"
                                       ELSE Exit(2) /\ UNCHANGED wps
     \/ /\ pis # "none" /\ Go("environment")
        /\ wps' = IF durations /\ WpsPossible THEN "on" ELSE "off"
  /\ UNCHANGED <<tui, useTui, durations, amounts, pis, widths, exported>>

Environment ==
  /\ stage = "environment" /\ (Go("precision") \/ Exit(2))
  /\ UNCHANGED <<tui, options, exported>>

\* The preset gives a relative width; an unknown preset, autocorrelation limit or level ends it.
Precision ==
  /\ stage = "precision"
  /\ \/ \E ci \in Widths \cup {-1}, perc \in Widths \cup {1} :
          IF ci < 0 /\ perc < 0 THEN Exit(2) /\ UNCHANGED widths
                                ELSE Go("session") /\ widths' = <<ci, perc>>
     \/ Exit(2) /\ UNCHANGED widths
  /\ UNCHANGED <<tui, useTui, durations, amounts, pis, wps, exported>>

\* pilot_run_workload, or pilot_run_workload_tui.
EnterSession ==
  /\ stage = "session" /\ main = "away"
  /\ main' = IF useTui THEN "begin" ELSE "plain"
  /\ UNCHANGED <<thread, inserts, lock, alive, key, keys, rounds, stop, limited, result, returned,
                 stage, code, options, exported>>

Wait == stage = "session" /\ MainSteps /\ UNCHANGED <<stage, code, options, exported>>

\* getch() or select() fails, which ends the program with the thread still running.
KeysFail ==
  /\ stage = "session" /\ main = "select" /\ Exit(1)
  /\ UNCHANGED <<tui, options, exported>>

ErrorCode == [OK |-> 0, ERR_IO |-> 5, ERR_WL_FAIL |-> 12,
              ERR_STOPPED_BY_DURATION_LIMIT |-> 13, ERR_STOPPED_BY_REQUEST |-> 15]

\* The export, and the end of the client program. What the session returned in the interface is
\* not the exit code, as wl_res keeps its 0.
Export ==
  /\ stage = "session" /\ main = "back"
  /\ \/ exported' = TRUE /\ Exit(IF useTui THEN 0 ELSE ErrorCode[returned])
     \/ Exit(ErrorCode["ERR_IO"]) /\ UNCHANGED exported
  /\ UNCHANGED <<tui, options>>

Tool ==
  \/ Dispatch \/ Parse \/ Program \/ NewWorkload \/ DurationCol \/ WorkAmountRange
  \/ SessionLimitOption \/ PiOption \/ WpsOption \/ Environment \/ Precision
  \/ EnterSession \/ Wait \/ Export

InProcess(step) == stage # "over" /\ step /\ UNCHANGED <<stage, code, options, exported>>

Runner == InProcess(Thread)

Sigint ==
  /\ stage = "session" /\ ~stop /\ stop' = TRUE
  /\ UNCHANGED <<main, thread, inserts, lock, alive, key, keys, rounds, limited, result, returned,
                 stage, code, options, exported>>

Next == Tool \/ KeysFail \/ Runner \/ InProcess(Press) \/ Sigint

\* The threads run; nobody has to press a key or send a signal.
Spec == Init /\ [][Next]_vars /\ WF_vars(Tool) /\ WF_vars(Runner)
-----------------------------------------------------------------------------
(* A session that run_program starts has something to satisfy: it does not end after
   a round without a result, nor abort in get_required_ci for want of a width. *)
WorthRunning ==
  stage = "session" =>
    /\ pis = "must" \/ (wps = "must" /\ durations /\ WpsPossible)
    /\ widths[1] >= 0 \/ widths[2] >= 0

(* Waiting for a key never keeps the session from going on, and once the user has
   quit the program ends when the session does. *)
NobodyWaitsForKeys ==
  /\ (stage = "session" /\ thread = "session") ~> (thread = "gone" \/ stage = "over")
  /\ (stage = "session" /\ main = "join") ~> stage = "over"

(* --session-limit makes the program "stop with exit code 13 if the session exceeds
   this duration" (reference.rst). *)
LimitTold ==
  exported /\ result = "ERR_STOPPED_BY_DURATION_LIMIT" => code = ErrorCode[result]
=============================================================================
