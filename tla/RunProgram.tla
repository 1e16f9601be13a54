----------------------------- MODULE RunProgram -----------------------------
(***************************************************************************)
(* The run_program command without its TUI: the session loop and the       *)
(* client runner it calls in every round, SIGINT at any time once its      *)
(* handler is set, and what is done after the session.                     *)
(*                                                                         *)
(* Session runs its one session here, with workload_func of ClientProgram  *)
(* as the workload function; no hooks are set.                             *)
(***************************************************************************)
EXTENDS ClientProgram

CONSTANTS MaxRejected, SessionLimit, MaxRoundTime

VARIABLES
  status, func, rejected, pc, result, elapsed, asked, late,  \* of Session
  stage,    \* where handle_run_program is
  signalled \* the child that was sent SIGTERM at the end, or 0

main == "main"

Loop == INSTANCE Session WITH Callers <- {main}

loopVars == <<status, func, rejected, pc, result, elapsed, asked, late>>
runVars == <<vars, loopVars, stage, signalled>>

RunInit == Init /\ Loop!Init /\ stage = "options" /\ signalled = 0

\* The ways out of the program.
Ended == {"over", "export failed", "terminated"}

Sigint ==
  /\ stage \notin Ended
  /\ Loop!Stop
  /\ UNCHANGED <<vars, stage, signalled>>

\* The options are accepted, the workload function is set.
Setup ==
  /\ stage = "options" /\ stage' = "session"
  /\ Loop!SetFunc
  /\ UNCHANGED <<vars, signalled>>

Enter ==
  /\ stage = "session" /\ result[main] = "none"
  /\ Loop!Call(main)
  /\ UNCHANGED <<vars, stage, signalled>>

\* The steps of the session that are no business of the client's.  A session
\* that may do no more rounds here ends.
Advance ==
  /\ \/ Loop!Claim(main)
     \/ Loop!Plan(main) /\ (round = MaxRounds => pc'[main] = "leave")
     \/ Loop!Admit(main)
     \/ UNCHANGED result /\ Loop!PreHook(main)
     \/ Loop!Poll(main)
     \/ UNCHANGED rejected /\ Loop!Import(main)
     \/ UNCHANGED result /\ Loop!PostHook(main)
     \/ Loop!CheckClock(main)
  /\ UNCHANGED <<vars, stage, signalled>>

StartWork ==
  /\ Loop!StartRound(main) /\ Begin
  /\ UNCHANGED <<stage, signalled>>

\* create_directories may throw before the try block of workload_func: the
\* exception leaves pilot_run_workload, which is noexcept.
Terminate ==
  /\ pc[main] = "start" /\ stage' = "terminated"
  /\ UNCHANGED <<vars, loopVars, signalled>>

Work == pc[main] = "work" /\ Pilot /\ UNCHANGED <<loopVars, stage, signalled>>

FinishWork ==
  /\ \/ at = "away" /\ Loop!FinishRound(main, "OK")
     \/ at = "failed" /\ Loop!FinishRound(main, "ERR_WL_FAIL")
  /\ UNCHANGED <<vars, stage, signalled>>

EndSession ==
  /\ Loop!Leave(main)
  /\ stage' = "export"
  /\ UNCHANGED <<vars, signalled>>

\* An export that fails ends the program at once, and leaves the client.
Export ==
  /\ stage = "export" /\ stage' \in {"kill", "export failed"}
  /\ UNCHANGED <<vars, loopVars, signalled>>

\* Mutant: the client is left to itself after an interrupted session.
KillUnlessStopped ==
  /\ stage = "kill" /\ stage' = "over"
  /\ signalled' = IF result[main] = "ERR_STOPPED_BY_REQUEST" THEN 0 ELSE pid
  /\ UNCHANGED <<vars, loopVars>>

Kill ==
  /\ stage = "kill" /\ stage' = "over"
  /\ signalled' = pid
  /\ UNCHANGED <<vars, loopVars>>

Tool ==
  /\ stage \notin Ended
  /\ \/ Setup \/ Enter \/ Advance \/ StartWork \/ Terminate \/ Work \/ FinishWork
     \/ EndSession \/ Export \/ Kill

Clients == Children /\ UNCHANGED <<loopVars, stage, signalled>>

ChildExits ==
  /\ \E c \in DOMAIN kids : Exit(c)
  /\ UNCHANGED <<loopVars, stage, signalled>>

RunNext == Tool \/ Sigint \/ Clients

\* The tool runs, and every child ends at some time, by itself or by a signal.
RunSpec ==
  /\ RunInit /\ [][RunNext]_runVars
  /\ WF_runVars(Tool)
  /\ WF_runVars(ChildExits)
-----------------------------------------------------------------------------
(* The session loop calls workload_func only as it can stand it: never     *)
(* again after it failed, which would read from a NULL stream, as the pid  *)
(* of the failed child is still there and no new child would be started.   *)
ClientUsedWell == Spec

(* When the program has ended, no client runs but the one in g_client_pid,  *)
(* however many were started, retried or failed and whenever SIGINT came;  *)
(* that one was sent SIGTERM (791-793), unless the export failed (784-788) *)
(* or a result directory could not be made (289): these ways out leave it. *)
LastClientOnly ==
  stage \in Ended =>
    \A c \in DOMAIN kids :
      Running(c) => c = pid /\ signalled = IF stage = "over" THEN pid ELSE 0

(* A round ends when the client does: no order of output, silence and exit *)
(* keeps the tool waiting, and a client without output is not run forever. *)
RoundEnds == pc[main] = "work" ~> pc[main] # "work"
=============================================================================
