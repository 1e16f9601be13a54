-------------------------- MODULE SessionContract --------------------------
(***************************************************************************)
(* What pilot_run_workload promises a program that runs one session at a   *)
(* time: a session is a series of rounds that ends with a result; a stop   *)
(* request made while it runs lets at most one more round start, ends it,  *)
(* and is the only reason for it to report ERR_STOPPED_BY_REQUEST.         *)
(***************************************************************************)
EXTENDS Naturals

CONSTANT Results  \* what a session may return

VARIABLES
  running,   \* whether a session is running
  stopping,  \* whether it, or else the last one, was asked to stop
  extra,     \* the rounds started since
  outcome    \* the result of the last session, "none" while one runs

cvars == <<running, stopping, extra, outcome>>

CInit == ~running /\ ~stopping /\ extra = 0 /\ outcome = "none"

\* A call refused for want of a workload function runs no session.
Refuse ==
  /\ ~running /\ outcome' = "ERR_NOT_INIT"
  /\ UNCHANGED <<running, stopping, extra>>

Begin ==
  /\ ~running /\ running' = TRUE
  /\ stopping' = FALSE /\ extra' = 0 /\ outcome' = "none"

RequestStop ==
  /\ running /\ stopping' = TRUE
  /\ UNCHANGED <<running, extra, outcome>>

\* A round after the request; rounds before it leave no trace here.
ExtraRound ==
  /\ running /\ stopping /\ extra = 0 /\ extra' = 1
  /\ UNCHANGED <<running, stopping, outcome>>

End ==
  /\ running /\ running' = FALSE
  /\ outcome' \in Results \ {"none", "ERR_NOT_INIT"}
  /\ outcome' = "ERR_STOPPED_BY_REQUEST" => stopping
  /\ UNCHANGED <<stopping, extra>>

CNext == Refuse \/ Begin \/ RequestStop \/ ExtraRound \/ End

(* A stop request made while a session runs is answered by its end.        *)
Answers == (running /\ stopping) ~> ~running

CSpec == CInit /\ [][CNext]_cvars /\ Answers
=============================================================================
