---------------------------- MODULE SoloSession ----------------------------
(***************************************************************************)
(* Session in a program that runs one session at a time, as every program  *)
(* of the repository does, and what it then implements: SessionContract.   *)
(***************************************************************************)
EXTENDS Session

CONSTANT Me  \* the one thread that calls pilot_run_workload

\* What is proved of it is proved of any such thread; TLC checks the instance of SoloSessions.
Solo == Callers = {Me}

\* A result counts once the session has left the loop.
SeenResult == IF InSession(Me) THEN "none" ELSE result[Me]

Contract == INSTANCE SessionContract WITH
  running <- InSession(Me), stopping <- asked[Me], extra <- late[Me],
  outcome <- SeenResult

(* Every behaviour of one caller's sessions is one that SessionContract    *)
(* allows, its promise to answer a stop request included.                  *)
KeepsContract == Contract!CSpec
=============================================================================
