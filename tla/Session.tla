------------------------------ MODULE Session ------------------------------
(***************************************************************************)
(* The session loop of libpilot: pilot_run_workload, called by one or more *)
(* threads on one pilot_workload_t, and pilot_stop_workload, called by a   *)
(* signal handler or another thread at any moment.                         *)
(*                                                                         *)
(* The steps of a thread are cut at its accesses to wl->status_, the one   *)
(* field a stop request shares with the loop.  What the analysis plugins   *)
(* decide, what the hooks and the workload function return and whether a   *)
(* round yields data are choices here; WorkAmount and RoundStore model     *)
(* them.  Time matters only where the loop samples it, after a round.      *)
(***************************************************************************)
EXTENDS Naturals

CONSTANTS
  Callers,       \* the threads that may call pilot_run_workload
  MaxRejected,   \* the largest tolerated wholly_rejected_rounds_ (100)
  SessionLimit,  \* session_duration_limit_in_sec_, 0 when there is none
  MaxRoundTime   \* the longest time one round takes

ASSUME SessionAssumption ==
  /\ Callers # {}
  /\ MaxRejected \in Nat
  /\ SessionLimit \in Nat
  /\ MaxRoundTime \in Nat \ {0}

VARIABLES
  status,    \* wl->status_
  func,      \* whether wl->workload_func_ is set
  rejected,  \* wl->wholly_rejected_rounds_
  pc,        \* where each caller is
  result,    \* the result of each caller's session, so far or the last one
  elapsed,   \* time since session_start_time, sampled after a round
  asked,     \* history: a stop was requested during the caller's session
  late       \* history: rounds started after that request (2 stands for more)

vars == <<status, func, rejected, pc, result, elapsed, asked, late>>

Statuses == {"NOT_RUNNING", "RUNNING", "STOP_REQUESTED"}

\* Control points of a call, named for what the caller does next.
InLoop == {"plan", "admit", "pre", "poll", "start", "work", "import", "post",
           "clock", "leave"}
Points == InLoop \cup {"idle", "claim", "aborted"}

Results == {"none", "OK", "ERR_NOT_INIT", "ERR_WL_FAIL", "ERR_WRONG_PARAM",
            "ERR_STOPPED_BY_DURATION_LIMIT", "ERR_STOPPED_BY_HOOK",
            "ERR_STOPPED_BY_REQUEST", "ERR_TOO_MANY_REJECTED_ROUNDS"}

InSession(t) == pc[t] \in InLoop

Init ==
  /\ status = "NOT_RUNNING"
  /\ func = FALSE
  /\ rejected = 0
  /\ pc = [t \in Callers |-> "idle"]
  /\ result = [t \in Callers |-> "none"]
  /\ elapsed = [t \in Callers |-> 0]
  /\ asked = [t \in Callers |-> FALSE]
  /\ late = [t \in Callers |-> 0]

Go(t, from, to) == pc[t] = from /\ pc' = [pc EXCEPT ![t] = to]

\* The loop breaks with a result.
Break(t, from, r) == Go(t, from, "leave") /\ result' = [result EXCEPT ![t] = r]

SetFunc ==
  /\ func' = TRUE
  /\ UNCHANGED <<status, rejected, pc, result, elapsed, asked, late>>

\* Entry, without a workload function.
CallUnset(t) ==
  /\ pc[t] = "idle" /\ ~func
  /\ result' = [result EXCEPT ![t] = "ERR_NOT_INIT"]
  /\ UNCHANGED <<status, func, rejected, pc, elapsed, asked, late>>

\* Entry: the check of the status.  abort() ends the process.
Call(t) ==
  /\ pc[t] = "idle" /\ func
  /\ IF status = "RUNNING"
       THEN pc' = [u \in Callers |-> "aborted"]
       ELSE pc' = [pc EXCEPT ![t] = "claim"]
  /\ UNCHANGED <<status, func, rejected, result, elapsed, asked, late>>

\* Mutant: a request that is already there is respected.
ClaimUnlessStopped(t) ==
  /\ Go(t, "claim", "plan")
  /\ status' = IF status = "STOP_REQUESTED" THEN status ELSE "RUNNING"
  /\ result' = [result EXCEPT ![t] = "OK"]
  /\ elapsed' = [elapsed EXCEPT ![t] = 0]
  /\ asked' = [asked EXCEPT ![t] = FALSE]
  /\ late' = [late EXCEPT ![t] = 0]
  /\ UNCHANGED <<func, rejected>>

\* The status is overwritten, whatever it is by now.
Claim(t) ==
  /\ Go(t, "claim", "plan")
  /\ status' = "RUNNING"
  /\ result' = [result EXCEPT ![t] = "OK"]
  /\ elapsed' = [elapsed EXCEPT ![t] = 0]
  /\ asked' = [asked EXCEPT ![t] = FALSE]
  /\ late' = [late EXCEPT ![t] = 0]
  /\ UNCHANGED <<func, rejected>>

\* calc_next_round_work_amount: enough data, or one more round.
Plan(t) ==
  /\ Go(t, "plan", "leave") \/ Go(t, "plan", "admit")
  /\ UNCHANGED <<status, func, rejected, result, elapsed, asked, late>>

\* Mutant: one rejected round too many.
AdmitOneMore(t) ==
  /\ IF rejected > MaxRejected + 1
       THEN Break(t, "admit", "ERR_TOO_MANY_REJECTED_ROUNDS")
       ELSE Go(t, "admit", "pre") /\ UNCHANGED result
  /\ UNCHANGED <<status, func, rejected, elapsed, asked, late>>

Admit(t) ==
  /\ IF rejected > MaxRejected
       THEN Break(t, "admit", "ERR_TOO_MANY_REJECTED_ROUNDS")
       ELSE Go(t, "admit", "pre") /\ UNCHANGED result
  /\ UNCHANGED <<status, func, rejected, elapsed, asked, late>>

PreHook(t) ==
  /\ \/ Break(t, "pre", "ERR_STOPPED_BY_HOOK")
     \/ Go(t, "pre", "poll") /\ UNCHANGED result
  /\ UNCHANGED <<status, func, rejected, elapsed, asked, late>>

\* Mutant: the status is not looked at.
PollBlind(t) ==
  /\ Go(t, "poll", "start")
  /\ UNCHANGED <<status, func, rejected, result, elapsed, asked, late>>

Poll(t) ==
  /\ IF status = "STOP_REQUESTED"
       THEN Break(t, "poll", "ERR_STOPPED_BY_REQUEST")
       ELSE Go(t, "poll", "start") /\ UNCHANGED result
  /\ UNCHANGED <<status, func, rejected, elapsed, asked, late>>

StartRound(t) ==
  /\ Go(t, "start", "work")
  /\ late' = [late EXCEPT ![t] = IF asked[t] /\ @ < 2 THEN @ + 1 ELSE @]
  /\ UNCHANGED <<status, func, rejected, result, elapsed, asked>>

\* Mutant: the clock starts anew in every round.
LaterPerRound(e, d) == d

\* The time since the start, saturated just past the limit.
Later(e, d) == IF e + d > SessionLimit THEN SessionLimit + 1 ELSE e + d

WorkResults == {"OK", "ERR_WL_FAIL", "ERR_WRONG_PARAM"}

\* Mutant: a failed round does not end the session.
FinishRoundAnyway(t, r) ==
  /\ Go(t, "work", "import") /\ UNCHANGED result
  /\ \E d \in 1..MaxRoundTime :
       elapsed' = [elapsed EXCEPT ![t] = Later(@, d)]
  /\ UNCHANGED <<status, func, rejected, asked, late>>

\* The workload function succeeds, fails, or gives a harmonic PI a reading that
\* is not positive.
FinishRound(t, r) ==
  /\ IF r = "OK" THEN Go(t, "work", "import") /\ UNCHANGED result
                 ELSE Break(t, "work", r)
  /\ \E d \in 1..MaxRoundTime :
       elapsed' = [elapsed EXCEPT ![t] = Later(@, d)]
  /\ UNCHANGED <<status, func, rejected, asked, late>>

\* pilot_import_benchmark_results: a round that yields no data is counted.
Import(t) ==
  /\ Go(t, "import", "post")
  /\ rejected' \in {rejected, rejected + 1}
  /\ UNCHANGED <<status, func, result, elapsed, asked, late>>

PostHook(t) ==
  /\ \/ Break(t, "post", "ERR_STOPPED_BY_HOOK")
     \/ Go(t, "post", "clock") /\ UNCHANGED result
  /\ UNCHANGED <<status, func, rejected, elapsed, asked, late>>

CheckClock(t) ==
  /\ IF SessionLimit # 0 /\ elapsed[t] > SessionLimit
       THEN Break(t, "clock", "ERR_STOPPED_BY_DURATION_LIMIT")
       ELSE Go(t, "clock", "plan") /\ UNCHANGED result
  /\ UNCHANGED <<status, func, rejected, elapsed, asked, late>>

\* Mutant: only a session that ends well resets the status.
LeaveRunning(t) ==
  /\ Go(t, "leave", "idle")
  /\ status' = IF result[t] = "OK" THEN "NOT_RUNNING" ELSE status
  /\ UNCHANGED <<func, rejected, result, elapsed, asked, late>>

\* wl_status_scope_guard, on every way out.
Leave(t) ==
  /\ Go(t, "leave", "idle")
  /\ status' = "NOT_RUNNING"
  /\ UNCHANGED <<func, rejected, result, elapsed, asked, late>>

\* pilot_stop_workload: an unconditional store.
Stop ==
  /\ \E t \in Callers : pc[t] # "aborted"
  /\ status' = "STOP_REQUESTED"
  /\ asked' = [t \in Callers |-> asked[t] \/ InSession(t)]
  /\ UNCHANGED <<func, rejected, pc, result, elapsed, late>>

Step(t) ==
  \/ Claim(t) \/ Plan(t) \/ Admit(t) \/ PreHook(t) \/ Poll(t)
  \/ StartRound(t) \/ (\E r \in WorkResults : FinishRound(t, r))
  \/ Import(t) \/ PostHook(t) \/ CheckClock(t) \/ Leave(t)

Next ==
  \/ SetFunc
  \/ Stop
  \/ \E t \in Callers : CallUnset(t) \/ Call(t) \/ Step(t)

\* A caller inside pilot_run_workload is a running thread, and the hooks and
\* the workload function return; nobody has to call or to stop.
Fairness == \A t \in Callers : WF_vars(Step(t))

Spec == Init /\ [][Next]_vars /\ Fairness
-----------------------------------------------------------------------------
(* The types of the session loop.                                          *)
TypeOK ==
  /\ status \in Statuses
  /\ func \in BOOLEAN
  /\ rejected \in Nat
  /\ pc \in [Callers -> Points]
  /\ result \in [Callers -> Results]
  /\ elapsed \in [Callers -> 0..(SessionLimit + 1)]
  /\ asked \in [Callers -> BOOLEAN]
  /\ late \in [Callers -> 0..2]

(* A session reports ERR_STOPPED_BY_REQUEST only for a request made while  *)
(* it was running: one left over from before its start, when nobody was    *)
(* there to honour it, never ends a later session (the store of WL_RUNNING *)
(* at its start).                                                          *)
FreshStop ==
  \A t \in Callers : result[t] = "ERR_STOPPED_BY_REQUEST" => asked[t]

(* After a stop request at most one more round starts, the one whose poll  *)
(* came just before the request.                                           *)
StopHonoured == \A t \in Callers : late[t] <= 1

(* A program that runs one session at a time never meets the abort of a    *)
(* workload that is already running: every way out of a session leaves the *)
(* status such that the next call is let in.                               *)
NeverAborts == \A t \in Callers : pc[t] # "aborted"

(* However many sessions are run on the workload, the rounds it wastes on  *)
(* readings it rejects stay within one of the tolerated number.            *)
RejectedBudget == rejected <= MaxRejected + 1

(* Two sessions never run at once on one workload: what the check of       *)
(* "Workload is already running" is there for.                             *)
OneSession ==
  \A t, u \in Callers : InSession(t) /\ InSession(u) => t = u

(* With a session duration limit every session ends, whatever the analysis *)
(* asks for and however short the rounds are.                              *)
LimitEndsSession ==
  SessionLimit # 0 => \A t \in Callers : InSession(t) ~> ~InSession(t)
=============================================================================
