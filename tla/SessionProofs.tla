--------------------------- MODULE SessionProofs ---------------------------
(***************************************************************************)
(* What is proved of the session loop for any number of callers, limits    *)
(* and round times; and of a program that runs one session at a time: stop *)
(* requests are honoured, no call aborts, the budget of rejected rounds is *)
(* kept, and every step is one of SessionContract.                         *)
(***************************************************************************)
EXTENDS SoloSession, TLAPS

\* Every session that runs while a stop request stands is one it was made in.
RequestIsSeen ==
  status = "STOP_REQUESTED" => \A t \in Callers : InSession(t) => asked[t]

IInv == TypeOK /\ RequestIsSeen /\ FreshStop

\* The sampled time stays within its saturated range.
LEMMA LaterType ==
  ASSUME NEW e \in 0..(SessionLimit + 1), NEW d \in 1..MaxRoundTime
  PROVE  Later(e, d) \in 0..(SessionLimit + 1)
BY SessionAssumption DEF Later

(* Every variable of the session loop keeps its type, whoever calls.       *)
LEMMA TypeStep == TypeOK /\ [Next]_vars => TypeOK'
<1> SUFFICES ASSUME TypeOK, [Next]_vars PROVE TypeOK'
  OBVIOUS
<1> USE SessionAssumption DEF TypeOK, Statuses, Points, InLoop, Results
<1>1. CASE SetFunc
  BY <1>1 DEF SetFunc
<1>2. CASE Stop
  BY <1>2 DEF Stop
<1>3. ASSUME NEW t \in Callers, CallUnset(t) PROVE TypeOK'
  BY <1>3 DEF CallUnset
<1>4. ASSUME NEW t \in Callers, Call(t) PROVE TypeOK'
  BY <1>4 DEF Call
<1>5. ASSUME NEW t \in Callers, Step(t) PROVE TypeOK'
  <2>1. CASE Claim(t)
    BY <2>1 DEF Claim, Go
  <2>2. CASE Plan(t)
    BY <2>2 DEF Plan, Go
  <2>3. CASE Admit(t)
    BY <2>3 DEF Admit, Go, Break
  <2>4. CASE PreHook(t)
    BY <2>4 DEF PreHook, Go, Break
  <2>5. CASE Poll(t)
    BY <2>5 DEF Poll, Go, Break
  <2>6. CASE StartRound(t)
    BY <2>6 DEF StartRound, Go
  <2>7. ASSUME NEW r \in WorkResults, FinishRound(t, r) PROVE TypeOK'
    <3>1. PICK d \in 1..MaxRoundTime :
            elapsed' = [elapsed EXCEPT ![t] = Later(elapsed[t], d)]
      BY <2>7 DEF FinishRound
    <3>2. elapsed' \in [Callers -> 0..(SessionLimit + 1)]
      BY <3>1, LaterType
    <3>3. pc' \in [Callers -> Points] /\ result' \in [Callers -> Results]
      BY <2>7 DEF FinishRound, WorkResults, Go, Break
    <3> QED BY <2>7, <3>2, <3>3 DEF FinishRound
  <2>8. CASE Import(t)
    BY <2>8 DEF Import, Go
  <2>9. CASE PostHook(t)
    BY <2>9 DEF PostHook, Go, Break
  <2>10. CASE CheckClock(t)
    BY <2>10 DEF CheckClock, Go, Break
  <2>11. CASE Leave(t)
    BY <2>11 DEF Leave, Go
  <2> QED
    BY <1>5, <2>1, <2>2, <2>3, <2>4, <2>5, <2>6, <2>7, <2>8, <2>9, <2>10,
       <2>11 DEF Step
<1>6. CASE UNCHANGED vars
  BY <1>6 DEF vars
<1> QED BY <1>1, <1>2, <1>3, <1>4, <1>5, <1>6 DEF Next

LEMMA TypeInit == Init => TypeOK
<1> SUFFICES ASSUME Init PROVE TypeOK
  OBVIOUS
<1>1. 0 \in 0..(SessionLimit + 1) /\ 0 \in 0..2
  BY SessionAssumption
<1>2. elapsed \in [Callers -> 0..(SessionLimit + 1)] /\ late \in [Callers -> 0..2]
  BY <1>1 DEF Init
<1>3. pc \in [Callers -> Points] /\ result \in [Callers -> Results]
  BY DEF Init, Points, Results
<1> QED BY <1>2, <1>3 DEF Init, TypeOK, Statuses

(* The type invariant of the session loop, for any set of callers.         *)
THEOREM Typing == Spec => []TypeOK
BY TypeInit, TypeStep, PTL DEF Spec

\* Within a session a step neither changes the request nor enters a session,
\* and a poll reports what RequestIsSeen says it may.
LEMMA FreshStep == IInv /\ [Next]_vars => RequestIsSeen' /\ FreshStop'
<1> SUFFICES ASSUME IInv, [Next]_vars PROVE RequestIsSeen' /\ FreshStop'
  OBVIOUS
<1> USE DEF IInv, TypeOK, RequestIsSeen, FreshStop, InSession, InLoop
<1>1. CASE SetFunc
  BY <1>1 DEF SetFunc
<1>2. CASE Stop
  BY <1>2 DEF Stop
<1>3. ASSUME NEW t \in Callers, CallUnset(t)
      PROVE  RequestIsSeen' /\ FreshStop'
  BY <1>3 DEF CallUnset
<1>4. ASSUME NEW t \in Callers, Call(t) PROVE RequestIsSeen' /\ FreshStop'
  BY <1>4 DEF Call
<1>5. ASSUME NEW t \in Callers, Step(t) PROVE RequestIsSeen' /\ FreshStop'
  <2>1. CASE Claim(t)
    BY <2>1 DEF Claim, Go
  <2>2. CASE Plan(t)
    BY <2>2 DEF Plan, Go
  <2>3. CASE Admit(t)
    BY <2>3 DEF Admit, Go, Break
  <2>4. CASE PreHook(t)
    BY <2>4 DEF PreHook, Go, Break
  <2>5. CASE Poll(t)
    BY <2>5 DEF Poll, Go, Break
  <2>6. CASE StartRound(t)
    BY <2>6 DEF StartRound, Go
  <2>7. ASSUME NEW r \in WorkResults, FinishRound(t, r)
        PROVE  RequestIsSeen' /\ FreshStop'
    BY <2>7 DEF FinishRound, WorkResults, Go, Break
  <2>8. CASE Import(t)
    BY <2>8 DEF Import, Go
  <2>9. CASE PostHook(t)
    BY <2>9 DEF PostHook, Go, Break
  <2>10. CASE CheckClock(t)
    BY <2>10 DEF CheckClock, Go, Break
  <2>11. CASE Leave(t)
    BY <2>11 DEF Leave, Go
  <2> QED
    BY <1>5, <2>1, <2>2, <2>3, <2>4, <2>5, <2>6, <2>7, <2>8, <2>9, <2>10,
       <2>11 DEF Step
<1>6. CASE UNCHANGED vars
  BY <1>6 DEF vars
<1> QED BY <1>1, <1>2, <1>3, <1>4, <1>5, <1>6 DEF Next

LEMMA Inductive == Spec => []IInv
<1>1. Init => IInv
  BY TypeInit DEF Init, IInv, RequestIsSeen, FreshStop
<1>2. IInv /\ [Next]_vars => IInv'
  BY TypeStep, FreshStep DEF IInv
<1> QED BY <1>1, <1>2, PTL DEF Spec

(* However many threads run sessions on one workload and whenever stops    *)
(* are requested, a session reports ERR_STOPPED_BY_REQUEST only for a      *)
(* request made while it ran: the poll at the head of the loop never meets *)
(* a request from before the session's own store of WL_RUNNING.            *)
THEOREM Fresh == Spec => []FreshStop
BY Inductive, PTL DEF IInv
-----------------------------------------------------------------------------
(* One caller. *)

\* The caller's request stands until its session is over.
RequestStands == asked[Me] /\ InSession(Me) => status = "STOP_REQUESTED"

\* No round has started since the request unless there was one to honour, and
\* none has when one is about to start.
LateCounted ==
  /\ ~asked[Me] \/ pc[Me] = "start" => late[Me] = 0
  /\ late[Me] <= 1

\* Between sessions nobody is running the workload.
StatusFree ==
  /\ pc[Me] \in {"idle", "claim"} => status # "RUNNING"
  /\ pc[Me] # "aborted"

\* A session under way has a result of its own.
ResultInside == InSession(Me) => result[Me] \notin {"none", "ERR_NOT_INIT"}

\* From the check of the rejected rounds to the import, there is room for one.
BudgetLeft ==
  /\ pc[Me] \in {"pre", "poll", "start", "work", "import"} => rejected <= MaxRejected
  /\ rejected <= MaxRejected + 1

SoloInv ==
  IInv /\ RequestStands /\ LateCounted /\ StatusFree /\ ResultInside /\ BudgetLeft

\* Each conjunct is disturbed by a few of the steps only; those that read or
\* set pc get a step of their own.
LEMMA SoloStep ==
  ASSUME Solo PROVE SoloInv /\ [Next]_vars => SoloInv'
<1> SUFFICES ASSUME SoloInv, [Next]_vars PROVE SoloInv'
  OBVIOUS
<1>t. IInv'
  BY TypeStep, FreshStep DEF SoloInv, IInv
<1> DEFINE Rest == RequestStands /\ LateCounted /\ StatusFree /\ ResultInside
                     /\ BudgetLeft
<1> SUFFICES Rest'
  BY <1>t DEF SoloInv
<1>m. Me \in Callers /\ \A t \in Callers : t = Me
  BY DEF Solo
<1>k. SessionAssumption
  BY SessionAssumption
<1> USE <1>m DEF SoloInv, IInv, TypeOK, RequestStands, LateCounted, StatusFree,
                 ResultInside, BudgetLeft, InSession, InLoop
<1>1. CASE SetFunc
  BY <1>1 DEF SetFunc
<1>2. CASE Stop
  BY <1>2 DEF Stop
<1>3. CASE CallUnset(Me)
  BY <1>3 DEF CallUnset
<1>4. CASE Call(Me)
  BY <1>4 DEF Call
<1>5. CASE Step(Me)
  <2>1. CASE Claim(Me)
    BY <2>1 DEF Claim, Go
  <2>2. CASE Plan(Me)
    BY <2>2 DEF Plan, Go
  <2>3. CASE Admit(Me)
    BY <2>3, <1>k DEF Admit, Go, Break, SessionAssumption
  <2>4. CASE PreHook(Me)
    BY <2>4 DEF PreHook, Go, Break
  <2>5. CASE Poll(Me)
    BY <2>5 DEF Poll, Go, Break
  <2>6. CASE StartRound(Me)
    BY <2>6 DEF StartRound, Go
  <2>7. CASE \E r \in WorkResults : FinishRound(Me, r)
    BY <2>7 DEF FinishRound, WorkResults, Go, Break
  <2>8. CASE Import(Me)
    BY <2>8, <1>k DEF Import, Go, SessionAssumption
  <2>9. CASE PostHook(Me)
    BY <2>9 DEF PostHook, Go, Break
  <2>10. CASE CheckClock(Me)
    BY <2>10 DEF CheckClock, Go, Break
  <2>11. CASE Leave(Me)
    BY <2>11 DEF Leave, Go
  <2> QED
    BY <1>5, <2>1, <2>2, <2>3, <2>4, <2>5, <2>6, <2>7, <2>8, <2>9, <2>10,
       <2>11 DEF Step
<1>6. CASE UNCHANGED vars
  BY <1>6 DEF vars
<1> QED BY <1>1, <1>2, <1>3, <1>4, <1>5, <1>6 DEF Next

LEMMA SoloInit ==
  ASSUME Solo PROVE Init => SoloInv
<1> SUFFICES ASSUME Init PROVE SoloInv
  OBVIOUS
<1>1. Me \in Callers
  BY DEF Solo
<1> QED
  BY <1>1, TypeInit, SessionAssumption
  DEF Init, SoloInv, IInv, RequestIsSeen, FreshStop, RequestStands, LateCounted, StatusFree, ResultInside,
      BudgetLeft, InSession, InLoop, SessionAssumption

LEMMA SoloInductive ==
  ASSUME Solo PROVE Spec => []SoloInv
BY SoloInit, SoloStep, PTL DEF Spec

(* At most one round starts after a stop request, however long the session *)
(* goes on and whatever the hooks and plugins answer.                      *)
THEOREM Honoured ==
  ASSUME Solo PROVE Spec => []StopHonoured
<1>1. SoloInv => StopHonoured
  BY DEF Solo, SoloInv, LateCounted, StopHonoured
<1> QED BY <1>1, SoloInductive, PTL

(* The check of WL_RUNNING never ends a program with one caller: the scope *)
(* guard has always reset the status by the next call.                     *)
THEOREM NoAbort ==
  ASSUME Solo PROVE Spec => []NeverAborts
<1>1. SoloInv => NeverAborts
  BY DEF Solo, SoloInv, StatusFree, NeverAborts
<1> QED BY <1>1, SoloInductive, PTL

(* One rejected round more than tolerated is all that any number of        *)
(* sessions can waste.                                                     *)
THEOREM Budget ==
  ASSUME Solo PROVE Spec => []RejectedBudget
<1>1. SoloInv => RejectedBudget
  BY DEF SoloInv, BudgetLeft, RejectedBudget
<1> QED BY <1>1, SoloInductive, PTL
-----------------------------------------------------------------------------
LEMMA ContractInit ==
  ASSUME Solo PROVE Init => Contract!CInit
<1>1. Me \in Callers
  BY DEF Solo
<1> QED
  BY <1>1 DEF Init, Contract!CInit, InSession, InLoop, SeenResult

LEMMA ContractStep ==
  ASSUME Solo PROVE SoloInv /\ [Next]_vars => [Contract!CNext]_(Contract!cvars)
<1> SUFFICES ASSUME SoloInv, [Next]_vars
             PROVE  Contract!CNext \/ UNCHANGED Contract!cvars
  OBVIOUS
<1>m. Me \in Callers /\ \A t \in Callers : t = Me
  BY DEF Solo
<1> USE <1>m DEF SoloInv, IInv, TypeOK, InSession, InLoop, SeenResult, Contract!cvars
<1>1. CASE SetFunc
  BY <1>1 DEF SetFunc
<1>2. CASE Stop
  <2>1. CASE InSession(Me)
    BY <1>2, <2>1 DEF Stop, Contract!CNext, Contract!RequestStop
  <2>2. CASE ~InSession(Me)
    BY <1>2, <2>2 DEF Stop
  <2> QED BY <2>1, <2>2
<1>3. CASE CallUnset(Me)
  BY <1>3 DEF CallUnset, Contract!CNext, Contract!Refuse
<1>4. CASE Call(Me)
  BY <1>4 DEF Call
<1>5. CASE Step(Me)
  <2>1. CASE Claim(Me)
    BY <2>1 DEF Claim, Go, Contract!CNext, Contract!Begin
  <2>2. CASE Plan(Me)
    BY <2>2 DEF Plan, Go
  <2>3. CASE Admit(Me)
    BY <2>3 DEF Admit, Go, Break
  <2>4. CASE PreHook(Me)
    BY <2>4 DEF PreHook, Go, Break
  <2>5. CASE Poll(Me)
    BY <2>5 DEF Poll, Go, Break
  <2>6. CASE StartRound(Me)
    BY <2>6 DEF StartRound, Go, LateCounted, Contract!CNext, Contract!ExtraRound
  <2>7. CASE \E r \in WorkResults : FinishRound(Me, r)
    BY <2>7 DEF FinishRound, WorkResults, Go, Break
  <2>8. CASE Import(Me)
    BY <2>8 DEF Import, Go
  <2>9. CASE PostHook(Me)
    BY <2>9 DEF PostHook, Go, Break
  <2>10. CASE CheckClock(Me)
    BY <2>10 DEF CheckClock, Go, Break
  <2>11. CASE Leave(Me)
    BY <2>11 DEF Leave, Go, ResultInside, FreshStop, Results, Contract!CNext, Contract!End
  <2> QED
    BY <1>5, <2>1, <2>2, <2>3, <2>4, <2>5, <2>6, <2>7, <2>8, <2>9, <2>10,
       <2>11 DEF Step
<1>6. CASE UNCHANGED vars
  BY <1>6 DEF vars
<1> QED BY <1>1, <1>2, <1>3, <1>4, <1>5, <1>6 DEF Next

(* The session loop implements the safety part of SessionContract: every   *)
(* step of the thread is a step of the contract or leaves it alone.        *)
THEOREM Implements ==
  ASSUME Solo PROVE Spec => Contract!CInit /\ [][Contract!CNext]_(Contract!cvars)
BY ContractInit, ContractStep, SoloInductive, PTL DEF Spec
=============================================================================
