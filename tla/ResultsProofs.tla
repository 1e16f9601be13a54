----------------------------- MODULE ResultsProofs -----------------------------
(* What is proved of the analysis cache and the export, for any number of PIs, any
   rounds, and any thresholds of the changepoint schedule. *)
EXTENDS Results, FiniteSetTheorems, TLAPS

Made == [data : Nat, setting : Int]
PiResult == [readings : Made, changepoint : Int, units : Made, required : Made, fromUser : BOOLEAN]

Typing ==
  /\ clock \in Nat /\ raw \in Nat /\ upd \in Int
  /\ num \in [PIs -> Nat] /\ units \in [PIs -> BOOLEAN] /\ version \in Nat /\ setting \in Nat
  /\ checked \in [PIs -> Nat]
  /\ result \in [pi : [PIs -> PiResult], has : BOOLEAN, wps : Made]
  /\ hooked \in BOOLEAN /\ job \in {"none", "read", "export"} /\ at \in 0 .. NumPI + 2 /\ inHook \in BOOLEAN
  /\ logged \in Nat /\ emptied \in Nat

\* The times: the analysis may be as new as the clock, but no newer.
Times == raw <= clock /\ upd <= clock

\* The analysis of a PI, but for the answer of the hook.
Half(p) ==
  /\ result.pi[p].readings = IF num[p] >= 2 THEN Basis ELSE None
  /\ result.pi[p].units = IF units[p] THEN Basis ELSE None
  /\ result.pi[p].required = result.pi[p].units
  /\ num[p] > DetectMin => checked[p] = num[p] \/ ~Due(num[p], checked[p])

Done(p) == Half(p) /\ result.pi[p].fromUser = (hooked /\ units[p])
AllDone == (\A p \in PIs : Done(p)) /\ (result.has => result.wps = Basis)

\* How far the analysis has come. Before the check it is up to date if its time says so; during it the
\* time says so already.
Progress ==
  /\ job = "none" => at = 0
  /\ at = 0 => (UpToDate => AllDone) /\ ~inHook
  /\ at > 0 => UpToDate /\ \A p \in PIs : p < at => Done(p)
  /\ at = NumPI + 2 => AllDone
  /\ inHook => at \in PIs /\ \A p \in PIs : p = at => Half(p) /\ units[p] /\ hooked

\* A changepoint leaves enough readings on both sides.
Placed == \A p \in PIs : LET cp == result.pi[p].changepoint
                         IN cp = 0 \/ (cp >= DetectMin /\ num[p] - cp >= DetectMin)

CacheInv == Typing /\ Times /\ Progress /\ Placed

-----------------------------------------------------------------------------
LEMMA PIsAre == NumPI \in Nat /\ NumPI >= 1 /\ PIs \subseteq Nat /\ \A p \in PIs : 1 <= p /\ p <= NumPI
  BY ResultsAssumption DEF PIs

LEMMA CacheInit == Init => CacheInv
<1> SUFFICES ASSUME Init PROVE CacheInv
  OBVIOUS
<1>1. Typing
  <2>1. None \in Made
    BY DEF None, Made
  <2>2. Unset \in PiResult
    BY <2>1 DEF Unset, PiResult
  <2>3. result \in [pi : [PIs -> PiResult], has : BOOLEAN, wps : Made]
    BY <2>1, <2>2 DEF Init
  <2>4. num \in [PIs -> Nat] /\ units \in [PIs -> BOOLEAN] /\ checked \in [PIs -> Nat]
    BY DEF Init
  <2>5. at \in 0 .. NumPI + 2
    BY PIsAre DEF Init
  <2>7. inHook \in BOOLEAN /\ hooked \in BOOLEAN
    BY Zenon DEF Init
  <2>6. clock \in Nat /\ raw \in Nat /\ upd \in Int /\ version \in Nat /\ setting \in Nat /\ logged \in Nat /\ emptied \in Nat
    BY DEF Init
  <2> QED
    BY <2>3, <2>4, <2>5, <2>6, <2>7 DEF Init, Typing
<1>2. Times /\ Progress /\ Placed
  BY PIsAre DEF Init, Times, Progress, Placed, UpToDate, Unset
<1> QED
  BY <1>1, <1>2 DEF CacheInv

LEMMA ImportKeeps == ASSUME ~Coarse, CacheInv, Import PROVE CacheInv'
<1>1. clock' = clock + 1 /\ raw' = clock'
  BY DEF Import, Ticks
<1>2. PICK r \in Rounds, n \in Batches :
        /\ num' = [p \in PIs |-> num[p] + (IF p \in r[1] THEN n ELSE 0)]
        /\ units' = [p \in PIs |-> p \in r[2]]
  BY DEF Import
<1>3. n \in Nat
  BY ResultsAssumption
<1>4. Typing'
  BY <1>1, <1>2, <1>3 DEF Import, CacheInv, Typing, analysisVars, exportVars
<1>5. Times' /\ ~UpToDate'
  BY <1>1 DEF Import, CacheInv, Typing, Times, UpToDate, analysisVars
<1>6. Progress'
  BY <1>5, PIsAre DEF Import, CacheInv, Typing, Progress
<1>7. Placed'
  <2> SUFFICES ASSUME NEW p \in PIs
               PROVE  LET cp == result'.pi[p].changepoint
                      IN cp = 0 \/ (cp >= DetectMin /\ num'[p] - cp >= DetectMin)
    BY DEF Placed
  <2>1. result' = result /\ num[p] \in Nat /\ num'[p] \in Nat /\ num'[p] >= num[p]
    BY <1>2, <1>3 DEF Import, CacheInv, Typing, analysisVars
  <2>2. result.pi[p].changepoint \in Int /\ DetectMin \in Nat
    BY ResultsAssumption DEF CacheInv, Typing, PiResult
  <2> QED
    BY <2>1, <2>2 DEF CacheInv, Placed
<1> QED
  BY <1>4, <1>5, <1>6, <1>7 DEF CacheInv

LEMMA SetKeeps == ASSUME CacheInv, Set PROVE CacheInv'
<1>1. Typing'
  BY DEF Set, Reset, CacheInv, Typing, exportVars
<1>2. Times' /\ ~UpToDate'
  BY DEF Set, Reset, CacheInv, Typing, Times, UpToDate
<1>3. Progress'
  BY <1>2, PIsAre DEF Set, CacheInv, Typing, Progress
<1>4. Placed'
  BY DEF Set, CacheInv, Placed
<1> QED
  BY <1>1, <1>2, <1>3, <1>4 DEF CacheInv

\* Nothing that an analysis is made of changes, nor the analysis.
Untouched == UNCHANGED <<clock, dataVars, analysisVars, hooked>>

LEMMA UntouchedKeeps ==
  ASSUME Untouched
  PROVE  /\ (UpToDate' <=> UpToDate) /\ (AllDone' <=> AllDone) /\ (Placed' <=> Placed) /\ (Times' <=> Times)
         /\ \A p \in PIs : (Done(p)' <=> Done(p)) /\ (Half(p)' <=> Half(p))
  BY DEF Untouched, dataVars, analysisVars, UpToDate, AllDone, Placed, Times, Done, Half, Basis

LEMMA QuietKeeps ==
  ASSUME CacheInv, Untouched, UNCHANGED <<at, inHook, logged, emptied>>, job' = job
  PROVE  CacheInv'
<1>1. Typing'
  BY DEF CacheInv, Typing, Untouched, dataVars, analysisVars
<1>2. inHook' <=> inHook
  OBVIOUS
<1>3. Progress'
  BY <1>2, UntouchedKeeps DEF CacheInv, Progress, Untouched, dataVars
<1> QED
  BY <1>1, <1>3, UntouchedKeeps DEF CacheInv

LEMMA ReadKeeps == ASSUME CacheInv, Read PROVE CacheInv'
<1>1. Untouched
  BY DEF Read, Untouched
<1>2. Typing'
  BY PIsAre DEF Read, CacheInv, Typing, dataVars, analysisVars, exportVars
<1> QED
  BY <1>1, <1>2, UntouchedKeeps, PIsAre DEF Read, CacheInv, Progress

LEMMA CheckKeeps == ASSUME ~Coarse, CacheInv, Check PROVE CacheInv'
<1>1. CASE UpToDate
  <2>1. Untouched
    BY <1>1 DEF Check, Untouched, analysisVars
  <2>2. Typing'
    BY <1>1, PIsAre DEF Check, CacheInv, Typing, dataVars, exportVars
  <2>3. AllDone /\ ~inHook
    BY <1>1 DEF Check, CacheInv, Progress
  <2>4. Progress'
    BY <1>1, <2>1, <2>3, UntouchedKeeps, PIsAre DEF Check, Progress, AllDone
  <2> QED
    BY <2>1, <2>2, <2>4, UntouchedKeeps DEF CacheInv
<1>2. CASE ~UpToDate
  <2>1. clock' = clock + 1 /\ upd' = clock' /\ at' = 1
    BY <1>2 DEF Check, Ticks
  <2>2. Typing'
    BY <1>2, <2>1, PIsAre DEF Check, CacheInv, Typing, dataVars, exportVars
  <2>3. Times' /\ UpToDate' /\ Placed'
    BY <1>2, <2>1 DEF Check, CacheInv, Typing, Times, UpToDate, Placed, dataVars
  <2>4. Progress'
    BY <2>1, <2>3, PIsAre DEF Check, CacheInv, Progress
  <2> QED
    BY <2>2, <2>3, <2>4 DEF CacheInv
<1> QED
  BY <1>1, <1>2

LEMMA AnalyseKeeps == ASSUME CacheInv, Analyse PROVE CacheInv'
<1>1. PICK cp \in Changepoints(at) :
        result' = [result EXCEPT !.pi[at] =
          [readings |-> IF num[at] >= 2 THEN Basis ELSE None, changepoint |-> cp,
           units |-> UnitsOf(at), required |-> UnitsOf(at), fromUser |-> FALSE]]
  BY DEF Analyse
<1>2. at \in PIs /\ at \in Nat /\ num[at] \in Nat /\ checked[at] \in Nat
  BY PIsAre DEF Analyse, CacheInv, Typing
<1>3. Basis \in Made /\ None \in Made /\ UnitsOf(at) \in Made
  BY DEF CacheInv, Typing, Basis, None, Made, UnitsOf
<1>4. cp \in Int /\ (cp = 0 \/ (cp >= DetectMin /\ num[at] - cp >= DetectMin))
  <2>1. DetectMin \in Nat /\ DetectMin >= 1
    BY ResultsAssumption
  <2>2. result.pi[at].changepoint \in Int
    BY <1>2 DEF CacheInv, Typing, PiResult
  <2>3. CASE Search(at)
    <3>1. cp \in {0} \union (DetectMin .. num[at] - DetectMin)
      BY <1>1, <1>2, <2>1, <2>3 DEF Changepoints, Search
    <3> QED
      BY <1>2, <2>1, <3>1
  <2>4. CASE ~Search(at)
    BY <1>1, <1>2, <2>2, <2>4 DEF Changepoints, CacheInv, Placed
  <2> QED
    BY <2>3, <2>4
<1>5. checked' = IF Search(at) THEN [checked EXCEPT ![at] = num[at]] ELSE checked
  BY DEF Analyse
<1>6. /\ result'.pi = [result.pi EXCEPT ![at] =
                        [readings |-> IF num[at] >= 2 THEN Basis ELSE None, changepoint |-> cp,
                         units |-> UnitsOf(at), required |-> UnitsOf(at), fromUser |-> FALSE]]
      /\ result'.has = result.has /\ result'.wps = result.wps /\ result' \in [pi : [PIs -> PiResult], has : BOOLEAN, wps : Made]
  BY <1>1, <1>2, <1>3, <1>4 DEF CacheInv, Typing, PiResult
<1>7. Typing'
  <2>1. checked' \in [PIs -> Nat]
    BY <1>2, <1>5 DEF CacheInv, Typing
  <2>2. at' \in 0 .. NumPI + 2
    <3>1. at' \in {at, at + 1}
      BY DEF Analyse
    <3> QED
      BY <1>2, <3>1, PIsAre
  <2>3. inHook' \in BOOLEAN
    BY Zenon DEF Analyse, CacheInv, Typing
  <2> QED
    BY <1>6, <2>1, <2>3, <2>2 DEF Analyse, CacheInv, Typing, dataVars, exportVars
<1>8. Times' /\ UpToDate' = UpToDate
  BY DEF Analyse, CacheInv, Times, UpToDate, dataVars
<1>9. Placed'
  BY <1>2, <1>4, <1>6 DEF Analyse, CacheInv, Typing, Placed, dataVars
<1>10. Basis' = Basis /\ num' = num /\ units' = units /\ hooked' = hooked
  BY DEF Analyse, Basis, dataVars
<1>11. \A p \in PIs : p = at => Half(p)' /\ result'.pi[p].fromUser = FALSE
  <2>1. num[at] > DetectMin => checked'[at] = num[at] \/ ~Due(num[at], checked'[at])
    <3>1. num[at] > DetectMin => num[at] >= 2
      BY <1>2, ResultsAssumption
    <3> QED
      BY <1>2, <1>5, <3>1 DEF Search, CacheInv, Typing
  <2>2. result'.pi[at] = [readings |-> IF num[at] >= 2 THEN Basis ELSE None, changepoint |-> cp,
                          units |-> UnitsOf(at), required |-> UnitsOf(at), fromUser |-> FALSE]
    BY <1>2, <1>6 DEF CacheInv, Typing
  <2> QED
    BY <1>10, <2>1, <2>2 DEF Half, UnitsOf, Due
<1>12. \A p \in PIs : p # at /\ Done(p) => Done(p)'
  BY <1>2, <1>5, <1>6, <1>10 DEF Done, Half, Due, CacheInv, Typing
<1>13. \A p \in PIs : p < at => Done(p)'
  BY <1>2, <1>12, PIsAre DEF Analyse, CacheInv, Progress
<1>14. CASE units[at] /\ hooked
  <2>1. inHook' /\ at' = at
    BY <1>14 DEF Analyse
  <2> QED
    BY <1>2, <1>7, <1>8, <1>9, <1>10, <1>11, <1>13, <1>14, <2>1, PIsAre DEF Analyse, CacheInv, Progress
<1>15. CASE ~(units[at] /\ hooked)
  <2>1. ~inHook' /\ at' = at + 1
    BY <1>15 DEF Analyse
  <2>2. \A p \in PIs : p = at => Done(p)'
    BY <1>10, <1>11, <1>15 DEF Done, CacheInv, Typing
  <2>3. \A p \in PIs : p < at + 1 => Done(p)'
    BY <1>2, <1>13, <2>2, PIsAre
  <2> QED
    BY <1>2, <1>7, <1>8, <1>9, <2>1, <2>3, PIsAre DEF Analyse, CacheInv, Progress
<1> QED
  BY <1>14, <1>15

LEMMA HookKeeps == ASSUME CacheInv, Hook PROVE CacheInv' /\ hookView'[1] = hookView'[2]
<1>1. at \in PIs /\ at \in Nat /\ units[at] /\ hooked /\ Half(at)
  BY PIsAre DEF Hook, CacheInv, Progress
<1>2. hookView'[1] = result.pi[at].units /\ hookView'[2] = Basis /\ result.pi[at].units = Basis
  BY <1>1 DEF Hook, Half
<1>3. result' = [result EXCEPT !.pi[at].required = hookView'[1], !.pi[at].fromUser = TRUE]
  BY DEF Hook
<1>4. result.pi[at] \in PiResult /\ result.pi[at].required = hookView'[1]
  BY <1>1, <1>2 DEF Half, CacheInv, Typing
<1>5. /\ result'.pi = [result.pi EXCEPT ![at] = [result.pi[at] EXCEPT !.fromUser = TRUE]]
      /\ result'.has = result.has /\ result'.wps = result.wps /\ result' \in [pi : [PIs -> PiResult], has : BOOLEAN, wps : Made]
  <2>1. result'.pi = [result.pi EXCEPT ![at] = [result.pi[at] EXCEPT !.required = hookView'[1], !.fromUser = TRUE]]
    BY <1>1, <1>3, <1>4 DEF CacheInv, Typing
  <2>2. [result.pi[at] EXCEPT !.required = hookView'[1], !.fromUser = TRUE] = [result.pi[at] EXCEPT !.fromUser = TRUE]
    BY <1>4 DEF PiResult
  <2>3. [result.pi[at] EXCEPT !.fromUser = TRUE] \in PiResult
    BY <1>4 DEF PiResult
  <2>4. result'.has = result.has /\ result'.wps = result.wps
    BY <1>3 DEF CacheInv, Typing
  <2>5. result' \in [pi : [PIs -> PiResult], has : BOOLEAN, wps : Made]
    BY <1>3, <2>1, <2>2, <2>3 DEF CacheInv, Typing
  <2> QED
    BY <2>1, <2>2, <2>4, <2>5
<1>6. Typing'
  <2>1. at' \in 0 .. NumPI + 2
    BY <1>1, PIsAre DEF Hook
  <2>2. inHook' \in BOOLEAN
    BY Zenon DEF Hook
  <2> QED
    BY <1>5, <2>1, <2>2 DEF Hook, CacheInv, Typing, dataVars, exportVars
<1>7. Times' /\ UpToDate' /\ Basis' = Basis /\ num' = num /\ units' = units /\ hooked' = hooked /\ checked' = checked
  BY DEF Hook, CacheInv, Times, UpToDate, Basis, dataVars
<1>8. \A p \in PIs : /\ result'.pi[p].readings = result.pi[p].readings
                     /\ result'.pi[p].units = result.pi[p].units
                     /\ result'.pi[p].required = result.pi[p].required
                     /\ result'.pi[p].changepoint = result.pi[p].changepoint
                     /\ result'.pi[p].fromUser = IF p = at THEN TRUE ELSE result.pi[p].fromUser
  <2> SUFFICES ASSUME NEW p \in PIs
               PROVE  /\ result'.pi[p].readings = result.pi[p].readings
                      /\ result'.pi[p].units = result.pi[p].units
                      /\ result'.pi[p].required = result.pi[p].required
                      /\ result'.pi[p].changepoint = result.pi[p].changepoint
                      /\ result'.pi[p].fromUser = IF p = at THEN TRUE ELSE result.pi[p].fromUser
    OBVIOUS
  <2>1. CASE p = at
    <3>1. result'.pi[at] = [result.pi[at] EXCEPT !.fromUser = TRUE]
      BY <1>1, <1>5 DEF CacheInv, Typing
    <3>2. /\ result'.pi[at].readings = result.pi[at].readings /\ result'.pi[at].units = result.pi[at].units
          /\ result'.pi[at].required = result.pi[at].required
          /\ result'.pi[at].changepoint = result.pi[at].changepoint
      BY <1>4, <3>1 DEF PiResult
    <3>3. DOMAIN result.pi[at] = {"readings", "changepoint", "units", "required", "fromUser"}
      BY <1>4 DEF PiResult
    <3>4. result'.pi[at].fromUser = TRUE
      BY <3>1, <3>3, Zenon
    <3> QED
      BY <2>1, <3>2, <3>4, Zenon
  <2>2. CASE p # at
    BY <1>5, <2>2 DEF CacheInv, Typing
  <2> QED
    BY <2>1, <2>2
<1>9. Placed'
  BY <1>7, <1>8 DEF CacheInv, Placed
<1>10. \A p \in PIs : Half(p) => Half(p)'
  BY <1>7, <1>8 DEF Half, Due
<1>11. \A p \in PIs : p < at => Done(p)'
  <2> SUFFICES ASSUME NEW p \in PIs, p < at PROVE Done(p)'
    OBVIOUS
  <2>1. p # at /\ Done(p)
    BY <1>1, PIsAre DEF CacheInv, Progress
  <2> QED
    BY <1>7, <1>8, <1>10, <2>1, Zenon DEF Done
<1>12. \A p \in PIs : p = at => Done(p)'
  BY <1>1, <1>7, <1>8, <1>10, Zenon DEF Done
<1>13. at' = at + 1 /\ ~inHook'
  BY DEF Hook
<1>14. \A p \in PIs : p < at' => Done(p)'
  BY <1>1, <1>11, <1>12, <1>13, PIsAre
<1>15. Progress'
  BY <1>1, <1>7, <1>13, <1>14, PIsAre DEF Hook, CacheInv, Progress
<1> QED
  BY <1>2, <1>6, <1>7, <1>9, <1>15 DEF CacheInv

LEMMA WpsKeeps == ASSUME CacheInv, Wps PROVE CacheInv'
<1>1. PICK has \in BOOLEAN : result' = [result EXCEPT !.has = has, !.wps = IF has THEN Basis ELSE None]
  BY DEF Wps
<1>2. Basis \in Made /\ None \in Made
  BY DEF CacheInv, Typing, Basis, None, Made
<1>3. result'.pi = result.pi /\ result'.has = has /\ result'.wps = (IF has THEN Basis ELSE None)
  BY <1>1 DEF CacheInv, Typing
<1>4. Typing'
  <2>1. result' \in [pi : [PIs -> PiResult], has : BOOLEAN, wps : Made]
    BY <1>1, <1>2 DEF CacheInv, Typing
  <2>2. at' \in 0 .. NumPI + 2
    BY PIsAre DEF Wps
  <2> QED
    BY <2>1, <2>2 DEF Wps, CacheInv, Typing, dataVars, exportVars
<1>5. Times' /\ UpToDate' = UpToDate /\ Basis' = Basis /\ num' = num /\ units' = units /\ hooked' = hooked /\ checked' = checked
  BY DEF Wps, CacheInv, Times, UpToDate, Basis, dataVars
<1>6. \A p \in PIs : Done(p)' <=> Done(p)
  BY <1>3, <1>5 DEF Done, Half, Due
<1>7. AllDone'
  <2>1. \A p \in PIs : Done(p)
    BY PIsAre DEF Wps, CacheInv, Progress
  <2> QED
    BY <1>3, <1>5, <1>6, <2>1 DEF AllDone
<1>8. ~inHook /\ inHook' = inHook /\ at' = NumPI + 2 /\ UpToDate
  BY PIsAre DEF Wps, CacheInv, Progress
<1>9. Progress'
  BY <1>5, <1>7, <1>8, PIsAre DEF Wps, CacheInv, Progress, AllDone
<1>10. Placed'
  BY <1>3, <1>5 DEF CacheInv, Placed
<1> QED
  BY <1>4, <1>5, <1>9, <1>10 DEF CacheInv

\* A caller is done with the analysis, which stays as it is.
LEMMA LeaveKeeps ==
  ASSUME CacheInv, Untouched, at = NumPI + 2, at' = 0, job' = "none", inHook' = inHook,
         logged' \in Nat, emptied' \in Nat
  PROVE  CacheInv'
<1>1. AllDone /\ ~inHook
  BY PIsAre DEF CacheInv, Progress
<1>2. ~inHook'
  BY <1>1
<1>3. Typing'
  BY PIsAre DEF CacheInv, Typing, Untouched, dataVars, analysisVars
<1>4. Progress'
  BY <1>1, <1>2, UntouchedKeeps, PIsAre DEF Progress
<1> QED
  BY <1>3, <1>4, UntouchedKeeps DEF CacheInv

LEMMA ReturnKeeps == ASSUME CacheInv, Return PROVE CacheInv'
<1>1. Untouched /\ logged' \in Nat /\ emptied' \in Nat
  BY DEF Return, Untouched, CacheInv, Typing, exportVars
<1> QED
  BY <1>1, LeaveKeeps DEF Return

LEMMA StartExportKeeps == ASSUME CacheInv, StartExport PROVE CacheInv'
<1>1. Untouched /\ inHook' = inHook /\ at = 0 /\ at' = 0 /\ logged' \in {logged, logged + 1}
  BY DEF StartExport, Untouched, ExportsFrom, CacheInv, Progress
<1>2. emptied' \in Nat /\ logged' \in Nat /\ job' \in {"none", "export"}
  BY <1>1 DEF StartExport, Emptied, CacheInv, Typing
<1>3. ~inHook'
  BY <1>1 DEF CacheInv, Progress
<1>4. Typing'
  BY <1>1, <1>2, PIsAre DEF CacheInv, Typing, Untouched, dataVars, analysisVars
<1>5. Progress'
  BY <1>1, <1>3, UntouchedKeeps, PIsAre DEF CacheInv, Progress
<1> QED
  BY <1>1, <1>4, <1>5, UntouchedKeeps DEF CacheInv

LEMMA WriteFileKeeps == ASSUME CacheInv, WriteFile PROVE CacheInv'
<1>1. Untouched /\ inHook' = inHook /\ emptied' = emptied /\ logged' \in {logged, logged + 1}
  BY DEF WriteFile, Untouched
<1>2. \/ at' = 0 /\ job' = "none"
      \/ UNCHANGED <<at, job, logged>>
  BY DEF WriteFile
<1>3. logged' \in Nat /\ emptied' \in Nat
  BY <1>1 DEF CacheInv, Typing
<1>4. CASE at' = 0 /\ job' = "none"
  BY <1>1, <1>3, <1>4, LeaveKeeps DEF WriteFile
<1>5. CASE UNCHANGED <<at, job, logged>>
  BY <1>1, <1>5, QuietKeeps
<1> QED
  BY <1>2, <1>4, <1>5

LEMMA CacheStep == ASSUME ~Coarse, CacheInv, [Next]_vars PROVE CacheInv'
<1>1. CASE UNCHANGED vars
  <2>1. Untouched
    BY <1>1 DEF vars, Untouched, dataVars, analysisVars
  <2> QED
    BY <1>1, <2>1, QuietKeeps DEF vars
<1> QED
  BY <1>1, ImportKeeps, SetKeeps, ReadKeeps, CheckKeeps, AnalyseKeeps, HookKeeps, WpsKeeps, ReturnKeeps,
     StartExportKeeps, WriteFileKeeps DEF Next

LEMMA CacheAlways == ASSUME ~Coarse PROVE Spec => []CacheInv
  BY CacheInit, CacheStep, PTL DEF Spec

-----------------------------------------------------------------------------
\* Only Return ends a read, and it comes when all is done.
LEMMA OnlyReturnEndsRead ==
  ASSUME CacheInv, [Next]_vars, job = "read", job' = "none"
  PROVE  Return /\ AllDone
<1>1. Return
  BY DEF Next, vars, Import, Set, Read, Check, Analyse, Hook, Wps, StartExport, WriteFile
<1>2. AllDone
  BY <1>1 DEF Return, CacheInv, Progress
<1> QED
  BY <1>1, <1>2

\* What a caller of pilot_analytical_result gets is made from the data and the settings of now, for any
\* number of PIs and whatever rounds came and settings changed before, when the clock never stands still.
THEOREM ReadsAreFresh == ASSUME ~Coarse PROVE Spec => ReadFresh
<1>1. ASSUME CacheInv, [Next]_vars, job = "read", job' = "none"
      PROVE  /\ \A p \in PIs : /\ result.pi[p].readings = IF num[p] >= 2 THEN Basis ELSE None
                               /\ result.pi[p].units = IF units[p] THEN Basis ELSE None
                               /\ result.pi[p].required = result.pi[p].units
                               /\ result.pi[p].fromUser = (hooked /\ units[p])
             /\ info'.has => info'.wps = Basis
  <2>1. AllDone /\ info' = Copied(info)
    BY <1>1, OnlyReturnEndsRead DEF Return
  <2>2. info'.has => info'.wps = Basis
    <3>1. info'.has <=> result.has
      BY <2>1, Zenon DEF Copied
    <3>2. result.has => info'.wps = result.wps
      BY <2>1 DEF Copied
    <3> QED
      BY <2>1, <3>1, <3>2 DEF AllDone
  <2> QED
    BY <2>1, <2>2, Zenon DEF AllDone, Done, Half
<1>2. CacheInv /\ [Next]_vars =>
        ((job = "read" /\ job' = "none") =>
           /\ \A p \in PIs : /\ result.pi[p].readings = IF num[p] >= 2 THEN Basis ELSE None
                             /\ result.pi[p].units = IF units[p] THEN Basis ELSE None
                             /\ result.pi[p].required = result.pi[p].units
                             /\ result.pi[p].fromUser = (hooked /\ units[p])
           /\ info'.has => info'.wps = Basis)
  BY <1>1, Zenon
<1> QED
  BY <1>2, CacheAlways, PTL DEF Spec, ReadFresh

\* A hook finds its own PI done with the data of now.
THEOREM HooksSeeTheirPi == ASSUME ~Coarse PROVE Spec => []HookSeesOwnPi
<1>1. Init => HookSeesOwnPi
  BY DEF Init, HookSeesOwnPi
<1>2. ASSUME CacheInv, HookSeesOwnPi, [Next]_vars PROVE HookSeesOwnPi'
  <2>1. CASE Hook
    BY <1>2, <2>1, HookKeeps DEF HookSeesOwnPi
  <2>2. CASE Return \/ WriteFile
    BY <2>2 DEF Return, WriteFile, HookSeesOwnPi
  <2>3. CASE UNCHANGED hookView
    BY <1>2, <2>3 DEF HookSeesOwnPi
  <2> QED
    BY <1>2, <2>1, <2>2, <2>3 DEF Next, vars, Import, Set, Read, Check, Analyse, Wps, StartExport
<1> QED
  BY <1>1, <1>2, CacheAlways, PTL DEF Spec

-----------------------------------------------------------------------------
\* When a search is not due, what is new is less than a part, and the readings were many then.
LEMMA NotDueIsRecent ==
  ASSUME NEW n \in Nat, NEW last \in Nat, Few <= 2 * Part, ~Due(n, last)
  PROVE  last > Few - 1 /\ (n - last) * Part < last + Part
<1>1. Few \in Nat /\ Part \in Nat /\ Part >= 1
  BY ResultsAssumption
<1> DEFINE q == last \div Part
           d == n - last
<1>2. q \in Nat /\ q * Part <= last /\ last < q * Part + Part
  BY <1>1
<1>3. n > Few /\ n >= last /\ d < q /\ d \in Int
  BY <1>1, <1>2 DEF Due
<1>4. d \in Nat /\ d + 1 <= q
  BY <1>2, <1>3
<1> HIDE DEF q, d
<1>5. (d + 1) * Part <= q * Part
  BY <1>1, <1>2, <1>4
<1>6. d * Part + Part = (d + 1) * Part
  BY <1>1, <1>4
<1>7. d * Part \in Int /\ q * Part \in Int
  BY <1>1, <1>2, <1>4
<1>8. d * Part < last + Part
  BY <1>1, <1>2, <1>5, <1>6, <1>7
<1>9. last > Few - 1
  BY <1>1, <1>2, <1>3, <1>4 DEF d
<1> QED
  BY <1>8, <1>9 DEF d

\* A changepoint leaves enough readings on both sides, and of an analysis that is done the search for it is
\* recent, for every schedule whose limit of few readings is at most two parts (200 and 100 in the code).
THEOREM ChangepointsUsable == ASSUME ~Coarse, Few <= 2 * Part PROVE Spec => []ChangepointUsable
<1>1. ASSUME CacheInv PROVE ChangepointUsable
  <2> SUFFICES ASSUME NEW p \in PIs
               PROVE  LET cp == result.pi[p].changepoint
                      IN /\ cp /= 0 => cp >= DetectMin /\ num[p] - cp >= DetectMin
                         /\ (job = "read" /\ at = NumPI + 2 /\ num[p] > DetectMin) =>
                              \/ checked[p] = num[p]
                              \/ checked[p] > Few - 1 /\ (num[p] - checked[p]) * Part < checked[p] + Part
    BY Zenon DEF ChangepointUsable
  <2>1. result.pi[p].changepoint /= 0 =>
          result.pi[p].changepoint >= DetectMin /\ num[p] - result.pi[p].changepoint >= DetectMin
    BY <1>1 DEF CacheInv, Placed
  <2>2. ASSUME at = NumPI + 2, num[p] > DetectMin, checked[p] # num[p]
        PROVE  checked[p] > Few - 1 /\ (num[p] - checked[p]) * Part < checked[p] + Part
    <3>1. ~Due(num[p], checked[p])
      BY <1>1, <2>2 DEF CacheInv, Progress, AllDone, Done, Half
    <3>2. num[p] \in Nat /\ checked[p] \in Nat
      BY <1>1 DEF CacheInv, Typing
    <3> QED
      BY <3>1, <3>2, NotDueIsRecent
  <2> QED
    BY <2>1, <2>2, Zenon
<1> QED
  BY <1>1, CacheAlways, PTL

-----------------------------------------------------------------------------
(* The export. These two need nothing of the clock. *)

Took(d, i) == logs[d].from < i /\ i <= logs[d].to

Export == [from : Nat, to : Nat, kept : Nat, end : Endings]

\* What the exports took out of the buffer lies one after the other up to emptied.
LogInv ==
  /\ emptied \in Nat /\ logged \in Nat /\ emptied <= logged
  /\ logs \in Seq(Export)
  /\ \A d \in DOMAIN logs : logs[d].to <= emptied
  /\ LogKept

LEMMA LogStep == ASSUME LogInv, [Next]_vars PROVE LogInv'
<1>1. CASE UNCHANGED <<logs, emptied>> /\ logged' \in {logged, logged + 1}
  BY <1>1 DEF LogInv, LogKept
<1>2. CASE StartExport
  <2>1. PICK end \in Endings, kept \in emptied .. logged :
          /\ end = "errno" => kept = emptied
          /\ end = "written" => kept = logged
          /\ emptied' = IF end = "errno" THEN emptied ELSE Emptied(end)
          /\ logs' = Append(logs, [from |-> emptied, to |-> emptied', kept |-> kept, end |-> end])
          /\ logged' = IF Failed(end) THEN logged + 1 ELSE logged
    BY <1>2 DEF StartExport
  <2> DEFINE last == Len(logs) + 1
             new == [from |-> emptied, to |-> emptied', kept |-> kept, end |-> end]
  <2>2. /\ emptied' \in Nat /\ logged' \in Nat /\ emptied <= emptied' /\ emptied' <= logged'
        /\ end /= "unclosed" => emptied' <= kept
    BY <2>1 DEF LogInv, Emptied, Failed, Endings
  <2>3. new \in Export
    BY <2>2 DEF LogInv, Export
  <2>4. /\ logs' \in Seq(Export) /\ DOMAIN logs = 1 .. last - 1 /\ DOMAIN logs' = 1 .. last
        /\ last \in Nat /\ logs'[last] = new
        /\ \A d \in DOMAIN logs : logs'[d] = logs[d]
    <3> HIDE DEF new
    <3> QED BY <2>1, <2>3 DEF LogInv, new
  <2>5. \A d \in DOMAIN logs : d \in DOMAIN logs' /\ logs'[d] = logs[d] /\ d < last
    BY <2>4
  <2>6. \A d \in DOMAIN logs' : d \in DOMAIN logs \/ d = last
    BY <2>4
  <2>7. /\ new.from = emptied /\ new.to = emptied' /\ new.kept = kept /\ new.end = end
        /\ last \in DOMAIN logs'
    BY <2>4
  <2> HIDE DEF last, new
  <2>8. \A d \in DOMAIN logs' : logs'[d].to <= emptied'
    <3>1. \A d \in DOMAIN logs : logs[d] \in Export
      BY DEF LogInv
    <3>2. \A d \in DOMAIN logs : logs[d].to \in Nat /\ logs[d].to <= emptied
      BY <3>1 DEF LogInv, Export
    <3> QED BY <2>2, <2>4, <2>5, <2>6, <2>7, <3>2 DEF LogInv
  <2>9. ASSUME NEW i \in 1 .. emptied'
        PROVE  \E d \in DOMAIN logs' : /\ logs'[d].from < i /\ i <= logs'[d].to
                                       /\ (i <= logs'[d].kept \/ logs'[d].end = "unclosed")
    <3>1. CASE i <= emptied
      <4>1. PICK d \in DOMAIN logs : Took(d, i) /\ (i <= logs[d].kept \/ logs[d].end = "unclosed")
        BY <3>1, <2>2 DEF LogInv, LogKept, Took
      <4>2. logs[d].from < i /\ i <= logs[d].to
        BY <4>1 DEF Took
      <4> QED BY <4>1, <4>2, <2>5
    <3>2. CASE emptied < i
      <4>1. i <= kept \/ end = "unclosed"
        BY <2>1, <2>2, <3>2 DEF LogInv
      <4>2. logs'[last].from < i /\ i <= logs'[last].to
        BY <2>2, <2>4, <2>7, <3>2
      <4>3. i <= logs'[last].kept \/ logs'[last].end = "unclosed"
        BY <4>1, <2>4, <2>7
      <4> QED BY <4>2, <4>3, <2>7
    <3> QED BY <2>2, <3>1, <3>2 DEF LogInv
  <2>10. ASSUME NEW d \in DOMAIN logs', NEW e \in DOMAIN logs', d < e
         PROVE  logs'[d].to <= logs'[e].from
    <3>1. d \in DOMAIN logs
      BY <2>4, <2>10 DEF last
    <3>2. CASE e \in DOMAIN logs
      BY <2>5, <2>10, <3>1, <3>2 DEF LogInv, LogKept
    <3>3. CASE e = last
      BY <2>4, <2>5, <2>7, <3>1, <3>3 DEF LogInv
    <3> QED BY <2>6, <3>2, <3>3
  <2>11. LogKept'
    BY <2>9, <2>10 DEF LogKept
  <2> QED BY <2>2, <2>4, <2>8, <2>11 DEF LogInv
<1> QED
  BY <1>1, <1>2 DEF Next, vars, exportVars, Import, Set, Read, Check, Analyse, Hook, Wps, Return, WriteFile

(* Each message is in the buffer or in the session_log.txt of the one export that took it out, if the
   file could be closed: no other failure of any export loses a message. *)
THEOREM MessagesKept == Spec => []LogKept
<1>1. Init => LogInv
  BY DEF Init, LogInv, LogKept
<1>2. LogInv => LogKept
  BY DEF LogInv
<1> QED
  BY <1>1, <1>2, LogStep, PTL DEF Spec

-----------------------------------------------------------------------------
\* The files written so far are the first of those that are made from the data of now.
ExportInv ==
  /\ files \in Seq({Contents[i] : i \in 1 .. 6}) /\ Len(files) <= 6
  /\ \A i \in 1 .. Len(files) : files[i] = Contents[i]
  /\ files /= <<>> => job = "export" /\ at = NumPI + 2

LEMMA ExportStep == ASSUME CacheInv, ExportInv, [Next]_vars PROVE ExportInv'
<1>1. CASE files = <<>> /\ files' = <<>>
  BY <1>1 DEF ExportInv
<1>2. CASE WriteFile
  <2>1. Contents' = Contents /\ Len(Contents) = 6
    BY <1>2 DEF WriteFile, Contents, dataVars, analysisVars
  <2>2. CASE files' = <<>>
    BY <2>2 DEF ExportInv
  <2>3. CASE files' = Append(files, Contents[Len(files) + 1]) /\ Len(files) /= 6 /\ UNCHANGED <<job, at>>
    <3> DEFINE F == {Contents[i] : i \in 1 .. 6}
               f == Contents[Len(files) + 1]
    <3>0. files \in Seq(F) /\ Len(files) <= 6
      BY DEF ExportInv
    <3>1. Len(files) \in Nat /\ Len(files) + 1 \in 1 .. 6
      <4>1. Len(files) /= 6
        BY <2>3
      <4> HIDE DEF F
      <4>2. Len(files) \in Nat
        BY <3>0
      <4>3. Len(files) <= 6
        BY <3>0
      <4>4. \A n \in Nat : n /= 6 /\ n <= 6 => n + 1 \in 1 .. 6
        OBVIOUS
      <4> HIDE DEF f
      <4> QED
        BY <4>1, <4>2, <4>3, <4>4, Zenon
    <3>2. files \in Seq(F) /\ f \in F
      BY <3>1 DEF ExportInv
    <3>3. \A i \in 1 .. Len(files) : files[i] = Contents[i]
      BY DEF ExportInv
    <3>4. files' = Append(files, f)
      BY <2>3
    <3> HIDE DEF F
    <3>5. files' \in Seq(F) /\ Len(files') = Len(files) + 1
      BY <3>2, <3>4
    <3>6. \A i \in 1 .. Len(files') : files'[i] = Contents[i]
      BY <3>2, <3>3, <3>4, <3>5
    <3>7. F = {Contents'[i] : i \in 1 .. 6}
      BY <2>1 DEF F
    <3>8. job = "export" /\ at = NumPI + 2
      BY <1>2 DEF WriteFile
    <3> QED
      BY <2>1, <2>3, <3>1, <3>5, <3>6, <3>7, <3>8 DEF ExportInv
  <2> QED
    BY <1>2, <2>1, <2>2, <2>3 DEF WriteFile
<1>3. CASE files /= <<>> /\ UNCHANGED vars
  <2>1. Contents' = Contents /\ UNCHANGED <<files, job, at>>
    BY <1>3 DEF vars, Contents, dataVars, analysisVars
  <2> QED
    BY <2>1 DEF ExportInv
<1>4. CASE files /= <<>> /\ Next /\ ~WriteFile
  <2>1. job = "export" /\ at = NumPI + 2
    BY <1>4 DEF ExportInv
  <2>2. at # 0 /\ at \notin PIs /\ at # NumPI + 1
    BY <2>1, PIsAre
  <2>3. ~inHook
    BY <2>2 DEF CacheInv, Progress
  <2> QED
    BY <1>4, <2>1, <2>2, <2>3 DEF Next, Import, Set, Read, Check, Analyse, Hook, Wps, Return, StartExport
<1> QED
  <2>1. WriteFile \/ UNCHANGED files
    BY DEF Next, vars, exportVars, Import, Set, Read, Check, Analyse, Hook, Wps, Return, StartExport
  <2> QED
    BY <1>1, <1>2, <1>3, <1>4, <2>1

\* The files of an export are of the same data, those of the analysis too.
THEOREM ExportsConsistent == ASSUME ~Coarse PROVE Spec => []ExportConsistent
<1>1. Init => ExportInv
  BY DEF Init, ExportInv
<1>2. ASSUME CacheInv, ExportInv PROVE ExportConsistent
  <2> DEFINE Data(f) == IF f.name \in {"wps_analysis", "pi_results"}
                        THEN {f.of.wps.data} \union {f.of.pi[p].readings.data : p \in PIs}
                                             \union {f.of.pi[p].units.data : p \in PIs}
                        ELSE {f.of}
             D == (UNION {Data(files[i]) : i \in DOMAIN files}) \ {0}
  <2>1. ASSUME NEW i \in DOMAIN files PROVE Data(files[i]) \subseteq {0, version}
    <3>1. i \in 1 .. Len(files) /\ i \in 1 .. 6 /\ files[i] = Contents[i] /\ files /= <<>>
      BY <1>2, <2>1 DEF ExportInv
    <3>2. AllDone
      BY <1>2, <3>1 DEF ExportInv, CacheInv, Progress
    <3>3. \A p \in PIs : result.pi[p].readings.data \in {0, version} /\ result.pi[p].units.data \in {0, version}
      BY <3>2 DEF AllDone, Done, Half, Basis, None
    <3>4. CASE i \in {1, 6}
      <4>1. /\ files[i].name \in {"wps_analysis", "pi_results"}
            /\ files[i].of.pi = result.pi /\ files[i].of.wps = IF result.has THEN result.wps ELSE None
        BY <3>1, <3>4 DEF Contents
      <4>2. files[i].of.wps.data \in {0, version}
        BY <3>2, <4>1 DEF AllDone, Basis, None
      <4>3. \A p \in PIs : /\ files[i].of.pi[p].readings.data \in {0, version}
                            /\ files[i].of.pi[p].units.data \in {0, version}
        BY <3>3, <4>1
      <4>4. Data(files[i]) = {files[i].of.wps.data} \union {files[i].of.pi[p].readings.data : p \in PIs}
                                                   \union {files[i].of.pi[p].units.data : p \in PIs}
        BY <4>1
      <4> HIDE DEF Data
      <4> QED
        BY <4>2, <4>3, <4>4
    <3>5. CASE i \in 2 .. 5
      <4>1. files[i].name \notin {"wps_analysis", "pi_results"} /\ files[i].of = version
        BY <3>1, <3>5 DEF Contents
      <4> QED
        BY <4>1
    <3> HIDE DEF Data
    <3> QED
      BY <3>1, <3>4, <3>5
  <2>2. D \subseteq {version}
    <3> HIDE DEF Data
    <3> QED
      BY <2>1
  <2> HIDE DEF D
  <2>3. Cardinality(D) <= Cardinality({version}) /\ Cardinality({version}) = 1 /\ Cardinality(D) \in Nat
    <3>1. IsFiniteSet({version}) /\ Cardinality({version}) = 1
      BY FS_Singleton
    <3>2. D \in SUBSET {version}
      BY <2>2, Zenon
    <3>3. IsFiniteSet(D) /\ Cardinality(D) <= Cardinality({version})
      BY <3>1, <3>2, FS_Subset
    <3> QED
      BY <3>1, <3>3, FS_CardinalityType, Zenon
  <2>4. Cardinality(D) <= 1
    BY <2>3
  <2> QED
    BY <2>4, Zenon DEF ExportConsistent, D
<1> QED
  BY <1>1, <1>2, ExportStep, CacheAlways, PTL DEF Spec
=============================================================================
