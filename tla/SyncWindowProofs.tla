--------------------------- MODULE SyncWindowProofs ---------------------------
(* Theorems of SyncWindow, for every length of the window.                 *)
EXTENDS SyncWindow, TLAPS

LEMMA InitType == Init => TypeOK
BY WindowAssumption DEF Init, TypeOK, NoLines, Day, Revision

LEMMA StepType == TypeOK /\ [Next]_vars => TypeOK'
<1> SUFFICES ASSUME TypeOK, [Next]_vars PROVE TypeOK'
  OBVIOUS
<1> USE WindowAssumption DEF TypeOK
<1>1. NoLines \in [Day -> Revision]
  BY DEF NoLines, Revision
<1>2. CASE OpenWindow
  BY <1>2 DEF OpenWindow
<1>3. CASE FetchCosts
  BY <1>3 DEF FetchCosts, Revision
<1>4. CASE StoreCosts
  <2>1. opened \in 0..today
    BY <1>4 DEF StoreCosts
  <2>2. WindowStart(opened) \in Day
    BY <2>1 DEF WindowStart, Day
  <2>3. Upserted(stored, answer) \in [Day -> Revision]
    BY DEF Upserted
  <2> QED
    BY <1>1, <1>4, <2>1, <2>2, <2>3 DEF StoreCosts
<1>5. CASE SyncFails
  BY <1>1, <1>5 DEF SyncFails
<1>6. ASSUME NEW d \in Day, ReviseBill(d) PROVE TypeOK'
  BY <1>6 DEF ReviseBill, Revision
<1>7. ASSUME NEW d \in Day, WithdrawLine(d) PROVE TypeOK'
  BY <1>7 DEF WithdrawLine, Revision
<1>8. CASE NextDay
  BY <1>8 DEF NextDay
<1>9. CASE UNCHANGED vars
  BY <1>9 DEF vars
<1> QED
  BY <1>2, <1>3, <1>4, <1>5, <1>6, <1>7, <1>8, <1>9 DEF Next

(* The variables of SyncWindow have their types, and the days they name    *)
(* are not in the future (SyncAccount).                                    *)
THEOREM TypeCorrect == Spec => []TypeOK
BY InitType, StepType, PTL DEF Spec

-------------------------------------------------------------------------------
(* Accuracy of the stored days.                                            *)

(* On a day, the line of d can no longer change.                           *)
Final(d, day) == d + FinalAfter < day

(* The days the model remembers are in order, and not too far back.        *)
Recent ==
    /\ \A day \in {lastSync, opened} \ {NoDay} : today - day <= MaxGap
    /\ opened # NoDay /\ lastSync # NoDay => lastSync <= opened
    /\ begin = NoDay <=> lastSync = NoDay

(* The answer to a sync has the lines of its window that were final when   *)
(* it was opened, and none of the days before.                             *)
AnswerIsFinal ==
    step = "store" => \A d \in Day :
        /\ WindowStart(opened) <= d /\ Final(d, opened) => answer[d] = bill[d]
        /\ d < WindowStart(opened) => answer[d] = 0

AccurateInv == TypeOK /\ Recent /\ AnswerIsFinal /\ BilledAccurate

(* A line that is final on a day that has come stays as it is.             *)
LEMMA FinalStays ==
    ASSUME TypeOK, [Next]_vars,
           NEW d \in Day, NEW day \in 0..today, Final(d, day)
    PROVE  bill'[d] = bill[d]
<1> USE WindowAssumption DEF TypeOK
<1>1. ASSUME NEW e \in Day, ReviseBill(e) \/ WithdrawLine(e)
      PROVE  bill'[d] = bill[d]
  BY <1>1 DEF ReviseBill, WithdrawLine, Revisable, Final, Day
<1> QED
  BY <1>1
  DEF Next, vars, OpenWindow, FetchCosts, StoreCosts, SyncFails, NextDay

(* The window covers the gap between two syncs and the days on which a     *)
(* line still changes: what leaves the window was final at the last sync.  *)
LEMMA StepAccurate ==
    ASSUME MaxGap + FinalAfter <= SyncWindowDays
    PROVE  AccurateInv /\ [Next]_vars => AccurateInv'
<1> SUFFICES ASSUME AccurateInv, [Next]_vars PROVE AccurateInv'
  OBVIOUS
<1> USE WindowAssumption
<1>1. TypeOK /\ TypeOK'
  BY StepType DEF AccurateInv
<1>2. Recent'
  <2> USE <1>1 DEF AccurateInv, Recent, TypeOK
  <2>1. CASE StoreCosts
    BY <2>1 DEF StoreCosts, WindowStart
  <2>2. CASE NextDay
    BY <2>2 DEF NextDay
  <2>3. CASE OpenWindow
    BY <2>3 DEF OpenWindow
  <2> QED
    BY <2>1, <2>2, <2>3
    DEF Next, vars, FetchCosts, SyncFails, ReviseBill, WithdrawLine
<1>3. AnswerIsFinal'
  <2> SUFFICES ASSUME step' = "store", NEW d \in Day
               PROVE  /\ WindowStart(opened') <= d /\ Final(d, opened')
                            => answer'[d] = bill'[d]
                      /\ d < WindowStart(opened') => answer'[d] = 0
    BY DEF AnswerIsFinal, WindowStart, Final
  <2>1. CASE FetchCosts
    <3>1. opened \in 0..today /\ opened' = opened /\ UNCHANGED bill
      BY <1>1, <2>1 DEF FetchCosts, TypeOK
    <3> QED
      BY <1>1, <2>1, <3>1
      DEF FetchCosts, InWindow, WindowStart, Final, Day, TypeOK
  <2>2. CASE ~FetchCosts
    <3>1. step = "store" /\ opened' = opened /\ answer' = answer
      BY <2>2 DEF Next, vars, OpenWindow, StoreCosts, SyncFails, ReviseBill,
                  WithdrawLine, NextDay
    <3>2. opened \in 0..today
      BY <1>1, <3>1 DEF TypeOK
    <3>3. Final(d, opened) => bill'[d] = bill[d]
      BY <1>1, <3>2, FinalStays
    <3> QED
      BY <3>1, <3>3 DEF AccurateInv, AnswerIsFinal
  <2> QED
    BY <2>1, <2>2
<1>4. BilledAccurate'
  <2> SUFFICES ASSUME lastSync' # NoDay, NEW d \in Day,
                      begin' <= d, Final(d, lastSync'), bill'[d] # 0
               PROVE  stored'[d] = bill'[d]
    BY DEF BilledAccurate, Settled, Final
  <2>1. CASE StoreCosts
    <3>1. /\ step = "store" /\ opened \in 0..today /\ lastSync' = opened
          /\ stored' = Upserted(stored, answer)
          /\ begin' = IF begin = NoDay THEN WindowStart(opened) ELSE begin
          /\ bill' = bill
      BY <1>1, <2>1 DEF StoreCosts, TypeOK
    \* a day of the window
    <3>2. CASE WindowStart(opened) <= d
      <4>1. answer[d] = bill[d]
        BY <3>1, <3>2 DEF AccurateInv, AnswerIsFinal
      <4> QED
        BY <3>1, <4>1 DEF Upserted
    \* a day that has left the window was final at the sync before
    <3>3. CASE d < WindowStart(opened)
      <4>1. begin # NoDay /\ lastSync # NoDay /\ begin' = begin
        BY <1>1, <3>1, <3>3
        DEF AccurateInv, Recent, WindowStart, Day, TypeOK
      <4>2. lastSync \in 0..today /\ opened - lastSync <= MaxGap
        BY <1>1, <3>1, <4>1 DEF AccurateInv, Recent, TypeOK
      <4>3. Final(d, lastSync)
        BY <3>1, <3>3, <4>2 DEF Final, WindowStart, Day
      <4>4. stored[d] = bill[d]
        BY <3>1, <4>1, <4>3 DEF AccurateInv, BilledAccurate, Settled, Final
      <4>5. answer[d] = 0
        BY <3>1, <3>3 DEF AccurateInv, AnswerIsFinal
      <4> QED
        BY <3>1, <4>4, <4>5 DEF Upserted
    <3>4. WindowStart(opened) \in Int /\ d \in Int
      BY <3>1 DEF WindowStart, Day
    <3> QED
      BY <3>2, <3>3, <3>4
  <2>2. CASE ~StoreCosts
    <3>1. /\ lastSync' = lastSync /\ begin' = begin
          /\ stored' = stored
      BY <2>2 DEF Next, vars, OpenWindow, FetchCosts, SyncFails, ReviseBill,
                  WithdrawLine, NextDay
    <3>2. lastSync \in 0..today
      BY <1>1, <3>1 DEF TypeOK
    <3>3. bill'[d] = bill[d]
      BY <1>1, <3>1, <3>2, FinalStays
    <3> QED
      BY <3>1, <3>3 DEF AccurateInv, BilledAccurate, Settled, Final
  <2> QED
    BY <2>1, <2>2
<1> QED
  BY <1>1, <1>2, <1>3, <1>4 DEF AccurateInv

LEMMA InitAccurate == Init => AccurateInv
BY InitType DEF Init, AccurateInv, Recent, AnswerIsFinal, BilledAccurate,
                Settled, NoLines

(* If the window is at least as long as the largest gap between successful *)
(* syncs and the days of revision together, the stored number of a line of *)
(* the final bill is the billed one (the comment of syncWindowDays).       *)
THEOREM WindowKeepsBilledAccurate ==
    ASSUME MaxGap + FinalAfter <= SyncWindowDays
    PROVE  Spec => []BilledAccurate
<1>1. AccurateInv /\ [Next]_vars => AccurateInv'
  BY StepAccurate
<1>2. AccurateInv => BilledAccurate
  BY DEF AccurateInv
<1> QED
  BY <1>1, <1>2, InitAccurate, PTL DEF Spec

-------------------------------------------------------------------------------
(* Where no line is ever taken out of a bill, all stored days are accurate. *)

(* Nothing is stored or about to be stored that is not billed.             *)
Billed == \A d \in Day : bill[d] = 0 => stored[d] = 0 /\ answer[d] = 0

LEMMA StepBilled ==
    ASSUME ~MayWithdraw
    PROVE  TypeOK /\ Billed /\ [Next]_vars => Billed'
<1> SUFFICES ASSUME TypeOK, Billed, [Next]_vars PROVE Billed'
  OBVIOUS
<1> USE WindowAssumption DEF Billed, TypeOK, Revision
<1>1. CASE FetchCosts
  BY <1>1 DEF FetchCosts
<1>2. CASE StoreCosts
  BY <1>2 DEF StoreCosts, Upserted, NoLines
<1>3. CASE SyncFails
  BY <1>3 DEF SyncFails, NoLines
<1>4. ASSUME NEW e \in Day, ReviseBill(e) PROVE Billed'
  BY <1>4 DEF ReviseBill
<1>5. \A e \in Day : ~WithdrawLine(e)
  BY DEF WithdrawLine
<1> QED
  BY <1>1, <1>2, <1>3, <1>4, <1>5 DEF Next, vars, OpenWindow, NextDay

(* The claim of the comment of syncWindowDays, under what it takes: lines  *)
(* are revised but not withdrawn, and the window is long enough.           *)
THEOREM WindowKeepsAccurate ==
    ASSUME ~MayWithdraw, MaxGap + FinalAfter <= SyncWindowDays
    PROVE  Spec => []Accurate
<1>1. Init => Billed
  BY DEF Init, Billed, NoLines
<1>2. TypeOK /\ Billed /\ [Next]_vars => Billed'
  BY StepBilled
<1>3. BilledAccurate /\ Billed => Accurate
  BY DEF BilledAccurate, Billed, Accurate
<1>4. Spec => []BilledAccurate
  BY WindowKeepsBilledAccurate
<1> QED
  BY <1>1, <1>2, <1>3, <1>4, TypeCorrect, PTL DEF Spec
===============================================================================
