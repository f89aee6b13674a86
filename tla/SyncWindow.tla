------------------------------ MODULE SyncWindow ------------------------------
(***************************************************************************)
(* The rolling window of SyncAccount, day by day, for one account and one  *)
(* service.                                                                *)
(*                                                                         *)
(* Each sync asks the provider for the days from today - SyncWindowDays to *)
(* today and upserts the answer.  The provider goes on revising a day for  *)
(* FinalAfter days, then the line is final.  Syncs fail, and the server is *)
(* down at times, but never for so long that MaxGap days lie between two   *)
(* successful syncs.  The question is which of the stored days can be      *)
(* relied on.  The days are numbered from the first sync that is possible, *)
(* day 0; those before it have negative numbers.                           *)
(***************************************************************************)
EXTENDS Integers

CONSTANTS
    SyncWindowDays, \* syncWindowDays, 14 in the code
    FinalAfter,     \* days for which a provider revises the costs of a day
    MaxGap,         \* days between two successful syncs, at most
    InclusiveEnd,   \* GCP and Azure answer the last day of a range, AWS not
    MayWithdraw,    \* may a revision take a line out of the bill?
    LastDay,        \* bound: the day on which the model ends
    MaxRevision,    \* bound: revisions of one line
    NoDay           \* no sync yet

ASSUME WindowAssumption ==
    /\ SyncWindowDays \in Nat
    /\ FinalAfter \in Nat
    /\ MaxGap \in Nat
    /\ LastDay \in Nat
    /\ MaxRevision \in Nat
    /\ InclusiveEnd \in BOOLEAN
    /\ MayWithdraw \in BOOLEAN
    /\ NoDay \notin Int

VARIABLES
    today,     \* the UTC day
    bill,      \* day -> revision of its line, 0 where there is none
    stored,    \* cost_records: day -> revision stored, 0 where there is no row
    step,      \* where the running sync stands
    opened,    \* the day on which the running sync computed its window
    answer,    \* what the provider answered to it
    lastSync,  \* the day on which the last successful sync opened its window
    begin      \* history: the first day any successful sync asked for

vars == <<today, bill, stored, step, opened, answer, lastSync, begin>>

Day      == (0 - SyncWindowDays)..LastDay
Revision == 0..MaxRevision
NoLines  == [d \in Day |-> 0]

\* variant: "just since last sync", what the comment of syncWindowDays rejects
SinceLastSync(day) ==
    IF lastSync = NoDay THEN day - SyncWindowDays ELSE lastSync

\* variant: one day too many
LongerWindow(day) == day - SyncWindowDays - 1

WindowStart(day) == day - SyncWindowDays

InWindow(d, day) ==
    /\ WindowStart(day) <= d
    /\ d < day \/ (InclusiveEnd /\ d = day)

Init ==
    /\ today    = 0
    /\ bill     = NoLines
    /\ stored   = NoLines
    /\ step     = "idle"
    /\ opened   = NoDay
    /\ answer   = NoLines
    /\ lastSync = NoDay
    /\ begin    = NoDay

(* SyncAccount computes its window, asks, and stores; it may be slow, so   *)
(* that days pass in between.                                              *)
OpenWindow ==
    /\ step = "idle"
    /\ opened' = today
    /\ step' = "fetch"
    /\ UNCHANGED <<today, bill, stored, answer, lastSync, begin>>

FetchCosts ==
    /\ step = "fetch"
    /\ answer' = [d \in Day |-> IF InWindow(d, opened) THEN bill[d] ELSE 0]
    /\ step' = "store"
    /\ UNCHANGED <<today, bill, stored, opened, lastSync, begin>>

\* variant: rows that are there are not updated (DoNothing)
InsertMissing(old, lines) ==
    [d \in Day |-> IF old[d] # 0 THEN old[d] ELSE lines[d]]

(* The upsert writes the lines of the answer.  It does not remove a row    *)
(* that the answer lacks.                                                  *)
Upserted(old, lines) ==
    [d \in Day |-> IF lines[d] = 0 THEN old[d] ELSE lines[d]]

StoreCosts ==
    /\ step = "store"
    /\ stored'   = Upserted(stored, answer)
    /\ lastSync' = opened
    /\ begin'    = IF begin = NoDay THEN WindowStart(opened) ELSE begin
    /\ step'     = "idle"
    /\ opened'   = NoDay
    /\ answer'   = NoLines
    /\ UNCHANGED <<today, bill>>

(* A sync fails, or the server stops in the middle of it.                  *)
SyncFails ==
    /\ step # "idle"
    /\ step'   = "idle"
    /\ opened' = NoDay
    /\ answer' = NoLines
    /\ UNCHANGED <<today, bill, stored, lastSync, begin>>

(* The provider.                                                           *)
Revisable(d) == d <= today /\ today <= d + FinalAfter

ReviseBill(d) ==
    /\ Revisable(d)
    /\ bill[d] < MaxRevision
    /\ bill' = [bill EXCEPT ![d] = @ + 1]
    /\ UNCHANGED <<today, stored, step, opened, answer, lastSync, begin>>

WithdrawLine(d) ==
    /\ MayWithdraw
    /\ Revisable(d)
    /\ bill[d] # 0
    /\ bill' = [bill EXCEPT ![d] = 0]
    /\ UNCHANGED <<today, stored, step, opened, answer, lastSync, begin>>

(* A day passes, unless it would leave too large a gap between two         *)
(* successful syncs, or the running sync takes that long itself.           *)
NextDay ==
    /\ today < LastDay
    /\ \A day \in {lastSync, opened} \ {NoDay} : today + 1 - day <= MaxGap
    /\ today' = today + 1
    /\ UNCHANGED <<bill, stored, step, opened, answer, lastSync, begin>>

Next ==
    \/ OpenWindow
    \/ FetchCosts
    \/ StoreCosts
    \/ SyncFails
    \/ \E d \in Day : ReviseBill(d) \/ WithdrawLine(d)
    \/ NextDay

Spec == Init /\ [][Next]_vars

-------------------------------------------------------------------------------
(* Types, and the order of the days the model remembers.                   *)
TypeOK ==
    /\ today    \in 0..LastDay
    /\ bill     \in [Day -> Revision]
    /\ stored   \in [Day -> Revision]
    /\ step     \in {"idle", "fetch", "store"}
    /\ opened   \in (IF step = "idle" THEN {NoDay} ELSE 0..today)
    /\ answer   \in [Day -> Revision]
    /\ lastSync \in 0..today \cup {NoDay}
    /\ begin    \in Day \cup {NoDay}

(* Re-fetching the window "keeps already-stored numbers accurate" (the     *)
(* comment of syncWindowDays): of every day since the first window, what   *)
(* is stored is the bill, once a sync has succeeded after the day became   *)
(* final.  No day falls out of the window with an outdated amount.         *)
Settled(d) ==
    /\ lastSync # NoDay
    /\ begin <= d
    /\ d + FinalAfter < lastSync

Accurate == \A d \in Day : Settled(d) => stored[d] = bill[d]

(* The same for the lines the final bill has, whatever the revisions did   *)
(* before: a line that was taken out of the bill and came back is stored   *)
(* as it came back (upsertCostRecords).                                    *)
BilledAccurate ==
    \A d \in Day : Settled(d) /\ bill[d] # 0 => stored[d] = bill[d]
===============================================================================
