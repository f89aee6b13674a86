-------------------------------- MODULE CronLoop -------------------------------
(***************************************************************************)
(* Who gets a turn: the scheduler over time.                               *)
(*                                                                         *)
(* Start registers SyncAll with the cron and starts one run at once.  Each *)
(* tick starts a further run in a goroutine of its own, whether or not the *)
(* earlier ones are over.  A run lists the active accounts once, in the    *)
(* order of their ids, and deals with them one by one; whatever goes wrong *)
(* with one is stamped on its row and the run goes on to the next.  A call *)
(* of a provider has no deadline: a run whose call is never answered hangs *)
(* until the process ends, and the accounts behind it wait for another run.*)
(*                                                                         *)
(* What a sync stores is the subject of CostSync.  Here an account is      *)
(* listed, fetched and stamped, and the question is whether its turn       *)
(* comes, again and again.                                                 *)
(***************************************************************************)
EXTENDS Integers, FiniteSetsExt

CONSTANTS
    MaxAccount,  \* bound: the accounts, in the order of their ids
    LiveAccount, \* those whose provider has an adapter
    Run          \* bound: runs of SyncAll that are getting on at a time; the
                 \* next tick may take the place of one that hangs

Account == 1..MaxAccount

ASSUME LiveAssumption == MaxAccount \in Nat /\ LiveAccount \subseteq Account

(* What SYNC_INTERVAL_MINUTES may hold.  Without a value or with one that  *)
(* is no number the interval is 60 minutes; zero and less are ticks every  *)
(* second; a duration too long to be written down is refused by AddFunc.   *)
Setting == {"unset", "notANumber", "minutes", "zeroOrLess", "tooLong"}

VARIABLES
    cron,   \* "down" without a process, else "ticking" or "unscheduled"
    active, \* the accounts that are active; a deleted one is not
    silent, \* the accounts whose provider takes a request and never answers
    pc,     \* where each run stands
    left    \* the accounts a run has listed and not yet dealt with

world == <<cron, active, silent>>
runs  == <<pc, left>>
vars  == <<world, runs>>

(* The runs that are neither over nor stuck for ever.                      *)
GettingOn == {r \in Run : pc[r] \notin {"idle", "hung"}}

(* The account a run is dealing with is the first of those left.           *)
First(r) == Min(left[r])
Turn(r, a) == left[r] # {} /\ First(r) = a

Goto(r, step) == pc' = [pc EXCEPT ![r] = step]

Init ==
    /\ cron = "down"
    /\ active \in SUBSET Account
    /\ silent = {}
    /\ pc   = [r \in Run |-> "idle"]
    /\ left = [r \in Run |-> {}]

-------------------------------------------------------------------------------
(* Start and the cron *)

AddFunc(setting) == IF setting = "tooLong" THEN "unscheduled" ELSE "ticking"

\* variant: Start does not return with the error of AddFunc
StartUnchecked(setting, r) ==
    /\ cron = "down"
    /\ cron' = AddFunc(setting)
    /\ Goto(r, "list")
    /\ UNCHANGED <<active, silent, left>>

(* main loads the configuration and calls Start: the run at boot is only   *)
(* started if the cron took the interval.                                  *)
Start(setting, r) ==
    /\ cron = "down"
    /\ cron' = AddFunc(setting)
    /\ IF cron' = "ticking" THEN Goto(r, "list") ELSE UNCHANGED pc
    /\ UNCHANGED <<active, silent, left>>

Tick(r) ==
    /\ cron = "ticking"
    /\ r \notin GettingOn
    /\ left' = [left EXCEPT ![r] = {}]
    /\ Goto(r, "list")
    /\ UNCHANGED world

(* The process ends in the middle of whatever its runs do.                 *)
Stop ==
    /\ cron # "down"
    /\ cron' = "down"
    /\ pc'   = [r \in Run |-> "idle"]
    /\ left' = [r \in Run |-> {}]
    /\ UNCHANGED <<active, silent>>

-------------------------------------------------------------------------------
(* A run of SyncAll *)

\* variant: the query has no condition on active
ListEveryAccount(r) ==
    /\ pc[r] = "list"
    /\ left' = [left EXCEPT ![r] = Account]
    /\ Goto(r, "next")
    /\ UNCHANGED world

ListAccounts(r) ==
    /\ pc[r] = "list"
    /\ left' = [left EXCEPT ![r] = active]
    /\ Goto(r, "next")
    /\ UNCHANGED world

(* The query fails: the run is over before it began.                       *)
ListFails(r) ==
    /\ pc[r] = "list"
    /\ Goto(r, "idle")
    /\ UNCHANGED <<world, left>>

EndRun(r) ==
    /\ pc[r] = "next"
    /\ left[r] = {}
    /\ Goto(r, "idle")
    /\ UNCHANGED <<world, left>>

\* variant: return where the loop has continue
SkipEndsRun(r) ==
    /\ pc[r] = "next"
    /\ left[r] # {}
    /\ First(r) \notin LiveAccount
    /\ left' = [left EXCEPT ![r] = {}]
    /\ UNCHANGED <<world, pc>>

SkipManual(r) ==
    /\ pc[r] = "next"
    /\ left[r] # {}
    /\ First(r) \notin LiveAccount
    /\ left' = [left EXCEPT ![r] = @ \ {First(r)}]
    /\ UNCHANGED <<world, pc>>

\* variant: the registry is not asked
OpenAnyCredential(r) ==
    /\ pc[r] = "next"
    /\ left[r] # {}
    /\ Goto(r, "fetch")
    /\ UNCHANGED <<world, left>>

(* The credential is loaded and opened, and the provider is called.        *)
OpenCredential(r) ==
    /\ pc[r] = "next"
    /\ left[r] # {}
    /\ First(r) \in LiveAccount
    /\ Goto(r, "fetch")
    /\ UNCHANGED <<world, left>>

(* There is none, or it does not open.                                     *)
CredentialFails(r) ==
    /\ pc[r] = "next"
    /\ left[r] # {}
    /\ First(r) \in LiveAccount
    /\ Goto(r, "failed")
    /\ UNCHANGED <<world, left>>

(* The provider answers, with costs that are stored, or with an error; to  *)
(* store them may fail as well.                                            *)
FetchEnds(r) ==
    /\ pc[r] = "fetch"
    /\ First(r) \notin silent
    /\ Goto(r, "stamp") \/ Goto(r, "failed")
    /\ UNCHANGED <<world, left>>

(* It never answers this call, also if it answers others later on: the     *)
(* goroutine hangs in it, with its list, for as long as the process lasts. *)
FetchHangs(r) ==
    /\ pc[r] = "fetch"
    /\ First(r) \in silent
    /\ Goto(r, "hung")
    /\ UNCHANGED <<world, left>>

Advance(r) ==
    /\ left' = [left EXCEPT ![r] = @ \ {First(r)}]
    /\ Goto(r, "next")

(* The row of a gets its stamp: of success, or of an error.                *)
Stamp(r, a) ==
    /\ pc[r] \in {"stamp", "failed"}
    /\ Turn(r, a)
    /\ Advance(r)
    /\ UNCHANGED world

\* variant: an error that could not be stamped is tried again
StampRetried(r) ==
    /\ pc[r] \in {"stamp", "failed"}
    /\ Goto(r, "next")
    /\ UNCHANGED <<world, left>>

(* The update of the stamp fails.  After a success that is an error of the *)
(* sync, to be stamped in turn; the stamp of an error is given up.         *)
StampFails(r) ==
    \/ /\ pc[r] = "stamp"
       /\ Goto(r, "failed")
       /\ UNCHANGED <<world, left>>
    \/ /\ pc[r] = "failed"
       /\ Advance(r)
       /\ UNCHANGED world

-------------------------------------------------------------------------------
(* The world around *)

(* PATCH of the account; delete and create as far as the list is concerned *)
SetActive(a) ==
    /\ active' = (active \ {a}) \cup ({a} \ active)
    /\ UNCHANGED <<cron, silent, runs>>

ProviderFallsSilent(a) ==
    /\ silent' = silent \cup {a}
    /\ UNCHANGED <<cron, active, runs>>

ProviderRecovers(a) ==
    /\ silent' = silent \ {a}
    /\ UNCHANGED <<cron, active, runs>>

(* A step the goroutine of a run is due to take.                           *)
RunStep(r) ==
    \/ ListAccounts(r) \/ ListFails(r)
    \/ SkipManual(r) \/ OpenCredential(r) \/ CredentialFails(r)
    \/ FetchEnds(r) \/ FetchHangs(r)
    \/ \E a \in LiveAccount : Stamp(r, a)
    \/ StampFails(r)
    \/ EndRun(r)

WorldStep ==
    \/ \E a \in Account : SetActive(a)
    \/ \E a \in LiveAccount : ProviderFallsSilent(a) \/ ProviderRecovers(a)
    \/ Stop

Next ==
    \/ \E setting \in Setting, r \in Run : Start(setting, r)
    \/ \E r \in Run : Tick(r) \/ RunStep(r)
    \/ WorldStep

(* The cron's timer fires and goroutines are scheduled.  A database that   *)
(* is locked now and then does not fail one and the same statement for     *)
(* ever: lists and stamps that are tried again and again succeed some day. *)
Fairness ==
    /\ WF_vars(\E r \in Run : Tick(r))
    /\ \A r \in Run : WF_vars(RunStep(r))
    /\ SF_vars(\E r \in Run : ListAccounts(r))
    /\ \A a \in LiveAccount : SF_vars(\E r \in Run : Stamp(r, a))

Spec == Init /\ [][Next]_vars /\ Fairness

-------------------------------------------------------------------------------
(* Properties *)

(* A run has listed what it deals with, and calls a provider only for an   *)
(* account that has an adapter (the registry lookup of SyncAll).           *)
TypeOK ==
    /\ cron \in {"down", "ticking", "unscheduled"}
    /\ active \subseteq Account
    /\ silent \subseteq LiveAccount
    /\ pc \in [Run -> {"idle", "list", "next", "fetch", "hung", "stamp", "failed"}]
    /\ left \in [Run -> SUBSET Account]
    /\ \A r \in Run :
        /\ pc[r] \in {"idle", "list"} => left[r] = {}
        /\ pc[r] \in {"fetch", "hung", "stamp", "failed"} =>
              left[r] # {} /\ First(r) \in LiveAccount

(* In the end the account is either not listed any more, or answered for.  *)
StopsNoRun(a) == <>[](a \notin active) \/ <>[](a \notin silent)

(* "Refreshes automatically every SYNC_INTERVAL_MINUTES" (the deployment   *)
(* guide): while the cron ticks, every account that stays active is        *)
(* stamped again and again, whatever fails on the way - if neither its own *)
(* provider nor one of an active account before it keeps silent, which no  *)
(* run of SyncAll gets past.                                               *)
EveryoneRefreshed ==
    \A a \in LiveAccount :
        /\ <>[](cron = "ticking" /\ a \in active)
        /\ \A b \in LiveAccount : b <= a => StopsNoRun(b)
        => []<><<\E r \in Run : Stamp(r, a)>>_vars

(* A run of SyncAll comes to its end, also if every call of it fails and   *)
(* no error can be recorded, or it hangs in a call that is never answered; *)
(* and once no provider keeps silent, the runs that do not hang already    *)
(* come to their end.                                                      *)
RunsEnd ==
    \A r \in Run :
        /\ r \in GettingOn ~> r \notin GettingOn
        /\ [](r \in GettingOn /\ [](silent = {}) => <>(pc[r] = "idle"))

(* No run without a cron that ticks.  Where the interval is refused, Start *)
(* returns before the run at boot: nothing is synced, then or later.  And  *)
(* the end of a process is the end of its runs, also of those that hang.   *)
QuietWithoutCron == cron # "ticking" => \A r \in Run : pc[r] = "idle"

(* A deactivated account is left alone in the end, although runs work from *)
(* lists they read before it was deactivated (the query of SyncAll) - but  *)
(* for the calls that hang.                                                *)
DeactivatedRest ==
    \A a \in LiveAccount :
        <>[](a \notin active)
            => <>[](\A r \in Run : pc[r] = "fetch" => First(r) # a)
===============================================================================
