---------------------------- MODULE CronLoopProofs ----------------------------
(* What of CronLoop is a theorem, for any number of accounts and runs: the *)
(* safety part.  Whether turns come is left to the model checker.          *)
EXTENDS CronLoop, TLAPS

CronInv == TypeOK /\ QuietWithoutCron

Steps == {"idle", "list", "next", "fetch", "hung", "stamp", "failed"}

(* Every step but those of the run itself leaves a run where it is.        *)
Standing(r) ==
    /\ pc[r] \in {"idle", "list"} => left[r] = {}
    /\ pc[r] \in {"fetch", "hung", "stamp", "failed"} =>
          left[r] # {} /\ First(r) \in LiveAccount

LEMMA Untouched ==
    ASSUME TypeOK, NEW r \in Run, pc'[r] = pc[r], left'[r] = left[r]
    PROVE  Standing(r)'
BY DEF TypeOK, Standing, First

(* A step of one run: the others stand where they stood.                   *)
LEMMA OneRun ==
    ASSUME TypeOK, NEW r \in Run,
           NEW step \in Steps,
           NEW accounts \in SUBSET Account,
           cron' \in {"down", "ticking", "unscheduled"},
           UNCHANGED <<active, silent>>,
           pc' = [pc EXCEPT ![r] = step],
           left' = [left EXCEPT ![r] = accounts],
           step \in {"idle", "list"} => accounts = {},
           step \in {"fetch", "hung", "stamp", "failed"} =>
               accounts # {} /\ Min(accounts) \in LiveAccount
    PROVE  TypeOK'
<1>1. Standing(r)'
  BY DEF TypeOK, Standing, First, Steps
<1>2. \A q \in Run : q # r => Standing(q)'
  <2> SUFFICES ASSUME NEW q \in Run, q # r PROVE Standing(q)'
    OBVIOUS
  <2>1. pc'[q] = pc[q] /\ left'[q] = left[q]
    BY DEF TypeOK
  <2> QED
    BY <2>1, Untouched
<1> QED
  BY <1>1, <1>2 DEF TypeOK, Standing, Steps

LEMMA StartType == CronInv /\ (\E setting \in Setting, r \in Run : Start(setting, r)) => TypeOK'
<1> SUFFICES ASSUME CronInv, NEW setting \in Setting, NEW r \in Run,
                    Start(setting, r)
             PROVE  TypeOK'
  OBVIOUS
<1> USE DEF CronInv
<1>1. cron' \in {"ticking", "unscheduled"} /\ UNCHANGED <<active, silent, left>>
  BY DEF Start, AddFunc
<1>2. CASE cron' = "ticking"
  <2>1. pc[r] = "idle" /\ left[r] = {}
    BY DEF Start, QuietWithoutCron, TypeOK
  <2>2. left' = [left EXCEPT ![r] = {}]
    BY <1>1, <2>1 DEF TypeOK
  <2> QED
    BY <1>1, <1>2, <2>2, OneRun DEF Start, Goto, Steps
<1>3. CASE cron' # "ticking"
  BY <1>1, <1>3 DEF Start, TypeOK, First
<1> QED
  BY <1>2, <1>3

LEMMA RunType ==
    ASSUME TypeOK, NEW r \in Run, Tick(r) \/ RunStep(r)
    PROVE  TypeOK'
<1> USE DEF Goto, world, Steps
<1>0. left = [left EXCEPT ![r] = left[r]] /\ left[r] \in SUBSET Account
  BY DEF TypeOK
<1>1. CASE Tick(r)
  BY <1>1, OneRun DEF Tick, TypeOK
<1>2. CASE ListAccounts(r)
  BY <1>2, OneRun DEF ListAccounts, TypeOK
<1>3. CASE ListFails(r)
  BY <1>0, <1>3, OneRun DEF ListFails, TypeOK
<1>4. CASE SkipManual(r)
  <2> DEFINE rest == left[r] \ {First(r)}
  <2>1. /\ pc' = [pc EXCEPT ![r] = "next"]
        /\ left' = [left EXCEPT ![r] = rest]
        /\ UNCHANGED <<cron, active, silent>>
    BY <1>4 DEF SkipManual, TypeOK
  <2>2. rest \in SUBSET Account /\ cron' \in {"down", "ticking", "unscheduled"}
    BY <2>1 DEF TypeOK
  <2> HIDE DEF rest
  <2> QED
    BY <2>1, <2>2, OneRun
<1>5. CASE OpenCredential(r)
  BY <1>0, <1>5, OneRun DEF OpenCredential, First, TypeOK
<1>6. CASE CredentialFails(r)
  BY <1>0, <1>6, OneRun DEF CredentialFails, First, TypeOK
<1>7. CASE FetchEnds(r)
  BY <1>0, <1>7, OneRun DEF FetchEnds, First, TypeOK
<1>8. CASE FetchHangs(r)
  BY <1>0, <1>8, OneRun DEF FetchHangs, First, TypeOK
<1>9. ASSUME NEW a \in LiveAccount, Stamp(r, a) PROVE TypeOK'
  <2> DEFINE rest == left[r] \ {First(r)}
  <2>1. /\ pc' = [pc EXCEPT ![r] = "next"]
        /\ left' = [left EXCEPT ![r] = rest]
        /\ UNCHANGED <<cron, active, silent>>
    BY <1>9 DEF Stamp, Advance
  <2>2. rest \in SUBSET Account /\ cron' \in {"down", "ticking", "unscheduled"}
    BY <2>1 DEF TypeOK
  <2> HIDE DEF rest
  <2> QED
    BY <2>1, <2>2, OneRun
<1>10. CASE StampFails(r)
  BY <1>0, <1>10, OneRun DEF StampFails, Advance, First, TypeOK
<1>11. CASE EndRun(r)
  BY <1>0, <1>11, OneRun DEF EndRun, TypeOK
<1> QED
  BY <1>1, <1>2, <1>3, <1>4, <1>5, <1>6, <1>7, <1>8, <1>9, <1>10, <1>11
  DEF RunStep

LEMMA WorldType == TypeOK /\ WorldStep => TypeOK'
BY LiveAssumption
DEF WorldStep, SetActive, ProviderFallsSilent, ProviderRecovers, Stop, runs,
    TypeOK, First

LEMMA StepParked == CronInv /\ [Next]_vars => QuietWithoutCron'
<1> SUFFICES ASSUME CronInv, [Next]_vars PROVE QuietWithoutCron'
  OBVIOUS
<1> USE DEF CronInv, QuietWithoutCron, TypeOK
<1>1. ASSUME NEW setting \in Setting, NEW r \in Run, Start(setting, r)
      PROVE  QuietWithoutCron'
  BY <1>1 DEF Start, Goto
<1>2. ASSUME NEW r \in Run, Tick(r) PROVE QuietWithoutCron'
  BY <1>2 DEF Tick, world
<1>3. ASSUME NEW r \in Run, RunStep(r) PROVE QuietWithoutCron'
  <2>1. UNCHANGED world
    BY <1>3 DEF RunStep, ListAccounts, ListFails, SkipManual, OpenCredential,
       CredentialFails, FetchEnds, FetchHangs, Stamp, StampFails, EndRun
  <2>2. pc[r] # "idle"
    BY <1>3 DEF RunStep, ListAccounts, ListFails, SkipManual, OpenCredential,
       CredentialFails, FetchEnds, FetchHangs, Stamp, StampFails, EndRun
  <2> QED
    BY <2>1, <2>2 DEF world
<1>4. CASE WorldStep
  BY <1>4 DEF WorldStep, SetActive, ProviderFallsSilent, ProviderRecovers,
     Stop, runs
<1>5. CASE UNCHANGED vars
  BY <1>5 DEF vars, world, runs
<1> QED
  BY <1>1, <1>2, <1>3, <1>4, <1>5 DEF Next

LEMMA InitInv == Init => CronInv
BY DEF Init, CronInv, QuietWithoutCron, TypeOK

LEMMA StepInv == CronInv /\ [Next]_vars => CronInv'
<1>1. TypeOK /\ UNCHANGED vars => TypeOK'
  BY DEF vars, world, runs, TypeOK, First
<1>2. CronInv /\ [Next]_vars => TypeOK'
  BY <1>1, StartType, RunType, WorldType DEF Next, CronInv
<1> QED
  BY <1>2, StepParked DEF CronInv

(* A run deals with accounts it has listed, and calls a provider only for  *)
(* one that has an adapter, however runs, restarts and edits interleave.   *)
THEOREM TypeCorrect == Spec => []TypeOK
<1>1. CronInv => TypeOK
  BY DEF CronInv
<1> QED
  BY <1>1, InitInv, StepInv, PTL DEF Spec

(* Whatever interval the process is started with, no run is under way in   *)
(* one whose cron refused it, and none outlives its process.               *)
THEOREM NoRunWithoutCron == Spec => []QuietWithoutCron
<1>1. CronInv => QuietWithoutCron
  BY DEF CronInv
<1> QED
  BY <1>1, InitInv, StepInv, PTL DEF Spec
===============================================================================
