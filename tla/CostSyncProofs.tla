---------------------------- MODULE CostSyncProofs ----------------------------
(* Theorems of CostSync, for every value of its constants.                 *)
EXTENDS CostSync, TLAPS

-------------------------------------------------------------------------------
(* What a worker holds where it stands.                                    *)

Syncing(w) == pc[w] \in SyncStep

(* A sync deals with an account whose row it has read, of a provider with  *)
(* an adapter; a delete knows what it deletes.                             *)
Grounded ==
    \A w \in Worker :
        /\ Syncing(w) => /\ account[w] \in Account
                         /\ listed[w][account[w]] # NoRow
                         /\ listed[w][account[w]].provider \in LiveProvider
        /\ pc[w] = "remove" => w \in Handler /\ account[w] \in Account
        /\ pc[w] = "drop"   => credential[w] \in Credential

TypeInv == TypeOK /\ Grounded

-------------------------------------------------------------------------------
(* Operators *)

LEMMA SnapshotType ==
    ASSUME NEW row \in AccountRow
    PROVE  SnapshotOf(row) \in Snapshot
BY DEF AccountRow, Snapshot, SnapshotOf

LEMMA NoRowIsNoRow ==
    /\ \A row \in AccountRow : row # NoRow
    /\ \A s \in Snapshot : s # NoRow
    /\ \A amount \in Amount : amount # NoRow
BY FreshAssumption

(* A stamp changes nothing but the status of a row that is there.          *)
LEMMA StatusType ==
    ASSUME TypeOK, NEW a \in Account, NEW status \in Status, SetStatus(a, status)
    PROVE  /\ accounts' \in [Account -> AccountRow \cup {NoRow}]
           /\ \A b \in Account :
                /\ accounts'[b] = NoRow <=> accounts[b] = NoRow
                /\ accounts[b] # NoRow =>
                      /\ SnapshotOf(accounts'[b]) = SnapshotOf(accounts[b])
                      /\ accounts'[b].active = accounts[b].active
<1>1. CASE ~HasAccount(a)
  BY <1>1 DEF SetStatus, TypeOK
<1>2. CASE HasAccount(a)
  <2> DEFINE row == [accounts[a] EXCEPT !.status = status]
  <2>1. accounts[a] \in AccountRow
    BY <1>2 DEF TypeOK, HasAccount
  <2>2. row \in AccountRow /\ SnapshotOf(row) = SnapshotOf(accounts[a])
        /\ row.active = accounts[a].active
    BY <2>1 DEF AccountRow, SnapshotOf
  <2>3. accounts' = [accounts EXCEPT ![a] = row]
    BY <1>2 DEF SetStatus
  <2>4. row # NoRow
    BY <2>2, NoRowIsNoRow
  <2> QED
    BY <2>1, <2>2, <2>3, <2>4, <1>2 DEF TypeOK, HasAccount
<1> QED
  BY <1>1, <1>2

(* Dealing with an account ends in a state in which the worker holds no    *)
(* account.                                                                *)
LEMMA DoneType ==
    ASSUME TypeInv, NEW w \in Worker, Syncing(w), DoneWithAccount(w)
    PROVE  /\ pc' \in [Worker -> {"idle", "next", "remove", "drop"}
                                  \cup SyncStep]
           /\ listed' \in [Worker -> [Account -> Snapshot \cup {NoRow}]]
           /\ account' \in [Worker -> Account \cup {NoRow}]
           /\ credential' \in [Worker -> Credential \cup {NoRow}]
           /\ fetched' \in [Worker -> [CostKey -> 0..MaxRevision]]
           /\ Grounded'
<1>1. account[w] \in Account
  BY DEF TypeInv, Grounded
<1>2. Nothing \in [CostKey -> 0..MaxRevision]
  BY BoundsAssumption DEF Nothing
<1>3. pc'[w] \in {"idle", "next"}
  BY DEF DoneWithAccount, TypeInv, TypeOK
<1>4. \A v \in Worker : v # w =>
         pc'[v] = pc[v] /\ listed'[v] = listed[v] /\ account'[v] = account[v]
  BY DEF DoneWithAccount, TypeInv, TypeOK
<1>5. Grounded'
  BY <1>3, <1>4 DEF DoneWithAccount, TypeInv, TypeOK, Grounded, Syncing, SyncStep
<1> QED
  BY <1>1, <1>2, <1>5 DEF DoneWithAccount, TypeInv, TypeOK

-------------------------------------------------------------------------------
(* Type correctness *)

LEMMA InitType == Init => TypeInv
<1> SUFFICES ASSUME Init PROVE TypeInv
  OBVIOUS
<1>1. Nothing \in [CostKey -> 0..MaxRevision]
  BY BoundsAssumption DEF Nothing
<1>2. TypeOK
  BY <1>1, BoundsAssumption DEF Init, TypeOK, NoCosts, NoneListed
<1>3. Grounded
  BY DEF Init, Grounded, Syncing, SyncStep
<1> QED
  BY <1>2, <1>3 DEF TypeInv

(* Every step keeps the types and leaves each worker grounded.             *)
LEMMA StepType == TypeInv /\ [Next]_vars => TypeInv'
<1> SUFFICES ASSUME TypeInv, [Next]_vars PROVE TypeInv'
  OBVIOUS
<1> USE DEF TypeInv
<1>1. ASSUME NEW w \in CronRun, StartSyncAll(w) PROVE TypeInv'
  <2>1. w \in Worker
    BY DEF Worker
  <2>2. \A a \in Account : HasAccount(a) => SnapshotOf(accounts[a]) \in Snapshot
    BY SnapshotType DEF TypeOK, HasAccount
  <2>3. TypeOK'
    BY <1>1, <2>1, <2>2
    DEF StartSyncAll, TypeOK, tables, outside
  <2>4. Grounded'
    BY <1>1, <2>1
    DEF StartSyncAll, TypeOK, Grounded, Syncing, SyncStep, tables, outside
  <2> QED
    BY <2>3, <2>4
<1>2. ASSUME NEW w \in CronRun, NEW a \in Account, NextAccount(w, a)
      PROVE  TypeInv'
  <2>1. w \in Worker
    BY DEF Worker
  <2>2. TypeOK'
    BY <1>2, <2>1 DEF NextAccount, TypeOK, SyncStep, tables, outside
  <2>3. Grounded'
    BY <1>2, <2>1
    DEF NextAccount, TypeOK, Grounded, Syncing, SyncStep, tables, outside
  <2> QED
    BY <2>2, <2>3
<1>3. ASSUME NEW w \in CronRun, NEW a \in Account, SkipManualAccount(w, a)
      PROVE  TypeInv'
  <2>1. w \in Worker
    BY DEF Worker
  <2>2. TypeOK'
    BY <1>3, <2>1 DEF SkipManualAccount, TypeOK, tables, outside
  <2>3. Grounded'
    BY <1>3, <2>1
    DEF SkipManualAccount, TypeOK, Grounded, Syncing, SyncStep, tables, outside
  <2> QED
    BY <2>2, <2>3
<1>4. ASSUME NEW w \in CronRun, FinishSyncAll(w) PROVE TypeInv'
  BY <1>4 DEF FinishSyncAll, TypeOK, Grounded, Syncing, SyncStep, Worker,
              tables, outside
<1>5. ASSUME NEW w \in CronRun, RecordFailure(w) PROVE TypeInv'
  <2>1. w \in Worker /\ Syncing(w)
    BY <1>5 DEF Worker, RecordFailure, Syncing, SyncStep
  <2>2. account[w] \in Account
    BY <2>1 DEF Grounded
  <2>3. accounts' \in [Account -> AccountRow \cup {NoRow}]
    BY <1>5, <2>2, StatusType DEF RecordFailure, Status, TypeOK
  <2>4. DoneWithAccount(w)
    BY <1>5 DEF RecordFailure
  <2> QED
    BY <1>5, <2>1, <2>3, <2>4, DoneType DEF RecordFailure, TypeOK, outside
<1>6. ASSUME NEW h \in Handler, NEW a \in Account, SyncNow(h, a) PROVE TypeInv'
  <2>1. h \in Worker
    BY DEF Worker
  <2>2. /\ SnapshotOf(accounts[a]) \in Snapshot
        /\ SnapshotOf(accounts[a]).provider \in LiveProvider
    BY <1>6, SnapshotType DEF SyncNow, TypeOK, HasAccount, SnapshotOf
  <2>3. SnapshotOf(accounts[a]) # NoRow
    BY <2>2, NoRowIsNoRow
  <2>4. TypeOK'
    BY <1>6, <2>1, <2>2 DEF SyncNow, TypeOK, SyncStep, tables, outside
  <2>5. Grounded'
    BY <1>6, <2>1, <2>2, <2>3
    DEF SyncNow, TypeOK, Grounded, Syncing, SyncStep, tables, outside
  <2> QED
    BY <2>4, <2>5
<1>7. ASSUME NEW h \in Handler, SyncNowFails(h) PROVE TypeInv'
  <2>1. h \in Worker /\ Syncing(h) /\ DoneWithAccount(h)
    BY <1>7 DEF Worker, SyncNowFails, Syncing, SyncStep
  <2> QED
    BY <1>7, <2>1, DoneType DEF SyncNowFails, TypeOK, tables, outside
<1>8. ASSUME NEW w \in Worker, LoadCredential(w) PROVE TypeInv'
  BY <1>8 DEF LoadCredential, TypeOK, Grounded, Syncing, SyncStep,
              tables, outside
<1>9. ASSUME NEW w \in Worker, NEW window \in SUBSET CostKey,
             FetchCosts(w, window)
      PROVE  TypeInv'
  <2>1. listed[w][account[w]].external \in ExternalID
    BY <1>9 DEF FetchCosts, TypeOK, Grounded, Syncing, SyncStep, Snapshot
  <2>2. TypeOK'
    BY <1>9, <2>1, BoundsAssumption
    DEF FetchCosts, TypeOK, SyncStep, tables, outside
  <2>3. Grounded'
    BY <1>9 DEF FetchCosts, TypeOK, Grounded, Syncing, SyncStep, tables, outside
  <2> QED
    BY <2>2, <2>3
<1>10. ASSUME NEW w \in Worker, StoreCosts(w) PROVE TypeInv'
  <2> DEFINE x == listed[w][account[w]].external
  <2>1. x \in ExternalID /\ account[w] \in Account
    BY <1>10 DEF StoreCosts, TypeOK, Grounded, Syncing, SyncStep, Snapshot
  <2>2. Nothing \in [CostKey -> 0..MaxRevision]
    BY BoundsAssumption DEF Nothing
  <2>3. \A k \in CostKey :
           [source |-> x, revision |-> fetched[w][k]] \in Amount
    BY <2>1 DEF TypeOK, Amount
  <2>4. costs' \in [Account -> [CostKey -> Amount \cup {NoRow}]]
    <3> HIDE DEF x
    <3> QED
      BY <1>10, <2>1, <2>3 DEF StoreCosts, Upsert, TypeOK, x
  <2>5. TypeOK'
    BY <1>10, <2>2, <2>4 DEF StoreCosts, TypeOK, SyncStep, outside
  <2>6. Grounded'
    BY <1>10 DEF StoreCosts, TypeOK, Grounded, Syncing, SyncStep, outside
  <2> QED
    BY <2>5, <2>6
<1>11. ASSUME NEW w \in Worker, StampSynced(w) PROVE TypeInv'
  <2>1. Syncing(w)
    BY <1>11 DEF StampSynced, Syncing, SyncStep
  <2>2. account[w] \in Account
    BY <2>1 DEF Grounded
  <2>3. accounts' \in [Account -> AccountRow \cup {NoRow}]
    BY <1>11, <2>2, StatusType DEF StampSynced, Status
  <2>4. DoneWithAccount(w)
    BY <1>11 DEF StampSynced
  <2> QED
    BY <1>11, <2>1, <2>3, <2>4, DoneType DEF StampSynced, TypeOK, outside
<1>12. ASSUME NEW w \in Worker, SyncStepFails(w) PROVE TypeInv'
  <2>1. Nothing \in [CostKey -> 0..MaxRevision]
    BY BoundsAssumption DEF Nothing
  <2>2. Syncing(w)
    BY <1>12 DEF SyncStepFails, Syncing, SyncStep
  <2>3. TypeOK'
    BY <1>12, <2>1 DEF SyncStepFails, TypeOK, SyncStep, tables, outside
  <2>4. Grounded'
    BY <1>12, <2>2
    DEF SyncStepFails, TypeOK, Grounded, Syncing, SyncStep, tables, outside
  <2> QED
    BY <2>3, <2>4
<1>13. ASSUME CreateCredential PROVE TypeInv'
  <2>1. PICK c \in Credential :
           /\ credentials' = [credentials EXCEPT ![c] = boxKey]
           /\ sequence' = [sequence EXCEPT !.credential = Larger(@, c)]
           /\ UNCHANGED <<accounts, costs, outside, locals, owned>>
    BY <1>13 DEF CreateCredential
  <2>2. Larger(sequence.credential, c) \in 0..MaxCredential
    BY BoundsAssumption DEF TypeOK, Larger, Credential
  <2>3. TypeOK'
    BY <2>1, <2>2 DEF TypeOK, outside, locals
  <2>4. Grounded'
    BY <2>1 DEF Grounded, Syncing, locals
  <2> QED
    BY <2>3, <2>4
<1>14. ASSUME NEW h \in Handler, NEW c \in Credential, CountCredentialUse(h, c)
       PROVE  TypeInv'
  <2>1. h \in Worker
    BY DEF Worker
  <2> QED
    BY <1>14, <2>1 DEF CountCredentialUse, TypeOK, Grounded, Syncing, SyncStep,
                       tables, outside
<1>15. ASSUME NEW h \in Handler, DeleteCredential(h) PROVE TypeInv'
  <2>1. h \in Worker
    BY DEF Worker
  <2> QED
    BY <1>15, <2>1 DEF DeleteCredential, TypeOK, Grounded, Syncing, SyncStep,
                       outside
<1>16. ASSUME CreateCloudAccount PROVE TypeInv'
  <2>1. PICK a \in Account, p \in Provider, x \in ExternalID,
             c \in Credential \cup {NoRow} :
           /\ accounts' = [accounts EXCEPT ![a] =
                  [provider |-> p, external |-> x, credential |-> c,
                   active |-> TRUE, status |-> "never"]]
           /\ sequence' = [sequence EXCEPT !.account = Larger(@, a)]
           /\ owned' = [owned EXCEPT ![a] = {x}]
           /\ UNCHANGED <<credentials, costs, outside, locals>>
    BY <1>16 DEF CreateCloudAccount
  <2>2. Larger(sequence.account, a) \in 0..MaxAccount
    BY BoundsAssumption DEF TypeOK, Larger, Account
  <2>3. [provider |-> p, external |-> x, credential |-> c,
         active |-> TRUE, status |-> "never"] \in AccountRow
    BY DEF AccountRow, Status
  <2>4. TypeOK'
    BY <2>1, <2>2, <2>3 DEF TypeOK, outside, locals
  <2>5. Grounded'
    BY <2>1 DEF Grounded, Syncing, locals
  <2> QED
    BY <2>4, <2>5
<1>17. ASSUME NEW a \in Account, UpdateCloudAccount(a) PROVE TypeInv'
  <2>1. accounts[a] \in AccountRow
    BY <1>17 DEF UpdateCloudAccount, HasAccount, TypeOK
  <2>2. PICK x \in ExternalID, c \in Credential \cup {accounts[a].credential},
             active \in BOOLEAN :
           /\ accounts' = [accounts EXCEPT ![a].external = x,
                                           ![a].credential = c,
                                           ![a].active = active]
           /\ owned' = [owned EXCEPT ![a] = @ \cup {x}]
    BY <1>17 DEF UpdateCloudAccount
  <2>3. accounts' \in [Account -> AccountRow \cup {NoRow}]
    BY <2>1, <2>2 DEF TypeOK, AccountRow
  <2>4. TypeOK'
    BY <1>17, <2>2, <2>3 DEF UpdateCloudAccount, TypeOK, outside, locals
  <2>5. Grounded'
    BY <1>17 DEF UpdateCloudAccount, Grounded, Syncing, locals
  <2> QED
    BY <2>4, <2>5
<1>18. ASSUME NEW h \in Handler, NEW a \in Account, PurgeCosts(h, a)
       PROVE  TypeInv'
  <2>1. h \in Worker
    BY DEF Worker
  <2> QED
    BY <1>18, <2>1 DEF PurgeCosts, TypeOK, Grounded, Syncing, SyncStep, NoCosts,
                       outside
<1>19. ASSUME NEW h \in Handler, RemoveAccount(h) PROVE TypeInv'
  <2>1. h \in Worker
    BY DEF Worker
  <2> QED
    BY <1>19, <2>1 DEF RemoveAccount, TypeOK, Grounded, Syncing, SyncStep,
                       outside
<1>20. ASSUME NEW h \in Handler, DeleteFails(h) PROVE TypeInv'
  <2>1. h \in Worker
    BY DEF Worker
  <2> QED
    BY <1>20, <2>1 DEF DeleteFails, TypeOK, Grounded, Syncing, SyncStep,
                       tables, outside
<1>21. ASSUME NEW below \in SUBSET LiveAccounts, CascadeDelete(below)
       PROVE  TypeInv'
  <2>1. TypeOK'
    BY <1>21 DEF CascadeDelete, TypeOK, NoCosts, outside, locals
  <2>2. Grounded'
    BY <1>21 DEF CascadeDelete, Grounded, Syncing, locals
  <2> QED
    BY <2>1, <2>2
<1>22. ASSUME NEW a \in Account, NEW keys \in SUBSET CostKey,
              ImportCSV(a, keys)
       PROVE  TypeInv'
  <2>1. CsvAmount \in Amount
    BY BoundsAssumption DEF CsvAmount, Amount
  <2>2. TypeOK'
    BY <1>22, <2>1 DEF ImportCSV, TypeOK, outside, locals
  <2>3. Grounded'
    BY <1>22 DEF ImportCSV, Grounded, Syncing, locals
  <2> QED
    BY <2>2, <2>3
<1>23. ASSUME NEW x \in ExternalID, NEW k \in CostKey, ReviseBill(x, k)
       PROVE  TypeInv'
  <2>1. bill[x][k] + 1 \in 0..MaxRevision
    BY <1>23, BoundsAssumption DEF ReviseBill, TypeOK
  <2>2. TypeOK'
    BY <1>23, <2>1 DEF ReviseBill, TypeOK, tables, locals
  <2>3. Grounded'
    BY <1>23 DEF ReviseBill, Grounded, Syncing, locals
  <2> QED
    BY <2>2, <2>3
<1>24. ASSUME Restart PROVE TypeInv'
  <2>1. Nothing \in [CostKey -> 0..MaxRevision]
    BY BoundsAssumption DEF Nothing
  <2> QED
    BY <1>24, <2>1 DEF Restart, TypeOK, Grounded, Syncing, SyncStep, NoneListed,
                       tables
<1>25. ASSUME UNCHANGED vars PROVE TypeInv'
  BY <1>25 DEF vars, tables, outside, locals, TypeOK, Grounded, Syncing
<1> QED
  BY <1>1, <1>2, <1>3, <1>4, <1>5, <1>6, <1>7, <1>8, <1>9, <1>10, <1>11, <1>12,
     <1>13, <1>14, <1>15, <1>16, <1>17, <1>18, <1>19, <1>20, <1>21, <1>22,
     <1>23, <1>24, <1>25
  DEF Next, SyncNext, AdminNext

(* TypeOK always holds, and with it what a worker needs where it stands:   *)
(* no SyncAccount works on a row it has not read (scheduler.SyncAccount).  *)
THEOREM TypeCorrect == Spec => []TypeInv
BY InitType, StepType, PTL DEF Spec

(* The tables and the locals of every worker keep their types.             *)
COROLLARY TypesHold == Spec => []TypeOK
<1>1. TypeInv => TypeOK
  BY DEF TypeInv
<1> QED
  BY <1>1, TypeCorrect, PTL

-------------------------------------------------------------------------------
(* Who writes what.  Most steps leave most of the state alone; the proofs  *)
(* below look only at those that do not.                                   *)

LEMMA WhoWritesCosts ==
    ASSUME [Next]_vars
    PROVE  \/ UNCHANGED costs
           \/ \E w \in Worker : StoreCosts(w)
           \/ \E h \in Handler, a \in Account : PurgeCosts(h, a)
           \/ \E below \in SUBSET LiveAccounts : CascadeDelete(below)
           \/ \E a \in Account, keys \in SUBSET CostKey : ImportCSV(a, keys)
BY DEF Next, SyncNext, AdminNext, vars, tables, StartSyncAll, NextAccount,
       SkipManualAccount, FinishSyncAll, RecordFailure, SyncNow, SyncNowFails,
       LoadCredential, FetchCosts, StampSynced, SyncStepFails, CreateCredential,
       CountCredentialUse, DeleteCredential, CreateCloudAccount,
       UpdateCloudAccount, RemoveAccount, DeleteFails, ReviseBill, Restart

LEMMA WhoWritesAccounts ==
    ASSUME [Next]_vars
    PROVE  \/ UNCHANGED <<accounts, owned>>
           \/ \E w \in CronRun : RecordFailure(w)
           \/ \E w \in Worker : StampSynced(w)
           \/ CreateCloudAccount
           \/ \E a \in Account : UpdateCloudAccount(a)
           \/ \E h \in Handler : RemoveAccount(h)
           \/ \E below \in SUBSET LiveAccounts : CascadeDelete(below)
BY DEF Next, SyncNext, AdminNext, vars, tables, StartSyncAll, NextAccount,
       SkipManualAccount, FinishSyncAll, SyncNow, SyncNowFails,
       LoadCredential, FetchCosts, StoreCosts, SyncStepFails, CreateCredential,
       CountCredentialUse, DeleteCredential, PurgeCosts, DeleteFails, ImportCSV,
       ReviseBill, Restart

(* A worker that has an answer to store got it in this step or holds the   *)
(* one it had, with the row it had it for.                                 *)
LEMMA WhoFetches ==
    ASSUME TypeInv, [Next]_vars, NEW w \in Worker, pc'[w] = "store"
    PROVE  \/ \E window \in SUBSET CostKey : FetchCosts(w, window)
           \/ /\ pc[w] = "store"
              /\ fetched'[w] = fetched[w]
              /\ account'[w] = account[w]
              /\ listed'[w] = listed[w]
              /\ ~StoreCosts(w)
<1> USE DEF TypeInv, TypeOK
<1>1. CASE UNCHANGED vars
  BY <1>1 DEF vars, tables, locals, StoreCosts
<1>2. CASE SyncNext
  <2>1. ASSUME NEW v \in CronRun,
               \/ StartSyncAll(v)
               \/ \E a \in Account : NextAccount(v, a) \/ SkipManualAccount(v, a)
               \/ FinishSyncAll(v)
               \/ RecordFailure(v)
        PROVE  /\ pc[w] = "store" /\ ~StoreCosts(w)
               /\ fetched'[w] = fetched[w] /\ account'[w] = account[w]
               /\ listed'[w] = listed[w]
    BY <2>1 DEF StartSyncAll, NextAccount, SkipManualAccount, FinishSyncAll,
                RecordFailure, DoneWithAccount, StoreCosts, Worker
  <2>2. ASSUME NEW h \in Handler,
               (\E a \in Account : SyncNow(h, a)) \/ SyncNowFails(h)
        PROVE  /\ pc[w] = "store" /\ ~StoreCosts(w)
               /\ fetched'[w] = fetched[w] /\ account'[w] = account[w]
               /\ listed'[w] = listed[w]
    BY <2>2 DEF SyncNow, SyncNowFails, DoneWithAccount, StoreCosts, Worker
  <2>3. ASSUME NEW v \in Worker,
               LoadCredential(v) \/ StoreCosts(v) \/ StampSynced(v)
                  \/ SyncStepFails(v)
        PROVE  /\ pc[w] = "store" /\ ~StoreCosts(w)
               /\ fetched'[w] = fetched[w] /\ account'[w] = account[w]
               /\ listed'[w] = listed[w]
    BY <2>3 DEF LoadCredential, StoreCosts, StampSynced, SyncStepFails,
                DoneWithAccount
  <2>4. ASSUME NEW v \in Worker, NEW window \in SUBSET CostKey,
               FetchCosts(v, window), v # w
        PROVE  /\ pc[w] = "store" /\ ~StoreCosts(w)
               /\ fetched'[w] = fetched[w] /\ account'[w] = account[w]
               /\ listed'[w] = listed[w]
    BY <2>4 DEF FetchCosts, StoreCosts
  <2> QED
    BY <1>2, <2>1, <2>2, <2>3, <2>4 DEF SyncNext
<1>3. CASE AdminNext
  BY <1>3 DEF AdminNext, CreateCredential, CountCredentialUse, DeleteCredential,
              CreateCloudAccount, UpdateCloudAccount, PurgeCosts, RemoveAccount,
              DeleteFails, CascadeDelete, ImportCSV, locals, StoreCosts, Worker
<1>4. CASE \E x \in ExternalID, k \in CostKey : ReviseBill(x, k)
  BY <1>4 DEF ReviseBill, locals, StoreCosts
<1>5. CASE Restart
  BY <1>5 DEF Restart
<1> QED
  BY <1>1, <1>2, <1>3, <1>4, <1>5 DEF Next

LEMMA WhoRevises ==
    ASSUME [Next]_vars
    PROVE  \/ UNCHANGED bill
           \/ \E x \in ExternalID, k \in CostKey : ReviseBill(x, k)
BY DEF Next, SyncNext, AdminNext, vars, outside, StartSyncAll, NextAccount,
       SkipManualAccount, FinishSyncAll, RecordFailure, SyncNow, SyncNowFails,
       LoadCredential, FetchCosts, StoreCosts, StampSynced, SyncStepFails,
       CreateCredential, CountCredentialUse, DeleteCredential,
       CreateCloudAccount, UpdateCloudAccount, PurgeCosts, RemoveAccount,
       DeleteFails, CascadeDelete, ImportCSV, Restart

(* Bills only grow.                                                        *)
LEMMA BillGrows ==
    ASSUME TypeInv, [Next]_vars
    PROVE  \A x \in ExternalID, k \in CostKey : bill[x][k] <= bill'[x][k]
<1> USE DEF TypeInv, TypeOK
<1>1. CASE \E x \in ExternalID, k \in CostKey : ReviseBill(x, k)
  BY <1>1, BoundsAssumption DEF ReviseBill
<1> QED
  BY <1>1, WhoRevises, BoundsAssumption

-------------------------------------------------------------------------------
(* What is stored was billed.                                              *)

(* An answer a worker is about to store has been billed too.               *)
FetchedWasBilled ==
    \A w \in Worker : pc[w] = "store" =>
        \A k \in CostKey :
            fetched[w][k] <= bill[listed[w][account[w]].external][k]

BilledInv == TypeInv /\ NoInventedAmounts /\ FetchedWasBilled

LEMMA SnapshotExternal ==
    ASSUME TypeInv, NEW w \in Worker, Syncing(w)
    PROVE  /\ account[w] \in Account
           /\ listed[w][account[w]].external \in ExternalID
BY DEF TypeInv, TypeOK, Grounded, Snapshot

LEMMA StepBilled == BilledInv /\ [Next]_vars => BilledInv'
<1> SUFFICES ASSUME BilledInv, [Next]_vars PROVE BilledInv'
  OBVIOUS
<1>1. TypeInv /\ TypeInv'
  BY StepType DEF BilledInv
<1>2. \A x \in ExternalID, k \in CostKey :
         /\ bill[x][k] \in Nat /\ bill'[x][k] \in Nat
         /\ bill[x][k] <= bill'[x][k]
  BY <1>1, BillGrows, BoundsAssumption DEF TypeInv, TypeOK
<1>3. FetchedWasBilled'
  <2> SUFFICES ASSUME NEW w \in Worker, pc'[w] = "store", NEW k \in CostKey
               PROVE  fetched'[w][k] <= bill'[listed'[w][account'[w]].external][k]
    BY DEF FetchedWasBilled
  <2>1. CASE \E window \in SUBSET CostKey : FetchCosts(w, window)
    <3>1. Syncing(w)
      BY <2>1 DEF FetchCosts, Syncing, SyncStep
    <3>2. listed[w][account[w]].external \in ExternalID
      BY <1>1, <3>1, SnapshotExternal
    <3> QED
      BY <1>1, <1>2, <2>1, <3>2
      DEF FetchCosts, TypeInv, TypeOK, outside
  <2>2. CASE /\ pc[w] = "store"
             /\ fetched'[w] = fetched[w]
             /\ account'[w] = account[w]
             /\ listed'[w] = listed[w]
    <3>1. listed[w][account[w]].external \in ExternalID
      BY <1>1, <2>2, SnapshotExternal DEF Syncing, SyncStep
    <3>2. /\ fetched[w][k] \in Nat
          /\ fetched[w][k] <= bill[listed[w][account[w]].external][k]
      BY <1>1, <2>2, BoundsAssumption
      DEF BilledInv, FetchedWasBilled, TypeInv, TypeOK
    <3> QED
      BY <1>2, <2>2, <3>1, <3>2
  <2> QED
    BY <1>1, <2>1, <2>2, WhoFetches
<1>4. NoInventedAmounts'
  <2> SUFFICES ASSUME NEW a \in Account, NEW k \in CostKey, costs'[a][k] # NoRow
               PROVE  IF costs'[a][k].source = Csv
                      THEN costs'[a][k] = CsvAmount
                      ELSE costs'[a][k].revision
                              \in 1..bill'[costs'[a][k].source][k]
    BY DEF NoInventedAmounts, CsvAmount
  \* an amount that was there before
  <2>1. ASSUME costs'[a][k] = costs[a][k]
        PROVE  IF costs'[a][k].source = Csv
               THEN costs'[a][k] = CsvAmount
               ELSE costs'[a][k].revision \in 1..bill'[costs'[a][k].source][k]
    <3>1. costs[a][k] \in Amount
      BY <1>1, <2>1 DEF TypeInv, TypeOK
    <3>2. /\ costs[a][k].source \in ExternalID \cup {Csv}
          /\ costs[a][k].revision \in Nat
      BY <3>1, BoundsAssumption DEF Amount
    <3>3. IF costs[a][k].source = Csv
          THEN costs[a][k] = CsvAmount
          ELSE costs[a][k].revision \in 1..bill[costs[a][k].source][k]
      BY <2>1 DEF BilledInv, NoInventedAmounts
    <3> QED
      BY <1>2, <2>1, <3>2, <3>3
  <2>2. ASSUME NEW w \in Worker, StoreCosts(w), costs'[a][k] # costs[a][k]
        PROVE  /\ costs'[a][k].source \in ExternalID
               /\ costs'[a][k].revision \in 1..bill'[costs'[a][k].source][k]
    <3> DEFINE x == listed[w][account[w]].external
    <3>1. Syncing(w) /\ pc[w] = "store"
      BY <2>2 DEF StoreCosts, Syncing, SyncStep
    <3>2. x \in ExternalID /\ account[w] \in Account
      BY <1>1, <3>1, SnapshotExternal
    <3>3. /\ fetched[w][k] \in Nat
          /\ fetched[w][k] <= bill[x][k]
      BY <1>1, <3>1, BoundsAssumption
      DEF BilledInv, FetchedWasBilled, TypeInv, TypeOK
    <3>4. /\ fetched[w][k] # 0
          /\ costs'[a][k] = [source |-> x, revision |-> fetched[w][k]]
      <4> HIDE DEF x
      <4> QED
        BY <1>1, <2>2, <3>2 DEF StoreCosts, Upsert, TypeInv, TypeOK, x
    <3> HIDE DEF x
    <3> QED
      BY <1>2, <3>2, <3>3, <3>4
  <2>3. ASSUME NEW b \in Account, NEW keys \in SUBSET CostKey,
               ImportCSV(b, keys), costs'[a][k] # costs[a][k]
        PROVE  costs'[a][k] = CsvAmount
    BY <1>1, <2>3 DEF ImportCSV, TypeInv, TypeOK
  <2>4. ASSUME NEW h \in Handler, NEW b \in Account, PurgeCosts(h, b)
        PROVE  costs'[a][k] = costs[a][k]
    BY <1>1, <2>4 DEF PurgeCosts, NoCosts, TypeInv, TypeOK
  <2>5. ASSUME NEW below \in SUBSET LiveAccounts, CascadeDelete(below)
        PROVE  costs'[a][k] = costs[a][k]
    BY <2>5 DEF CascadeDelete, NoCosts
  <2> QED
    BY <2>1, <2>2, <2>3, <2>4, <2>5, WhoWritesCosts, FreshAssumption
    DEF CsvAmount
<1> QED
  BY <1>1, <1>3, <1>4 DEF BilledInv

(* No amount is stored that was not billed (upsertCostRecords), however    *)
(* the syncs, imports and deletes interleave.                              *)
THEOREM StoredWasBilled == Spec => []NoInventedAmounts
<1>1. Init => BilledInv
  <2> SUFFICES ASSUME Init PROVE NoInventedAmounts /\ FetchedWasBilled
    BY InitType DEF BilledInv
  <2> QED
    BY DEF Init, NoInventedAmounts, FetchedWasBilled, NoCosts
<1>2. BilledInv => NoInventedAmounts
  BY DEF BilledInv
<1> QED
  BY <1>1, <1>2, StepBilled, PTL DEF Spec

-------------------------------------------------------------------------------
(* Without overlap stored amounts only advance.                            *)

(* What a worker is about to store is no older than what is stored.        *)
FetchedIsLatest ==
    \A w \in Worker : pc[w] = "store" =>
        \A a \in Account, k \in CostKey :
            /\ costs[a][k] # NoRow
            /\ costs[a][k].source = listed[w][account[w]].external
            /\ fetched[w][k] # 0
            => costs[a][k].revision <= fetched[w][k]

SerialInv == BilledInv /\ NoOverlap /\ FetchedIsLatest

(* A step writes an amount of a bill only by storing what was fetched.     *)
LEMMA AmountWritten ==
    ASSUME TypeInv, [Next]_vars, NEW a \in Account, NEW k \in CostKey,
           costs'[a][k] # costs[a][k], costs'[a][k] # NoRow
    PROVE  \/ costs'[a][k] = CsvAmount
           \/ \E w \in Worker :
                /\ StoreCosts(w)
                /\ account[w] = a
                /\ fetched[w][k] # 0
                /\ costs'[a][k] = [source |-> listed[w][account[w]].external,
                                   revision |-> fetched[w][k]]
<1> USE DEF TypeInv, TypeOK
<1>1. ASSUME NEW w \in Worker, StoreCosts(w)
      PROVE  /\ account[w] = a
             /\ fetched[w][k] # 0
             /\ costs'[a][k] = [source |-> listed[w][account[w]].external,
                                revision |-> fetched[w][k]]
  BY <1>1 DEF StoreCosts, Upsert
<1>2. ASSUME NEW h \in Handler, NEW b \in Account, PurgeCosts(h, b)
      PROVE  FALSE
  BY <1>2 DEF PurgeCosts, NoCosts
<1>3. ASSUME NEW below \in SUBSET LiveAccounts, CascadeDelete(below)
      PROVE  FALSE
  BY <1>3 DEF CascadeDelete, NoCosts
<1>4. ASSUME NEW b \in Account, NEW keys \in SUBSET CostKey, ImportCSV(b, keys)
      PROVE  costs'[a][k] = CsvAmount
  BY <1>4 DEF ImportCSV
<1> QED
  BY <1>1, <1>2, <1>3, <1>4, WhoWritesCosts

LEMMA StepSerial == SerialInv /\ [Next /\ NoOverlap']_vars => SerialInv'
<1> SUFFICES ASSUME SerialInv, [Next /\ NoOverlap']_vars PROVE SerialInv'
  OBVIOUS
<1>1. [Next]_vars
  OBVIOUS
<1>2. BilledInv /\ BilledInv' /\ TypeInv
  BY <1>1, StepBilled DEF SerialInv, BilledInv
<1>3. NoOverlap'
  BY DEF SerialInv, NoOverlap, vars, locals
<1>4. FetchedIsLatest'
  <2> SUFFICES ASSUME NEW w \in Worker, pc'[w] = "store",
                      NEW a \in Account, NEW k \in CostKey,
                      costs'[a][k] # NoRow,
                      costs'[a][k].source = listed'[w][account'[w]].external,
                      fetched'[w][k] # 0
               PROVE  costs'[a][k].revision <= fetched'[w][k]
    BY DEF FetchedIsLatest
  \* just fetched: the answer is the bill, and what is stored was billed
  <2>1. CASE \E window \in SUBSET CostKey : FetchCosts(w, window)
    <3> DEFINE x == listed[w][account[w]].external
    <3>1. Syncing(w)
      BY <2>1 DEF FetchCosts, Syncing, SyncStep
    <3>2. x \in ExternalID
      BY <1>2, <3>1, SnapshotExternal
    <3>3. /\ UNCHANGED <<costs, listed, account>>
          /\ fetched'[w][k] = bill[x][k]
      BY <1>2, <2>1 DEF FetchCosts, TypeInv, TypeOK, tables
    <3>4. costs[a][k].revision \in 1..bill[x][k]
      BY <1>2, <3>2, <3>3, FreshAssumption DEF BilledInv, NoInventedAmounts
    <3> QED
      BY <1>2, <3>2, <3>3, <3>4, BoundsAssumption DEF TypeInv, TypeOK
  \* fetched before: nobody else has stored meanwhile
  <2>2. CASE /\ pc[w] = "store"
             /\ fetched'[w] = fetched[w]
             /\ account'[w] = account[w]
             /\ listed'[w] = listed[w]
             /\ ~StoreCosts(w)
    <3>1. listed[w][account[w]].external \in ExternalID
      BY <1>2, <2>2, SnapshotExternal DEF Syncing, SyncStep
    <3>2. ASSUME NEW v \in Worker, StoreCosts(v) PROVE FALSE
      BY <2>2, <3>2 DEF StoreCosts, SerialInv, NoOverlap, SyncStep
    <3>3. costs'[a][k] # CsvAmount
      BY <2>2, <3>1, FreshAssumption DEF CsvAmount
    <3>4. costs'[a][k] = costs[a][k]
      BY <1>1, <1>2, <3>2, <3>3, AmountWritten
    <3> QED
      BY <2>2, <3>4 DEF SerialInv, FetchedIsLatest
  <2> QED
    BY <1>1, <1>2, <2>1, <2>2, WhoFetches
<1> QED
  BY <1>2, <1>3, <1>4 DEF SerialInv

(* When no two syncs overlap, re-fetching the window never replaces a      *)
(* stored amount by an earlier revision of it (the comment of              *)
(* syncWindowDays).                                                        *)
THEOREM SerialSyncsAdvance == SerialSpec => RevisionsAdvance
<1> DEFINE Advance ==
      \A a \in Account, k \in CostKey :
          /\ costs[a][k] # NoRow
          /\ costs'[a][k] # NoRow
          /\ costs'[a][k].source = costs[a][k].source
          => costs[a][k].revision <= costs'[a][k].revision
<1>1. Init => SerialInv
  <2> SUFFICES ASSUME Init PROVE SerialInv
    OBVIOUS
  <2> QED
    BY InitType
    DEF Init, SerialInv, BilledInv, NoInventedAmounts, FetchedWasBilled,
        FetchedIsLatest, NoOverlap, NoCosts, SyncStep
<1>2. SerialInv /\ [Next /\ NoOverlap']_vars => [Advance]_vars
  <2> SUFFICES ASSUME SerialInv, Next,
                      NEW a \in Account, NEW k \in CostKey,
                      costs[a][k] # NoRow, costs'[a][k] # NoRow,
                      costs'[a][k].source = costs[a][k].source
               PROVE  costs[a][k].revision <= costs'[a][k].revision
    OBVIOUS
  <2>1. TypeInv
    BY DEF SerialInv, BilledInv
  <2>2. costs[a][k] \in Amount /\ costs[a][k].revision \in Int
    BY <2>1, BoundsAssumption DEF TypeInv, TypeOK, Amount
  <2>3. CASE costs'[a][k] = costs[a][k]
    BY <2>2, <2>3
  <2>4. CASE costs'[a][k] = CsvAmount
    BY <2>2, <2>4 DEF SerialInv, BilledInv, NoInventedAmounts, CsvAmount
  <2>5. ASSUME NEW w \in Worker, StoreCosts(w), fetched[w][k] # 0,
               costs'[a][k] = [source |-> listed[w][account[w]].external,
                               revision |-> fetched[w][k]]
        PROVE  costs[a][k].revision <= costs'[a][k].revision
    BY <2>5 DEF StoreCosts, SerialInv, FetchedIsLatest
  <2> QED
    BY <2>1, <2>3, <2>4, <2>5, AmountWritten
<1> QED
  BY <1>1, <1>2, StepSerial, PTL DEF SerialSpec, RevisionsAdvance

-------------------------------------------------------------------------------
(* Costs belong to the account they are shown for.                         *)

(* An id that was not given out yet has no trace in the database, but for  *)
(* imports, nor in a worker.                                               *)
Unborn(a) ==
    /\ ~HasAccount(a)
    /\ \A k \in CostKey : costs[a][k] \in {NoRow, CsvAmount}
    /\ \A w \in Worker : listed[w][a] = NoRow

UnbornIds == \A a \in Account : sequence.account < a => Unborn(a)

(* A row read by a worker carries the provider and an external id of the   *)
(* row with that id, if there still is one.                                *)
SnapshotIsOwn ==
    \A w \in Worker, a \in LiveAccounts : listed[w][a] # NoRow =>
        /\ listed[w][a].external \in owned[a]
        /\ listed[w][a].provider = accounts[a].provider

ExternalIsOwn == \A a \in LiveAccounts : accounts[a].external \in owned[a]

OwnInv == /\ TypeInv /\ UnbornIds /\ SnapshotIsOwn /\ ExternalIsOwn
          /\ OwnCosts /\ ManualOnly

(* A row that a worker has read was there when it did.                     *)
LEMMA WhoLists ==
    ASSUME TypeInv, [Next]_vars, NEW w \in Worker, NEW a \in Account,
           listed'[w][a] # NoRow
    PROVE  \/ listed'[w][a] = listed[w][a]
           \/ /\ HasAccount(a)
              /\ listed'[w][a] = SnapshotOf(accounts[a])
              /\ UNCHANGED <<accounts, owned, sequence>>
<1> USE DEF TypeInv, TypeOK
<1>1. CASE UNCHANGED vars
  BY <1>1 DEF vars, locals
<1>2. CASE SyncNext
  <2>1. ASSUME NEW v \in CronRun, StartSyncAll(v)
        PROVE  \/ listed'[w][a] = listed[w][a]
               \/ /\ HasAccount(a)
                  /\ listed'[w][a] = SnapshotOf(accounts[a])
                  /\ UNCHANGED <<accounts, owned, sequence>>
    BY <2>1 DEF StartSyncAll, tables, Worker
  <2>2. ASSUME NEW v \in CronRun,
               \/ \E b \in Account : NextAccount(v, b) \/ SkipManualAccount(v, b)
               \/ FinishSyncAll(v)
               \/ RecordFailure(v)
        PROVE  listed'[w][a] = listed[w][a]
    BY <2>2 DEF NextAccount, SkipManualAccount, FinishSyncAll, RecordFailure,
                DoneWithAccount, Worker
  <2>3. ASSUME NEW h \in Handler, NEW b \in Account, SyncNow(h, b)
        PROVE  \/ listed'[w][a] = listed[w][a]
               \/ /\ HasAccount(a)
                  /\ listed'[w][a] = SnapshotOf(accounts[a])
                  /\ UNCHANGED <<accounts, owned, sequence>>
    BY <2>3 DEF SyncNow, tables, Worker
  <2>4. ASSUME NEW h \in Handler, SyncNowFails(h)
        PROVE  listed'[w][a] = listed[w][a]
    BY <2>4 DEF SyncNowFails, DoneWithAccount, Worker
  <2>5. ASSUME NEW v \in Worker,
               \/ LoadCredential(v)
               \/ \E window \in SUBSET CostKey : FetchCosts(v, window)
               \/ StoreCosts(v)
               \/ StampSynced(v)
               \/ SyncStepFails(v)
        PROVE  listed'[w][a] = listed[w][a]
    BY <2>5 DEF LoadCredential, FetchCosts, StoreCosts, StampSynced,
                SyncStepFails, DoneWithAccount
  <2> QED
    BY <1>2, <2>1, <2>2, <2>3, <2>4, <2>5 DEF SyncNext
<1>3. CASE AdminNext
  BY <1>3 DEF AdminNext, CreateCredential, CountCredentialUse, DeleteCredential,
              CreateCloudAccount, UpdateCloudAccount, PurgeCosts, RemoveAccount,
              DeleteFails, CascadeDelete, ImportCSV, locals
<1>4. CASE \E x \in ExternalID, k \in CostKey : ReviseBill(x, k)
  BY <1>4 DEF ReviseBill, locals
<1>5. CASE Restart
  BY <1>5 DEF Restart, NoneListed
<1> QED
  BY <1>1, <1>2, <1>3, <1>4, <1>5 DEF Next

(* Where a row of the accounts comes from: it was there before, with the   *)
(* same provider, or it is new.                                            *)
LEMMA WhereRowsComeFrom ==
    ASSUME TypeInv, [Next]_vars, NEW a \in Account, HasAccount(a)'
    PROVE  \/ /\ HasAccount(a)
              /\ accounts'[a].provider = accounts[a].provider
              /\ owned[a] \subseteq owned'[a]
              /\ \/ accounts'[a].external = accounts[a].external
                 \/ accounts'[a].external \in owned'[a]
              /\ \/ accounts'[a].status = accounts[a].status
                 \/ \E w \in Worker : Syncing(w) /\ account[w] = a
           \/ /\ CreateCloudAccount
              /\ a = NextAccountId
              /\ owned'[a] = {accounts'[a].external}
              /\ accounts'[a].status = "never"
<1> DEFINE Kept == /\ HasAccount(a)
                   /\ accounts'[a].provider = accounts[a].provider
                   /\ owned[a] \subseteq owned'[a]
                   /\ \/ accounts'[a].external = accounts[a].external
                      \/ accounts'[a].external \in owned'[a]
                   /\ \/ accounts'[a].status = accounts[a].status
                      \/ \E w \in Worker : Syncing(w) /\ account[w] = a
<1>1. CASE UNCHANGED <<accounts, owned>>
  BY <1>1 DEF HasAccount
<1>2. ASSUME NEW w \in Worker, Syncing(w), NEW status \in Status,
             SetStatus(account[w], status), UNCHANGED owned
      PROVE  Kept
  <2>1. account[w] \in Account
    BY <1>2 DEF TypeInv, Grounded
  <2>2. /\ HasAccount(a)
        /\ SnapshotOf(accounts'[a]) = SnapshotOf(accounts[a])
    BY <1>2, <2>1, StatusType DEF TypeInv, HasAccount
  <2>3. /\ accounts'[a].provider = accounts[a].provider
        /\ accounts'[a].external = accounts[a].external
    BY <2>2 DEF SnapshotOf
  <2>4. account[w] # a => accounts'[a] = accounts[a]
    BY <1>2, <2>1 DEF SetStatus, TypeInv, TypeOK
  <2> QED
    BY <1>2, <2>2, <2>3, <2>4
<1>3. ASSUME NEW w \in CronRun, RecordFailure(w) PROVE Kept
  <2>1. w \in Worker /\ Syncing(w)
    BY <1>3 DEF Worker, RecordFailure, Syncing, SyncStep
  <2> HIDE DEF Kept
  <2> QED
    BY <1>1, <1>2, <1>3, <2>1 DEF RecordFailure, Status, Kept, HasAccount
<1>4. ASSUME NEW w \in Worker, StampSynced(w) PROVE Kept
  <2>1. Syncing(w)
    BY <1>4 DEF StampSynced, Syncing, SyncStep
  <2> HIDE DEF Kept
  <2> QED
    BY <1>2, <1>4, <2>1 DEF StampSynced, Status
<1>5. CASE CreateCloudAccount
  <2>1. PICK b \in Account, p \in Provider, x \in ExternalID,
             c \in Credential \cup {NoRow} :
           /\ b = NextAccountId
           /\ accounts' = [accounts EXCEPT ![b] =
                  [provider |-> p, external |-> x, credential |-> c,
                   active |-> TRUE, status |-> "never"]]
           /\ owned' = [owned EXCEPT ![b] = {x}]
    BY <1>5 DEF CreateCloudAccount
  <2>2. CASE a = b
    BY <1>5, <2>1, <2>2 DEF TypeInv, TypeOK
  <2>3. CASE a # b
    BY <2>1, <2>3 DEF TypeInv, TypeOK, HasAccount
  <2> QED
    BY <2>2, <2>3
<1>6. ASSUME NEW b \in Account, UpdateCloudAccount(b) PROVE Kept
  <2>1. accounts[b] \in AccountRow
    BY <1>6 DEF UpdateCloudAccount, HasAccount, TypeInv, TypeOK
  <2>2. PICK x \in ExternalID, c \in Credential \cup {accounts[b].credential},
             active \in BOOLEAN :
           /\ accounts' = [accounts EXCEPT ![b].external = x,
                                           ![b].credential = c,
                                           ![b].active = active]
           /\ owned' = [owned EXCEPT ![b] = @ \cup {x}]
    BY <1>6 DEF UpdateCloudAccount
  <2>3. CASE a = b
    BY <1>6, <2>1, <2>2, <2>3
    DEF UpdateCloudAccount, TypeInv, TypeOK, AccountRow
  <2>4. CASE a # b
    BY <2>2, <2>4 DEF TypeInv, TypeOK, HasAccount
  <2> QED
    BY <2>3, <2>4
<1>7. ASSUME NEW h \in Handler, RemoveAccount(h) PROVE Kept
  BY <1>7 DEF RemoveAccount, HasAccount, TypeInv, TypeOK
<1>8. ASSUME NEW below \in SUBSET LiveAccounts, CascadeDelete(below) PROVE Kept
  BY <1>8 DEF CascadeDelete, HasAccount
<1> QED
  BY <1>1, <1>3, <1>4, <1>5, <1>6, <1>7, <1>8, WhoWritesAccounts

LEMMA WhoCounts ==
    ASSUME [Next]_vars
    PROVE  UNCHANGED sequence \/ CreateCredential \/ CreateCloudAccount
BY DEF Next, SyncNext, AdminNext, vars, tables, StartSyncAll, NextAccount,
       SkipManualAccount, FinishSyncAll, RecordFailure, SyncNow, SyncNowFails,
       LoadCredential, FetchCosts, StoreCosts, StampSynced, SyncStepFails,
       CountCredentialUse, DeleteCredential, UpdateCloudAccount, PurgeCosts,
       RemoveAccount, DeleteFails, CascadeDelete, ImportCSV, ReviseBill, Restart

LEMMA SequenceGrows ==
    ASSUME TypeInv, [Next]_vars
    PROVE  /\ sequence.account \in Int /\ sequence'.account \in Int
           /\ sequence.account <= sequence'.account
<1> USE DEF TypeInv, TypeOK
<1>1. sequence.account \in Int
  BY BoundsAssumption
<1>2. CASE UNCHANGED sequence
  BY <1>1, <1>2
<1>3. CASE CreateCredential
  BY <1>1, <1>3 DEF CreateCredential
<1>4. CASE CreateCloudAccount
  BY <1>1, <1>4, BoundsAssumption DEF CreateCloudAccount, Larger, Account
<1> QED
  BY <1>2, <1>3, <1>4, WhoCounts

LEMMA StepOwn == ASSUME ~ReuseIds PROVE OwnInv /\ [Next]_vars => OwnInv'
<1> SUFFICES ASSUME OwnInv, [Next]_vars PROVE OwnInv'
  OBVIOUS
<1>1. TypeInv /\ TypeInv'
  BY StepType DEF OwnInv
<1>2. /\ sequence.account \in Int /\ sequence'.account \in Int
      /\ sequence.account <= sequence'.account
  BY <1>1, SequenceGrows
\* a new row has an id that left no trace so far
<1>3. ASSUME NEW a \in Account, CreateCloudAccount, a = NextAccountId
      PROVE  Unborn(a) /\ a <= sequence'.account
  <2>1. a = 1 + sequence.account
    BY <1>3 DEF NextAccountId
  <2>2. sequence'.account = a
    BY <1>1, <1>2, <1>3, <2>1
    DEF CreateCloudAccount, Larger, TypeInv, TypeOK, NextAccountId
  <2> QED
    BY <1>2, <2>1, <2>2 DEF OwnInv, UnbornIds
<1>4. UnbornIds'
  <2> SUFFICES ASSUME NEW a \in Account, sequence'.account < a PROVE Unborn(a)'
    BY DEF UnbornIds
  <2>1. Unborn(a) /\ sequence.account < a
    BY <1>2 DEF OwnInv, UnbornIds, Account
  <2>2. ~HasAccount(a)'
    BY <1>1, <1>2, <1>3, <2>1, WhereRowsComeFrom DEF Unborn, Account
  <2>3. \A k \in CostKey : costs'[a][k] \in {NoRow, CsvAmount}
    <3>1. ASSUME NEW w \in Worker, StoreCosts(w) PROVE account[w] # a
      BY <1>1, <2>1, <3>1
      DEF StoreCosts, TypeInv, Grounded, Syncing, SyncStep, Unborn
    <3>2. ASSUME NEW w \in Worker, StoreCosts(w) PROVE costs'[a] = costs[a]
      BY <1>1, <2>1, <3>1, <3>2 DEF StoreCosts, Upsert, TypeInv, TypeOK
    <3>3. ASSUME NEW b \in Account, NEW keys \in SUBSET CostKey,
                 ImportCSV(b, keys)
          PROVE  \A k \in CostKey : costs'[a][k] \in {NoRow, CsvAmount}
      BY <1>1, <2>1, <3>3 DEF ImportCSV, Unborn, TypeInv, TypeOK
    <3>4. ASSUME \/ \E h \in Handler, b \in Account : PurgeCosts(h, b)
                 \/ \E below \in SUBSET LiveAccounts : CascadeDelete(below)
          PROVE  costs'[a] \in {NoCosts, costs[a]}
      BY <1>1, <2>1, <3>4 DEF PurgeCosts, CascadeDelete, TypeInv, TypeOK
    <3> QED
      BY <1>1, <2>1, <3>2, <3>3, <3>4, WhoWritesCosts DEF Unborn, NoCosts
  <2>4. \A w \in Worker : listed'[w][a] = NoRow
    BY <1>1, <2>1, WhoLists DEF Unborn
  <2> QED
    BY <2>2, <2>3, <2>4 DEF Unborn
<1>5. SnapshotIsOwn'
  <2> SUFFICES ASSUME NEW w \in Worker, NEW a \in Account, HasAccount(a)',
                      listed'[w][a] # NoRow
               PROVE  /\ listed'[w][a].external \in owned'[a]
                      /\ listed'[w][a].provider = accounts'[a].provider
    BY DEF SnapshotIsOwn, LiveAccounts
  <2>1. CASE listed'[w][a] = listed[w][a]
    <3>1. ~Unborn(a)
      BY <2>1 DEF Unborn
    <3>2. HasAccount(a) /\ owned[a] \subseteq owned'[a]
          /\ accounts'[a].provider = accounts[a].provider
      BY <1>1, <1>3, <3>1, WhereRowsComeFrom
    <3> QED
      BY <2>1, <3>2 DEF OwnInv, SnapshotIsOwn, LiveAccounts
  <2>2. CASE /\ HasAccount(a)
             /\ listed'[w][a] = SnapshotOf(accounts[a])
             /\ UNCHANGED <<accounts, owned, sequence>>
    BY <2>2 DEF OwnInv, ExternalIsOwn, LiveAccounts, SnapshotOf
  <2> QED
    BY <1>1, <2>1, <2>2, WhoLists
<1>6. ExternalIsOwn'
  <2> SUFFICES ASSUME NEW a \in Account, HasAccount(a)'
               PROVE  accounts'[a].external \in owned'[a]
    BY DEF ExternalIsOwn, LiveAccounts
  <2>1. HasAccount(a) => accounts[a].external \in owned[a]
    BY DEF OwnInv, ExternalIsOwn, LiveAccounts
  <2> QED
    BY <1>1, <2>1, WhereRowsComeFrom
\* where a billed amount of a row that is there comes from
<1>7. ASSUME NEW a \in Account, HasAccount(a)', NEW k \in CostKey,
             costs'[a][k] \notin {NoRow, CsvAmount}
      PROVE  /\ HasAccount(a)
             /\ owned[a] \subseteq owned'[a]
             /\ accounts'[a].provider = accounts[a].provider
             /\ \/ costs'[a][k] = costs[a][k]
                \/ /\ costs'[a][k].source \in owned[a]
                   /\ accounts[a].provider \in LiveProvider
  <2>1. costs'[a][k] = costs[a][k] => ~Unborn(a)
    BY <1>7 DEF Unborn
  <2>2. ASSUME NEW w \in Worker, StoreCosts(w), account[w] = a,
               costs'[a][k] = [source |-> listed[w][account[w]].external,
                               revision |-> fetched[w][k]]
        PROVE  /\ HasAccount(a)
               /\ costs'[a][k].source \in owned[a]
               /\ accounts[a].provider \in LiveProvider
    <3>1. HasAccount(a)
      BY <1>7, <2>2 DEF StoreCosts, HasAccount
    <3>2. /\ listed[w][a] # NoRow
          /\ listed[w][a].provider \in LiveProvider
      BY <1>1, <2>2 DEF StoreCosts, TypeInv, Grounded, Syncing, SyncStep
    <3> QED
      BY <2>2, <3>1, <3>2 DEF OwnInv, SnapshotIsOwn, LiveAccounts
  <2>3. CreateCloudAccount => costs'[a][k] = costs[a][k]
    BY DEF CreateCloudAccount
  <2>4. /\ HasAccount(a)
        /\ owned[a] \subseteq owned'[a]
        /\ accounts'[a].provider = accounts[a].provider
    BY <1>1, <1>3, <1>7, <2>1, <2>3, WhereRowsComeFrom
  <2>5. ASSUME costs'[a][k] # costs[a][k]
        PROVE  \E w \in Worker :
                 /\ StoreCosts(w)
                 /\ account[w] = a
                 /\ costs'[a][k] = [source |-> listed[w][account[w]].external,
                                    revision |-> fetched[w][k]]
    <3>1. costs'[a][k] # NoRow /\ costs'[a][k] # CsvAmount
      BY <1>7
    <3> QED
      BY <1>1, <2>5, <3>1, AmountWritten
  <2> QED
    BY <2>2, <2>4, <2>5
<1>8. OwnCosts'
  BY <1>7 DEF OwnCosts, OwnInv, LiveAccounts, CsvAmount
<1>9. ManualOnly'
  <2> SUFFICES ASSUME NEW a \in Account, HasAccount(a)',
                      accounts'[a].provider \notin LiveProvider
               PROVE  /\ accounts'[a].status = "never"
                      /\ \A k \in CostKey : costs'[a][k] \in {NoRow, CsvAmount}
    BY DEF ManualOnly, LiveAccounts
  <2>1. ASSUME NEW w \in Worker, Syncing(w), account[w] = a, HasAccount(a)
        PROVE  accounts[a].provider \in LiveProvider
    BY <1>1, <2>1 DEF TypeInv, Grounded, OwnInv, SnapshotIsOwn, LiveAccounts
  <2>2. accounts'[a].status = "never"
    BY <1>1, <2>1, WhereRowsComeFrom DEF OwnInv, ManualOnly, LiveAccounts
  <2>3. \A k \in CostKey : costs'[a][k] \in {NoRow, CsvAmount}
    BY <1>7 DEF OwnInv, ManualOnly, LiveAccounts
  <2> QED
    BY <2>2, <2>3
<1> QED
  BY <1>1, <1>4, <1>5, <1>6, <1>8, <1>9 DEF OwnInv

LEMMA InitOwn == Init => OwnInv
<1> SUFFICES ASSUME Init PROVE OwnInv
  OBVIOUS
<1>1. \A a \in Account : ~HasAccount(a) /\ Unborn(a)
  BY DEF Init, HasAccount, Unborn, NoneListed, NoCosts
<1> QED
  BY <1>1, InitType
  DEF OwnInv, UnbornIds, SnapshotIsOwn, ExternalIsOwn, OwnCosts, ManualOnly,
      LiveAccounts

(* Where ids are not given out twice, every amount shown for an account    *)
(* was imported for it or comes from a bill of its own, and no sync writes *)
(* an account without an adapter (SyncAll, upsertCostRecords).             *)
THEOREM CostsAreOwn ==
    ASSUME ~ReuseIds
    PROVE  Spec => [](OwnCosts /\ ManualOnly)
<1>1. OwnInv => OwnCosts /\ ManualOnly
  BY DEF OwnInv
<1>2. OwnInv /\ [Next]_vars => OwnInv'
  BY StepOwn
<1> QED
  BY <1>1, <1>2, InitOwn, PTL DEF Spec

(* Accounts of a provider without an adapter are never synced, not even    *)
(* when somebody asks for it (SyncAll, handleSyncNow).                     *)
COROLLARY ManualAccountsRest ==
    ASSUME ~ReuseIds
    PROVE  Spec => []ManualOnly
BY CostsAreOwn, PTL

-------------------------------------------------------------------------------
(* Nothing is lost.                                                        *)

(* Costs of an account that stays are dropped only by a delete of that     *)
(* account (handleDeleteCloudAccount), never by a sync or an import.       *)
THEOREM HistoryIsKept == Spec => HistoryKept
<1> DEFINE Kept ==
      \A a \in LiveAccounts, k \in CostKey :
          costs[a][k] # NoRow /\ costs'[a][k] = NoRow =>
             \/ accounts'[a] = NoRow
             \/ \E h \in Handler : pc'[h] = "remove" /\ account'[h] = a
<1>1. TypeInv /\ [Next]_vars => [Kept]_vars
  <2> SUFFICES ASSUME TypeInv, [Next]_vars, NEW a \in LiveAccounts,
                      NEW k \in CostKey,
                      costs[a][k] # NoRow, costs'[a][k] = NoRow
               PROVE  \/ accounts'[a] = NoRow
                      \/ \E h \in Handler : pc'[h] = "remove" /\ account'[h] = a
    OBVIOUS
  <2> USE DEF TypeInv, TypeOK, LiveAccounts
  <2>1. ASSUME NEW w \in Worker, StoreCosts(w) PROVE FALSE
    <3>1. /\ listed[w][account[w]].external \in ExternalID
          /\ account[w] \in Account
      BY <2>1, SnapshotExternal DEF StoreCosts, Syncing, SyncStep
    <3>2. [source |-> listed[w][account[w]].external,
           revision |-> fetched[w][k]] \in Amount
      BY <3>1 DEF Amount
    <3> QED
      BY <2>1, <3>1, <3>2, NoRowIsNoRow DEF StoreCosts, Upsert
  <2>2. ASSUME NEW b \in Account, NEW keys \in SUBSET CostKey,
               ImportCSV(b, keys)
        PROVE  FALSE
    <3>1. CsvAmount \in Amount
      BY BoundsAssumption DEF CsvAmount, Amount
    <3> QED
      BY <2>2, <3>1, NoRowIsNoRow DEF ImportCSV
  <2>3. ASSUME NEW h \in Handler, NEW b \in Account, PurgeCosts(h, b)
        PROVE  pc'[h] = "remove" /\ account'[h] = a
    BY <2>3 DEF PurgeCosts, Worker
  <2>4. ASSUME NEW below \in SUBSET LiveAccounts, CascadeDelete(below)
        PROVE  accounts'[a] = NoRow
    BY <2>4 DEF CascadeDelete
  <2> QED
    BY <2>1, <2>2, <2>3, <2>4, WhoWritesCosts
<1> QED
  BY <1>1, TypeCorrect, PTL DEF Spec, HistoryKept

(* A sync that ends in a stamp does not undo what was done to the row      *)
(* while it ran (SyncAccount, SyncAll).                                    *)
THEOREM ConfigurationIsKept == Spec => SyncKeepsConfiguration
<1> DEFINE SameConfiguration ==
      \A a \in Account :
          /\ accounts'[a] = NoRow <=> accounts[a] = NoRow
          /\ HasAccount(a) =>
                /\ SnapshotOf(accounts'[a]) = SnapshotOf(accounts[a])
                /\ accounts'[a].active = accounts[a].active
<1> DEFINE Kept == (\E w \in Worker : pc[w] \in SyncStep /\ pc'[w] # pc[w])
                      => SameConfiguration
<1>1. TypeInv /\ [Next]_vars => [Kept]_vars
  <2> SUFFICES ASSUME TypeInv, [Next]_vars,
                      NEW v \in Worker, pc[v] \in SyncStep, pc'[v] # pc[v]
               PROVE  SameConfiguration
    OBVIOUS
  <2>1. UNCHANGED accounts => SameConfiguration
    OBVIOUS
  <2>2. ASSUME NEW w \in Worker, Syncing(w), NEW status \in Status,
               SetStatus(account[w], status)
        PROVE  SameConfiguration
    <3>1. account[w] \in Account
      BY <2>2 DEF TypeInv, Grounded
    <3> QED
      BY <2>2, <3>1, StatusType DEF TypeInv, HasAccount
  <2> HIDE DEF SameConfiguration
  <2>3. ASSUME NEW w \in CronRun, RecordFailure(w) PROVE SameConfiguration
    <3>1. w \in Worker /\ Syncing(w)
      BY <2>3 DEF Worker, RecordFailure, Syncing, SyncStep
    <3> QED
      BY <2>1, <2>2, <2>3, <3>1 DEF RecordFailure, Status
  <2>4. ASSUME NEW w \in Worker, StampSynced(w) PROVE SameConfiguration
    BY <2>2, <2>4 DEF StampSynced, Status, Syncing, SyncStep
  <2>5. ~CreateCloudAccount
    BY DEF CreateCloudAccount, locals
  <2>6. ~\E a \in Account : UpdateCloudAccount(a)
    BY DEF UpdateCloudAccount, locals
  <2>7. ~\E h \in Handler : RemoveAccount(h)
    BY DEF RemoveAccount, TypeInv, TypeOK, Worker, SyncStep
  <2>8. ~\E below \in SUBSET LiveAccounts : CascadeDelete(below)
    BY DEF CascadeDelete, locals
  <2> QED
    BY <2>1, <2>3, <2>4, <2>5, <2>6, <2>7, <2>8, WhoWritesAccounts
<1> QED
  BY <1>1, TypeCorrect, PTL DEF Spec, SyncKeepsConfiguration

-------------------------------------------------------------------------------
(* Every step of the tables is a whole step of the ledger, or none.        *)

LEMMA StepLedger ==
    BilledInv /\ [Next]_vars => [Ledger!Next]_(Ledger!vars)
<1> SUFFICES ASSUME BilledInv, [Next]_vars
             PROVE  [Ledger!Next]_(Ledger!vars)
  OBVIOUS
<1>1. TypeInv
  BY DEF BilledInv
<1> DEFINE SameLive == LiveAccounts' = LiveAccounts
<1>2. UNCHANGED accounts => SameLive
  BY DEF LiveAccounts, HasAccount
\* a whole answer is recorded
<1>3. ASSUME NEW w \in Worker, StoreCosts(w)
      PROVE  Ledger!Next
  <2> DEFINE x == listed[w][account[w]].external
  <2>1. Syncing(w) /\ pc[w] = "store"
    BY <1>3 DEF StoreCosts, Syncing, SyncStep
  <2>2. x \in ExternalID /\ account[w] \in Account
    BY <1>1, <2>1, SnapshotExternal
  <2>3. fetched[w] \in [CostKey -> 0..MaxRevision]
    BY <1>1 DEF TypeInv, TypeOK
  <2>4. \A k \in CostKey : fetched[w][k] <= bill[x][k]
    BY <2>1 DEF BilledInv, FetchedWasBilled
  <2>5. UNCHANGED accounts /\ UNCHANGED bill
    BY <1>3 DEF StoreCosts, outside
  <2>6. Upsert(account[w], x, fetched[w])
    BY <1>3 DEF StoreCosts
  <2> HIDE DEF x
  <2>7. Ledger!Record(account[w], x, fetched[w])
    BY <1>2, <2>4, <2>5, <2>6 DEF Ledger!Record, Upsert
  <2> QED
    BY <2>2, <2>3, <2>7 DEF Ledger!Next
<1>4. ASSUME NEW h \in Handler, NEW a \in Account, PurgeCosts(h, a)
      PROVE  Ledger!Next
  <2>1. Ledger!Purge(a)
    BY <1>2, <1>4 DEF Ledger!Purge, Ledger!None, NoCosts, PurgeCosts, outside
  <2> QED
    BY <2>1 DEF Ledger!Next
<1>5. ASSUME NEW below \in SUBSET LiveAccounts, CascadeDelete(below)
      PROVE  Ledger!Next
  <2>1. LiveAccounts' = LiveAccounts \ below
    BY <1>5 DEF CascadeDelete, LiveAccounts, HasAccount
  <2>2. Ledger!CloseAll(below)
    BY <1>5, <2>1
    DEF Ledger!CloseAll, Ledger!None, NoCosts, CascadeDelete, outside
  <2> QED
    BY <2>2 DEF Ledger!Next
<1>6. ASSUME NEW a \in Account, NEW keys \in SUBSET CostKey, ImportCSV(a, keys)
      PROVE  Ledger!Next
  <2>1. Ledger!Import(a, keys)
    BY <1>2, <1>6 DEF Ledger!Import, ImportCSV, CsvAmount, outside
  <2> QED
    BY <2>1 DEF Ledger!Next
\* the row of an account changes
<1>7. ASSUME NEW w \in Worker, Syncing(w), NEW status \in Status,
             SetStatus(account[w], status)
      PROVE  SameLive
  <2>1. account[w] \in Account
    BY <1>1, <1>7 DEF TypeInv, Grounded
  <2> QED
    BY <1>1, <1>7, <2>1, StatusType DEF TypeInv, LiveAccounts, HasAccount
<1>8. ASSUME NEW w \in CronRun, RecordFailure(w)
      PROVE  UNCHANGED Ledger!vars
  <2>1. w \in Worker /\ Syncing(w)
    BY <1>8 DEF Worker, RecordFailure, Syncing, SyncStep
  <2>2. SameLive
    BY <1>2, <1>7, <1>8, <2>1 DEF RecordFailure, Status
  <2> QED
    BY <1>8, <2>2 DEF Ledger!vars, RecordFailure, outside
<1>9. ASSUME NEW w \in Worker, StampSynced(w)
      PROVE  UNCHANGED Ledger!vars
  <2>1. SameLive
    BY <1>7, <1>9 DEF StampSynced, Status, Syncing, SyncStep
  <2> QED
    BY <1>9, <2>1 DEF Ledger!vars, StampSynced, outside
<1>10. ASSUME CreateCloudAccount
       PROVE  [Ledger!Next]_(Ledger!vars)
  <2>1. PICK a \in Account, row \in AccountRow :
           accounts' = [accounts EXCEPT ![a] = row]
    BY <1>10 DEF CreateCloudAccount, AccountRow, Status
  <2>2. LiveAccounts' = LiveAccounts \cup {a}
    BY <1>1, <2>1, NoRowIsNoRow
    DEF LiveAccounts, HasAccount, TypeInv, TypeOK
  <2>3. UNCHANGED costs /\ UNCHANGED bill
    BY <1>10 DEF CreateCloudAccount, outside
  <2>4. CASE a \in LiveAccounts
    BY <2>2, <2>3, <2>4 DEF Ledger!vars
  <2>5. CASE a \notin LiveAccounts
    BY <2>2, <2>3, <2>5 DEF Ledger!Next, Ledger!Open
  <2> QED
    BY <2>4, <2>5
<1>11. ASSUME NEW a \in Account, UpdateCloudAccount(a)
       PROVE  UNCHANGED Ledger!vars
  <2>1. PICK x \in ExternalID,
             c \in Credential \cup {accounts[a].credential},
             active \in BOOLEAN :
           accounts' = [accounts EXCEPT ![a].external = x,
                                        ![a].credential = c,
                                        ![a].active = active]
    BY <1>11 DEF UpdateCloudAccount
  <2>2. accounts[a] \in AccountRow
    BY <1>1, <1>11 DEF UpdateCloudAccount, TypeInv, TypeOK, HasAccount
  <2> DEFINE row == [accounts[a] EXCEPT !.external = x, !.credential = c,
                                        !.active = active]
  <2>3. accounts' = [accounts EXCEPT ![a] = row]
    BY <1>1, <2>1, <2>2 DEF TypeInv, TypeOK
  <2>4. row \in AccountRow
    BY <2>2 DEF AccountRow
  <2> HIDE DEF row
  <2>5. SameLive
    BY <1>1, <2>2, <2>3, <2>4, NoRowIsNoRow
    DEF LiveAccounts, HasAccount, TypeInv, TypeOK
  <2> QED
    BY <1>11, <2>5 DEF Ledger!vars, UpdateCloudAccount, outside
<1>12. ASSUME NEW h \in Handler, RemoveAccount(h)
       PROVE  [Ledger!Next]_(Ledger!vars)
  <2> DEFINE a == account[h]
  <2>1. a \in Account
    BY <1>1, <1>12 DEF RemoveAccount, TypeInv, Grounded, Worker
  <2>2. LiveAccounts' = LiveAccounts \ {a}
    BY <1>1, <1>12, <2>1
    DEF RemoveAccount, LiveAccounts, HasAccount, TypeInv, TypeOK
  <2>3. UNCHANGED costs /\ UNCHANGED bill
    BY <1>12 DEF RemoveAccount, outside
  <2> HIDE DEF a
  <2>4. CASE a \in LiveAccounts
    BY <2>1, <2>2, <2>3, <2>4 DEF Ledger!Next, Ledger!Close
  <2>5. CASE a \notin LiveAccounts
    BY <2>2, <2>3, <2>5 DEF Ledger!vars
  <2> QED
    BY <2>4, <2>5
\* nothing is written but the provider's bill
<1>13. ASSUME NEW x \in ExternalID, NEW k \in CostKey, ReviseBill(x, k)
       PROVE  Ledger!Next
  <2>1. Ledger!Revise(x, k)
    BY <1>2, <1>13 DEF Ledger!Revise, ReviseBill, tables
  <2> QED
    BY <2>1 DEF Ledger!Next
<1>14. CASE UNCHANGED costs /\ UNCHANGED accounts /\ UNCHANGED bill
  BY <1>2, <1>14 DEF Ledger!vars
<1> HIDE DEF SameLive
<1> QED
  BY <1>3, <1>4, <1>5, <1>6, <1>8, <1>9, <1>10, <1>11, <1>12, <1>13, <1>14,
     WhoWritesCosts, WhoWritesAccounts, WhoRevises

(* The tables implement the ledger: statements of syncs, imports and       *)
(* deletes that interleave, fail and are cut short show as whole steps.    *)
THEOREM SyncImplementsLedger == Spec => ImplementsCostLedger
<1>1. Init => Ledger!Init
  BY DEF Init, Ledger!Init, Ledger!None, NoCosts, Nothing, LiveAccounts,
         HasAccount
<1>2. Init => BilledInv
  <2> SUFFICES ASSUME Init PROVE NoInventedAmounts /\ FetchedWasBilled
    BY InitType DEF BilledInv
  <2> QED
    BY DEF Init, NoInventedAmounts, FetchedWasBilled, NoCosts
<1> QED
  BY <1>1, <1>2, StepBilled, StepLedger, PTL
  DEF Spec, ImplementsCostLedger, Ledger!Spec
===============================================================================
