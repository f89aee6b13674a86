------------------------------- MODULE CostSync -------------------------------
(***************************************************************************)
(* The cost ledger and everybody who writes it.                            *)
(*                                                                         *)
(* Three tables of the SQLite database (cloud_accounts,                    *)
(* provider_credentials, cost_records) are written, statement by statement *)
(* and without a common lock, by                                           *)
(*   - the runs of scheduler.SyncAll: one at boot, then one per tick of    *)
(*     the cron, each in a goroutine of its own, so that they overlap,     *)
(*   - the HTTP handlers, one goroutine per request: sync now, CSV import, *)
(*     create / update / delete of accounts and credentials, and the       *)
(*     cascading deletes of the hierarchy.                                 *)
(* One SQL statement, or one transaction, is one step.  Between two        *)
(* statements of a handler or of a sync any other process may step.        *)
(*                                                                         *)
(* Data is abstracted to what the properties tell apart.  A stored amount  *)
(* is the bill it was read from and the revision of that bill line; a cost *)
(* key is a (date, service) pair, the rest of the unique index of          *)
(* cost_records being the account.                                         *)
(***************************************************************************)
EXTENDS Integers, FiniteSetsExt

CONSTANTS
    MaxAccount,    \* bound: ids the table of accounts can give out
    MaxCredential, \* bound: ids the table of credentials can give out
    ExternalID,    \* the providers' names of an account, each with its bill
    CostKey,       \* (date, service) pairs
    Provider,      \* provider keys
    LiveProvider,  \* those that have an adapter in providers.Registry
    EncryptionKey, \* keys the server may be started with
    CronRun,       \* bound: runs of SyncAll in progress at the same time
    Handler,       \* bound: multi-statement HTTP requests at the same time
    MaxRevision,   \* bound: revisions of one line of a bill
    ReuseIds,      \* does SQLite give the id of a deleted last row again?
    DbErrors,      \* may a statement fail (locked database, full disk)?
    NoRow,         \* SQL NULL, and the absence of a row
    Csv            \* the source of an imported amount

Account    == 1..MaxAccount
Credential == 1..MaxCredential
Worker     == CronRun \cup Handler

ASSUME BoundsAssumption ==
    /\ MaxAccount \in Nat
    /\ MaxCredential \in Nat
    /\ MaxRevision \in Nat
    /\ ReuseIds \in BOOLEAN
    /\ DbErrors \in BOOLEAN
    /\ LiveProvider \subseteq Provider
    /\ CronRun \cap Handler = {}

VARIABLES
    accounts,     \* cloud_accounts: id -> row
    credentials,  \* provider_credentials: id -> key its payload is sealed with
    costs,        \* cost_records: account id -> (date, service) -> amount
    sequence,     \* the highest id each table has given out
    boxKey,       \* the key of the running server's crypto.Box
    bill,         \* the providers' side: external id -> cost key -> revision
    pc,           \* where each worker stands
    listed,       \* the rows a worker has read and not yet dealt with
    account,      \* the account a worker is dealing with
    credential,   \* the credential a handler is about to delete
    fetched,      \* the cost records the provider answered to a worker
    owned         \* history: the external ids a row has ever carried

tables  == <<accounts, credentials, costs, sequence>>
locals  == <<pc, listed, account, credential, fetched>>
outside == <<boxKey, bill>>
vars    == <<tables, outside, locals, owned>>

-------------------------------------------------------------------------------
(* Rows *)

Status == {"never", "synced", "error"}  \* last_sync_at, last_sync_err

AccountRow == [provider: Provider, external: ExternalID,
               credential: Credential \cup {NoRow},
               active: BOOLEAN, status: Status]

\* the columns SyncAccount reads of the row it was given
Snapshot    == [provider: Provider, external: ExternalID,
                credential: Credential \cup {NoRow}]
\* variant: the query leaves a column out
SnapshotWithoutCredential(row) == [provider |-> row.provider,
                                   external |-> row.external]
SnapshotOf(row) == [provider   |-> row.provider,
                    external   |-> row.external,
                    credential |-> row.credential]

Amount    == [source: ExternalID \cup {Csv}, revision: 0..MaxRevision]
CsvAmount == [source |-> Csv, revision |-> 0]
NoCosts   == [k \in CostKey |-> NoRow]
Nothing   == [k \in CostKey |-> 0]       \* an answer without records
NoneListed == [a \in Account |-> NoRow]

SyncStep == {"load", "fetch", "store", "stamp", "failed"}

(* NoRow and Csv are none of the values they are told apart from.          *)
ASSUME FreshAssumption ==
    /\ NoRow \notin Account \cup Credential \cup EncryptionKey
    /\ NoRow \notin AccountRow \cup Snapshot \cup Amount
    /\ Csv \notin ExternalID

HasAccount(a)    == accounts[a] # NoRow
HasCredential(c) == credentials[c] # NoRow
LiveAccounts     == {a \in Account : HasAccount(a)}
LiveCredentials  == {c \in Credential : HasCredential(c)}

(* A row id is one more than the largest id of the table or, where the     *)
(* table is AUTOINCREMENT, than the largest id it ever had.                *)
NextAccountId ==
    1 + IF ReuseIds THEN Max(LiveAccounts \cup {0}) ELSE sequence.account
NextCredentialId ==
    1 + IF ReuseIds THEN Max(LiveCredentials \cup {0}) ELSE sequence.credential

Larger(i, j) == IF i < j THEN j ELSE i

-------------------------------------------------------------------------------
Init ==
    /\ accounts    = [a \in Account |-> NoRow]
    /\ credentials = [c \in Credential |-> NoRow]
    /\ costs       = [a \in Account |-> NoCosts]
    /\ sequence    = [account |-> 0, credential |-> 0]
    /\ boxKey \in EncryptionKey
    /\ bill        = [x \in ExternalID |-> Nothing]
    /\ pc          = [w \in Worker |-> "idle"]
    /\ listed      = [w \in Worker |-> NoneListed]
    /\ account     = [w \in Worker |-> NoRow]
    /\ credential  = [w \in Worker |-> NoRow]
    /\ fetched     = [w \in Worker |-> Nothing]
    /\ owned       = [a \in Account |-> {}]

-------------------------------------------------------------------------------
(* Sync: SyncAll, SyncAccount and handleSyncNow *)

(* The account of w is dealt with: SyncAll goes on to the next one, the    *)
(* sync-now handler answers.                                               *)
DoneWithAccount(w) ==
    /\ pc'      = [pc EXCEPT ![w] = IF w \in CronRun THEN "next" ELSE "idle"]
    /\ listed'  = [listed EXCEPT ![w][account[w]] = NoRow]
    /\ account' = [account EXCEPT ![w] = NoRow]
    /\ fetched' = [fetched EXCEPT ![w] = Nothing]
    /\ UNCHANGED credential

SetStatus(a, status) ==
    accounts' = IF HasAccount(a) THEN [accounts EXCEPT ![a].status = status]
                                 ELSE accounts

(* SyncAll lists the active accounts once, in one query.                   *)
StartSyncAll(w) ==
    /\ pc[w] = "idle"
    /\ pc' = [pc EXCEPT ![w] = "next"]
    /\ listed' = [listed EXCEPT ![w] =
            [a \in Account |-> IF HasAccount(a) /\ accounts[a].active
                               THEN SnapshotOf(accounts[a]) ELSE NoRow]]
    /\ UNCHANGED <<tables, outside, account, credential, fetched, owned>>

NextAccount(w, a) ==
    /\ pc[w] = "next"
    /\ listed[w][a] # NoRow
    /\ listed[w][a].provider \in LiveProvider
    /\ pc'      = [pc EXCEPT ![w] = "load"]
    /\ account' = [account EXCEPT ![w] = a]
    /\ UNCHANGED <<tables, outside, listed, credential, fetched, owned>>

SkipManualAccount(w, a) ==
    /\ pc[w] = "next"
    /\ listed[w][a] # NoRow
    /\ listed[w][a].provider \notin LiveProvider
    /\ listed' = [listed EXCEPT ![w][a] = NoRow]
    /\ UNCHANGED <<tables, outside, pc, account, credential, fetched, owned>>

FinishSyncAll(w) ==
    /\ pc[w] = "next"
    /\ listed[w] = NoneListed
    /\ pc' = [pc EXCEPT ![w] = "idle"]
    /\ UNCHANGED <<tables, outside, listed, account, credential, fetched, owned>>

\* variant: the registry is not asked
SyncNowAnyProvider(h, a) ==
    /\ pc[h] = "idle"
    /\ HasAccount(a)
    /\ pc'      = [pc EXCEPT ![h] = "load"]
    /\ listed'  = [listed EXCEPT ![h][a] = SnapshotOf(accounts[a])]
    /\ account' = [account EXCEPT ![h] = a]
    /\ UNCHANGED <<tables, outside, credential, fetched, owned>>

(* handleSyncNow: 404 without the row, 400 without an adapter; it does not *)
(* look at active.                                                         *)
SyncNow(h, a) ==
    /\ pc[h] = "idle"
    /\ HasAccount(a)
    /\ accounts[a].provider \in LiveProvider
    /\ pc'      = [pc EXCEPT ![h] = "load"]
    /\ listed'  = [listed EXCEPT ![h][a] = SnapshotOf(accounts[a])]
    /\ account' = [account EXCEPT ![h] = a]
    /\ UNCHANGED <<tables, outside, credential, fetched, owned>>

(* The credential the snapshot names is read and opened.                   *)
CredentialOpens(w) ==
    LET c == listed[w][account[w]].credential
    IN  /\ c # NoRow
        /\ HasCredential(c)
        /\ credentials[c] = boxKey

LoadCredential(w) ==
    /\ pc[w] = "load"
    /\ CredentialOpens(w)
    /\ pc' = [pc EXCEPT ![w] = "fetch"]
    /\ UNCHANGED <<tables, outside, listed, account, credential, fetched, owned>>

\* variant: an adapter that answers from a cache
FetchCostsCached(w, window) ==
    /\ pc[w] = "fetch"
    /\ \E cached \in [CostKey -> 0..MaxRevision] :
        /\ \A k \in CostKey :
                cached[k] <= bill[listed[w][account[w]].external][k]
        /\ fetched' = [fetched EXCEPT ![w] = cached]
    /\ pc' = [pc EXCEPT ![w] = "store"]
    /\ UNCHANGED <<tables, outside, listed, account, credential, owned>>

(* FetchCosts answers the lines of the bill that lie in the window (see    *)
(* SyncWindow) and that have been billed.  The bill is chosen by the       *)
(* account's external id, as the Azure, GCP and OCI adapters choose it;    *)
(* AWS reads the bill of the credential and leaves the external id alone.  *)
FetchCosts(w, window) ==
    /\ pc[w] = "fetch"
    /\ fetched' = [fetched EXCEPT ![w] =
            [k \in CostKey |-> IF k \in window
                               THEN bill[listed[w][account[w]].external][k]
                               ELSE 0]]
    /\ pc' = [pc EXCEPT ![w] = "store"]
    /\ UNCHANGED <<tables, outside, listed, account, credential, owned>>

\* variant: a line that is not billed is stored as well
UpsertEveryKey(a, x, records) ==
    costs' = [costs EXCEPT ![a] =
        [k \in CostKey |-> [source |-> x, revision |-> records[k]]]]

\* variant: the rows of the account are replaced, not upserted
UpsertReplacing(a, x, records) ==
    costs' = [costs EXCEPT ![a] =
        [k \in CostKey |-> IF records[k] = 0
                           THEN NoRow
                           ELSE [source |-> x, revision |-> records[k]]]]

\* variant: the unique index lacks the account, so that the row of another
\* account is in conflict and is updated
UpsertAcrossAccounts(a, x, records) ==
    costs' = [b \in Account |-> [k \in CostKey |->
        IF records[k] # 0 /\ (b = a \/ costs[b][k] # NoRow)
        THEN [source |-> x, revision |-> records[k]]
        ELSE costs[b][k]]]

(* upsertCostRecords: INSERT .. ON CONFLICT DO UPDATE, one statement; it   *)
(* never looks whether the account is still there.                         *)
Upsert(a, x, records) ==
    costs' = [costs EXCEPT ![a] =
        [k \in CostKey |-> IF records[k] = 0
                           THEN costs[a][k]
                           ELSE [source |-> x, revision |-> records[k]]]]

\* variant: the records are saved with the account they belong to, as gorm
\* saves associations, which puts a deleted row back
StoreCostsWithAccount(w) ==
    /\ pc[w] = "store"
    /\ Upsert(account[w], listed[w][account[w]].external, fetched[w])
    /\ LET a == account[w]
           row == listed[w][a]
       IN  accounts' = [accounts EXCEPT ![a] =
                IF HasAccount(a) THEN @
                ELSE [provider |-> row.provider, external |-> row.external,
                      credential |-> row.credential,
                      active |-> TRUE, status |-> "never"]]
    /\ pc' = [pc EXCEPT ![w] = "stamp"]
    /\ fetched' = [fetched EXCEPT ![w] = Nothing]
    /\ UNCHANGED <<credentials, sequence, outside, listed, account,
                   credential, owned>>

StoreCosts(w) ==
    /\ pc[w] = "store"
    /\ Upsert(account[w], listed[w][account[w]].external, fetched[w])
    /\ pc' = [pc EXCEPT ![w] = "stamp"]
    /\ fetched' = [fetched EXCEPT ![w] = Nothing]
    /\ UNCHANGED <<accounts, credentials, sequence, outside, listed, account,
                   credential, owned>>

\* variant: the whole row is saved, as it was read
StampSyncedSavingRow(w) ==
    /\ pc[w] = "stamp"
    /\ LET row == listed[w][account[w]]
       IN  accounts' = [accounts EXCEPT ![account[w]] =
                [provider |-> row.provider, external |-> row.external,
                 credential |-> row.credential,
                 active |-> TRUE, status |-> "synced"]]
    /\ DoneWithAccount(w)
    /\ UNCHANGED <<credentials, costs, sequence, outside, owned>>

StampSynced(w) ==
    /\ pc[w] = "stamp"
    /\ SetStatus(account[w], "synced")
    /\ DoneWithAccount(w)
    /\ UNCHANGED <<credentials, costs, sequence, outside, owned>>

(* Every error return of SyncAccount.                                      *)
SyncStepFails(w) ==
    /\ \/ pc[w] = "load"  /\ (DbErrors \/ ~CredentialOpens(w))
       \/ pc[w] = "fetch"
       \/ pc[w] = "store" /\ DbErrors /\ fetched[w] # Nothing
       \/ pc[w] = "stamp" /\ DbErrors
    /\ pc' = [pc EXCEPT ![w] = "failed"]
    /\ fetched' = [fetched EXCEPT ![w] = Nothing]
    /\ UNCHANGED <<tables, outside, listed, account, credential, owned>>

(* SyncAll writes the error into the row, and drops an error of that.      *)
RecordFailure(w) ==
    /\ w \in CronRun
    /\ pc[w] = "failed"
    /\ \/ SetStatus(account[w], "error")
       \/ DbErrors /\ UNCHANGED accounts
    /\ DoneWithAccount(w)
    /\ UNCHANGED <<credentials, costs, sequence, outside, owned>>

(* handleSyncNow answers 502 and leaves the row alone.                     *)
SyncNowFails(h) ==
    /\ h \in Handler
    /\ pc[h] = "failed"
    /\ DoneWithAccount(h)
    /\ UNCHANGED <<tables, outside, owned>>

-------------------------------------------------------------------------------
(* Credentials *)

CreateCredential ==
    \E c \in Credential :
        /\ c = NextCredentialId
        /\ credentials' = [credentials EXCEPT ![c] = boxKey]
        /\ sequence' = [sequence EXCEPT !.credential = Larger(@, c)]
        /\ UNCHANGED <<accounts, costs, outside, locals, owned>>

InUse(c) == \E a \in Account : HasAccount(a) /\ accounts[a].credential = c

(* handleDeleteCredential counts first.  It does not look at the error of  *)
(* the count, which leaves the counter at 0.                               *)
CountCredentialUse(h, c) ==
    /\ pc[h] = "idle"
    /\ ~InUse(c) \/ DbErrors
    /\ pc' = [pc EXCEPT ![h] = "drop"]
    /\ credential' = [credential EXCEPT ![h] = c]
    /\ UNCHANGED <<tables, outside, listed, account, fetched, owned>>

DeleteCredential(h) ==
    /\ pc[h] = "drop"
    /\ credentials' = [credentials EXCEPT ![credential[h]] = NoRow]
    /\ pc' = [pc EXCEPT ![h] = "idle"]
    /\ credential' = [credential EXCEPT ![h] = NoRow]
    /\ UNCHANGED <<accounts, costs, sequence, outside, listed, account, fetched,
                   owned>>

-------------------------------------------------------------------------------
(* Accounts *)

(* No foreign key is enforced: the credential id is whatever was sent.     *)
CreateCloudAccount ==
    \E a \in Account, p \in Provider, x \in ExternalID,
       c \in Credential \cup {NoRow} :
        /\ a = NextAccountId
        /\ accounts' = [accounts EXCEPT ![a] =
                [provider |-> p, external |-> x, credential |-> c,
                 active |-> TRUE, status |-> "never"]]
        /\ sequence' = [sequence EXCEPT !.account = Larger(@, a)]
        /\ owned' = [owned EXCEPT ![a] = {x}]
        /\ UNCHANGED <<credentials, costs, outside, locals>>

(* PATCH: any of the three columns, absent ones kept.  A credential can be *)
(* exchanged but not taken away, null being the same as absent.            *)
UpdateCloudAccount(a) ==
    /\ HasAccount(a)
    /\ \E x \in ExternalID, c \in Credential \cup {accounts[a].credential},
          active \in BOOLEAN :
        /\ accounts' = [accounts EXCEPT ![a].external = x,
                                        ![a].credential = c,
                                        ![a].active = active]
        /\ owned' = [owned EXCEPT ![a] = @ \cup {x}]
    /\ UNCHANGED <<credentials, costs, sequence, outside, locals>>

(* handleDeleteCloudAccount: two statements, no transaction.               *)
PurgeCosts(h, a) ==
    /\ pc[h] = "idle"
    /\ costs' = [costs EXCEPT ![a] = NoCosts]
    /\ pc' = [pc EXCEPT ![h] = "remove"]
    /\ account' = [account EXCEPT ![h] = a]
    /\ UNCHANGED <<accounts, credentials, sequence, outside, listed, credential,
                   fetched, owned>>

RemoveAccount(h) ==
    /\ pc[h] = "remove"
    /\ accounts' = [accounts EXCEPT ![account[h]] = NoRow]
    /\ pc' = [pc EXCEPT ![h] = "idle"]
    /\ account' = [account EXCEPT ![h] = NoRow]
    /\ UNCHANGED <<credentials, costs, sequence, outside, listed, credential,
                   fetched, owned>>

(* The second statement of a delete fails: 500, the first one stays.       *)
DeleteFails(h) ==
    /\ DbErrors
    /\ pc[h] \in {"remove", "drop"}
    /\ pc' = [pc EXCEPT ![h] = "idle"]
    /\ account' = [account EXCEPT ![h] = NoRow]
    /\ credential' = [credential EXCEPT ![h] = NoRow]
    /\ UNCHANGED <<tables, outside, listed, fetched, owned>>

(* Deleting a node of the hierarchy: in one transaction the accounts below *)
(* it go with their costs.  Which accounts those are is up to Hierarchy.   *)
CascadeDelete(below) ==
    /\ below # {}
    /\ accounts' = [a \in Account |-> IF a \in below THEN NoRow ELSE accounts[a]]
    /\ costs' = [a \in Account |-> IF a \in below THEN NoCosts ELSE costs[a]]
    /\ UNCHANGED <<credentials, sequence, outside, locals, owned>>

(* handleImportCSV: the id is the one of the page, which may be stale; the *)
(* account is not looked up.                                               *)
ImportCSV(a, keys) ==
    /\ keys # {}
    /\ costs' = [costs EXCEPT ![a] =
            [k \in CostKey |-> IF k \in keys THEN CsvAmount ELSE costs[a][k]]]
    /\ UNCHANGED <<accounts, credentials, sequence, outside, locals, owned>>

-------------------------------------------------------------------------------
(* The world around *)

(* Providers add lines to a bill and revise them as it finalizes.          *)
ReviseBill(x, k) ==
    /\ bill[x][k] < MaxRevision
    /\ bill' = [bill EXCEPT ![x][k] = @ + 1]
    /\ UNCHANGED <<tables, boxKey, locals, owned>>

(* The process ends, in the middle of whatever its goroutines do, and is   *)
(* started again, maybe with another ENCRYPTION_KEY.                       *)
Restart ==
    /\ boxKey' \in EncryptionKey
    /\ pc'         = [w \in Worker |-> "idle"]
    /\ listed'     = [w \in Worker |-> NoneListed]
    /\ account'    = [w \in Worker |-> NoRow]
    /\ credential' = [w \in Worker |-> NoRow]
    /\ fetched'    = [w \in Worker |-> Nothing]
    /\ UNCHANGED <<tables, bill, owned>>

SyncNext ==
    \/ \E w \in CronRun :
        \/ StartSyncAll(w)
        \/ \E a \in Account : NextAccount(w, a) \/ SkipManualAccount(w, a)
        \/ FinishSyncAll(w)
        \/ RecordFailure(w)
    \/ \E h \in Handler :
        \/ \E a \in Account : SyncNow(h, a)
        \/ SyncNowFails(h)
    \/ \E w \in Worker :
        \/ LoadCredential(w)
        \/ \E window \in SUBSET CostKey : FetchCosts(w, window)
        \/ StoreCosts(w)
        \/ StampSynced(w)
        \/ SyncStepFails(w)

AdminNext ==
    \/ CreateCredential
    \/ \E h \in Handler, c \in Credential : CountCredentialUse(h, c)
    \/ \E h \in Handler : DeleteCredential(h)
    \/ CreateCloudAccount
    \/ \E a \in Account : UpdateCloudAccount(a)
    \/ \E h \in Handler, a \in Account : PurgeCosts(h, a)
    \/ \E h \in Handler : RemoveAccount(h) \/ DeleteFails(h)
    \/ \E below \in SUBSET LiveAccounts : CascadeDelete(below)
    \/ \E a \in Account, keys \in SUBSET CostKey : ImportCSV(a, keys)

Next ==
    \/ SyncNext
    \/ AdminNext
    \/ \E x \in ExternalID, k \in CostKey : ReviseBill(x, k)
    \/ Restart

Spec == Init /\ [][Next]_vars

(* The deployment in which no two syncs overlap: every run ends before the *)
(* next tick and nobody asks for a sync meanwhile, as a lock around        *)
(* SyncAccount would ensure.  The code does not ensure it.                 *)
NoOverlap ==
    \A v, w \in Worker : pc[v] \in SyncStep /\ pc[w] \in SyncStep => v = w
SerialSpec == Init /\ [][Next /\ NoOverlap']_vars

-------------------------------------------------------------------------------
(* Properties *)

(* Every table and every local of a worker has its type, and a worker that *)
(* is dealing with an account holds a snapshot of its row.                 *)
TypeOK ==
    /\ accounts    \in [Account -> AccountRow \cup {NoRow}]
    /\ credentials \in [Credential -> EncryptionKey \cup {NoRow}]
    /\ costs       \in [Account -> [CostKey -> Amount \cup {NoRow}]]
    /\ sequence    \in [account: 0..MaxAccount, credential: 0..MaxCredential]
    /\ boxKey      \in EncryptionKey
    /\ bill        \in [ExternalID -> [CostKey -> 0..MaxRevision]]
    /\ pc          \in [Worker -> {"idle", "next", "remove", "drop"}
                                   \cup SyncStep]
    /\ listed      \in [Worker -> [Account -> Snapshot \cup {NoRow}]]
    /\ account     \in [Worker -> Account \cup {NoRow}]
    /\ credential  \in [Worker -> Credential \cup {NoRow}]
    /\ fetched     \in [Worker -> [CostKey -> 0..MaxRevision]]
    /\ owned       \in [Account -> SUBSET ExternalID]

(* Money is never charged to the wrong account: an amount shown for an     *)
(* account was imported for it or comes from the bill of an external id    *)
(* the account itself has carried, although a sync works from a row that   *)
(* may since have been edited, deleted or replaced (SyncAccount).          *)
OwnCosts ==
    \A a \in LiveAccounts, k \in CostKey :
        costs[a][k] # NoRow => costs[a][k].source \in owned[a] \cup {Csv}

(* Accounts of a provider without an adapter are updated by CSV import     *)
(* only (the comment of SyncAll): no sync ever writes their costs or their *)
(* sync status.                                                            *)
ManualOnly ==
    \A a \in LiveAccounts : accounts[a].provider \notin LiveProvider =>
        /\ accounts[a].status = "never"
        /\ \A k \in CostKey : costs[a][k] \in {NoRow, CsvAmount}

(* What is stored was billed: no stored amount is of a revision its bill   *)
(* has not reached, and a CSV line is never taken for a billed one.        *)
NoInventedAmounts ==
    \A a \in Account, k \in CostKey : costs[a][k] # NoRow =>
        IF costs[a][k].source = Csv
        THEN costs[a][k] = CsvAmount
        ELSE costs[a][k].revision \in 1..bill[costs[a][k].source][k]

(* Cost history is only lost by deleting its account: a row of an account  *)
(* that stays is never dropped, but by a delete of that account that is    *)
(* under way (handleDeleteCloudAccount purges before it deletes).          *)
HistoryKept ==
    [][\A a \in LiveAccounts, k \in CostKey :
          costs[a][k] # NoRow /\ costs'[a][k] = NoRow =>
             \/ accounts'[a] = NoRow
             \/ \E h \in Handler : pc'[h] = "remove" /\ account'[h] = a]_vars

(* A sync writes the two columns of its stamp and nothing else of a row it *)
(* read long ago: it does not undo an edit made meanwhile, and does not    *)
(* bring back a deleted account (Updates on columns, not Save of the row). *)
SyncKeepsConfiguration ==
    [][(\E w \in Worker : pc[w] \in SyncStep /\ pc'[w] # pc[w]) =>
          \A a \in Account :
             /\ accounts'[a] = NoRow <=> accounts[a] = NoRow
             /\ HasAccount(a) =>
                   /\ SnapshotOf(accounts'[a]) = SnapshotOf(accounts[a])
                   /\ accounts'[a].active = accounts[a].active]_vars

(* Re-fetching a rolling window "keeps already-stored numbers accurate"    *)
(* (the comment of syncWindowDays): an amount stored from a bill is never  *)
(* replaced by an earlier revision of the same line.                       *)
RevisionsAdvance ==
    [][\A a \in Account, k \in CostKey :
          /\ costs[a][k] # NoRow
          /\ costs'[a][k] # NoRow
          /\ costs'[a][k].source = costs[a][k].source
          => costs[a][k].revision <= costs'[a][k].revision]_vars

(* The statements of syncs, imports and deletes, however they interleave,  *)
(* fail and are cut short, add up to the whole steps of the ledger: no     *)
(* answer is stored in part, with lines of two bills, or before it was     *)
(* billed, and a cascade takes accounts and costs at once or neither.      *)
Ledger == INSTANCE CostLedger WITH open <- LiveAccounts, costs <- costs,
                                   bill <- bill
ImplementsCostLedger == Ledger!Spec
-------------------------------------------------------------------------------
(* What the documentation and the comments say, and the code does not keep *)

(* "Deleting a hierarchy node also deletes everything beneath it (cloud    *)
(* accounts and their cost history included) so nothing is silently        *)
(* orphaned" (the comment of the cascade): no billed amount belongs to an  *)
(* account that is gone.                                                   *)
NoOrphanCosts ==
    \A a \in Account, k \in CostKey :
        ~HasAccount(a) /\ costs[a][k] # NoRow => costs[a][k].source = Csv

(* "credential is still attached to a cloud account": the answer of        *)
(* handleDeleteCredential, which promises that no credential is deleted    *)
(* while an account carries it.                                            *)
CredentialKeptInUse ==
    [][\A c \in Credential :
          HasCredential(c) /\ InUse(c) => credentials'[c] # NoRow]_vars
===============================================================================
