# A model of the cloud cost dashboard

TLA+ modules, TLC configurations and TLAPS proofs for the cost dashboard in
this repository: a Go server (chi, gorm, SQLite, robfig/cron) that syncs the
daily costs of cloud accounts into a database, and a React client that shows
them on a hierarchy. Paths below are relative to the repository; `api/` stands
for `backend/internal/api/`.

    tlc -workers 2 -config MCCostSyncOverlap.cfg MCCostSync    # model-check a run
    tlapm CostSyncProofs.tla                                   # check a module's proofs

## 1. The system

| Component | State | Operations | Correct when |
|---|---|---|---|
| Cost sync (`scheduler/scheduler.go`) | the run's list of accounts, the account at hand, the fetched records | `Start`, `SyncAll`, `SyncAccount`, `upsertCostRecords`, `ImportManualRecords` | stored amounts are billed amounts of the right account; repeated, overlapping, failed and interrupted syncs do no harm; the window is wide enough |
| Accounts and credentials (`api/handlers_accounts.go`) | tables `cloud_accounts`, `provider_credentials`, `cost_records` | create, update, delete, sync now, CSV import | deletes leave nothing behind and take nothing in use; edits are not undone by a sync |
| Hierarchy (`api/handlers_hierarchy.go`) | tables `organizations` .. `regions`, `cloud_accounts` | five creates, five cascading deletes | a delete takes a node with everything beneath it, or nothing |
| Cost views (`handleTree`, `api/handlers_costs.go`) | none: read only | tree with rollup, timeseries by scope | totals add up and agree with the timeseries; a viewer is shown the scope of the token and no more |
| Providers (`providers/*.go`) | none (OAuth tokens per call) | `FetchCosts`, `ParseCostCSV`, `Registry` | each (date, service) of the window is answered once, with its sum |
| Encryption (`crypto/crypto.go`) | `ENCRYPTION_KEY` | `Encrypt`, `Decrypt` | what was sealed with this key opens, what was not fails |
| Schema, database (`models/models.go`, `db/db.go`) | the SQLite file | `AutoMigrate` | the unique index of `cost_records` makes the upsert idempotent; foreign keys are declared, not enforced |
| Start (`cmd/server/main.go`, `config/config.go`) | environment | load, open, bootstrap the admin, start cron, serve | a restart loses nothing that was stored; whoever starts a server can log in |
| Users and tokens (`auth/*.go`, `api/handlers_auth.go`) | table `users`, JWTs | login, me, create and list users | role and scope of the token decide what is seen |
| Session of the client (`api/client.ts`, `context/AuthContext.tsx`, `App.tsx`, `LoginPage.tsx`) | stored token, current user, loading | load, login, logout, the interceptor of 401s | the user shown is the one whose token is sent |
| Dashboard (`pages/DashboardPage.tsx`) | range, tree, selection, chart | set range, select, the effects that ask | what is shown belongs to what is selected and to who is logged in |
| Admin page (`pages/AdminPage.tsx`) | its lists and forms | forms over the handlers | the lists are loaded anew after each action |

**How they interact.** There is no lock and no queue: all parts meet in the
tables. `main` starts one `SyncAll` and a cron whose ticks start further ones
in goroutines of their own; each HTTP request is one more goroutine. A cascade
runs in a transaction. Everything else - a sync (list, load, fetch, upsert,
stamp), the delete of an account (purge, remove), the delete of a credential
(count, delete), the tree (seven queries) - is a sequence of single statements
that others may interleave. The sync calls a provider between two of its
statements, for as long as that takes. The client holds a token and asks over
HTTP; no request is ever cancelled and each answer replaces what is on the
screen.

**What is hard.** Overlapping syncs of the same account; a sync that works from
a row that was since edited, deleted or given to another account; a stop of the
server between two statements; failing statements in the middle of a delete;
the days a sync misses; a view put together from several queries; answers that
reach the client out of order. `PROJECT.json` lists each at its line under
`hazards`.

## 2. What is modelled

| Module | Models | Checked by | Proved in |
|---|---|---|---|
| `CostLedger` | what the stored costs promise, whoever writes them | as a property of `CostSync` | as the abstract side of `SyncImplementsLedger` |
| `CostSync` | every writer of accounts, credentials and costs, statement by statement | `MCCostSync` and its configurations | `CostSyncProofs` |
| `SyncWindow` | the rolling window of one account and service, day by day | `SyncWindow.cfg` | `SyncWindowProofs` |
| `CronLoop` | the scheduler over time: ticks, lists, providers that never answer; liveness | `CronLoop.cfg` | `CronLoopProofs`, the safety part; not the liveness |
| `ProviderRows` | from an answer or a file, row by row and page by page, to one upsert | `MCProviderRows.cfg` | `ProviderRowsProofs` |
| `HierarchyAbs` | what a delete in the hierarchy promises | as a property of `Hierarchy` | as the abstract side of `CascadeIsAtomic` |
| `Hierarchy` | the hierarchy's handlers, the cascade as a recursion in a transaction | `MCHierarchy.cfg` | `HierarchyProofs` |
| `CostViews` | the tree and the timeseries, query by query, while the steps of `HierarchyAbs` change the tables | `MCCostViews*.cfg` | `CostViewsProofs` |
| `Session` | users, tokens, the bootstrap of the admin, and what a browser believes about them | within `Dashboard` | `DashboardProofs` |
| `Dashboard` | the dashboard's requests and answers; extends `Session` | `Dashboard.cfg` | `DashboardProofs` |

`DataInduction` has no model in it: the lemmas on finite sets, positions and
sums that the proofs about `ProviderRows` and `CostViews` rest on.

The modules are composed three ways. `Dashboard` extends `Session` and `CostViews`
extends `HierarchyAbs`: the one adds its steps to those of the other.
`CostSync` and `Hierarchy` instantiate `CostLedger` and `HierarchyAbs` under
a refinement mapping. `CascadeDelete` of `CostSync` stands for any commit
of `Hierarchy`, and the window of a `FetchCosts` there for any window of
`SyncWindow`.

### CostSync

A step is one SQL statement, one transaction or one answer of a provider.

| Variable | Code |
|---|---|
| `accounts` | `cloud_accounts`; `status` is `last_sync_at` and `last_sync_err` together (never, synced, error) |
| `credentials` | `provider_credentials`; a sealed payload is the key it was sealed with |
| `costs` | `cost_records`, by account and by (date, service): the unique index |
| `sequence` | SQLite's `sqlite_sequence` |
| `boxKey` | the key of the running `crypto.Box` |
| `bill` | the provider's side: for an external id and a (date, service), how often the line has been revised (0: no line) |
| `pc`, `listed`, `account`, `credential`, `fetched` | the locals of a run of `SyncAll` and of a handler that takes more than one statement |
| `owned` | history: the external ids an account has carried |

A bill is chosen by the external id. The Azure, GCP and OCI adapters do so; the
AWS adapter (`providers/aws.go:28`) asks for the bill of the credential and
ignores the external id, so for AWS the model's external id stands for the
payer account of the credential, and two AWS rows with one credential, which
both receive the whole bill, are outside the model.

A stored amount is a pair (bill, revision). That is what the properties tell
apart: whose money it is and how old the number is. `CronRun` is the set of
runs of `SyncAll` that may be in progress together, `Handler` that of
multi-statement requests; handlers of a single statement need no process.

| Action | Code |
|---|---|
| `StartSyncAll`, `NextAccount`, `SkipManualAccount`, `FinishSyncAll` | the query of `SyncAll` and its loop. The rows are dealt with in any order, which includes the code's |
| `SyncNow`, `SyncNowFails` | `handleSyncNow`: up to the call of `SyncAccount`, and its 502 |
| `LoadCredential`, `FetchCosts`, `StoreCosts`, `StampSynced` | `SyncAccount`: load and decrypt; the answer of the provider, for any window; the upsert; the stamp |
| `SyncStepFails`, `RecordFailure` | the error returns of `SyncAccount`; the stamp of `SyncAll`, whose own error is dropped |
| `CreateCredential`, `CountCredentialUse`, `DeleteCredential` | the handlers of credentials |
| `CreateCloudAccount`, `UpdateCloudAccount`, `PurgeCosts`, `RemoveAccount`, `DeleteFails` | the handlers of accounts |
| `CascadeDelete` | the commit of a delete in the hierarchy: any set of accounts (which ones is the business of `Hierarchy`) |
| `ImportCSV` | `handleImportCSV`, of any id: as in `PurgeCosts`, the account is not looked up |
| `ReviseBill`, `Restart` | the provider; the end of the process at any moment and its next start, maybe with another key |

`SerialSpec` is `Spec` without steps that lead to two syncs in progress. It is
the deployment the window's comment has in mind; the code does not ensure it.

### CostLedger

Three variables: which accounts are open, what is stored, what was billed. Its
steps are whole: an answer of one bill is recorded for one account, with
amounts the bill has had; a file is imported; costs of an account are purged;
one account closes and leaves what is stored; a set of accounts closes with all
its costs. `ImplementsCostLedger` says that `CostSync` shows nothing but such
steps, with `open` mapped to the accounts that have a row: workers,
credentials, columns and restarts are hidden. What the ledger leaves open is
what the code leaves open, an older answer after a newer one and a record for
an account that is closed.

### SyncWindow

One account, one service, days as integers. `OpenWindow` computes the window,
`FetchCosts` is answered whenever it comes - days later, if need be -,
`StoreCosts` upserts. The provider revises the line of a day for `FinalAfter`
days and may take it out again where `MayWithdraw`. `NextDay` is held back only
by `MaxGap`: the assumption that two successful syncs open their windows at
most so many days apart. `InclusiveEnd` tells the adapters that answer the last
day of the range (GCP's `BETWEEN`, Azure) from those that do not (AWS).

### CronLoop

| Variable | Code |
|---|---|
| `cron` | no process, a cron that ticks, or a process whose `AddFunc` failed |
| `active`, `silent` | the accounts that are listed; those whose provider takes a request and never answers |
| `pc`, `left` | where a run of `SyncAll` stands; the accounts it has listed and not dealt with, in the order of their ids |

`Start` takes any setting of `SYNC_INTERVAL_MINUTES`: a duration `AddFunc` refuses
leaves the process without a cron *and* without the run at boot, since `Start`
returns before it. `Tick` starts a run whatever others do. A run skips manual
accounts, opens a credential or fails to, fetches, stamps; what fails is
stamped as failed, a stamp that fails is given up, and the run goes on.
`FetchHangs` is the end of a call that is never answered, since
`context.Background` has no deadline: the run is `"hung"`, which is not `"idle"`,
and stays so until the process ends, also if its provider recovers and answers
others. `GettingOn` are the runs that are neither over nor hung. Hung runs pile up
in the code; the model follows a few runs at a time, so that a tick may
take the place of one that is hung, whose goroutine has nothing more to do.

`RunsEnd` says of each run that it does not get on for ever, and of one that has not
hung by the time all providers answer again that it comes to its end.
`QuietWithoutCron` is about a refused interval, which must not leave
half of `Start` done, and about the end of a process.

### ProviderRows

One account, one source (an adapter or the CSV parser), one document of pages
of rows, read again and again; `page` and `line` say which row is next. `Fate` says what a source makes of a row it
cannot use - aws, azure and oci leave it out, gcp and CSV give up -, `ServiceOf`
what it makes of a missing service (refused or skipped by gcp and aws,
"unknown" for oci, empty for azure and CSV), `LastPage` who asks for further pages. `Store` is the one
statement of `upsertCostRecords`: it refuses NaN, as SQLite takes it for NULL,
and more records than a statement has variables for.

| Action | Code |
|---|---|
| `Open`, `RequestFails`, `ColumnsMissing`, `EmptyAnswer` | the start of the four `FetchCosts` and of `ParseCostCSV`, their requests and their look at the header |
| `KeepRow`, `SkipRow`, `RowRefused` | a turn of the loop over the rows of a page: the row is appended, passed over, or ends the call with an error |
| `EndPage` | the end of a page: the next one is asked for, or the records go to be stored |
| `Store`, `StoreFails` | `upsertCostRecords` |

### HierarchyAbs and Hierarchy

`HierarchyAbs` has two variables: the parent of each row of the six tables and
the accounts that have costs. `Delete(n)` takes everything below `n` in one
step. `Hierarchy` runs the code's cascade: a stack of calls, each with the
children it listed and not yet dealt with, working on the transaction's copy of
the tables; the costs of a region's accounts go one account at a time, then the
accounts, then the region. A commit replaces the tables. While a transaction is
open, SQLite lets nobody else write or makes the transaction fail; in the model
a write by anybody else rolls open transactions back. `ImplementsHierarchyAbs`
is the specification of `HierarchyAbs` under the identity mapping: the local
state of a transaction is hidden, so that the cascade's steps are stutters and
its commit is one `Delete`. `CascadeAccountsForAll` says of every moment in the
middle of the recursion what it has done and what it will come back to.

### CostViews

Extends `HierarchyAbs`: its steps are the writers, so that what `Hierarchy` is
shown to implement is what the views are shown against.

| Action | Code |
|---|---|
| `OpenTree`, `LoadLevel`, `AnswerTree` | `handleTree`: the six queries of the preload, top down, each for the children of the rows loaded before; the query of the costs with the loops that filter and roll up |
| `OpenSeries`, `ResolveAccounts`, `AnswerSeries` | `handleCostTimeseries`: the scope of the query or of the token; `resolveCloudAccountIDs`, one query of nested selects for each type of scope; the sum |
| `Write` | any step of `HierarchyAbs`; an id is used once (`AUTOINCREMENT`) |

`token` is the role and scope of the user's JWT, the same for both requests.
`handleCreateUser` checks the role and stores any scope type with any id or
none, so a token may have any type of `ScopeTypes`, among them `"other"` for all that
no code knows. An id is a number and is read in the table of the type; the model has
one set of nodes, where an id is one of the type it is read as
(`ViewsAssumption`). A type that no code knows has an empty table, so that
`EffectiveScope` leaves no request that is answered: the code's 400.

`treeOf` and `seriesOf` are history: the number of writes before an answer was
read, `Torn` if there was one while it was read. `home` is history too: the
parent every row has or had, by which "belongs to the scope" is defined also
for rows that are gone. The date range, days, services and currencies are
abstracted: an account has one amount in the range, or none. `Looped` is one of
the nested loops of `handleTree`, `Rollup` its additions to the totals of one
table.

Three properties relate what is shown. `TreeAddsUp`: every total is that of the
accounts shown beneath the node, also in an answer that has seen the tables at
different times. `ViewsAgree`: it is the sum of the node's timeseries, if both read the
same tables; the reads of each may not be torn then, which is why the interleaving
is left to the other two. `ViewerConfined`: with an id in the token, no account,
no total (those of the products and organizations above the scope included) and no
timeseries has a part that is not the scope's.

### Session and Dashboard

The server knows users and a secret and signs tokens it forgets. `Boot` is
`main` with `bootstrapAdmin`, whose count may fail and count as nobody; `Crash`
may come at any time and the next `Boot` may have another `JWT_SECRET`. The
browser is one tab: `LoadPage` asks who the stored token belongs to,
`MeAnswered` and `MeFails` are the end of that, `SubmitLogin` and the three ends
of a login follow, `Intercept401` is the interceptor every answer passes, and
`leaving` is the time between its `window.location.href` and the new page.

`Dashboard` adds the page itself. Its effects are part of the steps that cause
them: `SetPreset` asks for the tree and, of a selected node, for the chart;
`Select` asks for the chart; the first tree selects its first organization.
`asked` are the requests in flight; any of them may be answered next, dropped,
or refused with a 401. `Unmount` leaves its requests behind as `gone`, answered
to nobody but still seen by the interceptor. `Rerender` is what a step of the
session does to the page.

Three history flags say where a property stops: `newest` what became of the
last request for the chart, `crossed` that a login was answered while
`/api/me` was under way or on another page, `hasty` that the range was changed
before the first tree came (section 4).

Abstractions:

- An answer is judged by the server in the step it arrives.
- One chart stands for both, which are asked for and answered alike.
- One login is in flight at a time, as the button is disabled meanwhile. A login
  page that is left and mounted again by the history of the browser begins with the
  button enabled (`LoginPage.tsx:12`), so that a patient user may have two
  answered in either order; that is not modelled.
- `/admin` is one with `/`. The role check of `RequireAdmin` (`App.tsx:15-21`) is
  not modelled, nor that the links between the two pages (`DashboardPage.tsx:97`,
  `AdminPage.tsx:59`) unmount the dashboard and mount a new one; `Visit` and
  `Reset` do that to it on the way over the login page.

## 3. The runs

| Run | Bounds | Question, and answer |
|---|---|---|
| `overlap` | 2 cron runs, 1 handler, 1 account, 1 bill, 1 key, 2 encryption keys, 1 revision, failing statements, reused ids | Whatever overlaps, fails and restarts: are stored amounts billed ones, is history kept, are edits kept, and is each step one of the ledger? Yes |
| `accounts` | 1 handler, 2 accounts, 2 bills of 2 revisions, a live and a manual provider, ids never reused | Is money ever shown for the wrong account? No. Does a newer amount give way to an older one where one process syncs? No |
| `window` | window 2 = gap 1 + finality 1, 2 revisions, end inclusive, 4 days, lines may vanish and return | Is every line of a settled day stored as finally billed? Yes |
| `refresh` | 3 accounts, the first of them manual, 2 runs; providers fall silent and recover, statements fail, restarts | Does everybody's turn come again and again, do runs end or hang, is nothing synced without a cron, are deactivated accounts left alone in the end? Yes, with fairness as below |
| `rows` | 5 sources, 9 sample rows, 2 pages of 2 rows, 2 rows to a statement, 2 amounts | Is a document stored as a whole or not at all, is nothing of it left out, does reading it again change nothing? Yes, with the exceptions the properties name |
| `cascade` | 6 levels in a chain, 2 regions, 2 requests | Is every delete one abstract delete or none, orphaning nothing, also when two run at a time, and is the cascade complete wherever it stands? Yes |
| `views` | 2 products, one with two projects, an account in each of the three projects and one without a region, 1 write, tokens of a manager and of viewers with a product, a project, an organization, an environment, an unknown type, and a type without an id | Do totals add up whatever is written in between, do tree and timeseries agree on every node, and is a viewer shown costs of the scope only? Yes |
| `client` | 2 users, one of whom `ADMIN_EMAIL` names, 2 tokens, 1 secret, 2 ranges, 2 nodes, 2 requests in flight, failing statements | Is there always an admin, is the user on the screen the one whose token is sent, and do late answers leave selection, chart and owner in step? Yes, but for the orders the history flags name |
| `orphans` | 1 cron run, 1 handler, 1 account | Is nothing orphaned? A sync in flight stores after the delete (finding) |
| `credential_race` | the same | Is a credential in use kept? Not between count and delete (finding) |
| `stale_overwrite` | 2 cron runs, 2 revisions | Do overlapping syncs keep amounts accurate? The older answer may win (finding) |
| `no_scope_viewer` | as `views` | Does a viewer without a scope see nothing, as the admin page says? No: everything (finding) |

**Why the bounds are enough.** The properties of `CostSync` speak of one
account at a time, or of an account and one bill; the interactions that could
break them are between two syncs, a sync and a handler, or a sync and a
sequence of single-statement requests, and each pair is in a run. Two accounts
are needed only where money could go from one to the other (`accounts`), and
there a handler that syncs stands for a cron run: `SyncAccount` is the same.
Two revisions are needed to tell old from new; where age does not matter, one
is enough. In `SyncWindow` the days of a run are twice its window, and the sum
MaxGap + FinalAfter is exactly the window; with one more on either side TLC
finds a day that falls out before it is final, so the bound is tight. `Accurate`
for bills that lose no line follows for every bound from the proof. The proofs
remove the bounds for every property but those of liveness.

In `views` one write is enough for what the properties ask: `ViewsAgree` is about
two answers with no write in between, `TreeAddsUp` and `ViewerConfined` about a
row that comes or goes between two queries of one answer; the orphan that would
take two more writes is there from the start. The product with two projects
tells a product's total from the part of it that a viewer of one project is
shown, the second product that from the organization's.

In `refresh` three accounts make a first, a middle and a last; the first is
manual, so that a run has to get past it, and a silent provider may stand
before the last. Two runs show one that is busy while the cron goes on.
`rows` has every way a row can be malformed, a key twice, and documents of
none, one and two pages. `RowLimit` 2 stands for the 5461 rows with which SQLite's
32766 variables are used up, six columns to a row; documents of three rows
and more on two pages exceed it.

In `client` two tokens are what a login over another needs, two ranges and
nodes what a wrong answer needs, two requests in flight what an overtaking
answer needs. A third request (8 million states) and a second secret (3.7
million states in four minutes, no error) were left out of the run for its
time only.

**Deadlock** is checked in every run: the system never stops offering a step.

**Symmetry** is used for cost keys, external ids, encryption keys, workers of a kind and equal
rows of a table, in runs of `CostSync` and `Hierarchy`, which check safety only.
The run with liveness, `refresh`, uses none.

**Fairness** is assumed in `CronLoop` only, for its liveness properties.

- Weak fairness of `Tick`: the timer of robfig/cron fires while the process
  runs and the interval was accepted.
- Weak fairness of each run's `RunStep`: a goroutine that can go on is
  scheduled. A call that is never answered cannot go on; that it is given up
  (`FetchHangs`) is a step of the model which no code takes, and nothing follows it.
- Strong fairness of `ListAccounts`, and of `Stamp` for each account: a locked
  database (SQLITE_BUSY) fails a statement now and then, not the same one every
  time it is tried.

Nothing is assumed of restarts, of providers or of what users do: they may
happen for ever or never. `EveryoneRefreshed` therefore has a premise: in the end
the process stays up with a cron that ticks, the account stays active, and no
provider of an active account up to it in the list keeps silent. The last part is the code's
own limit. `SyncAll` works in one loop without a deadline, so that one provider
that takes requests and never answers starves every account behind it, in each
run anew, while `DEPLOY.md:248` says that cost data "refreshes
automatically every `SYNC_INTERVAL_MINUTES`".

## 4. Where the code and its words differ

Four runs end in a counterexample and are findings: `orphans`, `credential_race`,
`stale_overwrite`, `no_scope_viewer`. The following needed no run: each is a fact
of one handler.

- *A failed sync now is not shown in the row.* `DEPLOY.md:243`: "If it fails, the error
  message (shown in the account row) usually tells you exactly what's missing".
  `handleSyncNow` (`api/handlers_accounts.go:193`) answers 502 and writes nothing;
  only `SyncAll` records an error (`SyncNowFails` against `RecordFailure`).
- *A line that is withdrawn stays.* `scheduler.go:22-26`: re-pulling "keeps
  already-stored numbers accurate". The upsert removes nothing, so a line the
  provider takes out of a day's bill stays stored. `BilledAccurate` says
  what holds all the same, `Accurate` needs bills that lose no line.
- *Only the first page.* `providers/azure.go:48` and `oci.go:57` send one
  request and never ask for the next page of its answer; the caller does not
  either. The records of later pages are missing without an error, although
  `FetchCosts` "must return daily, per-service cost records for the given date
  range" (`provider.go:31`). `NothingLeftOut` is restricted accordingly.

Other behaviour that came to light, which no text of the repository rules out:

- Any late 401 clears the token stored *now* (`api/client.ts:22-24`): an old
  request logs a newer login out.
- An answer of `/api/me` that comes after a login replaces the user of the login
  (`AuthContext.tsx:24-28`); a login answered after going forward to `/` leaves
  the dashboard of the user before on the screen. The flag `crossed` marks both.
- Charts are shown in the order of their answers: an older answer that comes
  last stays (`newest = "overwritten"`), and if the last request fails, so does the
  chart before it.
- If the range is changed before the first tree has come, the second tree takes
  a selection back that was made meanwhile (`hasty`).
- The admin page offers the scopes none, product and project; the API stores any.
  The two views make different things of the others. For a viewer with scope
  `org`, `environment`, `region` or `account`, `productInScope` leaves an organization
  no product and a total of zero, while the timeseries adds up the
  scope (`ViewsAgree` has `KnownScope` as a premise); with a type no code knows, the
  timeseries is a 400. A scope that has a type but no id leaves the tree as
  empty, but `handlers_costs.go:58` only replaces the id of the query if the token has
  one: the timeseries is that of whatever node of the token's type the query names, or
  without an id in the query everything, although "Viewers are always restricted to their
  assigned scope, regardless of query params" (`handlers_costs.go:40`).
- Every viewer with a scope is shown the names of all organizations, one with a project
  those of all products too, with totals of zero where nothing of the scope is
  beneath. A viewer who selects a node above or beneath the scope is shown
  the chart of the whole scope under that node's name.
- CSV: lines with one key replace each other and are not added up; an empty
  service name is stored; the check for "not enough columns" is never reached,
  since `ReadAll` refuses ragged lines first; NaN is refused by the database
  after the file was accepted, Inf is stored.
- `SYNC_INTERVAL_MINUTES`: too large a value makes `AddFunc` fail, and with it goes
  the run at boot; zero and less are a tick every second.
- `main.go` and `DEPLOY.md:169` tell to change the password of the first admin; there
  is no endpoint for it. Without `ADMIN_PASSWORD` it is `changeme123`, not the
  `change-me` of `README.md:24`.

## 5. The proofs

Every type invariant, safety invariant, action property and refinement that a
run checks is also a theorem, for every value of the constants, under the
assumptions in the modules: bounds are natural numbers (`BoundsAssumption`,
`WindowAssumption`); the values that stand for "none" (`NoRow`, `Csv`, `Root`,
`None`, `Nobody`, `NoScope`, `Hidden`, `Torn`) are no other value
(`FreshAssumption` of `CostSync` and of `Hierarchy`, `HierarchyAssumption`,
`SessionAssumption`, `DashboardAssumption`, `LiveAssumption`); the amount of a
row is a number or a mark that is none (`RowAssumption`); the hierarchy is
finite, its first rows name rows of the table above, and the id of a token is one of
the type it is read as (`ViewsAssumption`). What a theorem needs beyond these is an
explicit premise, named below.

`CostSyncProofs`:

- `TypeCorrect`, and `TypesHold` from it: `TypeInv` is `TypeOK` with `Grounded` (a worker in a sync has
  an account, and a snapshot of its row; one that deletes has what it deletes).
  `TypeOK` alone is not inductive: `listed[w][account[w]].external` is only an
  external id if there is a snapshot.
- `StoredWasBilled`: `NoInventedAmounts` is strengthened by "what a worker has
  fetched has been billed", since what is stored was fetched earlier and bills
  only grow.
- `CostsAreOwn`, for `~ReuseIds`: `OwnCosts` and `ManualOnly` (alone in
  `ManualAccountsRest`). The invariant
  says that ids above the sequence are unused everywhere, that a worker's
  snapshot carries an external id that account has carried and, once it is past
  the registry, a live provider, and that the provider of a row never changes
  while its id lasts. With reused ids both properties fail (`accounts` with
  `ReuseIds = TRUE`): a sync of a deleted row writes to the next row of that id.
- `HistoryIsKept`, `ConfigurationIsKept`: action properties, from `TypeInv`.
- `SerialSyncsAdvance`: under `SerialSpec`, what the one worker in a sync holds
  is at least as new as what is stored from the same bill. It covers every
  deployment without overlap; the run `accounts` has one worker.
- `SyncImplementsLedger`: `Spec => Ledger!Spec`. Every action maps to a whole
  step of `CostLedger` or to a stutter (`StepLedger`); that an answer may be
  recorded because the bill has had it needs the invariant of `StoredWasBilled`.

`SyncWindowProofs`: `WindowKeepsBilledAccurate` and `WindowKeepsAccurate`
assume MaxGap + FinalAfter <= SyncWindowDays. The invariant says that for every
day up to the last successful window, since the first, what is stored is the
bill or the day can still be revised or will be in the next window. For the
code's 14 days: if a provider revises a day for up to 5 days, nine days without
a successful sync are harmless; after a longer outage the days that fell out of
the window stay as they were last seen, and a gap of more than 14 days is never
filled but by a CSV import.

`HierarchyProofs`: `HInv` is the types with `CascadeAccountsForAll`, which is
proved with them, since a call only removes what its transaction's copy holds.

- `CascadeCollects`: the stack of calls descends from the node that was asked
  for, each child that still names an open call's node is in its `todo` or is
  the call above, and what is gone from the copy was beneath the node. The proof
  has a lemma for each statement of the cascade; the recursion ends since the
  tables are six deep (`Depth`).
- `CascadeIsAtomic`: `HSpec => ImplementsHierarchyAbs`. When the stack is empty
  the invariant says that everything beneath the node is gone from the copy and
  nothing else, which is `Delete` (`CommitDeletes`, with `BelowClosed` and
  `BelowLeast`: five times `WithChildren` is all there is beneath a node).
- `NothingOrphaned`: the action property of the abstract hierarchy
  (`AbstractDelete`), carried over by the same step.

`CostViewsProofs`, four inductive invariants:

- `TypeInv` (`TypeCorrect`): `VTypeOK`, and every row names, or named, a row of
  the table above. Totals are numbers because the sums are over finite sets.
- `TreeInv` (`TotalsAddUp`): a loaded row is loaded under the parent it has or
  had (`LoadedAreOwned`), so that what a loop visits beneath a node belongs to that
  node even if the queries saw the tables at different times. An account that is
  visited has an `Ancestor` of each kind, all visited (`LineOfLeaf`,
  `LeafAncestors`), hence the visited accounts of a node are those of its visited
  children, and no account is one of two children's (`LeavesOfParts`). From this the
  five loops of additions give, table by table, the sum over the accounts beneath
  (`TotalsByLevels`, `TotalsOfLeaves`, `AnswerAddsUp`). What a shown account belongs
  to it belongs to for ever, as ids are not given again (`Rooted`).
- `ViewerInv` (`ViewerIsConfined`): the visited accounts are those of the scope, for
  every type of it (`LeavesConfined`), and so are the accounts found for a timeseries
  (`AccountsBelong`), whose scope is the token's. With `TreeAddsUp` that settles the
  totals too: they are sums over shown accounts.
- `AgreeInv` (`TotalsFitTheSeries`): as long as nothing is written after the
  first query, what is loaded is what the tables hold down to that level, the
  answered tree holds for each node the sum over `CloudAccountIDs` of the tables
  as they are, and so does the timeseries. The heart is `TotalsAreRight`: the loops
  give the one sum that the nested selects give, since the
  accounts beneath two nodes of a table are disjoint (`AccountsApart`) and those
  of a node are those of its children (`AccountsOfChildren`, `SumOfChildren`).
  Under `KnownScope` the scope of a timeseries is `Free`: beneath it no filter of
  the tree applies (`ScopeIsFree`), which is what fails for the other types.

`ProviderRowsProofs`, for documents of any length:

- `TypeCorrect`: `RowsInv` adds to the types where a round stands (`Steady`):
  what goes to be stored was read to the end of its last page.
- `StrictSourcesLoseNothing`, `StoredIsComplete`: `ReadInv` says that the records
  in hand are those of the kept rows up to the current line, and that a strict
  source has refused none. Both follow at `Store`.
- `WholeOrNothing`, `RepetitionIsIdempotent`: `TableInv` says that the table
  shows, for each key of the last document stored, its last record.

`DashboardProofs`:

- `ThereIsAnAdmin`, `ShownUserActs`: `SessionInv` adds that the first user is an
  admin and that an answer of `/api/me` under way is about the stored token.
- `TypeCorrect`, `SettledCharts`, `ChartsStayWithTheirOwner`, `NobodyElseSelects`:
  `PageInv` speaks of the requests in flight: they were sent with the stored
  token, the last one for the chart is about what is selected and set, there are
  none where there is no dashboard, no chart is asked for before there is a
  selection, and at most one tree can still make one.

`CronLoopProofs`: `TypeCorrect`, that a run deals with accounts it has listed and
only fetches for one with an adapter, and `NoRunWithoutCron`. The two are inductive
together (`CronInv`): at a `Start` the slot of a run is empty because no run is
left from an earlier process. `SyncWindowProofs` states `TypeCorrect` beside the two theorems above.

`DataInduction`: the library's induction theorems take a predicate, which the
provers cannot instantiate. Here induction is over sets: the set of
counterexamples has a least member (`LeastNat`, `LeastSet`, from the
well-foundedness of <), which contradicts the step. With it `Max` of a set of
positions, and sums over finite sets: the library's recursion has a solution
(`AddsSome`), its order does not matter (`AddsAnyOrder`), a sum of a union is
the sum of sums (`SumUnion`, `SumOfParts`).

**Only model-checked**: the three liveness properties of `CronLoop`
(`EveryoneRefreshed`, `RunsEnd`, `DeactivatedRest`), as liveness under
fairness and ENABLED are out of the prover's reach. The findings are
counterexamples of TLC. No module declares a recursive operator.

## 6. What is not modelled

- The admin page: forms over handlers that are modelled, lists loaded anew.
- A second tab, which shares the local storage, and the double effects of
  React's StrictMode in development.
- Sums with currencies and dates: the views add up whatever is in the range.
- How the adapters build and sign requests, AES-GCM, bcrypt, HMAC: libraries and
  services, seen through what the code uses of them.
- Names, currencies and times of day. An amount's currency is stored with it
  and sums ignore it. Inf as an amount.
- The unique name of an organization: a create that fails changes nothing.
- Whether SQLite reuses the id of a deleted last row is up to how the driver
  declares the key; `ReuseIds` leaves both possible.
- Two AWS rows with one credential (section 2, CostSync).

## 7. Plan

All safety properties of the runs are proved. What is left:

1. Ids that are given again in `CostViews`: a token's scope may then name a
   node it was not meant for. `CostSync` has the switch (`ReuseIds`).
2. Between the modules: that the window of every `FetchCosts` of `CostSync` is one
   of `SyncWindow`, and each `CascadeDelete` a commit of `Hierarchy`, is argued in
   section 2 and neither checked nor proved.
3. The safety lemmas under the liveness of `CronLoop`: the rank that falls with each
   step of a run.
