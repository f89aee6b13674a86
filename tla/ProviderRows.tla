------------------------------ MODULE ProviderRows -----------------------------
(***************************************************************************)
(* From a provider's answer, or an uploaded file, to rows of cost_records. *)
(*                                                                         *)
(* Four adapters and the CSV parser read a document row by row.  They do   *)
(* not treat what they cannot read alike: some leave the row out, some     *)
(* give up; some ask for all pages of an answer, some read the first.      *)
(* What was read is stored by one statement, an upsert by day and service. *)
(*                                                                         *)
(* One account and one source are followed from round to round, a sync and *)
(* the next or an upload and its repetition, of the same document.  What   *)
(* overlapping syncs do to each other is the subject of CostSync.          *)
(***************************************************************************)
EXTENDS Integers, Sequences, FiniteSetsExt

CONSTANTS
    Row,       \* the rows a document may have, [date, service, amount, whole]
    MaxRows,   \* bound: rows of a page
    MaxPages,  \* bound: pages of a document
    RowLimit,  \* how many rows one statement takes (SQLite's variables)
    Unreadable, \* a date or an amount that does not parse, or is null
    NaN        \* an amount that parses and is not a number

Source == {"aws", "azure", "gcp", "oci", "csv"}
Paged  == {"aws", "gcp"}    \* these ask for page after page
Strict == {"gcp", "csv"}    \* these give up at the first row they cannot read

Absent == "absent" \* the row has no service

Day    == {row.date : row \in Row} \ {Unreadable}
Amount == {row.amount : row \in Row} \ {Unreadable, NaN}
ServiceName == ({row.service : row \in Row} \ {Absent}) \cup {"", "unknown"}
Key    == Day \X ServiceName

NoAmount == 0 \* there is no row

ASSUME RowAssumption ==
    /\ \A row \in Row : row.whole \in BOOLEAN
    /\ Amount \subseteq Nat \ {NoAmount}
    /\ Unreadable # NaN /\ NaN \notin Nat
    /\ MaxPages \in Nat /\ MaxRows \in Nat
    /\ RowLimit \in Nat

SeqUpTo(S, n) == UNION {[1..m -> S] : m \in 0..n}

(* The columns are all there, some are missing, or the answer is empty.    *)
Document == [columns: {"all", "some", "none"},
             pages: SeqUpTo(SeqUpTo(Row, MaxRows), MaxPages) \ {<<>>}]

VARIABLES
    source,   \* where the costs of the account come from
    document, \* what the source has to say
    step,     \* "idle", "reading" or "storing"
    page,     \* the page of it that is being read
    line,     \* and the line of the page to be read next
    records,  \* the cost records read so far
    table,    \* cost_records of the account: key -> amount
    before,   \* history: the table at the start of this round
    outcome,  \* history: how this round ended, "stored" or "failed"
    previous  \* history: how the round before it ended

given == <<source, document>>
place == <<page, line>>
ends  == <<outcome, previous>>
vars  == <<given, step, place, records, table, before, ends>>

Record == [key: Key, amount: Amount \cup {NaN}]

-------------------------------------------------------------------------------
(* Documents *)

AllRows(d) == UNION {{d.pages[i][j] : j \in DOMAIN d.pages[i]} :
                        i \in DOMAIN d.pages}
Count(d) == FoldSet(LAMBDA i, n : n + Len(d.pages[i]), 0, DOMAIN d.pages)

(* What may come.  An upload is a single page.  The queries group by day   *)
(* and service, so that an answer has each pair once; a file may repeat    *)
(* it, and may have NaN.  Only Azure and a file name their columns and may *)
(* have rows that are shorter.                                             *)
MayCome(s, d) ==
    /\ s = "csv" => Len(d.pages) = 1
    /\ s # "csv" => Cardinality({<<row.date, row.service>> : row \in AllRows(d)})
                      = Count(d)
    /\ s # "csv" => \A row \in AllRows(d) : row.amount # NaN
    /\ s \notin {"csv", "azure"} =>
          d.columns = "all" /\ \A row \in AllRows(d) : row.whole

Init ==
    /\ source \in Source
    /\ document \in {d \in Document : MayCome(source, d)}
    /\ step = "idle"
    /\ page = 1
    /\ line = 1
    /\ records = <<>>
    /\ \E old \in Amount \cup {NoAmount} : table = [k \in Key |-> old]
    /\ before = table
    /\ outcome = "none"
    /\ previous = "none"

-------------------------------------------------------------------------------
(* Rows *)

(* What a source cannot use: a date or an amount that is missing or does   *)
(* not parse, a row of other length than the header and, for aws and gcp,  *)
(* a missing service.                                                      *)
Unfit(s, row) ==
    \/ Unreadable \in {row.date, row.amount}
    \/ ~row.whole
    \/ s \in {"aws", "gcp"} /\ row.service = Absent

\* variant: a line of a file that does not parse is left out
FateLenient(s, row) ==
    IF ~Unfit(s, row) THEN "kept" ELSE IF s = "gcp" THEN "refused" ELSE "skipped"

Fate(s, row) ==
    IF ~Unfit(s, row) THEN "kept"
    ELSE IF s \in Strict THEN "refused" ELSE "skipped"

\* variant: the service is taken as it comes
ServiceAsIs(s, row) == row.service

ServiceOf(s, row) ==
    IF row.service # Absent THEN row.service
    ELSE IF s = "oci" THEN "unknown" ELSE ""

RecordOf(s, row) == [key    |-> <<row.date, ServiceOf(s, row)>>,
                     amount |-> row.amount]

-------------------------------------------------------------------------------
(* Reading *)

Open ==
    /\ step = "idle"
    /\ step' = "reading"
    /\ page' = 1
    /\ line' = 1
    /\ before' = table
    /\ previous' = outcome
    /\ outcome' = "none"
    /\ UNCHANGED <<given, records, table>>

Fail ==
    /\ step' = "idle"
    /\ outcome' = "failed"
    /\ records' = <<>>
    /\ UNCHANGED <<given, place, table, before, previous>>

(* A field of the credential is missing, or the request for a page fails,  *)
(* for the first one or a later one.                                       *)
RequestFails ==
    /\ step = "reading"
    /\ source # "csv"
    /\ line = 1
    /\ Fail

(* The columns are looked up: without them there is an error, and an empty *)
(* answer of azure is an answer without rows.                              *)
ColumnsMissing ==
    /\ step = "reading"
    /\ \/ document.columns = "some"
       \/ document.columns = "none" /\ source = "csv"
    /\ Fail

EmptyAnswer ==
    /\ step = "reading"
    /\ document.columns = "none"
    /\ source = "azure"
    /\ step' = "storing"
    /\ UNCHANGED <<given, place, records, table, before, ends>>

ThisPage == document.pages[page]

(* The next row of the page is one of that fate.                           *)
NextRowIs(fate) ==
    /\ step = "reading"
    /\ document.columns = "all"
    /\ line <= Len(ThisPage)
    /\ Fate(source, ThisPage[line]) = fate

KeepRow ==
    /\ NextRowIs("kept")
    /\ records' = Append(records, RecordOf(source, ThisPage[line]))
    /\ line' = line + 1
    /\ UNCHANGED <<given, step, page, table, before, ends>>

SkipRow ==
    /\ NextRowIs("skipped")
    /\ line' = line + 1
    /\ UNCHANGED <<given, step, page, records, table, before, ends>>

RowRefused ==
    /\ NextRowIs("refused")
    /\ Fail

\* variant: nobody asks for a second page
AnyPageIsLast == TRUE

LastPage == source \notin Paged \/ page = Len(document.pages)

\* variant: amounts of the same key are added up
UpsertAdding(rs) ==
    [k \in Key |->
        FoldSet(LAMBDA i, sum : sum + rs[i].amount, table[k],
                {i \in DOMAIN rs : rs[i].key = k})]

(* The last record of a key is the one that counts.                        *)
Upserted(rs) ==
    [k \in Key |->
        LET at == {i \in DOMAIN rs : rs[i].key = k}
        IN  IF at = {} THEN table[k] ELSE rs[Max(at)].amount]

\* variant: each page is stored when it has been read
EndPageStoring ==
    /\ step = "reading"
    /\ document.columns = "all"
    /\ line > Len(ThisPage)
    /\ table' = IF source = "csv" THEN table ELSE Upserted(records)
    /\ IF LastPage THEN step' = "storing" /\ UNCHANGED place
                   ELSE page' = page + 1 /\ line' = 1 /\ UNCHANGED step
    /\ UNCHANGED <<given, records, before, ends>>

EndPage ==
    /\ step = "reading"
    /\ document.columns = "all"
    /\ line > Len(ThisPage)
    /\ IF LastPage THEN step' = "storing" /\ UNCHANGED place
                   ELSE page' = page + 1 /\ line' = 1 /\ UNCHANGED step
    /\ UNCHANGED <<given, records, table, before, ends>>

-------------------------------------------------------------------------------
(* Storing: upsertCostRecords *)

(* One statement with every record.  SQLite takes NaN for NULL, which the  *)
(* column refuses, and no more than so many variables.                     *)
StatementFits ==
    /\ Len(records) <= RowLimit
    /\ \A i \in DOMAIN records : records[i].amount # NaN

(* Without records there is no statement.                                  *)
Store ==
    /\ step = "storing"
    /\ StatementFits
    /\ table' = Upserted(records)
    /\ step' = "idle"
    /\ outcome' = "stored"
    /\ records' = <<>>
    /\ UNCHANGED <<given, place, before, previous>>

\* variant: as many rows as a statement takes are stored at a time
StoreFailsPartway ==
    /\ step = "storing"
    /\ records # <<>>
    /\ table' = IF Len(records) > RowLimit
                THEN Upserted(SubSeq(records, 1, RowLimit)) ELSE table
    /\ step' = "idle"
    /\ outcome' = "failed"
    /\ records' = <<>>
    /\ UNCHANGED <<given, place, before, previous>>

(* The statement is refused, or the database fails.                        *)
StoreFails ==
    /\ step = "storing"
    /\ records # <<>>
    /\ Fail

Next ==
    \/ Open
    \/ RequestFails \/ ColumnsMissing \/ EmptyAnswer
    \/ KeepRow \/ SkipRow \/ RowRefused \/ EndPage
    \/ Store \/ StoreFails

Spec == Init /\ [][Next]_vars

-------------------------------------------------------------------------------
(* Properties *)

(* Every record that is read has a day and a service the table can hold.   *)
TypeOK ==
    /\ source \in Source
    /\ document \in Document
    /\ step \in {"idle", "reading", "storing"}
    /\ page \in 1..Len(document.pages)
    /\ line \in 1..(Len(ThisPage) + 1)
    /\ records \in Seq(Record)
    /\ table \in [Key -> Amount \cup {NoAmount}]
    /\ before \in [Key -> Amount \cup {NoAmount}]
    /\ {outcome, previous} \subseteq {"none", "stored", "failed"}

(* A document is stored as a whole or not at all: one that turns out to be *)
(* unreadable on its last page or row, or does not fit the statement,      *)
(* leaves the table as it was (FetchCosts returns no records with an       *)
(* error, upsertCostRecords is one statement).                             *)
AllOrNothing ==
    outcome # "stored" => table = before

(* A row that names its day, its service and its amount.                   *)
WellFormed(row) == /\ row.whole
                   /\ Unreadable \notin {row.date, row.amount}
                   /\ row.service # Absent

(* "FetchCosts must return daily, per-service cost records for the given   *)
(* date range" (the comment of CostProvider): after a success, every day   *)
(* and service of the document shows an amount the document has for it -   *)
(* where the source is read to its last page, which for azure and oci is   *)
(* only so if the answer has no second one.                                *)
NothingLeftOut ==
    outcome = "stored" /\ document.columns = "all"
        /\ (source \in Paged \/ Len(document.pages) = 1) =>
      \A row \in AllRows(document) : WellFormed(row) =>
        \E twin \in AllRows(document) :
            /\ Fate(source, twin) = "kept"
            /\ RecordOf(source, twin).key = <<row.date, row.service>>
            /\ table[<<row.date, row.service>>] = twin.amount

(* A billing export or an upload with one row that cannot be read is not   *)
(* stored without it: the user is told, or the sync shows an error.        *)
NoSilentLoss ==
    source \in Strict /\ outcome = "stored" /\ document.columns = "all" =>
        \A row \in AllRows(document) :
            /\ row.whole
            /\ Unreadable \notin {row.date, row.amount}
            /\ source = "gcp" => row.service # Absent

(* "The unique index on CostRecord makes this an idempotent upsert" (the   *)
(* comment of syncWindowDays): to read and store a document once more      *)
(* changes nothing, also if a file names a day and a service twice.        *)
Idempotent ==
    previous = "stored" /\ outcome = "stored" => table = before
===============================================================================
