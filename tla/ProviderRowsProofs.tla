-------------------------- MODULE ProviderRowsProofs --------------------------
(* Theorems of ProviderRows, for documents of any length over any rows.    *)
EXTENDS ProviderRows, DataInduction

-------------------------------------------------------------------------------
(* Documents and records *)

LEMMA SeqUpToSeq ==
    ASSUME NEW S, NEW n \in Nat, NEW s \in SeqUpTo(S, n)
    PROVE  s \in Seq(S)
<1>1. PICK m \in 0..n : s \in [1..m -> S]
  BY DEF SeqUpTo
<1> QED
  BY <1>1

LEMMA PagesOfDocument ==
    ASSUME NEW d \in Document
    PROVE  /\ d.pages \in Seq(Seq(Row)) /\ Len(d.pages) \in Nat \ {0}
           /\ DOMAIN d.pages = 1..Len(d.pages)
           /\ \A i \in 1..Len(d.pages) :
                /\ d.pages[i] \in Seq(Row) /\ Len(d.pages[i]) \in Nat
                /\ DOMAIN d.pages[i] = 1..Len(d.pages[i])
<1> DEFINE P == SeqUpTo(Row, MaxRows)
<1>1. d.pages \in SeqUpTo(P, MaxPages) /\ d.pages # <<>>
  BY DEF Document
<1>2. \A x \in P : x \in Seq(Row)
  BY SeqUpToSeq, RowAssumption
<1> HIDE DEF P
<1>3. d.pages \in Seq(P)
  BY <1>1, SeqUpToSeq, RowAssumption
<1>4. d.pages \in Seq(Seq(Row))
  BY <1>2, <1>3
<1> QED
  BY <1>1, <1>4

(* The rows of a document are those of its places.                         *)
LEMMA RowsOfDocument ==
    ASSUME NEW d \in Document, NEW r
    PROVE  r \in AllRows(d) <=>
             \E i \in 1..Len(d.pages) : \E j \in 1..Len(d.pages[i]) : r = d.pages[i][j]
<1> DEFINE Rows(i) == {d.pages[i][j] : j \in DOMAIN d.pages[i]}
<1>1. AllRows(d) = UNION {Rows(i) : i \in DOMAIN d.pages}
  BY DEF AllRows
<1>2. \A i : r \in Rows(i) <=> \E j \in DOMAIN d.pages[i] : r = d.pages[i][j]
  OBVIOUS
<1> HIDE DEF Rows
<1>3. r \in AllRows(d) <=> \E i \in DOMAIN d.pages : r \in Rows(i)
  BY <1>1
<1>4. /\ DOMAIN d.pages = 1..Len(d.pages)
      /\ \A i \in 1..Len(d.pages) : DOMAIN d.pages[i] = 1..Len(d.pages[i])
  BY PagesOfDocument
<1> QED
  BY <1>2, <1>3, <1>4

(* What is kept can be stored: it has a day, a service and an amount.      *)
LEMMA KeptRecord ==
    ASSUME NEW s \in Source, NEW r \in Row, Fate(s, r) = "kept"
    PROVE  /\ RecordOf(s, r) \in Record
           /\ r.whole /\ Unreadable \notin {r.date, r.amount}
           /\ s \in {"aws", "gcp"} => r.service # Absent
<1>1. ~Unfit(s, r)
  BY DEF Fate
<1>2. /\ r.whole /\ Unreadable \notin {r.date, r.amount}
      /\ s \in {"aws", "gcp"} => r.service # Absent
  BY <1>1 DEF Unfit
<1>3. r.date \in Day /\ r.amount \in Amount \cup {NaN}
  BY <1>2 DEF Day, Amount
<1>4. ServiceOf(s, r) \in ServiceName
  BY DEF ServiceOf, ServiceName
<1>5. <<r.date, ServiceOf(s, r)>> \in Key
  BY <1>3, <1>4 DEF Key
<1> QED
  BY <1>2, <1>3, <1>5 DEF RecordOf, Record

(* The positions of the records of a key.                                  *)
At(rs, k) == {i \in DOMAIN rs : rs[i].key = k}

LEMMA AtPositions ==
    ASSUME NEW rs \in Seq(Record), NEW k, At(rs, k) # {}
    PROVE  /\ Max(At(rs, k)) \in DOMAIN rs
           /\ rs[Max(At(rs, k))].key = k
           /\ \A i \in At(rs, k) : i <= Max(At(rs, k))
<1>1. Len(rs) \in Nat /\ At(rs, k) \in SUBSET (1..Len(rs))
  BY DEF At
<1>2. Max(At(rs, k)) \in At(rs, k) /\ \A i \in At(rs, k) : i <= Max(At(rs, k))
  BY <1>1, MaxOfPositions
<1> QED
  BY <1>2 DEF At

LEMMA UpsertedType ==
    ASSUME TypeOK, StatementFits
    PROVE  Upserted(records) \in [Key -> Amount \cup {NoAmount}]
<1> SUFFICES ASSUME NEW k \in Key
             PROVE  (IF At(records, k) = {} THEN table[k]
                     ELSE records[Max(At(records, k))].amount)
                        \in Amount \cup {NoAmount}
  BY DEF Upserted, At
<1>1. CASE At(records, k) = {}
  BY <1>1 DEF TypeOK
<1>2. CASE At(records, k) # {}
  <2>1. Max(At(records, k)) \in DOMAIN records
    BY <1>2, AtPositions DEF TypeOK
  <2>2. records[Max(At(records, k))] \in Record
    BY <2>1 DEF TypeOK
  <2> QED
    BY <1>2, <2>1, <2>2 DEF StatementFits, Record
<1> QED
  BY <1>1, <1>2

-------------------------------------------------------------------------------
(* Type correctness *)

(* Where a round stands: there is nothing in hand between two rounds, the  *)
(* place is that of the page whose rows are being read, and an answer that *)
(* is to be stored has been read to its end.                               *)
Steady ==
    /\ source = "csv" => Len(document.pages) = 1
    /\ source \notin Paged => page = 1
    /\ step = "idle" \/ document.columns # "all" => records = <<>>
    /\ step # "idle" => outcome = "none"
    /\ step = "storing" => \/ document.columns = "none"
                           \/ /\ document.columns = "all" /\ LastPage
                              /\ line = Len(ThisPage) + 1

RowsInv == TypeOK /\ Steady

LEMMA PageFacts ==
    ASSUME TypeOK
    PROVE  /\ ThisPage \in Seq(Row) /\ Len(ThisPage) \in Nat
           /\ Len(document.pages) \in Nat \ {0}
           /\ DOMAIN ThisPage = 1..Len(ThisPage)
BY PagesOfDocument DEF TypeOK, ThisPage

LEMMA InitRows == Init => RowsInv
<1> SUFFICES ASSUME Init PROVE RowsInv
  OBVIOUS
<1>1. document \in Document /\ MayCome(source, document)
  BY DEF Init
<1>2. Len(document.pages) \in Nat \ {0} /\ Len(document.pages[1]) \in Nat
  <2>1. 1 \in 1..Len(document.pages)
    BY <1>1, PagesOfDocument
  <2> QED
    BY <1>1, <2>1, PagesOfDocument
<1>3. table \in [Key -> Amount \cup {NoAmount}]
  BY DEF Init
<1>4. TypeOK
  BY <1>1, <1>2, <1>3 DEF Init, TypeOK, ThisPage
<1>5. source = "csv" => Len(document.pages) = 1
  BY <1>1 DEF MayCome
<1> QED
  BY <1>4, <1>5 DEF Init, RowsInv, Steady

LEMMA FailRows == RowsInv /\ Fail => RowsInv'
BY DEF RowsInv, Fail, TypeOK, Steady, given, place, ThisPage, LastPage

(* Every step keeps the types.                                             *)
LEMMA StepRows == RowsInv /\ [Next]_vars => RowsInv'
<1> SUFFICES ASSUME RowsInv, [Next]_vars PROVE RowsInv'
  OBVIOUS
<1> USE DEF RowsInv
<1>1. CASE Open
  <2>1. 1 \in 1..Len(document.pages)
    BY PageFacts
  <2>2. Len(document.pages[1]) \in Nat
    BY <2>1, PagesOfDocument DEF TypeOK
  <2> QED
    BY <1>1, <2>1, <2>2 DEF Open, TypeOK, Steady, given, ThisPage, LastPage
<1>2. CASE RequestFails
  BY <1>2, FailRows DEF RequestFails
<1>3. CASE ColumnsMissing
  BY <1>3, FailRows DEF ColumnsMissing
<1>4. CASE EmptyAnswer
  BY <1>4 DEF EmptyAnswer, TypeOK, Steady, given, place, ends, ThisPage
<1>5. CASE KeepRow
  <2> DEFINE rec == RecordOf(source, ThisPage[line])
  <2>1. line \in 1..Len(ThisPage) /\ line + 1 \in 1..(Len(ThisPage) + 1)
    BY <1>5, PageFacts DEF KeepRow, NextRowIs, TypeOK
  <2>2. ThisPage[line] \in Row
    BY <2>1, PageFacts
  <2>3. rec \in Record
    BY <1>5, <2>2, KeptRecord DEF KeepRow, NextRowIs, TypeOK
  <2>4. records' = Append(records, rec) /\ document.columns = "all" /\ step = "reading"
    BY <1>5 DEF KeepRow, NextRowIs
  <2> HIDE DEF rec
  <2>5. records' \in Seq(Record)
    BY <2>3, <2>4 DEF TypeOK
  <2> QED
    BY <1>5, <2>1, <2>4, <2>5 DEF KeepRow, TypeOK, Steady, given, ends, ThisPage
<1>6. CASE SkipRow
  <2>1. line + 1 \in 1..(Len(ThisPage) + 1) /\ step = "reading"
    BY <1>6, PageFacts DEF SkipRow, NextRowIs, TypeOK
  <2> QED
    BY <1>6, <2>1 DEF SkipRow, TypeOK, Steady, given, ends, ThisPage
<1>7. CASE RowRefused
  BY <1>7, FailRows DEF RowRefused
<1>8. CASE EndPage
  <2>0. /\ step = "reading" /\ document.columns = "all"
        /\ UNCHANGED <<given, records, table, before, ends>>
    BY <1>8 DEF EndPage
  <2>1. CASE LastPage
    <3>1. line = Len(ThisPage) + 1
      BY <1>8, PageFacts DEF EndPage, TypeOK
    <3>2. step' = "storing" /\ UNCHANGED place
      BY <1>8, <2>1 DEF EndPage
    <3> QED
      BY <2>0, <2>1, <3>1, <3>2
      DEF TypeOK, Steady, given, place, ends, ThisPage, LastPage
  <2>2. CASE ~LastPage
    <3>1. page' = page + 1 /\ line' = 1 /\ step' = step
      BY <1>8, <2>2 DEF EndPage
    <3>2. page + 1 \in 1..Len(document.pages) /\ source \in Paged
      BY <2>2, PageFacts DEF LastPage, TypeOK
    <3>3. Len(document.pages[page + 1]) \in Nat
      BY <3>2, PagesOfDocument DEF TypeOK
    <3> QED
      BY <2>0, <3>1, <3>2, <3>3 DEF TypeOK, Steady, given, ends, ThisPage
  <2> QED
    BY <2>1, <2>2
<1>9. CASE Store
  <2>1. table' \in [Key -> Amount \cup {NoAmount}]
    BY <1>9, UpsertedType DEF Store
  <2> QED
    BY <1>9, <2>1 DEF Store, TypeOK, Steady, given, place, ThisPage
<1>10. CASE StoreFails
  BY <1>10, FailRows DEF StoreFails
<1>11. CASE UNCHANGED vars
  BY <1>11 DEF vars, TypeOK, Steady, given, place, ends, ThisPage, LastPage
<1> QED
  BY <1>1, <1>2, <1>3, <1>4, <1>5, <1>6, <1>7, <1>8, <1>9, <1>10, <1>11 DEF Next

(* Every record that is read and every amount that is stored is one the    *)
(* table can hold, whatever a source answers.                              *)
THEOREM TypeCorrect == Spec => []TypeOK
<1>1. RowsInv => TypeOK
  BY DEF RowsInv
<1> QED
  BY <1>1, InitRows, StepRows, PTL DEF Spec

-------------------------------------------------------------------------------
(* What has been read *)

(* The j-th row of page i is kept, as a record of key k.                   *)
KeptAt(i, j, k) ==
    /\ i \in 1..Len(document.pages)
    /\ j \in 1..Len(document.pages[i])
    /\ Fate(source, document.pages[i][j]) = "kept"
    /\ RecordOf(source, document.pages[i][j]).key = k

(* Rows are read page by page, and in their order on each.                 *)
Before(i, j, p, r) == i < p \/ (i = p /\ j < r)

(* Of the rows before the r-th of page p, none is kept for k; or the last  *)
(* of them is row j of page i.                                             *)
NoneOf(p, r, k) == \A i, j \in Nat : KeptAt(i, j, k) => ~Before(i, j, p, r)
LastOf(p, r, k, i, j) ==
    /\ KeptAt(i, j, k) /\ Before(i, j, p, r)
    /\ \A m, n \in Nat : KeptAt(m, n, k) /\ Before(m, n, p, r)
                           => ~Before(i, j, m, n)

(* A value for each key: that of the last row before a place, if any.      *)
Answers(k, p, r, amount) ==
    \E i, j \in Nat : LastOf(p, r, k, i, j) /\ amount = document.pages[i][j].amount

RecordsAreRows ==
    step # "idle" /\ document.columns = "all" =>
        \A k \in Key :
            IF At(records, k) = {} THEN NoneOf(page, line, k)
            ELSE Answers(k, page, line, records[Max(At(records, k))].amount)

(* What a source refuses it has not read past.                             *)
NothingRefused ==
    step # "idle" /\ document.columns = "all" =>
        \A i \in 1..Len(document.pages) : \A j \in 1..Len(document.pages[i]) :
            Before(i, j, page, line) =>
                Fate(source, document.pages[i][j]) # "refused"

ReadInv == RowsInv /\ RecordsAreRows /\ NothingRefused

(* Two places with the same rows before them.                              *)
LEMMA SamePlace ==
    ASSUME NEW p, NEW r, NEW q, NEW t, NEW k,
           \A i, j \in Nat : KeptAt(i, j, k) => (Before(i, j, p, r) <=> Before(i, j, q, t))
    PROVE  /\ NoneOf(p, r, k) <=> NoneOf(q, t, k)
           /\ \A amount : Answers(k, p, r, amount) <=> Answers(k, q, t, amount)
<1>1. NoneOf(p, r, k) <=> NoneOf(q, t, k)
  BY DEF NoneOf
<1>2. \A i, j \in Nat : LastOf(p, r, k, i, j) <=> LastOf(q, t, k, i, j)
  BY DEF LastOf
<1> QED
  BY <1>1, <1>2 DEF Answers

LEMMA KeptPositions ==
    ASSUME TypeOK, NEW i, NEW j, NEW k, KeptAt(i, j, k)
    PROVE  i \in Nat /\ j \in Nat /\ j <= Len(document.pages[i]) /\ i <= Len(document.pages)
BY PagesOfDocument DEF TypeOK, KeptAt

LEMMA SameDocument ==
    ASSUME UNCHANGED given
    PROVE  /\ \A i, j, k : KeptAt(i, j, k)' <=> KeptAt(i, j, k)
           /\ \A p, r, k : NoneOf(p, r, k)' <=> NoneOf(p, r, k)
           /\ \A k, p, r, amount : Answers(k, p, r, amount)' <=> Answers(k, p, r, amount)
<1>1. \A i, j, k : KeptAt(i, j, k)' <=> KeptAt(i, j, k)
  BY DEF given, KeptAt
<1>2. \A p, r, k : NoneOf(p, r, k)' <=> NoneOf(p, r, k)
  BY <1>1 DEF NoneOf
<1>3. \A p, r, k, i, j : LastOf(p, r, k, i, j)' <=> LastOf(p, r, k, i, j)
  BY <1>1 DEF LastOf
<1> QED
  BY <1>1, <1>2, <1>3 DEF Answers, given

LEMMA KeepRowReads ==
    ASSUME ReadInv, KeepRow
    PROVE  RecordsAreRows'
<1> USE DEF ReadInv, RowsInv
<1> DEFINE rec == RecordOf(source, ThisPage[line])
<1>1. /\ records' = Append(records, rec) /\ line' = line + 1
      /\ document.columns = "all" /\ step = "reading"
      /\ Fate(source, ThisPage[line]) = "kept"
      /\ UNCHANGED <<given, step, page>> /\ UNCHANGED given
  BY DEF KeepRow, NextRowIs
<1>2. line \in 1..Len(ThisPage) /\ line \in Nat /\ page \in 1..Len(document.pages) /\ page \in Nat
  BY PageFacts DEF KeepRow, NextRowIs, TypeOK
<1>3. rec \in Record /\ rec.amount = ThisPage[line].amount
  <2>1. ThisPage[line] \in Row
    BY <1>2, PageFacts
  <2> QED
    BY <1>1, <2>1, KeptRecord DEF TypeOK, RecordOf
<1>4. KeptAt(page, line, rec.key)
  BY <1>1, <1>2 DEF KeptAt, ThisPage
<1>4a. \A k \in Key : k # rec.key => ~KeptAt(page, line, k)
  BY DEF KeptAt, ThisPage
<1> HIDE DEF rec
<1>5. SUFFICES ASSUME NEW k \in Key
               PROVE  IF At(records', k) = {} THEN NoneOf(page, line + 1, k)
                      ELSE Answers(k, page, line + 1, records'[Max(At(records', k))].amount)
  BY <1>1, SameDocument DEF RecordsAreRows
<1>6. records \in Seq(Record) /\ records' \in Seq(Record) /\ Len(records) \in Nat
  BY <1>1, <1>3 DEF TypeOK
<1>7. CASE k = rec.key
  <2>1. Len(records) + 1 \in At(records', k)
    BY <1>1, <1>3, <1>6, <1>7 DEF At
  <2>2. Max(At(records', k)) = Len(records) + 1
    <3>1. /\ Max(At(records', k)) \in DOMAIN records'
          /\ Len(records) + 1 <= Max(At(records', k))
      BY <1>6, <2>1, AtPositions
    <3>2. DOMAIN records' = 1..(Len(records) + 1)
      BY <1>1, <1>6
    <3> QED
      BY <3>1, <3>2, <1>6
  <2>3. records'[Len(records) + 1] = rec
    BY <1>1, <1>3, <1>6
  <2>4. LastOf(page, line + 1, k, page, line)
    <3>1. Before(page, line, page, line + 1)
      BY <1>2 DEF Before
    <3>2. ASSUME NEW m \in Nat, NEW n \in Nat, Before(m, n, page, line + 1)
          PROVE  ~Before(page, line, m, n)
      BY <1>2, <3>2 DEF Before
    <3> QED
      BY <1>4, <1>7, <3>1, <3>2 DEF LastOf
  <2> QED
    BY <1>2, <1>3, <2>1, <2>2, <2>3, <2>4 DEF Answers, ThisPage
<1>8. CASE k # rec.key
  <2>1. At(records', k) = At(records, k)
    BY <1>1, <1>3, <1>6, <1>8 DEF At
  <2>2. \A i, j \in Nat : KeptAt(i, j, k) =>
            (Before(i, j, page, line) <=> Before(i, j, page, line + 1))
    <3> SUFFICES ASSUME NEW i \in Nat, NEW j \in Nat, KeptAt(i, j, k)
                 PROVE  Before(i, j, page, line) <=> Before(i, j, page, line + 1)
      OBVIOUS
    <3>1. ~(i = page /\ j = line)
      BY <1>4a, <1>8
    <3> QED
      BY <3>1, <1>2 DEF Before
  <2>3. IF At(records, k) = {} THEN NoneOf(page, line, k)
        ELSE Answers(k, page, line, records[Max(At(records, k))].amount)
    BY <1>1 DEF RecordsAreRows
  <2>4. CASE At(records, k) = {}
    BY <2>1, <2>2, <2>3, <2>4, SamePlace
  <2>5. CASE At(records, k) # {}
    <3>1. records'[Max(At(records, k))] = records[Max(At(records, k))]
      BY <1>1, <1>3, <1>6, <2>5, AtPositions
    <3> QED
      BY <2>1, <2>2, <2>3, <2>5, <3>1, SamePlace
  <2> QED
    BY <2>4, <2>5
<1> QED
  BY <1>7, <1>8

(* The place moves from (page, line) to (p, r), over no row that is kept   *)
(* for a key and none that is refused, and the records stay.               *)
LEMMA PlaceMoves ==
    ASSUME ReadInv, UNCHANGED <<given, records>>, step = "reading",
           document.columns = "all",
           page' \in Nat, line' \in Nat,
           \A k \in Key : \A i, j \in Nat : KeptAt(i, j, k) =>
               (Before(i, j, page, line) <=> Before(i, j, page', line')),
           \A i \in 1..Len(document.pages) : \A j \in 1..Len(document.pages[i]) :
               Before(i, j, page', line') =>
                   \/ Before(i, j, page, line)
                   \/ Fate(source, document.pages[i][j]) # "refused"
    PROVE  RecordsAreRows' /\ NothingRefused'
<1>1. \A k \in Key :
        IF At(records, k) = {} THEN NoneOf(page, line, k)
        ELSE Answers(k, page, line, records[Max(At(records, k))].amount)
  BY DEF ReadInv, RecordsAreRows
<1>2. \A k \in Key :
        IF At(records, k) = {} THEN NoneOf(page', line', k)
        ELSE Answers(k, page', line', records[Max(At(records, k))].amount)
  BY <1>1, SamePlace
<1>3. UNCHANGED given /\ UNCHANGED records
  OBVIOUS
<1>4. RecordsAreRows'
  BY <1>2, <1>3, SameDocument DEF RecordsAreRows
<1>5. NothingRefused'
  BY <1>3 DEF ReadInv, NothingRefused, given
<1> QED
  BY <1>4, <1>5

LEMMA StepRead == ReadInv /\ [Next]_vars => RecordsAreRows' /\ NothingRefused'
<1> SUFFICES ASSUME ReadInv, [Next]_vars
             PROVE  RecordsAreRows' /\ NothingRefused'
  OBVIOUS
<1> USE DEF ReadInv, RowsInv
<1>1. CASE Open
  <2>1. records = <<>> /\ UNCHANGED given
    BY <1>1 DEF Open, Steady
  <2>2. \A k : At(records', k) = {}
    BY <1>1, <2>1 DEF Open, At
  <2>3. \A i, j, k : KeptAt(i, j, k) => ~Before(i, j, 1, 1)
    BY PagesOfDocument DEF KeptAt, Before, TypeOK
  <2>4. RecordsAreRows'
    BY <1>1, <2>1, <2>2, <2>3, SameDocument DEF Open, RecordsAreRows, NoneOf
  <2>5. NothingRefused'
    BY <1>1, <2>1, PagesOfDocument DEF Open, NothingRefused, Before, given
  <2> QED
    BY <2>4, <2>5
<1>2. CASE Fail \/ Store
  BY <1>2 DEF Fail, Store, RecordsAreRows, NothingRefused
<1>3. CASE RequestFails \/ ColumnsMissing \/ RowRefused \/ StoreFails
  BY <1>2, <1>3 DEF RequestFails, ColumnsMissing, RowRefused, StoreFails
<1>4. CASE EmptyAnswer
  BY <1>4 DEF EmptyAnswer, RecordsAreRows, NothingRefused, given
<1>5. ASSUME NextRowIs("kept") \/ NextRowIs("skipped"), line' = line + 1, page' = page, UNCHANGED given, step' = step
      PROVE  NothingRefused'
  <2>1. Fate(source, document.pages[page][line]) # "refused"
    BY <1>5 DEF NextRowIs, ThisPage
  <2>2. page \in Nat /\ line \in Nat
    BY PageFacts DEF TypeOK
  <2> SUFFICES ASSUME NEW i \in 1..Len(document.pages), NEW j \in 1..Len(document.pages[i]),
                      Before(i, j, page, line + 1), document.columns = "all", step # "idle"
               PROVE  Fate(source, document.pages[i][j]) # "refused"
    BY <1>5 DEF NothingRefused, given
  <2>3. CASE i = page /\ j = line
    BY <2>1, <2>3
  <2>4. CASE ~(i = page /\ j = line)
    <3>1. i \in Nat /\ j \in Nat
      BY PagesOfDocument DEF TypeOK
    <3>2. Before(i, j, page, line)
      BY <2>2, <2>4, <3>1 DEF Before
    <3> QED
      BY <3>2 DEF NothingRefused
  <2> QED
    BY <2>3, <2>4
<1>6. CASE KeepRow
  BY <1>5, <1>6, KeepRowReads DEF KeepRow
<1>7. CASE SkipRow
  <2>1. /\ UNCHANGED <<given, records>> /\ UNCHANGED given /\ line' = line + 1 /\ page' = page
        /\ step = "reading" /\ step' = step /\ document.columns = "all"
        /\ Fate(source, document.pages[page][line]) = "skipped"
    BY <1>7 DEF SkipRow, NextRowIs, ThisPage
  <2>2. page \in Nat /\ line \in Nat
    BY PageFacts DEF TypeOK
  <2>3. NothingRefused'
    BY <1>5, <1>7, <2>1 DEF SkipRow
  <2>4. ASSUME NEW i \in Nat, NEW j \in Nat, NEW k, KeptAt(i, j, k)
        PROVE  Before(i, j, page, line) <=> Before(i, j, page, line + 1)
    <3>1. ~(i = page /\ j = line)
      BY <2>1, <2>4 DEF KeptAt
    <3> QED
      BY <2>2, <3>1 DEF Before
  <2>5. \A k \in Key :
          IF At(records, k) = {} THEN NoneOf(page, line + 1, k)
          ELSE Answers(k, page, line + 1, records[Max(At(records, k))].amount)
    <3> SUFFICES ASSUME NEW k \in Key
                 PROVE  IF At(records, k) = {} THEN NoneOf(page, line + 1, k)
                        ELSE Answers(k, page, line + 1, records[Max(At(records, k))].amount)
      OBVIOUS
    <3>1. IF At(records, k) = {} THEN NoneOf(page, line, k)
          ELSE Answers(k, page, line, records[Max(At(records, k))].amount)
      BY <2>1 DEF RecordsAreRows
    <3>2. /\ NoneOf(page, line, k) <=> NoneOf(page, line + 1, k)
          /\ \A amount : Answers(k, page, line, amount) <=> Answers(k, page, line + 1, amount)
      BY <2>4, SamePlace
    <3> QED
      BY <3>1, <3>2
  <2>6. RecordsAreRows'
    BY <2>1, <2>5, SameDocument DEF RecordsAreRows
  <2> QED
    BY <2>3, <2>6
<1>8. CASE EndPage
  <2>1. /\ UNCHANGED <<given, records>> /\ UNCHANGED given /\ UNCHANGED records
        /\ step = "reading" /\ document.columns = "all"
        /\ line = Len(ThisPage) + 1
    BY <1>8, PageFacts DEF EndPage, TypeOK
  <2>2. CASE LastPage
    <3>1. step' = "storing" /\ page' = page /\ line' = line
      BY <1>8, <2>2 DEF EndPage, place
    <3> QED
      BY <2>1, <3>1, SameDocument DEF RecordsAreRows, NothingRefused, given
  <2>3. CASE ~LastPage
    <3>1. page' = page + 1 /\ line' = 1
      BY <1>8, <2>3 DEF EndPage
    <3>2. page \in Nat /\ Len(ThisPage) \in Nat
      BY PageFacts DEF TypeOK
    <3>3. ASSUME NEW i \in 1..Len(document.pages), NEW j \in 1..Len(document.pages[i])
          PROVE  Before(i, j, page, line) <=> Before(i, j, page + 1, 1)
      <4>1. i \in Nat /\ j \in Nat /\ j >= 1
        BY PagesOfDocument DEF TypeOK
      <4>2. i = page => j <= Len(ThisPage)
        BY PagesOfDocument DEF TypeOK, ThisPage
      <4> QED
        BY <2>1, <3>2, <4>1, <4>2 DEF Before
    <3>4. \A k \in Key : \A i, j \in Nat : KeptAt(i, j, k) =>
             (Before(i, j, page, line) <=> Before(i, j, page', line'))
      BY <3>1, <3>3 DEF KeptAt
    <3>5. page' \in Nat /\ line' \in Nat
      BY <3>1, <3>2
    <3> QED
      BY <2>1, <3>1, <3>3, <3>4, <3>5, PlaceMoves
  <2> QED
    BY <2>2, <2>3
<1>9. CASE UNCHANGED vars
  <2>1. UNCHANGED given
    BY <1>9 DEF vars
  <2> QED
    BY <1>9, <2>1, SameDocument DEF vars, place, given, RecordsAreRows, NothingRefused
<1> QED
  BY <1>1, <1>2, <1>3, <1>4, <1>6, <1>7, <1>8, <1>9 DEF Next

LEMMA ReadInvariance == Spec => []ReadInv
<1>1. Init => ReadInv
  BY InitRows DEF Init, ReadInv, RecordsAreRows, NothingRefused
<1>2. ReadInv /\ [Next]_vars => ReadInv'
  BY StepRows, StepRead DEF ReadInv
<1> QED
  BY <1>1, <1>2, PTL DEF Spec

-------------------------------------------------------------------------------
(* What is stored *)

(* The page after the last one a source asks for.                          *)
EndOfReading == 1 + (IF source \in Paged THEN Len(document.pages) ELSE 1)

(* The last round stored the document, or the one before did and this one  *)
(* is not over.                                                            *)
Stored == outcome = "stored" \/ (previous = "stored" /\ outcome = "none")

TableIsLatest ==
    Stored /\ document.columns = "all" =>
        \A k \in Key : \/ NoneOf(EndOfReading, 1, k)
                       \/ Answers(k, EndOfReading, 1, table[k])

TableInv == /\ ReadInv /\ AllOrNothing /\ TableIsLatest
            /\ NoSilentLoss /\ Idempotent

(* A source that is read to its end.                                       *)
LEMMA ReadToTheEnd ==
    ASSUME ReadInv, step = "storing", document.columns = "all"
    PROVE  /\ \A i, j, k : KeptAt(i, j, k) =>
                 (Before(i, j, page, line) <=> Before(i, j, EndOfReading, 1))
           /\ (source \in Paged \/ Len(document.pages) = 1) =>
                 \A i \in 1..Len(document.pages) :
                     \A j \in 1..Len(document.pages[i]) : Before(i, j, page, line)
<1> USE DEF ReadInv, RowsInv
<1>1. /\ LastPage /\ line = Len(ThisPage) + 1 /\ page + 1 = EndOfReading
      /\ page \in 1..Len(document.pages) /\ page \in Nat
  BY PageFacts DEF Steady, TypeOK, LastPage, EndOfReading
<1>2. ASSUME NEW i \in 1..Len(document.pages), NEW j \in 1..Len(document.pages[i])
      PROVE  /\ i \in Nat /\ j \in Nat /\ j >= 1
             /\ i = page => j <= Len(ThisPage)
             /\ Before(i, j, page, line) <=> i <= page
  <2>1. /\ i \in Nat /\ j \in Nat /\ j >= 1
        /\ i = page => j <= Len(ThisPage) /\ j \in Nat
    BY PagesOfDocument DEF TypeOK, ThisPage
  <2>2. Len(ThisPage) \in Nat
    BY PageFacts
  <2> QED
    BY <1>1, <2>1, <2>2 DEF Before
<1>3. ASSUME NEW i, NEW j, NEW k, KeptAt(i, j, k)
      PROVE  Before(i, j, page, line) <=> Before(i, j, EndOfReading, 1)
  <2>1. i \in 1..Len(document.pages) /\ j \in 1..Len(document.pages[i])
    BY <1>3 DEF KeptAt
  <2>2. Before(i, j, page + 1, 1) <=> i <= page
    BY <1>1, <1>2, <2>1 DEF Before
  <2> QED
    BY <1>1, <1>2, <2>1, <2>2
<1>4. (source \in Paged \/ Len(document.pages) = 1) => page = Len(document.pages)
  <2>1. CASE source \in Paged
    BY <1>1, <2>1 DEF LastPage
  <2>2. CASE Len(document.pages) = 1
    <3>1. page \in 1..1
      BY <1>1, <2>2
    <3> QED
      BY <2>2, <3>1
  <2> QED
    BY <2>1, <2>2
<1> QED
  BY <1>1, <1>2, <1>3, <1>4

(* The last row kept for a key is only one.                                *)
LEMMA OneLast ==
    ASSUME NEW k, NEW p, NEW r, NEW x, NEW y, Answers(k, p, r, x), Answers(k, p, r, y)
    PROVE  x = y
<1>1. PICK i \in Nat, j \in Nat : LastOf(p, r, k, i, j) /\ x = document.pages[i][j].amount
  BY DEF Answers
<1>2. PICK m \in Nat, n \in Nat : LastOf(p, r, k, m, n) /\ y = document.pages[m][n].amount
  BY DEF Answers
<1>3. ~Before(i, j, m, n) /\ ~Before(m, n, i, j)
  BY <1>1, <1>2 DEF LastOf
<1>4. i = m /\ j = n
  BY <1>3 DEF Before
<1> QED
  BY <1>1, <1>2, <1>4

(* What the statement makes of the table.                                  *)
LEMMA StoreLatest ==
    ASSUME ReadInv, Store, document.columns = "all", NEW k \in Key
    PROVE  \/ NoneOf(EndOfReading, 1, k) /\ table'[k] = table[k]
           \/ Answers(k, EndOfReading, 1, table'[k])
<1>1. step = "storing" /\ table' = Upserted(records)
  BY DEF Store
<1>2. table'[k] = IF At(records, k) = {} THEN table[k]
                  ELSE records[Max(At(records, k))].amount
  BY <1>1 DEF Upserted, At
<1>3. IF At(records, k) = {} THEN NoneOf(page, line, k)
      ELSE Answers(k, page, line, records[Max(At(records, k))].amount)
  BY <1>1 DEF ReadInv, RecordsAreRows
<1>4. /\ NoneOf(page, line, k) <=> NoneOf(EndOfReading, 1, k)
      /\ \A amount : Answers(k, page, line, amount)
                        <=> Answers(k, EndOfReading, 1, amount)
  BY <1>1, ReadToTheEnd, SamePlace
<1> QED
  BY <1>2, <1>3, <1>4

LEMMA StoreTable == TableInv /\ Store => TableIsLatest' /\ NoSilentLoss' /\ Idempotent'
<1> SUFFICES ASSUME TableInv, Store
             PROVE  TableIsLatest' /\ NoSilentLoss' /\ Idempotent'
  OBVIOUS
<1> USE DEF TableInv
<1>0. /\ UNCHANGED given /\ step = "storing" /\ outcome = "none"
      /\ outcome' = "stored" /\ table' = Upserted(records)
      /\ before' = before /\ previous' = previous
      /\ document.columns \in {"all", "none"}
  BY DEF Store, ReadInv, RowsInv, Steady
<1>1. UNCHANGED EndOfReading
  BY <1>0 DEF EndOfReading, given
<1>2. TableIsLatest'
  <2>1. \A k \in Key : document.columns = "all" =>
            NoneOf(EndOfReading, 1, k) \/ Answers(k, EndOfReading, 1, table'[k])
    BY StoreLatest
  <2> QED
    BY <1>0, <1>1, <2>1, SameDocument DEF TableIsLatest, given
<1>3. NoSilentLoss'
  <2> SUFFICES ASSUME source \in Strict, document.columns = "all",
                      NEW r \in AllRows(document)
               PROVE  /\ r.whole
                      /\ Unreadable \notin {r.date, r.amount}
                      /\ source = "gcp" => r.service # Absent
    BY <1>0 DEF NoSilentLoss, given
  <2>1. PICK i \in 1..Len(document.pages) :
          \E j \in 1..Len(document.pages[i]) : r = document.pages[i][j]
    BY RowsOfDocument DEF ReadInv, RowsInv, TypeOK
  <2>2. PICK j \in 1..Len(document.pages[i]) : r = document.pages[i][j]
    BY <2>1
  <2>3. source \in Paged \/ Len(document.pages) = 1
    BY DEF Strict, Paged, ReadInv, RowsInv, Steady
  <2>4. Before(i, j, page, line)
    BY <1>0, <2>3, ReadToTheEnd
  <2>5. Fate(source, r) # "refused"
    BY <1>0, <2>2, <2>4 DEF ReadInv, NothingRefused
  <2> QED
    BY <2>5 DEF Fate, Unfit
<1>4. Idempotent'
  <2> SUFFICES ASSUME previous = "stored" PROVE table' = before
    BY <1>0 DEF Idempotent
  <2>1. table = before
    BY <1>0 DEF AllOrNothing
  <2>2. \A k \in Key : table'[k] = table[k]
    <3> SUFFICES ASSUME NEW k \in Key PROVE table'[k] = table[k]
      OBVIOUS
    <3>1. CASE document.columns = "none"
      <4>1. At(records, k) = {}
        BY <3>1 DEF ReadInv, RowsInv, Steady, At
      <4> QED
        BY <1>0, <4>1 DEF Upserted, At
    <3>2. CASE document.columns = "all"
      <4>1. \/ NoneOf(EndOfReading, 1, k) /\ table'[k] = table[k]
            \/ Answers(k, EndOfReading, 1, table'[k])
        BY <3>2, StoreLatest
      <4>2. NoneOf(EndOfReading, 1, k) \/ Answers(k, EndOfReading, 1, table[k])
        BY <1>0, <3>2 DEF TableIsLatest, Stored
      <4>3. ~(NoneOf(EndOfReading, 1, k) /\ Answers(k, EndOfReading, 1, table'[k]))
        BY DEF NoneOf, Answers, LastOf
      <4> QED
        BY <4>1, <4>2, <4>3, OneLast
    <3> QED
      BY <1>0, <3>1, <3>2
  <2>3. table' \in [Key -> Amount \cup {NoAmount}] /\ table \in [Key -> Amount \cup {NoAmount}]
    BY <1>0, UpsertedType DEF ReadInv, RowsInv, TypeOK, Store
  <2> QED
    BY <2>1, <2>2, <2>3
<1> QED
  BY <1>2, <1>3, <1>4

LEMMA StepTable == TableInv /\ [Next]_vars => TableInv'
<1> SUFFICES ASSUME TableInv, [Next]_vars PROVE TableInv'
  OBVIOUS
<1> USE DEF TableInv
<1>1. ReadInv'
  BY StepRows, StepRead DEF ReadInv
<1>2. AllOrNothing'
  <2>1. CASE step # "idle" /\ Fail
    BY <2>1 DEF Fail, ReadInv, RowsInv, Steady, AllOrNothing
  <2> QED
    BY <2>1 DEF Next, vars, Open, RequestFails, ColumnsMissing, EmptyAnswer,
       KeepRow, SkipRow, RowRefused, NextRowIs, EndPage, Store, StoreFails,
       ReadInv, RowsInv, Steady, AllOrNothing, ends
<1>3. TableIsLatest' /\ NoSilentLoss' /\ Idempotent'
  <2>1. CASE Store
    BY <2>1, StoreTable
  <2>2. CASE ~Store
    <3>1. UNCHANGED given /\ UNCHANGED table
      BY <2>2 DEF Next, vars, Open, RequestFails, ColumnsMissing, EmptyAnswer,
         KeepRow, SkipRow, RowRefused, EndPage, StoreFails, Fail
    <3>2. \/ UNCHANGED <<before, outcome, previous>>
          \/ before' = table /\ previous' = outcome /\ outcome' = "none"
          \/ outcome' = "failed" /\ UNCHANGED <<before, previous>>
      BY <2>2 DEF Next, vars, Open, RequestFails, ColumnsMissing, EmptyAnswer,
         KeepRow, SkipRow, RowRefused, EndPage, StoreFails, Fail, ends
    <3>3. Stored' => Stored
      BY <3>2 DEF Stored
    <3>4. UNCHANGED EndOfReading
      BY <3>1 DEF EndOfReading, given
    <3>5. TableIsLatest'
      BY <3>1, <3>3, <3>4, SameDocument DEF TableIsLatest, given
    <3>6. outcome' = "stored" => UNCHANGED <<before, outcome, previous>>
      BY <3>2
    <3>7. NoSilentLoss' /\ Idempotent'
      BY <3>1, <3>6 DEF NoSilentLoss, Idempotent, given
    <3> QED
      BY <3>5, <3>7
  <2> QED
    BY <2>1, <2>2
<1> QED
  BY <1>1, <1>2, <1>3

LEMMA TableInvariance == Spec => []TableInv
<1>1. Init => TableInv
  BY InitRows
  DEF Init, TableInv, ReadInv, RecordsAreRows, NothingRefused, AllOrNothing,
      TableIsLatest, Stored, NoSilentLoss, Idempotent
<1> QED
  BY <1>1, StepTable, PTL DEF Spec

(* A round that has not succeeded has changed nothing.                     *)
THEOREM WholeOrNothing == Spec => []AllOrNothing
<1>1. TableInv => AllOrNothing
  BY DEF TableInv
<1> QED
  BY <1>1, TableInvariance, PTL

(* A billing export or an upload with a row that cannot be read is never   *)
(* stored without it.                                                      *)
THEOREM StrictSourcesLoseNothing == Spec => []NoSilentLoss
<1>1. TableInv => NoSilentLoss
  BY DEF TableInv
<1> QED
  BY <1>1, TableInvariance, PTL

(* To read and store a document once more changes nothing.                 *)
THEOREM RepetitionIsIdempotent == Spec => []Idempotent
<1>1. TableInv => Idempotent
  BY DEF TableInv
<1> QED
  BY <1>1, TableInvariance, PTL

(* After a success, the table shows an amount of the document for each day *)
(* and service it names, where the source is read to its last page.        *)
THEOREM StoredIsComplete == Spec => []NothingLeftOut
<1>1. TableInv => NothingLeftOut
  <2> SUFFICES ASSUME TableInv, outcome = "stored", document.columns = "all",
                      source \in Paged \/ Len(document.pages) = 1,
                      NEW r \in AllRows(document), WellFormed(r)
               PROVE  \E twin \in AllRows(document) :
                        /\ Fate(source, twin) = "kept"
                        /\ RecordOf(source, twin).key = <<r.date, r.service>>
                        /\ table[<<r.date, r.service>>] = twin.amount
    BY DEF NothingLeftOut
  <2> DEFINE k == <<r.date, r.service>>
  <2>0. TypeOK
    BY DEF TableInv, ReadInv, RowsInv
  <2>1. PICK i \in 1..Len(document.pages) :
          \E j \in 1..Len(document.pages[i]) : r = document.pages[i][j]
    BY <2>0, RowsOfDocument DEF TypeOK
  <2>2. PICK j \in 1..Len(document.pages[i]) : r = document.pages[i][j]
    BY <2>1
  <2>3. r \in Row /\ source \in Source
    BY <2>0, <2>2, PagesOfDocument DEF TypeOK
  <2>4. Fate(source, r) = "kept" /\ RecordOf(source, r).key = k
    BY DEF WellFormed, Fate, Unfit, RecordOf, ServiceOf
  <2>5. KeptAt(i, j, k) /\ i \in Nat /\ j \in Nat
    BY <2>0, <2>2, <2>4, KeptPositions DEF KeptAt
  <2>6. k \in Key
    BY <2>3, <2>4, KeptRecord DEF Record
  <2>7. Before(i, j, EndOfReading, 1)
    <3> DEFINE last == Len(document.pages)
    <3>1. EndOfReading = 1 + last
      BY DEF EndOfReading
    <3>2. last \in Nat /\ i <= last
      BY <2>0, <2>5, KeptPositions, PagesOfDocument DEF TypeOK
    <3> HIDE DEF last
    <3> QED
      BY <2>5, <3>1, <3>2 DEF Before
  <2> HIDE DEF k
  <2>8. Answers(k, EndOfReading, 1, table[k])
    BY <2>5, <2>6, <2>7 DEF TableInv, TableIsLatest, Stored, NoneOf
  <2>9. PICK m \in Nat, n \in Nat : KeptAt(m, n, k) /\ table[k] = document.pages[m][n].amount
    BY <2>8 DEF Answers, LastOf
  <2>10. document.pages[m][n] \in AllRows(document)
    BY <2>0, <2>9, RowsOfDocument DEF KeptAt, TypeOK
  <2> QED
    BY <2>9, <2>10 DEF KeptAt, k
<1> QED
  BY <1>1, TableInvariance, PTL
===============================================================================
