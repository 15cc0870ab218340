----------------------------- MODULE WALProofs -----------------------------
(***************************************************************************)
(* Proofs about WAL for any pages, any number of records per header page   *)
(* and any number of transactions and crashes.  IInv is inductive.         *)
(***************************************************************************)
EXTENDS WAL, SequenceTheorems, TLAPS

-----------------------------------------------------------------------------
(* Pages and records                                                        *)

\* What a page is made of.
LEMMA PageFields ==
    ASSUME NEW h \in HeaderAndDataPages
    PROVE  /\ h.numRecords \in 0..RecordsPerHeaderPage
           /\ h.next \in Nat \cup {NoPage}
           /\ h.records \in Seq(Records)
           /\ h.data \in Nat /\ h.numUpdates \in Nat /\ Contents(h) \in Nat \X Nat
           /\ \A n \in Nat : /\ [h EXCEPT !.next = n] \in HeaderAndDataPages
                             /\ [h EXCEPT !.next = n].numRecords = h.numRecords
                             /\ [h EXCEPT !.next = n].records = h.records
                             /\ [h EXCEPT !.next = n].data = h.data
                             /\ [h EXCEPT !.next = n].next = n
BY DEF HeaderAndDataPages, Contents

\* The pages that the code makes.
LEMMA MadePages ==
    /\ ZeroPage \in HeaderAndDataPages /\ EmptyHeader \in HeaderAndDataPages
    /\ ZeroPage.numRecords = 0 /\ ZeroPage.records = <<>> /\ ZeroPage.data = 0
    /\ EmptyHeader.numRecords = 0 /\ EmptyHeader.records = <<>> /\ EmptyHeader.data = 0
    /\ EmptyHeader.next = NoPage
    /\ \A t, n \in Nat :
           /\ DataPage(t, n) \in HeaderAndDataPages
           /\ DataPage(t, n).data = t /\ DataPage(t, n).numUpdates = n
           /\ DataPage(t, n).numRecords = 0 /\ DataPage(t, n).records = <<>>
<1>1. <<>> \in Seq(Records) /\ 0 \in 0..RecordsPerHeaderPage
    BY WALAssumption
<1>2. \A n \in Nat \cup {NoPage}, t, u \in Nat :
          [numRecords |-> 0, next |-> n, records |-> <<>>, data |-> t, numUpdates |-> u]
              \in HeaderAndDataPages
    BY <1>1 DEF HeaderAndDataPages
<1>3. ZeroPage = [numRecords |-> 0, next |-> 0, records |-> <<>>, data |-> 0, numUpdates |-> 0]
    BY DEF ZeroPage, DataPage
<1>4. EmptyHeader = [numRecords |-> 0, next |-> NoPage, records |-> <<>>, data |-> 0,
                     numUpdates |-> 0]
    BY <1>3 DEF EmptyHeader
<1>5. \A t, n \in Nat :
          DataPage(t, n) = [numRecords |-> 0, next |-> 0, records |-> <<>>, data |-> t,
                            numUpdates |-> n]
    BY DEF DataPage
<1>6. ZeroPage \in HeaderAndDataPages /\ EmptyHeader \in HeaderAndDataPages
    BY <1>2, <1>3, <1>4
<1>7. \A t, n \in Nat : DataPage(t, n) \in HeaderAndDataPages
    BY <1>2, <1>5
<1> QED BY <1>3, <1>4, <1>5, <1>6, <1>7

\* The records that the code makes.
LEMMA MadeRecords ==
    /\ AuxRecord \in Records /\ CommitRecord \in Records
    /\ AuxRecord.type = "AUX" /\ CommitRecord.type = "COMMIT"
    /\ \A p \in Pages, i \in Nat : /\ PageRecord(p, i) \in Records
                                   /\ PageRecord(p, i).type = "PAGE"
                                   /\ PageRecord(p, i).page = p
                                   /\ PageRecord(p, i).pageIdxInWAL = i
    /\ \A r \in Records : /\ r.type = "PAGE" => r.page \in Pages /\ r.pageIdxInWAL \in Nat
                          /\ r.type = "COMMIT" <=> r = CommitRecord
BY DEF Records, AuxRecord, CommitRecord, PageRecord

\* A page record of the log names a page of the WAL.
LEMMA PagesOfRecords ==
    ASSUME TypeOK
    PROVE  /\ \A j \in PageRecords : log[j].pageIdxInWAL \in Nat
           /\ \A j \in PageRecords : log[j].page \in Pages
<1>1. \A j \in PageRecords : log[j] \in Records /\ log[j].type = "PAGE"
    BY SMTT(20) DEF TypeOK, PageRecords
<1> QED BY <1>1, MadeRecords

\* Header page h with record r added.
WithRecord(h, r) == [h EXCEPT !.numRecords = @ + 1, !.records = Append(@, r)]

\* A record fits a header page that is not full, and leaves it whole.
LEMMA AddRecord ==
    ASSUME NEW h \in HeaderAndDataPages, NEW r \in Records, IsWhole(h),
           h.numRecords < RecordsPerHeaderPage,
           NEW g, g = WithRecord(h, r)
    PROVE  /\ g \in HeaderAndDataPages /\ IsWhole(g)
           /\ g.numRecords = h.numRecords + 1 /\ g.next = h.next /\ g.data = h.data
           /\ \A j \in 1..h.numRecords : g.records[j] = h.records[j]
           /\ g.records[h.numRecords + 1] = r
<1>1. /\ h.numRecords \in Nat /\ h.records \in Seq(Records) /\ Len(h.records) = h.numRecords
    BY PageFields, WALAssumption DEF IsWhole
<1> USE DEF WithRecord
<1>2. /\ g.numRecords = h.numRecords + 1 /\ g.next = h.next /\ g.data = h.data
      /\ g.records = Append(h.records, r)
    BY DEF HeaderAndDataPages
<1>3. /\ Append(h.records, r) \in Seq(Records)
      /\ Len(Append(h.records, r)) = Len(h.records) + 1
      /\ \A j \in 1..Len(h.records) : Append(h.records, r)[j] = h.records[j]
      /\ Append(h.records, r)[Len(h.records) + 1] = r
    BY <1>1
<1>a. /\ h.numRecords + 1 \in 0..RecordsPerHeaderPage /\ h.next \in Nat \cup {NoPage}
      /\ h.data \in Nat
    BY SMTT(20), <1>1, PageFields, WALAssumption
<1>b. \A x \in 0..RecordsPerHeaderPage, y \in Seq(Records) :
          [h EXCEPT !.numRecords = x, !.records = y] \in HeaderAndDataPages
    BY DEF HeaderAndDataPages
<1>4. g \in HeaderAndDataPages
    BY <1>3, <1>a, <1>b, Zenon
<1> QED BY <1>1, <1>2, <1>3, <1>4 DEF IsWhole

-----------------------------------------------------------------------------
(* What the operations on the WAL do                                        *)

\* addNewWALRecord: the record goes to the current header page, or to a new one after the
\* current one has been linked and written.
LEMMA LoggedRecord ==
    ASSUME TypeOK, WholeInv, NEW r \in Records, NEW extra \in 0..1, AddNewWALRecord(r, extra)
    PROVE  /\ header' \in HeaderAndDataPages /\ IsWhole(header')
           /\ offsetInCurrentHeaderPage' = header'.numRecords
           /\ isLastLoggedRecordCommit' \in BOOLEAN
           /\ log' = Append(log, r) /\ log' \in Seq(Records)
           /\ chain' \in Seq(Positions)
           /\ \/ /\ offsetInCurrentHeaderPage = header.numRecords
                 /\ offsetInCurrentHeaderPage < RecordsPerHeaderPage
                 /\ UNCHANGED <<file, currentHeaderPageIdx, chain>>
                 /\ numPages' = numPages + extra
                 /\ header'.numRecords = header.numRecords + 1
                 /\ header'.next = header.next /\ header'.data = header.data
                 /\ \A j \in 1..header.numRecords : header'.records[j] = header.records[j]
                 /\ header'.records[header.numRecords + 1] = r
              \/ /\ offsetInCurrentHeaderPage >= RecordsPerHeaderPage
                 /\ file' = WritePage(file, currentHeaderPageIdx,
                                      [header EXCEPT !.next = numPages + extra])
                 /\ currentHeaderPageIdx' = numPages + extra
                 /\ numPages' = numPages + extra + 1
                 /\ chain' = Append(chain, [page |-> numPages + extra, first |-> Len(log)])
                 /\ header'.numRecords = 1 /\ header'.next = NoPage /\ header'.data = 0
                 /\ header'.records[1] = r
<1> USE DEF TypeOK
<1>1. /\ numPages + extra \in Nat /\ RecordsPerHeaderPage \in Nat /\ RecordsPerHeaderPage >= 1
      /\ offsetInCurrentHeaderPage \in Nat /\ Len(log) \in Nat
    BY WALAssumption DEF InvalidOffset
<1>2. /\ log' = Append(log, r) /\ log' \in Seq(Records)
      /\ isLastLoggedRecordCommit' \in BOOLEAN
    BY DEF AddNewWALRecord
<1>3. CASE offsetInCurrentHeaderPage + 1 > RecordsPerHeaderPage
  <2>1. /\ numPages' = numPages + extra + 1 /\ offsetInCurrentHeaderPage' = 1
        /\ file' = WritePage(file, currentHeaderPageIdx, [header EXCEPT !.next = numPages + extra])
        /\ currentHeaderPageIdx' = numPages + extra
        /\ header' = WithRecord(EmptyHeader, r)
        /\ chain' = Append(chain, [page |-> numPages + extra, first |-> Len(log)])
    BY <1>3, Zenon DEF AddNewWALRecord, WithRecord
  <2>2. EmptyHeader \in HeaderAndDataPages /\ IsWhole(EmptyHeader) /\ EmptyHeader.numRecords = 0
        /\ EmptyHeader.next = NoPage /\ EmptyHeader.data = 0
    BY MadePages DEF IsWhole
  <2>r. EmptyHeader.numRecords < RecordsPerHeaderPage
    BY <1>1, <2>2
  <2>3. /\ header' \in HeaderAndDataPages /\ IsWhole(header')
        /\ header'.numRecords = EmptyHeader.numRecords + 1 /\ header'.next = EmptyHeader.next
        /\ header'.data = EmptyHeader.data /\ header'.records[EmptyHeader.numRecords + 1] = r
    BY <2>1, <2>2, <2>r, AddRecord
  <2>4. [page |-> numPages + extra, first |-> Len(log)] \in Positions
    BY <1>1 DEF Positions
  <2>5. chain' \in Seq(Positions)
    BY <2>1, <2>4
  <2>6. offsetInCurrentHeaderPage >= RecordsPerHeaderPage
    BY <1>1, <1>3
  <2> QED BY <1>2, <2>1, <2>2, <2>3, <2>5, <2>6
<1>4. CASE ~(offsetInCurrentHeaderPage + 1 > RecordsPerHeaderPage)
  <2>1. /\ numPages' = numPages + extra
        /\ offsetInCurrentHeaderPage' = offsetInCurrentHeaderPage + 1
        /\ file' = file /\ currentHeaderPageIdx' = currentHeaderPageIdx
        /\ header' = WithRecord(header, r)
        /\ chain' = chain
    BY <1>4, Zenon DEF AddNewWALRecord, WithRecord
  <2>2. /\ offsetInCurrentHeaderPage < RecordsPerHeaderPage
        /\ offsetInCurrentHeaderPage = header.numRecords
    BY <1>1, <1>4 DEF WholeInv, InvalidOffset
  <2>3. /\ header' \in HeaderAndDataPages /\ IsWhole(header')
        /\ header'.numRecords = header.numRecords + 1 /\ header'.next = header.next
        /\ header'.data = header.data /\ header'.records[header.numRecords + 1] = r
        /\ \A j \in 1..header.numRecords : header'.records[j] = header.records[j]
    BY SMTT(20), <2>1, <2>2, AddRecord DEF WholeInv
  <2> QED BY <1>2, <2>1, <2>2, <2>3
<1> QED BY <1>3, <1>4

\* Writing a page changes this page only; a page beyond the end leaves zeros before it.
LEMMA WrittenFile ==
    ASSUME TypeOK, WholeInv, NEW i \in Nat, NEW c \in HeaderAndDataPages, IsWhole(c),
           file' = WritePage(file, i, c)
    PROVE  /\ file' \in Seq(HeaderAndDataPages) /\ file' # <<>>
           /\ \A k \in DOMAIN file' : IsWhole(file'[k])
           /\ i < Len(file') /\ Len(file) <= Len(file') /\ file'[i + 1] = c
           /\ \A k \in DOMAIN file : k # i + 1 => file'[k] = file[k]
           /\ \A k \in DOMAIN file' :
                 \/ k = i + 1
                 \/ k \in DOMAIN file /\ file'[k] = file[k]
                 \/ file'[k] = ZeroPage
<1> DEFINE n == IF i < Len(file) THEN Len(file) ELSE i + 1
           w == [k \in 1..n |-> IF k = i + 1 THEN c
                                ELSE IF k <= Len(file) THEN file[k] ELSE ZeroPage]
<1>1. /\ file \in Seq(HeaderAndDataPages) /\ Len(file) \in Nat /\ DOMAIN file = 1..Len(file)
      /\ \A k \in 1..Len(file) : IsWhole(file[k]) /\ file[k] \in HeaderAndDataPages
    BY DEF TypeOK, WholeInv
<1>2. n \in Nat /\ n >= 1 /\ i < n /\ Len(file) <= n
    BY <1>1
<1>3. \A k \in 1..n : (IF k = i + 1 THEN c ELSE IF k <= Len(file) THEN file[k] ELSE ZeroPage)
                          \in HeaderAndDataPages
    BY <1>1, MadePages
<1>4. file' = w
    BY DEF WritePage
<1> HIDE DEF n
<1>5. w \in Seq(HeaderAndDataPages) /\ Len(w) = n /\ DOMAIN w = 1..n
    BY <1>2, <1>3, IsASeq
<1>6. \A k \in 1..n : w[k] = IF k = i + 1 THEN c ELSE IF k <= Len(file) THEN file[k] ELSE ZeroPage
    OBVIOUS
<1> HIDE DEF w
<1>7. /\ w # <<>> /\ i < Len(w) /\ Len(file) <= Len(w) /\ w[i + 1] = c
      /\ \A k \in DOMAIN file : k # i + 1 => w[k] = file[k]
      /\ \A k \in DOMAIN w : \/ k = i + 1
                             \/ k \in DOMAIN file /\ w[k] = file[k]
                             \/ w[k] = ZeroPage
    BY <1>1, <1>2, <1>5, <1>6
<1>8. \A k \in DOMAIN w : IsWhole(w[k])
  <2>1. IsWhole(ZeroPage)
    BY MadePages DEF IsWhole
  <2> QED BY <1>1, <1>7, <2>1
<1>9. DOMAIN file' = DOMAIN w /\ Len(file') = Len(w) /\ \A k : file'[k] = w[k]
    BY <1>4, Zenon
<1> QED BY <1>4, <1>5, <1>7, <1>8, <1>9

\* The next header page is read when the records of the one before have been read.
LEMMA NextOfIterator ==
    ASSUME TypeOK, WholeInv, GetNextRecord
    PROVE  /\ NextRecord \in Records
           /\ iterator.numRead + 1 \in DOMAIN iterator.header.records
           /\ iterator' \in [header : HeaderAndDataPages, numRead : 0..RecordsPerHeaderPage]
           /\ IsWhole(iterator'.header)
           /\ iterator'.header = iterator.header
                \/ \E k \in DOMAIN file : iterator'.header = file[k]
<1> DEFINE h == iterator.header
           n == iterator.numRead
<1>1. /\ iterator \in [header : HeaderAndDataPages, numRead : 0..RecordsPerHeaderPage]
      /\ file \in Seq(HeaderAndDataPages) /\ RecordsPerHeaderPage \in Nat
      /\ RecordsPerHeaderPage >= 1
    BY WALAssumption DEF TypeOK
<1>2. h \in HeaderAndDataPages /\ n \in 0..RecordsPerHeaderPage
    BY <1>1
<1>3. /\ h.numRecords \in 0..RecordsPerHeaderPage /\ h.records \in Seq(Records)
      /\ h.next \in Nat \cup {NoPage} /\ Len(h.records) = h.numRecords
    BY <1>2, PageFields DEF WholeInv, IsWhole
<1>4. n < h.numRecords
    BY DEF GetNextRecord, HasNextRecord
<1>5. n + 1 \in DOMAIN h.records /\ h.records[n + 1] \in Records /\ n + 1 \in 0..RecordsPerHeaderPage
    BY <1>1, <1>2, <1>3, <1>4
<1>6. CASE n + 1 = h.numRecords /\ h.next # NoPage
  <2>1. CanRead(h.next) /\ iterator' = [header |-> ReadPage(h, h.next), numRead |-> 0]
    BY <1>6 DEF GetNextRecord
  <2>2. h.next \in Nat /\ h.next <= Len(file)
    BY <1>3, <1>6, <2>1 DEF CanRead
  <2>3. ReadPage(h, h.next) = h \/ \E k \in DOMAIN file : ReadPage(h, h.next) = file[k]
    BY <1>1, <2>2 DEF ReadPage
  <2>4. ReadPage(h, h.next) \in HeaderAndDataPages /\ IsWhole(ReadPage(h, h.next))
    BY <1>1, <1>2, <2>3 DEF WholeInv
  <2> HIDE DEF h, n
  <2> QED BY <1>1, <1>5, <2>1, <2>3, <2>4 DEF NextRecord, h, n
<1>7. CASE ~(n + 1 = h.numRecords /\ h.next # NoPage)
  <2>1. iterator' = [iterator EXCEPT !.numRead = n + 1]
    BY <1>7 DEF GetNextRecord
  <2>2. iterator'.header = h /\ iterator' \in [header : HeaderAndDataPages, numRead : 0..RecordsPerHeaderPage]
    BY <1>1, <1>5, <2>1
  <2> QED BY <1>5, <2>2 DEF WholeInv, NextRecord
<1> QED BY <1>6, <1>7

-----------------------------------------------------------------------------
(* Types                                                                    *)

\* The pages that stay in frames when one is written to the WAL file.
LEMMA WrittenFrame ==
    ASSUME NEW i \in DOMAIN frames, frames' = Restrict(frames, DOMAIN frames \ {i})
    PROVE  /\ DOMAIN frames' = DOMAIN frames \ {i}
           /\ \A j \in DOMAIN frames' : frames'[j] = frames[j]
BY DEF Restrict

\* The page of a new version is in a frame.
LEMMA NewFrame ==
    ASSUME TypeOK,
           frames' = [i \in DOMAIN frames \cup {numPages} |->
                         IF i = numPages THEN DataPage(transaction, 1) ELSE frames[i]]
    PROVE  /\ DOMAIN frames' = DOMAIN frames \cup {numPages}
           /\ frames'[numPages] = DataPage(transaction, 1)
           /\ \A i \in DOMAIN frames : i # numPages /\ frames'[i] = frames[i]
<1>1. \A i \in DOMAIN frames : i # numPages
    BY DEF TypeOK
<1> QED BY <1>1

\* A further update writes to the frame of the version, or reads it into a frame first.
LEMMA UpdatedFrame ==
    ASSUME TypeOK, NEW p \in Pages, UpdatePageAgain(p),
           NEW i, i = version[p]
    PROVE  \E n \in Nat :
               /\ DOMAIN frames' = DOMAIN frames \cup {i}
               /\ frames'[i] = DataPage(transaction, n)
               /\ \A j \in DOMAIN frames : j # i => frames'[j] = frames[j]
               /\ i \in DOMAIN frames => n = frames[i].numUpdates + 1
<1>1. i \in Nat
    BY DEF UpdatePageAgain, TypeOK
<1> DEFINE page == IF i \in DOMAIN frames THEN frames[i] ELSE ReadPage(ZeroPage, i)
<1>2. page \in HeaderAndDataPages
  <2>1. CASE i \in DOMAIN frames
    BY <2>1 DEF TypeOK
  <2>2. CASE i \notin DOMAIN frames
    <3>1. i <= Len(file)
      BY <2>2 DEF UpdatePageAgain, CanRead
    <3> QED BY SMTT(30), <1>1, <2>2, <3>1, MadePages DEF TypeOK, ReadPage
  <2> QED BY <2>1, <2>2
<1>3. page.numUpdates \in Nat
    BY <1>2, PageFields
<1>4. frames' = [j \in DOMAIN frames \cup {i} |->
                    IF j = i THEN DataPage(transaction, page.numUpdates + 1) ELSE frames[j]]
    BY DEF UpdatePageAgain
<1>5. i \in DOMAIN frames => page.numUpdates = frames[i].numUpdates
    OBVIOUS
<1> HIDE DEF page
<1>6. page.numUpdates + 1 \in Nat
    BY <1>3
<1> QED BY <1>4, <1>5, <1>6

\* Logging keeps the types of what it changes.
LEMMA LoggingTypes ==
    ASSUME TypeOK, WholeInv, NEW r \in Records, NEW extra \in 0..1, AddNewWALRecord(r, extra)
    PROVE  /\ numPages' \in Nat /\ numPages' >= numPages + extra
           /\ currentHeaderPageIdx' \in Nat
           /\ offsetInCurrentHeaderPage' \in 0..InvalidOffset
           /\ file' \in Seq(HeaderAndDataPages)
           /\ \A k \in DOMAIN file' : IsWhole(file'[k])
<1> DEFINE next == numPages + extra
           written == [header EXCEPT !.next = next]
<1>1. /\ numPages \in Nat /\ currentHeaderPageIdx \in Nat /\ next \in Nat
      /\ header \in HeaderAndDataPages /\ IsWhole(header)
      /\ file \in Seq(HeaderAndDataPages) /\ \A k \in DOMAIN file : IsWhole(file[k])
    BY DEF TypeOK, WholeInv
<1>2. written \in HeaderAndDataPages /\ IsWhole(written)
    BY <1>1, PageFields DEF IsWhole
<1>3. offsetInCurrentHeaderPage' \in 0..InvalidOffset
  <2>1. header' \in HeaderAndDataPages /\ offsetInCurrentHeaderPage' = header'.numRecords
    BY LoggedRecord, Zenon
  <2>2. header'.numRecords \in 0..RecordsPerHeaderPage
    BY <2>1, PageFields
  <2> QED BY <2>1, <2>2, WALAssumption DEF InvalidOffset
<1>4. \/ file' = file /\ currentHeaderPageIdx' = currentHeaderPageIdx /\ numPages' = next
      \/ /\ file' = WritePage(file, currentHeaderPageIdx, written)
         /\ currentHeaderPageIdx' = next /\ numPages' = next + 1
    BY LoggedRecord, Zenon
<1> HIDE DEF next, written
<1>5. CASE file' = file /\ currentHeaderPageIdx' = currentHeaderPageIdx /\ numPages' = next
    BY <1>1, <1>3, <1>5 DEF next
<1>6. CASE /\ file' = WritePage(file, currentHeaderPageIdx, written)
           /\ currentHeaderPageIdx' = next /\ numPages' = next + 1
  <2>1. file' \in Seq(HeaderAndDataPages) /\ \A k \in DOMAIN file' : IsWhole(file'[k])
    BY <1>1, <1>2, <1>6, WrittenFile
  <2>2. numPages' \in Nat /\ numPages' >= numPages + extra /\ currentHeaderPageIdx' \in Nat
    BY <1>1, <1>6 DEF next
  <2> QED BY <1>3, <2>1, <2>2
<1> QED BY <1>4, <1>5, <1>6

\* No operation gives a variable a value outside its type, and every page knows the number
\* of its records.
LEMMA TypeStep ==
    ASSUME TypeOK, WholeInv, [Next]_vars
    PROVE  TypeOK' /\ WholeInv'
<1>a. /\ RecordsPerHeaderPage \in Nat /\ RecordsPerHeaderPage >= 1
      /\ InvalidOffset \in 0..InvalidOffset
      /\ \A n \in 0..RecordsPerHeaderPage : n \in 0..InvalidOffset
      /\ 0 \in 0..RecordsPerHeaderPage
    BY WALAssumption DEF InvalidOffset
<1>b. /\ ZeroPage \in HeaderAndDataPages /\ EmptyHeader \in HeaderAndDataPages
      /\ IsWhole(ZeroPage) /\ IsWhole(EmptyHeader)
      /\ ZeroPage.numRecords = 0 /\ EmptyHeader.numRecords = 0
    BY MadePages DEF IsWhole
<1>c. NoPage \in Nat \cup {NoPage}
    OBVIOUS
<1> DEFINE Logging(extra) ==
               /\ numPages' \in Nat /\ numPages' >= numPages + extra
               /\ currentHeaderPageIdx' \in Nat
               /\ offsetInCurrentHeaderPage' \in 0..InvalidOffset
               /\ offsetInCurrentHeaderPage' = header'.numRecords
               /\ file' \in Seq(HeaderAndDataPages)
               /\ \A k \in DOMAIN file' : IsWhole(file'[k])
               /\ header' \in HeaderAndDataPages /\ IsWhole(header')
               /\ isLastLoggedRecordCommit' \in BOOLEAN
               /\ log' \in Seq(Records) /\ chain' \in Seq(Positions)
<1>l. ASSUME NEW r \in Records, NEW extra \in 0..1, AddNewWALRecord(r, extra)
      PROVE  Logging(extra)
  <2>1. /\ header' \in HeaderAndDataPages /\ IsWhole(header')
        /\ offsetInCurrentHeaderPage' = header'.numRecords
        /\ isLastLoggedRecordCommit' \in BOOLEAN
        /\ log' \in Seq(Records) /\ chain' \in Seq(Positions)
    BY <1>l, LoggedRecord, Zenon
  <2>2. /\ numPages' \in Nat /\ numPages' >= numPages + extra
        /\ currentHeaderPageIdx' \in Nat
        /\ offsetInCurrentHeaderPage' \in 0..InvalidOffset
        /\ file' \in Seq(HeaderAndDataPages)
        /\ \A k \in DOMAIN file' : IsWhole(file'[k])
    BY <1>l, LoggingTypes, Zenon
  <2> QED BY <2>1, <2>2
<1> HIDE DEF Logging
<1>1. CASE BeginWriteTransaction
    BY <1>1 DEF BeginWriteTransaction, TypeOK, WholeInv, memory, replayer, logged, history, Phases
<1>2. ASSUME NEW p \in Pages, UpdatePage(p)
      PROVE  TypeOK' /\ WholeInv'
  <2> DEFINE r == PageRecord(p, numPages)
  <2>1. r \in Records /\ AddNewWALRecord(r, 1) /\ numPages \in Nat /\ numPages >= 1
    BY <1>2, MadeRecords DEF UpdatePage, TypeOK, WholeInv
  <2> HIDE DEF r
  <2>2. Logging(1)
    BY <2>1, <1>l
  <2>3. /\ DOMAIN frames' = DOMAIN frames \cup {numPages}
        /\ frames'[numPages] = DataPage(transaction, 1)
        /\ \A i \in DOMAIN frames : i # numPages /\ frames'[i] = frames[i]
    BY <1>2, NewFrame DEF UpdatePage
  <2>4. /\ DataPage(transaction, 1) \in HeaderAndDataPages
        /\ DataPage(transaction, 1).numRecords = 0 /\ DataPage(transaction, 1).records = <<>>
    <3>1. transaction \in Nat /\ 1 \in Nat
      BY DEF TypeOK
    <3> QED BY <3>1, MadePages
  <2>a. /\ numPages \in 1..(numPages' - 1) /\ numPages' >= 1
        /\ \A i \in 1..(numPages - 1) : i \in 1..(numPages' - 1)
    <3>1. numPages' \in Nat /\ numPages' >= numPages + 1
      BY <2>2 DEF Logging
    <3>2. numPages \in Nat /\ numPages >= 1
      BY <2>1
    <3>3. \A m, n \in Nat : n >= 1 /\ m >= n + 1 =>
              n \in 1..(m - 1) /\ m >= 1 /\ \A i \in 1..(n - 1) : i \in 1..(m - 1)
      OBVIOUS
    <3> QED BY <3>1, <3>2, <3>3
  <2>b. \A i \in DOMAIN frames : /\ i \in 1..(numPages - 1) /\ frames[i] \in HeaderAndDataPages
                                 /\ frames[i].numRecords = 0 /\ frames[i].records = <<>>
    BY DEF TypeOK, WholeInv
  <2>5. \A i \in DOMAIN frames' : /\ i \in 1..(numPages' - 1) /\ frames'[i] \in HeaderAndDataPages
                                  /\ frames'[i].numRecords = 0 /\ frames'[i].records = <<>>
    BY <2>3, <2>4, <2>a, <2>b, Zenon
  <2>6. version' \in [Pages -> (Nat \ {0}) \cup {NoPage}]
    BY <1>2, <2>1 DEF UpdatePage, TypeOK
  <2>7. UNCHANGED <<phase, replayer, original, unmarked, transaction, committed, durable, crashes,
                    torn>>
    BY <1>2 DEF UpdatePage
  <2>c. updates' \in [Pages -> Nat] /\ unmarked' \subseteq DOMAIN frames'
    BY <1>2, <2>3 DEF UpdatePage, TypeOK
  <2>8. TypeOK'
    BY <2>2, <2>5, <2>6, <2>7, <2>c DEF TypeOK, replayer, Logging
  <2>9. phase' # "down"
    BY <1>2, <2>7 DEF UpdatePage
  <2> QED BY <2>2, <2>5, <2>7, <2>8, <2>9, <2>a DEF WholeInv, replayer, Logging
<1>21. ASSUME NEW p \in Pages, UpdatePageAgain(p)
       PROVE  TypeOK' /\ WholeInv'
  <2> DEFINE i == version[p]
  <2>1. PICK n \in Nat : /\ DOMAIN frames' = DOMAIN frames \cup {i}
                         /\ frames'[i] = DataPage(transaction, n)
                         /\ \A j \in DOMAIN frames : j # i => frames'[j] = frames[j]
    BY <1>21, UpdatedFrame
  <2>2. /\ DataPage(transaction, n) \in HeaderAndDataPages
        /\ DataPage(transaction, n).numRecords = 0 /\ DataPage(transaction, n).records = <<>>
    BY SMTT(20), MadePages DEF TypeOK
  <2>3. i \in 1..(numPages - 1)
    <3>1. i \in Nat \ {0} /\ numPages \in Nat
      BY <1>21 DEF UpdatePageAgain, TypeOK
    <3>2. CASE i \in DOMAIN frames
      BY <3>2 DEF TypeOK
    <3>3. CASE i < numPages
      BY <3>1, <3>3
    <3> QED BY <1>21, <3>2, <3>3 DEF UpdatePageAgain
  <2>4. UNCHANGED <<phase, replayer, file, original, logged, numPages, header,
                    currentHeaderPageIdx, offsetInCurrentHeaderPage, isLastLoggedRecordCommit,
                    version, transaction, committed, durable, crashes, torn>>
    BY <1>21 DEF UpdatePageAgain
  <2>5. \A j \in DOMAIN frames' : /\ j \in 1..(numPages' - 1) /\ frames'[j] \in HeaderAndDataPages
                                  /\ frames'[j].numRecords = 0 /\ frames'[j].records = <<>>
    BY <2>1, <2>2, <2>3, <2>4 DEF TypeOK, WholeInv
  <2>6. updates' \in [Pages -> Nat] /\ unmarked' \subseteq DOMAIN frames'
    BY SMTT(30), <1>21, <2>1 DEF UpdatePageAgain, TypeOK
  <2> HIDE DEF i
  <2>8. TypeOK'
    BY <2>4, <2>5, <2>6 DEF TypeOK, replayer, logged
  <2>9. phase' # "down"
    BY <1>21, <2>4 DEF UpdatePageAgain
  <2> QED BY <2>4, <2>5, <2>8, <2>9 DEF WholeInv, replayer
<1>3. CASE LogAuxRecord \/ LogCommit
  <2>1. /\ numPages \in Nat /\ numPages >= 1 /\ Logging(0)
        /\ phase' \in Phases
        /\ UNCHANGED <<replayer, original, history, frames, unmarked, version>>
    BY <1>3, <1>l, MadeRecords DEF LogAuxRecord, LogCommit, TypeOK, WholeInv, Phases
  <2>5. \A i \in DOMAIN frames' : /\ i \in 1..(numPages' - 1) /\ frames'[i] \in HeaderAndDataPages
                                  /\ frames'[i].numRecords = 0 /\ frames'[i].records = <<>>
    BY SMTT(20), <2>1 DEF TypeOK, WholeInv, Logging
  <2>8. TypeOK'
    BY <2>1, <2>5 DEF TypeOK, replayer, history, Logging
  <2>9. numPages' >= 1
    BY <2>1 DEF Logging
  <2>7. UNCHANGED iterator
    BY <2>1 DEF replayer
  <2>a. /\ IsWhole(header') /\ (\A k \in DOMAIN file' : IsWhole(file'[k]))
        /\ offsetInCurrentHeaderPage' = header'.numRecords
    BY <2>1 DEF Logging
  <2>b. phase' # "down"
    BY <1>3 DEF LogAuxRecord, LogCommit
  <2> QED BY <2>5, <2>7, <2>8, <2>9, <2>a, <2>b DEF WholeInv
<1>4. ASSUME NEW i \in DOMAIN frames, EvictWALPage(i) \/ FlushDirtyPage(i)
      PROVE  TypeOK' /\ WholeInv'
  <2>1. /\ file' = file \/ file' = WritePage(file, i, frames[i])
        /\ frames' = Restrict(frames, DOMAIN frames \ {i})
        /\ unmarked' = unmarked \ {i}
        /\ UNCHANGED <<phase, replayer, original, logged, history, numPages, header,
                       currentHeaderPageIdx, offsetInCurrentHeaderPage,
                       isLastLoggedRecordCommit, version>>
    BY <1>4 DEF EvictWALPage, FlushDirtyPage, LeaveFrame
  <2>2. i \in Nat /\ frames[i] \in HeaderAndDataPages /\ IsWhole(frames[i])
    BY DEF TypeOK, WholeInv, IsWhole
  <2>3. file' \in Seq(HeaderAndDataPages) /\ \A k \in DOMAIN file' : IsWhole(file'[k])
    <3>1. CASE file' = file
      BY <3>1 DEF TypeOK, WholeInv
    <3>2. CASE file' = WritePage(file, i, frames[i])
      BY <2>2, <3>2, WrittenFile
    <3> QED BY <2>1, <3>1, <3>2
  <2>4. /\ DOMAIN frames' = DOMAIN frames \ {i}
        /\ \A j \in DOMAIN frames' : frames'[j] = frames[j]
    BY <2>1, WrittenFrame
  <2>5. \A j \in DOMAIN frames' : /\ j \in 1..(numPages' - 1) /\ frames'[j] \in HeaderAndDataPages
                                  /\ frames'[j].numRecords = 0 /\ frames'[j].records = <<>>
    BY <2>1, <2>4 DEF TypeOK, WholeInv
  <2>6. unmarked' \subseteq DOMAIN frames'
    BY <2>1, <2>4 DEF TypeOK
  <2>8. TypeOK'
    BY <2>1, <2>3, <2>5, <2>6 DEF TypeOK, replayer, logged, history
  <2>9. phase' # "down"
    BY <1>4 DEF EvictWALPage, FlushDirtyPage
  <2> QED BY <2>1, <2>3, <2>5, <2>8, <2>9 DEF WholeInv, replayer
<1>5. CASE FlushHeaderPages
  <2>1. /\ file' = WritePage(file, currentHeaderPageIdx, header) /\ committed' = Updated
        /\ durable' = durable \cup {transaction} /\ phase' = "flushing" /\ phase = "committing"
        /\ UNCHANGED <<memory, replayer, original, logged, transaction, updates, crashes, torn>>
    BY <1>5 DEF FlushHeaderPages
  <2>2. file' \in Seq(HeaderAndDataPages) /\ \A k \in DOMAIN file' : IsWhole(file'[k])
    BY <2>1, WrittenFile DEF TypeOK, WholeInv
  <2>3. committed' \in [Pages -> Nat \X Nat] /\ durable' \subseteq Nat
    BY <2>1 DEF Updated, TypeOK
  <2>4. TypeOK'
    BY <2>1, <2>2, <2>3 DEF TypeOK, replayer, logged, memory, Phases
  <2> QED BY <2>1, <2>2, <2>4 DEF WholeInv, replayer, memory
<1>6. ASSUME NEW recovering \in BOOLEAN, NEW checkpoint \in BOOLEAN,
             StartReplay(recovering, checkpoint), phase # "down",
             UNCHANGED <<memory, original, logged, history>>
      PROVE  TypeOK' /\ WholeInv'
  <2>1. file' \in Seq(HeaderAndDataPages) /\ \A k \in DOMAIN file' : IsWhole(file'[k])
    <3>1. CASE IsEmptyWAL
      BY <1>6, <3>1 DEF StartReplay, TypeOK, WholeInv
    <3>2. CASE ~IsEmptyWAL
      <4>1. file' = WritePage(file, currentHeaderPageIdx, header)
        BY <1>6, <3>2 DEF StartReplay
      <4> QED BY <4>1, WrittenFile DEF TypeOK, WholeInv
    <3> QED BY <3>1, <3>2
  <2> DEFINE h == IF file' = <<>> THEN EmptyHeader ELSE file'[1]
  <2>2. h \in HeaderAndDataPages /\ IsWhole(h)
    BY <1>b, <2>1
  <2>3. iterator' = [header |-> h, numRead |-> 0]
    BY <1>6 DEF StartReplay
  <2> HIDE DEF h
  <2>4. /\ iterator' \in [header : HeaderAndDataPages, numRead : 0..RecordsPerHeaderPage]
        /\ IsWhole(iterator'.header)
    BY <1>a, <2>2, <2>3
  <2>5. /\ pageBuffer' \in HeaderAndDataPages /\ isRecovering' \in BOOLEAN
        /\ isCheckpoint' \in BOOLEAN /\ replayed' \in Seq(Records) /\ phase' \in Phases
    BY <1>6, <1>b DEF StartReplay, Phases
  <2>6. TypeOK'
    BY <1>6, <2>1, <2>4, <2>5 DEF TypeOK, memory, logged, history
  <2>7. phase' # "down"
    BY <1>6 DEF StartReplay
  <2> QED BY <1>6, <2>1, <2>4, <2>6, <2>7 DEF WholeInv, memory
<1>7. CASE StartCheckpoint
    BY <1>6, <1>7 DEF StartCheckpoint
<1>8. CASE StartRollback
    BY <1>6, <1>8 DEF StartRollback
<1>9. CASE RecoverCommitted
    BY <1>6, <1>9 DEF RecoverCommitted
<1>10. CASE ReplayRecord
  <2>1. /\ GetNextRecord /\ replayed' = Append(replayed, NextRecord)
        /\ UNCHANGED <<phase, isRecovering, isCheckpoint, file, logged, history, numPages, header,
                       currentHeaderPageIdx, offsetInCurrentHeaderPage,
                       isLastLoggedRecordCommit, frames, unmarked>>
    BY <1>10 DEF ReplayRecord
  <2>2. /\ NextRecord \in Records /\ IsWhole(iterator'.header)
        /\ iterator' \in [header : HeaderAndDataPages, numRead : 0..RecordsPerHeaderPage]
    BY <2>1, NextOfIterator
  <2>3. replayed' \in Seq(Records)
    BY <2>1, <2>2 DEF TypeOK
  <2>4. /\ pageBuffer' \in HeaderAndDataPages /\ original' \in [Pages -> Nat \X Nat]
        /\ version' \in [Pages -> (Nat \ {0}) \cup {NoPage}]
    <3> DEFINE i == NextRecord.pageIdxInWAL
               p == NextRecord.page
    <3>1. CASE NextRecord.type # "PAGE"
      BY <1>10, <3>1 DEF ReplayRecord, TypeOK
    <3>2. CASE NextRecord.type = "PAGE"
      <4>1. p \in Pages /\ i \in Nat
        BY <2>2, <3>2, MadeRecords
      <4>2. /\ pageBuffer' = IF isCheckpoint THEN ReadPage(pageBuffer, i) ELSE pageBuffer
            /\ original' = IF isCheckpoint THEN [original EXCEPT ![p] = Contents(pageBuffer')]
                                           ELSE original
            /\ version' = IF isRecovering THEN version ELSE [version EXCEPT ![p] = NoPage]
        BY <1>10, <3>2 DEF ReplayRecord
      <4>3. isCheckpoint => i <= Len(file)
        BY <1>10, <2>1, <3>2 DEF ReplayRecord, ReplayRecordThrows, GetNextRecord, CanRead
      <4> HIDE DEF i, p
      <4>4. pageBuffer' \in HeaderAndDataPages
        BY <4>1, <4>2, <4>3 DEF TypeOK, ReadPage
      <4>5. Contents(pageBuffer') \in Nat \X Nat
        BY <4>4, PageFields
      <4>6. original' \in [Pages -> Nat \X Nat]
        BY <4>1, <4>2, <4>5 DEF TypeOK
      <4>7. version' \in [Pages -> (Nat \ {0}) \cup {NoPage}]
        BY <4>1, <4>2 DEF TypeOK
      <4> QED BY <4>4, <4>6, <4>7
    <3> QED BY <3>1, <3>2
  <2>5. TypeOK'
    BY <2>1, <2>2, <2>3, <2>4 DEF TypeOK, logged, history
  <2> QED BY <2>1, <2>2, <2>5 DEF WholeInv
<1>11. ASSUME ClearWAL, UNCHANGED <<replayer, original, history>>
       PROVE  TypeOK' /\ WholeInv'
  <2>1. /\ file' \in Seq(HeaderAndDataPages) /\ DOMAIN file' = {} /\ DOMAIN frames' = {}
        /\ log' \in Seq(Records)
    BY <1>11 DEF ClearWAL
  <2>2. chain' \in Seq(Positions)
    BY <1>11 DEF ClearWAL, FirstHeader, Positions
  <2>3. TypeOK'
    BY <1>11, <1>a, <1>b, <2>1, <2>2 DEF ClearWAL, TypeOK, Phases, replayer, history
  <2> QED BY <1>11, <1>b, <2>1, <2>3 DEF ClearWAL, WholeInv, replayer
<1>12. CASE FinishReplay \/ OpenEmpty \/ RecoverUncommitted
    BY <1>11, <1>12 DEF FinishReplay, OpenEmpty, RecoverUncommitted
<1>13. ASSUME LoseMemory, file' \in Seq(HeaderAndDataPages), \A k \in DOMAIN file' : IsWhole(file'[k]),
              crashes' \in Nat, torn' \in BOOLEAN,
              UNCHANGED <<original, logged, transaction, updates, committed, durable>>
       PROVE  TypeOK' /\ WholeInv'
  <2>1. /\ DOMAIN frames' = {} /\ replayed' \in Seq(Records)
        /\ version' \in [Pages -> (Nat \ {0}) \cup {NoPage}]
    BY <1>13 DEF LoseMemory
  <2>2. iterator' \in [header : HeaderAndDataPages, numRead : 0..RecordsPerHeaderPage]
        /\ IsWhole(iterator'.header)
    BY <1>13, <1>a, <1>b DEF LoseMemory
  <2>3. TypeOK'
    BY <1>13, <1>a, <1>b, <2>1, <2>2 DEF LoseMemory, TypeOK, Phases, logged
  <2> QED BY <1>13, <1>b, <2>1, <2>2, <2>3 DEF LoseMemory, WholeInv
<1>14. CASE Crash
    BY SMTT(20), <1>13, <1>14 DEF Crash, TypeOK, WholeInv
<1>15. CASE Shutdown
  <2>1. file' \in Seq(HeaderAndDataPages) /\ \A k \in DOMAIN file' : IsWhole(file'[k])
    <3>1. CASE IsEmptyWAL
      BY <1>15, <3>1 DEF Shutdown, TypeOK, WholeInv
    <3>2. CASE ~IsEmptyWAL
      <4>1. file' = WritePage(file, currentHeaderPageIdx, header)
        BY <1>15, <3>2 DEF Shutdown
      <4> QED BY <4>1, WrittenFile DEF TypeOK, WholeInv
    <3> QED BY <3>1, <3>2
  <2> QED BY SMTT(40), <1>13, <1>15, <2>1 DEF Shutdown, TypeOK
<1>16. CASE OpenThrows
    BY <1>13, <1>16 DEF OpenThrows, TypeOK, WholeInv, history
<1>17. CASE OpenExisting
  <2>a. file \in Seq(HeaderAndDataPages) /\ file # <<>>
    BY <1>17 DEF OpenExisting, TypeOK
  <2>b. Len(file) \in Nat /\ Len(file) >= 1 /\ 1 \in DOMAIN file
    BY <2>a
  <2>1. /\ file[1] \in HeaderAndDataPages /\ IsWhole(file[1]) /\ Len(file) \in Nat
        /\ Len(file) >= 1
    BY <2>a, <2>b DEF WholeInv
  <2>2. /\ iterator' \in [header : HeaderAndDataPages, numRead : 0..RecordsPerHeaderPage]
        /\ IsWhole(iterator'.header)
    BY <1>17, <1>a, <2>1 DEF OpenExisting
  <2>c. DOMAIN frames' = {}
    BY <1>17 DEF OpenExisting, WholeInv
  <2>3. TypeOK'
    BY <1>17, <1>a, <2>1, <2>2, <2>c DEF OpenExisting, TypeOK, Phases, logged, history
  <2> QED BY <1>17, <2>1, <2>2, <2>3 DEF OpenExisting, WholeInv
<1>18. CASE ScanRecord
  <2>1. /\ IsWhole(iterator'.header)
        /\ iterator' \in [header : HeaderAndDataPages, numRead : 0..RecordsPerHeaderPage]
    BY <1>18, NextOfIterator DEF ScanRecord
  <2>2. TypeOK'
    BY <1>18, <2>1 DEF ScanRecord, TypeOK, logged, history
  <2> QED BY <1>18, <2>1, <2>2 DEF ScanRecord, WholeInv
<1>19. CASE RecoverEmpty
  <2>1. chain' \in Seq(Positions) /\ log' \in Seq(Records) /\ phase' \in Phases
    BY <1>19 DEF RecoverEmpty, FirstHeader, Phases, Positions
  <2>2. TypeOK'
    BY <1>19, <2>1 DEF RecoverEmpty, TypeOK, memory, replayer, history
  <2> QED BY <1>19, <2>2 DEF RecoverEmpty, WholeInv, memory, replayer
<1>20. CASE UNCHANGED vars
    BY <1>20 DEF vars, TypeOK, WholeInv, memory, replayer, logged, history
<1> QED BY <1>1, <1>2, <1>3, <1>4, <1>5, <1>7, <1>8, <1>9, <1>10, <1>12, <1>14, <1>15, <1>16,
           <1>17, <1>18, <1>19, <1>20, <1>21
        DEF Next, Transaction, Commit, Replay, Open

-----------------------------------------------------------------------------
(* Uncommitted updates                                                      *)

\* What a write of a page keeps: the values of the pages, the absence of a commit record, and
\* a page 0 without records.
LEMMA WriteKeeps ==
    ASSUME TypeOK, WholeInv, NEW i \in Nat, NEW c \in HeaderAndDataPages, IsWhole(c),
           file' = WritePage(file, i, c)
    PROVE  /\ (\A k \in DOMAIN file : file[k].data \in {0, transaction})
                  /\ c.data \in {0, transaction}
              => \A k \in DOMAIN file' : file'[k].data \in {0, transaction}
           /\ (\A k \in DOMAIN file : ~HasCommit(file[k])) /\ ~HasCommit(c)
              => \A k \in DOMAIN file' : ~HasCommit(file'[k])
           /\ file # <<>> /\ file[1].numRecords = 0 /\ (i = 0 => c.numRecords = 0)
              => file' # <<>> /\ file'[1].numRecords = 0
<1>1. ZeroPage.data = 0 /\ ~HasCommit(ZeroPage) /\ file \in Seq(HeaderAndDataPages)
    BY MadePages DEF HasCommit, TypeOK
<1>2. /\ file' \in Seq(HeaderAndDataPages) /\ file' # <<>>
      /\ i < Len(file') /\ Len(file) <= Len(file') /\ file'[i + 1] = c
      /\ \A k \in DOMAIN file : k # i + 1 => file'[k] = file[k]
      /\ \A k \in DOMAIN file' : \/ k = i + 1
                                 \/ k \in DOMAIN file /\ file'[k] = file[k]
                                 \/ file'[k] = ZeroPage
    BY WrittenFile
<1>3. ASSUME \A k \in DOMAIN file : file[k].data \in {0, transaction}, c.data \in {0, transaction},
             NEW k \in DOMAIN file'
      PROVE  file'[k].data \in {0, transaction}
    BY <1>1, <1>2, <1>3
<1>4. ASSUME \A k \in DOMAIN file : ~HasCommit(file[k]), ~HasCommit(c), NEW k \in DOMAIN file'
      PROVE  ~HasCommit(file'[k])
    BY <1>1, <1>2, <1>4
<1>5. ASSUME file # <<>>, file[1].numRecords = 0, i = 0 => c.numRecords = 0
      PROVE  file' # <<>> /\ file'[1].numRecords = 0
  <2>1. 1 \in DOMAIN file
    BY <1>1, <1>5
  <2>2. CASE i = 0
    BY <1>2, <1>5, <2>2
  <2>3. CASE i # 0
    BY <1>2, <1>5, <2>1, <2>3
  <2> QED BY <2>2, <2>3
<1> QED BY <1>3, <1>4, <1>5

\* The header page after a record was logged, and the page written when it was full.
LEMMA LoggingKeeps ==
    ASSUME TypeOK, WholeInv, numPages >= 1,
           NEW r \in Records, NEW extra \in 0..1, AddNewWALRecord(r, extra)
    PROVE  /\ header'.data \in {0, header.data}
           /\ HasCommit(header') => r = CommitRecord \/ HasCommit(header)
           /\ (\A k \in DOMAIN file : file[k].data \in {0, transaction})
                  /\ header.data \in {0, transaction}
              => \A k \in DOMAIN file' : file'[k].data \in {0, transaction}
           /\ (\A k \in DOMAIN file : ~HasCommit(file[k])) /\ ~HasCommit(header)
              => \A k \in DOMAIN file' : ~HasCommit(file'[k])
           /\ file # <<>> /\ file[1].numRecords = 0
                  /\ (currentHeaderPageIdx = 0 =>
                         header.numRecords = 0 /\ offsetInCurrentHeaderPage = InvalidOffset)
              => file' # <<>> /\ file'[1].numRecords = 0 /\ currentHeaderPageIdx' # 0
<1> DEFINE written == [header EXCEPT !.next = numPages + extra]
<1>1. /\ header' \in HeaderAndDataPages /\ Len(header'.records) = header'.numRecords
      /\ header' .records \in Seq(Records)
      /\ header \in HeaderAndDataPages /\ Len(header.records) = header.numRecords
      /\ header.records \in Seq(Records) /\ header.numRecords \in Nat
  <2>1. header' \in HeaderAndDataPages /\ IsWhole(header')
    BY LoggedRecord, Zenon
  <2>2. header'.records \in Seq(Records)
    BY <2>1, PageFields
  <2>3. /\ header \in HeaderAndDataPages /\ IsWhole(header) /\ header.records \in Seq(Records)
        /\ header.numRecords \in 0..RecordsPerHeaderPage
    <3>1. header \in HeaderAndDataPages /\ IsWhole(header)
      BY DEF TypeOK, WholeInv
    <3> QED BY <3>1, PageFields
  <2> QED BY <2>1, <2>2, <2>3, WALAssumption DEF IsWhole
<1>2. /\ numPages + extra \in Nat /\ numPages + extra # 0 /\ currentHeaderPageIdx \in Nat
      /\ RecordsPerHeaderPage \in Nat
    BY WALAssumption DEF TypeOK
<1>3. /\ written \in HeaderAndDataPages /\ IsWhole(written) /\ written.data = header.data
      /\ (HasCommit(written) <=> HasCommit(header)) /\ written.numRecords = header.numRecords
    BY <1>1, <1>2, PageFields DEF IsWhole, HasCommit
<1>4. CASE /\ offsetInCurrentHeaderPage = header.numRecords
           /\ offsetInCurrentHeaderPage < RecordsPerHeaderPage
           /\ UNCHANGED <<file, currentHeaderPageIdx, chain>>
           /\ numPages' = numPages + extra
           /\ header'.numRecords = header.numRecords + 1
           /\ header'.next = header.next /\ header'.data = header.data
           /\ \A j \in 1..header.numRecords : header'.records[j] = header.records[j]
           /\ header'.records[header.numRecords + 1] = r
  <2>1. HasCommit(header') => r = CommitRecord \/ HasCommit(header)
    <3>1. SUFFICES ASSUME NEW j \in DOMAIN header'.records, header'.records[j] = CommitRecord
                   PROVE  r = CommitRecord \/ HasCommit(header)
      BY DEF HasCommit
    <3>2. j \in 1..header.numRecords \/ j = header.numRecords + 1
      BY <1>1, <1>4
    <3>3. CASE j \in 1..header.numRecords
      <4>1. j \in DOMAIN header.records
        BY <1>1, <3>3
      <4>2. header.records[j] = CommitRecord
        BY <1>4, <3>1, <3>3
      <4> QED BY <4>1, <4>2 DEF HasCommit
    <3>4. CASE j = header.numRecords + 1
      BY <1>4, <3>1, <3>4
    <3> QED BY <3>2, <3>3, <3>4
  <2>2. currentHeaderPageIdx = 0 => offsetInCurrentHeaderPage # InvalidOffset
    BY <1>1, <1>2, <1>4 DEF InvalidOffset
  <2> QED BY <1>4, <2>1, <2>2
<1>5. CASE /\ file' = WritePage(file, currentHeaderPageIdx, written)
           /\ currentHeaderPageIdx' = numPages + extra
           /\ header'.numRecords = 1 /\ header'.next = NoPage /\ header'.data = 0
           /\ header'.records[1] = r
  <2> HIDE DEF written
  <2>1. HasCommit(header') => r = CommitRecord
    BY <1>1, <1>5 DEF HasCommit
  <2>2. /\ (\A k \in DOMAIN file : file[k].data \in {0, transaction})
               /\ written.data \in {0, transaction}
           => \A k \in DOMAIN file' : file'[k].data \in {0, transaction}
        /\ (\A k \in DOMAIN file : ~HasCommit(file[k])) /\ ~HasCommit(written)
           => \A k \in DOMAIN file' : ~HasCommit(file'[k])
        /\ file # <<>> /\ file[1].numRecords = 0
               /\ (currentHeaderPageIdx = 0 => written.numRecords = 0)
           => file' # <<>> /\ file'[1].numRecords = 0
    BY <1>2, <1>3, <1>5, WriteKeeps
  <2> QED BY <1>2, <1>3, <1>5, <2>1, <2>2
<1> QED BY <1>4, <1>5, LoggedRecord, Zenon

\* The clauses on the phases: they follow from the guards.
LEMMA DurableStep ==
    ASSUME TypeOK, UncommittedInv, [Next]_vars
    PROVE  /\ durable' \subseteq 0..transaction'
           /\ phase' \in {"active", "committing"} => transaction' \notin durable'
           /\ phase' = "flushing" => transaction' \in durable'
           /\ phase' = "scanning" =>
                 /\ file' # <<>> /\ header' = file'[1] /\ currentHeaderPageIdx' = 0
                 /\ offsetInCurrentHeaderPage' = InvalidOffset
<1> DEFINE Kept == /\ durable' \subseteq 0..transaction'
                   /\ phase' \in {"active", "committing"} => transaction' \notin durable'
                   /\ phase' = "flushing" => transaction' \in durable'
                   /\ phase' # "scanning"
<1> USE DEF TypeOK, UncommittedInv
<1>1. CASE Transaction
  <2>1. CASE BeginWriteTransaction
    BY <2>1 DEF BeginWriteTransaction, memory
  <2>2. ASSUME NEW p \in Pages, UpdatePage(p)
        PROVE  Kept
    BY <2>2 DEF UpdatePage
  <2>6. ASSUME NEW p \in Pages, UpdatePageAgain(p)
        PROVE  Kept
    BY <2>6 DEF UpdatePageAgain
  <2>3. CASE LogAuxRecord
    BY <2>3 DEF LogAuxRecord, history
  <2>4. CASE LogCommit
    BY <2>4 DEF LogCommit, history
  <2>5. CASE StartRollback
    BY <2>5 DEF StartRollback, StartReplay, history
  <2> HIDE DEF TypeOK, UncommittedInv
  <2> QED BY <1>1, <2>1, <2>2, <2>3, <2>4, <2>5, <2>6 DEF Transaction
<1>2. ASSUME NEW i \in DOMAIN frames, EvictWALPage(i) \/ FlushDirtyPage(i)
      PROVE  Kept
    BY <1>2 DEF EvictWALPage, FlushDirtyPage, history
<1>3. CASE FlushHeaderPages
    BY <1>3 DEF FlushHeaderPages
<1>4. CASE StartCheckpoint
    BY <1>4 DEF StartCheckpoint, StartReplay, history
<1>5. CASE Replay
    BY <1>5 DEF Replay, ReplayRecord, FinishReplay, ClearWAL, history
<1>6. CASE Open
  <2>1. CASE OpenEmpty
    BY <2>1 DEF OpenEmpty, ClearWAL, history
  <2>2. CASE OpenExisting
    BY <2>2 DEF OpenExisting, history
  <2>3. CASE ScanRecord
    BY <2>3 DEF ScanRecord, history
  <2>4. CASE RecoverEmpty
    BY <2>4 DEF RecoverEmpty, history
  <2>5. CASE RecoverCommitted
    BY <2>5 DEF RecoverCommitted, StartReplay, history
  <2>6. CASE RecoverUncommitted
    BY <2>6 DEF RecoverUncommitted, ClearWAL, history
  <2>7. CASE OpenThrows
    BY <2>7 DEF OpenThrows, LoseMemory, history
  <2> QED BY <1>6, <2>1, <2>2, <2>3, <2>4, <2>5, <2>6, <2>7 DEF Open
<1>7. CASE Shutdown \/ Crash
    BY <1>7 DEF Shutdown, Crash, LoseMemory
<1>8. CASE UNCHANGED vars
    BY <1>8 DEF vars, memory, history
<1> HIDE DEF TypeOK, UncommittedInv
<1> QED BY <1>1, <1>2, <1>3, <1>4, <1>5, <1>6, <1>7, <1>8 DEF Next, Commit

\* A page that is replayed is a page of the WAL.
LEMMA ReplayedPage ==
    ASSUME TypeOK, WholeInv, OneTransaction, ReplayRecord
    PROVE  pageBuffer'.data \in {0, transaction}
<1>1. pageBuffer.data \in {0, transaction} /\ file \in Seq(HeaderAndDataPages)
    BY DEF OneTransaction, ReplayRecord, TypeOK
<1>2. CASE pageBuffer' = pageBuffer
    BY <1>1, <1>2
<1>3. CASE isCheckpoint /\ NextRecord.type = "PAGE"
  <2>1. /\ pageBuffer' = ReadPage(pageBuffer, NextRecord.pageIdxInWAL)
        /\ NextRecord.pageIdxInWAL <= Len(file) /\ GetNextRecord
    BY <1>3 DEF ReplayRecord, ReplayRecordThrows, GetNextRecord, CanRead
  <2>2. NextRecord.pageIdxInWAL \in Nat
    BY <1>3, <2>1, NextOfIterator, MadeRecords
  <2>3. \A k \in 1..Len(file) : file[k].data \in {0, transaction}
    BY <1>1 DEF OneTransaction
  <2> QED BY <1>1, <2>1, <2>2, <2>3 DEF ReadPage
<1> QED BY <1>2, <1>3 DEF ReplayRecord

\* The pages hold what one transaction wrote, or the WAL has a page 0 without records.
LEMMA TransactionStep ==
    ASSUME TypeOK, WholeInv, TypeOK', WholeInv', UncommittedInv, [Next]_vars
    PROVE  (OneTransaction \/ IsDead)'
<1>a. /\ ZeroPage.data = 0 /\ EmptyHeader.data = 0 /\ ZeroPage.numRecords = 0
      /\ EmptyHeader.numRecords = 0 /\ ~HasCommit(ZeroPage) /\ ~HasCommit(EmptyHeader)
    BY MadePages DEF HasCommit
<1>b. /\ transaction \in Nat /\ file \in Seq(HeaderAndDataPages) /\ currentHeaderPageIdx \in Nat
      /\ header \in HeaderAndDataPages /\ IsWhole(header)
      /\ file' \in Seq(HeaderAndDataPages)
    BY DEF TypeOK, WholeInv
<1>1. CASE BeginWriteTransaction
  <2>1. CASE OneTransaction
    <3>1. /\ file = <<>> /\ frames = <<>> /\ header = EmptyHeader /\ phase' = "active"
          /\ UNCHANGED <<file, frames, header>> /\ transaction' \notin durable'
      BY <1>1, <2>1 DEF BeginWriteTransaction, OneTransaction, memory, UncommittedInv, TypeOK
    <3> QED BY <1>a, <3>1 DEF OneTransaction
  <2>2. CASE IsDead
    BY <1>1, <2>2 DEF BeginWriteTransaction, IsDead, memory, Working, replayer
  <2> QED BY <2>1, <2>2 DEF UncommittedInv
<1>2. ASSUME NEW r \in Records, NEW extra \in 0..1, AddNewWALRecord(r, extra), phase = "active",
             phase' = IF r = CommitRecord THEN "committing" ELSE "active",
             \A i \in DOMAIN frames' : \/ frames'[i].data = transaction
                                       \/ i \in DOMAIN frames /\ frames'[i] = frames[i],
             UNCHANGED <<transaction, durable>>
      PROVE  (OneTransaction \/ IsDead)'
  <2>0. numPages >= 1
    BY <1>2 DEF WholeInv
  <2>1. CASE OneTransaction
    <3>1. /\ header.data \in {0, transaction} /\ transaction \notin durable /\ ~HasCommit(header)
          /\ \A k \in DOMAIN file : file[k].data \in {0, transaction}
          /\ \A k \in DOMAIN file : ~HasCommit(file[k])
      BY <1>2, <2>1 DEF OneTransaction, UncommittedInv
    <3>2. \A k \in DOMAIN file' : file'[k].data \in {0, transaction}
      BY <1>2, <2>0, <3>1, LoggingKeeps
    <3>3. \A k \in DOMAIN file' : ~HasCommit(file'[k])
      BY <1>2, <2>0, <3>1, LoggingKeeps
    <3>4. header'.data \in {0, transaction} /\ (HasCommit(header') => r = CommitRecord)
      BY <1>2, <2>0, <3>1, LoggingKeeps
    <3>5. \A i \in DOMAIN frames' : frames'[i].data = transaction
      BY <1>2, <2>1 DEF OneTransaction
    <3> QED BY <1>2, <3>2, <3>3, <3>4, <3>5 DEF OneTransaction
  <2>2. CASE IsDead
    <3>1. /\ file # <<>> /\ file[1].numRecords = 0
          /\ currentHeaderPageIdx = 0 =>
                header.numRecords = 0 /\ offsetInCurrentHeaderPage = InvalidOffset
      BY <1>2, <2>2 DEF IsDead, Working
    <3>2. file' # <<>> /\ file'[1].numRecords = 0 /\ currentHeaderPageIdx' # 0
      BY <1>2, <2>0, <3>1, LoggingKeeps
    <3> QED BY <1>2, <3>2 DEF IsDead
  <2> QED BY <2>1, <2>2 DEF UncommittedInv
<1>3. ASSUME NEW p \in Pages, UpdatePage(p)
      PROVE  (OneTransaction \/ IsDead)'
  <2>0. numPages \in Nat
    BY DEF TypeOK
  <2>1. PageRecord(p, numPages) \in Records /\ PageRecord(p, numPages) # CommitRecord
    <3>1. PageRecord(p, numPages).type = "PAGE" /\ CommitRecord.type = "COMMIT"
      BY <2>0, MadeRecords
    <3> QED BY <2>0, <3>1, MadeRecords
  <2>2. /\ AddNewWALRecord(PageRecord(p, numPages), 1) /\ phase = "active" /\ phase' = "active"
        /\ UNCHANGED <<transaction, durable>>
    BY <1>3 DEF UpdatePage
  <2>3. /\ DOMAIN frames' = DOMAIN frames \cup {numPages}
        /\ frames'[numPages] = DataPage(transaction, 1)
        /\ \A i \in DOMAIN frames : i # numPages /\ frames'[i] = frames[i]
    BY <1>3, NewFrame DEF UpdatePage
  <2>4. DataPage(transaction, 1).data = transaction
    <3>1. 1 \in Nat
      OBVIOUS
    <3> QED BY <1>b, <3>1, MadePages
  <2>5. \A i \in DOMAIN frames' : \/ frames'[i].data = transaction
                                  \/ i \in DOMAIN frames /\ frames'[i] = frames[i]
    BY <2>3, <2>4, Zenon
  <2> QED BY <1>2, <2>1, <2>2, <2>5
<1>16. ASSUME NEW p \in Pages, UpdatePageAgain(p)
       PROVE  (OneTransaction \/ IsDead)'
  <2>1. PICK n \in Nat : /\ DOMAIN frames' = DOMAIN frames \cup {version[p]}
                         /\ frames'[version[p]] = DataPage(transaction, n)
                         /\ \A j \in DOMAIN frames : j # version[p] => frames'[j] = frames[j]
    BY <1>16, UpdatedFrame
  <2>2. DataPage(transaction, n).data = transaction
    BY <1>b, MadePages
  <2>3. /\ phase = "active" /\ header' = header
        /\ UNCHANGED <<phase, iterator, pageBuffer, isCheckpoint, transaction, durable, file,
                       currentHeaderPageIdx, offsetInCurrentHeaderPage,
                       isLastLoggedRecordCommit>>
    BY <1>16 DEF UpdatePageAgain, replayer
  <2>4. CASE OneTransaction
    <3>1. \A j \in DOMAIN frames' : frames'[j].data = transaction
      BY <2>1, <2>2, <2>4 DEF OneTransaction
    <3> QED BY <2>3, <2>4, <3>1 DEF OneTransaction
  <2>5. CASE IsDead
    BY <2>3, <2>5 DEF IsDead
  <2> QED BY <2>4, <2>5 DEF UncommittedInv
<1>4. CASE LogAuxRecord
  <2>1. AuxRecord \in Records /\ AuxRecord # CommitRecord
    BY MadeRecords
  <2> QED BY <1>2, <1>4, <2>1 DEF LogAuxRecord, history
<1>5. CASE LogCommit
  <2>1. CommitRecord \in Records
    BY MadeRecords
  <2> QED BY <1>2, <1>5, <2>1 DEF LogCommit, history
<1>6. ASSUME NEW i \in DOMAIN frames, EvictWALPage(i) \/ FlushDirtyPage(i)
      PROVE  (OneTransaction \/ IsDead)'
  <2>1. /\ file' = file \/ file' = WritePage(file, i, frames[i])
        /\ phase \in Working
        /\ frames' = Restrict(frames, DOMAIN frames \ {i})
        /\ UNCHANGED <<phase, iterator, pageBuffer, isCheckpoint, transaction, durable, header,
                       currentHeaderPageIdx, offsetInCurrentHeaderPage,
                       isLastLoggedRecordCommit>>
    BY <1>6 DEF EvictWALPage, FlushDirtyPage, LeaveFrame, replayer, history, Working
  <2>a. /\ i \in 1..(numPages - 1) /\ frames[i] \in HeaderAndDataPages /\ numPages \in Nat
        /\ frames[i].numRecords = 0 /\ frames[i].records = <<>>
    BY DEF TypeOK, WholeInv
  <2>2. /\ i \in Nat /\ i # 0 /\ frames[i] \in HeaderAndDataPages /\ IsWhole(frames[i])
        /\ ~HasCommit(frames[i])
    BY <2>a DEF IsWhole, HasCommit
  <2>3. /\ DOMAIN frames' = DOMAIN frames \ {i}
        /\ \A j \in DOMAIN frames' : frames'[j] = frames[j]
    BY <2>1, WrittenFrame
  <2>4. CASE OneTransaction
    <3>a. CASE file' = file
      BY <2>1, <2>3, <2>4, <3>a DEF OneTransaction, Working
    <3>b. CASE file' = WritePage(file, i, frames[i])
      <4>1. \A k \in DOMAIN file' : file'[k].data \in {0, transaction}
        BY <2>2, <2>4, <3>b, WriteKeeps DEF OneTransaction
      <4>2. transaction \notin durable => \A k \in DOMAIN file' : ~HasCommit(file'[k])
        BY <2>2, <2>4, <3>b, WriteKeeps DEF OneTransaction
      <4> QED BY <2>1, <2>3, <2>4, <4>1, <4>2 DEF OneTransaction, Working
    <3> QED BY <2>1, <3>a, <3>b
  <2>5. CASE IsDead
    <3>1. file' # <<>> /\ file'[1].numRecords = 0
      <4>1. CASE file' = file
        BY <2>5, <4>1 DEF IsDead
      <4>2. CASE file' = WritePage(file, i, frames[i])
        BY <2>2, <2>5, <4>2, WriteKeeps DEF IsDead
      <4> QED BY <2>1, <4>1, <4>2
    <3> QED BY <2>1, <2>5, <3>1 DEF IsDead
  <2> QED BY <2>4, <2>5 DEF UncommittedInv
<1>7. CASE FlushHeaderPages
  <2>1. /\ file' = WritePage(file, currentHeaderPageIdx, header) /\ phase = "committing"
        /\ phase' = "flushing" /\ transaction' = transaction /\ transaction' \in durable'
        /\ UNCHANGED <<frames, iterator, header, currentHeaderPageIdx, offsetInCurrentHeaderPage>>
    BY <1>7 DEF FlushHeaderPages, memory, replayer
  <2>2. CASE OneTransaction
    <3>1. \A k \in DOMAIN file' : file'[k].data \in {0, transaction}
      BY <1>b, <2>1, <2>2, WriteKeeps DEF OneTransaction
    <3> QED BY <2>1, <2>2, <3>1 DEF OneTransaction
  <2>3. CASE IsDead
    <3>1. file' # <<>> /\ file'[1].numRecords = 0
      BY <1>b, <2>1, <2>3, WriteKeeps DEF IsDead, Working
    <3> QED BY <2>1, <2>3, <3>1 DEF IsDead, Working
  <2> QED BY <2>2, <2>3 DEF UncommittedInv
<1>8. CASE StartCheckpoint \/ StartRollback \/ RecoverCommitted
  <2>1. /\ file' = IF IsEmptyWAL THEN file ELSE WritePage(file, currentHeaderPageIdx, header)
        /\ iterator'.header = (IF file' = <<>> THEN EmptyHeader ELSE file'[1])
        /\ pageBuffer' = ZeroPage /\ phase' = "replaying"
        /\ UNCHANGED <<transaction, durable, header, frames>>
    BY <1>8 DEF StartCheckpoint, StartRollback, RecoverCommitted, StartReplay, memory, history
  <2>2. phase \in Working \/ (phase = "scanning" /\ ~IsEmptyWAL)
    BY <1>8 DEF StartCheckpoint, StartRollback, RecoverCommitted, Working
  <2>3. CASE OneTransaction
    <3>1. \A k \in DOMAIN file' : file'[k].data \in {0, transaction}
      <4>1. CASE IsEmptyWAL
        BY <2>1, <2>3, <4>1 DEF OneTransaction
      <4>2. CASE ~IsEmptyWAL
        BY <1>b, <2>1, <2>3, <4>2, WriteKeeps DEF OneTransaction
      <4> QED BY <4>1, <4>2
    <3>2. transaction \notin durable =>
              ~isCheckpoint' /\ ~HasCommit(header) /\ \A k \in DOMAIN file : ~HasCommit(file[k])
      <4>1. CASE StartCheckpoint
        BY <4>1 DEF StartCheckpoint, UncommittedInv
      <4>2. CASE StartRollback
        BY <2>3, <4>2 DEF StartRollback, StartReplay, OneTransaction
      <4>3. CASE RecoverCommitted
        BY <2>3, <4>3 DEF RecoverCommitted, OneTransaction
      <4> QED BY <1>8, <4>1, <4>2, <4>3
    <3>3. transaction \notin durable => \A k \in DOMAIN file' : ~HasCommit(file'[k])
      <4>1. CASE IsEmptyWAL
        BY <2>1, <3>2, <4>1
      <4>2. CASE ~IsEmptyWAL
        BY <1>b, <2>1, <3>2, <4>2, WriteKeeps
      <4> QED BY <4>1, <4>2
    <3> QED BY <1>a, <2>1, <2>3, <3>1, <3>2, <3>3 DEF OneTransaction
  <2>4. CASE IsDead
    <3>1. file' # <<>> /\ file'[1].numRecords = 0
      <4>1. CASE IsEmptyWAL
        BY <2>1, <2>4, <4>1 DEF IsDead
      <4>2. CASE ~IsEmptyWAL
        <5>1. currentHeaderPageIdx # 0
          BY <2>2, <2>4, <4>2 DEF IsDead, IsEmptyWAL, UncommittedInv
        <5> QED BY <1>b, <2>1, <2>4, <4>2, <5>1, WriteKeeps DEF IsDead
      <4> QED BY <4>1, <4>2
    <3> QED BY <2>1, <3>1 DEF IsDead, Working
  <2> QED BY <2>3, <2>4 DEF UncommittedInv
<1>9. CASE ReplayRecord
  <2>1. CASE OneTransaction
    <3>1. /\ phase = "replaying" /\ phase' = "replaying"
          /\ UNCHANGED <<isCheckpoint, file, transaction, durable, header, frames>>
      BY <1>9 DEF ReplayRecord, history
    <3>2. pageBuffer'.data \in {0, transaction}
      BY <1>9, <2>1, ReplayedPage
    <3> QED BY <2>1, <3>1, <3>2 DEF OneTransaction
  <2>2. CASE IsDead
    <3>1. iterator.header.numRecords = 0 /\ iterator.numRead < iterator.header.numRecords
      BY <1>9, <2>2 DEF IsDead, ReplayRecord, GetNextRecord, HasNextRecord
    <3>2. iterator.numRead \in Nat
      BY WALAssumption DEF TypeOK
    <3> QED BY <3>1, <3>2
  <2> QED BY <2>1, <2>2 DEF UncommittedInv
<1>10. CASE FinishReplay \/ OpenEmpty \/ RecoverUncommitted
  <2>1. file' = <<>> /\ frames' = <<>> /\ header' = EmptyHeader /\ phase' = "ready"
    BY <1>10 DEF FinishReplay, OpenEmpty, RecoverUncommitted, ClearWAL
  <2> QED BY <1>a, <2>1 DEF OneTransaction
<1>11. CASE Crash \/ Shutdown \/ OpenThrows
  <2>1. /\ \/ file' = file
           \/ Shutdown /\ ~IsEmptyWAL /\ file' = WritePage(file, currentHeaderPageIdx, header)
        /\ header' = ZeroPage /\ frames' = <<>> /\ phase' = "down"
        /\ UNCHANGED <<transaction, durable>>
    BY <1>11 DEF Crash, Shutdown, OpenThrows, LoseMemory, history
  <2>2. CASE OneTransaction
    <3>1. CASE file' = file
      BY <1>a, <2>1, <2>2, <3>1 DEF OneTransaction
    <3>2. CASE Shutdown /\ ~IsEmptyWAL /\ file' = WritePage(file, currentHeaderPageIdx, header)
      <4>1. \A k \in DOMAIN file' : file'[k].data \in {0, transaction}
        BY <1>b, <2>2, <3>2, WriteKeeps DEF OneTransaction
      <4>2. transaction \notin durable => ~HasCommit(header)
        BY <2>2, <3>2 DEF OneTransaction, Shutdown
      <4>3. transaction \notin durable => \A k \in DOMAIN file' : ~HasCommit(file'[k])
        BY <1>b, <2>2, <3>2, <4>2, WriteKeeps DEF OneTransaction
      <4> QED BY <1>a, <2>1, <4>1, <4>3 DEF OneTransaction
    <3> QED BY <2>1, <3>1, <3>2
  <2>3. CASE IsDead
    <3>1. CASE file' = file
      BY <2>1, <2>3, <3>1 DEF IsDead, Working
    <3>2. CASE Shutdown /\ ~IsEmptyWAL /\ file' = WritePage(file, currentHeaderPageIdx, header)
      <4>1. currentHeaderPageIdx # 0
        BY <2>3, <3>2 DEF IsDead, IsEmptyWAL, Shutdown, Working
      <4>2. file' # <<>> /\ file'[1].numRecords = 0
        BY <1>b, <2>3, <3>2, <4>1, WriteKeeps DEF IsDead
      <4> QED BY <2>1, <4>2 DEF IsDead, Working
    <3> QED BY <2>1, <3>1, <3>2
  <2> QED BY <2>2, <2>3 DEF UncommittedInv
<1>12. CASE OpenExisting
  <2>1. /\ file # <<>> /\ header' = file[1] /\ iterator'.header = file[1] /\ phase' = "scanning"
        /\ ~isLastLoggedRecordCommit'
        /\ UNCHANGED <<file, frames, transaction, durable>>
    BY <1>12 DEF OpenExisting, history
  <2>2. 1 \in DOMAIN file
    BY <1>b, <2>1
  <2>3. CASE OneTransaction
    BY <2>1, <2>2, <2>3 DEF OneTransaction
  <2>4. CASE IsDead
    BY <2>1, <2>4 DEF IsDead, Working
  <2> QED BY <2>3, <2>4 DEF UncommittedInv
<1>13. CASE ScanRecord
  <2>1. /\ phase = "scanning" /\ phase' = "scanning" /\ GetNextRecord
        /\ isLastLoggedRecordCommit' = (NextRecord.type = "COMMIT")
        /\ UNCHANGED <<file, frames, header, transaction, durable>>
    BY <1>13 DEF ScanRecord, history
  <2>2. /\ NextRecord \in Records /\ iterator.numRead + 1 \in DOMAIN iterator.header.records
        /\ iterator'.header = iterator.header \/ \E k \in DOMAIN file : iterator'.header = file[k]
    BY <2>1, NextOfIterator
  <2>3. CASE OneTransaction
    <3>1. transaction \notin durable => /\ ~HasCommit(iterator.header)
                                        /\ \A k \in DOMAIN file : ~HasCommit(file[k])
      BY <2>1, <2>3 DEF OneTransaction
    <3>2. NextRecord.type = "COMMIT" => HasCommit(iterator.header)
      BY <2>2, MadeRecords DEF HasCommit, NextRecord
    <3>3. transaction \notin durable => ~HasCommit(iterator'.header) /\ ~isLastLoggedRecordCommit'
      BY <2>1, <2>2, <3>1, <3>2
    <3> QED BY <2>1, <2>3, <3>3 DEF OneTransaction
  <2>4. CASE IsDead
    <3>1. iterator.header.numRecords = 0 /\ iterator.numRead < iterator.header.numRecords
      BY <2>1, <2>4 DEF IsDead, GetNextRecord, HasNextRecord
    <3>2. iterator.numRead \in Nat
      BY WALAssumption DEF TypeOK
    <3> QED BY <3>1, <3>2
  <2> QED BY <2>3, <2>4 DEF UncommittedInv
<1>14. CASE RecoverEmpty
    BY <1>14 DEF RecoverEmpty, IsDead, UncommittedInv, IsEmptyWAL, memory
<1>15. CASE UNCHANGED vars
    BY <1>15 DEF vars, memory, replayer, history, OneTransaction, IsDead, UncommittedInv
<1> QED BY <1>1, <1>3, <1>4, <1>5, <1>6, <1>7, <1>8, <1>9, <1>10, <1>11, <1>12, <1>13, <1>14, <1>15,
           <1>16
        DEF Next, Transaction, Commit, Replay, Open

\* What reaches the database files comes from a replay of a checkpoint, and then the last
\* transaction is durable.
LEMMA OriginalStep ==
    ASSUME TypeOK, WholeInv, TypeOK', UncommittedInv, NothingUncommittedIsWritten,
           [Next]_vars
    PROVE  NothingUncommittedIsWritten'
<1>1. durable \subseteq durable'
    BY DEF Next, vars, Transaction, BeginWriteTransaction, UpdatePage, UpdatePageAgain, LogAuxRecord,
           LogCommit, StartRollback, EvictWALPage, Commit, FlushHeaderPages, FlushDirtyPage, StartCheckpoint,
           Replay, ReplayRecord, FinishReplay, Open, OpenEmpty, OpenExisting, ScanRecord,
           RecoverEmpty, RecoverCommitted, RecoverUncommitted, OpenThrows, Shutdown, Crash, history
<1>2. CASE original' = original
    BY <1>1, <1>2 DEF NothingUncommittedIsWritten
<1>3. CASE ReplayRecord /\ original' # original
  <2> DEFINE p == NextRecord.page
  <2>1. /\ phase = "replaying" /\ isCheckpoint /\ GetNextRecord /\ NextRecord.type = "PAGE"
        /\ original' = [original EXCEPT ![p] = Contents(pageBuffer')]
        /\ UNCHANGED <<phase, file, isCheckpoint, transaction, durable>>
    BY <1>3 DEF ReplayRecord, history
  <2>2. CASE OneTransaction
    <3>1. pageBuffer'.data \in {0, transaction} /\ transaction \in durable
      BY <1>3, <2>1, <2>2, ReplayedPage DEF OneTransaction
    <3>2. Contents(pageBuffer')[1] = pageBuffer'.data
      BY DEF Contents
    <3>3. \A q \in Pages : original'[q] = original[q] \/ original'[q] = Contents(pageBuffer')
      BY <2>1 DEF TypeOK
    <3> QED BY <2>1, <3>1, <3>2, <3>3 DEF NothingUncommittedIsWritten
  <2>3. CASE IsDead
    <3>1. iterator.header.numRecords = 0 /\ iterator.numRead < iterator.header.numRecords
      BY <2>1, <2>3 DEF IsDead, GetNextRecord, HasNextRecord
    <3>2. iterator.numRead \in Nat
      BY WALAssumption DEF TypeOK
    <3> QED BY <3>1, <3>2
  <2> QED BY <2>2, <2>3 DEF UncommittedInv
<1> QED BY <1>2, <1>3
        DEF Next, vars, Transaction, BeginWriteTransaction, UpdatePage, UpdatePageAgain, LogAuxRecord,
           LogCommit, StartRollback, EvictWALPage, Commit, FlushHeaderPages, FlushDirtyPage, StartCheckpoint,
           Replay, FinishReplay, Open, OpenEmpty, OpenExisting, ScanRecord,
           RecoverEmpty, RecoverCommitted, RecoverUncommitted, OpenThrows, Shutdown, Crash

-----------------------------------------------------------------------------
(* The chain of header pages                                                *)

\* IsHeader and AreOnDisk for given chain, log and file.
HeaderIn(c, l, h, k) ==
    /\ h.numRecords = (IF k < Len(c) THEN c[k + 1].first ELSE Len(l)) - c[k].first
    /\ h.next = IF k < Len(c) THEN c[k + 1].page ELSE NoPage
    /\ Len(h.records) = h.numRecords
    /\ \A j \in 1..h.numRecords : h.records[j] = l[c[k].first + j]

\* The first n header pages of chain c are in file f.
OnDisk(c, l, f, n) ==
    \A k \in 1..n : c[k].page < Len(f) /\ HeaderIn(c, l, f[c[k].page + 1], k)

\* The invariant's operators are these, of the variables' values before and after a step.
LEMMA HeaderInChain ==
    /\ \A h, k : IsHeader(h, k) <=> HeaderIn(chain, log, h, k)
    /\ \A h, k : IsHeader(h, k)' <=> HeaderIn(chain', log', h, k)
    /\ \A n : AreOnDisk(n) <=> OnDisk(chain, log, file, n)
    /\ \A n : AreOnDisk(n)' <=> OnDisk(chain', log', file', n)
BY DEF IsHeader, HeaderIn, AreOnDisk, OnDisk

\* The types of the chain, and the chain of an empty log.
LEMMA ChainFacts ==
    ASSUME TypeOK, ChainInv
    PROVE  /\ Len(chain) \in Nat /\ Len(chain) >= 1 /\ DOMAIN chain = 1..Len(chain)
           /\ Len(log) \in Nat /\ DOMAIN log = 1..Len(log)
           /\ \A k \in 1..Len(chain) : /\ chain[k].page \in Nat /\ chain[k].first \in Nat
                                        /\ chain[k].first <= Len(log)
           /\ chain[1].page = 0 /\ chain[1].first = 0
           /\ \A j, k \in 1..Len(chain) : j < k =>
                  chain[j].page < chain[k].page /\ chain[j].first < chain[k].first
           /\ log = <<>> => Len(chain) = 1
           /\ \A k \in 1..Len(chain) : chain[k].page = 0 => k = 1
<1>1. /\ chain \in Seq(Positions) /\ log \in Seq(Records) /\ chain # <<>>
      /\ chain[1] = [page |-> 0, first |-> 0]
      /\ \A j, k \in DOMAIN chain : j < k =>
             chain[j].page < chain[k].page /\ chain[j].first < chain[k].first
      /\ \A k \in DOMAIN chain : chain[k].first <= Len(log)
    BY DEF TypeOK, ChainInv
<1>2. /\ Len(chain) \in Nat /\ Len(chain) >= 1 /\ DOMAIN chain = 1..Len(chain)
      /\ Len(log) \in Nat /\ DOMAIN log = 1..Len(log)
    BY <1>1
<1>3. \A k \in 1..Len(chain) : /\ chain[k].page \in Nat /\ chain[k].first \in Nat
                               /\ chain[k].first <= Len(log)
  <2>1. \A k \in 1..Len(chain) : chain[k] \in Positions
    BY <1>1, <1>2
  <2> QED BY <1>1, <1>2, <2>1 DEF Positions
<1>4. \A j, k \in 1..Len(chain) : j < k =>
          chain[j].page < chain[k].page /\ chain[j].first < chain[k].first
    BY <1>1, <1>2
<1>5. chain[1].page = 0 /\ chain[1].first = 0
    BY <1>1
<1>6. log = <<>> => Len(chain) = 1
  <2>1. SUFFICES ASSUME log = <<>>, Len(chain) > 1
                 PROVE  FALSE
    BY <1>2
  <2>2. chain[1].first < chain[2].first /\ chain[2].first <= Len(log)
    BY <1>2, <1>3, <1>4, <2>1
  <2> QED BY <1>2, <1>3, <1>5, <2>1, <2>2
<1>7. \A k \in 1..Len(chain) : chain[k].page = 0 => k = 1
    BY <1>2, <1>3, <1>4, <1>5
<1> QED BY <1>2, <1>3, <1>4, <1>5, <1>6, <1>7

\* A header page that another one follows stays as it is when records are logged.
LEMMA HeaderKept ==
    ASSUME NEW c \in Seq(Positions), NEW d \in Seq(Positions),
           NEW l \in Seq(Records), NEW m \in Seq(Records), NEW h, NEW k \in 1..(Len(c) - 1),
           Len(c) <= Len(d), \A j \in 1..Len(c) : d[j] = c[j],
           Len(l) <= Len(m), \A j \in 1..Len(l) : m[j] = l[j],
           c[k + 1].first <= Len(l), c[k].first <= c[k + 1].first, HeaderIn(c, l, h, k)
    PROVE  HeaderIn(d, m, h, k)
<1>1. /\ k \in 1..Len(c) /\ k + 1 \in 1..Len(c) /\ k < Len(c) /\ k < Len(d)
      /\ d[k] = c[k] /\ d[k + 1] = c[k + 1] /\ c[k].first \in Nat /\ c[k + 1].first \in Nat
  <2>1. Len(c) \in Nat /\ Len(d) \in Nat
    OBVIOUS
  <2>2. k \in 1..Len(c) /\ k + 1 \in 1..Len(c) /\ k < Len(c) /\ k < Len(d)
    BY <2>1
  <2>3. c[k] \in Positions /\ c[k + 1] \in Positions
    BY <2>2
  <2> QED BY <2>2, <2>3 DEF Positions
<1>2. /\ h.numRecords = c[k + 1].first - c[k].first /\ h.next = c[k + 1].page
      /\ Len(h.records) = h.numRecords
      /\ \A j \in 1..h.numRecords : h.records[j] = l[c[k].first + j]
    BY <1>1 DEF HeaderIn
<1>3. \A j \in 1..h.numRecords : c[k].first + j \in 1..Len(l)
  <2>1. \A a, b, n \in Nat : b <= n => \A j \in 1..(b - a) : a + j \in 1..n
    BY SMTT(20)
  <2>2. Len(l) \in Nat
    OBVIOUS
  <2> QED BY <1>1, <1>2, <2>1, <2>2
<1>4. \A j \in 1..h.numRecords : h.records[j] = m[c[k].first + j]
    BY <1>2, <1>3
<1> QED BY <1>1, <1>2, <1>4 DEF HeaderIn

\* A page written at another place leaves the header pages on disk.
LEMMA DiskKept ==
    ASSUME TypeOK, WholeInv, NEW c, NEW l, NEW n \in Nat, NEW i \in Nat,
           NEW h \in HeaderAndDataPages, IsWhole(h), file' = WritePage(file, i, h),
           \A k \in 1..n : c[k].page \in Nat /\ c[k].page # i, OnDisk(c, l, file, n)
    PROVE  OnDisk(c, l, file', n)
<1>1. /\ Len(file) \in Nat /\ Len(file') \in Nat /\ Len(file) <= Len(file')
      /\ \A k \in 1..Len(file) : k # i + 1 => file'[k] = file[k]
  <2>1. /\ Len(file) <= Len(file') /\ file' \in Seq(HeaderAndDataPages)
        /\ \A k \in DOMAIN file : k # i + 1 => file'[k] = file[k]
    BY WrittenFile
  <2>2. file \in Seq(HeaderAndDataPages)
    BY DEF TypeOK
  <2> QED BY <2>1, <2>2
<1>2. SUFFICES ASSUME NEW k \in 1..n
               PROVE  c[k].page < Len(file') /\ HeaderIn(c, l, file'[c[k].page + 1], k)
    BY DEF OnDisk
<1>3. c[k].page \in Nat /\ c[k].page # i /\ c[k].page < Len(file) /\ HeaderIn(c, l, file[c[k].page + 1], k)
    BY DEF OnDisk
<1>4. file'[c[k].page + 1] = file[c[k].page + 1] /\ c[k].page < Len(file')
    BY SMTT(20), <1>1, <1>3
<1> QED BY <1>3, <1>4

\* A page that is written is there, and the others stay.
LEMMA PagesKept ==
    ASSUME TypeOK, WholeInv, NEW i \in Nat, NEW h \in HeaderAndDataPages, IsWhole(h),
           file' = WritePage(file, i, h)
    PROVE  /\ i < Len(file') /\ file'[i + 1] = h
           /\ \A j \in Nat : j # i /\ j < Len(file) => j < Len(file') /\ file'[j + 1] = file[j + 1]
<1>1. /\ Len(file) <= Len(file') /\ file' \in Seq(HeaderAndDataPages)
      /\ i < Len(file') /\ file'[i + 1] = h
      /\ \A k \in DOMAIN file : k # i + 1 => file'[k] = file[k]
    BY WrittenFile
<1>2. file \in Seq(HeaderAndDataPages)
    BY DEF TypeOK
<1> QED BY <1>1, <1>2

\* Logging a record: the chain of header pages stays the log on disk and in memory, and no
\* other page of the file changes.
LEMMA ChainStep ==
    ASSUME TypeOK, WholeInv, TypeOK', ChainInv, MemoryInv, phase = "active",
           NEW r \in Records, NEW extra \in 0..1, AddNewWALRecord(r, extra)
    PROVE  /\ ChainInv'
           /\ currentHeaderPageIdx' = chain'[Len(chain')].page
           /\ HeaderIn(chain', log', header', Len(chain'))
           /\ offsetInCurrentHeaderPage' = header'.numRecords
           /\ \A k \in DOMAIN chain' : chain'[k].page < numPages'
           /\ OnDisk(chain', log', file', Len(chain') - 1)
           /\ \A k \in DOMAIN chain' : \/ k \in DOMAIN chain /\ chain'[k] = chain[k]
                                       \/ chain'[k].page = numPages + extra
           /\ \A j \in Nat : j < Len(file) /\ (\A k \in DOMAIN chain : chain[k].page # j) =>
                  j < Len(file') /\ file'[j + 1] = file[j + 1]
<1> DEFINE L == Len(chain)
           N == Len(log)
           next == numPages + extra
           written == [header EXCEPT !.next = next]
<1>1. /\ L \in Nat /\ L >= 1 /\ DOMAIN chain = 1..L /\ N \in Nat
      /\ \A k \in 1..L : /\ chain[k].page \in Nat /\ chain[k].first \in Nat
                          /\ chain[k].first <= N
      /\ \A j, k \in 1..L : j < k =>
             chain[j].page < chain[k].page /\ chain[j].first < chain[k].first
    BY ChainFacts
<1>2. /\ currentHeaderPageIdx = chain[L].page
      /\ HeaderIn(chain, log, header, L)
      /\ offsetInCurrentHeaderPage = header.numRecords
      /\ \A k \in 1..L : chain[k].page < numPages
      /\ OnDisk(chain, log, file, L - 1)
    BY <1>1, HeaderInChain DEF MemoryInv, Working
<1>3. /\ header.numRecords = N - chain[L].first /\ header.next = NoPage
      /\ Len(header.records) = header.numRecords
      /\ \A j \in 1..header.numRecords : header.records[j] = log[chain[L].first + j]
    BY <1>1, <1>2 DEF HeaderIn
<1>4. /\ log \in Seq(Records) /\ chain \in Seq(Positions) /\ numPages \in Nat /\ next \in Nat
      /\ header \in HeaderAndDataPages /\ IsWhole(header) /\ chain # <<>>
      /\ chain[1] = [page |-> 0, first |-> 0] /\ RecordsPerHeaderPage \in Nat
      /\ RecordsPerHeaderPage >= 1 /\ chain' \in Seq(Positions)
    BY SMTT(20), WALAssumption DEF TypeOK, WholeInv, ChainInv
<1>5. /\ log' = Append(log, r) /\ log' \in Seq(Records) /\ Len(log') = N + 1
      /\ (\A j \in 1..N : log'[j] = log[j]) /\ log'[N + 1] = r
    <2>1. log' = Append(log, r)
      BY LoggedRecord, Zenon
    <2> QED BY <1>4, <2>1
<1>6. /\ offsetInCurrentHeaderPage' = header'.numRecords
      /\ header' \in HeaderAndDataPages /\ Len(header'.records) = header'.numRecords
  <2>1. header' \in HeaderAndDataPages /\ IsWhole(header') /\ offsetInCurrentHeaderPage' = header'.numRecords
    BY LoggedRecord, Zenon
  <2> QED BY <2>1 DEF IsWhole
<1>7. CASE /\ offsetInCurrentHeaderPage = header.numRecords
           /\ offsetInCurrentHeaderPage < RecordsPerHeaderPage
           /\ UNCHANGED <<file, currentHeaderPageIdx, chain>>
           /\ numPages' = numPages + extra
           /\ header'.numRecords = header.numRecords + 1
           /\ header'.next = header.next /\ header'.data = header.data
           /\ \A j \in 1..header.numRecords : header'.records[j] = header.records[j]
           /\ header'.records[header.numRecords + 1] = r
  <2>1. ChainInv'
    BY <1>1, <1>4, <1>5, <1>7 DEF ChainInv
  <2>2. HeaderIn(chain', log', header', Len(chain'))
    <3> HIDE DEF N
    <3> DEFINE a == chain[L].first
    <3>1. a \in Nat /\ a <= N /\ header.numRecords = N - a /\ header'.numRecords = N + 1 - a
      BY <1>1, <1>3, <1>7
    <3>2. chain'[L].first = a /\ Len(chain') = L
      BY <1>7
    <3> HIDE DEF a
    <3>3. \A j \in 1..header'.numRecords : header'.records[j] = log'[a + j]
      <4>1. SUFFICES ASSUME NEW j \in 1..header'.numRecords
                     PROVE  header'.records[j] = log'[a + j]
        OBVIOUS
      <4>2. CASE j \in 1..header.numRecords
        <5>1. header'.records[j] = header.records[j] /\ header.records[j] = log[a + j]
          BY <1>3, <1>7, <4>2 DEF a
        <5>2. a + j \in 1..N
          BY <1>1, <3>1, <4>2
        <5> QED BY <1>5, <5>1, <5>2
      <4>3. CASE j = header.numRecords + 1
        <5>1. a + j = N + 1
          BY <1>1, <3>1, <4>3
        <5> QED BY <1>5, <1>7, <4>3, <5>1
      <4> QED BY <1>1, <3>1, <4>2, <4>3
    <3>4. header'.next = NoPage /\ Len(log') = N + 1 /\ L \in Nat /\ N \in Nat
      BY <1>1, <1>3, <1>5, <1>7
    <3>5. Len(header'.records) = header'.numRecords
      BY <1>6
    <3> HIDE DEF L
    <3> QED BY <3>1, <3>2, <3>3, <3>4, <3>5 DEF HeaderIn
  <2>3. \A k \in DOMAIN chain' : chain'[k].page < numPages'
    BY <1>1, <1>2, <1>4, <1>7
  <2>4. OnDisk(chain', log', file', Len(chain') - 1)
    <3>1. SUFFICES ASSUME NEW k \in 1..(L - 1)
                   PROVE  chain'[k].page < Len(file') /\ HeaderIn(chain', log', file'[chain'[k].page + 1], k)
      BY <1>7 DEF OnDisk
    <3>2. chain[k].page < Len(file) /\ HeaderIn(chain, log, file[chain[k].page + 1], k)
      BY <1>2 DEF OnDisk
    <3>3. k \in 1..L /\ k + 1 \in 1..L /\ k < k + 1
      BY <1>1
    <3>4. chain[k + 1].first <= N /\ chain[k].first <= chain[k + 1].first
      BY <1>1, <3>3
    <3>5. HeaderIn(chain, log', file[chain[k].page + 1], k)
      <4>1. /\ Len(chain) <= Len(chain) /\ Len(log) <= Len(log')
            /\ \A j \in 1..Len(log) : log'[j] = log[j]
        BY <1>1, <1>5
      <4>2. /\ log' \in Seq(Records) /\ log \in Seq(Records) /\ chain \in Seq(Positions)
            /\ \A j \in 1..Len(chain) : chain[j] = chain[j]
        BY <1>4, <1>5
      <4> QED BY <3>2, <3>4, <4>1, <4>2, HeaderKept, Zenon
    <3> QED BY <1>7, <3>2, <3>5
  <2> QED BY <1>2, <1>6, <1>7, <2>1, <2>2, <2>3, <2>4
<1>8. CASE /\ offsetInCurrentHeaderPage >= RecordsPerHeaderPage
           /\ file' = WritePage(file, currentHeaderPageIdx, written)
           /\ currentHeaderPageIdx' = next
           /\ numPages' = next + 1
           /\ chain' = Append(chain, [page |-> next, first |-> N])
           /\ header'.numRecords = 1 /\ header'.next = NoPage /\ header'.data = 0
           /\ header'.records[1] = r
  <2> HIDE DEF written, next, N, L
  <2>1. /\ Len(chain') = L + 1 /\ DOMAIN chain' = 1..(L + 1)
        /\ (\A k \in 1..L : chain'[k] = chain[k])
        /\ chain'[L + 1].page = next /\ chain'[L + 1].first = N
    <3>1. chain' = Append(chain, [page |-> next, first |-> N])
      BY <1>8
    <3>2. /\ Len(chain') = L + 1 /\ (\A k \in 1..L : chain'[k] = chain[k])
          /\ chain'[L + 1] = [page |-> next, first |-> N]
      BY <1>4, <3>1 DEF L
    <3> QED BY <1>1, <1>4, <3>2
  <2>2. chain[L].first < N /\ \A k \in 1..L : chain[k].first < N /\ chain[k].page < next
    <3>1. L \in 1..L /\ chain[L].first < N
      BY SMTT(20), <1>1, <1>2, <1>3, <1>4, <1>8 DEF N, L
    <3>2. next >= numPages
      BY <1>4 DEF next
    <3> QED BY SMTT(20), <1>1, <1>2, <1>4, <3>1, <3>2
  <2>3. ChainInv'
    <3>1. chain' # <<>> /\ chain'[1] = [page |-> 0, first |-> 0]
      BY <1>1, <1>4, <2>1
    <3>2. \A j, k \in 1..(L + 1) : j < k =>
              chain'[j].page < chain'[k].page /\ chain'[j].first < chain'[k].first
      <4>1. SUFFICES ASSUME NEW j \in 1..(L + 1), NEW k \in 1..(L + 1), j < k
                     PROVE  chain'[j].page < chain'[k].page /\ chain'[j].first < chain'[k].first
        OBVIOUS
      <4>2. j \in 1..L /\ (k \in 1..L \/ k = L + 1)
        BY <1>1, <4>1
      <4> QED BY <1>1, <2>1, <2>2, <4>1, <4>2
    <3>3. \A k \in 1..(L + 1) : chain'[k].first <= N + 1
      <4>1. \A k \in 1..(L + 1) : k \in 1..L \/ k = L + 1
        BY <1>1
      <4> QED BY <1>1, <2>1, <4>1
    <3> QED BY <1>5, <2>1, <3>1, <3>2, <3>3 DEF ChainInv, N
  <2>4. HeaderIn(chain', log', header', Len(chain'))
    <3>1. \A j \in 1..header'.numRecords : header'.records[j] = log'[N + j]
      BY <1>5, <1>8
    <3>2. header'.numRecords = Len(log') - N
      BY <1>1, <1>5, <1>8
    <3> QED BY <1>1, <1>6, <1>8, <2>1, <3>1, <3>2 DEF HeaderIn
  <2>5. \A k \in DOMAIN chain' : chain'[k].page < numPages'
    <3>1. \A k \in 1..(L + 1) : k \in 1..L \/ k = L + 1
      BY <1>1
    <3> QED BY <1>1, <1>4, <1>8, <2>1, <2>2, <3>1
  <2>6. /\ written \in HeaderAndDataPages /\ IsWhole(written) /\ written.numRecords = header.numRecords
        /\ written.next = next /\ written.records = header.records
    BY <1>4, PageFields DEF written, IsWhole
  <2>7. /\ chain[L].page \in Nat /\ L \in 1..L
        /\ chain[L].page < Len(file') /\ file'[chain[L].page + 1] = written
        /\ \A j \in Nat : j # chain[L].page /\ j < Len(file) =>
               j < Len(file') /\ file'[j + 1] = file[j + 1]
    <3>1. chain[L].page \in Nat /\ L \in 1..L /\ file' = WritePage(file, chain[L].page, written)
      BY <1>1, <1>2, <1>8
    <3> QED BY <2>6, <3>1, PagesKept
  <2>8. HeaderIn(chain', log', written, L)
    <3>1. \A j \in 1..header.numRecords : header.records[j] = log'[chain[L].first + j]
      <4>1. \A a \in Nat : a <= N => \A j \in 1..(N - a) : a + j \in 1..N
        BY <1>1
      <4>2. \A j \in 1..header.numRecords : chain[L].first + j \in 1..N
        BY <1>1, <1>3, <2>7, <4>1
      <4> QED BY <1>3, <1>5, <4>2
    <3>2. L < Len(chain') /\ chain'[L] = chain[L]
      BY <1>1, <2>1, <2>7
    <3> QED BY <1>3, <2>1, <2>6, <3>1, <3>2 DEF HeaderIn
  <2>9. OnDisk(chain', log', file', Len(chain') - 1)
    <3>1. SUFFICES ASSUME NEW k \in 1..L
                   PROVE  chain'[k].page < Len(file') /\ HeaderIn(chain', log', file'[chain'[k].page + 1], k)
      BY <1>1, <2>1 DEF OnDisk
    <3>2. CASE k = L
      BY <2>1, <2>7, <2>8, <3>2
    <3>3. CASE k # L
      <4>1. k \in 1..(L - 1) /\ k + 1 \in 1..L /\ k < k + 1 /\ k < L
        BY <1>1, <3>3
      <4>2. chain[k].page < Len(file) /\ HeaderIn(chain, log, file[chain[k].page + 1], k)
        BY <1>2, <4>1 DEF OnDisk
      <4>3. chain[k + 1].first <= N /\ chain[k].first <= chain[k + 1].first
        BY <1>1, <4>1
      <4>4. HeaderIn(chain', log', file[chain[k].page + 1], k)
        <5>1. /\ Len(chain) <= Len(chain') /\ (\A j \in 1..Len(chain) : chain'[j] = chain[j])
              /\ Len(log) <= Len(log') /\ (\A j \in 1..Len(log) : log'[j] = log[j])
          BY <1>1, <1>5, <2>1 DEF L, N
        <5> QED BY <1>4, <1>5, <4>1, <4>2, <4>3, <5>1, HeaderKept DEF L, N
      <4>5. chain[k].page \in Nat /\ chain[k].page # chain[L].page
        BY <1>1, <2>7, <4>1
      <4>6. chain[k].page < Len(file') /\ file'[chain[k].page + 1] = file[chain[k].page + 1]
        BY <2>7, <4>2, <4>5
      <4> QED BY <2>1, <4>4, <4>6
    <3> QED BY <3>2, <3>3
  <2>10. \A k \in DOMAIN chain' : \/ k \in DOMAIN chain /\ chain'[k] = chain[k]
                                 \/ chain'[k].page = next
    <3>1. \A k \in 1..(L + 1) : k \in 1..L \/ k = L + 1
      BY <1>1
    <3> QED BY <1>1, <2>1, <3>1
  <2>11. \A j \in Nat : j < Len(file) /\ (\A k \in DOMAIN chain : chain[k].page # j) =>
                 j < Len(file') /\ file'[j + 1] = file[j + 1]
    BY <1>1, <2>7
  <2>12. currentHeaderPageIdx' = chain'[Len(chain')].page
    BY <1>8, <2>1
  <2> QED BY <1>6, <2>3, <2>4, <2>5, <2>9, <2>10, <2>11, <2>12 DEF next
<1> QED BY <1>7, <1>8, LoggedRecord, Zenon

\* The current header page is written: all of the chain is on disk.
LEMMA HeaderWritten ==
    ASSUME TypeOK, WholeInv, ChainInv, MemoryInv, phase \in Working \cup {"ready"},
           file' = WritePage(file, currentHeaderPageIdx, header)
    PROVE  /\ OnDisk(chain, log, file', Len(chain))
           /\ \A j \in Nat : j < Len(file) /\ (\A k \in DOMAIN chain : chain[k].page # j) =>
                  j < Len(file') /\ file'[j + 1] = file[j + 1]
<1> DEFINE L == Len(chain)
<1>1. /\ L \in Nat /\ L >= 1 /\ DOMAIN chain = 1..L /\ L \in 1..L
      /\ \A k \in 1..L : chain[k].page \in Nat
      /\ \A j, k \in 1..L : j < k => chain[j].page < chain[k].page
    BY ChainFacts
<1>2. /\ currentHeaderPageIdx = chain[L].page
      /\ HeaderIn(chain, log, header, L)
      /\ OnDisk(chain, log, file, L - 1)
    BY HeaderInChain DEF MemoryInv
<1>3. header \in HeaderAndDataPages /\ IsWhole(header)
    BY DEF TypeOK, WholeInv
<1> HIDE DEF L
<1>4. file' = WritePage(file, chain[L].page, header) /\ chain[L].page \in Nat
    BY <1>1, <1>2
<1>5. /\ chain[L].page < Len(file') /\ file'[chain[L].page + 1] = header
      /\ \A j \in Nat : j # chain[L].page /\ j < Len(file) =>
             j < Len(file') /\ file'[j + 1] = file[j + 1]
    BY <1>3, <1>4, PagesKept
<1>6. \A k \in 1..L : chain[k].page < Len(file') /\ HeaderIn(chain, log, file'[chain[k].page + 1], k)
  <2>1. SUFFICES ASSUME NEW k \in 1..L
                 PROVE  chain[k].page < Len(file') /\ HeaderIn(chain, log, file'[chain[k].page + 1], k)
    OBVIOUS
  <2>2. CASE k = L
    BY <1>2, <1>5, <2>2
  <2>3. CASE k # L
    <3>1. k \in 1..(L - 1) /\ k < L
      BY <1>1, <2>3
    <3>2. chain[k].page < Len(file) /\ HeaderIn(chain, log, file[chain[k].page + 1], k)
      BY <1>2, <3>1 DEF OnDisk
    <3>3. chain[k].page \in Nat /\ chain[k].page # chain[L].page
      BY <1>1, <1>4, <3>1
    <3>4. chain[k].page < Len(file') /\ file'[chain[k].page + 1] = file[chain[k].page + 1]
      BY <1>5, <3>2, <3>3
    <3> QED BY <3>2, <3>4
  <2> QED BY <2>2, <2>3
<1>7. OnDisk(chain, log, file', L)
    BY <1>6 DEF OnDisk
<1>8. \A j \in Nat : j < Len(file) /\ (\A k \in DOMAIN chain : chain[k].page # j) =>
          j < Len(file') /\ file'[j + 1] = file[j + 1]
    BY <1>1, <1>5
<1> QED BY <1>7, <1>8 DEF L

\* The same for a WAL that is written unless it is empty (getIterator, the destructor).
LEMMA HeaderFlushed ==
    ASSUME TypeOK, WholeInv, ChainInv, MemoryInv, phase \in Working \cup {"ready"},
           file' = IF IsEmptyWAL THEN file ELSE WritePage(file, currentHeaderPageIdx, header)
    PROVE  /\ log # <<>> => OnDisk(chain, log, file', Len(chain))
           /\ log = <<>> => file' = file
           /\ \A j \in Nat : j < Len(file) /\ (\A k \in DOMAIN chain : chain[k].page # j) =>
                  j < Len(file') /\ file'[j + 1] = file[j + 1]
<1> DEFINE L == Len(chain)
<1>1. /\ L \in 1..L /\ chain[1].page = 0 /\ chain[1].first = 0 /\ Len(log) \in Nat
      /\ log = <<>> => L = 1
      /\ \A k \in 1..L : chain[k].page = 0 => k = 1
    BY ChainFacts
<1>2. /\ currentHeaderPageIdx = chain[L].page
      /\ header.numRecords = Len(log) - chain[L].first
    BY DEF MemoryInv, IsHeader
<1>3. log \in Seq(Records)
    BY DEF TypeOK
<1> HIDE DEF L
<1>4. IsEmptyWAL <=> log = <<>>
  <2>1. ASSUME IsEmptyWAL PROVE log = <<>>
    <3>1. chain[L].page = 0 /\ L = 1 /\ Len(log) - chain[L].first = 0
      BY <1>1, <1>2, <2>1 DEF IsEmptyWAL
    <3>2. Len(log) = 0
      BY <1>1, <3>1
    <3> QED BY <1>3, <3>2
  <2>2. ASSUME log = <<>> PROVE IsEmptyWAL
    BY <1>1, <1>2, <2>2 DEF IsEmptyWAL
  <2> QED BY <2>1, <2>2
<1>5. CASE log = <<>>
    BY <1>4, <1>5
<1>6. CASE log # <<>>
    BY <1>4, <1>6, HeaderWritten
<1> QED BY <1>5, <1>6

-----------------------------------------------------------------------------
(* The iterator                                                             *)

\* StandsAfter for given chain, log and iterator.
Stands(c, l, it, n) ==
    \/ l = <<>> /\ n = 0 /\ it.numRead = 0 /\ it.header.numRecords = 0
    \/ /\ l # <<>>
       /\ \E k \in DOMAIN c :
              /\ HeaderIn(c, l, it.header, k)
              /\ n = c[k].first + it.numRead
              /\ it.numRead <= it.header.numRecords
              /\ k < Len(c) => it.numRead < it.header.numRecords

\* StandsAfter is Stands of the variables' values before and after a step.
LEMMA StandsInChain ==
    /\ \A n : StandsAfter(n) <=> Stands(chain, log, iterator, n)
    /\ \A n : StandsAfter(n)' <=> Stands(chain', log', iterator', n)
BY DEF IsHeader, HeaderIn, StandsAfter, Stands

\* An iterator begins before the first record.
LEMMA StandsFirst ==
    ASSUME TypeOK, ChainInv, NEW f, NEW it, it.numRead = 0,
           \/ log = <<>> /\ it.header.numRecords = 0
           \/ log # <<>> /\ it.header = f[1] /\ OnDisk(chain, log, f, Len(chain))
    PROVE  Stands(chain, log, it, 0)
<1>1. CASE log = <<>> /\ it.header.numRecords = 0
    BY <1>1 DEF Stands
<1>2. CASE log # <<>> /\ it.header = f[1] /\ OnDisk(chain, log, f, Len(chain))
  <2>1. /\ Len(chain) \in Nat /\ Len(chain) >= 1 /\ DOMAIN chain = 1..Len(chain)
        /\ chain[1].page = 0 /\ chain[1].first = 0 /\ Len(log) \in Nat
        /\ 1 < Len(chain) => chain[2].first \in Nat /\ 0 < chain[2].first
    BY ChainFacts
  <2>2. 1 \in 1..Len(chain)
    BY <2>1
  <2>3. HeaderIn(chain, log, it.header, 1)
    BY <1>2, <2>1, <2>2 DEF OnDisk
  <2>4. /\ 1 < Len(chain) => 0 < it.header.numRecords
        /\ 0 <= it.header.numRecords
    BY <2>1, <2>3 DEF HeaderIn
  <2> QED BY <1>2, <2>1, <2>2, <2>3, <2>4 DEF Stands
<1> QED BY <1>1, <1>2

\* getNextRecord returns the next record of the log, through the chain of header pages.
LEMMA StandsNext ==
    ASSUME TypeOK, WholeInv, ChainInv, NEW n, Stands(chain, log, iterator, n),
           log # <<>> => OnDisk(chain, log, file, Len(chain)), GetNextRecord
    PROVE  /\ n \in Nat /\ n + 1 \in 1..Len(log) /\ NextRecord = log[n + 1]
           /\ Stands(chain, log, iterator', n + 1)
<1> DEFINE L == Len(chain)
           h == iterator.header
           m == iterator.numRead
<1>1. /\ L \in Nat /\ L >= 1 /\ DOMAIN chain = 1..L /\ Len(log) \in Nat
      /\ \A k \in 1..L : /\ chain[k].page \in Nat /\ chain[k].first \in Nat
                          /\ chain[k].first <= Len(log)
      /\ \A j, k \in 1..L : j < k => chain[j].first < chain[k].first
    BY ChainFacts
<1>2. m \in Nat /\ iterator \in [header : HeaderAndDataPages, numRead : 0..RecordsPerHeaderPage]
    BY WALAssumption DEF TypeOK
<1>3. m < h.numRecords /\ log # <<>>
  <2>1. m < h.numRecords
    BY DEF GetNextRecord, HasNextRecord
  <2> QED BY <1>2, <2>1 DEF Stands
<1>4. PICK k \in 1..L : /\ HeaderIn(chain, log, h, k) /\ n = chain[k].first + m
                        /\ (k < L => m < h.numRecords)
    BY <1>1, <1>3 DEF Stands
<1> DEFINE a == chain[k].first
           b == IF k < L THEN chain[k + 1].first ELSE Len(log)
<1>5. /\ a \in Nat /\ b \in Nat /\ b <= Len(log) /\ h.numRecords = b - a
      /\ \A j \in 1..h.numRecords : h.records[j] = log[a + j]
      /\ h.next = IF k < L THEN chain[k + 1].page ELSE NoPage
    <2>1. k < L => k + 1 \in 1..L
      BY <1>1
    <2>2. a \in Nat /\ b \in Nat /\ b <= Len(log)
      BY <1>1, <2>1
    <2> QED BY <1>4, <2>2 DEF HeaderIn
<1> HIDE DEF L, h, m, b
<1>6. n \in Nat /\ n + 1 \in 1..Len(log) /\ m + 1 \in 1..h.numRecords /\ a + (m + 1) = n + 1
  <2>1. n = a + m
    BY <1>4
  <2> HIDE DEF a
  <2>2. a \in Nat /\ b \in Nat /\ m \in Nat /\ Len(log) \in Nat /\ b <= Len(log) /\ m < b - a
        /\ h.numRecords = b - a
    BY <1>1, <1>2, <1>3, <1>5
  <2> QED BY <2>1, <2>2
<1>7. NextRecord = log[n + 1]
    BY SMTT(20), <1>5, <1>6 DEF NextRecord, h, m
<1>8. Stands(chain, log, iterator', n + 1)
  <2>1. CASE m + 1 = h.numRecords /\ h.next # NoPage
    <3>1. k < L /\ k + 1 \in 1..L /\ h.next = chain[k + 1].page
      BY <1>1, <1>5, <2>1
    <3>2. chain[k + 1].page < Len(file) /\ HeaderIn(chain, log, file[chain[k + 1].page + 1], k + 1)
      BY <1>3, <3>1 DEF OnDisk, L
    <3>3. iterator' = [header |-> file[chain[k + 1].page + 1], numRead |-> 0]
      <4>1. iterator' = [header |-> ReadPage(h, h.next), numRead |-> 0]
        BY <2>1 DEF GetNextRecord, h, m
      <4>2. chain[k + 1].page # Len(file)
        <5>1. file \in Seq(HeaderAndDataPages) /\ chain[k + 1].page \in Nat
          BY <1>1, <3>1 DEF TypeOK
        <5> QED BY <3>2, <5>1
      <4> QED BY <3>1, <4>1, <4>2 DEF ReadPage
    <3>4. n + 1 = chain[k + 1].first
      BY <1>1, <1>5, <1>6, <2>1, <3>1 DEF b
    <3>5. /\ file[chain[k + 1].page + 1].numRecords =
               (IF k + 1 < L THEN chain[k + 2].first ELSE Len(log)) - chain[k + 1].first
      BY <3>2 DEF HeaderIn, L
    <3>6. /\ 0 <= file[chain[k + 1].page + 1].numRecords
          /\ k + 1 < L => 0 < file[chain[k + 1].page + 1].numRecords
      <4>1. k + 1 < L => k + 2 \in 1..L /\ k + 1 < k + 2
        BY <1>1, <3>1
      <4> QED BY <1>1, <3>1, <3>5, <4>1
    <3>7. n + 1 = chain[k + 1].first + 0
      BY <1>6, <3>4
    <3> QED BY <1>1, <1>3, <3>1, <3>2, <3>3, <3>6, <3>7 DEF Stands, L
  <2>2. CASE ~(m + 1 = h.numRecords /\ h.next # NoPage)
    <3>1. iterator' = [iterator EXCEPT !.numRead = m + 1]
      BY <2>2 DEF GetNextRecord, h, m
    <3>2. iterator'.header = h /\ iterator'.numRead = m + 1
      BY <1>2, <3>1 DEF h
    <3>3. k < L => m + 1 < h.numRecords
      <4>1. k < L => h.next # NoPage
        BY <1>1, <1>5 DEF NoPage
      <4>2. m \in Nat /\ h.numRecords \in Int /\ m < h.numRecords
        BY <1>2, <1>3, <1>5
      <4> QED BY <2>2, <4>1, <4>2
    <3>4. n + 1 = chain[k].first + (m + 1) /\ m + 1 <= h.numRecords
      BY <1>6
    <3> QED BY <1>1, <1>3, <1>4, <3>2, <3>3, <3>4 DEF Stands, L
  <2> QED BY <2>1, <2>2
<1> QED BY <1>6, <1>7, <1>8

\* An iterator without a next record has met all of the log.
LEMMA StandsLast ==
    ASSUME TypeOK, WholeInv, ChainInv, NEW n, Stands(chain, log, iterator, n), ~HasNextRecord
    PROVE  n = Len(log)
<1> DEFINE L == Len(chain)
           h == iterator.header
           m == iterator.numRead
<1>1. /\ L \in Nat /\ L >= 1 /\ DOMAIN chain = 1..L /\ Len(log) \in Nat
      /\ \A k \in 1..L : chain[k].first \in Nat
    BY ChainFacts
<1>2. m \in Nat /\ h.numRecords \in Nat /\ ~(m < h.numRecords)
  <2>1. h \in HeaderAndDataPages /\ m \in 0..RecordsPerHeaderPage
    BY DEF TypeOK
  <2>2. h.numRecords \in 0..RecordsPerHeaderPage
    BY <2>1, PageFields
  <2> QED BY <2>1, <2>2, WALAssumption DEF HasNextRecord
<1>3. CASE log = <<>>
    BY <1>3 DEF Stands
<1>4. CASE log # <<>>
  <2>1. PICK k \in 1..L : /\ HeaderIn(chain, log, h, k) /\ n = chain[k].first + m
                          /\ m <= h.numRecords /\ (k < L => m < h.numRecords)
    BY <1>1, <1>4 DEF Stands
  <2> HIDE DEF L, h, m
  <2>2. k = L /\ m = h.numRecords
    <3>1. ~(k < L)
      BY <1>2, <2>1
    <3>2. k = L
      BY <1>1, <3>1
    <3> QED BY <1>2, <2>1, <3>2
  <2>3. h.numRecords = Len(log) - chain[k].first
    BY <2>1, <2>2 DEF HeaderIn, L
  <2> QED BY <1>1, <1>2, <2>1, <2>2, <2>3
<1> QED BY <1>3, <1>4

-----------------------------------------------------------------------------
(* The steps of a WAL that is not torn                                      *)

\* The page in the WAL file of the record that names page p and WAL page i.
HasPage(f, t, u, p, i) ==
    i < Len(f) /\ (UpdatesEvicted \/ Contents(f[i + 1]) = <<t, u[p]>>)

\* The pages of records in frames.
HasFrame(fr, t, u, p, i) ==
    i \in DOMAIN fr => UpdatesEvicted \/ Contents(fr[i]) = <<t, u[p]>>

\* IsWritten in these operators.
LEMMA WrittenForm ==
    /\ \A j : IsWritten(j) <=> HasPage(file, transaction, updates, log[j].page, log[j].pageIdxInWAL)
    /\ \A j : IsWritten(j)' <=>
               HasPage(file', transaction', updates', log'[j].page, log'[j].pageIdxInWAL)
BY DEF IsWritten, AreAllUpdates, HasPage

\* PagesInv while the transaction works.
PagesAre ==
    /\ \A j \in PageRecords :
           /\ log[j].pageIdxInWAL < numPages
           /\ \/ log[j].pageIdxInWAL \in DOMAIN frames
              \/ HasPage(file, transaction, updates, log[j].page, log[j].pageIdxInWAL)
           /\ HasFrame(frames, transaction, updates, log[j].page, log[j].pageIdxInWAL)
    /\ \A p \in Pages : updates[p] # 0 <=> IsLogged(p)
    /\ \A p \in Pages : version[p] # NoPage =>
           \E j \in PageRecords : log[j].page = p /\ log[j].pageIdxInWAL = version[p]
    /\ \A j \in PageRecords : version[log[j].page] # NoPage

\* PagesInv whatever the phase.
PagesDiffer ==
    /\ \A i \in DOMAIN frames :
           frames[i].data = transaction /\ \A k \in DOMAIN chain : chain[k].page # i
    /\ \A j \in PageRecords, k \in DOMAIN chain : chain[k].page # log[j].pageIdxInWAL
    /\ \A i \in unmarked : i < Len(file)
    /\ \A j, k \in PageRecords : j # k =>
           log[j].page # log[k].page /\ log[j].pageIdxInWAL # log[k].pageIdxInWAL
VersionsLogged == \A p \in Pages : version[p] # NoPage => IsLogged(p)

LEMMA PagesForm ==
    PagesInv <=> /\ PagesDiffer
                 /\ phase \in Working => PagesAre
                 /\ phase \in {"ready", "active", "replaying"} => VersionsLogged
BY WrittenForm DEF PagesInv, PagesAre, PagesDiffer, VersionsLogged, HasFrame, AreAllUpdates, Working

\* MemoryInv of a process that has the WAL open.
MemoryIs ==
    /\ currentHeaderPageIdx = chain[Len(chain)].page
    /\ HeaderIn(chain, log, header, Len(chain))
    /\ offsetInCurrentHeaderPage = header.numRecords
    /\ \A k \in DOMAIN chain : chain[k].page < numPages
    /\ OnDisk(chain, log, file, Len(chain) - 1)

\* MemoryInv, and the parts of DiskInv and ReplayInv about the chain, in these operators.
LEMMA MemoryForm ==
    /\ MemoryInv <=> (phase \in Working \cup {"ready"} => MemoryIs)
    /\ MemoryInv' <=> (phase' \in Working \cup {"ready"} => MemoryIs')
    /\ AreOnDisk(Len(chain)) <=> OnDisk(chain, log, file, Len(chain))
    /\ AreOnDisk(Len(chain))' <=> OnDisk(chain', log', file', Len(chain'))
    /\ StandsAfter(Len(replayed)) <=> Stands(chain, log, iterator, Len(replayed))
    /\ StandsAfter(Len(replayed))' <=> Stands(chain', log', iterator', Len(replayed'))
BY DEF MemoryInv, MemoryIs, AreOnDisk, OnDisk, IsHeader, HeaderIn, Working, StandsAfter, Stands

\* What depends on the log alone.
LEMMA SameLog ==
    ASSUME UNCHANGED logged
    PROVE  /\ chain' = chain /\ log' = log /\ (ChainInv' <=> ChainInv)
           /\ PageRecords' = PageRecords /\ (\A p : IsLogged(p)' <=> IsLogged(p))
           /\ IsCommitted' <=> IsCommitted
BY DEF logged, ChainInv, PageRecords, IsLogged, IsCommitted

\* beginWriteTransaction finds an empty WAL.
LEMMA BeginStep ==
    ASSUME TypeOK, UntornInv, BeginWriteTransaction
    PROVE  UntornInv'
<1>1. /\ phase = "ready" /\ phase' = "active" /\ log = <<>>
      /\ UNCHANGED <<memory, replayer, file, original, logged, committed>>
      /\ updates' = [p \in Pages |-> 0]
    BY DEF BeginWriteTransaction
<1>2. ChainInv /\ MemoryInv /\ DiskInv /\ PagesInv /\ CommitInv
    BY DEF UntornInv
<1>3. /\ chain' = chain /\ log' = log /\ (ChainInv' <=> ChainInv)
      /\ PageRecords' = PageRecords /\ (IsCommitted' <=> IsCommitted)
    BY <1>1, SameLog
<1>4. /\ file = <<>> /\ frames = <<>> /\ (\A p \in Pages : version[p] = NoPage)
      /\ ~IsCommitted /\ (UpdatesEvicted \/ original = committed) /\ PageRecords = {}
    BY <1>1, <1>2 DEF DiskInv, CommitInv, IsCommitted, PageRecords
<1>5. MemoryInv'
  <2>1. MemoryIs
    BY <1>1, <1>2, MemoryForm
  <2>2. MemoryIs'
    BY <1>1, <1>3, <2>1 DEF MemoryIs, memory
  <2> QED BY <2>2, MemoryForm
<1>6. DiskInv'
    BY <1>1, <1>4 DEF DiskInv, memory
<1>7. PagesInv'
  <2>1. /\ DOMAIN frames' = {} /\ version' = version /\ PageRecords' = {} /\ unmarked' = {}
        /\ \A p \in Pages : updates'[p] = 0 /\ ~IsLogged(p)'
    BY <1>1, <1>3, <1>4 DEF memory, TypeOK, IsLogged
  <2> QED BY <1>4, <2>1 DEF PagesInv
<1>8. CommitInv'
    BY <1>1, <1>3, <1>4 DEF CommitInv
<1>9. ReplayInv'
    BY <1>1 DEF ReplayInv
<1> QED BY <1>2, <1>3, <1>5, <1>6, <1>7, <1>8, <1>9 DEF UntornInv

\* What logging a record does, whatever the record.
LEMMA LogStep ==
    ASSUME TypeOK, WholeInv, TypeOK', UntornInv, phase = "active",
           NEW r \in Records, NEW extra \in 0..1, AddNewWALRecord(r, extra),
           phase' = IF r = CommitRecord THEN "committing" ELSE "active",
           UNCHANGED <<original, committed>>
    PROVE  ChainInv' /\ MemoryInv' /\ DiskInv' /\ CommitInv' /\ ReplayInv'
<1>1. ChainInv /\ MemoryInv /\ CommitInv
    BY DEF UntornInv
<1>2. ChainInv' /\ MemoryInv'
  <2>1. ChainInv'
    BY <1>1, ChainStep
  <2>2. /\ currentHeaderPageIdx' = chain'[Len(chain')].page
        /\ HeaderIn(chain', log', header', Len(chain'))
        /\ offsetInCurrentHeaderPage' = header'.numRecords
        /\ \A k \in DOMAIN chain' : chain'[k].page < numPages'
        /\ OnDisk(chain', log', file', Len(chain') - 1)
    BY <1>1, ChainStep, Zenon
  <2>3. MemoryIs'
    BY <2>2 DEF MemoryIs
  <2> QED BY <2>1, <2>3, MemoryForm
<1>3. /\ log \in Seq(Records) /\ log' = Append(log, r) /\ log' \in Seq(Records)
      /\ Len(log) \in Nat
  <2>1. log' = Append(log, r)
    BY LoggedRecord, Zenon
  <2> QED BY <2>1 DEF TypeOK
<1>4. /\ Len(log') = Len(log) + 1 /\ log' # <<>> /\ log'[Len(log')] = r
      /\ DOMAIN log = 1..Len(log) /\ DOMAIN log' = 1..(Len(log) + 1)
      /\ \A j \in 1..Len(log) : log'[j] = log[j]
    BY <1>3
<1>5. /\ ~IsCommitted /\ (UpdatesEvicted \/ original = committed)
      /\ \A j \in 1..Len(log) : log[j] # CommitRecord
  <2>1. ~IsCommitted /\ (UpdatesEvicted \/ original = committed)
    BY <1>1 DEF CommitInv
  <2>2. ASSUME NEW j \in 1..Len(log), log[j] = CommitRecord
        PROVE  FALSE
    <3>0. \A m \in DOMAIN log : log[m] = CommitRecord => m = Len(log)
      BY <1>1 DEF CommitInv
    <3>a. j = Len(log)
      BY <1>4, <2>2, <3>0, Zenon
    <3>b. log # <<>>
      BY <1>3, <2>2
    <3>1. j = Len(log) /\ log # <<>>
      BY <3>a, <3>b
    <3> QED BY SMTT(20), <2>1, <2>2, <3>1 DEF IsCommitted
  <2> QED BY <2>1, <2>2
<1>6. \A j \in DOMAIN log' : log'[j] = CommitRecord => j = Len(log')
  <2>1. \A j \in DOMAIN log' : j \in 1..Len(log) \/ j = Len(log')
    BY <1>3, <1>4
  <2> QED BY <1>4, <1>5, <2>1
<1>7. IsCommitted' <=> r = CommitRecord
    BY <1>4 DEF IsCommitted
<1>8. CommitInv'
    BY <1>5, <1>6, <1>7 DEF CommitInv
<1>9. DiskInv'
    BY <1>4 DEF DiskInv
<1>10. ReplayInv'
    BY DEF ReplayInv
<1> QED BY <1>2, <1>8, <1>9, <1>10

\* What a record without a page does to the pages: nothing.
LEMMA AuxStep ==
    ASSUME TypeOK, WholeInv, TypeOK', UntornInv, LogAuxRecord \/ LogCommit
    PROVE  UntornInv'
<1>1. PICK r \in {AuxRecord, CommitRecord} :
          /\ AddNewWALRecord(r, 0) /\ phase = "active"
          /\ phase' = IF r = CommitRecord THEN "committing" ELSE "active"
          /\ UNCHANGED <<original, committed, transaction, updates, frames, unmarked, version>>
  <2>1. AuxRecord # CommitRecord
    BY MadeRecords
  <2> QED BY <2>1 DEF LogAuxRecord, LogCommit, history
<1>2. r \in Records /\ r.type # "PAGE" /\ 0 \in 0..1
    BY MadeRecords
<1>3. ChainInv' /\ MemoryInv' /\ DiskInv' /\ CommitInv' /\ ReplayInv'
    BY <1>1, <1>2, LogStep
<1>4. ChainInv /\ MemoryInv /\ PagesDiffer /\ PagesAre
    BY <1>1, PagesForm DEF UntornInv, Working
<1>5. /\ \A k \in DOMAIN chain' : \/ k \in DOMAIN chain /\ chain'[k] = chain[k]
                                  \/ chain'[k].page = numPages
      /\ \A j \in Nat : j < Len(file) /\ (\A k \in DOMAIN chain : chain[k].page # j) =>
             j < Len(file') /\ file'[j + 1] = file[j + 1]
  <2>1. /\ \A k \in DOMAIN chain' : \/ k \in DOMAIN chain /\ chain'[k] = chain[k]
                                    \/ chain'[k].page = numPages + 0
        /\ \A j \in Nat : j < Len(file) /\ (\A k \in DOMAIN chain : chain[k].page # j) =>
               j < Len(file') /\ file'[j + 1] = file[j + 1]
    BY <1>1, <1>2, <1>4, ChainStep, Zenon
  <2>2. numPages + 0 = numPages
    BY DEF TypeOK
  <2> QED BY <2>1, <2>2, Zenon
<1>6. numPages \in Nat /\ numPages' \in Nat /\ numPages' >= numPages
  <2>1. numPages' \in Nat /\ numPages' >= numPages + 0 /\ numPages \in Nat
    BY <1>1, <1>2, LoggingTypes DEF TypeOK
  <2> QED BY <2>1
<1>7. PageRecords' = PageRecords /\ \A j \in PageRecords : log'[j] = log[j] /\ log[j] \in Records
  <2>1. log \in Seq(Records) /\ log' = Append(log, r)
    BY <1>1, <1>2, LoggedRecord DEF TypeOK
  <2>2. /\ DOMAIN log = 1..Len(log) /\ DOMAIN log' = 1..(Len(log) + 1) /\ Len(log) \in Nat
        /\ log'[Len(log) + 1] = r
        /\ \A j \in 1..Len(log) : log'[j] = log[j] /\ log[j] \in Records
    BY <1>2, <2>1
  <2>3. \A j \in 1..(Len(log) + 1) : j \in 1..Len(log) \/ j = Len(log) + 1
    BY <2>2
  <2>4. \A j \in 1..Len(log) : j \in 1..(Len(log) + 1)
    BY <2>2
  <2> QED BY <1>2, <2>2, <2>3, <2>4 DEF PageRecords
<1>8. \A j \in PageRecords : log[j].pageIdxInWAL \in Nat /\ log[j].pageIdxInWAL < numPages
    BY <1>4, <1>7, MadeRecords DEF PagesAre, PageRecords
<1>9. \A i \in DOMAIN frames : i \in Nat /\ i < numPages
    BY SMTT(20), <1>6 DEF TypeOK
<1>10. \A i \in DOMAIN frames' :
           frames'[i].data = transaction' /\ \A k \in DOMAIN chain' : chain'[k].page # i
  <2>1. \A i \in DOMAIN frames :
           frames[i].data = transaction /\ \A k \in DOMAIN chain : chain[k].page # i
    BY <1>4 DEF PagesDiffer
  <2> QED BY <1>1, <1>5, <1>6, <1>9, <2>1
<1>11. \A j \in PageRecords, k \in DOMAIN chain' : chain'[k].page # log[j].pageIdxInWAL
  <2>1. \A j \in PageRecords, k \in DOMAIN chain : chain[k].page # log[j].pageIdxInWAL
    BY <1>4 DEF PagesDiffer
  <2> QED BY <1>5, <1>6, <1>8, <2>1
<1>12. \A j \in PageRecords :
           \/ log[j].pageIdxInWAL \in DOMAIN frames'
           \/ HasPage(file', transaction', updates', log[j].page, log[j].pageIdxInWAL)
  <2>1. SUFFICES ASSUME NEW j \in PageRecords, log[j].pageIdxInWAL \notin DOMAIN frames
                 PROVE  HasPage(file', transaction', updates', log[j].page, log[j].pageIdxInWAL)
    BY <1>1
  <2>2. HasPage(file, transaction, updates, log[j].page, log[j].pageIdxInWAL)
    BY <1>4, <2>1 DEF PagesAre
  <2>3. \A k \in DOMAIN chain : chain[k].page # log[j].pageIdxInWAL
    BY <1>4 DEF PagesDiffer
  <2> QED BY <1>1, <1>5, <1>8, <2>2, <2>3 DEF HasPage
<1>13. PagesAre'
  <2>1. \A p \in Pages : updates'[p] # 0 <=> IsLogged(p)'
    BY <1>1, <1>4, <1>7 DEF PagesAre, IsLogged
  <2>2. \A p \in Pages : version'[p] # NoPage =>
             \E j \in PageRecords' : log'[j].page = p /\ log'[j].pageIdxInWAL = version'[p]
    BY <1>1, <1>4, <1>7 DEF PagesAre
  <2>3. \A j \in PageRecords' : version'[log'[j].page] # NoPage
    BY <1>1, <1>4, <1>7 DEF PagesAre
  <2>4. \A j \in PageRecords' :
            HasFrame(frames', transaction', updates', log'[j].page, log'[j].pageIdxInWAL)
    BY <1>1, <1>4, <1>7 DEF PagesAre
  <2>5. \A j \in PageRecords' : log'[j].pageIdxInWAL < numPages'
    BY <1>6, <1>7, <1>8
  <2> QED BY <1>7, <1>12, <2>1, <2>2, <2>3, <2>4, <2>5 DEF PagesAre
<1>14. PagesDiffer'
  <2>1. \A j \in PageRecords', k \in DOMAIN chain' : chain'[k].page # log'[j].pageIdxInWAL
    BY <1>7, <1>11
  <2>2. \A j, k \in PageRecords' : j # k =>
            log'[j].page # log'[k].page /\ log'[j].pageIdxInWAL # log'[k].pageIdxInWAL
    BY <1>4, <1>7 DEF PagesDiffer
  <2>3. \A i \in unmarked' : i < Len(file')
    <3>1. \A i \in unmarked : /\ i \in Nat /\ i < Len(file)
                              /\ \A k \in DOMAIN chain : chain[k].page # i
      BY <1>4, <1>9 DEF PagesDiffer, TypeOK
    <3> QED BY <1>1, <1>5, <3>1
  <2> QED BY <1>10, <2>1, <2>2, <2>3 DEF PagesDiffer
<1>15. VersionsLogged'
    BY <1>13 DEF PagesAre, VersionsLogged, IsLogged
<1>16. PagesInv'
    BY <1>13, <1>14, <1>15, PagesForm, PTL
<1> QED BY <1>3, <1>16 DEF UntornInv

\* The first update of a page: its record leads to the frame of its new version.
LEMMA UpdateStep ==
    ASSUME TypeOK, WholeInv, TypeOK', UntornInv, NEW q \in Pages, UpdatePage(q)
    PROVE  UntornInv'
<1> DEFINE n == numPages
           r == PageRecord(q, n)
<1>1. /\ phase = "active" /\ phase' = "active" /\ AddNewWALRecord(r, 1)
      /\ version[q] = NoPage /\ version' = [version EXCEPT ![q] = n]
      /\ updates' = [updates EXCEPT ![q] = 1]
      /\ UNCHANGED <<original, committed, transaction, unmarked>>
    BY DEF UpdatePage, history
<1>2. n \in Nat
    BY DEF TypeOK
<1>3. /\ r \in Records /\ r # CommitRecord /\ 1 \in 0..1
      /\ r.type = "PAGE" /\ r.page = q /\ r.pageIdxInWAL = n
  <2>1. r \in Records /\ r.type = "PAGE" /\ r.page = q /\ r.pageIdxInWAL = n
    BY <1>2, MadeRecords
  <2>2. CommitRecord.type = "COMMIT"
    BY MadeRecords
  <2> QED BY <2>1, <2>2
<1> HIDE DEF r
<1>4. ChainInv' /\ MemoryInv' /\ DiskInv' /\ CommitInv' /\ ReplayInv'
    BY <1>1, <1>3, LogStep
<1>5. ChainInv /\ MemoryInv /\ PagesDiffer /\ PagesAre
    BY <1>1, PagesForm DEF UntornInv, Working
<1>6. /\ \A k \in DOMAIN chain' : \/ k \in DOMAIN chain /\ chain'[k] = chain[k]
                                  \/ chain'[k].page = numPages + 1
      /\ \A j \in Nat : j < Len(file) /\ (\A k \in DOMAIN chain : chain[k].page # j) =>
             j < Len(file') /\ file'[j + 1] = file[j + 1]
    BY <1>1, <1>3, <1>5, ChainStep, Zenon
<1>7. numPages' \in Nat /\ numPages' >= numPages + 1
    BY <1>1, <1>3, LoggingTypes
<1>8. /\ DOMAIN log = 1..Len(log) /\ DOMAIN log' = 1..(Len(log) + 1) /\ Len(log) \in Nat
      /\ log'[Len(log) + 1] = r
      /\ \A j \in 1..Len(log) : log'[j] = log[j] /\ log[j] \in Records
  <2>1. log \in Seq(Records) /\ log' = Append(log, r)
    BY <1>1, <1>3, LoggedRecord DEF TypeOK
  <2> QED BY <1>3, <2>1
<1>9. /\ PageRecords' = PageRecords \cup {Len(log) + 1}
      /\ \A j \in PageRecords : log'[j] = log[j] /\ log[j] \in Records /\ log[j].type = "PAGE"
  <2>1. \A j \in 1..(Len(log) + 1) : j \in 1..Len(log) \/ j = Len(log) + 1
    BY <1>8
  <2>2. (\A j \in 1..Len(log) : j \in 1..(Len(log) + 1)) /\ Len(log) + 1 \in 1..(Len(log) + 1)
    BY <1>8
  <2> QED BY <1>3, <1>8, <2>1, <2>2 DEF PageRecords
<1>10. /\ DOMAIN frames' = DOMAIN frames \cup {n} /\ frames'[n].data = transaction
       /\ Contents(frames'[n]) = <<transaction, 1>>
       /\ \A i \in DOMAIN frames : i \in Nat /\ i < n /\ frames'[i] = frames[i]
  <2>1. /\ DOMAIN frames' = DOMAIN frames \cup {numPages}
        /\ frames'[numPages] = DataPage(transaction, 1)
        /\ \A i \in DOMAIN frames : i # numPages /\ frames'[i] = frames[i]
    BY NewFrame DEF UpdatePage
  <2>2. /\ DataPage(transaction, 1).data = transaction
        /\ Contents(DataPage(transaction, 1)) = <<transaction, 1>>
    BY DEF DataPage, Contents
  <2>a. \A i \in DOMAIN frames : i \in 1..(n - 1)
    BY DEF TypeOK
  <2>3. \A i \in DOMAIN frames : i \in Nat /\ i < n
    BY <1>2, <2>a
  <2> QED BY <2>1, <2>2, <2>3
<1>11. \A k \in DOMAIN chain : chain[k].page \in Nat /\ chain[k].page < n
  <2>1. \A k \in DOMAIN chain : chain[k].page < numPages
    BY <1>1, <1>5, MemoryForm DEF MemoryIs, Working
  <2> QED BY <1>5, <2>1, ChainFacts
<1>12. \A k \in DOMAIN chain' : chain'[k].page # n
    BY <1>2, <1>6, <1>11
<1>13. \A j \in PageRecords : log[j].pageIdxInWAL \in Nat /\ log[j].pageIdxInWAL < n
    BY <1>5, <1>9, MadeRecords DEF PagesAre
<1>14. \A i \in DOMAIN frames' :
           frames'[i].data = transaction' /\ \A k \in DOMAIN chain' : chain'[k].page # i
  <2>1. \A i \in DOMAIN frames :
           frames[i].data = transaction /\ \A k \in DOMAIN chain : chain[k].page # i
    BY <1>5 DEF PagesDiffer
  <2>2. \A i \in DOMAIN frames : \A k \in DOMAIN chain' : chain'[k].page # i
    BY <1>2, <1>6, <1>10, <2>1
  <2> QED BY <1>1, <1>10, <1>12, <2>1, <2>2
<1>15. \A j \in PageRecords, k \in DOMAIN chain' : chain'[k].page # log[j].pageIdxInWAL
  <2>1. \A j \in PageRecords, k \in DOMAIN chain : chain[k].page # log[j].pageIdxInWAL
    BY <1>5 DEF PagesDiffer
  <2> QED BY <1>2, <1>6, <1>13, <2>1
<1>16. \A j \in PageRecords : /\ log[j].page \in Pages /\ log[j].page # q
                              /\ updates'[log[j].page] = updates[log[j].page]
  <2>1. \A j \in PageRecords : log[j].page \in Pages /\ version[log[j].page] # NoPage
    BY <1>5, <1>9, MadeRecords DEF PagesAre
  <2>2. updates \in [Pages -> Nat]
    BY DEF TypeOK
  <2> QED BY <1>1, <2>1, <2>2
<1>a. \A j \in PageRecords :
          \/ log[j].pageIdxInWAL \in DOMAIN frames'
          \/ HasPage(file', transaction', updates', log[j].page, log[j].pageIdxInWAL)
  <2>1. SUFFICES ASSUME NEW j \in PageRecords, log[j].pageIdxInWAL \notin DOMAIN frames
                 PROVE  HasPage(file', transaction', updates', log[j].page, log[j].pageIdxInWAL)
    BY <1>10
  <2>2. HasPage(file, transaction, updates, log[j].page, log[j].pageIdxInWAL)
    BY <1>5, <2>1 DEF PagesAre
  <2>3. \A k \in DOMAIN chain : chain[k].page # log[j].pageIdxInWAL
    BY <1>5 DEF PagesDiffer
  <2> QED BY <1>1, <1>6, <1>13, <1>16, <2>2, <2>3 DEF HasPage
<1>b. \A j \in PageRecords :
          HasFrame(frames', transaction', updates', log[j].page, log[j].pageIdxInWAL)
  <2>1. \A j \in PageRecords :
            HasFrame(frames, transaction, updates, log[j].page, log[j].pageIdxInWAL)
    BY <1>5 DEF PagesAre
  <2>2. \A j \in PageRecords : log[j].pageIdxInWAL # n
    BY <1>2, <1>13
  <2> QED BY <1>1, <1>10, <1>16, <2>1, <2>2 DEF HasFrame
<1>17. \A p \in Pages : version'[p] # NoPage =>
           \E j \in PageRecords' : log'[j].page = p /\ log'[j].pageIdxInWAL = version'[p]
  <2>1. SUFFICES ASSUME NEW p \in Pages, version'[p] # NoPage
                 PROVE  \E j \in PageRecords' : log'[j].page = p /\ log'[j].pageIdxInWAL = version'[p]
    OBVIOUS
  <2>2. CASE p = q
    <3>1. version'[p] = n
      BY <1>1, <2>2 DEF TypeOK
    <3> QED BY <1>3, <1>8, <1>9, <2>2, <3>1
  <2>3. CASE p # q
    <3>1. version'[p] = version[p]
      BY <1>1, <2>3 DEF TypeOK
    <3>2. PICK j \in PageRecords : log[j].page = p /\ log[j].pageIdxInWAL = version[p]
      BY <1>5, <2>1, <3>1 DEF PagesAre
    <3> QED BY <1>9, <3>1, <3>2
  <2> QED BY <2>2, <2>3
<1>18. \A j \in PageRecords' : version'[log'[j].page] # NoPage
  <2>1. \A j \in PageRecords : version[log[j].page] # NoPage /\ log[j].page \in Pages
    BY <1>5, <1>9, MadeRecords DEF PagesAre
  <2>2. \A p \in Pages : version[p] # NoPage => version'[p] # NoPage
    BY <1>1, <1>2 DEF TypeOK
  <2>3. version'[q] # NoPage
    BY <1>1, <1>2 DEF TypeOK, NoPage
  <2> QED BY <1>3, <1>8, <1>9, <2>1, <2>2, <2>3
<1>19. PagesAre'
  <2>1. \A p \in Pages : updates'[p] # 0 <=> IsLogged(p)'
    <3>1. SUFFICES ASSUME NEW p \in Pages PROVE updates'[p] # 0 <=> IsLogged(p)'
      OBVIOUS
    <3>2. updates \in [Pages -> Nat] /\ (updates[p] # 0 <=> IsLogged(p))
      BY <1>5 DEF PagesAre, TypeOK
    <3>3. IsLogged(p)' <=> IsLogged(p) \/ p = q
      BY <1>3, <1>8, <1>9 DEF IsLogged
    <3> QED BY <1>1, <3>2, <3>3
  <2>2. ASSUME NEW j \in PageRecords'
        PROVE  /\ log'[j].pageIdxInWAL < numPages'
               /\ \/ log'[j].pageIdxInWAL \in DOMAIN frames'
                  \/ HasPage(file', transaction', updates', log'[j].page, log'[j].pageIdxInWAL)
               /\ HasFrame(frames', transaction', updates', log'[j].page, log'[j].pageIdxInWAL)
    <3>1. CASE j \in PageRecords
      <4>1. log'[j] = log[j] /\ log[j].pageIdxInWAL \in Nat /\ log[j].pageIdxInWAL < n
        BY <1>9, <1>13, <3>1
      <4>2. log[j].pageIdxInWAL < numPages'
        BY <1>2, <1>7, <4>1
      <4> QED BY <1>a, <1>b, <3>1, <4>1, <4>2
    <3>2. CASE j = Len(log) + 1
      <4>1. log'[j].page = q /\ log'[j].pageIdxInWAL = n
        BY <1>3, <1>8, <3>2
      <4>2. n < numPages' /\ n \in DOMAIN frames' /\ updates'[q] = 1
        BY <1>1, <1>2, <1>7, <1>10 DEF TypeOK
      <4> QED BY <1>1, <1>10, <4>1, <4>2 DEF HasFrame
    <3> QED BY <1>9, <3>1, <3>2
  <2> QED BY <1>17, <1>18, <2>1, <2>2 DEF PagesAre
<1>20. PagesDiffer'
  <2>1. \A j \in PageRecords', k \in DOMAIN chain' : chain'[k].page # log'[j].pageIdxInWAL
    BY <1>3, <1>8, <1>9, <1>12, <1>15
  <2>2. \A i \in unmarked' : i < Len(file')
    <3>1. \A i \in unmarked : /\ i \in Nat /\ i < Len(file)
                              /\ \A k \in DOMAIN chain : chain[k].page # i
      BY <1>5, <1>10 DEF PagesDiffer, TypeOK
    <3> QED BY <1>1, <1>6, <3>1
  <2>3. \A j, k \in PageRecords : j # k =>
            log'[j].page # log'[k].page /\ log'[j].pageIdxInWAL # log'[k].pageIdxInWAL
    BY <1>5, <1>9 DEF PagesDiffer
  <2>4. \A j \in PageRecords : LET m == Len(log) + 1 IN
            log'[j].page # log'[m].page /\ log'[j].pageIdxInWAL # log'[m].pageIdxInWAL
    BY <1>2, <1>3, <1>8, <1>9, <1>13, <1>16
  <2>5. \A j, k \in PageRecords' : j # k =>
            log'[j].page # log'[k].page /\ log'[j].pageIdxInWAL # log'[k].pageIdxInWAL
    BY <1>9, <2>3, <2>4
  <2> QED BY <1>14, <2>1, <2>2, <2>5 DEF PagesDiffer
<1>21. VersionsLogged'
    BY <1>17 DEF IsLogged, VersionsLogged
<1>22. PagesInv'
    BY <1>19, <1>20, <1>21, PagesForm, PTL
<1> QED BY <1>4, <1>22 DEF UntornInv

\* A further update of a page: its WAL page is in a frame, or was written and is read back.
LEMMA UpdateAgainStep ==
    ASSUME TypeOK, WholeInv, TypeOK', UntornInv, NEW q \in Pages, UpdatePageAgain(q)
    PROVE  UntornInv'
<1> DEFINE n == version[q]
<1>1. /\ phase = "active" /\ phase' = phase /\ n # NoPage
      /\ updates' = [updates EXCEPT ![q] = @ + 1]
      /\ UNCHANGED <<replayer, file, original, committed, transaction, logged, numPages, header,
                     currentHeaderPageIdx, offsetInCurrentHeaderPage, version>>
    BY DEF UpdatePageAgain
<1>2. ChainInv /\ MemoryInv /\ DiskInv /\ PagesDiffer /\ PagesAre /\ VersionsLogged /\ CommitInv
    BY <1>1, PagesForm DEF UntornInv, Working
<1>3. /\ chain' = chain /\ log' = log /\ (ChainInv' <=> ChainInv)
      /\ PageRecords' = PageRecords /\ (IsCommitted' <=> IsCommitted)
      /\ (\A p : IsLogged(p)' <=> IsLogged(p))
    BY <1>1, SameLog
<1>4. PICK m \in PageRecords : log[m].page = q /\ log[m].pageIdxInWAL = n
    BY <1>1, <1>2 DEF PagesAre
<1>5. /\ DOMAIN frames' = DOMAIN frames \cup {n} /\ frames'[n].data = transaction
      /\ \A i \in DOMAIN frames : i # n => frames'[i] = frames[i]
      /\ n \in DOMAIN frames => frames'[n] = DataPage(transaction, frames[n].numUpdates + 1)
      /\ n \notin DOMAIN frames => UpdatesEvicted
  <2>1. PICK x \in Nat : /\ DOMAIN frames' = DOMAIN frames \cup {n}
                         /\ frames'[n] = DataPage(transaction, x)
                         /\ \A i \in DOMAIN frames : i # n => frames'[i] = frames[i]
                         /\ n \in DOMAIN frames => x = frames[n].numUpdates + 1
    BY UpdatedFrame
  <2>2. DataPage(transaction, x).data = transaction
    BY DEF DataPage
  <2>3. n \notin DOMAIN frames => UpdatesEvicted
    BY DEF UpdatePageAgain
  <2> QED BY <2>1, <2>2, <2>3
<1>6. /\ updates \in [Pages -> Nat] /\ updates'[q] = updates[q] + 1 /\ updates'[q] # 0
      /\ updates[q] # 0 /\ \A p \in Pages : p # q => updates'[p] = updates[p]
  <2>1. updates \in [Pages -> Nat]
    BY DEF TypeOK
  <2>2. updates[q] # 0
    BY <1>2, <1>4 DEF PagesAre, IsLogged
  <2> QED BY <1>1, <2>1, <2>2
<1>7. \A j \in PageRecords : /\ log[j].page \in Pages /\ log[j].pageIdxInWAL \in Nat
                             /\ j # m => log[j].page # q /\ log[j].pageIdxInWAL # n
  <2>1. \A j \in PageRecords : log[j].page \in Pages /\ log[j].pageIdxInWAL \in Nat
    BY PagesOfRecords
  <2> QED BY <1>2, <1>4, <2>1 DEF PagesDiffer
<1>8. PagesAre'
  <2>1. ASSUME NEW j \in PageRecords
        PROVE  /\ \/ log[j].pageIdxInWAL \in DOMAIN frames'
                  \/ HasPage(file', transaction', updates', log[j].page, log[j].pageIdxInWAL)
               /\ HasFrame(frames', transaction', updates', log[j].page, log[j].pageIdxInWAL)
    <3>1. /\ \/ log[j].pageIdxInWAL \in DOMAIN frames
             \/ HasPage(file, transaction, updates, log[j].page, log[j].pageIdxInWAL)
          /\ HasFrame(frames, transaction, updates, log[j].page, log[j].pageIdxInWAL)
      BY <1>2 DEF PagesAre
    <3>2. CASE j = m
      <4>1. n \in DOMAIN frames'
        BY <1>5
      <4>2. UpdatesEvicted \/ Contents(frames'[n]) = <<transaction', updates'[q]>>
        <5>1. SUFFICES ASSUME ~UpdatesEvicted
                       PROVE  Contents(frames'[n]) = <<transaction, updates[q] + 1>>
          BY <1>1, <1>6
        <5>2. n \in DOMAIN frames /\ Contents(frames[n]) = <<transaction, updates[q]>>
          BY <1>4, <1>5, <3>1, <3>2, <5>1 DEF HasFrame
        <5>3. frames[n].numUpdates = updates[q]
          BY <5>2 DEF Contents
        <5>4. frames'[n] = DataPage(transaction, updates[q] + 1)
          BY <1>5, <5>2, <5>3
        <5> QED BY <5>4 DEF DataPage, Contents
      <4> QED BY <1>4, <3>2, <4>1, <4>2 DEF HasFrame
    <3>3. CASE j # m
      <4>1. log[j].page \in Pages /\ log[j].page # q /\ log[j].pageIdxInWAL # n
        BY <1>7, <3>3
      <4>2. updates'[log[j].page] = updates[log[j].page]
        BY <1>6, <4>1
      <4> QED BY <1>1, <1>5, <3>1, <4>1, <4>2 DEF HasPage, HasFrame
    <3> QED BY <3>2, <3>3
  <2>2. \A p \in Pages : updates'[p] # 0 <=> IsLogged(p)'
    BY <1>2, <1>3, <1>6 DEF PagesAre
  <2>3. /\ \A j \in PageRecords : log[j].pageIdxInWAL < numPages /\ version[log[j].page] # NoPage
        /\ \A p \in Pages : version[p] # NoPage =>
               \E j \in PageRecords : log[j].page = p /\ log[j].pageIdxInWAL = version[p]
    BY <1>2 DEF PagesAre
  <2> QED BY <1>1, <1>3, <2>1, <2>2, <2>3 DEF PagesAre
<1>9. PagesDiffer'
  <2>1. \A i \in DOMAIN frames' :
            frames'[i].data = transaction' /\ \A k \in DOMAIN chain' : chain'[k].page # i
    <3>1. \A k \in DOMAIN chain : chain[k].page # n
      BY <1>2, <1>4 DEF PagesDiffer
    <3>2. \A i \in DOMAIN frames :
              frames[i].data = transaction /\ \A k \in DOMAIN chain : chain[k].page # i
      BY <1>2 DEF PagesDiffer
    <3> QED BY <1>1, <1>3, <1>5, <3>1, <3>2
  <2>2. \A i \in unmarked' : i < Len(file')
    <3>1. \A i \in unmarked' : i \in unmarked \/ (i = n /\ n \notin DOMAIN frames)
      BY DEF UpdatePageAgain
    <3>2. n \notin DOMAIN frames => n < Len(file)
      BY <1>2, <1>4 DEF PagesAre, HasPage
    <3> QED BY <1>1, <1>2, <3>1, <3>2 DEF PagesDiffer
  <2>3. /\ \A j \in PageRecords', k \in DOMAIN chain' : chain'[k].page # log'[j].pageIdxInWAL
        /\ \A j, k \in PageRecords' : j # k =>
               log'[j].page # log'[k].page /\ log'[j].pageIdxInWAL # log'[k].pageIdxInWAL
    BY <1>2, <1>3 DEF PagesDiffer
  <2> QED BY <2>1, <2>2, <2>3 DEF PagesDiffer
<1>10. VersionsLogged'
    BY <1>1, <1>2, <1>3 DEF VersionsLogged
<1>11. PagesInv'
    BY <1>8, <1>9, <1>10, PagesForm, PTL
<1>12. MemoryInv'
  <2>1. MemoryIs
    BY <1>1, <1>2, MemoryForm DEF Working
  <2>2. MemoryIs'
    BY <1>1, <1>3, <2>1 DEF MemoryIs
  <2> QED BY <2>2, MemoryForm
<1>13. DiskInv'
  <2>1. log # <<>>
    BY <1>4 DEF PageRecords
  <2> QED BY <1>1, <1>3, <2>1 DEF DiskInv
<1>14. CommitInv'
  <2>1. /\ \A j \in DOMAIN log : log[j] = CommitRecord => j = Len(log)
        /\ ~IsCommitted /\ (UpdatesEvicted \/ original = committed)
    BY <1>1, <1>2 DEF CommitInv
  <2> QED BY <1>1, <1>3, <2>1 DEF CommitInv
<1>15. ReplayInv'
    BY <1>1 DEF ReplayInv
<1> QED BY <1>2, <1>3, <1>11, <1>12, <1>13, <1>14, <1>15 DEF UntornInv

\* A page of a frame is written to the WAL file: no header page is.
LEMMA FrameStep ==
    ASSUME TypeOK, WholeInv, TypeOK', UntornInv,
           ~UpdatesEvicted => unmarked = {},
           NEW i \in DOMAIN frames, EvictWALPage(i) \/ FlushDirtyPage(i)
    PROVE  UntornInv'
<1>1. /\ file' = IF i \in unmarked THEN file ELSE WritePage(file, i, frames[i])
      /\ phase \in Working /\ phase' = phase
      /\ frames' = Restrict(frames, DOMAIN frames \ {i}) /\ unmarked' = unmarked \ {i}
      /\ UNCHANGED <<replayer, original, committed, logged, transaction, updates, numPages, header,
                     currentHeaderPageIdx, offsetInCurrentHeaderPage, version>>
    BY DEF EvictWALPage, FlushDirtyPage, LeaveFrame, history, Working
<1>2. /\ ChainInv /\ MemoryInv /\ DiskInv /\ PagesDiffer /\ PagesAre /\ CommitInv
      /\ phase \in {"ready", "active", "replaying"} => VersionsLogged
    BY <1>1, PagesForm DEF UntornInv
<1>3. /\ chain' = chain /\ log' = log /\ (ChainInv' <=> ChainInv)
      /\ PageRecords' = PageRecords /\ (IsCommitted' <=> IsCommitted)
      /\ (\A p : IsLogged(p)' <=> IsLogged(p))
    BY <1>1, SameLog
<1>4. /\ i \in Nat /\ frames[i] \in HeaderAndDataPages /\ IsWhole(frames[i])
      /\ frames[i].data = transaction /\ \A k \in DOMAIN chain : chain[k].page # i
  <2>1. /\ i \in 1..(numPages - 1) /\ frames[i] \in HeaderAndDataPages
        /\ frames[i].numRecords = 0 /\ frames[i].records = <<>>
    BY DEF TypeOK, WholeInv
  <2>2. frames[i].data = transaction /\ \A k \in DOMAIN chain : chain[k].page # i
    BY <1>2 DEF PagesDiffer
  <2> QED BY <2>1, <2>2 DEF IsWhole
<1>5. /\ i < Len(file') /\ (i \notin unmarked => file'[i + 1] = frames[i])
      /\ \A j \in Nat : j # i /\ j < Len(file) => j < Len(file') /\ file'[j + 1] = file[j + 1]
  <2>1. CASE i \in unmarked
    BY <1>1, <1>2, <2>1 DEF PagesDiffer
  <2>2. CASE i \notin unmarked
    BY <1>1, <1>4, <2>2, PagesKept
  <2> QED BY <2>1, <2>2
<1>6. /\ DOMAIN frames' = DOMAIN frames \ {i}
      /\ \A j \in DOMAIN frames' : frames'[j] = frames[j]
    BY <1>1, WrittenFrame
<1>7. /\ Len(chain) \in Nat /\ Len(chain) - 1 \in Nat /\ DOMAIN chain = 1..Len(chain)
      /\ \A k \in 1..Len(chain) : chain[k].page \in Nat
    BY <1>2, ChainFacts
<1>8. MemoryInv'
  <2>1. MemoryIs
    BY <1>1, <1>2, MemoryForm
  <2>2. \A k \in 1..(Len(chain) - 1) : chain[k].page \in Nat /\ chain[k].page # i
    BY <1>4, <1>7
  <2>3. OnDisk(chain, log, file', Len(chain) - 1)
    BY <1>5, <2>1, <2>2 DEF MemoryIs, OnDisk
  <2>4. MemoryIs'
    BY <1>1, <1>3, <2>1, <2>3 DEF MemoryIs
  <2> QED BY <2>4, MemoryForm
<1>9. DiskInv'
  <2>1. phase = "active" => log # <<>>
    BY <1>2 DEF DiskInv
  <2>2. CASE phase # "flushing"
    BY <1>1, <1>3, <2>1, <2>2 DEF DiskInv, Working
  <2>3. CASE phase = "flushing"
    <3>1. log # <<>> /\ OnDisk(chain, log, file, Len(chain))
      BY <1>2, <2>3, MemoryForm DEF DiskInv
    <3>2. \A k \in 1..Len(chain) : chain[k].page \in Nat /\ chain[k].page # i
      BY <1>4, <1>7
    <3>3. OnDisk(chain, log, file', Len(chain))
      BY <1>5, <3>1, <3>2 DEF OnDisk
    <3>4. AreOnDisk(Len(chain))'
      BY <1>3, <3>3, MemoryForm
    <3> QED BY <1>1, <1>3, <2>3, <3>1, <3>4 DEF DiskInv
  <2> QED BY <2>2, <2>3
<1>a. PagesAre'
  <2>1. \A j \in PageRecords : log[j].pageIdxInWAL \in Nat
    BY PagesOfRecords
  <2>2. \A j \in PageRecords :
            \/ log[j].pageIdxInWAL \in DOMAIN frames'
            \/ HasPage(file', transaction', updates', log[j].page, log[j].pageIdxInWAL)
    <3>1. SUFFICES ASSUME NEW j \in PageRecords, log[j].pageIdxInWAL \notin DOMAIN frames'
                   PROVE  HasPage(file', transaction', updates', log[j].page, log[j].pageIdxInWAL)
      OBVIOUS
    <3>2. CASE log[j].pageIdxInWAL = i
      <4>1. HasFrame(frames, transaction, updates, log[j].page, i)
        BY <1>2, <3>2 DEF PagesAre
      <4>2. i \notin unmarked \/ UpdatesEvicted
        BY Zenon
      <4> QED BY <1>1, <1>5, <3>2, <4>1, <4>2 DEF HasPage, HasFrame
    <3>3. CASE log[j].pageIdxInWAL # i
      <4>1. HasPage(file, transaction, updates, log[j].page, log[j].pageIdxInWAL)
        BY <1>2, <1>6, <3>1, <3>3 DEF PagesAre
      <4> QED BY <1>1, <1>5, <2>1, <3>3, <4>1 DEF HasPage
    <3> QED BY <3>2, <3>3
  <2>3. \A j \in PageRecords :
            HasFrame(frames', transaction', updates', log[j].page, log[j].pageIdxInWAL)
    BY <1>1, <1>2, <1>6 DEF PagesAre, HasFrame
  <2>4. /\ \A j \in PageRecords : log[j].pageIdxInWAL < numPages /\ version[log[j].page] # NoPage
        /\ \A p \in Pages : updates[p] # 0 <=> IsLogged(p)
        /\ \A p \in Pages : version[p] # NoPage =>
               \E j \in PageRecords : log[j].page = p /\ log[j].pageIdxInWAL = version[p]
    BY <1>2 DEF PagesAre
  <2> QED BY <1>1, <1>3, <2>2, <2>3, <2>4 DEF PagesAre
<1>b. PagesDiffer'
  <2>1. \A j \in DOMAIN frames' :
            frames'[j].data = transaction' /\ \A k \in DOMAIN chain' : chain'[k].page # j
    BY <1>1, <1>2, <1>3, <1>6 DEF PagesDiffer
  <2>2. \A j \in unmarked' : j < Len(file')
    <3>1. \A j \in unmarked : j \in Nat /\ j < Len(file)
      BY SMTT(20), <1>2 DEF PagesDiffer, TypeOK
    <3> QED BY <1>1, <1>5, <3>1
  <2>3. /\ \A j \in PageRecords', k \in DOMAIN chain' : chain'[k].page # log'[j].pageIdxInWAL
        /\ \A j, k \in PageRecords' : j # k =>
               log'[j].page # log'[k].page /\ log'[j].pageIdxInWAL # log'[k].pageIdxInWAL
    BY <1>2, <1>3 DEF PagesDiffer
  <2> QED BY <2>1, <2>2, <2>3 DEF PagesDiffer
<1>c. (phase \in {"ready", "active", "replaying"} => VersionsLogged)'
    BY <1>1, <1>2, <1>3 DEF VersionsLogged
<1>10. PagesInv'
    BY <1>a, <1>b, <1>c, PagesForm, PTL
<1>11. CommitInv'
    BY ZenonT(30), <1>1, <1>2, <1>3 DEF CommitInv, Working
<1>12. ReplayInv'
    BY <1>1 DEF ReplayInv, Working
<1> QED BY <1>2, <1>3, <1>8, <1>9, <1>10, <1>11, <1>12 DEF UntornInv

\* flushHeaderPages: from now on the commit is durable.
LEMMA FlushStep ==
    ASSUME TypeOK, WholeInv, TypeOK', UntornInv, FlushHeaderPages
    PROVE  UntornInv'
<1>1. /\ phase = "committing" /\ phase' = "flushing"
      /\ file' = WritePage(file, currentHeaderPageIdx, header) /\ committed' = Updated
      /\ UNCHANGED <<memory, replayer, original, logged, transaction, updates>>
    BY DEF FlushHeaderPages
<1>2. ChainInv /\ MemoryInv /\ PagesDiffer /\ PagesAre /\ CommitInv
    BY <1>1, PagesForm DEF UntornInv, Working
<1>3. /\ chain' = chain /\ log' = log /\ (ChainInv' <=> ChainInv)
      /\ PageRecords' = PageRecords /\ (IsCommitted' <=> IsCommitted)
      /\ (\A p : IsLogged(p)' <=> IsLogged(p))
    BY <1>1, SameLog
<1>4. /\ OnDisk(chain, log, file', Len(chain))
      /\ \A j \in Nat : j < Len(file) /\ (\A k \in DOMAIN chain : chain[k].page # j) =>
             j < Len(file') /\ file'[j + 1] = file[j + 1]
    BY <1>1, <1>2, HeaderWritten DEF Working
<1>5. IsCommitted /\ log # <<>> /\ (UpdatesEvicted \/ original = committed)
    BY <1>1, <1>2 DEF CommitInv, IsCommitted
<1>6. MemoryInv'
  <2>1. MemoryIs
    BY <1>1, <1>2, MemoryForm DEF Working
  <2>2. OnDisk(chain, log, file', Len(chain) - 1)
    <3>1. Len(chain) \in Nat
      BY <1>2, ChainFacts
    <3>2. \A k \in 1..(Len(chain) - 1) : k \in 1..Len(chain)
      BY <3>1
    <3> QED BY <1>4, <3>2 DEF OnDisk
  <2>3. MemoryIs'
    BY <1>1, <1>3, <2>1, <2>2 DEF MemoryIs, memory
  <2> QED BY <2>3, MemoryForm
<1>7. DiskInv'
  <2>1. AreOnDisk(Len(chain))'
    BY <1>3, <1>4, MemoryForm
  <2> QED BY <1>1, <1>3, <1>5, <2>1 DEF DiskInv
<1>8. PagesInv'
  <2>1. \A j \in PageRecords :
            /\ log[j].pageIdxInWAL \in Nat
            /\ \A k \in DOMAIN chain : chain[k].page # log[j].pageIdxInWAL
    BY <1>2, PagesOfRecords DEF PagesDiffer
  <2>2. \A j \in PageRecords :
            HasPage(file, transaction, updates, log[j].page, log[j].pageIdxInWAL) =>
                HasPage(file', transaction', updates', log[j].page, log[j].pageIdxInWAL)
    BY <1>1, <1>4, <2>1 DEF HasPage
  <2>3. PagesAre'
    BY <1>1, <1>2, <1>3, <2>2 DEF PagesAre, memory
  <2>4. \A i \in unmarked' : i < Len(file')
    <3>1. \A i \in unmarked : /\ i \in Nat /\ i < Len(file)
                              /\ \A k \in DOMAIN chain : chain[k].page # i
      BY SMTT(20), <1>2 DEF PagesDiffer, TypeOK
    <3> QED BY <1>1, <1>4, <3>1 DEF memory
  <2>5. PagesDiffer'
    BY <1>1, <1>2, <1>3, <2>4 DEF PagesDiffer, memory
  <2>6. (phase \in {"ready", "active", "replaying"} => VersionsLogged)'
    BY <1>1
  <2> QED BY <2>3, <2>5, <2>6, PagesForm, PTL
<1>9. CommitInv'
  <2>1. \A p \in Pages : updates[p] # 0 <=> IsLogged(p)
    BY <1>2 DEF PagesAre
  <2>2. \A p \in Pages : committed'[p] = IF updates[p] # 0 THEN <<transaction, updates[p]>>
                                                            ELSE committed[p]
    BY <1>1 DEF Updated
  <2>3. \A p \in Pages : IF IsLogged(p) THEN committed'[p] = <<transaction, updates[p]>>
                                        ELSE UpdatesEvicted \/ committed'[p] = original[p]
    BY <1>5, <2>1, <2>2
  <2>4. \A p \in Pages : IF IsLogged(p)' THEN committed'[p] = <<transaction', updates'[p]>>
                                         ELSE UpdatesEvicted \/ committed'[p] = original'[p]
    BY <1>1, <1>3, <2>3
  <2>5. \A j \in DOMAIN log' : log'[j] = CommitRecord => j = Len(log')
    BY <1>2, <1>3 DEF CommitInv
  <2> QED BY <1>1, <1>3, <1>5, <2>4, <2>5 DEF CommitInv
<1>10. ReplayInv'
    BY <1>1 DEF ReplayInv
<1> QED BY <1>2, <1>3, <1>6, <1>7, <1>8, <1>9, <1>10 DEF UntornInv

\* A replay begins before the first record of a log that is on disk.
LEMMA StartStep ==
    ASSUME TypeOK, WholeInv, TypeOK', UntornInv,
           NEW recovering \in BOOLEAN, NEW checkpoint \in BOOLEAN,
           StartReplay(recovering, checkpoint), UNCHANGED <<memory, original, logged, history>>,
           \A i \in unmarked : i < Len(file'),
           log # <<>> => OnDisk(chain, log, file', Len(chain)),
           log = <<>> => file' = <<>>,
           checkpoint <=> IsCommitted,
           recovering => \A p \in Pages : version[p] = NoPage,
           \A p \in Pages : version[p] # NoPage => IsLogged(p),
           IsCommitted => /\ phase # "committing"
                          /\ \A j \in PageRecords : HasPage(file', transaction, updates, log[j].page, log[j].pageIdxInWAL)
    PROVE  UntornInv'
<1>1. /\ iterator' = [header |-> IF file' = <<>> THEN EmptyHeader ELSE file'[1], numRead |-> 0]
      /\ isRecovering' = recovering /\ isCheckpoint' = checkpoint /\ replayed' = <<>>
      /\ phase' = "replaying"
    BY DEF StartReplay
<1>2. ChainInv /\ MemoryInv /\ PagesDiffer /\ CommitInv
    BY PagesForm DEF UntornInv
<1>3. /\ chain' = chain /\ log' = log /\ (ChainInv' <=> ChainInv)
      /\ PageRecords' = PageRecords /\ (IsCommitted' <=> IsCommitted)
      /\ (\A p : IsLogged(p)' <=> IsLogged(p))
    BY SameLog
<1>4. MemoryInv'
    BY <1>1 DEF MemoryInv, Working
<1>5. DiskInv'
  <2>1. log # <<>> => AreOnDisk(Len(chain))'
    BY <1>3, MemoryForm
  <2> QED BY <1>1, <1>3, <2>1 DEF DiskInv, memory
<1>6. PagesInv'
  <2>1. PagesDiffer'
    BY <1>2, <1>3 DEF PagesDiffer, memory, history
  <2>2. VersionsLogged' /\ (phase \in Working => PagesAre)'
    BY <1>1, <1>3 DEF VersionsLogged, memory, Working
  <2> QED BY <2>1, <2>2, PagesForm, PTL
<1>7. CommitInv'
  <2>1. \A j \in DOMAIN log : log[j] = CommitRecord => j = Len(log)
    BY <1>2 DEF CommitInv
  <2>2. IsCommitted => \A p \in Pages : 
                            IF IsLogged(p) THEN committed[p] = <<transaction, updates[p]>>
                                           ELSE UpdatesEvicted \/ committed[p] = original[p]
    BY <1>2 DEF CommitInv
  <2>3. ~IsCommitted => UpdatesEvicted \/ original = committed
    BY <1>2 DEF CommitInv
  <2>4. IsCommitted => \A j \in PageRecords' : IsWritten(j)'
    BY <1>3, WrittenForm DEF history
  <2>5. /\ \A j \in DOMAIN log' : log'[j] = CommitRecord => j = Len(log')
        /\ isCheckpoint' <=> IsCommitted'
    BY <1>1, <1>3, <2>1
  <2>6. IsCommitted' => \A p \in Pages : 
            IF IsLogged(p)' THEN committed'[p] = <<transaction', updates'[p]>>
                            ELSE UpdatesEvicted \/ committed'[p] = original'[p]
    BY <1>3, <2>2 DEF history
  <2>7. ~IsCommitted' => UpdatesEvicted \/ original' = committed'
    BY <1>3, <2>3 DEF history
  <2> QED BY <1>1, <1>3, <2>4, <2>5, <2>6, <2>7 DEF CommitInv
<1>8. ReplayInv'
  <2>1. iterator'.numRead = 0 /\ iterator'.header = IF file' = <<>> THEN EmptyHeader ELSE file'[1]
    BY <1>1
  <2>2. log # <<>> => iterator'.header = file'[1]
    <3>1. Len(chain) \in Nat /\ 1 \in 1..Len(chain) /\ chain[1].page = 0
      BY <1>2, ChainFacts
    <3>2. log # <<>> => file' # <<>>
      BY <3>1 DEF OnDisk
    <3> QED BY <2>1, <3>2
  <2>3. log = <<>> => iterator'.header.numRecords = 0
    BY <2>1, MadePages
  <2>4. Stands(chain, log, iterator', 0)
    BY <1>2, <2>1, <2>2, <2>3, StandsFirst
  <2>5. StandsAfter(Len(replayed))'
    <3>1. Len(replayed') = 0
      BY <1>1
    <3> QED BY <1>3, <2>4, <3>1, MemoryForm
  <2>6. DOMAIN replayed' = {} /\ \A j \in PageRecords' : ~(j <= Len(replayed'))
    BY SMTT(20), <1>1 DEF PageRecords, TypeOK
  <2> QED BY <1>1, <2>5, <2>6 DEF ReplayInv
<1> QED BY <1>2, <1>3, <1>4, <1>5, <1>6, <1>7, <1>8 DEF UntornInv

\* A checkpoint begins when no page is left in a frame.
LEMMA CheckpointStep ==
    ASSUME TypeOK, WholeInv, TypeOK', UntornInv, StartCheckpoint
    PROVE  UntornInv'
<1>1. /\ phase = "flushing" /\ DOMAIN frames = {} /\ StartReplay(FALSE, TRUE)
      /\ UNCHANGED <<memory, original, logged, history>>
      /\ file' = IF IsEmptyWAL THEN file ELSE WritePage(file, currentHeaderPageIdx, header)
    BY DEF StartCheckpoint, StartReplay
<1>2. ChainInv /\ MemoryInv /\ PagesDiffer /\ PagesAre /\ CommitInv
    BY <1>1, PagesForm DEF UntornInv, Working
<1>3. /\ log # <<>> => OnDisk(chain, log, file', Len(chain))
      /\ \A j \in Nat : j < Len(file) /\ (\A k \in DOMAIN chain : chain[k].page # j) =>
             j < Len(file') /\ file'[j + 1] = file[j + 1]
    BY <1>1, <1>2, HeaderFlushed DEF Working
<1>4. IsCommitted /\ log # <<>>
    BY <1>1, <1>2 DEF CommitInv, IsCommitted
<1>5. \A j \in PageRecords : HasPage(file', transaction, updates, log[j].page, log[j].pageIdxInWAL)
  <2>1. \A j \in PageRecords :
            /\ log[j].pageIdxInWAL \in Nat
            /\ \A k \in DOMAIN chain : chain[k].page # log[j].pageIdxInWAL
    BY <1>2, PagesOfRecords DEF PagesDiffer
  <2>2. \A j \in PageRecords : HasPage(file, transaction, updates, log[j].page, log[j].pageIdxInWAL)
    BY <1>1, <1>2 DEF PagesAre
  <2> QED BY <1>3, <2>1, <2>2 DEF HasPage
<1>6. \A p \in Pages : version[p] # NoPage => IsLogged(p)
    BY <1>2 DEF PagesAre, IsLogged
<1>7. unmarked = {}
    BY <1>1 DEF TypeOK
<1> QED BY <1>1, <1>3, <1>4, <1>5, <1>6, <1>7, StartStep

\* A rollback replays what was logged; no record of it is a commit.
LEMMA RollbackStep ==
    ASSUME TypeOK, WholeInv, TypeOK', UntornInv, StartRollback
    PROVE  UntornInv'
<1>1. /\ phase = "active" /\ StartReplay(FALSE, FALSE)
      /\ UNCHANGED <<memory, original, logged, history>>
      /\ file' = IF IsEmptyWAL THEN file ELSE WritePage(file, currentHeaderPageIdx, header)
    BY DEF StartRollback, StartReplay
<1>2. ChainInv /\ MemoryInv /\ DiskInv /\ PagesDiffer /\ VersionsLogged /\ CommitInv
    BY <1>1, PagesForm DEF UntornInv
<1>3. /\ log # <<>> => OnDisk(chain, log, file', Len(chain))
      /\ log = <<>> => file' = file
      /\ \A j \in Nat : j < Len(file) /\ (\A k \in DOMAIN chain : chain[k].page # j) =>
             j < Len(file') /\ file'[j + 1] = file[j + 1]
    BY <1>1, <1>2, HeaderFlushed DEF Working
<1>4. ~IsCommitted /\ (log = <<>> => file' = <<>>)
    BY <1>1, <1>2, <1>3 DEF CommitInv, DiskInv
<1>5. \A p \in Pages : version[p] # NoPage => IsLogged(p)
    BY <1>2 DEF VersionsLogged
<1>6. \A i \in unmarked : i < Len(file')
  <2>1. \A i \in unmarked : /\ i \in Nat /\ i < Len(file)
                            /\ \A k \in DOMAIN chain : chain[k].page # i
    BY SMTT(30), <1>2 DEF PagesDiffer, TypeOK
  <2> QED BY <1>3, <2>1
<1> QED BY <1>1, <1>3, <1>4, <1>5, <1>6, StartStep

\* A recovery replays a log that ends with a commit.
LEMMA RecoverStep ==
    ASSUME TypeOK, WholeInv, TypeOK', UncommittedInv, UntornInv, RecoverCommitted
    PROVE  UntornInv'
<1>1. /\ phase = "scanning" /\ ~HasNextRecord /\ isLastLoggedRecordCommit /\ StartReplay(TRUE, TRUE)
      /\ UNCHANGED <<memory, original, logged, history>>
      /\ file' = WritePage(file, currentHeaderPageIdx, header)
    BY DEF RecoverCommitted, StartReplay
<1>2. ChainInv /\ DiskInv /\ PagesDiffer /\ CommitInv /\ ReplayInv
    BY PagesForm DEF UntornInv
<1>3. file # <<>> /\ header = file[1] /\ currentHeaderPageIdx = 0 /\ file \in Seq(HeaderAndDataPages)
    BY <1>1 DEF UncommittedInv, TypeOK
<1>4. /\ \A j \in Nat : j < Len(file) => j < Len(file') /\ file'[j + 1] = file[j + 1]
  <2>1. /\ 0 < Len(file') /\ file'[0 + 1] = header
        /\ \A j \in Nat : j # 0 /\ j < Len(file) => j < Len(file') /\ file'[j + 1] = file[j + 1]
    BY <1>1, <1>3, PagesKept DEF TypeOK, WholeInv
  <2> QED BY <1>3, <2>1
<1>5. log # <<>> /\ OnDisk(chain, log, file, Len(chain))
    BY <1>1, <1>2, MemoryForm DEF DiskInv
<1>6. OnDisk(chain, log, file', Len(chain))
  <2>1. \A k \in 1..Len(chain) : chain[k].page \in Nat
    BY <1>2, ChainFacts
  <2> QED BY <1>4, <1>5, <2>1 DEF OnDisk
<1>7. IsCommitted
  <2>1. PICK n \in 0..Len(log) : /\ StandsAfter(n)
                                 /\ isLastLoggedRecordCommit <=> n > 0 /\ log[n] = CommitRecord
    BY <1>1, <1>2 DEF ReplayInv
  <2>2. Stands(chain, log, iterator, n)
    BY <2>1, StandsInChain
  <2>3. n = Len(log)
    BY <1>1, <1>2, <2>2, StandsLast
  <2> QED BY <1>1, <1>5, <2>1, <2>3 DEF IsCommitted
<1>8. \A j \in PageRecords : HasPage(file', transaction, updates, log[j].page, log[j].pageIdxInWAL)
  <2>1. \A j \in PageRecords : log[j].pageIdxInWAL \in Nat
    BY PagesOfRecords
  <2>2. \A j \in PageRecords : HasPage(file, transaction, updates, log[j].page, log[j].pageIdxInWAL)
    BY <1>1, <1>2, <1>7, WrittenForm DEF CommitInv
  <2> QED BY <1>4, <2>1, <2>2 DEF HasPage
<1>9. \A p \in Pages : version[p] = NoPage
    BY <1>1, <1>2 DEF DiskInv
<1>10. \A i \in unmarked : i < Len(file')
  <2>1. \A i \in unmarked : i \in Nat /\ i < Len(file)
    BY SMTT(40), <1>2 DEF PagesDiffer, TypeOK
  <2> QED BY <1>4, <2>1
<1> QED BY <1>1, <1>5, <1>6, <1>7, <1>8, <1>9, <1>10, StartStep

\* A record is replayed: a checkpoint copies the page the record names, which is on disk.
LEMMA ReplayStep ==
    ASSUME TypeOK, WholeInv, TypeOK', UntornInv, ReplayRecord
    PROVE  UntornInv'
<1> DEFINE n == Len(replayed)
           q == log[n + 1].page
           i == log[n + 1].pageIdxInWAL
           Has(f, p) == UpdatesEvicted \/ f[p] = <<transaction, updates[p]>>
<1>1. /\ phase = "replaying" /\ phase' = phase /\ GetNextRecord
      /\ replayed' = Append(replayed, NextRecord)
      /\ UNCHANGED <<isRecovering, isCheckpoint, file, logged, committed, transaction, updates,
                     frames, unmarked>>
    BY DEF ReplayRecord, history
<1>2. /\ ChainInv /\ DiskInv /\ PagesDiffer /\ VersionsLogged /\ CommitInv
      /\ ReplayInv
    BY <1>1, PagesForm DEF UntornInv
<1>3. /\ chain' = chain /\ log' = log /\ (ChainInv' <=> ChainInv)
      /\ PageRecords' = PageRecords /\ (IsCommitted' <=> IsCommitted)
      /\ (\A p : IsLogged(p)' <=> IsLogged(p))
    BY <1>1, SameLog
<1>4. log # <<>> => OnDisk(chain, log, file, Len(chain))
    BY <1>1, <1>2, MemoryForm DEF DiskInv
<1>5. /\ n \in Nat /\ n + 1 \in 1..Len(log) /\ NextRecord = log[n + 1]
      /\ Stands(chain, log, iterator', n + 1)
  <2>1. Stands(chain, log, iterator, n)
    BY <1>1, <1>2, MemoryForm DEF ReplayInv
  <2> QED BY <1>1, <1>2, <1>4, <2>1, StandsNext
<1>6. /\ log \in Seq(Records) /\ DOMAIN log = 1..Len(log) /\ log[n + 1] \in Records
      /\ n + 1 \in DOMAIN log
    BY SMTT(20), <1>5 DEF TypeOK
<1>7. /\ Len(replayed') = n + 1 /\ replayed'[n + 1] = log[n + 1]
      /\ DOMAIN replayed' = 1..(n + 1)
      /\ \A j \in 1..n : replayed'[j] = log[j]
  <2>1. replayed \in Seq(Records) /\ \A j \in DOMAIN replayed : replayed[j] = log[j]
    BY <1>1, <1>2 DEF ReplayInv, TypeOK
  <2>2. replayed' = Append(replayed, log[n + 1])
    BY <1>1, <1>5
  <2> QED BY <1>6, <2>1, <2>2
<1>8. \A j \in PageRecords : j <= n =>
          /\ isCheckpoint => Has(original, log[j].page)
          /\ version[log[j].page] = NoPage
    BY <1>1, <1>2 DEF ReplayInv, AreAllUpdates
<1>9. \A j \in PageRecords : j \in Nat /\ log[j] \in Records /\ log[j].page \in Pages
                             /\ log[j].pageIdxInWAL \in Nat
    BY <1>6, MadeRecords DEF PageRecords
<1>10. /\ isCheckpoint => \A j \in PageRecords : j <= n + 1 => Has(original', log[j].page)
       /\ \A j \in PageRecords : j <= n + 1 => version'[log[j].page] = NoPage
       /\ \A p \in Pages : version[p] = NoPage => version'[p] = NoPage
       /\ ~isCheckpoint => original' = original
       /\ \A p \in Pages : ~IsLogged(p) => original'[p] = original[p]
  <2>1. CASE log[n + 1].type # "PAGE"
    <3>1. UNCHANGED <<original, version>>
      BY <1>5, <2>1 DEF ReplayRecord
    <3>2. \A j \in PageRecords : j <= n + 1 => j <= n
      BY <1>5, <1>9, <2>1 DEF PageRecords
    <3> QED BY <1>8, <3>1, <3>2
  <2>2. CASE log[n + 1].type = "PAGE"
    <3>1. n + 1 \in PageRecords /\ q \in Pages /\ i \in Nat
      BY <1>6, <2>2, <1>9 DEF PageRecords
    <3>2. /\ pageBuffer' = IF isCheckpoint THEN ReadPage(pageBuffer, i) ELSE pageBuffer
          /\ original' = IF isCheckpoint THEN [original EXCEPT ![q] = Contents(pageBuffer')]
                                         ELSE original
          /\ version' = IF isRecovering THEN version ELSE [version EXCEPT ![q] = NoPage]
      BY <1>5, <2>2 DEF ReplayRecord
    <3>3. isCheckpoint => UpdatesEvicted \/ Contents(pageBuffer') = <<transaction, updates[q]>>
      <4>1. SUFFICES ASSUME isCheckpoint
                     PROVE  UpdatesEvicted \/ Contents(pageBuffer') = <<transaction, updates[q]>>
        OBVIOUS
      <4>a. IsWritten(n + 1)
        BY <1>1, <1>2, <3>1, <4>1 DEF CommitInv
      <4>2. i < Len(file) /\ (UpdatesEvicted \/ Contents(file[i + 1]) = <<transaction, updates[q]>>)
        BY <4>a, WrittenForm DEF HasPage
      <4>3. i # Len(file)
        <5>1. Len(file) \in Nat
          BY DEF TypeOK
        <5> HIDE DEF i
        <5> QED BY <3>1, <4>2, <5>1
      <4> QED BY <3>2, <4>1, <4>2, <4>3 DEF ReadPage
    <3> HIDE DEF q, i
    <3>4. original \in [Pages -> Nat \X Nat] /\ version \in [Pages -> (Nat \ {0}) \cup {NoPage}]
      BY DEF TypeOK
    <3>5. /\ \A p \in Pages : p # q \/ ~isCheckpoint => original'[p] = original[p]
          /\ isCheckpoint => Has(original', q)
      BY <3>1, <3>2, <3>3, <3>4
    <3>6. isRecovering => \A p \in Pages : version[p] = NoPage
      BY <1>1, <1>2 DEF DiskInv
    <3>7. version'[q] = NoPage /\ \A p \in Pages : p # q => version'[p] = version[p]
      BY <3>1, <3>2, <3>4, <3>6
    <3>8. \A j \in PageRecords : j <= n + 1 => j <= n \/ log[j].page = q
      BY <1>5, <1>9 DEF q
    <3>9. IsLogged(q)
      BY <3>1 DEF IsLogged, q
    <3>10. \A j \in PageRecords : j <= n + 1 => version'[log[j].page] = NoPage
      BY <1>8, <1>9, <3>7, <3>8
    <3>11. isCheckpoint => \A j \in PageRecords : j <= n + 1 => Has(original', log[j].page)
      BY <1>8, <1>9, <3>5, <3>8
    <3>12. \A p \in Pages : ~IsLogged(p) => original'[p] = original[p]
      BY <3>5, <3>9
    <3>13. \A p \in Pages : version[p] = NoPage => version'[p] = NoPage
      BY <3>7
    <3> QED BY <3>2, <3>10, <3>11, <3>12, <3>13
  <2> QED BY <2>1, <2>2
<1>11. MemoryInv'
    BY <1>1 DEF MemoryInv, Working
<1>12. DiskInv'
  <2>1. AreOnDisk(Len(chain))' <=> AreOnDisk(Len(chain))
    BY <1>1, <1>3, MemoryForm
  <2> QED BY <1>1, <1>2, <1>3, <1>10, <2>1 DEF DiskInv
<1>13. PagesInv'
  <2>1. PagesDiffer'
    BY <1>1, <1>2, <1>3 DEF PagesDiffer
  <2>2. VersionsLogged' /\ (phase \in Working => PagesAre)'
    BY <1>1, <1>2, <1>3, <1>10 DEF VersionsLogged, Working
  <2> QED BY <2>1, <2>2, PagesForm, PTL
<1>14. CommitInv'
  <2>1. /\ \A j \in DOMAIN log : log[j] = CommitRecord => j = Len(log)
        /\ isCheckpoint <=> IsCommitted
        /\ IsCommitted => \A j \in PageRecords : IsWritten(j)
        /\ IsCommitted => \A p \in Pages :
               IF IsLogged(p) THEN committed[p] = <<transaction, updates[p]>>
                              ELSE UpdatesEvicted \/ committed[p] = original[p]
        /\ ~IsCommitted => UpdatesEvicted \/ original = committed
    BY <1>1, <1>2 DEF CommitInv
  <2>2. /\ isCheckpoint' <=> IsCommitted'
        /\ \A j \in DOMAIN log' : log'[j] = CommitRecord => j = Len(log')
    BY <1>1, <1>3, <2>1
  <2>3. IsCommitted' => \A j \in PageRecords' : IsWritten(j)'
    BY <1>1, <1>3, <2>1, WrittenForm
  <2>4. IsCommitted' => \A p \in Pages :
            IF IsLogged(p)' THEN committed'[p] = <<transaction', updates'[p]>>
                            ELSE UpdatesEvicted \/ committed'[p] = original'[p]
    BY <1>1, <1>3, <1>10, <2>1
  <2>5. ~IsCommitted' => UpdatesEvicted \/ original' = committed'
    BY <1>1, <1>3, <1>10, <2>1
  <2> QED BY <1>1, <2>2, <2>3, <2>4, <2>5 DEF CommitInv
<1>15. ReplayInv'
  <2>1. StandsAfter(Len(replayed))'
    BY <1>3, <1>5, <1>7, MemoryForm
  <2>2. \A j \in DOMAIN replayed' : replayed'[j] = log'[j]
    <3>1. \A j \in 1..(n + 1) : j \in 1..n \/ j = n + 1
      BY <1>5
    <3> QED BY <1>3, <1>7, <3>1
  <2>3. \A j \in PageRecords' : j <= Len(replayed') =>
            /\ isCheckpoint' => \/ UpdatesEvicted
                               \/ original'[log'[j].page] = <<transaction', updates'[log'[j].page]>>
            /\ version'[log'[j].page] = NoPage
    BY <1>1, <1>3, <1>7, <1>10
  <2> QED BY <1>1, <2>1, <2>2, <2>3 DEF ReplayInv, AreAllUpdates
<1> QED BY <1>2, <1>3, <1>11, <1>12, <1>13, <1>14, <1>15 DEF UntornInv

\* A replay that has met all of the log has brought the database files to the last commit.
LEMMA ReplayEnds ==
    ASSUME TypeOK, WholeInv, UntornInv, phase = "replaying", ~HasNextRecord
    PROVE  /\ replayed = log /\ (UpdatesEvicted \/ original = committed)
           /\ \A p \in Pages : version[p] = NoPage
<1>1. ChainInv /\ PagesInv /\ CommitInv /\ ReplayInv
    BY DEF UntornInv
<1>2. Len(replayed) = Len(log)
  <2>1. Stands(chain, log, iterator, Len(replayed))
    BY <1>1, MemoryForm DEF ReplayInv
  <2> QED BY <1>1, <2>1, StandsLast
<1>3. replayed \in Seq(Records) /\ log \in Seq(Records)
    BY DEF TypeOK
<1>4. \A j \in DOMAIN replayed : replayed[j] = log[j]
    BY <1>1 DEF ReplayInv
<1>5. replayed = log
    BY <1>2, <1>3, <1>4
<1>6. \A j \in PageRecords : j <= Len(replayed) /\ log[j] \in Records
    BY <1>2, <1>3 DEF PageRecords
<1>7. \A j \in PageRecords :
          /\ isCheckpoint => \/ UpdatesEvicted
                            \/ original[log[j].page] = <<transaction, updates[log[j].page]>>
          /\ version[log[j].page] = NoPage
    BY <1>1, <1>6 DEF ReplayInv, AreAllUpdates
<1>8. \A p \in Pages : version[p] = NoPage
    BY <1>1, <1>7 DEF PagesInv, IsLogged
<1>9. UpdatesEvicted \/ original = committed
  <2>1. CASE IsCommitted /\ ~UpdatesEvicted
    <3>1. original \in [Pages -> Nat \X Nat] /\ committed \in [Pages -> Nat \X Nat]
      BY DEF TypeOK
    <3>2. \A p \in Pages : original[p] = committed[p]
      BY <1>1, <1>7, <2>1 DEF CommitInv, IsLogged
    <3> QED BY <3>1, <3>2
  <2>2. CASE ~IsCommitted
    BY <1>1, <2>2 DEF CommitInv
  <2> QED BY <2>1, <2>2
<1> QED BY <1>5, <1>8, <1>9

\* A WAL that has been cleared.
LEMMA ClearStep ==
    ASSUME ClearWAL, UNCHANGED <<original, history>>, UpdatesEvicted \/ original = committed,
           \A p \in Pages : version[p] = NoPage
    PROVE  UntornInv'
<1>1. /\ phase' = "ready" /\ file' = <<>> /\ frames' = <<>> /\ log' = <<>> /\ numPages' = 1
      /\ header' = EmptyHeader /\ currentHeaderPageIdx' = 0 /\ offsetInCurrentHeaderPage' = 0
      /\ version' = version /\ (UpdatesEvicted \/ original' = committed') /\ unmarked' = {}
      /\ chain' = <<[page |-> 0, first |-> 0]>>
    BY DEF ClearWAL, history, FirstHeader
<1>2. /\ Len(chain') = 1 /\ DOMAIN chain' = {1} /\ chain'[1] = [page |-> 0, first |-> 0]
      /\ chain'[1].page = 0 /\ chain'[1].first = 0 /\ chain' # <<>> /\ Len(log') = 0
      /\ DOMAIN log' = {} /\ DOMAIN frames' = {}
    BY <1>1
<1>3. ChainInv'
    BY <1>2 DEF ChainInv
<1>4. MemoryInv'
  <2>1. /\ EmptyHeader.numRecords = 0 /\ EmptyHeader.records = <<>> /\ EmptyHeader.next = NoPage
    BY MadePages
  <2>2. HeaderIn(chain', log', header', Len(chain'))
    BY <1>1, <1>2, <2>1 DEF HeaderIn
  <2>3. OnDisk(chain', log', file', Len(chain') - 1)
    BY <1>2 DEF OnDisk
  <2>4. MemoryIs'
    BY <1>1, <1>2, <2>1, <2>2, <2>3 DEF MemoryIs
  <2> QED BY <2>4, MemoryForm
<1>5. PageRecords' = {} /\ ~IsCommitted'
    BY <1>1, <1>2 DEF PageRecords, IsCommitted
<1>6. DiskInv'
    BY <1>1 DEF DiskInv
<1>7. PagesInv'
    BY <1>1, <1>2, <1>5 DEF PagesInv, Working
<1>8. CommitInv'
    BY <1>1, <1>2, <1>5 DEF CommitInv
<1>9. ReplayInv'
    BY <1>1 DEF ReplayInv
<1> QED BY <1>3, <1>4, <1>6, <1>7, <1>8, <1>9 DEF UntornInv

\* The WAL is cleared when the database files are those of the last commit.
LEMMA ClearedStep ==
    ASSUME TypeOK, WholeInv, UntornInv, FinishReplay \/ OpenEmpty \/ RecoverUncommitted
    PROVE  UntornInv'
<1>1. ClearWAL /\ UNCHANGED <<original, history>>
    BY DEF FinishReplay, OpenEmpty, RecoverUncommitted
<1>2. ChainInv /\ DiskInv /\ CommitInv /\ ReplayInv
    BY DEF UntornInv
<1>3. CASE FinishReplay
    BY <1>1, <1>3, ReplayEnds, ClearStep DEF FinishReplay
<1>4. CASE OpenEmpty
  <2>1. phase = "down" /\ file = <<>>
    BY <1>4 DEF OpenEmpty
  <2>2. log = <<>>
    <3>1. ~OnDisk(chain, log, file, Len(chain))
      <4>1. 1 \in 1..Len(chain) /\ chain[1].page = 0
        BY <1>2, ChainFacts
      <4> QED BY <2>1, <4>1 DEF OnDisk
    <3> QED BY <1>2, <2>1, <3>1, MemoryForm DEF DiskInv
  <2>3. (UpdatesEvicted \/ original = committed) /\ \A p \in Pages : version[p] = NoPage
    BY <1>2, <2>1, <2>2 DEF CommitInv, DiskInv, IsCommitted
  <2> QED BY <1>1, <2>3, ClearStep
<1>5. CASE RecoverUncommitted
  <2>1. phase = "scanning" /\ ~HasNextRecord /\ ~isLastLoggedRecordCommit
    BY <1>5 DEF RecoverUncommitted
  <2>2. PICK n \in 0..Len(log) : /\ StandsAfter(n)
                                 /\ isLastLoggedRecordCommit <=> n > 0 /\ log[n] = CommitRecord
    BY <1>2, <2>1 DEF ReplayInv
  <2>3. Stands(chain, log, iterator, n)
    BY <2>2, StandsInChain
  <2>4. n = Len(log)
    BY <1>2, <2>1, <2>3, StandsLast
  <2>5. ~IsCommitted
    <3>1. log # <<>> => Len(log) > 0
      BY DEF TypeOK
    <3> QED BY <2>1, <2>2, <2>4, <3>1 DEF IsCommitted
  <2>6. (UpdatesEvicted \/ original = committed) /\ \A p \in Pages : version[p] = NoPage
    BY <1>2, <2>1, <2>5 DEF CommitInv, DiskInv
  <2> QED BY <1>1, <2>6, ClearStep
<1> QED BY <1>3, <1>4, <1>5

\* The process ends, with all of the log on disk.
LEMMA DownStep ==
    ASSUME TypeOK, UntornInv, LoseMemory,
           UNCHANGED <<original, logged, transaction, updates, committed>>, phase # "committing",
           log # <<>> => OnDisk(chain, log, file', Len(chain)), log = <<>> => file' = <<>>,
           IsCommitted => file' = file /\ phase \notin {"active", "committing", "flushing"}
    PROVE  UntornInv'
<1>1. /\ phase' = "down" /\ frames' = <<>> /\ unmarked' = {}
      /\ version' = [p \in Pages |-> NoPage]
    BY DEF LoseMemory
<1>2. ChainInv /\ PagesDiffer /\ CommitInv
    BY PagesForm DEF UntornInv
<1>3. /\ chain' = chain /\ log' = log /\ (ChainInv' <=> ChainInv)
      /\ PageRecords' = PageRecords /\ (IsCommitted' <=> IsCommitted)
      /\ (\A p : IsLogged(p)' <=> IsLogged(p))
    BY SameLog
<1>4. MemoryInv'
    BY <1>1 DEF MemoryInv, Working
<1>5. DiskInv'
  <2>1. log # <<>> => AreOnDisk(Len(chain))'
    BY <1>3, MemoryForm
  <2> QED BY <1>1, <1>3, <2>1 DEF DiskInv
<1>6. PagesInv'
  <2>1. DOMAIN frames' = {}
    BY <1>1
  <2>2. PagesDiffer'
    BY <1>1, <1>2, <1>3, <2>1 DEF PagesDiffer
  <2>3. /\ (phase \in Working => PagesAre)'
        /\ (phase \in {"ready", "active", "replaying"} => VersionsLogged)'
    BY <1>1 DEF Working
  <2> QED BY <2>2, <2>3, PagesForm, PTL
<1>7. CommitInv'
  <2>1. /\ \A j \in DOMAIN log : log[j] = CommitRecord => j = Len(log)
        /\ IsCommitted => \A j \in PageRecords : IsWritten(j)
        /\ IsCommitted => \A p \in Pages :
               IF IsLogged(p) THEN committed[p] = <<transaction, updates[p]>>
                              ELSE UpdatesEvicted \/ committed[p] = original[p]
        /\ ~IsCommitted => UpdatesEvicted \/ original = committed
    BY <1>2 DEF CommitInv
  <2>2. IsCommitted' => \A j \in PageRecords' : IsWritten(j)'
    BY <1>3, <2>1, WrittenForm
  <2>3. IsCommitted' => \A p \in Pages :
            IF IsLogged(p)' THEN committed'[p] = <<transaction', updates'[p]>>
                            ELSE UpdatesEvicted \/ committed'[p] = original'[p]
    BY <1>3, <2>1
  <2>4. /\ \A j \in DOMAIN log' : log'[j] = CommitRecord => j = Len(log')
        /\ ~IsCommitted' => UpdatesEvicted \/ original' = committed'
    BY <1>3, <2>1
  <2> QED BY <1>1, <2>2, <2>3, <2>4 DEF CommitInv
<1>8. ReplayInv'
    BY <1>1 DEF ReplayInv
<1> QED BY <1>2, <1>3, <1>4, <1>5, <1>6, <1>7, <1>8 DEF UntornInv

\* A crash that tears nothing, a shutdown, and a start that throws.
LEMMA StopStep ==
    ASSUME TypeOK, WholeInv, UntornInv, ~torn', Crash \/ Shutdown \/ OpenThrows
    PROVE  UntornInv'
<1>1. LoseMemory /\ UNCHANGED <<original, logged, transaction, updates, committed>>
    BY DEF Crash, Shutdown, OpenThrows, history
<1>2. ChainInv /\ MemoryInv /\ DiskInv /\ CommitInv
    BY DEF UntornInv
<1>3. CASE Crash \/ OpenThrows
  <2>1. file' = file /\ phase \in {"ready", "replaying", "down", "scanning"}
    BY <1>3 DEF Crash, OpenThrows, FlushedPhases
  <2>2. /\ log # <<>> => OnDisk(chain, log, file', Len(chain))
        /\ log = <<>> => file' = <<>>
    BY <1>2, <2>1, MemoryForm DEF DiskInv
  <2> QED BY <1>1, <2>1, <2>2, DownStep
<1>4. CASE Shutdown
  <2>1. /\ phase \in {"ready", "active"}
        /\ file' = IF IsEmptyWAL THEN file ELSE WritePage(file, currentHeaderPageIdx, header)
    BY <1>4 DEF Shutdown
  <2>2. /\ log # <<>> => OnDisk(chain, log, file', Len(chain))
        /\ log = <<>> => file' = file
    BY <1>2, <2>1, HeaderFlushed DEF Working
  <2>3. ~IsCommitted /\ (log = <<>> => file' = <<>>)
    BY <1>2, <2>1, <2>2 DEF CommitInv, DiskInv
  <2> QED BY <1>1, <2>1, <2>2, <2>3, DownStep
<1> QED BY <1>3, <1>4

\* A start finds the log on disk and an iterator before its first record.
LEMMA OpenStep ==
    ASSUME TypeOK, WholeInv, TypeOK', UntornInv, OpenExisting
    PROVE  UntornInv'
<1>1. /\ phase = "down" /\ phase' = "scanning" /\ file # <<>> /\ ~isLastLoggedRecordCommit'
      /\ iterator' = [header |-> file[1], numRead |-> 0]
      /\ UNCHANGED <<frames, unmarked, version, file, original, logged, committed, transaction,
                     updates>>
    BY DEF OpenExisting, history
<1>2. ChainInv /\ DiskInv /\ PagesDiffer /\ CommitInv
    BY PagesForm DEF UntornInv
<1>3. /\ chain' = chain /\ log' = log /\ (ChainInv' <=> ChainInv)
      /\ PageRecords' = PageRecords /\ (IsCommitted' <=> IsCommitted)
      /\ (\A p : IsLogged(p)' <=> IsLogged(p))
    BY <1>1, SameLog
<1>4. log # <<>> /\ OnDisk(chain, log, file, Len(chain))
    BY <1>1, <1>2, MemoryForm DEF DiskInv
<1>5. MemoryInv'
    BY <1>1 DEF MemoryInv, Working
<1>6. DiskInv'
  <2>1. AreOnDisk(Len(chain))'
    BY <1>1, <1>3, <1>4, MemoryForm
  <2> QED BY <1>1, <1>2, <1>3, <1>4, <2>1 DEF DiskInv
<1>7. PagesInv'
  <2>1. PagesDiffer'
    BY <1>1, <1>2, <1>3 DEF PagesDiffer
  <2>2. /\ (phase \in Working => PagesAre)'
        /\ (phase \in {"ready", "active", "replaying"} => VersionsLogged)'
    BY <1>1 DEF Working
  <2> QED BY <2>1, <2>2, PagesForm, PTL
<1>8. CommitInv'
  <2>1. \A j : IsWritten(j)' <=> IsWritten(j)
    BY <1>1, <1>3, WrittenForm
  <2> QED BY <1>1, <1>2, <1>3, <2>1 DEF CommitInv
<1>9. ReplayInv'
  <2>1. Stands(chain, log, iterator', 0)
    BY <1>1, <1>2, <1>4, StandsFirst
  <2>2. StandsAfter(0)'
    BY <1>3, <2>1, StandsInChain
  <2>3. 0 \in 0..Len(log')
    BY DEF TypeOK
  <2> QED BY <1>1, <2>2, <2>3 DEF ReplayInv
<1> QED BY <1>2, <1>3, <1>5, <1>6, <1>7, <1>8, <1>9 DEF UntornInv

\* The scan for the last record.
LEMMA ScanStep ==
    ASSUME TypeOK, WholeInv, TypeOK', UntornInv, ScanRecord
    PROVE  UntornInv'
<1>1. /\ phase = "scanning" /\ phase' = "scanning" /\ GetNextRecord
      /\ isLastLoggedRecordCommit' = (NextRecord.type = "COMMIT")
      /\ UNCHANGED <<frames, unmarked, version, file, original, logged, committed, transaction,
                     updates>>
    BY DEF ScanRecord, history
<1>2. ChainInv /\ DiskInv /\ PagesDiffer /\ CommitInv /\ ReplayInv
    BY PagesForm DEF UntornInv
<1>3. /\ chain' = chain /\ log' = log /\ (ChainInv' <=> ChainInv)
      /\ PageRecords' = PageRecords /\ (IsCommitted' <=> IsCommitted)
      /\ (\A p : IsLogged(p)' <=> IsLogged(p))
    BY <1>1, SameLog
<1>4. log # <<>> /\ OnDisk(chain, log, file, Len(chain))
    BY <1>1, <1>2, MemoryForm DEF DiskInv
<1>5. MemoryInv'
    BY <1>1 DEF MemoryInv, Working
<1>6. DiskInv'
  <2>1. AreOnDisk(Len(chain))'
    BY <1>1, <1>3, <1>4, MemoryForm
  <2> QED BY <1>1, <1>2, <1>3, <1>4, <2>1 DEF DiskInv
<1>7. PagesInv'
  <2>1. PagesDiffer'
    BY <1>1, <1>2, <1>3 DEF PagesDiffer
  <2>2. /\ (phase \in Working => PagesAre)'
        /\ (phase \in {"ready", "active", "replaying"} => VersionsLogged)'
    BY <1>1 DEF Working
  <2> QED BY <2>1, <2>2, PagesForm, PTL
<1>8. CommitInv'
  <2>1. \A j : IsWritten(j)' <=> IsWritten(j)
    BY <1>1, <1>3, WrittenForm
  <2> QED BY <1>1, <1>2, <1>3, <2>1 DEF CommitInv
<1>9. ReplayInv'
  <2>1. PICK n \in 0..Len(log) : StandsAfter(n)
    BY <1>1, <1>2 DEF ReplayInv
  <2>2. Stands(chain, log, iterator, n)
    BY <2>1, StandsInChain
  <2>3. /\ n \in Nat /\ n + 1 \in 1..Len(log) /\ NextRecord = log[n + 1]
        /\ Stands(chain, log, iterator', n + 1)
    BY <1>1, <1>2, <1>4, <2>2, StandsNext
  <2>4. PICK m : m = n + 1
    OBVIOUS
  <2>5. StandsAfter(m)'
    BY <1>3, <2>3, <2>4, StandsInChain
  <2>6. NextRecord.type = "COMMIT" <=> NextRecord = CommitRecord
    BY <1>1, NextOfIterator, MadeRecords
  <2>7. isLastLoggedRecordCommit' <=> m > 0 /\ log'[m] = CommitRecord
    <3>1. m > 0
      BY <2>3, <2>4
    <3>2. log'[m] = NextRecord
      BY <1>3, <2>3, <2>4
    <3>3. isLastLoggedRecordCommit' <=> NextRecord.type = "COMMIT"
      BY <1>1
    <3>4. isLastLoggedRecordCommit' <=> log'[m] = CommitRecord
      BY <2>6, <3>2, <3>3
    <3> QED BY <3>1, <3>4
  <2>8. m \in 0..Len(log')
    BY <1>3, <2>3, <2>4
  <2> QED BY <1>1, <2>5, <2>7, <2>8 DEF ReplayInv
<1> QED BY <1>2, <1>3, <1>5, <1>6, <1>7, <1>8, <1>9 DEF UntornInv

\* A WAL that is not torn and has a page has a record.
LEMMA EmptyStep ==
    ASSUME TypeOK, WholeInv, UncommittedInv, UntornInv, RecoverEmpty
    PROVE  FALSE
<1>1. phase = "scanning" /\ header.numRecords = 0
    BY DEF RecoverEmpty, IsEmptyWAL
<1>2. ChainInv /\ DiskInv
    BY DEF UntornInv
<1>3. header = file[1]
    BY <1>1 DEF UncommittedInv
<1>4. log # <<>> /\ OnDisk(chain, log, file, Len(chain))
    BY <1>1, <1>2, MemoryForm DEF DiskInv
<1>5. /\ Len(chain) \in Nat /\ 1 \in 1..Len(chain) /\ chain[1].page = 0 /\ chain[1].first = 0
      /\ 1 < Len(chain) => chain[2].first \in Nat /\ chain[2].first > 0
      /\ log \in Seq(Records)
    BY SMTT(20), <1>2, ChainFacts DEF TypeOK
<1>6. HeaderIn(chain, log, header, 1)
    BY <1>3, <1>4, <1>5 DEF OnDisk
<1>7. header.numRecords = (IF 1 < Len(chain) THEN chain[2].first ELSE Len(log)) - chain[1].first
    BY <1>6 DEF HeaderIn
<1>8. Len(log) \in Nat /\ Len(log) > 0
    BY <1>4, <1>5
<1> QED BY <1>1, <1>5, <1>7, <1>8

\* A frame is unmarked only if its page was evicted before an update.
LEMMA UnmarkedStep ==
    ASSUME ~UpdatesEvicted, unmarked = {}, [Next]_vars
    PROVE  unmarked' = {}
<1>1. ASSUME NEW p \in Pages, UpdatePage(p) \/ UpdatePageAgain(p) PROVE unmarked' = {}
    BY <1>1 DEF UpdatePage, UpdatePageAgain
<1>2. ASSUME NEW i \in DOMAIN frames, EvictWALPage(i) \/ FlushDirtyPage(i) PROVE unmarked' = {}
    BY <1>2 DEF EvictWALPage, FlushDirtyPage, LeaveFrame
<1>3. CASE UNCHANGED vars
    BY <1>3 DEF vars, memory
<1>4. CASE \/ BeginWriteTransaction \/ LogAuxRecord \/ LogCommit \/ StartRollback
           \/ FlushHeaderPages \/ StartCheckpoint \/ ReplayRecord
    BY <1>4 DEF BeginWriteTransaction, LogAuxRecord, LogCommit, StartRollback, FlushHeaderPages,
       StartCheckpoint, ReplayRecord, memory
<1>5. CASE \/ FinishReplay \/ OpenEmpty \/ OpenExisting \/ ScanRecord \/ RecoverEmpty
           \/ RecoverCommitted \/ RecoverUncommitted \/ OpenThrows \/ Shutdown \/ Crash
    BY <1>5 DEF FinishReplay, OpenEmpty, OpenExisting, ScanRecord, RecoverEmpty, RecoverCommitted,
       RecoverUncommitted, OpenThrows, Shutdown, Crash, ClearWAL, LoseMemory, memory
<1> QED BY <1>1, <1>2, <1>3, <1>4, <1>5, Zenon DEF Next, Transaction, Commit, Replay, Open

\* No step of a WAL that stays whole breaks the invariant.
LEMMA UntornStep ==
    ASSUME TypeOK, WholeInv, TypeOK', WholeInv', UncommittedInv, torn \/ UntornInv, [Next]_vars,
           ~UpdatesEvicted => unmarked = {}
    PROVE  (torn \/ UntornInv)'
<1>1. SUFFICES ASSUME ~torn' PROVE UntornInv'
    OBVIOUS
<1>2. ~torn
  <2>1. torn => torn'
    BY DEF Next, vars, Transaction, BeginWriteTransaction, UpdatePage, UpdatePageAgain, LogAuxRecord,
           LogCommit, StartRollback, EvictWALPage, Commit, FlushHeaderPages, FlushDirtyPage, StartCheckpoint,
           Replay, ReplayRecord, FinishReplay, Open, OpenEmpty, OpenExisting, ScanRecord,
           RecoverEmpty, RecoverCommitted, RecoverUncommitted, OpenThrows, Shutdown, Crash, history
  <2> QED BY <1>1, <2>1
<1>3. UntornInv
    BY <1>2
<1>4. CASE UNCHANGED vars
  <2> USE <1>3, <1>4 DEF vars, memory, replayer, logged, history, UntornInv
  <2>1. ChainInv'
    BY DEF ChainInv
  <2>2. MemoryInv'
    BY Zenon DEF MemoryInv, AreOnDisk, IsHeader
  <2>3. DiskInv'
    BY Zenon DEF DiskInv, AreOnDisk, IsHeader
  <2>4. PagesInv'
    <3>1. /\ PageRecords' = PageRecords /\ (\A p : IsLogged(p)' <=> IsLogged(p))
      BY SameLog
    <3>2. PagesDiffer => PagesDiffer'
      BY <3>1, ZenonT(40) DEF PagesDiffer
    <3>3. PagesAre => PagesAre'
      BY <3>1, Zenon DEF PagesAre
    <3>4. VersionsLogged => VersionsLogged'
      BY <3>1, Zenon DEF VersionsLogged
    <3>5. /\ PagesDiffer /\ (phase \in Working => PagesAre)
          /\ phase \in {"ready", "active", "replaying"} => VersionsLogged
      BY PagesForm
    <3>6. /\ PagesDiffer' /\ (phase \in Working => PagesAre)'
          /\ (phase \in {"ready", "active", "replaying"} => VersionsLogged)'
      BY <3>2, <3>3, <3>4, <3>5
    <3> QED BY <3>6, PagesForm, PTL
  <2>5. CommitInv'
    BY Zenon DEF CommitInv, PageRecords, IsLogged, IsWritten, AreAllUpdates, IsCommitted
  <2>6. ReplayInv'
    BY Zenon DEF ReplayInv, PageRecords, AreAllUpdates, StandsAfter, IsHeader
  <2> QED BY <2>1, <2>2, <2>3, <2>4, <2>5, <2>6
<1>5. CASE BeginWriteTransaction
    BY <1>3, <1>5, BeginStep
<1>6. ASSUME NEW p \in Pages, UpdatePage(p) \/ UpdatePageAgain(p) PROVE UntornInv'
    BY <1>3, <1>6, UpdateStep, UpdateAgainStep
<1>7. CASE LogAuxRecord \/ LogCommit
    BY <1>3, <1>7, AuxStep
<1>8. CASE StartRollback
    BY <1>3, <1>8, RollbackStep
<1>9. ASSUME NEW i \in DOMAIN frames, EvictWALPage(i) \/ FlushDirtyPage(i) PROVE UntornInv'
    BY <1>3, <1>9, FrameStep
<1>10. CASE FlushHeaderPages
    BY <1>3, <1>10, FlushStep
<1>11. CASE StartCheckpoint
    BY <1>3, <1>11, CheckpointStep
<1>12. CASE ReplayRecord
    BY <1>3, <1>12, ReplayStep
<1>13. CASE FinishReplay \/ OpenEmpty \/ RecoverUncommitted
    BY <1>3, <1>13, ClearedStep
<1>14. CASE OpenExisting
    BY <1>3, <1>14, OpenStep
<1>15. CASE ScanRecord
    BY <1>3, <1>15, ScanStep
<1>16. CASE RecoverEmpty
    BY <1>3, <1>16, EmptyStep
<1>17. CASE RecoverCommitted
    BY <1>3, <1>17, RecoverStep
<1>18. CASE Crash \/ Shutdown \/ OpenThrows
    BY <1>1, <1>3, <1>18, StopStep
<1> QED BY <1>4, <1>5, <1>6, <1>7, <1>8, <1>9, <1>10, <1>11, <1>12, <1>13, <1>14, <1>15, <1>16,
           <1>17, <1>18, Zenon DEF Next, Transaction, Commit, Replay, Open

-----------------------------------------------------------------------------
(* The theorems                                                             *)

\* The initial state is a cleared WAL.
LEMMA InitIInv == Init => IInv
<1> SUFFICES ASSUME Init PROVE IInv
    OBVIOUS
<1>a. /\ ZeroPage \in HeaderAndDataPages /\ EmptyHeader \in HeaderAndDataPages
      /\ ZeroPage.data = 0 /\ EmptyHeader.data = 0 /\ EmptyHeader.numRecords = 0
      /\ EmptyHeader.records = <<>> /\ EmptyHeader.next = NoPage
    BY MadePages
<1>b. /\ DOMAIN file = {} /\ DOMAIN frames = {} /\ DOMAIN log = {} /\ Len(log) = 0
      /\ Len(chain) = 1 /\ DOMAIN chain = {1} /\ chain[1] = [page |-> 0, first |-> 0]
      /\ chain # <<>>
    BY DEF Init, FirstHeader
<1>c. chain \in Seq(Positions) /\ file \in Seq(HeaderAndDataPages) /\ log \in Seq(Records)
      /\ replayed \in Seq(Records)
    BY DEF Init, FirstHeader, Positions
<1>d. 0 \in 0..InvalidOffset /\ 0 \in 0..RecordsPerHeaderPage
    BY WALAssumption DEF InvalidOffset
<1>e. /\ iterator \in [header : HeaderAndDataPages, numRead : 0..RecordsPerHeaderPage]
      /\ pageBuffer \in HeaderAndDataPages /\ header \in HeaderAndDataPages
    BY <1>a, <1>d DEF Init
<1>f. version \in [Pages -> (Nat \ {0}) \cup {NoPage}] /\ updates \in [Pages -> Nat]
    BY DEF Init
<1>g. original \in [Pages -> Nat \X Nat] /\ committed \in [Pages -> Nat \X Nat]
    BY DEF Init
<1>h. phase \in Phases /\ durable \subseteq Nat /\ unmarked = {}
    BY DEF Init, Phases
<1>i. /\ numPages \in Nat /\ currentHeaderPageIdx \in Nat /\ transaction \in Nat /\ crashes \in Nat
      /\ offsetInCurrentHeaderPage \in 0..InvalidOffset
      /\ isLastLoggedRecordCommit \in BOOLEAN /\ isRecovering \in BOOLEAN
      /\ isCheckpoint \in BOOLEAN /\ torn \in BOOLEAN
    BY <1>d DEF Init
<1>1. TypeOK
    BY <1>b, <1>c, <1>e, <1>f, <1>g, <1>h, <1>i DEF TypeOK
<1>2. WholeInv
    BY <1>a, <1>b DEF Init, WholeInv, IsWhole
<1>3. UncommittedInv
  <2>1. OneTransaction
    BY <1>a, <1>b DEF Init, OneTransaction, HasCommit
  <2> QED BY <2>1 DEF Init, UncommittedInv
<1>4. NothingUncommittedIsWritten
    BY DEF Init, NothingUncommittedIsWritten
<1>5. UntornInv
  <2>1. ChainInv
    BY <1>b DEF ChainInv
  <2>2. MemoryInv
    BY <1>a, <1>b DEF Init, MemoryInv, IsHeader, AreOnDisk
  <2>3. PageRecords = {} /\ ~IsCommitted
    BY <1>b DEF Init, PageRecords, IsCommitted
  <2>4. DiskInv
    BY DEF Init, DiskInv
  <2>5. PagesInv
    BY <1>b, <2>3 DEF Init, PagesInv, Working
  <2>6. CommitInv
    BY <1>b, <2>3 DEF Init, CommitInv
  <2>7. ReplayInv
    BY DEF Init, ReplayInv
  <2> QED BY <2>1, <2>2, <2>4, <2>5, <2>6, <2>7 DEF UntornInv
<1> QED BY <1>1, <1>2, <1>3, <1>4, <1>5, <1>h DEF IInv

\* The invariant is inductive.
LEMMA NextIInv == IInv /\ [Next]_vars => IInv'
<1> SUFFICES ASSUME IInv, [Next]_vars PROVE IInv'
    OBVIOUS
<1>1. /\ TypeOK /\ WholeInv /\ UncommittedInv /\ NothingUncommittedIsWritten
      /\ torn \/ UntornInv
      /\ ~UpdatesEvicted => unmarked = {}
    BY DEF IInv
<1>2. TypeOK' /\ WholeInv'
    BY <1>1, TypeStep
<1>3. UncommittedInv'
    BY <1>1, <1>2, DurableStep, TransactionStep DEF UncommittedInv
<1>4. NothingUncommittedIsWritten'
    BY <1>1, <1>2, OriginalStep
<1>5. (torn \/ UntornInv)'
    BY <1>1, <1>2, UntornStep
<1>6. ~UpdatesEvicted => unmarked' = {}
    BY <1>1, UnmarkedStep
<1> QED BY <1>2, <1>3, <1>4, <1>5, <1>6 DEF IInv

\* IInv holds in every behaviour of the WAL: a transaction that logs, updates a page once or
\* several times, has pages evicted, commits or rolls back, a replay, a shutdown, a crash in any
\* phase, and a start keep it.
THEOREM Invariance == Spec => []IInv
BY InitIInv, NextIInv, PTL DEF Spec

\* Every variable keeps its type.
THEOREM TypeCorrect == Spec => []TypeOK
<1>1. IInv => TypeOK
    BY DEF IInv
<1> QED BY <1>1, Invariance, PTL

\* Wherever the process crashes, and however often, no update of a transaction without a
\* commit record on disk reaches the database files (setIsLastRecordCommit and replay).
THEOREM OnlyCommittedIsWritten == Spec => []NothingUncommittedIsWritten
<1>1. IInv => NothingUncommittedIsWritten
    BY DEF IInv
<1> QED BY <1>1, Invariance, PTL

\* An open database has on disk what the durable commits made, all of it and no more, after
\* any number of restarts, checkpoints, rollbacks and recoveries that did not tear the WAL, if
\* no page is updated again after its WAL page was evicted (storage_structure_utils.cpp:43-46
\* leaves such an update in a frame that is not marked, see CommitsAreCheckpointed).
THEOREM CommitsAreAtomic == ~UpdatesEvicted => (Spec => []FilesAreCommitted)
<1> SUFFICES ASSUME ~UpdatesEvicted PROVE Spec => []FilesAreCommitted
    OBVIOUS
<1>1. IInv => FilesAreCommitted
    BY DEF IInv, UntornInv, CommitInv, FilesAreCommitted
<1> QED BY <1>1, Invariance, PTL

\* A replay meets the records that were logged, each once and in order, through any number
\* of header pages (addNewWALRecordNoLock, WALIterator::getNextRecord).
THEOREM ReplayIsComplete == Spec => []ReplayMeetsTheLog
<1>1. IInv => ReplayMeetsTheLog
    BY ReplayEnds DEF IInv, ReplayMeetsTheLog
<1> QED BY <1>1, Invariance, PTL

\* Between transactions no page is left in its WAL version.
THEOREM VersionsAreCleared == Spec => []NoVersionIsLeft
<1>1. IInv => NoVersionIsLeft
    BY DEF IInv, UntornInv, DiskInv, NoVersionIsLeft
<1> QED BY <1>1, Invariance, PTL

\* The WAL version of a page of the running transaction is in a frame or in the WAL file, with
\* all of its updates, and no header page has taken its place, if no page is updated again after
\* its WAL page was evicted.
THEOREM VersionsLead == ~UpdatesEvicted => (Spec => []VersionsAreReadable)
<1> SUFFICES ASSUME ~UpdatesEvicted PROVE Spec => []VersionsAreReadable
    OBVIOUS
<1>1. IInv => VersionsAreReadable
  <2>1. SUFFICES ASSUME IInv, ~torn, phase \in Working, NEW p \in Pages, version[p] # NoPage
                 PROVE  IF version[p] \in DOMAIN frames
                        THEN Contents(frames[version[p]]) = <<transaction, updates[p]>>
                        ELSE /\ version[p] < Len(file)
                             /\ Contents(file[version[p] + 1]) = <<transaction, updates[p]>>
    BY DEF VersionsAreReadable, Working
  <2>2. PagesAre
    BY <2>1, PagesForm DEF IInv, UntornInv
  <2>3. PICK j \in PageRecords : log[j].page = p /\ log[j].pageIdxInWAL = version[p]
    BY <2>1, <2>2 DEF PagesAre
  <2>4. /\ \/ version[p] \in DOMAIN frames
           \/ HasPage(file, transaction, updates, p, version[p])
        /\ HasFrame(frames, transaction, updates, p, version[p])
    BY <2>2, <2>3 DEF PagesAre
  <2> QED BY <2>4 DEF HasPage, HasFrame
<1> QED BY <1>1, Invariance, PTL

-----------------------------------------------------------------------------
(* WAL implements DurablePages                                              *)

\* What the refinement mapping gives readers and the write transaction.
Visible == IF IsReadable THEN {original} ELSE {}
NoUpdate == [p \in Pages |-> 0]
Written == IF IsUpdating THEN updates ELSE NoUpdate

\* The files of a new database are contents of the pages.
LEMMA DurableInit == Init => Durable!PagesInit
<1> SUFFICES ASSUME Init PROVE Durable!PagesInit
    OBVIOUS
<1>1. committed \in [Pages -> Nat \X Nat] /\ original = committed
    BY DEF Init
<1>2. IsReadable /\ ~IsUpdating
    BY DEF Init, IsReadable, IsUpdating
<1> QED BY <1>1, <1>2 DEF Init, Durable!PagesInit, Durable!NotWritten

\* A step that tears the WAL, or comes after one, is a step of a damaged store.
LEMMA TornStep ==
    ASSUME torn'
    PROVE  Durable!PagesNext
BY DEF Durable!PagesNext

\* Every step of a WAL that is not torn is a step of the abstract store or no step of it.
LEMMA DurableNext ==
    ASSUME ~UpdatesEvicted, TypeOK, TypeOK', torn \/ UntornInv, (torn \/ UntornInv)', [Next]_vars
    PROVE  Durable!PagesNext \/ UNCHANGED Durable!pageVars
<1>1. CASE torn'
    BY <1>1, TornStep
<1>2. SUFFICES ASSUME ~torn' PROVE Durable!PagesNext \/ UNCHANGED Durable!pageVars
    BY <1>1
<1>3. ~torn
  <2>1. torn => torn'
    BY DEF Next, vars, Transaction, BeginWriteTransaction, UpdatePage, UpdatePageAgain, LogAuxRecord,
           LogCommit, StartRollback, EvictWALPage, Commit, FlushHeaderPages, FlushDirtyPage, StartCheckpoint,
           Replay, ReplayRecord, FinishReplay, Open, OpenEmpty, OpenExisting, ScanRecord,
           RecoverEmpty, RecoverCommitted, RecoverUncommitted, OpenThrows, Shutdown, Crash, history
  <2> QED BY <1>2, <2>1
<1>4. UntornInv /\ UntornInv'
    BY <1>2, <1>3
<1>5. phase' = "ready" => original' = committed'
    BY <1>4 DEF UntornInv, CommitInv
<1>6. IsUpdating => \A p \in Pages : updates[p] # 0 <=> version[p] # NoPage
  <2>1. SUFFICES ASSUME IsUpdating PROVE \A p \in Pages : updates[p] # 0 <=> version[p] # NoPage
    OBVIOUS
  <2>2. PagesAre
    BY <1>4, <2>1, PagesForm DEF UntornInv, IsUpdating, Working
  <2> QED BY <2>2 DEF PagesAre, IsLogged
<1>7. ASSUME UNCHANGED <<committed, transaction>>, IsUpdating' <=> IsUpdating,
             Visible' = Visible, Written' = Written
      PROVE  UNCHANGED Durable!pageVars
  <2>1. torn' = torn
    BY <1>2, <1>3 DEF TypeOK
  <2>2. IsUpdating' = IsUpdating
    BY <1>7 DEF IsUpdating
  <2> QED BY <1>7, <2>1, <2>2, Zenon DEF Durable!pageVars, Visible, Written, NoUpdate
<1>8. ASSUME UNCHANGED <<committed, transaction>>, ~IsReadable', ~IsUpdating'
      PROVE  Durable!PagesNext
    BY <1>2, <1>3, <1>8 DEF Durable!PagesNext, Durable!PagesStep, Durable!Close, Durable!NotWritten
<1>9. ASSUME UNCHANGED <<committed, transaction>>, phase' = "ready", ~IsReadable
      PROVE  Durable!PagesNext
  <2>1. IsReadable' /\ ~IsUpdating' /\ ~IsUpdating /\ original' = committed
    BY <1>5, <1>9 DEF IsReadable, IsUpdating
  <2>2. IsUpdating' = IsUpdating
    BY <2>1 DEF IsUpdating
  <2>3. Durable!Reopen
    BY <1>9, <2>1, <2>2 DEF Durable!Reopen
  <2> QED BY <1>2, <1>3, <2>3 DEF Durable!PagesNext, Durable!PagesStep
<1>10. CASE BeginWriteTransaction
  <2>1. /\ ~IsUpdating /\ IsUpdating' /\ IsReadable /\ IsReadable'
        /\ transaction' = transaction + 1 /\ UNCHANGED <<original, committed>>
        /\ updates' = [p \in Pages |-> 0]
    BY <1>10 DEF BeginWriteTransaction, IsUpdating, IsReadable
  <2> QED BY <1>2, <1>3, <2>1 DEF Durable!PagesNext, Durable!PagesStep, Durable!BeginWrite
<1>11. ASSUME NEW p \in Pages, UpdatePage(p) \/ UpdatePageAgain(p) PROVE Durable!PagesNext
  <2>1. /\ IsUpdating /\ IsUpdating' /\ IsReadable /\ IsReadable'
        /\ UNCHANGED <<original, committed, transaction>>
    BY <1>11 DEF UpdatePage, UpdatePageAgain, IsUpdating, IsReadable
  <2>2. updates' = [updates EXCEPT ![p] = @ + 1]
    <3>1. CASE UpdatePageAgain(p)
      BY <3>1 DEF UpdatePageAgain
    <3>2. CASE UpdatePage(p)
      <4>1. version[p] = NoPage /\ updates' = [updates EXCEPT ![p] = 1]
        BY <3>2 DEF UpdatePage
      <4>2. updates[p] = 0
        BY <1>6, <2>1, <4>1
      <4>3. 1 = updates[p] + 1
        BY <4>2
      <4> QED BY <4>1, <4>3
    <3> QED BY <1>11, <3>1, <3>2
  <2>3. Durable!Write(p)
    BY <2>1, <2>2 DEF Durable!Write
  <2> QED BY <1>2, <1>3, <2>3 DEF Durable!PagesNext, Durable!PagesStep
<1>12. CASE LogAuxRecord \/ LogCommit
    BY <1>7, <1>12 DEF LogAuxRecord, LogCommit, IsUpdating, IsReadable, Visible, Written, history
<1>13. CASE StartRollback
  <2>1. /\ IsUpdating /\ ~IsUpdating' /\ IsReadable /\ IsReadable'
        /\ UNCHANGED <<original, committed, transaction>>
    BY <1>13 DEF StartRollback, StartReplay, IsUpdating, IsReadable, history
  <2> QED BY <1>2, <1>3, <2>1 DEF Durable!PagesNext, Durable!PagesStep, Durable!RollbackWrite,
       Durable!NotWritten
<1>14. ASSUME NEW i, EvictWALPage(i) \/ FlushDirtyPage(i) PROVE UNCHANGED Durable!pageVars
    BY <1>7, <1>14 DEF EvictWALPage, FlushDirtyPage, LeaveFrame, IsUpdating, IsReadable, Visible, Written,
       history, replayer
<1>15. CASE FlushHeaderPages
  <2>1. /\ IsUpdating /\ ~IsUpdating' /\ ~IsReadable' /\ transaction' = transaction
        /\ committed' = [p \in Pages |-> IF updates[p] # 0 THEN <<transaction, updates[p]>>
                                                           ELSE committed[p]]
    BY <1>15 DEF FlushHeaderPages, Updated, IsUpdating, IsReadable
  <2> QED BY <1>2, <1>3, <2>1 DEF Durable!PagesNext, Durable!PagesStep, Durable!CommitWrite,
             Durable!NotWritten
<1>16. CASE StartCheckpoint
    BY <1>7, <1>16 DEF StartCheckpoint, StartReplay, IsUpdating, IsReadable, Visible, Written,
       history
<1>17. CASE ReplayRecord
  <2>1. /\ ~IsUpdating /\ ~IsUpdating' /\ (IsReadable' <=> IsReadable)
        /\ UNCHANGED <<committed, transaction>>
    BY <1>17 DEF ReplayRecord, IsUpdating, IsReadable, history
  <2>2. IsReadable => original' = original
    BY <1>17 DEF ReplayRecord, IsReadable
  <2> QED BY <1>7, <2>1, <2>2 DEF Visible, Written
<1>18. CASE FinishReplay
  <2>1. /\ ~IsUpdating /\ ~IsUpdating' /\ phase' = "ready" /\ IsReadable'
        /\ UNCHANGED <<original, committed, transaction>>
    BY <1>18 DEF FinishReplay, ClearWAL, IsUpdating, IsReadable, history
  <2>2. CASE IsReadable
    BY <1>7, <2>1, <2>2 DEF Visible, Written
  <2>3. CASE ~IsReadable
    BY <1>9, <2>1, <2>3
  <2> QED BY <2>2, <2>3
<1>19. CASE OpenEmpty \/ RecoverEmpty \/ RecoverUncommitted
    BY <1>9, <1>19 DEF OpenEmpty, RecoverEmpty, RecoverUncommitted, ClearWAL, IsReadable, history
<1>20. CASE OpenExisting \/ ScanRecord \/ RecoverCommitted
    BY <1>7, <1>20 DEF OpenExisting, ScanRecord, RecoverCommitted, StartReplay, IsUpdating,
       IsReadable, Visible, Written, history
<1>21. CASE Crash \/ Shutdown \/ OpenThrows
    BY <1>8, <1>21 DEF Crash, Shutdown, OpenThrows, LoseMemory, IsUpdating, IsReadable, history
<1>22. CASE UNCHANGED vars
    BY <1>7, <1>22 DEF vars, memory, replayer, history, IsUpdating, IsReadable, Visible, Written
<1> QED BY <1>10, <1>11, <1>12, <1>13, <1>14, <1>15, <1>16, <1>17, <1>18, <1>19, <1>20, <1>21,
           <1>22, Zenon DEF Next, Transaction, Commit, Replay, Open

\* The WAL, its replays and the recovery implement an atomic, durable store of pages for any
\* number of pages, updates of a page, records, transactions and crashes, until a crash tears
\* the WAL, if no page is updated again after its WAL page was evicted.
THEOREM WALIsADurableStore == ~UpdatesEvicted => (Spec => IsADurableStore)
<1> SUFFICES ASSUME ~UpdatesEvicted PROVE Spec => IsADurableStore
    OBVIOUS
<1>1. Init => Durable!PagesInit
    BY DurableInit
<1>2. IInv /\ IInv' /\ [Next]_vars => [Durable!PagesNext]_(Durable!pageVars)
    BY DurableNext DEF IInv
<1> QED BY <1>1, <1>2, Invariance, PTL DEF Spec, IsADurableStore, Durable!PagesSpec
=============================================================================
