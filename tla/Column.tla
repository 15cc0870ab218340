------------------------------- MODULE Column -------------------------------
(***************************************************************************)
(* A property column of a node table and its overflow file.  Cells and     *)
(* null bits lie in the pages of the column; the bytes of long strings and *)
(* of lists are appended to the pages of the overflow file.  An update     *)
(* goes to WAL versions of pages, which live in the WAL file under page    *)
(* numbers of their own.  Reads copy cells and null bits into a vector,    *)
(* page by page, and then fetch the overflow of the strings.               *)
(***************************************************************************)
EXTENDS Integers, Sequences, FiniteSets, FiniteSetsExt

CONSTANTS
    CellsPerPage,       \* numElementsPerPage
    NullEntryBits,      \* NUM_BITS_PER_NULL_ENTRY
    OverflowPageSize,   \* DEFAULT_PAGE_SIZE of the overflow file, in bytes
    ShortLength,        \* SHORT_STR_LENGTH: longest string kept in its cell
    ElementSize,        \* bytes of a string in a list, its overflow excluded
    StringLengths,      \* lengths of the strings that are written
    ListLengths,        \* sequences of lengths: the strings of the lists that are written
    NumNodes,           \* nodes of the table
    FramesAreReused,    \* whether the frame of the elements of a list may be given to another
                        \* page before the pointers of the elements are written to it
    MaxColumnWrites,    \* bound on the updates of a transaction
    MaxColumnTransactions   \* bound on write transactions

ASSUME ColumnAssumption ==
    /\ {CellsPerPage, NullEntryBits, OverflowPageSize, ElementSize, NumNodes} \subseteq Nat \ {0}
    /\ StringLengths \subseteq Nat
    /\ FramesAreReused \in BOOLEAN

VARIABLES
    columnType,         \* "STRING" or "LIST"
    columnPhase,        \* "idle", "active" or "failed"
    store,              \* the files, the page versions, the overflow file's position and the
                        \* pages whose lock a write that threw has left taken
    values,             \* history: the value of every node, by version
    columnWrites,
    columnTransaction

columnVars == <<columnType, columnPhase, store, values, columnWrites, columnTransaction>>

Nodes == 0..(NumNodes - 1)
NullCell == [len |-> -1, id |-> 0, ptr |-> <<>>]
GarbageByte == <<>>
NotWritten == <<-1, -1>>    \* a pointer that still has the address of the source's memory
NumNullEntries == (CellsPerPage + NullEntryBits - 1) \div NullEntryBits
MainPage == [cells |-> [i \in 0..(CellsPerPage - 1) |-> NullCell],
             nulls |-> [e \in 0..(NumNullEntries - 1) |-> [b \in 0..(NullEntryBits - 1) |-> TRUE]]]
OverflowPage == [i \in 0..(OverflowPageSize - 1) |-> GarbageByte]
WALHeaderPage == <<>>
PageAt(seq, idx) == seq[idx + 1]

-----------------------------------------------------------------------------
(* Page versions.  st is a store; a page is named by its file and number.   *)

\* getFileHandleAndPhysicalPageIdxToPin: the page a transaction pins for a page.
PageToPin(st, type, file, page) ==
    IF type = "write" /\ <<file, page>> \in DOMAIN st.versions
    THEN <<"wal", st.versions[<<file, page>>]>> ELSE <<file, page>>
Pinned(st, pin) == PageAt(st[pin[1]], pin[2])

WithVersion(st, file, page, content) ==
    [st EXCEPT !.wal = Append(@, content),
               !.versions = [p \in DOMAIN @ \cup {<<file, page>>} |->
                                IF p = <<file, page>> THEN Len(st.wal) ELSE @[p]]]
CreateWALVersionIfNecessary(st, file, page) ==
    IF <<file, page>> \in DOMAIN st.versions THEN st
    ELSE WithVersion(st, file, page, PageAt(st[file], page))
AddNewPageToFileHandle(st) ==
    [WithVersion(st, "overflow", st.numOverflowPages, OverflowPage)
        EXCEPT !.numOverflowPages = @ + 1]

-----------------------------------------------------------------------------
(* Writing to the overflow file.                                            *)

LogNextBytePos(st) == [st EXCEPT !.loggedPos = IF @ = -1 THEN st.nextBytePos ELSE @]

\* Mutant: a new page is only started when the last one is full.
NeedsNewPage_WhenFull(pos, bytes) == pos = 0
\* The code compares the last byte with the size of the page, not with its last position.
NeedsNewPage(pos, bytes) == pos = 0 \/ pos + bytes - 1 > OverflowPageSize

AddNewPageIfNecessary(st, bytes) ==
    IF NeedsNewPage(st.nextBytePos % OverflowPageSize, bytes)
    THEN AddNewPageToFileHandle(
            [st EXCEPT !.nextBytePos = st.numOverflowPages * OverflowPageSize])
    ELSE st

\* Room for bytes in a page that has a WAL version, and the pointer to it.
Allocate(st, bytes) ==
    LET a == AddNewPageIfNecessary(st, bytes)
        page == a.nextBytePos \div OverflowPageSize
        b == IF page >= a.numOverflowPages THEN AddNewPageToFileHandle(a) ELSE a
    IN  [CreateWALVersionIfNecessary(b, "overflow", page) EXCEPT !.nextBytePos = @ + bytes]
PointerTo(st, bytes) ==
    <<(st.nextBytePos - bytes) \div OverflowPageSize, (st.nextBytePos - bytes) % OverflowPageSize>>

\* The content of byte i of what is written, 0 the first; bytes past the page are lost.
WriteBytes(st, ptr, bytes, content) ==
    [st EXCEPT !.wal[st.versions[<<"overflow", ptr[1]>>] + 1] =
        [i \in 0..(OverflowPageSize - 1) |->
            IF i \in ptr[2]..(ptr[2] + bytes - 1) THEN content[i - ptr[2]] ELSE @[i]]]

\* setStringOverflowWithoutLock, for a long string.
WriteString(st, len, id) ==
    LET allocated == Allocate(st, len)
    IN  WriteBytes(allocated, PointerTo(allocated, len), len, [i \in 0..(len - 1) |-> <<id, i>>])

\* The test of setStringOverflowWithoutLock, which takes the longest short string for a long
\* one: readers find the bytes of its pointer in the place of its own.
HasOverflow(len) == len >= ShortLength

\* setListRecursiveIfNestedWithoutLock: the elements, and then the overflow of each of them.  The
\* page of the elements is unpinned before the pointers are written to its frame; the pointers
\* of the elements in reused are written when the frame holds another page.
WriteList(st, lens, id, reused) ==
    LET bytes == Len(lens) * ElementSize
        allocated == Allocate(st, bytes)
        ptr == PointerTo(allocated, bytes)
        string[k \in 0..Len(lens)] ==
            IF k = 0 THEN allocated
            ELSE IF HasOverflow(lens[k]) THEN WriteString(string[k - 1], lens[k], <<id, k>>)
            ELSE string[k - 1]
        Element(i) ==
            LET k == i \div ElementSize + 1
            IN  IF i % ElementSize # 0 THEN GarbageByte
                ELSE [len |-> lens[k], id |-> <<id, k>>,
                      ptr |-> IF ~HasOverflow(lens[k]) THEN <<>>
                              ELSE IF k \in reused THEN NotWritten
                              ELSE PointerTo(string[k], lens[k])]
    IN  WriteBytes(string[Len(lens)], ptr, bytes, [i \in 0..(bytes - 1) |-> Element(i)])

-----------------------------------------------------------------------------
ColumnInit ==
    /\ columnType \in {"STRING", "LIST"}
    /\ columnPhase = "idle"
    /\ store = [main |-> [i \in 1..((NumNodes + CellsPerPage - 1) \div CellsPerPage) |-> MainPage],
                overflow |-> <<>>, wal |-> <<WALHeaderPage>>, versions |-> <<>>,
                numOverflowPages |-> 0, nextBytePos |-> 0, loggedPos |-> -1,
                locked |-> {}]
    /\ values = [read |-> [n \in Nodes |-> NullCell], write |-> [n \in Nodes |-> NullCell]]
    /\ columnWrites = 0
    /\ columnTransaction = 0

BeginColumnTransaction ==
    /\ columnPhase = "idle"
    /\ columnTransaction < MaxColumnTransactions
    /\ columnPhase' = "active"
    /\ columnTransaction' = columnTransaction + 1
    /\ columnWrites' = 0
    /\ UNCHANGED <<columnType, store, values>>

\* beginUpdatingPage: the cell and the null bit of node n in the WAL version of its page.
WithCell(st, n, cell) ==
    LET page == n \div CellsPerPage
        pos == n % CellsPerPage
    IN  [st EXCEPT !.wal[st.versions[<<"main", page>>] + 1] =
            [@ EXCEPT !.cells[pos] = cell,
                      !.nulls[pos \div NullEntryBits][pos % NullEntryBits] = (cell.len = -1)]]

\* What a long string or a list puts into the overflow file, after the file's position is logged.
WithOverflow(st, len, lens, id, reused) ==
    IF columnType = "LIST" THEN WriteList(st, lens, id, reused) ELSE WriteString(st, len, id)

\* A value is null (len -1), a string of a length, or a list of strings: writeValues.  A value
\* that is too long throws between the lock of the page and its release.
WriteValue(n, len, lens, reused) ==
    LET id == <<columnTransaction, columnWrites>>
        bytes == IF columnType = "LIST" THEN Len(lens) * ElementSize ELSE len
        isNull == len = -1
        isOverflow == ~isNull /\ (columnType = "LIST" \/ len > ShortLength)
        tooLong == \/ bytes > OverflowPageSize
                   \/ columnType = "LIST" /\ \E k \in DOMAIN lens : lens[k] > OverflowPageSize
        page == n \div CellsPerPage
        versioned == CreateWALVersionIfNecessary(store, "main", page)
        logged == LogNextBytePos(versioned)
        ptr == PointerTo(Allocate(logged, bytes), bytes)
        value == IF isNull THEN NullCell ELSE [len |-> len, id |-> id, ptr |-> lens]
    IN  /\ columnPhase = "active"
        /\ page \notin store.locked
        /\ columnWrites < MaxColumnWrites
        /\ columnWrites' = columnWrites + 1
        /\ IF isOverflow /\ tooLong
           THEN /\ columnPhase' = "failed"
                /\ store' = [logged EXCEPT !.locked = @ \cup {page}]
                /\ UNCHANGED values
           ELSE /\ store' = IF isOverflow THEN WithCell(WithOverflow(logged, len, lens, id, reused), n,
                                                            [value EXCEPT !.ptr = ptr])
                            ELSE WithCell(versioned, n, value)
                /\ values' = [values EXCEPT !.write[n] = value]
                /\ UNCHANGED columnPhase
        /\ UNCHANGED <<columnType, columnTransaction>>

NewPages(file, numPages) ==
    [i \in 1..numPages |-> IF <<file, i - 1>> \in DOMAIN store.versions
                           THEN PageAt(store.wal, store.versions[<<file, i - 1>>])
                           ELSE store[file][i]]

CommitColumn ==
    /\ columnPhase = "active"
    /\ store' = [store EXCEPT !.main = NewPages("main", Len(store.main)),
                              !.overflow = NewPages("overflow", store.numOverflowPages),
                              !.wal = <<WALHeaderPage>>, !.versions = <<>>, !.loggedPos = -1]
    /\ values' = [values EXCEPT !.read = values.write]
    /\ columnPhase' = "idle"
    /\ UNCHANGED <<columnType, columnWrites, columnTransaction>>

\* clearWALPageVersionIfNecessary releases the lock of a page that has a version, whether or not
\* it is taken, and clearWAL drops the frames of the WAL with their pins.
RollbackColumn ==
    /\ columnPhase \in {"active", "failed"}
    /\ store' = [store EXCEPT !.wal = <<WALHeaderPage>>, !.versions = <<>>, !.loggedPos = -1,
                              !.locked = {p \in @ : <<"main", p>> \notin DOMAIN store.versions},
                              !.numOverflowPages = Len(store.overflow),
                              !.nextBytePos = IF store.loggedPos = -1 THEN @ ELSE store.loggedPos]
    /\ values' = [values EXCEPT !.write = values.read]
    /\ columnPhase' = "idle"
    /\ UNCHANGED <<columnType, columnWrites, columnTransaction>>

\* A start writes new strings to new pages.
RestartColumn ==
    /\ columnPhase = "idle"
    /\ store' = [store EXCEPT !.nextBytePos = Len(store.overflow) * OverflowPageSize]
    /\ UNCHANGED <<columnType, columnPhase, values, columnWrites, columnTransaction>>

ColumnNext ==
    \/ BeginColumnTransaction
    \/ \E n \in Nodes :
          \/ WriteValue(n, -1, <<>>, {})
          \/ columnType = "STRING" /\ \E len \in StringLengths : WriteValue(n, len, <<>>, {})
          \/ /\ columnType = "LIST"
             /\ \E lens \in ListLengths :
                   \E reused \in IF FramesAreReused THEN SUBSET DOMAIN lens ELSE {{}} :
                      WriteValue(n, Len(lens), lens, reused)
    \/ CommitColumn
    \/ RollbackColumn
    \/ RestartColumn

ColumnSpec == ColumnInit /\ [][ColumnNext]_columnVars

-----------------------------------------------------------------------------
(* Reading.  A vector is filled from the cells of the nodes from start on.  *)

\* readNullBitsFromAPage: entry by entry, up to the end of the entry of the page or of the
\* vector, whichever comes first.  Bits that the range does not cover keep their value.
ReadNullBits(pageNulls, posInPage, vectorNulls, posInVector, numBits) ==
    LET Turn(s) ==
            LET bits == Min({NullEntryBits - Max({s.pageBit, s.vectorBit}), numBits - s.done})
                entry == [b \in 0..(NullEntryBits - 1) |->
                             IF b \in s.vectorBit..(s.vectorBit + bits - 1)
                             THEN pageNulls[s.pageEntry][b - s.vectorBit + s.pageBit]
                             ELSE s.nulls[s.vectorEntry][b]]
                nextPage == s.pageBit >= s.vectorBit
                nextVector == s.vectorBit >= s.pageBit
            IN  [done |-> s.done + bits,
                 nulls |-> [s.nulls EXCEPT ![s.vectorEntry] = entry],
                 pageEntry |-> s.pageEntry + IF nextPage THEN 1 ELSE 0,
                 pageBit |-> IF nextPage THEN 0 ELSE s.pageBit + bits,
                 vectorEntry |-> s.vectorEntry + IF nextVector THEN 1 ELSE 0,
                 vectorBit |-> IF nextVector THEN 0 ELSE s.vectorBit + bits]
        turn[k \in 0..numBits] ==
            IF k = 0
            THEN [done |-> 0, nulls |-> vectorNulls,
                  pageEntry |-> posInPage \div NullEntryBits, pageBit |-> posInPage % NullEntryBits,
                  vectorEntry |-> posInVector \div NullEntryBits,
                  vectorBit |-> posInVector % NullEntryBits]
            ELSE IF turn[k - 1].done < numBits THEN Turn(turn[k - 1]) ELSE turn[k - 1]
    IN  turn[numBits].nulls

\* readBySequentialCopyWithSelState: the pages that hold the next selected position are copied.
\* Every other bit of the vector is what an earlier batch left there, here TRUE.
SequentialCopy(type, start, size, selected) ==
    LET entries == 0..((size + NullEntryBits - 1) \div NullEntryBits)
        first == [cells |-> [i \in 0..(size - 1) |-> NullCell],
                  nulls |-> [e \in entries |-> [b \in 0..(NullEntryBits - 1) |-> TRUE]],
                  vectorPos |-> 0, page |-> start \div CellsPerPage,
                  pos |-> start % CellsPerPage]
        Copy(v) ==
            LET count == Min({CellsPerPage - v.pos, size - v.vectorPos})
                page == Pinned(store, PageToPin(store, type, "main", v.page))
                range == v.vectorPos..(v.vectorPos + count - 1)
                left == {p \in selected : p >= v.vectorPos}
                isRead == left # {} /\ Min(left) \in range
            IN  [v EXCEPT !.vectorPos = @ + count, !.page = @ + 1, !.pos = 0,
                    !.cells = IF ~isRead THEN @
                              ELSE [i \in DOMAIN @ |-> IF i \in range
                                       THEN page.cells[v.pos + i - v.vectorPos] ELSE @[i]],
                    !.nulls = IF ~isRead THEN @
                              ELSE ReadNullBits(page.nulls, v.pos, @, v.vectorPos, count)]
        copy[k \in 0..size] == IF k = 0 THEN first
                               ELSE IF copy[k - 1].vectorPos < size THEN Copy(copy[k - 1])
                               ELSE copy[k - 1]
    IN  copy[size]
IsNullInVector(vector, pos) == vector.nulls[pos \div NullEntryBits][pos % NullEntryBits]

\* readStringToVector and readListToVector, which never looks at a WAL version.
ShortString(cell) == IF cell.ptr = <<>> THEN <<cell.len>> ELSE GarbageByte
StringAt(page, pos, cell) ==
    [i \in 1..cell.len |-> IF pos + i - 1 \in DOMAIN page THEN page[pos + i - 1] ELSE GarbageByte]
ReadString(type, cell) ==
    IF cell.len <= ShortLength THEN ShortString(cell)
    ELSE IF cell.ptr = NotWritten THEN GarbageByte
    ELSE StringAt(Pinned(store, PageToPin(store, type, "overflow", cell.ptr[1])), cell.ptr[2], cell)
ReadListElements(cell) ==
    LET page == PageAt(store.overflow, cell.ptr[1])
    IN  [k \in 1..cell.len |-> ReadString("read", page[cell.ptr[2] + (k - 1) * ElementSize])]

\* What the value that was written reads as.
StringBytes(id, len) ==
    IF len <= ShortLength THEN <<len>> ELSE [i \in 1..len |-> <<id, i - 1>>]
Expected(value) ==
    IF columnType = "STRING" THEN StringBytes(value.id, value.len)
    ELSE [k \in 1..value.len |-> StringBytes(<<value.id, k>>, value.ptr[k])]

\* scanSequentialStringOverflow: the frame of the last page that was pinned is cached, under
\* the number of the page in the file that it was pinned from.
PinOf(type, cell) == PageToPin(store, type, "overflow", cell.ptr[1])
ScannedStrings(type, cells) ==
    LET n == Len(cells)
        NoPage == <<"none", -1>>
        cached[k \in 0..n] ==
            IF k = 0 THEN NoPage
            ELSE IF cells[k].len <= ShortLength \/ PinOf(type, cells[k])[2] = cached[k - 1][2] THEN cached[k - 1]
            ELSE PinOf(type, cells[k])
    IN  [k \in 1..n |-> IF cells[k].len <= ShortLength THEN ShortString(cells[k])
                        ELSE StringAt(Pinned(store, cached[k]), cells[k].ptr[2], cells[k])]

-----------------------------------------------------------------------------
(* Properties.                                                              *)

\* Strings on pages of one number in two files, the overflow file and the WAL: the scan takes the
\* one page for the other.
PagesAreMixedUp(type, cells) ==
    \E x, y \in {c \in {cells[k] : k \in DOMAIN cells} : c.len > ShortLength} :
        PinOf(type, x) # PinOf(type, y) /\ PinOf(type, x)[2] = PinOf(type, y)[2]

ScansReturnStrings(type) ==
    columnType = "STRING" =>
        LET nodes == {n \in Nodes : values[type][n] # NullCell}
            Nth(k) == CHOOSE n \in nodes : Cardinality({m \in nodes : m < n}) = k - 1
            vector == SequentialCopy(type, 0, NumNodes, Nodes)
            cells == [k \in 1..Cardinality(nodes) |-> vector.cells[Nth(k)]]
        IN  PagesAreMixedUp(type, cells) \/
                \A k \in DOMAIN cells :
                    ScannedStrings(type, cells)[k] = Expected(values[type][Nth(k)])

\* A read transaction finds the committed value of every node that it selects, null bits
\* included, wherever its batch starts and however the pages cut it, while a write transaction
\* appends to the same overflow pages; a looked-up string of the write transaction is the one
\* that it wrote last; a scan that fetches the strings with one frame cached finds the same, of
\* a reader always and of the writer unless it meets pages of one number in the overflow file
\* and in the WAL, which overflow_file.cpp:58 does not tell apart; and no page is locked when
\* no transaction runs.  (Before the first transaction there is nothing to read.)
ColumnsReturnValues ==
    columnTransaction > 0 =>
    /\ \A start \in Nodes : \A end \in start..(NumNodes - 1) :
          \A selected \in {0..(end - start), {end - start}, {0}} :
              LET vector == SequentialCopy("read", start, end - start + 1, selected)
              IN  \A p \in selected :
                     LET value == values.read[start + p]
                     IN  /\ IsNullInVector(vector, p) <=> value = NullCell
                         /\ value # NullCell => Expected(value) =
                               IF columnType = "STRING" THEN ReadString("read", vector.cells[p])
                               ELSE ReadListElements(vector.cells[p])
    /\ columnType = "STRING" =>
          \A n \in Nodes :
              LET vector == SequentialCopy("write", n, 1, {0})
              IN  values.write[n] # NullCell =>
                     Expected(values.write[n]) = ReadString("write", vector.cells[0])
    /\ ScansReturnStrings("read") /\ ScansReturnStrings("write")
    /\ columnPhase = "idle" => store.locked = {}
=============================================================================
