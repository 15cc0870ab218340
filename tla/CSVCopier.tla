----------------------------- MODULE CSVCopier ------------------------------
(***************************************************************************)
(* COPY: the bulk load of a node table or a relationship table from a CSV  *)
(* file.                                                                   *)
(*                                                                         *)
(* The file is cut in blocks of bytes; each phase runs one task per block  *)
(* and waits for all of them.  The tasks write into shared in-memory       *)
(* columns and lists; the sizes of the lists are counted in one phase and  *)
(* counted down in a later one to give each element its place.  Long       *)
(* strings and lists go to overflow files in which a task owns a page at a *)
(* time.                                                                   *)
(*                                                                         *)
(* A line is [len, kind, ...] with the tokens of a row; the values of the  *)
(* property are NULL, a string [id, len] or a sequence of strings.  A byte *)
(* of a string is <<id, k>>, an element of a list takes one place.         *)
(***************************************************************************)
EXTENDS Values, Integers, Sequences, FiniteSets, SequencesExt, FiniteSetsExt, Functions, TLC

CONSTANTS
    CopyFiles,          \* [table, lines, endsWithNewLine, hasHeader, list]
    BlockBytes,         \* CSV_READING_BLOCK_SIZE
    OverflowBytes,      \* bytes of a page of an overflow file
    ShortBytes,         \* SHORT_STR_LENGTH
    ListChunk,          \* LISTS_CHUNK_SIZE
    GroupPages,         \* PAGE_LIST_GROUP_SIZE
    PerPage,            \* elements in a page of "adj", "prop" and "unstr" lists
    SmallLengths,       \* the lengths a small list's header can hold, 2^11
    SmallOffsets,       \* the offsets it can hold, 2^20
    BucketNodes,        \* nodes of a task that sorts overflow values
    NumNodesOf          \* nodes of the tables at both ends of a relationship

\* A page holds 4096 bytes of unstructured properties and at most 2048 neighbours.
ASSUME CSVCopierAssumption ==
    /\ PerPage["adj"] <= SmallLengths /\ SmallLengths <= PerPage["unstr"]
    /\ ListChunk * SmallLengths <= SmallOffsets

VARIABLES
    copyFile, copyPhase,
    blockLines,         \* numLinesPerBlock
    copyTasks,          \* the position of the task of each block, and its overflow cursors
    inMemColumns,       \* the columns: what is set at an offset
    inMemLists,         \* sizes, headers, metadata and pages of the lists
    overflowFiles,      \* the pages of the overflow files
    copiedKeys          \* the primary key index

copyVars == <<copyFile, copyPhase, blockLines, copyTasks, inMemColumns, inMemLists, overflowFiles,
              copiedKeys>>

Directions == {"fwd", "bwd"}
Opposite(d) == CHOOSE e \in Directions : e # d
IsNodeFile == copyFile.table = "node"
NumBlocks == 1 + (FoldLeft(LAMBDA n, l : n + l.len, 0, copyFile.lines) \div BlockBytes)
Blocks == 0 .. NumBlocks - 1

-----------------------------------------------------------------------------
(* CSVReader: the rows a block reads.                                       *)

StartOf(i) == FoldLeft(LAMBDA n, l : n + l.len, 0, SubSeq(copyFile.lines, 1, i - 1))
NumFileLines == Len(copyFile.lines)

\* A constructor that does not look at the byte before the block.
FirstLine_SkipsOne(b) ==
    Min({i \in 1 .. NumFileLines : b = 0 \/ StartOf(i) > b * BlockBytes} \cup {NumFileLines + 1})

\* The constructor: a line belongs to the block its first byte is in.
FirstLine(b) ==
    Min({i \in 1 .. NumFileLines : StartOf(i) >= b * BlockBytes} \cup {NumFileLines + 1})

\* It looks for the end of a line that an earlier block begins, and for ever if there is none.
FindsItsFirstLine(b) ==
    copyFile.endsWithNewLine \/ \E i \in 1 .. NumFileLines : StartOf(i) >= b * BlockBytes

\* hasNextLine: blank lines and comments are read over, a last line without its end is not returned.
NextRow(b, i) ==
    LET rows == {j \in i .. NumFileLines : copyFile.lines[j].kind = "row"}
                    \ (IF copyFile.endsWithNewLine THEN {} ELSE {NumFileLines})
    IN IF i > NumFileLines \/ StartOf(i) >= (b + 1) * BlockBytes \/ rows = {} THEN 0 ELSE Min(rows)

LinesOfBlock(b) ==
    LET next == [i \in 1 .. NumFileLines + 1 |-> NextRow(b, i)]
        from[i \in 1 .. NumFileLines + 1] == IF next[i] = 0 THEN <<>> ELSE <<next[i]>> \o from[next[i] + 1]
    IN from[FirstLine(b)]

\* skipFirstRowIfNecessary.
RowsOfBlock(b) ==
    SubSeq(LinesOfBlock(b), IF b = 0 /\ copyFile.hasHeader THEN 2 ELSE 1, Len(LinesOfBlock(b)))

RowAt(b) == copyFile.lines[RowsOfBlock(b)[copyTasks[b].row]]

-----------------------------------------------------------------------------
(* Overflow files.  A cursor is <<>> or <<page, offset>>.                   *)

NoCursor == <<>>
EmptyOverflowPage == [i \in 1 .. OverflowBytes |-> <<>>]
StringBytes(s) == [k \in 1 .. s.len |-> <<s.id, k>>]

WriteBytes(pages, page, offset, bytes) ==
    [pages EXCEPT ![page] = [i \in DOMAIN @ |-> IF i - offset \in DOMAIN bytes THEN bytes[i - offset] ELSE @[i]]]

\* A task whose value does not fit the rest of its page takes a new page.
WithRoom(pages, cursor, len) ==
    IF cursor # NoCursor /\ cursor[2] + len < OverflowBytes THEN [pages |-> pages, cursor |-> cursor]
    ELSE [pages |-> Append(pages, EmptyOverflowPage), cursor |-> <<Len(pages) + 1, 0>>]

\* copyStringOverflow of the bytes of a string.
PutString(at, bytes) ==
    [pages |-> WriteBytes(at.pages, at.cursor[1], at.cursor[2], bytes),
     cursor |-> <<at.cursor[1], at.cursor[2] + Len(bytes)>>,
     value |-> [len |-> Len(bytes), inline |-> <<>>, ptr |-> at.cursor]]

CopyStringOverflow(pages, cursor, bytes) == PutString(WithRoom(pages, cursor, Len(bytes)), bytes)

CopyString(pages, cursor, s) ==
    IF s.len <= ShortBytes
    THEN [pages |-> pages, cursor |-> cursor,
          value |-> [len |-> s.len, inline |-> StringBytes(s), ptr |-> NoCursor]]
    ELSE CopyStringOverflow(pages, cursor, StringBytes(s))

\* copyVarSizedValuesToPages: room for the elements first, their strings next, the elements last,
\* in the page the cursor is in by then.
CopyElement(acc, copied) ==
    [pages |-> copied.pages, cursor |-> copied.cursor, elements |-> Append(acc.elements, copied.value)]

PutElements(at, copied, list) ==
    [pages |-> WriteBytes(copied.pages, copied.cursor[1], at.cursor[2], copied.elements),
     cursor |-> copied.cursor,
     value |-> [len |-> Len(list), inline |-> <<>>, ptr |-> at.cursor]]

CopyListAt(at, list) ==
    PutElements(at,
        FoldLeft(LAMBDA acc, s : CopyElement(acc, CopyString(acc.pages, acc.cursor, s)),
                 [pages |-> at.pages, cursor |-> <<at.cursor[1], at.cursor[2] + Len(list)>>, elements |-> <<>>], list),
        list)

CopyList(pages, cursor, list) == CopyListAt(WithRoom(pages, cursor, Len(list)), list)

\* What a property of the row becomes in the overflow file and in its cell.
CopyValue(pages, cursor, v) ==
    IF v = NULL THEN [pages |-> pages, cursor |-> cursor, value |-> NULL]
    ELSE IF copyFile.list THEN CopyList(pages, cursor, v[1]) ELSE CopyString(pages, cursor, v[1])

BytesAt(pages, ptr, len) == [k \in 1 .. len |-> pages[ptr[1]][ptr[2] + k]]

StringOf(pages, gf) == IF gf.ptr = NoCursor THEN gf.inline ELSE BytesAt(pages, gf.ptr, gf.len)

\* copyStringOverflowFromUnorderedToOrderedPages, copyListOverflowFromUnorderedToOrderedPages.
MoveString(from, acc, gf) ==
    IF gf.ptr = NoCursor THEN [pages |-> acc.pages, cursor |-> acc.cursor, value |-> gf]
    ELSE CopyStringOverflow(acc.pages, acc.cursor, BytesAt(from, gf.ptr, gf.len))

\* copyListOverflow: the elements are copied first, then each is moved and changed in its place.
MoveElement(at, k, moved) ==
    [pages |-> WriteBytes(moved.pages, at.cursor[1], at.cursor[2] + k - 1, <<moved.value>>), cursor |-> moved.cursor]

MoveListTo(from, at, gf) ==
    LET moved == FoldLeft(LAMBDA a, k : MoveElement(at, k, MoveString(from, a, BytesAt(from, gf.ptr, gf.len)[k])),
                    [pages |-> WriteBytes(at.pages, at.cursor[1], at.cursor[2], BytesAt(from, gf.ptr, gf.len)),
                     cursor |-> <<at.cursor[1], at.cursor[2] + gf.len>>],
                    [k \in 1 .. gf.len |-> k])
    IN moved @@ [value |-> [gf EXCEPT !.ptr = at.cursor]]

MoveList(from, acc, gf) == MoveListTo(from, WithRoom(acc.pages, acc.cursor, gf.len), gf)

\* A cell that is NULL or was never set holds zeros: an empty string, which stays where it is, or
\* an empty list, which is moved to a page like others.
MoveValue(from, acc, v) ==
    IF v = NULL /\ copyFile.list THEN WithRoom(acc.pages, acc.cursor, 0) @@ [value |-> NULL]
    ELSE IF v = NULL THEN [pages |-> acc.pages, cursor |-> acc.cursor, value |-> NULL]
    ELSE IF copyFile.list THEN MoveList(from, acc, v) ELSE MoveString(from, acc, v)

-----------------------------------------------------------------------------
(* Headers and metadata of lists.                                           *)

NodesUpTo(n) == [i \in 1 .. n |-> i - 1]
ChunkOf(n) == n \div ListChunk
IsLastOfChunk(n, num) == n = num - 1 \/ (n + 1) % ListChunk = 0

\* calculateListHeadersTask: a list that fills a page is large, the small ones of a chunk follow
\* each other.
ListHeadersOf(sizes, num, perPage) ==
    FoldLeft(LAMBDA acc, n :
        LET isLarge == sizes[n] >= perPage
            header == IF isLarge THEN [large |-> TRUE, idx |-> acc.larges + 1, csr |-> 0, len |-> 0]
                      ELSE [large |-> FALSE, idx |-> 0, csr |-> acc.csr % SmallOffsets,
                            len |-> sizes[n] % SmallLengths]
        IN [headers |-> (n :> header) @@ acc.headers,
            larges |-> IF isLarge THEN acc.larges + 1 ELSE acc.larges,
            csr |-> IF IsLastOfChunk(n, num) THEN 0 ELSE IF isLarge THEN acc.csr ELSE acc.csr + sizes[n]],
        [headers |-> <<>>, larges |-> 0, csr |-> 0], NodesUpTo(num)).headers

\* populatePageIdsInAPageList: groups of pages, each followed by the index of the next group.
WithPageList(meta, numPages) ==
    LET groups == (numPages + GroupPages - 1) \div GroupPages
        entry(i) == LET g == (i - 1) \div (GroupPages + 1)
                        j == (i - 1) % (GroupPages + 1)
                        p == g * GroupPages + j
                    IN IF j = GroupPages
                       THEN IF g = groups - 1 THEN 0 ELSE Len(meta.pageLists) + i + 1
                       ELSE IF p < numPages THEN meta.numPages + p + 1 ELSE 0
    IN [meta EXCEPT !.pageLists = @ \o [i \in 1 .. groups * (GroupPages + 1) |-> entry(i)],
                    !.numPages = @ + numPages]

\* The page of a logical page, along the groups.
PageOf(pageLists, head, idx) ==
    LET group[g \in 0 .. idx \div GroupPages] ==
            IF g = 0 THEN head ELSE pageLists[group[g - 1] + GroupPages]
    IN pageLists[group[idx \div GroupPages] + (idx % GroupPages)]

\* calculateListsMetadataAndAllocateInMemListPagesTask, for one node: a large list has its own
\* pages; the small ones fill the pages of their chunk, which are added at its end.
AddToMetadata(meta, n, headers, sizes, num, perPage) ==
    LET total == meta.offset + sizes[n]
        full == IF total = 0 THEN 0 ELSE (total - 1) \div perPage
        listed == IF headers[n].large
                  THEN [WithPageList(meta, (sizes[n] + perPage - 1) \div perPage) EXCEPT
                            !.larges = Append(@, [head |-> Len(meta.pageLists) + 1, len |-> sizes[n]])]
                  ELSE [meta EXCEPT !.pages = @ + full, !.offset = total - full * perPage]
        chunkPages == listed.pages + (IF listed.offset # 0 THEN 1 ELSE 0)
    IN IF ~IsLastOfChunk(n, num) THEN listed
       ELSE [(IF chunkPages = 0 THEN listed ELSE WithPageList(listed, chunkPages)) EXCEPT
                !.chunks = Append(@, Len(listed.pageLists) + 1), !.pages = 0, !.offset = 0]

MetadataOf(sizes, headers, num, perPage) ==
    FoldLeft(LAMBDA meta, n : AddToMetadata(meta, n, headers, sizes, num, perPage),
             [pageLists |-> <<>>, numPages |-> 0, larges |-> <<>>, chunks |-> <<>>, pages |-> 0, offset |-> 0],
             NodesUpTo(num))

LengthOf(meta, header) == IF header.large THEN meta.larges[header.idx].len ELSE header.len

\* Where the element at a position of the list of n is.
PlaceOf(meta, header, n, pos, perPage) ==
    LET at == IF header.large THEN pos ELSE header.csr + pos
        head == IF header.large THEN meta.larges[header.idx].head ELSE meta.chunks[ChunkOf(n) + 1]
    IN <<PageOf(meta.pageLists, head, at \div perPage), at % perPage>>

\* calcPageElementCursor: positions are counted from the end.
CursorFor(meta, header, n, reversePos, perPage) ==
    PlaceOf(meta, header, n, LengthOf(meta, header) - reversePos, perPage)

EmptyPages(meta, perPage) == [p \in 1 .. meta.numPages |-> [i \in 0 .. perPage - 1 |-> NULL]]

-----------------------------------------------------------------------------
(* The phases.                                                              *)

NumRows == FoldLeft(LAMBDA n, b : n + blockLines[b], 0, [i \in 1 .. NumBlocks |-> i - 1])
StartOffset(b) == FoldLeft(LAMBDA n, c : n + blockLines[c], 0, [i \in 1 .. b |-> i - 1])

IsColumn(d) == copyFile.table \in (CASE d = "fwd" -> {"MANY_ONE", "ONE_ONE"} [] d = "bwd" -> {"ONE_MANY", "ONE_ONE"})
ListDirections == IF IsNodeFile THEN {"node"} ELSE {d \in Directions : ~IsColumn(d)}
NumLists(d) == IF d = "node" THEN NumRows ELSE NumNodesOf[d]

IdleTask == [row |-> 1, step |-> 1, taken |-> <<>>, cursor |-> [f \in {"cols", "lists"} |-> NoCursor]]

\* countNumLinesAndUnstrPropertiesPerBlockTask.
CountLines(b) ==
    /\ copyPhase = "count" /\ b \notin DOMAIN blockLines
    /\ FindsItsFirstLine(b)
    /\ blockLines' = (b :> Len(LinesOfBlock(b))) @@ blockLines
    /\ UNCHANGED <<copyFile, copyPhase, copyTasks, inMemColumns, inMemLists, overflowFiles, copiedKeys>>

\* calculateNumRows: the header is no row.  initializeColumnsAndLists.
InitializeColumnsAndLists ==
    /\ copyPhase = "count" /\ DOMAIN blockLines = Blocks
    /\ blockLines' = IF copyFile.hasHeader THEN [blockLines EXCEPT ![0] = @ - 1] ELSE blockLines
    /\ copyPhase' = "columns"
    /\ copyTasks' = [b \in Blocks |-> IdleTask]
    /\ inMemColumns' = [d \in {"node"} \cup Directions |-> <<>>]
    /\ inMemLists' = [d \in {"node"} \cup Directions |->
            [sizes |-> [n \in 0 .. (IF d = "node" THEN Len(copyFile.lines) ELSE NumNodesOf[d]) - 1 |-> 0]]]
    /\ UNCHANGED <<copyFile, overflowFiles, copiedKeys>>

HasRow(b) == copyTasks[b].row <= Len(RowsOfBlock(b))
NextLine(task) == [task EXCEPT !.row = @ + 1, !.step = 1, !.taken = <<>>]

\* calcLengthOfUnstrPropertyLists: the header and the value of each property.
UnstrBytes(u) == IF u.long THEN 3 ELSE 2
UnstrLength(row) == FoldLeft(LAMBDA n, u : n + UnstrBytes(u), 0, row.unstr)

\* putPropsOfLineIntoColumns and the sizes of the unstructured list of the node.
PutNodeRow(b, n, row, copied) ==
    /\ inMemColumns' = [inMemColumns EXCEPT !["node"] = (n :> [key |-> row.key, val |-> copied.value]) @@ @]
    /\ overflowFiles' = [overflowFiles EXCEPT !["cols"] = copied.pages]
    /\ inMemLists' = [inMemLists EXCEPT !["node"].sizes[n] = @ + UnstrLength(row)]
    /\ copyTasks' = [copyTasks EXCEPT ![b] = NextLine([@ EXCEPT !.cursor["cols"] = copied.cursor])]

PopulateNodeColumns(b) ==
    /\ copyPhase = "columns" /\ IsNodeFile /\ HasRow(b)
    /\ PutNodeRow(b, StartOffset(b) + copyTasks[b].row - 1, RowAt(b),
                  CopyValue(overflowFiles["cols"], copyTasks[b].cursor["cols"], RowAt(b).val))
    /\ UNCHANGED <<copyFile, copyPhase, blockLines, copiedKeys>>

\* populateIDIndex at the end of the block: a key that is there already stops the copy.
PopulateIDIndex(b) ==
    /\ copyPhase = "columns" /\ IsNodeFile /\ ~HasRow(b) /\ copyTasks[b].step = 1
    /\ LET offsets == StartOffset(b) .. StartOffset(b) + blockLines[b] - 1
           keyOf(n) == inMemColumns["node"][n].key
       IN IF \E n \in offsets : keyOf(n) \in DOMAIN copiedKeys \/ \E m \in offsets : m < n /\ keyOf(m) = keyOf(n)
          THEN copyPhase' = "failed" /\ UNCHANGED <<copyTasks, copiedKeys>>
          ELSE /\ copiedKeys' = [k \in {keyOf(n) : n \in offsets} |-> CHOOSE n \in offsets : keyOf(n) = k] @@ copiedKeys
               /\ copyTasks' = [copyTasks EXCEPT ![b].step = 2]
               /\ UNCHANGED copyPhase
    /\ UNCHANGED <<copyFile, blockLines, inMemColumns, inMemLists, overflowFiles>>

\* populateAdjColumnsAndCountRelsInAdjListsTask, for one line: the adjacency and property columns
\* of the single directions, the list sizes of the others.
PutRelRow(b, row, copied) ==
    LET cell(d) == [nbr |-> row[Opposite(d)], val |-> copied.value, rel |-> StartOffset(b) + copyTasks[b].row]
    IN /\ inMemColumns' = [d \in DOMAIN inMemColumns |->
            IF d \in Directions /\ IsColumn(d) THEN (row[d] :> cell(d)) @@ inMemColumns[d] ELSE inMemColumns[d]]
       /\ inMemLists' = [d \in DOMAIN inMemLists |->
            IF d \in ListDirections THEN [inMemLists[d] EXCEPT !.sizes[row[d]] = @ + 1] ELSE inMemLists[d]]
       /\ overflowFiles' = [overflowFiles EXCEPT !["cols"] = copied.pages]
       /\ copyTasks' = [copyTasks EXCEPT ![b] = NextLine([@ EXCEPT !.cursor["cols"] = copied.cursor])]

PopulateAdjColumns(b) ==
    /\ copyPhase = "columns" /\ ~IsNodeFile /\ HasRow(b)
    /\ PutRelRow(b, RowAt(b), CopyValue(overflowFiles["cols"], copyTasks[b].cursor["cols"], RowAt(b).val))
    /\ UNCHANGED <<copyFile, copyPhase, blockLines, copiedKeys>>

\* initAdjListsHeaders, initAdjAndPropertyListsMetadata, calcUnstrListsHeadersAndMetadata; nothing
\* of this, and no sorting of overflow values, when no direction has lists.
InitListHeadersAndMetadata ==
    /\ copyPhase = "columns" /\ \A b \in Blocks : ~HasRow(b) /\ (IsNodeFile => copyTasks[b].step = 2)
    /\ copyPhase' = IF ListDirections = {} THEN "done" ELSE "lists"
    /\ copyTasks' = [b \in Blocks |-> IdleTask]
    /\ inMemLists' = [d \in DOMAIN inMemLists |->
            IF d \notin ListDirections THEN inMemLists[d]
            ELSE LET kinds == IF IsNodeFile THEN {"unstr"} ELSE {"adj", "prop"}
                     main == IF IsNodeFile THEN "unstr" ELSE "adj"
                     headers == ListHeadersOf(inMemLists[d].sizes, NumLists(d), PerPage[main])
                     meta == [k \in kinds |-> MetadataOf(inMemLists[d].sizes, headers, NumLists(d), PerPage[k])]
                 IN [sizes |-> inMemLists[d].sizes, headers |-> headers, meta |-> meta,
                     pages |-> [k \in kinds |-> EmptyPages(meta[k], PerPage[k])]]]
    /\ UNCHANGED <<copyFile, blockLines, inMemColumns, overflowFiles, copiedKeys>>

\* setComponentOfUnstrProperty: a component that does not fit the page goes on in the next one.
SetComponent(pages, place, bytes) ==
    LET room == PerPage["unstr"] - place[2]
        fits == Len(bytes) <= room
        put(ps, p, o, bs) == [ps EXCEPT ![p] = [i \in DOMAIN @ |-> IF i - o + 1 \in DOMAIN bs THEN bs[i - o + 1] ELSE @[i]]]
    IN IF fits THEN [pages |-> put(pages, place[1], place[2], bytes), place |-> <<place[1], place[2] + Len(bytes)>>]
       ELSE [pages |-> put(put(pages, place[1], place[2], SubSeq(bytes, 1, room)),
                           place[1] + 1, 0, SubSeq(bytes, room + 1, Len(bytes))),
             place |-> <<place[1] + 1, Len(bytes) - room>>]

\* decrementListSize gives the size before, the position from the end.
TakePosition(size, k) == [reversePos |-> size, size |-> size - k]

\* putUnstrPropsOfALineToLists, one property of the line.
PutUnstrValue(withKey, values) == SetComponent(withKey.pages, withKey.place, values).pages

PutUnstr(b, n, u, reversePos, copied) ==
    LET list == inMemLists["node"]
        place == CursorFor(list.meta["unstr"], list.headers[n], n, reversePos, PerPage["unstr"])
    IN /\ inMemLists' = [inMemLists EXCEPT !["node"].pages["unstr"] =
                PutUnstrValue(SetComponent(@, place, <<u.name>>),
                              IF u.long THEN <<copied.value, copied.value>> ELSE <<copied.value>>),
                !["node"].sizes[n] = TakePosition(@, UnstrBytes(u)).size]
       /\ overflowFiles' = [overflowFiles EXCEPT !["lists"] = copied.pages]
       /\ copyTasks' = [copyTasks EXCEPT ![b].step = @ + 1, ![b].cursor["lists"] = copied.cursor]

\* The header of a list whose length was cut leads to positions before the list; those before
\* the chunk are a huge index of its page list, beyond the end of the array.
IsBeforeChunk(n, reversePos) ==
    LET header == inMemLists["node"].headers[n]
    IN ~header.large /\ header.csr + header.len < reversePos

PopulateUnstrLists(b) ==
    /\ copyPhase = "lists" /\ IsNodeFile /\ HasRow(b)
    /\ copyTasks[b].step <= Len(RowAt(b).unstr)
    /\ LET n == StartOffset(b) + copyTasks[b].row - 1
           u == RowAt(b).unstr[copyTasks[b].step]
           reversePos == TakePosition(inMemLists["node"].sizes[n], UnstrBytes(u)).reversePos
       IN IF IsBeforeChunk(n, reversePos)
          THEN copyPhase' = "failed" /\ UNCHANGED <<copyTasks, inMemLists, overflowFiles>>
          ELSE /\ PutUnstr(b, n, u, reversePos,
                      IF u.long THEN CopyString(overflowFiles["lists"], copyTasks[b].cursor["lists"], u.str)
                      ELSE [pages |-> overflowFiles["lists"], cursor |-> copyTasks[b].cursor["lists"], value |-> u.str])
               /\ UNCHANGED copyPhase
    /\ UNCHANGED <<copyFile, blockLines, inMemColumns, copiedKeys>>

NextUnstrLine(b) ==
    /\ copyPhase = "lists" /\ IsNodeFile /\ HasRow(b) /\ copyTasks[b].step > Len(RowAt(b).unstr)
    /\ copyTasks' = [copyTasks EXCEPT ![b] = NextLine(@)]
    /\ UNCHANGED <<copyFile, copyPhase, blockLines, inMemColumns, inMemLists, overflowFiles, copiedKeys>>

SetElement(list, kind, n, reversePos, val) ==
    LET place == CursorFor(list.meta[kind], list.headers[n], n, reversePos, PerPage[kind])
    IN [list EXCEPT !.pages[kind][place[1]][place[2]] = val]

\* populateAdjAndPropertyListsTask: the neighbour is put in the list of one direction ...
PopulateAdjList(b, d) ==
    /\ copyPhase = "lists" /\ ~IsNodeFile /\ HasRow(b)
    /\ d \in ListDirections \ DOMAIN copyTasks[b].taken /\ (d = "bwd" => "fwd" \notin ListDirections \ DOMAIN copyTasks[b].taken)
    /\ LET row == RowAt(b)
           taken == TakePosition(inMemLists[d].sizes[row[d]], 1)
       IN /\ inMemLists' = [inMemLists EXCEPT ![d] =
                SetElement([@ EXCEPT !.sizes[row[d]] = taken.size], "adj", row[d], taken.reversePos, row[Opposite(d)])]
          /\ copyTasks' = [copyTasks EXCEPT ![b].taken = (d :> taken.reversePos) @@ @]
    /\ UNCHANGED <<copyFile, copyPhase, blockLines, inMemColumns, overflowFiles, copiedKeys>>

\* ... and then the properties at the same positions of all directions.
PopulatePropertyLists(b) ==
    /\ copyPhase = "lists" /\ ~IsNodeFile /\ HasRow(b) /\ DOMAIN copyTasks[b].taken = ListDirections
    /\ LET row == RowAt(b)
           copied == CopyValue(overflowFiles["lists"], copyTasks[b].cursor["lists"], row.val)
           element == [val |-> copied.value, rel |-> StartOffset(b) + copyTasks[b].row]
       IN /\ inMemLists' = [d \in DOMAIN inMemLists |->
                IF d \notin ListDirections THEN inMemLists[d]
                ELSE SetElement(inMemLists[d], "prop", row[d], copyTasks[b].taken[d], element)]
          /\ overflowFiles' = [overflowFiles EXCEPT !["lists"] = copied.pages]
          /\ copyTasks' = [copyTasks EXCEPT ![b] = NextLine([@ EXCEPT !.cursor["lists"] = copied.cursor])]
    /\ UNCHANGED <<copyFile, copyPhase, blockLines, inMemColumns, copiedKeys>>

\* sortOverflowValues has a task for each bucket of nodes of each direction.
Buckets(d) == {<<d, k>> : k \in 0 .. ((NumNodesOf[d] + BucketNodes - 1) \div BucketNodes) - 1}
NodesOf(bucket) ==
    SelectSeq(NodesUpTo(NumNodesOf[bucket[1]]), LAMBDA n : n \div BucketNodes = bucket[2])

ListsArePopulated ==
    /\ copyPhase = "lists" /\ \A b \in Blocks : ~HasRow(b)
    /\ copyPhase' = IF IsNodeFile THEN "done" ELSE "sort"
    /\ copyTasks' = IF IsNodeFile THEN <<>> ELSE [k \in UNION {Buckets(d) : d \in Directions} |-> IdleTask]
    /\ UNCHANGED <<copyFile, blockLines, inMemColumns, inMemLists, overflowFiles, copiedKeys>>

\* sortOverflowValuesOfPropertyListsTask: node by node, position by position.
SortedLists(d, nodes) ==
    LET list == inMemLists[d]
        places == FlattenSeq([i \in DOMAIN nodes |->
                    LET len == LengthOf(list.meta["prop"], list.headers[nodes[i]])
                    IN [k \in 1 .. len |-> CursorFor(list.meta["prop"], list.headers[nodes[i]], nodes[i], len - k + 1, PerPage["prop"])]])
    IN FoldLeft(LAMBDA acc, p :
            LET m == MoveValue(overflowFiles["lists"], acc, acc.list.pages["prop"][p[1]][p[2]].val)
            IN [pages |-> m.pages, cursor |-> m.cursor, list |-> [acc.list EXCEPT !.pages["prop"][p[1]][p[2]].val = m.value]],
            [pages |-> overflowFiles[d], cursor |-> NoCursor, list |-> list], places)

SortLists(bucket) ==
    LET d == bucket[1]
    IN /\ copyPhase = "sort" /\ bucket \in DOMAIN copyTasks /\ ~IsColumn(d)
       /\ LET sorted == SortedLists(d, NodesOf(bucket))
          IN /\ inMemLists' = [inMemLists EXCEPT ![d] = sorted.list]
             /\ overflowFiles' = [overflowFiles EXCEPT ![d] = sorted.pages]
       /\ copyTasks' = [k \in DOMAIN copyTasks \ {bucket} |-> copyTasks[k]]
       /\ UNCHANGED <<copyFile, copyPhase, blockLines, inMemColumns, copiedKeys>>

\* sortOverflowValuesOfPropertyColumnTask, after the lists.
SortColumn(bucket) ==
    LET d == bucket[1]
    IN /\ copyPhase = "sort" /\ bucket \in DOMAIN copyTasks /\ IsColumn(d)
       /\ \A k \in DOMAIN copyTasks : IsColumn(k[1])
       /\ LET isSet(n) == n \in DOMAIN inMemColumns[d]
              sorted == FoldLeft(LAMBDA acc, n :
                    LET m == MoveValue(overflowFiles["cols"], acc, IF isSet(n) THEN acc.column[n].val ELSE NULL)
                    IN [pages |-> m.pages, cursor |-> m.cursor,
                        column |-> IF isSet(n) THEN [acc.column EXCEPT ![n].val = m.value] ELSE acc.column],
                    [pages |-> overflowFiles[d], cursor |-> NoCursor, column |-> inMemColumns[d]], NodesOf(bucket))
          IN /\ inMemColumns' = [inMemColumns EXCEPT ![d] = sorted.column]
             /\ overflowFiles' = [overflowFiles EXCEPT ![d] = sorted.pages]
       /\ copyTasks' = [k \in DOMAIN copyTasks \ {bucket} |-> copyTasks[k]]
       /\ UNCHANGED <<copyFile, copyPhase, blockLines, inMemLists, copiedKeys>>

\* saveToFile: the unordered overflow files are dropped.
SaveToFile ==
    /\ copyPhase = "sort" /\ DOMAIN copyTasks = {}
    /\ copyPhase' = "done"
    /\ overflowFiles' = [overflowFiles EXCEPT !["cols"] = <<>>, !["lists"] = <<>>]
    /\ UNCHANGED <<copyFile, blockLines, copyTasks, inMemColumns, inMemLists, copiedKeys>>

CSVCopierInit ==
    /\ copyFile \in CopyFiles
    /\ copyPhase = "count"
    /\ blockLines = <<>> /\ copyTasks = <<>> /\ inMemColumns = <<>> /\ inMemLists = <<>> /\ copiedKeys = <<>>
    /\ overflowFiles = [f \in {"cols", "lists"} \cup Directions |-> <<EmptyOverflowPage>>]

CSVCopierNext ==
    \/ \E b \in Blocks :
        \/ CountLines(b)
        \/ PopulateNodeColumns(b) \/ PopulateIDIndex(b) \/ PopulateAdjColumns(b)
        \/ PopulateUnstrLists(b) \/ NextUnstrLine(b) \/ PopulatePropertyLists(b)
        \/ \E d \in Directions : PopulateAdjList(b, d)
    \/ InitializeColumnsAndLists \/ InitListHeadersAndMetadata \/ ListsArePopulated
    \/ \E bucket \in UNION {Buckets(d) : d \in Directions} : SortLists(bucket) \/ SortColumn(bucket)
    \/ SaveToFile

CSVCopierSpec == CSVCopierInit /\ [][CSVCopierNext]_copyVars

-----------------------------------------------------------------------------
(* What a reader finds.                                                     *)

\* AdjLists::readFromLargeList, Lists::readFromLargeList: a large list is read page by page of
\* the adjacency list, the property list from the same position; a small list at once.
BatchesOf(d, n) ==
    LET list == inMemLists[d]
        len == LengthOf(list.meta["adj"], list.headers[n])
        size == IF list.headers[n].large THEN PerPage["adj"] ELSE len
    IN IF len = 0 THEN {} ELSE {<<s, Min({size, len - s})>> : s \in {i \in 0 .. len - 1 : i % size = 0}}

ReadAt(d, n, kind, pos) ==
    LET place == PlaceOf(inMemLists[d].meta[kind], inMemLists[d].headers[n], n, pos, PerPage[kind])
    IN inMemLists[d].pages[kind][place[1]][place[2]]

\* readStringsToVector, readListsToVector.
ReadValue(pages, v) ==
    IF v = NULL THEN NULL
    ELSE IF copyFile.list
         THEN LET elements == BytesAt(pages, v.ptr, v.len)
              IN <<[i \in DOMAIN elements |-> StringOf(pages, elements[i])]>>
         ELSE <<StringOf(pages, v)>>

\* The rows of the file in their order, without the header.
FileRows ==
    LET rows == SelectSeq([i \in 1 .. NumFileLines |-> i], LAMBDA i : copyFile.lines[i].kind = "row")
    IN IF copyFile.hasHeader THEN Tail(rows) ELSE rows

ExpectedValue(v) ==
    IF v = NULL THEN NULL
    ELSE IF copyFile.list THEN <<[i \in DOMAIN v[1] |-> StringBytes(v[1][i])]>> ELSE <<StringBytes(v[1])>>

\* The unstructured list of the node holds the properties of the row in their order.
UnstrIsRead(n, row) ==
    LET at(k) == UnstrLength([row EXCEPT !.unstr = SubSeq(@, 1, k - 1)])
        byte(i) == ReadAt("node", n, "unstr", i)
    IN /\ LengthOf(inMemLists["node"].meta["unstr"], inMemLists["node"].headers[n]) = UnstrLength(row)
       /\ \A k \in DOMAIN row.unstr :
            LET u == row.unstr[k]
            IN /\ byte(at(k)) = u.name
               /\ IF u.long THEN \A i \in 1 .. 2 :
                        StringOf(overflowFiles["lists"], byte(at(k) + i)) = StringBytes(u.str)
                  ELSE byte(at(k) + 1) = u.str

RelationshipsOf(d) ==
    IF IsColumn(d)
    THEN {<<n, inMemColumns[d][n].nbr, inMemColumns[d][n].rel, ReadValue(overflowFiles[d], inMemColumns[d][n].val)>>
            : n \in DOMAIN inMemColumns[d]}
    ELSE UNION {UNION {{<<n, ReadAt(d, n, "adj", batch[1] + i), ReadAt(d, n, "prop", batch[1] + i).rel,
                          ReadValue(overflowFiles[d], ReadAt(d, n, "prop", batch[1] + i).val)>>
                        : i \in 0 .. batch[2] - 1} : batch \in BatchesOf(d, n)} : n \in 0 .. NumNodesOf[d] - 1}

(* Whatever way the tasks of the blocks interleave, a finished COPY has loaded every row of the *)
(* file once: the node of a row has its values and its key leads to it, a relationship is found *)
(* from both ends, with its neighbour, its ID and its property at the same position, and every  *)
(* string is read back from the overflow file that was saved.  (InMemNodeCSVCopier::copy,       *)
(* InMemRelCSVCopier::copy, InMemOverflowFile, AdjLists::readFromLargeList.)  Of lists whose     *)
(* length the header cuts it is false.                                                          *)
CopiesAreFaithful ==
    copyPhase = "done" =>
        IF IsNodeFile
        THEN /\ DOMAIN inMemColumns["node"] = 0 .. Len(FileRows) - 1
             /\ \A n \in 0 .. Len(FileRows) - 1 :
                LET row == copyFile.lines[FileRows[n + 1]]
                IN /\ inMemColumns["node"][n].key = row.key /\ copiedKeys[row.key] = n
                   /\ ReadValue(overflowFiles["cols"], inMemColumns["node"][n].val) = ExpectedValue(row.val)
                   /\ UnstrIsRead(n, row)
        ELSE \A d \in Directions :
                RelationshipsOf(d) = {LET row == copyFile.lines[FileRows[i]]
                                      IN <<row[d], row[Opposite(d)], i, ExpectedValue(row.val)>> : i \in DOMAIN FileRows}
=============================================================================
