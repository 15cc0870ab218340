------------------------------- MODULE OrderBy -------------------------------
(***************************************************************************)
(* ORDER BY: every thread encodes the sort keys of its rows into key       *)
(* blocks and keeps the rows in a factorized table of its own (OrderBy),   *)
(* sorts each block byte by byte and breaks the ties of strings and        *)
(* unstructured values by looking the values up (RadixSort).  The threads  *)
(* of the next pipeline merge the sorted blocks two by two, a morsel of a  *)
(* merge each (KeyBlockMergeTaskDispatcher, KeyBlockMerger), and one       *)
(* thread of the last pipeline reads the rows in order (OrderByScan).      *)
(*                                                                         *)
(* Bytes are digits 0 .. ByteMax.  A key block is a sequence of cells: the *)
(* bytes of a tuple's keys and one cell for the eight bytes that locate    *)
(* its row.  RadixSort moves cells, not tuples.                            *)
(***************************************************************************)
EXTENDS Values, Integers, Sequences, SequencesExt, FiniteSets

CONSTANTS
    SortThreads,     \* the threads of both pipelines
    SortQueries,     \* [cols: sequence of [type, asc], unflat, batches]
    KeyBlockTuples,  \* LARGE_PAGE_SIZE / numBytesPerTuple
    TableTuples,     \* numTuplesPerBlockInFT
    MergeBatch,      \* KeyBlockMergeTask::batch_size
    ScanRows,        \* DEFAULT_VECTOR_CAPACITY
    ShortChars,      \* gf_string_t::SHORT_STR_LENGTH
    AssertsEnabled   \* is the build one without NDEBUG

VARIABLES
    sortQuery,       \* the query
    sortPhase,       \* the pipeline that runs: "sort", "merge" or "scan"
    nextBatch,       \* the batches that the child has given away
    sorters,         \* thread -> its encoder, its table and its state
    keyQueue,        \* sortedKeyBlocks, each a sequence of tuples
    mergeTasks,      \* activeKeyBlockMergeTasks
    mergers,         \* thread -> the morsel that it merges
    nullGuarantee,   \* does the first table know that it may hold nulls
    sortedRows       \* the rows OrderByScan has returned

orderByVars ==
    <<sortQuery, sortPhase, nextBatch, sorters, keyQueue, mergeTasks, mergers, nullGuarantee, sortedRows>>

ByteMax == 3
Garbage3 == -3
SortCols == sortQuery.cols
-----------------------------------------------------------------------------
(* Key encoding. *)

\* A sequence of bytes, or the characters of a string, comes before another.
LexLess(a, b) ==
    \/ Len(a) < Len(b) /\ IsPrefix(a, b)
    \/ \E i \in DOMAIN a \cap DOMAIN b : a[i] < b[i] /\ \A j \in 1 .. i - 1 : a[j] = b[j]

getEncodingSize(type) ==
    CASE type = "UNSTRUCTURED" -> 2
      [] type = "STRING" -> 2 + ShortChars
      [] OTHER -> 3

\* An integer of two bytes, the most significant one first, its sign bit flipped.
encodeInt(v) ==
    LET u == (v + 16) % 16 IN <<((u \div 4) + 2) % 4, u % 4>>

\* A floating-point number is a sign and a magnitude: the bytes of a negative one are complemented.
encodeDouble(v) ==
    IF v < 0 THEN LET u == 8 - v IN <<ByteMax - (u \div 4), ByteMax - (u % 4)>>
    ELSE <<((v \div 4) + 2) % 4, v % 4>>

\* The prefix of a string, padded, and the flag of a long one.
encodeString(s) ==
    [i \in 1 .. ShortChars |-> IF i <= Len(s) THEN s[i] ELSE 0]
        \o <<IF Len(s) <= ShortChars THEN 0 ELSE ByteMax>>

encodeData(type, v) ==
    CASE type = "INT64" -> encodeInt(v)
      [] type = "DOUBLE" -> encodeDouble(v)
      [] type = "STRING" -> encodeString(v)
      [] type = "UNSTRUCTURED" -> <<0>>

\* The bytes of one key: the null flag and the value, all bytes flipped for a descending key.
encodeVector(col, v) ==
    LET bytes == IF v = NULL THEN [i \in 1 .. getEncodingSize(col.type) |-> ByteMax]
                 ELSE <<0>> \o encodeData(col.type, v)
    IN IF col.asc THEN bytes ELSE [i \in DOMAIN bytes |-> ByteMax - bytes[i]]

keyBytes(key) ==
    FlattenSeq([i \in DOMAIN key |-> encodeVector(SortCols[i], key[i])])

\* The bytes before column i, in an encoded tuple.
colOffset(i) ==
    FoldLeft(LAMBDA n, c : n + getEncodingSize(c.type), 0, SubSeq(SortCols, 1, i - 1))

numBytesToRadixSort ==
    colOffset(Len(SortCols) + 1)

numBytesPerTuple ==
    numBytesToRadixSort + 1

\* The location of the k-th row of a thread's table: block, offset and table.
encodeFTIdx(t, k) ==
    [ft |-> t, block |-> (k - 1) \div TableTuples, offset |-> (k - 1) % TableTuples]

\* The rows of a batch that are encoded and appended: the current one of a flat
\* vector, else the selected ones, as often as the multiplicity says.
batchRows(b) ==
    LET once == IF b.flat THEN <<b.rows[b.sel[1]]>> ELSE [i \in DOMAIN b.sel |-> b.rows[b.sel[i]]]
    IN FlattenSeq([i \in 1 .. b.mult |-> once])

\* The cells of a thread's tuples lo .. hi of its table.
encodeKeys(t, rows, lo, hi) ==
    FlattenSeq([i \in 1 .. hi - lo + 1 |-> keyBytes(rows[lo + i - 1]) \o <<encodeFTIdx(t, lo + i - 1)>>])

rowAt(info) ==
    sorters[info.ft].rows[info.block * TableTuples + info.offset + 1]
-----------------------------------------------------------------------------
(* RadixSort, on the cells of one key block.  Tuples are numbered from 0. *)

tupleOf(cells, i) ==
    SubSeq(cells, i * numBytesPerTuple + 1, (i + 1) * numBytesPerTuple)

stringAndUnstructuredKeyCols ==
    SelectSeq([i \in DOMAIN SortCols |-> i], LAMBDA i : SortCols[i].type \in {"STRING", "UNSTRUCTURED"})

isNullVal(tuple, c) ==
    tuple[colOffset(c) + 1] = (IF SortCols[c].asc THEN ByteMax ELSE 0)

isLongStr(tuple, c) ==
    tuple[colOffset(c) + getEncodingSize("STRING")] = (IF SortCols[c].asc THEN ByteMax ELSE 0)

valueOf(tuple, c) ==
    rowAt(tuple[numBytesPerTuple])[c]

valueLess(c, v, w) ==
    IF SortCols[c].type = "STRING" THEN LexLess(v, w) ELSE v < w

StableSort(s, Less(_, _)) ==
    LET place(i) == Cardinality({j \in DOMAIN s : Less(s[j], s[i]) \/ (j <= i /\ ~ Less(s[i], s[j]))})
    IN [k \in DOMAIN s |-> s[CHOOSE i \in DOMAIN s : place(i) = k]]

\* The cells with those from base + 1 on replaced.
replaceCells(cells, base, new) ==
    [c \in DOMAIN cells |-> IF c - base \in DOMAIN new THEN new[c - base] ELSE cells[c]]

\* Sorts n tuples by the bytes from + 1 .. from + len.  What moves is numBytesPerTuple
\* cells that begin at the sorted byte of a tuple and end in the tuple that follows it.
radixSort(cells, start, n, from, len) ==
    LET base == start * numBytesPerTuple + from
        moved == [i \in 1 .. n |->
                     [c \in 1 .. numBytesPerTuple |->
                         IF base + (i - 1) * numBytesPerTuple + c \in DOMAIN cells
                         THEN cells[base + (i - 1) * numBytesPerTuple + c] ELSE Garbage3]]
    IN replaceCells(cells, base,
           FlattenSeq(StableSort(moved, LAMBDA x, y : LexLess(SubSeq(x, 1, len), SubSeq(y, 1, len)))))

\* The longest runs of equal tuples among the tuples lo .. hi.
tieRanges(lo, hi, Same(_, _)) ==
    LET run(a, b) == \A k \in a + 1 .. b : Same(a, k)
    IN SetToSortSeq({<<a, b>> \in (lo .. hi) \X (lo .. hi) :
                        a < b /\ run(a, b) /\ (a = lo \/ ~ Same(a - 1, a)) /\ (b = hi \/ ~ Same(a, b + 1))},
                    LAMBDA x, y : x[1] < y[1])

findTies(cells, start, n, from, len) ==
    tieRanges(start, start + n - 1,
        LAMBDA i, j : SubSeq(tupleOf(cells, i), from + 1, from + len)
                    = SubSeq(tupleOf(cells, j), from + 1, from + len))

findStringAndUnstructuredTies(cells, tie, c) ==
    tieRanges(tie[1], tie[2],
        LAMBDA i, j :
            LET x == tupleOf(cells, i)
                y == tupleOf(cells, j)
            IN IF isNullVal(x, c) \/ isNullVal(y, c) THEN isNullVal(x, c) /\ isNullVal(y, c)
               ELSE IF SortCols[c].type = "STRING" /\ ~ (isLongStr(x, c) /\ isLongStr(y, c))
                    THEN ~ isLongStr(x, c) /\ ~ isLongStr(y, c)
               ELSE valueOf(x, c) = valueOf(y, c))

\* The comparator of the quicksort that breaks the ties of column c.  It holds both ways
\* for two nulls of an ascending column and two equal values of a descending one.
tieLess(x, y, c) ==
    LET asc == SortCols[c].asc
    IN IF isNullVal(y, c) THEN asc
       ELSE IF isNullVal(x, c) THEN ~ asc
       ELSE IF SortCols[c].type = "STRING" /\ ~ (isLongStr(x, c) /\ isLongStr(y, c))
            THEN (isLongStr(x, c) # isLongStr(y, c)) /\ (isLongStr(y, c) <=> asc)
       ELSE asc <=> valueLess(c, valueOf(x, c), valueOf(y, c))

\* The tuples that the quicksort of column c compares with each other.
tiedUpTo(x, y, c) ==
    /\ SubSeq(x, 1, colOffset(c + 1)) = SubSeq(y, 1, colOffset(c + 1))
    /\ \A d \in Range(stringAndUnstructuredKeyCols) : d < c => valueOf(x, d) = valueOf(y, d)

\* std::sort is undefined when two elements compare less both ways: its partition of a
\* range of more than 16 elements runs out of the range.
sortIsDefined(cells, n) ==
    \A i, j \in 0 .. n - 1 : \A c \in Range(stringAndUnstructuredKeyCols) :
        LET x == tupleOf(cells, i)
            y == tupleOf(cells, j)
        IN i # j /\ tiedUpTo(x, y, c) => ~ (tieLess(x, y, c) /\ tieLess(y, x, c))

solveStringAndUnstructuredTies(cells, tie, c) ==
    replaceCells(cells, tie[1] * numBytesPerTuple,
        FlattenSeq(StableSort([i \in 1 .. tie[2] - tie[1] + 1 |-> tupleOf(cells, tie[1] + i - 1)],
                              LAMBDA x, y : tieLess(x, y, c))))

addTies(ties, cells, tie, c) ==
    [cells |-> cells, ties |-> ties \o findStringAndUnstructuredTies(cells, tie, c)]

\* The ties of the bytes from + 1 .. to in a range of tuples, sorted by the values of column c.
solveTies(ties, cells, tie, from, to, c) ==
    FoldLeft(LAMBDA r, x : addTies(r.ties, solveStringAndUnstructuredTies(r.cells, x, c), x, c),
             [cells |-> cells, ties |-> ties],
             findTies(cells, tie[1], tie[2] - tie[1] + 1, from, to - from))

\* One column: its ties are sorted by the bytes up to the end of the column, then by value.
sortColumn(st, c) ==
    LET to == colOffset(c + 1)
        one(s, tie) ==
            solveTies(s.ties, radixSort(s.cells, tie[1], tie[2] - tie[1] + 1, st.sorted, to - st.sorted),
                      tie, st.sorted, to, c)
    IN FoldLeft(one, [cells |-> st.cells, ties |-> <<>>], st.ties) @@ ("sorted" :> to)

\* The columns after the last string, in each tie that is left.
sortRest(st) ==
    FoldLeft(LAMBDA cells, tie : radixSort(cells, tie[1], tie[2] - tie[1] + 1, st.sorted,
                                           numBytesToRadixSort - st.sorted),
             st.cells, st.ties)

sortSingleKeyBlock(cells, n) ==
    sortRest(FoldLeft(sortColumn, [cells |-> cells, ties |-> <<<<0, n - 1>>>>, sorted |-> 0],
                      stringAndUnstructuredKeyCols))
-----------------------------------------------------------------------------
(* KeyBlockMerger. *)

\* Is the left tuple larger, when strings or unstructured values are among the keys:
\* the columns after the last of them are not compared.
compareTuplePtrWithStringAndUnstructuredCol(x, y) ==
    LET cols == stringAndUnstructuredKeyCols
        larger[k \in 1 .. Len(cols) + 1] ==
            IF k > Len(cols) THEN FALSE
            ELSE LET c == cols[k]
                     from == IF k = 1 THEN 0 ELSE colOffset(cols[k - 1] + 1)
                     left == SubSeq(x, from + 1, colOffset(c + 1))
                     right == SubSeq(y, from + 1, colOffset(c + 1))
                     short == SortCols[c].type = "STRING" /\ ~ (isLongStr(x, c) /\ isLongStr(y, c))
                 IN IF isNullVal(x, c) /\ isNullVal(y, c) THEN larger[k + 1]
                    ELSE IF left # right THEN LexLess(right, left)
                    ELSE IF short \/ valueOf(x, c) = valueOf(y, c) THEN larger[k + 1]
                    ELSE SortCols[c].asc <=> valueLess(c, valueOf(y, c), valueOf(x, c))
    IN larger[1]

compareTuplePtr(x, y) ==
    IF stringAndUnstructuredKeyCols # <<>> THEN compareTuplePtrWithStringAndUnstructuredCol(x, y)
    ELSE LexLess(SubSeq(y, 1, numBytesToRadixSort), SubSeq(x, 1, numBytesToRadixSort))

\* The number of right tuples, from index from on, below the last left tuple of a batch.
findRightKeyBlockIdx_NotIncremented(task, leftEnd) ==
    LET n == Cardinality({i \in task.nextRight + 1 .. Len(task.right) : compareTuplePtr(leftEnd, task.right[i])})
    IN IF n = 0 THEN 0 ELSE n - 1

findRightKeyBlockIdx(task, leftEnd) ==
    Cardinality({i \in task.nextRight + 1 .. Len(task.right) : compareTuplePtr(leftEnd, task.right[i])})

hasMorselLeft(task) ==
    task.nextLeft < Len(task.left) \/ task.nextRight < Len(task.right)

\* The next morsel of a task.
getMorselOfTask(task) ==
    LET ls == task.nextLeft
        rs == task.nextRight
        le == ls + MergeBatch
    IN IF rs >= Len(task.right) THEN [ls |-> ls, le |-> Len(task.left), rs |-> rs, re |-> rs]
       ELSE IF le >= Len(task.left) THEN [ls |-> ls, le |-> Len(task.left), rs |-> rs, re |-> Len(task.right)]
       ELSE [ls |-> ls, le |-> le, rs |-> rs, re |-> rs + findRightKeyBlockIdx(task, task.left[le])]

\* A BlockPtrInfo over the tuples s .. e of n.  getTuple asserts that there is a tuple s;
\* an empty range that begins a block ends in the block before, or has no block.
pointsPastItsEnd(s, e, n) ==
    \/ AssertsEnabled /\ s >= n
    \/ s = e /\ s > 0 /\ s % KeyBlockTuples = 0

mergeKeyBlocks(left, right) ==
    LET m[i \in 0 .. Len(left), j \in 0 .. Len(right)] ==
            IF i = Len(left) THEN SubSeq(right, j + 1, Len(right))
            ELSE IF j = Len(right) THEN SubSeq(left, i + 1, Len(left))
            ELSE IF compareTuplePtr(left[i + 1], right[j + 1]) THEN <<right[j + 1]>> \o m[i, j + 1]
            ELSE <<left[i + 1]>> \o m[i + 1, j]
    IN m[0, 0]

isDoneMerge ==
    Len(keyQueue) = 1 /\ mergeTasks = <<>>
-----------------------------------------------------------------------------
OrderByInit ==
    /\ sortQuery \in SortQueries
    /\ sortPhase = "sort"
    /\ nextBatch = 0
    /\ sorters = [t \in SortThreads |-> [rows |-> <<>>, blocks |-> <<>>, state |-> "append"]]
    /\ keyQueue = <<>>
    /\ mergeTasks = <<>>
    /\ mergers = [t \in SortThreads |-> <<>>]
    /\ nullGuarantee = [mayContainNulls |-> [t \in SortThreads |-> FALSE]]
    /\ sortedRows = <<>>

\* OrderBy::execute: a batch of the child is encoded and its rows are appended.
AppendInput(t) ==
    LET new == batchRows(sortQuery.batches[nextBatch + 1])
        rows == sorters[t].rows \o new
        numBlocks == (Len(rows) + KeyBlockTuples - 1) \div KeyBlockTuples
    IN /\ sortPhase = "sort" /\ sorters[t].state = "append"
       /\ nextBatch < Len(sortQuery.batches)
       /\ nextBatch' = nextBatch + 1
       /\ sorters' = [sorters EXCEPT ![t].rows = rows,
                          ![t].blocks = [b \in 1 .. numBlocks |->
                              encodeKeys(t, rows, (b - 1) * KeyBlockTuples + 1,
                                         IF b < numBlocks THEN b * KeyBlockTuples ELSE Len(rows))]]
       /\ nullGuarantee' = [nullGuarantee EXCEPT !.mayContainNulls[t] =
                               @ \/ \E i \in DOMAIN new : \E c \in DOMAIN new[i] : new[i][c] = NULL]
       /\ UNCHANGED <<sortQuery, sortPhase, keyQueue, mergeTasks, mergers, sortedRows>>

\* The child is exhausted: the thread sorts its next key block and hands it over.
SortBlock(t) ==
    /\ sortPhase = "sort" /\ sorters[t].state = "append"
    /\ nextBatch = Len(sortQuery.batches)
    /\ IF sorters[t].blocks = <<>>
       THEN sorters' = [sorters EXCEPT ![t].state = "done"] /\ UNCHANGED keyQueue
       ELSE LET cells == Head(sorters[t].blocks)
                n == Len(cells) \div numBytesPerTuple
                sorted == sortSingleKeyBlock(cells, n)
            IN IF sortIsDefined(cells, n)
               THEN /\ keyQueue' = Append(keyQueue, [i \in 1 .. n |-> tupleOf(sorted, i - 1)])
                    /\ sorters' = [sorters EXCEPT ![t].blocks = Tail(@)]
               ELSE sorters' = [sorters EXCEPT ![t].state = "undefined"] /\ UNCHANGED keyQueue
    /\ UNCHANGED <<sortQuery, sortPhase, nextBatch, mergeTasks, mergers, nullGuarantee, sortedRows>>

\* OrderBy::finalize, when the last thread is done: combineFTHasNoNullGuarantee.
combineFTHasNoNullGuarantee ==
    [nullGuarantee EXCEPT !.mayContainNulls =
        [t \in SortThreads |-> IF t = 1 THEN \E u \in SortThreads : @[u] ELSE @[t]]]

FinalizeOrderBy ==
    /\ sortPhase = "sort" /\ \A t \in SortThreads : sorters[t].state = "done"
    /\ sortPhase' = "merge"
    /\ nullGuarantee' = combineFTHasNoNullGuarantee
    /\ UNCHANGED <<sortQuery, nextBatch, sorters, keyQueue, mergeTasks, mergers, sortedRows>>

\* A thread takes a morsel, and the task is left without it.
TakeMorsel(t, tasks, task, range) ==
    /\ mergers' = [mergers EXCEPT ![t] = <<[range |-> range, id |-> task.id, numRight |-> Len(task.right)]>>]
    /\ mergeTasks' = Append(tasks, [task EXCEPT !.nextLeft = range.le, !.nextRight = range.re, !.active = @ + 1])

GiveMorsel(t, tasks, task) == TakeMorsel(t, tasks, task, getMorselOfTask(task))

NewMergeTask(left, right) ==
    [left |-> left, right |-> right, nextLeft |-> 0, nextRight |-> 0, active |-> 0, id |-> left[1],
     result |-> [i \in 1 .. Len(left) + Len(right) |-> <<>>]]

\* KeyBlockMergeTaskDispatcher::getMorsel, one critical section.
GetMorsel(t) ==
    LET hasTask == mergeTasks # <<>> /\ hasMorselLeft(Last(mergeTasks))
    IN /\ sortPhase = "merge" /\ mergers[t] = <<>> /\ ~ isDoneMerge
       /\ \/ /\ hasTask
             /\ GiveMorsel(t, Front(mergeTasks), Last(mergeTasks))
             /\ UNCHANGED keyQueue
          \/ /\ ~ hasTask /\ Len(keyQueue) > 1
             /\ GiveMorsel(t, mergeTasks, NewMergeTask(keyQueue[1], keyQueue[2]))
             /\ keyQueue' = SubSeq(keyQueue, 3, Len(keyQueue))
       /\ UNCHANGED <<sortQuery, sortPhase, nextBatch, sorters, nullGuarantee, sortedRows>>

\* doneMorsel: the last morsel of a task makes its result a block of the queue.
DoneMorsel(k, merged) ==
    IF merged.active = 0 /\ ~ hasMorselLeft(merged)
    THEN mergeTasks' = RemoveAt(mergeTasks, k) /\ keyQueue' = Append(keyQueue, merged.result)
    ELSE mergeTasks' = [mergeTasks EXCEPT ![k] = merged] /\ UNCHANGED keyQueue

\* mergeKeyBlocks without the dispatcher's mutex, then doneMorsel.
MergeMorsel(t) ==
    /\ sortPhase = "merge" /\ mergers[t] # <<>>
    /\ \E k \in DOMAIN mergeTasks :
          LET task == mergeTasks[k]
              r == mergers[t][1].range
          IN /\ task.id = mergers[t][1].id
             /\ ~ pointsPastItsEnd(r.rs, r.re, Len(task.right))
             /\ DoneMorsel(k, [task EXCEPT !.active = @ - 1,
                                !.result = replaceCells(@, r.ls + r.rs,
                                    mergeKeyBlocks(SubSeq(task.left, r.ls + 1, r.le), SubSeq(task.right, r.rs + 1, r.re)))])
    /\ mergers' = [mergers EXCEPT ![t] = <<>>]
    /\ UNCHANGED <<sortQuery, sortPhase, nextBatch, sorters, nullGuarantee, sortedRows>>

\* The merge pipeline ends when every thread has seen isDoneMerge.
FinishMerge ==
    /\ sortPhase = "merge" /\ isDoneMerge /\ \A t \in SortThreads : mergers[t] = <<>>
    /\ sortPhase' = "scan"
    /\ UNCHANGED <<sortQuery, nextBatch, sorters, keyQueue, mergeTasks, mergers, nullGuarantee, sortedRows>>

\* OrderByScan::getNextTuples: the next rows, all looked up through the first table.
ScanSorted ==
    LET left == Len(keyQueue[1]) - Len(sortedRows)
        n == IF sortQuery.unflat THEN 1 ELSE IF left < ScanRows THEN left ELSE ScanRows
        read(info) == LET row == rowAt(info)
                          t == IF sortQuery.unflat THEN info.ft ELSE 1
                      IN [c \in DOMAIN row |->
                             IF row[c] = NULL /\ ~ nullGuarantee.mayContainNulls[t] THEN Garbage3 ELSE row[c]]
    IN /\ sortPhase = "scan" /\ left > 0
       /\ sortedRows' = sortedRows \o
              [i \in 1 .. n |-> read(keyQueue[1][Len(sortedRows) + i][numBytesPerTuple])]
       /\ UNCHANGED <<sortQuery, sortPhase, nextBatch, sorters, keyQueue, mergeTasks, mergers, nullGuarantee>>

OrderByNext ==
    \/ \E t \in SortThreads : AppendInput(t) \/ SortBlock(t) \/ GetMorsel(t) \/ MergeMorsel(t)
    \/ FinalizeOrderBy
    \/ FinishMerge
    \/ ScanSorted

OrderBySpec ==
    OrderByInit /\ [][OrderByNext]_orderByVars
-----------------------------------------------------------------------------
(* Properties. *)

\* The order the query asks for: nulls are the largest values.
rowLess(v, w) ==
    \E c \in DOMAIN SortCols :
        /\ \A d \in 1 .. c - 1 : v[d] = w[d]
        /\ LET less(a, b) == a # b /\ a # NULL /\ (b = NULL \/ valueLess(c, a, b))
           IN IF SortCols[c].asc THEN less(v[c], w[c]) ELSE less(w[c], v[c])

occurrences(s, x) ==
    Cardinality({i \in DOMAIN s : s[i] = x})

\* ORDER BY returns every row of its input as often as the input has it, in the order
\* of the sort keys, however the threads share the batches, hand their blocks over and
\* share the morsels of the merges; no sort of ties is undefined and no merge reads outside
\* the blocks it was given (sortSingleKeyBlock, getMorsel, mergeKeyBlocks).  The code keeps
\* this promise only for inputs without equal long strings in a descending column (two NULLs in
\* an ascending one), columns behind a string, NULL strings behind other columns, right blocks
\* that are exhausted at the end of a block, and, with assertions, right blocks that are
\* exhausted at all; MCQuery has an input of each kind (the Sorts... that SortQueries leaves out).
RowsAreSorted ==
    /\ \A t \in SortThreads : sorters[t].state # "undefined"
    /\ \A t \in SortThreads : mergers[t] # <<>> =>
          LET m == mergers[t][1] IN ~ pointsPastItsEnd(m.range.rs, m.range.re, m.numRight)
    /\ \A i, j \in DOMAIN sortedRows : i < j => ~ rowLess(sortedRows[j], sortedRows[i])
    /\ (sortPhase = "scan" /\ Len(sortedRows) = Len(keyQueue[1])) =>
          LET input == FlattenSeq([i \in DOMAIN sortQuery.batches |-> batchRows(sortQuery.batches[i])])
          IN \A i \in DOMAIN input : occurrences(input, input[i]) = occurrences(sortedRows, input[i])
=============================================================================
