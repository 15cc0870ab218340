----------------------------- MODULE Aggregation -----------------------------
(***************************************************************************)
(* GROUP BY and aggregates: SimpleAggregate, HashAggregate and their       *)
(* scans, the AggregateHashTable and the aggregate functions.              *)
(*                                                                         *)
(* The input of a batch is the cross product of three data chunks, held    *)
(* factorized: "x" is flat (one current position), "y" and "z" are unflat  *)
(* (the positions of their selection vector).  A query groups by key       *)
(* columns of "x" and "y" and aggregates a value column of any chunk; the  *)
(* chunks it reads nothing of are folded into the multiplicity.  Threads   *)
(* fill local tables, the last one merges them, and scanners read ranges   *)
(* of the result.                                                          *)
(***************************************************************************)
EXTENDS Values, Integers, Sequences, FiniteSets, SequencesExt, FiniteSetsExt, Functions, TLC

CONSTANTS
    AggThreads,         \* the threads of the task
    AggBatches,         \* the input: a sequence of batches
    AggQueries,         \* the queries: sets of key chunks and lists of aggregates
    AggHash,            \* the hash of a key value, NULL included
    InitialSlots,       \* hash slots of a new table: a page of them, a power of two
    ScanCapacity        \* DEFAULT_VECTOR_CAPACITY of the scan

\* appendAggregate flattens the keys and the inputs of a plan with a distinct aggregate.
IsPlannable(q) ==
    \A i \in DOMAIN q.aggs : q.aggs[i].distinct => q.keys \subseteq {"x"} /\ q.aggs[i].input = "x"

ASSUME AggregationAssumption ==
    /\ IsFiniteSet(AggThreads) /\ AggThreads # {}
    /\ InitialSlots \in Nat \ {0} /\ ScanCapacity \in Nat \ {0}
    /\ \A q \in AggQueries : IsPlannable(q)

VARIABLES
    aggQuery,           \* the query that runs
    aggLeft,            \* the batches no thread has taken
    aggLocal,           \* the local table of each thread
    aggShared,          \* HashAggregateSharedState, SimpleAggregateSharedState
    aggOutput           \* the rows the scans returned

aggregationVars == <<aggQuery, aggLeft, aggLocal, aggShared, aggOutput>>

-----------------------------------------------------------------------------
(* Data chunks.                                                             *)

ChunkNames == {"x", "y", "z"}

IsSimple == aggQuery.keys = {}

HasUnflatKey == "y" \in aggQuery.keys

\* DataChunkState: the selected positions, one of them when the chunk is flat.
Selected(b, c) == AggBatches[b][c].sel

\* ValueVector::hasNoNullsGuarantee.
HasNoNulls(b, c) == \A v \in Range(AggBatches[b][c].val) : v # NULL

ReadChunks == aggQuery.keys \cup {a.input : a \in Range(aggQuery.aggs)}

\* Projection multiplies the multiplicity by the sizes of the discarded chunks.
Multiplicity(b) ==
    AggBatches[b].mult * MapThenFoldSet(LAMBDA m, n : m * n, 1, LAMBDA c : Len(Selected(b, c)),
        LAMBDA S : CHOOSE c \in S : TRUE, ChunkNames \ ReadChunks)

\* The positions whose hashes are computed: the unflat key chunk's, else the flat one's.
KeyPositions(b) == IF HasUnflatKey THEN Selected(b, "y") ELSE Selected(b, "x")

KeyAt(b, p) ==
    (IF "x" \in aggQuery.keys THEN <<AggBatches[b]["x"].key[Selected(b, "x")[1]]>> ELSE <<>>)
    \o (IF HasUnflatKey THEN <<AggBatches[b]["y"].key[p]>> ELSE <<>>)

\* The first key column's hash, combined with those of the further columns.
CombineHash(a, h) == (3 * a) + h

HashOfKey(key) == FoldLeft(LAMBDA a, k : CombineHash(a, AggHash[k]), 0, key)

-----------------------------------------------------------------------------
(* Aggregate functions: a state, its updates and the combination of two.    *)

NullState == [isNull |-> TRUE, value |-> 0, count |-> 0]

InitialAggState(fn) ==
    IF fn \in {"COUNT", "COUNT_STAR"} THEN [NullState EXCEPT !.isNull = FALSE] ELSE NullState

\* Sum and Avg: the first value replaces the uninitialised sum.
SumUpdate(s, v, mult) ==
    [isNull |-> FALSE, value |-> (IF s.isNull THEN 0 ELSE s.value) + v * mult, count |-> s.count]

AvgUpdate(s, v, mult) == [SumUpdate(s, v, mult) EXCEPT !.count = @ + mult]

\* Min and Max keep the current value unless the new one compares true with it.
MinMaxUpdate(fn, s, v) ==
    LET replaces == IF fn = "MIN" THEN v < s.value ELSE v > s.value
    IN  [s EXCEPT !.isNull = FALSE, !.value = IF s.isNull \/ replaces THEN v ELSE @]

CountUpdate(s, mult) == [s EXCEPT !.count = @ + mult]

UpdateState(fn, s, v, mult) ==
    CASE fn \in {"COUNT", "COUNT_STAR"} -> CountUpdate(s, mult)
      [] fn = "SUM" -> SumUpdate(s, v, mult)
      [] fn = "AVG" -> AvgUpdate(s, v, mult)
      [] fn \in {"MIN", "MAX"} -> MinMaxUpdate(fn, s, v)

CombineCount(s, o) == [s EXCEPT !.count = @ + o.count]

CombineSum(s, o) == IF o.isNull THEN s ELSE SumUpdate(s, o.value, 1)

CombineAvg(s, o) == IF o.isNull THEN s ELSE [SumUpdate(s, o.value, 1) EXCEPT !.count = @ + o.count]

CombineMinMax(fn, s, o) == IF o.isNull THEN s ELSE UpdateState(fn, s, o.value, 1)

\* A merge that takes an empty state for a value.
CombineState_OfNull(fn, s, o) ==
    CASE fn \in {"COUNT", "COUNT_STAR"} -> CombineCount(s, o)
      [] fn \in {"MIN", "MAX"} -> UpdateState(fn, s, o.value, 1)
      [] OTHER -> CombineAvg(s, o)

CombineState(fn, s, o) ==
    CASE fn \in {"COUNT", "COUNT_STAR"} -> CombineCount(s, o)
      [] fn = "SUM" -> CombineSum(s, o)
      [] fn = "AVG" -> CombineAvg(s, o)
      [] fn \in {"MIN", "MAX"} -> CombineMinMax(fn, s, o)

\* writeAggregateResultToVector, after finalizeState divided the sum of AVG.
ResultOf(fn, s) ==
    CASE s.isNull -> NULL
      [] fn \in {"COUNT", "COUNT_STAR"} -> s.count
      [] fn = "AVG" -> <<s.value, s.count>>
      [] OTHER -> s.value

-----------------------------------------------------------------------------
(* AggregateHashTable.  An entry is [key, states]; a slot holds the number  *)
(* of its entry, 0 for none; slotOf keeps the slot that each position of    *)
(* the batch was found in, also after the batch.                            *)

InitialStates == [i \in DOMAIN aggQuery.aggs |-> InitialAggState(aggQuery.aggs[i].fn)]

NewEntry(key) == [key |-> key, states |-> InitialStates]

EmptySlots(n) == [s \in 0 .. n - 1 |-> 0]

NumSlots(t) == Cardinality(DOMAIN t.slots)

\* createDistinctHashTables: a table for each aggregate, of the (group, value) pairs seen.
DistinctTables == [i \in DOMAIN aggQuery.aggs |-> {}]

NewTable ==
    [slots |-> EmptySlots(InitialSlots),
     entries |-> IF IsSimple THEN <<NewEntry(<<>>)>> ELSE <<>>,
     slotOf |-> <<>>,
     distinct |-> DistinctTables,
     phase |-> "build"]

\* increaseSlotIdx: linear probing.
NextSlot(t, s) == (s + 1) % NumSlots(t)

\* fillHashSlot: the first free slot from the home slot of the hash.
FillSlot(slots, e, hash) ==
    LET n == Cardinality(DOMAIN slots)
        d == CHOOSE k \in 0 .. n - 1 : /\ slots[(hash + k) % n] = 0
                                       /\ \A j \in 0 .. k - 1 : slots[(hash + j) % n] # 0
    IN [slots EXCEPT ![(hash + d) % n] = e]

\* resize: the slots are reset and every entry is placed again.
Resize(t, n) ==
    [t EXCEPT !.slots = FoldLeft(LAMBDA ss, e : FillSlot(ss, e, HashOfKey(t.entries[e].key)),
                                 EmptySlots(n), [e \in DOMAIN t.entries |-> e])]

\* The load factor is 1.5 slots per entry, all keys of the batch counted as new.
ResizeIfNecessary(t, numKeys) ==
    IF 3 * (Len(t.entries) + numKeys) > 2 * NumSlots(t) THEN Resize(t, 2 * NumSlots(t)) ELSE t

\* initTmpHashSlotsAndIdxes.
HomeSlots(t, keyAt) ==
    [t EXCEPT !.slotOf = [p \in DOMAIN keyAt |-> HashOfKey(keyAt[p]) % NumSlots(t)] @@ @]

\* compareEntryWithKeys: the Equals of the column's type.
SameCell(v, w) == v = w

\* matchFTEntries: of the entries with the hash, column by column; a null matches a null only.
Matches(entry, key) ==
    /\ HashOfKey(entry.key) = HashOfKey(key)
    /\ \A c \in DOMAIN key : SameCell(entry.key[c], key[c])

\* One position of a pass: a free slot gets a new entry, an occupied one matches or not.
ProbeOne(acc, p, key) ==
    LET t == acc.table s == t.slotOf[p] e == t.slots[s]
    IN IF e = 0
       THEN [acc EXCEPT !.table.entries = Append(@, NewEntry(key)),
                        !.table.slots[s] = Len(t.entries) + 1]
       ELSE IF Matches(t.entries[e], key) THEN acc
       ELSE [acc EXCEPT !.noMatch = Append(@, p)]

\* A pass of findHashSlots; the positions that found neither move to the next slot.
ProbePass(acc, keyAt) ==
    LET pass == FoldLeft(LAMBDA a, p : ProbeOne(a, p, keyAt[p]),
                         [acc EXCEPT !.noMatch = <<>>], acc.noMatch)
    IN [pass EXCEPT !.table.slotOf = [p \in DOMAIN @ |->
            IF p \in Range(pass.noMatch) THEN NextSlot(pass.table, @[p]) ELSE @[p]]]

\* findHashSlots: as many passes as there are slots are enough.
FindHashSlots(t, positions, keyAt) ==
    FoldLeft(LAMBDA acc, i : ProbePass(acc, keyAt),
             [table |-> HomeSlots(t, keyAt), noMatch |-> positions],
             [i \in 1 .. NumSlots(t) |-> i]).table

-----------------------------------------------------------------------------
(* Updating the states of a batch.  Each update is <<position, value>>: the *)
(* entry is the one in the slot kept for the position.                      *)

\* updateNullAggVectorState: COUNT(*) takes no vector.
NullVectorUpdates(b) == [i \in DOMAIN KeyPositions(b) |-> <<KeyPositions(b)[i], 0>>]

\* updateBothFlatAggVectorState, updateFlatUnflatKeyFlatAggVectorState.
FlatVectorUpdates(b) ==
    LET v == AggBatches[b]["x"].val[Selected(b, "x")[1]]
    IN IF v = NULL THEN <<>> ELSE [i \in DOMAIN KeyPositions(b) |-> <<KeyPositions(b)[i], v>>]

NonNull(b, c) == SelectSeq(Selected(b, c), LAMBDA p : AggBatches[b][c].val[p] # NULL)

\* updateFlatKeyUnflatAggVectorState: with possible nulls the code reads slot 0,
\* not the slot of the key's position (QueriesOfNulls of MCQuery reach it).
FlatKeyUpdates(b, c) ==
    LET slotPos == IF IsSimple \/ HasNoNulls(b, c) THEN Selected(b, "x")[1] ELSE 1
    IN [i \in DOMAIN NonNull(b, c) |-> <<slotPos, AggBatches[b][c].val[NonNull(b, c)[i]]>>]

\* updateBothUnflatSameDCAggVectorState.
SameChunkUpdates(b, c) ==
    [i \in DOMAIN NonNull(b, c) |-> <<NonNull(b, c)[i], AggBatches[b][c].val[NonNull(b, c)[i]]>>]

\* updateBothUnflatDifferentDCAggVectorState, and updateAllState for every key.
DifferentChunkUpdates(b, c) ==
    FlattenSeq([i \in DOMAIN KeyPositions(b) |->
        [j \in DOMAIN NonNull(b, c) |-> <<KeyPositions(b)[i], AggBatches[b][c].val[NonNull(b, c)[j]]>>]])

\* updateAggState chooses by the shape of the keys and of the aggregate's vector.
UpdatesOf(b, c) ==
    CASE c = "none" -> NullVectorUpdates(b)
      [] c = "x" -> FlatVectorUpdates(b)
      [] c # "x" /\ ~HasUnflatKey -> FlatKeyUpdates(b, c)
      [] c = "y" -> SameChunkUpdates(b, c)
      [] c = "z" -> DifferentChunkUpdates(b, c)

\* The entry a position leads to; a simple aggregate has one state and no slots.
EntryOf(t, p) ==
    IF IsSimple THEN 1 ELSE IF p \in DOMAIN t.slotOf THEN t.slots[t.slotOf[p]] ELSE 0

\* updateAggState: a position whose slot was never set, or is empty again, has no entry to
\* write to.
UpdateAggState(t, b, i) ==
    LET agg == aggQuery.aggs[i]
        updates == UpdatesOf(b, agg.input)
    IN IF \E u \in Range(updates) : EntryOf(t, u[1]) = 0
       THEN [t EXCEPT !.phase = "crashed"]
       ELSE [t EXCEPT !.entries = FoldLeft(LAMBDA es, u :
                [es EXCEPT ![EntryOf(t, u[1])].states[i] =
                    UpdateState(agg.fn, @, u[2], Multiplicity(b))], @, updates)]

\* isAggregateValueDistinctForGroupByKeys.
IsDistinctPair(t, i, pair) == pair \notin t.distinct[i]

\* The distinct tables never grow: findEntryInDistinctHT does not end in a full one that lacks
\* the pair.
ProbesForever(t, i) == Cardinality(t.distinct[i]) = InitialSlots

\* Only flat keys; HashAggregate ignores the multiplicity, SimpleAggregate does not.
UpdateDistinctAggState(t, b, i) ==
    LET agg == aggQuery.aggs[i]
        p == Selected(b, "x")[1]
        v == AggBatches[b]["x"].val[p]
        pair == <<KeyAt(b, p), v>>
        mult == IF IsSimple THEN Multiplicity(b) ELSE 1
    IN IF ~IsDistinctPair(t, i, pair) THEN t
       ELSE IF ProbesForever(t, i) THEN [t EXCEPT !.phase = "hung"]
       ELSE [t EXCEPT !.distinct[i] = @ \cup {pair},
                      !.entries = IF v = NULL THEN @
                                  ELSE [@ EXCEPT ![EntryOf(t, p)].states[i] =
                                            UpdateState(agg.fn, @, v, mult)]]

UpdateAggStates(t, b) ==
    FoldLeft(LAMBDA u, i : IF u.phase # "build" THEN u
                           ELSE IF aggQuery.aggs[i].distinct THEN UpdateDistinctAggState(u, b, i)
                           ELSE UpdateAggState(u, b, i),
             t, [i \in DOMAIN aggQuery.aggs |-> i])

\* SimpleAggregate::execute has nothing to look up.
AppendToSimple(t, b) == UpdateAggStates(t, b)

\* AggregateHashTable::append.
AppendBatch(t, b) ==
    LET positions == KeyPositions(b)
        keyAt == [p \in Range(positions) |-> KeyAt(b, p)]
        ready == ResizeIfNecessary(t, IF HasUnflatKey THEN Len(positions) ELSE 1)
    IN UpdateAggStates(FindHashSlots(ready, positions, keyAt), b)

-----------------------------------------------------------------------------
(* The operators.                                                           *)

\* A task with a distinct aggregate is single-threaded.
TaskThreads ==
    IF \E a \in Range(aggQuery.aggs) : a.distinct THEN {Min(AggThreads)} ELSE AggThreads

AggregationInit ==
    /\ aggQuery \in AggQueries
    /\ aggLeft = DOMAIN AggBatches
    /\ aggLocal = [t \in TaskThreads |-> NewTable]
    /\ aggShared = [tables |-> <<>>, global |-> NewTable, currentOffset |-> 0, phase |-> "build"]
    /\ aggOutput = <<>>

\* One iteration of execute: the child returns a batch, the local table takes it in.
AggregateBatch(t) ==
    /\ aggLocal[t].phase = "build"
    /\ \E b \in aggLeft :
        /\ aggLeft' = aggLeft \ {b}
        /\ aggLocal' = [aggLocal EXCEPT ![t] = IF IsSimple THEN AppendToSimple(@, b) ELSE AppendBatch(@, b)]
    /\ UNCHANGED <<aggQuery, aggShared, aggOutput>>

CombineEntries(e, o) ==
    [e EXCEPT !.states = [i \in DOMAIN @ |-> CombineState(aggQuery.aggs[i].fn, @[i], o.states[i])]]

\* SimpleAggregateSharedState::combineAggregateStates.
CombineSimple(t) ==
    [aggShared EXCEPT !.global.entries = <<CombineEntries(@[1], aggLocal[t].entries[1])>>]

\* The child has no more batches: appendAggregateHashTable, or combineAggregateStates.
FinishBuild(t) ==
    /\ aggLocal[t].phase = "build" /\ aggLeft = {}
    /\ aggLocal' = [aggLocal EXCEPT ![t].phase = "finished"]
    /\ aggShared' =
        IF IsSimple THEN CombineSimple(t)
        ELSE [aggShared EXCEPT !.tables = Append(@, aggLocal[t])]
    /\ UNCHANGED <<aggQuery, aggLeft, aggOutput>>

\* merge: the other table's keys are found or added, then their states are combined.
MergeTable(t, o) ==
    LET keyAt == [e \in DOMAIN o.entries |-> o.entries[e].key]
        found == FindHashSlots(t, [e \in DOMAIN o.entries |-> e], keyAt)
    IN [found EXCEPT !.entries = FoldLeft(LAMBDA es, e :
            [es EXCEPT ![found.slots[found.slotOf[e]]] = CombineEntries(@, o.entries[e])],
            @, [e \in DOMAIN o.entries |-> e])]

NextPowerOfTwo(n) == CHOOSE p \in {2 ^ k : k \in 0 .. n} : p >= n /\ \A k \in 0 .. n : 2 ^ k >= n => p <= 2 ^ k

\* combineAggregateHashTable: the first table is resized to hold the entries of all.
CombineTables(ts) ==
    LET numEntries == FoldLeft(LAMBDA n, t : n + Len(t.entries), 0, ts)
    IN IF Len(ts) = 1 THEN ts[1]
       ELSE FoldLeft(MergeTable, Resize(ts[1], NextPowerOfTwo(numEntries)), Tail(ts))

\* finalize, by the last thread of the task.
Finalize ==
    /\ aggShared.phase = "build"
    /\ \A t \in TaskThreads : aggLocal[t].phase = "finished"
    /\ aggShared' = [aggShared EXCEPT !.phase = "scan",
                                      !.global = IF IsSimple THEN @ ELSE CombineTables(aggShared.tables)]
    /\ UNCHANGED <<aggQuery, aggLeft, aggLocal, aggOutput>>

RowOf(entry) ==
    [key |-> entry.key,
     results |-> [i \in DOMAIN aggQuery.aggs |-> ResultOf(aggQuery.aggs[i].fn, entry.states[i])]]

\* getNextRangeToRead.
NextRange == Min({ScanCapacity, Len(aggShared.global.entries) - aggShared.currentOffset})

\* The scan of the next range; the last call finds nothing.
ScanAggregates ==
    LET range == NextRange
    IN /\ aggShared.phase = "scan"
       /\ IF range = 0 THEN aggShared' = [aggShared EXCEPT !.phase = "done"] /\ aggOutput' = aggOutput
          ELSE /\ aggShared' = [aggShared EXCEPT !.currentOffset = @ + range]
               /\ aggOutput' = aggOutput \o [i \in 1 .. range |->
                        RowOf(aggShared.global.entries[aggShared.currentOffset + i])]
       /\ UNCHANGED <<aggQuery, aggLeft, aggLocal>>

AggregationNext ==
    \/ \E t \in TaskThreads : AggregateBatch(t) \/ FinishBuild(t)
    \/ Finalize
    \/ ScanAggregates

AggregationSpec == AggregationInit /\ [][AggregationNext]_aggregationVars

-----------------------------------------------------------------------------
(* The reference: the rows that the factorized batches stand for.           *)

InputRows ==
    UNION {{[batch |-> b, x |-> x, y |-> y, z |-> z, copy |-> m] :
                x \in Range(Selected(b, "x")), y \in Range(Selected(b, "y")),
                z \in Range(Selected(b, "z")), m \in 1 .. AggBatches[b].mult} : b \in DOMAIN AggBatches}

RowKey(r) == KeyAt(r.batch, r.y)

\* The value of a row for an aggregate, 0 for COUNT(*).
RowValue(r, c) == IF c = "none" THEN 0 ELSE AggBatches[r.batch][c].val[r[c]]

\* The rows an aggregate counts: not null, and one for each value when it is distinct.
CountedRows(rows, agg) ==
    LET notNull == {r \in rows : RowValue(r, agg.input) # NULL}
    IN IF agg.distinct
       THEN {CHOOSE r \in notNull : RowValue(r, agg.input) = v : v \in {RowValue(r, agg.input) : r \in notNull}}
       ELSE notNull

ExpectedResult(rows, agg) ==
    LET counted == CountedRows(rows, agg)
        values == {RowValue(r, agg.input) : r \in counted}
        sum == MapThenSumSet(LAMBDA r : RowValue(r, agg.input), counted)
    IN CASE agg.fn \in {"COUNT", "COUNT_STAR"} -> Cardinality(counted)
         [] agg.fn \notin {"COUNT", "COUNT_STAR"} /\ counted = {} -> NULL
         [] agg.fn = "SUM" /\ counted # {} -> sum
         [] agg.fn = "AVG" /\ counted # {} -> <<sum, Cardinality(counted)>>
         [] agg.fn = "MIN" /\ counted # {} -> Min(values)
         [] agg.fn = "MAX" /\ counted # {} -> Max(values)

ExpectedRows ==
    LET keys == IF IsSimple THEN {<<>>} ELSE {RowKey(r) : r \in InputRows}
        RowsOf(k) == {r \in InputRows : RowKey(r) = k}
    IN {[key |-> k, results |-> [i \in DOMAIN aggQuery.aggs |->
            ExpectedResult(RowsOf(k), aggQuery.aggs[i])]] : k \in keys}

(* Whatever batches each thread takes, in whatever order, and however its table grew and was   *)
(* merged, the scans return each group once, with the aggregates of the rows that the batches  *)
(* stand for: collisions, NULL keys and values, multiplicities and states without a value      *)
(* included.  A probe always ends and every update finds its entry.  (append, merge,            *)
(* getNextRangeToRead.)  One shape of input does not have it and is kept out of the run query:  *)
(* flat keys behind a Flatten with an unflat aggregate that may be NULL (QueriesOfNulls).       *)
GroupsAreRight ==
    /\ \A t \in DOMAIN aggLocal : aggLocal[t].phase \notin {"crashed", "hung"}
    /\ aggShared.phase = "done" =>
        /\ Len(aggOutput) = Cardinality(Range(aggOutput))
        /\ Range(aggOutput) = ExpectedRows
=============================================================================
