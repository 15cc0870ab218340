------------------------------ MODULE HashJoin ------------------------------
(***************************************************************************)
(* The hash join and the collection of a query's result.                   *)
(*                                                                         *)
(* Threads of the build task materialise batches in local FactorizedTables *)
(* that are merged; the last thread chains the tuples in hash slots.       *)
(* Threads of the probe task look keys up, read the matched tuples and     *)
(* collect the joined tuples in local tables, merged again; the client     *)
(* iterates over the flat tuples of the result.                            *)
(*                                                                         *)
(* A build batch has a key chunk "k" with the key and a payload and, when  *)
(* the plan says so, an unflat chunk "u" with a list of values.  A flat    *)
(* chunk is one with a single selected position.                           *)
(***************************************************************************)
EXTENDS Values, Integers, Sequences, FiniteSets, SequencesExt, FiniteSetsExt, Functions, TLC

CONSTANTS
    JoinThreads,
    JoinPlans,          \* [type : {"INNER", "LEFT"}, hasList : BOOLEAN, probeFlat : BOOLEAN]
    BuildBatches,       \* the input of the build side, for each plan
    ProbeBatches,       \* the input of the probe side, for each plan
    JoinHash,           \* the hash of a key
    TuplesPerBlock,     \* of the flat tuple blocks
    MatchCapacity       \* DEFAULT_VECTOR_CAPACITY of the matched tuples

ASSUME HashJoinAssumption ==
    /\ IsFiniteSet(JoinThreads) /\ JoinThreads # {}
    /\ TuplesPerBlock \in Nat \ {0} /\ MatchCapacity \in Nat \ {0}

VARIABLES
    joinPlan,
    joinPhase,          \* "build", "probe", "iterate", "done"
    buildLeft,          \* build batches no thread has taken
    buildTables,        \* the local table of each build thread
    joinTable,          \* HashJoinSharedState: the merged table, the slots and the chains
    probeLeft,          \* probe batches no thread has taken
    probers,            \* ProbeState and the local result of each probe thread
    resultTable,        \* FTableSharedState
    tupleIterator,      \* FlatTupleIterator
    joinRows            \* the flat tuples the client has read

joinVars == <<joinPlan, joinPhase, buildLeft, buildTables, joinTable, probeLeft, probers,
              resultTable, tupleIterator, joinRows>>

-----------------------------------------------------------------------------
(* FactorizedTable.  A tuple has a flat cell for each flat column and a     *)
(* sequence for each unflat one.                                            *)

Garbage == -1

EmptyTable == [blocks |-> <<>>, mayContainNulls |-> {}]

NumTuplesIn(ft) == FoldLeft(LAMBDA n, b : n + Len(b), 0, ft.blocks)

\* getTuple divides by the tuples of a block: right when only the last block may be partly full.
TupleAt(ft, i) == ft.blocks[((i - 1) \div TuplesPerBlock) + 1][((i - 1) % TuplesPerBlock) + 1]

\* allocateFlatTupleBlocks: a full last block is followed by a new one.
AppendTuple(blocks, tuple) ==
    IF blocks = <<>> \/ Len(Last(blocks)) = TuplesPerBlock THEN Append(blocks, <<tuple>>)
    ELSE [blocks EXCEPT ![Len(blocks)] = Append(@, tuple)]

\* setNonOverflowColNull, setOverflowColNull.
NullColumns(tuple) == {c \in DOMAIN tuple : \E v \in Range(tuple[c]) : v = NULL}

\* append: the tuples go to blocks, the columns of their nulls are remembered.
AppendTuples(ft, tuples) ==
    [blocks |-> FoldLeft(AppendTuple, ft.blocks, tuples),
     mayContainNulls |-> ft.mayContainNulls \cup UNION {NullColumns(t) : t \in Range(tuples)}]

\* DataBlockCollection::merge: the old last block is refilled behind the other's last block.
MergeBlocks(blocks, other) ==
    IF blocks = <<>> THEN other
    ELSE LET old == Last(blocks)
             all == Front(blocks) \o other
             moved == Min({TuplesPerBlock - Len(Last(all)), Len(old)})
             filled == [all EXCEPT ![Len(all)] = @ \o SubSeq(old, 1, moved)]
         IN IF moved = Len(old) THEN filled ELSE Append(filled, SubSeq(old, moved + 1, Len(old)))

\* A merge that forgets mergeMayContainNulls.
MergeTables_NoNulls(ft, other) ==
    IF other.blocks = <<>> THEN ft ELSE [ft EXCEPT !.blocks = MergeBlocks(@, other.blocks)]

MergeTables(ft, other) ==
    IF other.blocks = <<>> THEN ft
    ELSE [blocks |-> MergeBlocks(ft.blocks, other.blocks),
          mayContainNulls |-> ft.mayContainNulls \cup other.mayContainNulls]

\* A null is seen only in a column that may contain nulls; else the cell's bytes are read.
ReadCell(ft, c, v) == IF v = NULL /\ c \notin ft.mayContainNulls THEN Garbage ELSE v

\* readUnflatCol, readFlatColToFlatVector, readFlatColToUnflatVector.
ReadColumn(ft, c, tuple) == [i \in DOMAIN tuple[c] |-> ReadCell(ft, c, tuple[c][i])]

-----------------------------------------------------------------------------
(* The build side.                                                          *)

\* discardNull: the selected positions whose key is not null.
DiscardNull(keys, sel) == SelectSeq(sel, LAMBDA p : keys[p] # NULL)

\* The schema: the key and the payload of its chunk are flat columns, the list is unflat.
BuildTuple(batch, p) ==
    [key |-> <<batch.key[p]>>, pay |-> <<batch.pay[p]>>,
     list |-> [i \in DOMAIN batch.listSel |-> batch.list[batch.listSel[i]]]]

\* JoinHashTable::append, once per multiplicity.
AppendVectors(ft, batch) ==
    LET sel == DiscardNull(batch.key, batch.sel)
        tuples == [i \in DOMAIN sel |-> BuildTuple(batch, sel[i])]
    IN FoldLeft(LAMBDA t, i : AppendTuples(t, tuples), ft, [i \in 1 .. batch.mult |-> i])

BuildBatch(t) ==
    /\ joinPhase = "build" /\ t \in DOMAIN buildTables
    /\ \E b \in buildLeft :
        /\ buildLeft' = buildLeft \ {b}
        /\ buildTables' = [buildTables EXCEPT ![t] = AppendVectors(@, BuildBatches[joinPlan][b])]
    /\ UNCHANGED <<joinPlan, joinPhase, joinTable, probeLeft, probers, resultTable,
                   tupleIterator, joinRows>>

NoPtr == <<>>

PowerOfTwoFrom(n) == CHOOSE p \in {2 ^ k : k \in 0 .. n} : p >= n /\ \A k \in 0 .. n : 2 ^ k >= n => p <= 2 ^ k

\* The pointers to the tuples, block by block.
Pointers(ft) == FlattenSeq([b \in DOMAIN ft.blocks |-> [i \in DOMAIN ft.blocks[b] |-> <<b, i>>]])

PointedTuple(ft, p) == ft.blocks[p[1]][p[2]]

\* insertEntry: the slot points to the new tuple, the tuple to the one before.
InsertEntry(ht, p) ==
    LET s == JoinHash[PointedTuple(ht.table, p).key[1]] % Cardinality(DOMAIN ht.slots)
    IN [ht EXCEPT !.slots[s] = p, !.prev = (p :> ht.slots[s]) @@ @]

\* allocateHashSlots: a power of two of at least twice the tuples, none for an empty table.
AllocateHashSlots(ht) ==
    LET n == NumTuplesIn(ht.table)
    IN [ht EXCEPT !.slots = [s \in 0 .. (IF n = 0 THEN 0 ELSE PowerOfTwoFrom(2 * n)) - 1 |-> NoPtr]]

BuildHashSlots(ht) == FoldLeft(InsertEntry, AllocateHashSlots(ht), Pointers(ht.table))

NoProbe == [batch |-> 0, probed |-> <<>>, matched |-> <<>>, matchedSel |-> <<>>, next |-> 1]

\* mergeLocalHashTable under the mutex; the last thread of the task finalizes.
FinishBuildTask(t) ==
    /\ joinPhase = "build" /\ t \in DOMAIN buildTables /\ buildLeft = {}
    /\ LET merged == [joinTable EXCEPT !.table = MergeTables(@, buildTables[t])]
           isLast == DOMAIN buildTables = {t}
       IN /\ joinTable' = IF isLast THEN BuildHashSlots(merged) ELSE merged
          /\ joinPhase' = IF isLast THEN "probe" ELSE "build"
          /\ probers' = IF isLast THEN [u \in JoinThreads |-> [probe |-> NoProbe, local |-> EmptyTable]]
                        ELSE probers
    /\ buildTables' = [u \in DOMAIN buildTables \ {t} |-> buildTables[u]]
    /\ UNCHANGED <<joinPlan, buildLeft, probeLeft, resultTable, tupleIterator, joinRows>>

-----------------------------------------------------------------------------
(* The probe side.                                                          *)

ProbeBatchOf(probe) == ProbeBatches[joinPlan][probe.batch]

\* JoinHashTable::probe: an empty table, or a batch without a key, leaves the pointers alone.
ProbeKeys(probe) ==
    LET batch == ProbeBatchOf(probe)
        sel == DiscardNull(batch.key, batch.sel)
        slots == joinTable.slots
    IN IF DOMAIN slots = {} THEN probe
       ELSE [probe EXCEPT !.probed =
                [p \in Range(sel) |-> slots[JoinHash[batch.key[p]] % Cardinality(DOMAIN slots)]] @@ @]

PtrOf(probe, p) == IF p \in DOMAIN probe.probed THEN probe.probed[p] ELSE NoPtr

\* hasMoreLeft: only the chain of a flat key is taken up again.
HasMoreLeft(probe) ==
    /\ probe.batch # 0 /\ joinPlan.probeFlat
    /\ PtrOf(probe, ProbeBatchOf(probe).sel[1]) # NoPtr

\* One tuple of a chain: it is kept when its key is the probe key, and the chain moves on.
MatchOne(probe, p) ==
    LET ptr == PtrOf(probe, p)
        isMatch == PointedTuple(joinTable.table, ptr).key[1] = ProbeBatchOf(probe).key[p]
    IN [probe EXCEPT !.matched = IF isMatch THEN Append(@, ptr) ELSE @,
                     !.matchedSel = IF isMatch THEN Append(@, p) ELSE @,
                     !.probed[p] = joinTable.prev[ptr]]

CanMatch(probe, p) == PtrOf(probe, p) # NoPtr /\ Len(probe.matched) < MatchCapacity

\* The chain of a key, until it ends or the batch of matched tuples is full.
MatchKey(probe, p) ==
    FoldLeft(LAMBDA s, i : IF CanMatch(s, p) THEN MatchOne(s, p) ELSE s,
             probe, [i \in 1 .. NumTuplesIn(joinTable.table) |-> i])

MatchBatch(probe) ==
    FoldLeft(MatchKey, [probe EXCEPT !.matched = <<>>, !.matchedSel = <<>>, !.next = 1],
             SelectSeq(ProbeBatchOf(probe).sel, LAMBDA p : ProbeBatchOf(probe).key[p] # NULL))

\* getNextInnerJoinResult: one tuple for a flat key, all matched ones for an unflat key vector,
\* whose selection becomes the matched positions.
JoinedTuple(probe) ==
    LET from == probe.next
        to == IF joinPlan.probeFlat THEN probe.next ELSE Len(probe.matched)
        read == [i \in 1 .. to - from + 1 |->
                    PointedTuple(joinTable.table, probe.matched[from + i - 1])]
    IN [key |-> [i \in DOMAIN read |-> ProbeBatchOf(probe).key[probe.matchedSel[from + i - 1]]],
        pay |-> [i \in DOMAIN read |-> ReadColumn(joinTable.table, "pay", read[i])[1]],
        list |-> ReadColumn(joinTable.table, "list", read[1])]

\* setVectorsToNull: a left join keeps an unmatched key with one tuple of nulls.
NullTuple(probe) ==
    [key |-> <<ProbeBatchOf(probe).key[ProbeBatchOf(probe).sel[1]]>>, pay |-> <<NULL>>, list |-> <<NULL>>]

\* getNextJoinResult and the append of the ResultCollector, once per multiplicity.
CollectTuple(local, tuple, mult) ==
    FoldLeft(LAMBDA t, i : AppendTuples(t, <<tuple>>), local, [i \in 1 .. mult |-> i])

JoinResult(prober, probe) ==
    LET mult == ProbeBatchOf(probe).mult
        num == IF joinPlan.probeFlat THEN 1 ELSE Len(probe.matched)
    IN IF probe.matched # <<>>
       THEN [probe |-> [probe EXCEPT !.next = @ + num],
             local |-> CollectTuple(prober.local, JoinedTuple(probe), mult)]
       ELSE [probe |-> probe,
             local |-> IF joinPlan.type = "LEFT" THEN CollectTuple(prober.local, NullTuple(probe), mult)
                       ELSE prober.local]

\* A call of getNextTuples that goes on with what it has.
ProbeMore(t) ==
    LET probe == probers[t].probe
    IN /\ joinPhase = "probe" /\ t \in DOMAIN probers
       /\ probe.next <= Len(probe.matched) \/ HasMoreLeft(probe)
       /\ probers' = [probers EXCEPT ![t] =
            JoinResult(@, IF probe.next <= Len(probe.matched) THEN probe ELSE MatchBatch(probe))]
       /\ UNCHANGED <<joinPlan, joinPhase, buildLeft, buildTables, joinTable, probeLeft,
                      resultTable, tupleIterator, joinRows>>

NeedsBatch(t) ==
    /\ joinPhase = "probe" /\ t \in DOMAIN probers
    /\ probers[t].probe.next > Len(probers[t].probe.matched) /\ ~HasMoreLeft(probers[t].probe)

\* The child returns a batch: its keys are probed and the first matches are read.
ProbeBatch(t) ==
    /\ NeedsBatch(t)
    /\ \E b \in probeLeft :
        /\ probeLeft' = probeLeft \ {b}
        /\ probers' = [probers EXCEPT ![t] =
                JoinResult(@, MatchBatch(ProbeKeys([@.probe EXCEPT !.batch = b])))]
    /\ UNCHANGED <<joinPlan, joinPhase, buildLeft, buildTables, joinTable, resultTable,
                   tupleIterator, joinRows>>

\* FlatTupleIterator before its first tuple.
NoTuple == [nextTuple |-> 1, pos |-> <<0, 0>>, size |-> <<0, 0>>, nextFlat |-> 0, numFlat |-> 0]

\* ResultCollector: the local result is merged under the mutex.
FinishProbeTask(t) ==
    /\ NeedsBatch(t) /\ probeLeft = {}
    /\ resultTable' = MergeTables(resultTable, probers[t].local)
    /\ probers' = [u \in DOMAIN probers \ {t} |-> probers[u]]
    /\ joinPhase' = IF DOMAIN probers = {t} THEN "iterate" ELSE "probe"
    /\ UNCHANGED <<joinPlan, buildLeft, buildTables, joinTable, probeLeft, tupleIterator, joinRows>>

-----------------------------------------------------------------------------
(* FlatTupleIterator.  The chunks of the result are the key's, with the     *)
(* payload, and the list's.                                                 *)

\* updateNumElementsInDataChunk, getNumFlatTuples.
AtTuple(it) ==
    LET tuple == TupleAt(resultTable, it.nextTuple)
    IN [nextTuple |-> it.nextTuple + 1, pos |-> <<1, 1>>,
        size |-> <<Len(tuple.key), Len(tuple.list)>>,
        nextFlat |-> 0, numFlat |-> Len(tuple.key) * Len(tuple.list)]

\* updateFlatTuplePositionsInDataChunk: the first chunk moves, the next one when it is through.
NextPositions(it) ==
    IF it.pos[1] < it.size[1] THEN <<it.pos[1] + 1, it.pos[2]>>
    ELSE <<1, IF it.pos[2] < it.size[2] THEN it.pos[2] + 1 ELSE 1>>

\* readFlatColToFlatTuple, readUnflatColToFlatTuple: the values at the positions of their chunks.
FlatRow(it) ==
    LET tuple == TupleAt(resultTable, it.nextTuple - 1)
        value(c, chunk) == ReadColumn(resultTable, c, tuple)[it.pos[chunk]]
    IN <<value("key", 1), value("pay", 1), value("list", 2)>>

HasNextFlatTuple(it) == it.nextTuple <= NumTuplesIn(resultTable) \/ it.nextFlat < it.numFlat

GetNextFlatTuple ==
    /\ joinPhase = "iterate" /\ HasNextFlatTuple(tupleIterator)
    /\ LET it == IF tupleIterator.nextFlat >= tupleIterator.numFlat THEN AtTuple(tupleIterator)
                 ELSE tupleIterator
       IN /\ joinRows' = Append(joinRows, FlatRow(it))
          /\ tupleIterator' = [it EXCEPT !.pos = NextPositions(it), !.nextFlat = @ + 1]
    /\ UNCHANGED <<joinPlan, joinPhase, buildLeft, buildTables, joinTable, probeLeft, probers, resultTable>>

IterationEnds ==
    /\ joinPhase = "iterate" /\ ~HasNextFlatTuple(tupleIterator)
    /\ joinPhase' = "done"
    /\ UNCHANGED <<joinPlan, buildLeft, buildTables, joinTable, probeLeft, probers, resultTable,
                   tupleIterator, joinRows>>

\* isJoinKeyUniqueOnBuildSide: one chunk, nothing projected out, and the key a scanned node ID.
KeyIsUnique(p) ==
    LET keys == FlattenSeq([b \in DOMAIN BuildBatches[p] |->
                    [i \in DOMAIN BuildBatches[p][b].sel |->
                        BuildBatches[p][b].key[BuildBatches[p][b].sel[i]]]])
    IN ~p.hasList /\ (\A b \in Range(BuildBatches[p]) : b.mult = 1) /\ IsInjective(keys)

\* appendHashJoin flattens the probe key unless each key has at most one match.
IsPlanned(p) == p.probeFlat = ~KeyIsUnique(p) /\ (p.type = "LEFT" => p.probeFlat)

HashJoinInit ==
    /\ joinPlan \in {p \in JoinPlans : IsPlanned(p)}
    /\ joinPhase = "build"
    /\ buildLeft = DOMAIN BuildBatches[joinPlan] /\ probeLeft = DOMAIN ProbeBatches[joinPlan]
    /\ buildTables = [t \in JoinThreads |-> EmptyTable]
    /\ joinTable = [table |-> EmptyTable, slots |-> <<>>, prev |-> <<>>]
    /\ probers = <<>>
    /\ resultTable = EmptyTable
    /\ tupleIterator = NoTuple
    /\ joinRows = <<>>

HashJoinNext ==
    \/ \E t \in JoinThreads :
        \/ BuildBatch(t) \/ FinishBuildTask(t)
        \/ ProbeMore(t) \/ ProbeBatch(t) \/ FinishProbeTask(t)
    \/ GetNextFlatTuple \/ IterationEnds

HashJoinSpec == HashJoinInit /\ [][HashJoinNext]_joinVars

-----------------------------------------------------------------------------
(* The reference: the rows of both sides and the pairs that join.           *)

BuildRows ==
    UNION {LET batch == BuildBatches[joinPlan][b]
           IN {[batch |-> b, p |-> p, l |-> l, copy |-> m] : p \in Range(batch.sel),
                l \in Range(batch.listSel), m \in 1 .. batch.mult} : b \in DOMAIN BuildBatches[joinPlan]}

ProbeRows ==
    UNION {LET batch == ProbeBatches[joinPlan][b]
           IN {[batch |-> b, p |-> p, copy |-> m] : p \in Range(batch.sel), m \in 1 .. batch.mult}
           : b \in DOMAIN ProbeBatches[joinPlan]}

Partners(r) ==
    LET key == ProbeBatches[joinPlan][r.batch].key[r.p]
    IN {s \in BuildRows : key # NULL /\ BuildBatches[joinPlan][s.batch].key[s.p] = key}

\* The joined rows, each with the pair it comes from.
ExpectedJoin ==
    UNION {LET key == ProbeBatches[joinPlan][r.batch].key[r.p]
           IN IF Partners(r) = {} /\ joinPlan.type = "LEFT" THEN {<<r, r, <<key, NULL, NULL>>>>}
              ELSE {<<r, s, <<key, BuildBatches[joinPlan][s.batch].pay[s.p],
                              BuildBatches[joinPlan][s.batch].list[s.l]>>>> : s \in Partners(r)}
           : r \in ProbeRows}

(* Whatever batches the threads of either side take, in whatever order they merge their tables  *)
(* and wherever a block or a batch of matches is full, the client reads exactly the joined      *)
(* rows, each as often as it joins, with the nulls of the input: nothing is lost, repeated or   *)
(* read from a cell without a value.  (JoinHashTable, HashJoinProbe, FactorizedTable::merge,    *)
(* FlatTupleIterator.)                                                                          *)
JoinIsComplete ==
    joinPhase = "done" =>
        /\ Len(joinRows) = Cardinality(ExpectedJoin)
        /\ \A row \in Range(joinRows) :
            Cardinality({i \in DOMAIN joinRows : joinRows[i] = row})
                = Cardinality({e \in ExpectedJoin : e[3] = row})
=============================================================================
