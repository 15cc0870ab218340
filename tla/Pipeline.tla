------------------------------ MODULE Pipeline ------------------------------
(***************************************************************************)
(* The pull-based execution of the pipelines of a plan                     *)
(* (src/processor/physical_plan/operator).                                 *)
(*                                                                         *)
(* A plan is [pipelines, threads, skip, limit]; its pipelines run one      *)
(* after the other, each by all the threads of the plan, and a pipeline is *)
(* [ops, collect, unflat]: its operators from the source up, the vectors   *)
(* its ResultCollector appends and whether some of them are unflat.  A     *)
(* thread runs getNextTuples of the operator pc: dir is "call" when it is  *)
(* called and "true" or "false" when its child has returned that.  Data    *)
(* chunks and vectors have names; a list and its properties share the sync *)
(* state of the chunk that the list is read into.                          *)
(***************************************************************************)
EXTENDS Expressions, TLC

CONSTANTS
    QueryPlans,
    Properties,         \* property columns and adjacency columns: name -> node -> value
    AdjacencyLists,     \* name -> node -> sequence of neighbours
    RelProperties,      \* name -> node -> sequence of values, one for each neighbour
    LargeListLength,    \* the longest small list
    ListElementsPerPage

VARIABLES
    pPlan,              \* the plan that runs
    pPipeline,          \* the index of its pipeline that runs
    pThreads,           \* the threads: control, result set, operators' state, local table
    pCursor,            \* ScanNodeIDSharedState: the next node
    pCounters,          \* the shared counters of Skip and Limit
    pTables,            \* FTableSharedState of each ResultCollector: its tuples
    pScanned            \* UnionAllScanSharedState: the table and its next tuple

pipelineVars == <<pPlan, pPipeline, pThreads, pCursor, pCounters, pTables, pScanned>>

Nodes == DOMAIN Properties[CHOOSE c \in DOMAIN Properties : TRUE]

MinOf(x, y) == IF x < y THEN x ELSE y

-----------------------------------------------------------------------------
(* Operators' private state.                                               *)

ListSyncState == [bound |-> 0, start |-> 0, num |-> 0, len |-> 0]   \* reset: num = 0

NoSelVector == <<>>

initOperator(op) ==
    CASE op.kind = "filter" -> [prev |-> NoSelVector, res |-> initEvaluator(op.expr)]
      [] op.kind \in {"column", "skip"} -> [prev |-> NoSelVector]
      [] op.kind = "project" -> [prevMultiplicity |-> 1, res |-> [i \in 1 .. Len(op.exprs) |-> initEvaluator(op.exprs[i].nodes)]]
      [] op.kind = "reduce" -> [prevMultiplicity |-> 1, numRepeat |-> 0]
      [] op.kind = "varlist" -> [stack |-> <<>>]
      [] op.kind = "varcolumn" -> [stack |-> <<>>]
      [] OTHER -> [none |-> TRUE]

(* The names of the vectors an operator writes, and their chunk.           *)
outVectors(op) ==
    CASE op.kind \in {"scan", "property", "extend", "relproperty", "column", "varlist", "varcolumn"} -> {op.out}
      [] op.kind = "union" -> Range(op.outs)
      [] op.kind = "project" -> {op.exprs[i].out : i \in 1 .. Len(op.exprs)}
      [] OTHER -> {}

NewThread(p) ==
    LET ops == Range(p.ops)
        chunks == {op.chunk : op \in {o \in ops : o.chunk # "none"}}
        names == UNION {outVectors(op) : op \in ops}
        writer(n) == CHOOSE op \in ops : n \in outVectors(op)
    IN  [pc |-> Len(p.ops) + 1, dir |-> "call",
         rs |-> [state |-> [c \in chunks \cup {"one"} |-> IF c = "one" THEN getSingleValueDataChunkState ELSE NewState],
                 vec |-> [n \in names |-> ValueVector(writer(n).chunk)]],
         sync |-> [c \in chunks |-> ListSyncState],
         mult |-> 1,
         loc |-> [i \in 1 .. Len(p.ops) |-> initOperator(p.ops[i])],
         table |-> <<>>]

PipelineInit ==
    /\ pPlan \in QueryPlans
    /\ pPipeline = 1
    /\ pThreads = [t \in 1 .. pPlan.threads |-> NewThread(pPlan.pipelines[1])]
    /\ pCursor = 0
    /\ pCounters = [skip |-> 0, limit |-> 0]
    /\ pTables = [i \in 1 .. Len(pPlan.pipelines) |-> <<>>]
    /\ pScanned = [table |-> 1, tuple |-> 0]

-----------------------------------------------------------------------------
(* The operator a thread is in, and how its calls return.                  *)

current == pPlan.pipelines[pPipeline]

At(t, kind) ==
    /\ pPipeline <= Len(pPlan.pipelines)
    /\ pThreads[t].pc \in 1 .. Len(current.ops)
    /\ current.ops[pThreads[t].pc].kind = kind

opOf(t) == current.ops[pThreads[t].pc]

locOf(t) == pThreads[t].loc[pThreads[t].pc]

Called(t, kind) == At(t, kind) /\ pThreads[t].dir = "call"

Returned(t, kind) == At(t, kind) /\ pThreads[t].dir = "true"

CallChild(x) == [x EXCEPT !.pc = @ - 1, !.dir = "call"]

Return(x, ok) == [x EXCEPT !.pc = @ + 1, !.dir = IF ok THEN "true" ELSE "false"]

WithLocal(x, l) == [x EXCEPT !.loc[x.pc] = l]

Become(t, x) == pThreads' = [pThreads EXCEPT ![t] = x]

SharedUnchanged == UNCHANGED <<pPlan, pPipeline, pCursor, pCounters, pTables, pScanned>>

(* The child has no more tuples: every operator passes that on.            *)
ChildIsExhausted(t) ==
    /\ pPipeline <= Len(pPlan.pipelines)
    /\ pThreads[t].pc \in 1 .. Len(current.ops)
    /\ pThreads[t].dir = "false"
    /\ Become(t, Return(pThreads[t], FALSE))
    /\ SharedUnchanged

-----------------------------------------------------------------------------
(* FilteringOperator.                                                      *)

restoreSelVector_Never(prev, st) == st

restoreSelVector(prev, st) ==
    IF prev = NoSelVector THEN st
    ELSE [st EXCEPT !.size = prev[1].size, !.unfiltered = prev[1].unfiltered,
                    !.buffer = IF prev[1].unfiltered THEN @
                               ELSE [p \in Positions |-> IF p <= prev[1].size THEN prev[1].buffer[p] ELSE @[p]]]

saveSelVector(st) == <<st>>

RestoreAndCall(t, chunk) ==
    Become(t, CallChild([pThreads[t] EXCEPT !.rs.state[chunk] = restoreSelVector(locOf(t).prev, @)]))

-----------------------------------------------------------------------------
(* Sources.                                                                *)

getNextRangeToRead == MinOf(VectorCapacity, Cardinality(Nodes) - pCursor)

ScanNodeID(t) ==
    /\ Called(t, "scan")
    /\ LET n == getNextRangeToRead
           op == opOf(t)
           x == pThreads[t]
       IN  IF n = 0 THEN Become(t, Return(x, FALSE)) /\ UNCHANGED pCursor
           ELSE /\ pCursor' = pCursor + n
                /\ Become(t, Return([x EXCEPT
                     !.rs.vec[op.out] = putValues(@, 1 .. n, [p \in 1 .. n |-> pCursor + p - 1]),
                     !.rs.state[op.chunk] = [initOriginalAndSelectedSize(@, n) EXCEPT !.unfiltered = TRUE]], TRUE))
    /\ UNCHANGED <<pPlan, pPipeline, pCounters, pTables, pScanned>>

(* UnionAllScanSharedState::getMorsel: the tables are the first of the     *)
(* plan, in order; a table with an unflat column is read tuple by tuple.   *)
getMorsel(op) ==
    LET left(i) == Len(pTables[op.tables[i]]) - (IF i = pScanned.table THEN pScanned.tuple ELSE 0)
        from == {i \in pScanned.table .. Len(op.tables) : left(i) > 0}
        i == CHOOSE k \in from : \A j \in from : k <= j
        first == IF i = pScanned.table THEN pScanned.tuple ELSE 0
        most == IF pPlan.pipelines[op.tables[1]].unflat THEN 1 ELSE VectorCapacity
    IN  IF from = {} THEN [tuples |-> <<>>, at |-> [table |-> Len(op.tables) + 1, tuple |-> 0], tbl |-> 0]
        ELSE LET n == MinOf(most, left(i))
             IN  [tuples |-> SubSeq(pTables[op.tables[i]], first + 1, first + n),
                  at |-> [table |-> i, tuple |-> first + n], tbl |-> op.tables[i]]

(* BaseTableScan::getNextTuples; columns keep their order.                 *)
UnionAllScan(t) ==
    /\ Called(t, "union")
    /\ LET op == opOf(t)
           x == pThreads[t]
           morsel == getMorsel(op)
           rows == FlattenSeq(morsel.tuples)
           col(k) == pPlan.pipelines[morsel.tbl].collect[k]
           cell(n, p) == LET k == CHOOSE j \in 1 .. Len(op.outs) : op.outs[j] = n IN rows[p][col(k)]
       IN  /\ pScanned' = morsel.at
           /\ IF morsel.tuples = <<>> THEN Become(t, Return(x, FALSE))
              ELSE Become(t, Return([x EXCEPT
                     !.rs.vec = [n \in DOMAIN @ |->
                         IF n \notin Range(op.outs) THEN @[n]
                         ELSE putColumn(@[n], 1 .. Len(rows), [p \in 1 .. Len(rows) |-> cell(n, p)])],
                     !.rs.state[op.chunk].size = Len(rows)], TRUE))
    /\ UNCHANGED <<pPlan, pPipeline, pCursor, pCounters, pTables>>

-----------------------------------------------------------------------------
(* Columns.                                                                *)

(* Column::read: the node of a flat chunk, the whole range of a sequential *)
(* unfiltered vector, the selected positions otherwise.                    *)
readColumn(v, st, in, isSequential, column) ==
    LET ps == IF isFlat(st) THEN {getPositionOfCurrIdx(st)}
              ELSE IF isSequential /\ st.unfiltered THEN 1 .. st.orig
              ELSE Range(selectedPositions(st))
    IN  putColumn(v, ps, [p \in ps |-> column[in.vals[p]]])

isSequential(name) == \E i \in 1 .. Len(current.ops) : current.ops[i].kind = "scan" /\ current.ops[i].out = name

CallForProperty(t) ==
    /\ Called(t, "property")
    /\ Become(t, CallChild(pThreads[t]))
    /\ SharedUnchanged

ScanStructuredProperty(t) ==
    /\ Returned(t, "property")
    /\ LET op == opOf(t)
           x == pThreads[t]
       IN  Become(t, Return([x EXCEPT !.rs.vec[op.out] =
               readColumn(@, x.rs.state[op.chunk], x.rs.vec[op.in], isSequential(op.in), Properties[op.column])], TRUE))
    /\ SharedUnchanged

CallForColumn(t) ==
    /\ Called(t, "column")
    /\ RestoreAndCall(t, opOf(t).chunk)
    /\ SharedUnchanged

(* Nothing extends: the loop restores the selection and asks for more.     *)
AdjColumnExtend(t) ==
    /\ Returned(t, "column")
    /\ LET op == opOf(t)
           x == pThreads[t]
           st == x.rs.state[op.chunk]
           v == readColumn(setAllNull(x.rs.vec[op.out]), st, x.rs.vec[op.in], isSequential(op.in), Properties[op.column])
           kept == discardNull(v, st)
           y == WithLocal([x EXCEPT !.rs.vec[op.out] = v, !.rs.state[op.chunk] = kept.st], [prev |-> saveSelVector(st)])
       IN  Become(t, IF kept.ok THEN Return(y, TRUE) ELSE [y EXCEPT !.dir = "call"])
    /\ SharedUnchanged

-----------------------------------------------------------------------------
(* Lists.                                                                  *)

hasNewRangeToRead(s) == s.num # 0 /\ s.start + s.num # s.len

isALargeList(list) == Len(list) > LargeListLength

(* AdjLists::readValues of the bound node: the values read and the sync    *)
(* state; a large list is read a page at a time.                           *)
readAdjList(lists, s) ==
    LET list == lists[s.bound]
        first == IF hasNewRangeToRead(s) THEN s.start + s.num ELSE 0
        n == MinOf(Len(list) - first, ListElementsPerPage - (first % ListElementsPerPage))
    IN  IF isALargeList(list)
        THEN [vals |-> SubSeq(list, first + 1, first + n), sync |-> [s EXCEPT !.start = first, !.num = n, !.len = Len(list)]]
        ELSE [vals |-> list, sync |-> s]

(* The vector and the state of the chunk that a list is read into: the     *)
(* selector is left as it is.                                              *)
intoVector(v, vals) == putNullable(v, 1 .. Len(vals), {}, vals)

readInto(x, op, read) ==
    [x EXCEPT !.rs.vec[op.out] = intoVector(@, read.vals),
              !.rs.state[op.chunk] = initOriginalAndSelectedSize(@, Len(read.vals)),
              !.sync[op.chunk] = read.sync]

boundIsNull(x, op) ==
    LET in == x.rs.vec[op.in] IN isNullAt(in, getPositionOfCurrIdx(x.rs.state[in.chunk]))

boundNode(x, op) ==
    LET in == x.rs.vec[op.in] IN in.vals[getPositionOfCurrIdx(x.rs.state[in.chunk])]

CallForList(t) ==
    /\ Called(t, "extend")
    /\ LET op == opOf(t)
           x == pThreads[t]
           s == x.sync[op.chunk]
       IN  Become(t, IF hasNewRangeToRead(s) THEN Return(readInto(x, op, readAdjList(AdjacencyLists[op.list], s)), TRUE)
                     ELSE CallChild([x EXCEPT !.sync[op.chunk] = IF s.num = 0 THEN s ELSE ListSyncState]))
    /\ SharedUnchanged

AdjListExtend(t) ==
    /\ Returned(t, "extend")
    /\ LET op == opOf(t)
           x == pThreads[t]
           y == readInto(x, op, readAdjList(AdjacencyLists[op.list], [x.sync[op.chunk] EXCEPT !.bound = boundNode(x, op)]))
       IN  Become(t, IF boundIsNull(x, op) THEN CallChild([x EXCEPT !.rs.state[op.chunk].size = 0])
                     ELSE IF y.rs.state[op.chunk].size = 0 THEN CallChild(y)
                     ELSE Return(y, TRUE))
    /\ SharedUnchanged

CallForRelProperty(t) ==
    /\ Called(t, "relproperty")
    /\ Become(t, CallChild(pThreads[t]))
    /\ SharedUnchanged

(* As many values as the chunk of the list has, from where it was read.    *)
ReadRelPropertyList(t) ==
    /\ Returned(t, "relproperty")
    /\ LET op == opOf(t)
           x == pThreads[t]
           s == x.sync[op.chunk]
           list == RelProperties[op.list][boundNode(x, op)]
           first == IF isALargeList(list) THEN s.start ELSE 0
       IN  Become(t, Return(
             IF boundIsNull(x, op) THEN [x EXCEPT !.rs.state[op.chunk].size = 0]
             ELSE [x EXCEPT
               !.rs.vec[op.out] = LET ps == 1 .. x.rs.state[op.chunk].orig
                                  IN  putColumn(@, ps, [p \in ps |-> list[first + p]]),
               !.sync[op.chunk].bound = boundNode(x, op)], TRUE))
    /\ SharedUnchanged

-----------------------------------------------------------------------------
(* Variable-length extensions: a stack of levels, depth first.             *)

listLevel(k, read) == [level |-> k, vals |-> read.vals, idx |-> 0, hasBeenOutput |-> FALSE, sync |-> read.sync]

(* addDFSLevelToStackIfParentExtends.                                      *)
pushList(stack, op, parent, k) ==
    LET read == readAdjList(AdjacencyLists[op.list], [ListSyncState EXCEPT !.bound = parent])
    IN  IF read.vals = <<>> THEN stack ELSE Append(stack, listLevel(k, read))

VarLengthStep(t) ==
    /\ Called(t, "varlist")
    /\ LET op == opOf(t)
           x == pThreads[t]
           stack == locOf(t).stack
           n == Len(stack)
           top == stack[n]
       IN  Become(t,
             IF n = 0 THEN CallChild(x)
             ELSE IF top.level >= op.lower /\ ~top.hasBeenOutput
             THEN Return(WithLocal([x EXCEPT !.rs.vec[op.out] = putValues(@, 1 .. Len(top.vals), top.vals),
                                             !.rs.state[op.chunk].size = Len(top.vals)],
                                   [stack |-> [stack EXCEPT ![n].hasBeenOutput = TRUE]]), TRUE)
             ELSE IF top.idx < Len(top.vals) /\ top.level # op.upper
             THEN WithLocal(x, [stack |-> pushList([stack EXCEPT ![n].idx = @ + 1], op, top.vals[top.idx + 1], top.level + 1)])
             ELSE IF hasNewRangeToRead(top.sync)
             THEN WithLocal(x, [stack |-> [stack EXCEPT ![n] = listLevel(top.level, readAdjList(AdjacencyLists[op.list], top.sync))]])
             ELSE WithLocal(x, [stack |-> Front(stack)]))
    /\ SharedUnchanged

VarLengthAdjListExtend(t) ==
    /\ Returned(t, "varlist")
    /\ LET op == opOf(t)
           x == pThreads[t]
           stack == pushList(<<>>, op, boundNode(x, op), 1)
       IN  Become(t, IF boundIsNull(x, op) \/ stack = <<>> THEN CallChild(x)
                     ELSE [WithLocal(x, [stack |-> stack]) EXCEPT !.dir = "call"])
    /\ SharedUnchanged

pushColumn(stack, op, parent, k) ==
    LET child == Properties[op.column][parent]
    IN  IF child = NULL THEN stack
        ELSE Append(stack, [level |-> k, val |-> child, hasBeenOutput |-> FALSE, hasBeenExtended |-> FALSE])

VarLengthColumnStep(t) ==
    /\ Called(t, "varcolumn")
    /\ LET op == opOf(t)
           x == pThreads[t]
           stack == locOf(t).stack
           n == Len(stack)
           top == stack[n]
       IN  Become(t,
             IF n = 0 THEN CallChild(x)
             ELSE IF top.level >= op.lower /\ ~top.hasBeenOutput
             THEN Return(WithLocal([x EXCEPT !.rs.vec[op.out] = putValues(@, {getPositionOfCurrIdx(x.rs.state[op.chunk])}, getPositionOfCurrIdx(x.rs.state[op.chunk]) :> top.val)],
                                   [stack |-> [stack EXCEPT ![n].hasBeenOutput = TRUE]]), TRUE)
             ELSE IF ~top.hasBeenExtended /\ top.level # op.upper
             THEN WithLocal(x, [stack |-> pushColumn([stack EXCEPT ![n].hasBeenExtended = TRUE], op, top.val, top.level + 1)])
             ELSE WithLocal(x, [stack |-> Front(stack)]))
    /\ SharedUnchanged

VarLengthColumnExtend(t) ==
    /\ Returned(t, "varcolumn")
    /\ LET op == opOf(t)
           x == pThreads[t]
           stack == pushColumn(<<>>, op, boundNode(x, op), 1)
       IN  Become(t, IF boundIsNull(x, op) \/ stack = <<>> THEN CallChild(x)
                     ELSE [WithLocal(x, [stack |-> stack]) EXCEPT !.dir = "call"])
    /\ SharedUnchanged

-----------------------------------------------------------------------------
(* Filter, Flatten, Projection, MultiplicityReducer, Skip and Limit.       *)

CallForFilter(t) ==
    /\ Called(t, "filter")
    /\ RestoreAndCall(t, opOf(t).chunk)
    /\ SharedUnchanged

(* The selection is kept when something passes; otherwise the loop goes on. *)
filtered(x, op, selected) ==
    LET y == WithLocal([x EXCEPT !.rs.state[op.chunk] = [selected.sel.st EXCEPT !.unfiltered = @ /\ isFlat(selected.sel.st)]],
                       [prev |-> saveSelVector(x.rs.state[op.chunk]), res |-> selected.res])
    IN  IF selected.sel.ok THEN Return(y, TRUE) ELSE [y EXCEPT !.dir = "call"]

Filter(t) ==
    /\ Returned(t, "filter")
    /\ Become(t, filtered(pThreads[t], opOf(t), select(pThreads[t].rs, opOf(t).expr, locOf(t).res, opOf(t).chunk)))
    /\ SharedUnchanged

CallForFlatten(t) ==
    /\ Called(t, "flatten")
    /\ LET op == opOf(t)
           x == pThreads[t]
           st == x.rs.state[op.chunk]
       IN  Become(t, IF ~isFlat(st) \/ isCurrIdxLast(st) THEN CallChild([x EXCEPT !.rs.state[op.chunk].cur = 0])
                     ELSE Return([x EXCEPT !.rs.state[op.chunk].cur = @ + 1], TRUE))
    /\ SharedUnchanged

Flatten(t) ==
    /\ Returned(t, "flatten")
    /\ Become(t, Return([pThreads[t] EXCEPT !.rs.state[opOf(t).chunk].cur = @ + 1], TRUE))
    /\ SharedUnchanged

getNumTuplesWithoutMultiplicity(rs, chunks) ==
    FoldLeft(LAMBDA n, c : n * getNumSelectedValues(rs.state[c]), 1, SetToSeq(chunks))

CallForProjection(t) ==
    /\ Called(t, "project")
    /\ Become(t, CallChild([pThreads[t] EXCEPT !.mult = locOf(t).prevMultiplicity]))
    /\ SharedUnchanged

projected(x, op, res) ==
    LET out(n) == CHOOSE i \in 1 .. Len(op.exprs) : op.exprs[i].out = n
        y == [x EXCEPT !.rs.vec = [n \in DOMAIN @ |-> IF n \in outVectors(op) THEN Last(res[out(n)]) ELSE @[n]],
                       !.mult = @ * getNumTuplesWithoutMultiplicity(x.rs, op.discarded)]
    IN  Return(WithLocal(y, [prevMultiplicity |-> x.mult, res |-> res]), TRUE)

Projection(t) ==
    /\ Returned(t, "project")
    /\ Become(t, projected(pThreads[t], opOf(t),
           [i \in 1 .. Len(opOf(t).exprs) |-> evaluate(pThreads[t].rs, opOf(t).exprs[i].nodes, locOf(t).res[i])]))
    /\ SharedUnchanged

afterRepeat(l) == [l EXCEPT !.numRepeat = IF @ + 1 = l.prevMultiplicity THEN 0 ELSE @ + 1]

RepeatOrCall(t) ==
    /\ Called(t, "reduce")
    /\ LET x == pThreads[t]
           l == locOf(t)
       IN  Become(t, IF l.numRepeat = 0 THEN CallChild([x EXCEPT !.mult = l.prevMultiplicity])
                     ELSE Return(WithLocal(x, afterRepeat(l)), TRUE))
    /\ SharedUnchanged

MultiplicityReducer(t) ==
    /\ Returned(t, "reduce")
    /\ LET x == pThreads[t]
       IN  Become(t, Return(WithLocal([x EXCEPT !.mult = 1], afterRepeat([prevMultiplicity |-> x.mult, numRepeat |-> 0])), TRUE))
    /\ SharedUnchanged

getNumTuples(x, op) == x.mult * getNumTuplesWithoutMultiplicity(x.rs, op.scope)

CallForSkip(t) ==
    /\ Called(t, "skip")
    /\ RestoreAndCall(t, opOf(t).chunk)
    /\ SharedUnchanged

(* fetch_add on the shared counter, then the selection is moved up.        *)
Skip(t) ==
    /\ Returned(t, "skip")
    /\ LET op == opOf(t)
           x == pThreads[t]
           st == x.rs.state[op.chunk]
           before == pCounters.skip
           available == getNumTuples(x, op)
           toSkip == op.number - before
           y == WithLocal(x, [prev |-> saveSelVector(st)])
           rest == SubSeq(selectedPositions(st), toSkip + 1, st.size)
       IN  /\ pCounters' = [pCounters EXCEPT !.skip = before + available]
           /\ Become(t, IF before + available <= op.number THEN [y EXCEPT !.dir = "call"]
                        ELSE IF toSkip <= 0 THEN Return(y, TRUE)
                        ELSE Return([y EXCEPT !.rs.state[op.chunk] = [writeSelected(@, rest) EXCEPT !.unfiltered = FALSE]], TRUE))
    /\ UNCHANGED <<pPlan, pPipeline, pCursor, pTables, pScanned>>

CallForLimit(t) ==
    /\ Called(t, "limit")
    /\ Become(t, CallChild(pThreads[t]))
    /\ SharedUnchanged

Limit(t) ==
    /\ Returned(t, "limit")
    /\ LET op == opOf(t)
           x == pThreads[t]
           before == pCounters.limit
           available == getNumTuples(x, op)
           toProcess == op.number - before
       IN  /\ pCounters' = [pCounters EXCEPT !.limit = before + available]
           /\ Become(t, IF before + available <= op.number THEN Return(x, TRUE)
                        ELSE IF toProcess <= 0 THEN Return(x, FALSE)
                        ELSE Return([x EXCEPT !.rs.state[op.chunk].size = toProcess], TRUE))
    /\ UNCHANGED <<pPlan, pPipeline, pCursor, pTables, pScanned>>

-----------------------------------------------------------------------------
(* ResultCollector, and the pipelines' order.                              *)

(* The tuple that FactorizedTable::append makes of the collected vectors:  *)
(* the rows of the product of their chunks.                                *)
tupleOfVectors(rs, names) ==
    LET chunks == {rs.vec[n].chunk : n \in Range(names)}
        ps(c) == IF isFlat(rs.state[c]) THEN {getPositionOfCurrIdx(rs.state[c])} ELSE Range(selectedPositions(rs.state[c]))
        picks == {f \in [chunks -> Positions] : \A c \in chunks : f[c] \in ps(c)}
    IN  [i \in 1 .. Cardinality(picks) |->
            LET f == SetToSeq(picks)[i] IN [n \in Range(names) |-> readAt(rs.vec[n], f[rs.vec[n].chunk])]]

AtCollector(t, dir) ==
    /\ pPipeline <= Len(pPlan.pipelines)
    /\ pThreads[t].pc = Len(current.ops) + 1
    /\ pThreads[t].dir = dir

CollectFirst(t) ==
    /\ AtCollector(t, "call")
    /\ Become(t, CallChild(pThreads[t]))
    /\ SharedUnchanged

ResultCollector(t) ==
    /\ AtCollector(t, "true")
    /\ LET x == pThreads[t]
           tuple == tupleOfVectors(x.rs, current.collect)
       IN  Become(t, CallChild([x EXCEPT !.table = @ \o [i \in 1 .. x.mult |-> tuple]]))
    /\ SharedUnchanged

mergeLocalTable(t) ==
    /\ AtCollector(t, "false")
    /\ pTables' = [pTables EXCEPT ![pPipeline] = @ \o pThreads[t].table]
    /\ Become(t, [pThreads[t] EXCEPT !.dir = "done", !.table = <<>>])
    /\ UNCHANGED <<pPlan, pPipeline, pCursor, pCounters, pScanned>>

NextTask ==
    /\ pPipeline <= Len(pPlan.pipelines)
    /\ \A t \in DOMAIN pThreads : pThreads[t].dir = "done"
    /\ pPipeline' = pPipeline + 1
    /\ pThreads' = IF pPipeline = Len(pPlan.pipelines) THEN <<>>
                   ELSE [t \in 1 .. pPlan.threads |-> NewThread(pPlan.pipelines[pPipeline + 1])]
    /\ pCursor' = 0
    /\ UNCHANGED <<pPlan, pCounters, pTables, pScanned>>

PipelineNext ==
    \/ \E t \in DOMAIN pThreads :
          \/ ChildIsExhausted(t) \/ ScanNodeID(t) \/ UnionAllScan(t)
          \/ CallForProperty(t) \/ ScanStructuredProperty(t) \/ CallForColumn(t) \/ AdjColumnExtend(t)
          \/ CallForList(t) \/ AdjListExtend(t) \/ CallForRelProperty(t) \/ ReadRelPropertyList(t)
          \/ VarLengthStep(t) \/ VarLengthAdjListExtend(t) \/ VarLengthColumnStep(t) \/ VarLengthColumnExtend(t)
          \/ CallForFilter(t) \/ Filter(t) \/ CallForFlatten(t) \/ Flatten(t)
          \/ CallForProjection(t) \/ Projection(t) \/ RepeatOrCall(t) \/ MultiplicityReducer(t)
          \/ CallForSkip(t) \/ Skip(t) \/ CallForLimit(t) \/ Limit(t)
          \/ CollectFirst(t) \/ ResultCollector(t) \/ mergeLocalTable(t)
    \/ NextTask

PipelineSpec == PipelineInit /\ [][PipelineNext]_pipelineVars

-----------------------------------------------------------------------------
(* The reference: the rows of a plan computed row by row.  A row maps      *)
(* names to values; an extension also records the index of its edge.       *)

FlatMap(rows, F(_)) == FlattenSeq([i \in 1 .. Len(rows) |-> F(rows[i])])

Extended(row, op, ends) ==
    [i \in 1 .. Len(ends) |-> row @@ (op.out :> ends[i]) @@ (op.chunk :> i)]

(* The ends of the walks of length k, for each k, over the edges Next(_).  *)
WalkEnds(start, from, Next(_)) ==
    LET walks[k \in Nat] == IF k = 0 THEN <<start>> ELSE FlatMap(walks[k - 1], Next)
    IN  FlattenSeq([k \in 1 .. from[2] |-> IF k < from[1] THEN <<>> ELSE walks[k]])

Option(x) == IF x = NULL THEN <<>> ELSE <<x>>

RowsAfter(op, row) ==
    CASE op.kind = "property" -> <<row @@ (op.out :> Properties[op.column][row[op.in]])>>
      [] op.kind = "column" -> [i \in 1 .. Len(Option(Properties[op.column][row[op.in]])) |-> row @@ (op.out :> Properties[op.column][row[op.in]])]
      [] op.kind = "extend" -> Extended(row, op, AdjacencyLists[op.list][row[op.in]])
      [] op.kind = "relproperty" -> <<row @@ (op.out :> RelProperties[op.list][row[op.in]][row[op.chunk]])>>
      [] op.kind = "varlist" -> Extended(row, op, WalkEnds(row[op.in], <<op.lower, op.upper>>, LAMBDA n : AdjacencyLists[op.list][n]))
      [] op.kind = "varcolumn" -> Extended(row, op, WalkEnds(row[op.in], <<op.lower, op.upper>>, LAMBDA n : Option(Properties[op.column][n])))
      [] op.kind = "filter" -> IF ValueInRow(row, op.expr) = 1 THEN <<row>> ELSE <<>>
      [] op.kind = "project" ->
            <<FoldLeft(LAMBDA r, e : r @@ (e.out :> ValueInRow(row, e.nodes)), row, op.exprs)>>
      [] OTHER -> <<row>>

PipelineRows(p, earlier) ==
    LET source == p.ops[1]
        scanned == IF source.kind = "scan" THEN [i \in 1 .. Cardinality(Nodes) |-> source.out :> i - 1]
                   ELSE FlattenSeq([k \in 1 .. Len(source.tables) |->
                          LET rows == earlier[source.tables[k]]
                              names == pPlan.pipelines[source.tables[k]].collect
                          IN  [i \in 1 .. Len(rows) |->
                                  [n \in Range(source.outs) |-> rows[i][names[CHOOSE j \in 1 .. Len(names) : source.outs[j] = n]]]]])
        all == FoldLeft(LAMBDA rows, op : FlatMap(rows, LAMBDA r : RowsAfter(op, r)), scanned, Tail(p.ops))
    IN  [i \in 1 .. Len(all) |-> [n \in Range(p.collect) |-> all[i][n]]]

ExpectedRowsOf(plan) ==
    Last(FoldLeft(LAMBDA earlier, p : Append(earlier, PipelineRows(p, earlier)), <<>>, plan.pipelines))

CountIn(rows, r) == Cardinality({i \in 1 .. Len(rows) : rows[i] = r})

(* What a query returns is the bag of rows that its operators define row   *)
(* by row, whatever the batches, selections, multiplicities and threads:   *)
(* SKIP and LIMIT return as many rows as they should, each of them a row   *)
(* of the query (Filter, AdjColumnExtend and Skip restore the selection    *)
(* that their child left, a list and its properties read the same range,   *)
(* the counters are shared).  The plans of the run query have no function  *)
(* of an unflat, a flat and an unflat operand with NULLs behind a filter,  *)
(* which does not have it (FilteredFunctions of MCQuery).                  *)
ResultsAreRight ==
    pPipeline > Len(pPlan.pipelines) =>
        LET rows == FlattenSeq(Last(pTables))
            expected == ExpectedRowsOf(pPlan)
            available == IF Len(expected) > pPlan.skip THEN Len(expected) - pPlan.skip ELSE 0
        IN  /\ Len(rows) = MinOf(available, pPlan.limit)
            /\ \A r \in Range(rows) : CountIn(rows, r) <= CountIn(expected, r)
=============================================================================
