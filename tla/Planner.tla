------------------------------ MODULE Planner ------------------------------
(***************************************************************************)
(* The enumeration of the plans of a query (src/planner): the join orders  *)
(* of a MATCH level by level, OPTIONAL MATCH as a left join, the           *)
(* projection bodies and UNION.                                            *)
(*                                                                         *)
(* An expression is a pair: <<variable, "id">> is the ID of a node,        *)
(* <<variable, name>> a property.  A logical plan is                       *)
(*   [ops, groups, pos, scope, card, cost, rows, sound]:                   *)
(* its operators in postfix order (a join follows its probe side and its   *)
(* build side), the factorization groups, the group of each expression,    *)
(* the expressions in scope, the estimates; rows and sound are auxiliary:  *)
(* the tuples that the operators compute on the database given by the      *)
(* constants, and whether each operator finds what it reads and the mapper *)
(* to physical operators finds the shape it asserts.                       *)
(***************************************************************************)
EXTENDS Values, Integers, Sequences, FiniteSets, FiniteSetsExt, SequencesExt, Functions, TLC

CONSTANTS
    Statements,             \* the bound statements
    NodeProperties,         \* name -> node -> value
    RelTables,              \* name -> [fwdColumn, bwdColumn, edges]
    MaxPlansPerSubgraph     \* MAX_NUM_PLANS_PER_SUBGRAPH

VARIABLES
    planStatement,          \* [singles, all]: the single queries and whether it is UNION ALL
    planAt,                 \* the single query, query part and query graph planned next
    planContext,            \* JoinOrderEnumeratorContext
    planPlans,              \* the plans of the single query so far
    planChildren,           \* the best plans of the single queries before
    planResult              \* <<>> or the plan of the statement

plannerVars == <<planStatement, planAt, planContext, planPlans, planChildren, planResult>>

NodeIDs == DOMAIN NodeProperties[CHOOSE name \in DOMAIN NodeProperties : TRUE]

ID(node) == <<node, "id">>
Edge(rel) == <<rel.name, "edge">>       \* the relationship a row is made of: never in scope
Ends(rel) == {rel.src, rel.dst}

-----------------------------------------------------------------------------
(* Schema and LogicalPlan.                                                 *)

EmptyPlan ==
    [ops |-> <<>>, groups |-> <<>>, pos |-> <<>>, scope |-> {}, card |-> 1, cost |-> 0,
     rows |-> {<<>>}, sound |-> TRUE]

appendOperator(plan, kind, node) == [plan EXCEPT !.ops = Append(@, [kind |-> kind, node |-> node])]

insertToGroupAndScope(plan, expressions, g) ==
    [plan EXCEPT !.pos = @ @@ [e \in expressions |-> g], !.scope = @ \cup expressions]

appendPayloadsToNewGroup(plan, expressions, flat, multiplier) ==
    insertToGroupAndScope([plan EXCEPT !.groups = Append(@, [flat |-> flat, mult |-> multiplier])],
                          expressions, Len(plan.groups) + 1)

isGroupFlat(plan, g) == plan.groups[g].flat

getGroupsPosInScope(plan) == {plan.pos[e] : e \in plan.scope}

getExpressionsInScope(plan, g) == {e \in plan.scope : plan.pos[e] = g}

getDependentGroupsPos(plan, inputs) == {plan.pos[e] : e \in inputs \cap plan.scope}

clearSchema(plan) == [plan EXCEPT !.groups = <<>>, !.pos = <<>>, !.scope = {}]

(* Auxiliary: an operator finds its inputs, at most one group of them unflat.*)
Reads(plan, inputs) ==
    [plan EXCEPT !.sound = /\ @
                           /\ inputs \subseteq plan.scope
                           /\ Cardinality({g \in getDependentGroupsPos(plan, inputs) : ~isGroupFlat(plan, g)}) <= 1]

-----------------------------------------------------------------------------
(* Enumerator: flattens, filters and property scans.                       *)

appendFlattenIfNecessary(plan, g) ==
    IF isGroupFlat(plan, g) THEN plan
    ELSE appendOperator([plan EXCEPT !.groups[g].flat = TRUE, !.card = @ * plan.groups[g].mult], "flatten", "")

appendFlattens(plan, groups) == FoldSet(LAMBDA g, acc : appendFlattenIfNecessary(acc, g), plan, groups)

UnflatGroups(plan, groups) == {g \in groups : ~isGroupFlat(plan, g)}

(* The group that appendFlattensButOne leaves unflat, or any when all are flat. *)
GroupPosToSelect(plan, groups) ==
    IF UnflatGroups(plan, groups) = {} THEN CHOOSE g \in groups : TRUE
    ELSE CHOOSE g \in UnflatGroups(plan, groups) : TRUE

appendFlattensButOne(plan, groups) ==
    IF groups = {} THEN plan ELSE appendFlattens(plan, groups \ {GroupPosToSelect(plan, groups)})

(* One property is 1, or two properties are equal.                         *)
Holds(predicate, row) ==
    LET values == {row[e] : e \in predicate} \cup (IF Cardinality(predicate) = 1 THEN {1} ELSE {})
    IN  predicate \subseteq DOMAIN row /\ NULL \notin values /\ Cardinality(values) = 1

(* multiplyCardinality takes an integer: the selectivity 0.1 becomes 0.     *)
appendFilter(plan, predicate) ==
    LET flat == appendFlattensButOne(plan, getDependentGroupsPos(plan, predicate))
        filtered == [flat EXCEPT !.card = 0, !.rows = {r \in @ : Holds(predicate, r)}]
    IN  appendOperator(Reads(filtered, predicate), "filter", "")

PropertyOf(row, e) == IF row[ID(e[1])] = NULL THEN NULL ELSE NodeProperties[e[2]][row[ID(e[1])]]

appendScanNodePropIfNecessary(plan, properties, node) ==
    LET new == properties \ plan.scope
    IN  IF new = {} THEN plan
        ELSE appendOperator(
                 insertToGroupAndScope([plan EXCEPT !.rows = {[e \in new |-> PropertyOf(r, e)] @@ r : r \in @}],
                                       new, plan.pos[ID(node)]), "node property", node)

Near(rel, direction) == IF direction = "FWD" THEN rel.src ELSE rel.dst
Far(rel, direction) == IF direction = "FWD" THEN rel.dst ELSE rel.src
NearEnd(edge, direction) == IF direction = "FWD" THEN edge.src ELSE edge.dst
FarEnd(edge, direction) == IF direction = "FWD" THEN edge.dst ELSE edge.src

appendScanRelPropIfNecessary(plan, properties, rel, direction) ==
    LET new == properties \ plan.scope
    IN  FoldSet(LAMBDA e, acc : appendOperator(acc, "rel property", rel.name),
                insertToGroupAndScope(
                    [plan EXCEPT !.rows = {[e \in new |-> r[Edge(rel)].x] @@ r : r \in @}],
                    new, plan.pos[ID(Far(rel, direction))]), new)

propertiesOf(properties, variable) == {e \in properties : e[1] = variable}

-----------------------------------------------------------------------------
(* Sinks: what a sink makes of the schema of its input.                    *)

mergeSchema(build, probe, key) ==
    LET others == getGroupsPosInScope(build) \ {build.pos[key]}
        flat == {e \in build.scope : build.pos[e] \in others /\ isGroupFlat(build, build.pos[e])}
        withKeyGroup == insertToGroupAndScope(probe, getExpressionsInScope(build, build.pos[key]) \ {key}, probe.pos[key])
        withFlat == IF flat = {} THEN withKeyGroup ELSE appendPayloadsToNewGroup(withKeyGroup, flat, TRUE, 1)
    IN  FoldSet(LAMBDA g, acc : appendPayloadsToNewGroup(acc, getExpressionsInScope(build, g), FALSE, build.groups[g].mult),
                withFlat, UnflatGroups(build, others))

reComputeSchema(plan) ==
    LET groups == getGroupsPosInScope(plan)
        flat == {e \in plan.scope : isGroupFlat(plan, plan.pos[e])}
        unflat == UnflatGroups(plan, groups)
        withFlat == IF flat = {} THEN clearSchema(plan)
                    ELSE appendPayloadsToNewGroup(clearSchema(plan), flat, unflat # {}, 1)
    IN  FoldSet(LAMBDA g, acc : appendPayloadsToNewGroup(acc, getExpressionsInScope(plan, g), FALSE, plan.groups[g].mult),
                withFlat, unflat)

appendAccumulate(plan) == appendOperator(reComputeSchema(plan), "accumulate", "")

-----------------------------------------------------------------------------
(* The query graph and its subgraphs.                                      *)

Subgraph(nodes, rels) == [nodes |-> nodes, rels |-> rels]
Merge(s, t) == Subgraph(s.nodes \cup t.nodes, s.rels \cup t.rels)
getTotalNumVariables(s) == Cardinality(s.nodes) + Cardinality(s.rels)
Variables(s) == s.nodes \cup {r.name : r \in s.rels}

containAllVariables(graph, s, variables) == variables \cap Variables(graph) \subseteq Variables(s)

getNodeNbrPositions(graph, s) == {n \in graph.nodes \ s.nodes : \E r \in s.rels : n \in Ends(r)}
getRelNbrPositions(graph, s) == {r \in graph.rels \ s.rels : Ends(r) \cap s.nodes # {}}

getBaseNbrSubgraph(graph, s) ==
         {Subgraph({n}, {}) : n \in getNodeNbrPositions(graph, s)}
    \cup {Subgraph({}, {r}) : r \in getRelNbrPositions(graph, s)}

getNextNbrSubgraphs(graph, s, nbr) ==
         {Subgraph(nbr.nodes \cup {n}, nbr.rels) : n \in getNodeNbrPositions(graph, nbr) \ s.nodes}
    \cup {Subgraph(nbr.nodes, nbr.rels \cup {r}) : r \in getRelNbrPositions(graph, nbr) \ s.rels}

getNbrSubgraphs(graph, s, size) ==
    FoldLeft(LAMBDA nbrs, i : UNION {getNextNbrSubgraphs(graph, s, nbr) : nbr \in nbrs},
             getBaseNbrSubgraph(graph, s), [i \in 1 .. size - 1 |-> i])

getConnectedNodePos(graph, s, nbr) ==
         (getNodeNbrPositions(graph, s) \cap nbr.nodes)
    \cup (getNodeNbrPositions(graph, nbr) \cap s.nodes)

VariablesOf(predicate) == {e[1] : e \in predicate}

(* The conjuncts whose variables are all in the new subgraph and in none of the previous ones. *)
getNewMatchedExpressions(graph, prevs, new, where) ==
    {p \in where : /\ containAllVariables(graph, new, VariablesOf(p))
                   /\ \A prev \in prevs : ~containAllVariables(graph, prev, VariablesOf(p))}

-----------------------------------------------------------------------------
(* JoinOrderEnumerator: scans and extends.                                 *)

appendScanNodeID(node) ==
    LET scan == appendPayloadsToNewGroup(EmptyPlan, {ID(node)}, FALSE, Cardinality(NodeIDs))
    IN  appendOperator([scan EXCEPT !.rows = {ID(node) :> n : n \in NodeIDs}], "scan", node)

isColumn(rel, direction) ==
    IF direction = "FWD" THEN RelTables[rel.table].fwdColumn ELSE RelTables[rel.table].bwdColumn

(* ceil(numRels / maxNodeOffset + 1).                                      *)
getExtensionRate(rel) ==
    LET numRels == Cardinality(RelTables[rel.table].edges)
        maxNodeOffset == Cardinality(NodeIDs) - 1
    IN  (numRels + maxNodeOffset - 1) \div maxNodeOffset + 1

ExtendedRows(plan, rel, direction) ==
    UNION {{(ID(Far(rel, direction)) :> FarEnd(e, direction)) @@ (Edge(rel) :> e) @@ r :
                e \in {e \in RelTables[rel.table].edges : NearEnd(e, direction) = r[ID(Near(rel, direction))]}} :
           r \in plan.rows}

appendExtend(plan, rel, direction) ==
    LET bound == plan.pos[ID(Near(rel, direction))]
        nbr == {ID(Far(rel, direction))}
        extended == [plan EXCEPT !.rows = ExtendedRows(plan, rel, direction)]
        flat == appendFlattenIfNecessary(extended, bound)
        result == IF isColumn(rel, direction) THEN insertToGroupAndScope(extended, nbr, bound)
                  ELSE appendPayloadsToNewGroup(flat, nbr, FALSE, getExtensionRate(rel))
    IN  appendOperator([result EXCEPT !.cost = @ + result.card], "extend", rel.name)

(* A filter is preceded by the scans of the properties of the variable it reads. *)
planFiltersForNode(plan, predicates, node) ==
    FoldSet(LAMBDA p, acc : appendFilter(appendScanNodePropIfNecessary(acc, propertiesOf(p, node), node), p),
            plan, predicates)

planFiltersForRel(plan, predicates, rel, direction) ==
    FoldSet(LAMBDA p, acc : appendFilter(appendScanRelPropIfNecessary(acc, propertiesOf(p, rel.name), rel, direction), p),
            plan, predicates)

planFiltersForHashJoin(plan, predicates) == FoldSet(LAMBDA p, acc : appendFilter(acc, p), plan, predicates)

planRelExtendFiltersAndProperties(context, plan, rel, direction, predicates) ==
    appendScanRelPropIfNecessary(
        planFiltersForRel(appendExtend(plan, rel, direction), predicates, rel, direction),
        propertiesOf(context.properties, rel.name), rel, direction)

-----------------------------------------------------------------------------
(* Joins.                                                                  *)

OperatorsOfKind(plan, kind) == {i \in 1 .. Len(plan.ops) : plan.ops[i].kind = kind}

(* The last join ends the pipeline; without one the first operator is its source. *)
isNodeSequential(plan, node) ==
    OperatorsOfKind(plan, "join") = {} /\ plan.ops[1] = [kind |-> "scan", node |-> node]

canApplyINLJoin(context, s, other, joinNode) ==
    /\ Cardinality(other.rels) = 1 /\ other.nodes = {}
    /\ \E plan \in context.table[s] : isNodeSequential(plan, joinNode)

planInnerINLJoin(context, s, other, joinNode) ==
    LET rel == CHOOSE r \in other.rels : TRUE
        direction == IF joinNode = rel.src THEN "FWD" ELSE "BWD"
        predicates == getNewMatchedExpressions(context.graph, {s}, Merge(s, other), context.where)
    IN  {planRelExtendFiltersAndProperties(context, plan, rel, direction, predicates) :
            plan \in {p \in context.table[s] : isNodeSequential(p, joinNode)}}

(* A linear plan of one group whose source is the scan of the join node.   *)
isJoinKeyUniqueOnBuildSide_OneGroup(build, joinNode) ==
    Cardinality(getGroupsPosInScope(build)) <= 1 /\ Len(build.groups) <= Cardinality(getGroupsPosInScope(build))

isJoinKeyUniqueOnBuildSide(build, joinNode) ==
    /\ Cardinality(getGroupsPosInScope(build)) <= 1
    /\ Len(build.groups) <= Cardinality(getGroupsPosInScope(build))
    /\ isNodeSequential(build, joinNode)

(* What HashJoinProbe returns: of a key in an unflat group it finds one tuple at most. *)
JoinedRows(probe, build, key, keyIsFlat, joinType) ==
    LET matches(r) == {b \in build.rows : b[key] = r[key] /\ r[key] # NULL}
        found(r) == IF keyIsFlat \/ matches(r) = {} THEN matches(r) ELSE {CHOOSE b \in matches(r) : TRUE}
        nulls == [e \in build.scope \ {key} |-> NULL]
    IN  UNION {IF joinType = "LEFT" /\ matches(r) = {} THEN {nulls @@ r}
               ELSE {r @@ b : b \in found(r)} : r \in probe.rows}

appendHashJoin(joinNode, joinType, probe, build) ==
    LET key == ID(joinNode)
        unique == isJoinKeyUniqueOnBuildSide(build, joinNode)
        costed == [probe EXCEPT !.cost = @ + probe.card + build.card]
        flat == appendFlattenIfNecessary(costed, probe.pos[key])
        flatProbe == IF unique THEN costed
                     ELSE [flat EXCEPT !.card = @ * (build.card \div 10), !.cost = @ * 10]
        joined == [flatProbe EXCEPT
                      !.rows = JoinedRows(probe, build, key, isGroupFlat(flatProbe, probe.pos[key]), joinType),
                      !.sound = @ /\ build.sound,
                      !.ops = @ \o build.ops]
    IN  appendOperator(mergeSchema(build, joined, key), "join", joinNode)

canApplyASP(joinNode, isProbeAcc, probe, build) ==
    /\ ~isProbeAcc
    /\ OperatorsOfKind(probe, "filter") # {}
    /\ Cardinality(OperatorsOfKind(build, "scan")) = 1
    /\ \A i \in OperatorsOfKind(build, "scan") : build.ops[i].node = joinNode

(* The probe side of an accumulated join is, below its flattens, the scan of the table. *)
getTableScanForAccHashJoin(plan) ==
    LET i == Max({0} \cup {j \in 1 .. Len(plan.ops) : plan.ops[j].kind # "flatten"})
    IN  i > 0 /\ plan.ops[i].kind = "accumulate"

(* The semi mask restricts the scan of the join node on the build side to the keys of the probe side. *)
mapASPJoin(joinNode, probe, build) ==
    [build EXCEPT
        !.rows = {b \in @ : \E r \in probe.rows : r[ID(joinNode)] = b[ID(joinNode)]},
        !.sound = @ /\ \E i \in OperatorsOfKind(build, "scan") : build.ops[i].node = joinNode]

(* The only table scan without a child on the build side reads the accumulated table; the
   scan of an accumulated join below it has lost its child to its hash join. *)
mapAccJoin(build) ==
    [build EXCEPT !.sound = @ /\ Cardinality(OperatorsOfKind(build, "ftable")) = 1
                              /\ OperatorsOfKind(build, "accumulate") = {}]

planHashJoin(joinNode, joinType, isProbeAcc, probe, build) ==
    IF canApplyASP(joinNode, isProbeAcc, probe, build)
    THEN appendHashJoin(joinNode, joinType, appendAccumulate(appendOperator(probe, "semi masker", joinNode)),
                        mapASPJoin(joinNode, probe, build))
    ELSE IF isProbeAcc
    THEN appendHashJoin(joinNode, joinType, [probe EXCEPT !.sound = @ /\ getTableScanForAccHashJoin(probe)],
                        mapAccJoin(build))
    ELSE appendHashJoin(joinNode, joinType, probe, build)

planInnerHashJoin(context, s, other, joinNode, flipPlan) ==
    LET predicates == getNewMatchedExpressions(context.graph, {s, other}, Merge(s, other), context.where)
        joinOf(probe, build) == planFiltersForHashJoin(planHashJoin(joinNode, "INNER", FALSE, probe, build), predicates)
    IN       {joinOf(p, b) : p \in context.table[s], b \in context.table[other]}
        \cup {joinOf(p, b) : p \in (IF flipPlan THEN context.table[other] ELSE {}), b \in context.table[s]}

(* The plans of one pair of subgraphs: an index nested loop join prunes the hash joins. *)
JoinsOf(context, s, nbr) ==
    LET joinNode == CHOOSE n \in getConnectedNodePos(context.graph, s, nbr) : TRUE
    IN  IF canApplyINLJoin(context, s, nbr, joinNode) THEN planInnerINLJoin(context, s, nbr, joinNode)
        ELSE IF canApplyINLJoin(context, nbr, s, joinNode) THEN planInnerINLJoin(context, nbr, s, joinNode)
        ELSE planInnerHashJoin(context, s, nbr, joinNode, getTotalNumVariables(s) # getTotalNumVariables(nbr))

-----------------------------------------------------------------------------
(* The table of subplans and its levels.                                   *)

getSubqueryGraphs(table, level) == {s \in DOMAIN table : getTotalNumVariables(s) = level}

addPlans(table, s, plans) == (s :> ((IF s \in DOMAIN table THEN table[s] ELSE {}) \cup plans)) @@ table

Cheapest(plans) == CHOOSE p \in plans : \A q \in plans : p.cost <= q.cost

RemoveDearest(plans) == plans \ {CHOOSE p \in plans : \A q \in plans : p.cost >= q.cost}

finalizeLevel(table, level) ==
    [s \in DOMAIN table |->
        IF getTotalNumVariables(s) # level THEN table[s]
        ELSE FoldLeft(LAMBDA plans, i : IF Cardinality(plans) > MaxPlansPerSubgraph THEN RemoveDearest(plans) ELSE plans,
                      table[s], [i \in 1 .. Cardinality(table[s]) |-> i])]

planInnerJoin(context, leftLevel, rightLevel) ==
    {<<s, nbr>> \in getSubqueryGraphs(context.table, rightLevel) \X getSubqueryGraphs(context.table, leftLevel) :
        nbr \in getNbrSubgraphs(context.graph, s, leftLevel)}

planLevel(context, level) ==
    LET pairs == UNION {planInnerJoin(context, left, level - left) : left \in 1 .. level \div 2}
        joined == FoldSet(LAMBDA pair, table : addPlans(table, Merge(pair[1], pair[2]), JoinsOf(context, pair[1], pair[2])),
                          context.table, pairs)
    IN  [context EXCEPT !.table = finalizeLevel(joined, level)]

NewContext(properties) ==
    [graph |-> Subgraph({}, {}), where |-> {}, table |-> <<>>, matchedNodes |-> {}, matchedRels |-> {},
     properties |-> properties]

initContext(context, graph, where, prevPlans) ==
    [context EXCEPT !.where = where,
                    !.graph = Merge(context.graph, graph),
                    !.table = context.graph :> prevPlans]

(* Of the outer plan: its accumulated table, filtered and made distinct.   *)
appendDistinct(plan, expressions) ==
    LET flat == appendFlattens(plan, getDependentGroupsPos(plan, expressions))
        rows == {Restrict(r, expressions) : r \in plan.rows}
    IN  appendOperator(appendPayloadsToNewGroup(clearSchema([flat EXCEPT !.rows = rows]), expressions, FALSE, 1),
                       "distinct", "")

appendFTableScan(outer, expressions) ==
    LET from(g) == {e \in expressions : outer.pos[e] = g}
        rows == {Restrict(r, expressions) : r \in outer.rows}
    IN  FoldSet(LAMBDA g, acc : appendPayloadsToNewGroup(acc, from(g), isGroupFlat(outer, g), 1),
                appendOperator([EmptyPlan EXCEPT !.rows = rows], "ftable", ""), {outer.pos[e] : e \in expressions})

planOuterExpressionsScan(context, outer, expressions) ==
    LET nodes == {e[1] : e \in {e \in expressions : e[2] = "id"}}
        predicates == getNewMatchedExpressions(context.graph, {Subgraph({}, {})}, Subgraph(nodes, {}), context.where)
        plan == appendDistinct(planFiltersForHashJoin(appendFTableScan(outer, expressions), predicates), expressions)
    IN  IF expressions = {} THEN context
        ELSE [context EXCEPT !.matchedNodes = @ \cup nodes, !.table = addPlans(@, Subgraph(nodes, {}), {plan})]

planNodeScan(context, node) ==
    LET s == Subgraph({node}, {})
        predicates == getNewMatchedExpressions(context.graph, {Subgraph({}, {})}, s, context.where)
        plan == appendScanNodePropIfNecessary(planFiltersForNode(appendScanNodeID(node), predicates, node),
                                              propertiesOf(context.properties, node), node)
    IN  IF node \in context.matchedNodes THEN context
        ELSE [context EXCEPT !.matchedNodes = @ \cup {node}, !.table = addPlans(@, s, {plan})]

planRelScan(context, rel) ==
    LET s == Subgraph({}, {rel})
        predicates == getNewMatchedExpressions(context.graph, {Subgraph({}, {})}, s, context.where)
        plan(d) == planRelExtendFiltersAndProperties(context, appendScanNodeID(Near(rel, d)), rel, d, predicates)
    IN  IF rel \in context.matchedRels THEN context
        ELSE [context EXCEPT !.matchedRels = @ \cup {rel}, !.table = addPlans(@, s, {plan("FWD"), plan("BWD")})]

planTableScan(context) ==
    LET nodes == FoldSet(LAMBDA n, c : planNodeScan(c, n), context, context.graph.nodes)
    IN  FoldSet(LAMBDA r, c : planRelScan(c, r), nodes, context.graph.rels)

enumerateJoinOrder(context, graph, where, prevPlans, outer, expressions) ==
    LET init == initContext(context, graph, where, prevPlans)
        scanned == planTableScan(planOuterExpressionsScan(init, outer, expressions))
    IN  FoldLeft(planLevel, scanned, [i \in 1 .. getTotalNumVariables(init.graph) - 1 |-> i + 1])

getPlans(context) == IF context.graph \in DOMAIN context.table THEN context.table[context.graph] ELSE {}

-----------------------------------------------------------------------------
(* OPTIONAL MATCH: a left join with the best plan of the subquery.         *)

getExpressionsToScanFromOuter(graph, where, outer) ==
    ((UNION where) \cup {ID(n) : n \in graph.nodes}) \cap outer.scope

planOptionalMatch(context, graph, where, outer) ==
    LET expressions == getExpressionsToScanFromOuter(graph, where, outer)
        joinNode == CHOOSE n \in graph.nodes : ID(n) \in expressions
        subquery(g, plan, scan) ==
            Cheapest(getPlans(enumerateJoinOrder(NewContext(context.properties), g, where, {EmptyPlan}, plan, scan)))
        flat(plan) == appendFlattenIfNecessary(plan, plan.pos[ID(joinNode)])
        acc == appendAccumulate(outer)
    IN  IF \A e \in expressions : e[2] = "id"
        THEN planHashJoin(joinNode, "LEFT", FALSE, flat(outer),
                          subquery(Subgraph(graph.nodes \ {joinNode}, graph.rels), outer, {}))
        ELSE planHashJoin(joinNode, "LEFT", TRUE, flat(acc), subquery(graph, acc, expressions))

-----------------------------------------------------------------------------
(* ProjectionEnumerator.  A projection body is [items, distinct, orderBy,  *)
(* count]; an item is [out, in]: the expression and what it is computed    *)
(* from; count is <<>> or <<the expression that COUNT takes>>.             *)

Outs(items) == {items[i].out : i \in 1 .. Len(items)}

ItemValue(item, row) ==
    IF item.in = {item.out} THEN row[item.out]
    ELSE IF \E e \in item.in : row[e] = NULL THEN NULL
    ELSE FoldSet(LAMBDA e, acc : row[e] + acc, 0, item.in)

appendProjection(plan, items) ==
    LET step(acc, item) ==
            LET groups == getDependentGroupsPos(acc.plan, item.in)
            IN  [plan |-> Reads(appendFlattensButOne(acc.plan, groups), item.in),
                 to |-> Append(acc.to, GroupPosToSelect(acc.plan, groups))]
        flat == FoldLeft(step, [plan |-> plan, to |-> <<>>], items)
        rows == {[e \in Outs(items) |-> ItemValue(CHOOSE item \in Range(items) : item.out = e, r)] @@ r : r \in plan.rows}
        cleared == [flat.plan EXCEPT !.scope = {}, !.rows = rows]
    IN  appendOperator(FoldLeft(LAMBDA acc, i : insertToGroupAndScope(acc, {items[i].out}, flat.to[i]),
                                cleared, [i \in 1 .. Len(items) |-> i]), "projection", "")

CountOf(e) == <<"count", e[2]>>

RowsWithCount(rows, keys, input) ==
    {LET same == {q \in rows : Restrict(q, keys) = Restrict(r, keys)}
     IN  (CountOf(input) :> Cardinality({q \in same : q[input] # NULL})) @@ Restrict(r, keys) : r \in rows}

appendAggregate(plan, keys, input) ==
    LET byKeys == appendFlattensButOne(plan, getDependentGroupsPos(plan, keys))
        flat == Reads(Reads(appendFlattensButOne(byKeys, getDependentGroupsPos(byKeys, {input})), keys), {input})
        rows == RowsWithCount(plan.rows, keys, input)
    IN  appendOperator(appendPayloadsToNewGroup(clearSchema([flat EXCEPT !.rows = rows]), keys \cup {CountOf(input)}, FALSE, 1),
                       "aggregate", "")

Plain(e) == [out |-> e, in |-> {e}]

enumerateAggregate(plan, body) ==
    IF body.count = <<>> THEN plan
    ELSE appendAggregate(appendProjection(plan, <<Plain(body.count[1])>> \o body.items), Outs(body.items), body.count[1])

appendOrderBy(plan, expressions) ==
    LET flat == IF Len(plan.groups) > 1 THEN appendFlattens(plan, getDependentGroupsPos(plan, expressions)) ELSE plan
    IN  appendOperator(reComputeSchema(Reads(flat, expressions)), "order by", "")

enumerateOrderBy(plan, body) == IF body.orderBy = {} THEN plan ELSE appendOrderBy(plan, body.orderBy)

(* After an aggregation the items are in scope, and so is the count.       *)
getExpressionsToProject(body) ==
    IF body.count = <<>> THEN body.items
    ELSE [i \in 1 .. Len(body.items) |-> Plain(body.items[i].out)] \o <<Plain(CountOf(body.count[1]))>>

enumerateProjection(plan, body) ==
    LET items == getExpressionsToProject(body)
        projected == appendProjection(plan, items)
    IN  IF body.distinct THEN appendDistinct(projected, Outs(items)) ELSE projected

enumerateProjectionBody(plan, body) ==
    enumerateProjection(enumerateOrderBy(enumerateAggregate(plan, body), body), body)

-----------------------------------------------------------------------------
(* UNION: an expression that is flat in one child is flattened in all.      *)

(* Auxiliary: the tuples of a child can be read into the vectors of the schema of the first. *)
FitsUnion(first, child) ==
    LET flat(c, i) == isGroupFlat(c.plan, c.plan.pos[c.items[i].out])
        together(c, i, j) == c.plan.pos[c.items[i].out] = c.plan.pos[c.items[j].out]
    IN  \A i, j \in 1 .. Len(first.items) :
            /\ flat(first, i) => flat(child, i)
            /\ ~flat(first, i) /\ together(first, i, j) => (flat(child, i) <=> flat(child, j))
            /\ ~flat(child, i) /\ ~flat(child, j) => (together(child, i, j) <=> together(first, i, j))

createUnionPlan(children, all) ==
    LET groupOf(child, i) == child.plan.pos[child.items[i].out]
        someFlat(cs, i) == \E c \in 1 .. Len(cs) : isGroupFlat(cs[c].plan, groupOf(cs[c], i))
        flattenAll(cs, i) == [c \in 1 .. Len(cs) |-> [cs[c] EXCEPT !.plan = appendFlattenIfNecessary(@, groupOf(cs[c], i))]]
        n == Len(children[1].items)
        flat == FoldLeft(LAMBDA cs, i : IF someFlat(cs, i) THEN flattenAll(cs, i) ELSE cs, children, [i \in 1 .. n |-> i])
        renamed(c, r) == [e \in Outs(children[1].items) |->
                             r[flat[c].items[CHOOSE i \in 1 .. n : children[1].items[i].out = e].out]]
                         @@ (<<"union", "edge">> :> <<c, r>>)
        union == [reComputeSchema(flat[1].plan) EXCEPT
                     !.ops = <<>>,
                     !.card = 1,
                     !.cost = FoldSet(LAMBDA c, acc : acc + flat[c].plan.cost, 0, 1 .. Len(flat)),
                     !.rows = UNION {{renamed(c, r) : r \in flat[c].plan.rows} : c \in 1 .. Len(flat)},
                     !.sound = \A c \in 1 .. Len(flat) : flat[c].plan.sound /\ FitsUnion(flat[1], flat[c])]
        result == appendOperator(union, "union", "")
    IN  IF all THEN result ELSE appendDistinct(result, Outs(children[1].items))

-----------------------------------------------------------------------------
(* The Enumerator.                                                         *)

Single == planStatement.singles[planAt.single]
Part == Single.parts[planAt.part]
Clause == Part.graphs[planAt.graph]
InPart == planAt.single <= Len(planStatement.singles) /\ planAt.part <= Len(Single.parts)

PlannerInit ==
    /\ planStatement \in Statements
    /\ planAt = [single |-> 1, part |-> 1, graph |-> 1]
    /\ planContext = NewContext(planStatement.singles[1].properties)
    /\ planPlans = {EmptyPlan}
    /\ planChildren = <<>>
    /\ planResult = <<>>

PlanMatch ==
    /\ InPart /\ planAt.graph <= Len(Part.graphs) /\ ~Clause.optional
    /\ planContext' = enumerateJoinOrder(planContext, Subgraph(Clause.nodes, Clause.rels), Clause.where, planPlans, EmptyPlan, {})
    /\ planPlans' = getPlans(planContext')
    /\ planAt' = [planAt EXCEPT !.graph = @ + 1]
    /\ UNCHANGED <<planStatement, planChildren, planResult>>

PlanOptionalMatch ==
    /\ InPart /\ planAt.graph <= Len(Part.graphs) /\ Clause.optional
    /\ LET graph == Subgraph(Clause.nodes, Clause.rels)
       IN  /\ planPlans' = {planOptionalMatch(planContext, graph, Clause.where, p) : p \in planPlans}
           /\ planContext' = [planContext EXCEPT !.graph = Merge(@, graph)]
    /\ planAt' = [planAt EXCEPT !.graph = @ + 1]
    /\ UNCHANGED <<planStatement, planChildren, planResult>>

PlanProjectionBody ==
    /\ InPart /\ planAt.graph > Len(Part.graphs)
    /\ planPlans' = {FoldSet(LAMBDA p, acc : appendFilter(acc, p), enumerateProjectionBody(plan, Part.body), Part.body.where) :
                        plan \in planPlans}
    /\ planAt' = [planAt EXCEPT !.part = @ + 1, !.graph = 1]
    /\ UNCHANGED <<planStatement, planContext, planChildren, planResult>>

(* enumerateSingleQuery of the next query resets the state of the enumerator, but not matchedNodes and matchedRels. *)
FinishSingleQuery ==
    /\ planAt.single <= Len(planStatement.singles) /\ planAt.part > Len(Single.parts)
    /\ LET body == Single.parts[Len(Single.parts)].body
       IN  planChildren' = Append(planChildren, [plan |-> Cheapest(planPlans), items |-> getExpressionsToProject(body)])
    /\ planAt' = [single |-> planAt.single + 1, part |-> 1, graph |-> 1]
    /\ planPlans' = {EmptyPlan}
    /\ planContext' = IF planAt'.single > Len(planStatement.singles) THEN planContext
                      ELSE [planContext EXCEPT !.graph = Subgraph({}, {}), !.table = <<>>,
                                               !.properties = planStatement.singles[planAt'.single].properties]
    /\ UNCHANGED <<planStatement, planResult>>

FinishStatement ==
    /\ planAt.single > Len(planStatement.singles) /\ planResult = <<>>
    /\ planResult' = IF Len(planChildren) = 1 THEN <<planChildren[1].plan>>
                     ELSE <<createUnionPlan(planChildren, planStatement.all)>>
    /\ UNCHANGED <<planStatement, planAt, planContext, planPlans, planChildren>>

PlannerDone == planResult # <<>> /\ UNCHANGED plannerVars

PlannerNext == PlanMatch \/ PlanOptionalMatch \/ PlanProjectionBody \/ FinishSingleQuery \/ FinishStatement \/ PlannerDone

PlannerSpec == PlannerInit /\ [][PlannerNext]_plannerVars

-----------------------------------------------------------------------------
(* What the query means: the rows that match the clauses one after the     *)
(* other, by trying every assignment.                                      *)

BoundBy(row, node) == ID(node) \in DOMAIN row

WithProperties(row, properties, variables) ==
    [e \in {e \in properties : e[1] \in {v \in variables : ID(v) \in DOMAIN row}} |-> PropertyOf(row, e)] @@ row

MatchesOf(clause, properties, row) ==
    LET free == {n \in clause.nodes : ~BoundBy(row, n)}
        candidates == {ns @@ es @@ row : ns \in [{ID(n) : n \in free} -> NodeIDs],
                                         es \in {[k \in {Edge(r) : r \in clause.rels} |-> f[k[1]]] :
                                                     f \in [{r.name : r \in clause.rels} -> UNION {RelTables[r.table].edges : r \in clause.rels}]}}
        connected == {c \in candidates : \A r \in clause.rels :
                         /\ c[Edge(r)] \in RelTables[r.table].edges
                         /\ c[Edge(r)].src = c[ID(r.src)] /\ c[Edge(r)].dst = c[ID(r.dst)]}
        relProperties(c) == [e \in {e \in properties : \E r \in clause.rels : r.name = e[1]} |-> c[<<e[1], "edge">>].x]
    IN  {m \in {relProperties(c) @@ WithProperties(c, properties, free) : c \in connected} :
            \A p \in clause.where : Holds(p, m)}

NullsOf(clause, properties, row) ==
    LET free == {n \in clause.nodes : ~BoundBy(row, n)}
        names == free \cup {r.name : r \in clause.rels}
    IN  [e \in {ID(n) : n \in free} \cup {e \in properties : e[1] \in names} |-> NULL]

ClauseRows(rows, clause, properties) ==
    UNION {LET found == MatchesOf(clause, properties, r)
           IN  IF clause.optional /\ found = {} THEN {NullsOf(clause, properties, r) @@ r} ELSE found : r \in rows}

BodyRows(rows, body) ==
    LET items == getExpressionsToProject(body)
        computed == {[e \in Outs(body.items) |-> ItemValue(CHOOSE item \in Range(body.items) : item.out = e, r)] @@ r : r \in rows}
        counted == IF body.count = <<>> THEN computed ELSE RowsWithCount(computed, Outs(body.items), body.count[1])
        projected == IF body.distinct THEN {Restrict(r, Outs(items)) : r \in counted} ELSE counted
    IN  {r \in projected : \A p \in body.where : Holds(p, r)}

PartRows(rows, part, properties) ==
    BodyRows(FoldLeft(LAMBDA acc, clause : ClauseRows(acc, clause, properties), rows, part.graphs), part.body)

SingleRows(single) == FoldLeft(LAMBDA rows, part : PartRows(rows, part, single.properties), {<<>>}, single.parts)

(* How often a query returns each tuple.                                    *)
Tuples(rows, items) ==
    LET tuple(r) == [i \in 1 .. Len(items) |-> r[items[i].out]]
    IN  [t \in {tuple(r) : r \in rows} |-> Cardinality({r \in rows : tuple(r) = t})]

LastItems(single) == getExpressionsToProject(single.parts[Len(single.parts)].body)

IsRight(plan, single) == plan.sound /\ Tuples(plan.rows, LastItems(single)) = Tuples(SingleRows(single), LastItems(single))

(* Whatever join order is chosen, whichever filters and flattens are       *)
(* pushed where: every plan that is enumerated for a query computes what   *)
(* the query means, every operator finds its inputs in scope with at most  *)
(* one group of them unflat, and there is a plan (JoinOrderEnumerator,     *)
(* ASPOptimizer, ProjectionEnumerator, Enumerator::planOptionalMatch).     *)
PlansAreRight ==
    /\ (planAt.single <= Len(planStatement.singles) /\ planAt.part > Len(Single.parts)) =>
            planPlans # {} /\ \A plan \in planPlans : IsRight(plan, Single)
    /\ planResult # <<>> =>
           LET items == LastItems(planStatement.singles[1])
               rows(c) == {[i \in 1 .. Len(items) |-> r[LastItems(planStatement.singles[c])[i].out]] : r \in SingleRows(planStatement.singles[c])}
           IN  /\ planResult[1].sound
               /\ Len(planChildren) > 1 /\ ~planStatement.all =>
                      {[i \in 1 .. Len(items) |-> r[items[i].out]] : r \in planResult[1].rows}
                          = UNION {rows(c) : c \in 1 .. Len(planChildren)}
               /\ Len(planChildren) > 1 /\ planStatement.all =>
                      Cardinality(planResult[1].rows)
                          = FoldSet(LAMBDA c, acc : acc + Cardinality(SingleRows(planStatement.singles[c])), 0, 1 .. Len(planChildren))
=============================================================================
