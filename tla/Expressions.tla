----------------------------- MODULE Expressions ----------------------------
(***************************************************************************)
(* Vectorised evaluation of expressions (src/function,                     *)
(* src/expression_evaluator, src/common/vector).                           *)
(*                                                                         *)
(* A data chunk state is a record [cur, orig, size, unfiltered, buffer]:   *)
(* cur is the current index of a flat chunk and 0 for an unflat one, size  *)
(* and buffer are the selection vector, whose positions are 1, 2, ... when *)
(* it is unfiltered.  A vector is a record [vals, nulls, may, chunk]:      *)
(* nulls are the positions whose null bit is set, may says that there may  *)
(* be one, and chunk names the state that the vector points to.            *)
(*                                                                         *)
(* An expression is the sequence of its nodes [op, args, val], children    *)
(* first: a reference (val names a vector), a literal (val is the value)   *)
(* or a function of the nodes args.  Booleans are 0 and 1.  Only the       *)
(* values' order and arithmetic matter, so one arithmetic function per     *)
(* arity stands for those with the same executor.                          *)
(***************************************************************************)
EXTENDS Values, Integers, Sequences, SequencesExt, FiniteSets

CONSTANT VectorCapacity

ASSUME VectorCapacityAssumption == VectorCapacity \in Nat \ {0}

Positions == 1 .. VectorCapacity

-----------------------------------------------------------------------------
(* DataChunkState and SelectionVector.                                     *)

NewState ==
    [cur |-> 0, orig |-> 0, size |-> 0, unfiltered |-> TRUE, buffer |-> [p \in Positions |-> 1]]

getSingleValueDataChunkState == [NewState EXCEPT !.cur = 1, !.size = 1]

initOriginalAndSelectedSize(st, n) == [st EXCEPT !.orig = n, !.size = n]

isFlat(st) == st.cur # 0

isCurrIdxLast(st) == st.cur = st.size

selectedPosition(st, i) == IF st.unfiltered THEN i ELSE st.buffer[i]

getPositionOfCurrIdx(st) == selectedPosition(st, st.cur)

getNumSelectedValues(st) == IF isFlat(st) THEN 1 ELSE st.size

selectedPositions(st) == [i \in 1 .. st.size |-> selectedPosition(st, i)]

(* The positions ps are written to the start of the buffer and counted;    *)
(* which array selectedPositions points to stays.  The slot behind them    *)
(* may be overwritten too, it is not selected.                             *)
writeSelected(st, ps) ==
    [st EXCEPT !.size = Len(ps),
               !.buffer = [p \in Positions |-> IF p <= Len(ps) THEN ps[p] ELSE @[p]]]

-----------------------------------------------------------------------------
(* ValueVector and NullMask.                                               *)

ValueVector(c) == [vals |-> [p \in Positions |-> 0], nulls |-> {}, may |-> FALSE, chunk |-> c]

isNullAt(v, p) == p \in v.nulls

hasNoNullsGuarantee(v) == ~v.may

setAllNull(v) == [v EXCEPT !.nulls = Positions, !.may = TRUE]

setNull(v, p, null) ==
    [v EXCEPT !.nulls = IF null THEN @ \cup {p} ELSE @ \ {p}, !.may = @ \/ null]

readAt(v, p) == IF isNullAt(v, p) THEN NULL ELSE v.vals[p]

(* setNull at each of the positions ps, and the value of f where it is not *)
(* null.                                                                   *)
putNullable(v, ps, null, f) ==
    [v EXCEPT !.nulls = (@ \ ps) \cup null,
              !.may = @ \/ null # {},
              !.vals = [p \in Positions |-> IF p \in ps \ null THEN f[p] ELSE @[p]]]

(* The values of f, NULL where it is.                                      *)
putColumn(v, ps, f) == putNullable(v, ps, {p \in ps : f[p] = NULL}, f)

(* The values only: the null bits of ps stay as they are.                  *)
putValues(v, ps, f) == [v EXCEPT !.vals = [p \in Positions |-> IF p \in ps THEN f[p] ELSE @[p]]]

(* NodeIDVector::discardNull on the chunk state of the vector.             *)
discardNull(v, st) ==
    IF isFlat(st) THEN [ok |-> ~isNullAt(v, getPositionOfCurrIdx(st)), st |-> st]
    ELSE IF hasNoNullsGuarantee(v) THEN [ok |-> TRUE, st |-> st]
    ELSE LET kept == SelectSeq(selectedPositions(st), LAMBDA p : ~isNullAt(v, p))
         IN  [ok |-> kept # <<>>, st |-> [writeSelected(st, kept) EXCEPT !.unfiltered = FALSE]]

-----------------------------------------------------------------------------
Truth(b) == IF b THEN 1 ELSE 0

compare(op, x, y) ==
    CASE op = "=" -> Truth(x = y)
      [] op = "<>" -> Truth(x # y)
      [] op = ">" -> Truth(x > y)
      [] op = ">=" -> Truth(x >= y)
      [] op = "<" -> Truth(x < y)
      [] op = "<=" -> Truth(x <= y)

Comparisons == {"=", "<>", ">", ">=", "<", "<="}

(* Functions of one, two and three operands that NULLs make NULL.  f stands *)
(* for any function of three operands.                                      *)
apply1(op, x) == -x

apply2(op, x, y) == IF op = "+" THEN x + y ELSE compare(op, x, y)

apply3(op, x, y, z) == 100 * x + 10 * y + z

-----------------------------------------------------------------------------
(* The executors.  An operand is a vector with the state it points to.     *)

posOf(a) == getPositionOfCurrIdx(a.st)

flatNull(a) == isNullAt(a.vec, posOf(a))

flatValue(a) == a.vec.vals[posOf(a)]

positionsOf(a) == Range(selectedPositions(a.st))

noNulls(a) == hasNoNullsGuarantee(a.vec)

nullIn(a, p) == isNullAt(a.vec, p)

at(a, p) == a.vec.vals[p]

stateOf(res, a) == [res EXCEPT !.chunk = a.vec.chunk]

(* What all executors with an unflat operand do: everything is null when a *)
(* flat operand is, only values are written when no unflat operand can     *)
(* hold a null, and each selected position is set otherwise.               *)
unflatResult(res, anyFlatNull, guaranteed, ps, null, f) ==
    IF anyFlatNull THEN setAllNull(res)
    ELSE IF guaranteed THEN putValues(res, ps, f)
    ELSE putNullable(res, ps, null, f)

nullsOf(a, ps) == {p \in ps : nullIn(a, p)}

executeUnary(op, a, res) ==
    LET ps == IF isFlat(a.st) THEN {posOf(a)} ELSE positionsOf(a)
    IN  unflatResult(stateOf(res, a), FALSE, ~isFlat(a.st) /\ noNulls(a), ps,
                     nullsOf(a, ps), [p \in ps |-> apply1(op, at(a, p))])

executeBothFlat(op, a, b, res) ==
    putNullable(stateOf(res, a), {posOf(a)}, IF flatNull(a) \/ flatNull(b) THEN {posOf(a)} ELSE {},
                [p \in {posOf(a)} |-> apply2(op, flatValue(a), flatValue(b))])

executeFlatUnFlat(op, a, b, res) ==
    LET ps == positionsOf(b)
    IN  unflatResult(stateOf(res, b), flatNull(a), noNulls(b), ps,
                     nullsOf(b, ps), [p \in ps |-> apply2(op, flatValue(a), at(b, p))])

executeUnFlatFlat(op, a, b, res) ==
    LET ps == positionsOf(a)
    IN  unflatResult(stateOf(res, a), flatNull(b), noNulls(a), ps,
                     nullsOf(a, ps), [p \in ps |-> apply2(op, at(a, p), flatValue(b))])

executeBothUnFlat(op, a, b, res) ==
    LET ps == positionsOf(a)
    IN  unflatResult(stateOf(res, a), FALSE, noNulls(a) /\ noNulls(b), ps,
                     nullsOf(a, ps) \cup nullsOf(b, ps), [p \in ps |-> apply2(op, at(a, p), at(b, p))])

executeBinary(op, a, b, res) ==
    CASE isFlat(a.st) /\ isFlat(b.st) -> executeBothFlat(op, a, b, res)
      [] isFlat(a.st) /\ ~isFlat(b.st) -> executeFlatUnFlat(op, a, b, res)
      [] ~isFlat(a.st) /\ isFlat(b.st) -> executeUnFlatFlat(op, a, b, res)
      [] OTHER -> executeBothUnFlat(op, a, b, res)

executeAllFlat(op, a, b, c, res) ==
    putNullable(stateOf(res, a), {posOf(a)},
                IF flatNull(a) \/ flatNull(b) \/ flatNull(c) THEN {posOf(a)} ELSE {},
                [p \in {posOf(a)} |-> apply3(op, flatValue(a), flatValue(b), flatValue(c))])

executeFlatFlatUnflat(op, a, b, c, res) ==
    LET ps == positionsOf(c)
    IN  unflatResult(stateOf(res, c), flatNull(a) \/ flatNull(b), noNulls(c), ps,
                     nullsOf(c, ps), [p \in ps |-> apply3(op, flatValue(a), flatValue(b), at(c, p))])

executeFlatUnflatUnflat(op, a, b, c, res) ==
    LET ps == positionsOf(b)
    IN  unflatResult(stateOf(res, b), flatNull(a), noNulls(b) /\ noNulls(c), ps,
                     nullsOf(b, ps) \cup nullsOf(c, ps),
                     [p \in ps |-> apply3(op, flatValue(a), at(b, p), at(c, p))])

executeFlatUnflatFlat(op, a, b, c, res) ==
    LET ps == positionsOf(b)
    IN  unflatResult(stateOf(res, b), flatNull(a) \/ flatNull(c), noNulls(b), ps,
                     nullsOf(b, ps), [p \in ps |-> apply3(op, flatValue(a), at(b, p), flatValue(c))])

executeAllUnFlat(op, a, b, c, res) ==
    LET ps == positionsOf(a)
    IN  unflatResult(stateOf(res, a), FALSE, noNulls(a) /\ noNulls(b) /\ noNulls(c), ps,
                     nullsOf(a, ps) \cup nullsOf(b, ps) \cup nullsOf(c, ps),
                     [p \in ps |-> apply3(op, at(a, p), at(b, p), at(c, p))])

executeUnflatFlatFlat(op, a, b, c, res) ==
    LET ps == positionsOf(a)
    IN  unflatResult(stateOf(res, a), flatNull(b) \/ flatNull(c), noNulls(a), ps,
                     nullsOf(a, ps), [p \in ps |-> apply3(op, at(a, p), flatValue(b), flatValue(c))])

(* With nulls and a filter the positions come from the state of b, the     *)
(* flat operand.                                                           *)
executeUnflatFlatUnflat(op, a, b, c, res) ==
    LET guaranteed == noNulls(a) /\ noNulls(c)
        ps == IF guaranteed \/ a.st.unfiltered THEN positionsOf(a)
              ELSE {selectedPosition(b.st, i) : i \in 1 .. a.st.size}
    IN  unflatResult(stateOf(res, a), flatNull(b), guaranteed, ps,
                     nullsOf(a, ps) \cup nullsOf(c, ps),
                     [p \in ps |-> apply3(op, at(a, p), flatValue(b), at(c, p))])

executeUnflatUnFlatFlat(op, a, b, c, res) ==
    LET ps == positionsOf(a)
    IN  unflatResult(stateOf(res, a), flatNull(c), noNulls(a) /\ noNulls(b), ps,
                     nullsOf(a, ps) \cup nullsOf(b, ps),
                     [p \in ps |-> apply3(op, at(a, p), at(b, p), flatValue(c))])

executeTernary(op, a, b, c, res) ==
    LET fa == isFlat(a.st) fb == isFlat(b.st) fc == isFlat(c.st)
    IN  CASE fa /\ fb /\ fc -> executeAllFlat(op, a, b, c, res)
          [] fa /\ fb /\ ~fc -> executeFlatFlatUnflat(op, a, b, c, res)
          [] fa /\ ~fb /\ ~fc -> executeFlatUnflatUnflat(op, a, b, c, res)
          [] fa /\ ~fb /\ fc -> executeFlatUnflatFlat(op, a, b, c, res)
          [] ~fa /\ ~fb /\ ~fc -> executeAllUnFlat(op, a, b, c, res)
          [] ~fa /\ ~fb /\ fc -> executeUnflatUnFlatFlat(op, a, b, c, res)
          [] ~fa /\ fb /\ fc -> executeUnflatFlatFlat(op, a, b, c, res)
          [] OTHER -> executeUnflatFlatUnflat(op, a, b, c, res)

-----------------------------------------------------------------------------
(* The functions on values.                                                *)

NULL_BOOL == 2

And(x, y, xNull, yNull) ==
    IF (x = 0 /\ ~xNull) \/ (y = 0 /\ ~yNull) THEN 0 ELSE IF xNull \/ yNull THEN NULL_BOOL ELSE 1

Or(x, y, xNull, yNull) ==
    IF (x # 0 /\ ~xNull) \/ (y # 0 /\ ~yNull) THEN 1 ELSE IF xNull \/ yNull THEN NULL_BOOL ELSE 0

Xor(x, y, xNull, yNull) == IF xNull \/ yNull THEN NULL_BOOL ELSE Truth((x # 0) # (y # 0))

Not(x, null) == IF null THEN NULL_BOOL ELSE Truth(x = 0)

boolean(op, x, y, xNull, yNull) ==
    CASE op = "AND" -> And(x, y, xNull, yNull)
      [] op = "OR" -> Or(x, y, xNull, yNull)
      [] op = "XOR" -> Xor(x, y, xNull, yNull)

Booleans == {"AND", "OR", "XOR"}

nullCheck(op, null) == Truth(null = (op = "IS NULL"))

NullChecks == {"IS NULL", "IS NOT NULL"}

(* NULL_BOOL is the value of a null.                                       *)
putBoolean(v, ps, f) ==
    LET null == {p \in ps : f[p] = NULL_BOOL}
    IN  [putValues(v, ps, f) EXCEPT !.nulls = (@ \ ps) \cup null, !.may = @ \/ null # {}]

(* The result of op for the operands at a position of the unflat ones.     *)
booleanAt(op, a, b, p) ==
    LET pa == IF isFlat(a.st) THEN posOf(a) ELSE p
        pb == IF isFlat(b.st) THEN posOf(b) ELSE p
    IN  boolean(op, at(a, pa), at(b, pb), nullIn(a, pa), nullIn(b, pb))

executeBoolean(op, a, b, res) ==
    LET to == IF isFlat(a.st) /\ ~isFlat(b.st) THEN b ELSE a
        ps == IF isFlat(to.st) THEN {posOf(to)} ELSE positionsOf(to)
    IN  putBoolean(stateOf(res, to), ps, [p \in ps |-> booleanAt(op, a, b, p)])

executeNot(a, res) ==
    LET ps == IF isFlat(a.st) THEN {posOf(a)} ELSE positionsOf(a)
    IN  putBoolean(stateOf(res, a), ps, [p \in ps |-> Not(at(a, p), nullIn(a, p))])

(* The result's null bits are never written.                               *)
executeNullCheck(op, a, res) ==
    LET ps == IF isFlat(a.st) THEN {posOf(a)} ELSE positionsOf(a)
    IN  putValues(stateOf(res, a), ps, [p \in ps |-> nullCheck(op, nullIn(a, p))])

-----------------------------------------------------------------------------
(* select: whether something passes, and the selection vector left.        *)

onlyIf(b, st) == [ok |-> b, st |-> st]

keepSelected(st, from, passing) ==
    LET kept == SelectSeq(selectedPositions(from), LAMBDA p : p \in passing)
    IN  [ok |-> kept # <<>>, st |-> writeSelected(st, kept)]

selectBothFlat(op, a, b, st) ==
    onlyIf(~flatNull(a) /\ ~flatNull(b) /\ compare(op, flatValue(a), flatValue(b)) = 1, st)

selectFlatUnFlat(op, a, b, st) ==
    IF flatNull(a) THEN onlyIf(FALSE, st)
    ELSE keepSelected(st, b.st, {p \in positionsOf(b) : /\ ~(~noNulls(b) /\ nullIn(b, p))
                                                      /\ compare(op, flatValue(a), at(b, p)) = 1})

selectUnFlatFlat(op, a, b, st) ==
    IF flatNull(b) THEN onlyIf(FALSE, st)
    ELSE keepSelected(st, a.st, {p \in positionsOf(a) : /\ ~(~noNulls(a) /\ nullIn(a, p))
                                                      /\ compare(op, at(a, p), flatValue(b)) = 1})

selectBothUnFlat(op, a, b, st) ==
    keepSelected(st, a.st, {p \in positionsOf(a) :
                               /\ (noNulls(a) /\ noNulls(b)) \/ ~(nullIn(a, p) \/ nullIn(b, p))
                               /\ compare(op, at(a, p), at(b, p)) = 1})

selectComparison(op, a, b, st) ==
    CASE isFlat(a.st) /\ isFlat(b.st) -> selectBothFlat(op, a, b, st)
      [] isFlat(a.st) /\ ~isFlat(b.st) -> selectFlatUnFlat(op, a, b, st)
      [] ~isFlat(a.st) /\ isFlat(b.st) -> selectUnFlatFlat(op, a, b, st)
      [] OTHER -> selectBothUnFlat(op, a, b, st)

selectBoolean(op, a, b, st) ==
    IF isFlat(a.st) /\ isFlat(b.st) THEN onlyIf(booleanAt(op, a, b, 1) = 1, st)
    ELSE LET from == IF isFlat(a.st) THEN b ELSE a
         IN  keepSelected(st, from.st, {p \in positionsOf(from) : booleanAt(op, a, b, p) = 1})

selectNot(a, st) ==
    LET passes(p) == Not(at(a, p), nullIn(a, p)) = 1
    IN  IF isFlat(a.st) THEN onlyIf(passes(posOf(a)), st) ELSE keepSelected(st, a.st, {p \in positionsOf(a) : passes(p)})

selectNullCheck(op, a, st) ==
    LET passes(p) == nullCheck(op, nullIn(a, p)) = 1
    IN  IF isFlat(a.st) THEN onlyIf(passes(posOf(a)), st) ELSE keepSelected(st, a.st, {p \in positionsOf(a) : passes(p)})

isTrue(v, p) == ~isNullAt(v, p) /\ v.vals[p] # 0

selectReference(a, st) ==
    IF isFlat(a.st) THEN onlyIf(isTrue(a.vec, posOf(a)), st)
    ELSE keepSelected(st, a.st, {p \in positionsOf(a) : isTrue(a.vec, p)})

selectLiteral(v, st) == onlyIf(isTrue(v, 1), st)

-----------------------------------------------------------------------------
(* The evaluators.  rs is the result set [state, vec], res the sequence of *)
(* the nodes' result vectors, which live as long as the operator.          *)

LiteralVector(x) ==
    IF x = NULL THEN setNull(ValueVector("one"), 1, TRUE)
    ELSE [ValueVector("one") EXCEPT !.vals[1] = x]

initEvaluator(nodes) ==
    [i \in 1 .. Len(nodes) |-> IF nodes[i].op = "lit" THEN LiteralVector(nodes[i].val) ELSE ValueVector("one")]

operandOf(rs, nodes, res, i) ==
    LET v == IF nodes[i].op = "ref" THEN rs.vec[nodes[i].val] ELSE res[i]
    IN  [vec |-> v, st |-> rs.state[v.chunk]]

execFunc(rs, nodes, res, i) ==
    LET op == nodes[i].op
        arg(k) == operandOf(rs, nodes, res, nodes[i].args[k])
    IN  CASE op \in Booleans -> executeBoolean(op, arg(1), arg(2), res[i])
          [] op = "NOT" -> executeNot(arg(1), res[i])
          [] op \in NullChecks -> executeNullCheck(op, arg(1), res[i])
          [] op = "-" -> executeUnary(op, arg(1), res[i])
          [] op \in Comparisons \cup {"+"} -> executeBinary(op, arg(1), arg(2), res[i])
          [] op = "f" -> executeTernary(op, arg(1), arg(2), arg(3), res[i])
          [] OTHER -> res[i]

evaluateNodes(rs, nodes, res, n) ==
    FoldLeft(LAMBDA r, i : [r EXCEPT ![i] = execFunc(rs, nodes, r, i)], res, [i \in 1 .. n |-> i])

evaluate(rs, nodes, res) == evaluateNodes(rs, nodes, res, Len(nodes))

(* FunctionExpressionEvaluator::select of the root, whose children have    *)
(* been evaluated into r.                                                  *)
selectRoot(rs, nodes, r, n, st) ==
    LET op == nodes[n].op
        arg(k) == operandOf(rs, nodes, r, nodes[n].args[k])
    IN  CASE op = "ref" -> selectReference(operandOf(rs, nodes, r, n), st)
          [] op = "lit" -> selectLiteral(r[n], st)
          [] op \in Booleans -> selectBoolean(op, arg(1), arg(2), st)
          [] op = "NOT" -> selectNot(arg(1), st)
          [] op \in NullChecks -> selectNullCheck(op, arg(1), st)
          [] OTHER -> selectComparison(op, arg(1), arg(2), st)

selectAfter(rs, nodes, r, chunk) == [sel |-> selectRoot(rs, nodes, r, Len(nodes), rs.state[chunk]), res |-> r]

(* ExpressionEvaluator::select, on the selection vector of chunk.          *)
select(rs, nodes, res, chunk) == selectAfter(rs, nodes, evaluateNodes(rs, nodes, res, Len(nodes) - 1), chunk)

-----------------------------------------------------------------------------
(* The reference: the value of an expression in one row, a function from   *)
(* vector names to values, with SQL's three-valued logic.                  *)

ThreeValued(op, x, y) ==
    CASE op = "AND" -> IF x = 0 \/ y = 0 THEN 0 ELSE IF NULL \in {x, y} THEN NULL ELSE 1
      [] op = "OR" -> IF x = 1 \/ y = 1 THEN 1 ELSE IF NULL \in {x, y} THEN NULL ELSE 0
      [] op = "XOR" -> IF NULL \in {x, y} THEN NULL ELSE (x + y) % 2

NodeValue(row, node, values) ==
    LET arg(k) == values[node.args[k]]
        null == \E k \in 1 .. Len(node.args) : arg(k) = NULL
    IN  CASE node.op = "ref" -> row[node.val]
          [] node.op = "lit" -> node.val
          [] node.op \in Booleans -> ThreeValued(node.op, arg(1), arg(2))
          [] node.op = "IS NULL" -> Truth(null)
          [] node.op = "IS NOT NULL" -> Truth(~null)
          [] null -> NULL
          [] node.op = "NOT" -> 1 - arg(1)
          [] node.op = "-" -> -arg(1)
          [] node.op = "+" -> arg(1) + arg(2)
          [] node.op = "f" -> 100 * arg(1) + 10 * arg(2) + arg(3)
          [] OTHER -> compare(node.op, arg(1), arg(2))

ValueInRow(row, nodes) ==
    FoldLeft(LAMBDA vs, node : Append(vs, NodeValue(row, node, vs)), <<>>, nodes)[Len(nodes)]
=============================================================================
