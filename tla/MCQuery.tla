------------------------------ MODULE MCQuery -------------------------------
(***************************************************************************)
(* Instances of the statements and operators that run above the storage    *)
(* structures.  They do not share state, so each behaviour runs one of     *)
(* them, the subject, on one of its inputs, and leaves the others alone.   *)
(***************************************************************************)
EXTENDS Catalog, Aggregation, HashJoin, CSVCopier, OrderBy, Pipeline, Planner, DateTime

CONSTANT Subjects

VARIABLE subject

-----------------------------------------------------------------------------
(* Aggregation: three batches of two chunks that may be flat and a third   *)
(* that holds only values, with NULL keys, NULL values and a multiplicity. *)

Batch(xk, xv, xs, yk, yv, ys, zv, zs, m) ==
    [x |-> [key |-> xk, val |-> xv, sel |-> <<xs>>], y |-> [key |-> yk, val |-> yv, sel |-> ys],
     z |-> [key |-> <<>>, val |-> zv, sel |-> zs], mult |-> m]
QueryBatches ==
    <<Batch(<<1, 1>>, <<2, NULL>>, 1, <<1, 2, NULL>>, <<NULL, 3, 1>>, <<2, 3>>, <<1, 2>>, <<1, 2>>, 1),
      Batch(<<2, NULL>>, <<5, 4>>, 2, <<1, 3, 1>>, <<2, 6, NULL>>, <<1, 2, 3>>, <<5>>, <<1>>, 2),
      Batch(<<1, 2>>, <<NULL, 2>>, 1, <<NULL, 4, 2>>, <<7, NULL, 4>>, <<1, 2>>, <<3, 1>>, <<2>>, 1)>>
KeyHash == 1 :> 0 @@ 2 :> 1 @@ 3 :> 4 @@ 4 :> 0 @@ NULL :> 1
Agg(f, c, d) == [fn |-> f, input |-> c, distinct |-> d]
CountStar == Agg("COUNT_STAR", "none", FALSE)
Fns == {"COUNT", "SUM", "AVG", "MIN", "MAX"}
GroupQueries ==
         {[keys |-> k, aggs |-> <<Agg(f, c, FALSE)>>] : k \in {{}, {"y"}}, f \in Fns, c \in ChunkNames}
    \cup {[keys |-> {"x", "y"}, aggs |-> <<CountStar, Agg(f, c, FALSE)>>] : f \in Fns, c \in {"x", "y"}}
    \cup {[keys |-> {"x"}, aggs |-> <<CountStar, Agg(f, "x", FALSE)>>] : f \in Fns}
    \cup {[keys |-> {"x"}, aggs |-> <<Agg(f, "z", FALSE)>>] : f \in Fns}
    \cup {[keys |-> {"x"}, aggs |-> <<Agg(f, "x", TRUE), Agg("COUNT", "x", FALSE)>>] : f \in Fns}

\* Flat keys with an unflat aggregate that has NULLs, which the code adds to another group.
QueriesOfNulls == {[keys |-> {"x"}, aggs |-> <<Agg("SUM", "y", FALSE)>>]}

-----------------------------------------------------------------------------
(* Hash join: keys that are unique and found by vectors of probe keys, and *)
(* keys with many tuples and an unflat list found by single probe keys.    *)

BuildInput(k, p, s, l, ls, m) ==
    [key |-> k, pay |-> p, sel |-> s, list |-> l, listSel |-> ls, mult |-> m]
ProbeInput(k, s, m) == [key |-> k, sel |-> s, mult |-> m]
JoinPlan(t, l, f) == [type |-> t, hasList |-> l, probeFlat |-> f]
Joins == {JoinPlan("INNER", FALSE, FALSE), JoinPlan("INNER", TRUE, TRUE), JoinPlan("LEFT", TRUE, TRUE)}
BuildOf ==
    [j \in Joins |->
        IF j.probeFlat
        THEN <<BuildInput(<<1, 2>>, <<7, 8>>, <<1>>, <<5, NULL, 6>>, <<2, 3>>, 1),
               BuildInput(<<1, NULL, 3>>, <<7, 2, NULL>>, <<1, 2, 3>>, <<4>>, <<1>>, 2)>>
        ELSE <<BuildInput(<<1, 2, 3>>, <<7, NULL, 8>>, <<1, 2, 3>>, <<0>>, <<1>>, 1),
               BuildInput(<<4, 5, 6>>, <<9, 6, 5>>, <<1, 3>>, <<0>>, <<1>>, 1)>>]
ProbeOf ==
    [j \in Joins |->
        IF j.probeFlat
        THEN <<ProbeInput(<<9, 1>>, <<2>>, 1), ProbeInput(<<3, 3>>, <<1>>, 2), ProbeInput(<<NULL, 2>>, <<1>>, 1)>>
        ELSE <<ProbeInput(<<1, 3, 9, 6>>, <<1, 3, 4>>, 1), ProbeInput(<<2, NULL, 7>>, <<1, 2, 3>>, 2)>>]
HashOf == [k \in 1 .. 9 |-> k % 4]

-----------------------------------------------------------------------------
(* COPY: files of three blocks with a header, comments, lines that cross   *)
(* the end of a block, long strings, lists, lists that fill their page,    *)
(* and a key that occurs twice.                                            *)

Str(id, len) == [id |-> id, len |-> len]
NodeLine(len, kind, key, val, unstr) ==
    [len |-> len, kind |-> kind, key |-> key, val |-> val, unstr |-> unstr]
RelLine(len, src, dst, val) == [len |-> len, kind |-> "row", fwd |-> src, bwd |-> dst, val |-> val]
Unstr(name, value) == [name |-> name, long |-> FALSE, str |-> value]
LongUnstr(name, len) == [name |-> name, long |-> TRUE, str |-> Str(10 + len, len)]
CSVFile(table, header, list, lines) ==
    [table |-> table, lines |-> lines, endsWithNewLine |-> TRUE, hasHeader |-> header, list |-> list]
Files ==
    {CSVFile("node", TRUE, FALSE,
        <<NodeLine(3, "row", 0, NULL, <<>>), NodeLine(2, "comment", 0, NULL, <<>>),
          NodeLine(4, "row", 1, <<Str(1, 5)>>, <<LongUnstr(1, 5)>>),
          NodeLine(5, "row", 2, NULL, <<LongUnstr(1, 4)>>),
          NodeLine(7, "row", 3, <<Str(3, 4)>>, <<LongUnstr(2, 3), Unstr(1, 8), Unstr(3, 9)>>)>>),
     CSVFile("node", FALSE, TRUE,
        <<NodeLine(6, "row", 1, <<<<Str(1, 1), Str(2, 3)>>>>, <<>>), NodeLine(5, "row", 2, NULL, <<>>),
          NodeLine(8, "row", 3, <<<<Str(3, 2)>>>>, <<Unstr(1, 7)>>)>>),
     CSVFile("node", FALSE, FALSE,
        <<NodeLine(9, "row", 1, NULL, <<>>), NodeLine(9, "row", 2, NULL, <<>>), NodeLine(9, "row", 1, NULL, <<>>)>>),
     CSVFile("MANY_MANY", FALSE, FALSE,
        <<RelLine(4, 0, 1, <<Str(1, 4)>>), RelLine(5, 0, 2, NULL), RelLine(6, 1, 2, <<Str(2, 3)>>),
          RelLine(7, 0, 1, <<Str(3, 1)>>)>>),
     CSVFile("MANY_ONE", TRUE, TRUE,
        <<RelLine(4, 0, 0, NULL), RelLine(5, 0, 1, <<<<Str(1, 2), Str(2, 1)>>>>),
          RelLine(5, 1, 1, <<<<Str(3, 3)>>>>), RelLine(6, 2, 0, NULL)>>),
     CSVFile("ONE_MANY", FALSE, FALSE,
        <<RelLine(9, 0, 1, <<Str(1, 4)>>), RelLine(9, 0, 2, <<Str(2, 5)>>), RelLine(3, 2, 0, <<Str(3, 1)>>)>>),
     CSVFile("ONE_ONE", FALSE, FALSE, <<RelLine(9, 0, 1, <<Str(1, 1)>>), RelLine(9, 1, 0, NULL)>>)}
\* A list of four bytes, behind five others in its chunk.
FilesWithCutLists ==
    {CSVFile("node", FALSE, FALSE,
        <<NodeLine(9, "row", 1, NULL, <<Unstr(1, 7)>>), NodeLine(9, "row", 2, NULL, <<LongUnstr(1, 4)>>),
          NodeLine(9, "row", 3, NULL, <<Unstr(1, 8), Unstr(3, 9)>>)>>)}
PP == [adj |-> 2, prop |-> 3, unstr |-> 5]
NN == [fwd |-> 3, bwd |-> 3]

-----------------------------------------------------------------------------
(* ORDER BY: one and two columns, NULLs, negative numbers, strings that    *)
(* share their encoded prefix, and values that are compared one by one.    *)

Col(t, a) == [type |-> t, asc |-> a]
SortBatch(r, s, f, m) == [rows |-> r, sel |-> s, flat |-> f, mult |-> m]
SortQuery(c, u, b) == [cols |-> c, unflat |-> u, batches |-> b]
Sorts ==
    {SortQuery(<<Col("INT64", TRUE)>>, FALSE,
        <<SortBatch(<<<<3>>, <<-2>>, <<NULL>>, <<7>>>>, <<1, 2, 3, 4>>, FALSE, 1),
          SortBatch(<<<<0>>, <<5>>, <<-7>>, <<3>>>>, <<1, 3>>, FALSE, 2),
          SortBatch(<<<<7>>, <<-8>>>>, <<2>>, TRUE, 2)>>),
     SortQuery(<<Col("DOUBLE", FALSE), Col("INT64", TRUE)>>, TRUE,
        <<SortBatch(<<<<3, 1>>>>, <<1>>, TRUE, 2),
          SortBatch(<<<<-2, NULL>>, <<NULL, 4>>>>, <<1, 2>>, FALSE, 2),
          SortBatch(<<<<3, 0>>, <<5, 0>>, <<-7, 2>>, <<-6, 3>>>>, <<1, 2, 3, 4>>, FALSE, 1)>>),
     SortQuery(<<Col("INT64", TRUE), Col("STRING", TRUE)>>, FALSE,
        <<SortBatch(<<<<1, <<1>>>>, <<1, <<1, 2>>>>, <<-1, <<2>>>>, <<2, <<>>>>>>, <<1, 2, 3, 4>>, FALSE, 1),
          SortBatch(<<<<1, <<1, 2, 1>>>>, <<-1, <<>>>>, <<-1, NULL>>, <<1, <<1, 1>>>>>>, <<1, 2, 3, 4>>, FALSE, 1),
          SortBatch(<<<<1, <<1, 2>>>>>>, <<1>>, TRUE, 2)>>),
     SortQuery(<<Col("STRING", FALSE)>>, FALSE,
        <<SortBatch(<<<<<<1>>>>, <<<<1, 2>>>>, <<NULL>>, <<<<1, 2, 1>>>>>>, <<1, 2, 3, 4>>, FALSE, 1),
          SortBatch(<<<<NULL>>, <<<<2>>>>, <<<<1>>>>, <<<<1, 1>>>>>>, <<1, 2, 3, 4>>, FALSE, 1)>>),
     SortQuery(<<Col("UNSTRUCTURED", TRUE)>>, FALSE,
        <<SortBatch(<<<<1>>, <<4>>, <<-1>>, <<NULL>>>>, <<1, 2, 3, 4>>, FALSE, 1),
          SortBatch(<<<<3>>, <<4>>>>, <<1, 2>>, FALSE, 2), SortBatch(<<<<2>>>>, <<1>>, TRUE, 2)>>)}
\* What the code does not sort.  Equal strings before a number, in two threads.
SortsAfterStrings ==
    {SortQuery(<<Col("STRING", TRUE), Col("INT64", TRUE)>>, FALSE,
        <<SortBatch(<<<<<<1>>, 2>>>>, <<1>>, FALSE, 1), SortBatch(<<<<<<1>>, 1>>>>, <<1>>, FALSE, 1)>>)}
\* A tie whose rows change places, before another row of the block.
SortsBesideTies ==
    {SortQuery(<<Col("STRING", TRUE), Col("INT64", TRUE)>>, FALSE,
        <<SortBatch(<<<<<<1>>, 2>>, <<<<1>>, 1>>, <<<<2>>, 5>>>>, <<1, 2, 3>>, FALSE, 1),
          SortBatch(<<<<<<1, 1>>, 0>>>>, <<1>>, FALSE, 1)>>)}
\* Equal long strings in a descending column.
SortsOfEqualStrings ==
    {SortQuery(<<Col("STRING", FALSE)>>, FALSE, <<SortBatch(<<<<<<1, 2>>>>, <<<<1, 2>>>>>>, <<1, 2>>, FALSE, 1)>>)}
\* NULL strings behind different numbers, in two threads.
SortsOfNulls ==
    {SortQuery(<<Col("INT64", TRUE), Col("STRING", TRUE)>>, FALSE,
        <<SortBatch(<<<<2, NULL>>>>, <<1>>, FALSE, 1), SortBatch(<<<<1, NULL>>>>, <<1>>, FALSE, 1)>>)}
\* Two blocks full of tuples, one before the other.
SortsOfFullBlocks ==
    {SortQuery(<<Col("INT64", TRUE)>>, FALSE,
        <<SortBatch(<<<<4>>, <<5>>, <<6>>>>, <<1, 2, 3>>, FALSE, 1), SortBatch(<<<<1>>, <<2>>, <<3>>>>, <<1, 2, 3>>, FALSE, 1)>>)}

-----------------------------------------------------------------------------
(* Pipelines over a graph of five nodes with two kinds of lists, a column  *)
(* and a property of relationships.                                        *)

Op(k, c) == [kind |-> k, chunk |-> c]
In(k, c, in, out, from) == Op(k, c) @@ [in |-> in, out |-> out, column |-> from, list |-> from]
Var(k, c, in, out, from, low, up) == In(k, c, in, out, from) @@ [lower |-> low, upper |-> up]
Scan == Op("scan", "A") @@ [out |-> "a"]
FilterOn(c, e) == Op("filter", c) @@ [expr |-> e]
Project(es, d) == Op("project", "none") @@ [exprs |-> es, discarded |-> d]
SkipRows(n, c, s) == Op("skip", c) @@ [number |-> n, scope |-> s]
LimitRows(n, c, s) == Op("limit", c) @@ [number |-> n, scope |-> s]
Pipe(ops, names, u) == [ops |-> ops, collect |-> names, unflat |-> u]
PlanOf(ps, n, s, l) == [pipelines |-> ps, threads |-> n, skip |-> s, limit |-> l]
Ref(v) == [op |-> "ref", args |-> <<>>, val |-> v]
Lit(x) == [op |-> "lit", args |-> <<>>, val |-> x]
Fn(f, as) == [op |-> f, args |-> as, val |-> 0]
As(out, nodes) == [out |-> out, nodes |-> nodes]

Columns == "p" :> (0 :> 3 @@ 1 :> NULL @@ 2 :> 1 @@ 3 :> NULL @@ 4 :> 2)
        @@ "m" :> (0 :> 1 @@ 1 :> 4 @@ 2 :> 4 @@ 3 :> NULL @@ 4 :> NULL)
Edges == "knows" :> (0 :> <<1, 2, 4>> @@ 1 :> <<>> @@ 2 :> <<0>> @@ 3 :> <<4, 0>> @@ 4 :> <<>>)
      @@ "likes" :> (0 :> <<2, 3>> @@ 1 :> <<0, 1>> @@ 2 :> <<4, 4, 1>> @@ 3 :> <<2>> @@ 4 :> <<0>>)
EdgeValues == "w" :> (0 :> <<0, NULL, 1>> @@ 1 :> <<>> @@ 2 :> <<0>> @@ 3 :> <<NULL, 1>> @@ 4 :> <<>>)

TwoLists ==
    PlanOf(<<Pipe(<<Scan, In("property", "A", "a", "a.p", "p"), Op("flatten", "A"),
                    In("extend", "B", "a", "b", "knows"), In("relproperty", "B", "a", "e.w", "w"),
                    In("extend", "C", "a", "c", "likes"), In("property", "C", "c", "c.p", "p"), Op("flatten", "B"),
                    FilterOn("C", <<Ref("c.p"), Ref("e.w"), Fn(">=", <<1, 2>>)>>),
                    Project(<<As("s", <<Ref("c.p"), Ref("e.w"), Fn("+", <<1, 2>>)>>),
                              As("t", <<Ref("e.w"), Ref("c.p"), Lit(1), Fn("f", <<1, 2, 3>>)>>)>>, {})>>,
                  <<"a", "b", "s", "t">>, TRUE)>>, 1, 0, 100)
ColumnAndNulls ==
    PlanOf(<<Pipe(<<Scan, In("column", "A", "a", "m", "m"), In("property", "A", "m", "m.p", "p"),
                    In("property", "A", "a", "a.p", "p"),
                    FilterOn("A", <<Ref("a.p"), Lit(1), Fn(">", <<1, 2>>), Ref("m.p"), Fn("IS NOT NULL", <<4>>),
                                    Fn("XOR", <<3, 5>>), Ref("m.p"), Lit(2), Fn("=", <<7, 8>>), Fn("OR", <<6, 9>>)>>),
                    FilterOn("A", <<Ref("a.p"), Lit(7), Fn("=", <<1, 2>>), Fn("NOT", <<3>>)>>),
                    Project(<<As("s", <<Ref("m.p"), Ref("a.p"), Fn("+", <<1, 2>>)>>)>>, {})>>,
                  <<"a", "m", "s">>, TRUE)>>, 1, 0, 100)
Walks ==
    PlanOf(<<Pipe(<<Scan, Op("flatten", "A"), Var("varlist", "B", "a", "b", "likes", 1, 2),
                    In("property", "B", "b", "b.p", "p"), FilterOn("B", <<Ref("b.p"), Lit(2), Fn("<=", <<1, 2>>)>>),
                    Project(<<>>, {"B"}), Op("reduce", "none"), SkipRows(3, "A", {"A"}), LimitRows(4, "A", {"A"})>>,
                  <<"a">>, FALSE)>>, 2, 3, 4)
ColumnWalks ==
    PlanOf(<<Pipe(<<Scan, Op("flatten", "A"), Var("varcolumn", "A", "a", "m", "m", 1, 2),
                    In("property", "A", "m", "m.p", "p"),
                    Project(<<As("s", <<Ref("a"), Ref("m.p"), Ref("m"), Fn("f", <<1, 2, 3>>), Fn("-", <<4>>)>>)>>, {})>>,
                  <<"a", "m", "s">>, FALSE)>>, 1, 0, 100)
UnionOfTwo ==
    PlanOf(<<Pipe(<<Scan, In("property", "A", "a", "a.p", "p"),
                    FilterOn("A", <<Ref("a.p"), Fn("IS NOT NULL", <<1>>)>>)>>, <<"a", "a.p">>, TRUE),
             Pipe(<<Scan, Op("flatten", "A"), In("extend", "B", "a", "b", "knows"), In("property", "B", "b", "b.p", "p")>>,
                  <<"b", "b.p">>, TRUE),
             Pipe(<<Op("union", "U") @@ [tables |-> <<1, 2>>, outs |-> <<"x", "y">>],
                    FilterOn("U", <<Ref("y"), Lit(1), Fn(">", <<1, 2>>)>>)>>, <<"x", "y">>, TRUE)>>, 2, 0, 100)
SkipLimit ==
    PlanOf(<<Pipe(<<Scan, In("property", "A", "a", "a.p", "p"),
                    Project(<<As("s", <<Ref("a"), Lit(1), Ref("a.p"), Fn("f", <<1, 2, 3>>)>>)>>, {}),
                    FilterOn("A", <<Ref("s"), Fn("IS NOT NULL", <<1>>)>>), SkipRows(1, "A", {"A"}),
                    LimitRows(1, "A", {"A"})>>, <<"a", "s">>, TRUE)>>, 2, 1, 1)
\* A function of an unflat, a flat and an unflat operand behind a filter, with NULLs.
FilteredFunction ==
    PlanOf(<<Pipe(<<Scan, In("property", "A", "a", "a.p", "p"), FilterOn("A", <<Ref("a.p"), Fn("IS NOT NULL", <<1>>)>>),
                    Project(<<As("s", <<Ref("a"), Lit(1), Ref("a.p"), Fn("f", <<1, 2, 3>>)>>)>>, {})>>,
                  <<"a", "s">>, TRUE)>>, 1, 0, 100)
FilteredFunctions == {FilteredFunction}
Pipelines == {TwoLists, ColumnAndNulls, Walks, ColumnWalks, UnionOfTwo, SkipLimit}

-----------------------------------------------------------------------------
(* Planner: statements over two relationship tables, one of them a column  *)
(* in one direction.                                                       *)

NodeValues == [x |-> <<1, 2, 1>>, y |-> <<2, 2, NULL>>]
RelRow(i, s, d, x) == [id |-> i, src |-> s, dst |-> d, x |-> x]
Rels ==
    [many |-> [fwdColumn |-> FALSE, bwdColumn |-> FALSE,
               edges |-> {RelRow(1, 1, 2, 1), RelRow(2, 1, 3, 2), RelRow(3, 2, 1, 1)}],
     one |-> [fwdColumn |-> TRUE, bwdColumn |-> FALSE, edges |-> {RelRow(4, 1, 3, 1), RelRow(5, 2, 3, 2)}]]
Tables == {"many", "one"}
R(t) == [name |-> "r", src |-> "a", dst |-> "b", table |-> t]
S(t) == [name |-> "s", src |-> "b", dst |-> "c", table |-> t]
Match(ns, rs, w) == [nodes |-> ns, rels |-> rs, where |-> w, optional |-> FALSE]
OptionalMatch(ns, rs, w) == [nodes |-> ns, rels |-> rs, where |-> w, optional |-> TRUE]
MatchAB(t, w) == Match({"a", "b"}, {R(t)}, w)
MatchBC(t, w) == Match({"b", "c"}, {S(t)}, w)
X(v) == <<v, "x">>
Y(v) == <<v, "y">>
Body(items, distinct, orderBy, count) ==
    [items |-> items, distinct |-> distinct, orderBy |-> orderBy, count |-> count, where |-> {}]
ReturnXY(v, w) == Body(<<Plain(X(v)), Plain(Y(w))>>, FALSE, {}, <<>>)
OnePart(clauses, body) ==
    [properties |-> (UNION UNION {clauses[i].where : i \in DOMAIN clauses})
                    \cup {e \in (UNION {body.items[i].in : i \in DOMAIN body.items}) \cup body.orderBy : e[2] # "id"},
     parts |-> <<[graphs |-> clauses, body |-> body]>>]
Stmt(single) == [singles |-> <<single>>, all |-> FALSE]

OneHop == {Stmt(OnePart(<<MatchAB(t, w)>>, ReturnXY("a", "b"))) :
              t \in Tables, w \in SUBSET {{X("a")}, {X("a"), X("b")}, {X("r")}, {X("a"), X("r")}}}
Bodies ==
    {ReturnXY("a", "c"), Body(<<Plain(X("b")), Plain(Y("c"))>>, TRUE, {}, <<>>),
     Body(<<[out |-> <<"sum", "">>, in |-> {X("a"), X("b"), X("c")}], Plain(Y("c"))>>, FALSE, {X("b")}, <<>>),
     Body(<<Plain(X("a")), Plain(X("b"))>>, FALSE, {X("a")}, <<ID("c")>>)}
TwoHops == {Stmt(OnePart(<<Match({"a", "b", "c"}, {R(t), S(u)}, w)>>, body)) : t \in Tables, u \in Tables,
              w \in {{}, {{X("b")}}, {{X("a"), X("c")}, {X("b")}}, {{Y("a"), X("b")}, {X("c"), X("s")}}}, body \in Bodies}
TwoMatches == {Stmt(OnePart(<<MatchAB(t, w), MatchBC(u, v)>>, ReturnXY("a", "c"))) : t \in Tables, u \in Tables,
                 w \in {{}, {{X("a")}}}, v \in {{}, {{X("c"), X("a")}}}}
OptionalMatches ==
         {Stmt(OnePart(<<MatchAB(t, w), OptionalMatch({"b", "c"}, {S(u)}, v)>>, ReturnXY("a", "c"))) :
             t \in Tables, u \in Tables, w \in {{}, {{X("a")}}},
             v \in {{}, {{X("c")}}, {{X("c"), X("b")}}}}
    \cup {Stmt(OnePart(<<Match({"a"}, {}, {}), OptionalMatch({"a", "b"}, {R("many")}, {{X("b")}}), MatchBC("many", {})>>,
                       ReturnXY("a", "c")))}
TwoParts ==
    {Stmt([properties |-> {X("a"), X("b"), X("c"), Y("c")},
           parts |-> <<[graphs |-> <<MatchAB(t, {})>>,
                        body |-> [items |-> <<Plain(X("b")), Plain(ID("b")), Plain(X("a"))>>, distinct |-> FALSE,
                                  orderBy |-> {}, count |-> <<>>, where |-> w]],
                       [graphs |-> <<MatchBC(u, {{X("c"), X("a")}})>>, body |-> ReturnXY("a", "c")]>>]) :
        t \in Tables, u \in Tables, w \in {{}, {{X("b")}}}}
Unions ==
    {[singles |-> <<OnePart(<<MatchAB(t, w)>>, ReturnXY("a", "b")),
                    OnePart(<<Match({"p", "q"}, {[name |-> "t", src |-> "p", dst |-> "q", table |-> "one"]}, {})>>,
                            ReturnXY("p", "q"))>>, all |-> all] :
        t \in Tables, w \in {{}, {{X("a")}}}, all \in BOOLEAN}
QueryStatements == OneHop \cup TwoHops \cup TwoMatches \cup OptionalMatches \cup TwoParts \cup Unions

-----------------------------------------------------------------------------
(* Dates: every day of the years around the ends of the tables and of the  *)
(* centuries, the first days of the others.                                *)

Years == -3 .. 2401
Interval(m, d, u) == [months |-> m, days |-> d, micros |-> u]
CalendarIntervals ==
    {Interval(1, 0, 0), Interval(13, 2, 0), Interval(-25, -3, -50), Interval(0, 40, 49), Interval(0, 29, 1440)}
ClockFields ==
    {[hour |-> 0, minute |-> 0, second |-> 0, micros |-> 0], [hour |-> 2, minute |-> 1, second |-> 1, micros |-> 3]}

-----------------------------------------------------------------------------
queryVars ==
    <<subject, catalogVars, aggregationVars, joinVars, copyVars, orderByVars, pipelineVars, plannerVars, calendarVars>>

\* The subject takes each of its inputs, the others keep one.
Init ==
    /\ subject \in Subjects
    /\ subject # "aggregate" => aggQuery = CHOOSE q \in AggQueries : TRUE
    /\ subject # "join" => joinPlan = CHOOSE j \in JoinPlans : TRUE
    /\ subject # "copy" => copyFile = CHOOSE f \in CopyFiles : TRUE
    /\ subject # "order by" => sortQuery = CHOOSE q \in SortQueries : TRUE
    /\ subject # "pipeline" => pPlan = CHOOSE p \in QueryPlans : TRUE
    /\ subject # "plan" => planStatement = CHOOSE s \in Statements : TRUE
    /\ CatalogInit /\ AggregationInit /\ HashJoinInit /\ CSVCopierInit
    /\ OrderByInit /\ PipelineInit /\ PlannerInit /\ CalendarInit

Next ==
    /\ \/ /\ subject = "tables" /\ CatalogNext
          /\ UNCHANGED <<aggregationVars, joinVars, copyVars, orderByVars, pipelineVars, plannerVars, calendarVars>>
       \/ /\ subject = "aggregate" /\ AggregationNext
          /\ UNCHANGED <<catalogVars, joinVars, copyVars, orderByVars, pipelineVars, plannerVars, calendarVars>>
       \/ /\ subject = "join" /\ HashJoinNext
          /\ UNCHANGED <<catalogVars, aggregationVars, copyVars, orderByVars, pipelineVars, plannerVars, calendarVars>>
       \/ /\ subject = "copy" /\ CSVCopierNext
          /\ UNCHANGED <<catalogVars, aggregationVars, joinVars, orderByVars, pipelineVars, plannerVars, calendarVars>>
       \/ /\ subject = "order by" /\ OrderByNext
          /\ UNCHANGED <<catalogVars, aggregationVars, joinVars, copyVars, pipelineVars, plannerVars, calendarVars>>
       \/ /\ subject = "pipeline" /\ PipelineNext
          /\ UNCHANGED <<catalogVars, aggregationVars, joinVars, copyVars, orderByVars, plannerVars, calendarVars>>
       \/ /\ subject = "plan" /\ PlannerNext
          /\ UNCHANGED <<catalogVars, aggregationVars, joinVars, copyVars, orderByVars, pipelineVars, calendarVars>>
       \/ /\ subject = "calendar" /\ CalendarNext
          /\ UNCHANGED <<catalogVars, aggregationVars, joinVars, copyVars, orderByVars, pipelineVars, plannerVars>>
    /\ UNCHANGED subject

Spec == Init /\ [][Next]_queryVars
=============================================================================
