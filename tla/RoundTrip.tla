----------------------------- MODULE RoundTrip -----------------------------
(***************************************************************************)
(* A SQL plan through get_substrait and back through from_substrait, built *)
(* bottom up: each action puts one logical operator on the plans built so  *)
(* far, translates it as DuckDBToSubstrait::TransformOp does and consumes  *)
(* the result as SubstraitToDuckDB::TransformOp does.  Both translations   *)
(* recurse over the children first, so that order is theirs too.           *)
(*                                                                         *)
(* A behaviour draws its plan from one menu, which bounds it and names the *)
(* kinds of operator that meet in it.  Beyond names the kinds of plan that *)
(* do not come back unchanged; none of them is built unless a              *)
(* configuration asks for it.                                              *)
(***************************************************************************)
EXTENDS SubstraitToDuckDB, BoundExpressions

CONSTANTS Menus,   \* the menus, by name
          Beyond

Beyonds == {"repeated_ref", "compared_operand", "large_limit", "wide_mark",
            "distinct_on", "aggregate_filter", "scattered_windows",
            "null_orders", "except_all", "distinct_of_three",
            "rowid_dropped", "rowid_used", "struct_filter", "other_schema",
            "other_catalog", "insert_columns", "other_delete", "nested_root",
            "nested_create", "lossy_types", "lossy_literals",
            "empty_projected", "groups_frame", "exclusive_between",
            "try_cast", "string_patterns", "wide_substring", "octet_length",
            "struct_pack", "first", "second_row"}

Producer == INSTANCE DuckDBToSubstrait

JoinTypes == {"INNER", "LEFT", "RIGHT", "SINGLE", "OUTER", "SEMI", "ANTI",
              "RIGHT_SEMI", "RIGHT_ANTI", "MARK"}

\* Constants are those of SubstraitTypes; frames are windows'.
ASSUME BoundsAssumption ==
    /\ IntBits \in Nat \ {0} /\ Beyond \subseteq Beyonds
    /\ \A name \in DOMAIN Menus :
           /\ Menus[name].steps \in Nat   \* operators in all
           /\ Menus[name].stack \in Nat   \* plans waiting for a parent
           /\ Menus[name].list \in Nat    \* entries of a list
           /\ Menus[name].depth \in Nat   \* calls within calls
           /\ Menus[name].limits \subseteq Nat   \* of LIMIT and OFFSET
           /\ Menus[name].joins \subseteq JoinTypes
           /\ Menus[name].reads \in BOOLEAN \* scans of less than a table
           /\ Menus[name].rows \in BOOLEAN  \* projections that make rows

\* A fact of arithmetic: half of all the values are not negative.
ASSUME PowersAssumption ==
    2^(IntBits - 1) \in Nat /\ 2^IntBits = 2 * 2^(IntBits - 1)

\* A table has a column, and so has a result.
ASSUME TablesAssumption ==
    \A name \in DOMAIN Menus :
        Menus[name].tables \cup Menus[name].empties
            \subseteq Seq(Producer!Types) \ {<<>>}

\* Constants are of types that the producer knows.
ASSUME ConstantsAssumption ==
    \A name \in DOMAIN Menus :
        \A c \in Menus[name].constants : c.type \in Producer!Types

VARIABLES stack,   \* plans without a parent yet, the latest last
          steps,   \* operators translated so far
          menu     \* the menu of this behaviour

vars == <<stack, steps, menu>>
Menu == Menus[menu]

NoJoin == [type |-> "none", left |-> 0, right |-> 0]

\* kind and parts tell an operator what its child is; join tells a parent
\* join, as the code looks into its left child.
Plan(kind, logical, consumed) ==
    [logical |-> logical, consumed |-> consumed, kind |-> kind,
     join |-> NoJoin, parts |-> <<>>]

Child(p) == [columns |-> Len(p.logical.cols), join |-> p.join]

Init == stack = <<>> /\ steps = 0 /\ menu \in DOMAIN Menus

\* Replaces the topmost n plans by one.
Put(n, plan) ==
    /\ stack' = Append(SubSeq(stack, 1, Len(stack) - n), plan)
    /\ steps' = steps + 1
    /\ UNCHANGED menu

Top == stack[Len(stack)]
Finished == {"root", "write"}
\* The bounds of the menu.
Ready(op, n) ==
    /\ op \in Menu.operators /\ steps < Menu.steps
    /\ Len(stack) >= n /\ (n = 0 => Len(stack) < Menu.stack)
    /\ stack # <<>> => Top.kind \notin Finished

\* Operators that count their input's columns take them from the logical
\* plan; of a scan that drops row ids, the relation has others.
Aligned(p) == \/ "rowid_dropped" \in Beyond
              \/ Len(p.consumed.cols) = Len(p.logical.cols)
\* The positions of the columns that expressions may use.
Usable(p) == {i \in 0..Len(p.logical.cols) - 1 :
                 "rowid_used" \in Beyond \/ ~Hidden(p.logical.cols[i + 1])}
AllUsable(p) == Usable(p) = 0..Len(p.logical.cols) - 1

\* Over a result without rows, a projection is taken for one over no columns.
Unary(kind, logical, nodes) ==
    /\ nodes # <<>> /\ Head(nodes).rel = "project"
           /\ Top.consumed.spine[1].type = "empty" =>
       "empty_projected" \in Beyond
    /\ Put(1, Plan(kind, logical, TransformChain(Top.consumed, nodes)))

-----------------------------------------------------------------------------
(* The lists an operator may carry; S: the input columns it may use.       *)

Constants == {c \in Menu.constants : "lossy_literals" \in Beyond
                                          \/ ~LossyConstant(c)}
ColumnRefs(S) == {Ref(i) : i \in S}
IntegersOf(S, cols) == {i \in S : TypeOf(cols[i + 1]) = IntegerType}

\* Expressions of the menu's depth, those that are lost left out.
Grows(S, cols) == Grown(Leaves(S, cols), Menu.depth)
Kept(exprs) == {e \in exprs : Losses(e) \subseteq Beyond}

\* Without depth, one function of each column and one condition on it.
Calls(S, cols) ==
    LET numbers == IntegersOf(S, cols)
    IN  {Call("abs", <<Ref(i)>>) : i \in numbers}
        \cup {Expr("is_null", <<Ref(i)>>) : i \in S \ numbers}
Exprs(S, cols) ==
    ColumnRefs(S) \cup {Constant(c) : c \in Constants}
    \cup (IF Menu.depth = 0 THEN Calls(S, cols)
          ELSE Kept(Every(Grows(S, cols))))
\* Rows are of the types that SubstraitTypes knows structs of.
Rows(S, cols) ==
    LET blobs == {j \in S : TypeOf(cols[j + 1]) = <<"BLOB">>}
    IN  IF Menu.rows THEN {Call("row", <<Ref(i), Ref(j)>>) :
                               i \in IntegersOf(S, cols), j \in blobs} ELSE {}
ConditionOn(e, type) == IF type = IntegerType THEN Comparison("gt", e, Num(7))
                        ELSE Expr("is_not_null", <<e>>)
Conditions(S, cols) ==
    IF Menu.depth = 0 THEN {ConditionOn(Ref(i), TypeOf(cols[i + 1])) : i \in S}
    ELSE Kept(Grows(S, cols).bool)
Lists(S) == UNION {[1..k -> S] : k \in 1..Menu.list}
\* An empty projection map keeps every column.
Maps(S) == {<<>>} \cup {m \in Lists(S) : IsInjective(m)}
SortKeys(S, cols) ==
    [type: {"asc", "desc"}, nulls: {"first", "last"},
     expr: IF Menu.depth = 0 THEN ColumnRefs(S) ELSE Exprs(S, cols)]

\* No reference occurs twice.
UnrepeatedRefs(list) ==
    \A j, k \in DOMAIN list : j # k /\ list[j].op = "ref" => list[j] # list[k]
\* A row comes after computed columns alone, and after no row.
IsRow(e) == e.op = "call" /\ e.name = "row"
OneRow(list) ==
    \A j, k \in DOMAIN list :
        IsRow(list[k]) /\ j < k => list[j].op # "ref" /\ ~IsRow(list[j])
ProjectionLists(S, cols) ==
    {l \in Lists(Exprs(S, cols) \cup Rows(S, cols)) :
        /\ "repeated_ref" \in Beyond \/ UnrepeatedRefs(l)
        /\ "second_row" \in Beyond \/ OneRow(l)}

LimitValues == {v \in Menu.limits : "large_limit" \in Beyond
                                        \/ v < 2^(IntBits - 1)}

\* count_star takes no argument, sums take numbers.
FunctionNames == {fn \in Menu.functions : fn # "first" \/ fn \in Beyond}
Sums == {"sum", "sum_no_overflow", "stddev"}
ArgumentLists(fn, S, cols) ==
    IF fn \in {"count_star", "rank"} THEN {<<>>}
    ELSE {<<Ref(i)>> : i \in IF fn \in Sums THEN IntegersOf(S, cols) ELSE S}
Measures(S, cols) ==
    UNION {[fn: {fn}, args: ArgumentLists(fn, S, cols),
            distinct: IF fn = "count_star" THEN {FALSE} ELSE BOOLEAN,
            filter: IF "aggregate_filter" \in Beyond
                    THEN {{}} \cup {{c} : c \in Conditions(S, cols)} ELSE {{}}] :
               fn \in FunctionNames}
GroupingSets(groups) ==
    {{}, {DOMAIN groups}} \cup {{{1}, {}} : k \in DOMAIN groups}
\* GROUPING() on the first of the groups, or on all of them backwards.
GroupingFunctions(groups) ==
    {<<>>} \cup IF Menu.depth = 0 \/ groups = <<>> THEN {}
               ELSE {<<<<0>>>>, <<[k \in DOMAIN groups |-> Len(groups) - k]>>}

CountsGroups(frame) ==
    \E b \in {frame.start, frame.end} : Len(b) > 1 /\ b[2] = "GROUPS"

\* Windows are partitioned by one column and ordered by column 0.
Windows(S, cols) ==
    UNION {[fn: {fn}, args: ArgumentLists(fn, {0}, cols),
            distinct: IF fn \in {"rank", "count_star"} THEN {FALSE} ELSE BOOLEAN,
            frame: {f \in Menu.frames : "groups_frame" \in Beyond
                                            \/ ~CountsGroups(f)},
            partitions: {<<e>> : e \in ColumnRefs(S)},
            orders: {<<[type |-> "asc", nulls |-> o, expr |-> Ref(0)]>> :
                       o \in IF "null_orders" \in Beyond THEN {"first", "last"}
                             ELSE {"last"}}] :
               fn \in FunctionNames \cup {"rank"}}
Adjacent(list) ==
    \A i, k \in DOMAIN list : \A j \in i..k :
        list[i].partitions = list[k].partitions =>
            list[j].partitions = list[i].partitions
WindowLists(S, cols) ==
    {l \in Lists(Windows(S, cols)) : "scattered_windows" \in Beyond \/ Adjacent(l)}

ColumnTypes(r) == [k \in DOMAIN r.cols |-> TypeOf(r.cols[k])]
Nested(r) == \E k \in DOMAIN r.cols : TypeOf(r.cols[k])[1] = "STRUCT"

-----------------------------------------------------------------------------
(* Leaves.                                                                 *)

Leaf(kind, logical, consumed) == Put(0, Plan(kind, logical, consumed))

Part(col, part) == [col |-> col, part |-> part]
WholeColumns(types) ==
    [k \in DOMAIN types |-> Part(k - 1, Producer!Whole)]
Items(types) ==
    {WholeColumns(types)[k] : k \in DOMAIN types}
    \cup {Part(k - 1, "field") : k \in {k \in DOMAIN types :
                                             types[k][1] = "STRUCT"}}
    \cup {Part(Producer!RowIdColumn, Producer!Whole)}
Output(get) == IF get.projection_ids = <<>> THEN get.column_ids
               ELSE [k \in DOMAIN get.projection_ids |->
                        get.column_ids[get.projection_ids[k] + 1]]
IsRowId(item) == item.col = Producer!RowIdColumn
\* A row id that is dropped must leave the positions of the others alone;
\* one that is read together with a struct's field is refused.
RowIdsLast(get) ==
    \/ get.projection_ids # <<>> \/ "rowid_dropped" \in Beyond
    \/ \A k \in 1..Len(get.column_ids) - 1 : ~IsRowId(get.column_ids[k])
RowIdsAlone(get) ==
    ~\E j, k \in DOMAIN Output(get) :
        IsRowId(Output(get)[j]) /\ Output(get)[k].part # Producer!Whole

\* What a filter says of its column, Ref(0): column 0 has filters of every
\* form, others a comparison each.
FilterForms(type) ==
    LET leaf == ConditionOn(Ref(0), type)
    IN  {Expr("or", <<leaf, Expr("is_null", <<Ref(0)>>)>>),
         Expr("in", <<Ref(0), Num(1), Num(7)>>),
         Expr("and", <<leaf, Expr("optional", <<leaf>>)>>)}
TableFilters(types) ==
    LET on(i, f) == [col |-> i, filter |-> f]
        columns == 0..Len(types) - 1
        leaf(i) == ConditionOn(Ref(0), types[i + 1])
        field == Comparison("gt", Ref(0), Num(7))
    IN  {{}} \cup {{on(i, leaf(i))} : i \in columns}
             \cup {{on(i, leaf(i)), on(j, Expr("optional", <<leaf(j)>>))} :
                      i, j \in columns}
             \cup {{on(0, f)} : f \in FilterForms(types[1])}
             \cup IF "struct_filter" \in Beyond
                  THEN {{on(i, Expr("struct_filter", <<field>>))} :
                          i \in {i \in columns : types[i + 1][1] = "STRUCT"}}
                  ELSE {}

\* column_ids and projection_ids hold nothing twice.
Gets(types) ==
    IF Menu.reads
    THEN {get \in UNION {[column_ids: {ids}, projection_ids: Maps(0..Len(ids) - 1),
                          table_filters: TableFilters(types)] :
                             ids \in {l \in Lists(Items(types)) : IsInjective(l)}} :
              RowIdsLast(get) /\ RowIdsAlone(get)}
    ELSE [column_ids: {WholeColumns(types)}, projection_ids: {<<>>},
          table_filters: {{}}]

Locations == {<<"memory", "main">>} \cup
             IF "other_schema" \in Beyond
             THEN {<<"memory", "other">>, <<"attached", "main">>} ELSE {}

\* An optional filter only saves work; a row id can be read off any table.
LogicalGet(location, types, get) ==
    LET name  == steps
        table == Table(location[1], location[2], name, types)
        item(i) == CASE IsRowId(i) -> RowId(table)
                     [] ~IsRowId(i) /\ i.part = Producer!Whole ->
                            Field(table.cols, i.col)
                     [] OTHER -> Value(Expr(i.part, <<Ref(i.col)>>), table.cols)
        used  == {f \in get.table_filters : f.filter.op # "optional"}
        scan  == Filter(table, {Over(f.filter, Ref(f.col)) : f \in used})
        nodes == Producer!TransformGet(name, get)
    IN  Leaf("get",
             [scan EXCEPT !.cols = [k \in DOMAIN Output(get) |->
                                        item(Output(get)[k])]],
             TransformChain(TransformReadOp(Head(nodes), types), Tail(nodes)))

\* One row, of which nothing is used.
LogicalDummyScan ==
    Leaf("dummy", [rows |-> <<"values", 1>>, cols |-> <<Garbage>>],
         TransformVirtualTable(Head(Producer!TransformDummyScan)))

LogicalEmptyResult(types) ==
    Leaf("empty", NoRows(types),
         TransformVirtualTable(Head(Producer!TransformEmptyResult(types))))

LogicalExpressionGet(list) ==
    Leaf("values", ValuesList(list),
         TransformVirtualTable(Head(Producer!TransformExpressionGet(list))))

-----------------------------------------------------------------------------
(* Operators on one child.                                                 *)

LogicalFilter(conditions, map) ==
    /\ map = <<>> \/ Aligned(Top)
    /\ LET r == Filter(Top.logical, conditions)
       IN  Unary("filter", IF map = <<>> THEN r ELSE Pick(r, map),
                 Producer!TransformFilter(Child(Top), conditions, map))

LogicalProjection(list) ==
    /\ Aligned(Top)
    /\ Unary("other", Project(Top.logical, list),
             Producer!TransformProjection(Child(Top), list))

LogicalOrder(orders, map) ==
    /\ map = <<>> \/ Aligned(Top)
    /\ LET r == Order(Top.logical, orders)
       IN  Unary("other", IF map = <<>> THEN r ELSE Pick(r, map),
                 Producer!TransformOrderBy(Child(Top), orders, map))

LogicalTopN(orders, limit, offset) ==
    Unary("other", Limit(Order(Top.logical, orders), limit, offset),
          Producer!TransformTopN(orders, limit, offset))

LogicalLimit(limit, offset) ==
    Unary("other", Limit(Top.logical, limit, offset),
          Producer!TransformLimit(limit, offset))

\* grouping_functions: the positions in groups that each GROUPING() is of.
LogicalAggregate(groups, sets, measures, grouping_functions) ==
    LET grouping(list) ==
            [fn |-> "grouping", distinct |-> FALSE, filter |-> {},
             args |-> [i \in DOMAIN list |-> groups[list[i] + 1]]]
    IN  Unary("other",
              Aggregate(Top.logical, groups,
                        IF sets = {} THEN AllGroups(groups) ELSE sets,
                        measures \o [k \in DOMAIN grouping_functions |->
                                        grouping(grouping_functions[k])]),
              Producer!TransformAggregateGroup(groups, sets, measures,
                                               grouping_functions))

LogicalWindow(list) ==
    /\ Aligned(Top)
    /\ Unary("other", Window(Top.logical, list),
             Producer!TransformWindow(list))

\* Over EXCEPT and INTERSECT, a set operation of the first two inputs; the
\* targets of a DISTINCT ON are not looked at.
LogicalDistinct(targets) ==
    /\ Aligned(Top) /\ AllUsable(Top)
    /\ IF Top.kind \in {"except", "intersect"}
       THEN /\ targets = <<>>
            /\ "distinct_of_three" \in Beyond \/ Len(Top.parts) = 2
            /\ Put(1, Plan("other", DistinctSet(Top.logical),
                           TransformSetOp(SubSeq(Top.parts, 1, 2),
                                          Producer!SetRel(Top.kind))))
       ELSE Unary("other", IF targets = <<>> THEN Distinct(Top.logical)
                           ELSE DistinctOn(Top.logical, targets),
                  Producer!TransformDistinct(Child(Top)))

DistinctTargets(S) ==
    {<<>>} \cup IF "distinct_on" \in Beyond
               THEN {<<e>> : e \in ColumnRefs(S)} ELSE {}

-----------------------------------------------------------------------------
(* Operators on several children, the earliest on the stack first.         *)

LogicalJoin(type, l, r, conditions, lmap, rmap) ==
    LET terms == {Compare(c.fn, Value(c.left, l.cols), Value(c.right, r.cols)) :
                      c \in conditions}
        joined == Join(type, l, r, terms)
        left   == IF lmap # <<>> THEN lmap ELSE All(l)
        right  == IF rmap # <<>> THEN rmap ELSE All(r)
    IN  Pick(joined,
             CASE type \in LeftOnly -> left
               [] type = "MARK" -> Append(left, Len(l.cols))
               [] Producer!Swapped(type) -> right
               [] OTHER -> left \o [k \in DOMAIN right |->
                                       right[k] + Len(l.cols)])

ComparisonJoin(type, conditions, lmap, rmap) ==
    LET two   == SubSeq(stack, Len(stack) - 1, Len(stack))
        child == [k \in 1..2 |-> Child(two[k])]
        nodes == Producer!TransformComparisonJoin(
                     type, child, conditions, lmap, rmap)
        swap  == Producer!Swapped(type)
        joined == TransformJoinOp(two[IF swap THEN 2 ELSE 1].consumed,
                                  two[IF swap THEN 1 ELSE 2].consumed,
                                  Head(nodes))
        plan  == Plan("other",
                      LogicalJoin(type, two[1].logical, two[2].logical,
                                  conditions, lmap, rmap),
                      TransformChain(joined, Tail(nodes)))
    IN  /\ Aligned(two[1]) /\ Aligned(two[2])
        /\ type = "MARK" =>
               "wide_mark" \in Beyond \/ Len(two[2].logical.cols) = 1
        /\ Put(2, [plan EXCEPT
               !.join = [type |-> type,
                         left |-> Len(Producer!FillMap(lmap, child[1])),
                         right |-> Len(Producer!FillMap(rmap, child[2]))]])

CrossProduct ==
    LET l == stack[Len(stack) - 1]
        r == Top
    IN  /\ Aligned(l) /\ Aligned(r)
        /\ Put(2, Plan("other", Cross(l.logical, r.logical),
                       TransformCrossProductOp(l.consumed, r.consumed)))

SetOp(op, all, arity) ==
    LET inputs == SubSeq(stack, Len(stack) - arity + 1, Len(stack))
        logical(k) == inputs[k].logical
        consumed == [k \in DOMAIN inputs |-> inputs[k].consumed]
        plan == Plan(op, SetOperation(op, all, [k \in 1..arity |-> logical(k)]),
                     TransformSetOp(consumed, Producer!SetRel(op)))
    IN  /\ \A k \in 1..arity :
               /\ Len(logical(k).cols) = Len(logical(1).cols)
               /\ Aligned(inputs[k]) /\ AllUsable(inputs[k])
               /\ ~Nested(logical(k))
        /\ Put(arity, [plan EXCEPT !.parts = consumed])

\* An intersection of three inputs is rejected.
SetOps ==
    \/ \E n \in {2, 3} : Ready("union", n) /\ SetOp("union", TRUE, n)
    \/ \E n \in {2, 3}, all \in BOOLEAN :
           /\ Ready("except", n) /\ (all => "except_all" \in Beyond)
           /\ SetOp("except", all, n)
    \/ Ready("intersect", 2) /\ SetOp("intersect", FALSE, 2)

-----------------------------------------------------------------------------
(* Statements: what a plan ends with.                                      *)

Ends(kind, logical, consumed) ==
    /\ Len(stack) = 1
    /\ Put(1, Plan(kind, logical, Relation(consumed, Spine(kind))))

Schemas == {<<"memory", "main">>, <<"memory", "other">>} \cup
           IF "other_catalog" \in Beyond THEN {<<"attached", "main">>} ELSE {}

ColumnNames(r) == [k \in DOMAIN r.cols |-> Producer!ColumnName(k)]
RootNames == Producer!TransformRootNames(ColumnTypes(Top.logical))

Query ==
    /\ Aligned(Top) /\ AllUsable(Top)
    /\ "nested_root" \in Beyond
           \/ ~Nested(Top.logical) \/ HasProjection(Top.consumed)
    /\ Ends("root", Named(Top.logical, ColumnNames(Top.logical)),
            TransformRootOp(Top.consumed, RootNames, ColumnTypes(Top.consumed)))

\* A new table is named after the place of its plan.
LogicalCreateTable(location) ==
    /\ Aligned(Top) /\ AllUsable(Top)
    /\ "nested_create" \in Beyond \/ ~Nested(Top.logical)
    /\ Ends("write",
            Create(location[1], location[2],
                   Named(Top.logical, ColumnNames(Top.logical))),
            TransformRootWrite(Top.consumed,
                Producer!TransformCreateTable(location[2], steps),
                ColumnTypes(Top.consumed), RootNames))

\* columns: the column of the query that each column of the table takes; the
\* producer does not look at it.
LogicalInsert(location, columns) ==
    /\ Aligned(Top) /\ AllUsable(Top)
    /\ "insert_columns" \in Beyond \/ columns = All(Top.logical)
    /\ Ends("write",
            Insert(location[1], location[2], Pick(Top.logical, columns)),
            TransformRootWrite(Top.consumed,
                Producer!TransformInsertTable(location[2], steps),
                ColumnTypes(Top.consumed), <<>>))

\* The rows to delete are those whose row ids the plan returns.
LogicalDelete(id) ==
    LET name == id[2]
        types == [k \in DOMAIN id[3] |-> TypeOf(id[3][k])]
    IN  /\ \/ "other_delete" \in Beyond
           \/ Top.kind = "get" /\ Top.logical.rows[1] = "filter"
        /\ Ends("write", Delete(name[2], name[3], Top.logical.rows),
                TransformRootWrite(Top.consumed,
                    Producer!TransformDeleteTable(name[2], name[3], name[4]),
                    types, <<>>))

-----------------------------------------------------------------------------
JoinMaps(type, side, S) ==
    IF (side = "right" /\ type \in LeftOnly \cup {"MARK"})
           \/ (side = "left" /\ Producer!Swapped(type))
    THEN {<<>>} ELSE Maps(S)

\* An operand that reads the right side has its offset everywhere.
Operands(type, side, S, cols) ==
    IF (side = "left") # Producer!Swapped(type) THEN Exprs(S, cols)
    ELSE {e \in Exprs(S, cols) :
             "compared_operand" \in Beyond \/ ~OffsetLost(e)}

\* The columns of the topmost plan and of the one below it, and which of
\* them are usable.
ColumnsOf(k) == stack[Len(stack) - k + 1].logical.cols
UsableOf(k) == Usable(stack[Len(stack) - k + 1])

JoinStep(type, fn) ==
    \E left \in Operands(type, "left", UsableOf(2), ColumnsOf(2)),
       right \in Operands(type, "right", UsableOf(1), ColumnsOf(1)),
       lmap \in JoinMaps(type, "left", UsableOf(2)),
       rmap \in JoinMaps(type, "right", UsableOf(1)) :
        ComparisonJoin(type, {[fn |-> fn, left |-> left, right |-> right]},
                       lmap, rmap)

FilterStep ==
    \E conditions \in {{}} \cup {{c} : c \in Conditions(UsableOf(1), ColumnsOf(1))},
       map \in Maps(UsableOf(1)) : LogicalFilter(conditions, map)

ProjectionStep ==
    \E list \in ProjectionLists(UsableOf(1), ColumnsOf(1)) : LogicalProjection(list)

OrderStep ==
    \E key \in SortKeys(UsableOf(1), ColumnsOf(1)), map \in Maps(UsableOf(1)) :
        LogicalOrder(<<key>>, map)

TopNStep ==
    \E key \in SortKeys(UsableOf(1), ColumnsOf(1)), limit, offset \in LimitValues :
        LogicalTopN(<<key>>, limit, offset)

\* Grouping keys are columns, or one expression of the menu's depth.
GroupLists(S, cols) ==
    {<<>>} \cup {m \in Lists(ColumnRefs(S)) : IsInjective(m)}
    \cup IF Menu.depth = 0 THEN {} ELSE {<<e>> : e \in Exprs(S, cols)}
AggregateStep ==
    \E groups \in GroupLists(UsableOf(1), ColumnsOf(1)) :
    \E sets \in GroupingSets(groups),
       measure \in Measures(UsableOf(1), ColumnsOf(1)),
       grouping_functions \in GroupingFunctions(groups) :
        LogicalAggregate(groups, sets, <<measure>>, grouping_functions)

WindowStep ==
    /\ 0 \in UsableOf(1)
    /\ \E list \in WindowLists(UsableOf(1), ColumnsOf(1)) : LogicalWindow(list)

GetStep ==
    \E location \in Locations, types \in Menu.tables :
        \E get \in Gets(types) : LogicalGet(location, types, get)

EmptyResultStep ==
    \E types \in Menu.empties :
        /\ "lossy_types" \in Beyond \/ \A k \in DOMAIN types : ~LossyType[types[k]]
        /\ LogicalEmptyResult(types)

InsertColumns == (Maps(UsableOf(1)) \ {<<>>}) \cup {All(Top.logical)}

DeleteStep ==
    \E k \in DOMAIN Top.logical.cols :
        /\ Top.logical.cols[k][1] = "rowid"
        /\ LogicalDelete(Top.logical.cols[k])

Next ==
    \/ Ready("get", 0) /\ GetStep
    \/ Ready("dummy", 0) /\ LogicalDummyScan
    \/ Ready("empty", 0) /\ EmptyResultStep
    \/ /\ Ready("values", 0)
       /\ \E list \in Lists({<<c>> : c \in Constants}) :
              LogicalExpressionGet(list)
    \/ Ready("filter", 1) /\ FilterStep
    \/ Ready("projection", 1) /\ ProjectionStep
    \/ Ready("order", 1) /\ OrderStep
    \/ Ready("topn", 1) /\ TopNStep
    \/ /\ Ready("limit", 1)
       /\ \E limit \in LimitValues \cup {-1}, offset \in LimitValues :
              LogicalLimit(limit, offset)
    \/ Ready("aggregate", 1) /\ AggregateStep
    \/ Ready("window", 1) /\ WindowStep
    \/ /\ Ready("distinct", 1)
       /\ \E targets \in DistinctTargets(UsableOf(1)) : LogicalDistinct(targets)
    \/ /\ Ready("join", 2)
       /\ \E type \in Menu.joins, fn \in Menu.comparisons : JoinStep(type, fn)
    \/ Ready("cross", 2) /\ CrossProduct
    \/ SetOps
    \/ Ready("root", 1) /\ Query
    \/ /\ Ready("create", 1)
       /\ \E location \in Schemas : LogicalCreateTable(location)
    \/ /\ Ready("insert", 1)
       /\ \E location \in Schemas, columns \in InsertColumns :
              LogicalInsert(location, columns)
    \/ Ready("delete", 1) /\ DeleteStep

Spec == Init /\ [][Next]_vars

-----------------------------------------------------------------------------
(* Properties.                                                             *)

\* Types of another name may hold what the type of an empty result holds.
Bits == [UTINYINT |-> 8, USMALLINT |-> 16, UINTEGER |-> 32, UBIGINT |-> 64,
         HUGEINT |-> 127, SMALLINT |-> 15, INTEGER |-> 31, BIGINT |-> 63]
Unsigned == {"UTINYINT", "USMALLINT", "UINTEGER", "UBIGINT"}

ReadTypes == {Producer!SubstraitToDuckType[s] : s \in Producer!WrittenTypes}
Holds[back \in ReadTypes, type \in Producer!Types] ==
    \/ back = type
    \/ /\ type[1] = back[1] /\ type[1] \in {"LIST", "MAP"}
       /\ \A k \in 2..Len(type) : Holds[back[k], type[k]]
    \/ /\ type[1] = back[1] /\ type[1] = "STRUCT" /\ type[2] = back[2]
       /\ \A k \in DOMAIN type[3] : Holds[back[3][k], type[3][k]]
    \/ /\ type[1] \in DOMAIN Bits
       /\ IF back[1] = "DECIMAL"
          THEN back[3] = 0 /\ 126 >= Bits[type[1]]
          ELSE /\ back[1] \in DOMAIN Bits \ Unsigned
               /\ Bits[back[1]] >= Bits[type[1]]

Agree(back, col) ==
    \/ back = col
    \/ back[1] = "empty" /\ col[1] = "empty" /\ Holds[back[2], col[2]]

\* What only the query carries along, row ids and the row of a scan of
\* nothing, need not come back.
Same(consumed, logical) ==
    /\ consumed.rows = logical.rows
    /\ \A k \in DOMAIN logical.cols :
           \/ Hidden(logical.cols[k])
           \/ /\ k \in DOMAIN consumed.cols
              /\ Agree(consumed.cols[k], logical.cols[k])
    /\ (\E k \in DOMAIN logical.cols : Hidden(logical.cols[k]))
           \/ Len(consumed.cols) = Len(logical.cols)

\* The relation that from_substrait builds from the plan of get_substrait
\* computes what the query computed: the same rows from the same columns in
\* the same order, under every operator above it.
ComesBack == \A k \in DOMAIN stack :
    stack[k].kind \in Finished \/ Same(stack[k].consumed, stack[k].logical)

\* Every column of a query's result comes back, in its place and under its
\* own name, whatever the names of struct fields among the root's.
ResultNamesComeBack == \A k \in DOMAIN stack :
    stack[k].kind = "root" => Same(stack[k].consumed, stack[k].logical)

\* A CREATE TABLE AS, INSERT or DELETE that comes back changes the same rows
\* of the table of the same name in the same schema.
WritesComeBack == \A k \in DOMAIN stack :
    stack[k].kind = "write" => Same(stack[k].consumed, stack[k].logical)

\* What TransformComparisonJoin takes for the width of its left input is the
\* width of the relation that input was translated to; every reference to
\* the right side is shifted by it.
LeftCountExact ==
    \A k \in DOMAIN stack :
        stack[k].kind \in Finished \/ ~Aligned(stack[k])
        \/ Producer!LeftColumnCount(Child(stack[k])) =
               Len(stack[k].consumed.cols)
=============================================================================
