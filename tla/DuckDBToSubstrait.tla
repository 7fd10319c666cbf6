------------------------- MODULE DuckDBToSubstrait -------------------------
(***************************************************************************)
(* The producer (src/src/to_substrait.cpp): for each logical operator, the *)
(* Substrait relations that TransformOp puts on top of those of its        *)
(* children, innermost first.  An operator is given with child.columns,    *)
(* the length of its child's types vector, and, where the code inspects    *)
(* the child, child.join: the join's type and two projection maps' sizes.  *)
(*                                                                         *)
(* Expressions are ExprToSubstrait's, types and constants SubstraitTypes'. *)
(* A conjunction is the set of its members.                                *)
(***************************************************************************)
EXTENDS ExprToSubstrait

CONSTANT IntBits   \* the width of int32_t, scaled down

GetColumnCount(child) == child.columns

-----------------------------------------------------------------------------
(* Lists of expressions.                                                   *)

Transformed(list) == [k \in DOMAIN list |-> TransformExpr(list[k], 0)]
TransformedSet(set) == {TransformExpr(e, 0) : e \in set}

\* Substrait's SORT_DIRECTION values carry the type and the null order.
TransformOrder(key) ==
    [direction |-> CASE key.type = "asc"  /\ key.nulls = "first" -> 1
                     [] key.type = "asc"  /\ key.nulls = "last"  -> 2
                     [] key.type = "desc" /\ key.nulls = "first" -> 3
                     [] key.type = "desc" /\ key.nulls = "last"  -> 4,
     expr |-> TransformExpr(key.expr, 0)]
TransformOrders(keys) == [k \in DOMAIN keys |-> TransformOrder(keys[k])]

-----------------------------------------------------------------------------
(* Relations.  An empty emit is "no output mapping".                       *)

ProjectRel(expressions, emit) ==
    <<[rel |-> "project", expressions |-> expressions, emit |-> emit]>>

\* One field reference per entry, and a mapping that selects just those.
ProjectFields(columns, list) ==
    ProjectRel([k \in DOMAIN list |-> FieldRef(list[k])],
               [k \in DOMAIN list |-> columns + k - 1])

ProjectMap(child, map) ==
    IF map = <<>> THEN <<>> ELSE ProjectFields(GetColumnCount(child), map)

TransformFilter(child, conditions, map) ==
    (IF conditions = {} THEN <<>>
     ELSE <<[rel |-> "filter", condition |-> TransformedSet(conditions)]>>)
    \o ProjectMap(child, map)

\* The number of leading expressions that refer to their own position.
LeadingRefs(list) ==
    LET own(k) == list[k] = FieldRef(k - 1)
    IN  CHOOSE n \in 0..Len(list) :
            /\ \A k \in 1..n : own(k)
            /\ n = Len(list) \/ ~own(n + 1)

IsPassthroughProjection(list, columns) ==
    columns <= Len(list) /\ LeadingRefs(list) = columns
        /\ Len(list) = columns

NeedsOutputMapping(list, columns) ==
    columns > Len(list) \/ LeadingRefs(list) # columns

\* References are mapped, anything else is computed.
ProjectionOf(list, columns) ==
    LET add(sproj, e) ==
            IF e.op = "ref"
            THEN [sproj EXCEPT !.output_mapping = Append(@, e.index)]
            ELSE [expressions |-> Append(sproj.expressions, TransformExpr(e, 0)),
                  output_mapping |-> Append(sproj.output_mapping,
                                            columns + Len(sproj.expressions))]
    IN  FoldLeft(add, [expressions |-> <<>>, output_mapping |-> <<>>], list)

TransformProjection(child, list) ==
    LET columns  == GetColumnCount(child)
        sproj == ProjectionOf(list, columns)
    IN  IF IsPassthroughProjection(list, columns) THEN <<>>
        ELSE IF NeedsOutputMapping(list, columns)
        THEN ProjectRel(IF sproj.expressions = <<>> THEN <<FieldRef(0)>>
                        ELSE sproj.expressions, sproj.output_mapping)
        ELSE ProjectRel(sproj.expressions, <<>>)

TransformOrderBy(child, orders, map) ==
    <<[rel |-> "sort", sorts |-> TransformOrders(orders)]>>
    \o ProjectMap(child, map)

\* A count of -1 is an absent count expression.
FetchRel(count, offset) ==
    [rel |-> "fetch", count |-> count, offset |-> offset]

TransformTopN(orders, limit, offset) ==
    <<[rel |-> "sort", sorts |-> TransformOrders(orders)],
      FetchRel(limit, offset)>>

\* static_cast<int32_t> keeps the low bits of an idx_t.
Int32(v) == LET low == v % 2^IntBits
            IN  IF low >= 2^(IntBits - 1) THEN low - 2^IntBits ELSE low

\* An unset limit is given as -1, an unset offset as 0.
TransformLimit(limit, offset) ==
    LET limit_val == IF limit = -1 THEN -1 ELSE Int32(limit)
    IN  <<FetchRel(IF limit_val >= 0 THEN limit_val ELSE -1, Int32(offset))>>

-----------------------------------------------------------------------------
(* Reads.  A scan is given by column_ids, the columns it reads, each       *)
(* [col, part]: a base column or -1 for the row id, and "whole" or the     *)
(* field of a struct; projection_ids, which of those it emits, none for    *)
(* all of them; and its table_filters, each [col, filter], where filter is *)
(* an expression over its first argument, the column.                      *)

RowIdColumn == -1
Whole == "whole"

\* A filter of a conjunction that is translated to nothing is left out.
CreateConjunction(name, sets) ==
    LET exprs == FoldLeft(LAMBDA list, set :
                    list \o SetToSeq(set), <<>>, sets)
    IN  IF exprs = <<>> THEN {}
        ELSE {FoldLeft(LAMBDA res, e : ScalarFunction(name, <<>>, <<res, e>>),
                       Head(exprs), Tail(exprs))}

\* A filter on column col, as the set of no or one expression it becomes.
\* That on a struct's field is written as if the field were column 0.
TransformTableFilter(col, f) ==
    LET transformed[x \in Within(f), c \in {0, col}] ==
            CASE x.op = "optional"      -> {}
              [] x.op = "struct_filter" -> transformed[x.args[1], 0]
              [] x.op \in {"and", "or"} ->
                     CreateConjunction(x.op, [k \in DOMAIN x.args |->
                                                 transformed[x.args[k], c]])
              [] OTHER -> {TransformExpr([x EXCEPT !.args[1] = FieldRef(c)], 0)}
    IN  transformed[f, col]
TransformTableFilters(filters) ==
    UNION {TransformTableFilter(f.col, f.filter) : f \in filters}

\* Mutant: a row id leaves no place in the mask, projected or not.
ReadMaskNoPlaceholder(output, projected) ==
    [k \in DOMAIN SelectSeq(output, LAMBDA c : c.col # RowIdColumn) |->
        SelectSeq(output, LAMBDA c : c.col # RowIdColumn)[k].col]

\* Under a projection a row id is a placeholder, field 0; else it is dropped.
ReadMask(output, projected) ==
    LET add(mask, c) == IF c.col # RowIdColumn THEN Append(mask, c.col)
                        ELSE IF projected THEN Append(mask, 0) ELSE mask
    IN  FoldLeft(add, <<>>, output)

\* A plan names the table alone.  An empty projection is none.
ReadRel(table, filters, projection) ==
    <<[rel |-> "read", names |-> <<table>>,
       filter |-> TransformTableFilters(filters), projection |-> projection]>>

\* A scan that extracts struct fields reads each column once, and a
\* projection on top of it extracts them.
TransformGet(table, get) ==
    LET output == IF get.projection_ids = <<>> THEN get.column_ids
                  ELSE [k \in DOMAIN get.projection_ids |->
                           get.column_ids[get.projection_ids[k] + 1]]
        read_columns == FoldLeft(LAMBDA read, c :
                            IF Contains(read, c.col) THEN read
                            ELSE Append(read, c.col), <<>>, output)
        position(c) == CHOOSE k \in DOMAIN read_columns : read_columns[k] = c.col
        extract(c) == IF c.part = Whole THEN FieldRef(position(c) - 1)
                      ELSE [op |-> c.part, args |-> <<FieldRef(position(c) - 1)>>]
    IN  IF \E k \in DOMAIN output : output[k].part # Whole
        THEN ReadRel(table, get.table_filters, read_columns)
             \o ProjectRel([k \in DOMAIN output |-> extract(output[k])],
                           [k \in DOMAIN output |-> Len(read_columns) + k - 1])
        ELSE ReadRel(table, get.table_filters,
                     ReadMask(output, get.projection_ids # <<>>))

\* A virtual table: rows of constants, or none and the types of the columns.
VirtualRel(expressions, types) ==
    <<[rel |-> "virtual", expressions |-> expressions, types |-> types]>>

TransformDummyScan ==
    VirtualRel(<<<<Literal("i32", <<>>, <<42>>, "")>>>>, <<>>)

TransformEmptyResult(types) ==
    VirtualRel(<<>>, [k \in DOMAIN types |-> DuckToSubstraitType[types[k]]])

TransformExpressionGet(list) ==
    VirtualRel([i \in DOMAIN list |->
                  [k \in DOMAIN list[i] |-> TransformConstant(list[i][k])]],
               <<>>)

-----------------------------------------------------------------------------
(* Joins.                                                                  *)

Swapped(type) == type \in {"RIGHT_SEMI", "RIGHT_ANTI"}
OneSided(type) == type \in {"SEMI", "ANTI"} \/ Swapped(type)

\* Mutant: a semi join below is taken for one that emits both its sides.
LeftColumnCountBothSides(left) ==
    IF left.join.type = "none" THEN left.columns
    ELSE left.join.left + left.join.right

\* left_col_count: columns the transformed left input is taken to emit.
LeftColumnCount(left) ==
    CASE left.join.type = "none" -> left.columns
      [] Swapped(left.join.type) -> left.join.right
      [] left.join.type \in {"SEMI", "ANTI"} -> left.join.left
      [] OTHER -> left.join.left + left.join.right

SwapComparison(fn) == CASE fn = "gt" -> "lt" [] fn = "gte" -> "lte"
                        [] fn = "lt" -> "gt" [] fn = "lte" -> "gte"
                        [] OTHER -> fn

TransformJoinCond(type, c, left_col_count) ==
    IF Swapped(type)
    THEN ScalarFunction(SwapComparison(c.fn), <<>>,
                        <<TransformExpr(c.right, 0),
                          TransformExpr(c.left, left_col_count)>>)
    ELSE ScalarFunction(c.fn, <<>>, <<TransformExpr(c.left, 0),
                                      TransformExpr(c.right, left_col_count)>>)

SubstraitJoinType(type) == CASE type = "RIGHT_SEMI" -> "SEMI"
                             [] type = "RIGHT_ANTI" -> "ANTI"
                             [] OTHER -> type

\* An empty projection map is filled in: every column of that child.
FillMap(map, child) ==
    IF map # <<>> THEN map ELSE [k \in 1..child.columns |-> k - 1]

\* children: the logical order.  left: the child that becomes sjoin.left.
TransformComparisonJoin(type, children, conditions, left_map, right_map) ==
    LET swap  == Swapped(type)
        left  == children[IF swap THEN 2 ELSE 1]
        right == children[IF swap THEN 1 ELSE 2]
        left_col_count == LeftColumnCount(left)
        lmap == FillMap(left_map, children[1])
        rmap == FillMap(right_map, children[2])
        fields == IF OneSided(type) THEN IF swap THEN rmap ELSE lmap
                  ELSE lmap \o [k \in DOMAIN rmap |-> rmap[k] + left_col_count]
        columns == GetColumnCount(left) +
                   (IF OneSided(type) THEN 0 ELSE GetColumnCount(right))
    IN  <<[rel |-> "join", type |-> SubstraitJoinType(type),
           expression |-> {TransformJoinCond(type, c, left_col_count) :
                              c \in conditions}]>>
        \o ProjectFields(columns, fields)

TransformCrossProduct == <<[rel |-> "cross"]>>

-----------------------------------------------------------------------------
(* Aggregates, DISTINCT, windows and set operations.                       *)

\* sets: grouping sets as sets of positions in groups; none given is {}.
\* A GROUPING() is a measure on positions in groups.  The filter of an
\* aggregate is not read.
TransformAggregateGroup(groups, sets, measures, grouping_functions) ==
    <<[rel |-> "aggregate", grouping_expressions |-> Transformed(groups),
       groupings |-> IF sets = {} THEN {DOMAIN groups} ELSE sets,
       measures |->
          [k \in DOMAIN measures |->
              [fn |-> RemapFunctionName(measures[k].fn),
               args |-> Transformed(measures[k].args),
               distinct |-> measures[k].distinct]]
          \o [k \in DOMAIN grouping_functions |->
                 [fn |-> "grouping", distinct |-> FALSE,
                  args |-> [i \in DOMAIN grouping_functions[k] |->
                               FieldRef(grouping_functions[k][i])]]]]>>

\* The default case: every output column is a grouping key.
TransformDistinct(child) ==
    LET keys == [k \in 1..GetColumnCount(child) |-> FieldRef(k - 1)]
    IN  <<[rel |-> "aggregate", grouping_expressions |-> keys,
           groupings |-> {DOMAIN keys}, measures |-> <<>>]>>

SetRel(op) == [rel |-> "set", op |-> op]

\* The sorts of a signature are compared without their null order.
Signature(w) ==
    <<w.partitions, [k \in DOMAIN w.orders |->
                        <<w.orders[k].expr, w.orders[k].type>>]>>

\* A frame is [start, end]; a boundary is <<"UNBOUNDED">>, <<"CURRENT_ROW",
\* mode>> or <<"EXPR_PRECEDING" or "EXPR_FOLLOWING", mode, offset>>.
\* GROUPS is written as ROWS.
BoundsType(frame) ==
    LET bounded == SelectSeq(<<frame.start, frame.end>>, LAMBDA b : Len(b) > 1)
    IN  IF bounded = <<>> \/ Head(bounded)[2] = "RANGE" THEN "RANGE" ELSE "ROWS"

TransformWindowBoundary(b) ==
    CASE b[1] = "UNBOUNDED"      -> <<"unbounded">>
      [] b[1] = "CURRENT_ROW"    -> <<"current_row">>
      [] b[1] = "EXPR_PRECEDING" -> <<"preceding", b[3]>>
      [] b[1] = "EXPR_FOLLOWING" -> <<"following", b[3]>>

TransformWindowFunction(w) ==
    [fn |-> RemapFunctionName(w.fn), args |-> Transformed(w.args),
     distinct |-> w.distinct,
     bounds_type |-> BoundsType(w.frame),
     lower_bound |-> TransformWindowBoundary(w.frame.start),
     upper_bound |-> TransformWindowBoundary(w.frame.end)]

\* One window relation per signature, in order of first appearance, with
\* the partitions and sorts of the first function that has it.
TransformWindow(list) ==
    LET first(k) == \A j \in 1..k - 1 : Signature(list[j]) # Signature(list[k])
        position == [k \in DOMAIN list |-> k]
        specs == SelectSeq(position, first)
        like(k) == SelectSeq(position,
                       LAMBDA j : Signature(list[j]) = Signature(list[k]))
        functions(k) == [i \in DOMAIN like(k) |->
                            TransformWindowFunction(list[like(k)[i]])]
    IN  [s \in DOMAIN specs |->
            [rel |-> "window",
             partitions |-> Transformed(list[specs[s]].partitions),
             sorts |-> TransformOrders(list[specs[s]].orders),
             functions |-> functions(specs[s])]]

-----------------------------------------------------------------------------
(* Writes and the root of a plan.                                          *)

WriteRel(op, names) == [rel |-> "write", op |-> op, names |-> names]

\* Of an attached database's table, CTAS and INSERT name the schema alone.
TransformCreateTable(schema, table) == WriteRel("CTAS", <<schema, table>>)
TransformInsertTable(schema, table) == WriteRel("INSERT", <<schema, table>>)
\* SetNamedTable appends to the names that are already there.
TransformDeleteTable(catalog, schema, table) ==
    WriteRel("DELETE", <<catalog, schema, table>> \o <<schema, table>>)

\* The names of a plan's root: each column's, then those of the fields in it.
ColumnName(k) == ToString(k)
TransformRootNames(types) ==
    FlattenSeq([k \in DOMAIN types |->
                   <<ColumnName(k)>> \o DepthFirstNames[types[k]]])
=============================================================================
