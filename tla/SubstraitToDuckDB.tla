------------------------- MODULE SubstraitToDuckDB -------------------------
(***************************************************************************)
(* The consumer (src/src/from_substrait.cpp): the DuckDB relation that     *)
(* TransformOp builds from a Substrait relation, given the relations built *)
(* from its inputs.  A relation is a term of module Relations together     *)
(* with its spine: its RelationType and, where the code looks further      *)
(* down, those below.                                                      *)
(***************************************************************************)
EXTENDS Relations, ExprToDuckDB, FiniteSets

TransformExprs(list) == [k \in DOMAIN list |-> TransformExpr(list[k])]
\* A conjunction is the set of its members.
TransformCondition(set) == {TransformExpr(e) : e \in set}

\* A filter has its condition, a projection the positions of the columns it
\* computes, and whether they are rows, in the order of their translation.
Spine(type) == <<[type |-> type, condition |-> {}, computed |-> <<>>]>>
FilterSpine(node) ==
    <<[type |-> "filter", computed |-> <<>>,
       condition |-> TransformCondition(node)]>>
ProjectionSpine(computed) ==
    <<[type |-> "projection", condition |-> {}, computed |-> computed]>>
Relation(r, spine) == [rows |-> r.rows, cols |-> r.cols, spine |-> spine]

TransformSort(s) ==
    [type  |-> IF s.direction \in {1, 2} THEN "asc" ELSE "desc",
     nulls |-> IF s.direction \in {1, 3} THEN "first" ELSE "last",
     expr  |-> TransformExpr(s.expr)]
TransformSorts(sorts) == [k \in DOMAIN sorts |-> TransformSort(sorts[k])]

-----------------------------------------------------------------------------
(* Reads.                                                                  *)

\* One name is a table of the default schema.  The filter sees the table's
\* own columns, the projection comes after it.  The base schema is the
\* table's own (module FromSubstrait has the case that it is not).
TransformReadOp(node, types) ==
    LET table  == Table("memory", "main", node.names[1], types)
        filter == IF node.filter = {} THEN <<>> ELSE FilterSpine(node.filter)
        scan   == Filter(table, TransformCondition(node.filter))
    IN  IF node.projection = <<>>
        THEN Relation(scan, filter \o Spine("table"))
        ELSE Relation(Pick(scan, node.projection),
                      ProjectionSpine(<<>>) \o filter \o Spine("table"))

GetValuesExpression(rows) ==
    ValuesList([i \in DOMAIN rows |->
        [k \in DOMAIN rows[i] |-> InSubstrait!TransformLiteralToValue(rows[i][k])]])

\* Without rows, a row of NULLs of the schema's types under a false filter.
TransformVirtualTable(node) ==
    IF node.expressions = <<>>
    THEN Relation(NoRows([k \in DOMAIN node.types |->
                            InSubstrait!SubstraitToDuckType[node.types[k]]]),
                  Spine("empty"))
    ELSE Relation(GetValuesExpression(node.expressions), Spine("values"))

-----------------------------------------------------------------------------
(* Relations on one input.                                                 *)

TransformFilterOp(in, node) == Filter(in, TransformCondition(node.condition))

TransformSortOp(in, node) == Order(in, TransformSorts(node.sorts))

TransformFetchOp(in, node) == Limit(in, node.count, node.offset)

GetValueRelationWithSingleBoolColumn == [rows |-> <<"values", 1>>, cols |-> <<>>]

\* A virtual table without rows is taken for one without columns, and
\* replaced by a row of one column nobody counts.
ProjectInput(in) == IF in.spine[1].type = "empty"
                    THEN GetValueRelationWithSingleBoolColumn ELSE in

\* A mapping entry below the input's column count is an input column, any
\* other an expression; without a mapping all of both are kept.
TransformProjectOp(in, node) ==
    LET input    == ProjectInput(in)
        columns  == Len(input.cols)
        computed == Values(TransformExprs(node.expressions), input.cols)
        entry(i) == IF i < columns THEN Field(input.cols, i)
                    ELSE Field(computed, i - columns)
    IN  IF node.emit = <<>>
        THEN [input EXCEPT !.cols = @ \o computed]
        ELSE [input EXCEPT !.cols = [k \in DOMAIN node.emit |->
                                         entry(node.emit[k])]]

\* What TransformProjectOp computes, for the names of the fields of rows.
Computed(in, node) ==
    LET columns == Len(ProjectInput(in).cols)
        emit == IF node.emit # <<>> THEN node.emit
                ELSE [k \in 1..columns + Len(node.expressions) |-> k - 1]
        rows == {i \in DOMAIN node.expressions :
                    node.expressions[i].op = "nested"
                        /\ node.expressions[i].of = "struct"}
        entry(k) == [position |-> k, row |-> emit[k] - columns + 1 \in rows]
        add(list, k) == IF emit[k] >= columns THEN Append(list, entry(k))
                        ELSE list
    IN  FoldLeft(add, <<>>, [k \in DOMAIN emit |-> k])

\* GROUPING() takes copies of the grouping expressions it points to.
TransformMeasure(groups, m) ==
    LET args == IF m.fn = "grouping"
                THEN [k \in DOMAIN m.args |-> groups[m.args[k].index + 1]]
                ELSE TransformExprs(m.args)
        name == IF m.fn = "count" /\ args = <<>> THEN "count_star" ELSE m.fn
    IN  [fn |-> RemapFunctionName(name), args |-> args,
         distinct |-> m.distinct, filter |-> {}]
TransformAggregateOp(in, node) ==
    LET groups == TransformExprs(node.grouping_expressions)
    IN  Aggregate(in, groups, node.groupings,
                  [k \in DOMAIN node.measures |->
                      TransformMeasure(groups, node.measures[k])])

WindowBound(bound, bounds_type) ==
    CASE bound[1] = "unbounded"   -> <<"UNBOUNDED">>
      [] bound[1] = "current_row" -> <<"CURRENT_ROW", bounds_type>>
      [] bound[1] = "preceding"   -> <<"EXPR_PRECEDING", bounds_type, bound[2]>>
      [] bound[1] = "following"   -> <<"EXPR_FOLLOWING", bounds_type, bound[2]>>

TransformWindowOp(in, node) ==
    LET function(f) ==
            [fn |-> RemapFunctionName(f.fn), args |-> TransformExprs(f.args),
             partitions |-> TransformExprs(node.partitions),
             orders |-> TransformSorts(node.sorts), distinct |-> f.distinct,
             frame |-> [start |-> WindowBound(f.lower_bound, f.bounds_type),
                        end |-> WindowBound(f.upper_bound, f.bounds_type)]]
    IN  Window(in, [k \in DOMAIN node.functions |-> function(node.functions[k])])

TransformUnary(in, node) ==
    CASE node.rel = "filter" ->
             Relation(TransformFilterOp(in, node),
                      FilterSpine(node.condition) \o <<Head(in.spine)>>)
      [] node.rel = "sort" ->
             Relation(TransformSortOp(in, node), Spine("order") \o in.spine)
      [] node.rel = "fetch" ->
             Relation(TransformFetchOp(in, node), Spine("limit") \o in.spine)
      [] node.rel = "project" ->
             Relation(TransformProjectOp(in, node),
                      ProjectionSpine(Computed(in, node)) \o <<Head(in.spine)>>)
      [] node.rel = "aggregate" ->
             Relation(TransformAggregateOp(in, node), Spine("aggregate"))
      [] node.rel = "window" ->
             Relation(TransformWindowOp(in, node),
                      ProjectionSpine(<<>>) \o <<Head(in.spine)>>)

\* The relations of one operator, the innermost on the consumed inputs.
TransformChain(in, nodes) == FoldLeft(TransformUnary, in, nodes)

-----------------------------------------------------------------------------
(* Relations on several inputs.                                            *)

\* The condition sees the columns of both sides, left first.
TransformJoinOp(l, r, node) ==
    Relation(Join(node.type, l, r,
                  ValueSet(TransformCondition(node.expression),
                           l.cols \o r.cols)),
             Spine("join"))

TransformCrossProductOp(l, r) == Relation(Cross(l, r), Spine("cross"))

\* Only UNION_ALL keeps duplicates; two or more inputs are folded leftwards.
TransformSetOp(inputs, node) ==
    Relation(SetOperation(node.op, node.op = "union", inputs),
             Spine("set") \o inputs[Len(inputs)].spine)

-----------------------------------------------------------------------------
(* Writes and the root.                                                    *)

\* Mutant: the names are a schema and a table, whatever their number.
WriteTargetTwoNames(names) ==
    [catalog |-> "memory", schema |-> names[1], table |-> names[Len(names)]]

\* Three or more names start with a catalog; the table's is always the last.
WriteTarget(names) ==
    LET last == Len(names) IN
    [catalog |-> IF last > 2 THEN names[1] ELSE "memory",
     schema  |-> names[IF last > 2 THEN 2 ELSE 1],
     table   |-> names[last]]

\* DELETE takes the condition of the filter it finds at the top or under a
\* projection; an unchecked cast makes a filter of anything else there.
TransformWriteOp(in, node, types) ==
    LET target == WriteTarget(node.names)
        below  == in.spine[IF in.spine[1].type = "projection" THEN 2 ELSE 1]
        table  == Table(target.catalog, target.schema, target.table, types)
    IN  CASE node.op = "CTAS"   -> Create(target.catalog, target.schema, in)
          [] node.op = "INSERT" -> Insert(target.catalog, target.schema, in)
          [] node.op = "DELETE" ->
                 CASE below.type = "filter" ->
                          Delete(target.catalog, target.schema,
                                 Filter(table, below.condition).rows)
                   [] below.type # "filter" /\ in.spine[1].type = "projection" ->
                          Fails("undefined")
                   [] OTHER -> Fails("not_implemented")

\* The first projection under limits, orders and the right of set operations.
GetProjection(r) ==
    LET passed == {"limit", "order", "set"}
    IN  r.spine[SelectInSeq(r.spine, LAMBDA s : s.type \notin passed)]
HasProjection(r) == GetProjection(r).type = "projection"

\* RootNameIterator: it moves on by one name per computed column, none for
\* the others, and over the fields of a row that it gives names to, as it
\* does to those that would be called differently.
NameRows(r, names) ==
    LET name(s, c) ==
            LET at == s.iterator + 1
                row == r.cols[c.position]
                fields == SubSeq(names, at + 1, at + Len(row[4]))
            IN  IF c.row /\ at < Len(names) /\ IsInjective(fields)
                THEN [iterator |-> at + Len(fields),
                      cols |-> [s.cols EXCEPT ![c.position] =
                                   Struct(fields, row[4])]]
                ELSE [s EXCEPT !.iterator = at]
    IN  [r EXCEPT !.cols = FoldLeft(name, [iterator |-> 0, cols |-> r.cols],
                                    GetProjection(r).computed).cols]

\* Mutant: the fields of a struct within a struct are not passed over.
NamesBeforeShallow(types, k) ==
    FoldLeft(LAMBDA n, t : n + 1 + IF t[1] = "STRUCT" THEN Len(t[3]) ELSE 0,
             0, SubSeq(types, 1, k - 1))

\* How many names come before that of the k-th column.
NamesBefore(types, k) ==
    InSubstrait!Total([j \in 1..k - 1 |->
                          1 + InSubstrait!SkipColumnNames[types[j]]])

\* types: those of the columns of that projection, whose fields' names are
\* passed over.  Without a projection every name is taken for a column's.
TransformRootOp(r, names, types) ==
    IF HasProjection(r)
    THEN Named(NameRows(r, names),
               [k \in DOMAIN types |-> names[NamesBefore(types, k) + 1]])
    ELSE Named(r, names)

\* The root of a write names the columns of a new table, and no others.
TransformRootWrite(in, node, types, names) ==
    TransformWriteOp(IF node.op = "CTAS" THEN Named(in, names) ELSE in,
                     node, types)
=============================================================================
