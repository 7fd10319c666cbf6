----------------------------- MODULE Relations -----------------------------
(***************************************************************************)
(* What DuckDB's relational operators compute, as terms: a relation is     *)
(* [rows |-> where its rows come from, cols |-> what each column holds],   *)
(* and two relations with equal terms have the same result.  Both the      *)
(* logical operators the extension reads and the relations it builds mean  *)
(* what this module says; neither is implemented in this repository.       *)
(***************************************************************************)
EXTENDS Expressions

(* Leaves.                                                                 *)

\* A table is known by its catalog, its schema and its name; columns by
\* position and type.
Table(catalog, schema, name, types) ==
    [rows |-> <<"table", catalog, schema, name>>,
     cols |-> [k \in DOMAIN types |-> <<"col", name, k, types[k]>>]]

\* The rows of a VALUES list, all of the same length.
ValuesList(list) ==
    [rows |-> <<"values", Len(list)>>,
     cols |-> [k \in DOMAIN Head(list) |->
                  <<"entries", [i \in DOMAIN list |-> list[i][k]]>>]]
NoRows(types) ==
    [rows |-> <<"values", 0>>,
     cols |-> [k \in DOMAIN types |-> <<"empty", types[k]>>]]

\* What a table filter f says of e.  Its members say it of the same e, but
\* for the child of a filter on a struct, which says it of a field.  An
\* optional one only saves work.
Over(f, e) ==
    LET field[n \in 0..MaxNesting] ==
            IF n = 0 THEN e ELSE Expr("field", <<field[n - 1]>>)
        members(x) == SelectSeq(x.args, LAMBDA g : g.op # "optional")
        over[x \in Within(f), n \in 0..MaxNesting] ==
            CASE x.op = "struct_filter" -> over[x.args[1], n + 1]
              [] x.op \in {"and", "or"} /\ Len(members(x)) = 1 ->
                     over[members(x)[1], n]
              [] x.op \in {"and", "or"} /\ Len(members(x)) # 1 ->
                     Expr(x.op, [k \in DOMAIN members(x) |-> over[members(x)[k], n]])
              [] OTHER -> [x EXCEPT !.args[1] = field[n]]
    IN  over[f, 0]

\* Columns whose values no query asks for: a table's row ids where they are
\* only carried along, and the one column of a scan of nothing.
RowId(table) == <<"rowid", table.rows, table.cols>>
Garbage == <<"garbage">>
Hidden(term) == term[1] \in {"rowid", "garbage"}

-----------------------------------------------------------------------------
(* Operators.                                                              *)

Pick(r, list) == [r EXCEPT !.cols = Fields(@, list)]
Filter(r, conditions) ==
    IF conditions = {} THEN r
    ELSE [r EXCEPT !.rows = <<"filter", @, ValueSet(conditions, r.cols)>>]
Project(r, list) == [r EXCEPT !.cols = Values(list, @)]
\* A sort key is [type, nulls, expr].
SortTerms(keys, cols) ==
    [k \in DOMAIN keys |->
        <<keys[k].type, keys[k].nulls, Value(keys[k].expr, cols)>>]
Order(r, keys) == [r EXCEPT !.rows = <<"order", @, SortTerms(keys, r.cols)>>]
\* A limit of -1 is none.
Limit(r, limit, offset) == [r EXCEPT !.rows = <<"limit", @, limit, offset>>]

\* count(*) is count_star().
FunctionName(fn, args) == IF fn = "count" /\ args = <<>> THEN "count_star"
                          ELSE DuckDBName(fn)

\* A measure is [fn, args, distinct, filter]; filter is a set of conditions.
Aggregate(r, groups, sets, measures) ==
    LET keys == Values(groups, r.cols)
        rows == <<"aggregate", r.rows, keys, sets>>
    IN  [rows |-> rows,
         cols |-> keys \o [k \in DOMAIN measures |->
            <<"measure", rows, FunctionName(measures[k].fn, measures[k].args),
              Values(measures[k].args, r.cols), measures[k].distinct,
              ValueSet(measures[k].filter, r.cols)>>]]

All(r) == [k \in DOMAIN r.cols |-> k - 1]
AllGroups(list) == {DOMAIN list}
DistinctOn(r, targets) ==
    [r EXCEPT !.rows = <<"distinct_on", @, Values(targets, r.cols)>>]
Distinct(r) ==
    LET all == Refs(All(r)) IN Aggregate(r, all, AllGroups(all), <<>>)

\* A window function is [fn, args, partitions, orders, frame, distinct].
WindowTerm(w, r) == <<"window", r.rows, FunctionName(w.fn, w.args),
                      Values(w.args, r.cols), Values(w.partitions, r.cols),
                      SortTerms(w.orders, r.cols), w.frame, w.distinct>>
Window(r, list) ==
    [r EXCEPT !.cols = @ \o [k \in DOMAIN list |-> WindowTerm(list[k], r)]]

Cross(l, r) ==
    [rows |-> <<"cross", l.rows, r.rows>>, cols |-> l.cols \o r.cols]

LeftOnly == {"SEMI", "ANTI"}
\* terms: the compared values of the conditions, already evaluated.
Join(type, l, r, terms) ==
    LET rows == <<"join", type, l.rows, r.rows, terms>> IN
    CASE type \in LeftOnly -> [rows |-> rows, cols |-> l.cols]
      [] type = "MARK" -> [rows |-> l.rows,
                           cols |-> Append(l.cols, <<"mark", rows>>)]
      [] type = "RIGHT_SEMI" ->
             [rows |-> <<"join", "SEMI", r.rows, l.rows, terms>>,
              cols |-> r.cols]
      [] type = "RIGHT_ANTI" ->
             [rows |-> <<"join", "ANTI", r.rows, l.rows, terms>>,
              cols |-> r.cols]
      [] OTHER -> [rows |-> rows, cols |-> l.cols \o r.cols]

\* Set operations match columns by position; more than two inputs fold left.
Combine(type, all, l, r) ==
    LET rows == <<"set", type, all, l.rows, l.cols, r.rows, r.cols>>
    IN  [rows |-> rows, cols |-> [k \in DOMAIN l.cols |-> <<"setcol", rows, k>>]]
SetOperation(type, all, inputs) ==
    FoldLeft(LAMBDA l, r : Combine(type, all, l, r), Head(inputs), Tail(inputs))

\* A set operation without ALL has no duplicates left to remove.
DistinctSet(r) == IF r.rows[3] THEN Distinct(r) ELSE r

-----------------------------------------------------------------------------
(* Statements.                                                             *)

\* What a query returns: its columns, each under a name.
Named(r, names) ==
    [rows |-> r.rows,
     cols |-> [k \in DOMAIN names |-> <<"named", names[k], Field(r.cols, k - 1)>>]]

\* A statement that changes a table returns how many rows it changed.
Changed(rows) == [rows |-> rows, cols |-> <<<<"count">>>>]
Create(catalog, schema, r) ==
    Changed(<<"create", catalog, schema, r.rows, r.cols>>)
Insert(catalog, schema, r) ==
    Changed(<<"insert", catalog, schema, r.rows, r.cols>>)
\* rows: those of the table that go.
Delete(catalog, schema, rows) == Changed(<<"delete", catalog, schema, rows>>)
Fails(why) == Changed(<<why>>)
=============================================================================
