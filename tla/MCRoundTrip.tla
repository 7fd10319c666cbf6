---------------------------- MODULE MCRoundTrip ----------------------------
(* The menus: which operators meet, over which tables, and how many.        *)
EXTENDS RoundTrip

Integer == <<"INTEGER">>
Record == <<"STRUCT", <<"x", "y">>, <<Integer, <<"BLOB">>>>>>
Deep == <<"STRUCT", <<"x", "y">>, <<Record, <<"BLOB">>>>>>

Upper == <<"UNBOUNDED">>
Running(mode) == [start |-> Upper, end |-> <<"CURRENT_ROW", mode>>]
Bounds(mode) ==
    {Upper, <<"CURRENT_ROW", mode>>, <<"EXPR_PRECEDING", mode, 1>>,
     <<"EXPR_FOLLOWING", mode, 2>>}
Frames == UNION {[start: Bounds(mode), end: Bounds(mode)] :
                    mode \in {"ROWS", "RANGE", "GROUPS"}}

\* Zero, negative and fractional values; every kind of constant.
SomeConstants ==
    {[type |-> <<id>>, value |-> <<7>>, text |-> ""] :
         id \in DOMAIN Producer!Direct \cup
                {"HUGEINT", "TIME", "TIMESTAMP_TZ", "VARCHAR", "BLOB",
                 "TIMESTAMP_MS"}}
    \cup {[type |-> <<"INTEGER">>, value |-> <<>>, text |-> ""]}
    \cup {[type |-> <<"TIMESTAMP_TZ">>, value |-> <<-1500001>>, text |-> ""]}
    \cup {[type |-> <<"DECIMAL", 18, 3>>, value |-> <<-5>>, text |-> ""]}
    \cup {[type |-> <<"INTERVAL">>, value |-> v, text |-> ""] :
              v \in {<<14, 0, 0>>, <<0, 3, 2000001>>, <<0, -1, -7>>,
                     <<1, 2, 0>>}}

Plain ==
    [operators |-> {"get"}, steps |-> 1, stack |-> 1, list |-> 1,
     tables |-> {<<Integer, Integer>>}, reads |-> FALSE, limits |-> {0},
     joins |-> {}, comparisons |-> {}, constants |-> {}, empties |-> {},
     depth |-> 0, rows |-> FALSE, functions |-> {"sum", "count_star"},
     frames |-> {Running("RANGE")}]

\* Every operator on one child, over every other.
OneChild == [Plain EXCEPT !.steps = 3, !.list = 2, !.limits = {0, 3, 9},
    !.operators = {"get", "filter", "projection", "order", "topn", "limit",
                   "aggregate", "window", "distinct"}]
\* What can change the number of columns under a join, and the inputs of a
\* set operation.
ManyChildren == [Plain EXCEPT !.steps = 5, !.stack = 3,
    !.tables = {<<Integer>>, <<Integer, Integer>>},
    !.joins = {"OUTER", "ANTI", "MARK", "RIGHT_SEMI"}, !.comparisons = {"gt"},
    !.operators = {"get", "filter", "join", "cross", "union", "except",
                   "intersect", "distinct"}]
\* Scans of some columns, of row ids and of parts of structs.
PartialReads == [Plain EXCEPT !.steps = 3, !.list = 2, !.reads = TRUE,
    !.tables = {<<Integer, Record>>},
    !.operators = {"get", "filter", "projection", "limit", "aggregate",
                   "delete"}]
WindowFrames == [Plain EXCEPT !.steps = 2, !.frames = Frames,
    !.operators = {"get", "window"}]
\* Every type of an empty result, and every kind of constant.
EmptyTypes == [Plain EXCEPT !.steps = 2, !.constants = SomeConstants,
    !.empties = {<<t>> : t \in Producer!Types},
    !.operators = {"empty", "dummy", "values", "projection"}]
\* Rows that no table holds, under other operators.
FewConstants == {c \in SomeConstants : c.type[1] \in {"INTEGER", "DECIMAL"}}
LeafValues == [Plain EXCEPT !.steps = 3, !.list = 2, !.stack = 2,
    !.constants = FewConstants, !.empties = {<<Integer, Integer>>, <<Integer>>},
    !.operators = {"dummy", "empty", "values", "projection", "limit",
                   "aggregate", "union", "cross"}]
\* What a plan ends with.
Statements == [Plain EXCEPT !.steps = 4, !.stack = 2,
    !.tables = {<<Integer, Record>>, <<Deep, Integer>>, <<Integer, Integer>>},
    !.operators = {"get", "filter", "projection", "aggregate", "limit",
                   "union", "root", "create", "insert"}]
Repeated == [Plain EXCEPT !.steps = 2, !.list = 3,
    !.operators = {"get", "projection"}]

\* Expressions within expressions, and under every clause that has them.
Typed == <<Integer, <<"VARCHAR">>, <<"DATE">>, <<"BLOB">>>>
Nesting == [Plain EXCEPT !.steps = 2, !.depth = 2, !.tables = {Typed},
    !.operators = {"get", "filter", "projection"}]
Keys == [Plain EXCEPT !.steps = 2, !.depth = 1, !.tables = {Typed},
    !.functions = {"sum", "sum_no_overflow", "stddev", "count", "count_star",
                   "first"},
    !.operators = {"get", "order", "topn", "aggregate", "window"}]
Operand == [Plain EXCEPT !.steps = 3, !.stack = 2, !.depth = 1,
    !.tables = {<<Integer>>},
    !.joins = {"INNER", "SEMI", "RIGHT_ANTI"}, !.comparisons = {"gt"},
    !.operators = {"get", "join"}]
\* Rows that a projection makes, and the names of their fields.
MadeRows == [Plain EXCEPT !.steps = 4, !.list = 2, !.rows = TRUE,
    !.tables = {<<Integer, <<"BLOB">>>>},
    !.operators = {"get", "projection", "limit", "root"}]

AllMenus == [unary |-> OneChild, joins |-> ManyChildren, reads |-> PartialReads,
             frames |-> WindowFrames, types |-> EmptyTypes, values |-> LeafValues,
             roots |-> Statements, expressions |-> Nesting, keys |-> Keys,
             operands |-> Operand, rows |-> MadeRows]
RepeatedMenu == [repeated |-> Repeated]
=============================================================================
