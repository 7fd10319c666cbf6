--------------------------- MODULE ExprToSubstrait ---------------------------
(***************************************************************************)
(* The producer's translation of bound expressions                         *)
(* (DuckDBToSubstrait::TransformExpr).  Substrait's expressions are        *)
(* written like DuckDB's, as [op, args] and what else the op calls for,    *)
(* with the members of its Expression message for ops; a "ref" is a        *)
(* selection.  Function references are left out: a function is known by    *)
(* its name (module FunctionRegistry has what becomes of names).           *)
(***************************************************************************)
EXTENDS SubstraitTypes, Nesting

FieldRef(i) == [op |-> "ref", args |-> <<>>, index |-> i]
ScalarFunction(name, enums, args) ==
    [op |-> "scalar_function", name |-> name, enums |-> enums, args |-> args]
Cast(type, e) ==
    [op |-> "cast", type |-> DuckToSubstraitType[type], args |-> <<e>>]

function_names_remap ==
    {<<"mod", "modulus">>, <<"stddev", "std_dev">>, <<"prefix", "starts_with">>,
     <<"suffix", "ends_with">>, <<"substr", "substring">>,
     <<"length", "char_length">>, <<"isnan", "is_nan">>,
     <<"isfinite", "is_finite">>, <<"isinf", "is_infinite">>,
     <<"sum_no_overflow", "sum">>, <<"count_star", "count">>, <<"~~", "like">>,
     <<"*", "multiply">>, <<"-", "subtract">>, <<"+", "add">>,
     <<"/", "divide">>, <<"first", "any_value">>, <<"!~~", "not_equal">>,
     <<"&", "bitwise_and">>, <<"|", "bitwise_or">>, <<"xor", "bitwise_xor">>,
     <<"strlen", "octet_length">>, <<"least", "least_skip_null">>,
     <<"greatest", "greatest_skip_null">>}

RemapFunctionName(name) ==
    IF \E p \in function_names_remap : p[1] = name
    THEN (CHOOSE p \in function_names_remap : p[1] = name)[2] ELSE name

valid_extract_subfields ==
    {"year", "month", "day", "decade", "century", "millenium", "quarter",
     "microsecond", "milliseconds", "second", "minute", "hour"}

\* Constructors of nested values, and the member of Expression.Nested.
NestedKind == [row |-> "struct", list_value |-> "list", list_pack |-> "list",
               map |-> "map"]

\* substring counts in i32 there, in BIGINT here.
BigintFunctions == {"length", "strlen", "octet_length", "year"}
IsBigint(e) == CASE e.op = "literal" -> e.literal.type = <<"BIGINT">>
                 [] e.op = "cast"    -> e.type = <<"BIGINT">>
                 [] e.op = "call"    -> e.name \in BigintFunctions
                 [] OTHER            -> FALSE
NarrowPositions(e, args) ==
    [k \in DOMAIN args |-> IF k > 1 /\ IsBigint(e.args[k])
                           THEN Cast(<<"INTEGER">>, args[k]) ELSE args[k]]

\* args: the children, transformed.
TransformFunctionExpression(e, args) ==
    CASE e.name \in DOMAIN NestedKind ->
             [op |-> "nested", of |-> NestedKind[e.name], args |-> args]
      [] e.name \in valid_extract_subfields ->
             ScalarFunction("extract", <<e.name>>, args)
      [] e.name \in {"substring", "substr"} ->
             ScalarFunction("substring", <<>>, NarrowPositions(e, args))
      [] OTHER -> ScalarFunction(RemapFunctionName(e.name), <<>>, args)

\* Each result is cast to the type of the whole.
TransformCaseExpression(type, args) ==
    [op |-> "if_then",
     args |-> [k \in DOMAIN args |-> IF k % 2 = 0 \/ k = Len(args)
                                     THEN Cast(type, args[k]) ELSE args[k]]]

TransformBoundRefExpression(e, col_offset) == FieldRef(e.index + col_offset)

\* A cast that may fail is written as one that may not.
TransformCastExpression(e, args) == Cast(e.type, args[1])

TransformConstantExpression(e) ==
    [e EXCEPT !.literal = TransformConstant(@)]

TransformComparisonExpression(e, args) == ScalarFunction(e.fn, <<>>, args)

\* AND, OR, NOT, IS NULL, IS NOT NULL and COALESCE.
TransformOperatorExpression(e, args) == ScalarFunction(e.op, <<>>, args)

TransformInExpression(args) == [op |-> "singular_or_list", args |-> args]

\* The bounds of a BETWEEN are taken to be in.
TransformBetweenExpression(args) == ScalarFunction("between", <<>>, args)

\* Their operands are transformed without the offset of the columns.
OffsetDropped(e) == \/ e.op \in {"compare", "between", "case", "in"}
                    \/ e.op = "call" /\ e.name \in DOMAIN NestedKind

\* args: the arguments, transformed.
TransformExprOn(e, args, col_offset) ==
    CASE e.op = "ref"     -> TransformBoundRefExpression(e, col_offset)
      [] e.op = "literal" -> TransformConstantExpression(e)
      [] e.op = "call"    -> TransformFunctionExpression(e, args)
      [] e.op = "compare" -> TransformComparisonExpression(e, args)
      [] e.op = "between" -> TransformBetweenExpression(args)
      [] e.op = "case"    -> TransformCaseExpression(e.type, args)
      [] e.op = "in"      -> TransformInExpression(args)
      [] e.op \in {"cast", "try_cast"} -> TransformCastExpression(e, args)
      [] OTHER            -> TransformOperatorExpression(e, args)
TransformExpr(e, col_offset) ==
    LET below(x, offset) == IF OffsetDropped(x) THEN 0 ELSE offset
        transformed[at \in Within(e) \X {0, col_offset}] ==
            LET x == at[1]
                args == [k \in DOMAIN x.args |->
                            transformed[<<x.args[k], below(x, at[2])>>]]
            IN  TransformExprOn(x, args, at[2])
    IN  transformed[<<e, col_offset>>]
=============================================================================
