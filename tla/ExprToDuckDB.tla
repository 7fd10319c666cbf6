---------------------------- MODULE ExprToDuckDB ----------------------------
(***************************************************************************)
(* The consumer's translation of Substrait's expressions                   *)
(* (SubstraitToDuckDB::TransformExpr) to DuckDB's parsed ones.             *)
(***************************************************************************)
EXTENDS Expressions

InSubstrait == INSTANCE SubstraitTypes

function_names_remap ==
    {<<"modulus", "mod">>, <<"std_dev", "stddev">>, <<"starts_with", "prefix">>,
     <<"ends_with", "suffix">>, <<"substring", "substr">>,
     <<"char_length", "length">>, <<"is_nan", "isnan">>,
     <<"is_finite", "isfinite">>, <<"is_infinite", "isinf">>, <<"like", "~~">>,
     <<"extract", "date_part">>, <<"bitwise_and", "&">>,
     <<"bitwise_or", "|">>, <<"bitwise_xor", "xor">>,
     <<"octet_length", "strlen">>, <<"least_skip_null", "least">>,
     <<"greatest_skip_null", "greatest">>}

RemapFunctionName(name) ==
    IF \E p \in function_names_remap : p[1] = name
    THEN (CHOOSE p \in function_names_remap : p[1] = name)[2] ELSE name

Comparisons == {"equal", "not_equal", "lt", "lte", "gt", "gte",
                "is_distinct_from", "is_not_distinct_from"}
Operators == {"and", "or", "not", "is_null", "is_not_null", "coalesce"}

\* Substrait has no !~~, so a string constant is taken for a sign of it.
IsNotLike(e, args) ==
    /\ e.name = "not_equal"
    /\ \E k \in DOMAIN args : args[k].op = "literal"
                              /\ args[k].literal.type = <<"VARCHAR">>

\* A subfield's name becomes the first argument.
Subfield(name) == Constant(InSubstrait!Text(<<0>>, name))

\* args: the value arguments, transformed.
TransformScalarFunctionExpr(e, args) ==
    CASE IsNotLike(e, args)      -> Call("!~~", args)
      [] e.name \in Comparisons /\ ~IsNotLike(e, args) ->
             Comparison(e.name, args[1], args[2])
      [] e.name \in Operators    -> Expr(e.name, args)
      [] e.name = "between"      -> Between(<<TRUE, TRUE>>, args)
      [] OTHER -> Call(RemapFunctionName(e.name),
                       [k \in DOMAIN e.enums |-> Subfield(e.enums[k])] \o args)

TransformNested(of, args) ==
    Call(CASE of = "struct" -> "row" [] of = "list" -> "list_value"
           [] of = "map" -> "map", args)

TransformLiteralExpr(e) ==
    [e EXCEPT !.literal = InSubstrait!TransformLiteralToValue(@)]

\* A selection: a column, or a field of the row that args holds.
TransformSelectionExpr(e, args) == [e EXCEPT !.args = args]

TransformIfThenExpr(args) == Case(<<>>, args)

TransformCastExpr(type, args) ==
    CastTo(InSubstrait!SubstraitToDuckType[type], args[1])

TransformInExpr(args) == Expr("in", args)

\* args: the arguments, transformed.
TransformExprOn(e, args) ==
    CASE e.op \in {"ref", "field"} -> TransformSelectionExpr(e, args)
      [] e.op = "literal"          -> TransformLiteralExpr(e)
      [] e.op = "scalar_function"  -> TransformScalarFunctionExpr(e, args)
      [] e.op = "if_then"          -> TransformIfThenExpr(args)
      [] e.op = "cast"             -> TransformCastExpr(e.type, args)
      [] e.op = "singular_or_list" -> TransformInExpr(args)
      [] e.op = "nested"           -> TransformNested(e.of, args)
TransformExpr(e) == Folded(TransformExprOn, e)
=============================================================================
