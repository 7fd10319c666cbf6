------------------------- MODULE MCFunctionRegistry -------------------------
(* FunctionRegistry with declarations of the kinds the YAMLs have: one more *)
(* specific than another, from another extension; equally specific ones;    *)
(* one without arguments; variadic ones with one and two arguments.         *)
EXTENDS FunctionRegistry

Declared(name, types, urn) ==
    [name |-> name, types |-> types, urn |-> urn,
     variadic |-> FALSE, variadic_min |-> 0]
Variadic(name, types, urn, min) ==
    [name |-> name, types |-> types, urn |-> urn,
     variadic |-> TRUE, variadic_min |-> min]

SomeDeclarations ==
    { Declared("lt", <<"any1", "date">>, "comparison"),
      Declared("lt", <<"date", "any1">>, "datetime"),
      Declared("lt", <<"date", "date">>, "datetime"),
      Declared("count", <<>>, "aggregate"),
      Variadic("lt", <<"boolean?", "boolean?">>, "aggregate", 1) }

\* Resolved by specificity, by order, as variadic, and four times not at all.
SomeCalls ==
    {[name |-> "lt", types |-> types] : types \in
        {<<"date", "date">>, <<"date", "bool">>, <<"bool", "date">>,
         <<"bool", "bool", "bool">>, <<"bool">>, <<"bool", "date", "bool">>}}
    \cup {[name |-> "count", types |-> types] : types \in {<<>>, <<"bool">>}}

CanonicalTypes ==
    [t \in {"any1", "date", "boolean?"} |->
        IF t = "boolean?" THEN "bool" ELSE t]
=============================================================================
