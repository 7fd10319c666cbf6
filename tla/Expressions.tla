----------------------------- MODULE Expressions -----------------------------
(***************************************************************************)
(* What DuckDB's scalar expressions compute, as terms over the columns of  *)
(* their input: expressions of equal terms have the same value.  Both the  *)
(* bound expressions that the extension reads and the parsed ones that it  *)
(* builds mean what this module says; neither is implemented in this       *)
(* repository.                                                             *)
(*                                                                         *)
(* An expression is [op, args], with expressions for arguments, and what   *)
(* else its op calls for: a "ref" has its position, counted from 0, a      *)
(* "literal" its constant.                                                 *)
(***************************************************************************)
EXTENDS Integers, Sequences, SequencesExt, Nesting

CONSTANT IntBits   \* the width of a C++ int32_t and of an INTEGER, scaled down

\* A column that does not exist: DuckDB's binder rejects the relation.
Dangling == <<"dangling">>
Field(cols, i) == IF i < Len(cols) THEN cols[i + 1] ELSE Dangling
Fields(cols, list) == [k \in DOMAIN list |-> Field(cols, list[k])]

Expr(op, args) == [op |-> op, args |-> args]
Ref(i) == [op |-> "ref", args |-> <<>>, index |-> i]
Refs(list) == [k \in DOMAIN list |-> Ref(list[k])]
Constant(c) == [op |-> "literal", args |-> <<>>, literal |-> c]
Call(name, args) == [op |-> "call", name |-> name, args |-> args]
Comparison(fn, a, b) == [op |-> "compare", fn |-> fn, args |-> <<a, b>>]
CastTo(type, e) == [op |-> "cast", type |-> type, args |-> <<e>>]
TryCastTo(type, e) == [op |-> "try_cast", type |-> type, args |-> <<e>>]
\* Whether the lower and the upper bound are in.
Between(inclusive, args) ==
    [op |-> "between", inclusive |-> inclusive, args |-> args]
StructPack(names, args) ==
    [op |-> "struct_pack", names |-> names, args |-> args]
\* args: condition and result of each branch, then that of ELSE.  The type
\* of a bound CASE is that of its results; a parsed one has none yet.
Case(type, args) == [op |-> "case", type |-> type, args |-> args]

-----------------------------------------------------------------------------
(* Terms.                                                                  *)

IntegerType == <<"INTEGER">>
IsLiteral(term) == term[1] = "literal"
IsText(term) == IsLiteral(term) /\ term[2].type = <<"VARCHAR">>

\* The type of a term, as far as terms tell.
Predicates == {"lt", "lte", "equal", "not_equal", "is_distinct_from",
               "is_not_distinct_from", "between", "and", "or", "not", "in",
               "is_null", "is_not_null", "mark"}
ResultType(name) ==
    CASE name \in {"length", "strlen", "octet_length"} -> <<"BIGINT">>
      [] name \in {"lower", "substr"} -> <<"VARCHAR">>
      [] name \in {"~~", "!~~", "prefix"} -> <<"BOOLEAN">>
      [] OTHER -> IntegerType
TypeOf(term) ==
    CASE term[1] = "col"     -> term[4]
      [] term[1] = "empty"   -> term[2]
      [] term[1] \in {"cast", "try_cast"} -> term[2]
      [] term[1] = "literal" -> term[2].type
      [] term[1] = "struct"  -> <<"STRUCT", term[2], term[3]>>
      [] term[1] = "extract" -> <<"BIGINT">>
      [] term[1] = "call"    -> ResultType(term[2])
      [] term[1] \in Predicates -> <<"BOOLEAN">>
      [] OTHER               -> IntegerType

\* gt and gte are lt and lte the other way round, the others are symmetric.
Compare(fn, a, b) ==
    CASE fn = "gt"  -> <<"lt", b, a>>
      [] fn = "gte" -> <<"lte", b, a>>
      [] fn \in {"lt", "lte"} -> <<fn, a, b>>
      [] OTHER -> <<fn, {a, b}>>

\* A number that an INTEGER holds is the same number as a BIGINT.
Fits(c) == /\ c.type \in {IntegerType, <<"BIGINT">>} /\ c.value # <<>>
           /\ c.value[1] \in -(2^(IntBits - 1))..2^(IntBits - 1) - 1
Cast(term, type) ==
    CASE TypeOf(term) = type -> term
      [] /\ IsLiteral(term) /\ type \in {IntegerType, <<"BIGINT">>}
         /\ Fits(term[2]) -> <<"literal", [term[2] EXCEPT !.type = type]>>
      [] /\ term[1] = "cast" /\ term[2] = <<"BIGINT">>
         /\ type = IntegerType /\ TypeOf(term[3]) = type -> term[3]
      [] OTHER -> <<"cast", type, term>>

\* Functions that DuckDB knows under several names.  The operands of / are
\* floats, which divide (an integer division of integers) divides as / does.
Aliases == {<<"add", "+">>, <<"subtract", "-">>, <<"multiply", "*">>,
            <<"divide", "/">>, <<"substring", "substr">>,
            <<"starts_with", "prefix">>, <<"ends_with", "suffix">>,
            <<"char_length", "length">>, <<"sum_no_overflow", "sum">>}
DuckDBName(name) == IF \E p \in Aliases : p[1] = name
                    THEN (CHOOSE p \in Aliases : p[1] = name)[2] ELSE name

Extracts == {"year", "month", "day", "decade", "century", "quarter",
             "microsecond", "second", "minute", "hour"}

\* LIKE with a pattern that holds no wildcard compares.
Wildcard == 37
IsPlainPattern(term) == IsText(term) /\ ~Contains(term[2].value, Wildcard)

\* The fields of a row have no names.
Struct(names, args) ==
    <<"struct", names, [k \in DOMAIN args |-> TypeOf(args[k])], args>>

\* substr counts in BIGINT; year(x) is short for date_part('year', x).
Called(name, args) ==
    CASE name = "!~~" /\ IsPlainPattern(args[2]) ->
             Compare("not_equal", args[1], args[2])
      [] name \in {"substr", "substring"} ->
             <<"call", "substr", args[1]>>
             \o [k \in 1..Len(args) - 1 |-> Cast(args[k + 1], <<"BIGINT">>)]
      [] name = "date_part" /\ IsText(args[1]) ->
             <<"extract", args[1][2].text, args[2]>>
      [] name \in Extracts -> <<"extract", name, args[1]>>
      [] name = "row" -> Struct([k \in DOMAIN args |-> ""], args)
      [] OTHER -> <<"call", DuckDBName(name)>> \o args

\* args: the terms of the arguments.
ValueOf(e, args, cols) ==
    CASE e.op = "ref"     -> Field(cols, e.index)
      [] e.op = "literal" -> <<"literal", e.literal>>
      [] e.op = "call"    -> Called(e.name, args)
      [] e.op = "compare" -> Compare(e.fn, args[1], args[2])
      [] e.op = "cast"    -> Cast(args[1], e.type)
      [] e.op = "struct_pack" -> Struct(e.names, args)
      [] e.op = "try_cast" -> <<"try_cast", e.type>> \o args
      [] e.op = "between" -> <<"between", e.inclusive>> \o args
      [] e.op = "case"    ->
             <<"case">> \o [k \in DOMAIN args |->
                 IF e.type # <<>> /\ (k % 2 = 0 \/ k = Len(args))
                 THEN Cast(args[k], e.type) ELSE args[k]]
      [] OTHER            -> <<e.op>> \o args
Value(e, cols) == Folded(LAMBDA x, args : ValueOf(x, args, cols), e)
Values(list, cols) == [k \in DOMAIN list |-> Value(list[k], cols)]
ValueSet(set, cols) == {Value(e, cols) : e \in set}
=============================================================================
