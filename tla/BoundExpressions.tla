-------------------------- MODULE BoundExpressions --------------------------
(***************************************************************************)
(* The bound expressions that a plan may hold, by the type of their value, *)
(* and which of them do not come back as they were.                        *)
(***************************************************************************)
EXTENDS Expressions

Writing == INSTANCE ExprToSubstrait

Num(n) == Constant([type |-> IntegerType, value |-> <<n>>, text |-> ""])
Big(n) == Constant([type |-> <<"BIGINT">>, value |-> <<n>>, text |-> ""])
String(n) == Constant([type |-> <<"VARCHAR">>, value |-> <<n>>, text |-> ""])

-----------------------------------------------------------------------------
(* Expressions over the columns S of cols.                                 *)

\* Some expressions of each type.
Leaves(S, cols) ==
    LET refs(id) == {Ref(i) : i \in {j \in S : TypeOf(cols[j + 1]) = <<id>>}}
    IN  [int |-> refs("INTEGER") \cup {Num(7)}, date |-> refs("DATE"),
         text |-> refs("VARCHAR") \cup {String(7), String(Wildcard)},
         bool |-> refs("BOOLEAN"), blob |-> refs("BLOB"),
         bigint |-> {}, nested |-> {}]

ComparisonNames == {"equal", "not_equal", "lt", "lte", "gt", "gte",
                    "is_distinct_from", "is_not_distinct_from"}
\* An interval is <<whether its lower bound is in, whether its upper is>>.
Intervals == {<<TRUE, TRUE>>, <<FALSE, TRUE>>, <<TRUE, FALSE>>}

IntGrowth(a, x, y) ==
    {Call("abs", <<a>>), Call("+", <<a, Num(1)>>), Call("least", <<Num(1), a>>),
     Expr("coalesce", <<a, Num(1)>>), CastTo(IntegerType, CastTo(<<"BIGINT">>, a)),
     TryCastTo(IntegerType, a)}
    \cup {Case(IntegerType, <<c, a, Num(1)>>) : c \in x.bool \cup y.bool}
BoolGrowth(a) ==
    {Comparison(fn, a, Num(1)) : fn \in ComparisonNames}
    \cup {Between(i, <<a, Num(0), Num(1)>>) : i \in Intervals}
    \cup {Expr("in", <<a, Num(0), Num(1)>>), Expr("is_null", <<a>>)}
Connectives(b, y) ==
    {Expr("not", <<b>>), Expr("is_not_null", <<b>>)}
    \cup {Expr(fn, <<b, c>>) : fn \in {"and", "or"}, c \in y.bool}
TextGrowth(t, x) ==
    {Call("lower", <<t>>), Call("substr", <<t, Big(1)>>)}
    \cup {Call("substring", <<t, Big(1), CastTo(<<"BIGINT">>, a)>>) : a \in x.int}
    \cup {Call("substr", <<t, w>>) : w \in x.bigint}
Matches(t, u) ==
    {Call("~~", <<t, u>>), Call("!~~", <<t, u>>), Call("prefix", <<t, u>>),
     Comparison("not_equal", t, u), Comparison("equal", t, u)}
NestedGrowth(a, y) ==
    {Call("row", <<a, Num(1)>>), Call("list_value", <<a, Num(1)>>),
     StructPack(<<"x", "y">>, <<a, Num(1)>>)}

\* x: the expressions to grow from; y: those that their siblings may be.
Grow(x, y) ==
    [int  |-> UNION {IntGrowth(a, x, y) : a \in x.int}
              \cup {CastTo(IntegerType, w) : w \in x.bigint},
     bigint |-> {Call(fn, <<t>>) : fn \in {"length", "strlen"}, t \in x.text}
                \cup {Call("octet_length", <<b>>) : b \in x.blob}
                \cup {Call("year", <<d>>) : d \in x.date},
     bool |-> UNION {BoolGrowth(a) : a \in x.int}
              \cup {Comparison("lt", w, Big(1)) : w \in x.bigint}
              \cup UNION {Connectives(b, y) : b \in x.bool}
              \cup UNION {Matches(t, u) : t \in x.text, u \in y.text}
              \cup UNION {Matches(u, t) : t \in x.text, u \in y.text},
     text |-> UNION {TextGrowth(t, [x EXCEPT !.int = y.int]) : t \in x.text},
     date |-> {}, blob |-> {},
     nested |-> UNION {NestedGrowth(a, y) : a \in x.int}]

Both(x, y) == [type \in DOMAIN x |-> x[type] \cup y[type]]
Grown(leaves, depth) ==
    LET grown[n \in 0..depth] ==
            IF n = 0 THEN leaves
            ELSE LET below == grown[n - 1]
                 IN  Both(below, Grow(below, leaves))
    IN  grown[depth]
Every(x) == UNION {x[type] : type \in DOMAIN x}

-----------------------------------------------------------------------------
(* What is lost, by the name of the loss.                                  *)

\* Months win over days, a NULL has no type, and some types are printed.
LossyConstant(c) ==
    \/ c.value = <<>>
    \/ c.type[1] \in Writing!Printed \cup {"HUGEINT"}
    \/ c.type[1] = "INTERVAL" /\ c.value[1] # 0
                              /\ SubSeq(c.value, 2, 3) # <<0, 0>>

LossyType[t \in Writing!Types] ==
    CASE t[1] \in {"LIST", "MAP"} -> LossyType[t[Len(t)]]
      [] t[1] = "STRUCT" -> \/ t[2] # SubSeq(Writing!FieldNames, 1, Len(t[3]))
                            \/ \E k \in DOMAIN t[3] : LossyType[t[3][k]]
      [] OTHER -> t[1] \in {"HUGEINT", "TIME", "TIME_TZ", "ENUM"}

IsString(e) == e.op = "literal" /\ e.literal.type = <<"VARCHAR">>
IsPlain(e) == IsString(e) /\ ~Contains(e.literal.value, Wildcard)
\* a <> b and a NOT LIKE b are written alike; a string tells them apart.
StringPatterns(e) ==
    LET strings == \E k \in DOMAIN e.args : IsString(e.args[k])
    IN  \/ e.op = "compare" /\ e.fn = "not_equal"
               /\ strings /\ ~IsPlain(e.args[2])
        \/ e.op = "call" /\ e.name = "!~~" /\ ~strings

\* Positions that an i32 need not hold.
WidePosition(e) ==
    CASE e.op = "literal" -> ~Fits(e.literal)
      [] e.op = "cast"    -> FALSE
      [] OTHER            -> TRUE

OwnLosses(e) ==
    {name \in {"lossy_literals", "lossy_types", "exclusive_between", "try_cast",
               "string_patterns", "wide_substring", "octet_length",
               "struct_pack"} :
        CASE name = "lossy_literals" -> e.op = "literal" /\ LossyConstant(e.literal)
          [] name = "lossy_types" -> e.op = "cast" /\ LossyType[e.type]
          [] name = "exclusive_between" ->
                 e.op = "between" /\ e.inclusive # <<TRUE, TRUE>>
          [] name = "string_patterns" -> StringPatterns(e)
          [] name = "octet_length" -> e.op = "call" /\ e.name = name
          [] name = "wide_substring" ->
                 /\ e.op = "call" /\ e.name \in {"substr", "substring"}
                 /\ \E k \in 2..Len(e.args) : WidePosition(e.args[k])
          [] OTHER -> e.op = name}
Losses(e) == UNION {OwnLosses(x) : x \in Within(e)}

Refers(e) == \E x \in Within(e) : x.op = "ref"
\* Whether an operand that is to read the right side reads the left one.
OffsetLost(e) == \E x \in Within(e) : Writing!OffsetDropped(x) /\ Refers(x)
=============================================================================
