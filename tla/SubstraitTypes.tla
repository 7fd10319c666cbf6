--------------------------- MODULE SubstraitTypes ---------------------------
(***************************************************************************)
(* Types and constants on their way through Substrait: what the producer   *)
(* writes for each DuckDB type and constant, and what the consumer makes   *)
(* of that.  A type is a tuple headed by its name: <<"INTEGER">>,          *)
(* <<"DECIMAL", width, scale>>, <<"LIST", element>>, <<"MAP", key, value>> *)
(* or <<"STRUCT", names, types>>.  Nullability is written and not read.    *)
(*                                                                         *)
(* A constant is [type, value, text]: value is a sequence of integers,     *)
(* none for NULL; text names the type whose printed form a string is.      *)
(* Types and constants that make the producer throw are left out.          *)
(***************************************************************************)
EXTENDS Integers, Sequences, SequencesExt

-----------------------------------------------------------------------------
(* Types.                                                                  *)

\* The producer has no unsigned and no 128-bit integers to write.
Kind ==
    [BOOLEAN |-> <<"bool">>, TINYINT |-> <<"i8">>,
     UTINYINT |-> <<"i16">>, SMALLINT |-> <<"i16">>,
     USMALLINT |-> <<"i32">>, INTEGER |-> <<"i32">>,
     UINTEGER |-> <<"i64">>, BIGINT |-> <<"i64">>,
     UBIGINT |-> <<"decimal", 38, 0>>, HUGEINT |-> <<"decimal", 38, 0>>,
     DATE |-> <<"date">>, TIME |-> <<"precision_timestamp", 6>>,
     TIME_TZ |-> <<"precision_timestamp", 6>>,
     TIMESTAMP_SEC |-> <<"precision_timestamp", 0>>,
     TIMESTAMP_MS |-> <<"precision_timestamp", 3>>,
     TIMESTAMP |-> <<"precision_timestamp", 6>>,
     TIMESTAMP_NS |-> <<"precision_timestamp", 9>>,
     TIMESTAMP_TZ |-> <<"precision_timestamp_tz", 6>>,
     INTERVAL |-> <<"interval_day">>, FLOAT |-> <<"fp32">>,
     DOUBLE |-> <<"fp64">>, VARCHAR |-> <<"string">>, BLOB |-> <<"binary">>,
     UUID |-> <<"uuid">>, ENUM |-> <<"user_defined">>]

Scalars == {<<id>> : id \in DOMAIN Kind} \cup {<<"DECIMAL", 18, 3>>}
NestedOver(S) ==
    {<<"LIST", t>> : t \in S} \cup {<<"MAP", <<"VARCHAR">>, t>> : t \in S}
    \cup {<<"STRUCT", names, <<t, <<"BLOB">>>>>> :
             names \in {<<"f0", "f1">>, <<"x", "y">>, <<"", "">>}, t \in S}
\* Every scalar, inside nothing, one or two nested types.
Types == Scalars \cup NestedOver(Scalars) \cup NestedOver(NestedOver(Scalars))

DuckToSubstraitType[t \in Types] ==
    CASE t[1] = "DECIMAL" -> <<"decimal", t[2], t[3]>>
      [] t[1] = "LIST"    -> <<"list", DuckToSubstraitType[t[2]]>>
      [] t[1] = "MAP"     -> <<"map", DuckToSubstraitType[t[2]],
                                      DuckToSubstraitType[t[3]]>>
      [] t[1] = "STRUCT"  -> <<"struct", [k \in DOMAIN t[3] |->
                                             DuckToSubstraitType[t[3][k]]]>>
      [] OTHER            -> Kind[t[1]]

\* The consumer's own names of the remaining kinds.
DuckId ==
    [bool |-> "BOOLEAN", i8 |-> "TINYINT", i16 |-> "SMALLINT",
     i32 |-> "INTEGER", i64 |-> "BIGINT", date |-> "DATE",
     string |-> "VARCHAR", binary |-> "BLOB", fp32 |-> "FLOAT",
     fp64 |-> "DOUBLE", uuid |-> "UUID", interval_day |-> "INTERVAL",
     user_defined |-> "NOT_IMPLEMENTED"]
TimestampOf(precision) ==
    CASE precision = 0 -> "TIMESTAMP_SEC" [] precision = 3 -> "TIMESTAMP_MS"
      [] precision = 6 -> "TIMESTAMP"     [] precision = 9 -> "TIMESTAMP_NS"
FieldNames == <<"f0", "f1">>

WrittenTypes == {DuckToSubstraitType[t] : t \in Types}

SubstraitToDuckType[s \in WrittenTypes] ==
    CASE s[1] = "decimal" -> <<"DECIMAL", s[2], s[3]>>
      [] s[1] = "precision_timestamp"    -> <<TimestampOf(s[2])>>
      [] s[1] = "precision_timestamp_tz" -> <<"TIMESTAMP_TZ">>
      [] s[1] = "list"    -> <<"LIST", SubstraitToDuckType[s[2]]>>
      [] s[1] = "map"     -> <<"MAP", SubstraitToDuckType[s[2]],
                                      SubstraitToDuckType[s[3]]>>
      [] s[1] = "struct"  -> <<"STRUCT", SubSeq(FieldNames, 1, Len(s[2])),
                               [k \in DOMAIN s[2] |->
                                   SubstraitToDuckType[s[2][k]]]>>
      [] OTHER            -> <<DuckId[s[1]]>>

\* The names that a column of this type has in a plan beside its own: those
\* of the fields of a struct, and of structs directly within it.
DepthFirstNames[t \in Types] ==
    IF t[1] # "STRUCT" THEN <<>>
    ELSE FlattenSeq([k \in DOMAIN t[3] |->
                        <<t[2][k]>> \o DepthFirstNames[t[3][k]]])
Total(counts) == FoldLeft(LAMBDA n, m : n + m, 0, counts)
SkipColumnNames[t \in Types] ==
    IF t[1] # "STRUCT" THEN 0
    ELSE Total([k \in DOMAIN t[3] |-> 1 + SkipColumnNames[t[3][k]]])

-----------------------------------------------------------------------------
(* Constants.                                                              *)

Constant(type, value) == [type |-> type, value |-> value, text |-> ""]
Text(value, text) == [type |-> <<"VARCHAR">>, value |-> value, text |-> text]

\* Constants that are written under their own kind, with their value.
Direct == [BOOLEAN |-> "boolean", SMALLINT |-> "i16", INTEGER |-> "i32",
           BIGINT |-> "i64", DATE |-> "date", FLOAT |-> "fp32",
           DOUBLE |-> "fp64"]
Printed == {"TIMESTAMP", "TIMESTAMP_SEC", "TIMESTAMP_MS", "TIMESTAMP_NS",
            "BLOB", "ENUM"}

Literal(kind, scale, value, text) ==
    [kind |-> kind, scale |-> scale, value |-> value, text |-> text]

\* An interval's value is <<months, days, micros>>; months win.
TransformInterval(value) ==
    IF value[1] # 0
    THEN Literal("interval_year_to_month", <<>>, <<0, value[1]>>, "")
    ELSE Literal("interval_day_to_second", <<6>>,
                 <<value[2], 0, value[3]>>, "")

TransformConstant(c) ==
    LET id == c.type[1] IN
    IF c.value = <<>> THEN Literal("null", <<>>, <<>>, "")
    ELSE
    CASE id \in DOMAIN Direct -> Literal(Direct[id], <<>>, c.value, "")
      [] id = "DECIMAL"    -> Literal("decimal", <<c.type[2], c.type[3]>>,
                                      c.value, "")
      [] id = "HUGEINT"    -> Literal("decimal", <<38, 0>>, c.value, "")
      [] id = "TIME"       -> Literal("precision_time", <<6>>, c.value, "")
      [] id = "TIMESTAMP_TZ" -> Literal("precision_timestamp_tz", <<6>>,
                                        c.value, "")
      [] id = "INTERVAL"   -> TransformInterval(c.value)
      [] id = "VARCHAR"    -> Literal("string", <<>>, c.value, c.text)
      [] id \in Printed    -> Literal("string", <<>>, c.value, id)

\* C++ division truncates towards zero.
ScaleToMicros(value, precision) ==
    LET unit == 10^(precision - 6) IN
    CASE precision > 6 -> IF value < 0 THEN -((-value) \div unit)
                          ELSE value \div unit
      [] precision < 6 -> value * 10^(6 - precision)
      [] OTHER         -> value

MicrosPerSecond == 1000000

TransformLiteralToValue(l) ==
    CASE l.kind = "null"    -> Constant(<<"SQLNULL">>, <<>>)
      [] l.kind = "string"  -> Text(l.value, l.text)
      [] l.kind = "decimal" -> Constant(<<"DECIMAL", l.scale[1], l.scale[2]>>,
                                        l.value)
      [] l.kind = "precision_time" -> Constant(<<"TIME">>, l.value)
      [] l.kind = "precision_timestamp_tz" ->
             Constant(<<"TIMESTAMP_TZ">>,
                      <<ScaleToMicros(l.value[1], l.scale[1])>>)
      [] l.kind = "interval_year_to_month" ->
             Constant(<<"INTERVAL">>, <<l.value[1] * 12 + l.value[2], 0, 0>>)
      [] l.kind = "interval_day_to_second" ->
             Constant(<<"INTERVAL">>,
                      <<0, l.value[1],
                        l.value[2] * MicrosPerSecond
                            + ScaleToMicros(l.value[3], l.scale[1])>>)
      [] OTHER -> Constant(<<CHOOSE id \in DOMAIN Direct :
                                 Direct[id] = l.kind>>, l.value)
=============================================================================
