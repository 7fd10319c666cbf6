-------------------------- MODULE FunctionRegistry --------------------------
(***************************************************************************)
(* How a function call finds its extension function.                       *)
(*                                                                         *)
(* SubstraitCustomFunctions (custom_extensions.cpp) ingests the functions  *)
(* that the Substrait extension YAMLs declare into three overload maps;    *)
(* DuckDBToSubstrait::RegisterFunction (to_substrait.cpp) looks a call up  *)
(* there and declares the function, and its URN, in the plan, once;        *)
(* SubstraitToDuckDB (from_substrait.cpp) reads the declarations back.     *)
(*                                                                         *)
(* The generated Initialize inserts in one fixed order; here it is any.    *)
(* Strings are taken apart no further than this: a compound name is the    *)
(* name and the short names of the declared types, a bare one the name.    *)
(***************************************************************************)
EXTENDS Integers, Sequences, FiniteSets, SequencesExt

CONSTANTS Declarations,   \* what the extension YAMLs declare
          AllTypes,       \* GetAllTypes(), what a placeholder stands for
          Placeholders,   \* any, any1, any2, ...
          Kinds,          \* the argument types that calls have
          Canonical,      \* CanonicalizeDeclaredType, as a function
          Calls,          \* the calls a plan may make: names and types
          MaxCalls        \* function calls in a plan

Types == [d \in Declarations |->
             [i \in DOMAIN d.types |-> Canonical[d.types[i]]]]

ShortName(type) == IF type \in Placeholders THEN "any" ELSE type
\* The table of short names is injective: they stand for the types.
CompoundName(name, types) ==
    <<name, [i \in DOMAIN types |-> ShortName(types[i])]>>
BareName(name) == <<name>>

CountAnyTypes(types) ==
    Cardinality({i \in DOMAIN types : types[i] \in Placeholders})

Expand(type) == IF type \in Placeholders THEN AllTypes ELSE {type}

\* The fewest arguments of a call: the last one repeats variadic_min times.
MinArguments(d) ==
    IF d.types = <<>> THEN d.variadic_min
    ELSE Len(d.types) - 1 + d.variadic_min

Entry(d) == [name |-> d.name, types |-> Types[d], urn |-> d.urn,
             min_arguments |-> MinArguments(d)]

RegistryAssumption ==
    /\ IsFiniteSet(Declarations)
    /\ \A d \in Declarations :
           /\ d.types \in Seq(DOMAIN Canonical)
           /\ d.variadic \in BOOLEAN /\ d.variadic_min \in Nat
           /\ d.urn \notin {"", "native"}
    /\ \A c \in Calls : c.types \in Seq(Kinds)
    /\ MaxCalls \in Nat
ASSUME RegistryAssumption

\* What holds of the declarations in custom_extensions_generated.cpp: two
\* of one compound name are of one extension, and variadic ones for the same
\* arguments agree on their number.
DeclarationAssumption ==
    \A d, e \in Declarations :
        /\ CompoundName(d.name, Types[d]) = CompoundName(e.name, Types[e])
               => d.urn = e.urn
        /\ (/\ d.name = e.name /\ d.variadic /\ e.variadic
            /\ d.types # <<>> /\ e.types # <<>>
            /\ Expand(Last(Types[d])) \cap Expand(Last(Types[e])) # {})
               => MinArguments(d) = MinArguments(e)
ASSUME DeclarationAssumption

VARIABLES
    ingested,             \* the declarations inserted, in their order
    custom_functions, any_arg_functions, variadic_functions,
    phase,                \* "ingest", "transform", "done", "failed", "read"
    strict,               \* DuckDBToSubstrait::strict
    extension_urns,       \* the plan's, in order
    extensions,
    extension_urn_map, functions_map, last_urn_id, last_function_id,
    errors,               \* what strict mode complains of
    calls,                \* the plan's function calls
    function_names        \* SubstraitToDuckDB::functions_map

registry == <<custom_functions, any_arg_functions, variadic_functions>>
plan == <<extension_urns, extensions, extension_urn_map, functions_map,
          last_urn_id, last_function_id, errors, calls>>
vars == <<ingested, registry, phase, strict, plan, function_names>>

Empty == [k \in {} |-> 0]

Init ==
    /\ ingested = <<>> /\ phase = "ingest" /\ strict \in BOOLEAN
    /\ custom_functions = Empty /\ any_arg_functions = Empty
    /\ variadic_functions = Empty
    /\ extension_urns = <<>> /\ extensions = <<>>
    /\ extension_urn_map = Empty /\ functions_map = Empty
    /\ last_urn_id = 1 /\ last_function_id = 1
    /\ errors = {} /\ calls = <<>> /\ function_names = Empty

-----------------------------------------------------------------------------
(* SubstraitCustomFunctions.                                               *)

\* The leaves of InsertAllFunctions.
Leaves(types) ==
    {leaf \in [DOMAIN types -> UNION {Expand(types[i]) : i \in DOMAIN types}] :
        \A i \in DOMAIN types : leaf[i] \in Expand(types[i])}

\* Mutant: of equally specific declarations the first one stays.
InsertOverloadFirstWins(overloads, keys, value) ==
    [k \in DOMAIN overloads \cup keys |->
        IF k \in keys
           /\ ~(/\ k \in DOMAIN overloads
                /\ CountAnyTypes(overloads[k].types)
                       <= CountAnyTypes(value.types))
        THEN value ELSE overloads[k]]

\* value claims every key that no more specific declaration holds.
InsertOverload(overloads, keys, value) ==
    [k \in DOMAIN overloads \cup keys |->
        IF k \in keys
           /\ ~(/\ k \in DOMAIN overloads
                /\ CountAnyTypes(overloads[k].types)
                       < CountAnyTypes(value.types))
        THEN value ELSE overloads[k]]

AnyArgKeys == [d \in Declarations |->
    IF d.types = <<>> THEN {<<d.name, <<>>>>} ELSE {}]
VariadicKeys == [d \in Declarations |->
    IF d.variadic /\ d.types # <<>>
    THEN {<<d.name, <<type>>>> : type \in Expand(Last(Types[d]))} ELSE {}]
CustomKeys == [d \in Declarations |->
    IF ~d.variadic /\ d.types # <<>>
    THEN {<<d.name, leaf>> : leaf \in Leaves(Types[d])} ELSE {}]

InsertFunction(d) ==
    /\ phase = "ingest"
    /\ d \notin ToSet(ingested)
    /\ ingested' = Append(ingested, d)
    /\ any_arg_functions' =
           InsertOverload(any_arg_functions, AnyArgKeys[d], Entry(d))
    /\ variadic_functions' =
           InsertOverload(variadic_functions, VariadicKeys[d], Entry(d))
    /\ custom_functions' =
           InsertOverload(custom_functions, CustomKeys[d], Entry(d))
    /\ UNCHANGED <<phase, strict, plan, function_names>>

InitializeReturns ==
    /\ phase = "ingest" /\ ToSet(ingested) = Declarations
    /\ phase' = "transform"
    /\ UNCHANGED <<ingested, registry, strict, plan, function_names>>

Native(name) == [name |-> name, types |-> <<>>, urn |-> "native",
                 min_arguments |-> 0]

PossiblyVariadic(types) == \A i \in DOMAIN types : types[i] = types[1]

Get(name, types) ==
    IF types = <<>> THEN
        IF <<name, <<>>>> \in DOMAIN any_arg_functions
        THEN any_arg_functions[<<name, <<>>>>] ELSE Native(name)
    ELSE IF <<name, types>> \in DOMAIN custom_functions
         THEN custom_functions[<<name, types>>]
    ELSE IF /\ PossiblyVariadic(types)
            /\ <<name, <<types[1]>>>> \in DOMAIN variadic_functions
            /\ Len(types) >=
                   variadic_functions[<<name, <<types[1]>>>>].min_arguments
         THEN variadic_functions[<<name, <<types[1]>>>>]
    ELSE Native(name)

IsNative(entry) == entry.urn = "native"
GetName(entry) == IF IsNative(entry) THEN BareName(entry.name)
                  ELSE CompoundName(entry.name, entry.types)

-----------------------------------------------------------------------------
(* DuckDBToSubstrait::RegisterFunction and the end of TransformPlan.       *)

\* The URN of a function found in the YAMLs, added to the plan if it is new.
AddExtensionUrn(entry) ==
    IF IsNative(entry) \/ entry.urn \in DOMAIN extension_urn_map
    THEN UNCHANGED <<extension_urns, extension_urn_map, last_urn_id>>
    ELSE /\ extension_urns' =
                Append(extension_urns, [urn |-> entry.urn,
                                        extension_urn_anchor |-> last_urn_id])
         /\ extension_urn_map' =
                [u \in DOMAIN extension_urn_map \cup {entry.urn} |->
                    IF u = entry.urn THEN last_urn_id
                    ELSE extension_urn_map[u]]
         /\ last_urn_id' = last_urn_id + 1

\* Mutant: the URN reference is taken from the counter, not from the map.
AddExtensionLastUrn(entry) ==
    LET name == GetName(entry)
    IN  IF name \in DOMAIN functions_map
        THEN UNCHANGED <<extensions, functions_map, last_function_id, errors>>
        ELSE /\ extensions' =
                    Append(extensions,
                        [function_anchor |-> last_function_id,
                         name |-> name,
                         extension_urn_reference |->
                             IF IsNative(entry) THEN 0 ELSE last_urn_id' - 1])
             /\ functions_map' =
                    [n \in DOMAIN functions_map \cup {name} |->
                        IF n = name THEN last_function_id
                        ELSE functions_map[n]]
             /\ last_function_id' = last_function_id + 1
             /\ errors' = errors \cup
                    (IF strict /\ IsNative(entry) THEN {name} ELSE {})

\* The function's declaration, added if its declared name is new.
AddExtension(entry) ==
    LET name == GetName(entry)
    IN  IF name \in DOMAIN functions_map
        THEN UNCHANGED <<extensions, functions_map, last_function_id, errors>>
        ELSE /\ extensions' =
                    Append(extensions,
                        [function_anchor |-> last_function_id,
                         name |-> name,
                         extension_urn_reference |->
                             IF IsNative(entry) THEN 0
                             ELSE extension_urn_map'[entry.urn]])
             /\ functions_map' =
                    [n \in DOMAIN functions_map \cup {name} |->
                        IF n = name THEN last_function_id
                        ELSE functions_map[n]]
             /\ last_function_id' = last_function_id + 1
             /\ errors' = errors \cup
                    (IF strict /\ IsNative(entry) THEN {name} ELSE {})

\* The reference that the call is given.
RegisterFunction(name, types) ==
    /\ phase = "transform" /\ Len(calls) < MaxCalls
    /\ LET entry == Get(name, types)
       IN  /\ AddExtensionUrn(entry)
           /\ AddExtension(entry)
           /\ calls' = Append(calls,
                  [name |-> name, types |-> types,
                   function_reference |-> functions_map'[GetName(entry)]])
    /\ UNCHANGED <<ingested, registry, phase, strict, function_names>>

\* Mutant: the collected errors are forgotten.
TransformPlanReturnsLenient ==
    /\ phase = "transform"
    /\ phase' = "done"
    /\ UNCHANGED <<ingested, registry, strict, plan, function_names>>

TransformPlanReturns ==
    /\ phase = "transform"
    /\ phase' = IF strict /\ errors # {} THEN "failed" ELSE "done"
    /\ UNCHANGED <<ingested, registry, strict, plan, function_names>>

\* Mutant: functions are numbered by their position in the plan.
ReadExtensionsByPosition ==
    /\ phase = "done"
    /\ phase' = "read"
    /\ function_names' = [a \in 0..Len(extensions) - 1 |->
                             extensions[a + 1].name]
    /\ UNCHANGED <<ingested, registry, strict, plan>>

\* SubstraitToDuckDB's constructor; of two with one anchor the last stays.
ReadExtensions ==
    /\ phase = "done"
    /\ phase' = "read"
    /\ LET At(a) == {i \in DOMAIN extensions :
                         extensions[i].function_anchor = a}
       IN  function_names' =
               [a \in {e.function_anchor : e \in ToSet(extensions)} |->
                   extensions[CHOOSE i \in At(a) :
                                  \A j \in At(a) : j <= i].name]
    /\ UNCHANGED <<ingested, registry, strict, plan>>

\* RemoveExtension: what stands before the colon of a compound name.
RemoveExtension(name) == name[1]
FindFunction(anchor) == RemoveExtension(function_names[anchor])

Next ==
    \/ \E d \in Declarations : InsertFunction(d)
    \/ InitializeReturns
    \/ \E c \in Calls : RegisterFunction(c.name, c.types)
    \/ TransformPlanReturns
    \/ ReadExtensions

Spec == Init /\ [][Next]_vars

-----------------------------------------------------------------------------
(* What a call means, by the declarations.                                 *)

AtLeastAsSpecific(i, j) ==
    LET ci == CountAnyTypes(Types[ingested[i]])
        cj == CountAnyTypes(Types[ingested[j]])
    IN  ci < cj \/ (ci = cj /\ j <= i)

\* i is the most specific, and of those the latest, of a set of declarations.
Best(i, candidates) ==
    i \in candidates /\ \A j \in candidates : AtLeastAsSpecific(i, j)

\* The arguments are those a declaration asks for.
Accepts(d, name, types) ==
    /\ d.name = name
    /\ IF d.variadic /\ d.types # <<>>
       THEN /\ types # <<>> /\ PossiblyVariadic(types)
            /\ types[1] \in Expand(Last(Types[d]))
            /\ Len(types) >= MinArguments(d)
       ELSE /\ Len(types) = Len(d.types)
            /\ \A i \in DOMAIN types : types[i] \in Expand(Types[d][i])

Accepting(name, types, variadic) ==
    {i \in DOMAIN ingested :
        /\ Accepts(ingested[i], name, types)
        /\ (ingested[i].variadic /\ ingested[i].types # <<>>) = variadic}

\* The declarations a call may be resolved to: a fixed one before a variadic.
Meant(name, types) ==
    IF Accepting(name, types, FALSE) # {} THEN Accepting(name, types, FALSE)
    ELSE Accepting(name, types, TRUE)

\* Through its reference a call reaches one function with that name and URN.
RefersTo(call, name, urn) ==
    \E i \in DOMAIN extensions :
        /\ \A j \in DOMAIN extensions :
               extensions[j].function_anchor = call.function_reference
                   <=> i = j
        /\ extensions[i].name = name
        /\ IF urn = "native" THEN extensions[i].extension_urn_reference = 0
           ELSE \E u \in DOMAIN extension_urns :
                   /\ \A v \in DOMAIN extension_urns :
                          extension_urns[v].extension_urn_anchor =
                              extensions[i].extension_urn_reference <=> u = v
                   /\ extension_urns[u].urn = urn

-----------------------------------------------------------------------------
(* Properties.                                                             *)

\* Whatever the order of ingestion, an overload map answers for exactly the
\* arguments that a declaration covers, with the most specific of them, and
\* with the latest of equally specific ones.
HoldsBest(overloads, keys) ==
    /\ DOMAIN overloads =
           UNION {keys[ingested[i]] : i \in DOMAIN ingested}
    /\ \A k \in DOMAIN overloads : \E i \in DOMAIN ingested :
           /\ Best(i, {j \in DOMAIN ingested : k \in keys[ingested[j]]})
           /\ overloads[k] = Entry(ingested[i])
OverloadsAreMostSpecific ==
    /\ HoldsBest(any_arg_functions, AnyArgKeys)
    /\ HoldsBest(variadic_functions, VariadicKeys)
    /\ HoldsBest(custom_functions, CustomKeys)

\* Every call of the plan refers to one declaration in it, that of the most
\* specific function accepting its arguments, under the URN of the extension
\* it comes from, or to a function without a URN if nothing accepts them.
CallsResolve ==
    \A c \in DOMAIN calls :
        LET call == calls[c]
            meant == Meant(call.name, call.types)
        IN  IF meant = {} THEN RefersTo(call, BareName(call.name), "native")
            ELSE \E i \in meant :
                /\ Best(i, meant)
                /\ RefersTo(call,
                            CompoundName(call.name, Types[ingested[i]]),
                            ingested[i].urn)

\* Strict mode rejects a plan if and only if it calls a function that no
\* extension declares for its arguments.
StrictIsExact ==
    phase \in {"done", "failed", "read"} =>
        (phase = "failed" <=>
            strict /\ \E c \in DOMAIN calls :
                          Meant(calls[c].name, calls[c].types) = {})

\* The consumer finds the name of the called function.
NamesComeBack ==
    phase = "read" => \A c \in DOMAIN calls :
        /\ calls[c].function_reference \in DOMAIN function_names
        /\ FindFunction(calls[c].function_reference) = calls[c].name
=============================================================================
