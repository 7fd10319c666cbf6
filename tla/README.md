# Verification of the DuckDB Substrait extension

The extension (`src/src`) translates between DuckDB plans and Substrait plans.
`get_substrait(query)` and `get_substrait_json(query)` plan a SQL query and
serialize the plan; `from_substrait(blob)` and `from_substrait_json(json)` parse
a Substrait plan and run it as a DuckDB relation. This directory models the
parts of it in which something can go wrong that a test hardly reaches, checks
them with TLC on small instances, and proves what matters most with TLAPS for
every value of the constants.

## 1. Inventory

| Component (source) | State | Operations | Interacts with |
|---|---|---|---|
| `get_substrait` session (`substrait_extension.cpp`) | `ToSubstraitFunctionData` per bound statement (finished flag, saved options); the caller's `ClientContext::config`; the database's `disabled_optimizers` and `scalar_subquery_error_on_multiple_rows` | bind, scan, `PrepareConnection`, `ExtractPlan`, `CleanupConnection`, serialize, verify | DuckDB's planner and optimizer on the caller's context; other connections through the database's options |
| `from_substrait` session (`substrait_extension.cpp`) | `FromSubstraitFunctionData` per bound statement (a connection, a relation, a result); a connection for each time the plan is consumed | bind as a replacement (plans that read), bind and execute (plans that write) | the consumer; the caller's transaction; other clients through the catalog and the tables |
| Producer, relations and expressions: `DuckDBToSubstrait` (`to_substrait.cpp`) | the plan being built, function and URN tables, names, errors | one handler per logical operator, expression, table filter, type and constant, recursive | rewrites the logical plan's projection maps while it walks it; function registry |
| Producer, where its recursion keeps state | `duplicate_elimination_sources`, `last_computation_id`, `cte_indices` | `TransformPlan`, `TransformCTE`, `TransformCTERef`, delim joins and delim gets | the consumer's table `ctes` |
| Function registry: `SubstraitCustomFunctions` (`custom_extensions.cpp`), `RegisterFunction` | three overload maps, filled once; the plan's functions, URNs and native functions | `Insert*`, `Get`, `RegisterFunction`, strict mode | declarations generated from YAML (`custom_extensions_generated.cpp`); the consumer's function table |
| Consumer: `SubstraitToDuckDB` (`from_substrait.cpp`) | the parsed plan, function table, CTE relations | one handler per Substrait relation, expression, type and literal, recursive | DuckDB's relation API |
| Consumer, lateral joins | `lateral_scopes` and the guards on the C++ stack | `TransformLateralJoinOp`, `ResolveOuterReference` | exceptions thrown below |

Hard behaviours and where they are treated:

* *Interleaving.* The database-wide options are saved, read again, written and
  restored without a lock held across these steps, while other connections do
  the same or `SET` them. `GetSubstrait`.
* *Transactions.* A plan is consumed on one connection and run on another: the
  catalog it was matched with and the snapshot it runs on may differ, and what
  it writes is committed on its own. `FromSubstrait`.
* *Exceptions half-way.* Any step of planning, optimizing, serializing,
  verifying or consuming may throw; what has been overwritten or pushed has to
  be taken back. `GetSubstrait`, `LateralScopes`.
* *Positions.* Substrait refers to columns, functions, relations and names by
  position or anchor; an operator that drops, reorders or duplicates columns
  must agree with the parent, which computes its own count. `RoundTrip`,
  `FunctionRegistry`, `SubPlans`.
* *Stacks.* Delim gets belong to the innermost enclosing delim join, and copies
  of that join's data side are transformed from inside it; references reach out
  of nested lateral joins. `SubPlans`, `LateralScopes`.
* *Near misses.* What Substrait lacks is written as what comes near: types,
  intervals, BETWEEN with an open bound, NOT LIKE. `RoundTrip`.
* *Order of ingestion.* Overlapping function declarations. `FunctionRegistry`.
* *Widths.* Row limits narrowed to 32 bits, counts of variadic arguments,
  `steps_out`. `RoundTrip`, `FunctionRegistry`, `LateralScopes`.

What makes each component correct: the session gives back every option and each
plan obeys the options as users set them; a plan that reads sees what its caller
sees, and one that writes is done once; the two translators compose to the
identity on plans; every delim get and reference comes back as the relation it
stands for; the registry resolves each call to the most specific declaration and
the plan says so; an outer reference means the enclosing join it names, and
nothing of a join outlives it.

## 2. Modules

| Module | What it is |
|---|---|
| `Conversion` | abstract: what a caller of `get_substrait` is promised, a conversion in one step |
| `GetSubstrait` | its session, one action per step of the code; implements `Conversion` when calls are serialized |
| `FromSubstrait` | the session of `from_substrait`, with the transactions and clients around it |
| `Relations`, `Expressions` | what logical operators and expressions compute, as rows of symbolic columns and as terms (DuckDB's, external) |
| `SubstraitTypes` | types and constants, to Substrait and back |
| `ExprToSubstrait`, `DuckDBToSubstrait` | the producer's handlers as operators |
| `ExprToDuckDB`, `SubstraitToDuckDB` | the consumer's handlers as operators |
| `Nesting` | recursion over expressions within expressions |
| `BoundExpressions` | the expressions that plans are built from, and which of them lose something |
| `RoundTrip` | composes them: plans are built bottom up, translated and consumed |
| `Queries` | plans of delim joins and CTEs, and the places in them (what an operator's rows depend on) |
| `SubPlans` | the producer's recursion over such plans |
| `SubPlansRoundTrip` | composes it with the consumer's table of relations |
| `LateralScopes` | the consumer's treatment of nested lateral joins |
| `FunctionRegistry` | registry, `RegisterFunction`, strict mode, the consumer's function table |
| `OperatorProofs` | lemmas about the operators of the round trip: expressions, constants and types there and back, and what each relation is consumed as |
| `...Proofs` | proofs about `GetSubstrait`, `FromSubstrait`, `SubPlans` with `SubPlansRoundTrip`, `LateralScopes`, `FunctionRegistry`, `RoundTrip` |
| `Recursion` | induction and recursive functions over data of finite height, and folds, for the proofs |
| `MC...` | instances for TLC |

A definition whose comment begins with `Mutant` is a plausible mistake in the
definition that follows it; each property of a passing run is violated when one
of them takes its place (`PROJECT.json` lists them).

### The session of get_substrait

`GetSubstrait` has one action per step between two accesses of shared state:
`SaveOptions` (the first half of `PrepareConnection`), `MergeForced` (which reads
the set of disabled optimizers a second time), `WriteOptions`, `CreatePlan`,
`RunOptimizer` (DuckDB looks the set up before each optimizer), `ExtractThrows`
(the catch block), `CleanupConnection`, `Serialize`, `Verify`. `pc` says where a
connection is, `data` is its statement's bind data, `config` its own options.
Users `SET` options and bind statements between executions. The C++ set of
disabled optimizers is copied and assigned without a lock, which is undefined
when two threads do it at once; the model treats each copy as one step, so what
it shows of races is the least that can happen.

`SerialSpec` lets no two conversions, and no `SET` and conversion, overlap.
Under it `IsAtomic` refines `Conversion`: each plan is the one that an
indivisible conversion under the users' own settings produces, however many
conversions came before and failed. Without it only weaker things hold
(`ConfigRestored`, `DamageIsBounded`, `OneRow`, `PlanHonoursParameter`).

### The session of from_substrait

`FromSubstrait` has one table, clients with transactions (snapshots, a write
conflict with any table change under way), and calls. DuckDB first asks
`SubstraitBindReplace`: it consumes the plan on a new connection, and a plan that
only reads becomes a table reference that the caller binds and runs itself
(`BindReplace`, `RunReference`). Anything else is consumed a second time by
`SubstraitBind` and run by `FromSubFunction` on a third connection; the bind data
stay for further executions of a prepared statement (`FetchAgain`). Between any
two of these steps other clients may create, alter or fill the table, and the
caller's own transaction may already have. What the model says of this, and the
code nowhere:

* a write through `from_substrait` is a transaction of its own: it survives the
  caller's rollback and the caller's open transaction does not see it;
* a table that the caller's open transaction created or altered is not seen (or
  not as altered) when the plan is consumed;
* positions computed from the committed columns are bound in the caller's
  snapshot: where the two differ the plan silently reads other columns. Hence
  `ColumnsAreThoseNamed` and `ReadsSucceed` speak of calls for which the table
  found is the table seen (`found`, a variable that the code does not have);
* a base schema is matched by name only if it is narrower than the table and the
  read has no projection; otherwise by position.

There is one caller among the two clients: what another caller does to it is
what another client does. Column names are unique in a table
(`SchemasAssumption`). Schema and rows of one table stand for the catalog; the
plans are reads of it and appends to it, as what plans compute is `RoundTrip`'s.

### The round trip

A logical plan is a relation over symbolic columns: `Relations` gives each
operator its result and `Expressions` each expression its value. `RoundTrip`
keeps a stack of plans that have no parent yet; an action puts one operator on
the topmost plans, translates it as the producer does, and applies the consumer
to what comes out. `ComesBack` compares each consumed plan with the logical one.
Values are terms, so two plans are equal only if every column comes from the
same place. `LeftCountExact` is about the count by which references to a join's
right side are shifted; the producer computes it from projection maps of its
left child that a deeper call has overwritten. `ResultNamesComeBack` and
`WritesComeBack` are about the last operator: the root with its names, CREATE
TABLE AS, INSERT and DELETE.

All operators over all operators would be too many, so each behaviour draws its
plan from one of eleven menus, each of which brings together what interacts:

| Menu | Operators and bounds |
|---|---|
| `unary` | every operator with one child, three deep, lists of two, limits 0, 3 and 9 |
| `joins` | joins, filters, cross products and set operations, five operators, three at a time; tables of one and two columns |
| `reads` | scans that project, extract fields of structs, select row ids, filter; up to two operators on top, and DELETE |
| `frames` | every pair of frame bounds in ROWS, RANGE and GROUPS |
| `types` | empty results of every type, constants of every kind with zero, negative and fractional values |
| `values` | rows that no table holds, under other operators |
| `roots` | queries, CREATE TABLE AS and INSERT over tables with nested structs |
| `expressions` | all scalar expressions, two levels deep, over columns of four types, in filters and projections |
| `keys` | expressions as sort, group and partition keys and as arguments of aggregates and window functions, under all function names |
| `operands` | expressions on both sides of join conditions |
| `rows` | projections that make rows, and the names of their fields |

Two columns and lists of two entries are enough to tell a column from its
neighbour; a join of joins has every kind of child that changes a count; the join
types in `joins` and `operands` are one of each shape of result. An expression's
handler sees its operands only through their translation, so two levels show
what it does to each, and with what translating adds no expression is nested
deeper than `MaxNesting` (TLC would stop with an error at one that is). Four bits
stand for the producer's 32 (`IntBits`), and 9 is
a limit that does not fit.

`Beyond` names plans that the code is known not to bring back; `MCRoundTrip.cfg`
leaves it empty. Adding a name in a copy of that configuration shows a property
violated: `LeftCountExact` for `rowid_dropped`, `ResultNamesComeBack` for
`nested_root` and `second_row`, `WritesComeBack` for `other_catalog`,
`insert_columns`, `other_delete` and `nested_create`, `ComesBack` for the others.
`scattered_windows` needs a menu with windows and lists of three.

| `Beyond` | Code | What happens |
|---|---|---|
| `repeated_ref` | to_substrait.cpp:1058 | `SELECT a, b, a` loses its third column: no emit mapping is written (run `repeated`) |
| `compared_operand` | to_substrait.cpp:453 | a comparison, CASE, BETWEEN, IN or row as the right operand of a join condition is not shifted to the right side |
| `large_limit` | to_substrait.cpp:1137 | LIMIT and OFFSET are cut to 32 bits |
| `wide_mark` | to_substrait.cpp:1384 | a MARK join whose right side has several columns |
| `distinct_on` | to_substrait.cpp:2361 | DISTINCT ON becomes DISTINCT |
| `aggregate_filter` | to_substrait.cpp:1494 | FILTER (WHERE ...) of an aggregate is dropped |
| `scattered_windows` | to_substrait.cpp:1605 | window functions of one specification that do not stand together come back in another order |
| `null_orders` | to_substrait.cpp:1559 | specifications that differ only in NULLS FIRST or LAST are merged |
| `groups_frame` | to_substrait.cpp:1716 | a GROUPS frame is written as one of ROWS |
| `except_all` | to_substrait.cpp:2395 | EXCEPT ALL becomes EXCEPT |
| `distinct_of_three` | to_substrait.cpp:2343 | DISTINCT over three inputs keeps two |
| `rowid_dropped`, `rowid_used` | to_substrait.cpp:2217 | a row id leaves no column, or column 0 in its place |
| `struct_filter` | to_substrait.cpp:763 | a pushed filter on a struct's field is written as one on column 0 |
| `other_schema` | to_substrait.cpp:2031 | a read names the table without its schema |
| `other_catalog`, `insert_columns` | to_substrait.cpp:2474 | a write names no catalog, an INSERT no columns |
| `other_delete` | from_substrait.cpp:1766 | a DELETE over anything but a filtered scan |
| `nested_root`, `nested_create` | from_substrait.cpp:1866 | the names of struct fields are taken for those of columns |
| `second_row` | include/from_substrait.hpp:19 | the names of a row's fields are looked for by counting computed columns only |
| `lossy_types`, `lossy_literals` | to_substrait.cpp:217, :258 | intervals with months lose their days, unsigned integers grow, some types are printed |
| `empty_projected` | from_substrait.cpp:1168 | an empty result of no columns under operators that add some |
| `exclusive_between` | to_substrait.cpp:457 | a BETWEEN with an exclusive bound gets inclusive ones |
| `try_cast` | to_substrait.cpp:325 | TRY_CAST becomes CAST |
| `string_patterns` | from_substrait.cpp:546 | `<>` with a string comes back as NOT LIKE, NOT LIKE of two columns as `<>` |
| `wide_substring` | to_substrait.cpp:376 | positions of substring are cut to 32 bits |
| `octet_length` | from_substrait.cpp:67 | `octet_length` of a blob comes back as `strlen` |
| `struct_pack` | to_substrait.cpp:402 | the names of the fields are lost |
| `first` | to_substrait.cpp:44 | the aggregate `first` comes back as `any_value`, which skips NULLs |

### Delim joins and CTEs

`SubPlans` has the C++ call stack as `frames`, one frame for each `TransformOp`
that runs, the members `duplicate_elimination_sources` (`sources`),
`last_computation_id` and `cte_indices`, and the messages made so far as `rels`,
where a pointer is a position. A delim get is replaced by an aggregation over a
copy of its join's data side, made by transforming that side again from where
the get stands; the join's own source is hidden meanwhile, for otherwise the
copy would contain itself. `scope`, which the code does not have, is the chain
of delim joins that enclose the operator in the query: `SourcesAreLexical` says
that the stack, whatever was pushed, hidden and put back on the way, is that
chain. `LoadsMatchSaves` is about the hints: the relation a copy is marked to
load is equal to the only one marked to be saved under that id.

`SubPlansRoundTrip` adds the consumer: its own call stack (`calls`; the two
inputs of a join are arguments of one C++ call and are built in either order)
and the table of relations that references look up (`ctes`). `Meaning` reads the
query's relation off the enclosing joins and the bodies of its CTEs, by
recursion over the places of `Queries`: a place is an operator with the CTEs it
may refer to and the delim joins around it, and its parts are the places whose
rows it reads. `QueryComesBack` compares the two. `OnlyNestedCTEsFail`: a CTE
below the top makes the one kind of plan that is rejected.

### Lateral joins

`LateralScopes` has the C++ call stack as `frames`, one for each running
`TransformLateralJoinOp`, and the member `lateral_scopes`. The plan is not given:
what comes next in it is chosen, so all plans of the given depth are explored.
Any relation or expression may throw (`Throw`), and the guards then unwind
(`Unwind`). `ReferencesResolve` asks, of every position in every plan and every
reference, whether `ResolveOuterReference` finds the column of the join that is
meant, where "meant" is read off the call stack and not off the scopes. Run
`double_pop` shows the exception: `pushed_scope = false` (from_substrait.cpp:1067)
does not disarm the guard, so a `post_join_filter` on a nested lateral join pops
the enclosing join's scope too. `NestedPostFilters = FALSE` leaves these plans
out of run `lateral`.

### Functions

`FunctionRegistry` ingests the declarations in any order (the generated code has
one), then registers calls, then reads the plan's declarations back. `ingested`
and `calls` are there for the properties only: the code keeps no list of them.
The properties say what a call means by the declarations (`Accepts`, `Meant`,
`Best`) and not by the maps. `DeclarationAssumption` states what the argument
rests on, and what holds of the 499 generated declarations: no compound name is
declared by two extensions (the plan's table is keyed by that name alone), and
variadic declarations for the same type agree on their minimum. The empty-URN
exception of `RegisterFunction` is unreachable under `RegistryAssumption`.

## 3. Runs

| Run | Instance | Shows |
|---|---|---|
| `serial` | two connections, one forced and one other optimizer, serialized calls | options restored, plans respect them, refinement of `Conversion`, executions end |
| `concurrent` | the same, all interleavings, exceptions everywhere, verification | what survives without serialization |
| `leak` (violation) | the same without verification | a race leaves the forced optimizers disabled for good |
| `scalar` (violation) | one connection | `scalar_subquery_error_on_multiple_rows` is never restored |
| `round_trip` | the eleven menus above | plans, their names and their writes come back, left count exact |
| `repeated` (violation) | one projection with a repeated column | loses the column |
| `lateral` | depth four, two anchors, references off by one on each side | references resolve, no scope is left |
| `double_pop` (violation) | depth two, nested post filters | the enclosing scope is lost |
| `registry` | five declarations in any order, eight calls, three per plan | overloads, references, strict mode, names |
| `sub_plans` | all trees of up to three joins, delim or not, up to two CTEs | sources are lexical, queries come back, hints match, translation ends |
| `from_substrait` | two clients, one of them calling; a table absent or with its two columns in either order; reads of all, some and reordered columns, an append | reads are the caller's, writes are done once and stay, calls end |
| `from_settings` (violation) | one client, an append | a plan that writes is optimized under default settings |

Bounds. Two connections make every race of one save with one restore or `SET`;
a third adds none of another shape to a set that is only ever copied. One forced
and one other optimizer tell a lost user setting from a leaked forced one. Three
calls per plan are the fewest in which a function comes from an extension
declared neither last nor first by it (two calls miss a reference taken from the
URN counter). Depth four is beyond any `steps_out` that is off by one or two at
either end. Two nested joins are the fewest in which a copy holds a get of
another join, or a whole delim join; with three both happen in one copy. Ten
frames (`MaxFrames`) are never reached, so no plan is cut short. Two columns in either order tell
positions from names.

Deadlock is checked for both sessions, which never stop. The other systems do:
a plan has a last operator, a thrown conversion ends, the bounds end the rest;
their configurations say `CHECK_DEADLOCK FALSE`.

Fairness. In both sessions it is weak fairness of `CallStep` for each
connection: a statement that has started is run to its end by the thread that
executes it; nothing obliges a user to bind or execute one, or to end a
transaction. `ExecutionEnds` and `CallsEnd` need it. `SpecAll` has weak fairness
of its next-state relation, since one thread runs both translations and waits
for nobody; `TranslationEnds` needs it, and fails when a source is visible to
its own copy.

## 4. Proofs

`GetSubstraitProofs`, for any connections, optimizers and settings: type
correctness, `OneRow`, `ConfigRestored`, `PlanHonoursParameter` and
`DamageIsBounded` under every interleaving; for serialized calls
`SettingsRestored`, `PlanRespectsSettings` and the refinement of `Conversion`
(`IsAtomic`). `PlanHonoursParameter` rests on the invariant of `ConfigRestored`:
inside the window the decision of the call stands in the connection's own
options, where `CreatePlan` finds it. The argument for the serialized ones is an
invariant that follows the one conversion that may be under way: while it is in
its window its saved set is the users', and the shared set is the users' before
`WriteOptions`, the users' with the forced ones after it.

`FromSubstraitProofs`, for any clients, callers, tables and plans under the
three assumptions: type correctness (which says that plans that read never
reach `FromSubFunction`), `ReadsAreTheCallers`, `ColumnsAreThoseNamed`,
`ReadsSucceed`, `WritesAreDoneOnce`, `WritesStay`. The middle two need an
invariant about a call that waits at its reference: its positions are those of
the one table found, so what is left is that positions in a table that fits lead
to the named columns.

`SubPlansProofs`, for any queries: `SourcesAreLexical`, `SourcesAreEmptied` and
`LoadsMatchSaves`. The invariant of the first two (`IInv`) extends the claim to
all frames: each frame's scope is the one its caller gives it - the caller's
own, one longer on a scan side, one shorter for the copy of a delim get - and a
delim get that waits for its copy keeps the source it has hidden. Returning then
undoes what calling did. The hints need more (`HintsInv`): every relation is made
at a place of the query (`origin`), every id stands for the place of a join's
data side (`data`), also in the scopes that copies are made from; a relation
that carries an id was made at the id's place; no id is saved while its join
waits for its data side, and from then on one relation is, unless it is a
reference, which has nowhere to carry the mark. Two relations made at one place
are equal, by induction over their inputs.

Of the composed `SubPlansRoundTrip`, for any queries under `PlacesAssumption` and
`HeightAssumption`: `QueryComesBack` and `OnlyNestedCTEsFail`. The producer's half
of the invariant (`ProducerMeans`) gives each relation its meaning: each call
under way is at a place of the query, the calls it has made so far left the
meanings of its parts, in the order in which it asked for them, and the CTEs
already in the plan are the known ones, in order; `Phase` says what is left of
the plan. A CTE in the way (`CTEs`) is carried along: a call whose place has one
below it can only occur in a query that is rejected. The consumer's half
(`ConsumerMeans`) says that each call of its stack has built what some of its
inputs mean, so that the order does not matter, and that `ctes` are the meanings
of the relations before the one being read. `ConsumerOnlyReads` carries what
holds of `SubPlans` over to the composed system.

`Meaning`, `CTEs` and `Plain` are recursive functions. That they are functions at
all, and that a claim holds of every place if it is passed on from its parts, is
shown in `Recursion` for any step, parts and height; these are CONSTANTs of that
module, and the proofs instantiate it (`INSTANCE Recursion WITH ...`), because
the provers cannot apply a theorem to an operator. The same module shows what a
`FoldLeft` over a sequence passes on.

`RoundTripProofs`, for any menu under `BoundsAssumption` and `TablesAssumption`
(tables and results have a column, joins a type that DuckDB has), in which scans
drop no row ids: `LeftCountExact`. For every other operator the producer counts
the columns of the plan, and the claim is about plans whose relation has as many
(`Aligned`; a scan that drops a trailing row id has fewer, and no operator that
counts stands on one). For a join it adds up, or picks, the sizes of projection
maps that translating that join has filled in. So the invariant (`IInv`) says of
each join waiting on the stack that what `LeftColumnCount` would make of it is
the width of its relation, whatever its type: the relation ends with a projection
that maps as many fields, and a projection with a mapping that is not empty has
the mapping's width whatever is below it. That the mapping is not empty is where
the rest of `IInv` comes in: every plan has a column.

`LateralScopesProofs`, for any anchors, widths and depth: `TypeOK`;
`NoScopeLeft`, also with nested post filters; `ReferencesResolve` if there are
none. The last needs to know whose the scopes are: the invariant maps each
position of `lateral_scopes` to a frame that pushed it, increasingly, and onto
all frames that declare an anchor and have not popped; counting frames from the
inside is then counting scopes.

`FunctionRegistryProofs`, for any declarations under the two assumptions and
plans of any length: `OverloadsAreMostSpecific`, `CallsResolve`,
`StrictIsExact`, `NamesComeBack`. `InsertKeepsBest` shows that one insertion
keeps a map right; `GetResolves` that a lookup in right maps gives what the
declarations mean; the invariant then says that anchors are positions, that
each declaration in the plan is that of some entry with its URN, and that each
call refers to the entry it resolves to. That the table is keyed by name is
sound because a name determines the URN (`NameDeterminesUrn`), which is where
`DeclarationAssumption` is used.

`OperatorProofs`, for any columns, and `RoundTripProofs`, for any menu of simple
expressions under the assumptions of `RoundTrip`: `ExpressionsComeBack` and
`ComesBack` (`PlansComeBack`). An expression is one of those that `Beyond` leaves;
the proof goes over the kinds of expression once, for a node whose operands come
back (`Returns`), and then from the leaves up to four levels, since an induction
over expressions of any depth is out of reach. A node's value is a function of its
operands' values (`ValueOf`), as its translations are (`TransformExprOn`), so a
node comes back wherever its operands do.

A menu is simple (`IsSimple`) when its expressions are columns, constants, one
call or comparison of them, and rows made of them, its types, constants and
functions those that Substrait has, and it has no windows and no partial scans.
That leaves any number of operators in any order, lists of any length, any
tables, all join types and set operations of two and three inputs. The invariant
(`RInv`) says more of each plan than `ComesBack`: its columns are equal wherever
they are not row ids (`Restored`), not only such that an empty result's types
hold what the query's do, for an operator above may compare or cast them; and
under a DISTINCT that is not translated a set
operation's inputs are what `parts` says (`IsSetOf`), so that consuming it anew
gives the same relation without duplicates. Of a projection, the emit mapping
(`ProjectionOf`) is the hard part: a list in which no reference repeats is split
into those that pass through and those that are computed, and the mapping, or its
absence when all columns lead the list in order, picks each from where
`TransformProjectOp` puts it. Of a join, the condition's right operand is shifted
by the width `LeftCountExact` is about, so `IInv` is used along with `RInv`.
`PowersAssumption` is a fact of arithmetic that the provers do not have: with it,
a limit that fits comes back as it is.

Only model-checked: liveness (`ExecutionEnds`, `CallsEnd`, `TranslationEnds`),
which is out of the prover's reach; of the round trip `ResultNamesComeBack` and
`WritesComeBack`, and `ComesBack` for menus that are not simple: windows (whose
regrouping by signature is a permutation of a list), partial scans, types that
come back wider, and nested expressions within plans. For these the theorem about
expressions says that each comes back by itself; what is left is that the plans
hold only such expressions.

## 5. Not modelled

* Protobuf encoding and JSON: the messages are records here. DuckDB itself, of
  which the models keep what the extension uses.
* The generated declarations: data, taken as a parameter under stated
  assumptions.
* Parquet, Iceberg and local files in reads and the names of several parts that
  only other producers write: one-step translations of paths to table functions.
* `output_type` of functions and measures: written, never read back.
* FILTER, IGNORE NULLS and EXCLUDE of window functions and ORDER BY within
  aggregates: the producer does not look at them, as it does not at the FILTER of
  an aggregate (`aggregate_filter`), so such a plan loses them. The offset and
  default of LAG and LEAD, and `GetCommon`'s other fields.
* Every lateral scope has the alias `left` (from_substrait.cpp:454): a column
  that two nested left sides share by name is looked up by DuckDB's binder, which
  is not part of this repository; the model resolves the scope, not the name.
* Which types a placeholder such as `any1` stands for is data
  (custom_extensions.cpp:30), as is that each placeholder of a declaration
  expands on its own (custom_extensions.cpp:191): the registry agrees with its
  declarations as they are expanded.

## 6. Plan

Left for later work, in this order:

1. The index shift of a condition that is extracted from a `post_join_filter`,
   composed with `RoundTrip`'s relations.
2. Files and names of several parts in `SubstraitToDuckDB`, if the producer
   comes to write them.
3. `PlansComeBack` for menus with windows, partial scans and nested expressions.
