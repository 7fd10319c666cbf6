-------------------------- MODULE RoundTripProofs --------------------------
(***************************************************************************)
(* What holds of every plan that a behaviour builds, of whatever menu: the *)
(* width that TransformComparisonJoin takes for its left input is the one  *)
(* that input has, and plans of a simple menu come back.                   *)
(***************************************************************************)
EXTENDS OperatorProofs

PlanInv(p) == HasColumns(p.logical) /\ JoinIsExact(p)

IInv == /\ IsSeq(stack) /\ menu \in DOMAIN Menus
        /\ \A k \in 1..Len(stack) : PlanInv(stack[k])

-----------------------------------------------------------------------------
(* Plans.                                                                  *)

LEMMA NoPlanIsInv == stack = <<>> /\ menu \in DOMAIN Menus => IInv
<1>1. IsSeq(<<>>) /\ Len(<<>>) = 0
  BY DEF IsSeq
<1>. QED  BY <1>1 DEF IInv

LEMMA PutKeepsInv ==
    ASSUME IInv, NEW n \in 0..Len(stack), NEW plan, PlanInv(plan), Put(n, plan)
    PROVE  IInv'
<1> DEFINE rest == SubSeq(stack, 1, Len(stack) - n)
<1>1. /\ IsSeq(rest) /\ Len(rest) \in Nat
      /\ \A k \in 1..Len(rest) : PlanInv(rest[k])
  <2>1. Len(stack) \in Nat /\ IsSeq(stack)
    BY DEF IInv, IsSeq
  <2>2. /\ IsSeq(rest) /\ Len(rest) = Len(stack) - n
        /\ \A k \in 1..Len(stack) - n : rest[k] = stack[k]
    BY <2>1, BelowIsSeq
  <2>3. Len(rest) \in Nat
    BY <2>2 DEF IsSeq
  <2>4. ASSUME NEW k \in 1..Len(rest)
        PROVE  rest[k] = stack[k] /\ k \in 1..Len(stack)
    BY <2>1, <2>2
  <2>5. ASSUME NEW k \in 1..Len(rest)
        PROVE  PlanInv(rest[k])
    <3>1. PlanInv(stack[k])
      BY <2>4 DEF IInv
    <3>. QED  BY <2>4, <3>1, Zenon
  <2>. QED  BY <2>2, <2>3, <2>5, Zenon
<1>. HIDE DEF rest
<1> DEFINE new == Append(rest, plan)
<1>2. /\ IsSeq(new) /\ Len(new) = Len(rest) + 1 /\ new[Len(rest) + 1] = plan
      /\ \A k \in 1..Len(rest) : new[k] = rest[k]
  BY <1>1, AppendIsSeq
<1>3. ASSUME NEW k \in 1..Len(new)
      PROVE  PlanInv(new[k])
  <2>1. CASE k \in 1..Len(rest)
    <3>1. new[k] = rest[k] /\ PlanInv(rest[k])
      BY <1>1, <1>2, <2>1
    <3>. QED  BY <3>1, Zenon
  <2>2. CASE k = Len(rest) + 1
    BY <1>2, <2>2
  <2>3. k \in 1..Len(rest) \/ k = Len(rest) + 1
    BY <1>1, <1>2
  <2>. QED  BY <2>1, <2>2, <2>3
<1>4. stack' = new /\ menu' = menu
  BY DEF Put, rest
<1>. HIDE DEF new
<1>5. /\ IsSeq(stack') /\ menu' \in DOMAIN Menus
      /\ \A k \in 1..Len(stack') : PlanInv(stack'[k])
  BY <1>2, <1>3, <1>4 DEF IInv
<1>. QED  BY <1>5 DEF IInv, PlanInv, JoinIsExact

\* A plan that is no join keeps what its columns are.
LEMMA PlanIsInv ==
    ASSUME NEW kind, NEW logical, HasColumns(logical), NEW consumed
    PROVE  PlanInv(Plan(kind, logical, consumed))
BY DEF PlanInv, JoinIsExact, Plan, NoJoin

LEMMA LeafKeepsInv ==
    ASSUME IInv, NEW kind, NEW logical, HasColumns(logical), NEW consumed,
           Leaf(kind, logical, consumed)
    PROVE  IInv'
<1>1. 0 \in 0..Len(stack)
  BY DEF IInv, IsSeq
<1>. QED  BY <1>1, PlanIsInv, PutKeepsInv DEF Leaf

LEMMA UnaryKeepsInv ==
    ASSUME IInv, Len(stack) >= 1,
           NEW kind, NEW logical, HasColumns(logical), NEW nodes,
           Unary(kind, logical, nodes)
    PROVE  IInv'
<1>1. 1 \in 0..Len(stack)
  BY DEF IInv, IsSeq
<1>. QED  BY <1>1, PlanIsInv, PutKeepsInv DEF Unary

LEMMA EndsKeepsInv ==
    ASSUME IInv, NEW kind, NEW logical, HasColumns(logical), NEW consumed,
           Ends(kind, logical, consumed)
    PROVE  IInv'
<1>1. 1 \in 0..Len(stack)
  BY DEF Ends
<1>2. Put(1, Plan(kind, logical, Relation(consumed, Spine(kind))))
  BY DEF Ends
<1>. QED  BY <1>1, <1>2, PlanIsInv, PutKeepsInv

LEMMA TopHasColumns ==
    ASSUME IInv, Len(stack) >= 1
    PROVE  HasColumns(Top.logical)
<1>1. Len(stack) \in 1..Len(stack)
  BY DEF IInv, IsSeq
<1>. QED  BY <1>1 DEF IInv, PlanInv, Top

-----------------------------------------------------------------------------
(* Actions without an operand.                                             *)

LEMMA GetKeepsInv ==
    ASSUME IInv, NEW location, NEW types \in Menu.tables, NEW get \in Gets(types),
           LogicalGet(location, types, get)
    PROVE  IInv'
<1> DEFINE name == steps
           table == Table(location[1], location[2], name, types)
           item(i) == CASE IsRowId(i) -> RowId(table)
                        [] ~IsRowId(i) /\ i.part = Producer!Whole ->
                               Field(table.cols, i.col)
                        [] OTHER -> Value(Expr(i.part, <<Ref(i.col)>>), table.cols)
           used == {f \in get.table_filters : f.filter.op # "optional"}
           scan == Filter(table, {Over(f.filter, Ref(f.col)) : f \in used})
           cols == [k \in DOMAIN Output(get) |-> item(Output(get)[k])]
           logical == [scan EXCEPT !.cols = cols]
           nodes == Producer!TransformGet(name, get)
           consumed == TransformChain(TransformReadOp(Head(nodes), types),
                                      Tail(nodes))
<1>1. Leaf("get", logical, consumed)
  BY DEF LogicalGet
<1>. HIDE DEF item, used, nodes, consumed
<1>2. menu \in DOMAIN Menus
  BY DEF IInv
<1>3. HasColumns(table)
  <2>1. IsList(types)
    BY <1>2, TypesAreLists
  <2> DEFINE made == [k \in DOMAIN types |-> <<"col", name, k, types[k]>>]
  <2>2. IsList(made)
    BY <2>1, EachIsList
  <2>3. table = [rows |-> <<"table", location[1], location[2], name>>,
                 cols |-> made]
    BY DEF Table
  <2>. HIDE DEF made, table
  <2>. QED  BY <2>2, <2>3, MadeHasColumns
<1>. HIDE DEF table
<1>4. HasColumns(scan)
  BY <1>3, FilterHasColumns
<1>5. IsList(cols)
  BY <1>2, OutputIsList, EachIsList
<1>. HIDE DEF scan, cols
<1>6. HasColumns(logical)
  BY <1>4, <1>5, NewColumns
<1>. HIDE DEF logical
<1>. QED  BY <1>1, <1>6, LeafKeepsInv

LEMMA DummyScanKeepsInv ==
    ASSUME IInv, LogicalDummyScan
    PROVE  IInv'
<1>1. HasColumns([rows |-> <<"values", 1>>, cols |-> <<Garbage>>])
  BY SingletonIsList, MadeHasColumns
<1>. QED  BY <1>1, LeafKeepsInv DEF LogicalDummyScan

LEMMA EmptyResultKeepsInv ==
    ASSUME IInv, NEW types \in Menu.empties, LogicalEmptyResult(types)
    PROVE  IInv'
<1> DEFINE cols == [k \in DOMAIN types |-> <<"empty", types[k]>>]
<1>1. IsList(types)
  BY TypesAreLists DEF IInv
<1>2. IsList(cols)
  BY <1>1, EachIsList
<1>3. NoRows(types) = [rows |-> <<"values", 0>>, cols |-> cols]
  BY DEF NoRows
<1>. HIDE DEF cols
<1>4. HasColumns(NoRows(types))
  BY <1>2, <1>3, MadeHasColumns
<1>. QED  BY <1>4, LeafKeepsInv DEF LogicalEmptyResult

LEMMA ExpressionGetKeepsInv ==
    ASSUME IInv, NEW list \in Lists({<<c>> : c \in Constants}),
           LogicalExpressionGet(list)
    PROVE  IInv'
<1> DEFINE cols == [k \in DOMAIN Head(list) |->
                       <<"entries", [i \in DOMAIN list |-> list[i][k]]>>]
<1>1. IsList(list)
  BY ListsAreLists DEF IInv
<1>2. IsList(Head(list))
  <2>1. PICK n \in 1..Menu.list : list \in [1..n -> {<<c>> : c \in Constants}]
    BY DEF Lists
  <2>2. n \in Nat /\ n # 0
    BY BoundsAssumption, <2>1 DEF IInv, Menu
  <2>3. list[1] \in {<<c>> : c \in Constants}
    BY <2>1, <2>2
  <2>4. Head(list) = list[1]
    BY <1>1 DEF IsList, IsSeq
  <2>5. PICK c \in Constants : list[1] = <<c>>
    BY <2>3
  <2>. QED  BY <2>4, <2>5, SingletonIsList
<1>3. IsList(cols)
  BY <1>2, EachIsList
<1>4. ValuesList(list) = [rows |-> <<"values", Len(list)>>, cols |-> cols]
  BY DEF ValuesList
<1>. HIDE DEF cols
<1>5. HasColumns(ValuesList(list))
  BY <1>3, <1>4, MadeHasColumns
<1>. QED  BY <1>5, LeafKeepsInv DEF LogicalExpressionGet

-----------------------------------------------------------------------------
(* Actions on one plan.                                                    *)

LEMMA FilterKeepsInv ==
    ASSUME IInv, Len(stack) >= 1, NEW conditions, NEW map \in Maps(UsableOf(1)),
           LogicalFilter(conditions, map)
    PROVE  IInv'
<1> DEFINE r == Filter(Top.logical, conditions)
           logical == IF map = <<>> THEN r ELSE Pick(r, map)
           nodes == Producer!TransformFilter(Child(Top), conditions, map)
<1>1. Unary("filter", logical, nodes)
  BY DEF LogicalFilter
<1>. HIDE DEF nodes
<1>2. HasColumns(r)
  BY TopHasColumns, FilterHasColumns
<1>. HIDE DEF r
<1>3. HasColumns(logical)
  BY <1>2, MapsAreLists, PickHasColumns DEF IInv
<1>. HIDE DEF logical
<1>. QED  BY <1>1, <1>3, UnaryKeepsInv

LEMMA ProjectionKeepsInv ==
    ASSUME IInv, Len(stack) >= 1, NEW S, NEW cols,
           NEW list \in ProjectionLists(S, cols), LogicalProjection(list)
    PROVE  IInv'
<1>1. IsList(list)
  BY ListsAreLists DEF ProjectionLists, IInv
<1>2. HasColumns(Project(Top.logical, list))
  BY <1>1, TopHasColumns, ProjectHasColumns
<1> DEFINE nodes == Producer!TransformProjection(Child(Top), list)
<1>3. Unary("other", Project(Top.logical, list), nodes)
  BY DEF LogicalProjection
<1>. HIDE DEF nodes
<1>. QED  BY <1>2, <1>3, UnaryKeepsInv

LEMMA OrderKeepsInv ==
    ASSUME IInv, Len(stack) >= 1, NEW orders, NEW map \in Maps(UsableOf(1)),
           LogicalOrder(orders, map)
    PROVE  IInv'
<1> DEFINE r == Order(Top.logical, orders)
           logical == IF map = <<>> THEN r ELSE Pick(r, map)
           nodes == Producer!TransformOrderBy(Child(Top), orders, map)
<1>1. Unary("other", logical, nodes)
  BY DEF LogicalOrder
<1>. HIDE DEF nodes
<1>2. HasColumns(r)
  BY TopHasColumns, OrderHasColumns
<1>. HIDE DEF r
<1>3. HasColumns(logical)
  BY <1>2, MapsAreLists, PickHasColumns DEF IInv
<1>. HIDE DEF logical
<1>. QED  BY <1>1, <1>3, UnaryKeepsInv

LEMMA TopNKeepsInv ==
    ASSUME IInv, Len(stack) >= 1, NEW orders, NEW limit, NEW offset,
           LogicalTopN(orders, limit, offset)
    PROVE  IInv'
<1>1. HasColumns(Limit(Order(Top.logical, orders), limit, offset))
  BY TopHasColumns, OrderHasColumns, LimitHasColumns
<1> DEFINE nodes == Producer!TransformTopN(orders, limit, offset)
<1>2. Unary("other", Limit(Order(Top.logical, orders), limit, offset), nodes)
  BY DEF LogicalTopN
<1>. HIDE DEF nodes
<1>. QED  BY <1>1, <1>2, UnaryKeepsInv

LEMMA LimitKeepsInv ==
    ASSUME IInv, Len(stack) >= 1, NEW limit, NEW offset,
           LogicalLimit(limit, offset)
    PROVE  IInv'
<1>1. HasColumns(Limit(Top.logical, limit, offset))
  BY TopHasColumns, LimitHasColumns
<1> DEFINE nodes == Producer!TransformLimit(limit, offset)
<1>2. Unary("other", Limit(Top.logical, limit, offset), nodes)
  BY DEF LogicalLimit
<1>. HIDE DEF nodes
<1>. QED  BY <1>1, <1>2, UnaryKeepsInv

LEMMA AggregateKeepsInv ==
    ASSUME IInv, Len(stack) >= 1, NEW S, NEW cols, NEW groups \in GroupLists(S, cols),
           NEW sets, NEW measure,
           NEW grouping_functions \in GroupingFunctions(groups),
           LogicalAggregate(groups, sets, <<measure>>, grouping_functions)
    PROVE  IInv'
<1> DEFINE grouping(list) ==
               [fn |-> "grouping", distinct |-> FALSE, filter |-> {},
                args |-> [i \in DOMAIN list |-> groups[list[i] + 1]]]
           extra == [k \in DOMAIN grouping_functions |->
                        grouping(grouping_functions[k])]
           logical == Aggregate(Top.logical, groups,
                                IF sets = {} THEN AllGroups(groups) ELSE sets,
                                <<measure>> \o extra)
           nodes == Producer!TransformAggregateGroup(groups, sets, <<measure>>,
                                                     grouping_functions)
<1>1. Unary("other", logical, nodes)
  BY DEF LogicalAggregate
<1>. HIDE DEF nodes
<1>2. IsSeq(groups)
  <2>1. CASE groups = <<>>
    BY <2>1 DEF IsSeq
  <2>2. CASE groups \in Lists(ColumnRefs(S))
    BY <2>2, ListsAreLists DEF IInv, IsList
  <2>3. ASSUME NEW e, groups = <<e>>
        PROVE  IsSeq(groups)
    BY <2>3, SingletonIsList DEF IsList
  <2>. QED  BY <2>1, <2>2, <2>3 DEF GroupLists
<1>3. IsSeq(grouping_functions)
  <2>1. IsSeq(<<>>)
    BY DEF IsSeq
  <2>2. ASSUME NEW e
        PROVE  IsSeq(<<e>>)
    BY SingletonIsList DEF IsList
  <2>. QED  BY <2>1, <2>2 DEF GroupingFunctions
<1>4. IsSeq(extra)
  <2>1. DOMAIN extra = DOMAIN grouping_functions
        /\ extra = [k \in DOMAIN extra |-> extra[k]]
    OBVIOUS
  <2>. HIDE DEF extra
  <2>. QED  BY <1>3, <2>1, OverDomain
<1>. HIDE DEF extra
<1>5. IsList(<<measure>> \o extra)
  BY <1>4, SingletonIsList, ConcatIsList DEF IsList
<1>6. HasColumns(logical)
  BY <1>2, <1>5, AggregateHasColumns DEF IsList
<1>. HIDE DEF logical
<1>. QED  BY <1>1, <1>6, UnaryKeepsInv

LEMMA WindowKeepsInv ==
    ASSUME IInv, Len(stack) >= 1, NEW S, NEW cols, NEW list \in WindowLists(S, cols),
           LogicalWindow(list)
    PROVE  IInv'
<1>1. IsSeq(list)
  BY ListsAreLists DEF WindowLists, IInv, IsList
<1>2. HasColumns(Window(Top.logical, list))
  BY <1>1, TopHasColumns, WindowHasColumns
<1> DEFINE nodes == Producer!TransformWindow(list)
<1>3. Unary("other", Window(Top.logical, list), nodes)
  BY DEF LogicalWindow
<1>. HIDE DEF nodes
<1>. QED  BY <1>2, <1>3, UnaryKeepsInv

LEMMA DistinctKeepsInv ==
    ASSUME IInv, Len(stack) >= 1, NEW targets, LogicalDistinct(targets)
    PROVE  IInv'
<1>1. HasColumns(Top.logical) /\ HasColumns(Distinct(Top.logical))
  BY TopHasColumns, DistinctHasColumns
<1>2. CASE Top.kind \in {"except", "intersect"}
  <2> DEFINE consumed == TransformSetOp(SubSeq(Top.parts, 1, 2),
                                        Producer!SetRel(Top.kind))
  <2>1. Put(1, Plan("other", DistinctSet(Top.logical), consumed))
    BY <1>2 DEF LogicalDistinct
  <2>. HIDE DEF consumed
  <2>2. HasColumns(DistinctSet(Top.logical))
    BY <1>1 DEF DistinctSet
  <2>3. 1 \in 0..Len(stack)
    BY DEF IInv, IsSeq
  <2>. QED  BY <2>1, <2>2, <2>3, PlanIsInv, PutKeepsInv
<1>3. CASE Top.kind \notin {"except", "intersect"}
  <2> DEFINE logical == IF targets = <<>> THEN Distinct(Top.logical)
                        ELSE DistinctOn(Top.logical, targets)
             nodes == Producer!TransformDistinct(Child(Top))
  <2>1. Unary("other", logical, nodes)
    BY <1>3 DEF LogicalDistinct
  <2>. HIDE DEF nodes
  <2>2. HasColumns(DistinctOn(Top.logical, targets))
    BY <1>1, NewRows DEF DistinctOn
  <2>3. HasColumns(logical)
    BY <1>1, <2>2
  <2>. HIDE DEF logical
  <2>. QED  BY <2>1, <2>3, UnaryKeepsInv
<1>. QED  BY <1>2, <1>3

-----------------------------------------------------------------------------
(* Actions on several plans.                                               *)

\* The n topmost plans.
LEMMA TopmostAreInv ==
    ASSUME IInv, NEW n \in 1..Len(stack)
    PROVE  LET inputs == SubSeq(stack, Len(stack) - n + 1, Len(stack))
           IN  /\ inputs = [k \in 1..n |-> inputs[k]]
               /\ \A k \in 1..n : /\ inputs[k] = stack[Len(stack) - n + k]
                                  /\ PlanInv(inputs[k])
<1> DEFINE low == Len(stack) - n + 1
           inputs == SubSeq(stack, low, Len(stack))
<1>1. /\ Len(stack) \in Nat /\ low \in Nat /\ n \in Nat
      /\ Len(stack) - low + 1 = n
  BY DEF IInv, IsSeq
<1>2. inputs = [k \in 1..n |-> stack[low + k - 1]]
  BY <1>1
<1>3. ASSUME NEW k \in 1..n
      PROVE  /\ inputs[k] = stack[Len(stack) - n + k]
             /\ PlanInv(stack[Len(stack) - n + k])
  <2>1. low + k - 1 = Len(stack) - n + k /\ Len(stack) - n + k \in 1..Len(stack)
    BY <1>1
  <2>2. inputs[k] = stack[low + k - 1]
    BY <1>2
  <2>. QED  BY <2>1, <2>2 DEF IInv
<1>4. inputs = [k \in 1..n |-> inputs[k]]
  BY <1>2
<1>. HIDE DEF inputs
<1>5. \A k \in 1..n : PlanInv(inputs[k])
  BY <1>3
<1>. QED  BY <1>3, <1>4, <1>5 DEF inputs

LEMMA CrossProductKeepsInv ==
    ASSUME IInv, Len(stack) >= 2, CrossProduct
    PROVE  IInv'
<1> DEFINE l == stack[Len(stack) - 1]
           logical == Cross(l.logical, Top.logical)
           consumed == TransformCrossProductOp(l.consumed, Top.consumed)
<1>1. Put(2, Plan("other", logical, consumed))
  BY DEF CrossProduct
<1>. HIDE DEF consumed
<1>2. /\ Len(stack) - 1 \in 1..Len(stack) /\ 2 \in 0..Len(stack)
      /\ Len(stack) >= 1
  BY DEF IInv, IsSeq
<1>3. HasColumns(l.logical) /\ HasColumns(Top.logical)
  BY <1>2, TopHasColumns DEF IInv, PlanInv
<1>4. HasColumns(logical)
  BY <1>3, CrossHasColumns
<1>. HIDE DEF logical
<1>. QED  BY <1>1, <1>2, <1>4, PlanIsInv, PutKeepsInv

LEMMA SetOpKeepsInv ==
    ASSUME IInv, NEW op, NEW all, NEW arity \in 1..Len(stack),
           SetOp(op, all, arity)
    PROVE  IInv'
<1> DEFINE inputs == SubSeq(stack, Len(stack) - arity + 1, Len(stack))
           logicals == [k \in 1..arity |-> inputs[k].logical]
           consumed == [k \in DOMAIN inputs |-> inputs[k].consumed]
           result == TransformSetOp(consumed, Producer!SetRel(op))
           plan == Plan(op, SetOperation(op, all, logicals), result)
<1>1. Put(arity, [plan EXCEPT !.parts = consumed])
  BY DEF SetOp
<1>2. \A k \in 1..arity : PlanInv(inputs[k])
  BY TopmostAreInv
<1>. HIDE DEF inputs, result, consumed
<1>3. arity \in Nat /\ arity # 0 /\ arity \in 0..Len(stack)
  BY DEF IInv, IsSeq
<1>4. IsSeq(logicals) /\ Len(logicals) = arity
  <2>1. logicals = [k \in 1..arity |-> logicals[k]]
    OBVIOUS
  <2>. HIDE DEF logicals
  <2>. QED  BY <1>3, <2>1, MadeIsSeq
<1>5. HasColumns(logicals[1])
  BY <1>2, <1>3 DEF PlanInv
<1>. HIDE DEF logicals
<1>6. HasColumns(SetOperation(op, all, logicals))
  BY <1>3, <1>4, <1>5, SetOperationHasColumns
<1>7. PlanInv([plan EXCEPT !.parts = consumed])
  BY <1>6 DEF PlanInv, JoinIsExact, Plan, NoJoin
<1>. QED  BY <1>1, <1>3, <1>7, PutKeepsInv

-----------------------------------------------------------------------------
(* Joins.                                                                  *)

LEMMA ComparisonJoinKeepsInv ==
    ASSUME IInv, Len(stack) >= 2, NEW type \in Menu.joins, NEW conditions,
           NEW S, NEW lmap \in Maps(S), NEW T, NEW rmap \in Maps(T),
           ComparisonJoin(type, conditions, lmap, rmap)
    PROVE  IInv'
<1> DEFINE two == SubSeq(stack, Len(stack) - 1, Len(stack))
           child == [k \in 1..2 |-> Child(two[k])]
           nodes == Producer!TransformComparisonJoin(
                        type, child, conditions, lmap, rmap)
           swap == Producer!Swapped(type)
           joined == TransformJoinOp(two[IF swap THEN 2 ELSE 1].consumed,
                                     two[IF swap THEN 1 ELSE 2].consumed,
                                     Head(nodes))
           logical == LogicalJoin(type, two[1].logical, two[2].logical,
                                  conditions, lmap, rmap)
           consumed == TransformChain(joined, Tail(nodes))
           left == Producer!FillMap(lmap, child[1])
           right == Producer!FillMap(rmap, child[2])
           join == [type |-> type, left |-> Len(left), right |-> Len(right)]
           plan == [Plan("other", logical, consumed) EXCEPT !.join = join]
<1>1. Put(2, plan)
  BY DEF ComparisonJoin
<1>2. menu \in DOMAIN Menus /\ 2 \in 0..Len(stack)
  BY DEF IInv, IsSeq
<1>3. HasColumns(two[1].logical) /\ HasColumns(two[2].logical)
  <2>1. 2 \in 1..Len(stack) /\ Len(stack) - 2 + 1 = Len(stack) - 1
    BY DEF IInv, IsSeq
  <2>2. \A k \in 1..2 : PlanInv(two[k])
    BY <2>1, TopmostAreInv
  <2>. HIDE DEF two
  <2>. QED  BY <2>2 DEF PlanInv
<1>. HIDE DEF two
<1>4. HasColumns(logical)
  BY <1>2, <1>3, LogicalJoinHasColumns
<1>5. IsList(left) /\ IsList(right)
  BY <1>2, <1>3, FillMapIsList
<1> DEFINE count == Producer!LeftColumnCount(child[IF swap THEN 2 ELSE 1])
           both == left \o [k \in DOMAIN right |-> right[k] + count]
           fields == IF Producer!OneSided(type)
                     THEN IF swap THEN right ELSE left
                     ELSE both
<1>6. IsList(fields)
  <2>. HIDE DEF left, right, count
  <2>1. IsList(both)
    BY <1>5, BothSidesAreList
  <2>. HIDE DEF both
  <2>. QED  BY <1>5, <2>1
<1>7. \E r, s : joined = Relation(r, s)
  BY DEF TransformJoinOp
<1>8. \E columns : Tail(nodes) = Producer!ProjectFields(columns, fields)
  <2>1. \E node, columns :
            nodes = <<node>> \o Producer!ProjectFields(columns, fields)
    <3>. HIDE DEF child
    <3>. QED  BY DEF Producer!TransformComparisonJoin
  <2>. HIDE DEF nodes, fields
  <2>2. PICK node, columns :
            nodes = <<node>> \o Producer!ProjectFields(columns, fields)
    BY <2>1
  <2>3. \E other : Producer!ProjectFields(columns, fields) = <<other>>
    BY DEF Producer!ProjectFields, Producer!ProjectRel
  <2>4. PICK other : Producer!ProjectFields(columns, fields) = <<other>>
    BY <2>3
  <2>. QED  BY <2>2, <2>4, TailOfTwo
<1>. HIDE DEF fields, joined, nodes
<1>9. Len(consumed.cols) = Len(fields)
  <2>1. PICK r, s : joined = Relation(r, s)
    BY <1>7
  <2>2. PICK columns : Tail(nodes) = Producer!ProjectFields(columns, fields)
    BY <1>8
  <2> DEFINE emit == [k \in DOMAIN fields |-> columns + k - 1]
  <2>3. IsList(emit) /\ Len(emit) = Len(fields)
    <3>1. DOMAIN emit = DOMAIN fields /\ emit = [k \in DOMAIN emit |-> emit[k]]
      OBVIOUS
    <3>. HIDE DEF emit
    <3>. QED  BY <1>6, <3>1, EachIsList
  <2>4. PICK list : Tail(nodes) = Producer!ProjectRel(list, emit)
    BY <2>2 DEF Producer!ProjectFields
  <2>. HIDE DEF emit
  <2>5. Len(TransformChain(Relation(r, s), Producer!ProjectRel(list, emit)).cols)
            = Len(emit)
    BY <2>3, ProjectionWidth
  <2>. QED  BY <2>1, <2>3, <2>4, <2>5
<1>. HIDE DEF consumed, logical
<1>10. type \in JoinTypes
  BY <1>2, BoundsAssumption DEF Menu
<1>11. /\ plan.logical = logical /\ plan.consumed = consumed
       /\ plan.join = join /\ Child(plan).join = join
  BY DEF Plan, Child
<1>. HIDE DEF plan, left, right
<1>12. Producer!LeftColumnCount(Child(plan)) = Len(fields)
  <2>1. CASE swap
    BY <1>10, <1>11, <2>1
       DEF Producer!LeftColumnCount, Producer!Swapped, Producer!OneSided, fields
  <2>2. CASE type \in {"SEMI", "ANTI"}
    BY <1>11, <2>2
       DEF Producer!LeftColumnCount, Producer!Swapped, Producer!OneSided, fields
  <2>3. CASE ~swap /\ type \notin {"SEMI", "ANTI"}
    <3>1. fields = both
      BY <2>3 DEF Producer!OneSided, fields
    <3>2. Len(both) = Len(left) + Len(right)
      <4>. HIDE DEF count
      <4>. QED  BY <1>5, BothSidesAreList
    <3>3. type # "none"
      BY <1>10 DEF JoinTypes
    <3>4. Producer!LeftColumnCount(Child(plan)) = join.left + join.right
      <4> DEFINE below == Child(plan)
      <4>1. below.join = join /\ join.type = type
        BY <1>11
      <4>. HIDE DEF below, join
      <4>2. /\ below.join.type # "none" /\ ~Producer!Swapped(below.join.type)
            /\ below.join.type \notin {"SEMI", "ANTI"}
        BY <2>3, <3>3, <4>1
      <4>3. Producer!LeftColumnCount(below) = below.join.left + below.join.right
        BY <4>2 DEF Producer!LeftColumnCount
      <4>. QED  BY <4>1, <4>3 DEF below
    <3>. QED  BY <3>1, <3>2, <3>4
  <2>. QED  BY <2>1, <2>2, <2>3
<1>13. PlanInv(plan)
  BY <1>4, <1>9, <1>11, <1>12 DEF PlanInv, JoinIsExact
<1>. QED  BY <1>1, <1>2, <1>13, PutKeepsInv

-----------------------------------------------------------------------------
(* Actions that end a plan.                                                *)

LEMMA QueryKeepsInv ==
    ASSUME IInv, Len(stack) >= 1, Query
    PROVE  IInv'
<1> DEFINE logical == Named(Top.logical, ColumnNames(Top.logical))
           consumed == TransformRootOp(Top.consumed, RootNames,
                                       ColumnTypes(Top.consumed))
<1>1. Ends("root", logical, consumed)
  BY DEF Query
<1>. HIDE DEF consumed
<1>2. HasColumns(logical)
  BY TopHasColumns, NamedHasColumns
<1>. HIDE DEF logical
<1>. QED  BY <1>1, <1>2, EndsKeepsInv

LEMMA CreateTableKeepsInv ==
    ASSUME IInv, NEW location, LogicalCreateTable(location)
    PROVE  IInv'
<1> DEFINE logical == Create(location[1], location[2],
                             Named(Top.logical, ColumnNames(Top.logical)))
           consumed == TransformRootWrite(Top.consumed,
                           Producer!TransformCreateTable(location[2], steps),
                           ColumnTypes(Top.consumed), RootNames)
<1>1. Ends("write", logical, consumed)
  BY DEF LogicalCreateTable
<1>. HIDE DEF consumed
<1>2. HasColumns(logical)
  BY ChangedHasColumns DEF Create
<1>. HIDE DEF logical
<1>. QED  BY <1>1, <1>2, EndsKeepsInv

LEMMA InsertKeepsInv ==
    ASSUME IInv, NEW location, NEW columns, LogicalInsert(location, columns)
    PROVE  IInv'
<1> DEFINE logical == Insert(location[1], location[2],
                             Pick(Top.logical, columns))
           consumed == TransformRootWrite(Top.consumed,
                           Producer!TransformInsertTable(location[2], steps),
                           ColumnTypes(Top.consumed), <<>>)
<1>1. Ends("write", logical, consumed)
  BY DEF LogicalInsert
<1>. HIDE DEF consumed
<1>2. HasColumns(logical)
  BY ChangedHasColumns DEF Insert
<1>. HIDE DEF logical
<1>. QED  BY <1>1, <1>2, EndsKeepsInv

LEMMA DeleteKeepsInv ==
    ASSUME IInv, NEW id, LogicalDelete(id)
    PROVE  IInv'
<1> DEFINE name == id[2]
           types == [k \in DOMAIN id[3] |-> TypeOf(id[3][k])]
           logical == Delete(name[2], name[3], Top.logical.rows)
           consumed == TransformRootWrite(Top.consumed,
                           Producer!TransformDeleteTable(name[2], name[3],
                                                         name[4]),
                           types, <<>>)
<1>1. Ends("write", logical, consumed)
  BY DEF LogicalDelete
<1>. HIDE DEF consumed
<1>2. HasColumns(logical)
  BY ChangedHasColumns DEF Delete
<1>. HIDE DEF logical
<1>. QED  BY <1>1, <1>2, EndsKeepsInv

-----------------------------------------------------------------------------
(* Every step.                                                             *)

LEMMA SetOpsKeepInv ==
    ASSUME IInv, SetOps
    PROVE  IInv'
<1>1. ASSUME NEW op, NEW n \in {2, 3}, NEW all, Ready(op, n), SetOp(op, all, n)
      PROVE  IInv'
  <2>1. n \in 1..Len(stack)
    BY <1>1 DEF Ready, IInv, IsSeq
  <2>. QED  BY <1>1, <2>1, SetOpKeepsInv
<1>2. CASE \E n \in {2, 3} : Ready("union", n) /\ SetOp("union", TRUE, n)
  BY <1>1, <1>2, Zenon
<1>3. CASE \E n \in {2, 3}, all \in BOOLEAN :
               Ready("except", n) /\ SetOp("except", all, n)
  BY <1>1, <1>3, Zenon
<1>4. CASE Ready("intersect", 2) /\ SetOp("intersect", FALSE, 2)
  BY <1>1, <1>4, Zenon
<1>5. \/ \E n \in {2, 3} : Ready("union", n) /\ SetOp("union", TRUE, n)
      \/ \E n \in {2, 3}, all \in BOOLEAN :
             Ready("except", n) /\ SetOp("except", all, n)
      \/ Ready("intersect", 2) /\ SetOp("intersect", FALSE, 2)
  BY Zenon DEF SetOps
<1>. QED  BY <1>2, <1>3, <1>4, <1>5

LEMMA JoinStepKeepsInv ==
    ASSUME IInv, Len(stack) >= 2, NEW type \in Menu.joins, NEW fn,
           JoinStep(type, fn)
    PROVE  IInv'
<1>1. PICK left \in Operands(type, "left", UsableOf(2), ColumnsOf(2)),
           right \in Operands(type, "right", UsableOf(1), ColumnsOf(1)),
           lmap \in JoinMaps(type, "left", UsableOf(2)),
           rmap \in JoinMaps(type, "right", UsableOf(1)) :
        ComparisonJoin(type, {[fn |-> fn, left |-> left, right |-> right]},
                       lmap, rmap)
  BY DEF JoinStep
<1>2. lmap \in Maps(UsableOf(2)) /\ rmap \in Maps(UsableOf(1))
  BY JoinMapsAreMaps
<1>. QED  BY <1>1, <1>2, ComparisonJoinKeepsInv

LEMMA AggregateStepKeepsInv ==
    ASSUME IInv, Len(stack) >= 1, AggregateStep
    PROVE  IInv'
<1>1. PICK groups \in GroupLists(UsableOf(1), ColumnsOf(1)) :
        \E sets \in GroupingSets(groups),
           measure \in Measures(UsableOf(1), ColumnsOf(1)),
           grouping_functions \in GroupingFunctions(groups) :
            LogicalAggregate(groups, sets, <<measure>>, grouping_functions)
  BY DEF AggregateStep
<1>2. PICK sets \in GroupingSets(groups),
           measure \in Measures(UsableOf(1), ColumnsOf(1)),
           grouping_functions \in GroupingFunctions(groups) :
        LogicalAggregate(groups, sets, <<measure>>, grouping_functions)
  BY <1>1
<1>. QED  BY <1>2, AggregateKeepsInv

LEMMA NextKeepsInv ==
    ASSUME IInv, [Next]_vars
    PROVE  IInv'
<1>. USE DEF Ready
<1>1. CASE Ready("get", 0) /\ GetStep
  BY <1>1, GetKeepsInv DEF GetStep
<1>2. CASE LogicalDummyScan
  BY <1>2, DummyScanKeepsInv
<1>3. CASE EmptyResultStep
  BY <1>3, EmptyResultKeepsInv DEF EmptyResultStep
<1>4. CASE \E list \in Lists({<<c>> : c \in Constants}) :
               LogicalExpressionGet(list)
  BY <1>4, ExpressionGetKeepsInv
<1>5. CASE Ready("filter", 1) /\ FilterStep
  BY <1>5, FilterKeepsInv DEF FilterStep
<1>6. CASE Ready("projection", 1) /\ ProjectionStep
  BY <1>6, ProjectionKeepsInv DEF ProjectionStep
<1>7. CASE Ready("order", 1) /\ OrderStep
  BY <1>7, OrderKeepsInv DEF OrderStep
<1>8. CASE Ready("topn", 1) /\ TopNStep
  BY <1>8, TopNKeepsInv DEF TopNStep
<1>9. CASE /\ Ready("limit", 1)
           /\ \E limit \in LimitValues \cup {-1}, offset \in LimitValues :
                  LogicalLimit(limit, offset)
  BY <1>9, LimitKeepsInv
<1>10. CASE Ready("aggregate", 1) /\ AggregateStep
  BY <1>10, AggregateStepKeepsInv
<1>11. CASE Ready("window", 1) /\ WindowStep
  BY <1>11, WindowKeepsInv DEF WindowStep
<1>12. CASE /\ Ready("distinct", 1)
            /\ \E targets \in DistinctTargets(UsableOf(1)) :
                   LogicalDistinct(targets)
  BY <1>12, DistinctKeepsInv
<1>13. CASE /\ Ready("join", 2)
            /\ \E type \in Menu.joins, fn \in Menu.comparisons :
                   JoinStep(type, fn)
  BY <1>13, JoinStepKeepsInv
<1>14. CASE Ready("cross", 2) /\ CrossProduct
  BY <1>14, CrossProductKeepsInv
<1>15. CASE SetOps
  BY <1>15, SetOpsKeepInv
<1>16. CASE Ready("root", 1) /\ Query
  BY <1>16, QueryKeepsInv
<1>17. CASE \E location \in Schemas : LogicalCreateTable(location)
  BY <1>17, CreateTableKeepsInv
<1>18. CASE \E location \in Schemas, columns \in InsertColumns :
                LogicalInsert(location, columns)
  BY <1>18, InsertKeepsInv
<1>19. CASE DeleteStep
  BY <1>19, DeleteKeepsInv DEF DeleteStep
<1>20. CASE UNCHANGED vars
  BY <1>20 DEF vars, IInv, PlanInv, JoinIsExact
<1>. QED  BY <1>1, <1>2, <1>3, <1>4, <1>5, <1>6, <1>7, <1>8, <1>9, <1>10,
             <1>11, <1>12, <1>13, <1>14, <1>15, <1>16, <1>17, <1>18, <1>19,
             <1>20 DEF Next

LEMMA IInvIsInductive == Spec => []IInv
<1>1. Init => IInv
  BY NoPlanIsInv DEF Init
<1>2. IInv /\ [Next]_vars => IInv'
  BY NextKeepsInv
<1>. QED  BY <1>1, <1>2, PTL DEF Spec

\* Whatever the operators, tables and lists a plan is built of, unless scans
\* may drop row ids: what TransformComparisonJoin takes for the width of its
\* left input is the width of the relation that input was translated to.
THEOREM LeftCountIsExact ==
    ASSUME "rowid_dropped" \notin Beyond
    PROVE  Spec => []LeftCountExact
<1>1. IInv => LeftCountExact
  <2>. SUFFICES ASSUME IInv, NEW k \in DOMAIN stack, Aligned(stack[k])
                PROVE  Producer!LeftColumnCount(Child(stack[k]))
                           = Len(stack[k].consumed.cols)
    BY DEF LeftCountExact
  <2>1. PlanInv(stack[k])
    BY DEF IInv, IsSeq
  <2>2. CASE stack[k].join.type = "none"
    <3>1. Producer!LeftColumnCount(Child(stack[k])) = Len(stack[k].logical.cols)
      <4> DEFINE below == Child(stack[k])
      <4>1. /\ below.join.type = "none"
            /\ below.columns = Len(stack[k].logical.cols)
        BY <2>2 DEF Child
      <4>. HIDE DEF below
      <4>2. Producer!LeftColumnCount(below) = below.columns
        BY <4>1 DEF Producer!LeftColumnCount, Producer!Swapped
      <4>. QED  BY <4>1, <4>2 DEF below
    <3>. QED  BY <3>1 DEF Aligned
  <2>3. CASE stack[k].join.type # "none"
    BY <2>1, <2>3 DEF PlanInv, JoinIsExact
  <2>. QED  BY <2>2, <2>3
<1>. QED  BY <1>1, IInvIsInductive, PTL

-----------------------------------------------------------------------------
(* Plans that come back.                                                   *)

SetKinds == {"except", "intersect"}
\* What a DISTINCT over a set operation makes anew.
IsSetOf(p) == /\ IsSeq(p.parts) /\ p.logical.rows[3] = FALSE
              /\ p.consumed = TransformSetOp(p.parts, Producer!SetRel(p.kind))
IsPlan(p) == Comes(p.consumed, p.logical) /\ (p.kind \in SetKinds => IsSetOf(p))
IsPlanOrEnd(p) == IsPlan(p) \/ p.kind \in Finished

RInv == /\ \A k \in 1..Len(stack) : IsPlanOrEnd(stack[k])
        /\ \A k \in 1..Len(stack) : stack[k].kind \in Finished => k = Len(stack)

\* Nothing is put on a plan that is finished.
Unfinished == stack # <<>> => Top.kind \notin Finished

LEMMA ReadyIsUnfinished ==
    ASSUME NEW op, NEW n, Ready(op, n)
    PROVE  Unfinished
BY DEF Ready, Unfinished

LEMMA NoneIsFinished ==
    ASSUME IInv, RInv, Unfinished, NEW k \in 1..Len(stack)
    PROVE  IsPlan(stack[k]) /\ stack[k].kind \notin Finished
<1>1. stack # <<>> /\ Len(stack) \in Nat
  BY DEF IInv, IsSeq
<1>2. Top = stack[Len(stack)]
  BY DEF Top
<1>. QED  BY <1>1, <1>2 DEF RInv, IsPlanOrEnd, Unfinished

LEMMA PutKeepsBack ==
    ASSUME IInv, RInv, Unfinished, NEW n \in 0..Len(stack),
           NEW plan, IsPlanOrEnd(plan), Put(n, plan)
    PROVE  RInv'
<1> DEFINE rest == SubSeq(stack, 1, Len(stack) - n)
<1>1. /\ IsSeq(rest) /\ Len(rest) \in Nat
      /\ \A k \in 1..Len(rest) : IsPlan(rest[k]) /\ rest[k].kind \notin Finished
  <2>1. Len(stack) \in Nat /\ IsSeq(stack)
    BY DEF IInv, IsSeq
  <2>2. /\ IsSeq(rest) /\ Len(rest) = Len(stack) - n
        /\ \A k \in 1..Len(stack) - n : rest[k] = stack[k]
    BY <2>1, BelowIsSeq
  <2>3. Len(rest) \in Nat
    BY <2>2 DEF IsSeq
  <2>4. ASSUME NEW k \in 1..Len(rest)
        PROVE  rest[k] = stack[k] /\ k \in 1..Len(stack)
    BY <2>1, <2>2
  <2>5. ASSUME NEW k \in 1..Len(rest)
        PROVE  IsPlan(rest[k]) /\ rest[k].kind \notin Finished
    <3>1. IsPlan(stack[k]) /\ stack[k].kind \notin Finished
      BY <2>4, NoneIsFinished
    <3>. QED  BY <2>4, <3>1, Zenon
  <2>. QED  BY <2>2, <2>3, <2>5, Zenon
<1>. HIDE DEF rest
<1> DEFINE new == Append(rest, plan)
<1>2. /\ IsSeq(new) /\ Len(new) = Len(rest) + 1 /\ new[Len(rest) + 1] = plan
      /\ \A k \in 1..Len(rest) : new[k] = rest[k]
  BY <1>1, AppendIsSeq
<1>3. ASSUME NEW k \in 1..Len(new)
      PROVE  IsPlanOrEnd(new[k]) /\ (new[k].kind \in Finished => k = Len(new))
  <2>1. CASE k \in 1..Len(rest)
    <3>1. new[k] = rest[k] /\ IsPlan(rest[k]) /\ rest[k].kind \notin Finished
      BY <1>1, <1>2, <2>1
    <3>. QED  BY <3>1 DEF IsPlanOrEnd
  <2>2. CASE k = Len(rest) + 1
    BY <1>2, <2>2
  <2>3. k \in 1..Len(rest) \/ k = Len(rest) + 1
    BY <1>1, <1>2
  <2>. QED  BY <2>1, <2>2, <2>3
<1>4. stack' = new
  BY DEF Put, rest
<1>. HIDE DEF new
<1>5. /\ \A k \in 1..Len(stack') : IsPlanOrEnd(stack'[k])
      /\ \A k \in 1..Len(stack') : stack'[k].kind \in Finished => k = Len(stack')
  BY <1>3, <1>4
<1>. QED  BY <1>5 DEF RInv, IsPlanOrEnd, IsPlan, IsSetOf

OtherKinds == {"get", "dummy", "empty", "values", "filter", "other", "union"}

LEMMA PlanIsPlan ==
    ASSUME NEW kind \in OtherKinds, NEW logical, NEW consumed, Comes(consumed, logical)
    PROVE  IsPlanOrEnd(Plan(kind, logical, consumed))
<1> DEFINE p == Plan(kind, logical, consumed)
<1>1. p.kind = kind /\ p.logical = logical /\ p.consumed = consumed
  BY DEF Plan
<1>2. kind \notin SetKinds
  BY DEF OtherKinds, SetKinds
<1>. HIDE DEF p
<1>3. IsPlanOrEnd(p)
  BY <1>1, <1>2 DEF IsPlanOrEnd, IsPlan
<1>. QED  BY <1>3 DEF p

LEMMA LeafKeepsBack ==
    ASSUME IInv, RInv, Unfinished, NEW kind \in OtherKinds, NEW logical, NEW consumed,
           Comes(consumed, logical), Leaf(kind, logical, consumed)
    PROVE  RInv'
<1>1. 0 \in 0..Len(stack)
  BY DEF IInv, IsSeq
<1>. QED  BY <1>1, PlanIsPlan, PutKeepsBack DEF Leaf

LEMMA UnaryKeepsBack ==
    ASSUME IInv, RInv, Unfinished, Len(stack) >= 1, NEW kind \in OtherKinds,
           NEW logical, NEW nodes, Comes(TransformChain(Top.consumed, nodes), logical),
           Unary(kind, logical, nodes)
    PROVE  RInv'
<1>1. 1 \in 0..Len(stack)
  BY DEF IInv, IsSeq
<1>. QED  BY <1>1, PlanIsPlan, PutKeepsBack DEF Unary

LEMMA EndsKeepsBack ==
    ASSUME IInv, RInv, Unfinished, NEW kind \in Finished, NEW logical, NEW consumed,
           Ends(kind, logical, consumed)
    PROVE  RInv'
<1>1. 1 \in 0..Len(stack)
  BY DEF Ends
<1>2. Put(1, Plan(kind, logical, Relation(consumed, Spine(kind))))
  BY DEF Ends
<1>3. IsPlanOrEnd(Plan(kind, logical, Relation(consumed, Spine(kind))))
  BY DEF IsPlanOrEnd, Plan
<1>. QED  BY <1>1, <1>2, <1>3, PutKeepsBack

LEMMA TopComes ==
    ASSUME IInv, RInv, Unfinished, Len(stack) >= 1
    PROVE  IsPlan(Top) /\ Comes(Top.consumed, Top.logical)
<1>1. Len(stack) \in 1..Len(stack)
  BY DEF IInv, IsSeq
<1>. QED  BY <1>1, NoneIsFinished DEF Top, IsPlan

LEMMA AgreesWithItself == ASSUME NEW c PROVE Agree(c, c)
BY Zenon DEF Agree

LEMMA BackIsSame ==
    ASSUME IInv, RInv
    PROVE  ComesBack
<1>. SUFFICES ASSUME NEW k \in DOMAIN stack, stack[k].kind \notin Finished
              PROVE  Same(stack[k].consumed, stack[k].logical)
  BY DEF ComesBack
<1>1. PICK r, s : r = stack[k].consumed /\ s = stack[k].logical
  OBVIOUS
<1>2. k \in 1..Len(stack)
  BY DEF IInv, IsSeq
<1>3. Restored(r, s)
  BY <1>1, <1>2 DEF RInv, IsPlanOrEnd, IsPlan, Comes
<1>4. PICK n : n = Len(s.cols)
  OBVIOUS
<1>5. /\ DOMAIN s.cols = 1..n /\ DOMAIN r.cols = 1..n /\ Len(r.cols) = n
      /\ r.rows = s.rows /\ \A j \in 1..n : Hidden(s.cols[j]) \/ r.cols[j] = s.cols[j]
  BY <1>3, <1>4, ColumnsOfRestored DEF Restored
<1>6. Same(r, s)
  BY <1>4, <1>5, AgreesWithItself DEF Same
<1>. QED  BY <1>1, <1>6

-----------------------------------------------------------------------------
(* The menus that the theorem is about.                                    *)

\* Columns, constants, calls and comparisons of them, but no windows and no
\* scans of less than a table; the types of empty results, constants and
\* functions are among those that Substrait has.
IsSimple(m) ==
    /\ m.depth = 0 /\ ~m.reads /\ "window" \notin m.operators
    /\ \A types \in m.empties : \A k \in DOMAIN types :
           LossyType[types[k]] \/ IsExactType(types[k])
    /\ \A c \in m.constants : LossyConstant(c) \/ IsExactConstant(c)
    /\ \A fn \in m.functions : \/ fn \in {"count_star", "first"}
                               \/ IsPlainName(fn) /\ fn # "grouping"
    /\ m.comparisons \subseteq Comparisons
    /\ "not_equal" \in m.comparisons =>
           \A c \in m.constants : c.type # <<"VARCHAR">>

LEMMA GetKeepsBack ==
    ASSUME Beyond = {}, IInv, RInv, Unfinished, IsSimple(Menu),
           NEW location \in Locations, NEW types \in Menu.tables,
           NEW get \in Gets(types), LogicalGet(location, types, get)
    PROVE  RInv'
<1>1. PICK name : name = steps
  OBVIOUS
<1>2. IsList(types)
  BY TypesAreLists DEF IInv
<1>3. get = WholeGet(types)
  BY WholeGets DEF IsSimple
<1>4. location[1] = "memory" /\ location[2] = "main"
  BY DEF Locations
<1> DEFINE table == TableRead(name, types)
           item(i) == CASE IsRowId(i) -> RowId(table)
                        [] ~IsRowId(i) /\ i.part = Producer!Whole ->
                               Field(table.cols, i.col)
                        [] OTHER -> Value(Expr(i.part, <<Ref(i.col)>>), table.cols)
           used == {f \in get.table_filters : f.filter.op # "optional"}
           scan == Filter(table, {Over(f.filter, Ref(f.col)) : f \in used})
           cols == [k \in DOMAIN Output(get) |-> item(Output(get)[k])]
           nodes == Producer!TransformGet(name, get)
           consumed == TransformChain(TransformReadOp(Head(nodes), types), Tail(nodes))
<1>5. Leaf("get", [scan EXCEPT !.cols = cols], consumed)
  BY <1>1, <1>4 DEF LogicalGet, TableRead
<1>6. used = {}
  BY <1>3 DEF WholeGet
<1>7. {Over(f.filter, Ref(f.col)) : f \in used} = {}
  BY <1>6
<1>8. scan = table
  BY <1>7 DEF Filter
<1>9. Output(get) = WholeColumns(types)
  BY <1>3 DEF Output, WholeGet
<1>10. PICK n : n = Len(types)
  OBVIOUS
<1>11. /\ n \in Nat /\ DOMAIN WholeColumns(types) = 1..n
       /\ \A k \in 1..n : /\ WholeColumns(types)[k].col = k - 1
                          /\ WholeColumns(types)[k].part = Producer!Whole
  BY <1>2, <1>10 DEF IsList, IsSeq, WholeColumns, Part
<1>12. ASSUME NEW k \in 1..n
       PROVE  item(WholeColumns(types)[k]) = Field(table.cols, k - 1)
  <2>1. PICK i : i = WholeColumns(types)[k]
    OBVIOUS
  <2>2. i.col = k - 1 /\ i.part = Producer!Whole
    BY <1>11, <2>1
  <2>3. ~IsRowId(i)
    BY <1>11, <2>2 DEF IsRowId, Producer!RowIdColumn
  <2>. HIDE DEF table
  <2>4. item(i) = Field(table.cols, i.col)
    BY <2>2, <2>3
  <2>5. item(i) = Field(table.cols, k - 1)
    BY <2>2, <2>4
  <2>. QED  BY <2>1, <2>5
<1>. HIDE DEF item, table, scan, nodes
<1>13. cols = [k \in 1..n |-> item(WholeColumns(types)[k])]
  BY <1>9, <1>11
<1>. HIDE DEF cols
<1>14. /\ IsList(cols) /\ Len(cols) = n
       /\ \A k \in 1..n : cols[k] = Field(table.cols, k - 1)
  <2>1. \A k \in 1..n : cols[k] = Field(table.cols, k - 1)
    BY <1>12, <1>13
  <2>2. cols = [k \in 1..n |-> cols[k]]
    BY <1>13
  <2>3. IsSeq(cols) /\ Len(cols) = n
    BY <1>11, <2>2, MadeIsSeq
  <2>. QED  BY <1>2, <1>10, <2>1, <2>3 DEF IsList
<1>15. nodes = Producer!TransformGet(name, WholeGet(types))
  BY <1>3 DEF nodes
<1>16. Comes(consumed, [table EXCEPT !.cols = cols])
  <2>1. table = TableRead(name, types)
    BY DEF table
  <2>2. \A k \in 1..Len(types) : cols[k] = Field(table.cols, k - 1)
    BY <1>10, <1>14
  <2>3. Len(cols) = Len(types) /\ IsList(cols)
    BY <1>10, <1>14
  <2>. QED  BY <1>2, <1>15, <2>1, <2>2, <2>3, GetComes
<1>. HIDE DEF consumed
<1>17. Leaf("get", [table EXCEPT !.cols = cols], consumed)
  BY <1>5, <1>8
<1>. QED  BY <1>16, <1>17, LeafKeepsBack DEF OtherKinds

LEMMA OneBefore == ASSUME NEW x PROVE Head(<<x>>) = x /\ Tail(<<x>>) = <<>>
OBVIOUS

\* Its one column is hidden.
LEMMA DummyScanKeepsBack ==
    ASSUME IInv, RInv, Unfinished, LogicalDummyScan
    PROVE  RInv'
<1> DEFINE l == InSubstrait!TransformLiteralToValue(
                    Producer!Literal("i32", <<>>, <<42>>, ""))
           node == [rel |-> "virtual", types |-> <<>>,
                    expressions |-> <<<<Producer!Literal("i32", <<>>, <<42>>, "")>>>>]
           consumed == TransformVirtualTable(Head(Producer!TransformDummyScan))
           r == GetValuesExpression(node.expressions)
           s == [rows |-> <<"values", 1>>, cols |-> <<Garbage>>]
<1>1. Leaf("dummy", s, consumed)
  BY DEF LogicalDummyScan
<1>2. Producer!TransformDummyScan = <<node>>
  BY DEF Producer!TransformDummyScan, Producer!VirtualRel
<1>3. node.expressions # <<>>
  OBVIOUS
<1>. HIDE DEF node
<1>4. consumed = Relation(r, Spine("values"))
  BY <1>2, <1>3, OneBefore DEF TransformVirtualTable
<1>5. Restored(r, s)
  <2>1. PICK x, y : x = Producer!Literal("i32", <<>>, <<42>>, "") /\ y = l
    OBVIOUS
  <2>2. node.expressions = <<<<x>>>> /\ y = InSubstrait!TransformLiteralToValue(x)
    BY <2>1 DEF node
  <2>. HIDE DEF l
  <2> DEFINE list == [i \in 1..1 |-> [k \in 1..1 |-> y]]
  <2>9. GetValuesExpression(<<<<x>>>>) = ValuesList(list)
    <3>1. [i \in DOMAIN <<<<x>>>> |-> [k \in DOMAIN <<<<x>>>>[i] |->
              InSubstrait!TransformLiteralToValue(<<<<x>>>>[i][k])]] = list
      BY <2>2
    <3>. HIDE DEF list
    <3>. QED  BY <3>1 DEF GetValuesExpression
  <2>10. IsSeq(list) /\ Len(list) = 1 /\ list[1] = [k \in 1..1 |-> y]
    <3>1. list = [i \in 1..1 |-> list[i]] /\ list[1] = [k \in 1..1 |-> y]
      OBVIOUS
    <3>. HIDE DEF list
    <3>. QED  BY <3>1, MadeIsSeq
  <2>. HIDE DEF list
  <2>3. Len(list) = 1 /\ DOMAIN Head(list) = 1..1
    BY <2>10 DEF IsSeq
  <2> DEFINE cols == [k \in DOMAIN Head(list) |->
                         <<"entries", [i \in DOMAIN list |-> list[i][k]]>>]
  <2>4. ValuesList(list) = [rows |-> <<"values", 1>>, cols |-> cols]
    BY <2>3 DEF ValuesList
  <2>5. IsList(cols) /\ Len(cols) = 1
    <3>1. cols = [k \in 1..1 |-> cols[k]]
      BY <2>3
    <3>. HIDE DEF cols
    <3>2. IsSeq(cols) /\ Len(cols) = 1
      BY <3>1, MadeIsSeq
    <3>. QED  BY <3>2 DEF IsList
  <2>. HIDE DEF cols
  <2>6. IsList(<<Garbage>>) /\ Len(<<Garbage>>) = 1 /\ Hidden(<<Garbage>>[1])
    BY SingletonIsList DEF Hidden, Garbage
  <2>7. PICK d : d = <<Garbage>>
    OBVIOUS
  <2>8. Restored([rows |-> <<"values", 1>>, cols |-> cols],
                 [rows |-> <<"values", 1>>, cols |-> d])
    BY <2>5, <2>6, <2>7 DEF Restored, IsRelation, HasColumns
  <2>. QED  BY <2>2, <2>4, <2>7, <2>8, <2>9
<1>6. IsList(Spine("values"))
  BY SingletonIsList DEF Spine
<1>. HIDE DEF r, s, consumed
<1>7. Comes(consumed, s)
  BY <1>4, <1>5, <1>6, RelationComes
<1>. QED  BY <1>1, <1>7, LeafKeepsBack DEF OtherKinds

LEMMA EmptyResultKeepsBack ==
    ASSUME Beyond = {}, IInv, RInv, Unfinished, IsSimple(Menu), EmptyResultStep
    PROVE  RInv'
<1>1. PICK types \in Menu.empties :
          /\ \A k \in DOMAIN types : ~LossyType[types[k]]
          /\ LogicalEmptyResult(types)
  BY DEF EmptyResultStep
<1>2. \A k \in DOMAIN types : IsExactType(types[k])
  BY <1>1 DEF IsSimple
<1>3. IsList(types)
  BY TypesAreLists DEF IInv
<1> DEFINE written == [k \in DOMAIN types |-> Producer!DuckToSubstraitType[types[k]]]
           node == [rel |-> "virtual", expressions |-> <<>>, types |-> written]
           consumed == TransformVirtualTable(Head(Producer!TransformEmptyResult(types)))
           back == [k \in DOMAIN node.types |->
                       InSubstrait!SubstraitToDuckType[node.types[k]]]
<1>4. Leaf("empty", NoRows(types), consumed)
  BY <1>1 DEF LogicalEmptyResult
<1>5. Producer!TransformEmptyResult(types) = <<node>>
  BY DEF Producer!TransformEmptyResult, Producer!VirtualRel
<1>6. node.expressions = <<>> /\ node.types = written
  OBVIOUS
<1>. HIDE DEF node
<1>7. consumed = Relation(NoRows(back), Spine("empty"))
  BY <1>5, <1>6, OneBefore DEF TransformVirtualTable
<1>8. back = types
  <2>1. ASSUME NEW k \in DOMAIN types
        PROVE  InSubstrait!SubstraitToDuckType[written[k]] = types[k]
    BY <1>2 DEF IsExactType
  <2>2. back = [k \in DOMAIN types |-> InSubstrait!SubstraitToDuckType[written[k]]]
    BY <1>6
  <2>. HIDE DEF written
  <2>3. back = [k \in DOMAIN types |-> types[k]]
    BY <2>1, <2>2
  <2>. QED  BY <1>3, <2>3 DEF IsList, IsSeq
<1>9. IsRelation(NoRows(types))
  <2> DEFINE cols == [k \in DOMAIN types |-> <<"empty", types[k]>>]
  <2>1. IsList(cols)
    BY <1>3, EachIsList
  <2>2. NoRows(types) = [rows |-> <<"values", 0>>, cols |-> cols]
    BY DEF NoRows
  <2>. HIDE DEF cols
  <2>. QED  BY <2>1, <2>2 DEF IsRelation, HasColumns
<1>10. IsList(Spine("empty"))
  BY SingletonIsList DEF Spine
<1>. HIDE DEF back, consumed
<1>11. Comes(consumed, NoRows(types))
  BY <1>7, <1>8, <1>9, <1>10, SameRestored, RelationComes
<1>. QED  BY <1>4, <1>11, LeafKeepsBack DEF OtherKinds

LEMMA ExpressionGetKeepsBack ==
    ASSUME IInv, RInv, Unfinished, IsSimple(Menu),
           Beyond = {}, NEW list \in Lists({<<c>> : c \in Constants}),
           LogicalExpressionGet(list)
    PROVE  RInv'
<1> DEFINE expressions == [i \in DOMAIN list |->
                              [k \in DOMAIN list[i] |->
                                  Producer!TransformConstant(list[i][k])]]
           node == [rel |-> "virtual", expressions |-> expressions, types |-> <<>>]
           consumed == TransformVirtualTable(Head(Producer!TransformExpressionGet(list)))
           back == [i \in DOMAIN node.expressions |->
                       [k \in DOMAIN node.expressions[i] |->
                           InSubstrait!TransformLiteralToValue(node.expressions[i][k])]]
<1>1. Leaf("values", ValuesList(list), consumed)
  BY DEF LogicalExpressionGet
<1>2. Producer!TransformExpressionGet(list) = <<node>>
  BY DEF Producer!TransformExpressionGet, Producer!VirtualRel
<1>3. node.expressions = expressions
  OBVIOUS
<1>4. IsList(list)
  BY ListsAreLists DEF IInv
<1>5. expressions # <<>>
  <2>1. DOMAIN expressions = DOMAIN list /\ DOMAIN list = 1..Len(list) /\ Len(list) # 0
        /\ Len(list) \in Nat
    BY <1>4 DEF IsList, IsSeq
  <2>. HIDE DEF expressions
  <2>. QED  BY <2>1
<1>. HIDE DEF node
<1>6. consumed = Relation(ValuesList(back), Spine("values"))
  BY <1>2, <1>3, <1>5, OneBefore DEF TransformVirtualTable, GetValuesExpression
<1>7. ASSUME NEW i \in DOMAIN list
      PROVE  \E c \in Constants : list[i] = <<c>>
  BY <1>7 DEF Lists
<1>8. ASSUME NEW i \in DOMAIN list
      PROVE  back[i] = list[i]
  <2>1. PICK c \in Constants : list[i] = <<c>>
    BY <1>7
  <2>2. IsExactConstant(c)
    BY <2>1 DEF Constants, IsSimple
  <2>3. DOMAIN list[i] = 1..1 /\ list[i][1] = c
    BY <2>1
  <2> DEFINE e == [k \in DOMAIN list[i] |-> Producer!TransformConstant(list[i][k])]
  <2>4. node.expressions[i] = e
    BY <1>3
  <2>5. DOMAIN e = 1..1 /\ e[1] = Producer!TransformConstant(c)
    BY <2>3
  <2>. HIDE DEF e
  <2>6. i \in DOMAIN node.expressions
    BY <1>3
  <2>7. back[i] = [k \in 1..1 |-> InSubstrait!TransformLiteralToValue(e[k])]
    BY <2>4, <2>5, <2>6
  <2>8. InSubstrait!TransformLiteralToValue(e[1]) = c
    BY <2>2, <2>5 DEF IsExactConstant
  <2>9. back[i] = <<c>>
    BY <2>7, <2>8
  <2>. QED  BY <2>1, <2>9
<1>9. DOMAIN back = DOMAIN list
  BY <1>3
<1>10. back = list
  <2>1. back = [i \in DOMAIN list |-> back[i]]
    BY <1>9
  <2>. HIDE DEF back
  <2>2. back = [i \in DOMAIN list |-> list[i]]
    BY <1>8, <2>1
  <2>. QED  BY <1>4, <2>2 DEF IsList, IsSeq
<1>11. IsRelation(ValuesList(list))
  <2> DEFINE cols == [k \in DOMAIN Head(list) |->
                         <<"entries", [i \in DOMAIN list |-> list[i][k]]>>]
  <2>1. IsList(Head(list))
    <3>1. 1 \in DOMAIN list /\ Head(list) = list[1]
      BY <1>4 DEF IsList, IsSeq
    <3>2. PICK c : list[1] = <<c>>
      BY <1>7, <3>1
    <3>. QED  BY <3>1, <3>2, SingletonIsList
  <2>2. IsList(cols)
    BY <2>1, EachIsList
  <2>3. ValuesList(list) = [rows |-> <<"values", Len(list)>>, cols |-> cols]
    BY DEF ValuesList
  <2>. HIDE DEF cols
  <2>. QED  BY <2>2, <2>3 DEF IsRelation, HasColumns
<1>12. IsList(Spine("values"))
  BY SingletonIsList DEF Spine
<1>. HIDE DEF back, consumed
<1>13. Comes(consumed, ValuesList(list))
  BY <1>6, <1>10, <1>11, <1>12, SameRestored, RelationComes
<1>. QED  BY <1>1, <1>13, LeafKeepsBack DEF OtherKinds

-----------------------------------------------------------------------------
(* Expressions without depth.                                              *)

Shallow(e) == {e} \cup {e.args[k] : k \in DOMAIN e.args}

LEMMA WithinShallow ==
    ASSUME NEW e, Nested1(e)
    PROVE  Within(e) \subseteq Shallow(e)
<1>1. ASSUME NEW T, T \subseteq Shallow(e)
      PROVE  Arguments(T) \subseteq Shallow(e)
  <2>. SUFFICES ASSUME NEW y \in Arguments(T) PROVE y \in Shallow(e)
    OBVIOUS
  <2>1. PICK x \in T : \E k \in DOMAIN x.args : y = x.args[k]
    BY ArgumentsOf
  <2>2. CASE x = e
    BY <2>1, <2>2 DEF Shallow
  <2>3. CASE x # e
    <3>1. PICK j \in DOMAIN e.args : x = e.args[j]
      BY <1>1, <2>3 DEF Shallow
    <3>2. x.args = <<>>
      BY <3>1 DEF Nested1, Nested0
    <3>. QED  BY <2>1, <3>2
  <2>. QED  BY <2>2, <2>3
<1>2. Down0(e) \subseteq Shallow(e)
  BY DEF Down0, Shallow
<1>3. Down1(e) \subseteq Shallow(e)
  BY <1>1, <1>2 DEF Down1
<1>4. Down2(e) \subseteq Shallow(e)
  BY <1>1, <1>3 DEF Down2
<1>5. Down3(e) \subseteq Shallow(e)
  BY <1>1, <1>4 DEF Down3
<1>6. Down4(e) \subseteq Shallow(e)
  BY <1>1, <1>5 DEF Down4
<1>. QED  BY <1>6, WithinIsDown

IsLeafOver(e, S) == /\ Nested0(e) /\ IsKept(e)
                    /\ e.op = "ref" => e.index \in S

LEMMA LeafIsGood ==
    ASSUME NEW e, NEW S, IsLeafOver(e, S)
    PROVE  Good(e, S)
<1>1. Nested1(e) /\ Nested3(e)
  BY NestedGrows DEF IsLeafOver
<1>2. DOMAIN e.args = {}
  BY DEF IsLeafOver, Nested0
<1>3. Shallow(e) = {e}
  BY <1>2 DEF Shallow
<1>4. Within(e) \subseteq {e}
  BY <1>1, <1>3, WithinShallow
<1>. QED  BY <1>1, <1>4 DEF Good, AllKept, IsLeafOver

LEMMA ShallowIsGood ==
    ASSUME NEW e, NEW S, IsKept(e), e.op # "ref",
           \A k \in DOMAIN e.args : IsLeafOver(e.args[k], S)
    PROVE  Good(e, S)
<1>1. Nested1(e)
  BY DEF IsLeafOver, Nested1
<1>2. Nested3(e)
  BY <1>1, NestedGrows
<1>3. ASSUME NEW x \in Within(e)
      PROVE  IsKept(x) /\ (x.op = "ref" => x.index \in S)
  <2>1. x \in Shallow(e)
    BY <1>1, WithinShallow
  <2>. QED  BY <2>1 DEF Shallow, IsLeafOver
<1>. QED  BY <1>2, <1>3 DEF Good, AllKept

LEMMA NoneIsSeq == IsSeq(<<>>) /\ Len(<<>>) = 0
BY DEF IsSeq

LEMMA OneIsSeq == ASSUME NEW x PROVE IsSeq(<<x>>) /\ Len(<<x>>) = 1
BY SingletonIsList DEF IsList

LEMMA TwoIsSeq == ASSUME NEW x, NEW y PROVE IsSeq(<<x, y>>) /\ Len(<<x, y>>) = 2
BY DEF IsSeq

LEMMA RefIsLeaf ==
    ASSUME NEW S, NEW i \in S
    PROVE  IsLeafOver(Ref(i), S)
<1>1. /\ Ref(i).op = "ref" /\ Ref(i).args = <<>> /\ Ref(i).index = i
  BY DEF Ref
<1>2. PICK e : e = Ref(i)
  OBVIOUS
<1>3. /\ e.op = "ref" /\ e.args = <<>> /\ e.index = i /\ e = Ref(e.index)
  BY <1>1, <1>2
<1>4. IsLeafOver(e, S)
  BY <1>3, NoneIsSeq DEF IsLeafOver, Nested0, IsKept
<1>. QED  BY <1>2, <1>4

LEMMA ConstantIsLeaf ==
    ASSUME NEW S, NEW c, IsExactConstant(c)
    PROVE  IsLeafOver(Constant(c), S)
<1>1. /\ Constant(c).op = "literal" /\ Constant(c).args = <<>>
      /\ Constant(c).literal = c
  BY DEF Constant
<1>2. PICK e : e = Constant(c)
  OBVIOUS
<1>3. e.op = "literal" /\ e.args = <<>> /\ e.literal = c /\ e = Constant(e.literal)
  BY <1>1, <1>2
<1>4. IsLeafOver(e, S)
  BY <1>3, NoneIsSeq DEF IsLeafOver, Nested0, IsKept
<1>. QED  BY <1>2, <1>4

\* Constants that are written under their own kind.
LEMMA DirectIsExact ==
    ASSUME NEW id \in DOMAIN Producer!Direct, NEW value, value # <<>>
    PROVE  IsExactConstant([type |-> <<id>>, value |-> value, text |-> ""])
<1> DEFINE c == [type |-> <<id>>, value |-> value, text |-> ""]
           kind == Producer!Direct[id]
           l == Producer!Literal(kind, <<>>, value, "")
<1>1. c.type[1] = id /\ c.value = value
  OBVIOUS
<1>2. Producer!TransformConstant(c) = l
  <2>. HIDE DEF c, l
  <2>1. id \notin {"DECIMAL", "HUGEINT", "TIME", "TIMESTAMP_TZ", "INTERVAL", "VARCHAR"}
                      \cup Producer!Printed
    BY DEF Producer!Direct, Producer!Printed
  <2>. QED  BY <1>1, <2>1 DEF Producer!TransformConstant, l
<1>3. l.kind = kind /\ l.value = value
  BY DEF Producer!Literal
<1>4. kind \notin {"null", "string", "decimal", "precision_time", "precision_timestamp_tz",
                   "interval_year_to_month", "interval_day_to_second"}
  BY DEF Producer!Direct
<1>5. id \in DOMAIN InSubstrait!Direct /\ InSubstrait!Direct[id] = kind
  BY DEF Producer!Direct, InSubstrait!Direct
<1>6. ASSUME NEW jd \in DOMAIN InSubstrait!Direct, InSubstrait!Direct[jd] = kind
      PROVE  jd = id
  BY <1>5, <1>6 DEF InSubstrait!Direct
<1>. HIDE DEF l, kind
<1>7. (CHOOSE jd \in DOMAIN InSubstrait!Direct : InSubstrait!Direct[jd] = kind) = id
  BY <1>5, <1>6
<1>8. InSubstrait!TransformLiteralToValue(l) = InSubstrait!Constant(<<id>>, value)
  BY <1>3, <1>4, <1>7 DEF InSubstrait!TransformLiteralToValue
<1>9. InSubstrait!Constant(<<id>>, value) = c
  BY DEF InSubstrait!Constant
<1>. QED  BY <1>2, <1>8, <1>9 DEF IsExactConstant

LEMMA NumberIsLeaf ==
    ASSUME NEW S
    PROVE  IsLeafOver(Num(7), S)
<1> DEFINE c == [type |-> IntegerType, value |-> <<7>>, text |-> ""]
<1>1. IsExactConstant(c)
  <2>1. "INTEGER" \in DOMAIN Producer!Direct /\ <<7>> # <<>>
    BY DEF Producer!Direct
  <2>2. PICK v : v = <<7>>
    OBVIOUS
  <2>3. IsExactConstant([type |-> <<"INTEGER">>, value |-> v, text |-> ""])
    BY <2>1, <2>2, DirectIsExact
  <2>. QED  BY <2>2, <2>3 DEF IntegerType
<1>. HIDE DEF c
<1>2. Num(7) = Constant(c)
  BY DEF Num, c
<1>. QED  BY <1>1, <1>2, ConstantIsLeaf

-----------------------------------------------------------------------------
LEMMA CallsAreGood ==
    ASSUME NEW S, NEW cols, NEW e \in Calls(S, cols)
    PROVE  Good(e, S)
<1>1. CASE \E i \in S : e = Call("abs", <<Ref(i)>>)
  <2>1. PICK i \in S : e = Call("abs", <<Ref(i)>>)
    BY <1>1
  <2>2. PICK x : x = Ref(i)
    OBVIOUS
  <2>3. IsLeafOver(x, S)
    BY <2>2, RefIsLeaf
  <2>4. e.op = "call" /\ e.name = "abs" /\ e.args = <<x>>
    BY <2>1, <2>2 DEF Call
  <2>5. IsSeq(e.args) /\ \A k \in DOMAIN e.args : e.args[k] = x
    BY <2>4, OneIsSeq
  <2>6. IsPlainName("abs")
    BY DEF IsPlainName, SubstraitNames, SpecialNames, OneWayNames,
           Comparisons, Operators, Extracts, Producer!NestedKind,
           Producer!valid_extract_subfields
  <2>7. IsKept(e)
    BY <2>4, <2>5, <2>6 DEF IsKept
  <2>. QED  BY <2>3, <2>4, <2>5, <2>7, ShallowIsGood
<1>2. CASE \E i \in S : e = Expr("is_null", <<Ref(i)>>)
  <2>1. PICK i \in S : e = Expr("is_null", <<Ref(i)>>)
    BY <1>2
  <2>2. PICK x : x = Ref(i)
    OBVIOUS
  <2>3. IsLeafOver(x, S)
    BY <2>2, RefIsLeaf
  <2>4. e.op = "is_null" /\ e.args = <<x>>
    BY <2>1, <2>2 DEF Expr
  <2>5. IsSeq(e.args) /\ \A k \in DOMAIN e.args : e.args[k] = x
    BY <2>4, OneIsSeq
  <2>7. IsKept(e)
    BY <2>4, <2>5 DEF IsKept, Operators
  <2>. QED  BY <2>3, <2>4, <2>5, <2>7, ShallowIsGood
<1>. QED  BY <1>1, <1>2 DEF Calls, IntegersOf

LEMMA ConditionIsGood ==
    ASSUME NEW S, NEW i \in S, NEW type
    PROVE  Good(ConditionOn(Ref(i), type), S) /\ ConditionOn(Ref(i), type).op # "literal"
<1>1. PICK x, y, e : x = Ref(i) /\ y = Num(7) /\ e = ConditionOn(x, type)
  OBVIOUS
<1>2. IsLeafOver(x, S) /\ IsLeafOver(y, S) /\ ~IsString(x) /\ ~IsString(y)
  <2>1. Ref(i).op # "literal"
    BY DEF Ref
  <2>2. Num(7).literal.type # <<"VARCHAR">>
    BY DEF Num, Constant, IntegerType
  <2>. QED  BY <1>1, <2>1, <2>2, RefIsLeaf, NumberIsLeaf DEF IsString
<1>3. CASE type = IntegerType
  <2>1. e.op = "compare" /\ e.fn = "gt" /\ e.args = <<x, y>>
    BY <1>1, <1>3 DEF ConditionOn, Comparison
  <2>2. IsSeq(e.args) /\ Len(e.args) = 2
        /\ \A k \in DOMAIN e.args : e.args[k] = x \/ e.args[k] = y
    BY <2>1, TwoIsSeq
  <2>3. IsKept(e)
    BY <2>1, <2>2 DEF IsKept, Comparisons
  <2>4. Good(e, S)
    BY <1>2, <2>1, <2>2, <2>3, ShallowIsGood
  <2>. QED  BY <1>1, <2>1, <2>4
<1>4. CASE type # IntegerType
  <2>1. e.op = "is_not_null" /\ e.args = <<x>>
    BY <1>1, <1>4 DEF ConditionOn, Expr
  <2>2. IsSeq(e.args) /\ \A k \in DOMAIN e.args : e.args[k] = x
    BY <2>1, OneIsSeq
  <2>3. IsKept(e)
    BY <2>1, <2>2 DEF IsKept, Operators
  <2>4. Good(e, S)
    BY <1>2, <2>1, <2>2, <2>3, ShallowIsGood
  <2>. QED  BY <1>1, <2>1, <2>4
<1>. QED  BY <1>3, <1>4

LEMMA RowsAreGood ==
    ASSUME NEW S, NEW cols, NEW e \in Rows(S, cols)
    PROVE  Good(e, S)
<1>1. PICK i \in S, j \in S : e = Call("row", <<Ref(i), Ref(j)>>)
  BY DEF Rows, IntegersOf
<1>2. PICK x, y : x = Ref(i) /\ y = Ref(j)
  OBVIOUS
<1>3. IsLeafOver(x, S) /\ IsLeafOver(y, S)
  BY <1>2, RefIsLeaf
<1>4. e.op = "call" /\ e.name = "row" /\ e.args = <<x, y>>
  BY <1>1, <1>2 DEF Call
<1>5. IsSeq(e.args) /\ \A k \in DOMAIN e.args : e.args[k] = x \/ e.args[k] = y
  BY <1>4, TwoIsSeq
<1>6. IsKept(e)
  BY <1>4, <1>5 DEF IsKept, IsNested
<1>. QED  BY <1>3, <1>4, <1>5, <1>6, ShallowIsGood

LEMMA RefsAreGood ==
    ASSUME NEW S, NEW e \in ColumnRefs(S)
    PROVE  Good(e, S) /\ e.op # "literal"
<1>1. PICK i \in S : e = Ref(i)
  BY DEF ColumnRefs
<1>2. Ref(i).op = "ref"
  BY DEF Ref
<1>. QED  BY <1>1, <1>2, RefIsGood

LEMMA ConditionsAreGood ==
    ASSUME IsSimple(Menu), NEW S, NEW cols, NEW e \in Conditions(S, cols)
    PROVE  Good(e, S) /\ e.op # "literal"
<1>1. PICK i \in S : e = ConditionOn(Ref(i), TypeOf(cols[i + 1]))
  BY DEF Conditions, IsSimple
<1>. QED  BY <1>1, ConditionIsGood

LEMMA ConstantsAreExact ==
    ASSUME Beyond = {}, IsSimple(Menu), NEW c \in Constants
    PROVE  c \in Menu.constants /\ IsExactConstant(c)
BY DEF Constants, IsSimple

LEMMA ExprsAreGood ==
    ASSUME Beyond = {}, IsSimple(Menu), NEW S, NEW cols, NEW e \in Exprs(S, cols)
    PROVE  /\ Good(e, S)
           /\ IsString(e) => \E c \in Menu.constants : c.type = <<"VARCHAR">>
<1>1. CASE e \in ColumnRefs(S)
  BY <1>1, RefsAreGood DEF IsString
<1>2. CASE \E c \in Constants : e = Constant(c)
  <2>1. PICK c \in Constants : e = Constant(c)
    BY <1>2
  <2>2. Good(e, S)
    BY <2>1, ConstantsAreExact, ConstantIsLeaf, LeafIsGood
  <2>3. e.literal = c
    BY <2>1 DEF Constant
  <2>. QED  BY <2>2, <2>3, ConstantsAreExact DEF IsString
<1>3. CASE e \in Calls(S, cols)
  <2>1. e.op # "literal"
    BY <1>3 DEF Calls, Call, Expr
  <2>. QED  BY <1>3, <2>1, CallsAreGood DEF IsString
<1>. QED  BY <1>1, <1>2, <1>3 DEF Exprs, IsSimple

LEMMA OperandsAreGood ==
    ASSUME Beyond = {}, IsSimple(Menu), NEW type, NEW side, NEW S, NEW cols,
           NEW e \in Operands(type, side, S, cols)
    PROVE  /\ Good(e, S)
           /\ IsString(e) => \E c \in Menu.constants : c.type = <<"VARCHAR">>
           /\ (side = "left") = Producer!Swapped(type) => ~OffsetLost(e)
<1>1. e \in Exprs(S, cols)
  BY DEF Operands
<1>2. Good(e, S) /\ (IsString(e) => \E c \in Menu.constants : c.type = <<"VARCHAR">>)
  BY <1>1, ExprsAreGood
<1>3. (side = "left") = Producer!Swapped(type) => ~OffsetLost(e)
  BY DEF Operands
<1>. QED  BY <1>2, <1>3

LEMMA UsableIsShown ==
    ASSUME Beyond = {}, NEW p
    PROVE  Usable(p) = Shown(p.logical)
BY DEF Usable, Shown

-----------------------------------------------------------------------------
(* Operators on one child.                                                 *)

Narrowed(s, map) == IF map = <<>> THEN s ELSE Pick(s, map)

LEMMA MapComes ==
    ASSUME menu \in DOMAIN Menus, NEW in, NEW s, Comes(in, s),
           NEW S, S \subseteq Shown(s), NEW map \in Maps(S),
           map # <<>> => in.spine[1].type # "empty",
           NEW child, NEW columns, child.columns = columns, Len(s.cols) = columns
    PROVE  Comes(TransformChain(in, Producer!ProjectMap(child, map)), Narrowed(s, map))
<1>1. CASE map = <<>>
  BY <1>1, ChainOfNone DEF Producer!ProjectMap, Narrowed
<1>2. CASE map # <<>>
  <2>1. IsList(map)
    BY <1>2, MapsAreLists
  <2>2. \A k \in DOMAIN map : map[k] \in 0..columns - 1
    BY <1>2 DEF Maps, Lists, Shown
  <2>3. Producer!ProjectMap(child, map) = Producer!ProjectFields(columns, map)
    BY <1>2 DEF Producer!ProjectMap, Producer!GetColumnCount
  <2>4. Comes(TransformChain(in, Producer!ProjectFields(columns, map)), Pick(s, map))
    BY <1>2, <2>1, <2>2, ChainOfFields
  <2>. QED  BY <1>2, <2>3, <2>4 DEF Narrowed
<1>. QED  BY <1>1, <1>2

LEMMA MapIsOne ==
    ASSUME NEW child, NEW map, map # <<>>
    PROVE  \E p : Producer!ProjectMap(child, map) = <<p>> /\ p.rel = "project"
<1> DEFINE p == [rel |-> "project",
                 expressions |-> [k \in DOMAIN map |-> Producer!FieldRef(map[k])],
                 emit |-> [k \in DOMAIN map |-> Producer!GetColumnCount(child) + k - 1]]
<1>1. Producer!ProjectMap(child, map) = <<p>>
  BY DEF Producer!ProjectMap, Producer!ProjectFields, Producer!ProjectRel
<1>2. p.rel = "project"
  OBVIOUS
<1>. HIDE DEF p
<1>. QED  BY <1>1, <1>2

LEMMA ChainOnMap ==
    ASSUME NEW in, NEW node, NEW child, NEW map
    PROVE  TransformChain(in, <<node>> \o Producer!ProjectMap(child, map))
               = TransformChain(TransformUnary(in, node), Producer!ProjectMap(child, map))
<1>1. CASE map = <<>>
  <2>1. Producer!ProjectMap(child, map) = <<>>
    BY <1>1 DEF Producer!ProjectMap
  <2>2. <<node>> \o <<>> = <<node>>
    OBVIOUS
  <2>. QED  BY <2>1, <2>2, ChainOfNone, ChainOfOne
<1>2. CASE map # <<>>
  <2>1. PICK p : Producer!ProjectMap(child, map) = <<p>>
    BY <1>2, MapIsOne
  <2>2. <<node>> \o <<p>> = <<node, p>>
    BY TwoTogether
  <2>3. TransformChain(in, <<node, p>>) = TransformUnary(TransformUnary(in, node), p)
    BY ChainOfTwo
  <2>4. TransformChain(TransformUnary(in, node), <<p>>)
            = TransformUnary(TransformUnary(in, node), p)
    BY ChainOfOne
  <2>. QED  BY <2>1, <2>2, <2>3, <2>4
<1>. QED  BY <1>1, <1>2

\* What the guard of an operator on one child says of that child.
ReadsRows(in, nodes) ==
    nodes # <<>> /\ Head(nodes).rel = "project" => in.spine[1].type # "empty"

LEMMA UnaryReadsRows ==
    ASSUME Beyond = {}, NEW kind, NEW logical, NEW nodes, Unary(kind, logical, nodes)
    PROVE  ReadsRows(Top.consumed, nodes)
BY DEF Unary, ReadsRows

AllGood(set, S) == \A e \in set : Good(e, S)

LEMMA FilteredComes ==
    ASSUME menu \in DOMAIN Menus, NEW in, NEW s, Comes(in, s),
           NEW S, S \subseteq Shown(s), NEW map \in Maps(S),
           NEW set, AllGood(set, S),
           NEW child, NEW columns, child.columns = columns, Len(s.cols) = columns,
           NEW nodes, nodes = Producer!TransformFilter(child, set, map),
           ReadsRows(in, nodes)
    PROVE  Comes(TransformChain(in, nodes), Narrowed(Filter(s, set), map))
<1> DEFINE mapped == Producer!ProjectMap(child, map)
<1>1. CASE set = {}
  <2>1. nodes = <<>> \o mapped
    BY <1>1 DEF Producer!TransformFilter
  <2>2. map = <<>> => mapped = <<>>
    BY DEF Producer!ProjectMap
  <2>3. map # <<>> => \E p : mapped = <<p>> /\ p.rel = "project"
    BY MapIsOne
  <2>. HIDE DEF mapped
  <2>4. nodes = mapped
    BY <2>1, <2>2, <2>3
  <2>5. ASSUME map # <<>>
        PROVE  in.spine[1].type # "empty"
    <3>1. PICK p : mapped = <<p>> /\ p.rel = "project"
      BY <2>3, <2>5
    <3>2. nodes # <<>> /\ Head(nodes) = p
      BY <2>4, <3>1
    <3>. QED  BY <3>1, <3>2 DEF ReadsRows
  <2>6. Filter(s, set) = s
    BY <1>1 DEF Filter
  <2>7. Comes(TransformChain(in, mapped), Narrowed(s, map))
    BY <2>5, MapComes DEF mapped
  <2>. QED  BY <2>4, <2>6, <2>7
<1>2. CASE set # {}
  <2> DEFINE node == [rel |-> "filter", condition |-> Producer!TransformedSet(set)]
  <2>1. nodes = <<node>> \o mapped
    BY <1>2 DEF Producer!TransformFilter
  <2>2. node.rel = "filter" /\ node.condition = Producer!TransformedSet(set)
    OBVIOUS
  <2>. HIDE DEF node, mapped
  <2>3. PICK x, t : x = TransformUnary(in, node) /\ t = Filter(s, set)
    OBVIOUS
  <2>4. Comes(x, t) /\ x.spine[1].type # "empty"
    BY <1>2, <2>2, <2>3, FilterComes DEF AllGood
  <2>5. t.cols = s.cols
    BY <1>2, <2>3, NewRows DEF Filter, Comes, Restored, IsRelation
  <2>6. Shown(t) = Shown(s) /\ Len(t.cols) = columns
    BY <2>5 DEF Shown
  <2>7. Comes(TransformChain(x, mapped), Narrowed(t, map))
    BY <2>4, <2>6, MapComes DEF mapped
  <2>8. TransformChain(in, nodes) = TransformChain(x, mapped)
    BY <2>1, <2>3, ChainOnMap DEF mapped
  <2>. QED  BY <2>3, <2>7, <2>8
<1>. QED  BY <1>1, <1>2

LEMMA SortedComes ==
    ASSUME menu \in DOMAIN Menus, NEW in, NEW s, Comes(in, s),
           NEW S, S \subseteq Shown(s), NEW map \in Maps(S),
           NEW key, IsSortKey(key, S),
           NEW child, NEW columns, child.columns = columns, Len(s.cols) = columns,
           NEW nodes, nodes = Producer!TransformOrderBy(child, <<key>>, map)
    PROVE  Comes(TransformChain(in, nodes), Narrowed(Order(s, <<key>>), map))
<1> DEFINE mapped == Producer!ProjectMap(child, map)
           node == [rel |-> "sort", sorts |-> Producer!TransformOrders(<<key>>)]
<1>1. nodes = <<node>> \o mapped
  BY DEF Producer!TransformOrderBy
<1>2. node.rel = "sort" /\ node.sorts = Producer!TransformOrders(<<key>>)
  OBVIOUS
<1>. HIDE DEF node, mapped
<1>3. PICK x, t, keys : /\ keys = <<key>> /\ x = TransformUnary(in, node)
                        /\ t = Order(s, keys)
  OBVIOUS
<1>4. \A k \in DOMAIN keys : IsSortKey(keys[k], S)
  BY <1>3
<1>5. node.sorts = Producer!TransformOrders(keys)
  BY <1>2, <1>3
<1>6. Comes(x, t) /\ x.spine[1].type # "empty"
  BY <1>2, <1>3, <1>4, <1>5, SortComes
<1>7. t.cols = s.cols
  BY <1>3, NewRows DEF Order, Comes, Restored, IsRelation
<1>8. Shown(t) = Shown(s) /\ Len(t.cols) = columns
  BY <1>7 DEF Shown
<1>9. Comes(TransformChain(x, mapped), Narrowed(t, map))
  BY <1>6, <1>8, MapComes DEF mapped
<1>10. TransformChain(in, <<node>> \o mapped) = TransformChain(TransformUnary(in, node), mapped)
  BY ChainOnMap DEF mapped
<1>11. TransformChain(in, nodes) = TransformChain(x, mapped)
  BY <1>1, <1>3, <1>10
<1>. QED  BY <1>3, <1>9, <1>11

LEMMA TopNComes ==
    ASSUME NEW in, NEW s, Comes(in, s), NEW S, S \subseteq Shown(s),
           NEW key, IsSortKey(key, S), NEW limit, NEW offset
    PROVE  Comes(TransformChain(in, Producer!TransformTopN(<<key>>, limit, offset)),
                 Limit(Order(s, <<key>>), limit, offset))
<1> DEFINE node == [rel |-> "sort", sorts |-> Producer!TransformOrders(<<key>>)]
           fetch == Producer!FetchRel(limit, offset)
<1>1. Producer!TransformTopN(<<key>>, limit, offset) = <<node, fetch>>
  BY DEF Producer!TransformTopN
<1>2. node.rel = "sort" /\ node.sorts = Producer!TransformOrders(<<key>>)
  OBVIOUS
<1>. HIDE DEF node, fetch
<1>3. PICK x, t, keys : /\ keys = <<key>> /\ x = TransformUnary(in, node)
                        /\ t = Order(s, keys)
  OBVIOUS
<1>4. \A k \in DOMAIN keys : IsSortKey(keys[k], S)
  BY <1>3
<1>5. node.sorts = Producer!TransformOrders(keys)
  BY <1>2, <1>3
<1>6. Comes(x, t)
  BY <1>2, <1>3, <1>4, <1>5, SortComes
<1>7. Comes(TransformUnary(x, fetch), Limit(t, limit, offset))
  BY <1>6, FetchComes DEF fetch
<1>. QED  BY <1>1, <1>3, <1>7, ChainOfTwo

LEMMA SmallIsKept ==
    ASSUME NEW v \in Nat, v < 2^(IntBits - 1)
    PROVE  Producer!Int32(v) = v
<1>1. PICK half, whole : half = 2^(IntBits - 1) /\ whole = 2^IntBits
  OBVIOUS
<1>2. half \in Nat /\ whole = 2 * half /\ v < half /\ v < whole
  BY <1>1, PowersAssumption
<1>3. v % whole = v
  BY <1>2
<1>. QED  BY <1>1, <1>2, <1>3 DEF Producer!Int32

LEMMA LimitedComes ==
    ASSUME NEW in, NEW s, Comes(in, s),
           NEW limit, limit = -1 \/ (limit \in Nat /\ limit < 2^(IntBits - 1)),
           NEW offset \in Nat, offset < 2^(IntBits - 1)
    PROVE  Comes(TransformChain(in, Producer!TransformLimit(limit, offset)),
                 Limit(s, limit, offset))
<1>1. Producer!Int32(offset) = offset
  BY SmallIsKept
<1>2. CASE limit = -1
  <2>1. Producer!TransformLimit(limit, offset) = <<Producer!FetchRel(limit, offset)>>
    BY <1>1, <1>2 DEF Producer!TransformLimit
  <2>. QED  BY <2>1, ChainOfOne, FetchComes
<1>3. CASE limit \in Nat /\ limit < 2^(IntBits - 1)
  <2>1. Producer!Int32(limit) = limit /\ limit # -1 /\ limit >= 0
    BY <1>3, SmallIsKept
  <2>2. Producer!TransformLimit(limit, offset) = <<Producer!FetchRel(limit, offset)>>
    BY <1>1, <2>1 DEF Producer!TransformLimit
  <2>. QED  BY <2>2, ChainOfOne, FetchComes
<1>. QED  BY <1>2, <1>3

-----------------------------------------------------------------------------
(* Each operator on one child comes back.                                  *)

LEMMA TopUsable ==
    ASSUME Beyond = {}
    PROVE  UsableOf(1) = Shown(Top.logical)
<1>1. stack[Len(stack) - 1 + 1] = Top
  BY DEF Top
<1>2. Usable(Top) = Shown(Top.logical)
  BY UsableIsShown
<1>. QED  BY <1>1, <1>2 DEF UsableOf

LEMMA TopRestored ==
    ASSUME IInv, RInv, Unfinished, Len(stack) >= 1
    PROVE  Comes(Top.consumed, Top.logical)
BY TopComes

LEMMA ChildColumns ==
    ASSUME NEW p
    PROVE  Child(p).columns = Len(p.logical.cols)
BY DEF Child

LEMMA NarrowedFilterKeepsBack ==
    ASSUME Beyond = {}, IInv, RInv, Unfinished, Len(stack) >= 1, IsSimple(Menu),
           FilterStep
    PROVE  RInv'
<1> DEFINE S == UsableOf(1)
<1>1. PICK set \in {{}} \cup {{c} : c \in Conditions(S, ColumnsOf(1))},
           map \in Maps(S) : LogicalFilter(set, map)
  BY DEF FilterStep
<1> DEFINE nodes == Producer!TransformFilter(Child(Top), set, map)
           logical == Narrowed(Filter(Top.logical, set), map)
<1>2. Unary("filter", logical, nodes)
  BY <1>1 DEF LogicalFilter, Narrowed
<1>3. ReadsRows(Top.consumed, nodes)
  BY <1>2, UnaryReadsRows
<1>4. AllGood(set, S)
  <2>1. ASSUME NEW e \in set
        PROVE  Good(e, S)
    <3>1. e \in Conditions(S, ColumnsOf(1))
      BY <1>1
    <3>. QED  BY <3>1, ConditionsAreGood
  <2>. QED  BY <2>1 DEF AllGood
<1>5. S \subseteq Shown(Top.logical)
  BY TopUsable
<1>6. menu \in DOMAIN Menus /\ map \in Maps(S)
  BY <1>1 DEF IInv
<1>7. Comes(Top.consumed, Top.logical)
  BY TopRestored
<1>8. Child(Top).columns = Len(Top.logical.cols)
  BY ChildColumns
<1>. HIDE DEF S
<1>9. Comes(TransformChain(Top.consumed, nodes), logical)
  BY <1>3, <1>4, <1>5, <1>6, <1>7, <1>8, FilteredComes
<1>. HIDE DEF nodes, logical
<1>. QED  BY <1>2, <1>9, UnaryKeepsBack DEF OtherKinds

LEMMA ProjectionKeepsBack ==
    ASSUME Beyond = {}, IInv, RInv, Unfinished, Len(stack) >= 1, IsSimple(Menu),
           ProjectionStep
    PROVE  RInv'
<1> DEFINE S == UsableOf(1)
<1>1. PICK list \in ProjectionLists(S, ColumnsOf(1)) : LogicalProjection(list)
  BY DEF ProjectionStep
<1> DEFINE nodes == Producer!TransformProjection(Child(Top), list)
           logical == Project(Top.logical, list)
<1>2. Unary("other", logical, nodes)
  BY <1>1 DEF LogicalProjection
<1>3. nodes # <<>> /\ Head(nodes).rel = "project" => Top.consumed.spine[1].type # "empty"
  <2>1. ReadsRows(Top.consumed, nodes)
    BY <1>2, UnaryReadsRows
  <2>. QED  BY <2>1 DEF ReadsRows
<1>4. list \in Lists(Exprs(S, ColumnsOf(1)) \cup Rows(S, ColumnsOf(1)))
      /\ UnrepeatedRefs(list)
  BY <1>1 DEF ProjectionLists
<1>5. IsList(list)
  BY <1>4, ListsAreLists DEF IInv
<1>6. ASSUME NEW k \in DOMAIN list
      PROVE  Good(list[k], S)
  <2>1. list[k] \in Exprs(S, ColumnsOf(1)) \cup Rows(S, ColumnsOf(1))
    BY <1>4 DEF Lists
  <2>2. CASE list[k] \in Exprs(S, ColumnsOf(1))
    BY <2>2, ExprsAreGood
  <2>3. CASE list[k] \in Rows(S, ColumnsOf(1))
    BY <2>3, RowsAreGood
  <2>. QED  BY <2>1, <2>2, <2>3
<1>7. S \subseteq Shown(Top.logical)
  BY TopUsable
<1>8. Comes(Top.consumed, Top.logical)
  BY TopRestored
<1>9. Child(Top).columns = Len(Top.logical.cols)
  BY ChildColumns
<1>. HIDE DEF S
<1>10. Comes(TransformChain(Top.consumed, nodes), logical)
  BY <1>3, <1>4, <1>5, <1>6, <1>7, <1>8, <1>9, ProjectionComes
<1>. HIDE DEF nodes, logical
<1>. QED  BY <1>2, <1>10, UnaryKeepsBack DEF OtherKinds

LEMMA SimpleKeys ==
    ASSUME IsSimple(Menu), NEW S, NEW cols, NEW key \in SortKeys(S, cols)
    PROVE  IsSortKey(key, S)
<1>1. /\ key.type \in {"asc", "desc"} /\ key.nulls \in {"first", "last"}
      /\ key.expr \in ColumnRefs(S)
      /\ key = [type |-> key.type, nulls |-> key.nulls, expr |-> key.expr]
  BY DEF SortKeys, IsSimple
<1>2. Good(key.expr, S)
  BY <1>1, RefsAreGood
<1>. QED  BY <1>1, <1>2 DEF IsSortKey

LEMMA OrderKeepsBack ==
    ASSUME Beyond = {}, IInv, RInv, Unfinished, Len(stack) >= 1, IsSimple(Menu),
           OrderStep
    PROVE  RInv'
<1> DEFINE S == UsableOf(1)
<1>1. PICK key \in SortKeys(S, ColumnsOf(1)), map \in Maps(S) :
          LogicalOrder(<<key>>, map)
  BY DEF OrderStep
<1> DEFINE nodes == Producer!TransformOrderBy(Child(Top), <<key>>, map)
           logical == Narrowed(Order(Top.logical, <<key>>), map)
<1>2. Unary("other", logical, nodes)
  BY <1>1 DEF LogicalOrder, Narrowed
<1>3. IsSortKey(key, S)
  BY <1>1, SimpleKeys
<1>4. S \subseteq Shown(Top.logical)
  BY TopUsable
<1>5. menu \in DOMAIN Menus /\ map \in Maps(S)
  BY <1>1 DEF IInv
<1>6. Comes(Top.consumed, Top.logical)
  BY TopRestored
<1>7. Child(Top).columns = Len(Top.logical.cols)
  BY ChildColumns
<1>. HIDE DEF S
<1>8. Comes(TransformChain(Top.consumed, nodes), logical)
  BY <1>3, <1>4, <1>5, <1>6, <1>7, SortedComes
<1>. HIDE DEF nodes, logical
<1>. QED  BY <1>2, <1>8, UnaryKeepsBack DEF OtherKinds

LEMMA TopNKeepsBack ==
    ASSUME Beyond = {}, IInv, RInv, Unfinished, Len(stack) >= 1, IsSimple(Menu),
           TopNStep
    PROVE  RInv'
<1> DEFINE S == UsableOf(1)
<1>1. PICK key \in SortKeys(S, ColumnsOf(1)), limit \in LimitValues,
           offset \in LimitValues : LogicalTopN(<<key>>, limit, offset)
  BY DEF TopNStep
<1> DEFINE nodes == Producer!TransformTopN(<<key>>, limit, offset)
           logical == Limit(Order(Top.logical, <<key>>), limit, offset)
<1>2. Unary("other", logical, nodes)
  BY <1>1 DEF LogicalTopN
<1>3. IsSortKey(key, S)
  BY <1>1, SimpleKeys
<1>4. S \subseteq Shown(Top.logical)
  BY TopUsable
<1>5. Comes(Top.consumed, Top.logical)
  BY TopRestored
<1>. HIDE DEF S
<1>6. Comes(TransformChain(Top.consumed, nodes), logical)
  BY <1>3, <1>4, <1>5, TopNComes
<1>. HIDE DEF nodes, logical
<1>. QED  BY <1>2, <1>6, UnaryKeepsBack DEF OtherKinds

LEMMA LimitKeepsBack ==
    ASSUME Beyond = {}, IInv, RInv, Unfinished, Len(stack) >= 1,
           NEW limit \in LimitValues \cup {-1}, NEW offset \in LimitValues,
           LogicalLimit(limit, offset)
    PROVE  RInv'
<1> DEFINE nodes == Producer!TransformLimit(limit, offset)
           logical == Limit(Top.logical, limit, offset)
<1>1. Unary("other", logical, nodes)
  BY DEF LogicalLimit
<1>2. ASSUME NEW v \in LimitValues
      PROVE  v \in Nat /\ v < 2^(IntBits - 1)
  <2>1. menu \in DOMAIN Menus
    BY DEF IInv
  <2>2. Menu.limits \subseteq Nat
    BY <2>1, BoundsAssumption DEF Menu
  <2>. QED  BY <2>2 DEF LimitValues
<1>3. limit = -1 \/ (limit \in Nat /\ limit < 2^(IntBits - 1))
  BY <1>2
<1>4. offset \in Nat /\ offset < 2^(IntBits - 1)
  BY <1>2
<1>5. Comes(Top.consumed, Top.logical)
  BY TopRestored
<1>6. Comes(TransformChain(Top.consumed, nodes), logical)
  BY <1>3, <1>4, <1>5, LimitedComes
<1>. HIDE DEF nodes, logical
<1>. QED  BY <1>1, <1>6, UnaryKeepsBack DEF OtherKinds

LEMMA ThenNothing ==
    ASSUME NEW x
    PROVE  <<x>> \o <<>> = <<x>>
OBVIOUS

LEMMA SimpleGroups ==
    ASSUME menu \in DOMAIN Menus, IsSimple(Menu), NEW S, NEW cols,
           NEW groups \in GroupLists(S, cols)
    PROVE  /\ IsSeq(groups) /\ \A k \in DOMAIN groups : Good(groups[k], S)
           /\ GroupingFunctions(groups) = {<<>>}
<1>1. GroupingFunctions(groups) = {<<>>}
  BY DEF GroupingFunctions, IsSimple
<1>2. groups = <<>> \/ groups \in Lists(ColumnRefs(S))
  BY DEF GroupLists, IsSimple
<1>3. CASE groups = <<>>
  BY <1>1, <1>3, NoneIsSeq
<1>4. CASE groups \in Lists(ColumnRefs(S))
  <2>1. IsSeq(groups)
    BY <1>4, ListsAreLists DEF IsList
  <2>2. ASSUME NEW k \in DOMAIN groups
        PROVE  Good(groups[k], S)
    <3>1. groups[k] \in ColumnRefs(S)
      BY <1>4 DEF Lists
    <3>. QED  BY <3>1, RefsAreGood
  <2>. QED  BY <1>1, <2>1, <2>2
<1>. QED  BY <1>2, <1>3, <1>4

LEMMA SimpleMeasures ==
    ASSUME Beyond = {}, IsSimple(Menu), NEW S, NEW cols,
           NEW m \in Measures(S, cols)
    PROVE  IsMeasure(m, S)
<1> DEFINE filters == IF "aggregate_filter" \in Beyond
                      THEN {{}} \cup {{c} : c \in Conditions(S, cols)} ELSE {{}}
           of(fn) == [fn: {fn}, args: ArgumentLists(fn, S, cols),
                      distinct: IF fn = "count_star" THEN {FALSE} ELSE BOOLEAN,
                      filter: filters]
<1>0. PICK fn \in FunctionNames : m \in of(fn)
  BY DEF Measures
<1>f. filters = {{}}
  OBVIOUS
<1>. HIDE DEF filters
<1>1. m.fn = fn /\ m.args \in ArgumentLists(fn, S, cols) /\ m.filter = {}
  BY <1>0, <1>f
<1>2. fn = "count_star" \/ (IsPlainName(fn) /\ fn # "grouping")
  BY <1>1 DEF FunctionNames, IsSimple
<1>3. CASE fn = "count_star"
  <2>1. m.args = <<>>
    BY <1>1, <1>3 DEF ArgumentLists
  <2>2. IsSeq(m.args) /\ DOMAIN m.args = {}
    BY <2>1, NoneIsSeq
  <2>. QED  BY <1>1, <1>3, <2>1, <2>2 DEF IsMeasure
<1>4. CASE fn # "count_star" /\ fn = "rank"
  <2>1. m.args = <<>>
    BY <1>1, <1>4 DEF ArgumentLists
  <2>2. IsSeq(m.args) /\ DOMAIN m.args = {}
    BY <2>1, NoneIsSeq
  <2>. QED  BY <1>1, <1>2, <1>4, <2>1, <2>2 DEF IsMeasure
<1>5. CASE fn # "count_star" /\ fn # "rank"
  <2>1. PICK i \in S : m.args = <<Ref(i)>>
    BY <1>1, <1>5 DEF ArgumentLists, IntegersOf
  <2>2. IsSeq(m.args) /\ Len(m.args) = 1
    BY <2>1, OneIsSeq
  <2>3. DOMAIN m.args = 1..1 /\ m.args[1] = Ref(i)
    BY <2>1
  <2>4. Good(Ref(i), S)
    BY RefIsGood
  <2>5. m.args # <<>>
    BY <2>3
  <2>6. \A k \in DOMAIN m.args : Good(m.args[k], S)
    BY <2>3, <2>4
  <2>. QED  BY <1>1, <1>2, <1>5, <2>2, <2>5, <2>6 DEF IsMeasure
<1>. QED  BY <1>3, <1>4, <1>5

LEMMA AggregateKeepsBack ==
    ASSUME Beyond = {}, IInv, RInv, Unfinished, Len(stack) >= 1, IsSimple(Menu),
           AggregateStep
    PROVE  RInv'
<1> DEFINE S == UsableOf(1)
<1>1. PICK groups \in GroupLists(S, ColumnsOf(1)) :
          \E sets \in GroupingSets(groups), measure \in Measures(S, ColumnsOf(1)),
             grouping_functions \in GroupingFunctions(groups) :
              LogicalAggregate(groups, sets, <<measure>>, grouping_functions)
  BY DEF AggregateStep
<1>2. PICK sets \in GroupingSets(groups), measure \in Measures(S, ColumnsOf(1)),
           grouping_functions \in GroupingFunctions(groups) :
          LogicalAggregate(groups, sets, <<measure>>, grouping_functions)
  BY <1>1
<1>m. menu \in DOMAIN Menus
  BY DEF IInv
<1>3. IsSeq(groups) /\ \A k \in DOMAIN groups : Good(groups[k], S)
  BY <1>m, SimpleGroups
<1>4. GroupingFunctions(groups) = {<<>>}
  BY <1>m, SimpleGroups
<1>5. LogicalAggregate(groups, sets, <<measure>>, <<>>)
  BY <1>2, <1>4
<1>6. IsMeasure(measure, S)
  BY SimpleMeasures
<1>7. PICK measures : measures = <<measure>>
  OBVIOUS
<1>8. /\ IsSeq(measures) /\ IsList(measures)
      /\ \A k \in DOMAIN measures : IsMeasure(measures[k], S)
  <2>1. DOMAIN measures = 1..1 /\ measures[1] = measure
    BY <1>7
  <2>2. IsList(measures)
    BY <1>7, SingletonIsList
  <2>. QED  BY <1>6, <2>1, <2>2 DEF IsList
<1> DEFINE groupings == IF sets = {} THEN AllGroups(groups) ELSE sets
           logical == Aggregate(Top.logical, groups, groupings, measures)
           written == [k \in DOMAIN measures |-> MeasureWritten(measures[k])]
           node == [rel |-> "aggregate",
                    grouping_expressions |-> Producer!Transformed(groups),
                    groupings |-> groupings, measures |-> written]
           nodes == Producer!TransformAggregateGroup(groups, sets, measures, <<>>)
<1>9. Unary("other", logical, nodes)
  <2> DEFINE grouping(list) ==
                 [fn |-> "grouping", distinct |-> FALSE, filter |-> {},
                  args |-> [i \in DOMAIN list |-> groups[list[i] + 1]]]
             extra == [k \in DOMAIN <<>> |-> grouping(<<>>[k])]
  <2>1. Unary("other", Aggregate(Top.logical, groups, groupings, <<measure>> \o extra),
              Producer!TransformAggregateGroup(groups, sets, <<measure>>, <<>>))
    BY <1>5 DEF LogicalAggregate
  <2>2. extra = <<>>
    OBVIOUS
  <2>. HIDE DEF extra
  <2>3. <<measure>> \o extra = measures
    BY <1>7, <2>2, ThenNothing
  <2>. QED  BY <1>7, <2>1, <2>3
<1>10. nodes = <<node>>
  <2> DEFINE each == [k \in DOMAIN measures |->
                         [fn |-> Producer!RemapFunctionName(measures[k].fn),
                          args |-> Producer!Transformed(measures[k].args),
                          distinct |-> measures[k].distinct]]
             extra == [k \in DOMAIN <<>> |->
                          [fn |-> "grouping", distinct |-> FALSE,
                           args |-> [i \in DOMAIN <<>>[k] |->
                                        Producer!FieldRef(<<>>[k][i])]]]
             all == each \o extra
  <2>1. nodes = <<[rel |-> "aggregate",
                   grouping_expressions |-> Producer!Transformed(groups),
                   groupings |-> IF sets = {} THEN {DOMAIN groups} ELSE sets,
                   measures |-> all]>>
    BY DEF Producer!TransformAggregateGroup
  <2>2. extra = <<>>
    OBVIOUS
  <2>3. each = written
    BY DEF MeasureWritten
  <2>4. PICK w : each = <<w>>
    <3>1. DOMAIN each = 1..1
      BY <1>7
    <3>2. each = [k \in DOMAIN each |-> each[k]]
      OBVIOUS
    <3>. HIDE DEF each
    <3>3. each = <<each[1]>>
      BY <3>1, <3>2
    <3>. QED  BY <3>3
  <2>. HIDE DEF each, extra
  <2>5. all = written
    BY <2>2, <2>3, <2>4, ThenNothing
  <2>6. groupings = IF sets = {} THEN {DOMAIN groups} ELSE sets
    BY DEF AllGroups
  <2>. HIDE DEF all, written, groupings, nodes
  <2>. QED  BY <2>1, <2>5, <2>6
<1>11. /\ node.rel = "aggregate"
       /\ node.grouping_expressions = Producer!Transformed(groups)
       /\ node.groupings = groupings /\ node.measures = written
  OBVIOUS
<1>12. Comes(Top.consumed, Top.logical)
  BY TopRestored
<1>13. S \subseteq Shown(Top.logical)
  BY TopUsable
<1>. HIDE DEF S, node, nodes
<1>14. Comes(TransformUnary(Top.consumed, node),
             Aggregate(Top.logical, groups, node.groupings, measures))
  BY <1>3, <1>8, <1>11, <1>12, <1>13, AggregateComes
<1>15. Comes(TransformChain(Top.consumed, nodes), logical)
  BY <1>10, <1>11, <1>14, ChainOfOne
<1>. HIDE DEF logical
<1>. QED  BY <1>9, <1>15, UnaryKeepsBack DEF OtherKinds

LEMMA FirstTwo ==
    ASSUME NEW s, IsSeq(s), Len(s) = 2
    PROVE  SubSeq(s, 1, 2) = s
BY DEF IsSeq

LEMMA DistinctKeepsBack ==
    ASSUME Beyond = {}, IInv, RInv, Unfinished, Len(stack) >= 1,
           NEW targets \in DistinctTargets(UsableOf(1)), LogicalDistinct(targets)
    PROVE  RInv'
<1>1. targets = <<>>
  BY DEF DistinctTargets
<1>2. IsPlan(Top) /\ Comes(Top.consumed, Top.logical)
  BY TopComes
<1>3. CASE Top.kind \in {"except", "intersect"}
  <2> DEFINE consumed == TransformSetOp(SubSeq(Top.parts, 1, 2),
                                        Producer!SetRel(Top.kind))
  <2>1. Len(Top.parts) = 2 /\ Put(1, Plan("other", DistinctSet(Top.logical), consumed))
    BY <1>3 DEF LogicalDistinct
  <2>2. IsSetOf(Top)
    BY <1>2, <1>3 DEF IsPlan, SetKinds
  <2>3. SubSeq(Top.parts, 1, 2) = Top.parts
    BY <2>1, <2>2, FirstTwo DEF IsSetOf
  <2>4. consumed = Top.consumed
    BY <2>2, <2>3 DEF IsSetOf
  <2>5. DistinctSet(Top.logical) = Top.logical
    BY <2>2 DEF IsSetOf, DistinctSet
  <2>. HIDE DEF consumed
  <2>6. Put(1, Plan("other", Top.logical, Top.consumed))
    BY <2>1, <2>4, <2>5
  <2>7. IsPlanOrEnd(Plan("other", Top.logical, Top.consumed))
    BY <1>2, PlanIsPlan DEF OtherKinds
  <2>8. 1 \in 0..Len(stack)
    BY DEF IInv, IsSeq
  <2>. QED  BY <2>6, <2>7, <2>8, PutKeepsBack
<1>4. CASE Top.kind \notin {"except", "intersect"}
  <2> DEFINE nodes == Producer!TransformDistinct(Child(Top))
             logical == Distinct(Top.logical)
  <2>1. Unary("other", logical, nodes) /\ AllUsable(Top)
    BY <1>1, <1>4 DEF LogicalDistinct
  <2>2. Shown(Top.logical) = 0..Len(Top.logical.cols) - 1
    BY <2>1, UsableIsShown DEF AllUsable
  <2>3. PICK node : nodes = <<node>>
    BY DEF Producer!TransformDistinct
  <2>4. Child(Top).columns = Len(Top.logical.cols)
    BY ChildColumns
  <2>5. Comes(TransformUnary(Top.consumed, node), logical)
    BY <1>2, <2>2, <2>3, <2>4, DistinctComes
  <2>6. Comes(TransformChain(Top.consumed, nodes), logical)
    BY <2>3, <2>5, ChainOfOne
  <2>. HIDE DEF nodes, logical
  <2>. QED  BY <2>1, <2>6, UnaryKeepsBack DEF OtherKinds
<1>. QED  BY <1>3, <1>4

-----------------------------------------------------------------------------
(* Operators on several children come back.                                *)

\* The two topmost plans.
LEMMA BelowTopComes ==
    ASSUME IInv, RInv, Unfinished, Len(stack) >= 2,
           NEW k, k = Len(stack) - 1 \/ k = Len(stack)
    PROVE  IsPlan(stack[k]) /\ IsSide(stack[k])
<1>1. k \in 1..Len(stack)
  BY DEF IInv, IsSeq
<1>2. IsPlan(stack[k])
  BY <1>1, NoneIsFinished
<1>3. JoinIsExact(stack[k])
  BY <1>1 DEF IInv, PlanInv
<1>. QED  BY <1>2, <1>3 DEF IsPlan, Comes, IsSide

LEMMA CrossProductKeepsBack ==
    ASSUME IInv, RInv, Unfinished, Len(stack) >= 2, CrossProduct
    PROVE  RInv'
<1>1. PICK l : l = stack[Len(stack) - 1]
  OBVIOUS
<1> DEFINE logical == Cross(l.logical, Top.logical)
           consumed == TransformCrossProductOp(l.consumed, Top.consumed)
<1>2. Put(2, Plan("other", logical, consumed))
  BY <1>1 DEF CrossProduct
<1>3. Restored(l.consumed, l.logical)
  BY <1>1, BelowTopComes DEF IsSide
<1>4. Restored(Top.consumed, Top.logical)
  BY BelowTopComes DEF IsSide, Top
<1>5. Comes(consumed, logical)
  BY <1>3, <1>4, CrossComes
<1>. HIDE DEF consumed, logical
<1>6. IsPlanOrEnd(Plan("other", logical, consumed))
  BY <1>5, PlanIsPlan DEF OtherKinds
<1>7. 2 \in 0..Len(stack)
  BY DEF IInv, IsSeq
<1>. QED  BY <1>2, <1>6, <1>7, PutKeepsBack

\* A join's plan: what its parent looks up does not matter here.
LEMMA JoinPlanIsPlan ==
    ASSUME NEW logical, NEW consumed, Comes(consumed, logical), NEW join
    PROVE  IsPlanOrEnd([Plan("other", logical, consumed) EXCEPT !.join = join])
<1> DEFINE plan == [Plan("other", logical, consumed) EXCEPT !.join = join]
<1>1. plan.logical = logical /\ plan.consumed = consumed /\ plan.kind = "other"
  BY DEF Plan
<1>. HIDE DEF plan
<1>2. IsPlan(plan)
  BY <1>1 DEF IsPlan, SetKinds
<1>. QED  BY <1>2 DEF IsPlanOrEnd, plan

LEMMA ComparisonJoinKeepsBack ==
    ASSUME Beyond = {}, IInv, RInv, Unfinished, Len(stack) >= 2,
           NEW type, NEW conditions,
           AreJoinConditions(type, conditions, UsableOf(2), UsableOf(1)),
           NEW lmap \in Maps(UsableOf(2)), NEW rmap \in Maps(UsableOf(1)),
           type = "MARK" => rmap = <<>>,
           ComparisonJoin(type, conditions, lmap, rmap)
    PROVE  RInv'
<1>1. PICK two : two = SubSeq(stack, Len(stack) - 1, Len(stack))
  OBVIOUS
<1>2. PICK p, q : p = stack[Len(stack) - 1] /\ q = stack[Len(stack)]
  OBVIOUS
<1>3. two[1] = p /\ two[2] = q
  BY <1>1, <1>2 DEF IInv, IsSeq
<1> DEFINE child == [k \in 1..2 |-> Child(two[k])]
           nodes == Producer!TransformComparisonJoin(
                        type, child, conditions, lmap, rmap)
           swap == Producer!Swapped(type)
           joined == TransformJoinOp(two[IF swap THEN 2 ELSE 1].consumed,
                                     two[IF swap THEN 1 ELSE 2].consumed,
                                     Head(nodes))
           logical == LogicalJoin(type, two[1].logical, two[2].logical,
                                  conditions, lmap, rmap)
           consumed == TransformChain(joined, Tail(nodes))
           join == [type |-> type,
                    left |-> Len(Producer!FillMap(lmap, child[1])),
                    right |-> Len(Producer!FillMap(rmap, child[2]))]
<1>4. Put(2, [Plan("other", logical, consumed) EXCEPT !.join = join])
  BY <1>1 DEF ComparisonJoin
<1>5. type = "MARK" => Len(q.logical.cols) = 1
  BY <1>1, <1>3 DEF ComparisonJoin
<1>6. IsSide(p) /\ IsSide(q)
  BY <1>2, BelowTopComes
<1>7. UsableOf(2) \subseteq Shown(p.logical) /\ UsableOf(1) \subseteq Shown(q.logical)
  <2>1. Usable(p) = Shown(p.logical) /\ Usable(q) = Shown(q.logical)
    BY UsableIsShown
  <2>2. Len(stack) - 2 + 1 = Len(stack) - 1 /\ Len(stack) - 1 + 1 = Len(stack)
    BY DEF IInv, IsSeq
  <2>. QED  BY <1>2, <2>1, <2>2 DEF UsableOf
<1>8. child[1] = Child(p) /\ child[2] = Child(q)
  BY <1>3
<1>9. menu \in DOMAIN Menus /\ 2 \in 0..Len(stack)
  BY DEF IInv, IsSeq
<1>. HIDE DEF child
<1>10. Comes(consumed, logical)
  <2>1. CASE ~swap
    <3>1. consumed = TransformChain(TransformJoinOp(p.consumed, q.consumed, Head(nodes)),
                                    Tail(nodes))
      BY <1>3, <2>1
    <3>2. Comes(TransformChain(TransformJoinOp(p.consumed, q.consumed, Head(nodes)),
                               Tail(nodes)),
                LogicalJoin(type, p.logical, q.logical, conditions, lmap, rmap))
      BY <1>5, <1>6, <1>7, <1>8, <1>9, <2>1, StraightPlanComes
    <3>. QED  BY <1>3, <3>1, <3>2
  <2>2. CASE swap
    <3>1. consumed = TransformChain(TransformJoinOp(q.consumed, p.consumed, Head(nodes)),
                                    Tail(nodes))
      BY <1>3, <2>2
    <3>2. Comes(TransformChain(TransformJoinOp(q.consumed, p.consumed, Head(nodes)),
                               Tail(nodes)),
                LogicalJoin(type, p.logical, q.logical, conditions, lmap, rmap))
      BY <1>6, <1>7, <1>8, <1>9, <2>2, SwappedPlanComes
    <3>. QED  BY <1>3, <3>1, <3>2
  <2>. QED  BY <2>1, <2>2
<1>. HIDE DEF consumed, logical, join
<1>11. IsPlanOrEnd([Plan("other", logical, consumed) EXCEPT !.join = join])
  BY <1>10, JoinPlanIsPlan
<1>. QED  BY <1>4, <1>9, <1>11, PutKeepsBack

LEMMA JoinStepKeepsBack ==
    ASSUME Beyond = {}, IInv, RInv, Unfinished, Len(stack) >= 2, IsSimple(Menu),
           NEW type, NEW fn \in Menu.comparisons, JoinStep(type, fn)
    PROVE  RInv'
<1>1. PICK left \in Operands(type, "left", UsableOf(2), ColumnsOf(2)),
           right \in Operands(type, "right", UsableOf(1), ColumnsOf(1)),
           lmap \in JoinMaps(type, "left", UsableOf(2)),
           rmap \in JoinMaps(type, "right", UsableOf(1)) :
        ComparisonJoin(type, {[fn |-> fn, left |-> left, right |-> right]},
                       lmap, rmap)
  BY DEF JoinStep
<1>2. lmap \in Maps(UsableOf(2)) /\ rmap \in Maps(UsableOf(1))
  BY JoinMapsAreMaps
<1>3. type = "MARK" => rmap = <<>>
  BY DEF JoinMaps
<1>4. PICK c : c = [fn |-> fn, left |-> left, right |-> right]
  OBVIOUS
<1>5. c.fn = fn /\ c.left = left /\ c.right = right
  BY <1>4
<1>6. IsJoinCondition(type, c, UsableOf(2), UsableOf(1))
  <2>1. Good(left, UsableOf(2)) /\ Good(right, UsableOf(1))
    BY OperandsAreGood
  <2>2. Producer!Swapped(type) => ~OffsetLost(left)
    <3>1. ("left" = "left") = Producer!Swapped(type) => ~OffsetLost(left)
      BY OperandsAreGood
    <3>. QED  BY <3>1 DEF Producer!Swapped
  <2>3. ~Producer!Swapped(type) => ~OffsetLost(right)
    <3>1. ("right" = "left") = Producer!Swapped(type) => ~OffsetLost(right)
      BY OperandsAreGood
    <3>. QED  BY <3>1 DEF Producer!Swapped
  <2>4. fn \in Comparisons
    BY DEF IsSimple
  <2>5. fn = "not_equal" => ~IsString(left) /\ ~IsString(right)
    <3>1. IsString(left) => \E d \in Menu.constants : d.type = <<"VARCHAR">>
      BY OperandsAreGood
    <3>2. IsString(right) => \E d \in Menu.constants : d.type = <<"VARCHAR">>
      BY OperandsAreGood
    <3>. QED  BY <3>1, <3>2 DEF IsSimple
  <2>. QED  BY <1>5, <2>1, <2>2, <2>3, <2>4, <2>5 DEF IsJoinCondition
<1>7. AreJoinConditions(type, {c}, UsableOf(2), UsableOf(1))
  BY <1>6 DEF AreJoinConditions
<1>8. ComparisonJoin(type, {c}, lmap, rmap)
  BY <1>1, <1>4
<1>. QED  BY <1>2, <1>3, <1>7, <1>8, ComparisonJoinKeepsBack

LEMMA SetOperationIsMade ==
    ASSUME NEW type, NEW all, NEW inputs, IsSeq(inputs), Len(inputs) >= 2
    PROVE  "rows" \in DOMAIN SetOperation(type, all, inputs)
<1>1. Len(inputs) \in Nat /\ Len(inputs) # 0
  BY DEF IsSeq
<1>2. PICK f : SetSteps(f, type, all, inputs)
  BY <1>1, SetStepwise
<1>3. PICK m : m = Len(inputs) - 1
  OBVIOUS
<1>4. m \in 1..m
  BY <1>1, <1>3
<1>5. PICK l, r : SetOperation(type, all, inputs) = Combine(type, all, l, r)
  BY <1>2, <1>3, <1>4 DEF SetSteps
<1>. QED  BY <1>5 DEF Combine

LEMMA SetOpComes ==
    ASSUME NEW n \in Nat, n >= 2, NEW op,
           NEW here, IsSeq(here), Len(here) = n, IsSeq(here[n].spine),
           NEW there, IsSeq(there), Len(there) = n, HasColumns(there[1]),
           AllEqual(here, there, n), NEW all, all = (op = "union")
    PROVE  /\ Comes(TransformSetOp(here, Producer!SetRel(op)),
                    SetOperation(op, all, there))
           /\ SetOperation(op, all, there).rows[3] = all
<1>1. /\ SetOperation(op, all, here) = SetOperation(op, all, there)
      /\ SetOperation(op, all, there).rows[3] = all
  BY SetOperationEquals
<1>2. PICK node : node = Producer!SetRel(op)
  OBVIOUS
<1>3. node.op = op
  BY <1>2 DEF Producer!SetRel
<1>4. PICK x : Spine("set") = <<x>>
  BY DEF Spine
<1>5. IsList(<<x>> \o here[n].spine)
  BY BeforeIsList
<1>6. PICK s, logical : s = <<x>> \o here[n].spine /\ logical = SetOperation(op, all, there)
  OBVIOUS
<1>7. TransformSetOp(here, node) = Relation(logical, s)
  BY <1>1, <1>3, <1>4, <1>6 DEF TransformSetOp
<1>8. Len(there) # 0
  OBVIOUS
<1>9. HasColumns(logical)
  BY <1>6, <1>8, SetOperationHasColumns
<1>10. "rows" \in DOMAIN logical
  BY <1>6, SetOperationIsMade
<1>11. IsRelation(logical)
  BY <1>9, <1>10 DEF IsRelation
<1>12. Comes(Relation(logical, s), logical)
  BY <1>5, <1>6, <1>11, SameRestored, RelationComes
<1>. QED  BY <1>1, <1>2, <1>6, <1>7, <1>12

LEMMA SetPlanIsPlan ==
    ASSUME NEW op \in {"union"} \cup SetKinds, NEW parts, IsSeq(parts),
           NEW logical, op # "union" => logical.rows[3] = FALSE,
           NEW consumed, consumed = TransformSetOp(parts, Producer!SetRel(op)),
           Comes(consumed, logical)
    PROVE  IsPlanOrEnd([Plan(op, logical, consumed) EXCEPT !.parts = parts])
<1> DEFINE plan == [Plan(op, logical, consumed) EXCEPT !.parts = parts]
<1>1. /\ plan.logical = logical /\ plan.consumed = consumed /\ plan.kind = op
      /\ plan.parts = parts
  BY DEF Plan
<1>. HIDE DEF plan
<1>2. op \in SetKinds => IsSetOf(plan)
  BY <1>1 DEF IsSetOf, SetKinds
<1>3. IsPlan(plan)
  BY <1>1, <1>2 DEF IsPlan
<1>. QED  BY <1>3 DEF IsPlanOrEnd, plan

LEMMA SetOpKeepsBack ==
    ASSUME Beyond = {}, IInv, RInv, Unfinished,
           NEW op \in {"union"} \cup SetKinds, NEW n \in {2, 3}, Len(stack) >= n,
           NEW all, all = (op = "union"), SetOp(op, all, n)
    PROVE  RInv'
<1> DEFINE inputs == SubSeq(stack, Len(stack) - n + 1, Len(stack))
           there == [k \in 1..n |-> inputs[k].logical]
           here == [k \in DOMAIN inputs |-> inputs[k].consumed]
           result == TransformSetOp(here, Producer!SetRel(op))
           logical == SetOperation(op, all, there)
<1>1. /\ Put(n, [Plan(op, logical, result) EXCEPT !.parts = here])
      /\ \A k \in 1..n : AllUsable(inputs[k])
  BY DEF SetOp
<1>2. n \in 1..Len(stack) /\ n \in 0..Len(stack) /\ n \in Nat /\ n >= 2
      /\ Len(stack) \in Nat
  BY DEF IInv, IsSeq
<1>3. /\ inputs = [k \in 1..n |-> inputs[k]]
      /\ \A k \in 1..n : inputs[k] = stack[Len(stack) - n + k]
  BY <1>2, TopmostAreInv
<1>. HIDE DEF inputs
<1>4. ASSUME NEW k \in 1..n
      PROVE  IsPlan(inputs[k])
  <2>1. PICK i : i = Len(stack) - n + k
    OBVIOUS
  <2>2. i \in 1..Len(stack)
    BY <1>2, <2>1
  <2>3. IsPlan(stack[i])
    BY <2>2, NoneIsFinished
  <2>. QED  BY <1>3, <2>1, <2>3
<1>5. DOMAIN inputs = 1..n
  BY <1>3
<1>6. IsSeq(there) /\ Len(there) = n
  <2>1. there = [k \in 1..n |-> there[k]]
    OBVIOUS
  <2>. HIDE DEF there
  <2>. QED  BY <1>2, <2>1, MadeIsSeq
<1>7. IsSeq(here) /\ Len(here) = n
  <2>1. here = [k \in 1..n |-> here[k]]
    BY <1>5
  <2>. HIDE DEF here
  <2>. QED  BY <1>2, <2>1, MadeIsSeq
<1>8. \A k \in 1..n : here[k] = inputs[k].consumed /\ there[k] = inputs[k].logical
  BY <1>5
<1>9. AllEqual(here, there, n)
  <2>1. ASSUME NEW k \in 1..n
        PROVE  Equals(here[k], there[k])
    <3>1. Restored(inputs[k].consumed, inputs[k].logical)
      BY <1>4 DEF IsPlan, Comes
    <3>2. Usable(inputs[k]) = Shown(inputs[k].logical)
      BY UsableIsShown
    <3>3. Shown(inputs[k].logical) = 0..Len(inputs[k].logical.cols) - 1
      BY <1>1, <3>2 DEF AllUsable, inputs
    <3>4. Equals(inputs[k].consumed, inputs[k].logical)
      BY <3>1, <3>3, RestoredEquals
    <3>. QED  BY <1>8, <3>4
  <2>. QED  BY <2>1, Zenon DEF AllEqual
<1>10. n \in 1..n /\ 1 \in 1..n
  BY <1>2
<1>11. IsSeq(here[n].spine)
  BY <1>4, <1>8, <1>10 DEF IsPlan, Comes, IsList
<1>12. HasColumns(there[1])
  BY <1>4, <1>8, <1>10 DEF IsPlan, Comes, Restored, IsRelation
<1>. HIDE DEF here, there
<1>13. Comes(result, logical)
  BY <1>2, <1>6, <1>7, <1>9, <1>11, <1>12, SetOpComes
<1>14. SetOperation(op, all, there).rows[3] = all
  BY <1>2, <1>6, <1>7, <1>9, SetOperationEquals
<1>15. op # "union" => logical.rows[3] = FALSE
  BY <1>14
<1>. HIDE DEF logical
<1>16. IsPlanOrEnd([Plan(op, logical, result) EXCEPT !.parts = here])
  BY <1>7, <1>13, <1>15, SetPlanIsPlan
<1>. HIDE DEF result
<1>. QED  BY <1>1, <1>2, <1>16, PutKeepsBack

LEMMA SetOpsKeepBack ==
    ASSUME Beyond = {}, IInv, RInv, SetOps
    PROVE  RInv'
<1>1. ASSUME NEW op \in {"union"} \cup SetKinds, NEW n \in {2, 3}, Ready(op, n),
             NEW all, all = (op = "union"), SetOp(op, all, n)
      PROVE  RInv'
  <2>1. Unfinished
    BY <1>1, ReadyIsUnfinished
  <2>2. Len(stack) >= n
    BY <1>1 DEF Ready
  <2>. QED  BY <1>1, <2>1, <2>2, SetOpKeepsBack
<1>2. CASE \E n \in {2, 3} : Ready("union", n) /\ SetOp("union", TRUE, n)
  BY <1>1, <1>2
<1>3. CASE \E n \in {2, 3}, all \in BOOLEAN :
               /\ Ready("except", n) /\ (all => "except_all" \in Beyond)
               /\ SetOp("except", all, n)
  <2>1. PICK n \in {2, 3}, all \in BOOLEAN :
               /\ Ready("except", n) /\ ~all /\ SetOp("except", all, n)
    BY <1>3
  <2>2. all = ("except" = "union")
    BY <2>1
  <2>. QED  BY <1>1, <2>1, <2>2 DEF SetKinds
<1>4. CASE Ready("intersect", 2) /\ SetOp("intersect", FALSE, 2)
  <2>1. FALSE = ("intersect" = "union")
    OBVIOUS
  <2>. QED  BY <1>1, <1>4, <2>1 DEF SetKinds
<1>. QED  BY <1>2, <1>3, <1>4 DEF SetOps

-----------------------------------------------------------------------------
(* Every step.                                                             *)

LEMMA QueryKeepsBack ==
    ASSUME IInv, RInv, Unfinished, Query
    PROVE  RInv'
<1>1. PICK logical, consumed : Ends("root", logical, consumed)
  BY DEF Query
<1>. QED  BY <1>1, EndsKeepsBack DEF Finished

LEMMA WritesKeepBack ==
    ASSUME IInv, RInv, Unfinished, NEW logical, NEW consumed,
           Ends("write", logical, consumed)
    PROVE  RInv'
BY EndsKeepsBack DEF Finished

LEMMA CreateTableKeepsBack ==
    ASSUME IInv, RInv, Unfinished, NEW location, LogicalCreateTable(location)
    PROVE  RInv'
<1>1. PICK logical, consumed : Ends("write", logical, consumed)
  BY DEF LogicalCreateTable
<1>. QED  BY <1>1, WritesKeepBack

LEMMA InsertKeepsBack ==
    ASSUME IInv, RInv, Unfinished, NEW location, NEW columns,
           LogicalInsert(location, columns)
    PROVE  RInv'
<1>1. PICK logical, consumed : Ends("write", logical, consumed)
  BY DEF LogicalInsert
<1>. QED  BY <1>1, WritesKeepBack

LEMMA DeleteKeepsBack ==
    ASSUME IInv, RInv, Unfinished, NEW id, LogicalDelete(id)
    PROVE  RInv'
<1>1. PICK logical, consumed : Ends("write", logical, consumed)
  BY DEF LogicalDelete
<1>. QED  BY <1>1, WritesKeepBack

LEMMA NextKeepsBack ==
    ASSUME Beyond = {}, IInv, RInv, IsSimple(Menu), [Next]_vars
    PROVE  RInv'
<1>0. ASSUME NEW op, NEW n, Ready(op, n)
      PROVE  /\ Unfinished /\ Len(stack) >= n /\ op \in Menu.operators
  BY <1>0, ReadyIsUnfinished DEF Ready
<1>1. CASE Ready("get", 0) /\ GetStep
  <2>1. PICK location \in Locations, types \in Menu.tables :
            \E get \in Gets(types) : LogicalGet(location, types, get)
    BY <1>1 DEF GetStep
  <2>2. PICK get \in Gets(types) : LogicalGet(location, types, get)
    BY <2>1
  <2>. QED  BY <1>0, <1>1, <2>2, GetKeepsBack
<1>2. CASE Ready("dummy", 0) /\ LogicalDummyScan
  BY <1>0, <1>2, DummyScanKeepsBack
<1>3. CASE Ready("empty", 0) /\ EmptyResultStep
  BY <1>0, <1>3, EmptyResultKeepsBack
<1>4. CASE /\ Ready("values", 0)
           /\ \E list \in Lists({<<c>> : c \in Constants}) :
                  LogicalExpressionGet(list)
  BY <1>0, <1>4, ExpressionGetKeepsBack
<1>5. CASE Ready("filter", 1) /\ FilterStep
  BY <1>0, <1>5, NarrowedFilterKeepsBack
<1>6. CASE Ready("projection", 1) /\ ProjectionStep
  BY <1>0, <1>6, ProjectionKeepsBack
<1>7. CASE Ready("order", 1) /\ OrderStep
  BY <1>0, <1>7, OrderKeepsBack
<1>8. CASE Ready("topn", 1) /\ TopNStep
  BY <1>0, <1>8, TopNKeepsBack
<1>9. CASE /\ Ready("limit", 1)
           /\ \E limit \in LimitValues \cup {-1}, offset \in LimitValues :
                  LogicalLimit(limit, offset)
  BY <1>0, <1>9, LimitKeepsBack
<1>10. CASE Ready("aggregate", 1) /\ AggregateStep
  BY <1>0, <1>10, AggregateKeepsBack
<1>11. CASE Ready("window", 1) /\ WindowStep
  BY <1>0, <1>11 DEF IsSimple
<1>12. CASE /\ Ready("distinct", 1)
            /\ \E targets \in DistinctTargets(UsableOf(1)) :
                   LogicalDistinct(targets)
  BY <1>0, <1>12, DistinctKeepsBack
<1>13. CASE /\ Ready("join", 2)
            /\ \E type \in Menu.joins, fn \in Menu.comparisons :
                   JoinStep(type, fn)
  BY <1>0, <1>13, JoinStepKeepsBack
<1>14. CASE Ready("cross", 2) /\ CrossProduct
  BY <1>0, <1>14, CrossProductKeepsBack
<1>15. CASE SetOps
  BY <1>15, SetOpsKeepBack
<1>16. CASE Ready("root", 1) /\ Query
  BY <1>0, <1>16, QueryKeepsBack
<1>17. CASE /\ Ready("create", 1)
            /\ \E location \in Schemas : LogicalCreateTable(location)
  BY <1>0, <1>17, CreateTableKeepsBack
<1>18. CASE /\ Ready("insert", 1)
            /\ \E location \in Schemas, columns \in InsertColumns :
                   LogicalInsert(location, columns)
  BY <1>0, <1>18, InsertKeepsBack
<1>19. CASE Ready("delete", 1) /\ DeleteStep
  BY <1>0, <1>19, DeleteKeepsBack DEF DeleteStep
<1>20. CASE UNCHANGED vars
  <2>1. stack' = stack
    BY <1>20 DEF vars
  <2>. QED  BY <2>1 DEF RInv, IsPlanOrEnd, IsPlan, IsSetOf, Comes, Restored,
                        IsRelation, HasColumns, IsList
<1>. QED  BY <1>1, <1>2, <1>3, <1>4, <1>5, <1>6, <1>7, <1>8, <1>9, <1>10,
             <1>11, <1>12, <1>13, <1>14, <1>15, <1>16, <1>17, <1>18, <1>19,
             <1>20 DEF Next

\* A behaviour keeps its menu.
LEMMA MenuIsKept ==
    ASSUME [Next]_vars
    PROVE  menu' = menu
<1>1. ASSUME NEW n, NEW plan, Put(n, plan)
      PROVE  menu' = menu
  BY <1>1 DEF Put
<1>2. ASSUME NEW kind, NEW logical, NEW consumed, Leaf(kind, logical, consumed)
      PROVE  menu' = menu
  BY <1>1, <1>2 DEF Leaf
<1>3. ASSUME NEW kind, NEW logical, NEW nodes, Unary(kind, logical, nodes)
      PROVE  menu' = menu
  BY <1>1, <1>3 DEF Unary
<1>4. ASSUME NEW kind, NEW logical, NEW consumed, Ends(kind, logical, consumed)
      PROVE  menu' = menu
  BY <1>1, <1>4 DEF Ends
<1>5. ASSUME NEW location, NEW types, NEW get, LogicalGet(location, types, get)
      PROVE  menu' = menu
  BY <1>2, <1>5, Zenon DEF LogicalGet
<1>6. ASSUME LogicalDummyScan
      PROVE  menu' = menu
  BY <1>2, <1>6, Zenon DEF LogicalDummyScan
<1>7. ASSUME NEW types, LogicalEmptyResult(types)
      PROVE  menu' = menu
  BY <1>2, <1>7, Zenon DEF LogicalEmptyResult
<1>8. ASSUME NEW list, LogicalExpressionGet(list)
      PROVE  menu' = menu
  BY <1>2, <1>8, Zenon DEF LogicalExpressionGet
<1>9. ASSUME NEW conditions, NEW map, LogicalFilter(conditions, map)
      PROVE  menu' = menu
  BY <1>3, <1>9, Zenon DEF LogicalFilter
<1>10. ASSUME NEW list, LogicalProjection(list)
       PROVE  menu' = menu
  BY <1>3, <1>10, Zenon DEF LogicalProjection
<1>11. ASSUME NEW orders, NEW map, LogicalOrder(orders, map)
       PROVE  menu' = menu
  BY <1>3, <1>11, Zenon DEF LogicalOrder
<1>12. ASSUME NEW orders, NEW limit, NEW offset, LogicalTopN(orders, limit, offset)
       PROVE  menu' = menu
  BY <1>3, <1>12, Zenon DEF LogicalTopN
<1>13. ASSUME NEW limit, NEW offset, LogicalLimit(limit, offset)
       PROVE  menu' = menu
  BY <1>3, <1>13, Zenon DEF LogicalLimit
<1>14. ASSUME NEW groups, NEW sets, NEW measures, NEW grouping_functions,
              LogicalAggregate(groups, sets, measures, grouping_functions)
       PROVE  menu' = menu
  BY <1>3, <1>14, Zenon DEF LogicalAggregate
<1>15. ASSUME NEW list, LogicalWindow(list)
       PROVE  menu' = menu
  BY <1>3, <1>15, Zenon DEF LogicalWindow
<1>16. ASSUME NEW targets, LogicalDistinct(targets)
       PROVE  menu' = menu
  BY <1>1, <1>3, <1>16, Zenon DEF LogicalDistinct
<1>17. ASSUME NEW type, NEW conditions, NEW lmap, NEW rmap,
              ComparisonJoin(type, conditions, lmap, rmap)
       PROVE  menu' = menu
  BY <1>1, <1>17, Zenon DEF ComparisonJoin
<1>18. ASSUME CrossProduct
       PROVE  menu' = menu
  BY <1>1, <1>18, Zenon DEF CrossProduct
<1>19. ASSUME NEW op, NEW all, NEW n, SetOp(op, all, n)
       PROVE  menu' = menu
  BY <1>1, <1>19, Zenon DEF SetOp
<1>20. ASSUME Query
       PROVE  menu' = menu
  BY <1>4, <1>20, Zenon DEF Query
<1>21. ASSUME NEW location, LogicalCreateTable(location)
       PROVE  menu' = menu
  BY <1>4, <1>21, Zenon DEF LogicalCreateTable
<1>22. ASSUME NEW location, NEW columns, LogicalInsert(location, columns)
       PROVE  menu' = menu
  BY <1>4, <1>22, Zenon DEF LogicalInsert
<1>23. ASSUME NEW id, LogicalDelete(id)
       PROVE  menu' = menu
  BY <1>4, <1>23, Zenon DEF LogicalDelete
<1>24. ASSUME NEW type, NEW fn, JoinStep(type, fn)
       PROVE  menu' = menu
  BY <1>17, <1>24, Zenon DEF JoinStep
<1>25. CASE UNCHANGED vars
  BY <1>25 DEF vars
<1>26. CASE Next
  BY <1>5, <1>6, <1>7, <1>8, <1>9, <1>10, <1>11, <1>12, <1>13, <1>14, <1>15,
     <1>16, <1>18, <1>19, <1>20, <1>21, <1>22, <1>23, <1>24, <1>26, Zenon
     DEF Next, GetStep, EmptyResultStep, FilterStep, ProjectionStep, OrderStep,
         TopNStep, AggregateStep, WindowStep, SetOps, DeleteStep
<1>. QED  BY <1>25, <1>26

-----------------------------------------------------------------------------
(* Plans come back.                                                        *)

\* Every plan built of the operators of a simple menu comes back.
SimpleBack == IsSimple(Menu) => RInv

LEMMA SimpleBackIsKept ==
    ASSUME Beyond = {}, IInv, SimpleBack, [Next]_vars
    PROVE  SimpleBack'
<1>1. menu' = menu
  BY MenuIsKept
<1>2. IsSimple(Menu)' <=> IsSimple(Menu)
  BY <1>1 DEF Menu
<1>3. ASSUME IsSimple(Menu)
      PROVE  RInv'
  BY <1>3, NextKeepsBack DEF SimpleBack
<1>. QED  BY <1>2, <1>3, Zenon DEF SimpleBack

\* Whatever operators a query is built of, over whatever tables, values and
\* results without rows: from_substrait makes of the plan that get_substrait
\* wrote a relation with the same rows and the same columns in the same order,
\* if the expressions are simple and nothing is in the plan that is known to
\* be lost (Beyond).
THEOREM PlansComeBack ==
    ASSUME Beyond = {}
    PROVE  Spec => [](IsSimple(Menu) => ComesBack)
<1>1. Init => SimpleBack
  <2>1. ASSUME stack = <<>>
        PROVE  RInv
    BY <2>1 DEF RInv
  <2>. QED  BY <2>1 DEF Init, SimpleBack
<1>2. IInv /\ SimpleBack /\ [Next]_vars => SimpleBack'
  BY SimpleBackIsKept
<1>3. IInv /\ SimpleBack => (IsSimple(Menu) => ComesBack)
  BY BackIsSame DEF SimpleBack
<1>. QED  BY <1>1, <1>2, <1>3, IInvIsInductive, PTL DEF Spec
=============================================================================
