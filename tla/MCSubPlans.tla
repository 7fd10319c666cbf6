----------------------------- MODULE MCSubPlans -----------------------------
(* All plans of up to MaxJoins joins in all, with delim gets wherever they  *)
(* may stand and up to two CTEs.                                            *)
EXTENDS SubPlansRoundTrip

CONSTANT MaxJoins

Get == [op |-> "get", table |-> "t", children |-> <<>>]
CTERef(i) == [op |-> "cte_ref", index |-> i, children |-> <<>>]
DelimGet(n) == [op |-> "delim_get", columns |-> n, children |-> <<>>]
Join(delim, swapped, flipped, columns, l, r) ==
    [op |-> "join", type |-> IF swapped THEN "SEMI" ELSE "INNER",
     delim |-> delim, swapped |-> swapped, flipped |-> flipped,
     columns |-> columns, children |-> <<l, r>>]
MaterializedCTE(i, body, root) ==
    [op |-> "materialized_cte", index |-> i, children |-> <<body, root>>]

\* The duplicate eliminated columns by depth: the first two joins agree in
\* their number, the others do not.
ColumnsAt(depth) == <<<<0>>, <<1>>, <<0, 1>>, <<0>>>>[depth + 1]
Leaves(depth, known) ==
    {Get} \cup {CTERef(i) : i \in known}
          \cup IF depth = 0 THEN {} ELSE {DelimGet(Len(ColumnsAt(depth - 1)))}

\* Trees of exactly n joins, depth delim joins further out.  Only outermost
\* joins are flipped.
RECURSIVE Trees(_, _, _)
Trees(n, depth, known) ==
    IF n = 0 THEN Leaves(depth, known)
    ELSE UNION {
        {Join(FALSE, FALSE, FALSE, <<>>, l, r) :
            l \in Trees(k, depth, known), r \in Trees(n - 1 - k, depth, known)}
        \cup
        {Join(TRUE, swapped, FALSE, ColumnsAt(depth), data, scan) :
            swapped \in BOOLEAN, data \in Trees(k, depth, known),
            scan \in Trees(n - 1 - k, depth + 1, known)}
        \cup
        {Join(TRUE, swapped, TRUE, ColumnsAt(0), scan, data) :
            swapped \in IF depth = 0 THEN BOOLEAN ELSE {},
            data \in Trees(k, depth, known),
            scan \in Trees(n - 1 - k, depth + 1, known)}
        : k \in 0..n - 1}

UpTo(n, known) == UNION {Trees(k, 0, known) : k \in 0..n}

\* CTEs are numbered as DuckDB numbers tables: not from zero.
SomePlans ==
    UpTo(MaxJoins, {})
    \cup {MaterializedCTE(7, b, m) :
             b \in UpTo(1, {}), m \in UpTo(MaxJoins - 1, {7})}
    \cup {MaterializedCTE(7, b, MaterializedCTE(5, c, m)) :
             b \in UpTo(0, {}), c \in UpTo(0, {7}), m \in UpTo(1, {5, 7})}
    \cup {MaterializedCTE(7, MaterializedCTE(5, Get, Get), Get),
          Join(TRUE, FALSE, FALSE, <<0>>, Get, MaterializedCTE(7, Get, Get))}

\* The places of a plan, by walking it.
RECURSIVE PlacesFrom(_), HeightOf(_)
PlacesFrom(place) == {place} \cup UNION {PlacesFrom(p) : p \in Parts(place)}
PlacesIn(query) == PlacesFrom(Start(query))
HeightOf(place) ==
    IF Parts(place) = {} THEN 0
    ELSE 1 + Max({HeightOf(p) : p \in Parts(place)})
=============================================================================
