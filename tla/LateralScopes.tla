--------------------------- MODULE LateralScopes ---------------------------
(***************************************************************************)
(* SubstraitToDuckDB's treatment of nested LateralJoinRels                 *)
(* (src/src/from_substrait.cpp): TransformLateralJoinOp recurses through   *)
(* TransformOp and TransformExpr and keeps the enclosing joins whose left  *)
(* columns may be referenced in the member lateral_scopes, pushed by hand  *)
(* and popped by a scope guard.  ResolveOuterReference looks there.        *)
(*                                                                         *)
(* frames is the C++ call stack, reduced to the activations of             *)
(* TransformLateralJoinOp.  The plan is not given: what comes next in it   *)
(* is chosen as it is visited, so every plan is.  All other relations are  *)
(* transparent, and any of them, and any expression, may throw.            *)
(***************************************************************************)
EXTENDS Integers, Sequences, FiniteSets, SequencesExt

CONSTANTS Anchors,           \* values of RelCommon.rel_anchor
          NoAnchor,          \* a LateralJoinRel without one
          Widths,            \* column counts of left inputs
          MaxDepth,          \* lateral joins nested in each other
          StepsOut, Fields,  \* values of steps_out and field in references
          NestedPostFilters  \* a post_join_filter under an enclosing scope

ASSUME LateralAssumption ==
    /\ NoAnchor \notin Anchors
    /\ Widths \subseteq Nat \ {0}
    /\ MaxDepth \in Nat /\ StepsOut \subseteq Nat /\ Fields \subseteq Int
    /\ NestedPostFilters \in BOOLEAN

VARIABLES frames,          \* running TransformLateralJoinOps, innermost last
          lateral_scopes,  \* the member of that name
          throwing         \* an exception is unwinding the stack

vars == <<frames, lateral_scopes, throwing>>

Phases == {"left", "filter", "right", "expression", "post"}
Columns == Nat \X Nat
Frames == [phase: Phases, anchor: Anchors \cup {NoAnchor}, columns: Nat,
           pushed_scope: BOOLEAN, should_pop: BOOLEAN]
Scopes == [rel_anchor: Anchors, left_column_names: Seq(Columns)]

NewFrame == [phase |-> "left", anchor |-> NoAnchor, columns |-> 0,
             pushed_scope |-> FALSE, should_pop |-> FALSE]

\* The names of the left input of the join at depth k.
ColumnNames(k, n) == [c \in 1..n |-> <<k, c>>]

Init == frames = <<>> /\ lateral_scopes = <<>> /\ throwing = FALSE

Depth == Len(frames)
Top == frames[Depth]
Running(phase) == ~throwing /\ frames # <<>> /\ Top.phase = phase
SetTop(f) == frames' = [frames EXCEPT ![Depth] = f]
Pop(s) == IF s = <<>> THEN s ELSE Front(s)

\* ~ScopeGuard, when the innermost activation is left.
Leave ==
    /\ frames' = Front(frames)
    /\ lateral_scopes' = IF Top.should_pop THEN Pop(lateral_scopes)
                         ELSE lateral_scopes

-----------------------------------------------------------------------------
\* A LateralJoinRel at the top of a relation of the plan, or in an input of
\* the innermost one; its left input is transformed first.
TransformLateralJoinOp ==
    /\ ~throwing /\ Depth < MaxDepth
    /\ frames # <<>> => Top.phase \in {"left", "right"}
    /\ frames' = Append(frames, NewFrame)
    /\ UNCHANGED <<lateral_scopes, throwing>>

\* Mutant: the scope is pushed without asking for has_rel_anchor.
LeftTransformedAlways(anchor, n, filtered) ==
    /\ Running("left")
    /\ lateral_scopes' = Append(lateral_scopes,
           [rel_anchor |-> anchor,
            left_column_names |-> ColumnNames(Depth, n)])
    /\ SetTop([phase |-> IF filtered THEN "filter" ELSE "right",
               anchor |-> anchor, columns |-> n,
               pushed_scope |-> TRUE, should_pop |-> TRUE])
    /\ UNCHANGED throwing

\* The left input is there: its names become a scope if the join declares an
\* anchor.  The condition of a FilterRel on the right comes next.
LeftTransformed(anchor, n, filtered) ==
    /\ Running("left")
    /\ lateral_scopes' =
           IF anchor = NoAnchor THEN lateral_scopes
           ELSE Append(lateral_scopes,
                       [rel_anchor |-> anchor,
                        left_column_names |-> ColumnNames(Depth, n)])
    /\ SetTop([phase |-> IF filtered THEN "filter" ELSE "right",
               anchor |-> anchor, columns |-> n,
               pushed_scope |-> anchor # NoAnchor,
               should_pop |-> anchor # NoAnchor])
    /\ UNCHANGED throwing

FilterTransformed ==
    /\ Running("filter")
    /\ SetTop([Top EXCEPT !.phase = "right"])
    /\ UNCHANGED <<lateral_scopes, throwing>>

RightTransformed ==
    /\ Running("right")
    /\ SetTop([Top EXCEPT !.phase = "expression"])
    /\ UNCHANGED <<lateral_scopes, throwing>>

\* The join's expression is done, and there is no post_join_filter.
ReturnJoin ==
    /\ Running("expression")
    /\ Leave
    /\ UNCHANGED throwing

\* check_outer_refs finds an outer reference, or the join's own scope is
\* taken off by hand before the filter is transformed.
PostJoinFilter(has_outer_refs) ==
    /\ Running("expression")
    /\ NestedPostFilters \/ ~Top.should_pop \/ Len(lateral_scopes) = 1
    /\ IF has_outer_refs
       THEN throwing' = TRUE /\ UNCHANGED <<frames, lateral_scopes>>
       ELSE /\ lateral_scopes' = IF Top.pushed_scope THEN Pop(lateral_scopes)
                                 ELSE lateral_scopes
            /\ SetTop([Top EXCEPT !.phase = "post", !.pushed_scope = FALSE])
            /\ UNCHANGED throwing

\* should_pop is still set: only disarm would reset it, and nobody calls it.
ReturnFilter ==
    /\ Running("post")
    /\ Leave
    /\ UNCHANGED throwing

\* An unsupported join type, relation, function, or reference.
Throw ==
    /\ ~throwing /\ frames # <<>>
    /\ throwing' = TRUE
    /\ UNCHANGED <<frames, lateral_scopes>>

\* Mutant: the scope is popped at the end of the function, not by a guard.
UnwindUnguarded ==
    /\ throwing /\ frames # <<>>
    /\ frames' = Front(frames)
    /\ UNCHANGED <<lateral_scopes, throwing>>

Unwind ==
    /\ throwing /\ frames # <<>>
    /\ Leave
    /\ UNCHANGED throwing

Next ==
    \/ TransformLateralJoinOp
    \/ \E anchor \in Anchors \cup {NoAnchor}, n \in Widths,
          filtered \in BOOLEAN : LeftTransformed(anchor, n, filtered)
    \/ FilterTransformed \/ RightTransformed \/ ReturnJoin
    \/ \E has_outer_refs \in BOOLEAN : PostJoinFilter(has_outer_refs)
    \/ ReturnFilter \/ Throw \/ Unwind

Spec == Init /\ [][Next]_vars

-----------------------------------------------------------------------------
(* Outer references, as the code resolves them and as the plan means them. *)

Error == <<"error">>

References ==
    [by: {"rel_reference"}, target: Anchors, field: Fields]
    \cup [by: {"steps_out"}, target: StepsOut, field: Fields]

NamedBy(scope, field) ==
    IF field >= 0 /\ field < Len(scope.left_column_names)
    THEN scope.left_column_names[field + 1] ELSE Error

\* Mutant: steps_out counts from the outermost scope.
ResolveStepsFromOutside(steps, field) ==
    IF steps \in 1..Len(lateral_scopes)
    THEN NamedBy(lateral_scopes[steps], field) ELSE Error

ResolveSteps(steps, field) ==
    IF steps \in 1..Len(lateral_scopes)
    THEN NamedBy(lateral_scopes[Len(lateral_scopes) - steps + 1], field)
    ELSE Error

\* The innermost scope with that anchor.
ResolveAnchor(anchor, field) ==
    LET matches == {i \in DOMAIN lateral_scopes :
                        lateral_scopes[i].rel_anchor = anchor}
    IN  IF matches = {} THEN Error
        ELSE NamedBy(lateral_scopes[CHOOSE i \in matches :
                                        \A j \in matches : j <= i], field)

ResolveOuterReference(ref) ==
    IF ref.by = "steps_out" THEN ResolveSteps(ref.target, ref.field)
    ELSE ResolveAnchor(ref.target, ref.field)

\* The lateral joins in whose right input, or condition, the plan stands.
Enclosing == {k \in DOMAIN frames :
                 frames[k].phase \in {"filter", "right", "expression"}}

\* The joins the reference may mean: at most one.
Meant(ref) ==
    IF ref.by = "steps_out"
    THEN {k \in Enclosing :
             Cardinality({j \in Enclosing : j >= k}) = ref.target}
    ELSE {k \in Enclosing :
             /\ frames[k].anchor = ref.target
             /\ \A j \in Enclosing : frames[j].anchor = ref.target => j <= k}

Column(k, field) ==
    IF field >= 0 /\ field < frames[k].columns
    THEN <<k, field + 1>> ELSE Error

-----------------------------------------------------------------------------
(* Properties.                                                             *)

\* Every variable has its type.
TypeOK ==
    /\ frames \in Seq(Frames)
    /\ lateral_scopes \in Seq(Scopes)
    /\ throwing \in BOOLEAN

\* Wherever in a plan an outer reference stands, ResolveOuterReference finds
\* the column of the enclosing lateral join that the reference means, and
\* rejects a reference that means none.  References by steps_out are counted
\* over joins that declare an anchor, as the code demands of them.
ResolvesAsMeant(ref) ==
    /\ Meant(ref) = {} => ResolveOuterReference(ref) = Error
    /\ \A k \in Meant(ref) :
           ResolveOuterReference(ref) = Column(k, ref.field)
Anchored == \A k \in Enclosing : frames[k].anchor # NoAnchor
ReferencesResolve ==
    ~throwing => \A ref \in References :
        ref.by = "rel_reference" \/ Anchored => ResolvesAsMeant(ref)

\* Whatever throws, no scope outlives the joins that pushed it: the next
\* relation of the plan is transformed without any.
NoScopeLeft == frames = <<>> => lateral_scopes = <<>>
=============================================================================
