------------------------------ MODULE SubPlans ------------------------------
(***************************************************************************)
(* The producer where its recursion keeps state: duplicate eliminated      *)
(* joins ("delim joins") and materialized common table expressions.        *)
(*                                                                         *)
(* Substrait has no delim get, so each one is replaced by an aggregation   *)
(* over a copy of its join's data side; the copy is made by transforming   *)
(* that side again, from wherever the get stands.  The side may itself     *)
(* hold delim gets of joins further out.  duplicate_elimination_sources    *)
(* (here: sources) says, at any moment, which join a get belongs to.       *)
(*                                                                         *)
(* rels are the substrait::Rel messages made so far; a pointer to one is    *)
(* its position.                                                           *)
(* frames is the C++ call stack: one frame for each TransformOp that runs. *)
(* A frame's scope is not in the code: it is the chain of delim joins      *)
(* whose scan sides enclose the operator in the query.                     *)
(***************************************************************************)
EXTENDS Queries, FiniteSets

CONSTANT MaxFrames    \* bound: TransformOp calls under way at once

ASSUME FramesAssumption == MaxFrames \in Nat

VARIABLES plan,                  \* the logical plan
          todo,                  \* what TransformPlan has yet to transform
          frames,
          sources,               \* duplicate_elimination_sources
          last_computation_id,
          cte_indices,
          rels,
          relations,             \* plan.relations, by pointer
          status

vars == <<plan, todo, frames, sources, last_computation_id, cte_indices,
          rels, relations, status>>

-----------------------------------------------------------------------------
(* Relations of the Substrait plan.                                        *)

Rel(kind, inputs) == [rel |-> kind, inputs |-> inputs, hints |-> {}]
Read(table) == Rel(<<"read", table>>, <<>>)
Reference(ordinal) == Rel(<<"reference", ordinal>>, <<>>)
IsReference(rel) == rel.rel[1] = "reference"

\* A reference has no RelCommon that could carry a hint.
Hint(rel, kind, id) ==
    IF IsReference(rel) THEN rel
    ELSE [rel EXCEPT !.hints = @ \cup {<<kind, id>>}]

-----------------------------------------------------------------------------
(* Calls.                                                                  *)

\* The child that is transformed next becomes the left input if it is first.
ChildIndex(f) ==
    LET k == Len(f.done) + 1 IN IF f.node.swapped THEN 3 - k ELSE k

\* The next child is the one whose delim gets the join feeds.
AtScanSide(f) == IsDelimJoin(f.node) /\ ChildIndex(f) # DataSide(f.node)
AtDataSide(f) == IsDelimJoin(f.node) /\ ChildIndex(f) = DataSide(f.node)

\* Mutant: the id is that of the latest join, not of this one.
SourceWithLatestId(f) == [data_side |-> f.node.children[DataSide(f.node)],
                          column_indices |-> f.node.columns,
                          computation_id |-> last_computation_id]

Source(f) == [data_side |-> f.node.children[DataSide(f.node)],
              column_indices |-> f.node.columns,
              computation_id |-> f.id]

\* How a call of TransformOp begins: a delim join takes the next id.
Frame(node, scope) ==
    [node |-> node, scope |-> scope, done |-> <<>>,
     id |-> IF IsDelimJoin(node) THEN last_computation_id + 1 ELSE 0,
     source |-> Nothing]

Call(under, node, scope) ==
    /\ Len(under) < MaxFrames
    /\ frames' = Append(under, Frame(node, scope))
    /\ last_computation_id' =
           last_computation_id + IF IsDelimJoin(node) THEN 1 ELSE 0

-----------------------------------------------------------------------------
Init ==
    /\ plan \in Plans
    /\ todo = plan
    /\ frames = <<>>
    /\ sources = <<>>
    /\ last_computation_id = 0
    /\ cte_indices = <<>>
    /\ rels = <<>>
    /\ relations = <<>>
    /\ status = "running"

Running == status = "running"
Calling == Running /\ frames # <<>>
Top == frames[Len(frames)]
Under == SubSeq(frames, 1, Len(frames) - 1)

Throw(error) ==
    /\ status' = error
    /\ UNCHANGED <<plan, todo, frames, sources, last_computation_id,
                   cte_indices, rels, relations>>

\* TransformCTE: the index is recorded before the body is transformed.
TransformCTE ==
    /\ Running /\ frames = <<>>
    /\ todo # Nothing /\ todo.op = "materialized_cte"
    /\ cte_indices' = Append(cte_indices, todo.index)
    /\ Call(<<>>, todo.children[1], <<>>)
    /\ todo' = todo.children[2]
    /\ UNCHANGED <<plan, sources, rels, relations, status>>

TransformRootOp ==
    /\ Running /\ frames = <<>>
    /\ todo # Nothing /\ todo.op # "materialized_cte"
    /\ Call(<<>>, todo, <<>>)
    /\ todo' = Nothing
    /\ UNCHANGED <<plan, sources, cte_indices, rels, relations, status>>

Finish ==
    /\ Running /\ frames = <<>> /\ todo = Nothing
    /\ status' = "done"
    /\ UNCHANGED <<plan, todo, frames, sources, last_computation_id,
                   cte_indices, rels, relations>>

\* TransformComparisonJoin: the left input first, then the right one; the
\* join is a source while its scan side is transformed.
PushSource(f) == IF AtScanSide(f) THEN Append(sources, Source(f)) ELSE sources

TransformChild ==
    /\ Calling /\ Top.node.op = "join" /\ Len(Top.done) < 2
    /\ sources' = PushSource(Top)
    /\ Call(frames, Top.node.children[ChildIndex(Top)],
            IF AtScanSide(Top) THEN Append(Top.scope, Source(Top))
            ELSE Top.scope)
    /\ UNCHANGED <<plan, todo, cte_indices, rels, relations, status>>

\* TransformDuplicateEliminatedGet: the innermost source is hidden while its
\* data side is transformed once more.
\* Mutant: the source stays visible to its own copy.
HideNoSource == sources

\* Mutant: a copy is transformed without any source.
HideAllSources == <<>>

HideSource == Front(sources)

TransformCopy ==
    /\ Calling /\ Top.node.op = "delim_get" /\ Top.done = <<>>
    /\ IF sources = <<>> THEN Throw("not_implemented")
       ELSE IF Len(Last(sources).column_indices) # Top.node.columns
       THEN Throw("internal_error")
       ELSE /\ sources' = HideSource
            /\ Call(Append(Under, [Top EXCEPT !.source = Last(sources)]),
                    Last(sources).data_side, Front(Top.scope))
            /\ UNCHANGED <<plan, todo, cte_indices, rels, relations, status>>

\* TransformCTERef: the position of the first equal index.
IsKnownCTE(index) == \E k \in DOMAIN cte_indices : cte_indices[k] = index

\* Mutant: the ordinal is DuckDB's own number of the CTE.
OrdinalByIndex(index) == index

Ordinal(index) == (CHOOSE k \in DOMAIN cte_indices :
                      /\ cte_indices[k] = index
                      /\ \A j \in 1..k - 1 : cte_indices[j] # index) - 1

\* TransformOp has no case for a materialized CTE below the top of the plan.
Error(node) ==
    CASE node.op = "materialized_cte" -> "not_implemented"
      [] node.op = "cte_ref" /\ ~IsKnownCTE(node.index) -> "internal_error"
      [] OTHER -> "none"

TransformThrows ==
    /\ Calling /\ Error(Top.node) # "none"
    /\ Throw(Error(Top.node))

-----------------------------------------------------------------------------
(* Returning.                                                              *)

IsComplete(f) ==
    CASE f.node.op = "get" -> TRUE
      [] f.node.op = "cte_ref" -> IsKnownCTE(f.node.index)
      [] f.node.op = "delim_get" -> Len(f.done) = 1
      [] f.node.op = "join" -> Len(f.done) = 2
      [] OTHER -> FALSE

Built(f) ==
    CASE f.node.op = "get" -> Read(f.node.table)
      [] f.node.op = "cte_ref" -> Reference(Ordinal(f.node.index))
      [] f.node.op = "delim_get" ->
             Rel(<<"aggregate", f.source.column_indices>>, f.done)
      [] OTHER -> Rel(<<"join", f.node.type>>, f.done)

\* What the caller does to the relation it is given: a join marks its data
\* side as saved, a delim get its copy as loaded.
Received(caller, rel) ==
    IF caller.node.op = "delim_get"
    THEN Hint(rel, "loaded", caller.source.computation_id)
    ELSE IF AtDataSide(caller) THEN Hint(rel, "saved", caller.id) ELSE rel

\* Mutant: a join leaves its source behind.
RestoreSourcesNoPop(caller) ==
    IF caller.node.op = "delim_get" THEN Append(sources, caller.source)
    ELSE sources

\* A delim get puts the source back, a join takes its own away.
RestoreSources(caller) ==
    IF caller.node.op = "delim_get" THEN Append(sources, caller.source)
    ELSE IF AtScanSide(caller) THEN Front(sources) ELSE sources

Return ==
    /\ Calling /\ Len(frames) > 1 /\ IsComplete(Top)
    /\ LET caller == Last(Under)
       IN  /\ sources' = RestoreSources(caller)
           /\ rels' = Append(rels, Received(caller, Built(Top)))
           /\ frames' = Append(Front(Under),
                  [caller EXCEPT !.done = Append(@, Len(rels) + 1)])
    /\ UNCHANGED <<plan, todo, last_computation_id, cte_indices, relations,
                   status>>

\* The outermost call: TransformPlan adds the relation to the plan.
AddRelation ==
    /\ Calling /\ Len(frames) = 1 /\ IsComplete(Top)
    /\ rels' = Append(rels, Built(Top))
    /\ relations' = Append(relations, Len(rels) + 1)
    /\ frames' = <<>>
    /\ UNCHANGED <<plan, todo, sources, last_computation_id, cte_indices,
                   status>>

Next == \/ TransformCTE \/ TransformRootOp \/ TransformChild \/ TransformCopy
        \/ TransformThrows \/ Return \/ AddRelation \/ Finish

Spec == Init /\ [][Next]_vars

-----------------------------------------------------------------------------
(* Properties.                                                             *)

\* Whatever has been pushed, hidden and put back on the way, the joins that
\* a delim get would now be matched with are the ones that enclose the
\* operator in the query, in that order, also inside a copy.
SourcesAreLexical == Calling => sources = Top.scope

\* Nothing is left of a relation when the next one is transformed.
SourcesAreEmptied == frames = <<>> => sources = <<>>

\* A relation without its hints.
Plain[rel \in DOMAIN rels] ==
    <<rels[rel].rel,
      [k \in DOMAIN rels[rel].inputs |-> Plain[rels[rel].inputs[k]]]>>

\* A consumer may take the computation that a copy is marked to load from
\* the one relation that is marked to save it: they are the same relation.
Marked(kind, id) == {rel \in DOMAIN rels : <<kind, id>> \in rels[rel].hints}
LoadsMatchSaves ==
    status = "done" =>
        \A id \in 1..last_computation_id :
            /\ Cardinality(Marked("saved", id)) <= 1
            /\ \A copy \in Marked("loaded", id) :
                   \E saved \in Marked("saved", id) :
                       Plain[saved] = Plain[copy]
=============================================================================
