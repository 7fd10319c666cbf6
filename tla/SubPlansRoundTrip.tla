------------------------- MODULE SubPlansRoundTrip -------------------------
(***************************************************************************)
(* SubPlans, and from_substrait reading the plan it made: the relations    *)
(* before the last one are kept in ctes, by position, and references look  *)
(* them up there (SubstraitToDuckDB::TransformPlan).  The consumer ignores *)
(* the hints.  What it builds is compared with what the query means.       *)
(*                                                                         *)
(* calls is the consumer's call stack.  The two inputs of a join are       *)
(* arguments of one call, which C++ may evaluate in either order.          *)
(***************************************************************************)
EXTENDS SubPlans

VARIABLES calls,    \* the consumer's TransformOp calls under way
          ctes,     \* the consumer's relations for the CTEs
          result    \* what from_substrait runs

allVars == <<vars, calls, ctes, result>>

\* A DuckDB relation: its operator and its inputs.
Relation(what, inputs) == [what |-> what, inputs |-> inputs]
InvalidInput == Relation(<<"invalid_input">>, <<>>)

NoRelations == [k \in {} |-> InvalidInput]

-----------------------------------------------------------------------------
(* The consumer.                                                           *)

\* TransformOp of rel, the input number slot of its caller.
TransformOp(rel, slot) == [rel |-> rel, slot |-> slot, done |-> NoRelations]

Consuming == status = "done" /\ result = Nothing
Latest == calls[Len(calls)]
Message == rels[Latest.rel]
IsLastRelation == Len(ctes) = Len(relations) - 1

TransformRelation ==
    /\ Consuming /\ calls = <<>>
    /\ calls' = <<TransformOp(relations[Len(ctes) + 1], 1)>>
    /\ UNCHANGED <<vars, ctes, result>>

TransformInput ==
    /\ Consuming /\ calls # <<>>
    /\ \E k \in DOMAIN Message.inputs \ DOMAIN Latest.done :
           calls' = Append(calls, TransformOp(Message.inputs[k], k))
    /\ UNCHANGED <<vars, ctes, result>>

\* What has been built goes to the caller, or to the table of CTEs, or is run.
Deliver(relation) ==
    IF Len(calls) > 1
    THEN LET caller == Last(Front(calls))
         IN  /\ calls' = Append(Front(Front(calls)),
                    [caller EXCEPT !.done = With(@, Latest.slot, relation)])
             /\ UNCHANGED <<ctes, result>>
    ELSE /\ calls' = <<>>
         /\ IF IsLastRelation THEN result' = relation /\ UNCHANGED ctes
            ELSE ctes' = Append(ctes, relation) /\ UNCHANGED result

TransformReferenceOp ==
    /\ Consuming /\ calls # <<>> /\ IsReference(Message)
    /\ LET index == Message.rel[2]
       IN  IF index >= Len(ctes)
           THEN result' = InvalidInput /\ UNCHANGED <<calls, ctes>>
           ELSE Deliver(ctes[index + 1])
    /\ UNCHANGED vars

BuildRelation ==
    /\ Consuming /\ calls # <<>> /\ ~IsReference(Message)
    /\ DOMAIN Latest.done = DOMAIN Message.inputs
    /\ Deliver(Relation(Message.rel, Latest.done))
    /\ UNCHANGED vars

InitAll == Init /\ calls = <<>> /\ ctes = <<>> /\ result = Nothing
NextAll == \/ Next /\ UNCHANGED <<calls, ctes, result>>
           \/ TransformRelation \/ TransformInput
           \/ TransformReferenceOp \/ BuildRelation

\* One thread runs both translations to their end.
SpecAll == InitAll /\ [][NextAll]_allVars /\ WF_allVars(NextAll)

-----------------------------------------------------------------------------
(* What the query means, by the enclosing joins and not by any stack.      *)

\* The relation that a place means, from what its parts mean.
MeansBy(meaning, place) ==
    LET node == place.node
        side(k) == meaning[Side(place, k)]
    IN  CASE node.op = "get" -> Relation(<<"read", node.table>>, <<>>)
          [] node.op = "cte_ref" -> meaning[Referent(place)]
          [] node.op = "delim_get" ->
                 Relation(<<"aggregate", Last(place.scope).columns>>,
                          <<meaning[Copy(place)]>>)
          [] node.op = "materialized_cte" -> meaning[Rest(place)]
          [] OTHER -> Relation(<<"join", node.type>>,
                               IF node.swapped THEN <<side(2), side(1)>>
                               ELSE <<side(1), side(2)>>)
Meaning(query) ==
    LET meaning[place \in Places(query)] == MeansBy(meaning, place) IN meaning

\* Every delim get became the distinct rows of the data side of the join it
\* belongs to, every CTE reference its CTE, and every join has its sides
\* where its type wants them, however joins, copies and CTEs are nested.
QueryComesBack ==
    result # Nothing => result = Meaning(plan)[Start(plan)]

\* Whether some CTE is at a place or in an operator below it, and whether
\* one is that does not follow the others at the top.
CTEsBy(ctes_at, place) ==
    LET node == place.node
        some == \/ IsTopCTE(node)
                \/ node.op = "join" /\ \E k \in 1..2 : ctes_at[Side(place, k)].some
    IN  [some |-> some,
         nested |-> IF IsTopCTE(node)
                    THEN ctes_at[Body(place)].some \/ ctes_at[Rest(place)].nested
                    ELSE some]
CTEs(query) ==
    LET ctes_at[place \in Places(query)] == CTEsBy(ctes_at, place) IN ctes_at
IsRejected(query) == CTEs(query)[Start(query)].nested

\* A plan that DuckDB may hand over is only rejected for a CTE below the top.
OnlyNestedCTEsFail ==
    /\ status # "internal_error"
    /\ status = "not_implemented" => IsRejected(plan)
    /\ status = "done" => ~IsRejected(plan)

\* The translation ends, although a copy may hold delim gets itself.
TranslationEnds == <>(status # "running")
=============================================================================
