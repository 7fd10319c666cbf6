------------------------------ MODULE Queries ------------------------------
(***************************************************************************)
(* The logical plans that the producer is given, as far as delim joins and *)
(* materialized CTEs go, and the places in them.                           *)
(*                                                                         *)
(* A logical operator is a record of its op, its children and              *)
(*   get               table                                               *)
(*   cte_ref           index, of the CTE                                   *)
(*   delim_get         columns, how many it scans                          *)
(*   materialized_cte  index; its children are the CTE and the rest        *)
(*   join              type; delim; swapped for RIGHT_SEMI; flipped if the *)
(*                     data side is the second child; columns, the         *)
(*                     duplicate eliminated ones                           *)
(***************************************************************************)
EXTENDS Integers, Sequences, SequencesExt

CONSTANTS Plans,      \* the logical plans given to TransformPlan
          Places(_),  \* the places in a plan
          Height(_)   \* of a place: how deep its parts are nested

Nothing == [op |-> "nothing"]

\* A function with one more argument.
With(f, x, value) ==
    [y \in DOMAIN f \cup {x} |-> IF y = x THEN value ELSE f[y]]

IsDelimJoin(node) == node.op = "join" /\ node.delim
DataSide(node) == IF node.flipped THEN 2 ELSE 1

-----------------------------------------------------------------------------
(* A place is an operator with the CTEs it may refer to and the delim      *)
(* joins around it, the innermost last.  Its parts are the places whose    *)
(* rows it reads.                                                          *)

Place(known, node, scope) == [known |-> known, node |-> node, scope |-> scope]
NoCTEs == [index \in {} |-> Nothing]
Start(query) == Place(NoCTEs, query, <<>>)

IsTopCTE(node) == node.op = "materialized_cte"
Enclosing(node) == [data_side |-> node.children[DataSide(node)],
                    columns |-> node.columns]

Side(place, k) ==
    Place(place.known, place.node.children[k],
          IF IsDelimJoin(place.node) /\ k # DataSide(place.node)
          THEN Append(place.scope, Enclosing(place.node)) ELSE place.scope)
Copy(place) ==
    Place(place.known, Last(place.scope).data_side, Front(place.scope))
Body(place) == Place(place.known, place.node.children[1], <<>>)
Rest(place) == Place(With(place.known, place.node.index, Body(place)),
                     place.node.children[2], <<>>)
Referent(place) == place.known[place.node.index]

Parts(place) ==
    CASE place.node.op = "get" -> {}
      [] place.node.op = "cte_ref" -> {Referent(place)}
      [] place.node.op = "delim_get" -> {Copy(place)}
      [] place.node.op = "materialized_cte" -> {Body(place), Rest(place)}
      [] OTHER -> {Side(place, 1), Side(place, 2)}

\* DuckDB's plans are finite trees, a reference stands where its CTE is known,
\* a delim get below a join that has its columns, and CTEs differ in index.
IsPlanned(place) ==
    /\ place.node.op \in {"get", "cte_ref", "delim_get", "materialized_cte",
                          "join"}
    /\ place.node.op = "cte_ref" => place.node.index \in DOMAIN place.known
    /\ place.node.op = "delim_get" =>
           /\ place.scope # <<>>
           /\ Len(Last(place.scope).columns) = place.node.columns
    /\ IsTopCTE(place.node) => place.node.index \notin DOMAIN place.known

ASSUME PlacesAssumption ==
    \A query \in Plans :
        /\ Start(query) \in Places(query)
        /\ \A place \in Places(query) :
               IsPlanned(place) /\ Parts(place) \subseteq Places(query)

ASSUME HeightAssumption ==
    \A query \in Plans : \A place \in Places(query) :
        /\ Height(place) \in Nat
        /\ \A part \in Parts(place) : Height(part) < Height(place)
=============================================================================
