-------------------------- MODULE MCDocumentSearch --------------------------
(* The instance of DocumentSearch for the run query and the configurations *)
(* query_bounds and query_union: "p" to "s" are quoted operands, "7" is a  *)
(* number.                                                                 *)
EXTENDS DocumentSearch

MCStrings == <<"p", "q", "r", "s">>

Compare(op, field, value) == <<op, <<field>>, <<value>>>>

\* All operators, equal and absent values, ids that are there and that are not.
MCPaired == {Compare(op, "field", v) : op \in CompareOps, v \in {"p", "q"}}
            \cup {Compare("=", "id", "p"), Compare("=", "id", "s"), Compare("=", "field", "7")}

MCNested == {Compare("=", "field", "q"), Compare("<=", "field", "p"), Compare("=", "id", "q")}
=============================================================================
