-------------------------- MODULE MCDocumentStore --------------------------
(* An instance of DocumentStore for TLC.                                    *)
EXTENDS DocumentStore

CONSTANTS tp, d1, d2, bad, u, x, tu, td, f, fu

\* A template, two documents and one that is no JSON, an update of all, the
\* deletion of one, an update and the deletion of the template, a function and
\* its update.  The first document is sent a second before the other commands.
MCOp == [c \in Commands |->
  CASE c = tp -> "addTemplate" [] c \in {d1, d2, bad} -> "addDocument"
    [] c = u -> "updateDocument" [] c = x -> "deleteDocument"
    [] c = tu -> "updateTemplate" [] c = td -> "deleteTemplate"
    [] c = f -> "addFunction" [] c = fu -> "updateFunction"]
MCTarget == [c \in Commands |-> IF c \in {f, fu} THEN f ELSE tp]
MCSelects == [c \in Commands |-> CASE c = u -> {d1, d2, bad} [] c = x -> {d1} [] OTHER -> {}]
MCTimestamp == [c \in Commands |-> IF c \in {tp, d1} THEN 1 ELSE 2]

\* Documents alone, with the template's deletion, and the template's commands.
MCSessions == {{tp, d1, d2, u}, {tp, d1, u, x}, {tp, d1, d2, x}, {tp, d1, u, td}, {tp, d1, x, td},
               {tp, tu, td}, {tp, tu, d1}, {tp, bad, u}, {f, fu}}
=============================================================================
