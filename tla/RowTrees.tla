------------------------------ MODULE RowTrees ------------------------------
(* The rows of a whole tree, and what the rows of a diff must say whatever   *)
(* was compared.  Kept apart from DiffRows, whose definitions do not recur.  *)
EXTENDS DiffRows

RECURSIVE RowsOf(_)
RowsOf(row) == {row} \cup UNION {RowsOf(c) : c \in row.children}

OfKind(rows, kind) == {r \in rows : r.kind = kind}
ObjectRows(tree) == {r \in RowsOf(tree) : r.kind \in {"gameobject", "component"}}

OneRowEach(tree) == Apart(ObjectRows(tree))

\* The diff the other way round shows the same rows from the other side.
Mirrored(tree, other) == Shown(ObjectRows(other)) = FromOtherSide(ObjectRows(tree))
=============================================================================
