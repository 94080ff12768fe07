--------------------------- MODULE StructuredTrees ---------------------------
(* The structured views with the trees they show: the builders of transform  *)
(* that the routes call, and what the pages must say of the two versions.    *)
EXTENDS Structured, UnityDiff, DllDiff

DiffOf(kind, base, target) ==
    CASE kind = "unity"  -> FileDiff(base, target)
      [] kind = "bundle" -> BundleDiff(base, target)
      [] kind = "dll"    -> DllDiffTree(target, base)

\* The deep filter asks for the verdict of the signatures only.
DeepVerdict(base, target) ==
    Row(<<"file">>, "file",
        IF Differing(DllStatuses(base, target)) = {} THEN "unchanged" ELSE "changed", {})

EntryNode(n, e) ==
    IF e.kind = "blob" THEN BlobRow(n, "unchanged") ELSE ArchiveRow(n, "unchanged", BuildRoot(e.file))

TreeOf(kind, content) ==
    Row(<<"file">>, "file", "unchanged",
        IF kind = "unity" THEN BuildRoot(content)
                          ELSE {EntryNode(n, content[n]) : n \in DOMAIN content})

-----------------------------------------------------------------------------
IsAnswered(v, what) == answer[v].is = what
Of(v, s) == Content(page[v], page[v].versions, s)
DiffAsked(v) ==
    With([s \in Sides |-> Of(v, s)], LAMBDA of : DiffOf(KindAsked(page[v]), of["base"], of["target"]))

BundleDiffRight(b, t, tree) ==
    /\ OneRowEach(tree)
    /\ Mirrored(tree, BundleDiff(t, b))
    /\ b = t => HasNoChanges(tree)

TreeRight(v, tree) ==
    \A b \in {Of(v, "base")}, t \in {Of(v, "target")} :
       CASE page[v].route = "tree"  -> OneRowEach(tree)
         [] page[v].route = "deepDll" -> HasNoChanges(tree) => HasNoChanges(DiffAsked(v))
         [] KindAsked(page[v]) = "unity"  -> FileDiffRight(b, t, tree)
         [] KindAsked(page[v]) = "bundle" -> BundleDiffRight(b, t, tree)
         [] KindAsked(page[v]) = "dll"    -> DllDiffRight(t, b, tree)

SidesOf(status) ==
    CASE status = "added" -> {"base"} [] status = "removed" -> {"target"} [] OTHER -> Sides

RowsAt(v) == {r \in RowsOf(DiffAsked(v)) : r.id = page[v].node}

BodyRight(v) ==
    \A r \in RowsAt(v) : r.kind \in {"gameobject", "component", "type"} =>
      /\ IsAnswered(v, "body")
      /\ \A s \in Sides : (answer[v].texts[s] # NoText) <=> s \in SidesOf(r.status)

BodyTried(v) ==
    /\ page[v].route = "diffNode" /\ KindAsked(page[v]) # "other"
    /\ \A s \in Sides : HasFile(page[v], s)
    /\ answer[v].is \in {"body", "internal", "bad request"}

\* A diff pairs the objects of one place in the two versions asked for and
\* nothing else, whatever their path ids: no object is in two rows, the rows
\* are the same seen from the other side, a file does not differ from itself,
\* and an assembly's types differ whatever the order of its tables.  The body
\* of a diff's row shows the object of every side that has it.
StructuredRight ==
    \A v \in Viewers :
      /\ IsAnswered(v, "tree") => \A tree \in {answer[v].tree} : TreeRight(v, tree)
      /\ BodyTried(v) => BodyRight(v)

\* What transform/src/dll/diff.rs 126-165 says of the tree of an assembly's
\* diff: a row goes only with a subtree in which nothing changed.  So every
\* type that differs has its row.
NestedShown ==
    \A v \in Viewers :
      IsAnswered(v, "tree") /\ page[v].route = "diff" /\ KindAsked(page[v]) = "dll" =>
        Differing(DllStatuses(Of(v, "target"), Of(v, "base"))) \subseteq TypesShown(answer[v].tree)
=============================================================================
