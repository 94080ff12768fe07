------------------------------ MODULE UnityDiff ------------------------------
(* The structured diff of two versions of a Unity serialized file or bundle  *)
(* (transform/src/unity/serializedfile/diff, serializedfile/tree,            *)
(* unity/bundle, structured/mod.rs).                                         *)
EXTENDS RowTrees, UnityPairs

\* hierarchy.rs.
Roots(f) == SetToSortSeq({p \in Transforms(f) : f[p].father = Null}, <)
OrderedChildren(f, p) == SelectSeq(f[p].children, LAMBDA c : c \in Transforms(f))

\* The objects a visit of one game object covers.
CoveredBy(f, p) == {p, f[p].go} \cup ToSet(Components(f, p))

ListedComponents(f, p) == {Components(f, p)[i] : i \in Listed(f, p)}

RECURSIVE SubtreeOneSide(_, _, _), WalkPair(_, _, _, _)

\* A walk's rows and, per side, the objects it covers.
Walked(rows, base, target) == [rows |-> rows, base |-> base, target |-> target]
Join(walks) ==
    Walked(UNION {w.rows : w \in walks}, UNION {w.base : w \in walks},
           UNION {w.target : w \in walks})
OnSide(side, rows, covered) ==
    Walked(rows, IF side = "base" THEN covered ELSE {}, IF side = "target" THEN covered ELSE {})

SubtreeOneSide(f, p, side) ==
    LET below == Join({SubtreeOneSide(f, c, side) : c \in ToSet(OrderedChildren(f, p))})
        comps == {SideRow(side, c) : c \in ListedComponents(f, p)}
        row == Row(OneSidedId(side, f[p].go), "gameobject", SideStatus(side), comps \cup below.rows)
    IN Join({OnSide(side, {row}, CoveredBy(f, p)), [below EXCEPT !.rows = {}]})

\* Siblings are paired by name, in order; who is left has one side.
WalkSiblings(b, bs, t, ts) ==
    LET matches == PairByKey(Names(b, bs), Names(t, ts))
    IN Join({IF matches[i] = 0 THEN SubtreeOneSide(b, bs[i], "base")
                               ELSE WalkPair(b, bs[i], t, ts[matches[i]]) : i \in DOMAIN bs}
            \cup {SubtreeOneSide(t, ts[j], "target") : j \in DOMAIN ts \ ToSet(matches)})

WalkPair(b, p, t, q) ==
    LET below == WalkSiblings(b, OrderedChildren(b, p), t, OrderedChildren(t, q))
        rows == PruneUnchanged(ComponentRows(b, p, t, q) \cup below.rows)
        row == Over(MatchedPairId(b[p].go, t[q].go), "gameobject", rows)
    IN Join({Walked({row}, CoveredBy(b, p), CoveredBy(t, q)), [below EXCEPT !.rows = {}]})

DiffHierarchy(b, t) == WalkSiblings(b, Roots(b), t, Roots(t))

-----------------------------------------------------------------------------
\* The three sections together (diff_sections).
DiffSections(b, t) ==
    With(DiffHierarchy(b, t), LAMBDA walk :
           PruneUnchanged({DiffClassStats(b, t), Section("hierarchy", walk.rows),
                           Section("loose", DiffLoose(b, t, walk))}))

\* build_diff.
FileDiff(b, t) == Over(<<"file">>, "file", DiffSections(b, t))

-----------------------------------------------------------------------------
\* The tree of one file, for a bundle's entry that only one side has.
Leaf(p) == Row(ObjectId(p), "component", "unchanged", {})

RECURSIVE GameObjectNode(_, _)
GameObjectNode(f, p) ==
    Row(ObjectId(f[p].go), "gameobject", "unchanged",
        {Leaf(c) : c \in ListedComponents(f, p)}
        \cup {GameObjectNode(f, c) : c \in ToSet(OrderedChildren(f, p))})

RECURSIVE Reached(_, _)
Reached(f, p) == CoveredBy(f, p) \cup UNION {Reached(f, c) : c \in ToSet(OrderedChildren(f, p))}

BuildRoot(f) ==
    LET covered == UNION {Reached(f, r) : r \in ToSet(Roots(f))}
    IN {Row(<<"section", "class-stats">>, "section", "unchanged",
            {Row(<<"class", c>>, "class-stat", "unchanged", {}) : c \in ClassesOf(f)}),
        Row(<<"section", "hierarchy">>, "section", "unchanged",
            {GameObjectNode(f, r) : r \in ToSet(Roots(f))}),
        Row(<<"section", "loose">>, "section", "unchanged",
            {Leaf(p) : p \in DOMAIN f \ covered})}

\* bundle/diff.rs.  A bundle is a function from entries to [kind, file, size].
RECURSIVE PrefixIds(_, _), MarkStatus(_, _)
PrefixIds(row, prefix) ==
    [row EXCEPT !.id = prefix \o @, !.children = {PrefixIds(c, prefix) : c \in @}]
MarkStatus(row, status) ==
    [row EXCEPT !.status = status, !.children = {MarkStatus(c, status) : c \in @}]

ArchiveRow(entry, status, sections) ==
    Row(ArchiveId(entry), "archive", status, {PrefixIds(s, ArchivePrefix(entry)) : s \in sections})
BlobRow(entry, status) == Row(<<"blob">> \o entry, "blob", status, {})

OneSidedEntry(entry, e, side) ==
    MarkStatus(IF e.kind = "serialized" THEN ArchiveRow(entry, "unchanged", BuildRoot(e.file))
                                        ELSE BlobRow(entry, "unchanged"), SideStatus(side))

EntryPair(entry, e, u) ==
    IF e.kind = "blob"
    THEN BlobRow(entry, IF e.size = u.size THEN "unchanged" ELSE "changed")
    ELSE With(DiffSections(e.file, u.file), LAMBDA sections :
                ArchiveRow(entry, AggregateStatus(sections), sections))

BundleDiff(b, t) ==
    LET both == {n \in DOMAIN b \cap DOMAIN t : b[n].kind = t[n].kind}
        rows == {EntryPair(n, b[n], t[n]) : n \in both}
                \cup {OneSidedEntry(n, b[n], "base") : n \in DOMAIN b \ both}
                \cup {OneSidedEntry(n, t[n], "target") : n \in DOMAIN t \ both}
    IN Over(<<"file">>, "bundle", PruneUnchanged(rows))

-----------------------------------------------------------------------------
(* What the rows must say, without the walk: an object's place is the path   *)
(* of names above it, each with its number among siblings of that name.      *)
Siblings(f, p) == IF f[p].father = Null THEN Roots(f) ELSE OrderedChildren(f, f[p].father)

Number(f, p) ==
    LET all == SelectSeq(Siblings(f, p), LAMBDA x : NameOf(f, x) = NameOf(f, p))
    IN CHOOSE i \in DOMAIN all : all[i] = p

RECURSIVE Address(_, _)
Address(f, p) ==
    (IF f[p].father = Null THEN <<>> ELSE Address(f, f[p].father))
    \o <<<<NameOf(f, p), Number(f, p)>>>>

Addresses(f) == [a \in {Address(f, p) : p \in Transforms(f)} |->
                   CHOOSE p \in Transforms(f) : Address(f, p) = a]

\* The components of a file: address, label, number -> path id.
Places(f) ==
    LET at == Addresses(f)
    IN [k \in UNION {{<<a, key>> : key \in DOMAIN CollectComponents(f, at[a])} : a \in DOMAIN at} |->
          CollectComponents(f, at[k[1]])[k[2]]]

ComparedBy(b, t) ==
    LET bs == Places(b)
        ts == Places(t)
    IN {r \in {PairRow(b, bs[k], t, ts[k]) : k \in DOMAIN bs \cap DOMAIN ts} : Kept(r)}
       \cup {SideRow("base", bs[k]) : k \in DOMAIN bs \ DOMAIN ts}
       \cup {SideRow("target", ts[k]) : k \in DOMAIN ts \ DOMAIN bs}

RowsOfSection(tree, name) ==
    UNION {RowsOf(s) : s \in {s \in tree.children : s.id = <<"section", name>>}}

\* Components are compared with those of their place and no others; a game
\* object of both sides has a row only when it or something below it is new or
\* gone, or has a component row.
HierarchyRight(b, t, tree) ==
    LET rows == RowsOfSection(tree, "hierarchy")
        bs == Addresses(b)
        ts == Addresses(t)
        PairAt(a) == MatchedPairId(b[bs[a]].go, t[ts[a]].go)
    IN /\ OfKind(rows, "component") = ComparedBy(b, t)
       /\ \A a \in DOMAIN bs \cap DOMAIN ts :
            LET at == {r \in OfKind(rows, "gameobject") : r.id = PairAt(a)}
            IN at = {} \/ \E r \in at : OfKind(RowsOf(r), "component") # {}
                                       \/ \E c \in RowsOf(r) : c.status # "changed"

FileDiffRight(b, t, tree) ==
    /\ HierarchyRight(b, t, tree)
    /\ OneRowEach(tree)
    /\ Mirrored(tree, FileDiff(t, b))
    /\ b = t => HasNoChanges(tree)
=============================================================================
