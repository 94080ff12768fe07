----------------------------- MODULE MCCompare -----------------------------
EXTENDS History, TLC

CONSTANTS r1, r2, r3, r4, r5, data, aa, level, Linux, Windows, x, y, i1, i2, i3, none

\* Two files of an Addressables build under either target, a plain file, an
\* assembly and a link, in a few of the ways versions can have them.
AssetAt(t) == <<data, aa, t, x>>
Deeper(t) == <<data, aa, x, aa, t, x>>
Level(n) == <<data, level, n>>
PlainAt == <<x>>
AssemblyAt == <<data, y>>
Link == <<y>>
File(p, id, norm, kind) ==
    [path |-> p, id |-> id, norm |-> norm, kind |-> kind, size |-> id,
     dir |-> FALSE, link |-> FALSE]
LinkTo(id) == [File(Link, id, id, "plain") EXCEPT !.link = TRUE]
Folder == [File(<<data>>, 0, 0, "plain") EXCEPT !.dir = TRUE]

Catalogue ==
    r1 :> <<Folder, File(AssetAt(Linux), 1, 1, "unity"), File(PlainAt, 1, 1, "plain"),
            File(AssemblyAt, 1, 1, "dll"), File(Deeper(Linux), 1, 1, "plain"), LinkTo(1),
            File(Level(x), 1, 1, "unity"), File(Level(y), 1, 1, "unity")>>
    @@ r2 :> <<File(PlainAt, 2, 1, "plain"), File(AssetAt(Windows), 2, 1, "unity"),
               File(AssemblyAt, 2, 2, "dll"), File(Deeper(Windows), 2, 2, "plain"), LinkTo(2),
               File(Level(x), 2, 2, "unity"), File(Level(y), 2, 1, "unity")>>
    @@ r3 :> <<Folder, File(AssetAt(Windows), 3, 2, "unity"), File(AssemblyAt, 3, 3, "dll")>>
    @@ r4 :> <<File(AssetAt(Linux), 1, 1, "unity"), File(PlainAt, 2, 2, "plain")>>
    @@ r5 :> <<File(AssetAt(Linux), 1, 1, "unity"), File(AssetAt(Windows), 2, 1, "unity")>>

Times == r1 :> 4 @@ r2 :> 3 @@ r3 :> 2 @@ r4 :> 2 @@ r5 :> 1

\* Three nodes of the assembly's tree: x keeps its id and is gone in r3, y
\* changes in r2, z keeps its content and changes its id.
TreeNodes == {"x", "y", "z"}
Ids == r1 :> [x |-> i1, y |-> i2, z |-> i3]
       @@ r2 :> [x |-> i1, y |-> i3, z |-> i2]
       @@ r3 :> [x |-> none, y |-> i3, z |-> i2]
       @@ r4 :> [x |-> none, y |-> none, z |-> none]
       @@ r5 :> [x |-> none, y |-> none, z |-> none]
Bodies == r1 :> [x |-> 1, y |-> 1, z |-> 1]
          @@ r2 :> [x |-> 1, y |-> 2, z |-> 1]
          @@ r3 :> [x |-> 0, y |-> 2, z |-> 1]
          @@ r4 :> [x |-> 0, y |-> 0, z |-> 0]
          @@ r5 :> [x |-> 0, y |-> 0, z |-> 0]

Request(route, base, others, path, query, node) ==
    [route |-> route, base |-> base, others |-> others, path |-> path,
     query |-> query, node |-> node]

\* Up to three others, one of them twice or the base itself.
Others == {<<>>} \cup {<<r>> : r \in Ref} \cup {<<r, s>> : r, s \in Ref}
          \cup {<<r2, r3, r4>>, <<r4, r1, r3>>}
OfFiles == {AssetAt(Linux), AssetAt(Windows), PlainAt, AssemblyAt, Link}
Set == {s \in Others : \A i, j \in DOMAIN s : s[i] = s[j] => i = j}

CompareRequests ==
    {Request("diff", r, o, PlainAt, {}, none) : r \in Ref, o \in Others}
    \cup {Request("file", r, o, p, {}, none) : r \in {r1, r4}, o \in Others, p \in OfFiles}
    \cup {Request("targets", r, o, PlainAt, q, none) :
             r \in {r1, r2}, o \in Others, q \in {{AssetAt(Linux), AssetAt(Windows)}, {PlainAt}, OfFiles}}
    \cup {Request("deep", r, <<s>>, PlainAt, {}, none) : r, s \in Ref}
    \cup {Request("history", r, o, p, {}, none) : r \in {r1, r2, r3}, o \in Set, p \in OfFiles}
    \cup {Request("history", r1, o, AssemblyAt, {}, n) : o \in Set, n \in {i1, i2, i3}}
    \cup {Request("history", r2, o, AssemblyAt, {}, n) : o \in Set, n \in {i1, i3}}
    \cup {Request("versions", r1, o, PlainAt, {}, none) : o \in Set}

ASSUME RequestsLegal == \A q \in CompareRequests : Legal(q)
=============================================================================
