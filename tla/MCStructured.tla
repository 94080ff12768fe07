---------------------------- MODULE MCStructured ----------------------------
EXTENDS StructuredTrees, TLC

CONSTANTS v1, v2

-----------------------------------------------------------------------------
(* Unity files, from a list of game objects and a list of loose objects. The *)
(* transform of the i-th game object has path id 10 i + 1, its game object   *)
(* 10 i, its components 10 i + 2 onwards; loose objects start at 100; a      *)
(* shift moves them all, as a rebuild does.                                  *)
Script(label, data) == [class |-> "MonoBehaviour", label |-> label, data |-> data, ref |-> 0]
Hinge(data) == [Script("HingeJoint2D", data) EXCEPT !.class = "HingeJoint2D"]
Towards(label, place) == [Script(label, 1) EXCEPT !.ref = place]
GameObject(name, father, comps) == [name |-> name, father |-> father, comps |-> comps]
LooseAsset(class, name, data) == [class |-> class, name |-> name, data |-> data]

ObjectsOf(gos, loose, shift) ==
    LET Go(i) == 10 * i + shift
        CompsOf(i) == [k \in 0..Len(gos[i].comps) |-> Go(i) + 1 + k]
        Below(i) == SetToSortSeq({Go(j) + 1 : j \in {j \in DOMAIN gos : gos[j].father = i}}, <)
        Comp(i, k) == gos[i].comps[k]
    IN [p \in {Go(i) : i \in DOMAIN gos} |->
          LET i == (p - shift) \div 10
          IN [Object("GameObject", "GameObject", gos[i].name, 0, 0) EXCEPT
                !.components = [k \in 1..(Len(gos[i].comps) + 1) |-> Go(i) + k]]]
       @@ [p \in {Go(i) + 1 : i \in DOMAIN gos} |->
          LET i == (p - shift) \div 10
          IN [Object("Transform", "Transform", "", 0, 0) EXCEPT
                !.go = Go(i), !.children = Below(i),
                !.father = IF gos[i].father = 0 THEN 0 ELSE Go(gos[i].father) + 1]]
       @@ [p \in UNION {{Go(i) + 1 + k : k \in DOMAIN gos[i].comps} : i \in DOMAIN gos} |->
          LET i == (p - shift) \div 10
              c == Comp(i, ((p - shift) % 10) - 1)
          IN [Object(c.class, c.label, "", c.data, IF c.ref = 0 THEN 0 ELSE c.ref + shift)
                EXCEPT !.go = Go(i)]]
       @@ [p \in {99 + k + shift : k \in DOMAIN loose} |->
          LET l == loose[p - shift - 99] IN Object(l.class, l.class, l.name, l.data, 0)]

Trees == <<
    <<>>,
    <<GameObject("A", 0, <<>>)>>,
    <<GameObject("A", 0, <<Script("S", 1)>>)>>,
    <<GameObject("A", 0, <<Script("S", 2)>>)>>,
    <<GameObject("A", 0, <<Script("S", 1), Script("S", 2)>>)>>,
    <<GameObject("A", 0, <<Script("R", 1), Script("S", 1)>>)>>,
    <<GameObject("A", 0, <<Hinge(1)>>)>>,
    <<GameObject("A", 0, <<Hinge(2)>>)>>,
    <<GameObject("A", 0, <<>>), GameObject("B", 1, <<Script("S", 1)>>)>>,
    <<GameObject("A", 0, <<>>), GameObject("B", 1, <<Script("S", 2)>>), GameObject("B", 1, <<Script("S", 1)>>)>>,
    <<GameObject("A", 0, <<Script("S", 1)>>), GameObject("A", 0, <<Script("S", 2)>>)>>,
    <<GameObject("B", 0, <<Script("S", 1)>>), GameObject("A", 0, <<Script("S", 2)>>)>>,
    <<GameObject("A", 0, <<Towards("S", 22)>>), GameObject("B", 0, <<Script("R", 1)>>)>>,
    <<GameObject("A", 0, <<Towards("S", 20)>>), GameObject("B", 0, <<Script("R", 1)>>)>> >>

LooseLists == <<
    <<LooseAsset("Mesh", "", 1)>>,
    <<LooseAsset("Mesh", "m", 1), LooseAsset("Mesh", "n", 1)>>,
    <<LooseAsset("Mesh", "n", 2), LooseAsset("Mesh", "n", 1), LooseAsset("Font", "n", 1)>>,
    <<LooseAsset("Mesh", "", 1), LooseAsset("Mesh", "", 2), LooseAsset("Font", "", 2)>> >>

Shifts == <<0, 500>>

\* Every tree with the first list and every list with the second tree.
Builds ==
    [n \in 1..28 |-> ObjectsOf(Trees[(n + 1) \div 2], LooseLists[1], Shifts[1 + (n % 2)])]
    \o [n \in 1..6 |-> ObjectsOf(Trees[2], LooseLists[1 + (n + 1) \div 2], Shifts[1 + (n % 2)])]
UnityFiles == Builds \o <<Builds[5], Builds[5]>>
Unopened == 35
NotUnity == 36

-----------------------------------------------------------------------------
Serialized(f) == [kind |-> "serialized", file |-> f, size |-> 0]
Blob(n) == [kind |-> "blob", file |-> <<>>, size |-> n]

Bundles == <<
    <<"cab">> :> Serialized(UnityFiles[5]) @@ <<"cab", "resource">> :> Blob(1),
    <<"cab">> :> Serialized(UnityFiles[8]) @@ <<"cab", "resource">> :> Blob(2),
    <<"cab">> :> Blob(1) @@ <<"other">> :> Serialized(UnityFiles[17]),
    <<"cab">> :> Serialized(UnityFiles[6]) @@ <<"other">> :> Serialized(UnityFiles[18]) >>

-----------------------------------------------------------------------------
(* Assemblies: a type N.T with a nested type I, a type U that uses them, and *)
(* an outside type.                                                          *)
Plain(op) == [op |-> op, kind |-> "plain"]
Uses(op, kind, what) == [op |-> op, kind |-> kind, uses |-> what]
Void == <<"prim", "void">>
Number32 == <<"prim", "int">>
Method(name, params, instructions) ==
    [name |-> name, flags |-> 0, ret |-> Void, params |-> params, body |-> <<instructions>>]
Field(name, type) == [name |-> name, flags |-> 0, type |-> type]
TypeDef(ns, name, outer, fields, methods) ==
    [ns |-> ns, name |-> name, outer |-> outer, flags |-> 0, bfi |-> FALSE,
     extends |-> <<<<"ref", 1>>>>, implements |-> <<>>, fields |-> fields,
     properties |-> <<>>, methods |-> methods, overrides |-> <<>>]

TypeT == TypeDef(<<"N">>, "T", 0, <<Field("f", Number32), Field("g", <<"def", 2>>)>>,
                 <<Method("m", <<>>, <<Plain("nop"), Plain("ret")>>), Method("m", <<Number32>>, <<Plain("ret")>>)>>)
TypeI == TypeDef(<<>>, "I", 1, <<>>, <<Method("n", <<<<"gen", <<"ref", 1>>, <<<<"def", 1>>>>>>>>, <<Plain("ret")>>)>>)
TypeU == TypeDef(<<>>, "U", 0, <<>>,
           <<Method("u", <<>>,
               <<Uses("call", "call", [at |-> "def", type |-> 1, member |-> 2]),
                 Uses("ldfld", "field", [at |-> "def", type |-> 1, member |-> 1]),
                 Uses("newobj", "type", <<"def", 2>>),
                 Uses("call", "call", [at |-> "ref", parent |-> <<"ref", 1>>, name |-> "c",
                                       ret |-> Void, params |-> <<<<"def", 3>>>>])>>)>>)
Cctor == Method("cctor", <<>>, <<Plain("ret")>>)
OutsideRefs == <<[ns |-> <<"System">>, name |-> "Object", outer |-> 0]>>
Assembly(defs) == [defs |-> defs, refs |-> OutsideRefs]

First == Assembly(<<TypeT, TypeI, TypeU>>)
Assemblies == <<
    First,
    MovedTo(First, <<3, 1, 2>>),
    [First EXCEPT !.defs[3].methods[1].body[1][2].uses.member = 2],
    [First EXCEPT !.defs[1].fields[1].name = "h"],
    [First EXCEPT !.defs[2].methods[1].flags = 1],
    [First EXCEPT !.defs[1].methods = Append(@, Cctor), !.defs[1].bfi = TRUE],
    [First EXCEPT !.defs[1].methods = <<@[2], @[1]>>, !.defs[3].methods[1].body[1][1].uses.member = 1],
    Assembly(<<TypeT, TypeI>>),
    [First EXCEPT !.refs[1].name = "Other"],
    Assembly(<<TypeT, TypeI, TypeU, TypeDef(<<>>, "N", 0, <<>>, <<>>)>>) >>

-----------------------------------------------------------------------------
MCVersions == 1..Len(UnityFiles)
AsPaths(n) ==
    "level" :> UnityFiles[n]
    @@ (IF n \in DOMAIN Bundles THEN "pack" :> Bundles[n] ELSE <<>>)
    @@ (IF n \in DOMAIN Assemblies THEN "game" :> Assemblies[n] ELSE <<>>)
    @@ (IF n \in {5, Unopened} THEN "readme" :> <<>> ELSE <<>>)
MCContentIn == [n \in MCVersions |-> AsPaths(n)]
MCKindOf == "level" :> "unity" @@ "pack" :> "bundle" @@ "game" :> "dll" @@ "readme" :> "other"
MCOpening == MCVersions \ {Unopened}
MCUnityVersions == MCVersions \ {NotUnity}
MCClose(a, b) == TRUE

Ask(route, base, target, path, node) ==
    [route |-> route, versions |-> [s \in Sides |-> IF s = "base" THEN base ELSE target],
     path |-> path, node |-> node]

Nobody == Ask("diffNode", 1, 1, "readme", NoId)
Alone(q) == [v \in Viewers |-> IF v = v1 THEN q ELSE Nobody]
Having(path) == {n \in MCVersions : path \in DOMAIN MCContentIn[n]}

Diffs == {Ask("diff", b, t, "level", NoId) : b, t \in MCVersions}
         \cup {Ask("diff", b, t, "pack", NoId) : b, t \in Having("pack")}
         \cup {Ask(r, b, t, "game", NoId) : r \in {"diff", "deepDll"}, b, t \in Having("game")}
         \cup {Ask("tree", b, b, "level", NoId) : b \in {3, 5, 17}}
         \cup {Ask("tree", b, b, "pack", NoId) : b \in Having("pack")}

\* Every row of these diffs, asked for its body.
Pairs ==
    {[base |-> b, target |-> t, path |-> "pack"] : b, t \in Having("pack")}
    \cup {[base |-> b, target |-> t, path |-> "game"] : b, t \in {1, 2, 3, 4, 5, 8}}
    \cup {[base |-> b, target |-> t, path |-> "level"] : b, t \in {5, 8, 10, 17, 20, 31}}

NodesOf(pair) ==
    UNION {{Ask("diffNode", pair.base, pair.target, pair.path, r.id) :
              r \in RowsOf(DiffOf(MCKindOf[pair.path], base, target))} :
             base \in {MCContentIn[pair.base][pair.path]},
             target \in {MCContentIn[pair.target][pair.path]}}

Nodes == UNION {NodesOf(pair) : pair \in Pairs}

\* Pages that share what they read: files of five versions, one without a Unity
\* directory and one that does not open.
Shared ==
    {Ask("diff", p[1], p[2], "level", NoId) :
       p \in {<<5, 8>>, <<8, 5>>, <<10, 8>>, <<5, 10>>, <<5, Unopened>>, <<NotUnity, 8>>}}
    \cup {Ask("diffNode", 5, 8, "level", id) :
             id \in {<<"file">>, MatchedPairId(512, 12), MatchedPairId(12, 512)}}
    \cup {Ask("diffNode", 5, NotUnity, "level", MatchedPairId(512, 12)),
           Ask("diffNode", 10, 5, "level", <<"base">> \o ObjectId(13)),
           Ask("diffNode", 4, 1, "pack", ArchivePrefix(<<"cab">>) \o ObjectId(10)),
           Ask("diffNode", 4, 5, "pack", ArchivePrefix(<<"cab">>) \o ObjectId(10)),
           Ask("node", 5, 5, "level", ObjectId(510)),
           Ask("node", 8, 8, "level", ObjectId(510)),
           Ask("node", Unopened, Unopened, "level", ObjectId(10)),
           Ask("node", NotUnity, NotUnity, "level", ObjectId(10)),
           Ask("node", 8, 8, "level", <<"section", "loose">>),
           Ask("tree", 8, 8, "level", NoId),
           Ask("node", 4, 4, "pack", ArchivePrefix(<<"cab">>) \o ObjectId(10)),
           Ask("diff", 5, 8, "readme", NoId), Ask("diff", 5, 5, "readme", NoId)}

\* Which viewer asks which page is all the same.
InOrder(pages) ==
    LET q == CHOOSE q \in pages : TRUE
        r == CHOOSE r \in pages : pages = {q, r}
    IN [v \in Viewers |-> IF v = v1 THEN q ELSE r]

Batches ==
    {Alone(q) : q \in Diffs \cup Nodes} \cup {InOrder({q, r}) : q, r \in Shared}
=============================================================================
