------------------------------ MODULE DllDiff ------------------------------
(* The diff of two .NET assemblies (crates/dll-diff/src/lib.rs, sig.rs) and  *)
(* the tree of namespaces and types it is shown in (transform/src/dll/       *)
(* diff.rs, tree.rs).                                                        *)
(*                                                                           *)
(* An assembly has a table of the types it defines, one of the types it      *)
(* refers to, and is full of indices into both.  A type's signature is what  *)
(* sig.rs feeds its hasher, in that order, and no two signatures collide.    *)
(* Members are sorted by a key before they are hashed: here they are a       *)
(* function from that key to the members that have it, in table order.       *)
(* Names are sequences of segments; the flags of types, fields and methods,  *)
(* the operands and data sections of a body that refer to nothing, generic   *)
(* parameters and modifiers are part of `flags`, `op` and `name`.  An        *)
(* override is two calls: its implementation and its declaration.            *)
EXTENDS RowTrees

NoIndex == 0

\* Types: <<"def", i>>, <<"ref", j>>, <<"prim", name>>, <<"gen", base, arguments>>.
RECURSIVE DefIdentity(_, _), TypeSig(_, _)

\* Optional parts are sequences of at most one element.
DefIdentity(asm, i) ==
    LET td == asm.defs[i]
    IN <<td.ns, td.name, IF td.outer = NoIndex THEN <<>> ELSE <<DefIdentity(asm, td.outer)>>>>

\* A reference writes its encloser's name and not where that one is nested.
RefIdentity(asm, j) ==
    LET tr == asm.refs[j]
    IN <<tr.ns, tr.name,
         IF tr.outer = NoIndex THEN <<>>
                               ELSE <<<<asm.refs[tr.outer].ns, asm.refs[tr.outer].name>>>>>>

TypeSig(asm, t) ==
    CASE t[1] = "def"  -> DefIdentity(asm, t[2])
      [] t[1] = "ref"  -> RefIdentity(asm, t[2])
      [] t[1] = "prim" -> t
      [] t[1] = "gen"  -> <<"gen", TypeSig(asm, t[2]), [k \in DOMAIN t[3] |-> TypeSig(asm, t[3][k])]>>

TypeSigs(asm, list) == [k \in DOMAIN list |-> TypeSig(asm, list[k])]

Shape(asm, m) == <<TypeSig(asm, m.ret), TypeSigs(asm, m.params)>>

\* Methods and fields a body uses: defined here, by table and position, or
\* referred to, by parent, name and type.
MethodIdentity(asm, u) ==
    IF u.at = "def"
    THEN LET m == asm.defs[u.type].methods[u.member]
         IN <<DefIdentity(asm, u.type), m.name, Shape(asm, m)>>
    ELSE <<TypeSig(asm, u.parent), u.name, Shape(asm, u)>>

\* hash_external_field_ref also writes the reference's modifiers.
FieldIdentity(asm, u) ==
    IF u.at = "def"
    THEN LET f == asm.defs[u.type].fields[u.member]
         IN <<DefIdentity(asm, u.type), f.name, TypeSig(asm, f.type)>>
    ELSE <<TypeSig(asm, u.parent), u.name, TypeSig(asm, u.type), <<>>>>

Instruction(asm, ins) ==
    <<ins.op, CASE ins.kind = "call"  -> MethodIdentity(asm, ins.uses)
                [] ins.kind = "field" -> FieldIdentity(asm, ins.uses)
                [] ins.kind = "type"  -> TypeSig(asm, ins.uses)
                [] ins.kind = "plain" -> <<>>>>

\* A body is <<>>, or its instructions as the one element.
BodySig(asm, body) ==
    [k \in DOMAIN body |-> [n \in DOMAIN body[k] |-> Instruction(asm, body[k][n])]]

FieldSig(asm, f) == <<f.name, f.flags, TypeSig(asm, f.type)>>
MethodSig(asm, m) == <<m.name, m.flags, Shape(asm, m), BodySig(asm, m.body)>>
\* Properties and events: a name, a type and the methods behind them.
PropertySig(asm, p) ==
    <<p.name, p.flags, TypeSig(asm, p.type),
      [k \in DOMAIN p.accessors |-> MethodSig(asm, p.accessors[k])]>>

\* A stable sort by key.
SortedBy(list, KeyOf(_), SigOf(_)) ==
    [k \in {KeyOf(list[i]) : i \in DOMAIN list} |->
       LET same == SelectSeq(list, LAMBDA x : KeyOf(x) = k) IN [i \in DOMAIN same |-> SigOf(same[i])]]

IsEmptyCctor(m) == m.name = "cctor" /\ m.body = <<<<[op |-> "ret", kind |-> "plain"]>>>>

\* hash_type; td.bfi, before_field_init, is left out, as attributes are.
TypeSignature(asm, td) ==
    LET NameOf(x) == x.name
        ArityOf(m) == <<m.name, Len(m.params)>>
        FieldOf(f) == FieldSig(asm, f)
        PropertyOf(p) == PropertySig(asm, p)
        MethodOf(m) == MethodSig(asm, m)
    IN [name |-> td.name, ns |-> td.ns, flags |-> td.flags,
        outer |-> IF td.outer = NoIndex THEN <<>> ELSE <<DefIdentity(asm, td.outer)>>,
        extends |-> TypeSigs(asm, td.extends), implements |-> TypeSigs(asm, td.implements),
        fields |-> SortedBy(td.fields, NameOf, FieldOf),
        properties |-> SortedBy(td.properties, NameOf, PropertyOf),
        methods |-> SortedBy(SelectSeq(td.methods, LAMBDA m : ~IsEmptyCctor(m)), ArityOf, MethodOf),
        overrides |-> [k \in DOMAIN td.overrides |-> Instruction(asm, td.overrides[k])]]

RECURSIVE Fqn(_, _)
Fqn(asm, i) ==
    LET td == asm.defs[i]
    IN (IF td.outer = NoIndex THEN td.ns ELSE Fqn(asm, td.outer)) \o <<td.name>>

Fqns(asm) == {Fqn(asm, i) : i \in DOMAIN asm.defs}

\* type_signatures: of two types with one name the later stays.
TypeSignatures(asm) ==
    [n \in Fqns(asm) |->
       LET i == CHOOSE i \in DOMAIN asm.defs :
                  Fqn(asm, i) = n /\ \A j \in DOMAIN asm.defs : Fqn(asm, j) = n => j <= i
       IN TypeSignature(asm, asm.defs[i])]

DllStatuses(from, to) ==
    With(<<TypeSignatures(from), TypeSignatures(to)>>, LAMBDA sigs :
      [n \in DOMAIN sigs[1] \cup DOMAIN sigs[2] |->
         CASE n \notin DOMAIN sigs[1] -> "added"
           [] n \notin DOMAIN sigs[2] -> "removed"
           [] OTHER -> IF sigs[1][n] = sigs[2][n] THEN "unchanged" ELSE "changed"])

-----------------------------------------------------------------------------
\* tree.rs.  A "." before a name's last segment may end a namespace or an
\* outer type: the first prefix that is listed itself is the outermost type.
IsPrefixOf(p, n) == Len(p) < Len(n) /\ SubSeq(n, 1, Len(p)) = p

Outermost(n, names) ==
    LET outer == {i \in 1..(Len(n) - 1) : SubSeq(n, 1, i) \in names}
    IN IF outer = {} THEN n ELSE SubSeq(n, 1, CHOOSE i \in outer : \A j \in outer : i <= j)

NamespaceOf(n, names) == Front(Outermost(n, names))

\* Every listed type, and a placeholder for each unlisted one on the way.
WithPlaceholders(names) ==
    names \cup {p \in UNION {{SubSeq(n, 1, i) : i \in DOMAIN n} : n \in names} :
                  \E n \in names : IsPrefixOf(p, n) /\ Len(p) > Len(NamespaceOf(n, names))}

TypeId(n, status) ==
    CASE status = "added"   -> <<"base", "type">> \o n
      [] status = "removed" -> <<"target", "type">> \o n
      [] OTHER              -> <<"type">> \o n

\* apply_statuses, then prune_unchanged: a child of no status of its own
\* but "unchanged" is dropped with what is below it.
Pruned(rows) == {r \in rows : r.status # "unchanged"}

StatusIn(statuses, n) == IF n \in DOMAIN statuses THEN statuses[n] ELSE "unchanged"

RECURSIVE TypeRow(_, _, _), NamespaceRow(_, _, _, _)

TypeRow(n, types, statuses) ==
    LET nested == {TypeRow(c, types, statuses) : c \in {c \in types : Len(c) = Len(n) + 1 /\ IsPrefixOf(n, c)}}
        status == StatusIn(statuses, n)
    IN Row(TypeId(n, status), "type", status, Pruned(nested))

NamespaceRow(ns, names, types, statuses) ==
    LET here == {Outermost(n, names) : n \in {n \in names : NamespaceOf(n, names) = ns}}
        deeper == {SubSeq(m, 1, Len(ns) + 1) :
                     m \in {m \in {NamespaceOf(n, names) : n \in names} : IsPrefixOf(ns, m)}}
        rows == {TypeRow(n, types, statuses) : n \in here}
                \cup {NamespaceRow(m, names, types, statuses) : m \in deeper}
    IN Over(<<"ns">> \o ns, "namespace", Pruned(rows))

\* The types of no namespace are in one of their own below the root.
DllTree(names, statuses) ==
    LET types == WithPlaceholders(names)
        spaces == {NamespaceOf(n, names) : n \in names}
        rows == {IF s = <<>>
                 THEN Over(<<"ns", "-">>, "namespace",
                           Pruned({TypeRow(n, types, statuses) :
                                     n \in {Outermost(n, names) :
                                              n \in {n \in names : NamespaceOf(n, names) = <<>>}}}))
                 ELSE NamespaceRow(s, names, types, statuses) :
                   s \in {SubSeq(s, 1, IF s = <<>> THEN 0 ELSE 1) : s \in spaces}}
    IN Over(<<"file">>, "file", Pruned(rows))

\* build_tree; ilspycmd lists the types that the assembly defines.
DllDiffTree(from, to) ==
    With(Fqns(from) \cup Fqns(to), LAMBDA names :
      With(DllStatuses(from, to), LAMBDA statuses : DllTree(names, statuses)))

-----------------------------------------------------------------------------
(* A compiler that meets the same sources in another order fills the tables  *)
(* in another order.                                                         *)
RECURSIVE MovedType(_, _)
MovedType(t, at) ==
    CASE t[1] = "def" -> <<"def", at[t[2]]>>
      [] t[1] = "gen" -> <<"gen", MovedType(t[2], at), [k \in DOMAIN t[3] |-> MovedType(t[3][k], at)]>>
      [] OTHER -> t
MovedTypes(list, at) == [k \in DOMAIN list |-> MovedType(list[k], at)]

MovedUse(ins, at) ==
    CASE ins.kind = "plain" -> ins
      [] ins.kind = "type"  -> [ins EXCEPT !.uses = MovedType(@, at)]
      [] ins.uses.at = "def" -> [ins EXCEPT !.uses.type = at[@]]
      [] ins.kind = "call"  -> [ins EXCEPT !.uses.parent = MovedType(@, at),
                                           !.uses.ret = MovedType(@, at),
                                           !.uses.params = MovedTypes(@, at)]
      [] ins.kind = "field" -> [ins EXCEPT !.uses.parent = MovedType(@, at),
                                           !.uses.type = MovedType(@, at)]

MovedMethod(m, at) ==
    [m EXCEPT !.ret = MovedType(@, at), !.params = MovedTypes(@, at),
              !.body = [k \in DOMAIN @ |-> [n \in DOMAIN @[k] |-> MovedUse(@[k][n], at)]]]

MovedDef(td, at) ==
    [td EXCEPT !.outer = IF @ = NoIndex THEN NoIndex ELSE at[@],
               !.extends = MovedTypes(@, at), !.implements = MovedTypes(@, at),
               !.overrides = [k \in DOMAIN @ |-> MovedUse(@[k], at)],
               !.fields = [k \in DOMAIN @ |-> [@[k] EXCEPT !.type = MovedType(@, at)]],
               !.methods = [k \in DOMAIN @ |-> MovedMethod(@[k], at)],
               !.properties = [k \in DOMAIN @ |->
                  [@[k] EXCEPT !.type = MovedType(@, at),
                               !.accessors = [n \in DOMAIN @ |-> MovedMethod(@[n], at)]]]]

\* at is a permutation: where each type goes.
MovedTo(asm, at) ==
    [asm EXCEPT !.defs = [i \in DOMAIN asm.defs |->
                            MovedDef(asm.defs[CHOOSE j \in DOMAIN at : at[j] = i], at)]]

\* Whatever the order of either table, the statuses are the same.
OrderIgnored(from, to) ==
    \A at \in {p \in [DOMAIN to.defs -> DOMAIN to.defs] : \A i, j \in DOMAIN p : p[i] = p[j] => i = j} :
      DllStatuses(from, MovedTo(to, at)) = DllStatuses(from, to)

\* The types that have a row: those that differ, unless an outer type that
\* does not keeps them out.
TypesShown(tree) ==
    {IF Head(r.id) \in Sides THEN SubSeq(r.id, 3, Len(r.id)) ELSE Tail(r.id) :
       r \in {r \in RowsOf(tree) : r.kind = "type"}}
Differing(statuses) == {n \in DOMAIN statuses : statuses[n] # "unchanged"}

DllDiffRight(from, to, tree) ==
    LET statuses == DllStatuses(from, to)
        names == Fqns(from) \cup Fqns(to)
    IN /\ OrderIgnored(from, to)
       /\ from = to => HasNoChanges(tree)
       /\ TypesShown(tree) = {n \in Differing(statuses) :
            \A p \in WithPlaceholders(names) : IsPrefixOf(p, n) => StatusIn(statuses, p) # "unchanged"}
=============================================================================
