----------------------------- MODULE UnityPairs -----------------------------
(* How two versions of a Unity serialized file are paired, object by object  *)
(* (transform/src/unity/serializedfile/diff): siblings by name, components   *)
(* by label and occurrence, loose objects by label and name, classes by      *)
(* count; and when a pair counts as unchanged.  The walks over hierarchies   *)
(* are in UnityDiff.                                                         *)
(*                                                                           *)
(* A file is a function from path ids to objects.  An object has its class,  *)
(* its label (the script's name for a MonoBehaviour, else the class), the    *)
(* m_Name it may have, what it says besides its references (data), one       *)
(* reference (0 for null), and what a transform or a game object holds.      *)
(* Objects of game-specific formats are taken to be compared by their data.  *)
EXTENDS DiffRows, FiniteSetsExt

CONSTANT CloseFloats(_, _)  \* equal up to a few ulps

Null == 0
Blank == ""

Object(class, label, name, data, ref) ==
    [class |-> class, label |-> label, name |-> name, data |-> data, ref |-> ref,
     go |-> Null, father |-> Null, children |-> <<>>, components |-> <<>>]

TransformClasses == {"Transform", "RectTransform"}
Transforms(f) == {p \in DOMAIN f : f[p].class \in TransformClasses}

Section(name, rows) == Over(<<"section", name>>, "section", PruneUnchanged(rows))

SideStatus(side) == IF side = "base" THEN "added" ELSE "removed"

-----------------------------------------------------------------------------
\* equality.rs: equal bytes, or values that differ in references only, which
\* must name objects of one name and class.
Identity(f, p) ==
    IF p \notin DOMAIN f THEN NoId
    ELSE LET o == f[p]
             name == IF o.name # Blank \/ o.go \notin DOMAIN f THEN o.name ELSE f[o.go].name
         IN IF name = Blank THEN NoId ELSE <<name, o.class>>

RefsEqual(b, p, t, q) ==
    \/ p = Null /\ q = Null
    \/ p # Null /\ q # Null /\ Identity(b, p) # NoId /\ Identity(b, p) = Identity(t, q)

BytesEqual(o, u) == o.data = u.data /\ o.ref = u.ref

EqualModuloPPtr(b, p, t, q) ==
    /\ \/ b[p].data = t[q].data
       \/ /\ b[p].class = "HingeJoint2D" /\ t[q].class = "HingeJoint2D"
          /\ CloseFloats(b[p].data, t[q].data)
    /\ b[p].ref = t[q].ref \/ RefsEqual(b, b[p].ref, t, t[q].ref)

MatchedStatus(b, p, t, q) ==
    IF BytesEqual(b[p], t[q]) \/ EqualModuloPPtr(b, p, t, q) THEN "unchanged" ELSE "changed"

PairRow(b, p, t, q) ==
    Row(MatchedPairId(p, q), "component", MatchedStatus(b, p, t, q), {})

SideRow(side, p) == Row(OneSidedId(side, p), "component", SideStatus(side), {})

\* The objects of either side, by key: a key of both sides is one pair.
RowsByKey(b, bs, t, ts) ==
    {PairRow(b, bs[k], t, ts[k]) : k \in DOMAIN bs \cap DOMAIN ts}
    \cup {SideRow("base", bs[k]) : k \in DOMAIN bs \ DOMAIN ts}
    \cup {SideRow("target", ts[k]) : k \in DOMAIN ts \ DOMAIN bs}

-----------------------------------------------------------------------------
\* hierarchy.rs.
NameOf(f, p) == f[f[p].go].name
Names(f, transforms) == [i \in DOMAIN transforms |-> NameOf(f, transforms[i])]

\* Mutant of FreeTarget: a target that is taken already.
AnyTarget(matches, key, targets) == {i \in DOMAIN targets : targets[i] = key}

\* pair_by_key: for every base key the first target of that key that no
\* earlier one has consumed, or 0.
FreeTarget(matches, key, targets) ==
    {i \in DOMAIN targets : targets[i] = key /\ \A j \in DOMAIN matches : matches[j] # i}

PairByKey(bases, targets) ==
    LET matches[n \in 0..Len(bases)] ==
          IF n = 0 THEN <<>>
          ELSE LET free == FreeTarget(matches[n - 1], bases[n], targets)
               IN Append(matches[n - 1], IF free = {} THEN 0 ELSE Min(free))
    IN matches[Len(bases)]

\* A game object's components but its own transform, by label and occurrence.
OwnTransform(f, p, self) == p = self /\ f[p].class \in TransformClasses
Components(f, self) == f[f[self].go].components
Listed(f, self) ==
    {i \in DOMAIN Components(f, self) : ~OwnTransform(f, Components(f, self)[i], self)}

ComponentKey(f, self, i) ==
    LET label == f[Components(f, self)[i]].label
        Before == {j \in Listed(f, self) : j < i /\ f[Components(f, self)[j]].label = label}
    IN <<label, Cardinality(Before)>>

CollectComponents(f, self) ==
    [k \in {ComponentKey(f, self, i) : i \in Listed(f, self)} |->
       Components(f, self)[CHOOSE i \in Listed(f, self) : ComponentKey(f, self, i) = k]]

ComponentRows(b, p, t, q) == RowsByKey(b, CollectComponents(b, p), t, CollectComponents(t, q))

-----------------------------------------------------------------------------
\* loose.rs: the objects no walk covered, by label and name.  The only object
\* of its class on either side needs no name, a nameless one goes by its path
\* id, and of two with one key the later stays.
OfClass(f, loose, class) == {p \in loose : f[p].class = class}

LooseKey(f, p, singleton) ==
    CASE singleton          -> <<f[p].label, Blank, Null>>
      [] f[p].name = Blank  -> <<f[p].label, Blank, p>>
      [] OTHER              -> <<f[p].label, f[p].name, Null>>

LooseItems(f, loose, singletons) ==
    LET KeyOf(p) == LooseKey(f, p, f[p].class \in singletons)
    IN [k \in {KeyOf(p) : p \in loose} |-> Max({p \in loose : KeyOf(p) = k})]

DiffLoose(b, t, covered) ==
    LET bl == DOMAIN b \ covered.base
        tl == DOMAIN t \ covered.target
        singletons == {b[p].class : p \in bl} \cap {t[q].class : q \in tl}
        alone == {c \in singletons : /\ Cardinality(OfClass(b, bl, c)) = 1
                                     /\ Cardinality(OfClass(t, tl, c)) = 1}
        bs == LooseItems(b, bl, alone)
        ts == LooseItems(t, tl, alone)
    IN RowsByKey(b, bs, t, ts)

-----------------------------------------------------------------------------
\* class_stats.rs.
ClassesOf(f) == {f[p].class : p \in DOMAIN f}
CountOf(f, class) == Cardinality(OfClass(f, DOMAIN f, class))

ClassRow(b, t, c) ==
    Row(<<"class", c>>, "class-stat",
        CASE c \notin ClassesOf(t) -> "added"
          [] c \notin ClassesOf(b) -> "removed"
          [] OTHER                 -> "changed", {})

DiffClassStats(b, t) ==
    Section("class-stats",
            {ClassRow(b, t, c) :
               c \in {c \in ClassesOf(b) \cup ClassesOf(t) : CountOf(b, c) # CountOf(t, c)}})
=============================================================================
