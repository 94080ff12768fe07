----------------------------- MODULE PageAnswers -----------------------------
(* What the structured routes answer, as a function of the request and of    *)
(* the manifests that were read for it (backend/src/routes/structured.rs,    *)
(* routes/diff/structured/mod.rs and node.rs).  The trees themselves are     *)
(* built by transform: here they are operators, given in StructuredTrees.    *)
EXTENDS DiffRows

CONSTANTS Versions,      \* manifests
          ContentIn,     \* manifest -> path -> its content, for the paths it has
          KindOf,        \* path -> "unity", "bundle", "dll" or "other"
          Opening,       \* manifests that open
          UnityVersions, \* manifests with a Unity data directory
          NoVersion,
          DiffTree(_, _, _), \* kind, base and target content -> the rows of their diff
          DeepTree(_, _),    \* two assemblies -> the verdict of the deep filter
          FileTree(_, _),    \* kind, content -> the rows of one file
          TypesIn(_)         \* assembly -> the names of its types

ASSUME PagesAssumption ==
    /\ Opening \subseteq Versions /\ UnityVersions \subseteq Versions
    /\ NoVersion \notin Versions

Routes == {"tree", "node", "diff", "diffNode", "deepDll"}
OneVersion == {"tree", "node"}

NoAnswer == [is |-> "nothing"]
Refused(why) == [is |-> why]
Tree(t) == [is |-> "tree", tree |-> t]

\* A body is, per side, the object or type dumped and where it was read.
Body(texts) == [is |-> "body", texts |-> texts]
NoText == [of |-> NoVersion, what |-> NoDump]

-----------------------------------------------------------------------------
\* A request: [route, versions, path, node].
KindAsked(q) == KindOf[q.path]
Unity(q) == KindAsked(q) \in {"unity", "bundle"}

\* The object or type of one side that a row's id stands for.
NodeIdOf(kind, id, s) ==
    IF (kind = "bundle") # IsArchiveId(id) THEN NoDump ELSE Dumps(id)[s]

TypeOf(id, s) ==
    LET ids == SplitDiffId(id)
    IN IF ids[s] # NoId /\ Head(ids[s]) = "type" THEN Tail(ids[s]) ELSE NoId

\* The sides that a request reads.  No file of another kind has bodies.
Wants(q, s) ==
    IF q.route # "diffNode" THEN s = "base" \/ q.route \notin OneVersion
    ELSE CASE KindAsked(q) = "other" -> FALSE
           [] KindAsked(q) = "dll"   -> TypeOf(q.node, s) # NoId
           [] OTHER             -> NodeIdOf(KindAsked(q), q.node, s) # NoDump

\* A row of a tree that has no body is not looked up.
Bodiless(q) == q.route = "node" /\ NodeIdOf(KindAsked(q), q.node, "base") = NoDump

\* The deep filter asks for assemblies only, and a page for the bodies of the
\* tree it shows.  An assembly's own tree and its bodies are not modelled.
LegalPage(q) ==
    /\ q.route \in Routes /\ q.versions \in [Sides -> Versions]
    /\ q.route = "deepDll" => KindAsked(q) = "dll"
    /\ q.route = "tree" => KindAsked(q) # "dll"
    /\ q.route = "node" => Unity(q) /\ \A s \in Sides : Dumps(q.node)[s] = NodeIdOf(KindAsked(q), q.node, "base")

\* The body of a Unity row is read under the path as asked when the manifest
\* has no corresponding file, and fails then; who wants the file itself has
\* to find one.
HasFile(q, s) == q.path \in DOMAIN ContentIn[q.versions[s]]
Opens(q, s) == q.versions[s] \in Opening
Finds(q, s) == (q.route = "diffNode" /\ Unity(q)) \/ HasFile(q, s)
OpenFailure(q, s) == Refused(IF Opens(q, s) THEN "not found" ELSE "upstream")

-----------------------------------------------------------------------------
\* read is the manifest that each side's data came from.
Content(q, read, s) == ContentIn[read[s]][q.path]

DiffPage(q, read) ==
    Tree(DiffTree(KindAsked(q), Content(q, read, "base"), Content(q, read, "target")))
DeepPage(q, read) == Tree(DeepTree(Content(q, read, "base"), Content(q, read, "target")))
TreePage(q, read) == Tree(FileTree(KindAsked(q), Content(q, read, "base")))

HasObject(content, kind, dump) ==
    IF kind = "unity" THEN dump.pid \in DOMAIN content
    ELSE /\ dump.entry \in DOMAIN content
         /\ content[dump.entry].kind = "serialized"
         /\ dump.pid \in DOMAIN content[dump.entry].file

\* The text of the object that a row stands for on one side, if the manifest
\* that was read has it.
Dumped(q, read, s, dump) ==
    IF dump # NoDump /\ HasFile(q, s) /\ HasObject(Content(q, read, s), KindAsked(q), dump)
    THEN [of |-> read[s], what |-> dump] ELSE NoText

\* A serialized file's body fails with either side; a bundle's rows may name
\* no side, so there a side that fails has no text.
UnityBodyPage(q, read) ==
    LET texts == [s \in Sides |-> Dumped(q, read, s, NodeIdOf(KindAsked(q), q.node, s))]
    IN IF KindAsked(q) = "unity" /\ \E s \in Sides : Wants(q, s) /\ texts[s] = NoText
       THEN Refused("internal")
       ELSE IF \A s \in Sides : texts[s] = NoText THEN Refused("bad request")
       ELSE Body(texts)

DllBodyPage(q, read) ==
    IF \E s \in Sides : Wants(q, s) /\ TypeOf(q.node, s) \notin TypesIn(Content(q, read, s))
    THEN Refused("internal")
    ELSE Body([s \in Sides |->
           IF ~Wants(q, s) THEN NoText
           ELSE [of |-> read[s], what |-> [entry |-> TypeOf(q.node, s), pid |-> 0]]])

NodePage(q, read) ==
    LET dump == NodeIdOf(KindAsked(q), q.node, "base")
        text == [of |-> read["base"], what |-> dump]
    IN IF HasObject(Content(q, read, "base"), KindAsked(q), dump)
       THEN Body([s \in Sides |-> IF s = "base" THEN text ELSE NoText])
       ELSE Refused("internal")

EmptyPage == Body([s \in Sides |-> NoText])

-----------------------------------------------------------------------------
(* What a page may be answered: a function of its own request.  Only when    *)
(* the manifests of both sides fail to open may the order in which they do   *)
(* show: the first failure is the answer.                                    *)
Wanted(q) == {s \in Sides : Wants(q, s)}
SidesFailing(q) == {s \in Wanted(q) : ~(Opens(q, s) /\ Finds(q, s))}

\* The base is opened first for a Unity body, so its failure hides the other.
Reported(q) ==
    IF q.route = "diffNode" /\ Unity(q) /\ "base" \in SidesFailing(q) THEN {"base"} ELSE SidesFailing(q)

\* Every side's data is that of the manifest it was asked of.
AnswerTo(q) ==
    CASE q.route = "diff"    -> DiffPage(q, q.versions)
      [] q.route = "deepDll" -> DeepPage(q, q.versions)
      [] q.route = "tree"    -> TreePage(q, q.versions)
      [] q.route = "node"    -> NodePage(q, q.versions)
      [] q.route = "diffNode" /\ Unity(q)  -> UnityBodyPage(q, q.versions)
      [] q.route = "diffNode" /\ ~Unity(q) -> DllBodyPage(q, q.versions)

Outcomes(q) ==
    IF SidesFailing(q) # {} THEN {OpenFailure(q, s) : s \in Reported(q)}
    ELSE IF KindAsked(q) = "other" THEN {Refused("unsupported")}
    ELSE IF Wanted(q) = {} THEN {Refused("bad request")}
    ELSE IF Bodiless(q) THEN {EmptyPage}
    ELSE IF Unity(q) /\ \E s \in Wanted(q) : q.versions[s] \notin UnityVersions
    THEN {Refused("unsupported")}
    ELSE {AnswerTo(q)}
=============================================================================
