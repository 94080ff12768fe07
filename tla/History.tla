------------------------------ MODULE History ------------------------------
(* backend/src/history.rs and routes/history.rs: the history of one file,   *)
(* or of one node of its structured tree, over a set of versions, and the   *)
(* history of the versions themselves.  A tree is taken as the logical      *)
(* nodes that the structured diff pairs; each has an id and a content per   *)
(* version.  The other requests that compare manifests are ManifestDiff's.  *)
EXTENDS ManifestDiff

CONSTANTS
    Time,       \* creation_time of each manifest
    Node,       \* logical nodes of the file's trees
    IdOf,       \* [Ref -> [Node -> id, or NoNode where there is no such node]]
    BodyOf,     \* [Ref -> [Node -> what the diff compares]]
    NoNode        \* no node: an untracked version, or file-level history

ASSUME TimeAssumption == \A r \in Ref : Time[r] \in Nat

HistoryRoute == {"history", "versions"}

VARIABLES
    versions,   \* the manifests opened so far; sorted once all are
    asked,      \* previous versions opened or skipped so far
    nodes,      \* node_ids
    outcomes,   \* of the pairs compared so far, by the newer one's position
    told        \* the progress last sent

historyVars == <<versions, asked, nodes, outcomes, told>>
allVars == <<diffVars, historyVars>>

HistoryInit == versions = <<>> /\ asked = 0 /\ nodes = <<>> /\ outcomes = <<>> /\ told = 0

\* The position of an element after a stable sort by descending time.
Rank(s, i) == Cardinality({j \in DOMAIN s :
                             \/ Time[s[j]] > Time[s[i]]
                             \/ Time[s[j]] = Time[s[i]] /\ j <= i})

\* versions.sort_by_key(Reverse(creation_time)).
NewestFirst(s) == [k \in DOMAIN s |-> s[CHOOSE i \in DOMAIN s : Rank(s, i) = k]]

\* The current manifest's place in the sorted list.
CurrentAt == CHOOSE i \in DOMAIN versions : versions[i] = req.base

\* The file a version has at a path: the first listed, of whatever kind.
FileOf(r, p) ==
    LET at == {i \in DOMAIN FilesOf[r] : FilesOf[r][i].path = p}
    IN  {FilesOf[r][i] : i \in {i \in at : \A j \in at : i <= j}}
FileIn(r) == FileOf(r, req.path)

\* DepotFile::sha: a link or a directory has none.
Sha(f) == IF f.dir \/ f.link THEN NoNode ELSE f.id

\* The current manifest must have the file, of whatever kind.
OpenCurrent ==
    /\ phase = "base"
    /\ req.route = "history"
    /\ phase' = IF FileIn(req.base) = {} THEN "failed" ELSE "previous"
    /\ versions' = <<req.base>>
    /\ UNCHANGED <<req, collectVars, sweepVars, asked, nodes, outcomes, told>>

\* An open, or a structured diff, fails and so does the request.
HistoryFails ==
    /\ req.route \in HistoryRoute
    /\ phase \in {"base", "previous", "walk"}
    /\ Abort
    /\ UNCHANGED historyVars

\* The previous versions are opened one after the other; the current one is
\* not opened again.
OpenPrevious ==
    /\ phase = "previous"
    /\ asked < Len(req.others)
    /\ asked' = asked + 1
    /\ versions' = IF req.others[asked + 1] = req.base THEN versions
                   ELSE Append(versions, req.others[asked + 1])
    /\ UNCHANGED <<req, phase, collectVars, sweepVars, nodes, outcomes, told>>

\* Newest first; the node is known in the current version only.
Sort ==
    /\ phase = "previous"
    /\ asked = Len(req.others)
    /\ versions' = NewestFirst(versions)
    /\ nodes' = [i \in DOMAIN versions |->
                   IF NewestFirst(versions)[i] = req.base THEN req.node ELSE NoNode]
    /\ phase' = "walk"
    /\ UNCHANGED <<req, collectVars, sweepVars, asked, outcomes, told>>

-----------------------------------------------------------------------------
(* One pair of consecutive versions: the newer at i, the older at i + 1.    *)

\* A row of build_structured_diff: unchanged nodes are pruned.
Rows(newer, older) ==
    {[base |-> IdOf[newer][n], target |-> IdOf[older][n],
      status |-> IF IdOf[older][n] = NoNode THEN "added"
                 ELSE IF IdOf[newer][n] = NoNode THEN "removed" ELSE "changed"] :
        n \in {n \in Node : BodyOf[newer][n] # BodyOf[older][n]}}

\* find_diff_node: the row of an id on the side it is known on.
RowOf(rows, id, side) ==
    {w \in rows : id = (IF side = "newer" THEN w.base ELSE w.target)}

Outcome(is, mapped) == [status |-> is, node |-> mapped]

\* What the structured diff says of the tracked node.
NodeOutcome(newer, older, id, side) ==
    LET rows == RowOf(Rows(newer, older), id, side)
        row  == CHOOSE w \in rows : TRUE
    IN  IF rows = {} THEN Outcome("unchanged", id)
        ELSE Outcome(row.status, IF side = "newer" THEN row.target ELSE row.base)

\* pair_transition, for a node known on one side or for the file alone.
Transition(i, id, side) ==
    LET newer == versions[i]
        older == versions[i + 1]
        same  == \A f \in FileIn(newer), g \in FileIn(older) : Sha(f) = Sha(g)
    IN  IF FileIn(newer) = {} THEN Outcome("missing", NoNode)
        ELSE IF FileIn(older) = {} THEN Outcome("added", NoNode)
        ELSE IF same THEN Outcome("unchanged", id)
        ELSE IF id = NoNode \/ \E f \in FileIn(newer) : f.kind = "plain"
        THEN Outcome("changed", NoNode)
        ELSE NodeOutcome(newer, older, id, side)

\* The positions of pairs compared so far.
PairsDone == {outcomes[k].at : k \in DOMAIN outcomes}

\* Mutant: the upward pass reads the node of the newer version.
KnownNewer(i) == nodes[i]

\* Where the upward pass knows the node: on the older side.
KnownOlder(i) == nodes[i + 1]

\* One step of the walk, its outcome kept and its progress told.
Compare(i, out, node_at) ==
    /\ outcomes' = Append(outcomes, [at |-> i, status |-> out.status])
    /\ nodes' = [nodes EXCEPT ![node_at] = out.node]
    /\ told' = told + 1
    /\ UNCHANGED <<req, phase, collectVars, sweepVars, versions, asked>>

\* Pairs above the current version, upwards.
Up ==
    /\ phase = "walk"
    /\ told < CurrentAt - 1
    /\ LET i == CurrentAt - 1 - told
       IN  Compare(i, Transition(i, KnownOlder(i), "older"), i)

\* Pairs at and below it, downwards.
Down ==
    /\ phase = "walk"
    /\ told >= CurrentAt - 1
    /\ told < Len(versions) - 1
    /\ LET i == told + 1
       IN  Compare(i, Transition(i, nodes[i], "newer"), i + 1)

WalkEnds ==
    /\ phase = "walk"
    /\ told = Len(versions) - 1
    /\ phase' = "sent"
    /\ UNCHANGED <<req, collectVars, sweepVars, historyVars>>

\* The status of a row of the response.
StatusAt(i) ==
    IF i \in PairsDone
    THEN outcomes[CHOOSE k \in DOMAIN outcomes : outcomes[k].at = i].status
    ELSE "initial"

-----------------------------------------------------------------------------
(* build_manifest_history.                                                  *)

\* The versions are opened together; each is listed when it answers.
OpenVersions ==
    /\ phase = "base"
    /\ req.route = "versions"
    /\ phase' = "collect"
    /\ waiting' = {req.others[i] : i \in DOMAIN req.others}
    /\ UNCHANGED <<req, opening, heard, refused, changed, absent, every, status,
                   matching, sweepVars, historyVars>>

VersionAnswer(r) ==
    /\ req.route = "versions"
    /\ Answered(r)
    /\ versions' = Append(versions, r)
    /\ UNCHANGED <<heard, refused, changed, absent, every, status, matching,
                   asked, nodes, outcomes, told>>

VersionRefused(r) ==
    /\ req.route = "versions"
    /\ phase = "collect"
    /\ r \in opening
    /\ Abort
    /\ UNCHANGED historyVars

ListVersions ==
    /\ phase = "collect"
    /\ req.route = "versions"
    /\ waiting = {} /\ opening = {}
    /\ versions' = NewestFirst(versions)
    /\ phase' = "sent"
    /\ UNCHANGED <<req, collectVars, sweepVars, asked, nodes, outcomes, told>>

\* A manifest's non-directory paths, and what is at each: the last one listed.
PathsOf(r) == {f.path : f \in FilesIn(FilesOf[r])}
ContentAt(r, p) ==
    LET at == {i \in FileAt(FilesOf[r]) : FilesOf[r][i].path = p}
    IN  FilesOf[r][CHOOSE i \in at : \A j \in at : j <= i].id

\* transition_counts: what is new is counted by entry, what is gone by path.
TransitionCounts(newer, older) ==
    LET mine == FileAt(FilesOf[newer])
        at(i) == FilesOf[newer][i]
    IN  [added   |-> Cardinality({i \in mine : at(i).path \notin PathsOf(older)}),
         removed |-> Cardinality(PathsOf(older) \ PathsOf(newer)),
         changed |-> Cardinality({i \in mine :
                        /\ at(i).path \in PathsOf(older)
                        /\ at(i).id # ContentAt(older, at(i).path)})]

-----------------------------------------------------------------------------
HistoryNext ==
    \/ OpenCurrent \/ HistoryFails \/ OpenPrevious \/ Sort
    \/ Up \/ Down \/ WalkEnds
    \/ OpenVersions \/ ListVersions
    \/ \E r \in Ref : VersionAnswer(r) \/ VersionRefused(r)

\* One request of any of the six routes.
CompareInit(requests) == req \in requests /\ DiffInit /\ HistoryInit

CompareNext == (DiffNext /\ UNCHANGED historyVars) \/ HistoryNext

CompareSpec(requests) == CompareInit(requests) /\ [][CompareNext]_allVars

\* "Identical content means the same tree" (288).
SameTrees(p) ==
    \A v, w \in Ref : \A f \in FileOf(v, p), g \in FileOf(w, p) :
        Sha(f) = Sha(g) => IdOf[v] = IdOf[w] /\ BodyOf[v] = BodyOf[w]

\* What a request can be: the deep diff has one target, and a file's history
\* is asked of a set of versions, and of a node of the file whose trees these
\* are.
Legal(q) ==
    /\ q.route \in Route \cup HistoryRoute
    /\ q.base \in Ref /\ q.others \in Seq(Ref)
    /\ q.path \in Path /\ q.query \subseteq Path
    /\ q.route = "deep" => Len(q.others) = 1
    /\ q.route = "history" =>
          /\ \A i, j \in DOMAIN q.others : q.others[i] = q.others[j] => i = j
          /\ q.node # NoNode => SameTrees(q.path)
-----------------------------------------------------------------------------
TypeOK ==
    /\ DiffTypeOK
    /\ phase \in {"base", "target", "collect", "sweep", "previous", "walk",
                  "sent", "failed"}
    /\ versions \in Seq(Ref) /\ asked \in Nat
    /\ told = Len(outcomes)
    /\ nodes # <<>> => Len(nodes) = Len(versions)

\* The version set of a request.
VersionSet == {req.base} \cup {req.others[i] : i \in DOMAIN req.others}

\* Its members in the only order their times allow.
DistinctTimes == \A v, w \in VersionSet : Time[v] = Time[w] => v = w
Older(v) == {w \in VersionSet : Time[w] < Time[v]}
NextOlder(v) == CHOOSE w \in Older(v) : \A x \in Older(v) : Time[x] <= Time[w]

\* A file's status from one version to the next older one (266-301).
FileChange(v) ==
    LET new == FileIn(v)
        old == FileIn(NextOlder(v))
    IN  IF Older(v) = {} THEN "initial"
        ELSE IF new = {} THEN "missing"
        ELSE IF old = {} THEN "added"
        ELSE IF {Sha(f) : f \in new} = {Sha(f) : f \in old} THEN "unchanged"
        ELSE "changed"

\* "the same manifest set always produces the same rows, whichever version the
\* history was opened from" (88-90): each version of the set has one row,
\* newest first, and a file's row depends on the two versions alone.
FileRowsRight ==
    phase = "sent" /\ req.route = "history" /\ DistinctTimes =>
        /\ {versions[i] : i \in DOMAIN versions} = VersionSet
        /\ Len(versions) = Cardinality(VersionSet)
        /\ \A i \in 1 .. Len(versions) - 1 : Time[versions[i]] > Time[versions[i + 1]]
        /\ req.node = NoNode =>
              \A i \in DOMAIN versions : StatusAt(i) = FileChange(versions[i])

\* An unchanged node keeps its id from version to version.
KeepsId(n) == \A v, w \in Ref : BodyOf[v][n] = BodyOf[w][n] => IdOf[v][n] = IdOf[w][n]

\* No other node of a version has a node's id.
OwnId(n) ==
    \A v \in Ref, m \in Node : IdOf[v][n] # NoNode /\ IdOf[v][m] = IdOf[v][n] => m = n

\* The node that was asked for.
Followed == {n \in Node : /\ req.node # NoNode /\ IdOf[req.base][n] = req.node
                          /\ KeepsId(n) /\ OwnId(n)}

\* The versions from the current one to i all have the node, in a file that has
\* a structured diff.
ContinuesTo(n, i) ==
    \A j \in DOMAIN versions :
        j \in i .. CurrentAt \/ j \in CurrentAt .. i =>
            /\ IdOf[versions[j]][n] # NoNode
            /\ \E f \in FileIn(versions[j]) : f.kind # "plain"

\* "the walk maps the node to every other version through the pairwise diffs,
\* up and down" (92-93): the id it has at a version is that of the node that
\* was asked for, and what it says of a pair of versions is what became of that
\* node, if unchanged nodes keep their ids and ids are not shared.
NodeFollowed ==
    phase \in {"walk", "sent"} /\ req.route = "history" =>
        \A n \in Followed :
            /\ \A i \in DOMAIN versions :
                  nodes[i] # NoNode => nodes[i] = IdOf[versions[i]][n]
            /\ \A i \in PairsDone :
                  nodes[i] # NoNode /\ nodes[i + 1] # NoNode =>
                     (StatusAt(i) = "unchanged"
                        <=> BodyOf[versions[i]][n] = BodyOf[versions[i + 1]][n])
            /\ \A i \in DOMAIN versions :
                  phase = "sent" /\ ContinuesTo(n, i) => nodes[i] # NoNode

\* No path of a manifest is listed twice.
ListedOnce(r) ==
    \A i, j \in FileAt(FilesOf[r]) : FilesOf[r][i].path = FilesOf[r][j].path => i = j

\* The counts of a version's row account for every path of the two versions
\* (412-415): what is left of the older one's paths and what is new make the
\* newer one, and no count is left only when nothing differs.
CountsRight ==
    phase = "sent" /\ req.route = "versions" =>
        \A i \in 1 .. Len(versions) - 1 :
            LET new == versions[i]
                old == versions[i + 1]
                c   == TransitionCounts(new, old)
            IN  /\ Time[new] >= Time[old]
                /\ ListedOnce(new) =>
                      Cardinality(PathsOf(new)) + c.removed
                          = Cardinality(PathsOf(old)) + c.added
                /\ ListedOnce(new) /\ ListedOnce(old) =>
                      ((c.added + c.removed + c.changed = 0) <=>
                         {<<f.path, f.id>> : f \in FilesIn(FilesOf[new])}
                            = {<<f.path, f.id>> : f \in FilesIn(FilesOf[old])})

\* Both histories are right.
HistoryRight == FileRowsRight /\ NodeFollowed /\ CountsRight

-----------------------------------------------------------------------------
(* Statements of comments that the code does not keep.                      *)

\* The same rows whichever version it was opened from (88-90), also when two
\* versions were created in the same second: the current one comes first.
OrderOfSet ==
    phase = "sent" /\ req.route = "history" =>
        versions = [k \in DOMAIN versions |->
                      CHOOSE v \in VersionSet :
                        Cardinality({w \in VersionSet :
                            \/ Time[w] > Time[v]
                            \/ Time[w] = Time[v] /\ w = CHOOSE x \in {v, w} : TRUE}) = k]

\* "Diffs omit unchanged subtrees, so no row means the node is unchanged" (305-306):
\* but its id can be another one on the other side.
AnyNodeFollowed ==
    phase = "sent" /\ req.route = "history" /\ DistinctTimes =>
        \A n \in Node : req.node # NoNode /\ IdOf[req.base][n] = req.node =>
            \A i \in DOMAIN versions :
                nodes[i] # NoNode => nodes[i] = IdOf[versions[i]][n]

\* "identity is the content sha or the symlink target" (415, of the manifest's
\* history): a file's history takes every two links for the same.
LinksDiffer ==
    phase = "sent" /\ req.route = "history" /\ req.node = NoNode =>
        \A i \in 1 .. Len(versions) - 1 :
            StatusAt(i) = "unchanged" =>
                {f.id : f \in FileIn(versions[i])}
                   = {f.id : f \in FileIn(versions[i + 1])}
=============================================================================
