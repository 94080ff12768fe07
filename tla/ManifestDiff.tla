--------------------------- MODULE ManifestDiff ---------------------------
(* backend/src/routes/diff/manifest.rs: which paths of a base manifest      *)
(* differ from other manifests (manifest_diff, file_diff_targets,           *)
(* manifest_diff_targets), and the sweep that drops changed files whose     *)
(* structured diff is empty (manifest_diff_deep).  A file carries its path, *)
(* `id` (its ContentId), `norm` (what its structured diff compares), `kind` *)
(* (who transforms it), its size, and whether it is a directory or a link.  *)
EXTENDS PlatformPaths

CONSTANTS
    Ref,          \* manifests, by depot and manifest id
    FilesOf,      \* the files of each, in the manifest's order
    UnityGame,    \* the manifests that are unity games
    Permits,      \* 8: manifests opened, files diffed at once
    ChunkLen,     \* CHECKPOINT_LEN: 32
    CacheLimit,   \* CACHE_BYTES_LIMIT, in files
    NoMap         \* None of in_every_other

Kind == {"plain", "dll", "unity"}
Route == {"diff", "file", "targets", "deep"}

\* The files of all manifests, their keys, and the rows of files that may be
\* in every other manifest.
AllFiles == UNION {FilesIn(FilesOf[r]) : r \in Ref}
AllKeys == {PairKey(f.path) : f \in AllFiles}
Extras == {[path |-> f.path, size |-> f.size] : f \in AllFiles}

ASSUME DiffAssumption ==
    /\ \A r \in Ref :
          /\ Len(FilesOf[r]) \in Nat /\ DOMAIN FilesOf[r] = 1 .. Len(FilesOf[r])
          /\ \A i \in DOMAIN FilesOf[r] : FilesOf[r][i].path \in Path
    /\ ChunkLen \in Nat \ {0} /\ CacheLimit \in Nat
    /\ \A keys \in SUBSET AllKeys : NoMap \notin [keys -> Extras]

VARIABLES
    req,        \* the request: route, base, others, path, query
    phase,      \* where its handler is
    waiting,    \* others whose open has no permit yet
    opening,    \* others being opened
    heard,      \* others that were opened (history)
    refused,    \* others that could not be opened (history)
    changed,    \* manifest_diff: paths that differ from some other
    absent,     \* manifest_diff: paths no other so far has
    every,      \* in_every_other
    status,     \* file_diff_targets: the answer per other
    matching    \* manifest_diff_targets

VARIABLES
    todo,       \* deep: changed candidates not in a chunk yet
    chunk,      \* of the current chunk, without a permit
    work,       \* being diffed
    kept,       \* Kept and Errored paths
    errored,    \* Errored paths
    done,       \* files with a verdict, as last told by `progress`
    loaded,     \* files parsed into the private environments
    swept       \* the chunk's checkpoint has been passed

collectVars == <<waiting, opening, heard, refused, changed, absent, every,
                 status, matching>>
sweepVars == <<todo, chunk, work, kept, errored, done, loaded, swept>>
diffVars == <<req, phase, collectVars, sweepVars>>

Base == FilesOf[req.base]

-----------------------------------------------------------------------------
(* One other against the base.                                              *)

\* Base files whose partner has other content.
DiffersFrom(r) ==
    {f \in InBoth(Base, FilesOf[r]) : f.id # Partner(f, FilesOf[r]).id}

\* The changed paths of one round.
ChangedIn(r) == {f.path : f \in DiffersFrom(r)}

\* Paths the other lacks.
AbsentIn(r) == {f.path : f \in OnlyIn(Base, FilesOf[r])}

\* other_only: its files the base lacks, by key.
ExtraIn(r) ==
    LET m == FilesOf[r]
    IN  [k \in {PairKey(f.path) : f \in OnlyIn(m, Base)} |->
            [path |-> ByKey(m, k).path, size |-> ByKey(m, k).size]]

\* Mutant: keys of the newest other are taken in.
Retained(r) == [k \in DOMAIN ExtraIn(r) |-> ExtraIn(r)[k]]

\* in_every_other after one more: the first other's files, as far as each
\* later one has them too.
StillExtra(r) ==
    IF every = NoMap THEN ExtraIn(r)
    ELSE [k \in DOMAIN every \cap DOMAIN ExtraIn(r) |-> every[k]]

\* What file_diff_targets says of one other: the file at the path, or its
\* counterpart, in both.
FileStatus(r) ==
    LET mine == Corresponding(Base, req.path)
        its  == Corresponding(FilesOf[r], req.path)
    IN  IF its = {} THEN IF mine = {} THEN "same" ELSE "missing"
        ELSE IF mine = {} THEN "different"
        ELSE IF FindCorresponding(Base, req.path).id
                  = FindCorresponding(FilesOf[r], req.path).id
        THEN "same" ELSE "different"

\* Whether a path the query matches differs, or is on one side only.
HasDiff(r) ==
    \/ ChangedIn(r) \cap req.query # {}
    \/ AbsentIn(r) \cap req.query # {}
    \/ \E f \in OnlyIn(FilesOf[r], Base) : f.path \in req.query

-----------------------------------------------------------------------------
\* open_manifests_concurrently: every distinct ref once, the base excluded
\* except for file_diff_targets.
ToOpen == {req.others[i] : i \in DOMAIN req.others}
          \ (IF req.route = "file" THEN {} ELSE {req.base})

DiffInit ==
    /\ phase = "base"
    /\ waiting = {} /\ opening = {} /\ heard = {} /\ refused = {}
    /\ changed = {} /\ absent = {} /\ every = NoMap
    /\ status = <<>> /\ matching = {}
    /\ todo = <<>> /\ chunk = {} /\ work = {}
    /\ kept = {} /\ errored = {} /\ done = 0 /\ loaded = 0 /\ swept = TRUE

\* An open or a diff fails and the handler returns the error: `?`.
Abort ==
    /\ phase' = "failed"
    /\ UNCHANGED <<req, collectVars, sweepVars>>

\* The base is opened, and the others are asked for.
OpenBase ==
    /\ phase = "base"
    /\ req.route \in Route \ {"deep"}
    /\ phase' = "collect"
    /\ waiting' = ToOpen
    /\ absent' = {f.path : f \in FilesIn(Base)}
    /\ UNCHANGED <<req, opening, heard, refused, changed, every, status,
                   matching, sweepVars>>

BaseFails == phase \in {"base", "target"} /\ req.route \in Route /\ Abort

\* One of the opens gets a permit.
Open(r) ==
    /\ phase = "collect"
    /\ r \in waiting
    /\ Cardinality(opening) < Permits
    /\ waiting' = waiting \ {r}
    /\ opening' = opening \cup {r}
    /\ UNCHANGED <<req, phase, heard, refused, changed, absent, every, status,
                   matching, sweepVars>>

\* An open is done, in whatever order, and the handler's loop takes it.
Answered(r) ==
    /\ phase = "collect"
    /\ r \in opening
    /\ opening' = opening \ {r}
    /\ UNCHANGED <<req, phase, waiting, sweepVars>>

DiffAnswer(r) ==
    /\ req.route = "diff"
    /\ Answered(r)
    /\ heard' = heard \cup {r}
    /\ changed' = changed \cup ChangedIn(r)
    /\ absent' = absent \cap AbsentIn(r)
    /\ every' = StillExtra(r)
    /\ UNCHANGED <<refused, status, matching>>

\* `result?`: one other that cannot be opened ends the diff.
DiffRefused(r) ==
    /\ req.route = "diff"
    /\ phase = "collect"
    /\ r \in opening
    /\ Abort

FileAnswer(r) ==
    /\ req.route = "file"
    /\ Answered(r)
    /\ heard' = heard \cup {r}
    /\ status' = [x \in DOMAIN status \cup {r} |->
                    IF x = r THEN FileStatus(r) ELSE status[x]]
    /\ UNCHANGED <<refused, changed, absent, every, matching>>

\* "Treat a fetch error as `different`".
StatusRefused(r) == [x \in DOMAIN status \cup {r} |->
                       IF x = r THEN "different" ELSE status[x]]

FileRefused(r) ==
    /\ req.route = "file"
    /\ Answered(r)
    /\ refused' = refused \cup {r}
    /\ status' = StatusRefused(r)
    /\ UNCHANGED <<heard, changed, absent, every, matching>>

TargetsAnswer(r) ==
    /\ req.route = "targets"
    /\ Answered(r)
    /\ heard' = heard \cup {r}
    /\ matching' = IF HasDiff(r) THEN matching \cup {r} ELSE matching
    /\ UNCHANGED <<refused, changed, absent, every, status>>

TargetsRefused(r) ==
    /\ req.route = "targets"
    /\ Answered(r)
    /\ refused' = refused \cup {r}
    /\ matching' = matching \cup {r}
    /\ UNCHANGED <<heard, changed, absent, every, status>>

Collected ==
    /\ phase = "collect"
    /\ req.route \in Route
    /\ waiting = {} /\ opening = {}
    /\ phase' = "sent"
    /\ UNCHANGED <<req, collectVars, sweepVars>>

EntryRow(p, s, size) == [path |-> p, status |-> s, size |-> size]

\* The response of manifest_diff: `Changed` wins over `Added`.
Entries ==
    {EntryRow(p, "changed", 0) : p \in changed}
    \cup {EntryRow(p, "added", 0) : p \in absent \ changed}
    \cup (IF every = NoMap THEN {}
          ELSE {EntryRow(every[k].path, "removed", every[k].size) : k \in DOMAIN every})

-----------------------------------------------------------------------------
(* manifest_diff_deep.                                                      *)

Target == req.others[1]

\* The positions of the changed candidates, in the base's order.
Candidate == {i \in FileAt(Base) : Base[i] \in DiffersFrom(Target)}

\* Both sides are open: the candidates are listed, and the environments are
\* built if one of them needs them.
Prepare ==
    /\ phase = "target"
    /\ todo' = [n \in 1 .. Cardinality(Candidate) |->
                   CHOOSE i \in Candidate :
                      Cardinality({j \in Candidate : j < i}) = n - 1]
    /\ phase' = IF \E i \in Candidate :
                      Base[i].kind = "unity" /\ ~ {req.base, Target} \subseteq UnityGame
                THEN "failed" ELSE "sweep"
    /\ UNCHANGED <<req, collectVars, chunk, work, kept, errored, done, loaded, swept>>

\* The base is opened first, the target next.
OpenDeepBase ==
    /\ phase = "base"
    /\ req.route = "deep"
    /\ phase' = "target"
    /\ UNCHANGED <<req, collectVars, sweepVars>>

ChunkSize == IF Len(todo) < ChunkLen THEN Len(todo) ELSE ChunkLen

\* The next chunk's futures are made.
NextChunk ==
    /\ phase = "sweep"
    /\ swept
    /\ todo # <<>>
    /\ chunk' = {todo[n] : n \in 1 .. ChunkSize}
    /\ todo' = SubSeq(todo, ChunkSize + 1, Len(todo))
    /\ swept' = FALSE
    /\ UNCHANGED <<req, phase, collectVars, work, kept, errored, done, loaded>>

\* A file's future gets its permit.
Begin(i) ==
    /\ phase = "sweep"
    /\ i \in chunk
    /\ Cardinality(work) < Permits
    /\ chunk' = chunk \ {i}
    /\ work' = work \cup {i}
    /\ UNCHANGED <<req, phase, collectVars, todo, kept, errored, done, loaded, swept>>

\* Whether the structured diff of a candidate has changes: the deep diff looks
\* its counterpart up again, by path.
Differs(i) ==
    \/ Base[i].kind = "plain"
    \/ Base[i].norm # FindCorresponding(FilesOf[Target], Base[i].path).norm

\* Mutant: an error is a verdict like any other.
TaintsNothing(i) == errored

\* An errored file taints the response.
Tainted(i) == errored \cup {Base[i].path}

\* The verdict of one file is taken from the stream, and told.
Judged(i) ==
    /\ phase = "sweep"
    /\ i \in work
    /\ work' = work \ {i}
    /\ done' = done + 1
    /\ loaded' = IF Base[i].kind = "unity" THEN loaded + 1 ELSE loaded
    /\ UNCHANGED <<req, phase, collectVars, todo, chunk, swept>>

Verdict(i) ==
    /\ Judged(i)
    /\ kept' = IF Differs(i) THEN kept \cup {Base[i].path} ELSE kept
    /\ UNCHANGED errored

\* Mutant: an errored file is dropped like an unchanged one.
DroppedErrored(i) == kept

\* It stays `changed`.
KeptErrored(i) == kept \cup {Base[i].path}

\* The diff of a comparable file fails.
Errored(i) ==
    /\ Base[i].kind # "plain"
    /\ Judged(i)
    /\ kept' = KeptErrored(i)
    /\ errored' = Tainted(i)

\* cached_bytes and evict_cache.
AfterCheckpoint == IF loaded > CacheLimit THEN 0 ELSE loaded

\* A drained chunk: measure the environments and evict them when large.
Checkpoint ==
    /\ phase = "sweep"
    /\ ~swept
    /\ chunk = {} /\ work = {}
    /\ loaded' = AfterCheckpoint
    /\ swept' = TRUE
    /\ UNCHANGED <<req, phase, collectVars, todo, chunk, work, kept, errored, done>>

Swept ==
    /\ phase = "sweep"
    /\ swept /\ todo = <<>>
    /\ phase' = "sent"
    /\ UNCHANGED <<req, collectVars, sweepVars>>

\* The response of the deep diff.
DeepEntries ==
    {EntryRow(p, "added", 0) : p \in AbsentIn(Target)}
    \cup {EntryRow(p, "changed", 0) : p \in kept}
    \cup {EntryRow(f.path, "removed", f.size) : f \in OnlyIn(FilesOf[Target], Base)}

\* ImmutableCache rather than CacheSeconds(0).
Immutable == errored = {}

DiffNext ==
    \/ OpenBase \/ BaseFails \/ Collected
    \/ \E r \in Ref : \/ Open(r)
                      \/ DiffAnswer(r) \/ DiffRefused(r)
                      \/ FileAnswer(r) \/ FileRefused(r)
                      \/ TargetsAnswer(r) \/ TargetsRefused(r)
    \/ OpenDeepBase \/ Prepare \/ NextChunk \/ Checkpoint \/ Swept
    \/ \E i \in work \cup chunk : Begin(i) \/ Verdict(i) \/ Errored(i)
-----------------------------------------------------------------------------
DiffTypeOK ==
    /\ waiting \subseteq Ref /\ opening \subseteq Ref \ waiting
    /\ heard \subseteq Ref /\ refused \subseteq Ref
    /\ changed \subseteq {f.path : f \in FilesIn(Base)}
    /\ absent \subseteq {f.path : f \in FilesIn(Base)}
    /\ DOMAIN status \subseteq Ref
    /\ matching \subseteq Ref
    /\ chunk \cup work \subseteq FileAt(Base)
    /\ errored \subseteq kept
    /\ done \in Nat /\ loaded \in Nat /\ swept \in BOOLEAN

\* The manifests a diff compares the base with.
Compared == {req.others[i] : i \in DOMAIN req.others} \ {req.base}

\* No manifest of the request has two files of one pair key.
AllUnambiguous == \A r \in Compared \cup {req.base} : Unambiguous(FilesOf[r])

\* No folder of one stands where another has a file, its build target aside.
FoldersApart ==
    \A r, s \in Compared \cup {req.base} :
        \A i \in DOMAIN FilesOf[r], f \in FilesIn(FilesOf[s]) :
            PairKey(FilesOf[r][i].path) = PairKey(f.path) => ~ FilesOf[r][i].dir

\* "the same asset of a Linux and a Windows depot sits at different paths"
\* (platform_paths.rs:3): the paths differ in the folder after the first "/aa/"
\* alone, where either names a build target.
SwapsTarget(p, q) ==
    /\ Len(p) = Len(q)
    /\ \E i \in 3 .. Len(p) - 1 :
          /\ p[i - 1] = AA
          /\ \A j \in 2 .. i - 2 : p[j] # AA
          /\ p[i] \in BuildTarget /\ q[i] \in BuildTarget
          /\ \A j \in DOMAIN p \ {i} : p[j] = q[j]

\* The files of two manifests that stand for one.
Same(f, g) == f.path = g.path \/ SwapsTarget(f.path, g.path)
Has(r, f) == \E g \in FilesIn(FilesOf[r]) : Same(f, g)

\* "`Changed` (differs from some `other`), `Added` (absent from every
\* `other`), or `Removed` (in every `other`, in no `base`)" (71), in
\* whatever order the others answer: the fold over the answers is the
\* comparison of all of them.  A removed file is shown as some other has it.
DiffRight ==
    phase = "sent" /\ req.route = "diff" /\ AllUnambiguous =>
        LET alters(f) == \E r \in Compared : \E g \in FilesIn(FilesOf[r]) :
                            Same(f, g) /\ f.id # g.id
            new(f)  == \A r \in Compared : ~Has(r, f)
            lost(g) == (\A r \in Compared : Has(r, g)) /\ ~Has(req.base, g)
            everyOther == UNION {FilesIn(FilesOf[r]) : r \in Compared}
            gone == {e \in Entries : e.status = "removed"}
        IN  /\ Entries \ gone =
                  {EntryRow(f.path, "changed", 0) : f \in {f \in FilesIn(Base) : alters(f)}}
                  \cup {EntryRow(f.path, "added", 0) :
                           f \in {f \in FilesIn(Base) : new(f) /\ ~alters(f)}}
            /\ \A g \in everyOther : lost(g) => \E e \in gone : Same(e, g)
            /\ \A e \in gone :
                  /\ \E g \in everyOther :
                        lost(g) /\ g.path = e.path /\ g.size = e.size
                  /\ \A d \in gone : Same(d, e) => d = e

\* The page of one file and the page of a manifest agree on a file of the
\* base: missing where the diff has it added, different where it has it changed
\* or the other cannot be opened (260).
FilesAgree ==
    phase = "sent" /\ req.route = "file" /\ AllUnambiguous /\ FoldersApart =>
        /\ DOMAIN status = {req.others[i] : i \in DOMAIN req.others}
        /\ req.path \in {f.path : f \in FilesIn(Base)} =>
              \A r \in DOMAIN status :
                 status[r] = IF r \in refused \/ req.path \in ChangedIn(r)
                             THEN "different"
                             ELSE IF req.path \in AbsentIn(r) THEN "missing"
                             ELSE "same"

\* "Like `/manifests/diff` but answers yes/no per target" (303): a target is
\* listed when it cannot be opened, or when some matching path is not paired
\* with equal content on the two sides.
TargetsAgree ==
    phase = "sent" /\ req.route = "targets" /\ AllUnambiguous =>
        matching = refused \cup
            {r \in Compared :
                \E p \in req.query :
                   LET f == {g \in FilesIn(Base) : g.path = p}
                       o == {g \in FilesIn(FilesOf[r]) : g.path = p}
                   IN  \/ \E x \in f : ~ \E g \in FilesIn(FilesOf[r]) :
                                            Same(x, g) /\ x.id = g.id
                       \/ \E x \in o : ~Has(req.base, x)}

\* Each of the three routes answers what it documents.
AnswersRight == DiffRight /\ FilesAgree /\ TargetsAgree

\* The rows the deep diff owes to the manifests alone.
PureEntries ==
    LET old == FilesIn(FilesOf[Target])
        noisy(f, g) == f.kind # "plain" /\ f.norm = g.norm
    IN  {EntryRow(f.path, "added", 0) : f \in {f \in FilesIn(Base) : ~Has(Target, f)}}
        \cup {EntryRow(f.path, "changed", 0) :
                 f \in {f \in FilesIn(Base) :
                          \E g \in old : Same(f, g) /\ f.id # g.id /\ ~noisy(f, g)}}
        \cup {EntryRow(g.path, "removed", g.size) : g \in {g \in old : ~Has(req.base, g)}}

\* "Served `immutable` because the response is a pure function of the two
\* manifests - unless any per-file diff errored" (409): whatever order the
\* chunks' files finish in, what is cached for good is that function, and
\* what is not has every row of it.  The sweep says it is done when it is, and
\* parses no more than a chunk past the cache's limit (471-473).
DeepRight ==
    /\ req.route = "deep" => loaded <= CacheLimit + ChunkLen
    /\ phase = "sent" /\ req.route = "deep" /\ AllUnambiguous /\ FoldersApart =>
          /\ Immutable => DeepEntries = PureEntries
          /\ PureEntries \subseteq DeepEntries
          /\ done = Cardinality(Candidate)

-----------------------------------------------------------------------------
(* Statements of comments that the code does not keep.                      *)

\* "the file's size in the first `other` carrying the path" (53): it is that
\* of the first other to answer.
RemovedOfFirst ==
    phase = "sent" /\ req.route = "diff" =>
        \A e \in Entries : e.status = "removed" =>
            LET has == {i \in DOMAIN req.others :
                          \E g \in FilesIn(FilesOf[req.others[i]]) :
                             PairKey(g.path) = PairKey(e.path)}
                first == CHOOSE i \in has : \A j \in has : i <= j
            IN  \E g \in FilesIn(FilesOf[req.others[first]]) :
                   g.path = e.path /\ g.size = e.size

\* "identity is the content sha" (71): a file of the same path and content in
\* every other is no change.  With two files of one pair key, it is one.
SameIsUnchanged ==
    phase = "sent" /\ req.route = "diff" =>
        \A f \in FilesIn(Base) :
            (\A r \in Compared : f \in FilesIn(FilesOf[r]))
                => EntryRow(f.path, "changed", 0) \notin Entries
=============================================================================
