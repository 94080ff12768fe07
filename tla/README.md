# Verification of steam-multiversion-viewer

TLA+ models of the backend of this repository, the TLC configurations that
check them, and TLAPS proofs about them.  Source paths are relative to the
repository's root; a bare file name is under `backend/src/`.

## 1. Inventory: the parts of the system

The program is a local server (axum on tokio) with a React front end.  It
lists the Steam games of an account, stores depot manifests and content-addressed
chunks on disk, fetches what is missing from Steam's CDN, mounts any version of
a game as a file system, exports versions, and diffs them.

| part | state it keeps | operations | what is hard |
|---|---|---|---|
| **Chunk service** `state/downloads.rs`, `steam/chunk_store.rs` | `pending` (chunk -> waiters), two job lanes, `inflight` (chunk -> watch channel), `stats`, `landing` batch | `enqueue`, `enqueue_and_wait`, dispatcher + semaphore, `fetch_via`/`lead_fetch`, `settle`, `flush_landing`, `cancel` | everything is concurrent; five locks, none held across another; futures can be dropped; a fetch can outlive the queue entry it was for |
| **Store index and model** `state/store_index.rs`, `state/store_model.rs`, `routes/store.rs`, `state/mod.rs` | `chunks_present`, `indexed_manifests`, cached `StoreModel`, manifests and chunk files on disk | `index_manifest`, `mark_chunk_present`, `build`, prune and delete routes, `open_manifest` | disk, index and model are three copies of one truth; prune deletes while downloads land |
| **Export** `state/export.rs`, `routes/export.rs` | `status`, `cancelled` flag, progress | `start`, `cancel`, the background run | a cancel that races the claim of the slot; stopping only between files |
| **Mount** `state/mount/`, `routes/mount.rs`, `main.rs`, `window.rs` | one slot: empty, Starting, Mounted (a reference to the back end), Stopping | `start`, `stop`, shutdown | start and stop race, process exit must unmount |
| **Login and session** `steam/auth.rs`, `steam/access.rs`, `steam/client.rs`, `routes/auth.rs` | the login status, a prompt channel for the guard code, the connection | login, code, logout, reconnect | logout while a login task runs; a stale task writing the status |
| **Manifest cache** `state/manifest_cache.rs` | the scratch space of the last few manifests: a Unity environment, probed once | `scratch`, `unity` | an entry that is evicted while a request holds it; who probes |
| **DLL references** `state/dll_refs.rs`, `crates/transform/src/dll/mod.rs`, `cache.rs` | a pool of assemblies, one directory of links per build with a marker, decompiled types on disk, lock stripes, warmers in flight | `ensure_refs`, decompile one type, warm all types | requests and warmers fill one cache; links fail one by one; a crash between link and marker |
| **Disk cache** `state/disk_cache.rs` | one file per key | read, write by rename | value and time are read apart |
| **Extra manifests** `state/extra_manifests.rs` | user-added manifests, in memory and on disk | set, remove, load | a save that fails |
| **Configuration** `config.rs` | settings file | load, save | - |
| **Events** `routes/events.rs` | broadcast channel per client | stream | a lagging client, a snapshot that races the stream, the batching of landings |
| **Library** `routes/library.rs`, `routes/extra_manifests.rs`, **preload** `preload.rs` | - | owned games, app information, manifest statuses, the data handed out with a page | a login that changes under a request; a store that changes between the reads of one answer |
| **Manifest diff** `routes/diff/manifest.rs`, `platform_paths.rs`, **history** `history.rs`, `routes/history.rs` | - | diff of one manifest with N others, status of a file in each, deep diff, history of a file or a node | others answer in any order; errors part-way; path correspondence across platforms; an environment replaced half-way |
| **Structured views** `routes/structured.rs`, `routes/diff/structured/*`, `routes/unity.rs` | - | trees, rows' bodies, diffs, diff rows' bodies | ids that a later request takes apart; two sides that open, probe and fail separately |
| **Unity diff, assembly diff** `crates/transform/src/unity`, `dll`, `crates/dll-diff` | - | pair two versions of a file, mark what differs | objects are renumbered by every build; tables are reordered |
| **Files, text views, game files, static files, window, HTTP plumbing** | - | request handlers | mostly I/O |
| **Front end** `frontend/` | view state | React components | - |

How they interact: HTTP handlers call the services behind `AppState`; every
read of a chunk, from whichever part, goes through one store stack
(`FsCacheStore -> TrackedChunkStore -> CDN`), so the chunk service is where the
parts meet.  Index, model and events hang off `settle`.  Export, files, history
and preload call `enqueue` and `enqueue_and_wait`; mount and the diff readers
read without enqueuing.  The comparing routes read manifests and files only;
what they share is the scratch spaces, the DLL caches on disk and the disk
cache.

## 2. The modules and how they correspond to the code

Every service keeps its shared state behind locks of its own that are never
held across an `await`, so the unit of interleaving is the same in all modules:
an action is what one task does between two lock or await points, and a lock's
critical section is never split.  The locals of a task that survive such a
point are variables (program counters are named `pc`, `cpc`, `apc`, ...).
Histories, which nothing in the code reads, are marked `history` where they are
declared; they bound the inputs (`used`) or let a property speak of the past.

| module | models | MC module | proofs |
|---|---|---|---|
| `ChunkService` | chunk service, store stack | `MCChunkService` | `ChunkServiceProofs` |
| `ChunkContract` | what the chunk service promises (abstract) | - | `ChunkServiceProofs` |
| `Store` | index, model, store routes | `MCStore` | `StoreProofs` |
| `Export` | export manager | `MCExport` | `ExportProofs` |
| `Session` | login, resume, logout, watchers | `MCSession` | `SessionProofs` |
| `Mount` | mount manager, shutdown | `MCMount` | `MountProofs` |
| `DllCache` | DLL references, decompiled types | `MCDllCache` | `DllCacheProofs` |
| `PlatformPaths` | paths across build targets (operators) | - | `ViewsProofs` |
| `ManifestDiff` | the routes that compare manifests | `MCCompare` | `ViewsProofs` |
| `History` | history of a file, a node, the versions; extends `ManifestDiff` | `MCCompare` | `ViewsProofs` |
| `DiffRows` | rows and their ids (operators) | - | `StructuredProofs` |
| `RowTrees` | trees of rows: all rows of one, one row per object, the mirror image (operators) | - | - |
| `UnityPairs` | how two Unity files pair and compare their objects (operators) | - | `StructuredProofs` |
| `UnityDiff`, `DllDiff` | the diff of two Unity files or bundles, of two assemblies (operators); `UnityDiff` extends `UnityPairs` | - | - |
| `PageContract` | what a structured page is owed (abstract) | - | `StructuredProofs` |
| `PageAnswers` | what a request can be answered, from the manifests read for it (operators) | - | `StructuredProofs` |
| `Structured` | structured views, manifest cache; extends `PageAnswers` | - | `StructuredProofs` |
| `StructuredTrees` | `Structured` with the trees of `UnityDiff` and `DllDiff` | `MCStructured` | - |
| `Library` | library, disk cache, tracked manifests, preload | `MCPages` | `ViewsProofs` |
| `Landing` | landing batches | `MCPages` | `ViewsProofs` |

`MCViews` puts four machines side by side (`ManifestDiff` with `History`,
`Structured`, `Library`, `Landing`): none reads another one's state, so a
behaviour is one of one machine, chosen at the start.

`ChunkService` and `Structured` instantiate their contracts
(`Contract == INSTANCE ... `).
The other modules meet the chunk service at one await each, which they keep as
a step that ends with either answer: `WaitChunks` of `Export`, the fetcher of
`Store`.  The MC modules hold only the values of constants.

### ChunkService

A request for a chunk goes `FsCacheStore -> TrackedChunkStore -> CDN`.  Actors:
clients (`Enqueue`, `EnqueueAndWait`, `CountTotals`, `Return`, `HangUp`), the
dispatcher (`Dispatch`: interactive lane first), workers, one per permit
(`Spawn`, `Skip`, `Proceed`), readers that nobody enqueued for (`ReadStart`),
and `cancel` in its two halves.  Workers and readers share the path of
`fetch_via`: `DiskHit` / `DiskMiss`, `Lead` or `Follow` by a look at
`inflight`, `CountImplicit`, `CdnAnswer`, then `settle` in its steps (`Settle`
takes the entry, `Mark` the index, `Record` the counters, `Notify` the waiters),
`Release` the guard, `Publish`, and `Write` to disk.  A dropped future is
`DropRead` (a follower or a reader before its fetch), or `DropLeader` then
`CloseChan`: the guard goes before the sender.

Abstracted: chunk bytes, sizes and errors (a fetch is good or not), the
progress events; the landing batches of `flush_landing` are in `Landing`.  The identity of a
watch channel matters (`same_channel`) and is `Chan`; one without holders can
be reused.  A failing write to disk is not modelled.

### Store

Openers run `open_manifest`; admins a store route: take the cached model or
build it under the write lock (`Call`, `UseModel`, `BuildBegin`, `BuildEnd`),
remove freed chunks one file at a time, tell the index, sweep orphans, delete
manifests, invalidate; any removal may fail and ends the handler there
(`PruneFails`).  Fetchers are the part of the store stack that this state sees:
miss, mark, write, in that order.  `Restart` scans the disk into a new index.

Abstracted: a route that only looks (overview, preview) is a request with
nothing in it.  `BuildEnd` chooses among the sets a non-atomic listing can
give.  Writing the postcard is the last suspension point of `open_manifest`.
`FetchUnmarked` stands for reads that settle nothing (followers, fetches whose
queue entry a cancel took).  Not modelled: manifests that fail to load
while a model is built, failing writes of a fetched chunk.

### Export

`start` claims the slot under the lock (`Claim`) and resets the flag in a step
of its own (`Spawn`); the run creates the directories, then per file waits for the
chunks, writes it in windows, counts; links; `Settle` takes the slot and
decides the outcome from the result and the flag, `Announce` sends it.  Any
step of a run may fail; a panic is caught and is an error like any other.
All runs share one plan and the files are taken in any order, which no
property tells apart.  The order in which subscribers see outcomes is not
modelled.

### Session

Attempts (`login` and its task), logouts, and the resume of the saved session
share the client, the slot of the login in progress, the session file and the
`resuming` watch.  Who changes something owes a notification (`owing`), which
reaches the viewers in a second step; a viewer reads the status in two steps,
client first and slot next, so a torn status is possible.  Waiters are calls
of `SteamAccess::client`.  Steam is an answer of either kind.  The id of an
attempt is the attempt.  Removing the session file is assumed to work.

### Mount

`start_with`: `Reserve`, `Prepare`, `StartFuse`, `Publish`, `Return` or a
failure and `Release`.  `stop`: `Take`, then `Unwrap` and the unmount in the
blocking pool, or `StillShared` and `LetGo`, then `ClearSlot`; `DropStop` is a
request that goes away at the await.  A back end is alive while a reference to it
is held or until its unmount.  `End` (after a shutdown, or a kill) leaves the
mountpoint free or with a dead entry of one of two kinds: one that
`prepare_mountpoint` detects and one that only the failing session does.  A
failed unmount consumes the session, as in the code.  Linux only: there
`start_with` has no await, so a start cannot be dropped.

### DllCache

A task is a click on a type or the tree of a DLL, which warms it (`Open`).  Both
prepare the references first: `Ensure` finds nothing beside the DLL, or the
marker, or what is to link; `FetchBlob` and `LinkSibling` bring one sibling into
the pool and link it, in any order; `LinkFails` ends the request; `WriteDone`
writes the marker.  What is no managed assembly is refused then (`Refuse`).  A
click looks on disk (`Lookup`), takes the lock of its key (`Lock`), looks again
under it (`Relookup`) and runs `ilspycmd -t` (`Decompile`, `DecompileFails`); the
text is in memory until it is on disk (`Write`, `WriteFails`), so a restart in
between loses it.  A tree starts a warmer unless one is in flight for its key
(`Warm`), which decompiles the whole assembly (`BulkRun`, `BulkFails`), then walks
the output (`WalkNext`) and, without any lock, stores the types that are missing
(`WalkStore`, or `WalkSkips` for what cannot be read or written) until `WalkEnds`.
`Close` ends a request that was served, and `Crash` keeps the disk only.

A text is what it was made from: the bytes, the type and whether references
were given.  `OnDisk` gives a type its file name and need not be injective: in
the code every character outside a small set becomes "_".  `decompiled` counts
the runs that ended well, and is taken back by one when such a text is lost
before it was written.  Stripes are as fine as keys (the code hashes keys to 64
of them, which only makes tasks wait more).

### PlatformPaths, ManifestDiff, History

Unity writes the name of the build target into the path of Addressables
files.  A path is a sequence of components (`Component`, of which "aa" and the
names of build targets are some); `PairKey` is a path without the target, and `FileIndex::pair` keeps the last file
of a key.  `ManifestDiff` opens the others with a bounded number of permits, hears
them in any order and folds each into what it has (`ChangedIn`, `AbsentIn`,
`StillExtra`); an open that fails is refused and only ends the request when it
must.  The deep route then diffs the changed candidates in chunks: a permit
for each, a verdict or an error (kept, and counted), and between chunks a
checkpoint that replaces the two environments when they have parsed too much.
A file's structured diff is `norm`: equal or not.  `History` opens the versions
one after the other, sorts them by creation time, and follows a file, or one node
by the ids that each diff gives to both sides.

### DiffRows, RowTrees, UnityPairs, UnityDiff, DllDiff

Operators over data, no state.  A row's id is the sequence of its tokens, cut
apart where the code cuts (`SplitOnce`); a file is a function from path ids to
objects; an assembly has the tables of types it defines and refers to, and
indices into both.  `UnityPairs` is one level of the walk: siblings are paired
by name and in order (`PairByKey`), components by label and occurrence
(`CollectComponents`), what no walk covered by label and name (`LooseItems`),
equality is up to path ids and a tolerance of floats (`CloseFloats`), and the
class counts come on top.  `UnityDiff` follows the walk down (`WalkPair`,
`SubtreeOneSide`) and pairs the entries of a bundle by path.  The two are apart
because the walk uses `RECURSIVE` operators and the level does not.  `DllDiff` is
the signature of a type (`TypeSignature`: what is hashed, in the order it
is hashed), the statuses, and the tree of namespaces and nested types with its
pruning.  Left out: labels, order and badges of rows, the dump of a value,
addressables catalogs, custom attributes, generic constraints.

### PageAnswers, Structured, StructuredTrees, PageContract

A page asks one thing.  `OpenSide` opens the manifests in the order of the
route, `Hold` takes the scratch space from the cache (a hit moves to the end, a
miss may evict), `Probe` finds the environment once for all holders, and a
`Build...` action answers with the tree or the body, or with the error the route
gives.  `PageAnswers` says what those answers are; the trees it takes as
constant operators (`DiffTree`, `DeepTree`, `FileTree`, `TypesIn`), which the
`.cfg` gives the definitions of `StructuredTrees`.  `LegalPage` is what a handler
gets: the tree route and the node route of an assembly are not modelled.

`PageContract` has the requests, the answers and one action: a page without an
answer gets one that depends on its own request alone (a refusal that its
versions and path warrant, or the page made of the manifests it asked for).
Scratch spaces, cache, environments and the order of opening are not in it.

### Library, Landing

`Library`: requests take an answer of Steam and store it in two steps, so that
the login may change in between; the status batch takes what the store model
has and opens the rest one by one; a preload reads the caches and the model and
opens what is indexed.  Logins, landing chunks, prunes, new builds and restarts
happen in between.  `Landing`: `settle` marks, records and schedules in three
steps; a flush sleeps, lowers the flag, takes the batches and sends one event per
manifest under the index's read lock; a cancel drops what is recorded.

## 3. The runs

The limits of the bounds are in the `.cfg` files.  No run uses symmetry
together with a liveness property.  `CHECK_DEADLOCK FALSE` is given wherever an
idle service that has used up its bounded calls legitimately stops; `Mount`,
which can always restart, checks deadlock.

| run | instance | shows |
|---|---|---|
| `chunk` | 1 chunk, 2 clients, 1 worker, 1 reader, 3 channels, 2 calls, and at most 3 of 2 reads, 1 cancel and 1 drop; `SafeSpec` | `TypeOK`, `SingleFlight`, `FollowersSafe`, `AccountingExact`, `NoLostWaiter`, `PendingHasJob`, `ImplementsContract` |
| `chunk_live` | 1 chunk, 1 client, 1 worker, 2 readers, 3 channels, 1 call, 2 reads, 1 drop, and a cancel in behaviours with at most one read; `LiveSpec` | `WaitersReturn`, `PendingSettles`, `ReadsEnd` |
| `store` | 2 manifests that share a chunk, 4 kinds of requests, 2 admins and 2 requests, 1 opener, 1 fetch, 1 fault, 1 restart | `TypeOK`, `IndexHonest`, `ModelCurrent`, `PruneSparesOthers` |
| `export` | an empty file and one of 3 units, windows of 2, 2 runs, 2 cancels, `FairSpec` | `TypeOK`, `OneRun`, `OutcomeTrue`, `BytesAddUp`, `SlotComesBack` |
| `session` | 1 attempt, 1 logout, 1 waiter, 1 viewer, a resume that may panic, `FairSpec` | `TypeOK`, `PendingHasTask`, `EntryKept`, `ResumeServes`, `ShownCurrent`, `WaiterReturns` |
| `mount` | 3 starts, 2 stops, both shutdowns, dropped requests, kills, `FairSpec` | `TypeOK`, `SlotHeld`, `NoOrphan`, `MountedServes`, `NoReclaim`, `SlotSettles` |
| `dlls` | 2 tasks over 2 builds that share an assembly, one DLL without a CLR header, a nested type and two outermost ones of one file name; 1 failure or 1 crash | `DoneAfterLinks`, `DecompileRight` |
| `views` | four machines, see below | `AnswersRight`, `DeepRight`, `HistoryRight`, `StructuredRight`, `PagesServed`, `LibraryRight`, `LandedShown` |

What the properties of `views` say: `AnswersRight`, that whatever order the others
answer in, the answer is the one set comparison gives for those that could be
opened; `DeepRight`, that what the deep diff caches for good is a function of the two
manifests, that what it does not has every row of it, and that it parses no more
than a chunk past its limit; `HistoryRight`, that a history has one row per
version, which depends on it and the next older one alone, that a node is never
taken for another one while ids are kept, and that a version's counts add up;
`StructuredRight`, that a diff pairs the objects of one place in both versions and
shows each once, that the diff the other way round is its mirror image, that a
file does not differ from itself, that the order of an assembly's tables does
not matter, and that the row of a diff has a body on every side that has its
object; `PagesServed`, that `Structured` implements `PageContract`: though pages
share scratch spaces and evict each other's, a page is answered once, from the
manifests it asked for; `LibraryRight`, that a page shows the games of
its own account, a status batch answers every manifest asked for once and truthfully for some
moment of the request, a preload calls complete only what is, and tracked manifests
survive; `LandedShown`, that no landing falls between two flushes.

Why these bounds reach the interesting cases:

- `SingleFlight` and its companions need a leader, a follower, and a task
  that takes the leader's place while the follower still looks at the old
  channel: a worker and a reader, two reads, one drop.  Counters need
  a request that finds its chunk queued by the other one, and a worker
  that settles before the request has counted.
  Of two reads, a cancel and a drop a behaviour has at most three
  (`AtMostThree`): a cancel meets a drop, and either meets two reads, but all four
  in one behaviour would not finish.
  The third channel is the one a new leader opens while the old one is still
  held.
- A cancel between any two steps and a second request for the cancelled chunk,
  whose stale job is still in a lane.
- `Store`: one chunk is shared and one is not, so that freeing, deleting and
  sweeping differ; two admins race for the model's lock and for the same files,
  one opener makes every window between "on disk", "indexed" and "invalidated".
- `Export`: the large file takes two windows, the second one short; the second
  cancel can hit the second run.
- `Session`: the login, the resume and the logout are three writers of the
  client and the slot; the viewer's two reads span any change of the others.
  Two attempts, one superseded, are in `session_clobbered`, and the theorems hold
  for any number.
- `Mount`: the third start is the one that can go wrong after a stop met the
  second; a killed process leaves either dead entry to the next.
- `ReadsEnd` needs a reader, or the worker, that follows a reader that is dropped,
  and then leads or finds the chunk on disk: two readers, two reads, one drop,
  three channels.  `LiveSpec` takes from the next-state relation, so that it
  remains small without symmetry: which free channel a new fetch gets, which
  idle reader begins a read, and a cancel together with a second read.  Channels
  and readers are alike, and neither a read's start nor a cancel is fair, so no
  fair action is disabled.
- `dlls`: two builds share an assembly's content but not its siblings, so a
  text with references and one without meet in one cache; two tasks are a click and
  a warmer, or two of a kind; the failure hits a link, a run, a write or a walk,
  the crash any step.  Clicks ask for the nested type only, so a text of the third
  type comes from a warmer, and the tree that is opened is that of the shared
  assembly (`TreeOfOne`): the others' warmers would differ in the sha alone.

The rest are the machines within `views`; `MCCompare`, `MCStructured` and `MCPages`
hold their constants:

- `MCCompare` (`ManifestDiff`, `History`): five manifests of two build targets,
  with a moved, a changed, a missing, an added file, a link, a folder, an ambiguous pair of Addressables
  files; every base, up to three others, one twice or the base itself; chunks of
  two files, two permits, and environments replaced at every checkpoint.
- `MCStructured` (`StructuredTrees`): 36 Unity files, a tree of one to two levels
  with twin names, twin components and references, each in two numberings, and lists of
  nameless, singleton and equal loose objects, all compared with all; four
  bundles; ten assemblies, each one edit (or a reordering) away from the first;
  pairs of pages on three versions with room for two scratch spaces, on a
  version that does not open and one that is no Unity game.  `CloseFloats` is
  always true there: the tolerance of floats is in the theorems only.
- `MCPages` (`Library`): two accounts, two manifests that share a chunk, a build that
  becomes the head, a list that names a manifest twice, one disk cache write.
- `MCPages` (`Landing`): a chunk in two files, a file of another manifest with a
  chunk of this one, two flushes.

Each property has a mutant, an operator with a plausible bug of the code, just
before the definition it would replace; each mutant makes its property fail under
the same configuration.

`views` checks no liveness and assumes no fairness: every answer is checked
when it is there.

**Fairness.**  The runtime polls every task that can run, Steam and the CDN
answer or fail, processes let go of an unmounted file system, and the process
leaves after the shutdown it was asked for: weak fairness of each task's own
steps.  Nothing is assumed of calls, reads, drops, cancels and kills.
`SlotSettles` excepts a stop whose request is dropped: that one never gives the
slot back (see below).

## 4. Where the code and its comments part

Four runs are expected to fail; each checks what a comment says of the program.

| run | comment | counterexample |
|---|---|---|
| `session_clobbered` | "a superseded one can't clobber a newer one's state" (`steam/auth.rs:45`) | `set_steam` does not look at the id: the superseded login's client replaces the newer one's |
| `mount_twice` | "so two starts can't both mount" (`state/mount/mod.rs:44`) | a stop meets the start's own `Arc`, fails to unwrap, clears the slot while the session is up |
| `refs_incomplete` | "Materialise the `*.dll` siblings of `dll_path`'s manifest directory" (`state/dll_refs.rs` 26) | the marker belongs to the directory, the siblings leave out the DLL asked for: a call for another DLL is given a directory without the first one |
| `nested_dropped` | "any descendant changed → parent changed" (`crates/transform/src/dll/diff.rs:128`) | a type gets its own status only; an unchanged one is dropped with the changed type nested in it |

Further statements that the code does not keep are defined at the end of the
modules, under the same heading.  They are not runs; each fails
when it is added to the named configuration.

| definition | add to | what happens |
|---|---|---|
| `ZeroedStatsStay` | `Chunk.cfg` | an implicit read, or a settled chunk yet to be counted, ticks counters a cancel zeroed (`downloads.rs:513`) |
| `LateComerHitsDisk` | `Chunk.cfg` | a task past its disk check fetches a landed chunk again (`downloads.rs:464`) |
| `WokenAfterDisk` | `Chunk.cfg` | "`read_full` after that is a pure cache hit" (`routes/files.rs:186`): `settle` notifies inside `fetch_via`, `FsCacheStore` writes the chunk afterwards |
| `DiskIndexedAtRest` | `Chunk.cfg` | a fetch that survives a cancel is on disk, not in the index (`store_index.rs:2`) |
| `ModelCurrentAtRest` | `Store.cfg` | "Call whenever the set of cached manifests changes" (`state/mod.rs:141`): a pruned manifest opened again is not fresh, and a model built in between is kept |
| `IndexedOnDisk` | `Store.cfg` | a pruned manifest still counts as on disk (`preload.rs:319`) |
| `SweepSparesCached` | `Store.cfg` | a sweep takes chunks of a manifest cached since it took its model (`routes/store.rs:212`) |
| `AbsentNotOnDisk` | `Store.cfg` | a chunk fetched between its removal and the index update is marked absent (`store_index.rs:105`) |
| `IndexOnDiskAtRest` | `Store.cfg` | a removal that fails leaves the chunks removed before it in the index (`store_index.rs:2`) |
| `CancelHeard` | `Export.cfg` | a cancel between claim and reset of the flag is lost (`routes/export.rs:102`) |
| `SessionForgotten` | `Session.cfg` | a login in flight at a logout saves its session afterwards (`steam/auth.rs:352`) |
| `CodeAwaited` | `Session.cfg` | a code is accepted by a login that awaits none (`steam/auth.rs:123`) |
| `NoEmptyForm` | `Session.cfg` | a torn status shows the empty form during a resume (`main.rs:131`) |
| `StopIsRunning` | `Mount.cfg` | a dropped stop leaves the slot Stopping for good (`state/mount/mod.rs:94`) |
| `UnmountedAtExit` | `Mount.cfg` | a shutdown that meets a start or a stop in flight exits with the session up (`main.rs:90`) |
| `TypeServed` | `Dlls.cfg` | "Decompile a single type to C#": two outermost types whose names differ only in characters that the file name replaces share one cached text, and one is served the other's (`crates/transform/src/dll/mod.rs:192`) |
| `RemovedOfFirst` | `Views.cfg` | a removed file's size is that of the first other to answer, not of the first one asked for (`routes/diff/manifest.rs:53`) |
| `SameIsUnchanged` | `Views.cfg` | a file that every other has, unchanged, is shown as changed when another one has its pair key (`routes/diff/manifest.rs:71`) |
| `OrderOfSet` | `Views.cfg` | two versions of the same second are listed in an order that depends on which one the history was opened from (`routes/history.rs:88`) |
| `AnyNodeFollowed` | `Views.cfg` | "no row means the node is unchanged" (`routes/history.rs:305`), but its id may be another one's on the other side |
| `LinksDiffer` | `Views.cfg` | a file's history takes every two links for the same (`routes/history.rs:415`) |
| `AffectedTold` | `Views.cfg` | a file whose manifest shares the chunk, but for which it was not queued, is not told (`downloads.rs:557`) |
| `NothingFetched` | `Views.cfg` | a preload opens a manifest that was pruned and is still in the index, over the network (`preload.rs:3`) |
| `StampedRight` | `Views.cfg` with `Requests = {q1, q2}`, `q2 = q2`, `MaxWrites = 2` | a cached value is handed out with the time of a later one (`state/disk_cache.rs:25`) |

(A definition of the form `[][...]_vars` goes under `PROPERTIES`, the others
under `INVARIANTS`.)  The properties that do hold say what is left of these
claims: `ModelCurrent` and `PruneSparesOthers` exempt reopened manifests,
`IndexHonest` failed removals, `AccountingExact` cancels; `EntryKept` covers the
slot but not the client; `MountedServes` shows that the next start recovers what
a shutdown left.  In `HistoryRight`, `FileRowsRight` assumes distinct times,
`NodeFollowed` that the node keeps its id and shares it with no other, and
`CountsRight` that a manifest lists a path once (new paths are counted by entry,
removed ones by path).  `AnswersRight` and `DeepRight` assume unambiguous pair keys;
where a file is compared with another manifest's, they also assume `FoldersApart`,
since for a folder in a file's place the file's page says "different" and the
diff says "added".

Read off the structured views' operators, and not stated as definitions: a type
that moves into another namespace or outer type is not the same
(`crates/dll-diff/src/sig.rs` 164-171); the row of an archive that one side lacks
leads to both (`unity/serializedfile/diff/mod.rs:116`); a diff "has no changes" when
only the data of a game object, or its transform's place among its siblings,
does; an archive id is cut at the first "/" of an entry's path
(`unity/bundle/mod.rs:74`).

## 5. What is proved

The theorems hold for all constants that satisfy the named assumptions of the
modules (`ConstantsAssumption`, `StoreConstants`, `ExportConstants`,
`SessionConstants`, `MountConstants`, `DllAssumption`, `NoneAssumption`,
`LandingAssumption`, `LibraryAssumption`, `PathAssumption`, `DiffAssumption`,
`TimeAssumption`, `StructuredAssumption`, `TokensAssumption`): any finite set of chunks, any number of clients, workers,
readers, openers, admins, runs, logins, pages and mounts, any manifests, files and
trees.  The theorems on the comparing routes are about every set of requests
that are `Legal`, as handlers get them; TLC evaluates that of the requests of the
run (`RequestsLegal`); those on the structured views are about every batch of pages
that are `LegalPage`.  `Legal` also states what `history.rs:288` relies on, that
identical content has the same tree (`SameTrees`).
Each `...Proofs` module lays out: the type invariant (one lemma per group of
actions), the strengthenings as named conjuncts, one lemma per conjunct that says
a step keeps it, and the theorems.

**ChunkService.**  `TypeCorrect`: `TypeOK` needs `Running`, that a task at work
has a chunk.  `FetchesApart` (`SingleFlight`) and `FollowersServed`
(`FollowerHasLeader` and `RetryRemovesNothing`) rest on `FlightInv`: a task that
leads and still holds its guard is the one its chunk's entry in `inflight`
names, an entry has such a task, and a follower of an undecided channel has a
leader of the same chunk.  `SingleFlight` alone is not inductive: it says nothing of
the map.

**What callers are owed.**  `WaitersKept` (`NoLostWaiter`) needs `OneSender`, that
a client's sender for a chunk is in one place, and `IdleOwesNothing`, that
no client outside a call waits.  `JobsKept` (`PendingHasJob`) needs `LocalsInv`:
what a task has taken out is with it until it has notified, and a leader whose
chunk was queued by nobody settles nothing.  `TotalsExact`
(`AccountingExact`): what is in the totals and neither settled nor outstanding
(`LeftOver`) is between nothing and one per dropped read.  The sums are sizes of
disjoint unions (`Announced`, `Outstanding`), so that each step adds or takes a
part (`Parts`) and nothing is summed by recursion.

**ChunkContract.**  `ServiceKeepsContract` (`ImplementsContract`): every step of
the service is a step of the contract or a stutter, with `Landed` (whoever
notifies a success has the chunk in the index) and `IdleOwesNothing`.

**Store.**  `ModelStaysCurrent`: `Known` (what is cached is indexed, or an opener
is about to index it), `LeftAsked` (what a prune has left to delete is what it was
asked to), `Behind` and `Ahead` (what the model, and the one being built, lack or
have too many of is on its way to be announced).  `PruneIsSafe`:
what a prune has picked is what the graph allows (`Picked`, `Unneeded`), and the
graph covers every manifest but those the admin could not know of (`Covering`);
`FreedByMeaning` says what the computation of freed chunks returns.
`IndexStaysHonest` (`IndexHonest`) is inductive with the typing.

**Export.**  `OneExport` (`OneRun`) is inductive.  `OutcomesAreTrue`
(`OutcomeTrue`: a run reported Cancelled was cancelled while it held the slot, one
reported Done wrote every file) rests on `FlagAsked` (the flag, while a run holds the
slot and has reset it, is set by a cancel of that run), `Progress` (files done,
written and counted agree), `OkMeaning` (what a run that returned Ok has done,
unless the flag is up) and `Sequence` (what the program counter implies).
`BytesExact` (`BytesAddUp`) adds `OpenFile`: between files nothing is open, and
within one no more is written than it has; bytes are counted as units of files, so
that a finished file adds a disjoint set.

**Session.**  `PendingIsWorkedOn`, `EntryIsKept`, `WaitersAreServed`
(`ResumeServes`, from `ResumeInv`: while the resume runs the flag is up, and once it
has installed its client only a logout empties it) and `ShownIsCurrent`:
`Watched` says that a page that was notified of nothing more shows the current
status, or is between its reads and found no client; `ChangeIsDue` says that a
change of the status leaves a notification owed or every page marked.

**Mount.**  `SlotIsHeld` (`SlotHeld`) is inductive with the typing.
`NoSessionOrphaned`, `StatusIsServed` (`MountedServes`) and
`NoStartMidUnmount` (`NoReclaim`) rest on `PoolInv` (what the pool unmounts
belongs to a stop that holds the slot, dropped or not), `MadeInv` (what is in the
slot or with a stop was published by its start, and what is unmounted was let go
by it) and `UpInv` (the session that a start registers serves on a mountpoint
that was free, and so does the one in the slot).

**DllCache.**  `DllTypeCorrect` needs `TasksTrue`: what a task's place says of
its locals.  `MarkersHonest` (`DoneAfterLinks`) needs `LinkProgress`: a task that
links has linked, or has left, every sibling but its own DLL.  `DecompiledRight`
(`DecompileRight`) needs `LockInv` (a lock is held by exactly the task at work
under it, and a text that was made and not lost is on disk or, unwritten, with
the lock's holder) and `TextInv` (a text on disk, or with a task, is of an
outermost type that has the key it goes by).  Nothing is assumed of file names:
the type that is served is the one asked for where no other outermost one shares
its file name, which is part of the property (`NamedApart`).  That an outer type's outer type is
itself (`OuterAgain`) is by the least-element principle of the natural
numbers.

**Landing.**  `LandingsShown` (`LandedShown`) rests on five conjuncts: what is owed
is in the index (`InIndex`), the flag is up exactly while one flush sleeps
(`FlagInv`), a batch is held exactly while it is sent (`BatchInv`), what is recorded
has a flush or a settle that will schedule one (`TakenInv`), and what is owed
is recorded, in a batch or shown (`OwedInv`).

**Library.**  `LibraryIsRight` (`LibraryRight`): what a request holds is of the
account it asked for, and its outcomes lie between what was missing when it
began and what is missing now (`RequestOK`, kept while chunks land by
`RequestKept`); a cached value is of what its key names (`CachedInv`); the tracked
list names each manifest once, as its file does (`TrackedInv`).

**PlatformPaths.**  `KeyPairs`: two paths have one key exactly when they are equal
or differ in the build target's folder alone.  The properties speak of the
latter (`Same`), the code computes the former.

**ManifestDiff.**  `AnswersAreRight` (`AnswersRight`): every other is waiting, being
opened, or has answered, one way (`OpensInv`), and what was gathered is the
comparison with those heard (`FoldInv`, `StatusInv`, `MatchInv`), whatever their order.
The answer is then what the property says of the two manifests, which is
pure set theory over `KeyPairs`.  `DeepDiffIsRight` (`DeepRight`): every
candidate is yet to come, in the chunk, or judged (`PlaceInv`); what is kept is
what differs among those judged, and what failed (`VerdictInv`); what is parsed and
what the chunk may add stay within a chunk of the limit (`LoadInv`).

**History.**  `HistoryIsRight` (`HistoryRight`): the stable sort returns the same
versions, newest first (`SortIs`), so two sets of distinct times have one order;
the walk has compared the pairs in the order of `PairOf` and has come to
`Reached` (`WalkInv`), and up to there what is said is what became of the file
(`FilePairs`), or of the node, which keeps its name and is not lost (`NodePairs`).
The counts (`CountsRight`) follow from the sizes of the sets of paths.  Where the
library's induction theorems would be used, for the sort and for the outcomes
of a walk, the proof takes the least counterexample (`WFMin`).

**Structured.**  `ScratchesHonest`: `[]PagesInv`.  Scratch spaces are shared by
reference, and an entry that the cache has dropped lives on with its holders,
so "the environment is that of the version asked for" is not inductive about a
page alone.  `PagesInv` carries the manifest along every reference: an
environment, if probed, is the one of the version its handle was made for
(`EnvInv`), a cache entry is of the version its scratch space was made for, and no
two are of one version, nor more than `Cap` (`CacheInv`), a page's handle is of the version that page
asked for (`HandlesInv`), and a side is only open if it is wanted and opens
(`SidesInv`).  `PagesAreServed` (`PagesServed`): with that, each `Build...`
action reads what `PageContract` says it may answer, each refusal is one of the
request's own, and every other step is a stutter of the contract.

**DiffRows.**  `IdsLeadBack`: for any path ids, the id of a paired or one-sided
row is cut apart again into the objects it was made of, on each side, both by
the body routes (`Dumps`) and by the history (`DiffMatch`), with and without
the prefix of a bundle's entry.  It assumes that the entry's name holds no
separator, without which it is false (see the end of §4), and that tokens are
apart (`TokensAssumption`).

**UnityPairs.**  `SiblingsPaired`: the pairing takes the first free target of a
name.  The proof follows the recursion as a sequence of partial pairings (`Steps`),
whose invariant `Matched` says that whoever was passed over was taken by an
earlier base.  From it: no target is taken twice or out of turn, a base without a
target and a target without a base never have one name, and pairing the other
way round gives the same pairs.  `ComponentsOnce` and `LooseOnce` rest on `Keyed`
(two keys of one side never lead to one object): the rows by key show each
object they hold once, `Dumps` of a row's id leads back to it, the rows of the swapped
sides are the mirror image (`Shown`, `FromOtherSide`), and with one file on both
sides nothing remains after pruning.  For components every listed one has its
row; `ComponentsOnce` assumes that a game object lists a component once
(`ListsOnce`).  For loose objects two of one key are one row, that of the later:
`LooseOnce` says that whoever has no row shares its label with a later one that
has.  It assumes files with finitely many objects whose ids are integers.  Both
assume that `CloseFloats` is symmetric, as `floats_equal` is
(`unity/serializedfile/diff/equality.rs:117`), which takes the larger of both.

Only model-checked:

- Liveness (`WaitersReturn`, `PendingSettles`, `ReadsEnd`, `SlotComesBack`,
  `WaiterReturns`, `SlotSettles`), which the proof system does not support.
- `StructuredRight`: what the walks over whole trees compute is an induction over
  data, and the walks are `RECURSIVE` operators.  What each level of the walk
  contributes is proved (`SiblingsPaired`, `ComponentsOnce`, `LooseOnce`,
  `IdsLeadBack`); that the levels add up to a tree with one row per object
  is what TLC checks.  The diff of assemblies is model-checked only.

## 6. What is left

Built, in the order of importance: `ChunkService` with its contract, `Store`,
`Export`, `Session`, `Mount`, `DllCache`, `Landing`, `Library` and the comparing
routes, with proofs; the structured views, whose machine, ids and pairing are
proved about and whose trees are model-checked.  Left, in this order:

1. The addressables catalog in `UnityDiff`; the links of a decompiled text
   (`dll_links`); an assembly's own tree.
2. The broadcasts of export and mount, and a receiver that lags.

Not modelled, and why:

- The parsers, converters and renderers (`crates/transform` but for its diffs,
  `game_info.rs`, shaders, `dump_value`): pure code over bytes whose properties
  are about formats.
- File and text views, static files, the wiring of HTTP and the window: I/O around
  calls that are modelled.
- The front end, which has no protocol of its own; the macOS and Windows mounts.
- Configuration: one file, loaded and stored whole.
- Manifests that fail to load while a store model is built, and writes that fail
  after a good fetch; the machine token file.
