-------------------------------- MODULE Store --------------------------------
(***************************************************************************)
(* What the program knows about its depot store, and how the store routes  *)
(* change it.  One truth is kept in four places:                           *)
(*                                                                         *)
(*   on disk    manifests (postcards) and chunk files                      *)
(*   in memory  StoreIndex (state/store_index.rs): chunks_present and      *)
(*              indexed_manifests                                          *)
(*              store_model (state/mod.rs): the manifest-to-chunk graph,   *)
(*              built lazily and "dropped whole on change"                 *)
(*                                                                         *)
(* Openers run AppState::open_manifest, admins the store routes (overview, *)
(* preview and prune of routes/store.rs), fetchers bring chunks in through *)
(* the store stack: ChunkService marks the index, FsCacheStore writes the  *)
(* file afterwards.  A handler of the store routes has no await in it, so  *)
(* it runs to its end, but next to everybody else.                         *)
(***************************************************************************)
EXTENDS Naturals, FiniteSets

CONSTANTS
    Manifest,
    Chunk,
    ChunksOf,     \* [Manifest -> SUBSET Chunk]
    Opener,       \* tasks in AppState::open_manifest
    Admin,        \* tasks in a store route
    Fetcher,      \* tasks reading a chunk through a snapshot
    NoModel, Nobody, NoManifest, NoChunk,
    Requests,     \* bound: what the admins ask for
    MaxOpens,     \* bound: calls of open_manifest
    MaxPrunes,    \* bound: calls of the store routes
    MaxFetches,   \* bound: chunk reads
    MaxFaults,    \* bound: failing removals, dropped reads
    MaxRestarts   \* bound: restarts of the server

\* Without anything in it, a PruneRequest does to this state what the
\* overview and the preview do.
PruneRequest == [free : SUBSET Manifest, delete : SUBSET Manifest,
                 sweep : BOOLEAN]
NoRequest == [free |-> {}, delete |-> {}, sweep |-> FALSE]

ASSUME StoreConstants ==
    /\ Requests \subseteq PruneRequest
    /\ ChunksOf \in [Manifest -> SUBSET Chunk]
    /\ IsFiniteSet(Manifest)
    /\ \A S \in SUBSET Manifest : S # NoModel
    /\ Nobody \notin Admin
    /\ NoManifest \notin Manifest
    /\ NoChunk \notin Chunk
    /\ {MaxOpens, MaxPrunes, MaxFetches, MaxFaults, MaxRestarts} \subseteq Nat

VARIABLES
    cached,       \* manifests on disk
    disk,         \* chunk files on disk
    index,        \* StoreIndex.chunks_present
    indexed,      \* StoreIndex.indexed_manifests
    model,        \* the cached StoreModel: the manifests it is made of
    builder,      \* the admin that holds the model's write lock to build it
    opc, om,                                      \* openers
    apc, req, graph, freed, orphans, todo, left,  \* admins
    fpc, fc,                                      \* fetchers
    unseen,       \* history: manifests an admin's graph could not know of
    used          \* history: calls of each kind so far

diskVars   == <<cached, disk>>
indexVars  == <<index, indexed>>
modelVars  == <<model, builder>>
openVars   == <<opc, om>>
pruneVars  == <<graph, freed, orphans, todo, left, unseen>>
adminVars  == <<apc, req, pruneVars>>
fetchVars  == <<fpc, fc>>
vars == <<diskVars, indexVars, modelVars, openVars, adminVars, fetchVars, used>>

\* AppState::init: StoreIndex::scan lists what is on disk, no model is built.
Init ==
    /\ cached \in SUBSET Manifest
    /\ disk \in SUBSET Chunk
    /\ index = disk
    /\ indexed = cached
    /\ model = NoModel
    /\ builder = Nobody
    /\ opc = [o \in Opener |-> "idle"]
    /\ om = [o \in Opener |-> NoManifest]
    /\ apc = [a \in Admin |-> "idle"]
    /\ req = [a \in Admin |-> NoRequest]
    /\ graph = [a \in Admin |-> {}]
    /\ freed = [a \in Admin |-> {}]
    /\ orphans = [a \in Admin |-> {}]
    /\ todo = [a \in Admin |-> {}]
    /\ left = [a \in Admin |-> {}]
    /\ unseen = [a \in Admin |-> {}]
    /\ fpc = [f \in Fetcher |-> "idle"]
    /\ fc = [f \in Fetcher |-> NoChunk]
    /\ used = [opens |-> 0, reopens |-> 0, prunes |-> 0, fetches |-> 0,
               faults |-> 0, restarts |-> 0]

-----------------------------------------------------------------------------
(* open_manifest                                                            *)

\* The manifest is on disk, or it is fetched and written there.
Open(o, m) ==
    /\ opc[o] = "idle"
    /\ used.opens < MaxOpens
    /\ cached' = cached \cup {m}
    /\ opc' = [opc EXCEPT ![o] = "opened"]
    /\ om' = [om EXCEPT ![o] = m]
    /\ unseen' = IF m \in cached THEN unseen
                 ELSE [a \in Admin |-> unseen[a] \cup {m}]
    /\ used' = [used EXCEPT !.opens = @ + 1,
                            !.reopens = IF m \in indexed \ cached
                                        THEN @ + 1 ELSE @]
    /\ UNCHANGED <<disk, indexVars, modelVars, apc, req, graph, freed, orphans,
                   todo, left, fetchVars>>

\* add_manifest: TRUE if this was a new entry.
IsFresh(o) == om[o] \notin indexed

AddManifest(o) ==
    /\ opc[o] = "opened"
    /\ indexed' = indexed \cup {om[o]}
    /\ opc' = [opc EXCEPT ![o] = IF IsFresh(o) THEN "fresh" ELSE "idle"]
    /\ om' = IF IsFresh(o) THEN om ELSE [om EXCEPT ![o] = NoManifest]
    /\ UNCHANGED <<diskVars, index, modelVars, adminVars, fetchVars, used>>

\* Mutant: the slot is written without its lock.
SlotUnlocked == TRUE

\* The model's write lock is not held by a build.
SlotFree == builder = Nobody

\* A newly cached manifest changes the graph.
Invalidate(o) ==
    /\ opc[o] = "fresh"
    /\ SlotFree
    /\ model' = NoModel
    /\ opc' = [opc EXCEPT ![o] = "idle"]
    /\ om' = [om EXCEPT ![o] = NoManifest]
    /\ UNCHANGED <<diskVars, indexVars, builder, adminVars, fetchVars, used>>

-----------------------------------------------------------------------------
(* store_model(): the cached one, or build it under the write lock.         *)

\* Manifests that came to disk and are not announced yet.
Unannounced == {om[o] : o \in {o \in Opener : opc[o] \in {"opened", "fresh"}}}

Call(a, r) ==
    /\ apc[a] = "idle"
    /\ used.prunes < MaxPrunes
    /\ used' = [used EXCEPT !.prunes = @ + 1]
    /\ req' = [req EXCEPT ![a] = r]
    /\ apc' = [apc EXCEPT ![a] = "model"]
    /\ UNCHANGED <<pruneVars, diskVars, indexVars, modelVars, openVars,
                   fetchVars>>

UseModel(a) ==
    /\ apc[a] = "model"
    /\ SlotFree
    /\ model # NoModel
    /\ graph' = [graph EXCEPT ![a] = model]
    /\ unseen' = [unseen EXCEPT ![a] = Unannounced]
    /\ apc' = [apc EXCEPT ![a] = "freed"]
    /\ UNCHANGED <<req, freed, orphans, todo, left, diskVars, indexVars,
                   modelVars, openVars, fetchVars, used>>

\* StoreModel::build begins to list the manifests ...
BuildBegin(a) ==
    /\ apc[a] = "model"
    /\ SlotFree
    /\ model = NoModel
    /\ builder' = a
    /\ graph' = [graph EXCEPT ![a] = cached]
    /\ unseen' = [unseen EXCEPT ![a] = Unannounced]
    /\ apc' = [apc EXCEPT ![a] = "build"]
    /\ UNCHANGED <<req, freed, orphans, todo, left, diskVars, indexVars, model,
                   openVars, fetchVars, used>>

\* Mutant: the build keeps the lock.
NotReleased == builder

\* The write guard goes out of scope.
Released == Nobody

\* ... and has loaded those it found: one that was removed meanwhile may be
\* missing, one that was added may be there.
BuildEnd(a) ==
    /\ apc[a] = "build"
    /\ \E S \in SUBSET (graph[a] \cup cached) :
          /\ graph[a] \cap cached \subseteq S
          /\ graph' = [graph EXCEPT ![a] = S]
          /\ model' = S
    /\ builder' = Released
    /\ apc' = [apc EXCEPT ![a] = "freed"]
    /\ UNCHANGED <<req, freed, orphans, todo, left, unseen, diskVars,
                   indexVars, openVars, fetchVars, used>>

-----------------------------------------------------------------------------
(* prune                                                                    *)

\* chunk_refs: how many of the manifests M reference c.
Refs(M, c) == Cardinality({m \in M : c \in ChunksOf[m]})

\* Mutant: any reference from the set will do.
FreedByAny(M, F, present) ==
    {c \in present : Refs(M \cap F, c) > 0}

\* Present chunks with every reference from within F.
FreedBy(M, F, present) ==
    {c \in present : /\ Refs(M \cap F, c) > 0
                     /\ Refs(M \cap F, c) = Refs(M, c)}

\* referenced_chunks_excluding
KeptBy(M, D) == UNION {ChunksOf[m] : m \in M \ D}

ComputeFreed(a) ==
    LET F == FreedBy(graph[a], req[a].free, index)
    IN  /\ apc[a] = "freed"
        /\ freed' = [freed EXCEPT ![a] = F]
        /\ todo' = [todo EXCEPT ![a] = F]
        /\ apc' = [apc EXCEPT ![a] = "free"]
        /\ UNCHANGED <<req, graph, orphans, left, unseen, diskVars, indexVars,
                       modelVars, openVars, fetchVars, used>>

\* remove_chunk; a file that is gone already is as good as removed.
RemoveChunk(a) ==
    /\ apc[a] \in {"free", "sweep"}
    /\ \E c \in todo[a] :
          /\ disk' = disk \ {c}
          /\ todo' = [todo EXCEPT ![a] = @ \ {c}]
    /\ UNCHANGED <<apc, req, graph, freed, orphans, left, unseen, cached,
                   indexVars, modelVars, openVars, fetchVars, used>>

ComputeOrphans(a) ==
    LET kept == KeptBy(graph[a], req[a].delete)
        O    == IF req[a].sweep THEN (index \ kept) \ freed[a] ELSE {}
    IN  /\ apc[a] = "free"
        /\ todo[a] = {}
        /\ orphans' = [orphans EXCEPT ![a] = O]
        /\ todo' = [todo EXCEPT ![a] = O]
        /\ apc' = [apc EXCEPT ![a] = "sweep"]
        /\ UNCHANGED <<req, graph, freed, left, unseen, diskVars, indexVars,
                       modelVars, openVars, fetchVars, used>>

\* The handler returns.
Respond(a) ==
    /\ apc' = [apc EXCEPT ![a] = "idle"]
    /\ req' = [req EXCEPT ![a] = NoRequest]
    /\ graph' = [graph EXCEPT ![a] = {}]
    /\ freed' = [freed EXCEPT ![a] = {}]
    /\ orphans' = [orphans EXCEPT ![a] = {}]
    /\ todo' = [todo EXCEPT ![a] = {}]
    /\ left' = [left EXCEPT ![a] = {}]
    /\ unseen' = [unseen EXCEPT ![a] = {}]

\* Mutant: only what the request named is taken out of the index.
RemovedFreedOnly(a) == freed[a]

\* What has been removed by the time the index is told.
Removed(a) == freed[a] \cup orphans[a]

\* mark_chunk_absent for all of them, under one lock.
MarkAbsent(a) ==
    /\ apc[a] = "sweep"
    /\ todo[a] = {}
    /\ index' = index \ Removed(a)
    /\ IF req[a].delete = {}
       THEN Respond(a)
       ELSE /\ apc' = [apc EXCEPT ![a] = "delete"]
            /\ left' = [left EXCEPT ![a] = req[a].delete]
            /\ UNCHANGED <<req, graph, freed, orphans, todo, unseen>>
    /\ UNCHANGED <<diskVars, indexed, modelVars, openVars, fetchVars, used>>

\* The postcard goes; indexed_manifests keeps its entry.
DeleteManifest(a) ==
    /\ apc[a] = "delete"
    /\ \E m \in left[a] :
          /\ cached' = cached \ {m}
          /\ left' = [left EXCEPT ![a] = @ \ {m}]
    /\ UNCHANGED <<apc, req, graph, freed, orphans, todo, unseen, disk,
                   indexVars, modelVars, openVars, fetchVars, used>>

InvalidateDeleted(a) ==
    /\ apc[a] = "delete"
    /\ left[a] = {}
    /\ SlotFree
    /\ model' = NoModel
    /\ Respond(a)
    /\ UNCHANGED <<diskVars, indexVars, builder, openVars, fetchVars, used>>

\* A file cannot be removed: the handler returns its error at once.
PruneFails(a) ==
    /\ \/ apc[a] \in {"free", "sweep"} /\ todo[a] # {}
       \/ apc[a] = "delete" /\ left[a] # {}
    /\ used.faults < MaxFaults
    /\ used' = [used EXCEPT !.faults = @ + 1]
    /\ Respond(a)
    /\ UNCHANGED <<diskVars, indexVars, modelVars, openVars, fetchVars>>

-----------------------------------------------------------------------------
(* A chunk read that misses the disk (see ChunkService).                    *)

FetchMiss(f, c) ==
    /\ fpc[f] = "idle"
    /\ c \notin disk
    /\ used.fetches < MaxFetches
    /\ used' = [used EXCEPT !.fetches = @ + 1]
    /\ fpc' = [fpc EXCEPT ![f] = "fetch"]
    /\ fc' = [fc EXCEPT ![f] = c]
    /\ UNCHANGED <<diskVars, indexVars, modelVars, openVars, adminVars>>

\* settle marks the index before the file is written.
FetchMark(f) ==
    /\ fpc[f] = "fetch"
    /\ index' = index \cup {fc[f]}
    /\ fpc' = [fpc EXCEPT ![f] = "write"]
    /\ UNCHANGED <<fc, diskVars, indexed, modelVars, openVars, adminVars, used>>

\* A follower, or a queued fetch whose entry was cancelled: nothing to mark.
FetchUnmarked(f) ==
    /\ fpc[f] = "fetch"
    /\ fpc' = [fpc EXCEPT ![f] = "write"]
    /\ UNCHANGED <<fc, diskVars, indexVars, modelVars, openVars, adminVars,
                   used>>

FetchWrite(f) ==
    /\ fpc[f] = "write"
    /\ disk' = disk \cup {fc[f]}
    /\ fpc' = [fpc EXCEPT ![f] = "idle"]
    /\ fc' = [fc EXCEPT ![f] = NoChunk]
    /\ UNCHANGED <<cached, indexVars, modelVars, openVars, adminVars, used>>

\* The read is dropped before its file is written.
FetchDropped(f) ==
    /\ fpc[f] = "write"
    /\ used.faults < MaxFaults
    /\ used' = [used EXCEPT !.faults = @ + 1]
    /\ fpc' = [fpc EXCEPT ![f] = "idle"]
    /\ fc' = [fc EXCEPT ![f] = NoChunk]
    /\ UNCHANGED <<diskVars, indexVars, modelVars, openVars, adminVars>>

-----------------------------------------------------------------------------
\* The server stops anywhere and starts again: the store is scanned.
Restart ==
    /\ used.restarts < MaxRestarts
    /\ index' = disk
    /\ indexed' = cached
    /\ model' = NoModel
    /\ builder' = Nobody
    /\ opc' = [o \in Opener |-> "idle"]
    /\ om' = [o \in Opener |-> NoManifest]
    /\ apc' = [a \in Admin |-> "idle"]
    /\ req' = [a \in Admin |-> NoRequest]
    /\ graph' = [a \in Admin |-> {}]
    /\ freed' = [a \in Admin |-> {}]
    /\ orphans' = [a \in Admin |-> {}]
    /\ todo' = [a \in Admin |-> {}]
    /\ left' = [a \in Admin |-> {}]
    /\ unseen' = [a \in Admin |-> {}]
    /\ fpc' = [f \in Fetcher |-> "idle"]
    /\ fc' = [f \in Fetcher |-> NoChunk]
    /\ used' = [used EXCEPT !.restarts = @ + 1]
    /\ UNCHANGED diskVars

OpenerNext(o) ==
    \/ \E m \in Manifest : Open(o, m)
    \/ AddManifest(o)
    \/ Invalidate(o)

AdminNext(a) ==
    \/ \E r \in Requests : Call(a, r)
    \/ UseModel(a)
    \/ BuildBegin(a)
    \/ BuildEnd(a)
    \/ ComputeFreed(a)
    \/ RemoveChunk(a)
    \/ ComputeOrphans(a)
    \/ MarkAbsent(a)
    \/ DeleteManifest(a)
    \/ InvalidateDeleted(a)
    \/ PruneFails(a)

FetcherNext(f) ==
    \/ \E c \in Chunk : FetchMiss(f, c)
    \/ FetchMark(f)
    \/ FetchUnmarked(f)
    \/ FetchWrite(f)
    \/ FetchDropped(f)

Next ==
    \/ \E o \in Opener : OpenerNext(o)
    \/ \E a \in Admin : AdminNext(a)
    \/ \E f \in Fetcher : FetcherNext(f)
    \/ Restart

Spec == Init /\ [][Next]_vars

-----------------------------------------------------------------------------
(* Properties                                                               *)

TruthTypeOK == cached \subseteq Manifest /\ disk \subseteq Chunk

IndexTypeOK == index \subseteq Chunk /\ indexed \subseteq Manifest

\* The write lock is held by nobody but a task that builds.
ModelTypeOK ==
    /\ model \in {NoModel} \cup SUBSET Manifest
    /\ builder \in Admin \cup {Nobody}
    /\ \A a \in Admin : apc[a] = "build" <=> builder = a

OpenTypeOK ==
    /\ opc \in [Opener -> {"idle", "opened", "fresh"}]
    /\ om \in [Opener -> Manifest \cup {NoManifest}]
    /\ \A o \in Opener : opc[o] # "idle" => om[o] \in Manifest

AdminTypeOK ==
    /\ apc \in [Admin -> {"idle", "model", "build", "freed", "free", "sweep",
                          "delete"}]
    /\ req \in [Admin -> PruneRequest]
    /\ graph \in [Admin -> SUBSET Manifest]
    /\ freed \in [Admin -> SUBSET Chunk]
    /\ orphans \in [Admin -> SUBSET Chunk]
    /\ todo \in [Admin -> SUBSET Chunk]
    /\ left \in [Admin -> SUBSET Manifest]
    /\ unseen \in [Admin -> SUBSET Manifest]

FetchTypeOK ==
    /\ fpc \in [Fetcher -> {"idle", "fetch", "write"}]
    /\ fc \in [Fetcher -> Chunk \cup {NoChunk}]
    /\ \A f \in Fetcher : fpc[f] # "idle" => fc[f] \in Chunk

UsedTypeOK == used \in [opens : Nat, reopens : Nat, prunes : Nat,
                        fetches : Nat, faults : Nat, restarts : Nat]

\* Every variable stays in its domain, and the lock belongs to a builder.
TypeOK == /\ TruthTypeOK
          /\ IndexTypeOK
          /\ ModelTypeOK
          /\ OpenTypeOK
          /\ AdminTypeOK
          /\ FetchTypeOK
          /\ UsedTypeOK

\* An opener will still invalidate on account of m, or make it known first.
Announcing(m) ==
    \E o \in Opener : om[o] = m /\ opc[o] \in {"opened", "fresh"}

\* A prune that removed m, or is about to, will still invalidate.
Deleting(m) == \E a \in Admin : apc[a] = "delete" /\ m \in req[a].delete

\* "Derived cache for the store-management routes: built lazily, dropped
\* whole on change" (state/mod.rs:64-65): the cached model differs from the
\* manifests on disk only while somebody who changed them is on the way to
\* invalidate it - unless a pruned manifest was opened again or a prune gave
\* up half-way (see ModelCurrentAtRest).
ModelCurrent ==
    used.reopens = 0 /\ used.faults = 0 /\ model # NoModel =>
        /\ \A m \in cached \ model : Announcing(m)
        /\ \A m \in model \ cached : Deleting(m)

\* A prune removes a chunk only if each cached manifest that references it
\* was named for this kind of removal, or came to disk too late for the graph
\* the prune works with (freed_by, referenced_chunks_excluding).
PruneSparesOthers ==
    used.reopens = 0 =>
        \A a \in Admin : \A c \in todo[a] : \A m \in cached \ unseen[a] :
            c \in ChunksOf[m] =>
                m \in IF apc[a] = "free" THEN req[a].free ELSE req[a].delete

\* The index says of a chunk that it is on disk although it is not only
\* while a fetch is about to write it or a prune is about to tell the index.
IndexHonest ==
    used.faults = 0 =>
        \A c \in index \ disk :
            \/ \E f \in Fetcher : fpc[f] = "write" /\ fc[f] = c
            \/ \E a \in Admin : apc[a] \in {"free", "sweep"} /\ c \in Removed(a)

-----------------------------------------------------------------------------
(* Statements of comments that the code does not keep.                      *)

AtRest == /\ \A o \in Opener : opc[o] = "idle"
          /\ \A a \in Admin : apc[a] = "idle"
          /\ \A f \in Fetcher : fpc[f] = "idle"

\* "Call whenever the set of cached manifests changes" (state/mod.rs:141):
\* with nothing going on, a cached model shows the manifests on disk.
ModelCurrentAtRest == AtRest /\ model # NoModel => model = cached

\* "The manifest when it is on disk" (preload.rs:319), decided by
\* has_manifest: with nothing going on, an indexed manifest is on disk.
IndexedOnDisk == AtRest => indexed \subseteq cached

\* "Also delete chunks referenced by no cached manifest (`delete_metadata`
\* manifests count as already gone)" (routes/store.rs:212-213).
SweepSparesCached ==
    [][\A a \in Admin : \A c \in todo[a] \ todo'[a] :
          apc[a] = "sweep" /\ apc'[a] = "sweep" =>
              \A m \in cached \ req[a].delete : c \notin ChunksOf[m]]_vars

\* "Record that a chunk was removed from disk" (store_index.rs:105).
AbsentNotOnDisk == [][\A c \in index \ index' : c \notin disk]_vars

\* "tracks the set of chunk SHAs we actually have on disk"
\* (store_index.rs:2-3): with nothing going on, what it has is on disk.
IndexOnDiskAtRest == AtRest => index \subseteq disk
=============================================================================
