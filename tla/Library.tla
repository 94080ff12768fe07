------------------------------ MODULE Library ------------------------------
(* Library, tracked manifests, their statuses and the preload of a page      *)
(* (backend/src/routes/library.rs, routes/extra_manifests.rs,                *)
(* state/extra_manifests.rs, state/disk_cache.rs, preload.rs).               *)
(*                                                                           *)
(* What Steam answered last is kept in files (the disk cache), the manifests *)
(* a user adds by hand in memory and in one file.  A status batch takes what *)
(* the store model holds and opens the rest; a preload hands a page only     *)
(* what is warm.  One app; the store model is built and dropped in one step  *)
(* here (Store has its races), and no chunk is removed.                      *)
EXTENDS Integers, Sequences, FiniteSets

CONSTANTS Accounts, Manifests, AppChunks, None,
          ChunksIn,   \* manifest -> its chunks
          AppInfos,   \* what Steam answers for the app, one after the other:
                      \* sequences of [manifest, branch], the branch heads
          Lists,      \* what users track by hand: sequences of the same
          Openable,   \* manifests the accounts have a licence for
          Requests, MaxWrites

Refs == [manifest : Manifests, branch : STRING]

ASSUME LibraryAssumption ==
    /\ AppInfos \in Seq(Seq(Refs)) /\ Lists \subseteq Seq(Refs)
    /\ ChunksIn \in [Manifests -> SUBSET AppChunks]
    /\ Openable \subseteq Manifests
    /\ Len(AppInfos) > 0
    /\ MaxWrites \in Nat

VARIABLES account,    \* AppState::steam, or None
          appInfo,    \* which of AppInfos Steam answers
          cache,      \* disk cache: key -> [value, at], or None
          writes,     \* disk cache writes so far: the clock
          extras,     \* ExtraManifestsStore::state
          extrasFile, \* extra_manifests.json
          unsaved,    \* the last write of that file failed
          onDisk,     \* manifests whose postcard is there
          indexed,    \* indexed_manifests
          held,       \* chunks_present
          model,      \* manifests of the built store model, or None
          doing         \* request -> what it is doing

steamVars == <<account, appInfo>>
cacheVars == <<cache, writes>>
extraVars == <<extras, extrasFile, unsaved>>
storeVars == <<onDisk, indexed, held, model>>
libraryVars == <<steamVars, cacheVars, extraVars, storeVars, doing>>

AppKey == <<"app_info", None>>
GamesKey(a) == <<"library", a>>
Keys == {AppKey} \cup {GamesKey(a) : a \in Accounts}

Idle == [at |-> "idle"]

LibraryInit ==
    /\ account = None /\ appInfo = 1
    /\ cache = [k \in Keys |-> None] /\ writes = 0
    /\ extras = <<>> /\ extrasFile = <<>> /\ unsaved = FALSE
    /\ onDisk = {} /\ indexed = {} /\ held = {} /\ model = None
    /\ doing = [r \in Requests |-> Idle]

At(r, where) == doing[r].at = where
Becomes(r, state) == doing' = [doing EXCEPT ![r] = state]

\* The n-th of some positions of a list, and what the list has at them.
Nth(S, n) == CHOOSE i \in S : Cardinality({j \in S : j < i}) = n - 1
Picked(list, S) == [n \in 1..Cardinality(S) |-> list[Nth(S, n)]]

\* The first of every manifest, in order.
DistinctRefs(refs) ==
    Picked(refs, {i \in DOMAIN refs : \A j \in 1..(i - 1) :
                    refs[j].manifest # refs[i].manifest})

\* app_manifest_refs: the heads, then what the user tracks.
AppRefs(info, tracked) == DistinctRefs(info \o tracked)

Covered(refs, known) == {i \in DOMAIN refs : refs[i].manifest \in known}

-----------------------------------------------------------------------------
\* Outside: logins, what Steam would answer, chunks that land.
Login(a) ==
    /\ account # a
    /\ account' = a
    /\ UNCHANGED <<appInfo, cacheVars, extraVars, storeVars, doing>>

SteamChanges ==
    /\ appInfo < Len(AppInfos)
    /\ appInfo' = appInfo + 1
    /\ UNCHANGED <<account, cacheVars, extraVars, storeVars, doing>>

Land(c) ==
    /\ held' = held \cup {c}
    /\ UNCHANGED <<steamVars, cacheVars, extraVars, onDisk, indexed, model, doing>>

\* prune of a manifest that shares its chunks: the postcard goes, its entry
\* in the index stays.
PruneManifest(m) ==
    /\ m \in onDisk
    /\ onDisk' = onDisk \ {m}
    /\ model' = None
    /\ UNCHANGED <<steamVars, cacheVars, extraVars, indexed, held, doing>>

-----------------------------------------------------------------------------
\* DiskCache::write: a temporary file of its own, then a rename.
Put(key, value) ==
    /\ writes < MaxWrites
    /\ writes' = writes + 1
    /\ cache' = [cache EXCEPT ![key] = [value |-> value, at |-> writes + 1]]

\* fetch_owned_games asks over the connection it was handed.
AskGames(r) ==
    /\ At(r, "idle") /\ account # None
    /\ Becomes(r, [at |-> "games", account |-> account])
    /\ UNCHANGED <<steamVars, cacheVars, extraVars, storeVars>>

GamesAnswer(r) ==
    /\ At(r, "games")
    /\ Becomes(r, [at |-> "gamesIn", account |-> doing[r].account,
                   games |-> [of |-> doing[r].account]])
    /\ UNCHANGED <<steamVars, cacheVars, extraVars, storeVars>>

CurrentAccount(r) == IF account = None THEN doing[r].account ELSE account

\* The file is that of the connection asked, whoever is logged in by now.
AccountAsked(r) == doing[r].account

GamesSave(r) ==
    /\ At(r, "gamesIn")
    /\ Put(GamesKey(AccountAsked(r)), doing[r].games)
    /\ Becomes(r, Idle)
    /\ UNCHANGED <<steamVars, extraVars, storeVars>>

\* fetch_app_info; app_info_or_fetch reads the file first.
AskApp(r) ==
    /\ At(r, "idle") /\ account # None
    /\ Becomes(r, [at |-> "appIn", info |-> AppInfos[appInfo]])
    /\ UNCHANGED <<steamVars, cacheVars, extraVars, storeVars>>

AppSave(r) ==
    /\ At(r, "appIn")
    /\ Put(AppKey, doing[r].info)
    /\ Becomes(r, Idle)
    /\ UNCHANGED <<steamVars, extraVars, storeVars>>

-----------------------------------------------------------------------------
\* ExtraManifestsStore::set and remove: memory first, then the file, under
\* one lock; when the write fails the request fails and memory stays.
Without(list, m) == Picked(list, {i \in DOMAIN list : list[i].manifest # m})

Store(list, saved) ==
    /\ extras' = list
    /\ extrasFile' = IF saved THEN list ELSE extrasFile
    /\ unsaved' = ~saved
    /\ UNCHANGED <<steamVars, cacheVars, storeVars, doing>>

SetExtras(list, saved) == Store(DistinctRefs(list), saved)

\* The file is written also when there was no such entry.
RemoveExtra(m, saved) == Store(Without(extras, m), saved)

\* The next process reads the file; requests and the model are gone.
Restart ==
    /\ extras' = extrasFile /\ unsaved' = FALSE
    /\ account' = None /\ model' = None
    /\ indexed' = onDisk
    /\ doing' = [r \in Requests |-> Idle]
    /\ UNCHANGED <<appInfo, cacheVars, extrasFile, onDisk, held>>

-----------------------------------------------------------------------------
\* statuses_of: one entry per manifest, from the model or by opening it.
Missing(m) == ChunksIn[m] \ held
Status(m) == [manifest |-> m, error |-> FALSE, missing |-> Missing(m)]
Statuses(refs) == [i \in DOMAIN refs |-> Status(refs[i].manifest)]
Failed(m) == [manifest |-> m, error |-> TRUE, missing |-> {}]

\* A batch a page sends, or that of the app's tracked manifests; `wanted` is
\* what was asked for, before the duplicates go.
AskStatuses(r, refs) ==
    /\ At(r, "idle") /\ account # None
    /\ Becomes(r, [at |-> "model", refs |-> DistinctRefs(refs), since |-> held,
                    wanted |-> {refs[i].manifest : i \in DOMAIN refs}])
    /\ UNCHANGED <<steamVars, cacheVars, extraVars, storeVars>>

AskAppStatuses(r) ==
    /\ cache[AppKey] # None
    /\ AskStatuses(r, AppRefs(cache[AppKey].value, extras))

FromModel(r) ==
    LET known == IF model = None THEN onDisk ELSE model
        refs == doing[r].refs
    IN /\ At(r, "model")
       /\ model' = known
       /\ Becomes(r, [at |-> "open", since |-> doing[r].since,
                       wanted |-> doing[r].wanted,
                       out |-> Statuses(Picked(refs, Covered(refs, known))),
                       todo |-> {refs[i].manifest : i \in DOMAIN refs} \ known])
       /\ UNCHANGED <<steamVars, cacheVars, extraVars, onDisk, indexed, held>>

\* open_manifest: a postcard opens without Steam, else the connection mints
\* a request code; a manifest new to the index drops the model.
CanOpen(m) == m \in onDisk \/ (account # None /\ m \in Openable)

Opened(m) ==
    /\ CanOpen(m)
    /\ onDisk' = onDisk \cup {m}
    /\ indexed' = indexed \cup {m}
    /\ model' = IF m \in indexed THEN model ELSE None
    /\ UNCHANGED held

OpenOne(r, m) ==
    /\ At(r, "open") /\ m \in doing[r].todo
    /\ \/ /\ Opened(m)
          /\ Becomes(r, [doing[r] EXCEPT !.todo = @ \ {m}, !.out = Append(@, Status(m))])
       \/ /\ m \notin onDisk
          /\ Becomes(r, [doing[r] EXCEPT !.todo = @ \ {m}, !.out = Append(@, Failed(m))])
          /\ UNCHANGED storeVars
    /\ UNCHANGED <<steamVars, cacheVars, extraVars>>

Answer(r) ==
    /\ At(r, "open") /\ doing[r].todo = {}
    /\ Becomes(r, [at |-> "answered", wanted |-> doing[r].wanted,
                    out |-> doing[r].out, since |-> doing[r].since])
    /\ UNCHANGED <<steamVars, cacheVars, extraVars, storeVars>>

-----------------------------------------------------------------------------
\* preload::entries.  The library of the account it shows is read, then the
\* time of its file.
Visit(r) ==
    LET stored == IF account = None THEN None ELSE cache[GamesKey(account)]
    IN /\ At(r, "idle")
       /\ Becomes(r, [at |-> "visit", account |-> account, read |-> stored])
       /\ UNCHANGED <<steamVars, cacheVars, extraVars, storeVars>>

\* indexed_statuses: what the built model holds, and whether that is all.
Indexed(refs) == Statuses(Picked(refs, Covered(refs, model)))

CompleteForHeads(refs, statuses) ==
    Len(statuses) >= Len(DistinctRefs(cache[AppKey].value))

Complete(refs, statuses) == Len(statuses) = Len(refs)

NoStatuses == [refs |-> <<>>, out |-> <<>>, complete |-> FALSE]

Preload(r) ==
    LET refs == AppRefs(cache[AppKey].value, extras)
        library == IF doing[r].read = None THEN None
                   ELSE [games |-> doing[r].read.value, of |-> doing[r].read.at,
                         stamp |-> cache[GamesKey(doing[r].account)].at]
        statuses == IF cache[AppKey] = None \/ model = None THEN NoStatuses
                    ELSE [refs |-> refs, out |-> Indexed(refs),
                          complete |-> Complete(refs, Indexed(refs))]
    IN /\ At(r, "visit")
       /\ Becomes(r, [at |-> "page", account |-> doing[r].account, library |-> library,
                       statuses |-> statuses, fetched |-> {}])
       /\ UNCHANGED <<steamVars, cacheVars, extraVars, storeVars>>

\* open_if_on_disk asks the index; what is not there is left to the page.
OpenIfOnDisk(r, m) ==
    /\ At(r, "page") /\ m \in indexed
    /\ Opened(m)
    /\ doing' = [doing EXCEPT ![r].fetched = @ \cup ({m} \ onDisk)]
    /\ UNCHANGED <<steamVars, cacheVars, extraVars>>

Close(r) ==
    /\ doing[r].at \in {"answered", "page"}
    /\ Becomes(r, Idle)
    /\ UNCHANGED <<steamVars, cacheVars, extraVars, storeVars>>

RequestNext(r) ==
    \/ AskGames(r) \/ GamesAnswer(r) \/ GamesSave(r) \/ AskApp(r) \/ AppSave(r)
    \/ \E m \in Manifests : OpenOne(r, m) \/ OpenIfOnDisk(r, m)
    \/ \E refs \in Lists : AskStatuses(r, refs)
    \/ AskAppStatuses(r) \/ FromModel(r) \/ Answer(r)
    \/ Visit(r) \/ Preload(r) \/ Close(r)

LibraryNext ==
    \/ \E a \in Accounts \cup {None} : Login(a)
    \/ SteamChanges
    \/ \E c \in AppChunks : Land(c)
    \/ \E m \in Manifests : PruneManifest(m) \/ \E saved \in BOOLEAN : RemoveExtra(m, saved)
    \/ \E list \in Lists, saved \in BOOLEAN : SetExtras(list, saved)
    \/ Restart
    \/ \E r \in Requests : RequestNext(r)

LibrarySpec == LibraryInit /\ [][LibraryNext]_libraryVars

-----------------------------------------------------------------------------
LibraryTypeOK ==
    /\ account \in Accounts \cup {None} /\ appInfo \in DOMAIN AppInfos
    /\ writes \in 0..MaxWrites
    /\ \A k \in Keys : cache[k] = None \/ cache[k].at \in 1..writes
    /\ onDisk \subseteq Manifests /\ indexed \subseteq Manifests
    /\ held \subseteq AppChunks /\ onDisk \subseteq indexed
    /\ model = None \/ model \subseteq Manifests

\* A page shows the games of the account it shows as logged in, although the
\* answer may have arrived after a logout or another login.
GamesOfAccount ==
    \A r \in Requests : At(r, "page") /\ doing[r].library # None =>
      doing[r].library.games.of = doing[r].account

\* A status batch answers once for every manifest asked for, and what it
\* calls missing was so at some moment of the request.
BatchRight ==
    \A r \in Requests : At(r, "answered") =>
      LET out == doing[r].out
      IN /\ Len(out) = Cardinality(doing[r].wanted)
         /\ {out[i].manifest : i \in DOMAIN out} = doing[r].wanted
         /\ \A i \in DOMAIN out : ~out[i].error =>
              /\ Missing(out[i].manifest) \subseteq out[i].missing
              /\ out[i].missing \subseteq ChunksIn[out[i].manifest] \ doing[r].since

\* What a preload calls complete has every head and every tracked manifest.
PreloadComplete ==
    \A r \in Requests : At(r, "page") /\ doing[r].statuses.complete =>
      {doing[r].statuses.out[i].manifest : i \in DOMAIN doing[r].statuses.out} =
      {doing[r].statuses.refs[i].manifest : i \in DOMAIN doing[r].statuses.refs}

\* Tracked manifests survive a restart unless the last save failed, and no
\* list names a manifest twice.
TrackedKept ==
    /\ ~unsaved => extras = extrasFile
    /\ \A i, j \in DOMAIN extras : extras[i].manifest = extras[j].manifest => i = j

LibraryRight == GamesOfAccount /\ BatchRight /\ PreloadComplete /\ TrackedKept

\* Two claims of the source that the model refutes.  disk_cache.rs 25, "The
\* stored value and when it was written": the time is that of a later write.
StampedRight ==
    \A r \in Requests : At(r, "page") /\ doing[r].library # None =>
      doing[r].library.stamp = doing[r].library.of

\* preload.rs 3-4, "Cold data is left out ..., so a preload never delays the
\* page": a pruned manifest is still in the index and is fetched.
NothingFetched == \A r \in Requests : At(r, "page") => doing[r].fetched = {}
=============================================================================
