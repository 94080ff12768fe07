------------------------------ MODULE DllCache ------------------------------
(* Sibling assemblies and decompiled types of a DLL                          *)
(* (backend/src/state/dll_refs.rs, crates/transform/src/dll/mod.rs,          *)
(* crates/transform/src/cache.rs).                                           *)
(*                                                                           *)
(* ilspycmd resolves references only from a directory on disk, so the DLLs   *)
(* beside the one asked for are fetched into a content-addressed pool and    *)
(* hard-linked into one directory per build; `done` marks the directory      *)
(* complete.  The text of a type is cached on disk under the DLL's sha, the  *)
(* outermost type and whether references were there.  Requests for one type  *)
(* and the bulk pass of a warmer fill that cache side by side.  A crash      *)
(* keeps what is on disk.                                                    *)
EXTENDS Integers, Sequences, FiniteSets

CONSTANTS Builds,      \* manifests; all DLLs of a build are in one directory
          Dlls,        \* file names
          Shas,        \* file contents
          ShaIn,       \* build -> name -> content, or NoFile
          NoFile,
          Native,      \* shas of DLLs without a CLR header
          Entities,    \* what `ilspycmd -l` lists, as sequences of name parts
          Asked,       \* the type names requests ask for
          OnDisk,      \* type name -> the artifact's file name; types may share one
          Tasks,       \* requests and background warmers
          None,
          MaxFailures, \* bounds the fetches and ilspy runs that fail
          MaxCrashes   \* bounds the restarts

ASSUME DllAssumption ==
    /\ ShaIn \in [Builds -> [Dlls -> Shas \cup {NoFile}]]
    /\ NoFile \notin Shas /\ Native \subseteq Shas
    /\ Entities \subseteq Seq(STRING) /\ Asked \subseteq Seq(STRING)
    /\ DOMAIN OnDisk = Entities \cup Asked
    /\ MaxFailures \in Nat /\ MaxCrashes \in Nat

VARIABLES pool,       \* shas whose blob is in refs/pool
          linked,     \* build -> names in its refs directory
          done,       \* builds whose marker is written
          artifacts,  \* key -> the text on disk, or None
          task,       \* what a task is doing
          stripe,     \* keys whose lock is held
          warming,    \* WARMUPS_IN_FLIGHT
          decompiled, \* key -> `-t` runs that ended well, less those whose
                      \* text was lost before it was written
          failures, crashes

diskVars == <<pool, linked, done, artifacts>>
lockVars == <<stripe, warming>>
countVars == <<decompiled, failures, crashes>>
vars == <<diskVars, task, lockVars, countVars>>

InBuild(b) == {d \in Dlls : ShaIn[b][d] # NoFile}

\* The other DLLs of the directory.
Siblings(b, d) == InBuild(b) \ {d}

ParentNames(name) == {SubSeq(name, 1, n) : n \in 1..(Len(name) - 1)}

\* The first prefix that is an entity is what ilspy renders as one file.
OuterOf(name) ==
    LET known == ParentNames(name) \cap Entities
    IN IF known = {} THEN name
       ELSE CHOOSE p \in known : \A r \in known : Len(p) <= Len(r)

\* transforms/<sha>/types/ or rtypes/, and the file name of the outer type.
FileNames == {OnDisk[n] : n \in Entities \cup Asked}
Key == [sha : Shas, refs : BOOLEAN, file : FileNames]
KeyOf(sha, refs, name) ==
    [sha |-> sha, refs |-> refs, file |-> OnDisk[OuterOf(name)]]

\* What a decompiled text is made from: the bytes, the type and whether a
\* directory of references was given.
Text == [sha : Shas, type : Entities \cup Asked, refs : BOOLEAN]

ASSUME NoneAssumption == None \notin Text

Idle == [at |-> "idle"]
Work == [at : {"ensure", "link", "ready", "miss", "locked", "run", "write",
               "bulk", "walk", "store"},
         kind : {"node", "warm"}, build : Builds, dll : Dlls,
         name : Entities \cup Asked, left : SUBSET Dlls, refs : BOOLEAN,
         todo : SUBSET Entities]
Served == [at : {"served"}, build : Builds, dll : Dlls,
           name : Entities \cup Asked, refs : BOOLEAN, text : Text]

TypeOK ==
    /\ pool \subseteq Shas
    /\ linked \in [Builds -> SUBSET Dlls]
    /\ done \subseteq Builds
    /\ artifacts \in [Key -> Text \cup {None}]
    /\ task \in [Tasks -> {Idle} \cup Work \cup Served]
    /\ stripe \subseteq Key
    /\ warming \subseteq Shas \X BOOLEAN
    /\ decompiled \in [Key -> Int]
    /\ failures \in 0..MaxFailures
    /\ crashes \in 0..MaxCrashes

Init ==
    /\ pool = {} /\ done = {}
    /\ linked = [b \in Builds |-> {}]
    /\ artifacts = [k \in Key |-> None]
    /\ task = [t \in Tasks |-> Idle]
    /\ stripe = {} /\ warming = {}
    /\ decompiled = [k \in Key |-> 0]
    /\ failures = 0 /\ crashes = 0

At(t, where) == task[t].at = where
Sha(t) == ShaIn[task[t].build][task[t].dll]
KeyFor(t) == KeyOf(Sha(t), task[t].refs, task[t].name)
Goes(t, where) == task' = [task EXCEPT ![t].at = where]
Rests(t) == task' = [task EXCEPT ![t] = Idle]

-----------------------------------------------------------------------------
\* A click on a type, or the tree of a DLL, which warms it in the background.
Open(t, kind, b, d, name) ==
    /\ At(t, "idle")
    /\ d \in InBuild(b)
    /\ kind = "warm" =>                          \* a tree asks for no type and
         /\ name = CHOOSE n \in Asked : TRUE      \* is refused for native code
         /\ ShaIn[b][d] \notin Native
    /\ task' = [task EXCEPT ![t] =
         [at |-> "ensure", kind |-> kind, build |-> b, dll |-> d, name |-> name,
          left |-> {}, refs |-> FALSE, todo |-> {}]]
    /\ UNCHANGED <<diskVars, lockVars, countVars>>

\* ensure_dll_refs: nothing beside the DLL, or a directory marked complete,
\* or a directory to fill.
MarkerFound(b) == b \in done

Ensure(t) ==
    LET b == task[t].build
        beside == Siblings(b, task[t].dll)
    IN /\ At(t, "ensure")
       /\ task' = [task EXCEPT ![t] =
            IF beside = {} THEN [@ EXCEPT !.at = "ready"]
            ELSE IF MarkerFound(b) THEN [@ EXCEPT !.at = "ready", !.refs = TRUE]
            ELSE [@ EXCEPT !.at = "link", !.left = beside]]
       /\ UNCHANGED <<diskVars, lockVars, countVars>>

\* link_sibling fetches what the pool lacks; a blob appears whole.
FetchBlob(t, d) ==
    /\ At(t, "link") /\ d \in task[t].left
    /\ pool' = pool \cup {ShaIn[task[t].build][d]}
    /\ UNCHANGED <<linked, done, artifacts, task, lockVars, countVars>>

\* An existing link counts as made.
LinkSibling(t, d) ==
    /\ At(t, "link") /\ d \in task[t].left
    /\ ShaIn[task[t].build][d] \in pool
    /\ linked' = [linked EXCEPT ![task[t].build] = @ \cup {d}]
    /\ task' = [task EXCEPT ![t].left = @ \ {d}]
    /\ UNCHANGED <<pool, done, artifacts, lockVars, countVars>>

\* try_join_all ends at the first error, and the request with it.
LinkFails(t) ==
    /\ At(t, "link") /\ task[t].left # {}
    /\ failures < MaxFailures
    /\ failures' = failures + 1
    /\ Rests(t)
    /\ UNCHANGED <<diskVars, lockVars, decompiled, crashes>>

AnyLinked(t) == linked[task[t].build] # {}

\* The marker is written when every link of this call is there.
AllLinked(t) == task[t].left = {}

WriteDone(t) ==
    /\ At(t, "link") /\ AllLinked(t)
    /\ done' = done \cup {task[t].build}
    /\ task' = [task EXCEPT ![t].at = "ready", ![t].refs = TRUE]
    /\ UNCHANGED <<pool, linked, artifacts, lockVars, countVars>>

-----------------------------------------------------------------------------
\* decompile_type: the text on disk, or a run under the key's lock.
TextNow(t, type) ==
    [sha |-> Sha(t), type |-> type, refs |-> task[t].refs]

Serve(t, text) ==
    task' = [task EXCEPT ![t] =
      [at |-> "served", build |-> @.build, dll |-> @.dll, name |-> @.name,
       refs |-> @.refs, text |-> text]]

\* list_entities refuses what is no managed assembly, after ensure_dll_refs.
Refuse(t) ==
    /\ At(t, "ready") /\ Sha(t) \in Native
    /\ Rests(t)
    /\ UNCHANGED <<diskVars, lockVars, countVars>>

Unlock(t) == stripe' = stripe \ {KeyFor(t)}

Lookup(t) ==
    /\ At(t, "ready") /\ Sha(t) \notin Native /\ task[t].kind = "node"
    /\ IF artifacts[KeyFor(t)] # None THEN Serve(t, artifacts[KeyFor(t)])
                                      ELSE Goes(t, "miss")
    /\ UNCHANGED <<diskVars, lockVars, countVars>>

Lock(t) ==
    /\ At(t, "miss")
    /\ KeyFor(t) \notin stripe
    /\ stripe' = stripe \cup {KeyFor(t)}
    /\ Goes(t, "locked")
    /\ UNCHANGED <<diskVars, warming, countVars>>

NotLookedAt(t) == FALSE

\* A racing request or the warmer may have written it meanwhile.
FoundUnderLock(t) == artifacts[KeyFor(t)] # None

Relookup(t) ==
    /\ At(t, "locked")
    /\ IF FoundUnderLock(t)
       THEN Serve(t, artifacts[KeyFor(t)]) /\ Unlock(t)
       ELSE Goes(t, "run") /\ UNCHANGED stripe
    /\ UNCHANGED <<diskVars, warming, countVars>>

\* `ilspycmd -t` has ended well; its text is in memory only.
Decompile(t) ==
    /\ At(t, "run")
    /\ decompiled' = [decompiled EXCEPT ![KeyFor(t)] = @ + 1]
    /\ Goes(t, "write")
    /\ UNCHANGED <<diskVars, lockVars, failures, crashes>>

\* It fails, or its request is dropped while it runs.
DecompileFails(t) ==
    /\ At(t, "run")
    /\ failures < MaxFailures
    /\ failures' = failures + 1
    /\ Rests(t) /\ Unlock(t)
    /\ UNCHANGED <<diskVars, warming, decompiled, crashes>>

\* write_cached_artifact: the file appears whole, before the lock goes.
Write(t) ==
    LET text == TextNow(t, OuterOf(task[t].name))
    IN /\ At(t, "write")
       /\ artifacts' = [artifacts EXCEPT ![KeyFor(t)] = text]
       /\ Serve(t, text)
       /\ Unlock(t)
       /\ UNCHANGED <<pool, linked, done, warming, countVars>>

\* The text is lost with the request: the next one runs ilspycmd again.
WriteFails(t) ==
    /\ At(t, "write")
    /\ failures < MaxFailures
    /\ failures' = failures + 1
    /\ decompiled' = [decompiled EXCEPT ![KeyFor(t)] = @ - 1]
    /\ Rests(t) /\ Unlock(t)
    /\ UNCHANGED <<diskVars, warming, crashes>>

-----------------------------------------------------------------------------
\* warm_full_decompile: one bulk pass per sha and kind of references.
WarmKey(t) == <<Sha(t), task[t].refs>>

Warm(t) ==
    /\ At(t, "ready") /\ Sha(t) \notin Native /\ task[t].kind = "warm"
    /\ IF WarmKey(t) \in warming THEN Rests(t) /\ UNCHANGED warming
       ELSE Goes(t, "bulk") /\ warming' = warming \cup {WarmKey(t)}
    /\ UNCHANGED <<diskVars, stripe, countVars>>

Cooled(t) == warming' = warming \ {WarmKey(t)} /\ Rests(t)

BulkRun(t) ==
    /\ At(t, "bulk")
    /\ task' = [task EXCEPT ![t].at = "walk",
                           ![t].todo = {e \in Entities : OuterOf(e) = e}]
    /\ UNCHANGED <<diskVars, lockVars, countVars>>

BulkFails(t) ==
    /\ At(t, "bulk")
    /\ failures < MaxFailures
    /\ failures' = failures + 1
    /\ Cooled(t)
    /\ UNCHANGED <<diskVars, stripe, decompiled, crashes>>

\* run_warmer walks the output: what `-t` has filled is skipped.
WalkNext(t, e) ==
    LET there == artifacts[KeyOf(Sha(t), task[t].refs, e)] # None
    IN /\ At(t, "walk") /\ e \in task[t].todo
       /\ task' = [task EXCEPT ![t].todo = @ \ {e}, ![t].name = e,
                              ![t].at = IF there THEN "walk" ELSE "store"]
       /\ UNCHANGED <<diskVars, lockVars, countVars>>

WalkStore(t) ==
    /\ At(t, "store")
    /\ artifacts' = [artifacts EXCEPT ![KeyFor(t)] = TextNow(t, task[t].name)]
    /\ Goes(t, "walk")
    /\ UNCHANGED <<pool, linked, done, lockVars, countVars>>

\* What cannot be read or written is left out.
WalkSkips(t) ==
    /\ At(t, "store")
    /\ failures < MaxFailures
    /\ failures' = failures + 1
    /\ Goes(t, "walk")
    /\ UNCHANGED <<diskVars, lockVars, decompiled, crashes>>

WalkEnds(t) ==
    /\ At(t, "walk") /\ task[t].todo = {}
    /\ Cooled(t)
    /\ UNCHANGED <<diskVars, stripe, countVars>>

\* The answer is out; the same client may ask again.
Close(t) ==
    /\ At(t, "served")
    /\ Rests(t)
    /\ UNCHANGED <<diskVars, lockVars, countVars>>

\* Locks, tasks and the in-flight set are memory, and so is a text that is
\* yet to be written.
Unwritten(k) == \E t \in Tasks : At(t, "write") /\ KeyFor(t) = k

Crash ==
    /\ crashes < MaxCrashes
    /\ crashes' = crashes + 1
    /\ task' = [t \in Tasks |-> Idle]
    /\ stripe' = {} /\ warming' = {}
    /\ decompiled' = [k \in Key |->
                        decompiled[k] - IF Unwritten(k) THEN 1 ELSE 0]
    /\ UNCHANGED <<diskVars, failures>>

Step(t) ==
    \/ \E kind \in {"node", "warm"}, b \in Builds, d \in Dlls, name \in Asked :
         Open(t, kind, b, d, name)
    \/ Ensure(t) \/ WriteDone(t) \/ LinkFails(t)
    \/ \E d \in Dlls : FetchBlob(t, d) \/ LinkSibling(t, d)
    \/ Refuse(t) \/ Lookup(t) \/ Lock(t) \/ Relookup(t)
    \/ Decompile(t) \/ DecompileFails(t) \/ Write(t) \/ WriteFails(t)
    \/ Warm(t) \/ BulkRun(t) \/ BulkFails(t)
    \/ \E e \in Entities : WalkNext(t, e)
    \/ WalkStore(t) \/ WalkSkips(t) \/ WalkEnds(t) \/ Close(t)

Next == Crash \/ \E t \in Tasks : Step(t)

Spec == Init /\ [][Next]_vars

-----------------------------------------------------------------------------
\* The promise of ensure_dll_refs: a caller that was given a directory finds
\* every sibling of its DLL there.
RefsComplete ==
    \A t \in Tasks : task[t].at \in {"ready", "run", "bulk"} /\ task[t].refs =>
      Siblings(task[t].build, task[t].dll) \subseteq linked[task[t].build]

\* `done` is written last: across failures, restarts and concurrent callers,
\* a marked directory lacks at most one DLL of the build (the one whose
\* caller filled it), and whatever is linked has its blob.
DoneAfterLinks ==
    /\ \A b \in done : \E d \in InBuild(b) : Siblings(b, d) \subseteq linked[b]
    /\ \A b \in Builds : \A d \in linked[b] : ShaIn[b][d] \in pool

\* However requests, warmers, failures and restarts interleave, `-t` runs
\* again for a file name only when the text of a run before was lost before
\* it was written.
DecompiledOnce == \A k \in Key : decompiled[k] <= 1

\* type_artifact_name writes what is awkward on disk, and every letter
\* outside ASCII, as "_": no other outermost type has this one's file name.
NamedApart(outer) ==
    \A n \in Entities \cup Asked :
      ParentNames(n) \cap Entities = {} /\ OnDisk[n] = OnDisk[outer] => n = outer

\* The text served is of the DLL asked for, with references exactly when the
\* DLL has siblings, and of an outermost type that has the file name of the
\* one around the name asked for: that type itself, unless another shares it.
ServedRight ==
    \A t \in Tasks : At(t, "served") =>
      LET text == task[t].text
          outer == OuterOf(task[t].name)
      IN /\ text.sha = Sha(t)
         /\ text.refs <=> Siblings(task[t].build, task[t].dll) # {}
         /\ OnDisk[text.type] = OnDisk[outer]
         /\ ParentNames(text.type) \cap Entities = {}
         /\ NamedApart(outer) => text.type = outer

DecompileRight == DecompiledOnce /\ ServedRight

(* A statement of a comment that the code does not keep.                     *)

\* "Decompile a single type to C#" (dll/mod.rs:192), the one asked for or the
\* one around it, also where another has its file name.
TypeServed ==
    \A t \in Tasks :
      At(t, "served") => task[t].text.type = OuterOf(task[t].name)
=============================================================================
