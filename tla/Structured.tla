----------------------------- MODULE Structured -----------------------------
(* The structured views of a file and of its diff (backend/src/routes/       *)
(* structured.rs, routes/diff/structured/mod.rs, node.rs, routes/unity.rs)   *)
(* and the scratch space they share (state/manifest_cache.rs).               *)
(*                                                                           *)
(* A page asks for a tree, for the body of one of its rows, for a diff or    *)
(* the body of one of the diff's rows.  A request opens the manifests of the *)
(* sides it needs; a Unity file is then read through the manifest's          *)
(* environment, kept in a cache of the last few manifests.  Who holds an     *)
(* entry keeps it when the cache drops it.  What a manifest holds never      *)
(* changes.                                                                  *)
EXTENDS PageAnswers

CONSTANTS Viewers,       \* pages; each asks once
          Cap            \* manifests the cache keeps

ASSUME StructuredAssumption == Cap \in Nat \ {0}

VARIABLES page,     \* viewer -> [route, versions, path, node]
          side,     \* viewer -> side -> how far it is
          handle,   \* viewer -> side -> the scratch it holds
          scratch,  \* handle -> the environment it was given, if probed
          scratchCache, \* sequence of [of, scratch], oldest first
          answer    \* viewer -> what it was answered

structuredVars == <<page, side, handle, scratch, scratchCache, answer>>

Handles == Viewers \X Sides
NoHandle == <<NoVersion, "base">>

Progress == {"unneeded", "closed", "open", "held", "ready"}

StructuredTypeOK ==
    /\ \A v \in Viewers : LegalPage(page[v])
    /\ side \in [Viewers -> [Sides -> Progress]]
    /\ handle \in [Viewers -> [Sides -> Handles \cup {NoHandle}]]
    /\ scratch \in [Handles -> [probed : BOOLEAN, env : Versions \cup {NoVersion}]]
    /\ scratchCache \in Seq([of : Versions, scratch : Handles])

StructuredInit(batches) ==
    /\ page \in batches
    /\ side = [v \in Viewers |-> [s \in Sides |-> IF Wants(page[v], s) THEN "closed" ELSE "unneeded"]]
    /\ handle = [v \in Viewers |-> [s \in Sides |-> NoHandle]]
    /\ scratch = [h \in Handles |-> [probed |-> FALSE, env |-> NoVersion]]
    /\ scratchCache = <<>>
    /\ answer = [v \in Viewers |-> NoAnswer]

Asked(v, s) == page[v].versions[s]
Waiting(v) == answer[v] = NoAnswer
Needed(v) == {s \in Sides : side[v][s] # "unneeded"}
AllOpen(v) == \A s \in Sides : side[v][s] # "closed"

Reply(v, a) ==
    /\ answer' = [answer EXCEPT ![v] = a]
    /\ UNCHANGED <<page, side, handle, scratch, scratchCache>>

\* An id of which no side has a body; the tree's own rows have an empty one.
NoBody(v) ==
    /\ Waiting(v) /\ page[v].route = "diffNode" /\ KindAsked(page[v]) # "other"
    /\ Needed(v) = {}
    /\ Reply(v, Refused("bad request"))

\* No builder for this file.  A tree or a diff opens its sides first.
Unsupported(v) ==
    /\ Waiting(v) /\ KindAsked(page[v]) = "other" /\ AllOpen(v)
    /\ Reply(v, Refused("unsupported"))

\* Unity and bundle bodies open the base first; the other routes open both
\* sides at once, and the first failure is the answer.
InTurn(v, s) ==
    page[v].route = "diffNode" /\ Unity(page[v]) /\ s = "target" => side[v]["base"] # "closed"

OpenSide(v, s) ==
    /\ Waiting(v) /\ side[v][s] = "closed" /\ InTurn(v, s)
    /\ IF Opens(page[v], s) /\ Finds(page[v], s)
       THEN /\ side' = [side EXCEPT ![v][s] = "open"]
            /\ UNCHANGED <<page, handle, scratch, scratchCache, answer>>
       ELSE Reply(v, OpenFailure(page[v], s))

-----------------------------------------------------------------------------
\* Mutant of EntryOf: whatever the manifest.
AnyEntry(version) == DOMAIN scratchCache

\* ManifestCache::scratch, under its lock: a hit moves to the end, a miss
\* adds an entry and drops the oldest one beyond Cap.
EntryOf(version) == {i \in DOMAIN scratchCache : scratchCache[i].of = version}

WithoutEntry(i) == SubSeq(scratchCache, 1, i - 1) \o SubSeq(scratchCache, i + 1, Len(scratchCache))
Capped(entries) == IF Len(entries) > Cap THEN Tail(entries) ELSE entries

Hold(v, s) ==
    /\ Waiting(v) /\ Unity(page[v]) /\ AllOpen(v) /\ ~Bodiless(page[v])
    /\ side[v][s] = "open"
    /\ s = "target" => side[v]["base"] \in {"unneeded", "ready"}
    /\ LET hits == EntryOf(Asked(v, s))
           i == CHOOSE i \in hits : TRUE
           entry == IF hits = {} THEN [of |-> Asked(v, s), scratch |-> <<v, s>>] ELSE scratchCache[i]
       IN /\ scratchCache' = Capped(Append(IF hits = {} THEN scratchCache ELSE WithoutEntry(i), entry))
          /\ handle' = [handle EXCEPT ![v][s] = entry.scratch]
    /\ side' = [side EXCEPT ![v][s] = "held"]
    /\ UNCHANGED <<page, scratch, answer>>

\* ManifestScratch::unity: whoever is first probes the manifest, for all.
EnvFor(version) == IF version \in UnityVersions THEN version ELSE NoVersion

Probe(v, s) ==
    /\ Waiting(v) /\ side[v][s] = "held"
    /\ LET h == handle[v][s]
           env == IF scratch[h].probed THEN scratch[h].env ELSE EnvFor(Asked(v, s))
       IN /\ scratch' = [scratch EXCEPT ![h] = [probed |-> TRUE, env |-> env]]
          /\ IF env = NoVersion
             THEN /\ answer' = [answer EXCEPT ![v] = Refused("unsupported")]
                  /\ UNCHANGED side
             ELSE /\ side' = [side EXCEPT ![v][s] = "ready"]
                  /\ UNCHANGED answer
    /\ UNCHANGED <<page, handle, scratchCache>>

\* The environment a blocking task reads is that of the scratch it holds.
EnvOf(v, s) == scratch[handle[v][s]].env

\* The manifest each side's data comes from.  Assemblies are read without an
\* environment.
Read(v) ==
    [s \in Sides |-> IF Unity(page[v]) /\ s \in Needed(v) THEN EnvOf(v, s) ELSE Asked(v, s)]

Ready(v) ==
    /\ Waiting(v) /\ KindAsked(page[v]) # "other"
    /\ Needed(v) # {}
    /\ \A s \in Needed(v) : side[v][s] = IF Unity(page[v]) THEN "ready" ELSE "open"

-----------------------------------------------------------------------------
BuildDiff(v) ==
    Ready(v) /\ page[v].route = "diff" /\ Reply(v, DiffPage(page[v], Read(v)))

BuildDeepDll(v) ==
    Ready(v) /\ page[v].route = "deepDll" /\ Reply(v, DeepPage(page[v], Read(v)))

BuildTree(v) ==
    Ready(v) /\ page[v].route = "tree" /\ Reply(v, TreePage(page[v], Read(v)))

BuildUnityBody(v) ==
    /\ Ready(v) /\ page[v].route = "diffNode" /\ Unity(page[v])
    /\ Reply(v, UnityBodyPage(page[v], Read(v)))

BuildDllBody(v) ==
    /\ Ready(v) /\ page[v].route = "diffNode" /\ ~Unity(page[v])
    /\ Reply(v, DllBodyPage(page[v], Read(v)))

EmptyNode(v) ==
    /\ Waiting(v) /\ AllOpen(v) /\ Bodiless(page[v])
    /\ Reply(v, EmptyPage)

BuildNode(v) ==
    Ready(v) /\ page[v].route = "node" /\ Reply(v, NodePage(page[v], Read(v)))

StructuredNext ==
    \E v \in Viewers :
      \/ NoBody(v) \/ Unsupported(v)
      \/ \E s \in Sides : OpenSide(v, s) \/ Hold(v, s) \/ Probe(v, s)
      \/ BuildDiff(v) \/ BuildDeepDll(v) \/ BuildTree(v)
      \/ BuildUnityBody(v) \/ BuildDllBody(v) \/ EmptyNode(v) \/ BuildNode(v)

StructuredSpec(batches) == StructuredInit(batches) /\ [][StructuredNext]_structuredVars

-----------------------------------------------------------------------------
Contract == INSTANCE PageContract

\* Though two pages share scratch spaces and evict each other's, a page is
\* answered once, from the manifests that it asked for and no others, and is
\* refused for nothing but its own request.
PagesServed == Contract!Spec
=============================================================================
