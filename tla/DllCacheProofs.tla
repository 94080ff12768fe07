--------------------------- MODULE DllCacheProofs ---------------------------
(* Proofs about DllCache for every value of the constants: the marker of a   *)
(* reference directory, one decompilation per type, and what is served.      *)
EXTENDS DllCache, WellFoundedInduction, TLAPS

-----------------------------------------------------------------------------
(* The outermost type around a name. *)

\* A set of names that is not empty has a shortest one.
LEMMA Shortest ==
    ASSUME NEW S, S \subseteq Seq(STRING), S # {}
    PROVE  \E p \in S : \A r \in S : Len(p) <= Len(r)
<1> DEFINE lengths == {Len(p) : p \in S}
<1>1. lengths \subseteq Nat /\ lengths # {}
  <2>1. \A p \in S : Len(p) \in Nat
    OBVIOUS
  <2>2. \A p \in S : Len(p) \in lengths
    OBVIOUS
  <2> QED
    BY <2>1, <2>2
<1>2. PICK m \in lengths : \A n \in lengths : ~ (<<n, m>> \in OpToRel(<, Nat))
  BY <1>1, WFMin, NatLessThanWellFounded, Zenon
<1>3. \A n \in lengths : m <= n
  <2> TAKE n \in lengths
  <2>1. ~ (n < m)
    BY <1>1, <1>2, Zenon DEF OpToRel
  <2> QED
    BY <1>1, <2>1
<1>4. PICK p \in S : m = Len(p)
  OBVIOUS
<1> QED
  BY <1>3, <1>4

Names == Entities \cup Asked

LEMMA NamesType == Names \subseteq Seq(STRING)
  BY DllAssumption DEF Names

\* OuterOf finds a name: the one asked for or an entity around it, and no
\* entity is around that one.
LEMMA OuterFound ==
    ASSUME NEW name \in Names
    PROVE  /\ OuterOf(name) \in Names
           /\ OuterOf(name) \in {name} \cup (ParentNames(name) \cap Entities)
           /\ ParentNames(OuterOf(name)) \cap Entities = {}
<1> DEFINE known == ParentNames(name) \cap Entities
<1>1. CASE known = {}
  BY <1>1 DEF OuterOf
<1>2. CASE known # {}
  <2>1. known \subseteq Seq(STRING)
    BY DllAssumption
  <2>2. \E p \in known : \A r \in known : Len(p) <= Len(r)
    BY <1>2, <2>1, Shortest
  <2> DEFINE p == OuterOf(name)
  <2>3. p = CHOOSE q \in known : \A r \in known : Len(q) <= Len(r)
    BY <1>2 DEF OuterOf
  <2>4. p \in known /\ \A r \in known : Len(p) <= Len(r)
    BY <2>2, <2>3
  <2>5. ParentNames(p) \cap Entities = {}
    <3> SUFFICES ASSUME NEW r \in ParentNames(p), r \in Entities
                 PROVE  FALSE
      OBVIOUS
    <3>1. PICK n \in 1..(Len(name) - 1) : p = SubSeq(name, 1, n)
      BY <2>4 DEF ParentNames
    <3>2. PICK k \in 1..(Len(p) - 1) : r = SubSeq(p, 1, k)
      BY DEF ParentNames
    <3>3. name \in Seq(STRING) /\ Len(name) \in Nat
      BY NamesType
    <3>4. Len(p) = n
      BY <3>1, <3>3
    <3>5. /\ r = SubSeq(name, 1, k) /\ k \in 1..(Len(name) - 1)
          /\ Len(r) = k /\ k < n
      <4>1. k \in 1..(n - 1)
        BY <3>2, <3>4
      <4>2. r = SubSeq(name, 1, k)
        BY <3>1, <3>2, <3>3, <3>4, <4>1
      <4> QED
        BY <3>3, <4>1, <4>2
    <3>6. r \in known
      BY <3>5 DEF ParentNames
    <3>7. Len(p) <= Len(r)
      BY <2>4, <3>6
    <3> QED
      BY <3>4, <3>5, <3>7
  <2> QED
    BY <2>4, <2>5 DEF Names
<1> QED
  BY <1>1, <1>2

LEMMA OuterAgain ==
    ASSUME NEW name \in Names
    PROVE  OuterOf(OuterOf(name)) = OuterOf(name)
  BY OuterFound DEF OuterOf

-----------------------------------------------------------------------------
(* Types, and what is true of a task on its own. *)

ShaAt(w) == ShaIn[w.build][w.dll]
KeyAt(w) == KeyOf(ShaAt(w), w.refs, w.name)
Beside(w) == Siblings(w.build, w.dll)

\* A task works on a DLL of its build, knows whether it has siblings, and
\* walks over outermost types only.
TaskTrue(w) ==
    w # Idle =>
      /\ w \in Work \cup Served
      /\ w.dll \in InBuild(w.build)
      /\ w.at = "ensure" => ~w.refs
      /\ w.at = "link" => Beside(w) # {} /\ w.left \subseteq Beside(w)
      /\ w.at \notin {"ensure", "link"} => (w.refs <=> Beside(w) # {})
      /\ w.at \in {"walk", "store"} => \A e \in w.todo : OuterOf(e) = e
      /\ w.at = "store" => OuterOf(w.name) = w.name

TasksTrue == \A t \in Tasks : TaskTrue(task[t])

LEMMA KeyType ==
    ASSUME NEW w, w \in Work \cup Served, w.dll \in InBuild(w.build)
    PROVE  ShaAt(w) \in Shas /\ KeyAt(w) \in Key
<1>1. /\ w.build \in Builds /\ w.dll \in Dlls
      /\ w.refs \in BOOLEAN /\ w.name \in Names
  BY DEF Work, Served, Names
<1>2. ShaAt(w) \in Shas
  BY <1>1, DllAssumption DEF ShaAt, InBuild
<1>3. OnDisk[OuterOf(w.name)] \in FileNames
  BY <1>1, OuterFound DEF FileNames, Names
<1> QED
  BY <1>1, <1>2, <1>3 DEF KeyAt, KeyOf, Key

\* One task moves and the others stay.
Moves(t, w) == task' = [task EXCEPT ![t] = w]

LEMMA MoveTyped ==
    ASSUME TypeOK, TasksTrue, NEW t \in Tasks, NEW w,
           Moves(t, w), TaskTrue(w), w \in {Idle} \cup Work \cup Served
    PROVE  /\ task' \in [Tasks -> {Idle} \cup Work \cup Served]
           /\ TasksTrue'
<1>1. task \in [Tasks -> {Idle} \cup Work \cup Served]
  BY DEF TypeOK
<1>2. \A u \in Tasks : task'[u] = IF u = t THEN w ELSE task[u]
  BY <1>1 DEF Moves
<1> QED
  BY <1>1, <1>2 DEF Moves, TasksTrue

\* Where a task is tells what it is.
LEMMA AtWork ==
    ASSUME TypeOK, TasksTrue, NEW t \in Tasks, ~At(t, "idle")
    PROVE  /\ task[t] \in Work \cup Served
           /\ ~At(t, "served") => task[t] \in Work
           /\ At(t, "served") => task[t] \in Served
           /\ task[t].dll \in InBuild(task[t].build)
           /\ task[t].at \notin {"ensure", "link"} =>
                (task[t].refs <=> Beside(task[t]) # {})
           /\ Sha(t) = ShaAt(task[t]) /\ Sha(t) \in Shas
           /\ KeyFor(t) = KeyAt(task[t]) /\ KeyFor(t) \in Key
<1>1. task[t] \in {Idle} \cup Work \cup Served
  BY DEF TypeOK
<1>2. task[t] # Idle
  BY DEF At, Idle
<1>3. TaskTrue(task[t])
  BY DEF TasksTrue
<1>4. /\ task[t] \in Work \cup Served
      /\ task[t].dll \in InBuild(task[t].build)
  BY <1>1, <1>2, <1>3 DEF TaskTrue
<1>5. Sha(t) = ShaAt(task[t]) /\ KeyFor(t) = KeyAt(task[t])
  BY DEF Sha, ShaAt, KeyFor, KeyAt
<1>6. ~At(t, "served") => task[t] \in Work
  BY <1>4 DEF At, Served
<1>7. At(t, "served") => task[t] \in Served
  BY <1>4 DEF At, Work
<1>8. task[t].at \notin {"ensure", "link"} => (task[t].refs <=> Beside(task[t]) # {})
  BY <1>2, <1>3 DEF TaskTrue
<1> QED
  BY <1>4, <1>5, <1>6, <1>7, <1>8, KeyType

-----------------------------------------------------------------------------
(* Every step moves one task to where it belongs. *)

Goal(t, places) ==
    \E w \in {Idle} \cup Work \cup Served :
      Moves(t, w) /\ TaskTrue(w) /\ w.at \in places

LEMMA RestsMoves ==
    ASSUME NEW t \in Tasks, Rests(t), NEW places, "idle" \in places
    PROVE  Goal(t, places)
<1>1. Idle.at \in places
  BY DEF Idle
<1>2. Moves(t, Idle) /\ TaskTrue(Idle)
  BY DEF Rests, Moves, TaskTrue
<1> QED
  BY <1>1, <1>2 DEF Goal

\* A task that goes on within a request, past its references.
LEMMA GoesMoves ==
    ASSUME TypeOK, TasksTrue, NEW t \in Tasks, task[t] \in Work,
           ~At(t, "idle"), ~At(t, "ensure"), ~At(t, "link"), ~At(t, "served"),
           NEW where \in {"miss", "locked", "run", "write", "bulk"}, Goes(t, where),
           NEW places, where \in places
    PROVE  Goal(t, places)
<1> DEFINE w == [task[t] EXCEPT !.at = where]
<1>1. w \in Work /\ w.at = where
  BY DEF Work
<1>2. w.build = task[t].build /\ w.dll = task[t].dll /\ w.refs = task[t].refs
  BY DEF Work
<1>3. Moves(t, w)
  BY DEF Goes, Moves
<1>4. TaskTrue(w)
  BY <1>1, <1>2, AtWork DEF TaskTrue, Beside, At
<1> QED
  BY <1>1, <1>3, <1>4 DEF Goal

LEMMA ServeMoves ==
    ASSUME TypeOK, TasksTrue, NEW t \in Tasks, task[t] \in Work,
           ~At(t, "idle"), ~At(t, "ensure"), ~At(t, "link"), ~At(t, "served"),
           NEW text \in Text, Serve(t, text), NEW places, "served" \in places
    PROVE  Goal(t, places)
<1> DEFINE w == [at |-> "served", build |-> task[t].build, dll |-> task[t].dll,
                 name |-> task[t].name, refs |-> task[t].refs, text |-> text]
<1>1. w \in Served /\ w.at = "served"
  BY DEF Work, Served
<1>2. Moves(t, w)
  BY DEF Serve, Moves
<1>3. TaskTrue(w)
  BY <1>1, AtWork DEF TaskTrue, Beside, At
<1> QED
  BY <1>1, <1>2, <1>3 DEF Goal

LEMMA OpenMoves ==
    ASSUME NEW t \in Tasks, NEW kind \in {"node", "warm"}, NEW b \in Builds,
           NEW d \in Dlls, NEW name \in Asked, Open(t, kind, b, d, name)
    PROVE  Goal(t, {"ensure"})
<1> DEFINE w == [at |-> "ensure", kind |-> kind, build |-> b, dll |-> d, name |-> name,
                 left |-> {}, refs |-> FALSE, todo |-> {}]
<1>1. w \in Work
  BY DEF Work
<1>2. Moves(t, w)
  BY DEF Open, Moves
<1>3. TaskTrue(w)
  BY <1>1 DEF TaskTrue, Open
<1> QED
  BY <1>1, <1>2, <1>3 DEF Goal

LEMMA EnsureMoves ==
    ASSUME TypeOK, TasksTrue, NEW t \in Tasks, Ensure(t)
    PROVE  Goal(t, {"ready", "link"})
<1>1. /\ task[t] \in Work
      /\ task[t].dll \in InBuild(task[t].build)
      /\ TaskTrue(task[t]) /\ task[t] # Idle
  BY AtWork DEF Ensure, At, TasksTrue, Idle
<1> DEFINE b == task[t].build
           beside == Siblings(b, task[t].dll)
<1>2. CASE beside = {}
  <2> DEFINE w == [task[t] EXCEPT !.at = "ready"]
  <2>1. /\ w \in Work /\ w.at = "ready"
        /\ w.build = b /\ w.dll = task[t].dll /\ w.refs = task[t].refs
    BY <1>1 DEF Work
  <2>2. Moves(t, w)
    BY <1>2 DEF Ensure, Moves
  <2>3. ~task[t].refs
    BY <1>1 DEF TaskTrue, Ensure, At
  <2>4. TaskTrue(w)
    BY <1>1, <1>2, <2>1, <2>3 DEF TaskTrue, Beside
  <2> QED
    BY <2>1, <2>2, <2>4 DEF Goal
<1>3. CASE beside # {} /\ MarkerFound(b)
  <2> DEFINE w == [task[t] EXCEPT !.at = "ready", !.refs = TRUE]
  <2>1. /\ w \in Work /\ w.at = "ready"
        /\ w.build = b /\ w.dll = task[t].dll /\ w.refs = TRUE
    BY <1>1 DEF Work
  <2>2. Moves(t, w)
    BY <1>3 DEF Ensure, Moves
  <2>4. TaskTrue(w)
    BY <1>1, <1>3, <2>1 DEF TaskTrue, Beside
  <2> QED
    BY <2>1, <2>2, <2>4 DEF Goal
<1>4. CASE beside # {} /\ ~MarkerFound(b)
  <2> DEFINE w == [task[t] EXCEPT !.at = "link", !.left = beside]
  <2>1. /\ w \in Work /\ w.at = "link" /\ w.left = beside
        /\ w.build = b /\ w.dll = task[t].dll
    BY <1>1 DEF Work, Siblings, InBuild
  <2>2. Moves(t, w)
    BY <1>4 DEF Ensure, Moves
  <2>4. TaskTrue(w)
    BY <1>1, <1>4, <2>1 DEF TaskTrue, Beside
  <2> QED
    BY <2>1, <2>2, <2>4 DEF Goal
<1> QED
  BY <1>2, <1>3, <1>4

LEMMA StayMoves ==
    ASSUME TypeOK, TasksTrue, NEW t \in Tasks, UNCHANGED task
    PROVE  Goal(t, {task[t].at})
<1>1. task' = [task EXCEPT ![t] = task[t]]
  BY DEF TypeOK
<1>2. task[t] \in {Idle} \cup Work \cup Served /\ TaskTrue(task[t])
  BY DEF TypeOK, TasksTrue
<1> QED
  BY <1>1, <1>2 DEF Goal, Moves

LEMMA LinkMoves ==
    ASSUME TypeOK, TasksTrue, NEW t \in Tasks,
           \/ \E d \in Dlls : LinkSibling(t, d)
           \/ WriteDone(t)
    PROVE  Goal(t, {"link", "ready"})
<1>1. /\ task[t] \in Work /\ task[t].at = "link"
      /\ TaskTrue(task[t]) /\ task[t] # Idle
  BY AtWork DEF LinkSibling, WriteDone, At, TasksTrue, Idle
<1>2. ASSUME NEW d \in Dlls, LinkSibling(t, d)
      PROVE  Goal(t, {"link", "ready"})
  <2> DEFINE w == [task[t] EXCEPT !.left = @ \ {d}]
  <2>1. /\ w \in Work /\ w.at = "link" /\ w.left = task[t].left \ {d}
        /\ w.build = task[t].build /\ w.dll = task[t].dll
    BY <1>1 DEF Work
  <2>2. Moves(t, w)
    BY <1>2 DEF LinkSibling, Moves
  <2>3. TaskTrue(w)
    BY <1>1, <2>1 DEF TaskTrue, Beside
  <2> QED
    BY <2>1, <2>2, <2>3 DEF Goal
<1>3. ASSUME WriteDone(t)
      PROVE  Goal(t, {"link", "ready"})
  <2> DEFINE w == [task[t] EXCEPT !.at = "ready", !.refs = TRUE]
  <2>1. /\ w \in Work /\ w.at = "ready" /\ w.refs
        /\ w.build = task[t].build /\ w.dll = task[t].dll
    BY <1>1 DEF Work
  <2>2. Moves(t, w)
    BY <1>3 DEF WriteDone, Moves
  <2>3. TaskTrue(w)
    BY <1>1, <2>1 DEF TaskTrue, Beside
  <2> QED
    BY <2>1, <2>2, <2>3 DEF Goal
<1> QED
  BY <1>2, <1>3

LEMMA DecompileMoves ==
    ASSUME TypeOK, TasksTrue, NEW t \in Tasks, 
           \/ Lookup(t) \/ Lock(t) \/ Relookup(t)
           \/ Decompile(t) \/ Write(t)
    PROVE  Goal(t, {"miss", "locked", "run", "write", "served"})
<1>1. /\ ~At(t, "idle") /\ ~At(t, "ensure") /\ ~At(t, "link") /\ ~At(t, "served")
  BY DEF Lookup, Lock, Relookup, Decompile, Write, At
<1>2. task[t] \in Work /\ KeyFor(t) \in Key /\ Sha(t) \in Shas
  BY <1>1, AtWork
<1>3. artifacts[KeyFor(t)] # None => artifacts[KeyFor(t)] \in Text
  BY <1>2 DEF TypeOK
<1>4. CASE Lookup(t)
  <2> DEFINE places == {"miss", "locked", "run", "write", "served"}
  <2>1. "miss" \in places /\ "served" \in places
    OBVIOUS
  <2> HIDE DEF places
  <2>2. Goal(t, places)
    BY <1>1, <1>2, <1>3, <1>4, <2>1, GoesMoves, ServeMoves DEF Lookup
  <2> QED
    BY <2>2 DEF places
<1>5. CASE Lock(t)
  BY <1>1, <1>2, <1>5, GoesMoves DEF Lock
<1>6. CASE Relookup(t)
  BY <1>1, <1>2, <1>3, <1>6, GoesMoves, ServeMoves DEF Relookup, FoundUnderLock
<1>7. CASE Decompile(t)
  BY <1>1, <1>2, <1>7, GoesMoves DEF Decompile
<1>8. CASE Write(t)
  <2>1. TextNow(t, OuterOf(task[t].name)) \in Text
    BY <1>2, OuterFound DEF TextNow, Text, Work, Names
  <2> QED
    BY <1>1, <1>2, <1>8, <2>1, ServeMoves DEF Write
<1> QED
  BY <1>4, <1>5, <1>6, <1>7, <1>8

LEMMA WarmMoves ==
    ASSUME TypeOK, TasksTrue, NEW t \in Tasks, 
           \/ Warm(t) \/ BulkRun(t) \/ WalkStore(t) \/ WalkSkips(t)
           \/ \E e \in Entities : WalkNext(t, e)
    PROVE  Goal(t, {"idle", "bulk", "walk", "store"})
<1>1. ~At(t, "idle") /\ ~At(t, "ensure") /\ ~At(t, "link") /\ ~At(t, "served")
  BY DEF Warm, BulkRun, WalkStore, WalkSkips, WalkNext, At
<1>2. task[t] \in Work /\ TaskTrue(task[t]) /\ task[t] # Idle
  BY <1>1, AtWork DEF TasksTrue, At, Idle
<1>3. CASE Warm(t)
  BY <1>1, <1>2, <1>3, GoesMoves, RestsMoves DEF Warm
<1>4. CASE BulkRun(t)
  <2> DEFINE w == [task[t] EXCEPT !.at = "walk", !.todo = {e \in Entities : OuterOf(e) = e}]
  <2>1. /\ w \in Work /\ w.at = "walk"
        /\ w.todo = {e \in Entities : OuterOf(e) = e}
        /\ w.build = task[t].build /\ w.dll = task[t].dll /\ w.refs = task[t].refs
    BY <1>2 DEF Work
  <2>2. Moves(t, w)
    BY <1>4 DEF BulkRun, Moves
  <2>3. TaskTrue(w)
    BY <1>1, <1>2, <2>1 DEF TaskTrue, Beside, At
  <2> QED
    BY <2>1, <2>2, <2>3 DEF Goal
<1>5. CASE WalkStore(t) \/ WalkSkips(t)
  <2> DEFINE w == [task[t] EXCEPT !.at = "walk"]
  <2>1. /\ w \in Work /\ w.at = "walk" /\ w.todo = task[t].todo
        /\ w.build = task[t].build /\ w.dll = task[t].dll /\ w.refs = task[t].refs
    BY <1>2 DEF Work
  <2>2. Moves(t, w) /\ task[t].at = "store"
    BY <1>5 DEF WalkStore, WalkSkips, Goes, Moves, At
  <2>3. TaskTrue(w)
    BY <1>1, <1>2, <2>1, <2>2 DEF TaskTrue, Beside, At
  <2> QED
    BY <2>1, <2>2, <2>3 DEF Goal
<1>6. ASSUME NEW e \in Entities, WalkNext(t, e)
      PROVE  Goal(t, {"idle", "bulk", "walk", "store"})
  <2> DEFINE there == artifacts[KeyOf(Sha(t), task[t].refs, e)] # None
             w == [task[t] EXCEPT !.todo = @ \ {e}, !.name = e,
                                  !.at = IF there THEN "walk" ELSE "store"]
  <2>1. /\ w \in Work /\ w.at \in {"walk", "store"} /\ w.todo = task[t].todo \ {e}
        /\ w.build = task[t].build /\ w.dll = task[t].dll /\ w.refs = task[t].refs
        /\ w.name = e
    BY <1>2 DEF Work
  <2>2. Moves(t, w) /\ task[t].at = "walk" /\ e \in task[t].todo
    BY <1>6 DEF WalkNext, Moves, At
  <2>3. TaskTrue(w)
    BY <1>1, <1>2, <2>1, <2>2 DEF TaskTrue, Beside, At
  <2> QED
    BY <2>1, <2>2, <2>3 DEF Goal
<1> QED
  BY <1>3, <1>4, <1>5, <1>6

\* Steps that neither fill a directory nor hold a lock nor serve.
Aside(t) ==
    \/ \E kind \in {"node", "warm"}, b \in Builds, d \in Dlls, name \in Asked :
         Open(t, kind, b, d, name)
    \/ LinkFails(t) \/ Refuse(t) \/ DecompileFails(t) \/ WriteFails(t) \/ BulkFails(t)
    \/ WalkEnds(t) \/ Close(t) \/ Warm(t) \/ BulkRun(t)
    \/ WalkStore(t) \/ WalkSkips(t)
    \/ \E e \in Entities : WalkNext(t, e)

Elsewhere == {"idle", "ensure", "bulk", "walk", "store"}

LEMMA AsideMoves ==
    ASSUME TypeOK, TasksTrue, NEW t \in Tasks, Aside(t)
    PROVE  Goal(t, Elsewhere)
<1>1. CASE \E kind \in {"node", "warm"}, b \in Builds, d \in Dlls, name \in Asked :
             Open(t, kind, b, d, name)
  <2>1. Goal(t, {"ensure"})
    BY <1>1, OpenMoves
  <2> QED
    BY <2>1 DEF Goal, Elsewhere
<1>2. CASE \/ LinkFails(t) \/ Refuse(t) \/ DecompileFails(t) \/ WriteFails(t)
           \/ BulkFails(t) \/ WalkEnds(t) \/ Close(t)
  <2>1. Goal(t, {"idle"})
    BY <1>2, RestsMoves DEF LinkFails, Refuse, DecompileFails, WriteFails, BulkFails, WalkEnds,
                         Close, Cooled
  <2> QED
    BY <2>1 DEF Goal, Elsewhere
<1>3. CASE \/ Warm(t) \/ BulkRun(t) \/ WalkStore(t) \/ WalkSkips(t)
           \/ \E e \in Entities : WalkNext(t, e)
  <2>1. Goal(t, {"idle", "bulk", "walk", "store"})
    BY <1>3, WarmMoves
  <2> QED
    BY <2>1 DEF Goal, Elsewhere
<1> QED
  BY <1>1, <1>2, <1>3 DEF Aside

LEMMA StepIs ==
    ASSUME NEW t \in Tasks, Step(t)
    PROVE  \/ Aside(t)
           \/ \E d \in Dlls : FetchBlob(t, d) \/ LinkSibling(t, d)
           \/ Ensure(t) \/ WriteDone(t)
           \/ Lookup(t) \/ Lock(t) \/ Relookup(t) \/ Decompile(t) \/ Write(t)
  BY DEF Step, Aside

LEMMA StepMoves ==
    ASSUME TypeOK, TasksTrue, NEW t \in Tasks, Step(t)
    PROVE  \E places : Goal(t, places)
<1>1. CASE Aside(t)
  BY <1>1, AsideMoves
<1>2. CASE \E d \in Dlls : FetchBlob(t, d)
  BY <1>2, StayMoves DEF FetchBlob
<1>3. CASE Ensure(t)
  BY <1>3, EnsureMoves
<1>4. CASE WriteDone(t) \/ \E d \in Dlls : LinkSibling(t, d)
  BY <1>4, LinkMoves
<1>5. CASE Lookup(t) \/ Lock(t) \/ Relookup(t) \/ Decompile(t) \/ Write(t)
  BY <1>5, DecompileMoves
<1> QED
  BY <1>1, <1>2, <1>3, <1>4, <1>5, StepIs

-----------------------------------------------------------------------------
(* Types of the rest. *)

DiskTyped ==
    /\ pool \subseteq Shas
    /\ linked \in [Builds -> SUBSET Dlls]
    /\ done \subseteq Builds
    /\ artifacts \in [Key -> Text \cup {None}]

MemoryTyped ==
    /\ stripe \subseteq Key
    /\ warming \subseteq Shas \X BOOLEAN
    /\ decompiled \in [Key -> Int]
    /\ failures \in 0..MaxFailures
    /\ crashes \in 0..MaxCrashes

\* The actions on the disk.
LEMMA DiskNext ==
    ASSUME TypeOK, TasksTrue, NEW t \in Tasks, Step(t)
    PROVE  DiskTyped'
<1> USE DEF DiskTyped
<1>0. DiskTyped
  BY DEF TypeOK
<1>1. ASSUME NEW d \in Dlls, FetchBlob(t, d) \/ LinkSibling(t, d)
      PROVE  DiskTyped'
  <2>1. task[t] \in Work /\ At(t, "link")
    BY <1>1, AtWork DEF FetchBlob, LinkSibling, At
  <2>2. /\ d \in Dlls /\ d \in task[t].left /\ task[t].build \in Builds
    BY <1>1, <2>1 DEF FetchBlob, LinkSibling, Work
  <2>3. CASE FetchBlob(t, d)
    <3>1. d \in Siblings(task[t].build, task[t].dll)
      BY <2>1, <2>2 DEF TasksTrue, TaskTrue, Beside, At, Idle
    <3>2. ShaIn[task[t].build][d] \in Shas
      BY <2>2, <3>1, DllAssumption DEF Siblings, InBuild
    <3> QED
      BY <1>0, <2>3, <3>2 DEF FetchBlob
  <2>4. CASE LinkSibling(t, d)
    BY <1>0, <2>2, <2>4 DEF LinkSibling
  <2> QED
    BY <1>1, <2>3, <2>4
<1>2. CASE WriteDone(t)
  <2>1. task[t] \in Work
    BY <1>2, AtWork DEF WriteDone, At
  <2> QED
    BY <1>0, <1>2, <2>1 DEF WriteDone, Work
<1>3. CASE Write(t)
  <2>1. task[t] \in Work /\ KeyFor(t) \in Key /\ Sha(t) \in Shas
    BY <1>3, AtWork DEF Write, At
  <2>2. TextNow(t, OuterOf(task[t].name)) \in Text
    BY <2>1, OuterFound DEF TextNow, Text, Work, Names
  <2> QED
    BY <1>0, <1>3, <2>1, <2>2 DEF Write
<1>4. CASE WalkStore(t)
  <2>1. task[t] \in Work /\ KeyFor(t) \in Key /\ Sha(t) \in Shas
    BY <1>4, AtWork DEF WalkStore, At
  <2>2. TextNow(t, task[t].name) \in Text
    BY <2>1 DEF TextNow, Text, Work
  <2> QED
    BY <1>0, <1>4, <2>1, <2>2 DEF WalkStore
<1>5. CASE UNCHANGED diskVars
  BY <1>0, <1>5 DEF diskVars
<1> QED
  BY <1>1, <1>2, <1>3, <1>4, <1>5
  DEF Step, Open, Ensure, LinkFails, Refuse, Lookup, Lock, Relookup, Decompile,
      DecompileFails, WriteFails, Warm, BulkRun, BulkFails, WalkNext, WalkSkips, WalkEnds, Close

LEMMA MemoryNext ==
    ASSUME TypeOK, TasksTrue, NEW t \in Tasks, Step(t)
    PROVE  MemoryTyped'
<1> USE DEF MemoryTyped
<1>0. MemoryTyped
  BY DEF TypeOK
<1>1. CASE Lock(t)
  BY <1>0, <1>1, AtWork DEF Lock, At, countVars
<1>2. CASE Relookup(t) \/ Write(t)
  BY <1>0, <1>2 DEF Relookup, Write, Unlock, countVars
<1>3. CASE Decompile(t) \/ WriteFails(t)
  <2>1. KeyFor(t) \in Key
    BY <1>3, AtWork DEF Decompile, WriteFails, At
  <2>2. decompiled' \in [Key -> Int]
    BY <1>0, <1>3, <2>1 DEF Decompile, WriteFails
  <2> QED
    BY <1>0, <1>3, <2>2, DllAssumption DEF Decompile, WriteFails, Unlock, lockVars
<1>4. CASE DecompileFails(t) \/ LinkFails(t) \/ BulkFails(t) \/ WalkSkips(t)
  BY <1>0, <1>4, DllAssumption
  DEF DecompileFails, LinkFails, BulkFails, WalkSkips, Unlock, Cooled, lockVars
<1>5. CASE Warm(t)
  <2>1. Sha(t) \in Shas /\ task[t].refs \in BOOLEAN
    BY <1>5, AtWork DEF Warm, At, Work
  <2> QED
    BY <1>0, <1>5, <2>1 DEF Warm, WarmKey, countVars
<1>6. CASE WalkEnds(t)
  BY <1>0, <1>6 DEF WalkEnds, Cooled, countVars
<1>7. CASE UNCHANGED <<lockVars, countVars>>
  BY <1>0, <1>7 DEF lockVars, countVars
<1>8. CASE \E d \in Dlls : LinkSibling(t, d) \/ FetchBlob(t, d)
  BY <1>7, <1>8 DEF LinkSibling, FetchBlob
<1>9. CASE WriteDone(t) \/ WalkStore(t)
  BY <1>7, <1>9 DEF WriteDone, WalkStore
<1> QED
  BY <1>1, <1>2, <1>3, <1>4, <1>5, <1>6, <1>7, <1>8, <1>9
  DEF Step, Open, Ensure, Refuse, Lookup, BulkRun, WalkNext, Close

Typed == TypeOK /\ TasksTrue

LEMMA TypedInit == Init => Typed
  BY DllAssumption DEF Init, Typed, TypeOK, TasksTrue, TaskTrue

LEMMA TypedNext == Typed /\ [Next]_vars => Typed'
<1> SUFFICES ASSUME Typed, [Next]_vars
             PROVE  Typed'
  OBVIOUS
<1> USE DEF Typed
<1>1. ASSUME NEW t \in Tasks, Step(t)
      PROVE  Typed'
  <2>1. /\ task' \in [Tasks -> {Idle} \cup Work \cup Served]
        /\ TasksTrue'
    BY <1>1, StepMoves, MoveTyped DEF Goal
  <2> QED
    BY <1>1, <2>1, DiskNext, MemoryNext DEF TypeOK, DiskTyped, MemoryTyped
<1>2. CASE Crash
  <2>1. /\ task' \in [Tasks -> {Idle} \cup Work \cup Served]
        /\ TasksTrue'
    BY <1>2 DEF Crash, TasksTrue, TaskTrue
  <2>2. crashes' \in 0..MaxCrashes
    BY <1>2, DllAssumption DEF Crash, TypeOK
  <2>3. decompiled' \in [Key -> Int]
    <3>1. \A k \in Key : (decompiled[k] - IF Unwritten(k) THEN 1 ELSE 0) \in Int
      BY DEF TypeOK
    <3> QED
      BY <1>2, <3>1 DEF Crash
  <2> QED
    BY <1>2, <2>1, <2>2, <2>3 DEF Crash, TypeOK, diskVars
<1>3. CASE UNCHANGED vars
  BY <1>3 DEF vars, diskVars, lockVars, countVars, TypeOK, TasksTrue
<1> QED
  BY <1>1, <1>2, <1>3 DEF Next

\* Every variable stays in its domain, and a task in what its place says of it.
THEOREM DllTypeCorrect == Spec => []TypeOK
<1>1. Spec => []Typed
  BY TypedInit, TypedNext, PTL DEF Spec
<1>2. Typed => TypeOK
  BY DEF Typed
<1> QED
  BY <1>1, <1>2, PTL

-----------------------------------------------------------------------------
(* The marker.  A call that fills a directory has linked what it has left    *)
(* behind; links and blobs are never removed.                                *)

LinkProgress ==
    \A t \in Tasks : At(t, "link") =>
      Beside(task[t]) \ task[t].left \subseteq linked[task[t].build]

LinksInv == Typed /\ LinkProgress /\ DoneAfterLinks

\* A step that leaves the directories alone and fills none.
LEMMA LinksStay ==
    ASSUME LinksInv, Typed', NEW t \in Tasks, UNCHANGED <<pool, linked, done>>,
           NEW w, Moves(t, w), w.at = "link" => Beside(w) \ w.left = {}
    PROVE  LinksInv'
<1>1. \A u \in Tasks : task'[u] = IF u = t THEN w ELSE task[u]
  BY DEF LinksInv, Typed, TypeOK, Moves
<1>2. LinkProgress'
  BY <1>1 DEF LinksInv, LinkProgress, At
<1> QED
  BY <1>2 DEF LinksInv, DoneAfterLinks

LEMMA LinksStayAt ==
    ASSUME LinksInv, Typed', NEW t \in Tasks, UNCHANGED <<pool, linked, done>>,
           NEW places, Goal(t, places), "link" \notin places
    PROVE  LinksInv'
  BY LinksStay DEF Goal

LEMMA LinksNext == LinksInv /\ [Next]_vars => LinksInv'
<1> SUFFICES ASSUME LinksInv, [Next]_vars
             PROVE  LinksInv'
  OBVIOUS
<1>0. Typed /\ Typed' /\ TypeOK /\ TasksTrue
  BY TypedNext DEF LinksInv, Typed
<1>1. ASSUME NEW t \in Tasks, Step(t)
      PROVE  LinksInv'
  <2>1. CASE Aside(t)
    <3>1. Goal(t, Elsewhere) /\ "link" \notin Elsewhere
      BY <1>0, <2>1, AsideMoves DEF Elsewhere
    <3>2. UNCHANGED <<pool, linked, done>>
      BY <2>1 DEF Aside, Open, LinkFails, Refuse, DecompileFails, WriteFails, BulkFails,
                  WalkEnds, Close, Warm, BulkRun, WalkStore, WalkSkips, WalkNext, diskVars
    <3> QED
      BY <1>0, <3>1, <3>2, LinksStayAt
  <2>2. CASE Lookup(t) \/ Lock(t) \/ Relookup(t) \/ Decompile(t) \/ Write(t)
    <3>1. Goal(t, {"miss", "locked", "run", "write", "served"})
      BY <1>0, <2>2, DecompileMoves
    <3>2. UNCHANGED <<pool, linked, done>>
      BY <2>2 DEF Lookup, Lock, Relookup, Decompile, Write, diskVars
    <3> QED
      BY <1>0, <3>1, <3>2, LinksStayAt
  <2>3. CASE Ensure(t)
    <3> DEFINE b == task[t].build
               beside == Siblings(b, task[t].dll)
    <3>1. UNCHANGED <<pool, linked, done>> /\ task[t] \in Work
      BY <1>0, <2>3, AtWork DEF Ensure, diskVars, At
    <3>2. CASE beside # {} /\ ~MarkerFound(b)
      <4> DEFINE w == [task[t] EXCEPT !.at = "link", !.left = beside]
      <4>1. Moves(t, w)
        BY <2>3, <3>2 DEF Ensure, Moves
      <4>2. w.left = beside /\ w.build = b /\ w.dll = task[t].dll
        BY <3>1 DEF Work
      <4>3. Beside(w) \ w.left = {}
        BY <4>2 DEF Beside
      <4> QED
        BY <1>0, <3>1, <4>1, <4>3, LinksStay
    <3>3. CASE beside = {}
      <4> DEFINE w == [task[t] EXCEPT !.at = "ready"]
      <4>1. Moves(t, w) /\ w.at # "link"
        BY <2>3, <3>1, <3>3 DEF Ensure, Moves, Work
      <4> QED
        BY <1>0, <3>1, <4>1, LinksStay
    <3>4. CASE beside # {} /\ MarkerFound(b)
      <4> DEFINE w == [task[t] EXCEPT !.at = "ready", !.refs = TRUE]
      <4>1. Moves(t, w)
        BY <2>3, <3>4 DEF Ensure, Moves
      <4>2. w.at # "link"
        BY <3>1 DEF Work
      <4> QED
        BY <1>0, <3>1, <4>1, <4>2, LinksStay
    <3> QED
      BY <3>2, <3>3, <3>4
  <2>4. ASSUME NEW d \in Dlls, FetchBlob(t, d)
        PROVE  LinksInv'
    BY <1>0, <2>4 DEF FetchBlob, LinksInv, LinkProgress, DoneAfterLinks, At
  <2>5. ASSUME NEW d \in Dlls, LinkSibling(t, d)
        PROVE  LinksInv'
    <3> DEFINE w == [task[t] EXCEPT !.left = @ \ {d}]
               b == task[t].build
    <3>1. task[t] \in Work /\ b \in Builds /\ task[t].at = "link" /\ d \in task[t].left
      BY <1>0, <2>5, AtWork DEF LinkSibling, At, Work
    <3>2. task' = [task EXCEPT ![t] = w]
      BY <2>5 DEF LinkSibling
    <3>3. w.build = b /\ Beside(w) = Beside(task[t]) /\ w.left = task[t].left \ {d}
      BY <3>1 DEF Work, Beside
    <3> HIDE DEF w
    <3>4. \A u \in Tasks : task'[u] = IF u = t THEN w ELSE task[u]
      BY <1>0, <3>2 DEF TypeOK
    <3>5. /\ \A c \in Builds : linked'[c] = IF c = b THEN linked[b] \cup {d} ELSE linked[c]
          /\ ShaIn[b][d] \in pool
          /\ UNCHANGED <<pool, done>>
      BY <1>0, <2>5, <3>1 DEF LinkSibling, TypeOK
    <3>6. LinkProgress'
      <4> SUFFICES ASSUME NEW u \in Tasks, At(u, "link")'
                   PROVE  Beside(task'[u]) \ task'[u].left \subseteq linked'[task'[u].build]
        BY DEF LinkProgress
      <4>1. CASE u = t
        <5>1. Beside(task[t]) \ task[t].left \subseteq linked[b]
          BY <3>1 DEF LinksInv, LinkProgress, At
        <5> QED
          BY <3>1, <3>3, <3>4, <3>5, <4>1, <5>1
      <4>2. CASE u # t
        <5>1. task'[u] = task[u] /\ At(u, "link")
          BY <3>4, <4>2 DEF At
        <5>2. Beside(task[u]) \ task[u].left \subseteq linked[task[u].build]
          BY <5>1 DEF LinksInv, LinkProgress
        <5>3. task[u].build \in Builds
          BY <1>0, <5>1, AtWork DEF At, Work
        <5> QED
          BY <3>5, <5>1, <5>2, <5>3
      <4> QED
        BY <4>1, <4>2
    <3>7. DoneAfterLinks'
      <4>1. \A c \in Builds : linked[c] \subseteq linked'[c]
        BY <3>5
      <4>2. \A c \in done' : \E e \in InBuild(c) : Siblings(c, e) \subseteq linked'[c]
        BY <1>0, <3>5, <4>1 DEF LinksInv, DoneAfterLinks, TypeOK
      <4>3. \A c \in Builds : \A e \in linked'[c] : ShaIn[c][e] \in pool'
        BY <3>5 DEF LinksInv, DoneAfterLinks
      <4> QED
        BY <4>2, <4>3 DEF DoneAfterLinks
    <3> QED
      BY <1>0, <3>6, <3>7 DEF LinksInv
  <2>6. CASE WriteDone(t)
    <3> DEFINE w == [task[t] EXCEPT !.at = "ready", !.refs = TRUE]
               b == task[t].build
    <3>1. task[t] \in Work /\ b \in Builds /\ task[t].dll \in InBuild(b)
      BY <1>0, <2>6, AtWork DEF WriteDone, At, Work
    <3>2. Moves(t, w) /\ w.at # "link"
      <4>1. Moves(t, w)
        BY <2>6 DEF WriteDone, Moves
      <4>2. w.at = "ready"
        BY <3>1 DEF Work
      <4> QED
        BY <4>1, <4>2
    <3> HIDE DEF w
    <3>3. \A u \in Tasks : task'[u] = IF u = t THEN w ELSE task[u]
      BY <1>0, <3>2 DEF TypeOK, Moves
    <3>4. LinkProgress'
      BY <2>6, <3>2, <3>3 DEF LinksInv, LinkProgress, At, WriteDone
    <3>5. Siblings(b, task[t].dll) \subseteq linked[b]
      BY <2>6 DEF WriteDone, AllLinked, LinksInv, LinkProgress, Beside
    <3>6. DoneAfterLinks'
      BY <2>6, <3>1, <3>5 DEF LinksInv, DoneAfterLinks, WriteDone
    <3> QED
      BY <1>0, <3>4, <3>6 DEF LinksInv
  <2> QED
    BY <1>1, <2>1, <2>2, <2>3, <2>4, <2>5, <2>6, StepIs
<1>2. CASE Crash
  <2>1. LinkProgress'
    BY <1>2 DEF Crash, LinkProgress, At, Idle
  <2> QED
    BY <1>0, <1>2, <2>1 DEF Crash, diskVars, LinksInv, DoneAfterLinks
<1>3. CASE UNCHANGED vars
  BY <1>0, <1>3 DEF vars, diskVars, LinksInv, LinkProgress, DoneAfterLinks, At
<1> QED
  BY <1>1, <1>2, <1>3 DEF Next

\* However calls, failures and restarts interleave, the marker of a reference
\* directory is written when at most the DLL of its writer is missing there,
\* and every link has its blob in the pool.
THEOREM MarkersHonest == Spec => []DoneAfterLinks
<1>1. Init => LinksInv
  BY TypedInit DEF Init, LinksInv, LinkProgress, DoneAfterLinks, At, Idle
<1>2. LinksInv => DoneAfterLinks
  BY DEF LinksInv
<1> QED
  BY <1>1, <1>2, LinksNext, PTL DEF Spec

-----------------------------------------------------------------------------
(* One decompilation per file name.  A task past Lock has its key to itself  *)
(* until it unlocks; it runs only for a key that has no text under that      *)
(* lock, and a text once written stays.  Between the run and the write the   *)
(* text is with the task that holds the lock.                                *)

Holds(w) == w.at \in {"locked", "run", "write"}

Pending(k) == \E t \in Tasks : task[t].at = "write" /\ KeyAt(task[t]) = k

HoldersLocked == \A t \in Tasks : Holds(task[t]) => KeyAt(task[t]) \in stripe

HoldersApart ==
    \A t, u \in Tasks :
      /\ Holds(task[t]) /\ Holds(task[u])
      /\ KeyAt(task[t]) = KeyAt(task[u])
      => t = u

TextAfterRun ==
    \A k \in Key :
      /\ decompiled[k] <= 1
      /\ artifacts[k] = None => decompiled[k] = 0 \/ Pending(k)

RunIsFirst ==
    \A t \in Tasks :
      /\ task[t].at = "run" => decompiled[KeyAt(task[t])] = 0
      /\ task[t].at = "write" => decompiled[KeyAt(task[t])] = 1

LockInv == Typed /\ HoldersLocked /\ HoldersApart /\ TextAfterRun /\ RunIsFirst

\* The lock of a task is that of its key alone.
LEMMA HolderAlone ==
    ASSUME LockInv, NEW t \in Tasks, Holds(task[t]), NEW u \in Tasks, u # t,
           Holds(task[u])
    PROVE  KeyAt(task[u]) # KeyAt(task[t])
  BY DEF LockInv, HoldersApart

\* What a task with a lock works on is a key.
LEMMA HoldersKeep ==
    ASSUME LockInv, NEW t \in Tasks, Holds(task[t])
    PROVE  KeyAt(task[t]) \in Key
  BY AtWork DEF LockInv, Typed, Holds, At

\* A step that ends without a lock, and gives back at most its own.
LEMMA LockReleased ==
    ASSUME LockInv, Typed', NEW t \in Tasks, NEW places, Goal(t, places),
           "locked" \notin places, "run" \notin places, "write" \notin places,
           task[t].at = "write" => artifacts'[KeyAt(task[t])] # None,
           \A k \in stripe : k \in stripe' \/ (Holds(task[t]) /\ k = KeyAt(task[t])),
           decompiled' = decompiled,
           \A k \in Key : artifacts'[k] = None => artifacts[k] = None
    PROVE  LockInv'
<1>1. PICK w : Moves(t, w) /\ ~Holds(w)
  BY DEF Goal, Holds
<1>2. \A u \in Tasks : task'[u] = IF u = t THEN w ELSE task[u]
  BY <1>1 DEF LockInv, Typed, TypeOK, Moves
<1>3. \A u \in Tasks : Holds(task'[u]) => u # t /\ Holds(task[u]) /\ task'[u] = task[u]
  BY <1>1, <1>2
<1>4. HoldersLocked'
  BY <1>3 DEF LockInv, HoldersLocked, HoldersApart
<1>5. HoldersApart'
  BY <1>3 DEF LockInv, HoldersApart
<1>6. TextAfterRun'
  <2>1. ASSUME NEW k \in Key, artifacts'[k] = None, Pending(k)
        PROVE  Pending(k)'
    <3>1. PICK u \in Tasks : task[u].at = "write" /\ KeyAt(task[u]) = k
      BY <2>1 DEF Pending
    <3>2. task'[u] = task[u]
      BY <1>2, <2>1, <3>1
    <3> QED
      BY <3>1, <3>2 DEF Pending
  <2> QED
    BY <2>1 DEF LockInv, TextAfterRun
<1>7. RunIsFirst'
  BY <1>3 DEF LockInv, RunIsFirst, Holds
<1> QED
  BY <1>4, <1>5, <1>6, <1>7 DEF LockInv

\* The text of a key that had none, or another text: artifacts are not removed.
LEMMA TextsStay ==
    ASSUME TypeOK, TasksTrue, NEW t \in Tasks, Step(t), NEW k \in Key, artifacts'[k] = None
    PROVE  artifacts[k] = None
<1>1. CASE Write(t)
  <2>1. task[t] \in Work /\ KeyFor(t) \in Key /\ Sha(t) \in Shas
    BY <1>1, AtWork DEF Write, At
  <2>2. TextNow(t, OuterOf(task[t].name)) \in Text
    BY <2>1, OuterFound DEF TextNow, Text, Work, Names
  <2> QED
    BY <1>1, <2>1, <2>2, NoneAssumption DEF Write, TypeOK
<1>2. CASE WalkStore(t)
  <2>1. task[t] \in Work /\ KeyFor(t) \in Key /\ Sha(t) \in Shas
    BY <1>2, AtWork DEF WalkStore, At
  <2>2. TextNow(t, task[t].name) \in Text
    BY <2>1 DEF TextNow, Text, Work
  <2> QED
    BY <1>2, <2>1, <2>2, NoneAssumption DEF WalkStore, TypeOK
<1>3. CASE artifacts' = artifacts
  BY <1>3
<1> QED
  BY <1>1, <1>2, <1>3
  DEF Step, Open, Ensure, FetchBlob, LinkSibling, WriteDone, LinkFails, Refuse, Lookup, Lock,
      Relookup, Decompile, DecompileFails, WriteFails, Warm, BulkRun, BulkFails, WalkNext,
      WalkSkips, WalkEnds, Close, diskVars

LEMMA LockNext == LockInv /\ [Next]_vars => LockInv'
<1> SUFFICES ASSUME LockInv, [Next]_vars
             PROVE  LockInv'
  OBVIOUS
<1>0. Typed /\ Typed' /\ TypeOK /\ TasksTrue
  BY TypedNext DEF LockInv, Typed
<1>1. ASSUME NEW t \in Tasks, Step(t)
      PROVE  LockInv'
  <2>0. \A k \in Key : artifacts'[k] = None => artifacts[k] = None
    BY <1>0, <1>1, TextsStay
  <2>1. CASE DecompileFails(t)
    <3>1. Goal(t, {"idle"}) /\ decompiled' = decompiled
      BY <2>1, RestsMoves DEF DecompileFails
    <3>2. /\ Holds(task[t]) /\ stripe' = stripe \ {KeyAt(task[t])}
          /\ task[t].at # "write"
      BY <1>0, <2>1, AtWork DEF DecompileFails, Unlock, Holds, At
    <3> QED
      BY <1>0, <2>0, <3>1, <3>2, LockReleased
  <2>2. CASE Aside(t) /\ ~DecompileFails(t) /\ ~WriteFails(t)
    <3>1. /\ Goal(t, Elsewhere) /\ "locked" \notin Elsewhere
          /\ "run" \notin Elsewhere /\ "write" \notin Elsewhere
      BY <1>0, <2>2, AsideMoves DEF Elsewhere
    <3>2. UNCHANGED <<stripe, decompiled>> /\ task[t].at # "write"
      BY <2>2 DEF Aside, Open, LinkFails, Refuse, BulkFails, WalkEnds, Close, Warm,
                  BulkRun, WalkStore, WalkSkips, WalkNext, lockVars, countVars, At
    <3> QED
      BY <1>0, <2>0, <3>1, <3>2, LockReleased
  <2>3. CASE Ensure(t) \/ WriteDone(t) \/ \E d \in Dlls : LinkSibling(t, d)
    <3>1. Goal(t, {"ready", "link"})
      BY <1>0, <2>3, EnsureMoves, LinkMoves
    <3>2. UNCHANGED <<stripe, decompiled>> /\ task[t].at # "write"
      BY <2>3 DEF Ensure, WriteDone, LinkSibling, lockVars, countVars, At
    <3> QED
      BY <1>0, <2>0, <3>1, <3>2, LockReleased
  <2>4. CASE \E d \in Dlls : FetchBlob(t, d)
    <3>1. UNCHANGED <<stripe, decompiled, task, artifacts>>
      BY <2>4 DEF FetchBlob, lockVars, countVars
    <3> QED
      BY <1>0, <3>1 DEF LockInv, HoldersLocked, HoldersApart, TextAfterRun, RunIsFirst, Pending
  <2>5. CASE Lookup(t)
    <3> DEFINE w == [task[t] EXCEPT !.at = "miss"]
    <3>1. task[t] \in Work
      BY <1>0, <2>5, AtWork DEF Lookup, At
    <3>2. w.at = "miss"
      BY <3>1 DEF Work
    <3>3. UNCHANGED <<stripe, decompiled>> /\ task[t].at # "write"
      BY <2>5 DEF Lookup, lockVars, countVars, At
    <3>4. Goal(t, {"miss", "served"})
      <4>1. artifacts[KeyFor(t)] # None => artifacts[KeyFor(t)] \in Text
        BY <1>0, <2>5, AtWork DEF TypeOK, Lookup, At
      <4>2. ~At(t, "idle") /\ ~At(t, "ensure") /\ ~At(t, "link") /\ ~At(t, "served")
        BY <2>5 DEF Lookup, At
      <4> DEFINE places == {"miss", "served"}
      <4>3. "miss" \in places /\ "served" \in places
        OBVIOUS
      <4> HIDE DEF places
      <4>4. Goal(t, places)
        BY <1>0, <2>5, <3>1, <4>1, <4>2, <4>3, GoesMoves, ServeMoves DEF Lookup
      <4> QED
        BY <4>4 DEF places
    <3> QED
      BY <1>0, <2>0, <3>3, <3>4, LockReleased
  <2>6. CASE Lock(t)
    <3> DEFINE w == [task[t] EXCEPT !.at = "locked"]
    <3>1. task[t] \in Work /\ KeyFor(t) = KeyAt(task[t])
      BY <1>0, <2>6, AtWork DEF Lock, At
    <3>2. Moves(t, w)
      BY <2>6 DEF Lock, Goes, Moves
    <3>3. w.at = "locked" /\ KeyAt(w) = KeyAt(task[t])
      BY <3>1 DEF Work, KeyAt, ShaAt
    <3>4. /\ KeyAt(w) \notin stripe
          /\ stripe' = stripe \cup {KeyAt(w)}
          /\ UNCHANGED <<artifacts, decompiled>>
      BY <2>6, <3>1, <3>3 DEF Lock, diskVars, countVars
    <3> HIDE DEF w
    <3>5. \A u \in Tasks : task'[u] = IF u = t THEN w ELSE task[u]
      BY <1>0, <3>2 DEF TypeOK, Moves
    <3>6. HoldersLocked' /\ HoldersApart'
      BY <3>4, <3>5 DEF LockInv, HoldersLocked, HoldersApart
    <3>7. \A k \in Key : Pending(k) => Pending(k)'
      <4>1. task[t].at # "write"
        BY <2>6 DEF Lock, At
      <4> QED
        BY <3>5, <4>1 DEF Pending
    <3>8. TextAfterRun' /\ RunIsFirst'
      BY <3>3, <3>4, <3>5, <3>7 DEF LockInv, TextAfterRun, RunIsFirst
    <3> QED
      BY <1>0, <3>6, <3>8 DEF LockInv
  <2>7. CASE Relookup(t) /\ FoundUnderLock(t)
    <3>1. /\ task[t] \in Work /\ KeyFor(t) = KeyAt(task[t]) /\ KeyFor(t) \in Key
          /\ Holds(task[t])
      BY <1>0, <2>7, AtWork DEF Relookup, At, Holds
    <3>2. artifacts[KeyFor(t)] \in Text
      BY <1>0, <2>7, <3>1 DEF TypeOK, FoundUnderLock
    <3>3. Goal(t, {"served"})
      BY <1>0, <2>7, <3>1, <3>2, ServeMoves DEF Relookup, At
    <3>4. /\ stripe' = stripe \ {KeyAt(task[t])} /\ decompiled' = decompiled
          /\ task[t].at # "write"
      BY <2>7, <3>1 DEF Relookup, Unlock, countVars, At
    <3> QED
      BY <1>0, <2>0, <3>1, <3>3, <3>4, LockReleased
  <2>8. CASE Relookup(t) /\ ~FoundUnderLock(t)
    <3> DEFINE w == [task[t] EXCEPT !.at = "run"]
    <3>1. /\ task[t] \in Work /\ KeyFor(t) = KeyAt(task[t]) /\ KeyFor(t) \in Key
          /\ Holds(task[t]) /\ task[t].at = "locked"
      BY <1>0, <2>8, AtWork DEF Relookup, At, Holds
    <3>2. Moves(t, w)
      BY <2>8 DEF Relookup, Goes, Moves
    <3>3. w.at = "run" /\ KeyAt(w) = KeyAt(task[t])
      BY <3>1 DEF Work, KeyAt, ShaAt
    <3>4. UNCHANGED <<stripe, artifacts, decompiled>> /\ artifacts[KeyAt(w)] = None
      BY <2>8, <3>1, <3>3 DEF Relookup, FoundUnderLock, diskVars, countVars
    <3> HIDE DEF w
    <3>5. \A u \in Tasks : task'[u] = IF u = t THEN w ELSE task[u]
      BY <1>0, <3>2 DEF TypeOK, Moves
    <3>6. HoldersLocked' /\ HoldersApart'
      BY <3>1, <3>3, <3>4, <3>5 DEF LockInv, HoldersLocked, HoldersApart
    <3>7. ~Pending(KeyAt(w))
      BY <3>1, <3>3, HolderAlone DEF Pending, Holds
    <3>8. decompiled[KeyAt(w)] = 0
      BY <3>1, <3>3, <3>4, <3>7 DEF LockInv, TextAfterRun
    <3>9. \A k \in Key : Pending(k) => Pending(k)'
      BY <3>1, <3>5 DEF Pending
    <3>10. TextAfterRun' /\ RunIsFirst'
      BY <3>3, <3>4, <3>5, <3>8, <3>9 DEF LockInv, TextAfterRun, RunIsFirst
    <3> QED
      BY <1>0, <3>6, <3>10 DEF LockInv
  <2>9. CASE Decompile(t)
    <3> DEFINE k == KeyAt(task[t])
               w == [task[t] EXCEPT !.at = "write"]
    <3>1. /\ task[t] \in Work /\ KeyFor(t) = k /\ k \in Key
          /\ Holds(task[t]) /\ task[t].at = "run"
      BY <1>0, <2>9, AtWork DEF Decompile, At, Holds
    <3>2. Moves(t, w)
      BY <2>9 DEF Decompile, Goes, Moves
    <3>3. w.at = "write" /\ KeyAt(w) = k
      BY <3>1 DEF Work, KeyAt, ShaAt
    <3>4. /\ UNCHANGED <<stripe, artifacts>>
          /\ decompiled' = [decompiled EXCEPT ![k] = @ + 1]
      BY <2>9, <3>1 DEF Decompile, lockVars, diskVars
    <3>5. decompiled[k] = 0
      BY <3>1 DEF LockInv, RunIsFirst
    <3> HIDE DEF w, k
    <3>6. \A u \in Tasks : task'[u] = IF u = t THEN w ELSE task[u]
      BY <1>0, <3>2 DEF TypeOK, Moves
    <3>7. \A j \in Key : decompiled'[j] = IF j = k THEN 1 ELSE decompiled[j]
      BY <1>0, <3>4, <3>5 DEF TypeOK
    <3>8. HoldersLocked' /\ HoldersApart'
      BY <3>1, <3>3, <3>4, <3>6 DEF LockInv, HoldersLocked, HoldersApart, k
    <3>9. \A j \in Key : j = k \/ Pending(j) => Pending(j)'
      BY <3>1, <3>3, <3>6 DEF Pending
    <3>10. TextAfterRun'
      BY <3>4, <3>7, <3>9 DEF LockInv, TextAfterRun
    <3>11. RunIsFirst'
      <4> SUFFICES ASSUME NEW u \in Tasks
                   PROVE  /\ task'[u].at = "run" => decompiled'[KeyAt(task'[u])] = 0
                          /\ task'[u].at = "write" => decompiled'[KeyAt(task'[u])] = 1
        BY DEF RunIsFirst
      <4>1. CASE u = t
        BY <3>1, <3>3, <3>6, <3>7, <4>1
      <4>2. CASE u # t /\ Holds(task[u])
        <5>1. KeyAt(task[u]) \in Key /\ KeyAt(task[u]) # k
          BY <3>1, <4>2, HoldersKeep, HolderAlone DEF k
        <5> QED
          BY <3>6, <3>7, <4>2, <5>1 DEF LockInv, RunIsFirst
      <4>3. CASE u # t /\ ~Holds(task[u])
        BY <3>6, <4>3 DEF Holds
      <4> QED
        BY <4>1, <4>2, <4>3
    <3> QED
      BY <1>0, <3>8, <3>10, <3>11 DEF LockInv
  <2>10. CASE Write(t)
    <3>1. /\ task[t] \in Work /\ KeyFor(t) = KeyAt(task[t]) /\ KeyFor(t) \in Key
          /\ Holds(task[t]) /\ Sha(t) \in Shas
      BY <1>0, <2>10, AtWork DEF Write, At, Holds
    <3> DEFINE text == TextNow(t, OuterOf(task[t].name))
    <3>2. text \in Text
      BY <3>1, OuterFound DEF TextNow, Text, Work, Names
    <3>3. artifacts'[KeyAt(task[t])] # None
      BY <1>0, <2>10, <3>1, <3>2, NoneAssumption DEF Write, TypeOK
    <3>4. Goal(t, {"served"})
      BY <1>0, <2>10, <3>1, <3>2, ServeMoves DEF Write, At
    <3>5. stripe' = stripe \ {KeyAt(task[t])} /\ decompiled' = decompiled
      BY <2>10, <3>1 DEF Write, Unlock, countVars
    <3> QED
      BY <1>0, <2>0, <3>1, <3>3, <3>4, <3>5, LockReleased
  <2>11. CASE WriteFails(t)
    <3> DEFINE k == KeyAt(task[t])
    <3>1. /\ task[t] \in Work /\ KeyFor(t) = k /\ k \in Key
          /\ Holds(task[t]) /\ task[t].at = "write"
      BY <1>0, <2>11, AtWork DEF WriteFails, At, Holds
    <3>2. /\ task' = [task EXCEPT ![t] = Idle]
          /\ stripe' = stripe \ {k} /\ UNCHANGED artifacts
          /\ decompiled' = [decompiled EXCEPT ![k] = @ - 1]
      BY <2>11, <3>1 DEF WriteFails, Rests, Unlock, diskVars
    <3>3. decompiled[k] = 1
      BY <3>1 DEF LockInv, RunIsFirst
    <3> HIDE DEF k
    <3>4. \A j \in Key : decompiled'[j] = IF j = k THEN 0 ELSE decompiled[j]
      BY <1>0, <3>2, <3>3 DEF TypeOK
    <3>5. \A u \in Tasks : Holds(task'[u]) =>
             u # t /\ task'[u] = task[u] /\ Holds(task[u]) /\ KeyAt(task[u]) # k
      BY <1>0, <3>1, <3>2, HolderAlone DEF TypeOK, Holds, Idle, k
    <3>6. HoldersLocked' /\ HoldersApart'
      BY <3>2, <3>5 DEF LockInv, HoldersLocked, HoldersApart
    <3>7. \A j \in Key : j # k /\ Pending(j) => Pending(j)'
      BY <1>0, <3>1, <3>2 DEF TypeOK, Pending, k
    <3>8. TextAfterRun'
      <4> SUFFICES ASSUME NEW j \in Key
                   PROVE  /\ decompiled'[j] <= 1
                          /\ artifacts'[j] = None => decompiled'[j] = 0 \/ Pending(j)'
        BY DEF TextAfterRun
      <4>1. CASE j = k
        BY <3>4, <4>1
      <4>2. CASE j # k
        BY <3>2, <3>4, <3>7, <4>2 DEF LockInv, TextAfterRun
      <4> QED
        BY <4>1, <4>2
    <3>9. RunIsFirst'
      BY <1>0, <3>4, <3>5, HoldersKeep DEF LockInv, RunIsFirst, Holds
    <3> QED
      BY <1>0, <3>6, <3>8, <3>9 DEF LockInv
  <2> QED
    BY <1>1, <2>1, <2>2, <2>3, <2>4, <2>5, <2>6, <2>7, <2>8, <2>9,
       <2>10, <2>11, StepIs
<1>2. CASE Crash
  <2>1. \A t \in Tasks :
          task'[t] = Idle /\ ~Holds(Idle) /\ Idle.at # "run" /\ Idle.at # "write"
    BY <1>2 DEF Crash, Holds, Idle
  <2>2. HoldersLocked' /\ HoldersApart' /\ RunIsFirst'
    BY <2>1 DEF HoldersLocked, HoldersApart, RunIsFirst
  <2>3. \A k \in Key : Pending(k) => Unwritten(k) /\ decompiled[k] = 1
    BY <1>0, AtWork DEF Pending, Unwritten, At, LockInv, RunIsFirst
  <2>4. \A k \in Key : Unwritten(k) => Pending(k)
    BY <1>0, AtWork DEF Pending, Unwritten, At
  <2>5. \A k \in Key : decompiled'[k] = decompiled[k] - IF Unwritten(k) THEN 1 ELSE 0
    BY <1>2 DEF Crash
  <2>6. \A k \in Key : decompiled[k] \in Int
    BY <1>0 DEF TypeOK
  <2>7. TextAfterRun'
    <3> SUFFICES ASSUME NEW k \in Key
                 PROVE  /\ decompiled'[k] <= 1
                        /\ artifacts'[k] = None => decompiled'[k] = 0
      BY DEF TextAfterRun
    <3>1. artifacts' = artifacts
      BY <1>2 DEF Crash, diskVars
    <3> QED
      BY <2>3, <2>4, <2>5, <2>6, <3>1 DEF LockInv, TextAfterRun
  <2> QED
    BY <1>0, <2>2, <2>7 DEF LockInv
<1>3. CASE UNCHANGED vars
  <2>1. UNCHANGED <<task, stripe, decompiled, artifacts>>
    BY <1>3 DEF vars, diskVars, lockVars, countVars
  <2> QED
    BY <1>0, <2>1 DEF LockInv, HoldersLocked, HoldersApart, TextAfterRun, RunIsFirst, Pending
<1> QED
  BY <1>1, <1>2, <1>3 DEF Next

LEMMA LockInit == Init => LockInv
<1> SUFFICES ASSUME Init
             PROVE  LockInv
  OBVIOUS
<1>1. \A t \in Tasks :
        task[t] = Idle /\ ~Holds(Idle) /\ Idle.at # "run" /\ Idle.at # "write"
  BY DEF Init, Holds, Idle
<1>2. HoldersLocked /\ HoldersApart /\ RunIsFirst
  BY <1>1 DEF HoldersLocked, HoldersApart, RunIsFirst
<1>3. TextAfterRun
  BY DEF Init, TextAfterRun
<1> QED
  BY <1>2, <1>3, TypedInit DEF LockInv

-----------------------------------------------------------------------------
(* What a text is made from.  Every text on disk is of the DLL and the kind  *)
(* of references in its key, and of an outermost type with its file name.    *)

TextOf(k, text) ==
    /\ text.sha = k.sha
    /\ text.refs = k.refs
    /\ text.type \in Names
    /\ OnDisk[text.type] = k.file
    /\ OuterOf(text.type) = text.type

ArtifactsTrue == \A k \in Key : artifacts[k] # None => TextOf(k, artifacts[k])

ServedTrue == \A t \in Tasks : task[t].at = "served" => TextOf(KeyAt(task[t]), task[t].text)

TextInv == Typed /\ ArtifactsTrue /\ ServedTrue

\* A step that serves nothing.
LEMMA NothingServed ==
    ASSUME TextInv, Typed', ArtifactsTrue', NEW t \in Tasks,
           NEW places, Goal(t, places), "served" \notin places
    PROVE  TextInv'
<1>1. PICK w : Moves(t, w) /\ w.at # "served"
  BY DEF Goal
<1>2. \A u \in Tasks : task'[u] = IF u = t THEN w ELSE task[u]
  BY <1>1 DEF TextInv, Typed, TypeOK, Moves
<1> QED
  BY <1>1, <1>2 DEF TextInv, ServedTrue

\* A step that serves the text of its key.
LEMMA TrueServed ==
    ASSUME TextInv, Typed', ArtifactsTrue', NEW t \in Tasks, task[t] \in Work,
           NEW text, Serve(t, text), TextOf(KeyAt(task[t]), text)
    PROVE  TextInv'
<1> DEFINE w == [at |-> "served", build |-> task[t].build, dll |-> task[t].dll,
                 name |-> task[t].name, refs |-> task[t].refs, text |-> text]
<1>1. KeyAt(w) = KeyAt(task[t]) /\ w.text = text
  BY DEF KeyAt, ShaAt
<1>2. task' = [task EXCEPT ![t] = w]
  BY DEF Serve
<1> HIDE DEF w
<1>3. \A u \in Tasks : task'[u] = IF u = t THEN w ELSE task[u]
  BY <1>2 DEF TextInv, Typed, TypeOK
<1> QED
  BY <1>1, <1>3 DEF TextInv, ServedTrue

\* The two ways a text gets on disk.
LEMMA MadeTrue ==
    ASSUME TypeOK, TasksTrue, NEW t \in Tasks, task[t] \in Work, task[t] # Idle,
           KeyFor(t) = KeyAt(task[t]), Sha(t) = ShaAt(task[t]),
           NEW type \in Names, OuterOf(type) = type, OuterOf(task[t].name) = type
    PROVE  TextOf(KeyAt(task[t]), TextNow(t, type)) /\ TextNow(t, type) # None
<1>1. TextNow(t, type) \in Text
  BY AtWork, KeyType DEF TextNow, Text, Work, Names, TasksTrue, TaskTrue
<1>2. TextOf(KeyAt(task[t]), TextNow(t, type))
  BY DEF TextOf, KeyAt, KeyOf, TextNow
<1> QED
  BY <1>1, <1>2, NoneAssumption

LEMMA TextNext == TextInv /\ [Next]_vars => TextInv'
<1> SUFFICES ASSUME TextInv, [Next]_vars
             PROVE  TextInv'
  OBVIOUS
<1>0. Typed /\ Typed' /\ TypeOK /\ TasksTrue
  BY TypedNext DEF TextInv, Typed
<1>1. ASSUME NEW t \in Tasks, Step(t)
      PROVE  TextInv'
  <2>1. CASE Write(t)
    <3>1. /\ task[t] \in Work /\ task[t] # Idle
          /\ KeyFor(t) = KeyAt(task[t]) /\ KeyFor(t) \in Key /\ Sha(t) = ShaAt(task[t])
      BY <1>0, <2>1, AtWork DEF Write, At, Idle
    <3> DEFINE type == OuterOf(task[t].name)
               text == TextNow(t, type)
    <3>2. type \in Names /\ OuterOf(type) = type
      BY <3>1, OuterFound, OuterAgain DEF Work, Names
    <3>3. TextOf(KeyAt(task[t]), text) /\ text # None
      BY <1>0, <3>1, <3>2, MadeTrue
    <3>4. artifacts' = [artifacts EXCEPT ![KeyAt(task[t])] = text] /\ Serve(t, text)
      BY <2>1, <3>1 DEF Write
    <3> HIDE DEF text
    <3>5. ArtifactsTrue'
      BY <1>0, <3>1, <3>3, <3>4 DEF TypeOK, TextInv, ArtifactsTrue
    <3> QED
      BY <1>0, <3>1, <3>3, <3>4, <3>5, TrueServed
  <2>2. CASE WalkStore(t)
    <3>1. /\ task[t] \in Work /\ task[t] # Idle
          /\ KeyFor(t) = KeyAt(task[t]) /\ KeyFor(t) \in Key /\ Sha(t) = ShaAt(task[t])
          /\ task[t].at = "store"
      BY <1>0, <2>2, AtWork DEF WalkStore, At, Idle
    <3> DEFINE text == TextNow(t, task[t].name)
    <3>2. task[t].name \in Names /\ OuterOf(task[t].name) = task[t].name
      BY <1>0, <3>1 DEF Work, Names, TasksTrue, TaskTrue
    <3>3. TextOf(KeyAt(task[t]), text) /\ text # None
      BY <1>0, <3>1, <3>2, MadeTrue
    <3>4. artifacts' = [artifacts EXCEPT ![KeyAt(task[t])] = text]
      BY <2>2, <3>1 DEF WalkStore
    <3> HIDE DEF text
    <3>5. ArtifactsTrue'
      BY <1>0, <3>1, <3>3, <3>4 DEF TypeOK, TextInv, ArtifactsTrue
    <3>6. Goal(t, {"idle", "bulk", "walk", "store"})
      BY <1>0, <2>2, WarmMoves
    <3> QED
      BY <1>0, <3>5, <3>6, NothingServed
  <2>3. CASE Lookup(t) \/ Relookup(t)
    <3>1. /\ task[t] \in Work
          /\ KeyFor(t) = KeyAt(task[t]) /\ KeyFor(t) \in Key
          /\ ~At(t, "idle") /\ ~At(t, "ensure") /\ ~At(t, "link") /\ ~At(t, "served")
      BY <1>0, <2>3, AtWork DEF Lookup, Relookup, At
    <3>2. ArtifactsTrue'
      BY <2>3 DEF Lookup, Relookup, diskVars, TextInv, ArtifactsTrue
    <3>3. CASE artifacts[KeyFor(t)] # None
      <4>1. Serve(t, artifacts[KeyFor(t)])
        BY <2>3, <3>3 DEF Lookup, Relookup, FoundUnderLock
      <4>2. TextOf(KeyAt(task[t]), artifacts[KeyFor(t)])
        BY <3>1, <3>3 DEF TextInv, ArtifactsTrue
      <4> QED
        BY <1>0, <3>1, <3>2, <4>1, <4>2, TrueServed
    <3>4. CASE artifacts[KeyFor(t)] = None
      <4>1. PICK where \in {"miss", "run"} : Goes(t, where)
        BY <2>3, <3>4 DEF Lookup, Relookup, FoundUnderLock
      <4>2. Goal(t, {"miss", "run"})
        BY <1>0, <3>1, <4>1, GoesMoves
      <4> QED
        BY <1>0, <3>2, <4>2, NothingServed
    <3> QED
      BY <3>3, <3>4
  <2>4. CASE \/ Ensure(t) \/ WriteDone(t) \/ Lock(t) \/ Decompile(t)
             \/ \E d \in Dlls : LinkSibling(t, d)
    <3>1. ArtifactsTrue'
      BY <2>4 DEF Ensure, WriteDone, Lock, Decompile, LinkSibling, diskVars, TextInv,
                  ArtifactsTrue
    <3>2. Ensure(t) => Goal(t, {"ready", "link"})
      BY <1>0, EnsureMoves
    <3>3. WriteDone(t) \/ (\E d \in Dlls : LinkSibling(t, d)) => Goal(t, {"link", "ready"})
      BY <1>0, LinkMoves
    <3>4. Lock(t) => Goal(t, {"locked"})
      BY <1>0, AtWork, GoesMoves DEF Lock, At
    <3>5. Decompile(t) => Goal(t, {"write"})
      BY <1>0, AtWork, GoesMoves DEF Decompile, At
    <3> QED
      BY <1>0, <2>4, <3>1, <3>2, <3>3, <3>4, <3>5, NothingServed
  <2>5. CASE Aside(t) /\ ~WalkStore(t)
    <3>1. Goal(t, Elsewhere) /\ "served" \notin Elsewhere
      BY <1>0, <2>5, AsideMoves DEF Elsewhere
    <3>2. artifacts' = artifacts
      BY <2>5 DEF Aside, Open, LinkFails, Refuse, DecompileFails, WriteFails, BulkFails,
                  WalkEnds, Close, Warm, BulkRun, WalkSkips, WalkNext, diskVars
    <3>3. ArtifactsTrue'
      BY <3>2 DEF TextInv, ArtifactsTrue
    <3> QED
      BY <1>0, <3>1, <3>3, NothingServed
  <2>6. CASE \E d \in Dlls : FetchBlob(t, d)
    BY <1>0, <2>6 DEF FetchBlob, TextInv, ArtifactsTrue, ServedTrue
  <2> QED
    BY <1>1, <2>1, <2>2, <2>3, <2>4, <2>5, <2>6, StepIs
<1>2. CASE Crash
  <2>1. \A t \in Tasks : task'[t] = Idle /\ Idle.at # "served"
    BY <1>2 DEF Crash, Idle
  <2>2. artifacts' = artifacts
    BY <1>2 DEF Crash, diskVars
  <2> QED
    BY <1>0, <2>1, <2>2 DEF TextInv, ArtifactsTrue, ServedTrue
<1>3. CASE UNCHANGED vars
  <2>1. task' = task /\ artifacts' = artifacts
    BY <1>3 DEF vars, diskVars
  <2> QED
    BY <1>0, <2>1 DEF TextInv, ArtifactsTrue, ServedTrue
<1> QED
  BY <1>1, <1>2, <1>3 DEF Next

LEMMA TextInit == Init => TextInv
<1> SUFFICES ASSUME Init
             PROVE  TextInv
  OBVIOUS
<1>1. \A t \in Tasks : task[t] = Idle /\ Idle.at # "served"
  BY DEF Init, Idle
<1>2. ArtifactsTrue /\ ServedTrue
  BY <1>1 DEF Init, ArtifactsTrue, ServedTrue
<1> QED
  BY <1>2, TypedInit DEF TextInv

LEMMA TrueIsRight == TextInv => ServedRight
<1> SUFFICES ASSUME TextInv, NEW t \in Tasks, At(t, "served")
             PROVE  LET text == task[t].text
                        outer == OuterOf(task[t].name)
                    IN /\ text.sha = Sha(t)
                       /\ text.refs <=> Siblings(task[t].build, task[t].dll) # {}
                       /\ OnDisk[text.type] = OnDisk[outer]
                       /\ ParentNames(text.type) \cap Entities = {}
                       /\ NamedApart(outer) => text.type = outer
  BY DEF ServedRight
<1> DEFINE text == task[t].text
           outer == OuterOf(task[t].name)
<1>1. /\ task[t] \in Served
      /\ Sha(t) = ShaAt(task[t])
      /\ task[t].refs <=> Beside(task[t]) # {}
  BY AtWork DEF TextInv, Typed, At
<1>2. TextOf(KeyAt(task[t]), text)
  BY DEF TextInv, ServedTrue, At
<1>3. /\ text.sha = ShaAt(task[t]) /\ text.refs = task[t].refs
      /\ text.type \in Names /\ OnDisk[text.type] = OnDisk[outer]
      /\ OuterOf(text.type) = text.type
  BY <1>2 DEF TextOf, KeyAt, KeyOf
<1>4. ParentNames(text.type) \cap Entities = {}
  BY <1>3, OuterFound
<1>5. NamedApart(outer) => text.type = outer
  BY <1>3, <1>4 DEF NamedApart, Names
<1>6. text.refs <=> Siblings(task[t].build, task[t].dll) # {}
  BY <1>1, <1>3 DEF Beside
<1> QED
  BY <1>1, <1>3, <1>4, <1>5, <1>6

\* However requests, warmers, failures and restarts interleave, `-t` runs again
\* for a file name only when the text of a run was lost before it was written;
\* and what is served is made from the DLL asked for, with references exactly
\* when it has siblings, of an outermost type with the file name of the one
\* asked for - of that type, unless another outermost one has the same name.
THEOREM DecompiledRight == Spec => []DecompileRight
<1>1. LockInv => DecompiledOnce
  BY DEF LockInv, TextAfterRun, DecompiledOnce
<1>2. DecompiledOnce /\ ServedRight => DecompileRight
  BY DEF DecompileRight
<1> QED
  BY <1>1, <1>2, TrueIsRight, LockInit, LockNext, TextInit, TextNext, PTL DEF Spec
=============================================================================
