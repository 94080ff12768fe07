----------------------------- MODULE StoreProofs -----------------------------
(***************************************************************************)
(* Machine-checked facts about Store: typing, that the cached model is     *)
(* current, that a prune spares what it was not asked to remove, and that  *)
(* the index is honest.                                                    *)
(***************************************************************************)
EXTENDS Store, FiniteSetTheorems, TLAPS

USE DEF SlotFree, IsFresh, Released

AllVars == <<cached, disk, index, indexed, model, builder, opc, om, apc, req,
             graph, freed, orphans, todo, left, unseen, fpc, fc, used>>

\* A stuttering step changes no variable.
LEMMA Stutter == UNCHANGED vars => UNCHANGED AllVars
BY DEF vars, AllVars, diskVars, indexVars, modelVars, openVars, adminVars,
       pruneVars, fetchVars

-----------------------------------------------------------------------------
(* Typing                                                                   *)

LEMMA TypeInit == Init => TypeOK
<1> SUFFICES ASSUME Init PROVE TypeOK
  OBVIOUS
<1>1. TruthTypeOK /\ IndexTypeOK
  BY DEF Init, TruthTypeOK, IndexTypeOK
<1>2. ModelTypeOK
  BY StoreConstants DEF Init, ModelTypeOK
<1>3. OpenTypeOK /\ FetchTypeOK /\ UsedTypeOK
  BY DEF Init, OpenTypeOK, FetchTypeOK, UsedTypeOK
<1>4. AdminTypeOK
  BY DEF Init, AdminTypeOK, NoRequest, PruneRequest
<1>5. QED
  BY <1>1, <1>2, <1>3, <1>4 DEF TypeOK

LEMMA TypeOpener ==
    ASSUME TypeOK, NEW o \in Opener, OpenerNext(o)
    PROVE  TypeOK'
<1>1. CASE \E m \in Manifest : Open(o, m)
  <2>1. PICK m \in Manifest : Open(o, m)
    BY <1>1
  <2>2. TruthTypeOK' /\ IndexTypeOK'
    BY <2>1 DEF TypeOK, TruthTypeOK, IndexTypeOK, Open, indexVars
  <2>3. ModelTypeOK' /\ FetchTypeOK'
    BY <2>1 DEF TypeOK, ModelTypeOK, FetchTypeOK, Open, modelVars, fetchVars
  <2>4. OpenTypeOK'
    BY <2>1 DEF TypeOK, OpenTypeOK, Open
  <2>5. UsedTypeOK'
    <3> DEFINE n == IF m \in indexed \ cached THEN used.reopens + 1
                                             ELSE used.reopens
    <3>1. n \in Nat /\ used.opens + 1 \in Nat
      BY DEF TypeOK, UsedTypeOK
    <3>2. used' = [used EXCEPT !.opens = used.opens + 1, !.reopens = n]
      BY <2>1 DEF Open
    <3> HIDE DEF n
    <3>3. QED
      BY <3>1, <3>2 DEF TypeOK, UsedTypeOK
  <2>6. unseen' \in [Admin -> SUBSET Manifest]
    BY <2>1 DEF TypeOK, AdminTypeOK, Open
  <2>7. AdminTypeOK'
    BY <2>1, <2>6 DEF TypeOK, AdminTypeOK, Open
  <2>8. QED
    BY <2>2, <2>3, <2>4, <2>5, <2>7 DEF TypeOK
<1>2. CASE AddManifest(o)
  <2>1. TruthTypeOK' /\ IndexTypeOK' /\ UsedTypeOK'
    BY <1>2 DEF TypeOK, TruthTypeOK, IndexTypeOK, UsedTypeOK, OpenTypeOK,
                AddManifest, diskVars
  <2>2. ModelTypeOK' /\ FetchTypeOK' /\ AdminTypeOK'
    BY <1>2 DEF TypeOK, ModelTypeOK, FetchTypeOK, AdminTypeOK, AddManifest,
                modelVars, fetchVars, adminVars, pruneVars
  <2>3. OpenTypeOK'
    BY <1>2, StoreConstants DEF TypeOK, OpenTypeOK, AddManifest
  <2>4. QED
    BY <2>1, <2>2, <2>3 DEF TypeOK
<1>3. CASE Invalidate(o)
  <2>1. TruthTypeOK' /\ IndexTypeOK' /\ UsedTypeOK'
    BY <1>3 DEF TypeOK, TruthTypeOK, IndexTypeOK, UsedTypeOK, Invalidate,
                diskVars, indexVars
  <2>2. ModelTypeOK' /\ FetchTypeOK' /\ AdminTypeOK'
    BY <1>3 DEF TypeOK, ModelTypeOK, FetchTypeOK, AdminTypeOK, Invalidate,
                fetchVars, adminVars, pruneVars
  <2>3. OpenTypeOK'
    BY <1>3 DEF TypeOK, OpenTypeOK, Invalidate
  <2>4. QED
    BY <2>1, <2>2, <2>3 DEF TypeOK
<1>4. QED
  BY <1>1, <1>2, <1>3 DEF OpenerNext

\* What a response leaves behind.
LEMMA RespondType ==
    ASSUME AdminTypeOK, NEW a \in Admin, Respond(a)
    PROVE  AdminTypeOK'
BY DEF AdminTypeOK, Respond, NoRequest, PruneRequest

\* Steps of a store route that do not touch the files.
LEMMA TypeAdminQuiet ==
    ASSUME TypeOK, NEW a \in Admin,
           \/ \E r \in Requests : Call(a, r)
           \/ UseModel(a) \/ BuildBegin(a) \/ BuildEnd(a)
           \/ ComputeFreed(a) \/ ComputeOrphans(a)
    PROVE  TypeOK'
<1>1. CASE \E r \in Requests : Call(a, r)
  <2>1. PICK r \in Requests : Call(a, r)
    BY <1>1
  <2>2. TruthTypeOK' /\ IndexTypeOK' /\ OpenTypeOK' /\ FetchTypeOK'
    BY <2>1 DEF TypeOK, TruthTypeOK, IndexTypeOK, OpenTypeOK, FetchTypeOK,
                Call, diskVars, indexVars, openVars, fetchVars
  <2>3. UsedTypeOK'
    BY <2>1 DEF TypeOK, UsedTypeOK, Call
  <2>4. ModelTypeOK' /\ AdminTypeOK'
    BY <2>1, StoreConstants DEF TypeOK, ModelTypeOK, AdminTypeOK, Call,
                                modelVars, pruneVars
  <2>5. QED
    BY <2>2, <2>3, <2>4 DEF TypeOK
<1>2. CASE UseModel(a)
  <2>1. TruthTypeOK' /\ IndexTypeOK' /\ OpenTypeOK' /\ FetchTypeOK'
          /\ UsedTypeOK'
    BY <1>2 DEF TypeOK, TruthTypeOK, IndexTypeOK, OpenTypeOK, FetchTypeOK,
                UsedTypeOK, UseModel, diskVars, indexVars, openVars, fetchVars
  <2>2. Unannounced \subseteq Manifest
    BY DEF TypeOK, OpenTypeOK, Unannounced
  <2>3. ModelTypeOK' /\ AdminTypeOK'
    BY <1>2, <2>2 DEF TypeOK, ModelTypeOK, AdminTypeOK, UseModel, modelVars
  <2>4. QED
    BY <2>1, <2>3 DEF TypeOK
<1>3. CASE BuildBegin(a)
  <2>1. TruthTypeOK' /\ IndexTypeOK' /\ OpenTypeOK' /\ FetchTypeOK'
          /\ UsedTypeOK'
    BY <1>3 DEF TypeOK, TruthTypeOK, IndexTypeOK, OpenTypeOK, FetchTypeOK,
                UsedTypeOK, BuildBegin, diskVars, indexVars, openVars, fetchVars
  <2>2. Unannounced \subseteq Manifest
    BY DEF TypeOK, OpenTypeOK, Unannounced
  <2>3. AdminTypeOK'
    BY <1>3, <2>2 DEF TypeOK, TruthTypeOK, AdminTypeOK, BuildBegin
  <2>4. ModelTypeOK'
    BY <1>3, StoreConstants DEF TypeOK, ModelTypeOK, AdminTypeOK, BuildBegin
  <2>5. QED
    BY <2>1, <2>3, <2>4 DEF TypeOK
<1>4. CASE BuildEnd(a)
  <2>1. TruthTypeOK' /\ IndexTypeOK' /\ OpenTypeOK' /\ FetchTypeOK'
          /\ UsedTypeOK'
    BY <1>4 DEF TypeOK, TruthTypeOK, IndexTypeOK, OpenTypeOK, FetchTypeOK,
                UsedTypeOK, BuildEnd, diskVars, indexVars, openVars, fetchVars
  <2>2. PICK S \in SUBSET (graph[a] \cup cached) :
           graph' = [graph EXCEPT ![a] = S] /\ model' = S
    BY <1>4 DEF BuildEnd
  <2>3. S \subseteq Manifest
    BY <2>2 DEF TypeOK, TruthTypeOK, AdminTypeOK
  <2>4. ModelTypeOK' /\ AdminTypeOK'
    BY <1>4, <2>2, <2>3, StoreConstants
    DEF TypeOK, ModelTypeOK, AdminTypeOK, BuildEnd
  <2>5. QED
    BY <2>1, <2>4 DEF TypeOK
<1>5. CASE ComputeFreed(a)
  <2>1. TruthTypeOK' /\ IndexTypeOK' /\ OpenTypeOK' /\ FetchTypeOK'
          /\ UsedTypeOK'
    BY <1>5 DEF TypeOK, TruthTypeOK, IndexTypeOK, OpenTypeOK, FetchTypeOK,
                UsedTypeOK, ComputeFreed, diskVars, indexVars, openVars,
                fetchVars
  <2>2. FreedBy(graph[a], req[a].free, index) \subseteq Chunk
    BY DEF TypeOK, IndexTypeOK, FreedBy
  <2>3. ModelTypeOK' /\ AdminTypeOK'
    BY <1>5, <2>2 DEF TypeOK, ModelTypeOK, AdminTypeOK, ComputeFreed, modelVars
  <2>4. QED
    BY <2>1, <2>3 DEF TypeOK
<1>6. CASE ComputeOrphans(a)
  <2>1. TruthTypeOK' /\ IndexTypeOK' /\ OpenTypeOK' /\ FetchTypeOK'
          /\ UsedTypeOK'
    BY <1>6 DEF TypeOK, TruthTypeOK, IndexTypeOK, OpenTypeOK, FetchTypeOK,
                UsedTypeOK, ComputeOrphans, diskVars, indexVars, openVars,
                fetchVars
  <2>2. ModelTypeOK' /\ AdminTypeOK'
    BY <1>6 DEF TypeOK, IndexTypeOK, ModelTypeOK, AdminTypeOK, ComputeOrphans,
                modelVars
  <2>3. QED
    BY <2>1, <2>2 DEF TypeOK
<1>7. QED
  BY <1>1, <1>2, <1>3, <1>4, <1>5, <1>6

LEMMA TypeAdminFiles ==
    ASSUME TypeOK, NEW a \in Admin,
           \/ RemoveChunk(a) \/ MarkAbsent(a) \/ DeleteManifest(a)
           \/ InvalidateDeleted(a) \/ PruneFails(a)
    PROVE  TypeOK'
<1>0. Removed(a) \subseteq Chunk /\ a # Nobody
  BY StoreConstants DEF TypeOK, AdminTypeOK, Removed
<1>1. OpenTypeOK' /\ FetchTypeOK'
  BY DEF TypeOK, OpenTypeOK, FetchTypeOK, RemoveChunk, MarkAbsent,
         DeleteManifest, InvalidateDeleted, PruneFails, openVars, fetchVars
<1>2. CASE RemoveChunk(a)
  <2>1. IndexTypeOK' /\ ModelTypeOK' /\ UsedTypeOK'
    BY <1>2 DEF TypeOK, IndexTypeOK, ModelTypeOK, UsedTypeOK, RemoveChunk,
                indexVars, modelVars
  <2>2. TruthTypeOK' /\ AdminTypeOK'
    BY <1>2 DEF TypeOK, TruthTypeOK, AdminTypeOK, RemoveChunk
  <2>3. QED
    BY <1>1, <2>1, <2>2 DEF TypeOK
<1>3. CASE MarkAbsent(a)
  <2>1. TruthTypeOK' /\ IndexTypeOK' /\ UsedTypeOK'
    BY <1>0, <1>3 DEF TypeOK, TruthTypeOK, IndexTypeOK, UsedTypeOK, MarkAbsent,
                      diskVars
  <2>2. AdminTypeOK'
    <3>1. CASE req[a].delete = {}
      BY <1>3, <3>1, RespondType DEF TypeOK, MarkAbsent
    <3>2. CASE req[a].delete # {}
      BY <1>3, <3>2 DEF TypeOK, AdminTypeOK, PruneRequest, MarkAbsent
    <3>3. QED
      BY <3>1, <3>2
  <2>3. ModelTypeOK'
    BY <1>0, <1>3 DEF TypeOK, ModelTypeOK, AdminTypeOK, MarkAbsent, modelVars,
                      Respond
  <2>4. QED
    BY <1>1, <2>1, <2>2, <2>3 DEF TypeOK
<1>4. CASE DeleteManifest(a)
  <2>1. IndexTypeOK' /\ ModelTypeOK' /\ UsedTypeOK'
    BY <1>4 DEF TypeOK, IndexTypeOK, ModelTypeOK, UsedTypeOK, DeleteManifest,
                indexVars, modelVars
  <2>2. TruthTypeOK' /\ AdminTypeOK'
    BY <1>4 DEF TypeOK, TruthTypeOK, AdminTypeOK, DeleteManifest
  <2>3. QED
    BY <1>1, <2>1, <2>2 DEF TypeOK
<1>5. CASE InvalidateDeleted(a)
  <2>1. TruthTypeOK' /\ IndexTypeOK' /\ UsedTypeOK'
    BY <1>5 DEF TypeOK, TruthTypeOK, IndexTypeOK, UsedTypeOK,
                InvalidateDeleted, diskVars, indexVars
  <2>2. AdminTypeOK'
    BY <1>5, RespondType DEF TypeOK, InvalidateDeleted
  <2>3. ModelTypeOK'
    BY <1>0, <1>5 DEF TypeOK, ModelTypeOK, AdminTypeOK, InvalidateDeleted,
                      Respond
  <2>4. QED
    BY <1>1, <2>1, <2>2, <2>3 DEF TypeOK
<1>6. CASE PruneFails(a)
  <2>1. TruthTypeOK' /\ IndexTypeOK'
    BY <1>6 DEF TypeOK, TruthTypeOK, IndexTypeOK, PruneFails, diskVars,
                indexVars
  <2>2. AdminTypeOK'
    BY <1>6, RespondType DEF TypeOK, PruneFails
  <2>3. ModelTypeOK'
    BY <1>0, <1>6 DEF TypeOK, ModelTypeOK, AdminTypeOK, PruneFails, modelVars,
                      Respond
  <2>4. UsedTypeOK'
    BY <1>6 DEF TypeOK, UsedTypeOK, PruneFails
  <2>5. QED
    BY <1>1, <2>1, <2>2, <2>3, <2>4 DEF TypeOK
<1>7. QED
  BY <1>2, <1>3, <1>4, <1>5, <1>6

LEMMA TypeFetcher ==
    ASSUME TypeOK, NEW f \in Fetcher, FetcherNext(f)
    PROVE  TypeOK'
<1>1. ModelTypeOK' /\ OpenTypeOK' /\ AdminTypeOK'
  BY DEF TypeOK, ModelTypeOK, OpenTypeOK, AdminTypeOK, FetcherNext, FetchMiss,
         FetchMark, FetchUnmarked, FetchWrite, FetchDropped, modelVars,
         openVars, adminVars, pruneVars
<1>2. CASE \E c \in Chunk : FetchMiss(f, c)
  BY <1>1, <1>2 DEF TypeOK, TruthTypeOK, IndexTypeOK, FetchTypeOK, UsedTypeOK,
                    FetchMiss, diskVars, indexVars
<1>3. CASE FetchMark(f)
  BY <1>1, <1>3 DEF TypeOK, TruthTypeOK, IndexTypeOK, FetchTypeOK, UsedTypeOK,
                    FetchMark, diskVars
<1>4. CASE FetchUnmarked(f)
  BY <1>1, <1>4 DEF TypeOK, TruthTypeOK, IndexTypeOK, FetchTypeOK, UsedTypeOK,
                    FetchUnmarked, diskVars, indexVars
<1>5. CASE FetchWrite(f)
  BY <1>1, <1>5 DEF TypeOK, TruthTypeOK, IndexTypeOK, FetchTypeOK, UsedTypeOK,
                    FetchWrite, indexVars
<1>6. CASE FetchDropped(f)
  BY <1>1, <1>6 DEF TypeOK, TruthTypeOK, IndexTypeOK, FetchTypeOK, UsedTypeOK,
                    FetchDropped, diskVars, indexVars
<1>7. QED
  BY <1>2, <1>3, <1>4, <1>5, <1>6 DEF FetcherNext

LEMMA TypeRestart == TypeOK /\ Restart => TypeOK'
<1> SUFFICES ASSUME TypeOK, Restart PROVE TypeOK'
  OBVIOUS
<1>1. TruthTypeOK' /\ IndexTypeOK'
  BY DEF TypeOK, TruthTypeOK, IndexTypeOK, Restart, diskVars
<1>2. ModelTypeOK'
  BY StoreConstants DEF Restart, ModelTypeOK
<1>3. OpenTypeOK' /\ FetchTypeOK' /\ UsedTypeOK'
  BY DEF TypeOK, Restart, OpenTypeOK, FetchTypeOK, UsedTypeOK
<1>4. AdminTypeOK'
  BY DEF Restart, AdminTypeOK, NoRequest, PruneRequest
<1>5. QED
  BY <1>1, <1>2, <1>3, <1>4 DEF TypeOK

LEMMA TypeStep == TypeOK /\ [Next]_vars => TypeOK'
<1> SUFFICES ASSUME TypeOK, [Next]_vars PROVE TypeOK'
  OBVIOUS
<1>1. CASE UNCHANGED vars
  <2>1. UNCHANGED AllVars
    BY <1>1, Stutter
  <2>2. QED
    BY <2>1 DEF AllVars, TypeOK, TruthTypeOK, IndexTypeOK, ModelTypeOK,
                OpenTypeOK, AdminTypeOK, FetchTypeOK, UsedTypeOK
<1>2. CASE Next
  BY <1>2, TypeOpener, TypeAdminQuiet, TypeAdminFiles, TypeFetcher, TypeRestart
  DEF Next, AdminNext
<1>3. QED
  BY <1>1, <1>2

\* Every variable of the store stays in its domain, and the write lock of the
\* model is held by a task that builds it and by nobody else.
THEOREM StoreTypeCorrect == Spec => []TypeOK
<1>1. QED
  BY TypeInit, TypeStep, PTL DEF Spec

-----------------------------------------------------------------------------
(* The cached model.  Whoever put m on disk is still on the way to          *)
(* indexed_manifests, or to the invalidation that follows it.               *)

\* A manifest on disk is indexed, or its opener has yet to add it.
Known ==
    \A m \in cached \ indexed : \E o \in Opener : om[o] = m /\ opc[o] = "opened"

\* Of the manifests on disk, S lacks only those an opener will announce.
NoneMissing(S) ==
    \A m \in (cached \cap indexed) \ S :
        \E o \in Opener : om[o] = m /\ opc[o] = "fresh"

\* S has nothing that is gone but what a prune will announce.
NoneGone(S) == \A m \in S \ cached : Deleting(m)

\* What a prune has left to delete is what it was asked to delete.
LeftAsked ==
    \A a \in Admin : left[a] # {} => apc[a] = "delete" /\ left[a] \subseteq req[a].delete

\* The model, and the one that is being built.
Behind ==
    used.reopens = 0 =>
        /\ model # NoModel => NoneMissing(model)
        /\ \A a \in Admin : apc[a] = "build" => NoneMissing(graph[a])

Ahead ==
    used.faults = 0 =>
        /\ model # NoModel => NoneGone(model)
        /\ \A a \in Admin : apc[a] = "build" => NoneGone(graph[a])

ModelInv == TypeOK /\ Known /\ LeftAsked /\ Behind /\ Ahead

\* The history counters never go back.
LEMMA Counting ==
    ASSUME TypeOK, [Next]_vars
    PROVE  used'.reopens >= used.reopens /\ used'.faults >= used.faults
<1>0. used.reopens \in Nat /\ used.faults \in Nat
  BY DEF TypeOK, UsedTypeOK
<1>1. CASE \E o \in Opener : \E m \in Manifest : Open(o, m)
  <2>1. PICK m \in Manifest, o \in Opener : Open(o, m)
    BY <1>1
  <2> DEFINE n == IF m \in indexed \ cached THEN used.reopens + 1
                                           ELSE used.reopens
  <2>2. n >= used.reopens
    BY <1>0
  <2>3. used' = [used EXCEPT !.opens = used.opens + 1, !.reopens = n]
    BY <2>1 DEF Open
  <2> HIDE DEF n
  <2>4. QED
    BY <1>0, <2>2, <2>3 DEF TypeOK, UsedTypeOK
<1>2. CASE \E o \in Opener : AddManifest(o) \/ Invalidate(o)
  BY <1>0, <1>2 DEF AddManifest, Invalidate
<1>3. CASE \E a \in Admin : AdminNext(a)
  BY <1>0, <1>3 DEF TypeOK, UsedTypeOK, AdminNext, Call, UseModel, BuildBegin,
     BuildEnd, ComputeFreed, RemoveChunk, ComputeOrphans, MarkAbsent,
     DeleteManifest, InvalidateDeleted, PruneFails
<1>4. CASE \E f \in Fetcher : FetcherNext(f)
  BY <1>0, <1>4 DEF TypeOK, UsedTypeOK, FetcherNext, FetchMiss, FetchMark,
     FetchUnmarked, FetchWrite, FetchDropped
<1>5. CASE Restart
  BY <1>0, <1>5 DEF TypeOK, UsedTypeOK, Restart
<1>6. CASE UNCHANGED vars
  BY <1>0, <1>6 DEF vars
<1>7. QED
  BY <1>1, <1>2, <1>3, <1>4, <1>5, <1>6 DEF Next, OpenerNext

LEMMA KnownStep == TypeOK /\ Known /\ [Next]_vars => Known'
<1> SUFFICES ASSUME TypeOK, Known, [Next]_vars PROVE Known'
  OBVIOUS
<1>1. CASE \E o \in Opener : OpenerNext(o)
  <2>1. PICK o \in Opener : OpenerNext(o)
    BY <1>1
  <2>2. CASE \E m \in Manifest : Open(o, m)
    BY <2>2 DEF TypeOK, OpenTypeOK, Known, Open, indexVars
  <2>3. CASE AddManifest(o)
    BY <2>3 DEF TypeOK, OpenTypeOK, Known, AddManifest, diskVars
  <2>4. CASE Invalidate(o)
    BY <2>4 DEF TypeOK, OpenTypeOK, Known, Invalidate, diskVars, indexVars
  <2>5. QED
    BY <2>1, <2>2, <2>3, <2>4 DEF OpenerNext
<1>2. CASE \E a \in Admin : AdminNext(a)
  <2>1. UNCHANGED <<indexed, opc, om>> /\ cached' \subseteq cached
    BY <1>2 DEF AdminNext, Call, UseModel, BuildBegin, BuildEnd, ComputeFreed,
                RemoveChunk, ComputeOrphans, MarkAbsent, DeleteManifest,
                InvalidateDeleted, PruneFails, openVars, indexVars, diskVars
  <2>2. QED
    BY <2>1 DEF Known
<1>3. CASE \E f \in Fetcher : FetcherNext(f)
  BY <1>3 DEF Known, FetcherNext, FetchMiss, FetchMark, FetchUnmarked,
              FetchWrite, FetchDropped, openVars, indexVars, diskVars
<1>4. CASE Restart
  BY <1>4 DEF Known, Restart, diskVars
<1>5. CASE UNCHANGED vars
  BY <1>5, Stutter DEF AllVars, Known
<1>6. QED
  BY <1>1, <1>2, <1>3, <1>4, <1>5 DEF Next

LEMMA LeftStep == TypeOK /\ LeftAsked /\ [Next]_vars => LeftAsked'
<1> SUFFICES ASSUME TypeOK, LeftAsked, [Next]_vars PROVE LeftAsked'
  OBVIOUS
<1>1. CASE \E a \in Admin : AdminNext(a)
  <2>1. PICK a \in Admin : AdminNext(a)
    BY <1>1
  <2>2. CASE MarkAbsent(a)
    BY <2>2 DEF TypeOK, AdminTypeOK, LeftAsked, MarkAbsent, Respond
  <2>3. CASE DeleteManifest(a)
    BY <2>3 DEF TypeOK, AdminTypeOK, LeftAsked, DeleteManifest
  <2>4. CASE InvalidateDeleted(a) \/ PruneFails(a)
    BY <2>4 DEF TypeOK, AdminTypeOK, LeftAsked, InvalidateDeleted, PruneFails,
                Respond
  <2>5. CASE \E r \in Requests : Call(a, r)
    BY <2>5 DEF TypeOK, AdminTypeOK, LeftAsked, Call, pruneVars
  <2>6. CASE \/ UseModel(a) \/ BuildBegin(a) \/ BuildEnd(a)
             \/ ComputeFreed(a) \/ RemoveChunk(a) \/ ComputeOrphans(a)
    BY <2>6 DEF TypeOK, AdminTypeOK, LeftAsked, UseModel, BuildBegin, BuildEnd,
                ComputeFreed, RemoveChunk, ComputeOrphans
  <2>7. QED
    BY <2>1, <2>2, <2>3, <2>4, <2>5, <2>6 DEF AdminNext
<1>2. CASE \/ \E o \in Opener : OpenerNext(o)
           \/ \E f \in Fetcher : FetcherNext(f)
  <2>1. UNCHANGED <<left, apc, req>>
    BY <1>2 DEF OpenerNext, Open, AddManifest, Invalidate, FetcherNext,
                FetchMiss, FetchMark, FetchUnmarked, FetchWrite, FetchDropped,
                adminVars, pruneVars
  <2>2. QED
    BY <2>1 DEF LeftAsked
<1>3. CASE Restart
  BY <1>3 DEF LeftAsked, Restart
<1>4. CASE UNCHANGED vars
  BY <1>4, Stutter DEF AllVars, LeftAsked
<1>5. QED
  BY <1>1, <1>2, <1>3, <1>4 DEF Next

LEMMA BehindStep == TypeOK /\ Known /\ Behind /\ [Next]_vars => Behind'
<1> SUFFICES ASSUME TypeOK, Known, Behind, [Next]_vars, used'.reopens = 0
             PROVE  /\ model' # NoModel => NoneMissing(model)'
                    /\ \A a \in Admin : apc'[a] = "build" => NoneMissing(graph[a])'
  BY DEF Behind
<1>0. used.reopens = 0
  BY Counting DEF TypeOK, UsedTypeOK
<1>1. CASE \E o \in Opener : OpenerNext(o)
  <2>1. PICK o \in Opener : OpenerNext(o)
    BY <1>1
  <2>2. UNCHANGED <<apc, graph>>
    BY <2>1 DEF OpenerNext, Open, AddManifest, Invalidate, adminVars, pruneVars
  <2>3. CASE \E m \in Manifest : Open(o, m)
    <3>1. PICK m \in Manifest : Open(o, m)
      BY <2>3
    <3>2. UNCHANGED <<model, indexed>>
      BY <3>1 DEF Open, modelVars, indexVars
    <3>3. m \in indexed => m \in cached
      BY <1>0, <3>1 DEF Open, TypeOK, UsedTypeOK
    <3>4. ASSUME NEW S, NoneMissing(S) PROVE NoneMissing(S)'
      BY <3>1, <3>2, <3>3, <3>4 DEF NoneMissing, Open, TypeOK, OpenTypeOK
    <3>5. QED
      BY <1>0, <2>2, <3>2, <3>4 DEF Behind
  <2>4. CASE AddManifest(o)
    <3>1. UNCHANGED <<model, cached>>
      BY <2>4 DEF AddManifest, modelVars, diskVars
    <3>2. ASSUME NEW S, NoneMissing(S) PROVE NoneMissing(S)'
      BY <2>4, <3>1, <3>2 DEF NoneMissing, AddManifest, TypeOK, OpenTypeOK
    <3>3. QED
      BY <1>0, <2>2, <3>1, <3>2 DEF Behind
  <2>5. CASE Invalidate(o)
    <3>1. model' = NoModel /\ \A a \in Admin : apc[a] # "build"
      BY <2>5, StoreConstants DEF Invalidate, TypeOK, ModelTypeOK
    <3>2. QED
      BY <2>2, <3>1
  <2>6. QED
    BY <2>1, <2>3, <2>4, <2>5 DEF OpenerNext
<1>2. CASE \E a \in Admin : AdminNext(a)
  <2>1. PICK a \in Admin : AdminNext(a)
    BY <1>2
  <2>2. UNCHANGED <<indexed, opc, om>> /\ cached' \subseteq cached
    BY <2>1 DEF AdminNext, Call, UseModel, BuildBegin, BuildEnd, ComputeFreed,
                RemoveChunk, ComputeOrphans, MarkAbsent, DeleteManifest,
                InvalidateDeleted, PruneFails, openVars, indexVars, diskVars
  <2>3. ASSUME NEW S, NoneMissing(S) PROVE NoneMissing(S)'
    BY <2>2, <2>3 DEF NoneMissing
  <2>4. CASE BuildBegin(a)
    <3>1. NoneMissing(cached)
      BY DEF NoneMissing
    <3>2. UNCHANGED model /\ \A b \in Admin : apc'[b] = "build" =>
             b = a \/ (apc[b] = "build" /\ graph'[b] = graph[b])
      BY <2>4 DEF BuildBegin, TypeOK, AdminTypeOK
    <3>3. graph'[a] = cached
      BY <2>4 DEF BuildBegin, TypeOK, AdminTypeOK
    <3>4. QED
      BY <1>0, <2>3, <3>1, <3>2, <3>3 DEF Behind
  <2>5. CASE BuildEnd(a)
    <3>1. PICK S \in SUBSET (graph[a] \cup cached) :
             graph[a] \cap cached \subseteq S /\ model' = S
      BY <2>5 DEF BuildEnd
    <3>2. NoneMissing(graph[a])
      BY <1>0, <2>5 DEF Behind, BuildEnd
    <3>3. NoneMissing(S)
      BY <3>1, <3>2 DEF NoneMissing
    <3>4. \A b \in Admin : apc'[b] # "build"
      BY <2>5 DEF BuildEnd, TypeOK, AdminTypeOK, ModelTypeOK
    <3>5. QED
      BY <2>3, <3>1, <3>3, <3>4
  <2>6. CASE ~BuildBegin(a) /\ ~BuildEnd(a)
    <3>1. model' \in {model, NoModel}
      BY <2>1, <2>6 DEF AdminNext, Call, UseModel, ComputeFreed,
                  RemoveChunk, ComputeOrphans, MarkAbsent, DeleteManifest,
                  InvalidateDeleted, PruneFails, modelVars
    <3>2. ASSUME NEW b \in Admin, apc'[b] = "build"
          PROVE  apc[b] = "build" /\ graph'[b] = graph[b]
      BY <2>1, <2>6, <3>2 DEF AdminNext, Call, UseModel, ComputeFreed,
                  RemoveChunk, ComputeOrphans, MarkAbsent, DeleteManifest,
                  InvalidateDeleted, PruneFails, Respond, pruneVars, TypeOK,
                  AdminTypeOK
    <3>3. QED
      BY <1>0, <2>3, <3>1, <3>2 DEF Behind
  <2>7. QED
    BY <2>4, <2>5, <2>6
<1>3. CASE \E f \in Fetcher : FetcherNext(f)
  <2>1. UNCHANGED <<cached, indexed, model, opc, om, apc, graph>>
    BY <1>3 DEF FetcherNext, FetchMiss, FetchMark, FetchUnmarked, FetchWrite,
                FetchDropped, diskVars, indexVars, modelVars, openVars,
                adminVars, pruneVars
  <2>2. QED
    BY <1>0, <2>1 DEF Behind, NoneMissing
<1>4. CASE Restart
  BY <1>4 DEF Restart
<1>5. CASE UNCHANGED vars
  BY <1>0, <1>5, Stutter DEF AllVars, Behind, NoneMissing
<1>6. QED
  BY <1>1, <1>2, <1>3, <1>4, <1>5 DEF Next

LEMMA AheadStep == TypeOK /\ LeftAsked /\ Ahead /\ [Next]_vars => Ahead'
<1> SUFFICES ASSUME TypeOK, LeftAsked, Ahead, [Next]_vars, used'.faults = 0
             PROVE  /\ model' # NoModel => NoneGone(model)'
                    /\ \A a \in Admin : apc'[a] = "build" => NoneGone(graph[a])'
  BY DEF Ahead
<1>0. used.faults = 0
  BY Counting DEF TypeOK, UsedTypeOK
<1>1. CASE \E o \in Opener : OpenerNext(o)
  <2>1. PICK o \in Opener : OpenerNext(o)
    BY <1>1
  <2>2. UNCHANGED <<apc, graph, req>> /\ cached \subseteq cached'
          /\ model' \in {model, NoModel}
    BY <2>1 DEF OpenerNext, Open, AddManifest, Invalidate, adminVars,
                pruneVars, diskVars, modelVars
  <2>3. QED
    BY <1>0, <2>2 DEF Ahead, NoneGone, Deleting
<1>2. CASE \E a \in Admin : AdminNext(a)
  <2>1. PICK a \in Admin : AdminNext(a)
    BY <1>2
  <2>2. CASE BuildBegin(a)
    <3>1. UNCHANGED <<model, cached, req>> /\ graph'[a] = cached
      BY <2>2 DEF BuildBegin, diskVars, TypeOK, AdminTypeOK
    <3>2. \A b \in Admin : apc[b] = "delete" => apc'[b] = "delete"
      BY <2>2 DEF BuildBegin, TypeOK, AdminTypeOK
    <3>3. \A b \in Admin : apc'[b] = "build" =>
             b = a \/ (apc[b] = "build" /\ graph'[b] = graph[b])
      BY <2>2 DEF BuildBegin, TypeOK, AdminTypeOK
    <3>4. ASSUME NEW S, NoneGone(S) PROVE NoneGone(S)'
      BY <3>1, <3>2, <3>4 DEF NoneGone, Deleting
    <3>5. NoneGone(graph[a])'
      BY <3>1 DEF NoneGone
    <3>6. QED
      BY <1>0, <3>1, <3>3, <3>4, <3>5 DEF Ahead
  <2>3. CASE BuildEnd(a)
    <3>1. PICK S \in SUBSET (graph[a] \cup cached) : model' = S
      BY <2>3 DEF BuildEnd
    <3>2. NoneGone(graph[a])
      BY <1>0, <2>3 DEF Ahead, BuildEnd
    <3>3. \A b \in Admin : apc[b] = "delete" => apc'[b] = "delete"
      BY <2>3 DEF BuildEnd, TypeOK, AdminTypeOK
    <3>4. UNCHANGED <<cached, req>>
      BY <2>3 DEF BuildEnd, diskVars
    <3>5. \A b \in Admin : apc'[b] # "build"
      BY <2>3 DEF BuildEnd, TypeOK, AdminTypeOK, ModelTypeOK
    <3>6. QED
      BY <3>1, <3>2, <3>3, <3>4, <3>5 DEF NoneGone, Deleting
  <2>4. CASE DeleteManifest(a)
    <3>1. PICK m \in left[a] : cached' = cached \ {m}
      BY <2>4 DEF DeleteManifest
    <3>2. UNCHANGED <<apc, req, graph, model>>
      BY <2>4 DEF DeleteManifest, modelVars
    <3>3. apc[a] = "delete" /\ m \in req[a].delete
      BY <3>1 DEF LeftAsked
    <3>4. ASSUME NEW S, NoneGone(S) PROVE NoneGone(S)'
      BY <3>1, <3>2, <3>3, <3>4 DEF NoneGone, Deleting
    <3>5. QED
      BY <1>0, <3>2, <3>4 DEF Ahead
  <2>5. CASE InvalidateDeleted(a)
    <3>1. model' = NoModel /\ \A b \in Admin : apc'[b] # "build"
      BY <2>5, StoreConstants
      DEF InvalidateDeleted, Respond, TypeOK, AdminTypeOK, ModelTypeOK
    <3>2. QED
      BY <3>1
  <2>6. CASE PruneFails(a)
    BY <1>0, <2>6 DEF PruneFails, TypeOK, UsedTypeOK
  <2>7. CASE MarkAbsent(a)
    <3>1. UNCHANGED <<cached, model>>
      BY <2>7 DEF MarkAbsent, diskVars, modelVars
    <3>2. \A b \in Admin : apc[b] = "delete" =>
             apc'[b] = "delete" /\ req'[b] = req[b]
      BY <2>7 DEF MarkAbsent, Respond, TypeOK, AdminTypeOK
    <3>3. \A b \in Admin : apc'[b] = "build" =>
             apc[b] = "build" /\ graph'[b] = graph[b]
      BY <2>7 DEF MarkAbsent, Respond, TypeOK, AdminTypeOK
    <3>4. ASSUME NEW S, NoneGone(S) PROVE NoneGone(S)'
      BY <3>1, <3>2, <3>4 DEF NoneGone, Deleting
    <3>5. QED
      BY <1>0, <3>1, <3>3, <3>4 DEF Ahead
  <2>8. CASE \/ \E r \in Requests : Call(a, r)
             \/ UseModel(a) \/ ComputeFreed(a) \/ RemoveChunk(a)
             \/ ComputeOrphans(a)
    <3>1. UNCHANGED <<cached, model>>
      BY <2>8 DEF Call, UseModel, ComputeFreed, RemoveChunk, ComputeOrphans,
                  diskVars, modelVars
    <3>2. \A b \in Admin : apc[b] = "delete" =>
             apc'[b] = "delete" /\ req'[b] = req[b]
      BY <2>8 DEF Call, UseModel, ComputeFreed, RemoveChunk, ComputeOrphans,
                  TypeOK, AdminTypeOK
    <3>3. \A b \in Admin : apc'[b] = "build" =>
             apc[b] = "build" /\ graph'[b] = graph[b]
      BY <2>8 DEF Call, UseModel, ComputeFreed, RemoveChunk, ComputeOrphans,
                  pruneVars, TypeOK, AdminTypeOK
    <3>4. ASSUME NEW S, NoneGone(S) PROVE NoneGone(S)'
      BY <3>1, <3>2, <3>4 DEF NoneGone, Deleting
    <3>5. QED
      BY <1>0, <3>1, <3>3, <3>4 DEF Ahead
  <2>9. QED
    BY <2>1, <2>2, <2>3, <2>4, <2>5, <2>6, <2>7, <2>8 DEF AdminNext
<1>3. CASE \E f \in Fetcher : FetcherNext(f)
  <2>1. UNCHANGED <<cached, model, apc, req, graph>>
    BY <1>3 DEF FetcherNext, FetchMiss, FetchMark, FetchUnmarked, FetchWrite,
                FetchDropped, diskVars, modelVars, adminVars, pruneVars
  <2>2. QED
    BY <1>0, <2>1 DEF Ahead, NoneGone, Deleting
<1>4. CASE Restart
  BY <1>4 DEF Restart
<1>5. CASE UNCHANGED vars
  BY <1>0, <1>5, Stutter DEF AllVars, Ahead, NoneGone, Deleting
<1>6. QED
  BY <1>1, <1>2, <1>3, <1>4, <1>5 DEF Next

LEMMA ModelInvariant == Spec => []ModelInv
<1>1. Init => ModelInv
  BY TypeInit DEF Init, ModelInv, Known, LeftAsked, Behind, Ahead
<1>2. ModelInv /\ [Next]_vars => ModelInv'
  BY TypeStep, KnownStep, LeftStep, BehindStep, AheadStep DEF ModelInv
<1>3. QED
  BY <1>1, <1>2, PTL DEF Spec

\* The model that store_model() hands out differs from the manifests on disk
\* only while somebody who changed them is about to invalidate it, as long as
\* no pruned manifest was opened again and no prune failed.
THEOREM ModelStaysCurrent == Spec => []ModelCurrent
<1>1. ModelInv => ModelCurrent
  BY DEF ModelInv, ModelCurrent, Known, Behind, Ahead, NoneMissing, NoneGone,
         Announcing
<1>2. QED
  BY <1>1, ModelInvariant, PTL

-----------------------------------------------------------------------------
(* What a prune removes.                                                    *)

\* Counting references finds exactly the chunks all of whose references lie
\* within F.
LEMMA FreedByMeaning ==
    ASSUME NEW M \in SUBSET Manifest, NEW F, NEW P,
           NEW c \in FreedBy(M, F, P), NEW m \in M, c \in ChunksOf[m]
    PROVE  m \in F
<1> DEFINE inM == {k \in M : c \in ChunksOf[k]}
           inF == {k \in M \cap F : c \in ChunksOf[k]}
<1>1. IsFiniteSet(inM)
  BY FS_Subset, StoreConstants
<1>2. inF \subseteq inM /\ Cardinality(inF) = Cardinality(inM)
  BY DEF FreedBy, Refs
<1>3. inF = inM
  BY <1>1, <1>2, FS_Subset
<1>4. QED
  BY <1>3

\* Which sets a prune has computed, and what it still has to remove.
Picked ==
    \A a \in Admin :
        /\ apc[a] \notin {"free", "sweep", "delete"} => freed[a] = {}
        /\ apc[a] \notin {"sweep", "delete"} => orphans[a] = {}
        /\ apc[a] = "free" => todo[a] \subseteq freed[a]
        /\ apc[a] = "sweep" => todo[a] \subseteq orphans[a]
        /\ apc[a] \notin {"free", "sweep"} => todo[a] = {}

\* No manifest of the graph needs what was picked, but for those named.
Unneeded ==
    \A a \in Admin : \A m \in graph[a] :
        /\ \A c \in freed[a] : c \in ChunksOf[m] => m \in req[a].free
        /\ \A c \in orphans[a] : c \in ChunksOf[m] => m \in req[a].delete

\* The graph of a prune has every manifest on disk but those it cannot know.
Covering ==
    used.reopens = 0 =>
        \A a \in Admin : apc[a] \notin {"idle", "model"} =>
            cached \ unseen[a] \subseteq graph[a]

LEMMA PickedStep == TypeOK /\ Picked /\ [Next]_vars => Picked'
<1> SUFFICES ASSUME TypeOK, Picked, [Next]_vars PROVE Picked'
  OBVIOUS
<1>1. CASE \E a \in Admin : AdminNext(a)
  <2>1. PICK a \in Admin : AdminNext(a)
    BY <1>1
  <2>2. CASE \E r \in Requests : Call(a, r)
    BY <2>2 DEF TypeOK, AdminTypeOK, Picked, Call, pruneVars
  <2>3. CASE UseModel(a) \/ BuildBegin(a) \/ BuildEnd(a)
    BY <2>3 DEF TypeOK, AdminTypeOK, Picked, UseModel, BuildBegin, BuildEnd
  <2>4. CASE ComputeFreed(a)
    BY <2>4 DEF TypeOK, AdminTypeOK, Picked, ComputeFreed
  <2>5. CASE ComputeOrphans(a)
    BY <2>5 DEF TypeOK, AdminTypeOK, Picked, ComputeOrphans
  <2>6. CASE RemoveChunk(a)
    BY <2>6 DEF TypeOK, AdminTypeOK, Picked, RemoveChunk
  <2>7. CASE MarkAbsent(a)
    BY <2>7 DEF TypeOK, AdminTypeOK, Picked, MarkAbsent, Respond
  <2>8. CASE DeleteManifest(a)
    BY <2>8 DEF Picked, DeleteManifest
  <2>9. CASE InvalidateDeleted(a) \/ PruneFails(a)
    BY <2>9 DEF TypeOK, AdminTypeOK, Picked, InvalidateDeleted, PruneFails,
                Respond
  <2>10. QED
    BY <2>1, <2>2, <2>3, <2>4, <2>5, <2>6, <2>7, <2>8, <2>9 DEF AdminNext
<1>2. CASE \/ \E o \in Opener : OpenerNext(o)
           \/ \E f \in Fetcher : FetcherNext(f)
  <2>1. UNCHANGED <<apc, freed, orphans, todo>>
    BY <1>2 DEF OpenerNext, Open, AddManifest, Invalidate, FetcherNext,
                FetchMiss, FetchMark, FetchUnmarked, FetchWrite, FetchDropped,
                adminVars, pruneVars
  <2>2. QED
    BY <2>1 DEF Picked
<1>3. CASE Restart
  BY <1>3 DEF Picked, Restart
<1>4. CASE UNCHANGED vars
  BY <1>4, Stutter DEF AllVars, Picked
<1>5. QED
  BY <1>1, <1>2, <1>3, <1>4 DEF Next

LEMMA UnneededStep == TypeOK /\ Picked /\ Unneeded /\ [Next]_vars => Unneeded'
<1> SUFFICES ASSUME TypeOK, Picked, Unneeded, [Next]_vars PROVE Unneeded'
  OBVIOUS
<1>1. CASE \E a \in Admin : AdminNext(a)
  <2>1. PICK a \in Admin : AdminNext(a)
    BY <1>1
  <2>2. CASE \E r \in Requests : Call(a, r)
    BY <2>2 DEF TypeOK, AdminTypeOK, Picked, Unneeded, Call, pruneVars
  <2>3. CASE UseModel(a) \/ BuildBegin(a) \/ BuildEnd(a)
    BY <2>3 DEF TypeOK, AdminTypeOK, Picked, Unneeded, UseModel, BuildBegin,
                BuildEnd
  <2>4. CASE ComputeFreed(a)
    <3> DEFINE F == FreedBy(graph[a], req[a].free, index)
    <3>1. \A c \in F : \A m \in graph[a] : c \in ChunksOf[m] => m \in req[a].free
      BY FreedByMeaning DEF TypeOK, AdminTypeOK
    <3>2. freed' = [freed EXCEPT ![a] = F] /\ UNCHANGED <<graph, req, orphans>>
      BY <2>4 DEF ComputeFreed
    <3> HIDE DEF F
    <3>3. QED
      BY <3>1, <3>2 DEF TypeOK, AdminTypeOK, Unneeded
  <2>5. CASE ComputeOrphans(a)
    BY <2>5 DEF TypeOK, AdminTypeOK, Unneeded, ComputeOrphans, KeptBy
  <2>6. CASE RemoveChunk(a) \/ DeleteManifest(a)
    BY <2>6 DEF Unneeded, RemoveChunk, DeleteManifest
  <2>7. CASE MarkAbsent(a)
    BY <2>7 DEF TypeOK, AdminTypeOK, Unneeded, MarkAbsent, Respond
  <2>8. CASE InvalidateDeleted(a) \/ PruneFails(a)
    BY <2>8 DEF TypeOK, AdminTypeOK, Unneeded, InvalidateDeleted, PruneFails,
                Respond
  <2>9. QED
    BY <2>1, <2>2, <2>3, <2>4, <2>5, <2>6, <2>7, <2>8 DEF AdminNext
<1>2. CASE \/ \E o \in Opener : OpenerNext(o)
           \/ \E f \in Fetcher : FetcherNext(f)
  <2>1. UNCHANGED <<graph, freed, orphans, req>>
    BY <1>2 DEF OpenerNext, Open, AddManifest, Invalidate, FetcherNext,
                FetchMiss, FetchMark, FetchUnmarked, FetchWrite, FetchDropped,
                adminVars, pruneVars
  <2>2. QED
    BY <2>1 DEF Unneeded
<1>3. CASE Restart
  BY <1>3 DEF Unneeded, Restart
<1>4. CASE UNCHANGED vars
  BY <1>4, Stutter DEF AllVars, Unneeded
<1>5. QED
  BY <1>1, <1>2, <1>3, <1>4 DEF Next

LEMMA CoveringStep == ModelInv /\ Covering /\ [Next]_vars => Covering'
<1> SUFFICES ASSUME ModelInv, Covering, [Next]_vars, used'.reopens = 0,
                    NEW b \in Admin, apc'[b] \notin {"idle", "model"}
             PROVE  cached' \ unseen'[b] \subseteq graph'[b]
  BY DEF Covering
<1>0. used.reopens = 0 /\ TypeOK
  BY Counting DEF TypeOK, UsedTypeOK, ModelInv
<1>1. CASE \E o \in Opener : OpenerNext(o)
  <2>1. PICK o \in Opener : OpenerNext(o)
    BY <1>1
  <2>2. UNCHANGED <<apc, graph>>
    BY <2>1 DEF OpenerNext, Open, AddManifest, Invalidate, adminVars, pruneVars
  <2>3. cached' \ unseen'[b] \subseteq cached \ unseen[b]
    <3>1. CASE \E m \in Manifest : Open(o, m)
      <4>1. PICK m \in Manifest : Open(o, m)
        BY <3>1
      <4>2. cached' = cached \cup {m} /\ b \in Admin
        BY <4>1 DEF Open
      <4>3. CASE m \in cached
        BY <4>1, <4>2, <4>3 DEF Open
      <4>4. CASE m \notin cached
        <5>1. unseen'[b] = unseen[b] \cup {m}
          BY <4>1, <4>4 DEF Open
        <5>2. QED
          BY <4>2, <5>1
      <4>5. QED
        BY <4>3, <4>4
    <3>2. CASE AddManifest(o) \/ Invalidate(o)
      BY <3>2 DEF AddManifest, Invalidate, adminVars, pruneVars, diskVars
    <3>3. QED
      BY <2>1, <3>1, <3>2 DEF OpenerNext
  <2>4. QED
    BY <1>0, <2>2, <2>3 DEF Covering
<1>2. CASE \E a \in Admin : AdminNext(a)
  <2>1. PICK a \in Admin : AdminNext(a)
    BY <1>2
  <2>2. CASE UseModel(a)
    <3>1. cached \ Unannounced \subseteq model
      BY <1>0, <2>2 DEF UseModel, ModelInv, Known, Behind, NoneMissing,
                        Unannounced
    <3>2. QED
      BY <1>0, <2>2, <3>1 DEF UseModel, diskVars, Covering, TypeOK, AdminTypeOK
  <2>3. CASE BuildBegin(a)
    BY <1>0, <2>3 DEF BuildBegin, diskVars, Covering, TypeOK, AdminTypeOK
  <2>4. CASE BuildEnd(a)
    <3>1. PICK S \in SUBSET (graph[a] \cup cached) :
             graph[a] \cap cached \subseteq S /\ graph' = [graph EXCEPT ![a] = S]
      BY <2>4 DEF BuildEnd
    <3>2. UNCHANGED <<cached, unseen>> /\ apc[a] = "build"
            /\ (b # a => apc'[b] = apc[b])
      BY <1>0, <2>4 DEF BuildEnd, diskVars, TypeOK, AdminTypeOK
    <3>3. cached \ unseen[a] \subseteq S
      BY <1>0, <3>1, <3>2 DEF Covering
    <3>4. QED
      BY <1>0, <3>1, <3>2, <3>3 DEF Covering, TypeOK, AdminTypeOK
  <2>5. CASE \E r \in Requests : Call(a, r)
    BY <1>0, <2>5 DEF Call, diskVars, pruneVars, Covering, TypeOK, AdminTypeOK
  <2>6. CASE \/ ComputeFreed(a) \/ ComputeOrphans(a) \/ RemoveChunk(a)
             \/ DeleteManifest(a)
    <3>1. UNCHANGED <<graph, unseen>> /\ cached' \subseteq cached
            /\ apc[b] \notin {"idle", "model"}
      BY <1>0, <2>6 DEF ComputeFreed, ComputeOrphans, RemoveChunk,
                  DeleteManifest, diskVars, TypeOK, AdminTypeOK
    <3>2. QED
      BY <1>0, <3>1 DEF Covering
  <2>7. CASE MarkAbsent(a) \/ InvalidateDeleted(a) \/ PruneFails(a)
    <3>1. UNCHANGED cached /\ apc[b] \notin {"idle", "model"}
            /\ graph'[b] = graph[b] /\ unseen'[b] = unseen[b]
      BY <1>0, <2>7 DEF MarkAbsent, InvalidateDeleted, PruneFails, Respond,
                  diskVars, TypeOK, AdminTypeOK
    <3>2. QED
      BY <1>0, <3>1 DEF Covering
  <2>8. QED
    BY <2>1, <2>2, <2>3, <2>4, <2>5, <2>6, <2>7 DEF AdminNext
<1>3. CASE \E f \in Fetcher : FetcherNext(f)
  <2>1. UNCHANGED <<cached, apc, graph, unseen>>
    BY <1>3 DEF FetcherNext, FetchMiss, FetchMark, FetchUnmarked, FetchWrite,
                FetchDropped, diskVars, adminVars, pruneVars
  <2>2. QED
    BY <1>0, <2>1 DEF Covering
<1>4. CASE Restart
  BY <1>4 DEF Restart
<1>5. CASE UNCHANGED vars
  BY <1>0, <1>5, Stutter DEF AllVars, Covering
<1>6. QED
  BY <1>1, <1>2, <1>3, <1>4, <1>5 DEF Next

PruneInv == ModelInv /\ Picked /\ Unneeded /\ Covering

LEMMA PruneInvariant == Spec => []PruneInv
<1>1. Init => PruneInv
  BY TypeInit DEF Init, PruneInv, ModelInv, Known, LeftAsked, Behind, Ahead,
                  Picked, Unneeded, Covering
<1>2. PruneInv /\ [Next]_vars => PruneInv'
  BY TypeStep, KnownStep, LeftStep, BehindStep, AheadStep, PickedStep,
     UnneededStep, CoveringStep
  DEF PruneInv, ModelInv
<1>3. QED
  BY <1>1, <1>2, PTL DEF Spec

\* A prune removes no chunk that a cached manifest outside its request needs,
\* if that manifest was on disk when the prune took its graph, as long as no
\* pruned manifest was opened again.
THEOREM PruneIsSafe == Spec => []PruneSparesOthers
<1>1. PruneInv => PruneSparesOthers
  <2> SUFFICES ASSUME PruneInv, used.reopens = 0, NEW a \in Admin,
                      NEW c \in todo[a], NEW m \in cached \ unseen[a],
                      c \in ChunksOf[m]
               PROVE  m \in IF apc[a] = "free" THEN req[a].free
                                               ELSE req[a].delete
    BY DEF PruneSparesOthers
  <2>1. m \in graph[a] /\ apc[a] \in {"free", "sweep"}
    BY DEF PruneInv, Picked, Covering
  <2>2. QED
    BY <2>1 DEF PruneInv, Picked, Unneeded
<1>2. QED
  BY <1>1, PruneInvariant, PTL

-----------------------------------------------------------------------------
(* The index                                                                *)

LEMMA HonestStep ==
    TypeOK /\ Picked /\ IndexHonest /\ [Next]_vars => IndexHonest'
<1> SUFFICES ASSUME TypeOK, Picked, IndexHonest, [Next]_vars,
                    used'.faults = 0, NEW c \in index' \ disk'
             PROVE  \/ \E f \in Fetcher : fpc'[f] = "write" /\ fc'[f] = c
                    \/ \E a \in Admin : /\ apc'[a] \in {"free", "sweep"}
                                        /\ c \in Removed(a)'
  BY DEF IndexHonest
<1>0. used.faults = 0
  BY Counting DEF TypeOK, UsedTypeOK
<1>1. CASE \E o \in Opener : OpenerNext(o)
  <2>1. UNCHANGED <<index, disk, fpc, fc, apc, freed, orphans>>
    BY <1>1 DEF OpenerNext, Open, AddManifest, Invalidate, diskVars, indexVars,
                fetchVars, adminVars, pruneVars
  <2>2. QED
    BY <1>0, <2>1 DEF IndexHonest, Removed
<1>2. CASE \E a \in Admin : AdminNext(a)
  <2>1. PICK a \in Admin : AdminNext(a)
    BY <1>2
  <2>2. UNCHANGED <<fpc, fc>>
    BY <2>1 DEF AdminNext, Call, UseModel, BuildBegin, BuildEnd, ComputeFreed,
                RemoveChunk, ComputeOrphans, MarkAbsent, DeleteManifest,
                InvalidateDeleted, PruneFails, fetchVars
  <2>3. CASE RemoveChunk(a)
    <3>1. PICK d \in todo[a] : disk' = disk \ {d}
      BY <2>3 DEF RemoveChunk
    <3>2. UNCHANGED <<index, apc, freed, orphans>>
      BY <2>3 DEF RemoveChunk, indexVars
    <3>3. CASE c = d
      BY <2>3, <3>1, <3>2, <3>3 DEF Picked, Removed, RemoveChunk
    <3>4. CASE c # d
      BY <1>0, <2>2, <3>1, <3>2, <3>4 DEF IndexHonest, Removed
    <3>5. QED
      BY <3>3, <3>4
  <2>4. CASE MarkAbsent(a)
    <3>1. UNCHANGED disk /\ c \in index /\ c \notin Removed(a)
      BY <2>4 DEF MarkAbsent, diskVars
    <3>2. \A b \in Admin \ {a} : apc'[b] = apc[b] /\ freed'[b] = freed[b]
                                   /\ orphans'[b] = orphans[b]
      BY <2>4 DEF MarkAbsent, Respond, TypeOK, AdminTypeOK
    <3>3. QED
      BY <1>0, <2>2, <3>1, <3>2 DEF IndexHonest, Removed
  <2>5. CASE PruneFails(a)
    BY <1>0, <2>5 DEF PruneFails, TypeOK, UsedTypeOK
  <2>6. CASE ~RemoveChunk(a) /\ ~MarkAbsent(a) /\ ~PruneFails(a)
    <3>1. UNCHANGED <<index, disk>>
      BY <2>1, <2>6 DEF AdminNext, Call, UseModel, BuildBegin, BuildEnd,
                  ComputeFreed, ComputeOrphans, DeleteManifest,
                  InvalidateDeleted, diskVars, indexVars
    <3>2. ASSUME NEW b \in Admin, apc[b] \in {"free", "sweep"}
          PROVE  /\ apc'[b] \in {"free", "sweep"}
                 /\ freed[b] \subseteq freed'[b]
                 /\ orphans[b] \subseteq orphans'[b]
      BY <2>1, <2>6, <3>2 DEF AdminNext, Call, UseModel, BuildBegin, BuildEnd,
                  ComputeFreed, ComputeOrphans, DeleteManifest,
                  InvalidateDeleted, Respond, pruneVars, TypeOK, AdminTypeOK,
                  Picked
    <3>3. QED
      BY <1>0, <2>2, <3>1, <3>2 DEF IndexHonest, Removed
  <2>7. QED
    BY <2>3, <2>4, <2>5, <2>6
<1>3. CASE \E f \in Fetcher : FetcherNext(f)
  <2>1. PICK f \in Fetcher : FetcherNext(f)
    BY <1>3
  <2>2. UNCHANGED <<apc, freed, orphans>>
    BY <2>1 DEF FetcherNext, FetchMiss, FetchMark, FetchUnmarked, FetchWrite,
                FetchDropped, adminVars, pruneVars
  <2>3. CASE FetchMark(f)
    BY <1>0, <2>2, <2>3 DEF FetchMark, diskVars, IndexHonest, Removed, TypeOK,
                            FetchTypeOK
  <2>4. CASE FetchWrite(f)
    BY <1>0, <2>2, <2>4 DEF FetchWrite, indexVars, IndexHonest, Removed,
                            TypeOK, FetchTypeOK
  <2>5. CASE FetchDropped(f)
    BY <1>0, <2>5 DEF FetchDropped, TypeOK, UsedTypeOK
  <2>6. CASE FetchUnmarked(f) \/ \E d \in Chunk : FetchMiss(f, d)
    BY <1>0, <2>2, <2>6 DEF FetchUnmarked, FetchMiss, diskVars, indexVars,
                            IndexHonest, Removed, TypeOK, FetchTypeOK
  <2>7. QED
    BY <2>1, <2>3, <2>4, <2>5, <2>6 DEF FetcherNext
<1>4. CASE Restart
  BY <1>4 DEF Restart, diskVars
<1>5. CASE UNCHANGED vars
  BY <1>0, <1>5, Stutter DEF AllVars, IndexHonest, Removed
<1>6. QED
  BY <1>1, <1>2, <1>3, <1>4, <1>5 DEF Next

\* What the index counts as present but is not on disk has a fetch about to
\* write it or a prune about to take it out of the index, as long as nothing
\* fails half-way.
THEOREM IndexStaysHonest == Spec => []IndexHonest
<1>1. Init => IndexHonest
  BY DEF Init, IndexHonest
<1>2. PruneInv /\ IndexHonest /\ [Next]_vars => IndexHonest'
  BY HonestStep DEF PruneInv, ModelInv
<1>3. QED
  BY <1>1, <1>2, PruneInvariant, PTL DEF Spec
=============================================================================
