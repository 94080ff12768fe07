------------------------- MODULE ChunkServiceProofs -------------------------
(***************************************************************************)
(* Machine-checked facts about ChunkService, for all finite sets of chunks *)
(* and any clients, workers, readers and channels.                         *)
(***************************************************************************)
EXTENDS ChunkService, FiniteSetTheorems, SequenceTheorems, TLAPS

\* Abbreviations of single expressions, expanded everywhere.
USE DEF Fresh, WithWaiter, AfterTake, GuardDropped, SameChannel, Disconnected

-----------------------------------------------------------------------------
(* Typing.  A task that runs has a chunk.                                   *)

Running == \A p \in Proc : pc[p] # "idle" => sha[p] \in Sha

Typing == TypeOK /\ Running

\* Groups of variables a step leaves alone keep their types.
LEMMA StoreUnchanged == StoreTypeOK /\ UNCHANGED storeVars => StoreTypeOK'
BY DEF StoreTypeOK, storeVars

LEMMA QueueUnchanged == QueueTypeOK /\ UNCHANGED queueVars => QueueTypeOK'
BY DEF QueueTypeOK, queueVars

LEMMA FlightUnchanged == FlightTypeOK /\ UNCHANGED flightVars => FlightTypeOK'
BY DEF FlightTypeOK, flightVars

LEMMA FetchUnchanged ==
    FetchTypeOK /\ Running /\ UNCHANGED fetchVars => FetchTypeOK' /\ Running'
BY DEF FetchTypeOK, fetchVars, Running

LEMMA ClientUnchanged == ClientTypeOK /\ UNCHANGED clientVars => ClientTypeOK'
BY DEF ClientTypeOK, clientVars

LEMMA CountUnchanged ==
    CountTypeOK /\ UNCHANGED <<stats, cancelling, used>> => CountTypeOK'
BY DEF CountTypeOK

\* A call, read, cancel or drop is counted.
LEMMA UsedType ==
    ASSUME CountTypeOK,
           \/ used' = [used EXCEPT !.calls = @ + 1]
           \/ used' = [used EXCEPT !.reads = @ + 1]
           \/ used' = [used EXCEPT !.cancels = @ + 1]
           \/ used' = [used EXCEPT !.drops = @ + 1]
    PROVE  used' \in [calls : Nat, reads : Nat, cancels : Nat, drops : Nat]
BY DEF CountTypeOK

\* The jobs of a request are chunks of that request.
LEMMA OrdersType ==
    ASSUME NEW S \in SUBSET Sha, NEW q \in Orders(S)
    PROVE  q \in Seq(Sha)
<1>1. IsFiniteSet(S)
  BY FS_Subset, ConstantsAssumption
<1>2. Cardinality(S) \in Nat
  BY <1>1, FS_CardinalityType
<1>3. q \in [1 .. Cardinality(S) -> Sha]
  BY DEF Orders
<1>4. QED
  BY <1>2, <1>3

LEMMA SubsetCount ==
    ASSUME NEW S \in SUBSET Sha
    PROVE  Cardinality(S) \in Nat
BY FS_Subset, FS_CardinalityType, ConstantsAssumption

LEMMA TypingInit == Init => Typing
<1> SUFFICES ASSUME Init PROVE Typing
  OBVIOUS
<1>1. StoreTypeOK /\ QueueTypeOK /\ FlightTypeOK
  BY DEF Init, StoreTypeOK, QueueTypeOK, FlightTypeOK
<1>2. FetchTypeOK /\ Running
  BY DEF Init, FetchTypeOK, Running, TaskPCs
<1>3. ClientTypeOK
  BY DEF Init, ClientTypeOK
<1>4. CountTypeOK
  BY DEF Init, CountTypeOK
<1>5. QED
  BY <1>1, <1>2, <1>3, <1>4 DEF Typing, TypeOK

LEMMA TypingEnqueue ==
    ASSUME Typing, NEW c \in Client, NEW S \in SUBSET Sha,
           Enqueue(c, S) \/ EnqueueAndWait(c, S)
    PROVE  Typing'
<1>0. TypeOK /\ Running
  BY DEF Typing
<1>1. StoreTypeOK' /\ FlightTypeOK' /\ FetchTypeOK' /\ Running'
  BY <1>0, StoreUnchanged, FlightUnchanged, FetchUnchanged
  DEF TypeOK, Enqueue, EnqueueAndWait
<1>2. CountTypeOK'
  BY <1>0, UsedType DEF TypeOK, CountTypeOK, Enqueue, EnqueueAndWait
<1>3. QueueTypeOK' /\ ClientTypeOK'
  <2>1. CASE Enqueue(c, S)
    <3> DEFINE fresh == (S \ index) \ pending
    <3>1. PICK q \in Orders(fresh) : bulk' = bulk \o q
      BY <2>1 DEF Enqueue
    <3>2. q \in Seq(Sha) /\ Cardinality(fresh) \in Nat
      BY OrdersType, SubsetCount
    <3>3. QueueTypeOK'
      BY <1>0, <2>1, <3>1, <3>2 DEF TypeOK, QueueTypeOK, Enqueue
    <3>4. ClientTypeOK'
      BY <1>0, <2>1, <3>2 DEF TypeOK, ClientTypeOK, Enqueue
    <3>5. QED
      BY <3>3, <3>4
  <2>2. CASE EnqueueAndWait(c, S)
    <3> DEFINE missing == S \ index
    <3>1. PICK q \in Orders(missing) : interactive' = interactive \o q
      BY <2>2 DEF EnqueueAndWait
    <3>2. q \in Seq(Sha) /\ Cardinality(missing \ pending) \in Nat
      BY OrdersType, SubsetCount
    <3>3. QueueTypeOK'
      BY <1>0, <2>2, <3>1, <3>2 DEF TypeOK, QueueTypeOK, EnqueueAndWait
    <3>4. ClientTypeOK'
      BY <1>0, <2>2, <3>2 DEF TypeOK, ClientTypeOK, EnqueueAndWait
    <3>5. QED
      BY <3>3, <3>4
  <2>3. QED
    BY <2>1, <2>2
<1>4. QED
  BY <1>1, <1>2, <1>3 DEF Typing, TypeOK

LEMMA TypingClient ==
    ASSUME Typing, NEW c \in Client, CountTotals(c) \/ Return(c) \/ HangUp(c)
    PROVE  Typing'
<1>0. TypeOK /\ Running
  BY DEF Typing
<1>1. StoreTypeOK' /\ FlightTypeOK'
  BY <1>0, StoreUnchanged, FlightUnchanged
  DEF TypeOK, CountTotals, Return, HangUp
<1>2. CASE CountTotals(c)
  <2>1. QueueTypeOK' /\ FetchTypeOK' /\ Running'
    BY <1>0, <1>2, QueueUnchanged, FetchUnchanged DEF TypeOK, CountTotals
  <2>2. ClientTypeOK' /\ CountTypeOK'
    BY <1>0, <1>2 DEF TypeOK, ClientTypeOK, CountTypeOK, CountTotals
  <2>3. QED
    BY <1>1, <2>1, <2>2 DEF Typing, TypeOK
<1>3. CASE Return(c)
  <2>1. QueueTypeOK' /\ FetchTypeOK' /\ Running' /\ CountTypeOK'
    BY <1>0, <1>3, QueueUnchanged, FetchUnchanged, CountUnchanged
    DEF TypeOK, Return
  <2>2. ClientTypeOK'
    BY <1>0, <1>3 DEF TypeOK, ClientTypeOK, Return
  <2>3. QED
    BY <1>1, <2>1, <2>2 DEF Typing, TypeOK
<1>4. CASE HangUp(c)
  <2>1. QueueTypeOK'
    BY <1>0, <1>4 DEF TypeOK, QueueTypeOK, HangUp
  <2>2. FetchTypeOK' /\ Running'
    BY <1>0, <1>4 DEF TypeOK, FetchTypeOK, Running, HangUp
  <2>3. ClientTypeOK'
    BY <1>0, <1>4 DEF TypeOK, ClientTypeOK, HangUp
  <2>4. CountTypeOK'
    BY <1>0, <1>4, UsedType DEF TypeOK, CountTypeOK, HangUp
  <2>5. QED
    BY <1>1, <2>1, <2>2, <2>3, <2>4 DEF Typing, TypeOK
<1>5. QED
  BY <1>2, <1>3, <1>4

LEMMA TypingQueue ==
    ASSUME Typing, Dispatch \/ CancelClear \/ CancelReset
    PROVE  Typing'
<1>0. TypeOK /\ Running
  BY DEF Typing
<1>1. StoreTypeOK' /\ FlightTypeOK' /\ FetchTypeOK' /\ Running'
  BY <1>0, StoreUnchanged, FlightUnchanged, FetchUnchanged
  DEF TypeOK, Dispatch, CancelClear, CancelReset
<1>2. CASE Dispatch
  <2>1. ClientTypeOK' /\ CountTypeOK'
    BY <1>0, <1>2, ClientUnchanged, CountUnchanged DEF TypeOK, Dispatch
  <2>2. ASSUME NEW q \in Seq(Sha), q # <<>>
        PROVE  Head(q) \in Sha /\ Tail(q) \in Seq(Sha)
    BY <2>2, HeadTailProperties
  <2>3. QueueTypeOK'
    BY <1>0, <1>2, <2>2 DEF TypeOK, QueueTypeOK, Dispatch
  <2>4. QED
    BY <1>1, <2>1, <2>3 DEF Typing, TypeOK
<1>3. CASE CancelClear
  <2>1. QueueTypeOK' /\ ClientTypeOK'
    BY <1>0, <1>3
    DEF TypeOK, QueueTypeOK, ClientTypeOK, queueVars, CancelClear
  <2>2. CountTypeOK'
    BY <1>0, <1>3, UsedType DEF TypeOK, CountTypeOK, CancelClear
  <2>3. QED
    BY <1>1, <2>1, <2>2 DEF Typing, TypeOK
<1>4. CASE CancelReset
  <2>1. QueueTypeOK' /\ ClientTypeOK'
    BY <1>0, <1>4, QueueUnchanged, ClientUnchanged DEF TypeOK, CancelReset
  <2>2. CountTypeOK'
    BY <1>0, <1>4 DEF TypeOK, CountTypeOK, CancelReset
  <2>3. QED
    BY <1>1, <2>1, <2>2 DEF Typing, TypeOK
<1>5. QED
  BY <1>2, <1>3, <1>4

\* The ends of a task: locals go back to their resting values.
LEMMA FinishType ==
    ASSUME FetchTypeOK, Running, NEW p \in Proc, Finish(p)
    PROVE  FetchTypeOK' /\ Running'
BY DEF FetchTypeOK, Running, Finish, TaskPCs

LEMMA AfterSettleType ==
    ASSUME FetchTypeOK, Running, NEW p \in Proc, pc[p] # "idle", AfterSettle(p)
    PROVE  FetchTypeOK' /\ Running'
<1>1. CASE on[p] # NoChan
  BY <1>1 DEF FetchTypeOK, Running, AfterSettle, TaskPCs
<1>2. CASE on[p] = NoChan
  BY <1>2, FinishType DEF AfterSettle
<1>3. QED
  BY <1>1, <1>2

LEMMA ReturnedType ==
    ASSUME FetchTypeOK, Running, NEW p \in Proc, pc[p] # "idle",
           NEW good \in BOOLEAN, Returned(p, good)
    PROVE  FetchTypeOK' /\ Running'
<1>1. CASE good \/ p \in Worker
  BY <1>1 DEF FetchTypeOK, Running, Returned, TaskPCs
<1>2. CASE ~(good \/ p \in Worker)
  BY <1>2, FinishType DEF Returned
<1>3. QED
  BY <1>1, <1>2

LEMMA LetGoType ==
    ASSUME FlightTypeOK, NEW p \in Proc,
           NEW v \in {"open", "chunk", "error", "closed"}, LetGo(p, v)
    PROVE  chan' \in [Chan -> {"open", "chunk", "error", "closed"}]
BY DEF FlightTypeOK, LetGo

LEMMA TypingWorker ==
    ASSUME Typing, NEW w \in Worker, WorkerNext(w)
    PROVE  Typing'
<1>0. TypeOK /\ Running /\ w \in Proc
  BY DEF Typing, Proc
<1>1. StoreTypeOK' /\ FlightTypeOK' /\ ClientTypeOK' /\ CountTypeOK'
  BY <1>0, StoreUnchanged, FlightUnchanged, ClientUnchanged, CountUnchanged
  DEF TypeOK, WorkerNext, Spawn, Skip, Proceed
<1>2. CASE Spawn(w)
  <2>1. QueueTypeOK' /\ FetchTypeOK' /\ Running'
    BY <1>0, <1>2 DEF TypeOK, QueueTypeOK, FetchTypeOK, Running, Spawn, TaskPCs
  <2>2. QED
    BY <1>1, <2>1 DEF Typing, TypeOK
<1>3. CASE Skip(w)
  BY <1>0, <1>1, <1>3, FinishType, QueueUnchanged DEF Typing, TypeOK, Skip
<1>4. CASE Proceed(w)
  <2>1. FetchTypeOK' /\ Running'
    BY <1>0, <1>4 DEF TypeOK, FetchTypeOK, Running, Proceed, TaskPCs
  <2>2. QED
    BY <1>0, <1>1, <1>4, <2>1, QueueUnchanged DEF Typing, TypeOK, Proceed
<1>5. QED
  BY <1>2, <1>3, <1>4 DEF WorkerNext

LEMMA TypingReader ==
    ASSUME Typing, NEW r \in Reader, ReaderNext(r)
    PROVE  Typing'
<1>0. TypeOK /\ Running /\ r \in Proc
  BY DEF Typing, Proc
<1>1. StoreTypeOK' /\ QueueTypeOK' /\ ClientTypeOK'
  BY <1>0, StoreUnchanged, QueueUnchanged, ClientUnchanged
  DEF TypeOK, ReaderNext, ReadStart, DropRead, DropLeader, CloseChan
<1>2. CountTypeOK'
  BY <1>0, UsedType
  DEF TypeOK, CountTypeOK, ReaderNext, ReadStart, DropRead, DropLeader,
      CloseChan
<1>3. ASSUME NEW s \in Sha, ReadStart(r, s)
      PROVE  Typing'
  <2>1. FetchTypeOK' /\ Running'
    BY <1>0, <1>3 DEF TypeOK, FetchTypeOK, Running, ReadStart, TaskPCs
  <2>2. QED
    BY <1>0, <1>1, <1>2, <1>3, <2>1, FlightUnchanged
    DEF Typing, TypeOK, ReadStart
<1>4. CASE DropRead(r)
  <2>1. FetchTypeOK' /\ Running'
    BY <1>0, <1>4, FinishType DEF TypeOK, DropRead
  <2>2. FlightTypeOK'
    <3>1. CASE on[r] = NoChan
      BY <1>0, <1>4, <3>1 DEF TypeOK, FlightTypeOK, DropRead
    <3>2. CASE on[r] # NoChan
      <4>1. chan[on[r]] \in {"open", "chunk", "error", "closed"}
        BY <1>0, <3>2 DEF TypeOK, FlightTypeOK, FetchTypeOK
      <4>2. QED
        BY <1>0, <1>4, <3>2, <4>1, LetGoType DEF TypeOK, FlightTypeOK, DropRead
    <3>3. QED
      BY <3>1, <3>2
  <2>3. QED
    BY <1>1, <1>2, <2>1, <2>2 DEF Typing, TypeOK
<1>5. CASE DropLeader(r)
  <2>1. FetchTypeOK' /\ Running' /\ FlightTypeOK'
    BY <1>0, <1>5
    DEF TypeOK, FetchTypeOK, Running, FlightTypeOK, DropLeader, TaskPCs
  <2>2. QED
    BY <1>1, <1>2, <2>1 DEF Typing, TypeOK
<1>6. CASE CloseChan(r)
  <2>1. FetchTypeOK' /\ Running'
    BY <1>0, <1>6, FinishType DEF TypeOK, CloseChan
  <2>2. FlightTypeOK'
    BY <1>0, <1>6, LetGoType DEF TypeOK, FlightTypeOK, CloseChan
  <2>3. QED
    BY <1>1, <1>2, <2>1, <2>2 DEF Typing, TypeOK
<1>7. QED
  BY <1>3, <1>4, <1>5, <1>6 DEF ReaderNext

LEMMA TypingAdvance ==
    ASSUME Typing, NEW p \in Proc, Advance(p)
    PROVE  Typing'
<1>0. TypeOK /\ Running
  BY DEF Typing
<1>1. CASE DiskHit(p) \/ DiskMiss(p) \/ Write(p)
  <2>1. /\ QueueTypeOK' /\ ClientTypeOK' /\ CountTypeOK' /\ FlightTypeOK'
    BY <1>0, <1>1, QueueUnchanged, ClientUnchanged, CountUnchanged,
       FlightUnchanged
    DEF TypeOK, DiskHit, DiskMiss, Write
  <2>2. StoreTypeOK'
    BY <1>0, <1>1
    DEF TypeOK, StoreTypeOK, Running, storeVars, DiskHit, DiskMiss, Write
  <2>3. FetchTypeOK' /\ Running'
    <3>1. CASE DiskHit(p)
      BY <1>0, <3>1, FinishType
      DEF TypeOK, FetchTypeOK, Running, DiskHit, TaskPCs
    <3>2. CASE DiskMiss(p)
      BY <1>0, <3>2 DEF TypeOK, FetchTypeOK, Running, DiskMiss, TaskPCs
    <3>3. CASE Write(p)
      BY <1>0, <3>3, FinishType
      DEF TypeOK, FetchTypeOK, Running, Write, TaskPCs
    <3>4. QED
      BY <1>1, <3>1, <3>2, <3>3
  <2>4. QED
    BY <2>1, <2>2, <2>3 DEF Typing, TypeOK
<1>2. CASE Lead(p) \/ CountImplicit(p) \/ Follow(p) \/ Release(p)
           \/ \E good \in BOOLEAN : CdnAnswer(p, good)
  <2>1. StoreTypeOK' /\ QueueTypeOK' /\ ClientTypeOK'
    BY <1>0, <1>2, StoreUnchanged, QueueUnchanged, ClientUnchanged
    DEF TypeOK, Lead, CountImplicit, Follow, Release, CdnAnswer
  <2>2. CountTypeOK'
    BY <1>0, <1>2
    DEF TypeOK, CountTypeOK, Lead, CountImplicit, Follow, Release, CdnAnswer
  <2>3. FlightTypeOK'
    BY <1>0, <1>2
    DEF TypeOK, FlightTypeOK, flightVars, FreeChan, Lead, CountImplicit,
        Follow, Release, CdnAnswer
  <2>4. FetchTypeOK' /\ Running'
    <3>1. CASE Lead(p)
      BY <1>0, <3>1
      DEF TypeOK, FetchTypeOK, Running, FreeChan, Lead, TaskPCs
    <3>2. CASE CountImplicit(p) \/ Release(p)
      BY <1>0, <3>2
      DEF TypeOK, FetchTypeOK, Running, CountImplicit, Release, TaskPCs
    <3>3. CASE Follow(p)
      <4>1. inflight[sha[p]] \in Chan \cup {NoChan}
        BY <1>0, <3>3 DEF TypeOK, FlightTypeOK, Running, Follow
      <4>2. QED
        BY <1>0, <3>3, <4>1 DEF TypeOK, FetchTypeOK, Running, Follow, TaskPCs
    <3>4. CASE \E good \in BOOLEAN : CdnAnswer(p, good)
      BY <1>0, <3>4 DEF TypeOK, FetchTypeOK, Running, CdnAnswer, TaskPCs
    <3>5. QED
      BY <1>2, <3>1, <3>2, <3>3, <3>4
  <2>5. QED
    BY <2>1, <2>2, <2>3, <2>4 DEF Typing, TypeOK
<1>3. CASE Settle(p) \/ SettleNothing(p) \/ Mark(p) \/ Record(p) \/ Notify(p)
  <2>1. FlightTypeOK'
    BY <1>0, <1>3, FlightUnchanged
    DEF TypeOK, Settle, SettleNothing, Mark, Record, Notify
  <2>2. CountTypeOK'
    BY <1>0, <1>3
    DEF TypeOK, CountTypeOK, Settle, SettleNothing, Mark, Record, Notify
  <2>3. QueueTypeOK'
    BY <1>0, <1>3
    DEF TypeOK, QueueTypeOK, queueVars, Settle, SettleNothing, Mark, Record,
        Notify
  <2>4. StoreTypeOK'
    BY <1>0, <1>3
    DEF TypeOK, StoreTypeOK, Running, storeVars, Settle, SettleNothing, Mark,
        Record, Notify
  <2>5. ClientTypeOK'
    BY <1>0, <1>3
    DEF TypeOK, ClientTypeOK, clientVars, Settle, SettleNothing, Mark, Record,
        Notify
  <2>6. FetchTypeOK' /\ Running'
    <3>1. CASE Settle(p)
      <4>1. waiters[sha[p]] \in SUBSET Client
        BY <1>0, <3>1 DEF TypeOK, QueueTypeOK, Running, Settle
      <4>2. QED
        BY <1>0, <3>1, <4>1 DEF TypeOK, FetchTypeOK, Running, Settle, TaskPCs
    <3>2. CASE SettleNothing(p) \/ Notify(p)
      BY <1>0, <3>2, AfterSettleType DEF TypeOK, SettleNothing, Notify
    <3>3. CASE Mark(p) \/ Record(p)
      BY <1>0, <3>3 DEF TypeOK, FetchTypeOK, Running, Mark, Record, TaskPCs
    <3>4. QED
      BY <1>3, <3>1, <3>2, <3>3
  <2>7. QED
    BY <2>1, <2>2, <2>3, <2>4, <2>5, <2>6 DEF Typing, TypeOK
<1>4. CASE Publish(p) \/ Hear(p) \/ Retry(p)
  <2>1. StoreTypeOK' /\ QueueTypeOK' /\ ClientTypeOK' /\ CountTypeOK'
    BY <1>0, <1>4, StoreUnchanged, QueueUnchanged, ClientUnchanged,
       CountUnchanged
    DEF TypeOK, Publish, Hear, Retry
  <2>2. FlightTypeOK' /\ FetchTypeOK' /\ Running'
    <3>1. CASE Publish(p)
      <4>1. ok[p] \in BOOLEAN
        BY <1>0 DEF TypeOK, FetchTypeOK
      <4>2. FetchTypeOK' /\ Running'
        BY <1>0, <3>1, <4>1, ReturnedType DEF TypeOK, Publish
      <4>3. chan' \in [Chan -> {"open", "chunk", "error", "closed"}]
        BY <1>0, <3>1, LetGoType DEF TypeOK, Publish
      <4>4. QED
        BY <1>0, <3>1, <4>2, <4>3 DEF TypeOK, FlightTypeOK, Publish
    <3>2. CASE Hear(p)
      <4>1. FetchTypeOK' /\ Running'
        BY <1>0, <3>2, ReturnedType DEF TypeOK, Hear
      <4>2. chan' \in [Chan -> {"open", "chunk", "error", "closed"}]
        BY <1>0, <3>2, LetGoType DEF TypeOK, Hear
      <4>3. QED
        BY <1>0, <3>2, <4>1, <4>2 DEF TypeOK, FlightTypeOK, Hear
    <3>3. CASE Retry(p)
      <4>1. FetchTypeOK' /\ Running'
        BY <1>0, <3>3 DEF TypeOK, FetchTypeOK, Running, Retry, TaskPCs
      <4>2. chan' \in [Chan -> {"open", "chunk", "error", "closed"}]
        BY <1>0, <3>3, LetGoType DEF TypeOK, Retry
      <4>3. QED
        BY <1>0, <3>3, <4>1, <4>2 DEF TypeOK, FlightTypeOK, Retry
    <3>4. QED
      BY <1>4, <3>1, <3>2, <3>3
  <2>3. QED
    BY <2>1, <2>2 DEF Typing, TypeOK
<1>5. QED
  BY <1>1, <1>2, <1>3, <1>4 DEF Advance

LEMMA TypingStep == Typing /\ [Next]_vars => Typing'
<1> SUFFICES ASSUME Typing, [Next]_vars PROVE Typing'
  OBVIOUS
<1>1. CASE UNCHANGED vars
  BY <1>1, StoreUnchanged, QueueUnchanged, FlightUnchanged, FetchUnchanged,
     ClientUnchanged, CountUnchanged
  DEF Typing, TypeOK, vars
<1>2. ASSUME NEW c \in Client, ClientNext(c)
      PROVE  Typing'
  BY <1>2, TypingEnqueue, TypingClient DEF ClientNext
<1>3. ASSUME NEW w \in Worker, WorkerNext(w)
      PROVE  Typing'
  BY <1>3, TypingWorker
<1>4. ASSUME NEW r \in Reader, ReaderNext(r)
      PROVE  Typing'
  BY <1>4, TypingReader
<1>5. ASSUME NEW p \in Proc, Advance(p)
      PROVE  Typing'
  BY <1>5, TypingAdvance
<1>6. CASE Dispatch \/ CancelClear \/ CancelReset
  BY <1>6, TypingQueue
<1>7. QED
  BY <1>1, <1>2, <1>3, <1>4, <1>5, <1>6 DEF Next

LEMMA TypingAlways == Spec => []Typing
<1>1. Init => Typing
  BY TypingInit
<1>2. Typing /\ [Next]_vars => Typing'
  BY TypingStep
<1>3. QED
  BY <1>1, <1>2, PTL DEF Spec

\* Every variable stays in its domain, whatever the calls, reads, drops and
\* cancels, and whatever their bounds.
THEOREM TypeCorrect == Spec => []TypeOK
<1>1. Typing => TypeOK
  BY DEF Typing
<1>2. QED
  BY <1>1, TypingAlways, PTL

-----------------------------------------------------------------------------
(* Single flight.  SingleFlight says nothing of the map and the channels    *)
(* that bring it about, so it is not inductive.  FlightInv adds them: a      *)
(* leader's entry is in the map until it releases it, two leaders never      *)
(* share a channel, a leader's channel is undecided, and conversely every    *)
(* entry and every undecided channel somebody follows has its leader.        *)

\* The leader's entry is still in the map.
Holding(p) == Leading(p) /\ pc[p] \notin {"publish", "close"}

FlightInv ==
    /\ \A p \in Proc : pc[p] \in {"idle", "check", "disk", "flight", "write"}
                          => on[p] = NoChan
    /\ \A p \in Proc : pc[p] \in {"total", "fetch", "release", "publish",
                                  "close", "follow"}
                          => on[p] \in Chan
    /\ \A p \in Proc : Holding(p) => inflight[sha[p]] = on[p]
    /\ \A p, q \in Proc : Leading(p) /\ Leading(q) /\ on[p] = on[q] => p = q
    /\ \A p \in Proc : Leading(p) => chan[on[p]] = "open"
    /\ \A s \in Sha : inflight[s] # NoChan =>
          \E p \in Proc : Holding(p) /\ sha[p] = s /\ on[p] = inflight[s]
    /\ FollowerHasLeader

FlightVars == <<pc, sha, on, inflight, chan>>

LEMMA FlightInit == Init => FlightInv
BY DEF Init, FlightInv, Holding, Leading, FollowerHasLeader

LEMMA FlightUntouched == FlightInv /\ UNCHANGED FlightVars => FlightInv'
BY DEF FlightInv, FlightVars, Holding, Leading, FollowerHasLeader

\* A step that only moves p on, within the flight it leads or outside any.
LEMMA FlightMove ==
    ASSUME Typing, FlightInv, NEW p \in Proc, NEW n \in TaskPCs,
           NEW s \in Sha \cup {NoSha},
           pc' = [pc EXCEPT ![p] = n],
           sha' = [sha EXCEPT ![p] = s],
           UNCHANGED <<on, inflight, chan>>,
           \/ /\ on[p] = NoChan
              /\ n \in {"idle", "check", "disk", "flight", "write", "settle",
                        "mark", "record", "notify"}
           \/ /\ Holding(p)
              /\ s = sha[p]
              /\ n \in {"total", "fetch", "settle", "mark", "record", "notify",
                        "release"}
    PROVE  FlightInv'
<1>0. /\ pc \in [Proc -> TaskPCs] /\ sha \in [Proc -> Sha \cup {NoSha}]
      /\ on \in [Proc -> Chan \cup {NoChan}]
  BY DEF Typing, TypeOK, FetchTypeOK
<1>1. \A q \in Proc : (Leading(q)' <=> Leading(q))
                      /\ (Holding(q)' <=> Holding(q))
  BY <1>0 DEF Leading, Holding, TaskPCs
<1>2. \A q \in Proc : Leading(q) => sha'[q] = sha[q]
  BY <1>0 DEF Leading, Holding
<1>3. \A q \in Proc : Holding(q) => Leading(q)
  BY DEF Holding
<1>4. FollowerHasLeader'
  <2> SUFFICES ASSUME NEW q \in Proc, pc'[q] = "follow", chan'[on'[q]] = "open"
               PROVE  \E l \in Proc : (Leading(l))' /\ on'[l] = on'[q]
                                                   /\ sha'[l] = sha'[q]
    BY DEF FollowerHasLeader
  <2>1. q # p
    BY <1>0
  <2>2. PICK l \in Proc : Leading(l) /\ on[l] = on[q] /\ sha[l] = sha[q]
    BY <1>0, <2>1 DEF FlightInv, FollowerHasLeader
  <2>3. QED
    BY <1>0, <1>1, <1>2, <2>1, <2>2
<1>5. \A q \in Proc : pc'[q] \in {"idle", "check", "disk", "flight", "write"}
                         => on'[q] = NoChan
  BY <1>0 DEF FlightInv, Holding, Leading
<1>6. \A q \in Proc : pc'[q] \in {"total", "fetch", "release", "publish",
                                  "close", "follow"}
                         => on'[q] \in Chan
  BY <1>0 DEF FlightInv, Holding, Leading
<1>7. QED
  BY <1>1, <1>2, <1>3, <1>4, <1>5, <1>6 DEF FlightInv

\* Facts about types and channels every step below needs.
LEMMA FlightFacts ==
    ASSUME Typing
    PROVE  /\ pc \in [Proc -> TaskPCs] /\ sha \in [Proc -> Sha \cup {NoSha}]
           /\ on \in [Proc -> Chan \cup {NoChan}]
           /\ inflight \in [Sha -> Chan \cup {NoChan}]
           /\ chan \in [Chan -> {"open", "chunk", "error", "closed"}]
           /\ NoChan \notin Chan
           /\ \A p \in Proc : pc[p] # "idle" => sha[p] \in Sha
BY ConstantsAssumption DEF Typing, TypeOK, FetchTypeOK, FlightTypeOK, Running

LEMMA FlightLead ==
    ASSUME Typing, FlightInv, NEW p \in Proc, Lead(p)
    PROVE  FlightInv'
<1> USE FlightFacts DEF Leading, Holding
<1>1. PICK h \in FreeChan : /\ inflight' = [inflight EXCEPT ![sha[p]] = h]
                            /\ chan' = [chan EXCEPT ![h] = "open"]
                            /\ on' = [on EXCEPT ![p] = h]
  BY DEF Lead
<1>2. /\ h \in Chan /\ \A q \in Proc : on[q] # h
      /\ \A s \in Sha : inflight[s] # h
  BY DEF FreeChan
<1>3. /\ pc[p] = "flight" /\ sha[p] \in Sha /\ inflight[sha[p]] = NoChan
      /\ sha' = sha /\ pc' \in [Proc -> TaskPCs]
      /\ pc'[p] \in {"fetch", "total"}
      /\ \A q \in Proc \ {p} : pc'[q] = pc[q] /\ on'[q] = on[q]
      /\ on'[p] = h
  BY <1>1 DEF Lead, TaskPCs
<1>4. \A q \in Proc \ {p} : (Leading(q)' <=> Leading(q))
                            /\ (Holding(q)' <=> Holding(q))
  BY <1>3
<1>5. \A q \in Proc \ {p} : on[q] \in Chan => chan'[on[q]] = chan[on[q]]
  BY <1>1, <1>2
<1>6. \A q \in Proc \ {p} : Holding(q) => sha[q] # sha[p]
  BY <1>3 DEF FlightInv
<1>7. \A q \in Proc : Holding(q)' => inflight'[sha'[q]] = on'[q]
  BY <1>1, <1>3, <1>4, <1>6 DEF FlightInv
<1>8. \A s \in Sha : inflight'[s] # NoChan =>
         \E q \in Proc : Holding(q)' /\ sha'[q] = s /\ on'[q] = inflight'[s]
  <2> SUFFICES ASSUME NEW s \in Sha, inflight'[s] # NoChan
               PROVE  \E q \in Proc : Holding(q)' /\ sha'[q] = s
                                                  /\ on'[q] = inflight'[s]
    OBVIOUS
  <2>1. CASE s = sha[p]
    BY <1>1, <1>2, <1>3, <2>1
  <2>2. CASE s # sha[p]
    <3>1. PICK q \in Proc : Holding(q) /\ sha[q] = s /\ on[q] = inflight[s]
      BY <1>1, <2>2 DEF FlightInv
    <3>2. QED
      BY <1>1, <1>3, <1>4, <2>2, <3>1
  <2>3. QED
    BY <2>1, <2>2
<1>9. FollowerHasLeader'
  <2> SUFFICES ASSUME NEW q \in Proc, pc'[q] = "follow", chan'[on'[q]] = "open"
               PROVE  \E l \in Proc : (Leading(l))' /\ on'[l] = on'[q]
                                                   /\ sha'[l] = sha'[q]
    BY DEF FollowerHasLeader
  <2>1. q # p /\ pc[q] = "follow" /\ on[q] \in Chan
    BY <1>3 DEF FlightInv
  <2>2. PICK l \in Proc : Leading(l) /\ on[l] = on[q] /\ sha[l] = sha[q]
    BY <1>3, <1>5, <2>1 DEF FlightInv, FollowerHasLeader
  <2>3. QED
    BY <1>3, <1>4, <2>1, <2>2
<1>10. \A q, l \in Proc : Leading(q)' /\ Leading(l)' /\ on'[q] = on'[l] => q = l
  BY <1>2, <1>3, <1>4 DEF FlightInv
<1>11. \A q \in Proc : Leading(q)' => chan'[on'[q]] = "open"
  BY <1>1, <1>2, <1>3, <1>4, <1>5 DEF FlightInv
<1>12. \A q \in Proc : /\ pc'[q] \in {"idle", "check", "disk", "flight", "write"}
                             => on'[q] = NoChan
                       /\ pc'[q] \in {"total", "fetch", "release", "publish",
                                      "close", "follow"}
                             => on'[q] \in Chan
  BY <1>2, <1>3 DEF FlightInv
<1>13. QED
  BY <1>7, <1>8, <1>9, <1>10, <1>11, <1>12 DEF FlightInv

LEMMA FlightFollow ==
    ASSUME Typing, FlightInv, NEW p \in Proc, Follow(p)
    PROVE  FlightInv'
<1> USE FlightFacts DEF Leading, Holding
<1>0. /\ pc[p] = "flight" /\ sha[p] \in Sha /\ inflight[sha[p]] \in Chan
      /\ on[p] = NoChan
  <2>1. pc[p] = "flight" /\ inflight[sha[p]] # NoChan
    BY DEF Follow
  <2>2. sha[p] \in Sha
    BY <2>1
  <2>3. inflight[sha[p]] \in Chan
    BY <2>1, <2>2
  <2>4. on[p] = NoChan
    BY <2>1 DEF FlightInv
  <2>5. QED
    BY <2>1, <2>2, <2>3, <2>4
<1>1. /\ pc[p] = "flight" /\ sha[p] \in Sha /\ inflight[sha[p]] \in Chan
      /\ on[p] = NoChan
      /\ UNCHANGED <<sha, inflight, chan>>
      /\ \A q \in Proc \ {p} : pc'[q] = pc[q] /\ on'[q] = on[q]
      /\ pc'[p] = "follow" /\ on'[p] = inflight[sha[p]]
  BY <1>0 DEF Follow, flightVars
<1>2. \A q \in Proc : (Leading(q)' <=> Leading(q))
                      /\ (Holding(q)' <=> Holding(q))
  BY <1>1
<1>3. \A q \in Proc : Leading(q) => on'[q] = on[q]
  BY <1>1
<1>4. FollowerHasLeader'
  <2> SUFFICES ASSUME NEW q \in Proc, pc'[q] = "follow", chan'[on'[q]] = "open"
               PROVE  \E l \in Proc : (Leading(l))' /\ on'[l] = on'[q]
                                                   /\ sha'[l] = sha'[q]
    BY DEF FollowerHasLeader
  <2>1. PICK l \in Proc : Leading(l) /\ on[l] = on'[q] /\ sha[l] = sha[q]
    BY <1>1 DEF FlightInv, FollowerHasLeader
  <2>2. QED
    BY <1>1, <1>2, <1>3, <2>1
<1>5. \A q \in Proc : /\ pc'[q] \in {"idle", "check", "disk", "flight", "write"}
                             => on'[q] = NoChan
                      /\ pc'[q] \in {"total", "fetch", "release", "publish",
                                     "close", "follow"}
                             => on'[q] \in Chan
  BY <1>1 DEF FlightInv
<1>6. QED
  BY <1>1, <1>2, <1>3, <1>4, <1>5 DEF FlightInv

\* The leader leaves the map: after its result is in, or because it is dropped.
LEMMA FlightRelease ==
    ASSUME Typing, FlightInv, NEW p \in Proc, Release(p) \/ DropLeader(p)
    PROVE  FlightInv'
<1> USE FlightFacts DEF Leading, Holding
<1>1. /\ pc[p] \in {"release", "fetch"} /\ sha[p] \in Sha /\ on[p] \in Chan
      /\ UNCHANGED <<sha, on, chan>>
      /\ inflight' = [inflight EXCEPT ![sha[p]] = NoChan]
      /\ \A q \in Proc \ {p} : pc'[q] = pc[q]
      /\ pc'[p] \in {"publish", "close"}
  BY DEF Release, DropLeader, FlightInv
<1>2. \A q \in Proc : Leading(q)' <=> Leading(q)
  BY <1>1
<1>3. Holding(p) /\ ~Holding(p)'
  BY <1>1
<1>4. \A q \in Proc \ {p} : Holding(q)' <=> Holding(q)
  BY <1>1
<1>5. \A q \in Proc \ {p} : Holding(q) => sha[q] # sha[p]
  BY <1>1, <1>3 DEF FlightInv
<1>6. \A q \in Proc : Holding(q)' => inflight'[sha'[q]] = on'[q]
  BY <1>1, <1>3, <1>4, <1>5 DEF FlightInv
<1>7. \A s \in Sha : inflight'[s] # NoChan =>
         \E q \in Proc : Holding(q)' /\ sha'[q] = s /\ on'[q] = inflight'[s]
  BY <1>1, <1>4 DEF FlightInv
<1>8. FollowerHasLeader'
  BY <1>1, <1>2 DEF FlightInv, FollowerHasLeader
<1>9. \A q \in Proc : /\ pc'[q] \in {"idle", "check", "disk", "flight", "write"}
                             => on'[q] = NoChan
                      /\ pc'[q] \in {"total", "fetch", "release", "publish",
                                     "close", "follow"}
                             => on'[q] \in Chan
  BY <1>1 DEF FlightInv
<1>10. QED
  BY <1>1, <1>2, <1>6, <1>7, <1>8, <1>9 DEF FlightInv

\* A leader that has left the map decides its channel and drops its end.
LEMMA FlightDecide ==
    ASSUME Typing, FlightInv, NEW p \in Proc, Publish(p) \/ CloseChan(p)
    PROVE  FlightInv'
<1> USE FlightFacts DEF Leading, Holding
<1>1. /\ pc[p] \in {"publish", "close"} /\ on[p] \in Chan /\ UNCHANGED inflight
      /\ \A q \in Proc \ {p} : pc'[q] = pc[q] /\ on'[q] = on[q]
                                              /\ sha'[q] = sha[q]
      /\ pc'[p] \in {"idle", "write", "settle"} /\ on'[p] = NoChan
  BY DEF Publish, CloseChan, Returned, Finish, FlightInv
<1>2. \E v \in {"chunk", "error", "closed"} : LetGo(p, v)
  BY DEF Publish, CloseChan
<1>3. ~Leading(p)' /\ ~Holding(p)' /\ ~Holding(p) /\ Leading(p)
  BY <1>1
<1>4. \A q \in Proc \ {p} : (Leading(q)' <=> Leading(q))
                            /\ (Holding(q)' <=> Holding(q))
  BY <1>1
<1>5. \A h \in Chan \ {on[p]} : chan'[h] = chan[h]
  BY <1>2 DEF LetGo
<1>6. \A q \in Proc \ {p} : on[q] = on[p] => chan'[on[q]] # "open"
  BY <1>1, <1>2 DEF LetGo
<1>7. \A q \in Proc \ {p} : Leading(q) => on[q] # on[p] /\ on[q] \in Chan
  BY <1>3 DEF FlightInv
<1>8. FollowerHasLeader'
  <2> SUFFICES ASSUME NEW q \in Proc, pc'[q] = "follow", chan'[on'[q]] = "open"
               PROVE  \E l \in Proc : (Leading(l))' /\ on'[l] = on'[q]
                                                   /\ sha'[l] = sha'[q]
    BY DEF FollowerHasLeader
  <2>1. q # p /\ pc[q] = "follow" /\ on[q] \in Chan /\ on[q] # on[p]
    BY <1>1, <1>6 DEF FlightInv
  <2>2. PICK l \in Proc : Leading(l) /\ on[l] = on[q] /\ sha[l] = sha[q]
    BY <1>1, <1>5, <2>1 DEF FlightInv, FollowerHasLeader
  <2>3. QED
    BY <1>1, <1>4, <2>1, <2>2
<1>9. \A s \in Sha : inflight'[s] # NoChan =>
         \E q \in Proc : Holding(q)' /\ sha'[q] = s /\ on'[q] = inflight'[s]
  <2> SUFFICES ASSUME NEW s \in Sha, inflight'[s] # NoChan
               PROVE  \E q \in Proc : Holding(q)' /\ sha'[q] = s
                                                  /\ on'[q] = inflight'[s]
    OBVIOUS
  <2>1. PICK q \in Proc : Holding(q) /\ sha[q] = s /\ on[q] = inflight[s]
    BY <1>1 DEF FlightInv
  <2>2. QED
    BY <1>1, <1>3, <1>4, <2>1
<1>10. \A q \in Proc : Leading(q)' => chan'[on'[q]] = "open"
  <2> SUFFICES ASSUME NEW q \in Proc, Leading(q)'
               PROVE  chan'[on'[q]] = "open"
    OBVIOUS
  <2>1. q # p /\ Leading(q)
    BY <1>3, <1>4
  <2>2. on[q] \in Chan \ {on[p]} /\ on'[q] = on[q] /\ chan[on[q]] = "open"
    BY <1>1, <1>7, <2>1 DEF FlightInv
  <2>3. QED
    BY <1>5, <2>2
<1>11. \A q \in Proc : /\ pc'[q] \in {"idle", "check", "disk", "flight", "write"}
                             => on'[q] = NoChan
                       /\ pc'[q] \in {"total", "fetch", "release", "publish",
                                      "close", "follow"}
                             => on'[q] \in Chan
  BY <1>1 DEF FlightInv
<1>12. /\ \A q \in Proc : Holding(q)' => inflight'[sha'[q]] = on'[q]
       /\ \A q, l \in Proc :
             Leading(q)' /\ Leading(l)' /\ on'[q] = on'[l] => q = l
  BY <1>1, <1>3, <1>4 DEF FlightInv
<1>13. QED
  BY <1>8, <1>9, <1>10, <1>11, <1>12 DEF FlightInv

\* A follower stops following: it heard a result, retries, or is dropped.
LEMMA FlightUnfollow ==
    ASSUME Typing, FlightInv, NEW p \in Proc,
           Hear(p) \/ Retry(p) \/ (DropRead(p) /\ pc[p] = "follow")
    PROVE  FlightInv'
<1> USE FlightFacts DEF Leading, Holding
<1>1. /\ pc[p] = "follow" /\ on[p] \in Chan /\ sha[p] \in Sha
      /\ \A q \in Proc \ {p} : pc'[q] = pc[q] /\ on'[q] = on[q]
                                              /\ sha'[q] = sha[q]
      /\ pc'[p] \in {"idle", "write", "settle", "flight"} /\ on'[p] = NoChan
  BY DEF Hear, Retry, DropRead, Returned, Finish, FlightInv
<1>2. LetGo(p, chan[on[p]])
  BY <1>1 DEF Hear, Retry, DropRead
<1>3. \A q \in Proc : Leading(q) => q # p /\ on[q] \in Chan
  BY <1>1
<1>4. \A q \in Proc : (Leading(q)' <=> Leading(q))
                      /\ (Holding(q)' <=> Holding(q))
  BY <1>1
<1>5. \A q \in Proc \ {p} : on[q] \in Chan => chan'[on[q]] = chan[on[q]]
  BY <1>1, <1>2 DEF LetGo
\* A closed channel has no leader, so no entry either.
<1>6. UNCHANGED inflight
  <2>1. CASE Retry(p)
    <3>1. chan[on[p]] = "closed"
      BY <2>1 DEF Retry
    <3>2. inflight[sha[p]] # on[p]
      <4> SUFFICES ASSUME inflight[sha[p]] = on[p] PROVE FALSE
        OBVIOUS
      <4>1. PICK q \in Proc : Holding(q) /\ on[q] = on[p]
        BY <1>1 DEF FlightInv
      <4>2. chan[on[p]] = "open"
        BY <4>1 DEF FlightInv
      <4>3. QED
        BY <3>1, <4>2
    <3>3. QED
      BY <2>1, <3>2 DEF Retry
  <2>2. CASE ~Retry(p)
    BY <2>2 DEF Hear, DropRead
  <2>3. QED
    BY <2>1, <2>2
<1>7. FollowerHasLeader'
  <2> SUFFICES ASSUME NEW q \in Proc, pc'[q] = "follow", chan'[on'[q]] = "open"
               PROVE  \E l \in Proc : (Leading(l))' /\ on'[l] = on'[q]
                                                   /\ sha'[l] = sha'[q]
    BY DEF FollowerHasLeader
  <2>1. q # p /\ pc[q] = "follow" /\ on[q] \in Chan
    BY <1>1 DEF FlightInv
  <2>2. PICK l \in Proc : Leading(l) /\ on[l] = on[q] /\ sha[l] = sha[q]
    BY <1>1, <1>5, <2>1 DEF FlightInv, FollowerHasLeader
  <2>3. QED
    BY <1>1, <1>3, <1>4, <2>1, <2>2
<1>8. \A s \in Sha : inflight'[s] # NoChan =>
         \E q \in Proc : Holding(q)' /\ sha'[q] = s /\ on'[q] = inflight'[s]
  BY <1>1, <1>3, <1>4, <1>6 DEF FlightInv
<1>9. \A q \in Proc : Leading(q)' => chan'[on'[q]] = "open"
  BY <1>1, <1>3, <1>4, <1>5 DEF FlightInv
<1>10. \A q \in Proc : /\ pc'[q] \in {"idle", "check", "disk", "flight", "write"}
                             => on'[q] = NoChan
                       /\ pc'[q] \in {"total", "fetch", "release", "publish",
                                      "close", "follow"}
                             => on'[q] \in Chan
  BY <1>1 DEF FlightInv
<1>11. /\ \A q \in Proc : Holding(q)' => inflight'[sha'[q]] = on'[q]
       /\ \A q, l \in Proc :
             Leading(q)' /\ Leading(l)' /\ on'[q] = on'[l] => q = l
  BY <1>1, <1>3, <1>4, <1>6 DEF FlightInv
<1>12. QED
  BY <1>7, <1>8, <1>9, <1>10, <1>11 DEF FlightInv

\* Steps of a task that touch neither the map nor a channel.
LEMMA FlightTaskStep ==
    ASSUME Typing, FlightInv, NEW p \in Proc,
           \/ p \in Worker /\ WorkerNext(p)
           \/ \E s \in Sha : ReadStart(p, s)
           \/ DropRead(p) /\ pc[p] # "follow"
           \/ DiskHit(p) \/ DiskMiss(p) \/ CountImplicit(p)
           \/ \E good \in BOOLEAN : CdnAnswer(p, good)
           \/ Settle(p) \/ SettleNothing(p) \/ Mark(p) \/ Record(p)
           \/ Notify(p) \/ Write(p)
    PROVE  FlightInv'
<1> DEFINE Move(n, s) == /\ pc' = [pc EXCEPT ![p] = n]
                         /\ sha' = [sha EXCEPT ![p] = s]
                         /\ UNCHANGED <<on, inflight, chan>>
<1>0. /\ sha' = sha => sha' = [sha EXCEPT ![p] = sha[p]]
      /\ sha[p] \in Sha \cup {NoSha}
      /\ on[p] = NoChan => [on EXCEPT ![p] = NoChan] = on
  BY FlightFacts
<1>1. /\ on[p] = NoChan =>
             \A n \in {"idle", "check", "disk", "flight", "write", "settle",
                       "mark", "record", "notify"}, s \in Sha \cup {NoSha} :
                Move(n, s) => FlightInv'
      /\ Holding(p) =>
             \A n \in {"total", "fetch", "settle", "mark", "record", "notify",
                       "release"} :
                Move(n, sha[p]) => FlightInv'
  BY <1>0, FlightMove DEF TaskPCs
<1>2. pc[p] \in {"idle", "check", "disk", "flight", "write"} => on[p] = NoChan
  BY DEF FlightInv
<1>3. /\ pc[p] \in {"total", "fetch"} => Holding(p)
      /\ pc[p] \in {"settle", "mark", "record", "notify"} /\ on[p] # NoChan
            => Holding(p)
  BY ConstantsAssumption DEF FlightInv, Holding, Leading
<1>4. CASE p \in Worker /\ WorkerNext(p)
  <2>1. CASE Spawn(p)
    <3>1. on[p] = NoChan /\ held \in Sha \cup {NoSha} /\ Move("check", held)
      BY <1>2, <2>1 DEF Spawn, flightVars, Typing, TypeOK, QueueTypeOK
    <3>2. QED
      BY <1>1, <3>1
  <2>2. CASE Skip(p)
    <3>1. on[p] = NoChan /\ Move("idle", NoSha)
      BY <1>0, <1>2, <2>2 DEF Skip, Finish, flightVars
    <3>2. QED
      BY <1>1, <3>1
  <2>3. CASE Proceed(p)
    <3>1. on[p] = NoChan /\ Move("disk", sha[p])
      BY <1>0, <1>2, <2>3 DEF Proceed, flightVars
    <3>2. QED
      BY <1>0, <1>1, <3>1
  <2>4. QED
    BY <1>4, <2>1, <2>2, <2>3 DEF WorkerNext
<1>5. ASSUME NEW s \in Sha, ReadStart(p, s)
      PROVE  FlightInv'
  <2>1. on[p] = NoChan /\ Move("disk", s)
    BY <1>2, <1>5 DEF ReadStart, flightVars
  <2>2. QED
    BY <1>1, <2>1
<1>6. CASE DropRead(p) /\ pc[p] # "follow"
  <2>1. on[p] = NoChan /\ Move("idle", NoSha)
    BY <1>0, <1>2, <1>6 DEF DropRead, Finish
  <2>2. QED
    BY <1>1, <2>1
<1>7. CASE DiskHit(p) \/ DiskMiss(p) \/ Write(p)
  <2>1. on[p] = NoChan
    BY <1>2, <1>7 DEF DiskHit, DiskMiss, Write
  <2>2. \/ Move("settle", sha[p]) \/ Move("flight", sha[p])
        \/ Move("idle", NoSha)
    BY <1>0, <1>7, <2>1 DEF DiskHit, DiskMiss, Write, Finish, flightVars
  <2>3. QED
    BY <1>0, <1>1, <2>1, <2>2
<1>8. CASE CountImplicit(p) \/ \E good \in BOOLEAN : CdnAnswer(p, good)
  <2>1. Holding(p)
    BY <1>3, <1>8 DEF CountImplicit, CdnAnswer
  <2>2. \E n \in {"fetch", "settle", "mark", "record"} : Move(n, sha[p])
    BY <1>0, <1>8 DEF CountImplicit, CdnAnswer, flightVars
  <2>3. QED
    BY <1>1, <2>1, <2>2
<1>9. CASE Settle(p) \/ Mark(p)
  <2>1. /\ pc[p] \in {"settle", "mark"}
        /\ \E n \in {"mark", "record"} : Move(n, sha[p])
    BY <1>0, <1>9 DEF Settle, Mark, flightVars
  <2>2. QED
    BY <1>0, <1>1, <1>3, <2>1
<1>10. CASE Record(p)
  <2>1. pc[p] = "record"
    BY <1>10 DEF Record
  <2>2. CASE Implicit(p)
    <3>1. Move("release", sha[p])
      BY <1>0, <1>10, <2>2 DEF Record, flightVars
    <3>2. QED
      BY <1>1, <1>3, <2>1, <2>2, <3>1 DEF Implicit
  <2>3. CASE ~Implicit(p)
    <3>1. Move("notify", sha[p])
      BY <1>0, <1>10, <2>3 DEF Record, flightVars
    <3>2. QED
      BY <1>0, <1>1, <1>3, <2>1, <3>1
  <2>4. QED
    BY <2>2, <2>3
<1>11. CASE SettleNothing(p) \/ Notify(p)
  <2>1. pc[p] \in {"settle", "notify"} /\ AfterSettle(p)
        /\ UNCHANGED flightVars
    BY <1>11 DEF SettleNothing, Notify
  <2>2. CASE on[p] # NoChan
    <3>1. Move("release", sha[p])
      BY <1>0, <2>1, <2>2 DEF AfterSettle, flightVars
    <3>2. QED
      BY <1>1, <1>3, <2>1, <2>2, <3>1
  <2>3. CASE on[p] = NoChan
    <3>1. Move("idle", NoSha)
      BY <1>0, <2>1, <2>3 DEF AfterSettle, Finish, flightVars
    <3>2. QED
      BY <1>1, <2>3, <3>1
  <2>4. QED
    BY <2>2, <2>3
<1>12. QED
  BY <1>4, <1>5, <1>6, <1>7, <1>8, <1>9, <1>10, <1>11

LEMMA FlightStep == Typing /\ FlightInv /\ [Next]_vars => FlightInv'
<1> SUFFICES ASSUME Typing, FlightInv, [Next]_vars PROVE FlightInv'
  OBVIOUS
<1>1. CASE \/ UNCHANGED vars
           \/ \E c \in Client : ClientNext(c)
           \/ Dispatch \/ CancelClear \/ CancelReset
  <2>1. UNCHANGED FlightVars
    BY <1>1
    DEF vars, fetchVars, flightVars, FlightVars, ClientNext, Enqueue,
        EnqueueAndWait, CountTotals, Return, HangUp, Dispatch, CancelClear,
        CancelReset
  <2>2. QED
    BY <2>1, FlightUntouched
<1>2. ASSUME NEW w \in Worker, WorkerNext(w)
      PROVE  FlightInv'
  BY <1>2, FlightTaskStep DEF Proc
<1>3. ASSUME NEW r \in Reader, ReaderNext(r)
      PROVE  FlightInv'
  BY <1>3, FlightTaskStep, FlightUnfollow, FlightRelease, FlightDecide
  DEF ReaderNext, Proc
<1>4. ASSUME NEW p \in Proc, Advance(p)
      PROVE  FlightInv'
  BY <1>4, FlightTaskStep, FlightLead, FlightFollow, FlightRelease,
     FlightDecide, FlightUnfollow
  DEF Advance
<1>5. QED
  BY <1>1, <1>2, <1>3, <1>4 DEF Next

LEMMA FlightAlways == Spec => []FlightInv
<1>1. Init => FlightInv
  BY FlightInit
<1>2. Typing /\ FlightInv /\ [Next]_vars => FlightInv'
  BY FlightStep
<1>3. QED
  BY <1>1, <1>2, TypingAlways, PTL DEF Spec

\* Two tasks never have a CDN request for the same chunk running at once:
\* both would hold the chunk's one map entry, so share its channel.
THEOREM FetchesApart == Spec => []SingleFlight
<1>1. FlightInv => SingleFlight
  <2> SUFFICES ASSUME FlightInv, NEW p \in Proc, NEW q \in Proc,
                      pc[p] = "fetch", pc[q] = "fetch", sha[p] = sha[q]
               PROVE  p = q
    BY DEF SingleFlight
  <2>1. Holding(p) /\ Holding(q)
    BY ConstantsAssumption DEF FlightInv, Holding, Leading
  <2>2. on[p] = on[q]
    BY <2>1 DEF FlightInv
  <2>3. QED
    BY <2>1, <2>2 DEF FlightInv, Holding
<1>2. QED
  BY <1>1, FlightAlways, PTL

\* A follower never hangs on a dead leader, and its retry never removes the
\* entry of a leader that is alive.
THEOREM FollowersServed == Spec => []FollowersSafe
<1>1. Typing /\ FlightInv => FollowersSafe
  <2> SUFFICES ASSUME Typing, FlightInv
               PROVE  FollowersSafe
    OBVIOUS
  <2>1. FollowerHasLeader
    BY DEF FlightInv
  <2>2. ASSUME NEW p \in Proc, pc[p] = "follow", chan[on[p]] = "closed",
               inflight[sha[p]] = on[p]
        PROVE  FALSE
    <3>1. sha[p] \in Sha /\ inflight[sha[p]] # NoChan
      BY <2>2, FlightFacts DEF FlightInv
    <3>2. PICK q \in Proc : Holding(q) /\ on[q] = on[p]
      BY <2>2, <3>1 DEF FlightInv
    <3>3. chan[on[p]] = "open"
      BY <3>2 DEF FlightInv, Holding
    <3>4. QED
      BY <2>2, <3>3
  <2>3. QED
    BY <2>1, <2>2 DEF FollowersSafe, RetryRemovesNothing
<1>2. QED
  BY <1>1, TypingAlways, FlightAlways, PTL

(***************************************************************************)
(* What the chunk service owes its callers: no waiter and no job is lost,  *)
(* the totals are exact, and every step is one step of ChunkContract or    *)
(* changes nothing the contract speaks of.                                 *)
(***************************************************************************)

-----------------------------------------------------------------------------
(* The locals of a task.                                                    *)

\* A step of a task, worker or reader.
TaskStep(p) ==
    \/ p \in Worker /\ WorkerNext(p)
    \/ p \in Reader /\ ReaderNext(p)
    \/ Advance(p)

\* What a task's place says of its locals: an implicit leader never settles,
\* and the senders a task took out are with it until it has notified them.
LocalsInv ==
    \A p \in Proc :
        /\ pc[p] = "idle" => sha[p] = NoSha
        /\ pc[p] = "total" => ~queued[p]
        /\ pc[p] = "settle" => on[p] = NoChan \/ queued[p]
        /\ taken[p] # {} => /\ pc[p] \in {"mark", "record", "notify"}
                            /\ on[p] = NoChan \/ queued[p]

LEMMA NextKinds ==
    ASSUME Next
    PROVE  \/ \E c \in Client : ClientNext(c)
           \/ Dispatch
           \/ \E p \in Proc : TaskStep(p)
           \/ CancelClear
           \/ CancelReset
BY DEF Next, TaskStep, Proc

LEMMA OthersLocals ==
    ASSUME Typing, NEW p \in Proc, TaskStep(p)
    PROVE  \A q \in Proc \ {p} : /\ pc'[q] = pc[q] /\ sha'[q] = sha[q]
                                 /\ on'[q] = on[q] /\ queued'[q] = queued[q]
                                 /\ ok'[q] = ok[q] /\ taken'[q] = taken[q]
<1>0. FetchTypeOK
  BY DEF Typing, TypeOK
<1>1. CASE p \in Worker /\ WorkerNext(p)
  BY <1>0, <1>1 DEF FetchTypeOK, WorkerNext, Spawn, Skip, Proceed, Finish
<1>2. CASE p \in Reader /\ ReaderNext(p)
  BY <1>0, <1>2
  DEF FetchTypeOK, ReaderNext, ReadStart, DropRead, DropLeader, CloseChan, Finish
<1>3. CASE Advance(p)
  BY <1>0, <1>3
  DEF FetchTypeOK, Advance, DiskHit, DiskMiss, Lead, CountImplicit, Follow,
      CdnAnswer, Settle, SettleNothing, Mark, Record, Notify, Release, Publish,
      Hear, Retry, Write, Finish, AfterSettle, Returned
<1>4. QED
  BY <1>1, <1>2, <1>3 DEF TaskStep

LEMMA LocalsTask ==
    ASSUME Typing, FlightInv, LocalsInv, NEW p \in Proc, TaskStep(p)
    PROVE  LocalsInv'
<1>0. FetchTypeOK /\ FetchTypeOK'
  BY TypingStep DEF Typing, TypeOK, TaskStep, Next, Proc
<1>1. /\ pc'[p] = "idle" => sha'[p] = NoSha
      /\ pc'[p] = "total" => ~queued'[p]
      /\ pc'[p] = "settle" => on'[p] = NoChan \/ queued'[p]
      /\ taken'[p] # {} => /\ pc'[p] \in {"mark", "record", "notify"}
                           /\ on'[p] = NoChan \/ queued'[p]
  <2>1. CASE p \in Worker /\ WorkerNext(p)
    BY <1>0, <2>1 DEF FetchTypeOK, LocalsInv, WorkerNext, Spawn, Skip, Proceed, Finish
  <2>2. CASE p \in Reader /\ ReaderNext(p)
    BY <1>0, <2>2
    DEF FetchTypeOK, LocalsInv, ReaderNext, ReadStart, DropRead, DropLeader,
        CloseChan, Finish
  <2>3. CASE DiskHit(p) \/ DiskMiss(p) \/ Write(p)
    BY <1>0, <2>3
    DEF FetchTypeOK, LocalsInv, FlightInv, DiskHit, DiskMiss, Write, Finish
  <2>4. CASE Lead(p) \/ CountImplicit(p) \/ Follow(p)
    BY <1>0, <2>4 DEF FetchTypeOK, LocalsInv, Lead, CountImplicit, Follow
  <2>5. CASE \E good \in BOOLEAN : CdnAnswer(p, good)
    BY <1>0, <2>5 DEF FetchTypeOK, LocalsInv, CdnAnswer
  <2>6. CASE Settle(p) \/ SettleNothing(p)
    BY <1>0, <2>6
    DEF FetchTypeOK, LocalsInv, Settle, SettleNothing, AfterSettle, Finish
  <2>7. CASE Mark(p) \/ Record(p) \/ Notify(p)
    BY <1>0, <2>7
    DEF FetchTypeOK, LocalsInv, Mark, Record, Notify, Implicit, AfterSettle, Finish
  <2>8. CASE Release(p) \/ Publish(p) \/ Hear(p) \/ Retry(p)
    BY <1>0, <2>8
    DEF FetchTypeOK, LocalsInv, Release, Publish, Hear, Retry, Returned, Finish
  <2>9. QED
    BY <2>1, <2>2, <2>3, <2>4, <2>5, <2>6, <2>7, <2>8 DEF TaskStep, Advance
<1>2. QED
  BY <1>1, OthersLocals DEF LocalsInv

LEMMA LocalsStep ==
    ASSUME Typing, FlightInv, LocalsInv, [Next]_vars
    PROVE  LocalsInv'
<1>1. CASE UNCHANGED fetchVars
  BY <1>1 DEF fetchVars, LocalsInv
<1>2. ASSUME NEW c \in Client, ClientNext(c)
      PROVE  LocalsInv'
  <2>1. UNCHANGED fetchVars \/ HangUp(c)
    BY <1>2 DEF ClientNext, Enqueue, EnqueueAndWait, CountTotals, Return
  <2>2. CASE HangUp(c)
    BY <2>2 DEF HangUp, LocalsInv
  <2>3. QED
    BY <1>1, <2>1, <2>2
<1>3. CASE UNCHANGED vars \/ Dispatch \/ CancelClear \/ CancelReset
  BY <1>1, <1>3 DEF vars, Dispatch, CancelClear, CancelReset
<1>4. QED
  BY <1>2, <1>3, LocalsTask, NextKinds

LEMMA LocalsAlways == Spec => []LocalsInv
<1>1. Init => LocalsInv
  BY DEF Init, LocalsInv
<1>2. Typing /\ FlightInv /\ LocalsInv /\ [Next]_vars => LocalsInv'
  BY LocalsStep
<1>3. QED
  BY <1>1, <1>2, TypingAlways, FlightAlways, PTL DEF Spec

-----------------------------------------------------------------------------
(* Waiters.  NoLostWaiter is not inductive: it needs that a client has one  *)
(* sender at most for a chunk, and none before its call.                    *)

\* A client's sender for a chunk is in one place.
OneSender ==
    \A c \in Client, s \in Sha :
        /\ \A p \in Proc : ~(c \in waiters[s] /\ sha[p] = s /\ c \in taken[p])
        /\ \A p, q \in Proc : sha[p] = s /\ c \in taken[p] /\ sha[q] = s
                                /\ c \in taken[q] => p = q

\* A client outside a call waits for nothing.
IdleOwesNothing == \A c \in Client : cpc[c] = "idle" => waiting[c] = {}

WaiterInv == NoLostWaiter /\ OneSender /\ IdleOwesNothing

LEMMA WaiterClient ==
    ASSUME Typing, WaiterInv, NEW c \in Client, ClientNext(c)
    PROVE  WaiterInv'
<1> USE DEF WaiterInv, NoLostWaiter, OneSender, IdleOwesNothing
<1>0. ClientTypeOK /\ QueueTypeOK /\ FetchTypeOK
  BY DEF Typing, TypeOK
<1>1. ASSUME NEW S \in SUBSET Sha, Enqueue(c, S)
      PROVE  WaiterInv'
  <2>1. UNCHANGED <<waiters, waiting, taken, sha>>
    BY <1>1 DEF Enqueue, fetchVars
  <2>2. \A d \in Client : cpc'[d] = "idle" => cpc[d] = "idle"
    BY <1>0, <1>1 DEF Enqueue, ClientTypeOK
  <2>3. QED
    BY <2>1, <2>2
<1>2. ASSUME NEW S \in SUBSET Sha, EnqueueAndWait(c, S)
      PROVE  WaiterInv'
  <2>1. UNCHANGED <<taken, sha>> /\ waiting[c] = {}
    BY <1>2 DEF EnqueueAndWait, fetchVars
  <2>2. /\ \A d \in Client \ {c} : waiting'[d] = waiting[d]
        /\ waiting'[c] = S \ index
    BY <1>0, <1>2 DEF EnqueueAndWait, ClientTypeOK
  <2>3. /\ \A s \in Sha : \A d \in Client \ {c} :
              d \in waiters'[s] <=> d \in waiters[s]
        /\ \A s \in Sha : c \in waiters'[s] <=> s \in S \ index \/ c \in waiters[s]
    BY <1>0, <1>2 DEF EnqueueAndWait, QueueTypeOK
  <2>4. \A s \in Sha : c \notin waiters[s]
                       /\ \A p \in Proc : ~(sha[p] = s /\ c \in taken[p])
    BY <2>1
  <2>5. \A d \in Client : cpc'[d] = "idle" => d # c /\ cpc[d] = "idle"
    BY <1>0, <1>2 DEF EnqueueAndWait, ClientTypeOK
  <2>6. NoLostWaiter'
    BY <2>1, <2>2, <2>3, <2>4
  <2>7. OneSender'
    BY <2>1, <2>3, <2>4
  <2>8. QED
    BY <2>2, <2>5, <2>6, <2>7
<1>3. CASE CountTotals(c) \/ Return(c)
  <2>1. UNCHANGED <<waiters, waiting, taken, sha>>
    BY <1>3 DEF CountTotals, Return, fetchVars, queueVars
  <2>2. \A d \in Client : cpc'[d] = "idle" => waiting[d] = {}
    BY <1>0, <1>3 DEF CountTotals, Return, ClientTypeOK
  <2>3. QED
    BY <2>1, <2>2
<1>4. CASE HangUp(c)
  <2>1. sha' = sha
    BY <1>4 DEF HangUp
  <2>2. /\ \A d \in Client : waiting'[d] = IF d = c THEN {} ELSE waiting[d]
        /\ \A s \in Sha : waiters'[s] = waiters[s] \ {c}
        /\ \A p \in Proc : taken'[p] = taken[p] \ {c}
    BY <1>0, <1>4 DEF HangUp, ClientTypeOK
  <2>3. \A d \in Client : cpc'[d] = "idle" => d = c \/ cpc[d] = "idle"
    BY <1>0, <1>4 DEF HangUp, ClientTypeOK
  <2>4. QED
    BY <2>1, <2>2, <2>3
<1>5. QED
  BY <1>1, <1>2, <1>3, <1>4 DEF ClientNext

LEMMA WaiterTask ==
    ASSUME Typing, LocalsInv, WaiterInv, NEW p \in Proc, TaskStep(p)
    PROVE  WaiterInv'
<1> USE DEF WaiterInv, NoLostWaiter, OneSender, IdleOwesNothing
<1>0. /\ ClientTypeOK /\ QueueTypeOK /\ FetchTypeOK
      /\ \A q \in Proc \ {p} : sha'[q] = sha[q] /\ taken'[q] = taken[q]
      /\ cpc' = cpc
  <2>1. cpc' = cpc
    BY DEF TaskStep, WorkerNext, ReaderNext, Advance, Spawn, Skip, Proceed,
           ReadStart, DropRead, DropLeader, CloseChan, DiskHit, DiskMiss, Lead,
           CountImplicit, Follow, CdnAnswer, Settle, SettleNothing, Mark,
           Record, Notify, Release, Publish, Hear, Retry, Write, clientVars
  <2>2. QED
    BY <2>1, OthersLocals DEF Typing, TypeOK
<1>1. CASE Settle(p)
  <2>1. /\ sha' = sha /\ waiting' = waiting /\ sha[p] \in Sha /\ taken[p] = {}
        /\ taken'[p] = waiters[sha[p]]
        /\ \A s \in Sha : waiters'[s] = IF s = sha[p] THEN {} ELSE waiters[s]
    BY <1>0, <1>1
    DEF Settle, clientVars, QueueTypeOK, FetchTypeOK, LocalsInv, Typing, Running
  <2>2. NoLostWaiter'
    <3> SUFFICES ASSUME NEW c \in Client, NEW s \in Sha
                 PROVE  s \in waiting[c] <=>
                          \/ c \in waiters'[s]
                          \/ \E q \in Proc : sha[q] = s /\ c \in taken'[q]
      BY <2>1
    <3>1. CASE s = sha[p]
      BY <1>0, <2>1, <3>1
    <3>2. CASE s # sha[p]
      BY <1>0, <2>1, <3>2
    <3>3. QED
      BY <3>1, <3>2
  <2>3. OneSender'
    BY <1>0, <2>1
  <2>4. QED
    BY <1>0, <2>1, <2>2, <2>3
<1>2. CASE Notify(p)
  <2>1. /\ waiters' = waiters /\ taken'[p] = {}
        /\ \A c \in Client : waiting'[c] = IF c \in taken[p]
                                           THEN waiting[c] \ {sha[p]}
                                           ELSE waiting[c]
    BY <1>0, <1>2 DEF Notify, AfterSettle, Finish, FetchTypeOK, queueVars
  <2>2. NoLostWaiter'
    <3> SUFFICES ASSUME NEW c \in Client, NEW s \in Sha
                 PROVE  s \in waiting'[c] <=>
                          \/ c \in waiters[s]
                          \/ \E q \in Proc : sha'[q] = s /\ c \in taken'[q]
      BY <2>1
    <3> DEFINE Sends(q) == sha[q] = s /\ c \in taken[q]
               Sends1(q) == sha'[q] = s /\ c \in taken'[q]
    <3>1. /\ \A q \in Proc \ {p} : Sends1(q) <=> Sends(q)
          /\ ~Sends1(p)
      BY <1>0, <2>1
    <3>2. s \in waiting'[c] <=> s \in waiting[c] /\ ~Sends(p)
      <4>1. CASE c \in taken[p]
        <5>1. waiting'[c] = waiting[c] \ {sha[p]}
          BY <2>1, <4>1
        <5>2. QED
          BY <4>1, <5>1
      <4>2. CASE c \notin taken[p]
        <5>1. waiting'[c] = waiting[c]
          BY <2>1, <4>2
        <5>2. QED
          BY <4>2, <5>1
      <4>3. QED
        BY <4>1, <4>2
    <3>3. /\ s \in waiting[c] <=> c \in waiters[s] \/ \E q \in Proc : Sends(q)
          /\ Sends(p) => /\ c \notin waiters[s]
                         /\ \A q \in Proc \ {p} : ~Sends(q)
      OBVIOUS
    <3> HIDE DEF Sends, Sends1
    <3>4. s \in waiting'[c] <=> c \in waiters[s] \/ \E q \in Proc : Sends1(q)
      BY <3>1, <3>2, <3>3
    <3>5. QED
      BY <3>4 DEF Sends1
  <2>3. OneSender'
    BY <1>0, <2>1
  <2>4. QED
    BY <1>0, <2>1, <2>2, <2>3
<1>3. CASE ~Settle(p) /\ ~Notify(p)
  <2>1. UNCHANGED <<waiters, waiting>>
    BY <1>3
    DEF TaskStep, WorkerNext, ReaderNext, Advance, Spawn, Skip, Proceed,
        ReadStart, DropRead, DropLeader, CloseChan, DiskHit, DiskMiss, Lead,
        CountImplicit, Follow, CdnAnswer, SettleNothing, Mark, Record, Release,
        Publish, Hear, Retry, Write, clientVars, queueVars
  <2>2. /\ taken'[p] \in {taken[p], {}}
        /\ taken[p] # {} => taken'[p] = taken[p] /\ sha'[p] = sha[p]
    <3>1. CASE Mark(p) \/ Record(p)
      BY <1>0, <3>1 DEF Mark, Record
    <3>2. CASE ~(Mark(p) \/ Record(p))
      <4>1. pc[p] \notin {"mark", "record", "notify"}
        BY <1>3, <3>2
        DEF TaskStep, WorkerNext, ReaderNext, Advance, Spawn, Skip, Proceed,
            ReadStart, DropRead, DropLeader, CloseChan, DiskHit, DiskMiss, Lead,
            CountImplicit, Follow, CdnAnswer, SettleNothing, Release, Publish,
            Hear, Retry, Write
      <4>2. taken[p] = {}
        BY <4>1 DEF LocalsInv
      <4>3. taken'[p] \in {taken[p], {}}
        BY <1>0, <1>3, <3>2
        DEF TaskStep, WorkerNext, ReaderNext, Advance, Spawn, Skip, Proceed,
            ReadStart, DropRead, DropLeader, CloseChan, DiskHit, DiskMiss, Lead,
            CountImplicit, Follow, CdnAnswer, SettleNothing, Release, Publish,
            Hear, Retry, Write, Finish, AfterSettle, Returned, FetchTypeOK
      <4>4. QED
        BY <4>2, <4>3
    <3>3. QED
      BY <3>1, <3>2
  <2>3. \A q \in Proc : taken'[q] # {} => taken'[q] = taken[q] /\ sha'[q] = sha[q]
    BY <1>0, <2>2
  <2>4. \A q \in Proc : taken[q] # {} => taken'[q] = taken[q] /\ sha'[q] = sha[q]
    BY <1>0, <2>2
  <2>5. \A c \in Client, s \in Sha, q \in Proc :
           sha'[q] = s /\ c \in taken'[q] <=> sha[q] = s /\ c \in taken[q]
    BY <2>3, <2>4
  <2>6. QED
    BY <1>0, <2>1, <2>5
<1>4. QED
  BY <1>1, <1>2, <1>3

LEMMA WaiterStep ==
    ASSUME Typing, LocalsInv, WaiterInv, [Next]_vars
    PROVE  WaiterInv'
<1> USE DEF WaiterInv, NoLostWaiter, OneSender, IdleOwesNothing
<1>1. CASE CancelClear
  <2>1. /\ \A c \in Client : waiting'[c] = waiting[c] \ {s \in Sha : c \in waiters[s]}
        /\ \A s \in Sha : waiters'[s] = {}
        /\ UNCHANGED <<cpc, sha, taken>>
    BY <1>1 DEF CancelClear, fetchVars
  <2>2. QED
    BY <2>1
<1>2. CASE UNCHANGED vars \/ Dispatch \/ CancelReset
  <2>1. UNCHANGED <<waiters, waiting, taken, sha, cpc>>
    BY <1>2 DEF vars, clientVars, queueVars, fetchVars, Dispatch, CancelReset
  <2>2. QED
    BY <2>1
<1>3. QED
  BY <1>1, <1>2, WaiterClient, WaiterTask, NextKinds

LEMMA WaiterAlways == Spec => []WaiterInv
<1>1. Init => WaiterInv
  BY DEF Init, WaiterInv, NoLostWaiter, OneSender, IdleOwesNothing
<1>2. Typing /\ LocalsInv /\ WaiterInv /\ [Next]_vars => WaiterInv'
  BY WaiterStep
<1>3. QED
  BY <1>1, <1>2, TypingAlways, LocalsAlways, PTL DEF Spec

\* Nobody waits for a chunk that no pending entry and no settling task owes it,
\* and nobody who is owed one has stopped waiting: each step that moves
\* senders (an enqueue, a settle, a notification, a cancel, a hang-up) moves
\* them all.
THEOREM WaitersKept == Spec => []NoLostWaiter
<1>1. WaiterInv => NoLostWaiter
  BY DEF WaiterInv
<1>2. QED
  BY <1>1, WaiterAlways, PTL

-----------------------------------------------------------------------------
(* Jobs.                                                                    *)

\* s is in lane q.
In(s, q) == \E i \in DOMAIN q : q[i] = s

\* Worker w has taken the job for s and still settles it.
Minds(w, s) ==
    /\ sha[w] = s
    /\ ~ (on[w] = NoChan /\ pc[w] \in {"mark", "record", "notify"})

HasJob(s) ==
    \/ In(s, interactive)
    \/ In(s, bulk)
    \/ held = s
    \/ \E w \in Worker : Minds(w, s)

\* A lane that is added to keeps what it has and gets what is added.
LEMMA LaneGrows ==
    ASSUME NEW S \in SUBSET Sha, NEW lane \in Seq(Sha), NEW q \in Orders(S)
    PROVE  /\ \A s \in Sha : In(s, lane) => In(s, lane \o q)
           /\ \A s \in S : In(s, lane \o q)
<1>1. q \in Seq(Sha) /\ \A s \in S : In(s, q)
  BY OrdersType DEF Orders, In
<1>2. /\ lane \o q \in Seq(Sha) /\ Len(lane \o q) = Len(lane) + Len(q)
      /\ \A i \in 1 .. Len(lane) : (lane \o q)[i] = lane[i]
      /\ \A i \in 1 .. Len(q) : (lane \o q)[Len(lane) + i] = q[i]
  BY <1>1
<1>3. /\ DOMAIN lane = 1 .. Len(lane) /\ Len(lane) \in Nat
      /\ DOMAIN q = 1 .. Len(q) /\ Len(q) \in Nat
      /\ DOMAIN (lane \o q) = 1 .. (Len(lane) + Len(q))
  BY <1>1, <1>2
<1>4. ASSUME NEW s \in Sha, In(s, lane)
      PROVE  In(s, lane \o q)
  <2>1. PICK i \in 1 .. Len(lane) : lane[i] = s
    BY <1>3, <1>4 DEF In
  <2>2. i \in DOMAIN (lane \o q) /\ (lane \o q)[i] = s
    BY <1>2, <1>3, <2>1
  <2>3. QED
    BY <2>2 DEF In
<1>5. ASSUME NEW s \in S
      PROVE  In(s, lane \o q)
  <2>1. PICK i \in 1 .. Len(q) : q[i] = s
    BY <1>1, <1>3 DEF In
  <2>2. Len(lane) + i \in DOMAIN (lane \o q) /\ (lane \o q)[Len(lane) + i] = s
    BY <1>2, <1>3, <2>1
  <2>3. QED
    BY <2>2 DEF In
<1>6. QED
  BY <1>4, <1>5

\* What leaves a lane is its first job.
LEMMA LaneShrinks ==
    ASSUME NEW lane \in Seq(Sha), lane # <<>>, NEW s \in Sha, In(s, lane)
    PROVE  s = Head(lane) \/ In(s, Tail(lane))
<1>1. PICK i \in 1 .. Len(lane) : lane[i] = s
  BY DEF In
<1>2. Head(lane) = lane[1]
  BY HeadTailProperties
<1>3. CASE i # 1
  <2>1. /\ i - 1 \in DOMAIN Tail(lane)
        /\ Tail(lane)[i - 1] = lane[i]
    BY <1>3, HeadTailProperties
  <2>2. QED
    BY <1>1, <2>1 DEF In
<1>4. QED
  BY <1>1, <1>2, <1>3

LEMMA WorkerMinds ==
    ASSUME Typing, FlightInv, NEW p \in Proc, TaskStep(p),
           NEW w \in Worker, NEW s \in pending', s \in Sha, Minds(w, s),
           LocalsInv
    PROVE  Minds(w, s)'
<1>0. FetchTypeOK /\ p \in Proc
  BY DEF Typing, TypeOK
<1>1. CASE w # p
  BY <1>1, OthersLocals DEF Minds, Proc
<1>2. CASE w = p
  <2> USE <1>0, <1>2, ConstantsAssumption DEF Minds, FetchTypeOK
  <2>0. pc[p] # "idle"
    BY DEF LocalsInv
  <2>1. CASE p \in Worker /\ WorkerNext(p)
    BY <2>0, <2>1 DEF WorkerNext, Spawn, Skip, Proceed, queueVars
  <2>2. CASE DiskHit(p) \/ DiskMiss(p) \/ Write(p)
    BY <2>2 DEF DiskHit, DiskMiss, Write
  <2>3. CASE Lead(p) \/ CountImplicit(p) \/ Follow(p)
    BY <2>3 DEF Lead, CountImplicit, Follow
  <2>4. CASE \E good \in BOOLEAN : CdnAnswer(p, good)
    BY <2>4 DEF CdnAnswer, FlightInv
  <2>5. CASE Settle(p) \/ SettleNothing(p)
    BY <2>5 DEF Settle, SettleNothing, queueVars
  <2>6. CASE Mark(p) \/ Record(p) \/ Notify(p)
    BY <2>6 DEF Mark, Record, Notify, AfterSettle
  <2>7. CASE Release(p) \/ Publish(p) \/ Hear(p) \/ Retry(p)
    BY <2>7 DEF Release, Publish, Hear, Retry, Returned
  <2>8. QED
    BY <2>1, <2>2, <2>3, <2>4, <2>5, <2>6, <2>7 DEF TaskStep, Advance
<1>3. QED
  BY <1>1, <1>2

LEMMA JobsTask ==
    ASSUME Typing, FlightInv, LocalsInv, PendingHasJob, NEW p \in Proc, TaskStep(p)
    PROVE  PendingHasJob'
<1> SUFFICES ASSUME NEW s \in pending'
             PROVE  HasJob(s)'
  BY DEF PendingHasJob, HasJob, In, Minds
<1>1. s \in pending /\ UNCHANGED <<interactive, bulk>>
  BY DEF TaskStep, WorkerNext, ReaderNext, Advance, Spawn, Skip, Proceed,
         ReadStart, DropRead, DropLeader, CloseChan, DiskHit, DiskMiss, Lead,
         CountImplicit, Follow, CdnAnswer, Settle, SettleNothing, Mark,
         Record, Notify, Release, Publish, Hear, Retry, Write, queueVars
<1>2. s \in Sha /\ HasJob(s)
  BY <1>1 DEF PendingHasJob, HasJob, In, Minds, Typing, TypeOK, QueueTypeOK
<1>3. CASE In(s, interactive) \/ In(s, bulk)
  BY <1>1, <1>3 DEF HasJob, In
<1>4. CASE held = s
  <2>1. CASE p \in Worker /\ Spawn(p)
    <3>1. sha'[p] = s /\ pc'[p] = "check"
      BY <1>4, <2>1 DEF Spawn, Typing, TypeOK, FetchTypeOK
    <3>2. QED
      BY <2>1, <3>1 DEF HasJob, Minds
  <2>2. CASE ~(p \in Worker /\ Spawn(p))
    <3>1. held' = held
      BY <2>2
      DEF TaskStep, WorkerNext, ReaderNext, Advance, Skip, Proceed,
          ReadStart, DropRead, DropLeader, CloseChan, DiskHit, DiskMiss, Lead,
          CountImplicit, Follow, CdnAnswer, Settle, SettleNothing, Mark,
          Record, Notify, Release, Publish, Hear, Retry, Write, queueVars
    <3>2. QED
      BY <1>4, <3>1 DEF HasJob
  <2>3. QED
    BY <2>1, <2>2
<1>5. CASE \E w \in Worker : Minds(w, s)
  BY <1>2, <1>5, WorkerMinds DEF HasJob
<1>6. QED
  BY <1>2, <1>3, <1>4, <1>5 DEF HasJob

LEMMA JobsStep ==
    ASSUME Typing, FlightInv, LocalsInv, PendingHasJob, [Next]_vars
    PROVE  PendingHasJob'
<1>0. QueueTypeOK /\ pending \subseteq Sha
  BY DEF Typing, TypeOK, QueueTypeOK
<1>1. ASSUME NEW c \in Client, NEW S \in SUBSET Sha,
             Enqueue(c, S) \/ EnqueueAndWait(c, S)
      PROVE  PendingHasJob'
  <2> SUFFICES ASSUME NEW s \in pending'
               PROVE  HasJob(s)'
    BY DEF PendingHasJob, HasJob, In, Minds
  <2>1. /\ UNCHANGED <<held, sha, on, pc>>
        /\ s \in pending \/ s \in (S \ index) \ pending
    BY <1>1 DEF Enqueue, EnqueueAndWait, fetchVars
  <2>2. /\ s \in pending => In(s, interactive')
                            \/ In(s, bulk') \/ held = s
                            \/ \E w \in Worker : Minds(w, s)
        /\ s \in (S \ index) \ pending => In(s, interactive') \/ In(s, bulk')
    <3>1. s \in Sha /\ (s \in pending => HasJob(s))
      BY <1>0, <2>1 DEF PendingHasJob, HasJob, In, Minds
    <3>2. CASE Enqueue(c, S)
      <4>1. PICK q \in Orders((S \ index) \ pending) : bulk' = bulk \o q
        BY <3>2 DEF Enqueue
      <4>2. /\ In(s, bulk) => In(s, bulk')
            /\ s \in (S \ index) \ pending => In(s, bulk')
        BY <1>0, <3>1, <4>1, LaneGrows DEF QueueTypeOK
      <4>3. interactive' = interactive
        BY <3>2 DEF Enqueue
      <4>4. QED
        BY <3>1, <4>2, <4>3 DEF HasJob
    <3>3. CASE EnqueueAndWait(c, S)
      <4>1. PICK q \in Orders(S \ index) : interactive' = interactive \o q
        BY <3>3 DEF EnqueueAndWait
      <4>2. /\ In(s, interactive) => In(s, interactive')
            /\ s \in S \ index => In(s, interactive')
        BY <1>0, <3>1, <4>1, LaneGrows DEF QueueTypeOK
      <4>3. bulk' = bulk
        BY <3>3 DEF EnqueueAndWait
      <4>4. QED
        BY <3>1, <4>2, <4>3 DEF HasJob
    <3>4. QED
      BY <1>1, <3>2, <3>3
  <2>3. QED
    BY <2>1, <2>2 DEF HasJob, In, Minds
<1>2. CASE Dispatch
  <2> SUFFICES ASSUME NEW s \in pending'
               PROVE  HasJob(s)'
    BY DEF PendingHasJob, HasJob, In, Minds
  <2>1. s \in Sha /\ HasJob(s) /\ held = NoSha /\ UNCHANGED <<sha, on, pc>>
    BY <1>0, <1>2
    DEF Dispatch, PendingHasJob, HasJob, In, Minds, fetchVars
  <2>2. In(s, interactive) => s = held' \/ In(s, interactive')
    BY <1>0, <1>2, <2>1, LaneShrinks DEF Dispatch, QueueTypeOK
  <2>3. In(s, bulk) => s = held' \/ In(s, bulk')
    BY <1>0, <1>2, <2>1, LaneShrinks DEF Dispatch, QueueTypeOK
  <2>4. QED
    BY <2>1, <2>2, <2>3, ConstantsAssumption DEF HasJob, In, Minds
<1>3. CASE CancelClear
  BY <1>3 DEF CancelClear, PendingHasJob
<1>4. CASE \/ UNCHANGED vars \/ CancelReset
           \/ \E c \in Client : CountTotals(c) \/ Return(c) \/ HangUp(c)
  <2>1. UNCHANGED <<pending, interactive, bulk, held, sha, on, pc>>
    BY <1>4
    DEF vars, queueVars, fetchVars, CancelReset, CountTotals, Return, HangUp
  <2>2. QED
    BY <2>1 DEF PendingHasJob
<1>5. QED
  BY <1>1, <1>2, <1>3, <1>4, JobsTask, NextKinds DEF ClientNext

\* Every pending entry has a job left, in a lane, at the dispatcher or in a
\* worker that is yet to settle it: none is stranded, whoever takes the entry
\* out first.
THEOREM JobsKept == Spec => []PendingHasJob
<1>1. Init => PendingHasJob
  BY DEF Init, PendingHasJob
<1>2. Typing /\ FlightInv /\ LocalsInv /\ PendingHasJob /\ [Next]_vars
         => PendingHasJob'
  BY JobsStep
<1>3. QED
  BY <1>1, <1>2, TypingAlways, FlightAlways, LocalsAlways, PTL DEF Spec

-----------------------------------------------------------------------------
(* Accounting.  What is in the totals and not out of them is what is        *)
(* outstanding and, for each read dropped at the CDN, one left over.        *)

\* The sets that are counted are finite: their sizes are numbers.
Countable == /\ IsFiniteSet(Announced)
             /\ IsFiniteSet(Uncounted)
             /\ IsFiniteSet(Unanswered)

LeftOver == (stats.total + Cardinality(Announced))
            - (stats.completed + stats.failed + Outstanding)

AccountInv ==
    /\ Countable
    /\ \A c \in Client : cpc[c] # "count" => tally[c] = 0
    /\ cancelling => used.cancels # 0
    /\ used.cancels = 0 => LeftOver \in 0 .. used.drops

LEMMA Columns ==
    ASSUME NEW c, NEW n \in Nat
    PROVE  IsFiniteSet({c} \X (1 .. n)) /\ Cardinality({c} \X (1 .. n)) = n
<1>1. IsFiniteSet(1 .. n) /\ Cardinality(1 .. n) = n
  BY FS_Interval
<1>2. IsFiniteSet({c}) /\ Cardinality({c}) = 1
  BY FS_Singleton
<1>3. QED
  BY <1>1, <1>2, FS_Product

\* A disjoint part that comes or goes.
LEMMA Parts ==
    ASSUME NEW S, NEW T, IsFiniteSet(S), IsFiniteSet(T), S \cap T = {}
    PROVE  /\ IsFiniteSet(S \cup T)
           /\ Cardinality(S \cup T) = Cardinality(S) + Cardinality(T)
<1>1. Cardinality(S \cap T) = 0
  BY FS_EmptySet
<1>2. Cardinality(S) \in Nat /\ Cardinality(T) \in Nat
  BY FS_CardinalityType
<1>3. /\ IsFiniteSet(S \cup T)
      /\ Cardinality(S \cup T)
           = Cardinality(S) + Cardinality(T) - Cardinality(S \cap T)
  BY FS_Union
<1>4. QED
  BY <1>1, <1>2, <1>3

LEMMA Sizes ==
    ASSUME Typing, Countable
    PROVE  /\ Cardinality(Announced) \in Nat
           /\ Cardinality(Uncounted) \in Nat
           /\ Cardinality(Unanswered) \in Nat
           /\ IsFiniteSet(pending) /\ Cardinality(pending) \in Nat
<1>1. IsFiniteSet(pending)
  BY FS_Subset, ConstantsAssumption DEF Typing, TypeOK, QueueTypeOK
<1>2. QED
  BY <1>1, FS_CardinalityType DEF Countable

\* A call announces n chunks, or adds what it announced to the totals.
LEMMA AnnouncedMoves ==
    ASSUME Typing, Countable, NEW c \in Client, NEW n \in Nat,
           tally' = [tally EXCEPT ![c] = n]
    PROVE  /\ tally[c] = 0 => /\ IsFiniteSet(Announced')
                              /\ Cardinality(Announced')
                                   = Cardinality(Announced) + n
           /\ n = 0 => /\ IsFiniteSet(Announced')
                       /\ Cardinality(Announced)
                            = Cardinality(Announced') + tally[c]
<1> DEFINE Others == UNION {{d} \X (1 .. tally[d]) : d \in Client \ {c}}
<1>0. tally \in [Client -> Nat] /\ tally[c] \in Nat
  BY DEF Typing, TypeOK, ClientTypeOK
<1>1. tally' \in [Client -> Nat] /\ tally'[c] = n
      /\ \A d \in Client \ {c} : tally'[d] = tally[d]
  BY <1>0
<1>2. Announced = Others \cup ({c} \X (1 .. tally[c]))
  BY DEF Announced
<1>3. Announced' = Others \cup ({c} \X (1 .. n))
  BY <1>1 DEF Announced
<1>4. \A m \in Nat : Others \cap ({c} \X (1 .. m)) = {}
  OBVIOUS
<1>5. IsFiniteSet(Others)
  BY <1>2, FS_Subset DEF Countable
<1>6. \A m \in Nat :
         /\ IsFiniteSet(Others \cup ({c} \X (1 .. m)))
         /\ Cardinality(Others \cup ({c} \X (1 .. m))) = Cardinality(Others) + m
  <2> SUFFICES ASSUME NEW m \in Nat
               PROVE  LET T == {c} \X (1 .. m)
                      IN  /\ IsFiniteSet(Others \cup T)
                          /\ Cardinality(Others \cup T)
                               = Cardinality(Others) + m
    OBVIOUS
  <2> DEFINE T == {c} \X (1 .. m)
  <2>1. IsFiniteSet(T) /\ Cardinality(T) = m /\ Others \cap T = {}
    BY <1>4, Columns
  <2> HIDE DEF Others, T
  <2>2. /\ IsFiniteSet(Others \cup T)
        /\ Cardinality(Others \cup T) = Cardinality(Others) + Cardinality(T)
    BY <1>5, <2>1, Parts
  <2>3. QED
    BY <2>1, <2>2 DEF T
<1>7. Cardinality(Others) \in Nat
  BY <1>5, FS_CardinalityType
<1> HIDE DEF Others
<1>8. /\ IsFiniteSet(Announced')
      /\ Cardinality(Announced') = Cardinality(Others) + n
      /\ Cardinality(Announced) = Cardinality(Others) + tally[c]
  BY <1>0, <1>2, <1>3, <1>6
<1>9. QED
  BY <1>0, <1>7, <1>8

\* One member comes, goes or stays.
LEMMA OneMember ==
    ASSUME NEW S, NEW T, NEW p, IsFiniteSet(S), \A q : q # p => (q \in S <=> q \in T)
    PROVE  /\ IsFiniteSet(T)
           /\ p \in S /\ p \in T => Cardinality(T) = Cardinality(S)
           /\ p \notin S /\ p \notin T => Cardinality(T) = Cardinality(S)
           /\ p \in S /\ p \notin T => Cardinality(S) = Cardinality(T) + 1
           /\ p \notin S /\ p \in T => Cardinality(T) = Cardinality(S) + 1
<1>0. Cardinality(S) \in Nat
  BY FS_CardinalityType
<1>1. CASE p \in S <=> p \in T
  <2>1. S = T
    BY <1>1
  <2>2. QED
    BY <2>1
<1>2. CASE p \in S /\ p \notin T
  <2>1. T = S \ {p}
    BY <1>2
  <2>2. IsFiniteSet(S \ {p}) /\ Cardinality(S \ {p}) = Cardinality(S) - 1
    BY <1>2, FS_RemoveElement
  <2>3. QED
    BY <1>0, <1>2, <2>1, <2>2
<1>3. CASE p \notin S /\ p \in T
  <2>1. T = S \cup {p}
    BY <1>3
  <2>2. IsFiniteSet(S \cup {p}) /\ Cardinality(S \cup {p}) = Cardinality(S) + 1
    BY <1>3, FS_AddElement
  <2>3. QED
    BY <1>3, <2>1, <2>2
<1>4. QED
  BY <1>1, <1>2, <1>3

\* A task is all that a step of it can put into what is counted, or take out.
LEMMA TaskCounts ==
    ASSUME Typing, Countable, NEW p \in Proc, TaskStep(p)
    PROVE  /\ IsFiniteSet(Uncounted') /\ IsFiniteSet(Unanswered')
           /\ (p \in Uncounted <=> p \in Uncounted')
                 => Cardinality(Uncounted') = Cardinality(Uncounted)
           /\ p \in Uncounted /\ p \notin Uncounted'
                 => Cardinality(Uncounted) = Cardinality(Uncounted') + 1
           /\ p \notin Uncounted /\ p \in Uncounted'
                 => Cardinality(Uncounted') = Cardinality(Uncounted) + 1
           /\ (p \in Unanswered <=> p \in Unanswered')
                 => Cardinality(Unanswered') = Cardinality(Unanswered)
           /\ p \in Unanswered /\ p \notin Unanswered'
                 => Cardinality(Unanswered) = Cardinality(Unanswered') + 1
           /\ p \notin Unanswered /\ p \in Unanswered'
                 => Cardinality(Unanswered') = Cardinality(Unanswered) + 1
<1>1. \A q : q # p => (q \in Uncounted <=> q \in Uncounted')
  BY OthersLocals DEF Uncounted
<1>2. \A q : q # p => (q \in Unanswered <=> q \in Unanswered')
  BY OthersLocals DEF Unanswered, Implicit
<1>3. /\ IsFiniteSet(Uncounted')
      /\ (p \in Uncounted <=> p \in Uncounted')
            => Cardinality(Uncounted') = Cardinality(Uncounted)
      /\ p \in Uncounted /\ p \notin Uncounted'
            => Cardinality(Uncounted) = Cardinality(Uncounted') + 1
      /\ p \notin Uncounted /\ p \in Uncounted'
            => Cardinality(Uncounted') = Cardinality(Uncounted) + 1
  BY <1>1, OneMember DEF Countable
<1>4. /\ IsFiniteSet(Unanswered')
      /\ (p \in Unanswered <=> p \in Unanswered')
            => Cardinality(Unanswered') = Cardinality(Unanswered)
      /\ p \in Unanswered /\ p \notin Unanswered'
            => Cardinality(Unanswered) = Cardinality(Unanswered') + 1
      /\ p \notin Unanswered /\ p \in Unanswered'
            => Cardinality(Unanswered') = Cardinality(Unanswered) + 1
  BY <1>2, OneMember DEF Countable
<1>6. QED
  BY <1>3, <1>4

LEMMA AccountTask ==
    ASSUME Typing, FlightInv, LocalsInv, AccountInv, NEW p \in Proc, TaskStep(p)
    PROVE  AccountInv'
<1> DEFINE settled == stats.completed + stats.failed
<1>0. /\ FetchTypeOK /\ CountTypeOK /\ Countable
      /\ Cardinality(Announced) \in Nat
      /\ IsFiniteSet(pending) /\ Cardinality(pending) \in Nat
      /\ Cardinality(Uncounted) \in Nat /\ Cardinality(Unanswered) \in Nat
  BY Sizes DEF Typing, TypeOK, AccountInv
<1>1. UNCHANGED <<tally, cpc, cancelling>> /\ Announced' = Announced
  <2>1. UNCHANGED <<tally, cpc, cancelling>>
    BY DEF TaskStep, WorkerNext, ReaderNext, Advance, Spawn, Skip, Proceed,
           ReadStart, DropRead, DropLeader, CloseChan, DiskHit, DiskMiss, Lead,
           CountImplicit, Follow, CdnAnswer, Settle, SettleNothing, Mark,
           Record, Notify, Release, Publish, Hear, Retry, Write, clientVars
  <2>2. QED
    BY <2>1 DEF Announced
<1>2. Countable'
  BY <1>0, <1>1, TaskCounts DEF Countable
<1>3. /\ Cardinality(Uncounted') \in Nat /\ Cardinality(Unanswered') \in Nat
  BY <1>2, FS_CardinalityType DEF Countable
<1>4. used'.cancels = used.cancels /\ used'.drops \in {used.drops, used.drops + 1}
  BY <1>0
  DEF TaskStep, WorkerNext, ReaderNext, Advance, Spawn, Skip, Proceed,
      ReadStart, DropRead, DropLeader, CloseChan, DiskHit, DiskMiss, Lead,
      CountImplicit, Follow, CdnAnswer, Settle, SettleNothing, Mark,
      Record, Notify, Release, Publish, Hear, Retry, Write, CountTypeOK
<1>5. /\ p \in Uncounted <=> pc[p] \in {"mark", "record"}
      /\ p \in Uncounted' <=> pc'[p] \in {"mark", "record"}
      /\ p \in Unanswered <=> pc[p] = "fetch" /\ ~queued[p]
      /\ p \in Unanswered' <=> pc'[p] = "fetch" /\ ~queued'[p]
  <2>1. FlightInv'
    BY FlightStep DEF TaskStep, Next, Proc
  <2>2. QED
    BY <2>1, ConstantsAssumption DEF FlightInv, Uncounted, Unanswered, Implicit
<1>6. /\ LeftOver' \in {LeftOver, LeftOver + 1}
      /\ LeftOver' = LeftOver + 1 => used'.drops = used.drops + 1
  <2>0. /\ stats \in [total : Nat, completed : Nat, failed : Nat]
        /\ LeftOver \in Int
    BY <1>0 DEF CountTypeOK, LeftOver, Outstanding
  \* What a step does to the terms decides what it does to the difference.
  <2>1. ASSUME NEW gone \in 0 .. 1, NEW a \in -1 .. 1, NEW b \in -1 .. 1,
               NEW dt \in 0 .. 1, NEW ds \in 0 .. 1,
               stats'.total = stats.total + dt,
               stats'.completed + stats'.failed
                 = stats.completed + stats.failed + ds,
               stats'.completed \in Nat, stats'.failed \in Nat,
               Cardinality(pending') = Cardinality(pending) - gone,
               Cardinality(Uncounted') = Cardinality(Uncounted) + a,
               Cardinality(Unanswered') = Cardinality(Unanswered) + b
        PROVE  LeftOver' = LeftOver + dt - ds + gone - a - b
    BY <1>0, <1>1, <1>3, <2>0, <2>1 DEF LeftOver, Outstanding
  <2>2. CASE CountImplicit(p)
    <3>1. /\ p \notin Unanswered /\ p \in Unanswered'
          /\ p \notin Uncounted /\ p \notin Uncounted'
      BY <1>0, <1>5, <2>2 DEF CountImplicit, FetchTypeOK, LocalsInv
    <3>2. /\ stats'.total = stats.total + 1 /\ pending' = pending
          /\ stats'.completed = stats.completed /\ stats'.failed = stats.failed
      BY <2>0, <2>2 DEF CountImplicit, queueVars
    <3>3. LeftOver' = LeftOver + 1 - 0 + 0 - 0 - 1
      BY <1>0, <1>3, <2>0, <2>1, <3>1, <3>2, TaskCounts
    <3>4. QED
      BY <2>0, <3>3
  <2>3. CASE \E good \in BOOLEAN : CdnAnswer(p, good)
    <3>1. /\ stats' = stats /\ pending' = pending
          /\ p \notin Uncounted /\ p \notin Unanswered'
          /\ p \in Uncounted' <=> p \in Unanswered
      BY <1>0, <1>5, <2>3 DEF CdnAnswer, FetchTypeOK, queueVars
    <3>2. LeftOver' = LeftOver + 0 - 0 + 0 - 0 - 0
          \/ LeftOver' = LeftOver + 0 - 0 + 0 - 1 - (-1)
      BY <1>0, <1>3, <2>0, <2>1, <3>1, TaskCounts
    <3>3. QED
      BY <2>0, <3>2
  <2>4. CASE Settle(p)
    <3>1. /\ stats' = stats /\ pending' = pending \ {sha[p]} /\ sha[p] \in pending
          /\ p \notin Uncounted /\ p \in Uncounted'
          /\ p \notin Unanswered /\ p \notin Unanswered'
      BY <1>0, <1>5, <2>4 DEF Settle, FetchTypeOK
    <3>2. Cardinality(pending') = Cardinality(pending) - 1
      BY <1>0, <3>1, FS_RemoveElement
    <3>3. LeftOver' = LeftOver + 0 - 0 + 1 - 1 - 0
      BY <1>0, <1>3, <2>0, <2>1, <3>1, <3>2, TaskCounts
    <3>4. QED
      BY <2>0, <3>3
  <2>5. CASE Record(p)
    <3>1. /\ pending' = pending
          /\ p \in Uncounted /\ p \notin Uncounted'
          /\ p \notin Unanswered /\ p \notin Unanswered'
      BY <1>0, <1>5, <2>5 DEF Record, FetchTypeOK, queueVars
    <3>2. /\ stats'.total = stats.total
          /\ stats'.completed \in Nat /\ stats'.failed \in Nat
          /\ stats'.completed + stats'.failed
               = stats.completed + stats.failed + 1
      BY <2>0, <2>5 DEF Record
    <3>3. LeftOver' = LeftOver + 0 - 1 + 0 - (-1) - 0
      BY <1>0, <1>3, <2>0, <2>1, <3>1, <3>2, TaskCounts
    <3>4. QED
      BY <2>0, <3>3
  <2>6. CASE DropLeader(p)
    <3>1. /\ stats' = stats /\ pending' = pending
          /\ p \notin Uncounted /\ p \notin Uncounted'
          /\ p \notin Unanswered'
          /\ used'.drops = used.drops + 1
      BY <1>0, <1>5, <2>6 DEF DropLeader, FetchTypeOK, CountTypeOK, queueVars
    <3>2. LeftOver' = LeftOver + 0 - 0 + 0 - 0 - 0
          \/ LeftOver' = LeftOver + 0 - 0 + 0 - 0 - (-1)
      BY <1>0, <1>3, <2>0, <2>1, <3>1, TaskCounts
    <3>3. QED
      BY <2>0, <3>1, <3>2
  <2>7. CASE ~(\/ CountImplicit(p) \/ \E good \in BOOLEAN : CdnAnswer(p, good)
               \/ Settle(p) \/ Record(p) \/ DropLeader(p))
    <3>1. stats' = stats /\ pending' = pending
      BY <2>7
      DEF TaskStep, WorkerNext, ReaderNext, Advance, Spawn, Skip, Proceed,
          ReadStart, DropRead, CloseChan, DiskHit, DiskMiss, Lead, Follow,
          SettleNothing, Mark, Notify, Release, Publish, Hear, Retry, Write,
          queueVars
    <3>2. /\ p \in Uncounted <=> p \in Uncounted'
          /\ p \notin Unanswered /\ p \notin Unanswered'
      <4> USE <1>0, <1>5 DEF FetchTypeOK
      <4>1. CASE p \in Worker /\ WorkerNext(p)
        BY <4>1 DEF WorkerNext, Spawn, Skip, Proceed, Finish
      <4>2. CASE p \in Reader /\ ReaderNext(p)
        BY <2>7, <4>2 DEF ReaderNext, ReadStart, DropRead, CloseChan, Finish
      <4>3. CASE DiskHit(p) \/ DiskMiss(p) \/ Write(p)
        BY <4>3 DEF DiskHit, DiskMiss, Write, Finish
      <4>4. CASE Lead(p) \/ Follow(p)
        BY <4>4 DEF Lead, Follow
      <4>5. CASE SettleNothing(p) \/ Mark(p) \/ Notify(p)
        BY <4>5 DEF SettleNothing, Mark, Notify, AfterSettle, Finish
      <4>6. CASE Release(p) \/ Publish(p) \/ Hear(p) \/ Retry(p)
        BY <4>6 DEF Release, Publish, Hear, Retry, Returned, Finish
      <4>7. QED
        BY <2>7, <4>1, <4>2, <4>3, <4>4, <4>5, <4>6 DEF TaskStep, Advance
    <3>3. LeftOver' = LeftOver + 0 - 0 + 0 - 0 - 0
      BY <1>0, <1>3, <2>0, <2>1, <3>1, <3>2, TaskCounts
    <3>4. QED
      BY <2>0, <3>3
  <2>8. QED
    BY <2>2, <2>3, <2>4, <2>5, <2>6, <2>7
<1>7. QED
  <2>1. used.cancels = 0 => LeftOver' \in 0 .. used'.drops
    BY <1>0, <1>4, <1>6 DEF AccountInv, CountTypeOK
  <2>2. QED
    BY <1>1, <1>2, <1>4, <2>1 DEF AccountInv

LEMMA AccountClient ==
    ASSUME Typing, AccountInv, NEW c \in Client, ClientNext(c)
    PROVE  AccountInv'
<1>0. /\ ClientTypeOK /\ QueueTypeOK /\ CountTypeOK /\ Countable
      /\ Cardinality(Announced) \in Nat
      /\ IsFiniteSet(pending) /\ Cardinality(pending) \in Nat
      /\ Cardinality(Uncounted) \in Nat /\ Cardinality(Unanswered) \in Nat
      /\ stats \in [total : Nat, completed : Nat, failed : Nat]
      /\ used.drops \in Nat
  BY Sizes DEF Typing, TypeOK, AccountInv, CountTypeOK
<1>1. /\ cancelling' = cancelling /\ used'.cancels = used.cancels
      /\ used'.drops \in {used.drops, used.drops + 1}
      /\ UNCHANGED <<pc, on, queued>>
  BY <1>0 DEF ClientNext, Enqueue, EnqueueAndWait, CountTotals, Return, HangUp,
              fetchVars, CountTypeOK
<1>2. Uncounted' = Uncounted /\ Unanswered' = Unanswered
  BY <1>1 DEF Uncounted, Unanswered, Implicit
<1>3. ASSUME LeftOver' = LeftOver, IsFiniteSet(Announced'),
             \A d \in Client : cpc'[d] # "count" => tally'[d] = 0
      PROVE  AccountInv'
  BY <1>0, <1>1, <1>2, <1>3 DEF AccountInv, Countable
<1>4. ASSUME NEW S \in SUBSET Sha, Enqueue(c, S) \/ EnqueueAndWait(c, S)
      PROVE  AccountInv'
  <2> DEFINE fresh == (S \ index) \ pending
  <2>1. /\ tally' = [tally EXCEPT ![c] = Cardinality(fresh)]
        /\ pending' = pending \cup fresh /\ stats' = stats
        /\ cpc[c] = "idle"
        /\ cpc'[c] = "count" \/ fresh = {}
        /\ \A d \in Client \ {c} : cpc'[d] = cpc[d] /\ tally'[d] = tally[d]
        /\ tally'[c] = Cardinality(fresh)
    BY <1>0, <1>4 DEF Enqueue, EnqueueAndWait, ClientTypeOK
  <2>2. IsFiniteSet(fresh) /\ Cardinality(fresh) \in Nat
    BY FS_Subset, FS_CardinalityType, ConstantsAssumption
  <2>3. tally[c] = 0
    BY <2>1 DEF AccountInv
  <2>4. /\ IsFiniteSet(Announced')
        /\ Cardinality(Announced') = Cardinality(Announced) + Cardinality(fresh)
    BY <1>0, <2>1, <2>2, <2>3, AnnouncedMoves
  <2>5. Cardinality(pending \cup fresh) = Cardinality(pending) + Cardinality(fresh)
    BY <1>0, <2>2, Parts
  <2>6. LeftOver' = LeftOver
    BY <1>0, <1>2, <2>1, <2>2, <2>4, <2>5 DEF LeftOver, Outstanding
  <2>7. \A d \in Client : cpc'[d] # "count" => tally'[d] = 0
    BY <2>1, FS_EmptySet DEF AccountInv
  <2>8. QED
    BY <1>3, <2>4, <2>6, <2>7
<1>5. CASE CountTotals(c)
  <2>1. /\ tally' = [tally EXCEPT ![c] = 0] /\ tally[c] \in Nat
        /\ stats'.total = stats.total + tally[c]
        /\ stats'.completed = stats.completed /\ stats'.failed = stats.failed
        /\ pending' = pending
        /\ \A d \in Client \ {c} : cpc'[d] = cpc[d] /\ tally'[d] = tally[d]
        /\ tally'[c] = 0
    BY <1>0, <1>5 DEF CountTotals, ClientTypeOK, queueVars
  <2>2. /\ IsFiniteSet(Announced')
        /\ Cardinality(Announced) = Cardinality(Announced') + tally[c]
    BY <1>0, <2>1, AnnouncedMoves
  <2>3. Cardinality(Announced') \in Nat
    BY <2>2, FS_CardinalityType
  <2>4. LeftOver' = LeftOver
    BY <1>0, <1>2, <2>1, <2>2, <2>3 DEF LeftOver, Outstanding
  <2>5. \A d \in Client : cpc'[d] # "count" => tally'[d] = 0
    BY <2>1 DEF AccountInv
  <2>6. QED
    BY <1>3, <2>2, <2>4, <2>5
<1>6. CASE Return(c) \/ HangUp(c)
  <2>1. /\ UNCHANGED <<tally, stats, pending>>
        /\ \A d \in Client : cpc'[d] = cpc[d] \/ (d = c /\ cpc[d] = "wait")
    BY <1>0, <1>6 DEF Return, HangUp, queueVars, ClientTypeOK
  <2>2. Announced' = Announced /\ LeftOver' = LeftOver
    BY <1>2, <2>1 DEF Announced, LeftOver, Outstanding
  <2>3. \A d \in Client : cpc'[d] # "count" => tally'[d] = 0
    BY <2>1 DEF AccountInv
  <2>4. QED
    BY <1>0, <1>3, <2>2, <2>3 DEF Countable
<1>7. QED
  BY <1>4, <1>5, <1>6 DEF ClientNext

LEMMA AccountStep ==
    ASSUME Typing, FlightInv, LocalsInv, AccountInv, [Next]_vars
    PROVE  AccountInv'
<1>1. CASE UNCHANGED vars \/ Dispatch
  <2>1. UNCHANGED <<pending, cpc, tally, pc, on, queued, stats, cancelling, used>>
    BY <1>1 DEF vars, queueVars, fetchVars, clientVars, Dispatch
  <2>2. /\ UNCHANGED <<Announced, Uncounted, Unanswered>>
        /\ LeftOver' = LeftOver
    BY <2>1
    DEF Announced, Uncounted, Unanswered, Implicit, LeftOver, Outstanding
  <2>3. QED
    BY <2>1, <2>2 DEF AccountInv, Countable
<1>2. CASE CancelClear \/ CancelReset
  <2>1. UNCHANGED <<cpc, tally, pc, on, queued>> /\ used'.cancels # 0
    BY <1>2 DEF CancelClear, CancelReset, clientVars, fetchVars, AccountInv,
                Typing, TypeOK, CountTypeOK
  <2>2. UNCHANGED <<Announced, Uncounted, Unanswered>>
    BY <2>1 DEF Announced, Uncounted, Unanswered, Implicit
  <2>3. QED
    BY <2>1, <2>2 DEF AccountInv, Countable
<1>3. QED
  BY <1>1, <1>2, AccountClient, AccountTask, NextKinds

LEMMA AccountInit == Init => AccountInv
<1> SUFFICES ASSUME Init PROVE AccountInv
  OBVIOUS
<1>1. Announced = {} /\ Uncounted = {} /\ Unanswered = {} /\ pending = {}
  BY DEF Init, Announced, Uncounted, Unanswered
<1>2. Countable /\ LeftOver = 0
  BY <1>1, FS_EmptySet DEF Init, Countable, LeftOver, Outstanding
<1>3. QED
  BY <1>2 DEF Init, AccountInv

\* Until something is cancelled the totals are exact: a chunk is counted in
\* once and out once, however it came in and whoever settles it, and what a
\* dropped read leaves over is at most one per drop.
THEOREM TotalsExact == Spec => []AccountingExact
<1>1. Typing /\ FlightInv /\ LocalsInv /\ AccountInv /\ [Next]_vars => AccountInv'
  BY AccountStep
<1>2. Typing /\ AccountInv => AccountingExact
  <2> SUFFICES ASSUME Typing, AccountInv, used.cancels = 0
               PROVE  AccountingExact
    BY DEF AccountingExact
  <2>1. /\ Cardinality(Announced) \in Nat /\ Cardinality(pending) \in Nat
        /\ Cardinality(Uncounted) \in Nat /\ Cardinality(Unanswered) \in Nat
        /\ stats \in [total : Nat, completed : Nat, failed : Nat]
        /\ used.drops \in Nat /\ LeftOver \in 0 .. used.drops
    BY Sizes DEF Typing, TypeOK, AccountInv, CountTypeOK
  <2>2. QED
    BY <2>1 DEF AccountingExact, LeftOver, Outstanding
<1>3. QED
  BY <1>1, <1>2, AccountInit, TypingAlways, FlightAlways, LocalsAlways, PTL DEF Spec

-----------------------------------------------------------------------------
(* The contract.  It needs one more fact of every reachable state: what a   *)
(* settle reports as landed is in the index by then.                        *)

Landed == \A p \in Proc :
             pc[p] \in {"record", "notify"} /\ ok[p] => sha[p] \in index

LEMMA LandedStep == Typing /\ Landed /\ [Next]_vars => Landed'
<1> SUFFICES ASSUME Typing, Landed, [Next]_vars PROVE Landed'
  OBVIOUS
<1>0. /\ pc \in [Proc -> TaskPCs] /\ sha \in [Proc -> Sha \cup {NoSha}]
      /\ ok \in [Proc -> BOOLEAN]
  BY DEF Typing, TypeOK, FetchTypeOK
<1>1. CASE \/ UNCHANGED vars
           \/ \E c \in Client : ClientNext(c)
           \/ Dispatch \/ CancelClear \/ CancelReset
  <2>1. UNCHANGED <<pc, sha, ok, index>>
    BY <1>1
    DEF vars, fetchVars, storeVars, ClientNext, Enqueue, EnqueueAndWait,
        CountTotals, Return, HangUp, Dispatch, CancelClear, CancelReset
  <2>2. QED
    BY <2>1 DEF Landed
<1>2. ASSUME NEW p \in Proc,
             \/ p \in Worker /\ WorkerNext(p)
             \/ p \in Reader /\ ReaderNext(p)
             \/ Advance(p)
      PROVE  Landed'
  <2>1. \A q \in Proc \ {p} : pc'[q] = pc[q] /\ sha'[q] = sha[q] /\ ok'[q] = ok[q]
    BY <1>2, OthersLocals DEF TaskStep
  <2>2. index \subseteq index'
    BY <1>2
    DEF storeVars, WorkerNext, ReaderNext, Advance, Spawn, Skip, Proceed,
        ReadStart, DropRead, DropLeader, CloseChan, DiskHit, DiskMiss, Lead,
        CountImplicit, Follow, CdnAnswer, Settle, SettleNothing, Mark, Record,
        Notify, Release, Publish, Hear, Retry, Write
  <2>3. pc'[p] \in {"record", "notify"} /\ ok'[p] => sha'[p] \in index'
    <3>1. CASE Mark(p)
      BY <1>0, <3>1 DEF Mark
    <3>2. CASE Record(p)
      BY <1>0, <2>2, <3>2 DEF Record, Landed
    <3>3. CASE Settle(p) \/ \E good \in BOOLEAN : CdnAnswer(p, good)
      BY <1>0, <3>3 DEF Settle, CdnAnswer
    <3>4. CASE ~ (Mark(p) \/ Record(p) \/ Settle(p)
                  \/ \E good \in BOOLEAN : CdnAnswer(p, good))
      BY <1>0, <1>2, <3>4
      DEF WorkerNext, ReaderNext, Advance, Spawn, Skip, Proceed, ReadStart,
          DropRead, DropLeader, CloseChan, DiskHit, DiskMiss, Lead,
          CountImplicit, Follow, SettleNothing, Notify, Release, Publish, Hear,
          Retry, Write, Finish, AfterSettle, Returned
    <3>5. QED
      BY <3>1, <3>2, <3>3, <3>4
  <2>4. QED
    BY <2>1, <2>2, <2>3 DEF Landed
<1>3. QED
  BY <1>1, <1>2 DEF Next, Proc

-----------------------------------------------------------------------------
(* The state of the contract, as the INSTANCE in ChunkService maps it.      *)

Fetching == {s \in Sha : \E p \in Proc : pc[p] = "fetch" /\ sha[p] = s}
Failing  == {s \in Sha : \E p \in Proc :
                            pc[p] = "notify" /\ ~ok[p] /\ sha[p] = s}
Busy     == {c \in Client : cpc[c] # "idle"}

Facts == Typing /\ FlightInv /\ SingleFlight /\ Landed /\ IdleOwesNothing

\* A step of a task that neither ends nor begins a fetch or a notification.
LEMMA QuietTask ==
    ASSUME NEW p \in Proc,
           \A q \in Proc \ {p} : pc'[q] = pc[q] /\ sha'[q] = sha[q]
                                                /\ ok'[q] = ok[q],
           pc[p] \notin {"fetch", "notify"}, pc'[p] \notin {"fetch", "notify"}
    PROVE  Fetching' = Fetching /\ Failing' = Failing
BY DEF Fetching, Failing

\* What no step of a task but Mark and Notify touches.
LEMMA CallersUntouched ==
    ASSUME NEW p \in Proc,
           \/ p \in Worker /\ WorkerNext(p)
           \/ p \in Reader /\ ReaderNext(p)
           \/ Advance(p)
    PROVE  /\ Busy' = Busy /\ cancelling' = cancelling
           /\ Mark(p) \/ index' = index
           /\ Notify(p) \/ waiting' = waiting
BY DEF Busy, clientVars, storeVars, WorkerNext, ReaderNext, Advance, Spawn,
       Skip, Proceed, ReadStart, DropRead, DropLeader, CloseChan, DiskHit,
       DiskMiss, Lead, CountImplicit, Follow, CdnAnswer, Settle,
       SettleNothing, Mark, Record, Notify, Release, Publish, Hear, Retry,
       Write

\* Nothing the contract speaks of changes.
Stutter == /\ Fetching' = Fetching /\ Failing' = Failing /\ Busy' = Busy
           /\ UNCHANGED <<index, waiting, cancelling>>

LEMMA StutterAllowed == Stutter => [Contract!Next]_Contract!vars
BY DEF Stutter, Fetching, Failing, Busy, Contract!vars

LEMMA ContractInit == Init => Contract!Init
BY DEF Init, Contract!Init, Proc

LEMMA ContractClient ==
    ASSUME Facts, NEW c \in Client, ClientNext(c)
    PROVE  [Contract!Next]_Contract!vars
<1>0. /\ cpc \in [Client -> {"idle", "count", "wait"}]
      /\ waiting \in [Client -> SUBSET Sha]
      /\ cpc[c] = "idle" => waiting[c] = {}
  BY DEF Facts, Typing, TypeOK, ClientTypeOK, IdleOwesNothing
<1>1. Fetching' = Fetching /\ Failing' = Failing
  <2>1. UNCHANGED <<pc, sha, ok>>
    BY DEF fetchVars, ClientNext, Enqueue, EnqueueAndWait, CountTotals, Return,
           HangUp
  <2>2. QED
    BY <2>1 DEF Fetching, Failing
<1>2. UNCHANGED <<index, cancelling>>
  BY DEF storeVars, ClientNext, Enqueue, EnqueueAndWait, CountTotals, Return,
         HangUp
<1>3. ASSUME NEW S \in SUBSET Sha, Enqueue(c, S)
      PROVE  [Contract!Next]_Contract!vars
  <2>1. cpc[c] = "idle" /\ UNCHANGED waiting
    BY <1>3 DEF Enqueue
  <2>2. CASE cpc'[c] = "idle"
    <3>1. Stutter
      BY <1>0, <1>1, <1>2, <1>3, <2>1, <2>2 DEF Stutter, Busy, Enqueue
    <3>2. QED
      BY <3>1, StutterAllowed
  <2>3. CASE cpc'[c] # "idle"
    <3>1. c \notin Busy /\ Busy' = Busy \cup {c}
      BY <1>0, <1>3, <2>1, <2>3 DEF Busy, Enqueue
    <3>2. waiting' = [waiting EXCEPT ![c] = {} \ index]
      BY <1>0, <2>1
    <3>3. Contract!Ask(c)
      BY <1>1, <1>2, <3>1, <3>2 DEF Contract!Ask, Fetching, Failing, Busy
    <3>4. QED
      BY <3>3 DEF Contract!Next
  <2>4. QED
    BY <2>2, <2>3
<1>4. ASSUME NEW S \in SUBSET Sha, EnqueueAndWait(c, S)
      PROVE  [Contract!Next]_Contract!vars
  <2>1. c \notin Busy /\ Busy' = Busy \cup {c}
    BY <1>0, <1>4 DEF Busy, EnqueueAndWait
  <2>2. waiting' = [waiting EXCEPT ![c] = S \ index]
    BY <1>4 DEF EnqueueAndWait
  <2>3. Contract!Ask(c)
    BY <1>1, <1>2, <2>1, <2>2 DEF Contract!Ask, Fetching, Failing, Busy
  <2>4. QED
    BY <2>3 DEF Contract!Next
<1>5. CASE CountTotals(c)
  <2>1. Stutter
    BY <1>0, <1>1, <1>2, <1>5 DEF Stutter, Busy, CountTotals
  <2>2. QED
    BY <2>1, StutterAllowed
<1>6. CASE Return(c)
  <2>1. c \in Busy /\ Busy' = Busy \ {c} /\ waiting[c] = {} /\ waiting' = waiting
    BY <1>0, <1>6 DEF Busy, Return
  <2>2. Contract!Return(c)
    BY <1>1, <1>2, <2>1 DEF Contract!Return, Fetching, Failing, Busy
  <2>3. QED
    BY <2>2 DEF Contract!Next
<1>7. CASE HangUp(c)
  <2>1. c \in Busy /\ Busy' = Busy \ {c}
        /\ waiting' = [waiting EXCEPT ![c] = {}]
    BY <1>0, <1>7 DEF Busy, HangUp
  <2>2. Contract!HangUp(c)
    BY <1>1, <1>2, <2>1 DEF Contract!HangUp, Fetching, Failing, Busy
  <2>3. QED
    BY <2>2 DEF Contract!Next
<1>8. QED
  BY <1>3, <1>4, <1>5, <1>6, <1>7 DEF ClientNext

\* A CDN request begins: nobody else has one for this chunk.
LEMMA ContractBegin ==
    ASSUME Facts, NEW p \in Proc, Lead(p) \/ CountImplicit(p)
    PROVE  [Contract!Next]_Contract!vars
<1>0. Typing /\ FlightInv
  BY DEF Facts
<1>1. /\ pc[p] \in {"flight", "total"} /\ sha[p] \in Sha /\ pc'[p] \in {"total", "fetch"}
      /\ sha' = sha /\ ok' = ok
  BY <1>0, FlightFacts DEF Lead, CountImplicit, TaskPCs
<1>2. /\ Busy' = Busy /\ UNCHANGED <<index, waiting, cancelling>>
      /\ \A q \in Proc \ {p} : pc'[q] = pc[q]
  BY <1>0, FlightFacts
  DEF Busy, storeVars, clientVars, Lead, CountImplicit
<1>3. CASE pc'[p] = "total"
  <2>1. Stutter
    BY <1>1, <1>2, <1>3, QuietTask DEF Stutter
  <2>2. QED
    BY <2>1, StutterAllowed
<1>4. CASE pc'[p] = "fetch"
  <2>1. sha[p] \notin Fetching
    <3> SUFFICES ASSUME NEW q \in Proc, pc[q] = "fetch", sha[q] = sha[p]
                 PROVE  FALSE
      BY DEF Fetching
    <3>1. Holding(q)
      BY <1>0, FlightFacts DEF FlightInv, Holding, Leading
    <3>2. inflight[sha[p]] = on[q] /\ on[q] \in Chan
      BY <1>0, <3>1 DEF FlightInv
    <3>3. CASE pc[p] = "flight"
      BY <1>0, <3>2, <3>3, FlightFacts DEF Lead, CountImplicit
    <3>4. CASE pc[p] = "total"
      <4>1. Holding(p)
        BY <1>0, <3>4, FlightFacts DEF FlightInv, Holding, Leading
      <4>2. on[p] = on[q]
        BY <1>0, <3>2, <4>1 DEF FlightInv
      <4>3. QED
        BY <1>0, <3>1, <3>4, <4>1, <4>2 DEF FlightInv, Holding
    <3>5. QED
      BY <1>1, <3>3, <3>4
  <2>2. Fetching' = Fetching \cup {sha[p]} /\ Failing' = Failing
    BY <1>1, <1>2, <1>4 DEF Fetching, Failing
  <2>3. PICK s \in Sha : s = sha[p]
    BY <1>1
  <2>4. Contract!BeginFetch(s)
    BY <1>2, <2>1, <2>2, <2>3
    DEF Contract!BeginFetch, Fetching, Failing, Busy
  <2>5. QED
    BY <2>4 DEF Contract!Next
<1>5. QED
  BY <1>1, <1>3, <1>4

\* A CDN request ends with an answer or is dropped.
LEMMA ContractEnd ==
    ASSUME Facts, NEW p \in Proc,
           DropLeader(p) \/ \E good \in BOOLEAN : CdnAnswer(p, good)
    PROVE  [Contract!Next]_Contract!vars
<1>0. Typing /\ SingleFlight
  BY DEF Facts
<1>1. /\ pc[p] = "fetch" /\ sha[p] \in Sha
      /\ pc'[p] \notin {"fetch", "notify"} /\ sha' = sha
      /\ \A q \in Proc \ {p} : pc'[q] = pc[q] /\ ok'[q] = ok[q]
  BY <1>0, FlightFacts DEF DropLeader, CdnAnswer, Typing, TypeOK, FetchTypeOK
<1>2. Busy' = Busy /\ UNCHANGED <<index, waiting, cancelling>>
  BY DEF Busy, storeVars, clientVars, DropLeader, CdnAnswer
<1>3. \A q \in Proc \ {p} : ~(pc[q] = "fetch" /\ sha[q] = sha[p])
  BY <1>0, <1>1 DEF SingleFlight
<1>4. /\ sha[p] \in Fetching /\ Fetching' = Fetching \ {sha[p]}
      /\ Failing' = Failing
  BY <1>1, <1>3 DEF Fetching, Failing
<1>5. PICK s \in Sha : s = sha[p]
  BY <1>1
<1>6. Contract!EndFetch(s)
  BY <1>2, <1>4, <1>5 DEF Contract!EndFetch, Fetching, Failing, Busy
<1>7. QED
  BY <1>6 DEF Contract!Next

\* A chunk lands, a failure is announced, and whoever waits is told.
LEMMA ContractSettle ==
    ASSUME Facts, NEW p \in Proc, Mark(p) \/ Record(p) \/ Notify(p)
    PROVE  [Contract!Next]_Contract!vars
<1>0. Typing /\ Landed
  BY DEF Facts
<1>1. /\ pc[p] \in {"mark", "record", "notify"} /\ sha[p] \in Sha
      /\ \A q \in Proc \ {p} : pc'[q] = pc[q] /\ ok'[q] = ok[q]
                                              /\ sha'[q] = sha[q]
      /\ Busy' = Busy /\ cancelling' = cancelling
  BY <1>0, FlightFacts, OthersLocals, CallersUntouched
  DEF Mark, Record, Notify, Advance, TaskStep
<1>s. PICK s \in Sha : s = sha[p]
  BY <1>1
<1>2. CASE Mark(p)
  <2>1. Fetching' = Fetching /\ Failing' = Failing /\ waiting' = waiting
        /\ index' = index \cup {sha[p]}
    BY <1>0, <1>1, <1>2, FlightFacts, QuietTask DEF Mark, clientVars
  <2>2. Contract!Land(s)
    BY <1>1, <1>s, <2>1 DEF Contract!Land, Fetching, Failing, Busy
  <2>3. QED
    BY <2>2 DEF Contract!Next
<1>3. CASE Record(p)
  <2>1. UNCHANGED <<index, waiting, sha, ok>> /\ pc[p] = "record"
        /\ pc'[p] \in {"release", "notify"}
    BY <1>0, <1>3, FlightFacts DEF Record, storeVars, clientVars
  <2>2. Fetching' = Fetching
    BY <1>1, <2>1 DEF Fetching
  <2>3. CASE pc'[p] = "notify" /\ ~ok[p]
    <3>1. Failing' = Failing \cup {sha[p]}
      BY <1>1, <2>1, <2>3 DEF Failing
    <3>2. Contract!Fail(s)
      BY <1>1, <1>s, <2>1, <2>2, <3>1
      DEF Contract!Fail, Fetching, Failing, Busy
    <3>3. QED
      BY <3>2 DEF Contract!Next
  <2>4. CASE ~(pc'[p] = "notify" /\ ~ok[p])
    <3>1. Failing' = Failing
      BY <1>1, <2>1, <2>4 DEF Failing
    <3>2. Stutter
      BY <1>1, <2>1, <2>2, <3>1 DEF Stutter
    <3>3. QED
      BY <3>2, StutterAllowed
  <2>5. QED
    BY <2>3, <2>4
<1>4. CASE Notify(p)
  <2>1. pc[p] = "notify" /\ pc'[p] \in {"release", "idle"} /\ UNCHANGED index
    BY <1>0, <1>4, FlightFacts DEF Notify, AfterSettle, Finish, storeVars
  <2>2. Fetching' = Fetching
    BY <1>1, <2>1 DEF Fetching
  <2>3. sha[p] \in index \cup Failing
    <3>1. CASE ok[p]
      BY <1>0, <2>1, <3>1 DEF Landed
    <3>2. CASE ~ok[p]
      BY <1>1, <2>1, <3>2 DEF Failing
    <3>3. QED
      BY <3>1, <3>2
  <2>4. Failing' \in {Failing, Failing \ {sha[p]}}
    <3>1. \A t \in Sha \ {sha[p]} : t \in Failing' <=> t \in Failing
      BY <1>1, <2>1 DEF Failing
    <3>2. sha[p] \in Failing' => sha[p] \in Failing
      BY <1>1, <2>1 DEF Failing
    <3>3. QED
      BY <3>1, <3>2 DEF Failing
  <2>5. /\ waiting' = [c \in Client |-> IF c \in taken[p]
                                        THEN waiting[c] \ {sha[p]}
                                        ELSE waiting[c]]
        /\ taken[p] \in SUBSET Client
    BY <1>0, <1>4 DEF Notify, Typing, TypeOK, FetchTypeOK
  <2>6. PICK D \in SUBSET Client : D = taken[p]
    BY <2>5
  <2>7. Contract!Answer(s, D)
    BY <1>1, <1>s, <2>1, <2>2, <2>3, <2>4, <2>5, <2>6
    DEF Contract!Answer, Fetching, Failing, Busy
  <2>8. QED
    BY <2>7 DEF Contract!Next
<1>5. QED
  BY <1>2, <1>3, <1>4

\* Every other step of a task is invisible to the contract.
LEMMA ContractQuiet ==
    ASSUME Facts, NEW p \in Proc,
           \/ p \in Worker /\ WorkerNext(p)
           \/ p \in Reader /\ ReaderNext(p) /\ ~DropLeader(p)
           \/ /\ Advance(p)
              /\ ~(Lead(p) \/ CountImplicit(p) \/ Mark(p) \/ Record(p)
                   \/ Notify(p) \/ \E good \in BOOLEAN : CdnAnswer(p, good))
    PROVE  [Contract!Next]_Contract!vars
<1>0. Typing
  BY DEF Facts
<1>1. \A q \in Proc \ {p} : pc'[q] = pc[q] /\ sha'[q] = sha[q] /\ ok'[q] = ok[q]
  BY <1>0, OthersLocals DEF TaskStep
<1>2. Busy' = Busy /\ UNCHANGED <<index, waiting, cancelling>>
  BY CallersUntouched
  DEF WorkerNext, ReaderNext, Spawn, Skip, Proceed, ReadStart, DropRead,
      CloseChan, storeVars, clientVars
<1>3. pc[p] \notin {"fetch", "notify"} \/ DropRead(p)
  BY DEF WorkerNext, ReaderNext, Advance, Spawn, Skip, Proceed, ReadStart,
         CloseChan, DiskHit, DiskMiss, Follow, Settle, SettleNothing, Release,
         Publish, Hear, Retry, Write
<1>4. pc'[p] \notin {"fetch", "notify"}
  BY <1>0, FlightFacts
  DEF WorkerNext, ReaderNext, Advance, Spawn, Skip, Proceed, ReadStart,
      DropRead, CloseChan, DiskHit, DiskMiss, Follow, Settle, SettleNothing,
      Release, Publish, Hear, Retry, Write, Finish, AfterSettle, Returned
<1>5. DropRead(p) => pc[p] # "fetch" /\ pc[p] # "notify"
  BY DEF DropRead
<1>6. Stutter
  BY <1>1, <1>2, <1>3, <1>4, <1>5, QuietTask DEF Stutter
<1>7. QED
  BY <1>6, StutterAllowed

LEMMA ContractQueue ==
    ASSUME Facts, UNCHANGED vars \/ Dispatch \/ CancelClear \/ CancelReset
    PROVE  [Contract!Next]_Contract!vars
<1>1. /\ Fetching' = Fetching /\ Failing' = Failing /\ Busy' = Busy
      /\ UNCHANGED index
  BY DEF Fetching, Failing, Busy, vars, fetchVars, storeVars, clientVars,
         Dispatch, CancelClear, CancelReset
<1>2. CASE UNCHANGED vars \/ Dispatch
  <2>1. Stutter
    BY <1>1, <1>2 DEF Stutter, vars, clientVars, Dispatch
  <2>2. QED
    BY <2>1, StutterAllowed
<1>3. CASE CancelClear
  <2>1. waiting \in [Client -> SUBSET Sha]
    BY DEF Facts, Typing, TypeOK, ClientTypeOK
  <2>2. /\ waiting' \in [Client -> SUBSET Sha]
        /\ \A c \in Client : waiting'[c] \subseteq waiting[c]
    BY <1>3, <2>1 DEF CancelClear
  <2>3. ~cancelling /\ cancelling' = TRUE
    BY <1>3 DEF CancelClear
  <2>4. Contract!Cancel
    BY <1>1, <2>2, <2>3 DEF Contract!Cancel, Fetching, Failing, Busy
  <2>5. QED
    BY <2>4 DEF Contract!Next
<1>4. CASE CancelReset
  <2>1. Contract!CancelDone
    BY <1>1, <1>4
    DEF Contract!CancelDone, CancelReset, Fetching, Failing, Busy, clientVars
  <2>2. QED
    BY <2>1 DEF Contract!Next
<1>5. QED
  BY <1>2, <1>3, <1>4

LEMMA ContractStep == Facts /\ [Next]_vars => [Contract!Next]_Contract!vars
<1> SUFFICES ASSUME Facts, [Next]_vars PROVE [Contract!Next]_Contract!vars
  OBVIOUS
<1>1. ASSUME NEW c \in Client, ClientNext(c)
      PROVE  [Contract!Next]_Contract!vars
  BY <1>1, ContractClient
<1>2. ASSUME NEW w \in Worker, WorkerNext(w)
      PROVE  [Contract!Next]_Contract!vars
  BY <1>2, ContractQuiet DEF Proc
<1>3. ASSUME NEW r \in Reader, ReaderNext(r)
      PROVE  [Contract!Next]_Contract!vars
  BY <1>3, ContractQuiet, ContractEnd DEF Proc
<1>4. ASSUME NEW p \in Proc, Advance(p)
      PROVE  [Contract!Next]_Contract!vars
  BY <1>4, ContractQuiet, ContractBegin, ContractEnd, ContractSettle
<1>5. CASE UNCHANGED vars \/ Dispatch \/ CancelClear \/ CancelReset
  BY <1>5, ContractQueue
<1>6. QED
  BY <1>1, <1>2, <1>3, <1>4, <1>5 DEF Next

\* The chunk service keeps its contract, for any number of clients, workers
\* and readers, with any reads dropped and any cancel in between.
THEOREM ServiceKeepsContract == Spec => ImplementsContract
<1>1. Init => Landed
  BY DEF Init, Landed, Proc
<1>2. Spec => []Landed
  BY <1>1, TypingAlways, LandedStep, PTL DEF Spec
<1>3. Spec => []IdleOwesNothing
  BY WaiterAlways, PTL DEF WaiterInv
<1>4. Spec => []Facts
  BY <1>2, <1>3, TypingAlways, FlightAlways, FetchesApart, PTL DEF Facts
<1>5. Spec => Contract!Init /\ [][Contract!Next]_Contract!vars
  BY <1>4, ContractInit, ContractStep, PTL DEF Spec
<1>6. QED
  BY <1>5 DEF ImplementsContract, Contract!Spec
=============================================================================
