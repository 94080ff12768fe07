---------------------------- MODULE ChunkService ----------------------------
(***************************************************************************)
(* The central chunk service (backend/src/state/downloads.rs) together     *)
(* with the store stack it sits in.  Every task that wants a chunk goes    *)
(* through                                                                 *)
(*                                                                         *)
(*     FsCacheStore  ->  TrackedChunkStore (fetch_via)  ->  CDN            *)
(*                                                                         *)
(* so a disk hit never reaches fetch_via, and a fetched chunk is written   *)
(* to disk only after fetch_via has returned.                              *)
(*                                                                         *)
(* Processes: API clients that enqueue (and may wait), the dispatcher that *)
(* drains the two lanes, one worker task per permit of the semaphore, and  *)
(* readers whose chunk reads were never enqueued (mount, rabex, history).  *)
(* A step is what runs between two lock or await points.                   *)
(***************************************************************************)
EXTENDS Naturals, Sequences, FiniteSets

CONSTANTS
    Sha,         \* chunk hashes
    Client,      \* API handlers calling enqueue / enqueue_and_wait
    Worker,      \* one per permit: at most `parallelism` worker tasks run
    Reader,      \* tasks reading chunks that nobody enqueued for them
    Chan,        \* identities of watch channels (same_channel compares them)
    NoSha, NoChan,
    MaxCalls,    \* bound: enqueue calls
    MaxReads,    \* bound: implicit reads
    MaxCancels,  \* bound: cancel calls
    MaxDrops     \* bound: reads and waits dropped in the middle

ASSUME ConstantsAssumption ==
    /\ NoSha \notin Sha
    /\ NoChan \notin Chan
    /\ Worker \cap Reader = {}
    /\ IsFiniteSet(Sha)
    /\ {MaxCalls, MaxReads, MaxCancels, MaxDrops} \subseteq Nat

VARIABLES
    disk,         \* chunks FsCacheStore holds
    index,        \* StoreIndex.chunks_present
    pending,      \* keys of ChunkService.pending
    waiters,      \* the oneshot senders of each pending entry
    interactive,  \* the two job lanes
    bulk,
    held,         \* job the dispatcher took and waits to get a permit for
    inflight,     \* single-flight map: the channel of the running fetch
    chan,         \* what a watch channel shows its receivers
    pc, sha, on, queued, ok, taken,    \* locals of workers and readers
    cpc, waiting, tally,               \* locals of clients
    stats,
    cancelling,   \* cancel has cleared the queue, not yet the counters
    used          \* history: calls of each bounded kind so far

fetchVars  == <<pc, sha, on, queued, ok, taken>>
queueVars  == <<pending, waiters, interactive, bulk, held>>
flightVars == <<inflight, chan>>
storeVars  == <<disk, index>>
clientVars == <<cpc, waiting, tally>>
vars == <<fetchVars, queueVars, flightVars, storeVars, clientVars,
          stats, cancelling, used>>

Proc == Worker \cup Reader

Init ==
    /\ disk \in SUBSET Sha
    /\ index = disk
    /\ pending = {}
    /\ waiters = [s \in Sha |-> {}]
    /\ interactive = <<>>
    /\ bulk = <<>>
    /\ held = NoSha
    /\ inflight = [s \in Sha |-> NoChan]
    /\ chan = [h \in Chan |-> "open"]
    /\ pc = [p \in Proc |-> "idle"]
    /\ sha = [p \in Proc |-> NoSha]
    /\ on = [p \in Proc |-> NoChan]
    /\ queued = [p \in Proc |-> FALSE]
    /\ ok = [p \in Proc |-> FALSE]
    /\ taken = [p \in Proc |-> {}]
    /\ cpc = [c \in Client |-> "idle"]
    /\ waiting = [c \in Client |-> {}]
    /\ tally = [c \in Client |-> 0]
    /\ stats = [total |-> 0, completed |-> 0, failed |-> 0]
    /\ cancelling = FALSE
    /\ used = [calls |-> 0, reads |-> 0, cancels |-> 0, drops |-> 0]

-----------------------------------------------------------------------------
(* enqueue_internal: one critical section over the pending map and the     *)
(* index, then the totals in a second one.                                 *)

\* The orders in which the chunks of a request can be sent to a lane.
Orders(S) == {q \in [1..Cardinality(S) -> S] : {q[i] : i \in DOMAIN q} = S}

\* Mutant: a chunk that is queued already is counted once more.
FreshRecounted(S) == S \ index

\* Chunks of a request that get a pending entry and enter the totals.
Fresh(S) == (S \ index) \ pending

\* Mutant: only the arm that inserts an entry registers a waiter.
WithWaiterIfVacant(c, S) ==
    [s \in Sha |-> IF s \in Fresh(S) THEN waiters[s] \cup {c} ELSE waiters[s]]

\* Every missing chunk gets a sender for c, also one that is queued already.
WithWaiter(c, S) ==
    [s \in Sha |-> IF s \in S \ index THEN waiters[s] \cup {c} ELSE waiters[s]]

\* Bulk: chunks on disk or already queued are skipped, nobody waits.
Enqueue(c, S) ==
    LET fresh == Fresh(S)
    IN  /\ cpc[c] = "idle"
        /\ used.calls < MaxCalls
        /\ used' = [used EXCEPT !.calls = @ + 1]
        /\ pending' = pending \cup fresh
        /\ \E q \in Orders(fresh) : bulk' = bulk \o q
        /\ tally' = [tally EXCEPT ![c] = Cardinality(fresh)]
        /\ cpc' = [cpc EXCEPT ![c] = IF fresh = {} THEN "idle" ELSE "count"]
        /\ UNCHANGED <<waiters, interactive, held, waiting, fetchVars,
                       flightVars, storeVars, stats, cancelling>>

\* Interactive: a chunk already queued is not counted again, but it gets
\* another waiter and is re-submitted on the lane that overtakes bulk work.
EnqueueAndWait(c, S) ==
    LET missing == S \ index
        fresh   == Fresh(S)
    IN  /\ cpc[c] = "idle"
        /\ used.calls < MaxCalls
        /\ used' = [used EXCEPT !.calls = @ + 1]
        /\ pending' = pending \cup fresh
        /\ waiters' = WithWaiter(c, S)
        /\ \E q \in Orders(missing) : interactive' = interactive \o q
        /\ waiting' = [waiting EXCEPT ![c] = missing]
        /\ tally' = [tally EXCEPT ![c] = Cardinality(fresh)]
        /\ cpc' = [cpc EXCEPT ![c] = IF fresh = {} THEN "wait" ELSE "count"]
        /\ UNCHANGED <<bulk, held, fetchVars, flightVars, storeVars, stats,
                       cancelling>>

\* Mutant: the totals move the wrong way.
CountTotalsBackwards(c) ==
    /\ cpc[c] = "count"
    /\ stats' = [stats EXCEPT !.total = @ - tally[c]]
    /\ tally' = [tally EXCEPT ![c] = 0]
    /\ cpc' = [cpc EXCEPT ![c] = "wait"]
    /\ UNCHANGED <<waiting, queueVars, fetchVars, flightVars, storeVars,
                   cancelling, used>>

\* The totals are added after the pending lock is gone.
CountTotals(c) ==
    /\ cpc[c] = "count"
    /\ stats' = [stats EXCEPT !.total = @ + tally[c]]
    /\ tally' = [tally EXCEPT ![c] = 0]
    /\ cpc' = [cpc EXCEPT ![c] = "wait"]
    /\ UNCHANGED <<waiting, queueVars, fetchVars, flightVars, storeVars,
                   cancelling, used>>

\* Every receiver resolved (a bulk call has none).
Return(c) ==
    /\ cpc[c] = "wait"
    /\ waiting[c] = {}
    /\ cpc' = [cpc EXCEPT ![c] = "idle"]
    /\ UNCHANGED <<waiting, tally, queueVars, fetchVars, flightVars,
                   storeVars, stats, cancelling, used>>

-----------------------------------------------------------------------------
(* The dispatcher loop: take a job, interactive first, then wait for a     *)
(* permit; and the worker task it spawns.                                  *)

Dispatch ==
    /\ held = NoSha
    /\ \/ /\ interactive # <<>>
          /\ held' = Head(interactive)
          /\ interactive' = Tail(interactive)
          /\ UNCHANGED bulk
       \/ /\ interactive = <<>>
          /\ bulk # <<>>
          /\ held' = Head(bulk)
          /\ bulk' = Tail(bulk)
          /\ UNCHANGED interactive
    /\ UNCHANGED <<pending, waiters, fetchVars, flightVars, storeVars,
                   clientVars, stats, cancelling, used>>

Spawn(w) ==
    /\ held # NoSha
    /\ pc[w] = "idle"
    /\ pc' = [pc EXCEPT ![w] = "check"]
    /\ sha' = [sha EXCEPT ![w] = held]
    /\ held' = NoSha
    /\ UNCHANGED <<on, queued, ok, taken, pending, waiters, interactive, bulk,
                   flightVars, storeVars, clientVars, stats, cancelling, used>>

\* A task ends: a worker gives its permit back, a reader returns.
Finish(p) ==
    /\ pc' = [pc EXCEPT ![p] = "idle"]
    /\ sha' = [sha EXCEPT ![p] = NoSha]
    /\ on' = [on EXCEPT ![p] = NoChan]
    /\ queued' = [queued EXCEPT ![p] = FALSE]
    /\ ok' = [ok EXCEPT ![p] = FALSE]
    /\ taken' = [taken EXCEPT ![p] = {}]

\* Settled in the meantime or cancelled: skip.
Skip(w) ==
    /\ pc[w] = "check"
    /\ sha[w] \notin pending
    /\ Finish(w)
    /\ UNCHANGED <<queueVars, flightVars, storeVars, clientVars, stats,
                   cancelling, used>>

Proceed(w) ==
    /\ pc[w] = "check"
    /\ sha[w] \in pending
    /\ pc' = [pc EXCEPT ![w] = "disk"]
    /\ UNCHANGED <<sha, on, queued, ok, taken, queueVars, flightVars,
                   storeVars, clientVars, stats, cancelling, used>>

ReadStart(r, s) ==
    /\ pc[r] = "idle"
    /\ used.reads < MaxReads
    /\ used' = [used EXCEPT !.reads = @ + 1]
    /\ pc' = [pc EXCEPT ![r] = "disk"]
    /\ sha' = [sha EXCEPT ![r] = s]
    /\ UNCHANGED <<on, queued, ok, taken, queueVars, flightVars, storeVars,
                   clientVars, stats, cancelling>>

-----------------------------------------------------------------------------
(* One read through the store stack.  FsCacheStore answers from disk; only  *)
(* a miss reaches TrackedChunkStore and with it fetch_via.                  *)

\* Mutant: what is on disk already needs no settle.
DiskHitUnsettled(p) ==
    /\ pc[p] = "disk"
    /\ sha[p] \in disk
    /\ Finish(p)
    /\ UNCHANGED <<queueVars, flightVars, storeVars, clientVars, stats,
                   cancelling, used>>

\* A worker settles a chunk it finds on disk, a reader just returns it.
DiskHit(p) ==
    /\ pc[p] = "disk"
    /\ sha[p] \in disk
    /\ IF p \in Worker
       THEN /\ pc' = [pc EXCEPT ![p] = "settle"]
            /\ ok' = [ok EXCEPT ![p] = TRUE]
            /\ UNCHANGED <<sha, on, queued, taken>>
       ELSE Finish(p)
    /\ UNCHANGED <<queueVars, flightVars, storeVars, clientVars, stats,
                   cancelling, used>>

DiskMiss(p) ==
    /\ pc[p] = "disk"
    /\ sha[p] \notin disk
    /\ pc' = [pc EXCEPT ![p] = "flight"]
    /\ UNCHANGED <<sha, on, queued, ok, taken, queueVars, flightVars,
                   storeVars, clientVars, stats, cancelling, used>>

\* A channel no task holds an end of, and the map does not hold either.
FreeChan == {h \in Chan : /\ \A q \in Proc : on[q] # h
                          /\ \A s \in Sha : inflight[s] # h}

\* Nobody fetches this chunk: become its leader.  Whether the chunk is
\* queued (its total was counted at enqueue) is read once, here.
Lead(p) ==
    /\ pc[p] = "flight"
    /\ inflight[sha[p]] = NoChan
    /\ \E h \in FreeChan :
          /\ inflight' = [inflight EXCEPT ![sha[p]] = h]
          /\ chan' = [chan EXCEPT ![h] = "open"]
          /\ on' = [on EXCEPT ![p] = h]
    /\ queued' = [queued EXCEPT ![p] = sha[p] \in pending]
    /\ pc' = [pc EXCEPT ![p] = IF sha[p] \in pending THEN "fetch" ELSE "total"]
    /\ UNCHANGED <<sha, ok, taken, queueVars, storeVars, clientVars, stats,
                   cancelling, used>>

\* An implicit read enters the totals when its fetch begins.
CountImplicit(p) ==
    /\ pc[p] = "total"
    /\ stats' = [stats EXCEPT !.total = @ + 1]
    /\ pc' = [pc EXCEPT ![p] = "fetch"]
    /\ UNCHANGED <<sha, on, queued, ok, taken, queueVars, flightVars,
                   storeVars, clientVars, cancelling, used>>

\* Somebody does: share that fetch.
Follow(p) ==
    /\ pc[p] = "flight"
    /\ inflight[sha[p]] # NoChan
    /\ on' = [on EXCEPT ![p] = inflight[sha[p]]]
    /\ pc' = [pc EXCEPT ![p] = "follow"]
    /\ UNCHANGED <<sha, queued, ok, taken, queueVars, flightVars, storeVars,
                   clientVars, stats, cancelling, used>>

\* The CDN answers the leader with the chunk or with an error.
CdnAnswer(p, good) ==
    /\ pc[p] = "fetch"
    /\ ok' = [ok EXCEPT ![p] = good]
    /\ pc' = [pc EXCEPT ![p] = IF queued[p] THEN "settle"
                               ELSE IF good THEN "mark" ELSE "record"]
    /\ UNCHANGED <<sha, on, queued, taken, queueVars, flightVars, storeVars,
                   clientVars, stats, cancelling, used>>

-----------------------------------------------------------------------------
(* settle, and the same two bookkeeping steps done by an implicit leader.   *)

\* A process is the leader of a running fetch while it holds its channel.
Implicit(p) == on[p] # NoChan /\ ~queued[p]

\* The leader goes on to release its fetch; the worker's fallback is over.
AfterSettle(p) ==
    IF on[p] # NoChan
    THEN /\ pc' = [pc EXCEPT ![p] = "release"]
         /\ taken' = [taken EXCEPT ![p] = {}]
         /\ UNCHANGED <<sha, on, queued, ok>>
    ELSE Finish(p)

\* Mutant: the index is left to somebody else.
AfterTakeUnmarked(p) == "record"

\* The index is marked inline, before anybody is told.
AfterTake(p) == IF ok[p] THEN "mark" ELSE "record"

\* Take the pending entry out, with its waiters.
Settle(p) ==
    /\ pc[p] = "settle"
    /\ sha[p] \in pending
    /\ pending' = pending \ {sha[p]}
    /\ taken' = [taken EXCEPT ![p] = waiters[sha[p]]]
    /\ waiters' = [waiters EXCEPT ![sha[p]] = {}]
    /\ pc' = [pc EXCEPT ![p] = AfterTake(p)]
    /\ UNCHANGED <<sha, on, queued, ok, interactive, bulk, held, flightVars,
                   storeVars, clientVars, stats, cancelling, used>>

\* Already settled or cancelled: no-op.
SettleNothing(p) ==
    /\ pc[p] = "settle"
    /\ sha[p] \notin pending
    /\ AfterSettle(p)
    /\ UNCHANGED <<queueVars, flightVars, storeVars, clientVars, stats,
                   cancelling, used>>

\* mark_chunk_present
Mark(p) ==
    /\ pc[p] = "mark"
    /\ index' = index \cup {sha[p]}
    /\ pc' = [pc EXCEPT ![p] = "record"]
    /\ UNCHANGED <<sha, on, queued, ok, taken, disk, queueVars, flightVars,
                   clientVars, stats, cancelling, used>>

\* The one place where completions and failures are counted.
Record(p) ==
    /\ pc[p] = "record"
    /\ stats' = IF ok[p] THEN [stats EXCEPT !.completed = @ + 1]
                         ELSE [stats EXCEPT !.failed = @ + 1]
    /\ pc' = [pc EXCEPT ![p] = IF Implicit(p) THEN "release" ELSE "notify"]
    /\ UNCHANGED <<sha, on, queued, ok, taken, queueVars, flightVars,
                   storeVars, clientVars, cancelling, used>>

\* Resolve the receivers of everyone who waited for this entry.
Notify(p) ==
    /\ pc[p] = "notify"
    /\ waiting' = [c \in Client |-> IF c \in taken[p]
                                    THEN waiting[c] \ {sha[p]}
                                    ELSE waiting[c]]
    /\ AfterSettle(p)
    /\ UNCHANGED <<cpc, tally, queueVars, flightVars, storeVars, stats,
                   cancelling, used>>

-----------------------------------------------------------------------------
(* The end of a fetch: leave the map, publish, and FsCacheStore keeps what  *)
(* it was given.  A follower shares the result.                             *)

\* Mutant: no guard, only the regular path leaves the map.
GuardForgotten(p) ==
    IF pc[p] = "release" THEN [inflight EXCEPT ![sha[p]] = NoChan]
                         ELSE inflight

\* The map once p's InflightGuard has dropped.
GuardDropped(p) == [inflight EXCEPT ![sha[p]] = NoChan]

\* drop(guard): a late-comer becomes a fresh leader.
Release(p) ==
    /\ pc[p] = "release"
    /\ inflight' = GuardDropped(p)
    /\ pc' = [pc EXCEPT ![p] = "publish"]
    /\ UNCHANGED <<sha, on, queued, ok, taken, chan, queueVars, storeVars,
                   clientVars, stats, cancelling, used>>

\* Mutant: a worker ends on an error without its fallback settle.
ReturnedUnsettled(p, good) ==
    IF good
    THEN /\ pc' = [pc EXCEPT ![p] = "write"]
         /\ on' = [on EXCEPT ![p] = NoChan]
         /\ queued' = [queued EXCEPT ![p] = FALSE]
         /\ ok' = [ok EXCEPT ![p] = good]
         /\ UNCHANGED <<sha, taken>>
    ELSE Finish(p)

\* fetch_via returned: a chunk goes on to the disk write, an error to the
\* caller, which for a worker is the fallback settle.
Returned(p, good) ==
    IF good \/ p \in Worker
    THEN /\ pc' = [pc EXCEPT ![p] = IF good THEN "write" ELSE "settle"]
         /\ on' = [on EXCEPT ![p] = NoChan]
         /\ queued' = [queued EXCEPT ![p] = FALSE]
         /\ ok' = [ok EXCEPT ![p] = good]
         /\ UNCHANGED <<sha, taken>>
    ELSE Finish(p)

\* Mutant: no follower sees its leader go.
LetGoSilently(p, v) == UNCHANGED chan

\* Mutant: the sender of a dropped leader lives on, so no follower sees it go.
LetGoUndropped(p, v) ==
    chan' = [chan EXCEPT ![on[p]] =
                IF pc[p] # "close" /\ \E q \in Proc \ {p} : on[q] = on[p]
                THEN v ELSE @]

\* p drops its end of the channel, leaving it at v for the others; without
\* others the channel is gone, and its identity as good as new.
LetGo(p, v) ==
    chan' = [chan EXCEPT ![on[p]] =
                IF \E q \in Proc \ {p} : on[q] = on[p] THEN v ELSE "open"]

Publish(p) ==
    /\ pc[p] = "publish"
    /\ LetGo(p, IF ok[p] THEN "chunk" ELSE "error")
    /\ Returned(p, ok[p])
    /\ UNCHANGED <<inflight, queueVars, storeVars, clientVars, stats,
                   cancelling, used>>

Hear(p) ==
    /\ pc[p] = "follow"
    /\ chan[on[p]] \in {"chunk", "error"}
    /\ LetGo(p, chan[on[p]])
    /\ Returned(p, chan[on[p]] = "chunk")
    /\ UNCHANGED <<inflight, queueVars, storeVars, clientVars, stats,
                   cancelling, used>>

\* Mutant: whatever entry there is goes.
AnyChannel(p) == TRUE

\* same_channel: the entry still is the one p followed.
SameChannel(p) == inflight[sha[p]] = on[p]

\* The leader was dropped without a result: clean up its entry and retry.
Retry(p) ==
    /\ pc[p] = "follow"
    /\ chan[on[p]] = "closed"
    /\ inflight' = IF SameChannel(p)
                   THEN [inflight EXCEPT ![sha[p]] = NoChan]
                   ELSE inflight
    /\ LetGo(p, "closed")
    /\ on' = [on EXCEPT ![p] = NoChan]
    /\ pc' = [pc EXCEPT ![p] = "flight"]
    /\ UNCHANGED <<sha, queued, ok, taken, queueVars, storeVars, clientVars,
                   stats, cancelling, used>>

\* FsCacheStore writes the chunk it got; a worker then settles (fallback).
Write(p) ==
    /\ pc[p] = "write"
    /\ disk' = disk \cup {sha[p]}
    /\ IF p \in Worker
       THEN /\ pc' = [pc EXCEPT ![p] = "settle"]
            /\ UNCHANGED <<sha, on, queued, ok, taken>>
       ELSE Finish(p)
    /\ UNCHANGED <<index, queueVars, flightVars, clientVars, stats,
                   cancelling, used>>

-----------------------------------------------------------------------------
(* Futures dropped at an await, and cancel.                                 *)

\* A reader that leads nothing disappears without a trace.
DropRead(r) ==
    /\ pc[r] \in {"disk", "follow", "write"}
    /\ used.drops < MaxDrops
    /\ used' = [used EXCEPT !.drops = @ + 1]
    /\ IF on[r] = NoChan THEN UNCHANGED chan ELSE LetGo(r, chan[on[r]])
    /\ Finish(r)
    /\ UNCHANGED <<inflight, queueVars, storeVars, clientVars, stats,
                   cancelling>>

\* A leader dropped during its fetch: the guard leaves the map first ...
DropLeader(r) ==
    /\ pc[r] = "fetch"
    /\ used.drops < MaxDrops
    /\ used' = [used EXCEPT !.drops = @ + 1]
    /\ inflight' = GuardDropped(r)
    /\ pc' = [pc EXCEPT ![r] = "close"]
    /\ UNCHANGED <<sha, on, queued, ok, taken, chan, queueVars, storeVars,
                   clientVars, stats, cancelling>>

\* ... then the sender goes, and every follower's changed() fails.
CloseChan(r) ==
    /\ pc[r] = "close"
    /\ LetGo(r, "closed")
    /\ Finish(r)
    /\ UNCHANGED <<inflight, queueVars, storeVars, clientVars, stats,
                   cancelling, used>>

\* The request handler is dropped while it waits (the client hung up).  Its
\* receivers are gone, so no sender counts as having a waiter any more.
HangUp(c) ==
    /\ cpc[c] = "wait"
    /\ waiting[c] # {}
    /\ used.drops < MaxDrops
    /\ used' = [used EXCEPT !.drops = @ + 1]
    /\ cpc' = [cpc EXCEPT ![c] = "idle"]
    /\ waiting' = [waiting EXCEPT ![c] = {}]
    /\ waiters' = [s \in Sha |-> waiters[s] \ {c}]
    /\ taken' = [p \in Proc |-> taken[p] \ {c}]
    /\ UNCHANGED <<tally, pc, sha, on, queued, ok, pending, interactive, bulk,
                   held, flightVars, storeVars, stats, cancelling>>

\* Mutant: the senders outlive the map.
StillConnected(c) == waiting[c]

\* Clearing the map drops its senders; each receiver resolves with an error.
Disconnected(c) == waiting[c] \ {s \in Sha : c \in waiters[s]}

\* cancel, first half: the pending map is cleared, which drops the senders.
CancelClear ==
    /\ ~cancelling
    /\ used.cancels < MaxCancels
    /\ used' = [used EXCEPT !.cancels = @ + 1]
    /\ pending' = {}
    /\ waiting' = [c \in Client |-> Disconnected(c)]
    /\ waiters' = [s \in Sha |-> {}]
    /\ cancelling' = TRUE
    /\ UNCHANGED <<interactive, bulk, held, cpc, tally, fetchVars, flightVars,
                   storeVars, stats>>

\* cancel, second half: the counters start over.
CancelReset ==
    /\ cancelling
    /\ stats' = [total |-> 0, completed |-> 0, failed |-> 0]
    /\ cancelling' = FALSE
    /\ UNCHANGED <<queueVars, clientVars, fetchVars, flightVars, storeVars,
                   used>>

-----------------------------------------------------------------------------
ClientNext(c) ==
    \/ \E S \in SUBSET Sha \ {{}} : Enqueue(c, S) \/ EnqueueAndWait(c, S)
    \/ CountTotals(c)
    \/ Return(c)
    \/ HangUp(c)

\* What keeps a task going once it runs.
Advance(p) ==
    \/ DiskHit(p)
    \/ DiskMiss(p)
    \/ Lead(p)
    \/ CountImplicit(p)
    \/ Follow(p)
    \/ \E good \in BOOLEAN : CdnAnswer(p, good)
    \/ Settle(p)
    \/ SettleNothing(p)
    \/ Mark(p)
    \/ Record(p)
    \/ Notify(p)
    \/ Release(p)
    \/ Publish(p)
    \/ Hear(p)
    \/ Retry(p)
    \/ Write(p)

WorkerNext(w) == Spawn(w) \/ Skip(w) \/ Proceed(w)

ReaderNext(r) ==
    \/ \E s \in Sha : ReadStart(r, s)
    \/ DropRead(r)
    \/ DropLeader(r)
    \/ CloseChan(r)

Next ==
    \/ \E c \in Client : ClientNext(c)
    \/ Dispatch
    \/ \E w \in Worker : WorkerNext(w)
    \/ \E r \in Reader : ReaderNext(r)
    \/ \E p \in Proc : Advance(p)
    \/ CancelClear
    \/ CancelReset

Spec == Init /\ [][Next]_vars

\* The runtime polls every task that can go on, and a CDN request ends with
\* an answer or an error.  Nothing forces a call, a read, a drop or a cancel.
Fairness ==
    /\ \A c \in Client : WF_vars(CountTotals(c) \/ Return(c))
    /\ WF_vars(Dispatch)
    /\ \A w \in Worker : WF_vars(WorkerNext(w))
    /\ \A r \in Reader : WF_vars(CloseChan(r))
    /\ \A p \in Proc : WF_vars(Advance(p))
    /\ WF_vars(CancelReset)

FairSpec == Spec /\ Fairness

-----------------------------------------------------------------------------
(* Properties                                                               *)

TaskPCs == {"idle", "check", "disk", "flight", "total", "fetch", "settle",
            "mark", "record", "notify", "release", "publish", "follow",
            "write", "close"}

StoreTypeOK == disk \subseteq Sha /\ index \subseteq Sha

QueueTypeOK ==
    /\ pending \subseteq Sha
    /\ waiters \in [Sha -> SUBSET Client]
    /\ interactive \in Seq(Sha)
    /\ bulk \in Seq(Sha)
    /\ held \in Sha \cup {NoSha}

FlightTypeOK ==
    /\ inflight \in [Sha -> Chan \cup {NoChan}]
    /\ chan \in [Chan -> {"open", "chunk", "error", "closed"}]

FetchTypeOK ==
    /\ pc \in [Proc -> TaskPCs]
    /\ sha \in [Proc -> Sha \cup {NoSha}]
    /\ on \in [Proc -> Chan \cup {NoChan}]
    /\ queued \in [Proc -> BOOLEAN]
    /\ ok \in [Proc -> BOOLEAN]
    /\ taken \in [Proc -> SUBSET Client]

ClientTypeOK ==
    /\ cpc \in [Client -> {"idle", "count", "wait"}]
    /\ waiting \in [Client -> SUBSET Sha]
    /\ tally \in [Client -> Nat]

CountTypeOK ==
    /\ stats \in [total : Nat, completed : Nat, failed : Nat]
    /\ cancelling \in BOOLEAN
    /\ used \in [calls : Nat, reads : Nat, cancels : Nat, drops : Nat]

\* Every variable of the service and of its callers stays in its domain.
TypeOK == /\ StoreTypeOK
          /\ QueueTypeOK
          /\ FlightTypeOK
          /\ FetchTypeOK
          /\ ClientTypeOK
          /\ CountTypeOK

\* "Provides single-flight per SHA" (downloads.rs:7): two tasks never have a
\* CDN request for the same chunk running at once.
SingleFlight ==
    \A p, q \in Proc :
        pc[p] = "fetch" /\ pc[q] = "fetch" /\ sha[p] = sha[q] => p = q

\* Where the leader of an undecided fetch can be.
Leading(p) == /\ on[p] # NoChan
              /\ pc[p] \in {"total", "fetch", "settle", "mark", "record",
                            "notify", "release", "publish", "close"}

\* "followers don't hang on a dead leader" (downloads.rs:392): whoever waits
\* on an undecided channel has a task that will publish on it or close it.
FollowerHasLeader ==
    \A p \in Proc :
        pc[p] = "follow" /\ chan[on[p]] = "open" =>
            \E q \in Proc : Leading(q) /\ on[q] = on[p] /\ sha[q] = sha[p]

\* A follower whose leader was dropped finds its own entry already gone:
\* nobody it could take it away from is still leading.
RetryRemovesNothing ==
    \A p \in Proc :
        pc[p] = "follow" /\ chan[on[p]] = "closed" => inflight[sha[p]] # on[p]

\* What a follower may rely on, and what it may not destroy.
FollowersSafe == FollowerHasLeader /\ RetryRemovesNothing

\* A client waits for exactly those chunks some pending entry, or some task
\* that took the entry out, holds a sender for (downloads.rs:243).
NoLostWaiter ==
    \A c \in Client, s \in Sha :
        s \in waiting[c] <=>
            \/ c \in waiters[s]
            \/ \E p \in Proc : sha[p] = s /\ c \in taken[p]

\* A queued chunk always has a job in a lane, at the dispatcher or in a
\* worker that still has to settle it: the dedup of enqueue (272-289) and
\* the skip of a worker (200-207) never strand an entry.
PendingHasJob ==
    \A s \in pending :
        \/ \E i \in DOMAIN interactive : interactive[i] = s
        \/ \E i \in DOMAIN bulk : bulk[i] = s
        \/ held = s
        \/ \E w \in Worker :
              /\ sha[w] = s
              /\ ~ (on[w] = NoChan /\ pc[w] \in {"mark", "record", "notify"})

\* Tasks that have a settled chunk and have not counted it out yet.
Uncounted == {p \in Proc : pc[p] \in {"mark", "record"}}

\* Implicit reads that have been counted in and are at the CDN.
Unanswered == {p \in Proc : pc[p] = "fetch" /\ Implicit(p)}

\* Chunks counted in, or about to be, and not counted out yet.
Outstanding ==
    Cardinality(pending) + Cardinality(Uncounted) + Cardinality(Unanswered)

\* Chunks that calls have queued and not added to the totals yet: one
\* element for each.
Announced == UNION {{c} \X (1 .. tally[c]) : c \in Client}

\* "a single accounting point so download totals stay fixed after enqueue"
\* (8): as long as nothing is cancelled, every chunk in the total is settled
\* once or still under way, whichever way it came in.  Only an implicit read
\* dropped in the middle of its fetch is left over in the total.
AccountingExact ==
    used.cancels = 0 =>
        LET in  == stats.total + Cardinality(Announced)
            out == stats.completed + stats.failed + Outstanding
        IN  IF used.drops = 0 THEN in = out
            ELSE in \in out .. out + used.drops

\* Every call that waits comes back, also when the fetch fails, the leader
\* is dropped or the queue is cancelled (234-249).
WaitersReturn == \A c \in Client : cpc[c] = "wait" ~> cpc[c] = "idle"

\* Every queued chunk is settled or cancelled, bulk ones too.
PendingSettles == \A s \in Sha : s \in pending ~> s \notin pending

\* A read ends even when the leader it follows is dropped with its own request
\* and nothing is ever sent on its channel (331-332).
ReadsEnd == \A r \in Reader : pc[r] # "idle" ~> pc[r] = "idle"

\* What the service promises, in terms of this state.
Contract == INSTANCE ChunkContract WITH
    fetching <- {s \in Sha : \E p \in Proc : pc[p] = "fetch" /\ sha[p] = s},
    failing  <- {s \in Sha : \E p \in Proc :
                                pc[p] = "notify" /\ ~ok[p] /\ sha[p] = s},
    busy     <- {c \in Client : cpc[c] # "idle"},
    owed     <- waiting

\* Every step of the service is a step of its contract.
ImplementsContract == Contract!Spec

-----------------------------------------------------------------------------
(* Statements of comments that the code does not keep.                      *)

\* "Chunks already in-flight still land on disk but won't tick the zeroed
\* stats" (513-514): with nothing enqueued or read since a cancel, the
\* counters of a cancelled queue stay at zero.
ZeroedStatsStay ==
    [][(used.cancels > 0 /\ ~cancelling /\ pending = {}
          /\ (\A c \in Client : tally[c] = 0)
          /\ stats = [total |-> 0, completed |-> 0, failed |-> 0])
        => (stats'.completed = 0 /\ stats'.failed = 0)]_vars

\* "a late-comer becomes a fresh leader and hits the disk cache" (464-465):
\* nobody starts a CDN request for a chunk that has landed.
LateComerHitsDisk ==
    [][\A p \in Proc :
          pc[p] = "flight" /\ pc'[p] \in {"total", "fetch"}
              => sha[p] \notin index]_vars

\* "`enqueue_and_wait` returns once every chunk has either landed on disk
\* [...] or failed; `read_full` after that is a pure cache hit"
\* (routes/files.rs:186-189): a receiver that resolves with success finds
\* the chunk on disk.
WokenAfterDisk ==
    [][\A p \in Proc : \A c \in taken[p] :
          pc[p] = "notify" /\ ok[p] /\ sha[p] \notin waiting'[c]
              => sha[p] \in disk]_vars

\* "tracks the set of chunk SHAs we actually have on disk" (store_index.rs:3):
\* once nothing is going on, a chunk on disk is in the index.
DiskIndexedAtRest ==
    (\A p \in Proc : pc[p] = "idle") => disk \subseteq index
=============================================================================
