-------------------------------- MODULE Mount --------------------------------
(***************************************************************************)
(* The mount manager (state/mount/) on Linux: one slot, claimed by a start *)
(* and given back by a stop, next to the shutdowns that unmount on the way *)
(* out (main.rs, window.rs), a kill, and the next process, which finds the *)
(* mountpoint as the last one left it.                                     *)
(*                                                                         *)
(* A back end (a FUSE session) is named after the start that made it.  The *)
(* slot, that start until it returns and the stop that took it out hold    *)
(* references to it; it is torn down when the last one goes, or by an      *)
(* unmount, which runs in the blocking pool.  FUSE, fusermount and the     *)
(* processes that use the file system are answers of either kind.          *)
(***************************************************************************)
CONSTANTS
    Start,       \* calls of start_with
    Stop,        \* calls of stop, by a request
    Signal,      \* stop_on_shutdown of unmount_on_signal
    Window,      \* stop_on_shutdown of the window's event loop
    NoMount,
    MayDrop,     \* bound: whether the request of a stop may go away
    MayKill      \* bound: whether the process may be killed

Shutdown == {Signal, Window}
Stopper == Stop \cup Shutdown

ASSUME MountConstants ==
    /\ NoMount \notin Start
    /\ Signal # Window
    /\ Stop \cap Shutdown = {}
    /\ MayDrop \in BOOLEAN
    /\ MayKill \in BOOLEAN

VARIABLES
    slot,        \* MountManager.slot
    alive,       \* back ends that serve the file system
    unmounting,  \* back ends that the blocking pool unmounts
    mnt,         \* the mountpoint: free, or an entry left by a dead process
    spc,         \* starts
    tpc, taken,  \* stops; the mount each took out of the slot
    up           \* the process runs

startVars == <<spc>>
stopVars == <<tpc, taken>>
vars == <<slot, alive, unmounting, mnt, startVars, stopVars, up>>

Slot(kind, b) == [kind |-> kind, mount |-> b]
Empty == Slot("none", NoMount)

\* What a dead FUSE session leaves: an entry that read_dir finds out, or one
\* that only the next session does.
Dead == {"stale", "half"}

Init ==
    /\ slot = Empty
    /\ alive = {}
    /\ unmounting = {}
    /\ mnt \in {"free"} \cup Dead
    /\ spc = [s \in Start |-> "idle"]
    /\ tpc = [t \in Stopper |-> "idle"]
    /\ taken = [t \in Stopper |-> NoMount]
    /\ up = TRUE

-----------------------------------------------------------------------------
(* References                                                               *)

\* The start's own Arc, from start_backend until it returns
StartHolds(b) == spc[b] \in {"register", "return"}

StopHolds(t, b) == taken[t] = b

\* What is alive once a reference to b is dropped and, if `last`, no other
\* is left.
Remaining(b, last) == IF last THEN alive \ {b} ELSE alive

-----------------------------------------------------------------------------
(* start_with                                                               *)

Goto(s, phase) == spc' = [spc EXCEPT ![s] = phase]

\* Mutant: reserve only minds a live mount.
SlotUnlessMounted == slot.kind # "mounted"

\* Nothing is mounted and no start or stop is on the way.
SlotFree == slot.kind = "none"

Reserve(s) ==
    /\ up /\ spc[s] = "idle"
    /\ IF SlotFree
       THEN slot' = Slot("starting", NoMount) /\ Goto(s, "prepare")
       ELSE Goto(s, "refused") /\ UNCHANGED slot
    /\ UNCHANGED <<alive, unmounting, mnt, stopVars, up>>

\* prepare_mountpoint: try_use, fusermount -u, fusermount -uz
Prepare(s) ==
    /\ spc[s] = "prepare"
    /\ Goto(s, "fuse")
    /\ mnt' = IF mnt = "stale" THEN "free" ELSE mnt
    /\ UNCHANGED <<slot, alive, unmounting, stopVars, up>>

\* Mutant: the session is started without a look at what is left there.
Untouched == mnt

\* fusermount -uz of a half-dead entry, and one more try
Recovered == "free"

StartFuse(s) ==
    /\ spc[s] = "fuse"
    /\ mnt' = Recovered
    /\ alive' = alive \cup {s}
    /\ Goto(s, "register")
    /\ UNCHANGED <<slot, unmounting, stopVars, up>>

\* The mountpoint cannot be used, fusermount or the session fails.
StartFails(s) ==
    /\ spc[s] \in {"prepare", "fuse"}
    /\ Goto(s, "failed")
    /\ UNCHANGED <<slot, alive, unmounting, mnt, stopVars, up>>

\* Mutant: the error is returned at once.
Unreleased == slot

\* What release makes of the slot.
Vacated == Empty

Release(s) ==
    /\ spc[s] = "failed"
    /\ slot' = Vacated
    /\ Goto(s, "done")
    /\ UNCHANGED <<alive, unmounting, mnt, stopVars, up>>

\* The manifests are registered, the mount is put into the slot ...
Publish(s) ==
    /\ spc[s] = "register"
    /\ slot' = Slot("mounted", s)
    /\ Goto(s, "return")
    /\ UNCHANGED <<alive, unmounting, mnt, stopVars, up>>

\* ... and the start's own reference goes.
Return(s) ==
    /\ spc[s] = "return"
    /\ alive' = Remaining(s, slot.mount # s /\
                             \A t \in Stopper : ~StopHolds(t, s))
    /\ Goto(s, "done")
    /\ UNCHANGED <<slot, unmounting, mnt, stopVars, up>>

-----------------------------------------------------------------------------
(* stop                                                                     *)

At(t, phase) == tpc' = [tpc EXCEPT ![t] = phase]

\* Mutant: the mount is taken and nothing marks the slot.
Vacant == Empty

\* Mutant: the mount stays in the slot.
Cloned == [slot EXCEPT !.kind = "stopping"]

\* What a stop leaves in the slot.
Marker == Slot("stopping", NoMount)

Take(t) ==
    /\ up /\ tpc[t] = "idle"
    /\ slot.kind = "mounted"
    /\ slot' = Marker
    /\ taken' = [taken EXCEPT ![t] = slot.mount]
    /\ At(t, "unwrap")
    /\ UNCHANGED <<alive, unmounting, mnt, startVars, up>>

\* NotMounted
RefuseStop(t) ==
    /\ up /\ tpc[t] = "idle"
    /\ slot.kind # "mounted"
    /\ At(t, "done")
    /\ UNCHANGED <<slot, alive, unmounting, mnt, taken, startVars, up>>

\* Arc::try_unwrap: the stop has the only reference, and unmounts ...
Unwrap(t) ==
    /\ tpc[t] = "unwrap"
    /\ ~StartHolds(taken[t])
    /\ unmounting' = unmounting \cup {taken[t]}
    /\ At(t, "join")
    /\ UNCHANGED <<slot, alive, mnt, taken, startVars, up>>

\* ... or it gets its reference back and drops it.
StillShared(t) ==
    /\ tpc[t] = "unwrap"
    /\ StartHolds(taken[t])
    /\ At(t, "let_go")
    /\ UNCHANGED <<slot, alive, unmounting, mnt, taken, startVars, up>>

LetGo(t) ==
    /\ tpc[t] = "let_go"
    /\ alive' = Remaining(taken[t], ~StartHolds(taken[t]))
    /\ taken' = [taken EXCEPT ![t] = NoMount]
    /\ At(t, "clear")
    /\ UNCHANGED <<slot, unmounting, mnt, startVars, up>>

\* In the blocking pool: the unmount ends once no process uses the file
\* system; whether it works or fails, the session is gone.
Unmount(b) ==
    /\ b \in unmounting
    /\ alive' = alive \ {b}
    /\ unmounting' = unmounting \ {b}
    /\ UNCHANGED <<slot, mnt, startVars, stopVars, up>>

Join(t) ==
    /\ tpc[t] = "join"
    /\ taken[t] \notin unmounting
    /\ taken' = [taken EXCEPT ![t] = NoMount]
    /\ At(t, "clear")
    /\ UNCHANGED <<slot, alive, unmounting, mnt, startVars, up>>

ClearSlot(t) ==
    /\ tpc[t] = "clear"
    /\ slot' = Empty
    /\ At(t, "done")
    /\ UNCHANGED <<alive, unmounting, mnt, taken, startVars, up>>

\* Mutant: the unmount is part of the request that goes away.
Abandoned(b) == unmounting \ {b}

\* What the pool works on once nobody awaits the unmount of b any more.
InPool(b) == unmounting

\* The stop is dropped at its await: the client hangs up, or the signal's
\* three seconds are over.
DropStop(t) ==
    /\ tpc[t] = "join"
    /\ \/ t = Signal
       \/ MayDrop /\ t \in Stop
    /\ unmounting' = InPool(taken[t])
    /\ taken' = [taken EXCEPT ![t] = NoMount]
    /\ At(t, "dropped")
    /\ UNCHANGED <<slot, alive, mnt, startVars, up>>

-----------------------------------------------------------------------------
(* The end of the process, and the next one                                 *)

\* Whatever it served is left behind, and so is every call.
End ==
    /\ up' = FALSE
    /\ slot' = Empty
    /\ alive' = {}
    /\ unmounting' = {}
    /\ IF alive = {} THEN UNCHANGED mnt ELSE mnt' \in {"free"} \cup Dead
    /\ spc' = [s \in Start |-> IF spc[s] = "idle" THEN "idle" ELSE "done"]
    /\ taken' = [t \in Stopper |-> NoMount]
    /\ tpc' = [t \in Stopper |->
                 IF t \in Shutdown \/ tpc[t] = "idle" THEN "idle" ELSE "done"]

Leave(t) ==
    /\ tpc[t] \in {"done", "dropped"}
    /\ End

Kill ==
    /\ MayKill
    /\ up
    /\ End

Restart ==
    /\ ~up
    /\ up' = TRUE
    /\ UNCHANGED <<slot, alive, unmounting, mnt, startVars, stopVars>>

-----------------------------------------------------------------------------
StartStep(s) ==
    \/ Prepare(s)
    \/ StartFuse(s)
    \/ StartFails(s)
    \/ Release(s)
    \/ Publish(s)
    \/ Return(s)

StopStep(t) ==
    \/ Unwrap(t)
    \/ StillShared(t)
    \/ LetGo(t)
    \/ Join(t)
    \/ ClearSlot(t)

Next ==
    \/ \E s \in Start : Reserve(s) \/ StartStep(s) \/ Unmount(s)
    \/ \E t \in Stopper : Take(t) \/ RefuseStop(t) \/ StopStep(t) \/ DropStop(t)
    \/ \E t \in Shutdown : Leave(t)
    \/ Kill
    \/ Restart

Spec == Init /\ [][Next]_vars

\* A call that can run is polled; processes let go of the file system; the
\* process ends after the shutdown it was asked for.
Fairness ==
    /\ \A s \in Start : WF_vars(StartStep(s)) /\ WF_vars(Unmount(s))
    /\ \A t \in Stopper : WF_vars(StopStep(t))
    /\ \A t \in Shutdown : WF_vars(Leave(t))

FairSpec == Spec /\ Fairness

-----------------------------------------------------------------------------
(* Properties                                                               *)

\* Every variable stays in its domain.
TypeOK ==
    /\ slot \in [kind : {"none", "starting", "mounted", "stopping"},
                 mount : Start \cup {NoMount}]
    /\ slot.kind = "mounted" <=> slot.mount # NoMount
    /\ alive \subseteq Start
    /\ unmounting \subseteq Start
    /\ mnt \in {"free"} \cup Dead
    /\ spc \in [Start -> {"idle", "prepare", "fuse", "register", "return",
                          "failed", "done", "refused"}]
    /\ tpc \in [Stopper -> {"idle", "unwrap", "join", "let_go", "clear",
                            "dropped", "done"}]
    /\ taken \in [Stopper -> Start \cup {NoMount}]
    /\ \A t \in Stopper : taken[t] # NoMount <=>
                              tpc[t] \in {"unwrap", "join", "let_go"}
    /\ up \in BOOLEAN

Starting(s) == spc[s] \in {"prepare", "fuse", "register", "failed"}
Stopping(t) == tpc[t] \in {"unwrap", "join", "let_go", "clear", "dropped"}

\* "Held busy for the whole of both start and stop" (mount/mod.rs:44): the
\* slot says Starting or Stopping exactly while one call is between taking and
\* giving it back (or was dropped there), so no call's result is overwritten.
SlotHeld ==
    /\ slot.kind = "starting" <=> \E s \in Start : Starting(s)
    /\ slot.kind = "stopping" <=> \E t \in Stopper : Stopping(t)
    /\ \A s, r \in Start : Starting(s) /\ Starting(r) => s = r
    /\ \A t, u \in Stopper : Stopping(t) /\ Stopping(u) => t = u

\* "a start can't reclaim the mountpoint mid-unmount" (mount/mod.rs:45): no
\* session starts while another is being unmounted, not even when the request
\* of the stop is gone.
NoReclaim == [][alive' \subseteq alive \/ unmounting = {}]_vars

\* A session that serves the file system is one somebody will take down: it is
\* in the slot, its start has yet to return, or a stop or the pool has it.
NoOrphan ==
    \A b \in alive :
        \/ slot.mount = b
        \/ StartHolds(b)
        \/ b \in unmounting
        \/ \E t \in Stopper : tpc[t] \in {"unwrap", "let_go"} /\ taken[t] = b

\* "the next start recovers such a mount" (main.rs:91): the mount of the
\* status serves the file system, and what a dead process left there is gone.
MountedServes == slot.kind = "mounted" => slot.mount \in alive /\ mnt = "free"

\* Every start and stop gives the slot back, or the mount into it, and returns,
\* unless it is the stop of a request that was dropped at its await.
SlotSettles ==
    /\ slot.kind \in {"starting", "stopping"} ~>
           \/ slot.kind \in {"none", "mounted"}
           \/ \E t \in Stop : tpc[t] = "dropped"
    /\ \A t \in Stopper :
           tpc[t] = "unwrap" ~> ~Stopping(t) \/ (t \in Stop /\ tpc[t] = "dropped")

-----------------------------------------------------------------------------
(* Statements of comments that the code does not keep.                      *)

\* "so two starts can't both mount" (mount/mod.rs:44-45).
OneMount == \A a, b \in alive : a = b

\* "A start or stop in flight reads as idle: it is a caller's own request that
\* is still running, and it will report the final state when it returns"
\* (mount/mod.rs:94-96).
StopIsRunning == slot.kind = "stopping" =>
                     \E t \in Stopper : Stopping(t) /\ tpc[t] # "dropped"

\* "a signalled shutdown unmounts before exiting" (main.rs:90), unless the
\* three seconds are over.
UnmountedAtExit ==
    [][up /\ ~up' /\ tpc[Signal] # "dropped" => alive = {}]_vars
=============================================================================
