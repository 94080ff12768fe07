---------------------------- MODULE MountProofs ----------------------------
(***************************************************************************)
(* Machine-checked facts about Mount: typing, that the slot is busy exactly *)
(* while one call is at it, that no session starts during an unmount, that *)
(* every session has somebody to take it down, and that the mount of the   *)
(* status serves the file system.                                          *)
(***************************************************************************)
EXTENDS Mount, TLAPS

USE DEF Goto, At, Slot, Empty, Marker, SlotFree, Vacated, Recovered, InPool,
        Remaining, StartHolds, StopHolds, Dead

AllVars == <<slot, alive, unmounting, mnt, spc, tpc, taken, up>>

\* A stuttering step changes no variable.
LEMMA Stutter == UNCHANGED vars => UNCHANGED AllVars
BY DEF vars, AllVars, startVars, stopVars

\* The end of the process leaves no session and no call at work.
LEMMA EndFacts ==
    ASSUME TypeOK, End
    PROVE  /\ slot' = Empty /\ alive' = {} /\ unmounting' = {}
           /\ mnt' \in {"free"} \cup Dead
           /\ spc' \in [Start -> {"idle", "done"}]
           /\ tpc' \in [Stopper -> {"idle", "done"}]
           /\ taken' = [t \in Stopper |-> NoMount]
BY DEF End, TypeOK

-----------------------------------------------------------------------------
(* Typing                                                                   *)

LEMMA TypeInit == Init => TypeOK
BY MountConstants DEF Init, TypeOK

LEMMA TypeStart ==
    ASSUME TypeOK, NEW s \in Start, Reserve(s) \/ StartStep(s) \/ Unmount(s)
    PROVE  TypeOK'
<1> USE MountConstants DEF TypeOK
<1>1. CASE Reserve(s)
  <2>1. CASE SlotFree
    BY <1>1, <2>1 DEF Reserve, stopVars
  <2>2. CASE ~SlotFree
    BY <1>1, <2>2 DEF Reserve, stopVars
  <2>3. QED
    BY <2>1, <2>2
<1>2. CASE Prepare(s)
  BY <1>2 DEF Prepare, stopVars
<1>3. CASE StartFuse(s)
  BY <1>3 DEF StartFuse, stopVars
<1>4. CASE StartFails(s)
  BY <1>4 DEF StartFails, stopVars
<1>5. CASE Release(s)
  BY <1>5 DEF Release, stopVars
<1>6. CASE Publish(s)
  BY <1>6 DEF Publish, stopVars
<1>7. CASE Return(s)
  <2>1. alive' \subseteq Start
    BY <1>7 DEF Return
  <2>2. QED
    BY <1>7, <2>1 DEF Return, stopVars
<1>8. CASE Unmount(s)
  BY <1>8 DEF Unmount, stopVars, startVars
<1>9. QED
  BY <1>1, <1>2, <1>3, <1>4, <1>5, <1>6, <1>7, <1>8 DEF StartStep

LEMMA TypeStop ==
    ASSUME TypeOK, NEW t \in Stopper,
           \/ Take(t) \/ RefuseStop(t) \/ StopStep(t) \/ DropStop(t)
    PROVE  TypeOK'
<1> USE MountConstants DEF TypeOK, startVars
<1>1. CASE Take(t)
  BY <1>1 DEF Take
<1>2. CASE RefuseStop(t)
  BY <1>2 DEF RefuseStop
<1>3. CASE Unwrap(t)
  BY <1>3 DEF Unwrap
<1>4. CASE StillShared(t)
  BY <1>4 DEF StillShared
<1>5. CASE LetGo(t)
  <2>1. alive' \subseteq Start
    BY <1>5 DEF LetGo
  <2>2. QED
    BY <1>5, <2>1 DEF LetGo
<1>6. CASE Join(t)
  BY <1>6 DEF Join
<1>7. CASE ClearSlot(t)
  BY <1>7 DEF ClearSlot
<1>8. CASE DropStop(t)
  BY <1>8 DEF DropStop
<1>9. QED
  BY <1>1, <1>2, <1>3, <1>4, <1>5, <1>6, <1>7, <1>8 DEF StopStep

LEMMA TypeNext == TypeOK /\ [Next]_vars => TypeOK'
<1> SUFFICES ASSUME TypeOK, [Next]_vars PROVE TypeOK'
  OBVIOUS
<1>1. CASE UNCHANGED vars
  BY <1>1, Stutter DEF AllVars, TypeOK
<1>2. CASE Restart
  BY <1>2 DEF Restart, TypeOK, startVars, stopVars
<1>3. CASE End
  <2>1. up' \in BOOLEAN
    BY <1>3 DEF End
  <2>2. QED
    BY <1>3, <2>1, EndFacts DEF TypeOK
<1>4. QED
  BY <1>1, <1>2, <1>3, TypeStart, TypeStop DEF Next, Leave, Kill

\* Every variable stays in its domain.
THEOREM MountTypeCorrect == Spec => []TypeOK
BY TypeInit, TypeNext, PTL DEF Spec

-----------------------------------------------------------------------------
(* The slot and the calls.  What a start does to the slot it does as the    *)
(* only start at work; the same holds of a stop.                            *)

LEMMA HeldInit == Init => SlotHeld
BY DEF Init, SlotHeld, Starting, Stopping

LEMMA HeldStart ==
    ASSUME TypeOK, SlotHeld, NEW s \in Start,
           Reserve(s) \/ StartStep(s) \/ Unmount(s)
    PROVE  SlotHeld'
<1> USE DEF TypeOK, stopVars, startVars
<1>1. UNCHANGED tpc
  BY DEF StartStep, Reserve, Prepare, StartFuse, StartFails, Release, Publish,
     Return, Unmount
<1>2. \A r \in Start \ {s} : spc'[r] = spc[r]
  BY DEF StartStep, Reserve, Prepare, StartFuse, StartFails, Release, Publish,
     Return, Unmount
<1>3. CASE Reserve(s)
  <2>1. CASE SlotFree
    BY <1>1, <1>2, <1>3, <2>1 DEF Reserve, SlotHeld, Starting, Stopping
  <2>2. CASE ~SlotFree
    BY <1>1, <1>2, <1>3, <2>2 DEF Reserve, SlotHeld, Starting, Stopping
  <2>3. QED
    BY <2>1, <2>2
<1>4. CASE Prepare(s) \/ StartFuse(s) \/ StartFails(s)
  <2>1. Starting(s) /\ Starting(s)' /\ slot' = slot
    BY <1>4 DEF Prepare, StartFuse, StartFails, Starting
  <2>2. QED
    BY <1>1, <1>2, <2>1 DEF SlotHeld, Starting, Stopping
<1>5. CASE Release(s) \/ Publish(s)
  <2>1. Starting(s) /\ ~Starting(s)' /\ slot'.kind \in {"none", "mounted"}
    BY <1>5 DEF Release, Publish, Starting
  <2>2. QED
    BY <1>1, <1>2, <2>1 DEF SlotHeld, Starting, Stopping
<1>6. CASE Return(s) \/ Unmount(s)
  <2>1. (Starting(s)' <=> Starting(s)) /\ slot' = slot
    BY <1>6 DEF Return, Unmount, Starting
  <2>2. QED
    BY <1>1, <1>2, <2>1 DEF SlotHeld, Starting, Stopping
<1>7. QED
  BY <1>3, <1>4, <1>5, <1>6 DEF StartStep

LEMMA HeldStop ==
    ASSUME TypeOK, SlotHeld, NEW t \in Stopper,
           \/ Take(t) \/ RefuseStop(t) \/ StopStep(t) \/ DropStop(t)
    PROVE  SlotHeld'
<1> USE DEF TypeOK, startVars
<1>1. UNCHANGED spc
  BY DEF StopStep, Take, RefuseStop, Unwrap, StillShared, LetGo, Join,
     ClearSlot, DropStop
<1>2. \A u \in Stopper \ {t} : tpc'[u] = tpc[u]
  BY DEF StopStep, Take, RefuseStop, Unwrap, StillShared, LetGo, Join,
     ClearSlot, DropStop
<1>3. CASE Take(t)
  <2>1. slot.kind = "mounted" /\ slot'.kind = "stopping" /\ Stopping(t)'
    BY <1>3 DEF Take, Stopping
  <2>2. QED
    BY <1>1, <1>2, <2>1 DEF SlotHeld, Starting, Stopping
<1>4. CASE RefuseStop(t)
  <2>1. ~Stopping(t) /\ ~Stopping(t)' /\ slot' = slot
    BY <1>4 DEF RefuseStop, Stopping
  <2>2. QED
    BY <1>1, <1>2, <2>1 DEF SlotHeld, Starting, Stopping
<1>5. CASE Unwrap(t) \/ StillShared(t) \/ LetGo(t) \/ Join(t) \/ DropStop(t)
  <2>1. Stopping(t) /\ Stopping(t)' /\ slot' = slot
    BY <1>5 DEF Unwrap, StillShared, LetGo, Join, DropStop, Stopping
  <2>2. QED
    BY <1>1, <1>2, <2>1 DEF SlotHeld, Starting, Stopping
<1>6. CASE ClearSlot(t)
  <2>1. Stopping(t) /\ ~Stopping(t)' /\ slot'.kind = "none"
    BY <1>6 DEF ClearSlot, Stopping
  <2>2. QED
    BY <1>1, <1>2, <2>1 DEF SlotHeld, Starting, Stopping
<1>7. QED
  BY <1>3, <1>4, <1>5, <1>6 DEF StopStep

LEMMA HeldNext == TypeOK /\ SlotHeld /\ [Next]_vars => SlotHeld'
<1> SUFFICES ASSUME TypeOK, SlotHeld, [Next]_vars PROVE SlotHeld'
  OBVIOUS
<1>1. CASE UNCHANGED vars
  BY <1>1, Stutter DEF AllVars, SlotHeld, Starting, Stopping
<1>2. CASE Restart
  BY <1>2 DEF Restart, SlotHeld, Starting, Stopping, startVars, stopVars
<1>3. CASE End
  BY <1>3, EndFacts DEF SlotHeld, Starting, Stopping
<1>4. QED
  BY <1>1, <1>2, <1>3, HeldStart, HeldStop DEF Next, Leave, Kill

\* The slot is busy exactly while one call is between taking and giving back.
THEOREM SlotIsHeld == Spec => []SlotHeld
<1>1. Init => TypeOK /\ SlotHeld
  BY TypeInit, HeldInit
<1>2. /\ TypeOK
      /\ SlotHeld
      /\ [Next]_vars
      => TypeOK' /\ SlotHeld'
  BY TypeNext, HeldNext
<1>3. QED
  BY <1>1, <1>2, PTL DEF Spec

-----------------------------------------------------------------------------
(* Where the sessions are.  The pool unmounts only for a stop that awaits   *)
(* it or was dropped; a session in the slot or taken out of it was made by  *)
(* a start that is past its slot; a session that a start registers is up.   *)

PoolInv == \A b \in unmounting : \E t \in Stopper :
               \/ tpc[t] = "join" /\ taken[t] = b
               \/ tpc[t] = "dropped"

MadeInv ==
    /\ slot.kind = "mounted" => spc[slot.mount] \in {"return", "done"}
    /\ \A t \in Stopper : taken[t] # NoMount =>
                             spc[taken[t]] \in {"return", "done"}
    /\ \A t \in Stopper : tpc[t] = "join" => spc[taken[t]] = "done"

UpInv ==
    /\ \A s \in Start : spc[s] = "register" => s \in alive /\ mnt = "free"
    /\ MountedServes

Inv == TypeOK /\ SlotHeld /\ PoolInv /\ MadeInv /\ UpInv /\ NoOrphan

LEMMA InvInit == Init => Inv
<1> SUFFICES ASSUME Init PROVE Inv
  OBVIOUS
<1>1. PoolInv /\ UpInv /\ NoOrphan
  BY DEF Init, PoolInv, UpInv, NoOrphan, MountedServes
<1>2. MadeInv
  BY DEF Init, MadeInv
<1>3. QED
  BY <1>1, <1>2, TypeInit, HeldInit DEF Inv

\* The pool is at work only while the slot says Stopping.
LEMMA PoolMeansStopping ==
    ASSUME SlotHeld, PoolInv
    PROVE  unmounting = {} \/ slot.kind = "stopping"
BY DEF SlotHeld, PoolInv, Stopping

LEMMA SitesStart ==
    ASSUME Inv, NEW s \in Start, Reserve(s) \/ StartStep(s)
    PROVE  PoolInv' /\ MadeInv' /\ UpInv' /\ NoOrphan'
<1> USE MountConstants DEF Inv, TypeOK, stopVars
<1>1. UNCHANGED <<tpc, taken, unmounting>>
  BY DEF StartStep, Reserve, Prepare, StartFuse, StartFails, Release, Publish,
     Return
<1>2. \A r \in Start \ {s} : spc'[r] = spc[r]
  BY DEF StartStep, Reserve, Prepare, StartFuse, StartFails, Release, Publish,
     Return
<1>3. PoolInv'
  BY <1>1 DEF PoolInv
<1>4. CASE Reserve(s)
  <2>1. /\ UNCHANGED <<alive, mnt>>
        /\ spc[s] = "idle" /\ spc'[s] \in {"prepare", "refused"}
        /\ \/ slot' = slot
           \/ slot.kind = "none" /\ slot'.kind = "starting"
    BY <1>4 DEF Reserve
  <2>2. MadeInv'
    BY <1>1, <1>2, <2>1 DEF MadeInv
  <2>3. UpInv' /\ NoOrphan'
    BY <1>1, <1>2, <2>1 DEF UpInv, MountedServes, NoOrphan
  <2>4. QED
    BY <1>3, <2>2, <2>3
<1>5. CASE Prepare(s) \/ StartFails(s)
  <2>1. /\ UNCHANGED <<alive, slot>>
        /\ mnt' \in {mnt, "free"}
        /\ spc[s] \in {"prepare", "fuse"} /\ spc'[s] \in {"fuse", "failed"}
    BY <1>5 DEF Prepare, StartFails
  <2>2. MadeInv'
    BY <1>1, <1>2, <2>1 DEF MadeInv
  <2>3. UpInv' /\ NoOrphan'
    BY <1>1, <1>2, <2>1 DEF UpInv, MountedServes, NoOrphan
  <2>4. QED
    BY <1>3, <2>2, <2>3
<1>6. CASE StartFuse(s)
  <2>1. /\ slot' = slot /\ alive' = alive \cup {s} /\ mnt' = "free"
        /\ spc[s] = "fuse" /\ spc'[s] = "register"
    BY <1>6 DEF StartFuse
  <2>2. MadeInv'
    BY <1>1, <1>2, <2>1 DEF MadeInv
  <2>3. UpInv' /\ NoOrphan'
    BY <1>1, <1>2, <2>1 DEF UpInv, MountedServes, NoOrphan
  <2>4. QED
    BY <1>3, <2>2, <2>3
<1>7. CASE Release(s)
  <2>1. /\ slot'.kind = "none" /\ slot.mount = NoMount
        /\ UNCHANGED <<alive, mnt>>
        /\ spc[s] = "failed" /\ spc'[s] = "done"
    BY <1>7 DEF Release, SlotHeld, Starting
  <2>2. MadeInv'
    BY <1>1, <1>2, <2>1 DEF MadeInv
  <2>3. UpInv' /\ NoOrphan'
    BY <1>1, <1>2, <2>1 DEF UpInv, MountedServes, NoOrphan
  <2>4. QED
    BY <1>3, <2>2, <2>3
<1>8. CASE Publish(s)
  <2>1. /\ slot'.kind = "mounted" /\ slot'.mount = s /\ slot.mount = NoMount
        /\ UNCHANGED <<alive, mnt>>
        /\ spc[s] = "register" /\ spc'[s] = "return"
    BY <1>8 DEF Publish, SlotHeld, Starting
  <2>2. MadeInv'
    BY <1>1, <1>2, <2>1 DEF MadeInv
  <2>3. UpInv' /\ NoOrphan'
    BY <1>1, <1>2, <2>1 DEF UpInv, MountedServes, NoOrphan
  <2>4. QED
    BY <1>3, <2>2, <2>3
<1>9. CASE Return(s)
  <2>1. /\ UNCHANGED <<slot, mnt>>
        /\ spc[s] = "return" /\ spc'[s] = "done"
        /\ alive' \subseteq alive /\ alive \ {s} \subseteq alive'
        /\ s \in alive' => \/ slot.mount = s
                           \/ \E t \in Stopper : taken[t] = s
        /\ slot.mount = s => alive' = alive
    BY <1>9 DEF Return
  <2>2. MadeInv'
    BY <1>1, <1>2, <2>1 DEF MadeInv
  <2>3. UpInv'
    BY <1>1, <1>2, <2>1 DEF UpInv, MountedServes
  <2>4. \A t \in Stopper : taken[t] = s => tpc[t] \in {"unwrap", "let_go"}
    BY <2>1 DEF MadeInv
  <2>5. NoOrphan'
    BY <1>1, <1>2, <2>1, <2>4 DEF NoOrphan
  <2>6. QED
    BY <1>3, <2>2, <2>3, <2>5
<1>10. QED
  BY <1>4, <1>5, <1>6, <1>7, <1>8, <1>9 DEF StartStep

LEMMA SitesUnmount ==
    ASSUME Inv, NEW b \in Start, Unmount(b)
    PROVE  PoolInv' /\ MadeInv' /\ UpInv' /\ NoOrphan'
<1> USE DEF Inv, TypeOK, stopVars, startVars, Unmount
<1>1. PoolInv' /\ MadeInv'
  BY DEF PoolInv, MadeInv
<1>2. slot.kind = "stopping"
  BY PoolMeansStopping
<1>3. UpInv'
  BY <1>2 DEF UpInv, MountedServes, SlotHeld, Starting
<1>4. NoOrphan'
  BY DEF NoOrphan
<1>5. QED
  BY <1>1, <1>3, <1>4

LEMMA SitesStop ==
    ASSUME Inv, NEW t \in Stopper,
           \/ Take(t) \/ RefuseStop(t) \/ StopStep(t) \/ DropStop(t)
    PROVE  PoolInv' /\ MadeInv' /\ UpInv' /\ NoOrphan'
<1> USE MountConstants DEF Inv, TypeOK, startVars
<1>1. UNCHANGED <<spc, mnt>>
  BY DEF StopStep, Take, RefuseStop, Unwrap, StillShared, LetGo, Join,
     ClearSlot, DropStop
<1>2. \A u \in Stopper \ {t} : tpc'[u] = tpc[u] /\ taken'[u] = taken[u]
  BY DEF StopStep, Take, RefuseStop, Unwrap, StillShared, LetGo, Join,
     ClearSlot, DropStop
<1>3. CASE Take(t)
  <2>1. /\ UNCHANGED <<alive, unmounting>>
        /\ slot.kind = "mounted" /\ slot'.kind = "stopping"
        /\ tpc[t] = "idle" /\ tpc'[t] = "unwrap" /\ taken'[t] = slot.mount
    BY <1>3 DEF Take
  <2>2. PoolInv'
    BY <1>2, <2>1 DEF PoolInv
  <2>3. MadeInv'
    BY <1>1, <1>2, <2>1 DEF MadeInv
  <2>4. UpInv' /\ NoOrphan'
    BY <1>1, <1>2, <2>1 DEF UpInv, MountedServes, NoOrphan
  <2>5. QED
    BY <2>2, <2>3, <2>4
<1>4. CASE RefuseStop(t) \/ StillShared(t)
  <2>1. /\ UNCHANGED <<alive, unmounting, slot, taken>>
        /\ \/ tpc[t] = "idle" /\ tpc'[t] = "done"
           \/ tpc[t] = "unwrap" /\ tpc'[t] = "let_go"
    BY <1>4 DEF RefuseStop, StillShared
  <2>2. PoolInv' /\ MadeInv'
    BY <1>1, <1>2, <2>1 DEF PoolInv, MadeInv
  <2>3. UpInv' /\ NoOrphan'
    BY <1>1, <1>2, <2>1 DEF UpInv, MountedServes, NoOrphan
  <2>4. QED
    BY <2>2, <2>3
<1>5. CASE Unwrap(t)
  <2>1. /\ UNCHANGED <<alive, slot, taken>>
        /\ unmounting' = unmounting \cup {taken[t]}
        /\ tpc[t] = "unwrap" /\ tpc'[t] = "join"
        /\ spc[taken[t]] \notin {"register", "return"}
    BY <1>5 DEF Unwrap
  <2>2. PoolInv' /\ MadeInv'
    BY <1>1, <1>2, <2>1 DEF PoolInv, MadeInv
  <2>3. UpInv' /\ NoOrphan'
    BY <1>1, <1>2, <2>1 DEF UpInv, MountedServes, NoOrphan
  <2>4. QED
    BY <2>2, <2>3
<1>6. CASE LetGo(t)
  <2>1. /\ UNCHANGED <<slot, unmounting>>
        /\ alive' \subseteq alive
        /\ taken[t] \in alive' => StartHolds(taken[t])
        /\ tpc[t] = "let_go" /\ tpc'[t] = "clear" /\ taken'[t] = NoMount
    BY <1>6 DEF LetGo
  <2>2. PoolInv' /\ MadeInv'
    BY <1>1, <1>2, <2>1 DEF PoolInv, MadeInv
  <2>3. slot.kind = "stopping"
    BY <2>1 DEF SlotHeld, Stopping
  <2>4. UpInv'
    BY <1>1, <2>1, <2>3 DEF UpInv, MountedServes, SlotHeld, Starting
  <2>5. NoOrphan'
    BY <1>1, <1>2, <2>1 DEF NoOrphan
  <2>6. QED
    BY <2>2, <2>4, <2>5
<1>7. CASE Join(t) \/ ClearSlot(t)
  <2>1. /\ UNCHANGED <<alive, unmounting>>
        /\ slot.mount = NoMount /\ slot'.kind \in {"stopping", "none"}
        /\ \/ tpc[t] = "join" /\ taken[t] \notin unmounting
           \/ tpc[t] = "clear"
        /\ tpc'[t] \in {"clear", "done"} /\ taken'[t] = NoMount
    BY <1>7 DEF Join, ClearSlot, SlotHeld, Stopping
  <2>2. PoolInv'
    BY <1>2, <2>1 DEF PoolInv
  <2>3. MadeInv'
    BY <1>1, <1>2, <2>1 DEF MadeInv
  <2>4. UpInv' /\ NoOrphan'
    BY <1>1, <1>2, <2>1 DEF UpInv, MountedServes, NoOrphan
  <2>5. QED
    BY <2>2, <2>3, <2>4
<1>8. CASE DropStop(t)
  <2>1. /\ UNCHANGED <<alive, slot, unmounting>>
        /\ tpc[t] = "join" /\ tpc'[t] = "dropped" /\ taken'[t] = NoMount
    BY <1>8 DEF DropStop
  <2>2. PoolInv' /\ MadeInv'
    BY <1>1, <1>2, <2>1 DEF PoolInv, MadeInv
  <2>3. UpInv' /\ NoOrphan'
    BY <1>1, <1>2, <2>1 DEF UpInv, MountedServes, NoOrphan
  <2>4. QED
    BY <2>2, <2>3
<1>9. QED
  BY <1>3, <1>4, <1>5, <1>6, <1>7, <1>8 DEF StopStep

LEMMA InvNext == Inv /\ [Next]_vars => Inv'
<1> SUFFICES ASSUME Inv, [Next]_vars PROVE Inv'
  OBVIOUS
<1>1. TypeOK' /\ SlotHeld'
  BY TypeNext, HeldNext DEF Inv
<1>2. CASE UNCHANGED vars
  BY <1>1, <1>2, Stutter DEF AllVars, Inv, PoolInv, MadeInv, UpInv, NoOrphan,
     MountedServes
<1>3. CASE Restart
  BY <1>1, <1>3 DEF Restart, Inv, PoolInv, MadeInv, UpInv, NoOrphan,
     MountedServes, startVars, stopVars
<1>4. CASE End
  <2>1. PoolInv' /\ UpInv' /\ NoOrphan'
    BY <1>4, EndFacts DEF Inv, PoolInv, UpInv, NoOrphan, MountedServes
  <2>2. MadeInv'
    BY <1>4, EndFacts DEF Inv, MadeInv
  <2>3. QED
    BY <1>1, <2>1, <2>2 DEF Inv
<1>5. QED
  BY <1>1, <1>2, <1>3, <1>4, SitesStart, SitesUnmount, SitesStop
  DEF Next, Leave, Kill, Inv

\* Every session that serves the file system has somebody to take it down.
THEOREM NoSessionOrphaned == Spec => []NoOrphan
<1>1. Inv => NoOrphan
  BY DEF Inv
<1>2. QED
  BY <1>1, InvInit, InvNext, PTL DEF Spec

\* The mount that the status shows serves the file system.
THEOREM StatusIsServed == Spec => []MountedServes
<1>1. Inv => MountedServes
  BY DEF Inv, UpInv
<1>2. QED
  BY <1>1, InvInit, InvNext, PTL DEF Spec

\* No session starts while another is being unmounted.
THEOREM NoStartMidUnmount == Spec => NoReclaim
<1>1. /\ Inv
      /\ [Next]_vars
      => [alive' \subseteq alive \/ unmounting = {}]_vars
  <2> SUFFICES ASSUME Inv, Next PROVE alive' \subseteq alive \/ unmounting = {}
    OBVIOUS
  <2>1. ASSUME NEW s \in Start, StartFuse(s) PROVE unmounting = {}
    <3>1. slot.kind = "starting"
      BY <2>1 DEF StartFuse, Starting, SlotHeld, Inv
    <3>2. QED
      BY <3>1, PoolMeansStopping DEF Inv
  <2>2. ASSUME NEW s \in Start,
               Reserve(s) \/ StartStep(s) \/ Unmount(s), ~StartFuse(s)
        PROVE  alive' \subseteq alive
    BY <2>2 DEF StartStep, Reserve, Prepare, StartFails, Release, Publish,
       Return, Unmount
  <2>3. ASSUME NEW t \in Stopper,
               \/ Take(t) \/ RefuseStop(t) \/ StopStep(t) \/ DropStop(t)
        PROVE  alive' \subseteq alive
    BY <2>3 DEF StopStep, Take, RefuseStop, Unwrap, StillShared, LetGo, Join,
       ClearSlot, DropStop
  <2>4. ASSUME End \/ Restart PROVE alive' \subseteq alive
    BY <2>4 DEF End, Restart
  <2>5. QED
    BY <2>1, <2>2, <2>3, <2>4 DEF Next, Leave, Kill
<1>2. QED
  BY <1>1, InvInit, InvNext, PTL DEF Spec, NoReclaim
=============================================================================
