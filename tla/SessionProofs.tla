---------------------------- MODULE SessionProofs ----------------------------
(***************************************************************************)
(* Machine-checked facts about Session: typing, that the login shown as in *)
(* progress has a task and loses its entry to nobody else's end, that a    *)
(* request which waited for the resume is served, and that what a page was *)
(* last sent is the current status.                                        *)
(***************************************************************************)
EXTENDS Session, TLAPS

USE DEF ResumingAtStart, Released, Mine, FailsInto, Goto

AllVars == <<steam, pending, chan, saved, owing, dirty, apc, lpc, resuming,
             rpc, resumed, panicked, wpc, got, vpc, shown, loggedOut>>

\* A stuttering step changes no variable.
LEMMA Stutter == UNCHANGED vars => UNCHANGED AllVars
BY DEF vars, AllVars, slotVars, resumeVars, waitVars, watchVars

-----------------------------------------------------------------------------
(* Typing                                                                   *)

Entries == [id : Attempt \cup {Resume, NoOne}, phase : Phases, tx : BOOLEAN]

LEMMA DroppedType ==
    ASSUME SlotTypeOK
    PROVE  /\ Dropped \in [Attempt -> {"none", "open", "sent", "dropped"}]
           /\ SenderInSlot =>
                \A a \in Attempt : Dropped[a] # "open"
BY DEF SlotTypeOK, Dropped, SenderInSlot

LEMMA TypeInit == Init => TypeOK
<1> SUFFICES ASSUME Init PROVE TypeOK
  OBVIOUS
<1> USE SessionConstants DEF Init
<1>1. pending \in Entries /\ ~pending.tx
  BY DEF Entries, Phases, NoEntry
<1>2. SlotTypeOK /\ SenderInSlot
  BY <1>1 DEF SlotTypeOK, SenderInSlot, Entries
<1>3. TaskTypeOK
  BY DEF TaskTypeOK
<1>4. StatusTypeOK
  BY DEF StatusTypeOK
<1>5. WatchTypeOK
  BY DEF WatchTypeOK, Unsent, Blank, Phases
<1>6. QED
  BY <1>2, <1>3, <1>4, <1>5 DEF TypeOK

LEMMA TypeAttempt ==
    ASSUME TypeOK, NEW a \in Attempt, AttemptNext(a)
    PROVE  TypeOK'
<1> USE SessionConstants DEF TypeOK, Runs
<1>1. WatchTypeOK'
  <2>1. UNCHANGED <<dirty, vpc, shown, wpc, got>>
    BY DEF AttemptNext, Begin, ByToken, ByPassword, AskCode, AskDevice,
       CodeComes, NoCode, Approved, Refused, Save, SetSteam, ClearPending,
       FailPending, waitVars, watchVars
  <2>2. QED
    BY <2>1 DEF WatchTypeOK
<1>2. TaskTypeOK'
  <2>1. UNCHANGED <<lpc, rpc>> /\ owing' \in {owing, owing \cup {a}}
    BY DEF AttemptNext, Begin, ByToken, ByPassword, AskCode, AskDevice,
       CodeComes, NoCode, Approved, Refused, Save, SetSteam, ClearPending,
       FailPending, resumeVars, Update, SetPhase, Clear, Installed
  <2>2. \E ph \in {"connect", "steam", "code", "poll", "save", "ok", "clear",
                   "fail", "done"} : apc' = [apc EXCEPT ![a] = ph]
    BY DEF AttemptNext, Begin, ByToken, ByPassword, AskCode, AskDevice,
       CodeComes, NoCode, Approved, Refused, Save, SetSteam, ClearPending,
       FailPending
  <2>3. QED
    BY <2>1, <2>2 DEF TaskTypeOK, Task
<1>3. StatusTypeOK'
  <2>1. /\ steam' \in {steam, a}
        /\ saved' \in {saved, AccountOf[a]}
        /\ loggedOut' \in {loggedOut, FALSE}
        /\ UNCHANGED <<resuming, resumed, panicked>>
    BY DEF AttemptNext, Begin, ByToken, ByPassword, AskCode, AskDevice,
       CodeComes, NoCode, Approved, Refused, Save, SetSteam, ClearPending,
       FailPending, resumeVars, Installed
  <2>2. steam' \in Attempt \cup {Resume, NoClient}
    BY <2>1 DEF StatusTypeOK
  <2>3. saved' \in Account \cup {NoSession}
    BY <2>1 DEF StatusTypeOK
  <2>4. QED
    BY <2>1, <2>2, <2>3 DEF StatusTypeOK
<1>4. SlotTypeOK' /\ SenderInSlot'
  <2> USE DEF Entries
  <2>1. CASE Begin(a)
    BY <2>1, DroppedType DEF Begin, Update, SlotTypeOK, SenderInSlot, Phases
  <2>2. CASE ByToken(a) \/ ByPassword(a) \/ NoCode(a) \/ Approved(a)
             \/ Refused(a) \/ Save(a) \/ SetSteam(a)
    BY <2>2 DEF ByToken, ByPassword, NoCode, Approved, Refused, Save,
       SetSteam, slotVars, SlotTypeOK, SenderInSlot
  <2>3. CASE AskCode(a) \/ AskDevice(a) \/ CodeComes(a)
    <3>1. /\ chan' = chan
          /\ \E ph \in Phases :
               pending' = IF pending.id = a THEN [pending EXCEPT !.phase = ph]
                          ELSE pending
      BY <2>3
      DEF AskCode, AskDevice, CodeComes, SetPhase, Update, Phases
    <3>2. pending' \in Entries /\ pending'.id = pending.id
                               /\ pending'.tx = pending.tx
      BY <3>1 DEF SlotTypeOK
    <3>3. QED
      BY <3>1, <3>2 DEF SlotTypeOK, SenderInSlot
  <2>4. CASE ClearPending(a)
    <3>1. CASE pending.id = a
      BY <2>4, <3>1, DroppedType
      DEF ClearPending, Clear, Update, NoEntry, SlotTypeOK, SenderInSlot,
          Phases
    <3>2. CASE pending.id # a
      BY <2>4, <3>2
      DEF ClearPending, Clear, Update, SlotTypeOK, SenderInSlot
    <3>3. QED
      BY <3>1, <3>2
  <2>5. CASE FailPending(a)
    <3>1. CASE FailsInto(a)
      BY <2>5, <3>1, DroppedType
      DEF FailPending, Update, SlotTypeOK, SenderInSlot, Phases
    <3>2. CASE ~FailsInto(a)
      BY <2>5, <3>2 DEF FailPending, Update, SlotTypeOK, SenderInSlot
    <3>3. QED
      BY <3>1, <3>2
  <2>6. QED
    BY <2>1, <2>2, <2>3, <2>4, <2>5 DEF AttemptNext
<1>5. QED
  BY <1>1, <1>2, <1>3, <1>4

LEMMA TypeSubmit == ASSUME TypeOK, Submit PROVE TypeOK'
<1> USE SessionConstants DEF TypeOK, Submit
<1>1. SlotTypeOK' /\ SenderInSlot'
  <2>1. pending'.id = pending.id /\ ~pending'.tx /\ pending' \in Entries
    BY DEF SlotTypeOK, Entries
  <2>2. QED
    BY <2>1 DEF SlotTypeOK, SenderInSlot, Entries
<1>2. TaskTypeOK' /\ StatusTypeOK' /\ WatchTypeOK'
  BY DEF TaskTypeOK, StatusTypeOK, WatchTypeOK, resumeVars, waitVars,
     watchVars
<1>3. QED
  BY <1>1, <1>2

LEMMA TypeLogout ==
    ASSUME TypeOK, NEW l \in Logout, LogoutNext(l)
    PROVE  TypeOK'
<1> USE SessionConstants DEF TypeOK, LogoutNext, LogoutClear, LogoutPending,
    LogoutForget
<1>1. SlotTypeOK' /\ SenderInSlot'
  <2>1. CASE LogoutPending(l)
    BY <2>1, DroppedType DEF Update, NoEntry, SlotTypeOK, SenderInSlot, Phases
  <2>2. CASE LogoutClear(l) \/ LogoutForget(l)
    BY <2>2 DEF slotVars, SlotTypeOK, SenderInSlot
  <2>3. QED
    BY <2>1, <2>2
<1>2. TaskTypeOK'
  BY DEF TaskTypeOK, Task, Update, Installed, resumeVars
<1>3. StatusTypeOK'
  BY DEF StatusTypeOK, Installed, resumeVars
<1>4. WatchTypeOK'
  BY DEF WatchTypeOK, waitVars, watchVars
<1>5. QED
  BY <1>1, <1>2, <1>3, <1>4

LEMMA TypeResume == ASSUME TypeOK, ResumeNext PROVE TypeOK'
<1> USE SessionConstants DEF TypeOK, ResumeNext, ResumeOk, ResumeFails,
    ResumePanics, ResumeClear, ResumeEnd
<1>1. SlotTypeOK' /\ SenderInSlot'
  <2>1. CASE ResumeClear
    <3>1. CASE pending.id = Resume
      BY <2>1, <3>1, DroppedType
      DEF Clear, Update, NoEntry, SlotTypeOK, SenderInSlot, Phases
    <3>2. CASE pending.id # Resume
      BY <2>1, <3>2 DEF Clear, Update, SlotTypeOK, SenderInSlot
    <3>3. QED
      BY <3>1, <3>2
  <2>2. CASE ResumeOk \/ ResumeFails \/ ResumePanics \/ ResumeEnd
    BY <2>2 DEF slotVars, SlotTypeOK, SenderInSlot
  <2>3. QED
    BY <2>1, <2>2
<1>2. TaskTypeOK'
  BY DEF TaskTypeOK, Task, Clear, Update, Installed
<1>3. StatusTypeOK'
  BY DEF StatusTypeOK, Installed
<1>4. WatchTypeOK'
  <2>1. UNCHANGED <<wpc, got, vpc, shown>>
    BY DEF waitVars, watchVars
  <2>2. dirty' \in [Viewer -> SUBSET {"login", "resuming"}]
    BY DEF WatchTypeOK
  <2>3. QED
    BY <2>1, <2>2 DEF WatchTypeOK
<1>5. QED
  BY <1>1, <1>2, <1>3, <1>4

LEMMA TypeWatch ==
    ASSUME TypeOK,
           \/ \E t \in Task : Notify(t)
           \/ \E w \in Waiter : WaiterNext(w)
           \/ \E v \in Viewer : ViewerNext(v)
    PROVE  TypeOK'
<1> USE DEF TypeOK
<1>1. SlotTypeOK' /\ SenderInSlot' /\ StatusTypeOK' /\ TaskTypeOK'
  <2>1. UNCHANGED <<steam, pending, chan, saved, apc, lpc, resuming, rpc,
                    resumed, panicked, loggedOut>> /\ owing' \subseteq owing
    BY DEF Notify, WaiterNext, Wait, Pass, Load, ViewerNext, ReadClient,
       ReadPending, slotVars, resumeVars
  <2>2. QED
    BY <2>1 DEF SlotTypeOK, SenderInSlot, StatusTypeOK, TaskTypeOK
<1>2. ASSUME NEW t \in Task, Notify(t) PROVE WatchTypeOK'
  BY <1>2 DEF Notify, WatchTypeOK, waitVars, watchVars
<1>3. ASSUME NEW w \in Waiter, WaiterNext(w) PROVE WatchTypeOK'
  BY <1>3 DEF WaiterNext, Wait, Pass, Load, WatchTypeOK, StatusTypeOK,
     watchVars
<1>4. ASSUME NEW v \in Viewer, ViewerNext(v) PROVE WatchTypeOK'
  <2>1. CASE ReadClient(v)
    <3>1. dirty' \in [Viewer -> SUBSET {"login", "resuming"}]
      BY <2>1 DEF ReadClient, WatchTypeOK
    <3>2. vpc' \in [Viewer -> {"idle", "read"}]
      BY <2>1 DEF ReadClient, Show, WatchTypeOK
    <3>3. [Blank EXCEPT !.client = steam] \in
             [client : Attempt \cup {Resume, NoClient},
              id : Attempt \cup {Resume, NoOne},
              phase : Phases \cup {"unsent"}, resuming : BOOLEAN]
      BY DEF Blank, StatusTypeOK, Phases
    <3>4. QED
      BY <2>1, <3>1, <3>2, <3>3 DEF ReadClient, Show, WatchTypeOK, waitVars
  <2>2. CASE ReadPending(v)
    BY <2>2 DEF ReadPending, Show, WatchTypeOK, waitVars, SlotTypeOK,
       StatusTypeOK
  <2>3. QED
    BY <1>4, <2>1, <2>2 DEF ViewerNext
<1>5. QED
  BY <1>1, <1>2, <1>3, <1>4

LEMMA TypeNext == TypeOK /\ [Next]_vars => TypeOK'
<1> SUFFICES ASSUME TypeOK, [Next]_vars PROVE TypeOK'
  OBVIOUS
<1>1. CASE UNCHANGED vars
  BY <1>1, Stutter DEF AllVars, TypeOK, SlotTypeOK, TaskTypeOK, StatusTypeOK,
     WatchTypeOK, SenderInSlot
<1>2. QED
  BY <1>1, TypeAttempt, TypeSubmit, TypeLogout, TypeResume, TypeWatch DEF Next

\* Every variable stays in its domain, and the sender of a code lives exactly
\* as long as the slot's entry.
THEOREM SessionTypeCorrect == Spec => []TypeOK
BY TypeInit, TypeNext, PTL DEF Spec

-----------------------------------------------------------------------------
(* The entry of the slot and its task.  What an attempt does to the slot is *)
(* one of three things: leave it, write its own entry into it, or take its  *)
(* own entry out of it as it ends.                                          *)

LEMMA AttemptOnSlot ==
    ASSUME TypeOK, NEW a \in Attempt, AttemptNext(a)
    PROVE  /\ UNCHANGED <<rpc, lpc, panicked>>
           /\ \A b \in Attempt \ {a} : apc'[b] = apc[b]
           /\ \/ /\ apc'[a] \notin {"idle", "done"}
                 /\ \/ pending' = pending
                    \/ /\ pending'.id = a
                       /\ \/ pending.id = a
                          \/ apc[a] = "idle"
              \/ /\ apc'[a] = "done"
                 /\ \/ pending' = pending /\ pending.id # a
                    \/ pending' = NoEntry /\ pending.id = a
                    \/ /\ pending.id \in {NoOne, a}
                       /\ pending'.id = a
                       /\ pending'.phase = "error"
<1> USE DEF TypeOK, TaskTypeOK, Update, resumeVars
<1>1. CASE Begin(a)
  BY <1>1 DEF Begin
<1>2. CASE \/ ByToken(a) \/ ByPassword(a) \/ NoCode(a) \/ Approved(a)
           \/ Refused(a) \/ Save(a) \/ SetSteam(a)
  BY <1>2 DEF ByToken, ByPassword, NoCode, Approved, Refused, Save, SetSteam,
     slotVars
<1>3. CASE AskCode(a) \/ AskDevice(a) \/ CodeComes(a)
  <2>1. \/ pending' = pending
        \/ pending'.id = a /\ pending.id = a
    BY <1>3 DEF AskCode, AskDevice, CodeComes, SetPhase, SlotTypeOK
  <2>2. QED
    BY <1>3, <2>1 DEF AskCode, AskDevice, CodeComes
<1>4. CASE ClearPending(a)
  BY <1>4 DEF ClearPending, Clear
<1>5. CASE FailPending(a)
  BY <1>5 DEF FailPending
<1>6. QED
  BY <1>1, <1>2, <1>3, <1>4, <1>5 DEF AttemptNext

\* The steps of neither an attempt, a logout nor the resume leave the slot's
\* entry and the tasks alone.
LEMMA OthersOnSlot ==
    ASSUME \/ Submit
           \/ \E t \in Task : Notify(t)
           \/ \E w \in Waiter : WaiterNext(w)
           \/ \E v \in Viewer : ViewerNext(v)
           \/ UNCHANGED vars,
           TypeOK
    PROVE  /\ UNCHANGED <<apc, lpc, rpc, panicked, resumed>>
           /\ pending'.id = pending.id
           /\ pending'.phase = pending.phase
<1>1. CASE Submit
  BY <1>1 DEF Submit, resumeVars, TypeOK, SlotTypeOK
<1>2. CASE UNCHANGED vars
  BY <1>2, Stutter DEF AllVars
<1>3. QED
  BY <1>1, <1>2 DEF Notify, WaiterNext, Wait, Pass, Load, ViewerNext,
     ReadClient, ReadPending, slotVars, resumeVars

LEMMA PendingInit == Init => PendingHasTask
BY DEF Init, PendingHasTask, NoEntry, Working

LEMMA PendingNext ==
    TypeOK /\ PendingHasTask /\ [Next]_vars => PendingHasTask'
<1> SUFFICES ASSUME TypeOK, PendingHasTask, [Next]_vars PROVE PendingHasTask'
  OBVIOUS
<1> USE SessionConstants DEF PendingHasTask, Working
<1>1. ASSUME NEW a \in Attempt, AttemptNext(a) PROVE PendingHasTask'
  <2>1. a # Resume /\ a # NoOne
    BY DEF Task
  <2>2. pending.id \in Attempt \cup {Resume, NoOne}
    BY DEF TypeOK, SlotTypeOK
  <2>3. QED
    BY <1>1, <2>1, <2>2, AttemptOnSlot DEF NoEntry
<1>2. ASSUME NEW l \in Logout, LogoutNext(l) PROVE PendingHasTask'
  BY <1>2 DEF LogoutNext, LogoutClear, LogoutPending, LogoutForget, Update,
     NoEntry, slotVars, resumeVars
<1>3. CASE ResumeNext
  <2>1. CASE ResumePanics
    BY <2>1 DEF ResumePanics
  <2>2. CASE ResumeClear
    BY <2>2 DEF ResumeClear, Clear, Update, NoEntry
  <2>3. CASE ResumeOk \/ ResumeFails \/ ResumeEnd
    BY <2>3 DEF ResumeOk, ResumeFails, ResumeEnd, slotVars
  <2>4. QED
    BY <1>3, <2>1, <2>2, <2>3 DEF ResumeNext
<1>4. CASE \/ Submit
           \/ \E t \in Task : Notify(t)
           \/ \E w \in Waiter : WaiterNext(w)
           \/ \E v \in Viewer : ViewerNext(v)
           \/ UNCHANGED vars
  BY <1>4, OthersOnSlot
<1>5. QED
  BY <1>1, <1>2, <1>3, <1>4 DEF Next

\* A login shown as in progress has a task that will end it.
THEOREM PendingIsWorkedOn == Spec => []PendingHasTask
<1>1. Init => TypeOK /\ PendingHasTask
  BY TypeInit, PendingInit
<1>2. /\ TypeOK
      /\ PendingHasTask
      /\ [Next]_vars
      => TypeOK' /\ PendingHasTask'
  BY TypeNext, PendingNext
<1>3. QED
  BY <1>1, <1>2, PTL DEF Spec

\* The entry of a login in progress is taken out by nobody else's end.
THEOREM EntryIsKept == Spec => EntryKept
<1>1. TypeOK /\ [Next]_vars => [KeepsEntry]_vars
  <2> SUFFICES ASSUME TypeOK, Next,
                      NEW t \in Attempt \cup {Resume},
                      pending.id = t, pending'.id # t,
                      Working(t), Working(t)'
               PROVE  \/ \E a \in Attempt : apc[a] = "idle" /\ apc'[a] # "idle"
                      \/ \E l \in Logout :
                           lpc[l] = "pending" /\ lpc'[l] = "forget"
    BY DEF KeepsEntry
  <2> USE SessionConstants DEF Working
  <2>1. ASSUME NEW a \in Attempt, AttemptNext(a)
        PROVE  apc[a] = "idle" /\ apc'[a] # "idle"
    BY <2>1, AttemptOnSlot DEF Task
  <2>2. ASSUME NEW l \in Logout, LogoutNext(l)
        PROVE  lpc[l] = "pending" /\ lpc'[l] = "forget"
    BY <2>2 DEF LogoutNext, LogoutClear, LogoutPending, LogoutForget,
       slotVars, TypeOK, TaskTypeOK
  <2>3. ~ResumeNext
    BY DEF ResumeNext, ResumeOk, ResumeFails, ResumePanics, ResumeClear,
       ResumeEnd, Clear, Update, slotVars
  <2>4. QED
    BY <2>1, <2>2, <2>3, OthersOnSlot DEF Next
<1>2. QED
  BY <1>1, SessionTypeCorrect, PTL DEF Spec, EntryKept

-----------------------------------------------------------------------------
(* The requests that wait for the resume.  A request is past its wait only  *)
(* when the resume is over, and a resume that succeeded leaves a client     *)
(* behind that only a logout takes away.                                    *)

NoLogout == \A l \in Logout : lpc[l] = "idle"

ResumeInv ==
    /\ rpc # "done" => resuming
    /\ \A w \in Waiter : wpc[w] \in {"load", "done"} => rpc = "done"
    /\ resumed /\ NoLogout => steam # NoClient
    /\ ResumeServes

LEMMA ResumeInit == Init => ResumeInv
<1> SUFFICES ASSUME Init PROVE ResumeInv
  OBVIOUS
<1>1. rpc # "done" => resuming
  BY DEF Init
<1>2. ~resumed
  BY DEF Init
<1>3. \A w \in Waiter : wpc[w] \notin {"load", "done"}
  BY DEF Init
<1>4. QED
  BY <1>1, <1>2, <1>3 DEF ResumeInv, ResumeServes

LEMMA ResumeInvNext == TypeOK /\ ResumeInv /\ [Next]_vars => ResumeInv'
<1> SUFFICES ASSUME TypeOK, ResumeInv, [Next]_vars PROVE ResumeInv'
  OBVIOUS
<1> USE SessionConstants DEF ResumeInv, ResumeServes, NoLogout
<1>1. ASSUME NEW a \in Attempt, AttemptNext(a) PROVE ResumeInv'
  <2>1. UNCHANGED <<lpc, wpc, got, resuming, rpc, resumed>>
    BY <1>1 DEF AttemptNext, Begin, ByToken, ByPassword, AskCode, AskDevice,
       CodeComes, NoCode, Approved, Refused, Save, SetSteam, ClearPending,
       FailPending, resumeVars, waitVars
  <2>2. steam' \in {steam, a}
    BY <1>1 DEF AttemptNext, Begin, ByToken, ByPassword, AskCode, AskDevice,
       CodeComes, NoCode, Approved, Refused, Save, SetSteam, ClearPending,
       FailPending, Installed
  <2>3. a # NoClient
    BY DEF Task
  <2>4. QED
    BY <2>1, <2>2, <2>3
<1>2. ASSUME NEW l \in Logout, LogoutNext(l) PROVE ResumeInv'
  <2>1. UNCHANGED <<wpc, got, resuming, rpc, resumed>>
    BY <1>2 DEF LogoutNext, LogoutClear, LogoutPending, LogoutForget,
       resumeVars, waitVars
  <2>2. lpc'[l] # "idle" /\ (\A k \in Logout \ {l} : lpc'[k] = lpc[k])
    BY <1>2 DEF LogoutNext, LogoutClear, LogoutPending, LogoutForget, TypeOK,
       TaskTypeOK
  <2>3. QED
    BY <2>1, <2>2
<1>3. CASE ResumeNext
  <2>1. UNCHANGED <<lpc, wpc, got>>
    BY <1>3 DEF ResumeNext, ResumeOk, ResumeFails, ResumePanics, ResumeClear,
       ResumeEnd, waitVars
  <2>2. CASE ResumeOk
    <3>1. steam' = Resume /\ Resume # NoClient
      BY <2>2 DEF ResumeOk, Installed, Task
    <3>2. \A w \in Waiter : wpc'[w] \notin {"load", "done"}
      BY <2>1, <2>2 DEF ResumeOk
    <3>3. resuming'
      BY <2>2 DEF ResumeOk
    <3>4. QED
      BY <3>1, <3>2, <3>3
  <2>3. CASE ResumeFails \/ ResumePanics \/ ResumeClear
    BY <2>1, <2>3 DEF ResumeFails, ResumePanics, ResumeClear
  <2>4. CASE ResumeEnd
    BY <2>1, <2>4 DEF ResumeEnd
  <2>5. QED
    BY <1>3, <2>2, <2>3, <2>4 DEF ResumeNext
<1>4. ASSUME NEW w \in Waiter, WaiterNext(w) PROVE ResumeInv'
  <2>1. UNCHANGED <<steam, lpc, resuming, rpc, resumed>>
    BY <1>4 DEF WaiterNext, Wait, Pass, Load, resumeVars
  <2>2. \A u \in Waiter \ {w} : wpc'[u] = wpc[u] /\ got'[u] = got[u]
    BY <1>4 DEF WaiterNext, Wait, Pass, Load, TypeOK, WatchTypeOK
  <2>3. \/ wpc'[w] = "wait"
        \/ wpc'[w] = "load" /\ ~resuming
        \/ wpc[w] = "load" /\ got'[w] = steam
    BY <1>4 DEF WaiterNext, Wait, Pass, Load, TypeOK, WatchTypeOK
  <2>4. QED
    BY <2>1, <2>2, <2>3
<1>5. CASE \/ Submit
           \/ \E t \in Task : Notify(t)
           \/ \E v \in Viewer : ViewerNext(v)
           \/ UNCHANGED vars
  <2>1. UNCHANGED <<steam, lpc, wpc, got, resuming, rpc, resumed>>
    <3>1. CASE UNCHANGED vars
      BY <3>1, Stutter DEF AllVars
    <3>2. QED
      BY <1>5, <3>1 DEF Submit, Notify, ViewerNext, ReadClient, ReadPending,
         resumeVars, waitVars
  <2>2. QED
    BY <2>1
<1>6. QED
  BY <1>1, <1>2, <1>3, <1>4, <1>5 DEF Next

\* When the saved session is resumed, no request that waited for it is told
\* that nobody is logged in, unless somebody logged out.
THEOREM WaitersAreServed == Spec => []ResumeServes
<1>1. Init => TypeOK /\ ResumeInv
  BY TypeInit, ResumeInit
<1>2. /\ TypeOK
      /\ ResumeInv
      /\ [Next]_vars
      => TypeOK' /\ ResumeInv'
  BY TypeNext, ResumeInvNext
<1>3. ResumeInv => ResumeServes
  BY DEF ResumeInv
<1>4. QED
  BY <1>1, <1>2, <1>3, PTL DEF Spec

-----------------------------------------------------------------------------
(* What a page was last sent.  A step that changes the status either leaves *)
(* a notification due or marks every watch.                                 *)

Watched(v) ==
    dirty[v] = {} /\ owing = {} =>
        /\ vpc[v] = "idle" => shown[v] = StatusNow
        /\ vpc[v] = "read" => steam = NoClient

Due == owing # {} \/ (\A v \in Viewer : dirty[v] # {})

LEMMA ChangeIsDue ==
    ASSUME TypeOK, Next
    PROVE  \/ Due'
           \/ /\ steam' = steam
              /\ StatusNow' = StatusNow
              /\ owing = {}
              /\ \/ UNCHANGED <<dirty, vpc, shown>>
                 \/ \E v \in Viewer : ViewerNext(v)
<1>1. ASSUME NEW a \in Attempt, AttemptNext(a),
             ~Due'
      PROVE  /\ UNCHANGED <<steam, pending, resuming, dirty, vpc, shown>>
             /\ owing = {}
  <2> USE DEF Due, resumeVars, watchVars, slotVars
  <2>1. CASE Begin(a) \/ AskCode(a) \/ AskDevice(a) \/ CodeComes(a)
             \/ SetSteam(a) \/ ClearPending(a) \/ FailPending(a)
    BY <1>1, <2>1 DEF Begin, AskCode, AskDevice, CodeComes, SetSteam,
       ClearPending, FailPending, SetPhase, Clear, Update, Installed
  <2>2. CASE ByToken(a) \/ ByPassword(a) \/ NoCode(a) \/ Approved(a)
             \/ Refused(a) \/ Save(a)
    BY <1>1, <2>2 DEF ByToken, ByPassword, NoCode, Approved, Refused, Save
  <2>3. QED
    BY <1>1, <2>1, <2>2 DEF AttemptNext
<1>2. ASSUME NEW l \in Logout, LogoutNext(l),
             ~Due'
      PROVE  /\ UNCHANGED <<steam, pending, resuming, dirty, vpc, shown>>
             /\ owing = {}
  BY <1>2 DEF LogoutNext, LogoutClear, LogoutPending, LogoutForget, Due,
     Update, Installed, resumeVars, watchVars, slotVars
<1>3. ASSUME ResumeNext, ~Due'
      PROVE  /\ UNCHANGED <<steam, pending, resuming, dirty, vpc, shown>>
             /\ owing = {}
  BY <1>3 DEF ResumeNext, ResumeOk, ResumeFails, ResumePanics, ResumeClear,
     ResumeEnd, Due, Clear, Update, Installed, watchVars, slotVars
<1>4. ASSUME NEW t \in Task, Notify(t) PROVE Due'
  BY <1>4 DEF Notify, Due
<1>5. ASSUME Submit, ~Due'
      PROVE  /\ UNCHANGED <<steam, resuming, dirty, vpc, shown>>
             /\ owing = {}
             /\ pending'.id = pending.id
             /\ pending'.phase = pending.phase
  BY <1>5 DEF Submit, Due, resumeVars, watchVars, TypeOK, SlotTypeOK
<1>6. ASSUME NEW w \in Waiter, WaiterNext(w), ~Due'
      PROVE  /\ UNCHANGED <<steam, pending, resuming, dirty, vpc, shown>>
             /\ owing = {}
  BY <1>6 DEF WaiterNext, Wait, Pass, Load, Due, resumeVars, watchVars,
     slotVars
<1>7. ASSUME NEW v \in Viewer, ViewerNext(v), ~Due'
      PROVE  /\ UNCHANGED <<steam, pending, resuming>>
             /\ owing = {}
  BY <1>7 DEF ViewerNext, ReadClient, ReadPending, Due, resumeVars, slotVars
<1>8. QED
  BY <1>1, <1>2, <1>3, <1>4, <1>5, <1>6, <1>7 DEF Next, StatusNow, Blank

LEMMA WatchedNext ==
    ASSUME TypeOK, [Next]_vars, NEW v \in Viewer, Watched(v)
    PROVE  Watched(v)'
<1>1. CASE UNCHANGED vars
  BY <1>1, Stutter DEF AllVars, Watched, StatusNow
<1>2. CASE Next /\ Due'
  BY <1>2 DEF Due, Watched
<1>3. CASE Next /\ ~Due'
  <2>1. /\ steam' = steam /\ StatusNow' = StatusNow
        /\ owing = {}
    BY <1>3, ChangeIsDue
  <2>2. CASE UNCHANGED <<dirty, vpc, shown>>
    BY <2>1, <2>2 DEF Watched
  <2>3. ASSUME NEW u \in Viewer \ {v}, ViewerNext(u) PROVE Watched(v)'
    <3>1. /\ dirty'[v] = dirty[v]
          /\ vpc'[v] = vpc[v]
          /\ shown'[v] = shown[v]
      BY <2>3 DEF ViewerNext, ReadClient, ReadPending, Show, TypeOK,
         WatchTypeOK
    <3>2. QED
      BY <2>1, <3>1 DEF Watched
  <2>4. CASE ReadClient(v)
    <3>1. \/ steam # NoClient /\ vpc'[v] = "idle" /\ shown'[v] = StatusNow
          \/ steam = NoClient /\ vpc'[v] = "read"
      BY <2>4 DEF ReadClient, Show, StatusNow, TypeOK, WatchTypeOK
    <3>2. QED
      BY <2>1, <3>1 DEF Watched
  <2>5. CASE ReadPending(v)
    <3>1. /\ dirty' = dirty /\ vpc[v] = "read" /\ vpc'[v] = "idle"
          /\ steam = NoClient => shown'[v] = StatusNow
      BY <2>5 DEF ReadPending, Show, StatusNow, TypeOK, WatchTypeOK
    <3>2. QED
      BY <2>1, <3>1 DEF Watched
  <2>6. QED
    BY <1>3, <2>2, <2>3, <2>4, <2>5, ChangeIsDue DEF ViewerNext
<1>4. QED
  BY <1>1, <1>2, <1>3

\* A page that saw every change it was notified of shows the current status,
\* unless a notification is due.
THEOREM ShownIsCurrent == Spec => []ShownCurrent
<1> DEFINE Inv == \A v \in Viewer : Watched(v)
<1>1. Init => TypeOK /\ Inv
  BY TypeInit DEF Init, Watched
<1>2. /\ TypeOK
      /\ Inv
      /\ [Next]_vars
      => TypeOK' /\ Inv'
  BY TypeNext, WatchedNext
<1>3. Inv => ShownCurrent
  BY DEF Watched, ShownCurrent
<1> HIDE DEF Inv
<1>4. QED
  BY <1>1, <1>2, <1>3, PTL DEF Spec
=============================================================================
