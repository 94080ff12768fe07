------------------------------ MODULE Session ------------------------------
(***************************************************************************)
(* Who is logged in to Steam: the login tasks of routes/auth.rs and        *)
(* steam/auth.rs, logout, the resume of the saved session that main.rs     *)
(* starts, the requests that wait for it (steam/access.rs), and the pages  *)
(* that watch the status (routes/events.rs).                               *)
(*                                                                         *)
(* Shared state: the installed client, the slot of the login in progress,  *)
(* the resuming flag and the session file.  Each is behind a lock or an    *)
(* atomic of its own, and whoever changed the client or the slot notifies  *)
(* the watchers in a second step (`owing`).  Steam itself (discovery,      *)
(* Connection::access and ::login) is an answer of either kind.  The value *)
(* of an attempt's id is not modelled: an attempt is its own id.           *)
(***************************************************************************)
CONSTANTS
    Attempt,     \* calls of POST /api/auth/login
    Logout,      \* calls of POST /api/auth/logout
    Waiter,      \* calls of SteamAccess::client
    Viewer,      \* open event streams
    Account,
    AccountOf,   \* [Attempt -> Account]
    Resume,      \* the task of start_server
    NoClient, NoOne, NoSession,
    MayPanic     \* bound: whether the resume may panic

Task == Attempt \cup Logout \cup {Resume}

ASSUME SessionConstants ==
    /\ AccountOf \in [Attempt -> Account]
    /\ Resume \notin Attempt \cup Logout
    /\ Attempt \cap Logout = {}
    /\ NoOne \notin Task
    /\ NoClient \notin Task
    /\ NoSession \notin Account
    /\ MayPanic \in BOOLEAN

VARIABLES
    steam,       \* the installed client, by the task that installed it
    pending,     \* LoginSlot.pending
    resuming,    \* the watch that ResumeGuard sets
    saved,       \* the session file
    owing,       \* tasks that changed something and have yet to notify
    dirty,       \* per viewer: watches with a change it has not seen
    apc, chan,   \* attempts: where they are; their oneshot for the code
    lpc, rpc,    \* logouts, the resume
    wpc, got,    \* waiters: what they were given
    vpc, shown,  \* viewers: the last status sent
    resumed,     \* history: the resume installed its client
    panicked,    \* history: the resume panicked
    loggedOut    \* history: a logout finished, no login begun since

slotVars   == <<pending, chan>>
watchVars  == <<vpc, shown>>
waitVars   == <<wpc, got>>
resumeVars == <<resuming, rpc, resumed, panicked>>
vars == <<steam, slotVars, saved, owing, dirty, apc, lpc, resumeVars, waitVars,
          watchVars, loggedOut>>

NoEntry == [id |-> NoOne, phase |-> "none", tx |-> FALSE]
Blank   == [client |-> NoClient, id |-> NoOne, phase |-> "none",
            resuming |-> FALSE]
Unsent  == [Blank EXCEPT !.phase = "unsent"]

\* Mutant: the guard is only taken inside the task.
TakenLater == FALSE

\* A saved session is resumed, and the guard is taken before the task starts.
ResumingAtStart == saved # NoSession

Init ==
    /\ saved \in Account \cup {NoSession}
    /\ steam = NoClient
    /\ resuming = ResumingAtStart
    /\ rpc = IF saved # NoSession THEN "running" ELSE "done"
    /\ pending = IF saved # NoSession
                 THEN [id |-> Resume, phase |-> "starting", tx |-> FALSE]
                 ELSE NoEntry
    /\ owing = {}
    /\ dirty = [v \in Viewer |-> {"login"}]
    /\ apc = [a \in Attempt |-> "idle"]
    /\ chan = [a \in Attempt |-> "none"]
    /\ lpc = [l \in Logout |-> "idle"]
    /\ wpc = [w \in Waiter |-> "idle"]
    /\ got = [w \in Waiter |-> NoClient]
    /\ vpc = [v \in Viewer |-> "idle"]
    /\ shown = [v \in Viewer |-> Unsent]
    /\ resumed = FALSE
    /\ panicked = FALSE
    /\ loggedOut = FALSE

-----------------------------------------------------------------------------
(* The slot and the watches                                                 *)

\* Mutant: the sender outlives the entry it belongs to.
Leaked == chan

\* The entry is replaced: a sender in it is dropped with it.
Dropped == [a \in Attempt |->
              IF pending.tx /\ pending.id = a THEN "dropped" ELSE chan[a]]

Notify(t) ==
    /\ t \in owing
    /\ owing' = owing \ {t}
    /\ dirty' = [v \in Viewer |-> dirty[v] \cup {"login"}]
    /\ UNCHANGED <<steam, slotVars, saved, apc, lpc, resumeVars, waitVars,
                   watchVars, loggedOut>>

\* Mutant: the client is installed and nobody is told.
InstalledQuietly(t, c) ==
    /\ steam' = c
    /\ UNCHANGED owing

\* set_steam, clear_steam
Installed(t, c) ==
    /\ steam' = c
    /\ owing' = owing \cup {t}

\* slot.update: the pending login becomes e.
Update(t, e) ==
    /\ pending' = e
    /\ owing' = owing \cup {t}

-----------------------------------------------------------------------------
(* A login attempt                                                          *)

Goto(a, phase) == apc' = [apc EXCEPT ![a] = phase]

\* begin_web_login, and the task is spawned.
Begin(a) ==
    /\ apc[a] = "idle"
    /\ chan' = [Dropped EXCEPT ![a] = "open"]
    /\ Update(a, [id |-> a, phase |-> "starting", tx |-> TRUE])
    /\ Goto(a, "connect")
    /\ loggedOut' = FALSE
    /\ UNCHANGED <<steam, saved, dirty, lpc, resumeVars, waitVars, watchVars>>

\* The attempt's task is past its notification and goes on.
Runs(a, phases) == apc[a] \in phases /\ a \notin owing

\* The cached token is accepted.
ByToken(a) ==
    /\ Runs(a, {"connect"})
    /\ saved = AccountOf[a]
    /\ Goto(a, "ok")
    /\ UNCHANGED <<steam, slotVars, saved, owing, dirty, lpc, resumeVars,
                   waitVars, watchVars, loggedOut>>

\* No token for this account, or it is rejected: a login with the password.
ByPassword(a) ==
    /\ Runs(a, {"connect"})
    /\ Goto(a, "steam")
    /\ UNCHANGED <<steam, slotVars, saved, owing, dirty, lpc, resumeVars,
                   waitVars, watchVars, loggedOut>>

\* set_phase of the confirmation handler
SetPhase(a, phase) ==
    Update(a, IF pending.id = a THEN [pending EXCEPT !.phase = phase]
              ELSE pending)

\* handle_confirmation, with a code among what Steam offers
AskCode(a) ==
    /\ Runs(a, {"steam"})
    /\ SetPhase(a, "need_code")
    /\ Goto(a, "code")
    /\ UNCHANGED <<steam, chan, saved, dirty, lpc, resumeVars, waitVars,
                   watchVars, loggedOut>>

\* ... with the mobile app only
AskDevice(a) ==
    /\ Runs(a, {"steam"})
    /\ SetPhase(a, "waiting_device")
    /\ Goto(a, "poll")
    /\ UNCHANGED <<steam, chan, saved, dirty, lpc, resumeVars, waitVars,
                   watchVars, loggedOut>>

\* code_rx has the code ...
CodeComes(a) ==
    /\ Runs(a, {"code"})
    /\ chan[a] = "sent"
    /\ SetPhase(a, "waiting_device")
    /\ Goto(a, "poll")
    /\ UNCHANGED <<steam, chan, saved, dirty, lpc, resumeVars, waitVars,
                   watchVars, loggedOut>>

\* ... or finds its sender gone.
NoCode(a) ==
    /\ Runs(a, {"code"})
    /\ chan[a] = "dropped"
    /\ Goto(a, "poll")
    /\ UNCHANGED <<steam, slotVars, saved, owing, dirty, lpc, resumeVars,
                   waitVars, watchVars, loggedOut>>

\* Steam lets the user in: without asking, by the code or by the app.
Approved(a) ==
    /\ Runs(a, {"steam", "code", "poll"})
    /\ Goto(a, "save")
    /\ UNCHANGED <<steam, slotVars, saved, owing, dirty, lpc, resumeVars,
                   waitVars, watchVars, loggedOut>>

\* No server is found or Steam refuses.
Refused(a) ==
    /\ Runs(a, {"connect", "steam", "code", "poll"})
    /\ Goto(a, "fail")
    /\ UNCHANGED <<steam, slotVars, saved, owing, dirty, lpc, resumeVars,
                   waitVars, watchVars, loggedOut>>

\* save_session, unless there is no token or the file cannot be written
Save(a) ==
    /\ Runs(a, {"save"})
    /\ saved' \in {saved, AccountOf[a]}
    /\ Goto(a, "ok")
    /\ UNCHANGED <<steam, slotVars, owing, dirty, lpc, resumeVars, waitVars,
                   watchVars, loggedOut>>

SetSteam(a) ==
    /\ Runs(a, {"ok"})
    /\ Installed(a, a)
    /\ Goto(a, "clear")
    /\ UNCHANGED <<slotVars, saved, dirty, lpc, resumeVars, waitVars,
                   watchVars, loggedOut>>

\* Mutant: whoever ends clears the slot.
AnyOnes(t) == TRUE

\* The slot is still this login's.
Mine(t) == pending.id = t

\* clear_pending
Clear(t) ==
    /\ Update(t, IF Mine(t) THEN NoEntry ELSE pending)
    /\ chan' = IF Mine(t) THEN Dropped ELSE chan

ClearPending(a) ==
    /\ Runs(a, {"clear"})
    /\ Clear(a)
    /\ Goto(a, "done")
    /\ UNCHANGED <<steam, saved, dirty, lpc, resumeVars, waitVars, watchVars,
                   loggedOut>>

\* Mutant: an error goes into an empty slot only.
FailsIntoEmpty(a) == pending.id = NoOne

\* No other attempt has the slot.
FailsInto(a) == pending.id \in {NoOne, a}

FailPending(a) ==
    /\ Runs(a, {"fail"})
    /\ Update(a, IF FailsInto(a) THEN [id |-> a, phase |-> "error",
                                       tx |-> FALSE]
                 ELSE pending)
    /\ chan' = IF FailsInto(a) THEN Dropped ELSE chan
    /\ Goto(a, "done")
    /\ UNCHANGED <<steam, saved, dirty, lpc, resumeVars, waitVars, watchVars,
                   loggedOut>>

\* submit_code: whoever has the slot is sent the code; send fails when the
\* attempt does not wait for one any more.
Submit ==
    /\ pending.tx
    /\ pending' = [pending EXCEPT !.tx = FALSE]
    /\ chan' = [chan EXCEPT ![pending.id] =
                  IF apc[pending.id] \in {"connect", "steam", "code"}
                  THEN "sent" ELSE "dropped"]
    /\ UNCHANGED <<steam, saved, owing, dirty, apc, lpc, resumeVars, waitVars,
                   watchVars, loggedOut>>

-----------------------------------------------------------------------------
(* logout                                                                   *)

LogoutClear(l) ==
    /\ lpc[l] = "idle"
    /\ Installed(l, NoClient)
    /\ lpc' = [lpc EXCEPT ![l] = "pending"]
    /\ UNCHANGED <<slotVars, saved, dirty, apc, resumeVars, waitVars,
                   watchVars, loggedOut>>

LogoutPending(l) ==
    /\ lpc[l] = "pending" /\ l \notin owing
    /\ Update(l, NoEntry)
    /\ chan' = Dropped
    /\ lpc' = [lpc EXCEPT ![l] = "forget"]
    /\ UNCHANGED <<steam, saved, dirty, apc, resumeVars, waitVars, watchVars,
                   loggedOut>>

\* forget_session
LogoutForget(l) ==
    /\ lpc[l] = "forget" /\ l \notin owing
    /\ saved' = NoSession
    /\ loggedOut' = TRUE
    /\ lpc' = [lpc EXCEPT ![l] = "done"]
    /\ UNCHANGED <<steam, slotVars, owing, dirty, apc, resumeVars, waitVars,
                   watchVars>>

-----------------------------------------------------------------------------
(* The resume of the saved session                                          *)

ResumeOk ==
    /\ rpc = "running"
    /\ Installed(Resume, Resume)
    /\ rpc' = "clear"
    /\ resumed' = TRUE
    /\ UNCHANGED <<slotVars, saved, dirty, apc, lpc, resuming, panicked,
                   waitVars, watchVars, loggedOut>>

ResumeFails ==
    /\ rpc = "running"
    /\ rpc' = "clear"
    /\ UNCHANGED <<steam, slotVars, saved, owing, dirty, apc, lpc, resuming,
                   resumed, panicked, waitVars, watchVars, loggedOut>>

\* The guard is dropped while the stack unwinds.
ResumePanics ==
    /\ MayPanic
    /\ rpc = "running"
    /\ rpc' = "drop"
    /\ panicked' = TRUE
    /\ UNCHANGED <<steam, slotVars, saved, owing, dirty, apc, lpc, resuming,
                   resumed, waitVars, watchVars, loggedOut>>

ResumeClear ==
    /\ rpc = "clear" /\ Resume \notin owing
    /\ Clear(Resume)
    /\ rpc' = "drop"
    /\ UNCHANGED <<steam, saved, dirty, apc, lpc, resuming, resumed, panicked,
                   waitVars, watchVars, loggedOut>>

\* Mutant: nothing resets the flag.
Kept == resuming

\* What ResumeGuard::drop sends.
Released == FALSE

ResumeEnd ==
    /\ rpc = "drop" /\ Resume \notin owing
    /\ resuming' = Released
    /\ dirty' = [v \in Viewer |-> dirty[v] \cup {"resuming"}]
    /\ rpc' = "done"
    /\ UNCHANGED <<steam, slotVars, saved, owing, apc, lpc, resumed, panicked,
                   waitVars, watchVars, loggedOut>>

-----------------------------------------------------------------------------
(* SteamAccess::client                                                      *)

Wait(w) ==
    /\ wpc[w] = "idle"
    /\ wpc' = [wpc EXCEPT ![w] = "wait"]
    /\ UNCHANGED <<steam, slotVars, saved, owing, dirty, apc, lpc, resumeVars,
                   got, watchVars, loggedOut>>

Pass(w) ==
    /\ wpc[w] = "wait"
    /\ ~resuming
    /\ wpc' = [wpc EXCEPT ![w] = "load"]
    /\ UNCHANGED <<steam, slotVars, saved, owing, dirty, apc, lpc, resumeVars,
                   got, watchVars, loggedOut>>

Load(w) ==
    /\ wpc[w] = "load"
    /\ got' = [got EXCEPT ![w] = steam]
    /\ wpc' = [wpc EXCEPT ![w] = "done"]
    /\ UNCHANGED <<steam, slotVars, saved, owing, dirty, apc, lpc, resumeVars,
                   watchVars, loggedOut>>

-----------------------------------------------------------------------------
(* The `auth` events: a change that was not seen yet leads to a status,     *)
(* which AuthStatus::from_state reads in two steps.                         *)

Show(v, s) ==
    /\ shown' = [shown EXCEPT ![v] = s]
    /\ vpc' = [vpc EXCEPT ![v] = "idle"]

ReadClient(v) ==
    /\ vpc[v] = "idle"
    /\ \E k \in dirty[v] : dirty' = [dirty EXCEPT ![v] = @ \ {k}]
    /\ IF steam # NoClient
       THEN Show(v, [Blank EXCEPT !.client = steam])
       ELSE /\ vpc' = [vpc EXCEPT ![v] = "read"]
            /\ UNCHANGED shown
    /\ UNCHANGED <<steam, slotVars, saved, owing, apc, lpc, resumeVars,
                   waitVars, loggedOut>>

ReadPending(v) ==
    /\ vpc[v] = "read"
    /\ Show(v, [client |-> NoClient, id |-> pending.id,
                phase |-> pending.phase, resuming |-> resuming])
    /\ UNCHANGED <<steam, slotVars, saved, owing, dirty, apc, lpc, resumeVars,
                   waitVars, loggedOut>>

-----------------------------------------------------------------------------
AttemptNext(a) ==
    \/ Begin(a)
    \/ ByToken(a)
    \/ ByPassword(a)
    \/ AskCode(a)
    \/ AskDevice(a)
    \/ CodeComes(a)
    \/ NoCode(a)
    \/ Approved(a)
    \/ Refused(a)
    \/ Save(a)
    \/ SetSteam(a)
    \/ ClearPending(a)
    \/ FailPending(a)

LogoutNext(l) == LogoutClear(l) \/ LogoutPending(l) \/ LogoutForget(l)

ResumeNext == ResumeOk \/ ResumeFails \/ ResumePanics \/ ResumeClear
              \/ ResumeEnd

WaiterNext(w) == Wait(w) \/ Pass(w) \/ Load(w)

ViewerNext(v) == ReadClient(v) \/ ReadPending(v)

Next ==
    \/ \E t \in Task : Notify(t)
    \/ \E a \in Attempt : AttemptNext(a)
    \/ Submit
    \/ \E l \in Logout : LogoutNext(l)
    \/ ResumeNext
    \/ \E w \in Waiter : WaiterNext(w)
    \/ \E v \in Viewer : ViewerNext(v)

Spec == Init /\ [][Next]_vars

\* Tasks that can run are polled, and Steam answers the resume.
Fairness ==
    /\ WF_vars(ResumeNext)
    /\ \A t \in Task : WF_vars(Notify(t))
    /\ \A w \in Waiter : WF_vars(Pass(w) \/ Load(w))
    /\ \A v \in Viewer : WF_vars(ViewerNext(v))

FairSpec == Spec /\ Fairness

-----------------------------------------------------------------------------
(* Properties                                                               *)

Phases == {"none", "starting", "waiting_device", "need_code", "error"}

SlotTypeOK ==
    /\ pending \in [id : Attempt \cup {Resume, NoOne}, phase : Phases,
                    tx : BOOLEAN]
    /\ chan \in [Attempt -> {"none", "open", "sent", "dropped"}]

TaskTypeOK ==
    /\ apc \in [Attempt -> {"idle", "connect", "steam", "code", "poll", "save",
                            "ok", "clear", "fail", "done"}]
    /\ lpc \in [Logout -> {"idle", "pending", "forget", "done"}]
    /\ rpc \in {"running", "clear", "drop", "done"}
    /\ owing \subseteq Task

StatusTypeOK ==
    /\ steam \in Attempt \cup {Resume, NoClient}
    /\ resuming \in BOOLEAN
    /\ saved \in Account \cup {NoSession}
    /\ resumed \in BOOLEAN
    /\ panicked \in BOOLEAN
    /\ loggedOut \in BOOLEAN

WatchTypeOK ==
    /\ dirty \in [Viewer -> SUBSET {"login", "resuming"}]
    /\ vpc \in [Viewer -> {"idle", "read"}]
    /\ shown \in [Viewer -> [client : Attempt \cup {Resume, NoClient},
                             id : Attempt \cup {Resume, NoOne},
                             phase : Phases \cup {"unsent"},
                             resuming : BOOLEAN]]
    /\ wpc \in [Waiter -> {"idle", "wait", "load", "done"}]
    /\ got \in [Waiter -> Attempt \cup {Resume, NoClient}]

\* A login's code can be sent exactly while the slot holds its sender.
SenderInSlot == \A a \in Attempt : chan[a] = "open" <=>
                                       pending.id = a /\ pending.tx

\* Every variable stays in its domain, and no sender is leaked.
TypeOK == /\ SlotTypeOK
          /\ TaskTypeOK
          /\ StatusTypeOK
          /\ WatchTypeOK
          /\ SenderInSlot

Working(t) == IF t = Resume THEN rpc \in {"running", "clear"}
              ELSE apc[t] \notin {"idle", "done"}

\* "In-progress interactive login" (auth.rs:44): while the slot shows a login
\* in progress, a task works on it and will take it out or turn it into an
\* error.  (A resume that panics leaves its entry behind.)
PendingHasTask ==
    pending.id # NoOne /\ pending.phase # "error" /\ ~panicked =>
        Working(pending.id)

\* "`id` disambiguates attempts so a superseded one can't clobber a newer
\* one's state" (auth.rs:45-46): the entry of a login in progress goes by its
\* own task, a newer login or a logout, and by no other task's end.
KeepsEntry ==
    \A t \in Attempt \cup {Resume} :
        pending.id = t /\ pending'.id # t /\ Working(t) =>
            \/ ~Working(t)'
            \/ \E a \in Attempt : apc[a] = "idle" /\ apc'[a] # "idle"
            \/ \E l \in Logout : lpc[l] = "pending" /\ lpc'[l] = "forget"

EntryKept == [][KeepsEntry]_vars

\* "Taken before the task starts, so requests arriving right away wait for
\* the resume" (main.rs:136): when the resume succeeds, no request is told
\* that nobody is logged in, unless somebody logged out.
ResumeServes ==
    \A w \in Waiter :
        wpc[w] = "done" /\ got[w] = NoClient /\ resumed =>
            \E l \in Logout : lpc[l] # "idle"

StatusNow == IF steam # NoClient THEN [Blank EXCEPT !.client = steam]
             ELSE [client |-> NoClient, id |-> pending.id,
                   phase |-> pending.phase, resuming |-> resuming]

\* "`auth` on connect and on every login change" (events.rs:4-5): a stream
\* that has sent a status for every change it was notified of has sent the
\* current one, unless a notification is due - although a status is read in
\* two steps and may be torn.
ShownCurrent ==
    \A v \in Viewer :
        vpc[v] = "idle" /\ dirty[v] = {} /\ owing = {} => shown[v] = StatusNow

\* "Marks the saved-session resume as running until dropped, also when the
\* resume panics" (access.rs:45): every request that waits for it returns.
WaiterReturns == \A w \in Waiter : wpc[w] = "wait" ~> wpc[w] = "done"

-----------------------------------------------------------------------------
(* Statements of comments that the code does not keep.                      *)

\* "Delete the saved session so a restart doesn't log back in automatically"
\* (auth.rs:352): after a logout and no login since, no session is saved.
SessionForgotten == loggedOut => saved = NoSession

\* "so a superseded one can't clobber a newer one's state" (auth.rs:45-46):
\* once the login that has the slot is installed, an older one is not.
NewerClientKept ==
    [][\A a, b \in Attempt :
         a # b /\ pending.id = b /\ steam = b => steam' # a]_vars

\* "Deliver a Steam Guard code to a parked login. Errors if no login is
\* awaiting a code" (auth.rs:123-124).
CodeAwaited ==
    [][\A a \in Attempt :
         chan[a] = "open" /\ chan'[a] = "sent" => apc[a] = "code"]_vars

\* "Registered as a pending login so the UI shows progress instead of an empty
\* login form" (main.rs:131-132): when a session is resumed, no page is sent
\* an empty status, unless somebody logs out.
NoEmptyForm ==
    resumed /\ (\A l \in Logout : lpc[l] = "idle") =>
        \A v \in Viewer : shown[v] # Blank
=============================================================================
