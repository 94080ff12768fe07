------------------------------- MODULE Export -------------------------------
(***************************************************************************)
(* The export manager (state/export.rs): one slot, claimed by start and    *)
(* given back by the run it spawns, which writes a manifest's files one    *)
(* after the other, next to calls of start and cancel.                     *)
(*                                                                         *)
(* A run is one call of start.  Two locks' worth of state are shared: the  *)
(* status (its state is Running exactly when it names a run) and the       *)
(* atomic flag `cancelled`, which belongs to no run.  The chunk service is *)
(* the await of WaitChunks (see ChunkService), the disk an operation that  *)
(* works or fails.  Sizes are counted in units of which a window holds     *)
(* Window.                                                                 *)
(***************************************************************************)
EXTENDS Naturals, FiniteSets

CONSTANTS
    Run,         \* calls of start
    File,        \* the files of the plan
    Size,        \* [File -> Nat]
    Window,      \* WRITE_WINDOW
    NoRun, NoFile,
    MaxCancels   \* bound: calls of cancel

ASSUME ExportConstants ==
    /\ IsFiniteSet(File)
    /\ Size \in [File -> Nat]
    /\ Window \in Nat \ {0}
    /\ NoRun \notin Run
    /\ NoFile \notin File
    /\ MaxCancels \in Nat

VARIABLES
    status,      \* ExportStatus: the run, files_done, bytes_written
    cancelled,   \* the flag
    pc, file, offset, wrote, linked, result,   \* one entry per run
    report,      \* the final status each run sends on `finished`
    asked,       \* history: runs during which cancel was called
    cancels      \* history: calls of cancel so far

runVars == <<pc, file, offset, wrote, linked, result, report>>
vars == <<status, cancelled, runVars, asked, cancels>>

\* ExportStatus::default()
Idle == [run |-> NoRun, files |-> 0, bytes |-> 0]

NoReport == [state |-> "none", files |-> 0, bytes |-> 0]

Init ==
    /\ status = Idle
    /\ cancelled = FALSE
    /\ pc = [r \in Run |-> "called"]
    /\ file = [r \in Run |-> NoFile]
    /\ offset = [r \in Run |-> 0]
    /\ wrote = [r \in Run |-> {}]
    /\ linked = [r \in Run |-> FALSE]
    /\ result = [r \in Run |-> "none"]
    /\ report = [r \in Run |-> NoReport]
    /\ asked = {}
    /\ cancels = 0

-----------------------------------------------------------------------------
(* start                                                                    *)

\* Mutant: the state is not looked at.
SlotIgnored == TRUE

\* No export is running.
SlotFree == status.run = NoRun

Claim(r) ==
    /\ pc[r] = "called"
    /\ SlotFree
    /\ status' = [Idle EXCEPT !.run = r]
    /\ pc' = [pc EXCEPT ![r] = "claimed"]
    /\ UNCHANGED <<cancelled, file, offset, wrote, linked, result, report,
                   asked, cancels>>

\* AlreadyRunning, or a plan with an unsafe path.
Refuse(r) ==
    /\ pc[r] = "called"
    /\ pc' = [pc EXCEPT ![r] = "refused"]
    /\ UNCHANGED <<status, cancelled, file, offset, wrote, linked, result,
                   report, asked, cancels>>

\* Mutant: the flag keeps what an earlier export left in it.
Stale == cancelled

\* What the flag is set to when a run is spawned.
Fresh == FALSE

Spawn(r) ==
    /\ pc[r] = "claimed"
    /\ cancelled' = Fresh
    /\ pc' = [pc EXCEPT ![r] = "dirs"]
    /\ UNCHANGED <<status, file, offset, wrote, linked, result, report, asked,
                   cancels>>

-----------------------------------------------------------------------------
(* run                                                                      *)

\* The directories are made and every chunk is enqueued.
Prepare(r) ==
    /\ pc[r] = "dirs"
    /\ pc' = [pc EXCEPT ![r] = "next"]
    /\ UNCHANGED <<status, cancelled, file, offset, wrote, linked, result,
                   report, asked, cancels>>

\* Run r is over and its result is known.
Stop(r, res) ==
    /\ pc' = [pc EXCEPT ![r] = "over"]
    /\ result' = [result EXCEPT ![r] = res]

StopCancelled(r) ==
    /\ pc[r] = "next"
    /\ wrote[r] # File
    /\ cancelled
    /\ Stop(r, "Ok")
    /\ UNCHANGED <<status, cancelled, file, offset, wrote, linked, report,
                   asked, cancels>>

NextFile(r) ==
    /\ pc[r] = "next"
    /\ ~cancelled
    /\ \E f \in File \ wrote[r] : file' = [file EXCEPT ![r] = f]
    /\ offset' = [offset EXCEPT ![r] = 0]
    /\ pc' = [pc EXCEPT ![r] = "chunks"]
    /\ UNCHANGED <<status, cancelled, wrote, linked, result, report, asked,
                   cancels>>

\* enqueue_and_wait returns, the file is created.
WaitChunks(r) ==
    /\ pc[r] = "chunks"
    /\ pc' = [pc EXCEPT ![r] = "write"]
    /\ UNCHANGED <<status, cancelled, file, offset, wrote, linked, result,
                   report, asked, cancels>>

\* Mutant: the buffer's capacity is counted, not what was read into it.
ByWindow(n) == [status EXCEPT !.bytes = @ + Window]

\* bytes_written grows by what was read.
ByRead(n) == [status EXCEPT !.bytes = @ + n]

\* One window is read and written out.
WriteWindow(r) ==
    /\ pc[r] = "write"
    /\ \E n \in 1..Window :
          /\ offset[r] + n <= Size[file[r]]
          /\ offset' = [offset EXCEPT ![r] = @ + n]
          /\ status' = ByRead(n)
    /\ UNCHANGED <<cancelled, pc, file, wrote, linked, result, report, asked,
                   cancels>>

FinishFile(r) ==
    /\ pc[r] = "write"
    /\ offset[r] >= Size[file[r]]
    /\ wrote' = [wrote EXCEPT ![r] = @ \cup {file[r]}]
    /\ status' = [status EXCEPT !.files = @ + 1]
    /\ file' = [file EXCEPT ![r] = NoFile]
    /\ offset' = [offset EXCEPT ![r] = 0]
    /\ pc' = [pc EXCEPT ![r] = "next"]
    /\ UNCHANGED <<cancelled, linked, result, report, asked, cancels>>

\* The symlinks come last, whatever the flag says by then.
Link(r) ==
    /\ pc[r] = "next"
    /\ wrote[r] = File
    /\ linked' = [linked EXCEPT ![r] = TRUE]
    /\ Stop(r, "Ok")
    /\ UNCHANGED <<status, cancelled, file, offset, wrote, report, asked,
                   cancels>>

\* A directory, file, read, write or link fails, or the run panics.
Fail(r) ==
    /\ \/ pc[r] \in {"dirs", "chunks", "write"}
       \/ pc[r] = "next" /\ wrote[r] = File
    /\ Stop(r, "Err")
    /\ UNCHANGED <<status, cancelled, file, offset, wrote, linked, report,
                   asked, cancels>>

-----------------------------------------------------------------------------
(* The bookkeeping after run, under the status lock.                        *)

\* Mutant: what run returns is taken for what became of the export.
OutcomeOfResult(res) == IF res = "Err" THEN "Failed" ELSE "Done"

\* Mutant: the state the run had is sent on.
OutcomeUnset(res) == "Running"

Outcome(res) == CASE res = "Err" -> "Failed"
                  [] res = "Ok" /\ cancelled -> "Cancelled"
                  [] OTHER -> "Done"

\* Mutant: the status is copied, not taken.
Copied == status

\* mem::take leaves the default status behind.
Taken == Idle

Settle(r) ==
    /\ pc[r] = "over"
    /\ report' = [report EXCEPT ![r] = [state |-> Outcome(result[r]),
                                        files |-> status.files,
                                        bytes |-> status.bytes]]
    /\ status' = Taken
    /\ pc' = [pc EXCEPT ![r] = "settled"]
    /\ UNCHANGED <<cancelled, file, offset, wrote, linked, result, asked,
                   cancels>>

\* The outcome is sent on `finished`.
Announce(r) ==
    /\ pc[r] = "settled"
    /\ pc' = [pc EXCEPT ![r] = "announced"]
    /\ UNCHANGED <<status, cancelled, file, offset, wrote, linked, result,
                   report, asked, cancels>>

-----------------------------------------------------------------------------
Cancel ==
    /\ cancels < MaxCancels
    /\ cancels' = cancels + 1
    /\ cancelled' = TRUE
    /\ asked' = asked \cup ({status.run} \ {NoRun})
    /\ UNCHANGED <<status, runVars>>

RunStep(r) ==
    \/ Spawn(r)
    \/ Prepare(r)
    \/ StopCancelled(r)
    \/ NextFile(r)
    \/ WaitChunks(r)
    \/ WriteWindow(r)
    \/ FinishFile(r)
    \/ Link(r)
    \/ Fail(r)
    \/ Settle(r)
    \/ Announce(r)

Next ==
    \/ \E r \in Run : Claim(r) \/ Refuse(r) \/ RunStep(r)
    \/ Cancel

Spec == Init /\ [][Next]_vars

\* The spawned task is polled, its awaits end.
Fairness == \A r \in Run : WF_vars(RunStep(r))

FairSpec == Spec /\ Fairness

-----------------------------------------------------------------------------
(* Properties                                                               *)

Phases == {"called", "refused", "claimed", "dirs", "next", "chunks", "write",
           "over", "settled", "announced"}

\* Every variable stays in its domain, and a run works on a file of its plan.
TypeOK ==
    /\ status \in [run : Run \cup {NoRun}, files : Nat, bytes : Nat]
    /\ cancelled \in BOOLEAN
    /\ pc \in [Run -> Phases]
    /\ file \in [Run -> File \cup {NoFile}]
    /\ offset \in [Run -> Nat]
    /\ wrote \in [Run -> SUBSET File]
    /\ linked \in [Run -> BOOLEAN]
    /\ result \in [Run -> {"none", "Ok", "Err"}]
    /\ report \in [Run -> [state : {"none", "Done", "Failed", "Cancelled"},
                           files : Nat, bytes : Nat]]
    /\ asked \subseteq Run
    /\ cancels \in Nat
    /\ \A r \in Run : pc[r] \in {"chunks", "write"} => file[r] \in File

\* Run r holds the slot.
Holds(r) == pc[r] \in {"claimed", "dirs", "next", "chunks", "write", "over"}

\* "Claim the single export slot" (export.rs:120): the slot names a run
\* exactly while that run is at work, so two exports never write at once and
\* no progress is booked to a run that is over.
OneRun == \A r \in Run : Holds(r) <=> status.run = r

\* A run reported Cancelled was cancelled: the flag an earlier cancel left
\* behind, or one meant for an earlier export, does not end a later one.
CancelledAsked == \A r \in Run : report[r].state = "Cancelled" => r \in asked

\* A run reported Done has written every file and every link, and says so:
\* run returns Ok both for a finished and for an abandoned export.
DoneComplete ==
    \A r \in Run : report[r].state = "Done" =>
        /\ wrote[r] = File
        /\ linked[r]
        /\ report[r].files = Cardinality(File)

\* The outcome that a run reports is the one it had.
OutcomeTrue == CancelledAsked /\ DoneComplete

\* The units in the files of S, and how many those are.
Units(S) == UNION {{f} \X (1 .. Size[f]) : f \in S}

BytesOf(S) == Cardinality(Units(S))

\* The progress adds up: bytes_written is what the files done so far and the
\* open one hold, and a finished export reports bytes_total.
BytesAddUp ==
    \A r \in Run :
        /\ Holds(r) => status.bytes = BytesOf(wrote[r]) + offset[r]
        /\ report[r].state = "Done" => report[r].bytes = BytesOf(File)

\* "Without this a panic would skip the bookkeeping below and leave the
\* export stuck on `Running`, blocking every later one" (export.rs:149-150):
\* every claimed slot is given back and its outcome announced.
SlotComesBack ==
    \A r \in Run : /\ status.run = r ~> status.run # r
                   /\ pc[r] = "claimed" ~> pc[r] = "announced"

-----------------------------------------------------------------------------
(* A statement of a comment that the code does not keep.                    *)

\* "Cancel the running export" (routes/export.rs:102): an export that was
\* running when cancel was called is not reported Done.
CancelHeard == \A r \in asked : report[r].state # "Done"
=============================================================================
