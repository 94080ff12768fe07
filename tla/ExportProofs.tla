---------------------------- MODULE ExportProofs ----------------------------
(***************************************************************************)
(* Machine-checked facts about Export: typing, that the slot and the run   *)
(* at work go together, that only a cancelled run is reported Cancelled,   *)
(* and that a run reported Done is complete.                               *)
(***************************************************************************)
EXTENDS Export, FiniteSetTheorems, TLAPS

USE DEF SlotFree, Fresh, Taken, ByRead

AllVars == <<status, cancelled, pc, file, offset, wrote, linked, result,
             report, asked, cancels>>

\* A stuttering step changes no variable.
LEMMA Stutter == UNCHANGED vars => UNCHANGED AllVars
BY DEF vars, AllVars, runVars

\* What a run may be reported as.
LEMMA OutcomeType ==
    ASSUME NEW res
    PROVE  Outcome(res) \in {"Done", "Failed", "Cancelled"}
BY DEF Outcome

-----------------------------------------------------------------------------
(* Typing                                                                   *)

LEMMA TypeInit == Init => TypeOK
<1> SUFFICES ASSUME Init PROVE TypeOK
  OBVIOUS
<1>1. /\ status \in [run : Run \cup {NoRun}, files : Nat, bytes : Nat]
      /\ cancelled \in BOOLEAN
      /\ linked \in [Run -> BOOLEAN]
  BY DEF Init, Idle
<1>2. /\ pc \in [Run -> Phases]
      /\ file \in [Run -> File \cup {NoFile}]
      /\ offset \in [Run -> Nat]
      /\ wrote \in [Run -> SUBSET File]
      /\ result \in [Run -> {"none", "Ok", "Err"}]
      /\ \A r \in Run : pc[r] = "called"
  BY DEF Init, Phases
<1>3. report \in [Run -> [state : {"none", "Done", "Failed", "Cancelled"},
                         files : Nat, bytes : Nat]]
  BY DEF Init, NoReport
<1>4. asked \subseteq Run /\ cancels \in Nat
  BY DEF Init
<1>5. QED
  BY <1>1, <1>2, <1>3, <1>4 DEF TypeOK

LEMMA TypeRun ==
    ASSUME TypeOK, NEW r \in Run, Claim(r) \/ Refuse(r) \/ RunStep(r)
    PROVE  TypeOK'
<1> USE ExportConstants DEF TypeOK, Phases
<1>1. CASE Claim(r)
  BY <1>1 DEF Claim, Idle
<1>2. CASE Refuse(r)
  BY <1>2 DEF Refuse
<1>3. CASE Spawn(r)
  BY <1>3 DEF Spawn
<1>4. CASE Prepare(r)
  BY <1>4 DEF Prepare
<1>5. CASE StopCancelled(r)
  BY <1>5 DEF StopCancelled, Stop
<1>6. CASE NextFile(r)
  BY <1>6 DEF NextFile
<1>7. CASE WaitChunks(r)
  BY <1>7 DEF WaitChunks
<1>8. CASE WriteWindow(r)
  <2>1. PICK n \in 1..Window : /\ offset' = [offset EXCEPT ![r] = @ + n]
                               /\ status' = [status EXCEPT !.bytes = @ + n]
    BY <1>8 DEF WriteWindow
  <2>2. offset' \in [Run -> Nat]
    BY <2>1
  <2>3. status' \in [run : Run \cup {NoRun}, files : Nat, bytes : Nat]
    BY <2>1
  <2>4. QED
    BY <1>8, <2>2, <2>3 DEF WriteWindow
<1>9. CASE FinishFile(r)
  BY <1>9 DEF FinishFile
<1>10. CASE Link(r)
  BY <1>10 DEF Link, Stop
<1>11. CASE Fail(r)
  BY <1>11 DEF Fail, Stop
<1>12. CASE Settle(r)
  BY <1>12, OutcomeType DEF Settle, Idle
<1>13. CASE Announce(r)
  BY <1>13 DEF Announce
<1>14. QED
  BY <1>1, <1>2, <1>3, <1>4, <1>5, <1>6, <1>7, <1>8, <1>9, <1>10, <1>11,
     <1>12, <1>13 DEF RunStep

LEMMA TypeNext == TypeOK /\ [Next]_vars => TypeOK'
<1> SUFFICES ASSUME TypeOK, [Next]_vars PROVE TypeOK'
  OBVIOUS
<1>1. CASE \E r \in Run : Claim(r) \/ Refuse(r) \/ RunStep(r)
  BY <1>1, TypeRun
<1>2. CASE Cancel
  BY <1>2 DEF Cancel, TypeOK, runVars
<1>3. CASE UNCHANGED vars
  BY <1>3, Stutter DEF TypeOK, AllVars
<1>4. QED
  BY <1>1, <1>2, <1>3 DEF Next

\* Every variable of the export manager stays in its domain.
THEOREM ExportTypeCorrect == Spec => []TypeOK
BY TypeInit, TypeNext, PTL DEF Spec

-----------------------------------------------------------------------------
(* The slot                                                                 *)

LEMMA SlotInit == Init => OneRun
BY ExportConstants DEF Init, OneRun, Holds, Idle

LEMMA SlotNext == TypeOK /\ OneRun /\ [Next]_vars => OneRun'
<1> SUFFICES ASSUME TypeOK, OneRun, [Next]_vars PROVE OneRun'
  OBVIOUS
<1> USE ExportConstants DEF OneRun, Holds, TypeOK
<1>1. ASSUME NEW r \in Run, Claim(r) PROVE OneRun'
  BY <1>1 DEF Claim, Idle
<1>2. ASSUME NEW r \in Run, Refuse(r) PROVE OneRun'
  BY <1>2 DEF Refuse
<1>3. ASSUME NEW r \in Run, RunStep(r) PROVE OneRun'
  <2>1. CASE Spawn(r) \/ Prepare(r) \/ NextFile(r) \/ WaitChunks(r)
    BY <2>1 DEF Spawn, Prepare, NextFile, WaitChunks
  <2>2. CASE StopCancelled(r) \/ Link(r) \/ Fail(r)
    BY <2>2 DEF StopCancelled, Link, Fail, Stop
  <2>3. CASE WriteWindow(r) \/ FinishFile(r)
    BY <2>3 DEF WriteWindow, FinishFile
  <2>4. CASE Settle(r)
    BY <2>4 DEF Settle, Idle
  <2>5. CASE Announce(r)
    BY <2>5 DEF Announce
  <2>6. QED
    BY <1>3, <2>1, <2>2, <2>3, <2>4, <2>5 DEF RunStep
<1>4. CASE Cancel
  BY <1>4 DEF Cancel, runVars
<1>5. CASE UNCHANGED vars
  BY <1>5 DEF vars, runVars
<1>6. QED
  BY <1>1, <1>2, <1>3, <1>4, <1>5 DEF Next

\* The slot names a run exactly while that run is at work.
THEOREM OneExport == Spec => []OneRun
<1>1. Init => TypeOK /\ OneRun
  BY TypeInit, SlotInit
<1>2. TypeOK /\ OneRun /\ [Next]_vars => TypeOK' /\ OneRun'
  BY TypeNext, SlotNext
<1>3. QED
  BY <1>1, <1>2, PTL DEF Spec

-----------------------------------------------------------------------------
(* The flag and the outcome                                                 *)

\* Once a run has reset the flag, only a cancel of that run sets it.
FlagAsked ==
    \A r \in Run : Holds(r) /\ pc[r] # "claimed" /\ cancelled => r \in asked

\* Files are done one at a time and each only once.
Progress ==
    \A r \in Run :
        /\ pc[r] = "called" => wrote[r] = {}
        /\ Holds(r) => status.files = Cardinality(wrote[r])
        /\ pc[r] = "claimed" => wrote[r] = {}
        /\ pc[r] \in {"chunks", "write"} => file[r] \notin wrote[r]

\* run returns Ok for a complete export or for a cancelled one.
OkMeaning ==
    \A r \in Run : pc[r] = "over" /\ result[r] = "Ok" =>
        \/ cancelled
        \/ wrote[r] = File /\ linked[r]

\* A run that is over has a result; only later does it have a report.
Sequence ==
    \A r \in Run :
        /\ pc[r] = "over" => result[r] \in {"Ok", "Err"}
        /\ pc[r] \notin {"settled", "announced"} => report[r] = NoReport

OutcomeInv == /\ FlagAsked
              /\ Progress
              /\ OkMeaning
              /\ Sequence
              /\ CancelledAsked
              /\ DoneComplete

LEMMA OutcomeInit == Init => OutcomeInv
<1> SUFFICES ASSUME Init PROVE OutcomeInv
  OBVIOUS
<1>1. \A r \in Run : pc[r] = "called" /\ wrote[r] = {} /\ report[r] = NoReport
  BY DEF Init
<1>2. QED
  BY <1>1 DEF OutcomeInv, FlagAsked, Progress, OkMeaning, Sequence, Holds,
     CancelledAsked, DoneComplete, NoReport

\* What the status lock makes of a result.
LEMMA OutcomeMeaning ==
    ASSUME NEW res \in {"Ok", "Err"}
    PROVE  /\ Outcome(res) = "Cancelled" => cancelled
           /\ Outcome(res) = "Done" => res = "Ok" /\ ~cancelled
BY DEF Outcome

LEMMA FlagNext == TypeOK /\ OneRun /\ FlagAsked /\ [Next]_vars => FlagAsked'
<1> SUFFICES ASSUME TypeOK, OneRun, FlagAsked, [Next]_vars PROVE FlagAsked'
  OBVIOUS
<1> USE ExportConstants DEF FlagAsked, Holds, TypeOK
<1>1. ASSUME NEW r \in Run, Claim(r) \/ Refuse(r) PROVE FlagAsked'
  BY <1>1 DEF Claim, Refuse
<1>2. ASSUME NEW r \in Run, RunStep(r) PROVE FlagAsked'
  <2>1. CASE Spawn(r)
    BY <2>1 DEF Spawn
  <2>2. CASE Prepare(r) \/ NextFile(r) \/ WaitChunks(r)
    BY <2>2 DEF Prepare, NextFile, WaitChunks
  <2>3. CASE StopCancelled(r) \/ Link(r) \/ Fail(r)
    BY <2>3 DEF StopCancelled, Link, Fail, Stop
  <2>4. CASE WriteWindow(r) \/ FinishFile(r)
    BY <2>4 DEF WriteWindow, FinishFile
  <2>5. CASE Settle(r) \/ Announce(r)
    BY <2>5 DEF Settle, Announce
  <2>6. QED
    BY <1>2, <2>1, <2>2, <2>3, <2>4, <2>5 DEF RunStep
<1>3. CASE Cancel
  BY <1>3 DEF Cancel, runVars, OneRun
<1>4. CASE UNCHANGED vars
  BY <1>4 DEF vars, runVars
<1>5. QED
  BY <1>1, <1>2, <1>3, <1>4 DEF Next

LEMMA ProgressNext ==
    TypeOK /\ OneRun /\ Progress /\ [Next]_vars => Progress'
<1> SUFFICES ASSUME TypeOK, OneRun, Progress, [Next]_vars PROVE Progress'
  OBVIOUS
<1> USE ExportConstants DEF Progress, Holds, TypeOK
<1>1. ASSUME NEW r \in Run, Claim(r) PROVE Progress'
  <2>1. \A q \in Run : Holds(q)' => q = r
    BY <1>1 DEF Claim, OneRun
  <2>2. wrote'[r] = {} /\ status'.files = 0
    BY <1>1 DEF Claim, Idle
  <2>3. QED
    BY <1>1, <2>1, <2>2, FS_EmptySet DEF Claim
<1>2. ASSUME NEW r \in Run, Refuse(r) PROVE Progress'
  BY <1>2 DEF Refuse
<1>3. ASSUME NEW r \in Run, RunStep(r) PROVE Progress'
  <2>1. CASE Spawn(r) \/ Prepare(r) \/ WaitChunks(r)
    BY <2>1 DEF Spawn, Prepare, WaitChunks
  <2>2. CASE NextFile(r)
    BY <2>2 DEF NextFile
  <2>3. CASE StopCancelled(r) \/ Link(r) \/ Fail(r)
    BY <2>3 DEF StopCancelled, Link, Fail, Stop
  <2>4. CASE WriteWindow(r)
    <3>1. status'.files = status.files
      BY <2>4 DEF WriteWindow
    <3>2. QED
      BY <2>4, <3>1 DEF WriteWindow
  <2>5. CASE FinishFile(r)
    <3>1. \A q \in Run : Holds(q)' => q = r
      BY <2>5 DEF FinishFile, OneRun
    <3>2. IsFiniteSet(wrote[r]) /\ file[r] \notin wrote[r]
      BY <2>5, FS_Subset DEF FinishFile
    <3>3. Cardinality(wrote'[r]) = Cardinality(wrote[r]) + 1
      <4>1. wrote'[r] = wrote[r] \cup {file[r]}
        BY <2>5 DEF FinishFile
      <4> DEFINE W == wrote[r]
                 f == file[r]
      <4>3. IsFiniteSet(W) /\ f \notin W
        BY <3>2
      <4> HIDE DEF W, f
      <4>4. Cardinality(W \cup {f}) = Cardinality(W) + 1
        BY <4>3, FS_AddElement
      <4>5. QED
        BY <4>1, <4>4 DEF W, f
    <3>4. status'.files = status.files + 1
      BY <2>5 DEF FinishFile
    <3>5. QED
      BY <2>5, <3>1, <3>3, <3>4 DEF FinishFile
  <2>6. CASE Settle(r)
    <3>1. \A q \in Run : ~Holds(q)'
      BY <2>6 DEF Settle, OneRun
    <3>2. QED
      BY <2>6, <3>1 DEF Settle
  <2>7. CASE Announce(r)
    BY <2>7 DEF Announce
  <2>8. QED
    BY <1>3, <2>1, <2>2, <2>3, <2>4, <2>5, <2>6, <2>7 DEF RunStep
<1>4. CASE Cancel
  BY <1>4 DEF Cancel, runVars
<1>5. CASE UNCHANGED vars
  BY <1>5 DEF vars, runVars
<1>6. QED
  BY <1>1, <1>2, <1>3, <1>4, <1>5 DEF Next

LEMMA OkNext ==
    TypeOK /\ OneRun /\ OkMeaning /\ [Next]_vars => OkMeaning'
<1> SUFFICES ASSUME TypeOK, OneRun, OkMeaning, [Next]_vars PROVE OkMeaning'
  OBVIOUS
<1> USE ExportConstants DEF OkMeaning, TypeOK
<1>1. ASSUME NEW r \in Run, Claim(r) \/ Refuse(r) PROVE OkMeaning'
  BY <1>1 DEF Claim, Refuse
<1>2. ASSUME NEW r \in Run, RunStep(r) PROVE OkMeaning'
  <2>1. CASE Spawn(r)
    BY <2>1 DEF Spawn, OneRun, Holds
  <2>2. CASE Prepare(r) \/ NextFile(r) \/ WaitChunks(r)
    BY <2>2 DEF Prepare, NextFile, WaitChunks
  <2>3. CASE StopCancelled(r)
    <3>1. cancelled'
      BY <2>3, Zenon DEF StopCancelled
    <3>2. QED
      BY <3>1, Zenon
  <2>4. CASE Link(r)
    BY <2>4 DEF Link, Stop
  <2>5. CASE Fail(r)
    BY <2>5 DEF Fail, Stop
  <2>6. CASE WriteWindow(r) \/ FinishFile(r)
    BY <2>6 DEF WriteWindow, FinishFile
  <2>7. CASE Settle(r) \/ Announce(r)
    BY <2>7 DEF Settle, Announce
  <2>8. QED
    BY <1>2, <2>1, <2>2, <2>3, <2>4, <2>5, <2>6, <2>7 DEF RunStep
<1>3. CASE Cancel
  BY <1>3 DEF Cancel, runVars
<1>4. CASE UNCHANGED vars
  BY <1>4 DEF vars, runVars
<1>5. QED
  BY <1>1, <1>2, <1>3, <1>4 DEF Next

\* The report is written once, from what the slot and the flag say then.
LEMMA ReportNext ==
    ASSUME TypeOK, OneRun, OutcomeInv, [Next]_vars
    PROVE  Sequence' /\ CancelledAsked' /\ DoneComplete'
<1> USE ExportConstants DEF TypeOK
<1>1. ASSUME NEW r \in Run, Settle(r)
      PROVE  Sequence' /\ CancelledAsked' /\ DoneComplete'
  <2>1. result[r] \in {"Ok", "Err"} /\ Holds(r)
    BY <1>1 DEF Settle, OutcomeInv, Sequence, Holds
  <2>2. /\ report'[r].state = Outcome(result[r])
        /\ report'[r].files = status.files
        /\ \A q \in Run \ {r} : report'[q] = report[q]
    BY <1>1 DEF Settle
  <2>3. Sequence'
    BY <1>1 DEF Settle, OutcomeInv, Sequence
  <2>4. CancelledAsked'
    <3>1. report'[r].state = "Cancelled" => r \in asked
      BY <1>1, <2>1, <2>2, OutcomeMeaning DEF Settle, OutcomeInv, FlagAsked
    <3>2. QED
      BY <1>1, <2>2, <3>1 DEF Settle, OutcomeInv, CancelledAsked
  <2>5. DoneComplete'
    <3>1. report'[r].state = "Done" =>
            wrote[r] = File /\ linked[r] /\ status.files = Cardinality(File)
      BY <1>1, <2>1, <2>2, OutcomeMeaning
      DEF Settle, OutcomeInv, OkMeaning, Progress
    <3>2. QED
      BY <1>1, <2>2, <3>1 DEF Settle, OutcomeInv, DoneComplete
  <2>6. QED
    BY <2>3, <2>4, <2>5
<1>2. ASSUME NEW r \in Run, Announce(r)
      PROVE  Sequence' /\ CancelledAsked' /\ DoneComplete'
  BY <1>2
  DEF Announce, OutcomeInv, Sequence, CancelledAsked, DoneComplete
<1>3. ASSUME NEW r \in Run, Claim(r) \/ Refuse(r) \/ Spawn(r) \/ Prepare(r)
                            \/ NextFile(r) \/ WaitChunks(r) \/ WriteWindow(r)
      PROVE  Sequence' /\ CancelledAsked' /\ DoneComplete'
  <2>1. /\ report' = report
        /\ wrote' = wrote
        /\ linked' = linked
        /\ asked' = asked
        /\ result' = result
    BY <1>3
    DEF Claim, Refuse, Spawn, Prepare, NextFile, WaitChunks, WriteWindow
  <2>2. \A q \in Run : pc'[q] # pc[q] =>
          /\ pc[q] \notin {"settled", "announced"}
          /\ pc'[q] \notin {"over", "settled", "announced"}
    BY <1>3
    DEF Claim, Refuse, Spawn, Prepare, NextFile, WaitChunks, WriteWindow
  <2>3. QED
    BY <2>1, <2>2
    DEF OutcomeInv, Sequence, CancelledAsked, DoneComplete
<1>4. ASSUME NEW r \in Run, StopCancelled(r) \/ Link(r) \/ Fail(r)
                            \/ FinishFile(r)
      PROVE  Sequence' /\ CancelledAsked' /\ DoneComplete'
  <2>1. report' = report /\ asked' = asked
    BY <1>4 DEF StopCancelled, Link, Fail, FinishFile
  <2>2. report[r] = NoReport
    BY <1>4
    DEF StopCancelled, Link, Fail, FinishFile, OutcomeInv, Sequence
  <2>3. \A q \in Run \ {r} : /\ pc'[q] = pc[q]
                             /\ result'[q] = result[q]
                             /\ wrote'[q] = wrote[q]
                             /\ linked'[q] = linked[q]
    BY <1>4 DEF StopCancelled, Link, Fail, FinishFile, Stop
  <2>4. /\ pc'[r] \notin {"settled", "announced"}
        /\ pc'[r] = "over" => result'[r] \in {"Ok", "Err"}
    BY <1>4 DEF StopCancelled, Link, Fail, FinishFile, Stop
  <2>5. QED
    BY <2>1, <2>2, <2>3, <2>4
    DEF OutcomeInv, Sequence, CancelledAsked, DoneComplete, NoReport
<1>5. CASE Cancel
  BY <1>5
  DEF Cancel, runVars, OutcomeInv, Sequence, CancelledAsked, DoneComplete
<1>6. CASE UNCHANGED vars
  BY <1>6
  DEF vars, runVars, OutcomeInv, Sequence, CancelledAsked, DoneComplete
<1>7. QED
  BY <1>1, <1>2, <1>3, <1>4, <1>5, <1>6 DEF Next, RunStep

ExportInv == TypeOK /\ OneRun /\ OutcomeInv

LEMMA ExportInvariant == Spec => []ExportInv
<1>1. Init => ExportInv
  BY TypeInit, SlotInit, OutcomeInit DEF ExportInv
<1>2. ExportInv /\ [Next]_vars => ExportInv'
  <2> SUFFICES ASSUME ExportInv, [Next]_vars PROVE ExportInv'
    OBVIOUS
  <2>1. TypeOK' /\ OneRun'
    BY TypeNext, SlotNext DEF ExportInv
  <2>2. FlagAsked' /\ Progress' /\ OkMeaning'
    BY FlagNext, ProgressNext, OkNext DEF ExportInv, OutcomeInv
  <2>3. Sequence' /\ CancelledAsked' /\ DoneComplete'
    BY ReportNext DEF ExportInv
  <2>4. QED
    BY <2>1, <2>2, <2>3 DEF ExportInv, OutcomeInv
<1>3. QED
  BY <1>1, <1>2, PTL DEF Spec

\* A run is reported Cancelled only if cancel was called while it ran, and
\* Done only when it has written every file and every link of its plan.
THEOREM OutcomesAreTrue == Spec => []OutcomeTrue
<1>1. ExportInv => OutcomeTrue
  BY DEF ExportInv, OutcomeInv, OutcomeTrue
<1>2. QED
  BY <1>1, ExportInvariant, PTL

-----------------------------------------------------------------------------
(* The bytes                                                                *)

LEMMA Column ==
    ASSUME NEW f, NEW n \in Nat
    PROVE  IsFiniteSet({f} \X (1 .. n)) /\ Cardinality({f} \X (1 .. n)) = n
<1>1. IsFiniteSet(1 .. n) /\ Cardinality(1 .. n) = n
  BY FS_Interval
<1>2. IsFiniteSet({f}) /\ Cardinality({f}) = 1
  BY FS_Singleton
<1>3. QED
  BY <1>1, <1>2, FS_Product

\* What a file adds to a set that does not have it.
LEMMA UnitsAdd ==
    ASSUME NEW S \in SUBSET File, NEW f \in File \ S, IsFiniteSet(Units(S))
    PROVE  /\ IsFiniteSet(Units(S \cup {f}))
           /\ BytesOf(S \cup {f}) = BytesOf(S) + Size[f]
           /\ BytesOf(S) \in Nat
<1> DEFINE U == Units(S)
           C == {f} \X (1 .. Size[f])
<1>1. Size[f] \in Nat
  BY ExportConstants
<1>2. IsFiniteSet(C) /\ Cardinality(C) = Size[f]
  BY <1>1, Column
<1>3. Units(S \cup {f}) = U \cup C /\ U \cap C = {}
  BY DEF Units
<1>4. Cardinality(U) \in Nat
  BY FS_CardinalityType
<1> HIDE DEF C
<1>5. /\ IsFiniteSet(U \cup C)
      /\ Cardinality(U \cup C) = Cardinality(U) + Cardinality(C) - Cardinality(U \cap C)
  BY <1>2, FS_Union
<1>6. Cardinality(U \cap C) = 0
  BY <1>3, FS_EmptySet
<1>7. Cardinality(U \cup C) = Cardinality(U) + Size[f]
  BY <1>1, <1>2, <1>4, <1>5, <1>6
<1>8. QED
  BY <1>3, <1>4, <1>5, <1>7 DEF BytesOf

\* A file is closed when all of it is written, and nothing of the next one
\* is: only a run that fails leaves an open file behind.
OpenFile ==
    \A r \in Run :
        /\ IsFiniteSet(Units(wrote[r]))
        /\ pc[r] \in {"called", "claimed", "dirs", "next", "chunks"} => offset[r] = 0
        /\ pc[r] = "over" /\ result[r] = "Ok" => offset[r] = 0
        /\ pc[r] = "write" => offset[r] <= Size[file[r]]

BytesInv == OpenFile /\ BytesAddUp

LEMMA OpenFileNext == TypeOK /\ Progress /\ OpenFile /\ [Next]_vars => OpenFile'
<1> SUFFICES ASSUME TypeOK, Progress, OpenFile, [Next]_vars PROVE OpenFile'
  OBVIOUS
<1> USE ExportConstants DEF OpenFile, TypeOK
<1>1. ASSUME NEW r \in Run,
             \/ Claim(r) \/ Refuse(r) \/ Spawn(r) \/ Prepare(r)
             \/ Settle(r) \/ Announce(r)
      PROVE  OpenFile'
  BY <1>1 DEF Claim, Refuse, Spawn, Prepare, Settle, Announce
<1>2. ASSUME NEW r \in Run, NextFile(r) \/ WaitChunks(r)
      PROVE  OpenFile'
  BY <1>2 DEF NextFile, WaitChunks
<1>3. ASSUME NEW r \in Run, StopCancelled(r) \/ Link(r) \/ Fail(r)
      PROVE  OpenFile'
  BY <1>3 DEF StopCancelled, Link, Fail, Stop
<1>4. ASSUME NEW r \in Run, WriteWindow(r)
      PROVE  OpenFile'
  BY <1>4 DEF WriteWindow
<1>5. ASSUME NEW r \in Run, FinishFile(r)
      PROVE  OpenFile'
  <2>1. /\ file[r] \in File \ wrote[r]
        /\ wrote'[r] = wrote[r] \cup {file[r]}
        /\ \A q \in Run \ {r} : wrote'[q] = wrote[q] /\ offset'[q] = offset[q]
                                                 /\ pc'[q] = pc[q]
        /\ file'[r] = NoFile /\ offset'[r] = 0 /\ pc'[r] = "next"
        /\ result' = result
        /\ \A q \in Run \ {r} : file'[q] = file[q]
    BY <1>5 DEF FinishFile, Progress
  <2>2. IsFiniteSet(Units(wrote'[r]))
    BY <2>1, UnitsAdd
  <2>3. QED
    BY <2>1, <2>2
<1>6. CASE Cancel \/ UNCHANGED vars
  BY <1>6 DEF Cancel, vars, runVars
<1>7. QED
  BY <1>1, <1>2, <1>3, <1>4, <1>5, <1>6 DEF Next, RunStep

LEMMA BytesNext ==
    ASSUME ExportInv, BytesInv, [Next]_vars
    PROVE  BytesAddUp'
<1> USE ExportConstants DEF BytesInv, BytesAddUp
<1>0. /\ TypeOK /\ OneRun /\ Progress /\ OpenFile
      /\ \A r \in Run : BytesOf(wrote[r]) \in Nat
      /\ \A r, q \in Run : Holds(r) /\ Holds(q) => r = q
  BY FS_CardinalityType
  DEF ExportInv, OutcomeInv, OpenFile, BytesOf, OneRun
<1>1. ASSUME NEW r \in Run, Claim(r)
      PROVE  BytesAddUp'
  <2>1. /\ \A q \in Run : Holds(q)' => q = r
        /\ wrote' = wrote /\ offset' = offset /\ report' = report
        /\ wrote[r] = {} /\ offset[r] = 0 /\ status'.bytes = 0
    BY <1>0, <1>1
    DEF Claim, Idle, OneRun, Progress, OpenFile, Holds, TypeOK
  <2>2. BytesOf({}) = 0
    BY FS_EmptySet DEF BytesOf, Units
  <2>3. status'.bytes = BytesOf(wrote'[r]) + offset'[r]
    BY <2>1, <2>2
  <2>4. QED
    BY <2>1, <2>3
<1>2. ASSUME NEW r \in Run,
             \/ Refuse(r) \/ Spawn(r) \/ Prepare(r) \/ WaitChunks(r)
             \/ StopCancelled(r) \/ Link(r) \/ Fail(r) \/ Announce(r)
      PROVE  BytesAddUp'
  <2>1. /\ UNCHANGED <<wrote, offset, report, status>>
        /\ \A q \in Run : Holds(q)' => Holds(q)
    BY <1>0, <1>2
    DEF Refuse, Spawn, Prepare, WaitChunks, StopCancelled, Link, Fail, Stop,
        Announce, Holds, TypeOK
  <2>2. QED
    BY <2>1
<1>3. ASSUME NEW r \in Run, NextFile(r)
      PROVE  BytesAddUp'
  <2>1. /\ UNCHANGED <<wrote, report, status>>
        /\ \A q \in Run : (Holds(q)' => Holds(q)) /\ offset'[q] = offset[q]
    BY <1>0, <1>3 DEF NextFile, Holds, TypeOK, OpenFile
  <2>2. QED
    BY <2>1
<1>4. ASSUME NEW r \in Run, WriteWindow(r)
      PROVE  BytesAddUp'
  <2>1. PICK n \in 1 .. Window : /\ offset' = [offset EXCEPT ![r] = @ + n]
                                 /\ status' = [status EXCEPT !.bytes = @ + n]
    BY <1>4 DEF WriteWindow
  <2>2. /\ UNCHANGED <<wrote, report, pc>> /\ Holds(r)
        /\ offset'[r] = offset[r] + n /\ offset[r] \in Nat
        /\ status'.bytes = status.bytes + n
    BY <1>0, <1>4, <2>1 DEF WriteWindow, TypeOK, Holds
  <2>3. \A q \in Run : Holds(q)' => q = r
    BY <1>0, <2>2 DEF Holds
  <2>4. QED
    BY <1>0, <2>2, <2>3
<1>5. ASSUME NEW r \in Run, FinishFile(r)
      PROVE  BytesAddUp'
  <2>1. /\ file[r] \in File \ wrote[r] /\ Holds(r) /\ report' = report
        /\ wrote'[r] = wrote[r] \cup {file[r]} /\ wrote[r] \in SUBSET File
        /\ offset'[r] = 0 /\ status'.bytes = status.bytes
    BY <1>0, <1>5 DEF FinishFile, Progress, TypeOK, Holds
  <2>2. offset[r] = Size[file[r]]
    <3>1. /\ offset[r] >= Size[file[r]] /\ offset[r] <= Size[file[r]]
          /\ offset[r] \in Nat /\ Size[file[r]] \in Nat
      BY <1>0, <1>5, <2>1 DEF FinishFile, OpenFile, TypeOK
    <3>2. QED
      BY <3>1
  <2>3. BytesOf(wrote'[r]) = BytesOf(wrote[r]) + Size[file[r]]
    <3>1. IsFiniteSet(Units(wrote[r]))
      BY <1>0 DEF OpenFile
    <3>2. PICK S \in SUBSET File, f \in File :
             S = wrote[r] /\ f = file[r] /\ f \notin S
      BY <2>1
    <3>3. BytesOf(S \cup {f}) = BytesOf(S) + Size[f]
      BY <3>1, <3>2, UnitsAdd
    <3>4. QED
      BY <2>1, <3>2, <3>3
  <2>4. \A q \in Run : Holds(q)' => q = r
    BY <1>0, <1>5, <2>1 DEF FinishFile, TypeOK, Holds
  <2>5. status'.bytes = BytesOf(wrote'[r]) + offset'[r]
    BY <1>0, <2>1, <2>2, <2>3
  <2>6. QED
    BY <2>1, <2>4, <2>5
<1>6. ASSUME NEW r \in Run, Settle(r)
      PROVE  BytesAddUp'
  <2>1. /\ \A q \in Run : ~Holds(q)'
        /\ \A q \in Run \ {r} : report'[q] = report[q]
        /\ report'[r].state = Outcome(result[r])
        /\ report'[r].bytes = status.bytes
        /\ Holds(r) /\ result[r] \in {"Ok", "Err"}
    BY <1>0, <1>6
    DEF Settle, OneRun, Holds, TypeOK, ExportInv, OutcomeInv, Sequence
  <2>2. report'[r].state = "Done" => wrote[r] = File /\ offset[r] = 0
    BY <1>0, <1>6, <2>1, OutcomeMeaning
    DEF Settle, OpenFile, ExportInv, OutcomeInv, OkMeaning
  <2>3. report'[r].state = "Done" => report'[r].bytes = BytesOf(File)
    BY <1>0, <2>1, <2>2
  <2>4. QED
    BY <2>1, <2>3
<1>7. CASE Cancel \/ UNCHANGED vars
  BY <1>7 DEF Cancel, vars, runVars, Holds
<1>8. QED
  BY <1>1, <1>2, <1>3, <1>4, <1>5, <1>6, <1>7 DEF Next, RunStep

\* bytes_written is at every moment what the run at work has written, and a
\* run reported Done has written as many bytes as its plan has.
THEOREM BytesExact == Spec => []BytesAddUp
<1>1. Init => BytesInv
  <2> SUFFICES ASSUME Init PROVE BytesInv
    OBVIOUS
  <2>1. \A r \in Run : /\ pc[r] = "called" /\ wrote[r] = {} /\ offset[r] = 0
                        /\ report[r].state = "none"
    BY DEF Init, NoReport
  <2>2. IsFiniteSet(Units({}))
    BY FS_EmptySet DEF Units
  <2>3. QED
    BY <2>1, <2>2 DEF BytesInv, OpenFile, BytesAddUp, Holds
<1>2. ExportInv /\ BytesInv /\ [Next]_vars => BytesInv'
  BY OpenFileNext, BytesNext DEF ExportInv, OutcomeInv, BytesInv
<1>3. BytesInv => BytesAddUp
  BY DEF BytesInv
<1>4. QED
  BY <1>1, <1>2, <1>3, ExportInvariant, PTL DEF Spec
=============================================================================
