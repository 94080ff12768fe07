----------------------------- MODULE ViewsProofs -----------------------------
(* Proofs about what pages are shown, for every value of the constants.      *)
(* Landing: no chunk that was recorded is missing in what the page was last  *)
(* sent, however settles, flushes and cancels overlap.  Library: games,      *)
(* statuses, preloads and tracked manifests are right, however requests,     *)
(* logins, saves, prunes and restarts interleave.  The comparisons: a diff,  *)
(* a file's answers and the targets are what the manifests say, in whatever  *)
(* order the others are opened, the sweep drops a file exactly when its      *)
(* contents compare equal, and a history follows its file and its node.      *)
EXTENDS Landing, Library, History, FiniteSetTheorems, FunctionTheorems,
        SequenceTheorems, NaturalsInduction, WellFoundedInduction, TLAPS

-----------------------------------------------------------------------------
\* What is owed is in the index, and so is what is being settled.
InIndex ==
    /\ recorded \subseteq owed /\ owed \subseteq present
    /\ \A c \in Chunks : settling[c] # "no" => c \in present

\* The flag is up exactly while one flush sleeps.
FlagInv ==
    /\ \A k \in Flushes : flush[k] = "asleep" => scheduled
    /\ \A k, l \in Flushes : flush[k] = "asleep" /\ flush[l] = "asleep" => k = l
    /\ scheduled => \E k \in Flushes : flush[k] = "asleep"

\* A flush holds a batch exactly while it sends.
BatchInv == \A k \in Flushes : flush[k] = "sending" <=> batch[k] # {}

\* Somebody will take what is recorded.
Coming ==
    \/ \E k \in Flushes : flush[k] \in {"asleep", "awake"}
    \/ \E c \in Chunks : settling[c] = "inserted"
TakenInv == recorded # {} => Coming

Counted(c, f) == shown[f] # Unshown /\ c \in shown[f]
Affected(c, f) == c \in ChunksOf[f] /\ ManifestOf[f] = QueuedFor[c]

\* What is owed to a page is recorded, in a batch or sent.
OwedInv ==
    \A c \in owed : \A f \in Files : Affected(c, f) =>
      c \in recorded \/ (\E k \in Flushes : c \in batch[k]) \/ Counted(c, f)

LandingInv ==
    LandingTypeOK /\ InIndex /\ FlagInv /\ BatchInv /\ TakenInv /\ OwedInv

-----------------------------------------------------------------------------
LEMMA LandingTypeInit == LandingInit => LandingTypeOK
  BY DEF LandingInit, LandingTypeOK

LEMMA LandingTypeNext == LandingTypeOK /\ [LandingNext]_landingVars => LandingTypeOK'
<1> SUFFICES ASSUME LandingTypeOK, [LandingNext]_landingVars
             PROVE  LandingTypeOK'
  OBVIOUS
<1> USE LandingAssumption DEF LandingTypeOK
<1>1. ASSUME NEW c \in Chunks, MarkQueued(c) \/ MarkUnqueued(c)
      PROVE  LandingTypeOK'
  BY <1>1 DEF MarkQueued, MarkUnqueued, Mark
<1>2. ASSUME NEW c \in Chunks, Record(c)
      PROVE  LandingTypeOK'
  BY <1>2 DEF Record
<1>3. ASSUME NEW c \in Chunks, Schedule(c)
      PROVE  LandingTypeOK'
  BY <1>3 DEF Schedule
<1>4. ASSUME NEW k \in Flushes, Wake(k)
      PROVE  LandingTypeOK'
  BY <1>4 DEF Wake, Lowered
<1>5. ASSUME NEW k \in Flushes, Take(k)
      PROVE  LandingTypeOK'
  <2>1. flush' \in [Flushes -> {"unborn", "asleep", "awake", "sending", "ended"}]
    BY <1>5 DEF Take
  <2>2. batch' \in [Flushes -> SUBSET Chunks]
    BY <1>5 DEF Take
  <2> QED
    BY <1>5, <2>1, <2>2 DEF Take
<1>6. ASSUME NEW k \in Flushes, Send(k)
      PROVE  LandingTypeOK'
  <2>1. PICK m \in {QueuedFor[c] : c \in batch[k]} :
          /\ shown' = [f \in Files |-> IF f \in Touched(k, m) THEN Count(k, f) ELSE shown[f]]
          /\ batch' = [batch EXCEPT ![k] = @ \ BatchOf(k, m)]
    BY <1>6 DEF Send
  <2>2. flush' \in [Flushes -> {"unborn", "asleep", "awake", "sending", "ended"}]
    BY <1>6 DEF Send
  <2>3. batch' \in [Flushes -> SUBSET Chunks]
    BY <2>1
  <2>4. shown' \in [Files -> (SUBSET Chunks) \cup {Unshown}]
    BY <2>1 DEF Count
  <2> QED
    BY <1>6, <2>2, <2>3, <2>4 DEF Send
<1>7. CASE Cancel
  BY <1>7 DEF Cancel
<1>8. CASE UNCHANGED landingVars
  BY <1>8 DEF landingVars
<1> QED
  BY <1>1, <1>2, <1>3, <1>4, <1>5, <1>6, <1>7, <1>8 DEF LandingNext

-----------------------------------------------------------------------------
LEMMA LandingInvInit == LandingInit => LandingInv
<1> SUFFICES ASSUME LandingInit PROVE LandingInv
  OBVIOUS
<1> USE DEF LandingInit
<1>1. LandingTypeOK
  BY LandingTypeInit
<1>2. InIndex /\ TakenInv /\ OwedInv
  BY DEF InIndex, TakenInv, OwedInv
<1>3. FlagInv /\ BatchInv
  BY DEF FlagInv, BatchInv
<1> QED
  BY <1>1, <1>2, <1>3 DEF LandingInv

LEMMA MarkKeeps ==
    ASSUME LandingInv, LandingTypeOK', NEW c \in Chunks, MarkQueued(c) \/ MarkUnqueued(c)
    PROVE  LandingInv'
<1> USE DEF MarkQueued, MarkUnqueued, Mark, LandingInv
<1>1. LandingTypeOK
  BY DEF LandingInv
<1>2. InIndex'
  BY DEF InIndex, LandingTypeOK
<1>3. FlagInv' /\ BatchInv' /\ OwedInv'
  BY DEF FlagInv, BatchInv, OwedInv, Counted, Affected
<1>4. TakenInv'
  <2>1. \A d \in Chunks : settling[d] = "inserted" => settling'[d] = "inserted"
    BY DEF InIndex, LandingTypeOK
  <2> QED
    BY <2>1 DEF TakenInv, Coming
<1> QED
  BY <1>2, <1>3, <1>4 DEF LandingInv

LEMMA RecordKeeps ==
    ASSUME LandingInv, LandingTypeOK', NEW c \in Chunks, Record(c)
    PROVE  LandingInv'
<1> USE DEF Record, LandingInv
<1>1. LandingTypeOK
  BY DEF LandingInv
<1>2. InIndex'
  BY <1>1 DEF InIndex, LandingTypeOK
<1>3. FlagInv' /\ BatchInv'
  BY DEF FlagInv, BatchInv
<1>4. TakenInv'
  BY <1>1 DEF TakenInv, Coming, LandingTypeOK
<1>5. OwedInv'
  BY DEF OwedInv, Counted, Affected
<1> QED
  BY <1>2, <1>3, <1>4, <1>5 DEF LandingInv

LEMMA ScheduleKeeps ==
    ASSUME LandingInv, LandingTypeOK', NEW c \in Chunks, Schedule(c)
    PROVE  LandingInv'
<1> USE DEF Schedule, LandingInv
<1>1. LandingTypeOK
  BY DEF LandingInv
<1>2. InIndex'
  BY <1>1 DEF InIndex, LandingTypeOK
<1>3. OwedInv'
  BY DEF OwedInv, Counted, Affected
<1>4. CASE scheduled /\ UNCHANGED <<scheduled, flush>>
  <2>1. FlagInv' /\ BatchInv'
    BY <1>4 DEF FlagInv, BatchInv
  <2>2. Coming'
    BY <1>4 DEF FlagInv, Coming
  <2> QED
    BY <1>2, <1>3, <2>1, <2>2 DEF TakenInv, LandingInv
<1>5. CASE ~scheduled /\ scheduled'
  <2>1. PICK k \in Flushes : /\ flush[k] \in {"unborn", "ended"}
                             /\ flush' = [flush EXCEPT ![k] = "asleep"]
    BY <1>5
  <2>2. \A l \in Flushes : flush'[l] = IF l = k THEN "asleep" ELSE flush[l]
    BY <1>1, <2>1 DEF LandingTypeOK
  <2>3. FlagInv'
    BY <1>5, <2>2 DEF FlagInv
  <2>4. BatchInv'
    BY <2>1, <2>2 DEF BatchInv
  <2>5. Coming'
    BY <2>2 DEF Coming
  <2> QED
    BY <1>2, <1>3, <2>3, <2>4, <2>5 DEF TakenInv, LandingInv
<1> QED
  BY <1>4, <1>5

LEMMA WakeKeeps ==
    ASSUME LandingInv, LandingTypeOK', NEW k \in Flushes, Wake(k)
    PROVE  LandingInv'
<1> USE DEF Wake, Lowered, LandingInv
<1>1. \A l \in Flushes : flush'[l] = IF l = k THEN "awake" ELSE flush[l]
  BY DEF LandingTypeOK
<1>2. InIndex' /\ OwedInv'
  BY DEF InIndex, OwedInv, Counted, Affected
<1>3. FlagInv'
  BY <1>1 DEF FlagInv
<1>4. BatchInv'
  BY <1>1 DEF BatchInv
<1>5. TakenInv'
  BY <1>1 DEF TakenInv, Coming
<1> QED
  BY <1>2, <1>3, <1>4, <1>5 DEF LandingInv

LEMMA TakeKeeps ==
    ASSUME LandingInv, LandingTypeOK', NEW k \in Flushes, Take(k)
    PROVE  LandingInv'
<1> USE DEF Take, LandingInv
<1>1. \A l \in Flushes :
        /\ flush'[l] = IF l # k THEN flush[l]
                       ELSE IF recorded = {} THEN "ended" ELSE "sending"
        /\ batch'[l] = IF l = k THEN recorded ELSE batch[l]
  BY DEF LandingTypeOK
<1>2. InIndex' /\ TakenInv'
  BY DEF InIndex, TakenInv
<1>3. FlagInv'
  BY <1>1 DEF FlagInv
<1>4. BatchInv'
  BY <1>1 DEF BatchInv
<1>5. batch[k] = {}
  BY DEF BatchInv, LandingTypeOK
<1>6. OwedInv'
  <2> SUFFICES ASSUME NEW c \in owed, NEW f \in Files, Affected(c, f)
               PROVE  (\E l \in Flushes : c \in batch'[l]) \/ Counted(c, f)'
    BY DEF OwedInv, Affected
  <2>1. CASE c \in recorded
    BY <1>1, <2>1
  <2>2. CASE \E l \in Flushes : c \in batch[l]
    BY <1>1, <1>5, <2>2
  <2>3. CASE Counted(c, f)
    BY <2>3 DEF Counted
  <2> QED
    BY <2>1, <2>2, <2>3 DEF OwedInv
<1> QED
  BY <1>2, <1>3, <1>4, <1>6 DEF LandingInv

LEMMA SendKeeps ==
    ASSUME LandingInv, LandingTypeOK', NEW k \in Flushes, Send(k)
    PROVE  LandingInv'
<1> USE DEF LandingInv
<1>1. PICK m \in {QueuedFor[c] : c \in batch[k]} :
        /\ shown' = [f \in Files |-> IF f \in Touched(k, m) THEN Count(k, f) ELSE shown[f]]
        /\ batch' = [batch EXCEPT ![k] = @ \ BatchOf(k, m)]
  BY DEF Send
<1>2. \A l \in Flushes :
        /\ batch'[l] = IF l = k THEN batch[k] \ BatchOf(k, m) ELSE batch[l]
        /\ flush'[l] = IF l = k /\ batch'[k] = {} THEN "ended" ELSE flush[l]
  BY <1>1 DEF Send, LandingTypeOK
<1>3. flush[k] = "sending" /\ UNCHANGED <<present, settling, recorded, scheduled, owed>>
  BY DEF Send
<1>4. InIndex'
  BY <1>3 DEF InIndex
<1>5. FlagInv'
  BY <1>2, <1>3 DEF FlagInv
<1>6. BatchInv'
  BY <1>2, <1>3 DEF BatchInv
<1>7. TakenInv'
  BY <1>2, <1>3 DEF TakenInv, Coming
<1>8. OwedInv'
  <2> SUFFICES ASSUME NEW c \in owed, NEW f \in Files, Affected(c, f)
               PROVE  \/ c \in recorded
                      \/ \E l \in Flushes : c \in batch'[l]
                      \/ Counted(c, f)'
    BY <1>3 DEF OwedInv, Affected
  <2>1. c \in present /\ c \in Chunks
    BY DEF InIndex, LandingTypeOK
  <2>2. c \in Count(k, f) /\ Count(k, f) # Unshown
    BY <2>1, LandingAssumption DEF Count, Affected
  <2>3. CASE f \in Touched(k, m)
    <3>1. shown'[f] = Count(k, f)
      BY <1>1, <2>3
    <3> QED
      BY <2>2, <3>1 DEF Counted
  <2>4. CASE f \notin Touched(k, m)
    <3>1. shown'[f] = shown[f]
      BY <1>1, <2>4
    <3>2. c \notin BatchOf(k, m)
      BY <2>4 DEF Touched, BatchOf, Affected
    <3> QED
      BY <1>2, <3>1, <3>2 DEF OwedInv, Counted
  <2> QED
    BY <2>3, <2>4
<1> QED
  BY <1>4, <1>5, <1>6, <1>7, <1>8 DEF LandingInv

LEMMA CancelKeeps ==
    ASSUME LandingInv, LandingTypeOK', Cancel
    PROVE  LandingInv'
<1> USE DEF Cancel, LandingInv
<1>1. InIndex' /\ TakenInv' /\ OwedInv'
  BY DEF InIndex, TakenInv, OwedInv
<1>2. FlagInv' /\ BatchInv'
  BY DEF FlagInv, BatchInv
<1> QED
  BY <1>1, <1>2 DEF LandingInv

LEMMA LandingInvNext == LandingInv /\ [LandingNext]_landingVars => LandingInv'
<1> SUFFICES ASSUME LandingInv, [LandingNext]_landingVars
             PROVE  LandingInv'
  OBVIOUS
<1>1. LandingTypeOK'
  BY LandingTypeNext DEF LandingInv
<1>2. CASE UNCHANGED landingVars
  BY <1>1, <1>2 DEF landingVars, LandingInv, InIndex, FlagInv, BatchInv, TakenInv, Coming,
                    OwedInv, Counted, Affected
<1> QED
  BY <1>1, <1>2, MarkKeeps, RecordKeeps, ScheduleKeeps, WakeKeeps, TakeKeeps, SendKeeps,
     CancelKeeps DEF LandingNext

-----------------------------------------------------------------------------
\* Once settles and flushes are through, every chunk that was recorded, and
\* not cancelled since, is in what the page was last sent of its files.
THEOREM LandingsShown == LandingSpec => []LandedShown
<1>1. LandingInv => LandedShown
  <2> SUFFICES ASSUME LandingInv, AtRest, NEW c \in owed, NEW f \in Files, Affected(c, f)
               PROVE  Counted(c, f)
    BY DEF LandedShown, Counted, Affected
  <2>1. recorded = {}
    BY DEF AtRest, LandingInv, TakenInv, Coming
  <2>2. \A k \in Flushes : batch[k] = {}
    BY DEF AtRest, LandingInv, BatchInv
  <2> QED
    BY <2>1, <2>2 DEF LandingInv, OwedInv
<1> QED
  BY <1>1, LandingInvInit, LandingInvNext, PTL DEF LandingSpec

-----------------------------------------------------------------------------
\* The positions of a finite set of numbers are numbered from 1, each once.
Place(S, i) == Cardinality({j \in S : j < i})

LEMMA PlaceStrict ==
    ASSUME NEW S, IsFiniteSet(S), S \subseteq Int
    PROVE  /\ \A i \in S : Place(S, i) \in 0..(Cardinality(S) - 1)
           /\ \A i, k \in S : i < k => Place(S, i) < Place(S, k)
<1> Cardinality(S) \in Nat
  BY FS_CardinalityType
<1>1. ASSUME NEW i \in S, NEW T \in SUBSET S, i \in T, \A j \in S : j < i => j \in T
      PROVE  Place(S, i) \in Nat /\ Place(S, i) + 1 <= Cardinality(T)
  <2> DEFINE B == {j \in S : j < i}
  <2>1. IsFiniteSet(B) /\ IsFiniteSet(T)
    BY FS_Subset
  <2>2. (B \cup {i}) \in SUBSET T /\ i \notin B
    <3>1. \A j \in B : j \in T
      BY <1>1
    <3>2. ~(i < i)
      OBVIOUS
    <3> QED
      BY <1>1, <3>1, <3>2
  <2>3. Place(S, i) = Cardinality(B)
    BY DEF Place
  <2> HIDE DEF B
  <2>4. Cardinality(B) \in Nat /\ Cardinality(B \cup {i}) = Cardinality(B) + 1
    BY <2>1, <2>2, FS_AddElement, FS_CardinalityType
  <2>5. Cardinality(B \cup {i}) <= Cardinality(T)
    BY <2>1, <2>2, FS_Subset
  <2> QED
    BY <2>3, <2>4, <2>5
<1>2. ASSUME NEW i \in S PROVE Place(S, i) \in 0..(Cardinality(S) - 1)
  <2>1. Place(S, i) \in Nat /\ Place(S, i) + 1 <= Cardinality(S)
    BY <1>1
  <2> HIDE DEF Place
  <2> QED
    BY <2>1
<1>3. ASSUME NEW i \in S, NEW k \in S, i < k PROVE Place(S, i) < Place(S, k)
  <2> DEFINE T == {j \in S : j < k}
  <2>1. i \in T /\ (\A j \in S : j < i => j \in T) /\ T \in SUBSET S
    BY <1>3
  <2>2. Place(S, k) = Cardinality(T)
    BY DEF Place
  <2> HIDE DEF T
  <2>3. Place(S, i) \in Nat /\ Place(S, i) + 1 <= Cardinality(T)
    BY <1>1, <2>1
  <2>4. Place(S, k) \in Nat
    BY <1>2
  <2> HIDE DEF Place
  <2> QED
    BY <2>2, <2>3, <2>4
<1> QED
  BY <1>2, <1>3

LEMMA NthPlaces ==
    ASSUME NEW S, IsFiniteSet(S), S \subseteq Int
    PROVE  /\ Cardinality(S) \in Nat
           /\ \A n \in 1..Cardinality(S) : Nth(S, n) \in S
           /\ \A n, k \in 1..Cardinality(S) : Nth(S, n) = Nth(S, k) => n = k
           /\ \A i \in S : \E n \in 1..Cardinality(S) : Nth(S, n) = i
<1> DEFINE N == Cardinality(S)
           rank == [i \in S |-> Place(S, i)]
<1>1. N \in Nat
  BY FS_CardinalityType
<1>2. /\ \A i \in S : Place(S, i) \in 0..(N - 1)
      /\ \A i, k \in S : i < k => Place(S, i) < Place(S, k)
  BY PlaceStrict
<1>3. \A i, k \in S : Place(S, i) = Place(S, k) => i = k
  <2> SUFFICES ASSUME NEW i \in S, NEW k \in S, i # k PROVE Place(S, i) # Place(S, k)
    OBVIOUS
  <2>1. i \in Int /\ k \in Int /\ (i < k \/ k < i)
    OBVIOUS
  <2>2. Place(S, i) \in Int /\ Place(S, k) \in Int
    BY <1>1, <1>2
  <2> QED
    BY <1>2, <2>1, <2>2
<1>4. rank \in Injection(S, 0..(N - 1))
  <2>1. rank \in [S -> 0..(N - 1)]
    BY <1>2
  <2>2. \A i, k \in S : rank[i] = rank[k] => i = k
    BY <1>3
  <2> HIDE DEF rank
  <2> QED
    BY <2>1, <2>2 DEF Injection, IsInjective
<1>5. IsFiniteSet(0..(N - 1)) /\ Cardinality(0..(N - 1)) = N
  BY <1>1, FS_Interval
<1>6. rank \in Surjection(S, 0..(N - 1))
  BY <1>4, <1>5, FS_Injection
<1>7. \A n \in 1..N : \E i \in S : Place(S, i) = n - 1
  <2>1. \A t \in 0..(N - 1) : \E i \in S : rank[i] = t
    BY <1>6 DEF Surjection
  <2>2. \A n \in 1..N : n - 1 \in 0..(N - 1)
    BY <1>1
  <2> QED
    BY <2>1, <2>2
<1>8. \A n \in 1..N : Nth(S, n) \in S /\ Place(S, Nth(S, n)) = n - 1
  BY <1>7 DEF Nth, Place
<1>9. ASSUME NEW n \in 1..N, NEW k \in 1..N, Nth(S, n) = Nth(S, k) PROVE n = k
  <2>1. n - 1 = k - 1
    BY <1>8, <1>9
  <2> QED
    BY <1>1, <2>1
<1>10. ASSUME NEW i \in S PROVE \E n \in 1..N : Nth(S, n) = i
  <2>1. Place(S, i) + 1 \in 1..N /\ (Place(S, i) + 1) - 1 = Place(S, i)
    BY <1>1, <1>2
  <2> QED
    BY <1>3, <1>8, <2>1
<1> QED
  BY <1>1, <1>8, <1>9, <1>10

-----------------------------------------------------------------------------
ManifestsOf(list) == {list[i].manifest : i \in DOMAIN list}
Once(list) == \A i, j \in DOMAIN list : list[i].manifest = list[j].manifest => i = j

LEMMA PickedList ==
    ASSUME NEW X, NEW list \in Seq(X), NEW S \in SUBSET DOMAIN list
    PROVE  /\ Picked(list, S) \in Seq(X)
           /\ Len(Picked(list, S)) = Cardinality(S)
           /\ ManifestsOf(Picked(list, S)) = {list[i].manifest : i \in S}
           /\ (\A i, j \in S : list[i].manifest = list[j].manifest => i = j)
                => Once(Picked(list, S))
<1>1. IsFiniteSet(S) /\ S \subseteq Int
  <2>1. DOMAIN list = 1..Len(list) /\ Len(list) \in Nat
    OBVIOUS
  <2>2. IsFiniteSet(DOMAIN list)
    BY <2>1, FS_Interval
  <2> QED
    BY <2>1, <2>2, FS_Subset
<1> DEFINE N == Cardinality(S)
<1>2. /\ N \in Nat
      /\ \A n \in 1..N : Nth(S, n) \in S
      /\ \A n, k \in 1..N : Nth(S, n) = Nth(S, k) => n = k
      /\ \A i \in S : \E n \in 1..N : Nth(S, n) = i
  BY <1>1, NthPlaces
<1>3. Picked(list, S) = [n \in 1..N |-> list[Nth(S, n)]]
  BY DEF Picked
<1>4. \A i \in S : list[i] \in X
  OBVIOUS
<1>5. Picked(list, S) \in Seq(X) /\ Len(Picked(list, S)) = N
  BY <1>2, <1>3, <1>4
<1> HIDE DEF N
<1> DEFINE p == Picked(list, S)
<1>6. DOMAIN p = 1..N /\ \A n \in 1..N : p[n] = list[Nth(S, n)]
  BY <1>3
<1> HIDE DEF p
<1>7. ManifestsOf(p) = {list[i].manifest : i \in S}
  <2>1. ManifestsOf(p) \subseteq {list[i].manifest : i \in S}
    BY <1>2, <1>6 DEF ManifestsOf
  <2>2. ASSUME NEW i \in S PROVE list[i].manifest \in ManifestsOf(p)
    BY <1>2, <1>6 DEF ManifestsOf
  <2> QED
    BY <2>1, <2>2
<1>8. ASSUME \A i, j \in S : list[i].manifest = list[j].manifest => i = j
      PROVE  Once(Picked(list, S))
  BY <1>2, <1>3, <1>8 DEF Once
<1> QED
  BY <1>5, <1>7, <1>8 DEF N, p

\* A set of positions that is not empty has a first one.
LEMMA Least ==
    ASSUME NEW S, S \subseteq Nat, S # {}
    PROVE  \E i \in S : \A j \in S : i <= j
<1>1. PICK i \in S : \A j \in S : ~ (<<j, i>> \in OpToRel(<, Nat))
  BY WFMin, NatLessThanWellFounded, Zenon
<1>2. \A j \in S : i <= j
  <2> TAKE j \in S
  <2>1. ~ (j < i)
    BY <1>1, Zenon DEF OpToRel
  <2> QED
    BY <2>1
<1> QED
  BY <1>2

LEMMA DistinctList ==
    ASSUME NEW list \in Seq(Refs)
    PROVE  /\ DistinctRefs(list) \in Seq(Refs) /\ Once(DistinctRefs(list))
           /\ ManifestsOf(DistinctRefs(list)) = ManifestsOf(list)
<1> DEFINE S == {i \in DOMAIN list : \A j \in 1..(i - 1) : list[j].manifest # list[i].manifest}
<1>1. S \in SUBSET DOMAIN list
  OBVIOUS
<1>2. \A i, j \in S : list[i].manifest = list[j].manifest => i = j
  <2> SUFFICES ASSUME NEW i \in S, NEW j \in S, list[i].manifest = list[j].manifest, i < j
               PROVE  FALSE
    OBVIOUS
  <2> QED
    OBVIOUS
<1>3. DistinctRefs(list) = Picked(list, S)
  BY DEF DistinctRefs
<1>4. {list[i].manifest : i \in S} = ManifestsOf(list)
  <2>1. ASSUME NEW k \in DOMAIN list
        PROVE  \E i \in S : list[i].manifest = list[k].manifest
    <3> DEFINE same == {i \in DOMAIN list : list[i].manifest = list[k].manifest}
    <3>1. DOMAIN list = 1..Len(list) /\ Len(list) \in Nat
      OBVIOUS
    <3>2. same \subseteq Nat /\ same # {}
      BY <3>1
    <3>3. PICK i \in same : \A j \in same : i <= j
      BY <3>2, Least
    <3>4. ASSUME NEW j \in 1..(i - 1) PROVE list[j].manifest # list[i].manifest
      BY <3>1, <3>3
    <3> QED
      BY <3>3, <3>4
  <2> HIDE DEF S
  <2> QED
    BY <1>1, <2>1 DEF ManifestsOf
<1> HIDE DEF S
<1>5. /\ Picked(list, S) \in Seq(Refs) /\ Once(Picked(list, S))
      /\ ManifestsOf(Picked(list, S)) = {list[i].manifest : i \in S}
  BY <1>1, <1>2, PickedList
<1> QED
  BY <1>3, <1>4, <1>5

LEMMA WithoutList ==
    ASSUME NEW list \in Seq(Refs), Once(list), NEW m
    PROVE  Without(list, m) \in Seq(Refs) /\ Once(Without(list, m))
<1> DEFINE S == {i \in DOMAIN list : list[i].manifest # m}
<1>1. S \in SUBSET DOMAIN list
  OBVIOUS
<1>2. \A i, j \in S : list[i].manifest = list[j].manifest => i = j
  BY DEF Once
<1>3. Without(list, m) = Picked(list, S)
  BY DEF Without
<1> HIDE DEF S
<1> QED
  BY <1>1, <1>2, <1>3, PickedList

\* A list that names its manifests once is as long as they are many.
LEMMA OnceLength ==
    ASSUME NEW X, NEW list \in Seq(X), Once(list)
    PROVE  Len(list) = Cardinality(ManifestsOf(list))
<1>1. Len(list) \in Nat /\ DOMAIN list = 1..Len(list)
  OBVIOUS
<1> DEFINE M == ManifestsOf(list)
           f == [i \in 1..Len(list) |-> list[i].manifest]
<1>2. f \in Bijection(1..Len(list), M)
  <2>1. f \in [1..Len(list) -> M]
    BY <1>1 DEF ManifestsOf
  <2>2. \A i, j \in 1..Len(list) : f[i] = f[j] => i = j
    BY <1>1 DEF Once
  <2>3. \A x \in M : \E i \in 1..Len(list) : f[i] = x
    BY <1>1 DEF ManifestsOf
  <2> HIDE DEF f, M
  <2> QED
    BY <2>1, <2>2, <2>3 DEF Bijection, Injection, Surjection, IsInjective
<1>3. ExistsBijection(1..Len(list), M)
  BY <1>2 DEF ExistsBijection
<1> HIDE DEF M
<1>4. Cardinality(M) = Len(list)
  BY <1>1, <1>3, FS_CountingElements
<1> QED
  BY <1>4 DEF M

-----------------------------------------------------------------------------
Outcomes == [manifest : Manifests, error : BOOLEAN, missing : SUBSET AppChunks]

\* What a batch calls missing lies between what was missing when it was asked
\* and what is missing with the chunks h.
Between(out, since, h) ==
    \A i \in DOMAIN out : ~out[i].error =>
      /\ ChunksIn[out[i].manifest] \ h \subseteq out[i].missing
      /\ out[i].missing \subseteq ChunksIn[out[i].manifest] \ since

GamesOK(d) ==
    /\ d.at \in {"games", "gamesIn"} => d.account \in Accounts
    /\ d.at = "gamesIn" => d.games.of = d.account
    /\ d.at = "visit" => (d.read # None => d.read.value.of = d.account)

InfoOK(d) == d.at = "appIn" => d.info \in Seq(Refs)

AskedOK(d, h) ==
    d.at = "model" =>
      /\ d.refs \in Seq(Refs) /\ Once(d.refs) /\ d.since \subseteq h
      /\ ManifestsOf(d.refs) = d.wanted

OpenOK(d, h) ==
    d.at = "open" =>
      /\ d \in [at : {"open"}, since : SUBSET h, wanted : SUBSET Manifests,
                out : Seq(Outcomes), todo : SUBSET Manifests]
      /\ Once(d.out)
      /\ ManifestsOf(d.out) \cup d.todo = d.wanted
      /\ ManifestsOf(d.out) \cap d.todo = {}
      /\ Between(d.out, d.since, h)

AnswerOK(d, h) ==
    d.at = "answered" =>
      /\ d.out \in Seq(Outcomes) /\ Once(d.out)
      /\ ManifestsOf(d.out) = d.wanted
      /\ Between(d.out, d.since, h)

PageOK(d) ==
    d.at = "page" =>
      /\ d = [at |-> "page", account |-> d.account, library |-> d.library,
              statuses |-> d.statuses, fetched |-> d.fetched]
      /\ d.library # None => d.library.games.of = d.account
      /\ d.statuses.complete => ManifestsOf(d.statuses.out) = ManifestsOf(d.statuses.refs)

RequestOK(d, h) ==
    /\ GamesOK(d) /\ InfoOK(d) /\ PageOK(d)
    /\ AskedOK(d, h) /\ OpenOK(d, h) /\ AnswerOK(d, h)

DoingInv == DOMAIN doing = Requests /\ \A r \in Requests : RequestOK(doing[r], held)

\* Every file of the disk cache is of what its key names.
CachedInv ==
    /\ DOMAIN cache = Keys
    /\ \A a \in Accounts : cache[GamesKey(a)] # None => cache[GamesKey(a)].value.of = a
    /\ cache[AppKey] # None => cache[AppKey].value \in Seq(Refs)

TrackedInv ==
    /\ extras \in Seq(Refs) /\ extrasFile \in Seq(Refs)
    /\ Once(extras) /\ Once(extrasFile)
    /\ ~unsaved => extras = extrasFile

PlacesInv == account \in Accounts \cup {None} /\ appInfo \in DOMAIN AppInfos

LibraryInv == PlacesInv /\ TrackedInv /\ CachedInv /\ DoingInv

-----------------------------------------------------------------------------
\* A request stays right while chunks land.
LEMMA RequestKept ==
    ASSUME NEW d, NEW h, NEW k, RequestOK(d, h), h \subseteq k
    PROVE  RequestOK(d, k)
<1>1. \A out, since : Between(out, since, h) => Between(out, since, k)
  BY DEF Between
<1>2. OpenOK(d, k)
  <2> SUFFICES ASSUME d.at = "open" PROVE OpenOK(d, k)
    BY DEF OpenOK
  <2>1. OpenOK(d, h)
    BY DEF RequestOK
  <2>2. d \in [at : {"open"}, since : SUBSET k, wanted : SUBSET Manifests,
                out : Seq(Outcomes), todo : SUBSET Manifests]
    BY <2>1 DEF OpenOK
  <2> QED
    BY <1>1, <2>1, <2>2 DEF OpenOK
<1>3. AnswerOK(d, k)
  BY <1>1 DEF RequestOK, AnswerOK
<1>4. AskedOK(d, k)
  BY DEF RequestOK, AskedOK
<1> QED
  BY <1>2, <1>3, <1>4 DEF RequestOK

LEMMA DoingNext ==
    ASSUME DoingInv, held \subseteq held', DOMAIN doing' = Requests,
           \A r \in Requests : doing'[r] = doing[r] \/ RequestOK(doing'[r], held')
    PROVE  DoingInv'
<1> SUFFICES ASSUME NEW r \in Requests, doing'[r] = doing[r] PROVE RequestOK(doing'[r], held')
  BY DEF DoingInv
<1>1. RequestOK(doing[r], held)
  BY DEF DoingInv
<1> QED
  BY <1>1, RequestKept

LEMMA BecomesOK ==
    ASSUME DoingInv, held \subseteq held', NEW r \in Requests, NEW d,
           doing' = [doing EXCEPT ![r] = d], RequestOK(d, held')
    PROVE  DoingInv'
<1>1. DOMAIN doing' = Requests /\ \A q \in Requests : doing'[q] = IF q = r THEN d ELSE doing[q]
  BY DEF DoingInv
<1> QED
  BY <1>1, DoingNext

-----------------------------------------------------------------------------
\* The statuses of a list are those of its manifests, each once.
LEMMA StatusList ==
    ASSUME NEW refs \in Seq(Refs)
    PROVE  /\ Statuses(refs) \in Seq(Outcomes)
           /\ Len(Statuses(refs)) = Len(refs)
           /\ ManifestsOf(Statuses(refs)) = ManifestsOf(refs)
           /\ Once(refs) => Once(Statuses(refs))
           /\ \A since \in SUBSET held : Between(Statuses(refs), since, held)
<1>1. Len(refs) \in Nat /\ DOMAIN refs = 1..Len(refs)
  OBVIOUS
<1>2. \A i \in 1..Len(refs) : refs[i].manifest \in Manifests
  <2>1. \A i \in 1..Len(refs) : refs[i] \in Refs
    OBVIOUS
  <2> QED
    BY <2>1 DEF Refs
<1>3. \A m \in Manifests : Status(m) \in Outcomes
  BY LibraryAssumption DEF Status, Outcomes, Missing
<1>4. Statuses(refs) = [i \in 1..Len(refs) |-> Status(refs[i].manifest)]
  BY <1>1 DEF Statuses
<1>5. Statuses(refs) \in Seq(Outcomes) /\ Len(Statuses(refs)) = Len(refs)
  BY <1>1, <1>2, <1>3, <1>4
<1>6. \A m : Status(m).manifest = m /\ Status(m).error = FALSE /\ Status(m).missing = ChunksIn[m] \ held
  BY DEF Status, Missing
<1>7. ManifestsOf(Statuses(refs)) = ManifestsOf(refs)
  BY <1>1, <1>4, <1>6 DEF ManifestsOf
<1>8. Once(refs) => Once(Statuses(refs))
  BY <1>1, <1>4, <1>6 DEF Once
<1>9. \A since \in SUBSET held : Between(Statuses(refs), since, held)
  BY <1>4, <1>6 DEF Between
<1> QED
  BY <1>5, <1>7, <1>8, <1>9

\* What one more answer does to a batch.
LEMMA OneMore ==
    ASSUME NEW out \in Seq(Outcomes), Once(out), NEW o \in Outcomes,
           o.manifest \notin ManifestsOf(out)
    PROVE  /\ Append(out, o) \in Seq(Outcomes) /\ Once(Append(out, o))
           /\ ManifestsOf(Append(out, o)) = ManifestsOf(out) \cup {o.manifest}
<1> DEFINE new == Append(out, o)
           n == Len(out)
<1>1. /\ n \in Nat /\ DOMAIN out = 1..n /\ DOMAIN new = 1..(n + 1)
      /\ \A i \in 1..n : new[i] = out[i]
      /\ new[n + 1] = o
      /\ new \in Seq(Outcomes)
  OBVIOUS
<1>2. \A i \in 1..(n + 1) : i \in 1..n \/ i = n + 1
  BY <1>1
<1>3. 1..n \subseteq 1..(n + 1) /\ n + 1 \in 1..(n + 1)
  BY <1>1
<1> HIDE DEF new, n
<1>4. Once(new)
  BY <1>1, <1>2 DEF Once, ManifestsOf
<1>5. ManifestsOf(new) = ManifestsOf(out) \cup {o.manifest}
  BY <1>1, <1>2, <1>3 DEF ManifestsOf
<1> QED
  BY <1>1, <1>4, <1>5 DEF new

LEMMA BetweenMore ==
    ASSUME NEW out \in Seq(Outcomes), NEW o \in Outcomes, NEW since, NEW h,
           Between(out, since, h),
           ~o.error => /\ ChunksIn[o.manifest] \ h \subseteq o.missing
                       /\ o.missing \subseteq ChunksIn[o.manifest] \ since
    PROVE  Between(Append(out, o), since, h)
<1> DEFINE new == Append(out, o)
           n == Len(out)
<1>1. /\ n \in Nat /\ DOMAIN out = 1..n /\ DOMAIN new = 1..(n + 1)
      /\ \A i \in 1..n : new[i] = out[i]
      /\ new[n + 1] = o
  OBVIOUS
<1>2. \A i \in 1..(n + 1) : i \in 1..n \/ i = n + 1
  BY <1>1
<1> HIDE DEF new, n
<1>3. Between(new, since, h)
  BY <1>1, <1>2 DEF Between
<1> QED
  BY <1>3 DEF new

-----------------------------------------------------------------------------
LEMMA LibraryInvInit == LibraryInit => LibraryInv
<1> SUFFICES ASSUME LibraryInit PROVE LibraryInv
  OBVIOUS
<1> USE DEF LibraryInit
<1>1. PlacesInv
  BY LibraryAssumption DEF PlacesInv
<1>2. TrackedInv
  BY DEF TrackedInv, Once
<1>3. CachedInv
  BY DEF CachedInv, Keys
<1>4. DoingInv
  <2>1. RequestOK(Idle, held)
    BY DEF RequestOK, GamesOK, InfoOK, PageOK, AskedOK, OpenOK, AnswerOK, Idle
  <2> QED
    BY <2>1 DEF DoingInv
<1> QED
  BY <1>1, <1>2, <1>3, <1>4 DEF LibraryInv

\* A request that does nothing is right.
LEMMA IdleOK == \A h : RequestOK(Idle, h)
  BY DEF RequestOK, GamesOK, InfoOK, PageOK, AskedOK, OpenOK, AnswerOK, Idle

\* A write of the disk cache under the name of what it holds.
LEMMA PutKeeps ==
    ASSUME CachedInv, NEW key \in Keys, NEW value, Put(key, value),
           \A a \in Accounts : key = GamesKey(a) => value.of = a,
           key = AppKey => value \in Seq(Refs)
    PROVE  CachedInv'
<1> DEFINE e == [value |-> value, at |-> writes + 1]
<1>1. DOMAIN cache' = Keys /\ \A k \in Keys : cache'[k] = IF k = key THEN e ELSE cache[k]
  BY DEF CachedInv, Put
<1>2. AppKey \in Keys /\ \A a \in Accounts : GamesKey(a) \in Keys
  BY DEF Keys
<1>3. e.value = value
  OBVIOUS
<1> HIDE DEF e
<1>4. ASSUME NEW a \in Accounts, cache'[GamesKey(a)] # None
      PROVE  cache'[GamesKey(a)].value.of = a
  BY <1>1, <1>2, <1>3, <1>4 DEF CachedInv
<1>5. cache'[AppKey] # None => cache'[AppKey].value \in Seq(Refs)
  BY <1>1, <1>2, <1>3 DEF CachedInv
<1> QED
  BY <1>1, <1>4, <1>5 DEF CachedInv

-----------------------------------------------------------------------------
\* The steps of one request.
LEMMA GamesSteps ==
    ASSUME LibraryInv, NEW r \in Requests,
           AskGames(r) \/ GamesAnswer(r) \/ GamesSave(r) \/ AskApp(r) \/ AppSave(r)
    PROVE  LibraryInv'
<1> USE DEF RequestOK, GamesOK, InfoOK, PageOK, AskedOK, OpenOK, AnswerOK, At, Becomes
<1>1. PlacesInv /\ TrackedInv /\ CachedInv /\ DoingInv /\ RequestOK(doing[r], held)
  BY DEF LibraryInv, DoingInv
<1>2. /\ UNCHANGED <<steamVars, extraVars, storeVars>>
      /\ PlacesInv' /\ TrackedInv' /\ held' = held
  BY <1>1 DEF AskGames, GamesAnswer, GamesSave, AskApp, AppSave, PlacesInv, TrackedInv,
              steamVars, extraVars, storeVars
<1>3. CASE AskGames(r)
  <2>1. CachedInv'
    BY <1>1, <1>3 DEF AskGames, cacheVars, CachedInv
  <2>2. RequestOK([at |-> "games", account |-> account], held')
    BY <1>1, <1>3 DEF AskGames, PlacesInv
  <2>3. DoingInv'
    BY <1>1, <1>2, <1>3, <2>2, BecomesOK DEF AskGames
  <2> QED
    BY <1>2, <2>1, <2>3 DEF LibraryInv
<1>4. CASE GamesAnswer(r)
  <2>1. CachedInv'
    BY <1>1, <1>4 DEF GamesAnswer, cacheVars, CachedInv
  <2>2. RequestOK([at |-> "gamesIn", account |-> doing[r].account,
                   games |-> [of |-> doing[r].account]], held')
    BY <1>1, <1>4 DEF GamesAnswer
  <2>3. DoingInv'
    BY <1>1, <1>2, <1>4, <2>2, BecomesOK DEF GamesAnswer
  <2> QED
    BY <1>2, <2>1, <2>3 DEF LibraryInv
<1>5. CASE GamesSave(r)
  <2>1. doing[r].account \in Accounts /\ doing[r].games.of = doing[r].account
    BY <1>1, <1>5 DEF GamesSave
  <2>2. GamesKey(doing[r].account) \in Keys /\ GamesKey(doing[r].account) # AppKey
    BY <2>1 DEF Keys, GamesKey, AppKey
  <2>3. \A a \in Accounts : GamesKey(doing[r].account) = GamesKey(a) => doing[r].games.of = a
    BY <2>1 DEF GamesKey
  <2>4. Put(GamesKey(doing[r].account), doing[r].games)
    BY <1>5 DEF GamesSave, AccountAsked
  <2>5. CachedInv'
    BY <1>1, <2>2, <2>3, <2>4, PutKeeps
  <2>6. DoingInv'
    BY <1>1, <1>2, <1>5, IdleOK, BecomesOK DEF GamesSave
  <2> QED
    BY <1>2, <2>5, <2>6 DEF LibraryInv
<1>6. CASE AskApp(r)
  <2>1. CachedInv'
    BY <1>1, <1>6 DEF AskApp, cacheVars, CachedInv
  <2>2. AppInfos[appInfo] \in Seq(Refs)
    BY <1>1, LibraryAssumption DEF PlacesInv
  <2>3. RequestOK([at |-> "appIn", info |-> AppInfos[appInfo]], held')
    BY <2>2
  <2>4. DoingInv'
    BY <1>1, <1>2, <1>6, <2>3, BecomesOK DEF AskApp
  <2> QED
    BY <1>2, <2>1, <2>4 DEF LibraryInv
<1>7. CASE AppSave(r)
  <2>1. doing[r].info \in Seq(Refs) /\ AppKey \in Keys
    BY <1>1, <1>7 DEF AppSave, Keys
  <2>2. \A a \in Accounts : AppKey # GamesKey(a)
    BY DEF AppKey, GamesKey
  <2>3. Put(AppKey, doing[r].info)
    BY <1>7 DEF AppSave
  <2>4. CachedInv'
    BY <1>1, <2>1, <2>2, <2>3, PutKeeps
  <2>5. DoingInv'
    BY <1>1, <1>2, <1>7, IdleOK, BecomesOK DEF AppSave
  <2> QED
    BY <1>2, <2>4, <2>5 DEF LibraryInv
<1> QED
  BY <1>3, <1>4, <1>5, <1>6, <1>7

LEMMA AppRefsList ==
    ASSUME NEW info \in Seq(Refs), NEW tracked \in Seq(Refs)
    PROVE  AppRefs(info, tracked) \in Seq(Refs) /\ Once(AppRefs(info, tracked))
<1>1. info \o tracked \in Seq(Refs)
  OBVIOUS
<1> QED
  BY <1>1, DistinctList DEF AppRefs

LEMMA AskSteps ==
    ASSUME LibraryInv, NEW r \in Requests,
           (\E refs \in Lists : AskStatuses(r, refs)) \/ AskAppStatuses(r)
    PROVE  LibraryInv'
<1>1. PICK refs \in Seq(Refs) : AskStatuses(r, refs)
  <2>1. CASE \E refs \in Lists : AskStatuses(r, refs)
    BY <2>1, LibraryAssumption
  <2>2. CASE AskAppStatuses(r)
    <3>1. AppRefs(cache[AppKey].value, extras) \in Seq(Refs)
      BY <2>2, AppRefsList DEF AskAppStatuses, LibraryInv, CachedInv, TrackedInv
    <3> QED
      BY <2>2, <3>1 DEF AskAppStatuses
  <2> QED
    BY <2>1, <2>2
<1>2. /\ DistinctRefs(refs) \in Seq(Refs) /\ Once(DistinctRefs(refs))
      /\ ManifestsOf(DistinctRefs(refs)) = ManifestsOf(refs)
  BY DistinctList
<1>3. RequestOK([at |-> "model", refs |-> DistinctRefs(refs), since |-> held,
                 wanted |-> {refs[i].manifest : i \in DOMAIN refs}], held)
  BY <1>2 DEF RequestOK, GamesOK, InfoOK, PageOK, AskedOK, OpenOK, AnswerOK, ManifestsOf
<1>4. held' = held /\ PlacesInv' /\ TrackedInv' /\ CachedInv'
  BY <1>1 DEF AskStatuses, LibraryInv, PlacesInv, TrackedInv, CachedInv,
              steamVars, cacheVars, extraVars, storeVars
<1>5. DoingInv'
  BY <1>1, <1>3, <1>4, BecomesOK DEF AskStatuses, Becomes, LibraryInv
<1> QED
  BY <1>4, <1>5 DEF LibraryInv

\* What the model holds is answered for, the rest is still to be opened.
LEMMA CoveredList ==
    ASSUME NEW refs \in Seq(Refs), Once(refs), NEW known
    PROVE  LET p == Picked(refs, Covered(refs, known)) IN
           /\ p \in Seq(Refs) /\ Once(p) /\ Len(p) = Cardinality(Covered(refs, known))
           /\ ManifestsOf(p) = ManifestsOf(refs) \cap known
<1> DEFINE S == Covered(refs, known)
<1>1. S \in SUBSET DOMAIN refs
  BY DEF Covered
<1>2. \A i, j \in S : refs[i].manifest = refs[j].manifest => i = j
  BY DEF Covered, Once
<1>3. {refs[i].manifest : i \in S} = ManifestsOf(refs) \cap known
  BY DEF Covered, ManifestsOf
<1> HIDE DEF S
<1>4. /\ Picked(refs, S) \in Seq(Refs) /\ Once(Picked(refs, S))
      /\ Len(Picked(refs, S)) = Cardinality(S)
      /\ ManifestsOf(Picked(refs, S)) = {refs[i].manifest : i \in S}
  BY <1>1, <1>2, PickedList
<1> QED
  BY <1>3, <1>4 DEF S

LEMMA ManifestsListed ==
    ASSUME NEW refs \in Seq(Refs)
    PROVE  ManifestsOf(refs) \subseteq Manifests
<1>1. \A i \in DOMAIN refs : refs[i] \in Refs
  OBVIOUS
<1> QED
  BY <1>1 DEF ManifestsOf, Refs

LEMMA FromModelKeeps ==
    ASSUME LibraryInv, NEW r \in Requests, FromModel(r)
    PROVE  LibraryInv'
<1> DEFINE known == IF model = None THEN onDisk ELSE model
           refs == doing[r].refs
           p == Picked(refs, Covered(refs, known))
           left == {refs[i].manifest : i \in DOMAIN refs} \ known
           d == [at |-> "open", since |-> doing[r].since, wanted |-> doing[r].wanted,
                 out |-> Statuses(p), todo |-> left]
<1>1. /\ UNCHANGED <<steamVars, cacheVars, extraVars>> /\ held' = held
      /\ doing[r].at = "model" /\ doing' = [doing EXCEPT ![r] = d]
  BY DEF FromModel, At, Becomes
<1>2. /\ refs \in Seq(Refs) /\ Once(refs) /\ doing[r].since \subseteq held
      /\ ManifestsOf(refs) = doing[r].wanted
  BY <1>1 DEF LibraryInv, DoingInv, RequestOK, AskedOK
<1>3. p \in Seq(Refs) /\ Once(p) /\ ManifestsOf(p) = ManifestsOf(refs) \cap known
  BY <1>2, CoveredList
<1>4. left = ManifestsOf(refs) \ known /\ left \subseteq Manifests
  BY <1>2, ManifestsListed DEF ManifestsOf
<1>9. doing[r].wanted \subseteq Manifests
  BY <1>2, ManifestsListed
<1> DEFINE since == doing[r].since
<1> HIDE DEF known, refs, p, left, since
<1>5. /\ Statuses(p) \in Seq(Outcomes) /\ Once(Statuses(p))
      /\ ManifestsOf(Statuses(p)) = ManifestsOf(p) /\ Between(Statuses(p), since, held)
  BY <1>2, <1>3, StatusList DEF since
<1>6. OpenOK(d, held)
  <2>1. d \in [at : {"open"}, since : SUBSET held, wanted : SUBSET Manifests,
               out : Seq(Outcomes), todo : SUBSET Manifests]
    BY <1>2, <1>4, <1>5, <1>9
  <2> QED
    BY <1>2, <1>3, <1>4, <1>5, <2>1 DEF OpenOK, since
<1>7. RequestOK(d, held)
  BY <1>6 DEF RequestOK, GamesOK, InfoOK, PageOK, AskedOK, AnswerOK
<1> HIDE DEF d
<1>8. DoingInv'
  BY <1>1, <1>7, BecomesOK DEF LibraryInv
<1> QED
  BY <1>1, <1>8 DEF LibraryInv, PlacesInv, TrackedInv, CachedInv, steamVars, cacheVars, extraVars

-----------------------------------------------------------------------------
LEMMA OpenOneKeeps ==
    ASSUME LibraryInv, NEW r \in Requests, NEW m \in Manifests, OpenOne(r, m)
    PROVE  LibraryInv'
<1> DEFINE d == doing[r]
<1>1. /\ UNCHANGED <<steamVars, cacheVars, extraVars>> /\ held' = held
      /\ d.at = "open" /\ m \in d.todo
  BY DEF OpenOne, At, Opened, storeVars
<1>2. PICK o \in {Status(m), Failed(m)} :
        doing' = [doing EXCEPT ![r] = [d EXCEPT !.todo = @ \ {m}, !.out = Append(@, o)]]
  BY DEF OpenOne, Becomes
<1>3. OpenOK(d, held)
  BY DEF LibraryInv, DoingInv, RequestOK
<1>4. /\ d \in [at : {"open"}, since : SUBSET held, wanted : SUBSET Manifests,
                out : Seq(Outcomes), todo : SUBSET Manifests]
      /\ Once(d.out)
      /\ ManifestsOf(d.out) \cup d.todo = d.wanted
      /\ ManifestsOf(d.out) \cap d.todo = {}
      /\ Between(d.out, d.since, held)
  BY <1>1, <1>3 DEF OpenOK
<1>5. /\ o \in Outcomes /\ o.manifest = m
      /\ ~o.error => o.missing = ChunksIn[m] \ held
  <2>1. CASE o = Status(m)
    BY <2>1, LibraryAssumption DEF Status, Outcomes, Missing
  <2>2. CASE o = Failed(m)
    BY <2>2 DEF Failed, Outcomes
  <2> QED
    BY <2>1, <2>2
<1> DEFINE out == d.out
           new == Append(out, o)
           e == [d EXCEPT !.todo = @ \ {m}, !.out = new]
<1>6. /\ new \in Seq(Outcomes) /\ Once(new)
      /\ ManifestsOf(new) = ManifestsOf(out) \cup {m}
  <2>1. out \in Seq(Outcomes) /\ Once(out) /\ m \notin ManifestsOf(out)
    BY <1>1, <1>4
  <2> HIDE DEF out
  <2> QED
    BY <1>5, <2>1, OneMore
<1>7. Between(new, d.since, held)
  <2>1. out \in Seq(Outcomes) /\ Between(out, d.since, held) /\ d.since \subseteq held
    BY <1>4
  <2> DEFINE since == d.since
  <2> HIDE DEF out, since
  <2>2. ~o.error => /\ ChunksIn[o.manifest] \ held \subseteq o.missing
                    /\ o.missing \subseteq ChunksIn[o.manifest] \ since
    BY <1>5, <2>1 DEF since
  <2>3. Between(new, since, held)
    BY <1>5, <2>1, <2>2, BetweenMore DEF since
  <2> QED
    BY <2>3 DEF since
<1> HIDE DEF new
<1>8. /\ e \in [at : {"open"}, since : SUBSET held, wanted : SUBSET Manifests,
                out : Seq(Outcomes), todo : SUBSET Manifests]
      /\ e.out = new /\ e.todo = d.todo \ {m} /\ e.wanted = d.wanted
      /\ e.since = d.since
      /\ e.at = "open"
  BY <1>4, <1>6
<1> HIDE DEF e
<1>9. OpenOK(e, held)
  <2>1. ManifestsOf(e.out) \cup e.todo = e.wanted
    BY <1>1, <1>4, <1>6, <1>8
  <2>2. ManifestsOf(e.out) \cap e.todo = {}
    BY <1>4, <1>6, <1>8
  <2> QED
    BY <1>6, <1>7, <1>8, <2>1, <2>2 DEF OpenOK
<1>10. RequestOK(e, held)
  BY <1>8, <1>9 DEF RequestOK, GamesOK, InfoOK, PageOK, AskedOK, AnswerOK
<1>11. DoingInv'
  BY <1>1, <1>2, <1>10, BecomesOK DEF LibraryInv, e, new
<1> QED
  BY <1>1, <1>11 DEF LibraryInv, PlacesInv, TrackedInv, CachedInv, steamVars, cacheVars, extraVars

LEMMA AnswerKeeps ==
    ASSUME LibraryInv, NEW r \in Requests, Answer(r)
    PROVE  LibraryInv'
<1> DEFINE d == [at |-> "answered", wanted |-> doing[r].wanted, out |-> doing[r].out,
                 since |-> doing[r].since]
<1>1. /\ UNCHANGED <<steamVars, cacheVars, extraVars, storeVars>>
      /\ doing[r].at = "open" /\ doing[r].todo = {} /\ doing' = [doing EXCEPT ![r] = d]
  BY DEF Answer, At, Becomes
<1>2. OpenOK(doing[r], held)
  BY DEF LibraryInv, DoingInv, RequestOK
<1>3. AnswerOK(d, held)
  BY <1>1, <1>2 DEF OpenOK, AnswerOK
<1>4. RequestOK(d, held)
  BY <1>3 DEF RequestOK, GamesOK, InfoOK, PageOK, AskedOK, OpenOK
<1> HIDE DEF d
<1>5. held' = held
  BY <1>1 DEF storeVars
<1>6. DoingInv'
  BY <1>1, <1>4, <1>5, BecomesOK DEF LibraryInv
<1> QED
  BY <1>1, <1>6 DEF LibraryInv, PlacesInv, TrackedInv, CachedInv, steamVars, cacheVars, extraVars

LEMMA VisitKeeps ==
    ASSUME LibraryInv, NEW r \in Requests, Visit(r)
    PROVE  LibraryInv'
<1> DEFINE stored == IF account = None THEN None ELSE cache[GamesKey(account)]
           d == [at |-> "visit", account |-> account, read |-> stored]
<1>1. /\ UNCHANGED <<steamVars, cacheVars, extraVars, storeVars>>
      /\ doing' = [doing EXCEPT ![r] = d]
  BY DEF Visit, Becomes
<1>2. stored # None => stored.value.of = account
  BY DEF LibraryInv, PlacesInv, CachedInv
<1> HIDE DEF stored
<1>3. RequestOK(d, held)
  BY <1>2 DEF RequestOK, GamesOK, InfoOK, PageOK, AskedOK, OpenOK, AnswerOK
<1> HIDE DEF d
<1>4. held' = held
  BY <1>1 DEF storeVars
<1>5. DoingInv'
  BY <1>1, <1>3, <1>4, BecomesOK DEF LibraryInv
<1> QED
  BY <1>1, <1>5 DEF LibraryInv, PlacesInv, TrackedInv, CachedInv, steamVars, cacheVars, extraVars

\* As many answers as references: no reference is left out.
LEMMA CompleteCovers ==
    ASSUME NEW refs \in Seq(Refs), Once(refs), Complete(refs, Indexed(refs))
    PROVE  ManifestsOf(Indexed(refs)) = ManifestsOf(refs)
<1> DEFINE S == Covered(refs, model)
           p == Picked(refs, S)
<1>1. /\ p \in Seq(Refs) /\ Len(p) = Cardinality(S)
      /\ ManifestsOf(p) = ManifestsOf(refs) \cap model
  BY CoveredList
<1>2. S \in SUBSET DOMAIN refs
  BY DEF Covered
<1>3. ManifestsOf(p) = {refs[i].manifest : i \in S}
  BY <1>1 DEF Covered, ManifestsOf
<1>4. Len(refs) \in Nat /\ DOMAIN refs = 1..Len(refs)
  OBVIOUS
<1>5. Indexed(refs) = Statuses(p)
  BY DEF Indexed
<1> HIDE DEF p, S
<1>6. Len(Statuses(p)) = Len(p) /\ ManifestsOf(Statuses(p)) = ManifestsOf(p)
  BY <1>1, StatusList
<1>7. Cardinality(S) = Len(refs)
  BY <1>1, <1>5, <1>6 DEF Complete
<1>8. IsFiniteSet(DOMAIN refs) /\ Cardinality(DOMAIN refs) = Len(refs)
  BY <1>4, FS_Interval
<1>9. S = DOMAIN refs
  BY <1>2, <1>7, <1>8, FS_Subset
<1> QED
  BY <1>3, <1>5, <1>6, <1>9 DEF ManifestsOf

LEMMA PreloadKeeps ==
    ASSUME LibraryInv, NEW r \in Requests, Preload(r)
    PROVE  LibraryInv'
<1> DEFINE refs == AppRefs(cache[AppKey].value, extras)
           library == IF doing[r].read = None THEN None
                      ELSE [games |-> doing[r].read.value, of |-> doing[r].read.at,
                            stamp |-> cache[GamesKey(doing[r].account)].at]
           statuses == IF cache[AppKey] = None \/ model = None THEN NoStatuses
                       ELSE [refs |-> refs, out |-> Indexed(refs),
                             complete |-> Complete(refs, Indexed(refs))]
           d == [at |-> "page", account |-> doing[r].account, library |-> library,
                 statuses |-> statuses, fetched |-> {}]
<1>1. /\ UNCHANGED <<steamVars, cacheVars, extraVars, storeVars>>
      /\ doing[r].at = "visit" /\ doing' = [doing EXCEPT ![r] = d]
  BY DEF Preload, At, Becomes
<1>2. library # None => library.games.of = doing[r].account
  <2>1. doing[r].read # None => doing[r].read.value.of = doing[r].account
    BY <1>1 DEF LibraryInv, DoingInv, RequestOK, GamesOK
  <2> QED
    BY <2>1
<1>3. statuses.complete => ManifestsOf(statuses.out) = ManifestsOf(statuses.refs)
  <2>1. CASE cache[AppKey] = None \/ model = None
    BY <2>1 DEF NoStatuses
  <2>2. CASE cache[AppKey] # None /\ model # None
    <3>1. refs \in Seq(Refs) /\ Once(refs)
      BY <2>2, AppRefsList DEF LibraryInv, CachedInv, TrackedInv
    <3> HIDE DEF refs
    <3>2. statuses.refs = refs /\ statuses.out = Indexed(refs)
          /\ (statuses.complete <=> Complete(refs, Indexed(refs)))
      BY <2>2
    <3> QED
      BY <3>1, <3>2, CompleteCovers
  <2> QED
    BY <2>1, <2>2
<1> HIDE DEF library, statuses
<1>4. RequestOK(d, held)
  BY <1>2, <1>3 DEF RequestOK, GamesOK, InfoOK, PageOK, AskedOK, OpenOK, AnswerOK
<1> HIDE DEF d
<1>5. held' = held
  BY <1>1 DEF storeVars
<1>6. DoingInv'
  BY <1>1, <1>4, <1>5, BecomesOK DEF LibraryInv
<1> QED
  BY <1>1, <1>6 DEF LibraryInv, PlacesInv, TrackedInv, CachedInv, steamVars, cacheVars, extraVars

LEMMA OpenIfOnDiskKeeps ==
    ASSUME LibraryInv, NEW r \in Requests, NEW m \in Manifests, OpenIfOnDisk(r, m)
    PROVE  LibraryInv'
<1> DEFINE d == doing[r]
           e == [d EXCEPT !.fetched = @ \cup ({m} \ onDisk)]
<1>1. /\ UNCHANGED <<steamVars, cacheVars, extraVars>> /\ held' = held
      /\ d.at = "page" /\ doing' = [doing EXCEPT ![r] = e]
  BY DEF OpenIfOnDisk, At, Opened
<1>2. PageOK(d)
  BY DEF LibraryInv, DoingInv, RequestOK
<1>3. /\ d = [at |-> "page", account |-> d.account, library |-> d.library,
              statuses |-> d.statuses, fetched |-> d.fetched]
      /\ d.library # None => d.library.games.of = d.account
      /\ d.statuses.complete => ManifestsOf(d.statuses.out) = ManifestsOf(d.statuses.refs)
  BY <1>1, <1>2 DEF PageOK
<1> HIDE DEF d
<1>4. e = [at |-> "page", account |-> d.account, library |-> d.library,
           statuses |-> d.statuses, fetched |-> d.fetched \cup ({m} \ onDisk)]
  BY <1>3
<1> HIDE DEF e
<1>5. PageOK(e)
  BY <1>3, <1>4 DEF PageOK
<1>6. RequestOK(e, held)
  BY <1>4, <1>5 DEF RequestOK, GamesOK, InfoOK, AskedOK, OpenOK, AnswerOK
<1>7. DoingInv'
  BY <1>1, <1>6, BecomesOK DEF LibraryInv
<1> QED
  BY <1>1, <1>7 DEF LibraryInv, PlacesInv, TrackedInv, CachedInv, steamVars, cacheVars, extraVars

LEMMA CloseKeeps ==
    ASSUME LibraryInv, NEW r \in Requests, Close(r)
    PROVE  LibraryInv'
<1>1. /\ UNCHANGED <<steamVars, cacheVars, extraVars, storeVars>> /\ held' = held
      /\ doing' = [doing EXCEPT ![r] = Idle]
  BY DEF Close, Becomes, storeVars
<1>2. DoingInv'
  BY <1>1, IdleOK, BecomesOK DEF LibraryInv
<1> QED
  BY <1>1, <1>2 DEF LibraryInv, PlacesInv, TrackedInv, CachedInv, steamVars, cacheVars, extraVars

-----------------------------------------------------------------------------
\* The steps outside of requests.
LEMMA OutsideKeeps ==
    ASSUME LibraryInv,
           \/ \E a \in Accounts \cup {None} : Login(a)
           \/ SteamChanges
           \/ \E c \in AppChunks : Land(c)
           \/ \E m \in Manifests : PruneManifest(m)
    PROVE  LibraryInv'
<1>1. PlacesInv'
  BY LibraryAssumption
  DEF LibraryInv, PlacesInv, Login, SteamChanges, Land, PruneManifest, steamVars
<1>2. UNCHANGED <<cacheVars, extraVars, doing>> /\ held \subseteq held'
  BY DEF Login, SteamChanges, Land, PruneManifest, storeVars
<1>3. DoingInv'
  <2>1. DOMAIN doing' = Requests /\ \A r \in Requests : doing'[r] = doing[r]
    BY <1>2 DEF LibraryInv, DoingInv
  <2> QED
    BY <1>2, <2>1, DoingNext DEF LibraryInv
<1> QED
  BY <1>1, <1>2, <1>3 DEF LibraryInv, TrackedInv, CachedInv, cacheVars, extraVars

LEMMA StoreKeeps ==
    ASSUME LibraryInv, NEW list, list \in Seq(Refs), Once(list), NEW saved \in BOOLEAN,
           Store(list, saved)
    PROVE  LibraryInv'
<1>1. UNCHANGED <<steamVars, cacheVars, storeVars, doing>>
  BY DEF Store
<1>2. TrackedInv'
  BY DEF LibraryInv, TrackedInv, Store
<1> QED
  BY <1>1, <1>2 DEF LibraryInv, PlacesInv, CachedInv, DoingInv, steamVars, cacheVars, storeVars

LEMMA RestartKeeps == LibraryInv /\ Restart => LibraryInv'
<1> SUFFICES ASSUME LibraryInv, Restart PROVE LibraryInv'
  OBVIOUS
<1>1. PlacesInv' /\ TrackedInv' /\ CachedInv'
  BY DEF LibraryInv, PlacesInv, TrackedInv, CachedInv, Restart, cacheVars
<1>2. DoingInv'
  <2>1. DOMAIN doing' = Requests /\ \A r \in Requests : doing'[r] = Idle
    BY DEF Restart
  <2> QED
    BY <2>1, IdleOK DEF DoingInv
<1> QED
  BY <1>1, <1>2 DEF LibraryInv

LEMMA LibraryInvNext == LibraryInv /\ [LibraryNext]_libraryVars => LibraryInv'
<1> SUFFICES ASSUME LibraryInv, [LibraryNext]_libraryVars PROVE LibraryInv'
  OBVIOUS
<1>1. ASSUME NEW list \in Lists, NEW saved \in BOOLEAN, SetExtras(list, saved)
      PROVE  LibraryInv'
  BY <1>1, LibraryAssumption, DistinctList, StoreKeeps DEF SetExtras
<1>2. ASSUME NEW m \in Manifests, NEW saved \in BOOLEAN, RemoveExtra(m, saved)
      PROVE  LibraryInv'
  BY <1>2, WithoutList, StoreKeeps DEF RemoveExtra, LibraryInv, TrackedInv
<1>3. ASSUME NEW r \in Requests, RequestNext(r)
      PROVE  LibraryInv'
  BY <1>3, GamesSteps, AskSteps, FromModelKeeps, OpenOneKeeps, AnswerKeeps, VisitKeeps,
     PreloadKeeps, OpenIfOnDiskKeeps, CloseKeeps DEF RequestNext
<1>4. CASE UNCHANGED libraryVars
  BY <1>4 DEF libraryVars, LibraryInv, PlacesInv, TrackedInv, CachedInv, DoingInv,
              steamVars, cacheVars, extraVars, storeVars
<1> QED
  BY <1>1, <1>2, <1>3, <1>4, OutsideKeeps, RestartKeeps DEF LibraryNext

-----------------------------------------------------------------------------
\* Games of the account logged in, a complete preload, tracked manifests kept and
\* statuses that count what is missing, after any number of overlapping requests.
THEOREM LibraryIsRight == LibrarySpec => []LibraryRight
<1>1. LibraryInv => GamesOfAccount /\ PreloadComplete
  BY DEF LibraryInv, DoingInv, RequestOK, PageOK, GamesOfAccount, PreloadComplete,
         ManifestsOf, At
<1>2. LibraryInv => TrackedKept
  BY DEF LibraryInv, TrackedInv, TrackedKept, Once
<1>3. LibraryInv => BatchRight
  <2> SUFFICES ASSUME LibraryInv, NEW r \in Requests, At(r, "answered")
               PROVE  LET out == doing[r].out
                      IN /\ Len(out) = Cardinality(doing[r].wanted)
                         /\ {out[i].manifest : i \in DOMAIN out} = doing[r].wanted
                         /\ \A i \in DOMAIN out : ~out[i].error =>
                              /\ Missing(out[i].manifest) \subseteq out[i].missing
                              /\ out[i].missing \subseteq ChunksIn[out[i].manifest] \ doing[r].since
    BY DEF BatchRight
  <2> DEFINE out == doing[r].out
             wanted == doing[r].wanted
  <2>1. /\ out \in Seq(Outcomes) /\ Once(out)
        /\ ManifestsOf(out) = wanted /\ Between(out, doing[r].since, held)
    BY DEF LibraryInv, DoingInv, RequestOK, AnswerOK, At
  <2> HIDE DEF out, wanted
  <2>2. Len(out) = Cardinality(wanted)
    BY <2>1, OnceLength
  <2> QED
    BY <2>1, <2>2 DEF ManifestsOf, Between, Missing, out, wanted
<1> QED
  BY <1>1, <1>2, <1>3, LibraryInvInit, LibraryInvNext, PTL DEF LibrarySpec, LibraryRight

LEMMA FirstAaIs ==
    ASSUME NEW p \in Path, AaAt(p) # {}
    PROVE  /\ FirstAa(p) \in 2 .. Len(p) - 1 /\ p[FirstAa(p)] = AA
           /\ \A j \in 2 .. FirstAa(p) - 1 : p[j] # AA
<1>1. Len(p) \in Nat
  BY DEF Path
<1>2. AaAt(p) \subseteq Nat
  BY <1>1 DEF AaAt
<1>3. \E i \in AaAt(p) : \A j \in AaAt(p) : i <= j
  BY <1>2, Least
<1>4. FirstAa(p) \in AaAt(p) /\ \A j \in AaAt(p) : FirstAa(p) <= j
  BY <1>3 DEF FirstAa
<1> HIDE DEF FirstAa
<1>5. ASSUME NEW j \in 2 .. FirstAa(p) - 1 PROVE p[j] # AA
  <2>1. FirstAa(p) \in 2 .. Len(p) - 1
    BY <1>4 DEF AaAt
  <2>2. ~ (FirstAa(p) <= j) /\ j \in 2 .. Len(p) - 1
    BY <1>1, <2>1
  <2> QED
    BY <1>4, <2>2 DEF AaAt
<1> QED
  BY <1>4, <1>5 DEF AaAt

\* The first "aa" is the only one before which there is none.
LEMMA FirstAaOnly ==
    ASSUME NEW p \in Path, NEW i \in 2 .. Len(p) - 1, p[i] = AA,
           \A j \in 2 .. i - 1 : p[j] # AA
    PROVE  AaAt(p) # {} /\ FirstAa(p) = i
<1>1. Len(p) \in Nat
  BY DEF Path
<1>2. i \in AaAt(p)
  BY DEF AaAt
<1>3. /\ FirstAa(p) \in 2 .. Len(p) - 1 /\ p[FirstAa(p)] = AA
      /\ \A j \in 2 .. FirstAa(p) - 1 : p[j] # AA
  BY <1>2, FirstAaIs
<1> HIDE DEF FirstAa
<1>4. ~ (FirstAa(p) < i)
  BY <1>1, <1>3
<1>5. ~ (i < FirstAa(p))
  BY <1>1, <1>3
<1> QED
  BY <1>1, <1>2, <1>3, <1>4, <1>5

LEMMA TargetAt ==
    ASSUME NEW p \in Path
    PROVE  HasTarget(p) <=>
             \E i \in 3 .. Len(p) - 1 : /\ p[i - 1] = AA
                                        /\ \A j \in 2 .. i - 2 : p[j] # AA
                                        /\ p[i] \in BuildTarget
<1>1. Len(p) \in Nat
  BY DEF Path
<1>2. ASSUME HasTarget(p)
      PROVE  \E i \in 3 .. Len(p) - 1 : /\ p[i - 1] = AA
                                        /\ \A j \in 2 .. i - 2 : p[j] # AA
                                        /\ p[i] \in BuildTarget
  <2> DEFINE a == FirstAa(p)
  <2>1. /\ a \in 2 .. Len(p) - 1 /\ p[a] = AA /\ \A j \in 2 .. a - 1 : p[j] # AA
        /\ p[a + 1] \in BuildTarget /\ a + 1 < Len(p)
    BY <1>2, FirstAaIs DEF HasTarget
  <2> HIDE DEF a
  <2>2. a + 1 \in 3 .. Len(p) - 1 /\ (a + 1) - 1 = a /\ (a + 1) - 2 = a - 1
    BY <1>1, <2>1
  <2> QED
    BY <2>1, <2>2
<1>3. ASSUME NEW i \in 3 .. Len(p) - 1, p[i - 1] = AA, \A j \in 2 .. i - 2 : p[j] # AA,
             p[i] \in BuildTarget
      PROVE  HasTarget(p)
  <2>1. i - 1 \in 2 .. Len(p) - 1 /\ (i - 1) - 1 = i - 2 /\ (i - 1) + 1 = i /\ i < Len(p)
    BY <1>1
  <2>2. AaAt(p) # {} /\ FirstAa(p) = i - 1
    BY <1>3, <2>1, FirstAaOnly
  <2> QED
    BY <1>3, <2>1, <2>2 DEF HasTarget
<1> QED
  BY <1>2, <1>3

\* What a key is made of.
LEMMA KeyParts ==
    ASSUME NEW p \in Path, HasTarget(p)
    PROVE  /\ FirstAa(p) \in 2 .. Len(p) - 2
           /\ p[FirstAa(p)] = AA /\ p[FirstAa(p) + 1] \in BuildTarget
           /\ \A j \in 2 .. FirstAa(p) - 1 : p[j] # AA
           /\ Len(PairKey(p).head) = FirstAa(p)
           /\ \A j \in 1 .. FirstAa(p) : PairKey(p).head[j] = p[j]
           /\ Len(PairKey(p).tail) = Len(p) - FirstAa(p) - 1
           /\ \A j \in 1 .. Len(p) - FirstAa(p) - 1 :
                PairKey(p).tail[j] = p[FirstAa(p) + 1 + j]
<1> DEFINE a == FirstAa(p)
<1>1. Len(p) \in Nat /\ p \in Seq(Component)
  BY DEF Path
<1>2. /\ a \in 2 .. Len(p) - 2 /\ p[a + 1] \in BuildTarget /\ p[a] = AA
      /\ \A j \in 2 .. a - 1 : p[j] # AA
  <2>1. /\ a \in 2 .. Len(p) - 1 /\ p[a] = AA /\ \A j \in 2 .. a - 1 : p[j] # AA
        /\ p[a + 1] \in BuildTarget /\ a + 1 < Len(p)
    BY FirstAaIs DEF HasTarget
  <2> HIDE DEF a
  <2> QED
    BY <1>1, <2>1
<1>3. PairKey(p) = [head |-> SubSeq(p, 1, a), tail |-> SubSeq(p, a + 2, Len(p))]
  BY DEF PairKey
<1> HIDE DEF a
<1>4. /\ SubSeq(p, 1, a) \in Seq(Component) /\ Len(SubSeq(p, 1, a)) = a
      /\ \A j \in 1 .. a : SubSeq(p, 1, a)[j] = p[j]
  BY <1>1, <1>2
<1>5. /\ SubSeq(p, a + 2, Len(p)) \in Seq(Component)
      /\ Len(SubSeq(p, a + 2, Len(p))) = Len(p) - a - 1
      /\ \A j \in 1 .. Len(p) - a - 1 : SubSeq(p, a + 2, Len(p))[j] = p[a + 1 + j]
  BY <1>1, <1>2
<1>6. /\ Len(PairKey(p).head) = a /\ \A j \in 1 .. a : PairKey(p).head[j] = p[j]
      /\ Len(PairKey(p).tail) = Len(p) - a - 1
      /\ \A j \in 1 .. Len(p) - a - 1 : PairKey(p).tail[j] = p[a + 1 + j]
  BY <1>3, <1>4, <1>5
<1> QED
  BY <1>2, <1>6 DEF a

\* Two sequences with the same elements are one.
LEMMA SamePath ==
    ASSUME NEW p \in Path, NEW q \in Path, Len(p) = Len(q),
           \A j \in 1 .. Len(p) : p[j] = q[j]
    PROVE  p = q
  BY DEF Path

\* The key of a path without a build target is that of no other path.
LEMMA PlainKey ==
    ASSUME NEW p \in Path, NEW q \in Path, ~ HasTarget(p), PairKey(p) = PairKey(q)
    PROVE  p = q
<1>1. PairKey(p).head = p /\ PairKey(p).tail = <<>>
  BY DEF PairKey
<1>2. CASE HasTarget(q)
  <2>1. /\ FirstAa(q) \in 2 .. Len(q) - 2
        /\ Len(PairKey(q).tail) = Len(q) - FirstAa(q) - 1
    BY <1>2, KeyParts
  <2>2. Len(q) \in Nat
    BY DEF Path
  <2>3. Len(PairKey(q).tail) # 0
    BY <2>1, <2>2
  <2> QED
    BY <1>1, <2>3
<1>3. CASE ~ HasTarget(q)
  BY <1>1, <1>3 DEF PairKey
<1> QED
  BY <1>2, <1>3

\* Files are paired exactly when their paths are equal or differ in the build
\* target's folder alone.
THEOREM KeyPairs ==
    ASSUME NEW p \in Path, NEW q \in Path
    PROVE  PairKey(p) = PairKey(q) <=> p = q \/ SwapsTarget(p, q)
<1>1. Len(p) \in Nat /\ Len(q) \in Nat /\ DOMAIN p = 1 .. Len(p)
  BY DEF Path
<1>2. ASSUME PairKey(p) = PairKey(q) PROVE p = q \/ SwapsTarget(p, q)
  <2>1. CASE ~ HasTarget(p) \/ ~ HasTarget(q)
    BY <1>2, <2>1, PlainKey
  <2>2. CASE HasTarget(p) /\ HasTarget(q)
    <3> DEFINE head == PairKey(p).head
               tail == PairKey(p).tail
               a == FirstAa(p)
               b == FirstAa(q)
    <3>1. /\ a \in 2 .. Len(p) - 2 /\ b \in 2 .. Len(q) - 2
          /\ Len(head) = a /\ Len(tail) = Len(p) - a - 1
          /\ Len(head) = b /\ Len(tail) = Len(q) - b - 1
      BY <1>2, <2>2, KeyParts
    <3>2. /\ p[a + 1] \in BuildTarget /\ p[a] = AA /\ q[b + 1] \in BuildTarget
          /\ \A j \in 2 .. a - 1 : p[j] # AA
      BY <2>2, KeyParts
    <3>3. (\A j \in 1 .. a : head[j] = p[j]) /\ (\A j \in 1 .. b : head[j] = q[j])
      BY <1>2, <2>2, KeyParts
    <3>4. /\ \A j \in 1 .. Len(p) - a - 1 : tail[j] = p[a + 1 + j]
          /\ \A j \in 1 .. Len(q) - b - 1 : tail[j] = q[b + 1 + j]
      BY <1>2, <2>2, KeyParts
    <3> HIDE DEF head, tail, a, b
    <3>5. a = b /\ Len(p) = Len(q) /\ a \in Nat
      <4>1. a \in Nat /\ a = b
        BY <1>1, <3>1
      <4>2. Len(p) - a - 1 = Len(q) - a - 1
        BY <3>1, <4>1
      <4> QED
        BY <1>1, <4>1, <4>2
    <3>6. ASSUME NEW j \in (1 .. Len(p)) \ {a + 1} PROVE p[j] = q[j]
      <4>1. CASE j <= a
        <5>1. j \in 1 .. a
          BY <1>1, <3>5, <4>1
        <5> QED
          BY <3>3, <3>5, <5>1
      <4>2. CASE ~ (j <= a)
        <5>1. j - a - 1 \in 1 .. Len(p) - a - 1 /\ a + 1 + (j - a - 1) = j
          BY <1>1, <3>1, <3>5, <4>2
        <5>2. j - a - 1 \in 1 .. Len(q) - b - 1 /\ b + 1 + (j - a - 1) = j
          BY <3>5, <5>1
        <5> QED
          BY <3>4, <5>1, <5>2
      <4> QED
        BY <4>1, <4>2
    <3>7. a + 1 \in 3 .. Len(p) - 1 /\ (a + 1) - 1 = a /\ (a + 1) - 2 = a - 1
      BY <1>1, <3>1, <3>5
    <3>8. SwapsTarget(p, q)
      BY <1>1, <3>2, <3>5, <3>6, <3>7 DEF SwapsTarget
    <3> QED
      BY <3>8
  <2> QED
    BY <2>1, <2>2
<1>3. ASSUME SwapsTarget(p, q) PROVE PairKey(p) = PairKey(q)
  <2>1. PICK i \in 3 .. Len(p) - 1 : /\ p[i - 1] = AA
                                     /\ \A j \in 2 .. i - 2 : p[j] # AA
                                     /\ p[i] \in BuildTarget /\ q[i] \in BuildTarget
                                     /\ \A j \in DOMAIN p \ {i} : p[j] = q[j]
    BY <1>3 DEF SwapsTarget
  <2>2. Len(p) = Len(q)
    BY <1>3 DEF SwapsTarget
  <2>3. i - 1 \in DOMAIN p \ {i} /\ \A j \in 2 .. i - 2 : j \in DOMAIN p \ {i}
    BY <1>1
  <2>4. q[i - 1] = AA /\ \A j \in 2 .. i - 2 : q[j] # AA
    BY <2>1, <2>3
  <2>5. /\ i - 1 \in 2 .. Len(p) - 1 /\ (i - 1) - 1 = i - 2 /\ (i - 1) + 1 = i
        /\ (i - 1) + 2 = i + 1 /\ i < Len(p)
    BY <1>1
  <2>6. FirstAa(p) = i - 1 /\ HasTarget(p)
    BY <2>1, <2>5, FirstAaOnly DEF HasTarget
  <2>7. FirstAa(q) = i - 1 /\ HasTarget(q)
    BY <2>1, <2>2, <2>4, <2>5, FirstAaOnly DEF HasTarget
  <2>8. SubSeq(p, 1, i - 1) = SubSeq(q, 1, i - 1)
    <3>1. \A j \in 1 .. i - 1 : p[j] = q[j]
      BY <1>1, <2>1
    <3> QED
      BY <1>1, <2>2, <3>1 DEF Path
  <2>9. SubSeq(p, i + 1, Len(p)) = SubSeq(q, i + 1, Len(q))
    <3>1. \A j \in (i + 1) .. Len(p) : p[j] = q[j]
      BY <1>1, <2>1
    <3> QED
      BY <1>1, <2>2, <3>1 DEF Path
  <2> QED
    BY <2>5, <2>6, <2>7, <2>8, <2>9 DEF PairKey
<1>4. ASSUME p = q PROVE PairKey(p) = PairKey(q)
  BY <1>4
<1> QED
  BY <1>2, <1>3, <1>4

-----------------------------------------------------------------------------
\* Pairs of files, as keys and as paths.
Key(f) == PairKey(f.path)

LEMMA Listed ==
    ASSUME NEW r \in Ref
    PROVE  /\ FileAt(FilesOf[r]) \subseteq 1 .. Len(FilesOf[r]) /\ Len(FilesOf[r]) \in Nat
           /\ \A f \in FilesIn(FilesOf[r]) : f.path \in Path /\ f \in AllFiles
  BY DiffAssumption DEF FileAt, FilesIn, AllFiles

LEMMA SameKeys ==
    ASSUME NEW r \in Ref, NEW s \in Ref,
           NEW f \in FilesIn(FilesOf[r]), NEW g \in FilesIn(FilesOf[s])
    PROVE  Same(f, g) <=> Key(f) = Key(g)
  BY Listed, KeyPairs DEF Same, Key

LEMMA HasKey ==
    ASSUME NEW r \in Ref, NEW s \in Ref, NEW f \in FilesIn(FilesOf[s])
    PROVE  Has(r, f) <=> \E g \in FilesIn(FilesOf[r]) : Key(g) = Key(f)
  BY SameKeys DEF Has

\* A key that a manifest has is found at its last file.
LEMMA ByKeyIs ==
    ASSUME NEW r \in Ref, NEW k, KeyAt(FilesOf[r], k) # {}
    PROVE  ByKey(FilesOf[r], k) \in FilesIn(FilesOf[r]) /\ Key(ByKey(FilesOf[r], k)) = k
<1> DEFINE m == FilesOf[r]
           S == KeyAt(m, k)
           N == Len(m)
           T == {N - i : i \in S}
<1>1. N \in Nat /\ S \subseteq 1 .. N
  BY Listed DEF KeyAt
<1>2. T \subseteq Nat /\ T # {}
  <2>1. \A i \in S : N - i \in Nat
    BY <1>1
  <2> QED
    BY <2>1
<1>3. PICK t \in T : \A u \in T : t <= u
  BY <1>2, Least
<1>4. PICK i \in S : t = N - i
  OBVIOUS
<1> HIDE DEF S, N
<1>5. \A j \in S : j <= i
  BY <1>1, <1>3, <1>4
<1>6. ByKey(m, k) = m[CHOOSE x \in S : \A j \in S : j <= x]
  BY DEF ByKey, S
<1>7. PICK x \in S : ByKey(m, k) = m[x]
  BY <1>5, <1>6
<1> QED
  BY <1>7 DEF S, KeyAt, FilesIn, Key

LEMMA InBothIs ==
    ASSUME NEW r \in Ref, NEW s \in Ref
    PROVE  InBoth(FilesOf[r], FilesOf[s]) =
             {f \in FilesIn(FilesOf[r]) : \E g \in FilesIn(FilesOf[s]) : Key(g) = Key(f)}
<1>1. \A k : KeyAt(FilesOf[s], k) # {} <=> \E g \in FilesIn(FilesOf[s]) : Key(g) = k
  BY DEF KeyAt, FilesIn, Key
<1> QED
  BY <1>1 DEF InBoth, Key

LEMMA OneOfKey ==
    ASSUME NEW r \in Ref, Unambiguous(FilesOf[r]),
           NEW f \in FilesIn(FilesOf[r]), NEW g \in FilesIn(FilesOf[r]), Key(f) = Key(g)
    PROVE  f = g
  BY DEF Unambiguous, FilesIn, Key

LEMMA PartnerIs ==
    ASSUME NEW r \in Ref, Unambiguous(FilesOf[r]), NEW f, NEW g \in FilesIn(FilesOf[r]),
           Key(g) = Key(f)
    PROVE  Partner(f, FilesOf[r]) = g
<1>1. KeyAt(FilesOf[r], PairKey(f.path)) # {}
  BY DEF KeyAt, FilesIn, Key
<1>2. Partner(f, FilesOf[r]) \in FilesIn(FilesOf[r]) /\ Key(Partner(f, FilesOf[r])) = Key(g)
  BY <1>1, ByKeyIs DEF Partner, Key
<1> QED
  BY <1>2, OneOfKey

\* No two files of an unambiguous manifest have one path.
LEMMA OneOfPath ==
    ASSUME NEW r \in Ref, Unambiguous(FilesOf[r]),
           NEW f \in FilesIn(FilesOf[r]), NEW g \in FilesIn(FilesOf[r]), f.path = g.path
    PROVE  f = g
  BY OneOfKey DEF Key

-----------------------------------------------------------------------------
\* What one other says, by paths.
LEMMA DiffersIs ==
    ASSUME req.base \in Ref, NEW r \in Ref, Unambiguous(FilesOf[r]),
           NEW f \in FilesIn(Base)
    PROVE  f \in DiffersFrom(r) <=>
             \E g \in FilesIn(FilesOf[r]) : Same(f, g) /\ f.id # g.id
<1>1. ASSUME NEW g \in FilesIn(FilesOf[r]), Key(g) = Key(f)
      PROVE  f \in DiffersFrom(r) <=> f.id # g.id
  <2>1. f \in InBoth(Base, FilesOf[r])
    BY <1>1, InBothIs DEF Base
  <2>2. Partner(f, FilesOf[r]) = g
    BY <1>1, PartnerIs
  <2> QED
    BY <2>1, <2>2 DEF DiffersFrom
<1>2. \A g \in FilesIn(FilesOf[r]) : Same(f, g) <=> Key(f) = Key(g)
  BY SameKeys DEF Base
<1>3. ASSUME f \in DiffersFrom(r)
      PROVE  \E g \in FilesIn(FilesOf[r]) : Key(g) = Key(f)
  BY <1>3, InBothIs DEF DiffersFrom, Base
<1>4. ASSUME f \in DiffersFrom(r)
      PROVE  \E g \in FilesIn(FilesOf[r]) : Same(f, g) /\ f.id # g.id
  BY <1>1, <1>2, <1>3, <1>4
<1>5. ASSUME NEW g \in FilesIn(FilesOf[r]), Same(f, g), f.id # g.id
      PROVE  f \in DiffersFrom(r)
  BY <1>1, <1>2, <1>5
<1> QED
  BY <1>4, <1>5

LEMMA ChangedIs ==
    ASSUME req.base \in Ref, NEW r \in Ref, Unambiguous(Base), NEW f \in FilesIn(Base)
    PROVE  f.path \in ChangedIn(r) <=> f \in DiffersFrom(r)
<1>1. DiffersFrom(r) \subseteq FilesIn(Base)
  BY DEF DiffersFrom, InBoth
<1>2. ASSUME f.path \in ChangedIn(r) PROVE f \in DiffersFrom(r)
  <2>1. PICK g \in DiffersFrom(r) : g.path = f.path
    BY <1>2 DEF ChangedIn
  <2>2. g = f
    BY <1>1, <2>1, OneOfPath DEF Base
  <2> QED
    BY <2>2
<1> QED
  BY <1>2 DEF ChangedIn

LEMMA AbsentIs ==
    ASSUME req.base \in Ref, NEW r \in Ref, Unambiguous(Base), NEW f \in FilesIn(Base)
    PROVE  f.path \in AbsentIn(r) <=> ~ Has(r, f)
<1>1. \A g \in FilesIn(Base) : g \in OnlyIn(Base, FilesOf[r]) <=> ~ Has(r, g)
  BY InBothIs, HasKey DEF OnlyIn, Base
<1>2. ASSUME f.path \in AbsentIn(r) PROVE ~ Has(r, f)
  <2>1. PICK g \in OnlyIn(Base, FilesOf[r]) : g.path = f.path
    BY <1>2 DEF AbsentIn
  <2>2. g \in FilesIn(Base)
    BY DEF OnlyIn
  <2>3. g = f
    BY <2>1, <2>2, OneOfPath DEF Base
  <2> QED
    BY <1>1, <2>2, <2>3
<1> QED
  BY <1>1, <1>2 DEF AbsentIn

LEMMA ExtraIs ==
    ASSUME req.base \in Ref, NEW r \in Ref
    PROVE  /\ \A k : k \in DOMAIN ExtraIn(r) <=>
                \E f \in FilesIn(FilesOf[r]) : Key(f) = k /\ ~ Has(req.base, f)
           /\ \A k \in DOMAIN ExtraIn(r) : \E f \in FilesIn(FilesOf[r]) :
                /\ Key(f) = k /\ ~ Has(req.base, f)
                /\ ExtraIn(r)[k] = [path |-> f.path, size |-> f.size]
           /\ \E keys \in SUBSET AllKeys : ExtraIn(r) \in [keys -> Extras]
<1> DEFINE m == FilesOf[r]
           D == {PairKey(f.path) : f \in OnlyIn(m, Base)}
<1>1. \A f \in FilesIn(m) : f \in OnlyIn(m, Base) <=> ~ Has(req.base, f)
  BY InBothIs, HasKey DEF OnlyIn, Base
<1>2. DOMAIN ExtraIn(r) = D
       /\ \A k \in D : ExtraIn(r)[k] = [path |-> ByKey(m, k).path, size |-> ByKey(m, k).size]
  BY DEF ExtraIn
<1>3. \A k : k \in D <=> \E f \in FilesIn(m) : Key(f) = k /\ ~ Has(req.base, f)
  BY <1>1 DEF Key, OnlyIn
<1>4. ASSUME NEW k \in D
      PROVE  /\ ByKey(m, k) \in FilesIn(m) /\ Key(ByKey(m, k)) = k
             /\ ~ Has(req.base, ByKey(m, k))
  <2>1. PICK f \in FilesIn(m) : Key(f) = k /\ ~ Has(req.base, f)
    BY <1>3
  <2>2. KeyAt(m, k) # {}
    BY <2>1 DEF KeyAt, FilesIn, Key
  <2>3. ByKey(m, k) \in FilesIn(m) /\ Key(ByKey(m, k)) = k
    BY <2>2, ByKeyIs
  <2>4. ~ Has(req.base, ByKey(m, k))
    BY <2>1, <2>3, HasKey
  <2> QED
    BY <2>3, <2>4
<1>5. D \in SUBSET AllKeys
  BY Listed DEF AllKeys, OnlyIn
<1>6. \A k \in D : ExtraIn(r)[k] \in Extras
  BY <1>2, <1>4, Listed DEF Extras
<1>7. ExtraIn(r) = [k \in D |-> ExtraIn(r)[k]]
  BY <1>2 DEF ExtraIn
<1>8. ExtraIn(r) \in [D -> Extras]
  BY <1>6, <1>7
<1> QED
  BY <1>2, <1>3, <1>4, <1>5, <1>8

-----------------------------------------------------------------------------
\* The three routes that fold the answers of their others.
Asking == {"diff", "file", "targets"}

RouteInv ==
    /\ Legal(req)
    /\ phase \in {"target", "sweep"} => req.route = "deep"
    /\ phase = "collect" => req.route \in Asking \cup {"versions"}
    /\ phase \in {"previous", "walk"} => req.route = "history"

Gathering == phase \in {"collect", "sent"} /\ req.route \in Asking

FreshInv ==
    phase = "base" =>
        /\ heard = {} /\ refused = {} /\ waiting = {} /\ opening = {}
        /\ changed = {} /\ every = NoMap /\ status = <<>> /\ matching = {}

\* Every other is waiting, being opened, or has answered, one way.
OpensInv ==
    Gathering =>
        /\ (heard \cup refused) \cup (waiting \cup opening) = ToOpen
        /\ heard \cap refused = {} /\ waiting \cap opening = {}
        /\ (heard \cup refused) \cap (waiting \cup opening) = {}
        /\ req.route = "diff" => refused = {}
        /\ phase = "sent" => waiting = {} /\ opening = {}

\* in_every_other after the answers of H.
EveryOf(H) ==
    /\ every = NoMap <=> H = {}
    /\ H # {} => \E keys \in SUBSET AllKeys :
                   /\ every \in [keys -> Extras]
                   /\ \A k : k \in keys <=> \A r \in H : k \in DOMAIN ExtraIn(r)
                   /\ \A k \in keys : \E r \in H : every[k] = ExtraIn(r)[k]

\* What manifest_diff has gathered is the comparison with those heard.
FoldInv ==
    Gathering /\ req.route = "diff" =>
        /\ changed = UNION {ChangedIn(r) : r \in heard}
        /\ \A p : p \in absent <=> /\ p \in {f.path : f \in FilesIn(Base)}
                                   /\ \A r \in heard : p \in AbsentIn(r)
        /\ EveryOf(heard)

StatusInv ==
    Gathering /\ req.route = "file" =>
        /\ DOMAIN status = heard \cup refused
        /\ \A r \in DOMAIN status :
             status[r] = IF r \in refused THEN "different" ELSE FileStatus(r)

MatchInv ==
    Gathering /\ req.route = "targets" =>
        matching = refused \cup {r \in heard : HasDiff(r)}

AskInv == RouteInv /\ FreshInv /\ OpensInv /\ FoldInv /\ StatusInv /\ MatchInv

-----------------------------------------------------------------------------
LEMMA RequestStays == [CompareNext]_allVars => req' = req
<1> SUFFICES ASSUME [CompareNext]_allVars PROVE req' = req
  OBVIOUS
<1>1. CASE DiffNext
  BY <1>1 DEF DiffNext, OpenBase, BaseFails, Abort, Collected, Open, DiffAnswer, DiffRefused,
     FileAnswer, FileRefused, TargetsAnswer, TargetsRefused, Answered, OpenDeepBase, Prepare,
     NextChunk, Checkpoint, Swept, Begin, Verdict, Errored, Judged
<1>2. CASE HistoryNext
  BY <1>2 DEF HistoryNext, OpenCurrent, HistoryFails, Abort, OpenPrevious, Sort, Up, Down,
     Compare, WalkEnds, OpenVersions, ListVersions, VersionAnswer, VersionRefused, Answered
<1>3. CASE UNCHANGED allVars
  BY <1>3 DEF allVars, diffVars
<1> QED
  BY <1>1, <1>2, <1>3 DEF CompareNext

\* Which actions a route has.
LEMMA AskingSteps ==
    ASSUME RouteInv, CompareNext, req.route \in Asking
    PROVE  \/ OpenBase \/ Abort \/ Collected
           \/ \E r \in Ref : \/ Open(r) \/ DiffAnswer(r) \/ FileAnswer(r) \/ FileRefused(r)
                             \/ TargetsAnswer(r) \/ TargetsRefused(r)
<1>1. phase \notin {"target", "sweep", "previous", "walk"}
  BY DEF RouteInv, Asking
<1>2. req.route \notin {"deep", "history", "versions"}
  BY DEF Asking
<1>3. ~ HistoryNext
  BY <1>1, <1>2 DEF HistoryNext, OpenCurrent, HistoryFails, OpenPrevious, Sort, Up, Down,
     WalkEnds, OpenVersions, ListVersions, VersionAnswer, VersionRefused, HistoryRoute
<1>4. /\ ~ OpenDeepBase /\ ~ Prepare /\ ~ NextChunk /\ ~ Checkpoint /\ ~ Swept
      /\ ~ \E i \in work \cup chunk : Begin(i) \/ Verdict(i) \/ Errored(i)
  BY <1>1, <1>2 DEF OpenDeepBase, Prepare, NextChunk, Checkpoint, Swept, Begin, Verdict,
     Errored, Judged
<1> QED
  BY <1>3, <1>4 DEF CompareNext, DiffNext, BaseFails, DiffRefused

LEMMA RouteNext == RouteInv /\ [CompareNext]_allVars => RouteInv'
<1> SUFFICES ASSUME RouteInv, [CompareNext]_allVars PROVE RouteInv'
  OBVIOUS
<1>0. req' = req
  BY RequestStays
<1>1. CASE UNCHANGED allVars
  BY <1>0, <1>1 DEF allVars, diffVars, RouteInv
<1>2. CASE HistoryNext
  <2>1. \/ phase' = phase \/ phase' \in {"failed", "sent"}
        \/ phase' \in {"previous", "walk"} /\ req.route = "history"
        \/ phase' = "collect" /\ req.route = "versions"
    BY <1>2 DEF HistoryNext, OpenCurrent, HistoryFails, Abort, OpenPrevious, Sort, Up, Down,
       Compare, WalkEnds, OpenVersions, ListVersions, VersionAnswer, VersionRefused, Answered,
       RouteInv
  <2> QED
    BY <1>0, <2>1 DEF RouteInv
<1>3. CASE DiffNext
  <2>1. \/ phase' = phase \/ phase' \in {"failed", "sent"}
        \/ phase' \in {"target", "sweep"} /\ req.route = "deep"
        \/ phase' = "collect" /\ req.route \in Asking
    BY <1>3 DEF DiffNext, OpenBase, BaseFails, Abort, Collected, Open, DiffAnswer,
     DiffRefused, FileAnswer, FileRefused, TargetsAnswer, TargetsRefused, Answered,
     OpenDeepBase, Prepare, NextChunk, Checkpoint, Swept, Begin, Verdict, Errored, Judged,
     RouteInv, Asking, Route
  <2> QED
    BY <1>0, <2>1 DEF RouteInv, Asking
<1> QED
  BY <1>1, <1>2, <1>3 DEF CompareNext

-----------------------------------------------------------------------------
\* One more answer of the fold.
LEMMA EveryNext ==
    ASSUME req.base \in Ref, heard \subseteq Ref, NEW r \in Ref, EveryOf(heard),
           every' = StillExtra(r), heard' = heard \cup {r}, req' = req
    PROVE  EveryOf(heard)'
<1>1. \A s : ExtraIn(s)' = ExtraIn(s)
  BY DEF ExtraIn, Base
<1>2. PICK D \in SUBSET AllKeys : ExtraIn(r) \in [D -> Extras]
  BY ExtraIs
<1>3. SUFFICES \E keys \in SUBSET AllKeys :
                 /\ every' \in [keys -> Extras]
                 /\ \A k : k \in keys <=> \A s \in heard' : k \in DOMAIN ExtraIn(s)
                 /\ \A k \in keys : \E s \in heard' : every'[k] = ExtraIn(s)[k]
  <2>1. ASSUME NEW keys \in SUBSET AllKeys, every' \in [keys -> Extras]
        PROVE  every' # NoMap
    BY <2>1, DiffAssumption
  <2> QED
    BY <1>1, <2>1 DEF EveryOf
<1>4. CASE heard = {}
  <2>1. every' = ExtraIn(r) /\ heard' = {r}
    BY <1>4 DEF EveryOf, StillExtra
  <2> QED
    BY <1>2, <2>1
<1>5. CASE heard # {}
  <2>1. PICK keys \in SUBSET AllKeys :
                   /\ every \in [keys -> Extras]
                   /\ \A k : k \in keys <=> \A s \in heard : k \in DOMAIN ExtraIn(s)
                   /\ \A k \in keys : \E s \in heard : every[k] = ExtraIn(s)[k]
    BY <1>5 DEF EveryOf
  <2> DEFINE new == keys \cap D
  <2>2. every' = [k \in new |-> every[k]]
    BY <1>2, <1>5, <2>1 DEF StillExtra, EveryOf
  <2>3. every' \in [new -> Extras] /\ new \in SUBSET AllKeys
    BY <2>1, <2>2
  <2>4. DOMAIN ExtraIn(r) = D
    BY <1>2
  <2>5. \A k : k \in new <=> \A s \in heard' : k \in DOMAIN ExtraIn(s)
    BY <2>1, <2>4
  <2>6. \A k \in new : \E s \in heard' : every'[k] = ExtraIn(s)[k]
    BY <2>1, <2>2
  <2> QED
    BY <2>3, <2>5, <2>6
<1> QED
  BY <1>4, <1>5

\* What depends on the request alone.
LEMMA RequestOnly ==
    ASSUME req' = req
    PROVE  /\ ToOpen' = ToOpen /\ Base' = Base
           /\ \A r : /\ ChangedIn(r)' = ChangedIn(r) /\ AbsentIn(r)' = AbsentIn(r)
                     /\ FileStatus(r)' = FileStatus(r) /\ HasDiff(r)' = HasDiff(r)
                     /\ ExtraIn(r)' = ExtraIn(r)
<1>1. Base' = Base
  BY DEF Base
<1>2. \A r : DiffersFrom(r)' = DiffersFrom(r)
  BY <1>1 DEF DiffersFrom
<1> QED
  BY <1>1, <1>2 DEF ToOpen, ChangedIn, AbsentIn, FileStatus, HasDiff, ExtraIn

LEMMA OthersAreRefs ==
    RouteInv => /\ req.base \in Ref /\ ToOpen \subseteq Ref
                /\ {req.others[i] : i \in DOMAIN req.others} \subseteq Ref
<1> SUFFICES ASSUME RouteInv
             PROVE /\ req.base \in Ref /\ ToOpen \subseteq Ref
                   /\ {req.others[i] : i \in DOMAIN req.others} \subseteq Ref
  OBVIOUS
<1>1. req.base \in Ref /\ req.others \in Seq(Ref)
  BY DEF RouteInv, Legal
<1> DEFINE others == req.others
<1>2. \A i \in DOMAIN others : others[i] \in Ref
  <2> HIDE DEF others
  <2> SUFFICES ASSUME others \in Seq(Ref) PROVE \A i \in DOMAIN others : others[i] \in Ref
    BY <1>1 DEF others
  <2> QED
    OBVIOUS
<1> QED
  BY <1>1, <1>2 DEF ToOpen

LEMMA AskInit == ASSUME NEW requests, \A q \in requests : Legal(q), CompareInit(requests)
                 PROVE  AskInv
<1>1. phase = "base" /\ Legal(req)
  BY DEF CompareInit, DiffInit
<1>2. RouteInv
  BY <1>1 DEF RouteInv
<1>3. FreshInv
  BY DEF CompareInit, DiffInit, FreshInv
<1> QED
  BY <1>1, <1>2, <1>3 DEF AskInv, Gathering, OpensInv, FoldInv, StatusInv, MatchInv

LEMMA OpenBaseKeeps ==
    ASSUME AskInv, RouteInv', req' = req, req.route \in Asking, OpenBase
    PROVE  AskInv'
<1>1. /\ heard = {} /\ refused = {} /\ opening = {} /\ changed = {} /\ every = NoMap
      /\ status = <<>> /\ matching = {}
  BY DEF AskInv, FreshInv, OpenBase
<1>2. /\ phase' = "collect" /\ waiting' = ToOpen /\ absent' = {f.path : f \in FilesIn(Base)}
      /\ UNCHANGED <<opening, heard, refused, changed, every, status, matching>>
  BY DEF OpenBase
<1>3. FreshInv'
  BY <1>2 DEF FreshInv
<1>4. OpensInv'
  BY <1>1, <1>2, RequestOnly DEF OpensInv
<1>5. FoldInv'
  <2>1. changed' = UNION {ChangedIn(r)' : r \in heard'}
    BY <1>1, <1>2
  <2>2. EveryOf(heard)'
    BY <1>1, <1>2 DEF EveryOf
  <2> QED
    BY <1>1, <1>2, <2>1, <2>2, RequestOnly DEF FoldInv
<1>6. StatusInv' /\ MatchInv'
  BY <1>1, <1>2 DEF StatusInv, MatchInv
<1> QED
  BY <1>3, <1>4, <1>5, <1>6 DEF AskInv

LEMMA QuietAsk ==
    ASSUME AskInv, RouteInv', req' = req, phase' = phase, UNCHANGED collectVars
    PROVE  AskInv'
<1> USE DEF collectVars
<1>1. FreshInv'
  BY DEF AskInv, FreshInv
<1>2. OpensInv'
  BY RequestOnly DEF AskInv, OpensInv, Gathering
<1>3. FoldInv'
  <2> SUFFICES ASSUME Gathering, req.route = "diff" PROVE FoldInv'
    BY DEF FoldInv, Gathering
  <2>1. changed' = UNION {ChangedIn(r)' : r \in heard'}
    BY RequestOnly DEF AskInv, FoldInv
  <2>2. \A p : p \in absent' <=> /\ p \in {f.path : f \in FilesIn(Base)'}
                                 /\ \A r \in heard' : p \in AbsentIn(r)'
    BY RequestOnly DEF AskInv, FoldInv
  <2>3. EveryOf(heard)'
    BY RequestOnly DEF AskInv, FoldInv, EveryOf
  <2> QED
    BY <2>1, <2>2, <2>3 DEF FoldInv
<1>4. StatusInv' /\ MatchInv'
  BY RequestOnly DEF AskInv, StatusInv, MatchInv, Gathering
<1> QED
  BY <1>1, <1>2, <1>3, <1>4 DEF AskInv

\* The end of the fold, and the start of an open.
LEMMA CollectedKeeps ==
    ASSUME AskInv, RouteInv', req' = req, req.route \in Asking, Collected
    PROVE  AskInv'
<1>1. /\ phase = "collect" /\ phase' = "sent" /\ UNCHANGED collectVars
      /\ waiting = {} /\ opening = {} /\ Gathering
  BY DEF Collected, Gathering
<1> USE DEF collectVars
<1>2. FreshInv'
  BY <1>1 DEF FreshInv
<1>3. OpensInv'
  BY <1>1, RequestOnly DEF AskInv, OpensInv, Gathering
<1>4. FoldInv'
  <2> SUFFICES ASSUME req.route = "diff" PROVE FoldInv'
    BY DEF FoldInv
  <2>1. changed' = UNION {ChangedIn(r)' : r \in heard'}
    BY <1>1, RequestOnly DEF AskInv, FoldInv
  <2>2. \A p : p \in absent' <=> /\ p \in {f.path : f \in FilesIn(Base)'}
                                 /\ \A r \in heard' : p \in AbsentIn(r)'
    BY <1>1, RequestOnly DEF AskInv, FoldInv
  <2>3. EveryOf(heard)'
    BY <1>1, RequestOnly DEF AskInv, FoldInv, EveryOf
  <2> QED
    BY <2>1, <2>2, <2>3 DEF FoldInv
<1>5. StatusInv' /\ MatchInv'
  BY <1>1, RequestOnly DEF AskInv, StatusInv, MatchInv, Gathering
<1> QED
  BY <1>2, <1>3, <1>4, <1>5 DEF AskInv

LEMMA OpenKeeps ==
    ASSUME AskInv, RouteInv', req' = req, req.route \in Asking, NEW r \in Ref, Open(r)
    PROVE  AskInv'
<1>1. /\ phase = "collect" /\ phase' = phase /\ Gathering /\ r \in waiting
      /\ waiting' = waiting \ {r} /\ opening' = opening \cup {r}
      /\ UNCHANGED <<heard, refused, changed, absent, every, status, matching>>
  BY DEF Open, Gathering
<1>2. FreshInv'
  BY <1>1 DEF FreshInv
<1>3. OpensInv'
  BY <1>1, RequestOnly DEF AskInv, OpensInv, Gathering
<1>4. FoldInv'
  <2> SUFFICES ASSUME req.route = "diff" PROVE FoldInv'
    BY DEF FoldInv
  <2>1. changed' = UNION {ChangedIn(s)' : s \in heard'}
    BY <1>1, RequestOnly DEF AskInv, FoldInv
  <2>2. \A p : p \in absent' <=> /\ p \in {f.path : f \in FilesIn(Base)'}
                                 /\ \A s \in heard' : p \in AbsentIn(s)'
    BY <1>1, RequestOnly DEF AskInv, FoldInv
  <2>3. EveryOf(heard)'
    BY <1>1, RequestOnly DEF AskInv, FoldInv, EveryOf
  <2> QED
    BY <2>1, <2>2, <2>3 DEF FoldInv
<1>5. StatusInv' /\ MatchInv'
  BY <1>1, RequestOnly DEF AskInv, StatusInv, MatchInv, Gathering
<1> QED
  BY <1>2, <1>3, <1>4, <1>5 DEF AskInv

-----------------------------------------------------------------------------
\* An answer, or a refusal, moves one other.
LEMMA AnsweredMoves ==
    ASSUME OpensInv, Gathering, req' = req, NEW r \in Ref, Answered(r),
           \/ heard' = heard \cup {r} /\ refused' = refused
           \/ refused' = refused \cup {r} /\ heard' = heard /\ req.route # "diff"
    PROVE  OpensInv' /\ FreshInv' /\ r \notin heard \cup refused
<1>1. /\ phase = "collect" /\ phase' = phase /\ r \in opening /\ opening' = opening \ {r}
      /\ waiting' = waiting
  BY DEF Answered
<1>2. r \notin heard \cup refused
  BY <1>1 DEF OpensInv
<1>3. ToOpen' = ToOpen
  BY RequestOnly
<1>4. (heard' \cup refused') \cup (waiting' \cup opening') = ToOpen'
  BY <1>1, <1>3 DEF OpensInv
<1>5. heard' \cap refused' = {} /\ waiting' \cap opening' = {}
  BY <1>1, <1>2 DEF OpensInv
<1>6. (heard' \cup refused') \cap (waiting' \cup opening') = {}
  BY <1>1 DEF OpensInv
<1>7. req'.route = "diff" => refused' = {}
  BY DEF OpensInv
<1> QED
  BY <1>1, <1>2, <1>4, <1>5, <1>6, <1>7 DEF OpensInv, FreshInv

LEMMA DiffAnswerKeeps ==
    ASSUME AskInv, RouteInv', req' = req, NEW r \in Ref, DiffAnswer(r)
    PROVE  AskInv'
<1>1. /\ req.route = "diff" /\ Gathering /\ Gathering' /\ Answered(r)
      /\ heard' = heard \cup {r} /\ refused' = refused
      /\ changed' = changed \cup ChangedIn(r) /\ absent' = absent \cap AbsentIn(r)
      /\ every' = StillExtra(r)
  BY DEF DiffAnswer, Answered, Gathering, Asking
<1>2. OpensInv' /\ FreshInv'
  BY <1>1, AnsweredMoves DEF AskInv
<1>3. heard \subseteq Ref /\ req.base \in Ref
  BY <1>1, OthersAreRefs DEF AskInv, OpensInv
<1>4. EveryOf(heard)'
  BY <1>1, <1>3, EveryNext DEF AskInv, FoldInv
<1>5. changed' = UNION {ChangedIn(s)' : s \in heard'}
  BY <1>1, RequestOnly DEF AskInv, FoldInv
<1>6. \A p : p \in absent' <=> /\ p \in {f.path : f \in FilesIn(Base)'}
                               /\ \A s \in heard' : p \in AbsentIn(s)'
  BY <1>1, RequestOnly DEF AskInv, FoldInv
<1>7. FoldInv'
  BY <1>4, <1>5, <1>6 DEF FoldInv
<1> QED
  BY <1>1, <1>2, <1>7 DEF AskInv, StatusInv, MatchInv

LEMMA FileAnswerKeeps ==
    ASSUME AskInv, RouteInv', req' = req, NEW r \in Ref, FileAnswer(r) \/ FileRefused(r)
    PROVE  AskInv'
<1>1. req.route = "file" /\ Gathering /\ Gathering' /\ Answered(r)
  BY DEF FileAnswer, FileRefused, Answered, Gathering, Asking
<1>2. \/ heard' = heard \cup {r} /\ refused' = refused
      \/ refused' = refused \cup {r} /\ heard' = heard /\ req.route # "diff"
  BY <1>1 DEF FileAnswer, FileRefused
<1>3. OpensInv' /\ FreshInv' /\ r \notin heard \cup refused
  BY <1>1, <1>2, AnsweredMoves DEF AskInv
<1>4. /\ DOMAIN status = heard \cup refused
      /\ \A s \in DOMAIN status :
           status[s] = IF s \in refused THEN "different" ELSE FileStatus(s)
  BY <1>1 DEF AskInv, StatusInv
<1>5. DOMAIN status' = heard' \cup refused'
  BY <1>4 DEF FileAnswer, FileRefused, StatusRefused
<1>6. \A s \in DOMAIN status' :
        status'[s] = IF s \in refused' THEN "different" ELSE FileStatus(s)
  <2>1. CASE FileAnswer(r)
    BY <1>3, <1>4, <2>1 DEF FileAnswer
  <2>2. CASE FileRefused(r)
    BY <1>3, <1>4, <2>2 DEF FileRefused, StatusRefused
  <2> QED
    BY <2>1, <2>2
<1>7. StatusInv'
  BY <1>5, <1>6, RequestOnly DEF StatusInv
<1> QED
  BY <1>1, <1>3, <1>7 DEF AskInv, FoldInv, MatchInv

LEMMA TargetsAnswerKeeps ==
    ASSUME AskInv, RouteInv', req' = req, NEW r \in Ref, TargetsAnswer(r) \/ TargetsRefused(r)
    PROVE  AskInv'
<1>1. req.route = "targets" /\ Gathering /\ Gathering' /\ Answered(r)
  BY DEF TargetsAnswer, TargetsRefused, Answered, Gathering, Asking
<1>2. \/ heard' = heard \cup {r} /\ refused' = refused
      \/ refused' = refused \cup {r} /\ heard' = heard /\ req.route # "diff"
  BY <1>1 DEF TargetsAnswer, TargetsRefused
<1>3. OpensInv' /\ FreshInv' /\ r \notin heard \cup refused
  BY <1>1, <1>2, AnsweredMoves DEF AskInv
<1>4. matching = refused \cup {s \in heard : HasDiff(s)}
  BY <1>1 DEF AskInv, MatchInv
<1>5. matching' = refused' \cup {s \in heard' : HasDiff(s)}
  <2>1. CASE TargetsAnswer(r)
    BY <1>4, <2>1 DEF TargetsAnswer
  <2>2. CASE TargetsRefused(r)
    BY <1>4, <2>2 DEF TargetsRefused
  <2> QED
    BY <2>1, <2>2
<1>6. MatchInv'
  BY <1>5, RequestOnly DEF MatchInv
<1> QED
  BY <1>1, <1>3, <1>6 DEF AskInv, FoldInv, StatusInv

LEMMA AskNext == AskInv /\ [CompareNext]_allVars => AskInv'
<1> SUFFICES ASSUME AskInv, [CompareNext]_allVars PROVE AskInv'
  OBVIOUS
<1>1. req' = req /\ RouteInv'
  BY RequestStays, RouteNext DEF AskInv
<1>2. CASE UNCHANGED allVars
  BY <1>1, <1>2, QuietAsk DEF allVars, diffVars
<1>3. CASE CompareNext /\ req.route \notin Asking
  <2>1. FreshInv'
    <3>1. phase' # "base" \/ (phase = "base" /\ UNCHANGED collectVars)
      BY <1>3 DEF CompareNext, DiffNext, OpenBase, BaseFails, Abort, Collected, Open,
         DiffAnswer, DiffRefused, FileAnswer, FileRefused, TargetsAnswer, TargetsRefused,
         Answered, OpenDeepBase, Prepare, NextChunk, Checkpoint, Swept, Begin, Verdict,
         Errored, Judged, HistoryNext, OpenCurrent, HistoryFails, OpenPrevious, Sort, Up,
         Down, Compare, WalkEnds, OpenVersions, ListVersions, VersionAnswer,
         VersionRefused
    <3> QED
      BY <3>1 DEF AskInv, FreshInv, collectVars
  <2> QED
    BY <1>1, <1>3, <2>1 DEF AskInv, Gathering, OpensInv, FoldInv, StatusInv, MatchInv
<1>4. CASE CompareNext /\ req.route \in Asking
  <2>1. CASE Abort
    BY <1>1, <2>1 DEF Abort, AskInv, Gathering, FreshInv, OpensInv, FoldInv, StatusInv,
                      MatchInv
  <2> QED
    BY <1>1, <1>4, <2>1, AskingSteps, OpenBaseKeeps, CollectedKeeps, OpenKeeps,
       DiffAnswerKeeps, FileAnswerKeeps, TargetsAnswerKeeps DEF AskInv
<1> QED
  BY <1>2, <1>3, <1>4 DEF AskInv

LEMMA SentFacts ==
    ASSUME AskInv, phase = "sent", req.route \in Asking
    PROVE  /\ req.base \in Ref /\ Compared \subseteq Ref
           /\ heard \cup refused = ToOpen /\ ToOpen \subseteq Ref
           /\ req.route # "file" => ToOpen = Compared
           /\ heard \cap refused = {}
           /\ req.route = "diff" => refused = {}
<1>1. Gathering
  BY DEF Gathering
<1> QED
  BY <1>1, OthersAreRefs DEF AskInv, OpensInv, ToOpen, Compared

-----------------------------------------------------------------------------
\* The page of a diff, whatever the order of the answers.
LEMMA DiffIsRight == AskInv => DiffRight
<1> SUFFICES ASSUME AskInv, phase = "sent", req.route = "diff", AllUnambiguous
             PROVE  DiffRight
  BY DEF DiffRight
<1> DEFINE alters(f) == \E r \in Compared : \E g \in FilesIn(FilesOf[r]) :
                            Same(f, g) /\ f.id # g.id
           new(f)  == \A r \in Compared : ~Has(r, f)
           lost(g) == (\A r \in Compared : Has(r, g)) /\ ~Has(req.base, g)
           everyOther == UNION {FilesIn(FilesOf[r]) : r \in Compared}
           gone == {e \in Entries : e.status = "removed"}
           was == IF every = NoMap THEN {}
                  ELSE {EntryRow(every[k].path, "removed", every[k].size) : k \in DOMAIN every}
<1>1. /\ req.base \in Ref /\ Compared \subseteq Ref /\ heard = Compared
      /\ Unambiguous(Base) /\ \A r \in Compared : Unambiguous(FilesOf[r])
  BY SentFacts DEF AllUnambiguous, Asking, Base
<1>2. /\ changed = UNION {ChangedIn(r) : r \in Compared}
      /\ \A p : p \in absent <=> /\ p \in {f.path : f \in FilesIn(Base)}
                                 /\ \A r \in Compared : p \in AbsentIn(r)
      /\ EveryOf(Compared)
  BY <1>1 DEF AskInv, FoldInv, Gathering, Asking
<1>3. \A f \in FilesIn(Base) : f.path \in changed <=> alters(f)
  BY <1>1, <1>2, ChangedIs, DiffersIs
<1>4. \A f \in FilesIn(Base) : f.path \in absent <=> new(f)
  BY <1>1, <1>2, AbsentIs
<1>5. changed \cup absent \subseteq {f.path : f \in FilesIn(Base)}
  BY <1>2 DEF ChangedIn, DiffersFrom, InBoth
<1>6. gone = was /\ Entries \ gone = {EntryRow(p, "changed", 0) : p \in changed}
                            \cup {EntryRow(p, "added", 0) : p \in absent \ changed}
  <2>1. \A p, s, z : EntryRow(p, s, z).status = s
    BY DEF EntryRow
  <2>2. Entries = ({EntryRow(p, "changed", 0) : p \in changed}
                     \cup {EntryRow(p, "added", 0) : p \in absent \ changed}) \cup was
    BY DEF Entries
  <2>3. \A e \in was : e.status = "removed"
    BY <2>1
  <2>4. \A e \in {EntryRow(p, "changed", 0) : p \in changed}
                     \cup {EntryRow(p, "added", 0) : p \in absent \ changed} :
          e.status # "removed"
    BY <2>1
  <2> HIDE DEF was
  <2> QED
    BY <2>2, <2>3, <2>4
<1>7. Entries \ gone = {EntryRow(f.path, "changed", 0) : f \in {f \in FilesIn(Base) : alters(f)}}
             \cup {EntryRow(f.path, "added", 0) :
                      f \in {f \in FilesIn(Base) : new(f) /\ ~alters(f)}}
  <2> HIDE DEF gone, alters, new
  <2>1. {EntryRow(p, "changed", 0) : p \in changed}
           = {EntryRow(f.path, "changed", 0) : f \in {f \in FilesIn(Base) : alters(f)}}
    BY <1>3, <1>5
  <2>2. {EntryRow(p, "added", 0) : p \in absent \ changed}
           = {EntryRow(f.path, "added", 0) :
                f \in {f \in FilesIn(Base) : new(f) /\ ~alters(f)}}
    BY <1>3, <1>4, <1>5
  <2> QED
    BY <1>6, <2>1, <2>2
<1>8. CASE Compared = {}
  <2>1. gone = {}
    BY <1>2, <1>6, <1>8 DEF EveryOf
  <2>2. everyOther = {}
    BY <1>8
  <2> QED
    BY <1>7, <2>1, <2>2 DEF DiffRight
<1>9. CASE Compared # {}
  <2>1. PICK keys \in SUBSET AllKeys :
                   /\ every \in [keys -> Extras]
                   /\ \A k : k \in keys <=> \A r \in Compared : k \in DOMAIN ExtraIn(r)
                   /\ \A k \in keys : \E r \in Compared : every[k] = ExtraIn(r)[k]
    BY <1>2, <1>9 DEF EveryOf
  <2>2. every # NoMap /\ DOMAIN every = keys
    BY <1>2, <1>9, <2>1 DEF EveryOf
  <2>3. gone = {EntryRow(every[k].path, "removed", every[k].size) : k \in keys}
    BY <1>6, <2>2
  <2>4. \A r \in Compared : \A g \in FilesIn(FilesOf[r]) : Key(g) \in keys <=> lost(g)
    <3> SUFFICES ASSUME NEW r \in Compared, NEW g \in FilesIn(FilesOf[r])
                 PROVE  Key(g) \in keys <=> lost(g)
      OBVIOUS
    <3>1. \A s \in Compared : Has(s, g) <=> \E f \in FilesIn(FilesOf[s]) : Key(f) = Key(g)
      BY <1>1, HasKey
    <3>2. \A s \in Compared : Key(g) \in DOMAIN ExtraIn(s) <=>
             \E f \in FilesIn(FilesOf[s]) : Key(f) = Key(g) /\ ~ Has(req.base, f)
      BY <1>1, ExtraIs
    <3>3. \A s \in Compared : \A f \in FilesIn(FilesOf[s]) :
            Key(f) = Key(g) => (Has(req.base, f) <=> Has(req.base, g))
      BY <1>1, HasKey
    <3> QED
      BY <2>1, <3>1, <3>2, <3>3
  <2>5. ASSUME NEW k \in keys
        PROVE  \E r \in Compared : \E f \in FilesIn(FilesOf[r]) :
                 /\ Key(f) = k /\ lost(f)
                 /\ every[k].path = f.path /\ every[k].size = f.size
    <3>1. PICK r \in Compared : every[k] = ExtraIn(r)[k]
      BY <2>1
    <3>2. k \in DOMAIN ExtraIn(r) /\ r \in Ref
      BY <1>1, <2>1
    <3>3. PICK f \in FilesIn(FilesOf[r]) :
            Key(f) = k /\ ExtraIn(r)[k] = [path |-> f.path, size |-> f.size]
      BY <1>1, <3>2, ExtraIs
    <3>4. lost(f)
      BY <2>4, <3>3
    <3> QED
      BY <3>1, <3>3, <3>4
  <2> DEFINE row(k) == EntryRow(every[k].path, "removed", every[k].size)
  <2>6. \A k \in keys : row(k).path = every[k].path /\ row(k).size = every[k].size
    BY DEF EntryRow
  <2>7. ASSUME NEW g \in everyOther, lost(g) PROVE \E e \in gone : Same(e, g)
    <3>1. PICK r \in Compared : g \in FilesIn(FilesOf[r])
      OBVIOUS
    <3>2. Key(g) \in keys
      BY <2>4, <2>7, <3>1
    <3>3. PICK s \in Compared : \E f \in FilesIn(FilesOf[s]) :
             Key(f) = Key(g) /\ every[Key(g)].path = f.path
      BY <2>5, <3>2
    <3>4. PICK f \in FilesIn(FilesOf[s]) : Key(f) = Key(g) /\ every[Key(g)].path = f.path
      BY <3>3
    <3>5. Same(f, g)
      BY <1>1, <3>1, <3>4, SameKeys
    <3>6. row(Key(g)).path = f.path /\ row(Key(g)) \in gone
      BY <2>3, <2>6, <3>2, <3>4
    <3> HIDE DEF row, gone
    <3>7. Same(row(Key(g)), g)
      BY <3>5, <3>6 DEF Same
    <3> QED
      BY <3>6, <3>7
  <2>8. ASSUME NEW e \in gone
        PROVE  /\ \E g \in everyOther : lost(g) /\ g.path = e.path /\ g.size = e.size
               /\ \A d \in gone : Same(d, e) => d = e
    <3>1. PICK k \in keys : e = row(k)
      BY <2>3
    <3> HIDE DEF lost, row
    <3>2. PICK r \in Compared : \E f \in FilesIn(FilesOf[r]) :
             Key(f) = k /\ lost(f) /\ e.path = f.path /\ e.size = f.size
      BY <2>5, <2>6, <3>1
    <3>3. PICK f \in FilesIn(FilesOf[r]) :
             Key(f) = k /\ lost(f) /\ e.path = f.path /\ e.size = f.size
      BY <3>2
    <3>4. ASSUME NEW d \in gone, Same(d, e) PROVE d = e
      <4>1. PICK l \in keys : d = row(l)
        BY <2>3 DEF row
      <4>2. PICK s \in Compared : \E g \in FilesIn(FilesOf[s]) :
               Key(g) = l /\ d.path = g.path
        BY <2>5, <2>6, <4>1
      <4>3. PICK g \in FilesIn(FilesOf[s]) : Key(g) = l /\ d.path = g.path
        BY <4>2
      <4>4. Same(g, f)
        BY <3>3, <3>4, <4>3 DEF Same
      <4>5. l = k
        BY <1>1, <3>3, <4>3, <4>4, SameKeys
      <4> QED
        BY <3>1, <4>1, <4>5
    <3>5. f \in everyOther
      OBVIOUS
    <3> QED
      BY <3>3, <3>4, <3>5
  <2> QED
    BY <1>7, <2>7, <2>8 DEF DiffRight
<1> QED
  BY <1>8, <1>9

-----------------------------------------------------------------------------
\* The file that stands for f elsewhere is found by path as it is by key, if
\* no folder is in its place.
LEMMA CorrespondingIs ==
    ASSUME req.base \in Ref, NEW r \in Ref, NEW s \in Ref, Unambiguous(FilesOf[r]),
           NEW f \in FilesIn(FilesOf[s]),
           \A i \in DOMAIN FilesOf[r] :
             PairKey(FilesOf[r][i].path) = Key(f) => ~ FilesOf[r][i].dir
    PROVE  /\ Corresponding(FilesOf[r], f.path) = {}
                <=> ~ \E g \in FilesIn(FilesOf[r]) : Key(g) = Key(f)
           /\ \A g \in FilesIn(FilesOf[r]) : Key(g) = Key(f) =>
                FindCorresponding(FilesOf[r], f.path) = g
<1> DEFINE m == FilesOf[r]
           p == f.path
           at == Corresponding(m, p)
<1>1. /\ p \in Path /\ Len(m) \in Nat /\ DOMAIN m = 1 .. Len(m)
      /\ \A i \in DOMAIN m : m[i].path \in Path
  BY Listed, DiffAssumption
<1>2. ASSUME NEW i \in at
      PROVE  i \in FileAt(m) /\ PairKey(m[i].path) = Key(f)
  <2>1. i \in DOMAIN m /\ PairKey(m[i].path) = Key(f)
    BY DEF Corresponding, Key
  <2> QED
    BY <2>1 DEF FileAt
<1>3. ASSUME NEW i \in FileAt(m), PairKey(m[i].path) = Key(f)
      PROVE  at = {i}
  <2>1. i \in DOMAIN m
    BY DEF FileAt
  <2>2. \A j \in at : j = i
    BY <1>2, <1>3 DEF Unambiguous
  <2>3. at # {}
    <3>1. CASE m[i].path = p
      BY <2>1, <3>1 DEF Corresponding
    <3>2. CASE m[i].path # p
      <4>1. HasTarget(p)
        BY <1>1, <1>3, <2>1, <3>2, PlainKey DEF Key
      <4> QED
        BY <1>3, <2>1, <4>1 DEF Corresponding, Key
    <3> QED
      BY <3>1, <3>2
  <2> QED
    BY <2>2, <2>3
<1>4. ASSUME NEW g \in FilesIn(m), Key(g) = Key(f)
      PROVE  at # {} /\ FindCorresponding(m, p) = g
  <2>1. PICK i \in FileAt(m) : g = m[i]
    BY DEF FilesIn
  <2>2. at = {i} /\ i \in Nat
    BY <1>1, <1>3, <1>4, <2>1 DEF Key, FileAt
  <2>3. FindCorresponding(m, p) = m[CHOOSE x \in at : \A y \in at : x <= y]
    BY DEF FindCorresponding
  <2> HIDE DEF at
  <2>4. (CHOOSE x \in at : \A y \in at : x <= y) = i
    BY <2>2
  <2> QED
    BY <2>1, <2>2, <2>3, <2>4
<1>5. ASSUME NEW i \in at PROVE \E g \in FilesIn(m) : Key(g) = Key(f)
  BY <1>2 DEF FilesIn, Key
<1> QED
  BY <1>4, <1>5

LEMMA FilesAreRight == AskInv => FilesAgree
<1> SUFFICES ASSUME AskInv, phase = "sent", req.route = "file", AllUnambiguous, FoldersApart
             PROVE  FilesAgree
  BY DEF FilesAgree
<1>1. /\ req.base \in Ref /\ Compared \subseteq Ref /\ heard \cup refused = ToOpen
      /\ ToOpen = {req.others[i] : i \in DOMAIN req.others} /\ ToOpen \subseteq Ref
  BY SentFacts DEF Asking, ToOpen
<1>2. /\ DOMAIN status = ToOpen
      /\ \A r \in DOMAIN status :
           status[r] = IF r \in refused THEN "different" ELSE FileStatus(r)
  BY <1>1 DEF AskInv, StatusInv, Gathering, Asking
<1>3. ASSUME NEW f \in FilesIn(Base), f.path = req.path, NEW r \in ToOpen
      PROVE  FileStatus(r) = IF f.path \in ChangedIn(r) THEN "different"
                             ELSE IF f.path \in AbsentIn(r) THEN "missing" ELSE "same"
  <2>1. r \in Compared \cup {req.base} /\ r \in Ref
    BY <1>1 DEF Compared
  <2>2. Unambiguous(FilesOf[r]) /\ Unambiguous(Base)
    BY <2>1 DEF AllUnambiguous, Base
  <2>3. \A s \in {r, req.base} : \A i \in DOMAIN FilesOf[s] :
             PairKey(FilesOf[s][i].path) = Key(f) => ~ FilesOf[s][i].dir
    BY <2>1 DEF FoldersApart, Base, Key
  <2>4. FindCorresponding(Base, req.path) = f /\ Corresponding(Base, req.path) # {}
    BY <1>1, <1>3, <2>2, <2>3, CorrespondingIs DEF Base
  <2>5. /\ f.path \in ChangedIn(r) <=> \E g \in FilesIn(FilesOf[r]) : Same(f, g) /\ f.id # g.id
        /\ f.path \in AbsentIn(r) <=> ~ Has(r, f)
    BY <1>1, <2>1, <2>2, ChangedIs, DiffersIs, AbsentIs
  <2>6. \A g \in FilesIn(FilesOf[r]) : Same(f, g) <=> Key(g) = Key(f)
    BY <1>1, <2>1, SameKeys DEF Base
  <2>7. CASE Has(r, f)
    <3>1. PICK g \in FilesIn(FilesOf[r]) : Key(g) = Key(f)
      BY <2>6, <2>7 DEF Has
    <3>2. FindCorresponding(FilesOf[r], req.path) = g /\ Corresponding(FilesOf[r], req.path) # {}
      BY <1>1, <1>3, <2>1, <2>2, <2>3, <3>1, CorrespondingIs DEF Base
    <3>3. FileStatus(r) = IF f.id = g.id THEN "same" ELSE "different"
      BY <2>4, <3>2 DEF FileStatus
    <3>4. \A h \in FilesIn(FilesOf[r]) : Same(f, h) => h = g
      BY <2>1, <2>2, <2>6, <3>1, OneOfKey
    <3>5. f.path \in ChangedIn(r) <=> f.id # g.id
      BY <2>5, <2>6, <3>1, <3>4
    <3> QED
      BY <2>5, <2>7, <3>3, <3>5
  <2>8. CASE ~ Has(r, f)
    <3>1. ~ \E g \in FilesIn(FilesOf[r]) : Key(g) = Key(f)
      BY <2>6, <2>8 DEF Has
    <3>2. Corresponding(FilesOf[r], req.path) = {}
      BY <1>1, <1>3, <2>1, <2>2, <2>3, <3>1, CorrespondingIs DEF Base
    <3>3. FileStatus(r) = "missing"
      BY <2>4, <3>2 DEF FileStatus
    <3>4. f.path \notin ChangedIn(r)
      BY <2>5, <2>6, <3>1
    <3> QED
      BY <2>5, <2>8, <3>3, <3>4
  <2> QED
    BY <2>7, <2>8
<1>4. ASSUME req.path \in {f.path : f \in FilesIn(Base)}, NEW r \in DOMAIN status
      PROVE  status[r] = IF r \in refused \/ req.path \in ChangedIn(r) THEN "different"
                         ELSE IF req.path \in AbsentIn(r) THEN "missing" ELSE "same"
  BY <1>2, <1>3, <1>4
<1> QED
  BY <1>1, <1>2, <1>4 DEF FilesAgree

LEMMA TargetsAreRight == AskInv => TargetsAgree
<1> SUFFICES ASSUME AskInv, phase = "sent", req.route = "targets", AllUnambiguous
             PROVE  TargetsAgree
  BY DEF TargetsAgree
<1> DEFINE differs(r) ==
             \E p \in req.query :
               LET f == {g \in FilesIn(Base) : g.path = p}
                   o == {g \in FilesIn(FilesOf[r]) : g.path = p}
               IN  \/ \E x \in f : ~ \E g \in FilesIn(FilesOf[r]) : Same(x, g) /\ x.id = g.id
                   \/ \E x \in o : ~Has(req.base, x)
<1>1. /\ req.base \in Ref /\ Compared \subseteq Ref /\ heard \cup refused = Compared
  BY SentFacts DEF Asking
<1>2. matching = refused \cup {r \in heard : HasDiff(r)}
  BY DEF AskInv, MatchInv, Gathering, Asking
<1>3. ASSUME NEW r \in Compared PROVE HasDiff(r) <=> differs(r)
  <2>1. r \in Ref /\ Unambiguous(FilesOf[r]) /\ Unambiguous(Base)
    BY <1>1 DEF AllUnambiguous, Base
  <2>2. \A f \in FilesIn(Base) : \A g, h \in FilesIn(FilesOf[r]) :
          Same(f, g) /\ Same(f, h) => g = h
    BY <1>1, <2>1, SameKeys, OneOfKey DEF Base
  <2>3. \A f \in FilesIn(Base) :
          /\ f \in DiffersFrom(r) <=> \E g \in FilesIn(FilesOf[r]) : Same(f, g) /\ f.id # g.id
          /\ f \in OnlyIn(Base, FilesOf[r]) <=> ~ Has(r, f)
    BY <1>1, <2>1, DiffersIs, InBothIs, HasKey DEF OnlyIn, Base
  <2>4. \A f \in FilesIn(Base) :
          f \in DiffersFrom(r) \/ f \in OnlyIn(Base, FilesOf[r])
            <=> ~ \E g \in FilesIn(FilesOf[r]) : Same(f, g) /\ f.id = g.id
    BY <2>2, <2>3 DEF Has
  <2>5. \A f \in FilesIn(FilesOf[r]) : f \in OnlyIn(FilesOf[r], Base) <=> ~ Has(req.base, f)
    BY <1>1, <2>1, InBothIs, HasKey DEF OnlyIn, Base
  <2>6. /\ DiffersFrom(r) \subseteq FilesIn(Base) /\ OnlyIn(Base, FilesOf[r]) \subseteq FilesIn(Base)
        /\ OnlyIn(FilesOf[r], Base) \subseteq FilesIn(FilesOf[r])
    BY DEF DiffersFrom, InBoth, OnlyIn
  <2>7. HasDiff(r) <=> \/ \E f \in FilesIn(Base) : f.path \in req.query /\
                            (f \in DiffersFrom(r) \/ f \in OnlyIn(Base, FilesOf[r]))
                       \/ \E f \in FilesIn(FilesOf[r]) :
                            f.path \in req.query /\ f \in OnlyIn(FilesOf[r], Base)
    BY <2>6 DEF HasDiff, ChangedIn, AbsentIn
  <2> QED
    BY <2>4, <2>5, <2>7
<1>4. matching = refused \cup {r \in Compared : differs(r)}
  <2> HIDE DEF differs
  <2> QED
    BY <1>1, <1>2, <1>3
<1> QED
  BY <1>4 DEF TargetsAgree

\* Each of the three routes answers what it documents.
THEOREM AnswersAreRight ==
    ASSUME NEW CONSTANT requests, \A q \in requests : Legal(q)
    PROVE  CompareSpec(requests) => []AnswersRight
<1>1. CompareInit(requests) => AskInv
  BY AskInit
<1>2. AskInv => AnswersRight
  BY DiffIsRight, FilesAreRight, TargetsAreRight DEF AnswersRight
<1> QED
  BY <1>1, <1>2, AskNext, PTL DEF CompareSpec

-----------------------------------------------------------------------------
\* The sweep of the deep diff.
Left == {todo[n] : n \in DOMAIN todo}
Judgeds == Candidate \ (Left \cup (chunk \cup work))

\* Nothing has been swept yet.
UnsweptInv ==
    req.route = "deep" /\ phase \in {"base", "target"} =>
        /\ todo = <<>> /\ chunk = {} /\ work = {}
        /\ kept = {} /\ errored = {} /\ done = 0 /\ loaded = 0 /\ swept = TRUE

\* What is parsed, and what the chunk may still add to it.
LoadInv ==
    req.route = "deep" =>
        /\ loaded \in Nat /\ IsFiniteSet(chunk) /\ IsFiniteSet(work) /\ chunk \cap work = {}
        /\ loaded + Cardinality(chunk) + Cardinality(work) <= CacheLimit + ChunkLen
        /\ swept = TRUE => loaded <= CacheLimit /\ chunk = {} /\ work = {}

\* Every candidate is in one place.
PlaceInv ==
    req.route = "deep" /\ phase \in {"sweep", "sent"} =>
        /\ todo \in Seq(Candidate)
        /\ \A m, n \in DOMAIN todo : todo[m] = todo[n] => m = n
        /\ chunk \subseteq Candidate /\ work \subseteq Candidate
        /\ Left \cap chunk = {} /\ Left \cap work = {}
        /\ done = Cardinality(Judgeds)
        /\ phase = "sent" => todo = <<>> /\ swept = TRUE

VerdictInv ==
    req.route = "deep" /\ phase \in {"sweep", "sent"} =>
        /\ {Base[i].path : i \in {i \in Judgeds : Differs(i)}} \subseteq kept
        /\ errored \subseteq kept
        /\ errored \subseteq {Base[i].path : i \in Judgeds}
        /\ kept \subseteq {Base[i].path : i \in {i \in Judgeds : Differs(i)}} \cup errored

SweepInv == RouteInv /\ UnsweptInv /\ LoadInv /\ PlaceInv /\ VerdictInv

-----------------------------------------------------------------------------
LEMMA CandidateIs ==
    RouteInv => Candidate \subseteq 1 .. Len(Base) /\ IsFiniteSet(Candidate)
<1> SUFFICES ASSUME RouteInv PROVE Candidate \subseteq 1 .. Len(Base) /\ IsFiniteSet(Candidate)
  OBVIOUS
<1>1. FileAt(Base) \subseteq 1 .. Len(Base) /\ Len(Base) \in Nat
  BY Listed DEF RouteInv, Legal, Base
<1>2. Candidate \in SUBSET (1 .. Len(Base))
  BY <1>1 DEF Candidate
<1>3. IsFiniteSet(1 .. Len(Base))
  BY <1>1, FS_Interval
<1>4. IsFiniteSet(Candidate)
  BY <1>2, <1>3, FS_Subset
<1> QED
  BY <1>2, <1>4

LEMMA SweepOnly ==
    ASSUME req' = req
    PROVE  Base' = Base /\ Candidate' = Candidate /\ \A i : Differs(i)' = Differs(i)
<1>1. Base' = Base /\ Target' = Target
  BY DEF Base, Target
<1>2. \A r : DiffersFrom(r)' = DiffersFrom(r)
  BY <1>1 DEF DiffersFrom
<1> QED
  BY <1>1, <1>2 DEF Candidate, Differs

LEMMA DeepSteps ==
    ASSUME RouteInv, CompareNext, req.route = "deep"
    PROVE  \/ Abort \/ OpenDeepBase \/ Prepare \/ NextChunk \/ Checkpoint \/ Swept
           \/ \E i \in work \cup chunk : Begin(i) \/ Verdict(i) \/ Errored(i)
<1>1. phase \notin {"collect", "previous", "walk"}
  BY DEF RouteInv, Asking
<1>2. ~ HistoryNext
  BY <1>1 DEF HistoryNext, OpenCurrent, HistoryFails, OpenPrevious, Sort, Up, Down,
     WalkEnds, OpenVersions, ListVersions, VersionAnswer, VersionRefused, HistoryRoute, Answered
<1>3. /\ ~ OpenBase /\ ~ Collected
      /\ ~ \E r \in Ref : \/ Open(r) \/ DiffAnswer(r) \/ DiffRefused(r) \/ FileAnswer(r)
                          \/ FileRefused(r) \/ TargetsAnswer(r) \/ TargetsRefused(r)
  BY <1>1 DEF OpenBase, Collected, Open, DiffAnswer, DiffRefused, FileAnswer, FileRefused,
              TargetsAnswer, TargetsRefused
<1> QED
  BY <1>2, <1>3 DEF CompareNext, DiffNext, BaseFails

LEMMA SweepInit == ASSUME NEW requests, \A q \in requests : Legal(q), CompareInit(requests)
                   PROVE  SweepInv
<1>1. phase = "base" /\ RouteInv
  BY AskInit DEF CompareInit, DiffInit, AskInv
<1>2. UnsweptInv
  BY DEF CompareInit, DiffInit, UnsweptInv
<1>3. LoadInv
  <2>1. loaded = 0 /\ chunk = {} /\ work = {}
    BY DEF CompareInit, DiffInit
  <2> QED
    BY <2>1, FS_EmptySet, DiffAssumption DEF LoadInv
<1> QED
  BY <1>1, <1>2, <1>3 DEF SweepInv, PlaceInv, VerdictInv

\* The order of the candidates.
LEMMA PrepareKeeps ==
    ASSUME SweepInv, RouteInv', req' = req, req.route = "deep", Prepare
    PROVE  SweepInv'
<1>1. /\ phase = "target" /\ phase' \in {"failed", "sweep"}
      /\ UNCHANGED <<chunk, work, kept, errored, done, loaded, swept>>
      /\ todo' = [n \in 1 .. Cardinality(Candidate) |-> Nth(Candidate, n)]
  BY DEF Prepare, Nth
<1>2. /\ chunk = {} /\ work = {} /\ kept = {} /\ errored = {} /\ done = 0 /\ loaded = 0
      /\ swept = TRUE
  BY <1>1 DEF SweepInv, UnsweptInv
<1>3. UnsweptInv' /\ LoadInv'
  BY <1>1 DEF SweepInv, UnsweptInv, LoadInv
<1>4. /\ Cardinality(Candidate) \in Nat
      /\ \A n \in 1 .. Cardinality(Candidate) : Nth(Candidate, n) \in Candidate
      /\ \A n, k \in 1 .. Cardinality(Candidate) : Nth(Candidate, n) = Nth(Candidate, k) => n = k
      /\ \A i \in Candidate : \E n \in 1 .. Cardinality(Candidate) : Nth(Candidate, n) = i
  <2>1. IsFiniteSet(Candidate) /\ Candidate \subseteq Int
    BY CandidateIs DEF SweepInv
  <2> QED
    BY <2>1, NthPlaces
<1>5. /\ todo' \in Seq(Candidate) /\ DOMAIN todo' = 1 .. Cardinality(Candidate)
      /\ \A n \in 1 .. Cardinality(Candidate) : todo'[n] = Nth(Candidate, n)
  BY <1>1, <1>4
<1>6. Left' = Candidate
  BY <1>4, <1>5 DEF Left
<1>7. Candidate' = Candidate
  BY SweepOnly
<1>8. Judgeds' = {}
  BY <1>6, <1>7 DEF Judgeds
<1>9. PlaceInv'
  <2>1. \A m, n \in DOMAIN todo' : todo'[m] = todo'[n] => m = n
    BY <1>4, <1>5
  <2>2. done' = Cardinality(Judgeds')
    BY <1>1, <1>2, <1>8, FS_EmptySet
  <2> QED
    BY <1>1, <1>2, <1>5, <1>6, <1>7, <2>1, <2>2 DEF PlaceInv
<1>10. VerdictInv'
  BY <1>1, <1>2, <1>8 DEF VerdictInv
<1> QED
  BY <1>3, <1>9, <1>10 DEF SweepInv

\* The head of the list becomes the chunk.
LEMMA NextChunkKeeps ==
    ASSUME SweepInv, RouteInv', req' = req, req.route = "deep", NextChunk
    PROVE  SweepInv'
<1> DEFINE size == ChunkSize
           first == {todo[n] : n \in 1 .. size}
<1>1. /\ phase = "sweep" /\ phase' = phase /\ swept = TRUE
      /\ chunk' = first
      /\ todo' = SubSeq(todo, size + 1, Len(todo))
      /\ swept' = FALSE /\ UNCHANGED <<work, kept, errored, done, loaded>>
  BY DEF NextChunk
<1>2. /\ todo \in Seq(Candidate) /\ \A m, n \in DOMAIN todo : todo[m] = todo[n] => m = n
      /\ work \subseteq Candidate /\ Left \cap work = {} /\ done = Cardinality(Judgeds)
  BY <1>1 DEF SweepInv, PlaceInv
<1>3. /\ loaded \in Nat /\ chunk = {} /\ work = {} /\ loaded <= CacheLimit
  BY <1>1 DEF SweepInv, LoadInv
<1>4. /\ Len(todo) \in Nat /\ DOMAIN todo = 1 .. Len(todo)
      /\ size \in 0 .. Len(todo) /\ size <= ChunkLen
  BY <1>2, DiffAssumption DEF ChunkSize
<1> HIDE DEF size
<1>5. /\ todo' \in Seq(Candidate) /\ DOMAIN todo' = 1 .. Len(todo) - size
      /\ \A n \in 1 .. Len(todo) - size : todo'[n] = todo[size + n]
  BY <1>1, <1>2, <1>4
<1>6. first \subseteq Left
  BY <1>4 DEF Left
<1>7. Left' = Left \ first
  <2>1. ASSUME NEW n \in 1 .. Len(todo) - size PROVE todo[size + n] \in Left \ first
    <3>1. size + n \in 1 .. Len(todo) /\ size + n \notin 1 .. size
      BY <1>4
    <3>2. \A k \in 1 .. size : todo[k] # todo[size + n]
      BY <1>2, <1>4, <3>1
    <3> QED
      BY <1>4, <3>1, <3>2 DEF Left
  <2>2. ASSUME NEW n \in 1 .. Len(todo), todo[n] \notin first
        PROVE  \E k \in 1 .. Len(todo) - size : todo[n] = todo[size + k]
    <3>1. n \notin 1 .. size
      BY <2>2
    <3>2. n - size \in 1 .. Len(todo) - size /\ size + (n - size) = n
      BY <1>4, <3>1
    <3> QED
      BY <3>2
  <2> HIDE DEF first
  <2>3. Left = {todo[n] : n \in 1 .. Len(todo)}
    BY <1>4 DEF Left
  <2>4. Left' = {todo[size + n] : n \in 1 .. Len(todo) - size}
    BY <1>5 DEF Left
  <2>5. Left' \subseteq Left \ first
    BY <2>1, <2>4
  <2>6. Left \ first \subseteq Left'
    BY <2>2, <2>3, <2>4
  <2> QED
    BY <2>5, <2>6
<1>8. IsFiniteSet(first) /\ Cardinality(first) \in Nat /\ Cardinality(first) <= size
  <2> DEFINE f == [n \in 1 .. size |-> todo[n]]
  <2>1. f \in Surjection(1 .. size, first)
    BY DEF Surjection
  <2>2. IsFiniteSet(1 .. size) /\ Cardinality(1 .. size) = size
    BY <1>4, FS_Interval
  <2> HIDE DEF f, first
  <2>3. IsFiniteSet(first) /\ Cardinality(first) <= size
    BY <2>1, <2>2, FS_Surjection
  <2> QED
    BY <2>3, FS_CardinalityType
<1> HIDE DEF first
<1>9. LoadInv'
  <2>1. work' = {} /\ Cardinality(work') = 0 /\ IsFiniteSet(work')
    BY <1>1, <1>3, FS_EmptySet
  <2>2. loaded' + Cardinality(chunk') + Cardinality(work') <= CacheLimit + ChunkLen
    BY <1>1, <1>3, <1>4, <1>8, <2>1, DiffAssumption
  <2> QED
    BY <1>1, <1>3, <1>8, <2>1, <2>2 DEF LoadInv
<1>10. Candidate' = Candidate
  BY SweepOnly
<1>11. Judgeds' = Judgeds
  BY <1>1, <1>3, <1>6, <1>7, <1>10 DEF Judgeds
<1>12. PlaceInv'
  <2>1. \A m, n \in DOMAIN todo' : todo'[m] = todo'[n] => m = n
    <3> SUFFICES ASSUME NEW m \in 1 .. Len(todo) - size, NEW n \in 1 .. Len(todo) - size,
                        todo[size + m] = todo[size + n]
                 PROVE  m = n
      BY <1>5
    <3>1. size + m = size + n
      <4>1. size + m \in 1 .. Len(todo) /\ size + n \in 1 .. Len(todo)
        BY <1>4
      <4> QED
        BY <1>2, <1>4, <4>1
    <3> QED
      BY <1>4, <3>1
  <2>2. chunk' \subseteq Candidate
    BY <1>1, <1>2, <1>6 DEF Left
  <2>3. Left' \cap chunk' = {} /\ Left' \cap work' = {}
    BY <1>1, <1>3, <1>7
  <2> QED
    BY <1>1, <1>2, <1>5, <1>10, <1>11, <2>1, <2>2, <2>3 DEF PlaceInv
<1>13. VerdictInv'
  BY <1>1, <1>11, SweepOnly DEF SweepInv, VerdictInv
<1> QED
  BY <1>1, <1>9, <1>12, <1>13 DEF SweepInv, UnsweptInv

LEMMA BeginKeeps ==
    ASSUME SweepInv, RouteInv', req' = req, req.route = "deep", NEW i, Begin(i)
    PROVE  SweepInv'
<1>1. /\ phase = "sweep" /\ phase' = phase /\ i \in chunk
      /\ chunk' = chunk \ {i} /\ work' = work \cup {i}
      /\ UNCHANGED <<todo, kept, errored, done, loaded, swept>>
  BY DEF Begin
<1>2. Left' = Left /\ Judgeds' = Judgeds /\ Candidate' = Candidate
  BY <1>1, SweepOnly DEF Left, Judgeds
<1>3. LoadInv'
  <2>1. /\ loaded \in Nat /\ IsFiniteSet(chunk) /\ IsFiniteSet(work) /\ chunk \cap work = {}
        /\ loaded + Cardinality(chunk) + Cardinality(work) <= CacheLimit + ChunkLen
        /\ swept # TRUE
    BY <1>1 DEF SweepInv, LoadInv
  <2>2. IsFiniteSet(chunk') /\ Cardinality(chunk') = Cardinality(chunk) - 1
    BY <1>1, <2>1, FS_RemoveElement
  <2>3. IsFiniteSet(work') /\ Cardinality(work') = Cardinality(work) + 1
    BY <1>1, <2>1, FS_AddElement
  <2>4. Cardinality(chunk) \in Nat /\ Cardinality(work) \in Nat
    BY <2>1, FS_CardinalityType
  <2>5. loaded' + Cardinality(chunk') + Cardinality(work') <= CacheLimit + ChunkLen
    BY <1>1, <2>1, <2>2, <2>3, <2>4, DiffAssumption
  <2> QED
    BY <1>1, <2>1, <2>2, <2>3, <2>5 DEF LoadInv
<1>4. PlaceInv'
  BY <1>1, <1>2 DEF SweepInv, PlaceInv
<1>5. VerdictInv'
  BY <1>1, <1>2, SweepOnly DEF SweepInv, VerdictInv
<1> QED
  BY <1>1, <1>3, <1>4, <1>5 DEF SweepInv, UnsweptInv

\* A verdict, or an error, is about one more file.
LEMMA JudgedCounts ==
    ASSUME SweepInv, RouteInv', req' = req, req.route = "deep", NEW i, Judged(i)
    PROVE  /\ UnsweptInv' /\ LoadInv' /\ PlaceInv'
           /\ phase = "sweep" /\ i \in Candidate
           /\ Judgeds' = Judgeds \cup {i}
<1>1. /\ phase = "sweep" /\ phase' = phase /\ i \in work
      /\ work' = work \ {i} /\ done' = done + 1
      /\ loaded' = loaded \/ loaded' = loaded + 1
      /\ UNCHANGED <<todo, chunk, swept>>
  BY DEF Judged
<1>2. Candidate' = Candidate /\ Left' = Left
  BY <1>1, SweepOnly DEF Left
<1>3. /\ i \in Candidate /\ i \notin Left /\ i \notin chunk /\ done = Cardinality(Judgeds)
  BY <1>1 DEF SweepInv, PlaceInv, LoadInv
<1>4. Judgeds' = Judgeds \cup {i} /\ i \notin Judgeds
  BY <1>1, <1>2, <1>3 DEF Judgeds
<1>5. IsFiniteSet(Judgeds)
  <2>1. Judgeds \in SUBSET Candidate /\ IsFiniteSet(Candidate)
    BY CandidateIs DEF Judgeds, SweepInv
  <2> QED
    BY <2>1, FS_Subset
<1>6. Cardinality(Judgeds') = done'
  <2>1. Cardinality(Judgeds \cup {i}) = Cardinality(Judgeds) + 1
    BY <1>4, <1>5, FS_AddElement
  <2> QED
    BY <1>1, <1>3, <1>4, <2>1
<1>7. LoadInv'
  <2>1. /\ loaded \in Nat /\ IsFiniteSet(chunk) /\ IsFiniteSet(work) /\ chunk \cap work = {}
        /\ loaded + Cardinality(chunk) + Cardinality(work) <= CacheLimit + ChunkLen
        /\ swept # TRUE
    BY <1>1 DEF SweepInv, LoadInv
  <2>2. IsFiniteSet(work') /\ Cardinality(work') = Cardinality(work) - 1
    BY <1>1, <2>1, FS_RemoveElement
  <2>3. Cardinality(chunk) \in Nat /\ Cardinality(work) \in Nat
    BY <2>1, FS_CardinalityType
  <2>4. loaded' \in Nat
        /\ loaded' + Cardinality(chunk') + Cardinality(work') <= CacheLimit + ChunkLen
    BY <1>1, <2>1, <2>2, <2>3, DiffAssumption
  <2> QED
    BY <1>1, <2>1, <2>2, <2>4 DEF LoadInv
<1>8. PlaceInv'
  BY <1>1, <1>2, <1>6 DEF SweepInv, PlaceInv
<1> QED
  BY <1>1, <1>3, <1>4, <1>7, <1>8 DEF UnsweptInv

LEMMA VerdictKeeps ==
    ASSUME SweepInv, RouteInv', req' = req, req.route = "deep", NEW i, Verdict(i) \/ Errored(i)
    PROVE  SweepInv'
<1>1. Judged(i)
  BY DEF Verdict, Errored
<1>2. /\ UnsweptInv' /\ LoadInv' /\ PlaceInv' /\ phase = "sweep" /\ phase' = phase
      /\ Judgeds' = Judgeds \cup {i}
  BY <1>1, JudgedCounts DEF Judged
<1>3. /\ {Base[j].path : j \in {j \in Judgeds : Differs(j)}} \subseteq kept
      /\ errored \subseteq kept
      /\ errored \subseteq {Base[j].path : j \in Judgeds}
      /\ kept \subseteq {Base[j].path : j \in {j \in Judgeds : Differs(j)}} \cup errored
  BY <1>2 DEF SweepInv, VerdictInv
<1>4. Base' = Base /\ \A j : Differs(j)' = Differs(j)
  BY SweepOnly
<1> DEFINE found == {Base[j].path : j \in {j \in Judgeds' : Differs(j)}}
<1>5. /\ found \subseteq kept'
      /\ errored' \subseteq kept'
      /\ errored' \subseteq {Base[j].path : j \in Judgeds'}
      /\ kept' \subseteq found \cup errored'
  <2>1. CASE Verdict(i) /\ Differs(i)
    <3>1. kept' = kept \cup {Base[i].path} /\ errored' = errored
      BY <2>1 DEF Verdict
    <3> QED
      BY <1>2, <1>3, <2>1, <3>1
  <2>2. CASE Verdict(i) /\ ~ Differs(i)
    <3>1. kept' = kept /\ errored' = errored
      BY <2>2 DEF Verdict
    <3> QED
      BY <1>2, <1>3, <2>2, <3>1
  <2>3. CASE Errored(i)
    <3>1. kept' = kept \cup {Base[i].path} /\ errored' = errored \cup {Base[i].path}
      BY <2>3 DEF Errored, KeptErrored, Tainted
    <3> QED
      BY <1>2, <1>3, <3>1
  <2> QED
    BY <2>1, <2>2, <2>3
<1>6. VerdictInv'
  BY <1>4, <1>5 DEF VerdictInv
<1> QED
  BY <1>2, <1>6 DEF SweepInv

LEMMA SweepNext == SweepInv /\ [CompareNext]_allVars => SweepInv'
<1> SUFFICES ASSUME SweepInv, [CompareNext]_allVars PROVE SweepInv'
  OBVIOUS
<1>1. req' = req /\ RouteInv'
  BY RequestStays, RouteNext DEF SweepInv
<1>2. CASE req.route # "deep"
  BY <1>1, <1>2 DEF SweepInv, UnsweptInv, LoadInv, PlaceInv, VerdictInv
<1>3. ASSUME req.route = "deep", UNCHANGED sweepVars,
             \/ phase' = phase
             \/ phase = "base" /\ phase' \in {"failed", "target"}
             \/ phase' = "failed"
             \/ phase = "sweep" /\ phase' = "sent" /\ swept = TRUE /\ todo = <<>>
      PROVE  SweepInv'
  <2>1. UnsweptInv'
    BY <1>1, <1>3 DEF SweepInv, UnsweptInv, sweepVars
  <2>2. LoadInv'
    BY <1>1, <1>3 DEF SweepInv, LoadInv, sweepVars
  <2>3. Left' = Left /\ Judgeds' = Judgeds /\ Candidate' = Candidate
    BY <1>1, <1>3, SweepOnly DEF Left, Judgeds, sweepVars
  <2>4. PlaceInv'
    BY <1>1, <1>3, <2>3 DEF SweepInv, PlaceInv, sweepVars
  <2>5. VerdictInv'
    BY <1>1, <1>3, <2>3, SweepOnly DEF SweepInv, VerdictInv, sweepVars
  <2> QED
    BY <1>1, <2>1, <2>2, <2>4, <2>5 DEF SweepInv
<1>4. CASE req.route = "deep" /\ UNCHANGED allVars
  BY <1>3, <1>4 DEF allVars, diffVars
<1>5. CASE req.route = "deep" /\ (Abort \/ OpenDeepBase \/ Swept)
  BY <1>3, <1>5 DEF Abort, OpenDeepBase, Swept
<1>6. CASE req.route = "deep" /\ Checkpoint
  <2>1. /\ phase = "sweep" /\ phase' = phase /\ chunk = {} /\ work = {} /\ swept' = TRUE
        /\ loaded' = AfterCheckpoint /\ UNCHANGED <<todo, chunk, work, kept, errored, done>>
    BY <1>6 DEF Checkpoint
  <2>2. LoadInv'
    <3>1. loaded \in Nat /\ IsFiniteSet(chunk) /\ IsFiniteSet(work)
      BY <1>6 DEF SweepInv, LoadInv
    <3>2. loaded' \in Nat /\ loaded' <= CacheLimit
      BY <2>1, <3>1, DiffAssumption DEF AfterCheckpoint
    <3>3. Cardinality(chunk') = 0 /\ Cardinality(work') = 0
      BY <2>1, FS_EmptySet
    <3>4. ChunkLen \in Nat /\ CacheLimit \in Nat
      BY DiffAssumption
    <3> QED
      BY <2>1, <3>1, <3>2, <3>3, <3>4 DEF LoadInv
  <2>3. Left' = Left /\ Judgeds' = Judgeds /\ Candidate' = Candidate
    BY <1>1, <2>1, SweepOnly DEF Left, Judgeds
  <2>4. PlaceInv'
    BY <1>1, <2>1, <2>3 DEF SweepInv, PlaceInv
  <2>5. VerdictInv'
    BY <1>1, <2>1, <2>3, SweepOnly DEF SweepInv, VerdictInv
  <2> QED
    BY <1>1, <2>1, <2>2, <2>4, <2>5 DEF SweepInv, UnsweptInv
<1> QED
  BY <1>1, <1>2, <1>4, <1>5, <1>6, DeepSteps, PrepareKeeps, NextChunkKeeps, BeginKeeps,
     VerdictKeeps DEF SweepInv

-----------------------------------------------------------------------------
\* Whether the structured diff of a candidate has changes is a question about
\* the two manifests.
LEMMA DiffersIsNoise ==
    ASSUME req.base \in Ref, Target \in Ref, Unambiguous(Base), Unambiguous(FilesOf[Target]),
           \A j \in DOMAIN FilesOf[Target] : \A f \in FilesIn(Base) :
             PairKey(FilesOf[Target][j].path) = PairKey(f.path) => ~ FilesOf[Target][j].dir,
           NEW i \in FileAt(Base)
    PROVE  i \in Candidate /\ Differs(i) <=>
             \E g \in FilesIn(FilesOf[Target]) :
               Same(Base[i], g) /\ Base[i].id # g.id
                 /\ ~ (Base[i].kind # "plain" /\ Base[i].norm = g.norm)
<1> DEFINE f == Base[i]
<1>1. f \in FilesIn(Base)
  BY DEF FilesIn
<1>2. i \in Candidate <=> \E g \in FilesIn(FilesOf[Target]) : Same(f, g) /\ f.id # g.id
  BY <1>1, DiffersIs DEF Candidate
<1>3. \A g \in FilesIn(FilesOf[Target]) : Same(f, g) =>
        FindCorresponding(FilesOf[Target], f.path) = g
  <2> SUFFICES ASSUME NEW g \in FilesIn(FilesOf[Target]), Same(f, g)
               PROVE  FindCorresponding(FilesOf[Target], f.path) = g
    OBVIOUS
  <2>1. Key(g) = Key(f)
    BY <1>1, SameKeys DEF Base
  <2>2. f \in FilesIn(FilesOf[req.base])
    BY <1>1 DEF Base
  <2>3. \A j \in DOMAIN FilesOf[Target] :
             PairKey(FilesOf[Target][j].path) = Key(f) => ~ FilesOf[Target][j].dir
    BY <1>1 DEF Key
  <2> HIDE DEF f
  <2> QED
    BY <2>1, <2>2, <2>3, CorrespondingIs
<1> QED
  BY <1>2, <1>3 DEF Differs

LEMMA DeepIsRight == SweepInv => DeepRight
<1> SUFFICES ASSUME SweepInv, req.route = "deep" PROVE DeepRight
  BY DEF DeepRight
<1>1. loaded <= CacheLimit + ChunkLen
  <2>1. /\ loaded \in Nat /\ IsFiniteSet(chunk) /\ IsFiniteSet(work)
        /\ loaded + Cardinality(chunk) + Cardinality(work) <= CacheLimit + ChunkLen
    BY DEF SweepInv, LoadInv
  <2>2. Cardinality(chunk) \in Nat /\ Cardinality(work) \in Nat
    BY <2>1, FS_CardinalityType
  <2> QED
    BY <2>1, <2>2, DiffAssumption
<1>2. ASSUME phase = "sent", AllUnambiguous, FoldersApart
      PROVE  /\ Immutable => DeepEntries = PureEntries
             /\ PureEntries \subseteq DeepEntries
             /\ done = Cardinality(Candidate)
  <2>1. /\ req.base \in Ref /\ Target \in Ref /\ Target \in Compared \cup {req.base}
    <3>1. req.base \in Ref /\ req.others \in Seq(Ref) /\ Len(req.others) = 1
      BY DEF SweepInv, RouteInv, Legal
    <3>2. 1 \in DOMAIN req.others /\ req.others[1] \in Ref
      BY <3>1
    <3> QED
      BY <3>1, <3>2 DEF Target, Compared
  <2>2. Unambiguous(Base) /\ Unambiguous(FilesOf[Target])
    BY <1>2, <2>1 DEF AllUnambiguous, Base
  <2>3. \A j \in DOMAIN FilesOf[Target] : \A f \in FilesIn(Base) :
             PairKey(FilesOf[Target][j].path) = PairKey(f.path) => ~ FilesOf[Target][j].dir
    BY <1>2, <2>1 DEF FoldersApart, Base
  <2>4. Judgeds = Candidate
    <3>1. todo = <<>> /\ swept = TRUE /\ chunk = {} /\ work = {}
      BY <1>2 DEF SweepInv, PlaceInv, LoadInv
    <3> QED
      BY <3>1 DEF Judgeds, Left
  <2> DEFINE old == FilesIn(FilesOf[Target])
             noisy(f, g) == f.kind # "plain" /\ f.norm = g.norm
             real == {f \in FilesIn(Base) : \E g \in old : Same(f, g) /\ f.id # g.id /\ ~noisy(f, g)}
             judged == {i \in Candidate : Differs(i)}
  <2>5. {Base[i].path : i \in judged} = {f.path : f \in real}
    <3>1. \A i \in FileAt(Base) : i \in judged <=> Base[i] \in real
      BY <2>1, <2>2, <2>3, DiffersIsNoise DEF FilesIn
    <3>2. judged \subseteq FileAt(Base) /\ real \subseteq {Base[i] : i \in FileAt(Base)}
      BY DEF Candidate, FilesIn
    <3> HIDE DEF judged, real
    <3> QED
      BY <3>1, <3>2
  <2>6. /\ {f.path : f \in real} \subseteq kept
        /\ kept \subseteq {f.path : f \in real} \cup errored
    BY <1>2, <2>4, <2>5 DEF SweepInv, VerdictInv
  <2>7. AbsentIn(Target) = {f.path : f \in {f \in FilesIn(Base) : ~Has(Target, f)}}
    BY <2>1, InBothIs, HasKey DEF AbsentIn, OnlyIn, Base
  <2>8. OnlyIn(FilesOf[Target], Base) = {g \in old : ~Has(req.base, g)}
    BY <2>1, InBothIs, HasKey DEF OnlyIn, Base
  <2> DEFINE added == {EntryRow(f.path, "added", 0) : f \in {f \in FilesIn(Base) : ~Has(Target, f)}}
             removed == {EntryRow(g.path, "removed", g.size) : g \in {g \in old : ~Has(req.base, g)}}
             row(p) == EntryRow(p, "changed", 0)
  <2>9. PureEntries = added \cup {row(f.path) : f \in real} \cup removed
    BY DEF PureEntries
  <2>10. DeepEntries = added \cup {row(p) : p \in kept} \cup removed
    <3>1. {EntryRow(p, "added", 0) : p \in AbsentIn(Target)} = added
      <4> DEFINE lacking == {f \in FilesIn(Base) : ~Has(Target, f)}
      <4> HIDE DEF lacking
      <4>1. AbsentIn(Target) = {f.path : f \in lacking}
        BY <2>7 DEF lacking
      <4>2. {EntryRow(p, "added", 0) : p \in AbsentIn(Target)}
              = {EntryRow(f.path, "added", 0) : f \in lacking}
        BY <4>1
      <4> QED
        BY <4>2 DEF lacking
    <3> QED
      BY <2>8, <3>1 DEF DeepEntries
  <2>11. done = Cardinality(Candidate)
    BY <1>2, <2>4 DEF SweepInv, PlaceInv
  <2> HIDE DEF added, removed, real, row
  <2>12. PureEntries \subseteq DeepEntries
    BY <2>6, <2>9, <2>10
  <2>13. Immutable => DeepEntries = PureEntries
    BY <2>6, <2>9, <2>10 DEF Immutable
  <2> QED
    BY <2>11, <2>12, <2>13
<1> QED
  BY <1>1, <1>2 DEF DeepRight

\* What the deep diff answers is a function of the two manifests, errors aside.
THEOREM DeepDiffIsRight ==
    ASSUME NEW CONSTANT requests, \A q \in requests : Legal(q)
    PROVE  CompareSpec(requests) => []DeepRight
<1>1. CompareInit(requests) => SweepInv
  BY SweepInit
<1> QED
  BY <1>1, SweepNext, DeepIsRight, PTL DEF CompareSpec

-----------------------------------------------------------------------------
\* Versions are sorted: the list is the same, newest first.
Sooner(s, i, j) == Time[s[i]] > Time[s[j]] \/ (Time[s[i]] = Time[s[j]] /\ i <= j)

LEMMA SoonerOrders ==
    ASSUME NEW s \in Seq(Ref)
    PROVE  /\ \A i \in DOMAIN s : Sooner(s, i, i)
           /\ \A i, j \in DOMAIN s : Sooner(s, i, j) \/ Sooner(s, j, i)
           /\ \A i, j \in DOMAIN s : Sooner(s, i, j) /\ Sooner(s, j, i) => i = j
           /\ \A i, j, k \in DOMAIN s : Sooner(s, i, j) /\ Sooner(s, j, k) => Sooner(s, i, k)
<1>1. \A i \in DOMAIN s : i \in Nat /\ s[i] \in Ref /\ Time[s[i]] \in Nat
  BY TimeAssumption
<1> QED
  BY <1>1 DEF Sooner

LEMMA RankOrders ==
    ASSUME NEW s \in Seq(Ref)
    PROVE  /\ \A i \in DOMAIN s : Rank(s, i) \in 1 .. Len(s)
           /\ \A i, j \in DOMAIN s : i # j /\ Sooner(s, i, j) => Rank(s, i) < Rank(s, j)
<1> DEFINE upTo(i) == {j \in DOMAIN s : Sooner(s, j, i)}
<1>1. Len(s) \in Nat /\ DOMAIN s = 1 .. Len(s)
  OBVIOUS
<1>2. IsFiniteSet(DOMAIN s) /\ Cardinality(DOMAIN s) = Len(s)
  BY <1>1, FS_Interval
<1>3. \A i : upTo(i) \in SUBSET DOMAIN s
  OBVIOUS
<1>4. \A i : Rank(s, i) = Cardinality(upTo(i))
  BY DEF Rank, Sooner
<1>5. ASSUME NEW i \in DOMAIN s PROVE i \in upTo(i)
  BY SoonerOrders
<1>6. ASSUME NEW i \in DOMAIN s, NEW j \in DOMAIN s, i # j, Sooner(s, i, j)
      PROVE  upTo(i) \subseteq upTo(j) /\ j \notin upTo(i)
  BY <1>6, SoonerOrders
<1> HIDE DEF upTo
<1>7. ASSUME NEW i PROVE /\ IsFiniteSet(upTo(i)) /\ Cardinality(upTo(i)) \in Nat
                         /\ Cardinality(upTo(i)) <= Len(s)
  BY <1>2, <1>3, FS_Subset, FS_CardinalityType
<1>8. ASSUME NEW i \in DOMAIN s PROVE Rank(s, i) \in 1 .. Len(s)
  <2>1. Cardinality(upTo(i)) # 0
    BY <1>5, <1>7, FS_EmptySet
  <2> QED
    BY <1>1, <1>4, <1>7, <2>1
<1>9. ASSUME NEW i \in DOMAIN s, NEW j \in DOMAIN s, i # j, Sooner(s, i, j)
      PROVE  Rank(s, i) < Rank(s, j)
  <2>1. upTo(i) \in SUBSET upTo(j) /\ upTo(i) # upTo(j)
    BY <1>5, <1>6, <1>9
  <2>2. /\ Cardinality(upTo(i)) <= Cardinality(upTo(j))
        /\ Cardinality(upTo(i)) # Cardinality(upTo(j))
    BY <1>7, <2>1, FS_Subset
  <2> QED
    BY <1>4, <1>7, <2>2
<1> QED
  BY <1>8, <1>9

LEMMA RankPlaces ==
    ASSUME NEW s \in Seq(Ref)
    PROVE  /\ \A i, j \in DOMAIN s : Rank(s, i) = Rank(s, j) => i = j
           /\ \A k \in DOMAIN s : \E i \in DOMAIN s : Rank(s, i) = k
<1> DEFINE rank == [i \in DOMAIN s |-> Rank(s, i)]
<1>1. Len(s) \in Nat /\ DOMAIN s = 1 .. Len(s)
  OBVIOUS
<1>2. IsFiniteSet(DOMAIN s)
  BY <1>1, FS_Interval
<1>3. ASSUME NEW i \in DOMAIN s, NEW j \in DOMAIN s, i # j PROVE Rank(s, i) # Rank(s, j)
  <2>1. Rank(s, i) < Rank(s, j) \/ Rank(s, j) < Rank(s, i)
    BY <1>3, RankOrders, SoonerOrders
  <2>2. Rank(s, i) \in Int /\ Rank(s, j) \in Int
    BY <1>1, RankOrders
  <2> QED
    BY <2>1, <2>2
<1>4. rank \in [DOMAIN s -> DOMAIN s]
  BY <1>1, RankOrders
<1>5. rank \in Injection(DOMAIN s, DOMAIN s)
  BY <1>3, <1>4 DEF Injection, IsInjective
<1>6. rank \in Surjection(DOMAIN s, DOMAIN s)
  <2> HIDE DEF rank
  <2> QED
    BY <1>2, <1>5, FS_Injection
<1>7. \A k \in DOMAIN s : \E i \in DOMAIN s : rank[i] = k
  BY <1>6 DEF Surjection
<1> QED
  BY <1>3, <1>7

LEMMA SortIs ==
    ASSUME NEW s \in Seq(Ref)
    PROVE  /\ NewestFirst(s) \in Seq(Ref) /\ Len(NewestFirst(s)) = Len(s)
           /\ DOMAIN NewestFirst(s) = DOMAIN s
           /\ {NewestFirst(s)[k] : k \in DOMAIN s} = {s[i] : i \in DOMAIN s}
           /\ (\A i, j \in DOMAIN s : s[i] = s[j] => i = j)
                 => \A k, l \in DOMAIN s : NewestFirst(s)[k] = NewestFirst(s)[l] => k = l
           /\ \A k, l \in DOMAIN s : k < l => Time[NewestFirst(s)[k]] >= Time[NewestFirst(s)[l]]
<1> DEFINE from(k) == CHOOSE i \in DOMAIN s : Rank(s, i) = k
           t == NewestFirst(s)
<1>1. Len(s) \in Nat /\ DOMAIN s = 1 .. Len(s)
  OBVIOUS
<1>2. \A k \in DOMAIN s : from(k) \in DOMAIN s /\ Rank(s, from(k)) = k
  BY RankPlaces
<1>3. \A i \in DOMAIN s : from(Rank(s, i)) = i /\ Rank(s, i) \in DOMAIN s
  BY <1>1, RankPlaces, RankOrders
<1>4. DOMAIN t = DOMAIN s /\ \A k \in DOMAIN s : t[k] = s[from(k)]
  BY DEF NewestFirst
<1>5. t = [k \in 1 .. Len(s) |-> s[from(k)]]
  BY <1>1 DEF NewestFirst
<1>6. ASSUME NEW k \in 1 .. Len(s) PROVE s[from(k)] \in Ref
  <2>1. from(k) \in DOMAIN s
    BY <1>1, <1>2
  <2> HIDE DEF from
  <2> QED
    BY <2>1
<1>7. t \in Seq(Ref) /\ Len(t) = Len(s)
  <2> HIDE DEF from, t
  <2> QED
    BY <1>1, <1>5, <1>6
<1> HIDE DEF from, t
<1>8. {t[k] : k \in DOMAIN s} = {s[i] : i \in DOMAIN s}
  <2>1. \A k \in DOMAIN s : \E i \in DOMAIN s : t[k] = s[i]
    BY <1>2, <1>4
  <2>2. \A i \in DOMAIN s : \E k \in DOMAIN s : t[k] = s[i]
    BY <1>3, <1>4
  <2>3. {t[k] : k \in DOMAIN s} \subseteq {s[i] : i \in DOMAIN s}
    BY <2>1
  <2>4. {s[i] : i \in DOMAIN s} \subseteq {t[k] : k \in DOMAIN s}
    BY <2>2
  <2> QED
    BY <2>3, <2>4
<1>9. ASSUME \A i, j \in DOMAIN s : s[i] = s[j] => i = j,
             NEW k \in DOMAIN s, NEW l \in DOMAIN s, t[k] = t[l]
      PROVE  k = l
  BY <1>2, <1>4, <1>9
<1>10. ASSUME NEW k \in DOMAIN s, NEW l \in DOMAIN s, k < l PROVE Time[t[k]] >= Time[t[l]]
  <2>1. ~ Sooner(s, from(l), from(k))
    <3>1. SUFFICES ASSUME Sooner(s, from(l), from(k)) PROVE FALSE
      OBVIOUS
    <3>2. from(l) # from(k)
      BY <1>1, <1>2, <1>10
    <3>3. l < k
      BY <1>2, <3>1, <3>2, RankOrders
    <3> QED
      BY <1>1, <1>10, <3>3
  <2>2. Sooner(s, from(k), from(l))
    BY <1>2, <2>1, SoonerOrders
  <2>3. Time[s[from(k)]] \in Nat /\ Time[s[from(l)]] \in Nat
    BY <1>1, <1>2, TimeAssumption
  <2> QED
    BY <1>4, <2>2, <2>3 DEF Sooner
<1> QED
  BY <1>4, <1>7, <1>8, <1>9, <1>10 DEF t

-----------------------------------------------------------------------------
\* The list of versions.
Members(s) == {s[i] : i \in DOMAIN s}
Apart(s) == \A i, j \in DOMAIN s : s[i] = s[j] => i = j
Descending(s) == \A k, l \in DOMAIN s : k < l => Time[s[k]] >= Time[s[l]]

LEMMA SortListed ==
    ASSUME NEW s \in Seq(Ref)
    PROVE  /\ NewestFirst(s) \in Seq(Ref) /\ Members(NewestFirst(s)) = Members(s)
           /\ Descending(NewestFirst(s)) /\ Len(NewestFirst(s)) = Len(s)
           /\ Apart(s) => Apart(NewestFirst(s))
<1>1. /\ NewestFirst(s) \in Seq(Ref) /\ DOMAIN NewestFirst(s) = DOMAIN s
      /\ Len(NewestFirst(s)) = Len(s)
  BY SortIs
<1>2. Members(NewestFirst(s)) = Members(s)
  BY <1>1, SortIs DEF Members
<1>3. Descending(NewestFirst(s))
  BY <1>1, SortIs DEF Descending
<1>4. Apart(s) => Apart(NewestFirst(s))
  BY <1>1, SortIs DEF Apart
<1> QED
  BY <1>1, <1>2, <1>3, <1>4

\* Before the walk, nothing is compared.
StartInv ==
    req.route = "history" /\ phase \in {"base", "previous"} =>
        /\ outcomes = <<>> /\ told = 0
        /\ phase = "base" => asked = 0

\* The previous versions come one after the other.
GatherInv ==
    req.route = "history" /\ phase = "previous" =>
        /\ asked \in 0 .. Len(req.others)
        /\ versions \in Seq(Ref) /\ Apart(versions)
        /\ Members(versions) = {req.base} \cup {req.others[j] : j \in 1 .. asked}

\* The set is complete, and sorted.
SortedInv ==
    req.route = "history" /\ phase \in {"walk", "sent"} =>
        /\ versions \in Seq(Ref) /\ Apart(versions)
        /\ Members(versions) = VersionSet /\ Descending(versions)

VersionsInv ==
    req.route = "versions" =>
        /\ versions \in Seq(Ref)
        /\ phase = "sent" => Descending(versions)
        /\ phase = "base" => versions = <<>>

ListInv == RouteInv /\ StartInv /\ GatherInv /\ SortedInv /\ VersionsInv

\* The versions of a request never change.
LEMMA OthersListed ==
    ASSUME RouteInv
    PROVE  /\ req.base \in Ref /\ req.others \in Seq(Ref) /\ req.path \in Path
           /\ req.route = "history" => Apart(req.others)
  BY DEF RouteInv, Legal, Apart

LEMMA HistorySteps ==
    ASSUME RouteInv, req.route \in HistoryRoute, CompareNext
    PROVE  \/ HistoryNext
           \/ (\E r \in Ref : Open(r)) /\ UNCHANGED historyVars
<1>1. phase \notin {"target", "sweep"} /\ req.route \notin Route
  BY DEF RouteInv, HistoryRoute, Route
<1>2. ASSUME DiffNext PROVE \E r \in Ref : Open(r)
  <2>1. ~ (OpenBase \/ BaseFails \/ Collected)
    BY <1>1 DEF OpenBase, BaseFails, Collected
  <2>2. ~ \E r \in Ref : \/ DiffAnswer(r) \/ DiffRefused(r) \/ FileAnswer(r)
                         \/ FileRefused(r) \/ TargetsAnswer(r) \/ TargetsRefused(r)
    BY <1>1 DEF DiffAnswer, DiffRefused, FileAnswer, FileRefused, TargetsAnswer,
                TargetsRefused, Route
  <2>3. ~ (OpenDeepBase \/ Prepare \/ NextChunk \/ Checkpoint \/ Swept)
    BY <1>1 DEF OpenDeepBase, Prepare, NextChunk, Checkpoint, Swept, Route
  <2>4. ~ \E i \in work \cup chunk : Begin(i) \/ Verdict(i) \/ Errored(i)
    BY <1>1 DEF Begin, Verdict, Errored, Judged
  <2> QED
    BY <1>2, <2>1, <2>2, <2>3, <2>4 DEF DiffNext
<1> QED
  BY <1>2 DEF CompareNext

LEMMA ListInit ==
    ASSUME NEW CONSTANT requests, \A q \in requests : Legal(q), CompareInit(requests)
    PROVE  ListInv
  BY DEF CompareInit, DiffInit, HistoryInit, ListInv, RouteInv, StartInv, GatherInv, SortedInv,
         VersionsInv, HistoryRoute

-----------------------------------------------------------------------------
LEMMA OpenCurrentKeeps ==
    ASSUME ListInv, RouteInv', req' = req, OpenCurrent
    PROVE  ListInv'
<1>1. /\ phase = "base" /\ req.route = "history" /\ phase' \in {"failed", "previous"}
      /\ versions' = <<req.base>> /\ asked' = asked /\ outcomes' = outcomes /\ told' = told
  BY DEF OpenCurrent
<1>2. req.base \in Ref /\ Len(req.others) \in Nat
  BY OthersListed DEF ListInv
<1>3. versions' \in Seq(Ref) /\ Apart(versions') /\ Members(versions') = {req.base}
  BY <1>1, <1>2 DEF Apart, Members
<1>4. asked = 0 /\ outcomes = <<>> /\ told = 0
  BY <1>1 DEF ListInv, StartInv
<1>5. GatherInv'
  BY <1>1, <1>2, <1>3, <1>4 DEF GatherInv, Apart, Members
<1> QED
  BY <1>1, <1>4, <1>5 DEF ListInv, StartInv, SortedInv, VersionsInv

LEMMA OpenPreviousKeeps ==
    ASSUME ListInv, RouteInv', req' = req, OpenPrevious
    PROVE  ListInv'
<1> DEFINE next == req.others[asked + 1]
<1>1. /\ phase = "previous" /\ phase' = phase /\ req.route = "history"
      /\ asked < Len(req.others) /\ asked' = asked + 1
      /\ versions' = IF next = req.base THEN versions ELSE Append(versions, next)
      /\ outcomes' = outcomes /\ told' = told
  BY DEF OpenPrevious, ListInv, RouteInv
<1>2. /\ asked \in 0 .. Len(req.others)
      /\ versions \in Seq(Ref) /\ Apart(versions)
      /\ Members(versions) = {req.base} \cup {req.others[j] : j \in 1 .. asked}
  BY <1>1 DEF ListInv, GatherInv
<1>3. req.others \in Seq(Ref) /\ Len(req.others) \in Nat /\ Apart(req.others)
  BY <1>1, OthersListed DEF ListInv
<1>4. asked + 1 \in DOMAIN req.others /\ next \in Ref /\ asked' \in 0 .. Len(req.others)
  BY <1>1, <1>2, <1>3
<1>5. next \notin {req.others[j] : j \in 1 .. asked}
  <2>1. ASSUME NEW j \in 1 .. asked PROVE j \in DOMAIN req.others /\ j # asked + 1
    BY <1>2, <1>3
  <2> QED
    BY <1>3, <1>4, <2>1 DEF Apart
<1>6. {req.others[j] : j \in 1 .. asked'} = {req.others[j] : j \in 1 .. asked} \cup {next}
  <2>1. 1 .. asked' = (1 .. asked) \cup {asked + 1}
    BY <1>1, <1>2
  <2> QED
    BY <2>1
<1> HIDE DEF next
<1>7. versions' \in Seq(Ref) /\ Apart(versions') /\ Members(versions') = Members(versions) \cup {next}
  <2>1. CASE next = req.base
    BY <1>1, <1>2, <2>1
  <2>2. CASE next # req.base
    <3>1. next \notin Members(versions)
      BY <1>2, <1>5, <2>2
    <3>2. /\ versions' \in Seq(Ref) /\ DOMAIN versions' = DOMAIN versions \cup {Len(versions) + 1}
          /\ \A i \in DOMAIN versions : versions'[i] = versions[i]
          /\ versions'[Len(versions) + 1] = next
      BY <1>1, <1>2, <1>4, <2>2
    <3>3. Members(versions') = Members(versions) \cup {next}
      BY <3>2 DEF Members
    <3>4. Apart(versions')
      BY <1>2, <3>1, <3>2 DEF Members, Apart
    <3> QED
      BY <3>2, <3>3, <3>4
  <2> QED
    BY <2>1, <2>2
<1>8. Members(versions') = {req.base} \cup {req.others[j] : j \in 1 .. asked'}
  BY <1>2, <1>6, <1>7
<1>9. GatherInv'
  BY <1>4, <1>7, <1>8 DEF GatherInv, Members, Apart
<1> QED
  BY <1>1, <1>9 DEF ListInv, StartInv, SortedInv, VersionsInv

LEMMA SortKeeps ==
    ASSUME ListInv, RouteInv', req' = req, Sort
    PROVE  ListInv'
<1>1. /\ phase = "previous" /\ phase' = "walk" /\ req.route = "history"
      /\ asked = Len(req.others) /\ versions' = NewestFirst(versions)
  BY DEF Sort, ListInv, RouteInv
<1>2. /\ versions \in Seq(Ref) /\ Apart(versions)
      /\ Members(versions) = {req.base} \cup {req.others[j] : j \in 1 .. asked}
  BY <1>1 DEF ListInv, GatherInv
<1>3. DOMAIN req.others = 1 .. asked
  BY <1>1, OthersListed DEF ListInv
<1>4. Members(versions) = VersionSet
  BY <1>2, <1>3 DEF VersionSet
<1>5. /\ versions' \in Seq(Ref) /\ Apart(versions') /\ Members(versions') = Members(versions)
      /\ Descending(versions')
  BY <1>1, <1>2, SortListed
<1>6. VersionSet' = VersionSet
  BY DEF VersionSet
<1>7. SortedInv'
  BY <1>4, <1>5, <1>6 DEF SortedInv, Apart, Members, Descending
<1> QED
  BY <1>1, <1>7 DEF ListInv, StartInv, GatherInv, VersionsInv

LEMMA ListNext == ListInv /\ [CompareNext]_allVars => ListInv'
<1> SUFFICES ASSUME ListInv, [CompareNext]_allVars PROVE ListInv'
  OBVIOUS
<1>1. req' = req /\ RouteInv' /\ VersionSet' = VersionSet
  BY RequestStays, RouteNext DEF ListInv, VersionSet
<1>2. CASE req.route \notin HistoryRoute
  BY <1>1, <1>2 DEF ListInv, StartInv, GatherInv, SortedInv, VersionsInv, HistoryRoute
<1>3. ASSUME phase' = phase \/ phase' = "failed" \/ (phase = "walk" /\ phase' = "sent"), asked' = asked,
             versions' = versions, outcomes' = outcomes \/ phase \notin {"base", "previous"},
             told' = told \/ phase \notin {"base", "previous"},
             phase = "walk" => req.route = "history"
      PROVE  ListInv'
  <2>1. StartInv'
    BY <1>1, <1>3 DEF ListInv, StartInv
  <2>2. GatherInv'
    BY <1>1, <1>3 DEF ListInv, GatherInv, Apart, Members
  <2>3. SortedInv'
    BY <1>1, <1>3 DEF ListInv, SortedInv, Apart, Members, Descending
  <2>4. VersionsInv'
    BY <1>1, <1>3 DEF ListInv, VersionsInv, Descending
  <2> QED
    BY <1>1, <2>1, <2>2, <2>3, <2>4 DEF ListInv
<1>4. CASE UNCHANGED allVars
  BY <1>3, <1>4 DEF allVars, diffVars, historyVars, ListInv, RouteInv
<1>5. CASE (\E r \in Ref : Open(r)) /\ UNCHANGED historyVars
  BY <1>3, <1>5 DEF Open, historyVars, ListInv, RouteInv
<1>6. CASE HistoryFails \/ WalkEnds \/ \E r \in Ref : VersionRefused(r)
  BY <1>3, <1>6 DEF HistoryFails, WalkEnds, VersionRefused, Abort, historyVars, ListInv, RouteInv
<1>7. CASE Up \/ Down
  BY <1>3, <1>7 DEF Up, Down, Compare, ListInv, RouteInv
<1>8. CASE OpenVersions
  BY <1>1, <1>8 DEF OpenVersions, historyVars, ListInv, StartInv, GatherInv, SortedInv, VersionsInv
<1>9. ASSUME NEW r \in Ref, VersionAnswer(r) PROVE ListInv'
  BY <1>1, <1>9 DEF VersionAnswer, Answered, ListInv, StartInv, GatherInv, SortedInv, VersionsInv
<1>10. CASE ListVersions
  <2>1. /\ phase = "collect" /\ req.route = "versions" /\ phase' = "sent"
        /\ versions' = NewestFirst(versions) /\ versions \in Seq(Ref)
    BY <1>10 DEF ListVersions, ListInv, VersionsInv
  <2>2. versions' \in Seq(Ref) /\ Descending(versions')
    BY <2>1, SortListed
  <2>3. VersionsInv'
    BY <2>1, <2>2 DEF VersionsInv, Descending
  <2> QED
    BY <1>1, <2>1, <2>3 DEF ListInv, StartInv, GatherInv, SortedInv
<1> QED
  BY <1>1, <1>2, <1>4, <1>5, <1>6, <1>7, <1>8, <1>9, <1>10, HistorySteps, OpenCurrentKeeps,
     OpenPreviousKeeps, SortKeeps DEF ListInv, HistoryNext

-----------------------------------------------------------------------------
\* A pair of versions: what becomes of the file, and of a node in it.
LEMMA FirstListed ==
    ASSUME NEW r \in Ref, NEW p, NEW f \in FileOf(r, p), NEW g \in FileOf(r, p)
    PROVE  f = g
  BY DiffAssumption DEF FileOf

PairStatus == {"missing", "added", "unchanged", "changed", "removed"}

\* The rows of the structured diff name a node that is in no other's row.
LEMMA RowIs ==
    ASSUME NEW v \in Ref, NEW w \in Ref, NEW n \in Node, OwnId(n), NEW side \in {"newer", "older"},
           NEW id, id # NoNode, id = IF side = "newer" THEN IdOf[v][n] ELSE IdOf[w][n],
           NEW x \in RowOf(Rows(v, w), id, side)
    PROVE  /\ BodyOf[v][n] # BodyOf[w][n]
           /\ x.base = IdOf[v][n] /\ x.target = IdOf[w][n]
           /\ x.status \in {"added", "removed", "changed"}
<1>1. PICK m \in Node :
         /\ BodyOf[v][m] # BodyOf[w][m] /\ x.base = IdOf[v][m] /\ x.target = IdOf[w][m]
         /\ x.status \in {"added", "removed", "changed"}
  BY DEF RowOf, Rows
<1>2. id = IF side = "newer" THEN IdOf[v][m] ELSE IdOf[w][m]
  BY <1>1 DEF RowOf
<1>3. m = n
  BY <1>2 DEF OwnId
<1> QED
  BY <1>1, <1>3

LEMMA NodeOutcomeIs ==
    ASSUME NEW v \in Ref, NEW w \in Ref, NEW n \in Node, KeepsId(n), OwnId(n),
           NEW side \in {"newer", "older"},
           NEW id, id # NoNode, id = IF side = "newer" THEN IdOf[v][n] ELSE IdOf[w][n]
    PROVE  /\ NodeOutcome(v, w, id, side).node = IF side = "newer" THEN IdOf[w][n] ELSE IdOf[v][n]
           /\ NodeOutcome(v, w, id, side).status = "unchanged" <=> BodyOf[v][n] = BodyOf[w][n]
           /\ NodeOutcome(v, w, id, side).status \in PairStatus
<1> DEFINE rows == RowOf(Rows(v, w), id, side)
           x == CHOOSE x \in rows : TRUE
<1>1. CASE rows = {}
  <2>1. BodyOf[v][n] = BodyOf[w][n]
    <3>1. SUFFICES ASSUME BodyOf[v][n] # BodyOf[w][n] PROVE FALSE
      OBVIOUS
    <3> DEFINE y == [base |-> IdOf[v][n], target |-> IdOf[w][n],
                     status |-> IF IdOf[w][n] = NoNode THEN "added"
                                ELSE IF IdOf[v][n] = NoNode THEN "removed" ELSE "changed"]
    <3>2. y \in Rows(v, w)
      BY <3>1 DEF Rows
    <3>3. y \in rows
      BY <3>2 DEF RowOf
    <3> QED
      BY <1>1, <3>3
  <2>2. IdOf[v][n] = IdOf[w][n]
    BY <2>1 DEF KeepsId
  <2>3. NodeOutcome(v, w, id, side) = Outcome("unchanged", id)
    BY <1>1 DEF NodeOutcome
  <2> QED
    BY <2>1, <2>2, <2>3 DEF Outcome, PairStatus
<1>2. CASE rows # {}
  <2>1. x \in rows
    BY <1>2
  <2>2. NodeOutcome(v, w, id, side)
          = Outcome(x.status, IF side = "newer" THEN x.target ELSE x.base)
    BY <1>2 DEF NodeOutcome
  <2> HIDE DEF x
  <2>3. /\ BodyOf[v][n] # BodyOf[w][n]
        /\ x.base = IdOf[v][n] /\ x.target = IdOf[w][n]
        /\ x.status \in {"added", "removed", "changed"}
    BY <2>1, RowIs
  <2> QED
    BY <2>2, <2>3 DEF Outcome, PairStatus
<1> QED
  BY <1>1, <1>2

\* What a file's row says of two versions.
PairChange(v, w) ==
    IF FileIn(v) = {} THEN "missing"
    ELSE IF FileIn(w) = {} THEN "added"
    ELSE IF \A f \in FileIn(v), g \in FileIn(w) : Sha(f) = Sha(g) THEN "unchanged"
    ELSE "changed"

LEMMA FileTransition ==
    ASSUME NEW i, NEW side
    PROVE  /\ Transition(i, NoNode, side).node = NoNode
           /\ Transition(i, NoNode, side).status = PairChange(versions[i], versions[i + 1])
  BY DEF Transition, Outcome, PairChange

\* A node that is known on one side is found on the other.
LEMMA NodeTransition ==
    ASSUME SameTrees(req.path), NEW i, versions[i] \in Ref, versions[i + 1] \in Ref,
           NEW n \in Node, KeepsId(n), OwnId(n), NEW side \in {"newer", "older"},
           NEW id, id # NoNode,
           id = IF side = "newer" THEN IdOf[versions[i]][n] ELSE IdOf[versions[i + 1]][n]
    PROVE  /\ Transition(i, id, side).node # NoNode =>
                /\ Transition(i, id, side).node
                     = IF side = "newer" THEN IdOf[versions[i + 1]][n] ELSE IdOf[versions[i]][n]
                /\ Transition(i, id, side).status = "unchanged"
                     <=> BodyOf[versions[i]][n] = BodyOf[versions[i + 1]][n]
           /\ /\ IdOf[versions[i]][n] # NoNode /\ IdOf[versions[i + 1]][n] # NoNode
              /\ FileIn(versions[i + 1]) # {}
              /\ \E f \in FileIn(versions[i]) : f.kind # "plain"
              => Transition(i, id, side).node # NoNode
<1> DEFINE v == versions[i]
           w == versions[i + 1]
           out == Transition(i, id, side)
           same == \A f \in FileIn(v), g \in FileIn(w) : Sha(f) = Sha(g)
           plain == \E f \in FileIn(v) : f.kind = "plain"
           there == IF side = "newer" THEN IdOf[w][n] ELSE IdOf[v][n]
<1>1. CASE FileIn(v) = {} \/ FileIn(w) = {}
  <2>1. out.node = NoNode
    BY <1>1 DEF Transition, Outcome
  <2> QED
    BY <1>1, <2>1
<1>2. CASE FileIn(v) # {} /\ FileIn(w) # {} /\ same
  <2>1. out.node = id /\ out.status = "unchanged"
    BY <1>2 DEF Transition, Outcome
  <2>2. IdOf[v] = IdOf[w] /\ BodyOf[v] = BodyOf[w]
    BY <1>2 DEF SameTrees, FileIn
  <2> QED
    BY <2>1, <2>2
<1>3. CASE FileIn(v) # {} /\ FileIn(w) # {} /\ ~ same /\ plain
  <2>1. out.node = NoNode
    BY <1>3 DEF Transition, Outcome
  <2>2. ~ \E f \in FileIn(v) : f.kind # "plain"
    BY <1>3, FirstListed DEF FileIn
  <2> QED
    BY <2>1, <2>2
<1>4. CASE FileIn(v) # {} /\ FileIn(w) # {} /\ ~ same /\ ~ plain
  <2>1. out = NodeOutcome(v, w, id, side)
    BY <1>4 DEF Transition
  <2>2. out.node = there /\ (out.status = "unchanged" <=> BodyOf[v][n] = BodyOf[w][n])
    <3> HIDE DEF out, v, w
    <3> QED
      BY <2>1, NodeOutcomeIs DEF v, w
  <2> QED
    BY <2>2
<1> QED
  BY <1>1, <1>2, <1>3, <1>4

LEMMA NodeStays ==
    ASSUME SameTrees(req.path), NEW i, versions[i] \in Ref, versions[i + 1] \in Ref,
           NEW n \in Node, KeepsId(n), OwnId(n), NEW side \in {"newer", "older"},
           NEW id, id # NoNode,
           id = IF side = "newer" THEN IdOf[versions[i]][n] ELSE IdOf[versions[i + 1]][n],
           IdOf[versions[i]][n] # NoNode, IdOf[versions[i + 1]][n] # NoNode,
           FileIn(versions[i + 1]) # {}, NEW f \in FileIn(versions[i]), f.kind # "plain"
    PROVE  Transition(i, id, side).node # NoNode
  BY NodeTransition

-----------------------------------------------------------------------------
\* The walk: the pairs in the order they are compared, and the versions that it
\* has come to.
PairOf(k) == IF k < CurrentAt THEN CurrentAt - k ELSE k
Reached == IF told < CurrentAt THEN (CurrentAt - told) .. CurrentAt ELSE 1 .. told + 1
Walking == req.route = "history" /\ phase \in {"walk", "sent"}
PairOutcomes == [at : Nat, status : PairStatus]

WalkInv ==
    Walking =>
        /\ told \in 0 .. Len(versions) - 1 /\ DOMAIN nodes = DOMAIN versions
        /\ outcomes \in Seq(PairOutcomes) /\ Len(outcomes) = told
        /\ \A k \in 1 .. told : outcomes[k].at = PairOf(k)
        /\ phase = "sent" => told = Len(versions) - 1

\* Without a node, what is said is said of the file.
FilePairs ==
    Walking /\ req.node = NoNode =>
        /\ \A i \in DOMAIN nodes : nodes[i] = NoNode
        /\ \A k \in 1 .. told :
             outcomes[k].status = PairChange(versions[PairOf(k)], versions[PairOf(k) + 1])

\* With one, what is said is said of the node, and it is not lost on the way.
NodeNamed(n) == \A i \in DOMAIN nodes : nodes[i] # NoNode => nodes[i] = IdOf[versions[i]][n]

NodeSaid(n) ==
    \A k \in 1 .. told :
        nodes[PairOf(k)] # NoNode /\ nodes[PairOf(k) + 1] # NoNode =>
            (outcomes[k].status = "unchanged"
               <=> BodyOf[versions[PairOf(k)]][n] = BodyOf[versions[PairOf(k) + 1]][n])

NodeKept(n) == \A i \in Reached : ContinuesTo(n, i) => nodes[i] # NoNode

NodePairs == Walking => \A n \in Followed : NodeNamed(n) /\ NodeSaid(n) /\ NodeKept(n)

HistoryInv == ListInv /\ WalkInv /\ FilePairs /\ NodePairs

LEMMA CurrentIs ==
    ASSUME SortedInv, Walking
    PROVE  /\ Len(versions) \in Nat \ {0} /\ DOMAIN versions = 1 .. Len(versions)
           /\ CurrentAt \in 1 .. Len(versions) /\ versions[CurrentAt] = req.base
           /\ \A i \in DOMAIN versions : versions[i] \in Ref
           /\ \A i \in DOMAIN versions : versions[i] = req.base => i = CurrentAt
<1>1. versions \in Seq(Ref) /\ Apart(versions) /\ Members(versions) = VersionSet
  BY DEF SortedInv, Walking
<1>2. PICK c \in DOMAIN versions : versions[c] = req.base
  BY <1>1 DEF Members, VersionSet
<1>3. CurrentAt \in DOMAIN versions /\ versions[CurrentAt] = req.base
  BY <1>2 DEF CurrentAt
<1>4. Len(versions) \in Nat /\ DOMAIN versions = 1 .. Len(versions)
  BY <1>1
<1>5. \A i \in DOMAIN versions : versions[i] \in Ref
  BY <1>1
<1>6. Len(versions) # 0
  BY <1>2, <1>4
<1> QED
  BY <1>1, <1>3, <1>4, <1>5, <1>6 DEF Apart

LEMMA PairsAre ==
    ASSUME SortedInv, Walking, told \in 0 .. Len(versions) - 1
    PROVE  /\ \A k \in 1 .. Len(versions) - 1 :
                PairOf(k) \in 1 .. Len(versions) - 1 /\ PairOf(PairOf(k)) = k
           /\ \A k \in 1 .. told : PairOf(k) \in Reached /\ PairOf(k) + 1 \in Reached
           /\ Reached \subseteq DOMAIN versions
           /\ told = Len(versions) - 1 => Reached = DOMAIN versions
<1>1. Len(versions) \in Nat /\ CurrentAt \in 1 .. Len(versions) /\ told \in Nat
  BY CurrentIs
<1>2. DOMAIN versions = 1 .. Len(versions)
  BY CurrentIs
<1>3. ASSUME NEW k \in 1 .. Len(versions) - 1
      PROVE  PairOf(k) \in 1 .. Len(versions) - 1 /\ PairOf(PairOf(k)) = k
  <2>1. CASE k < CurrentAt
    BY <1>1, <2>1 DEF PairOf
  <2>2. CASE ~ (k < CurrentAt)
    BY <1>1, <2>2 DEF PairOf
  <2> QED
    BY <2>1, <2>2
<1>4. ASSUME NEW k \in 1 .. told PROVE PairOf(k) \in Reached /\ PairOf(k) + 1 \in Reached
  <2>1. CASE k < CurrentAt
    BY <1>1, <2>1 DEF PairOf, Reached
  <2>2. CASE ~ (k < CurrentAt)
    BY <1>1, <2>2 DEF PairOf, Reached
  <2> QED
    BY <2>1, <2>2
<1>5. Reached \subseteq 1 .. Len(versions)
  BY <1>1 DEF Reached
<1>6. told = Len(versions) - 1 => Reached = 1 .. Len(versions)
  BY <1>1 DEF Reached
<1> QED
  BY <1>2, <1>3, <1>4, <1>5, <1>6

LEMMA StatusKind ==
    ASSUME ListInv, NEW i, NEW id, NEW side \in {"newer", "older"}
    PROVE  Transition(i, id, side).status \in PairStatus
<1> DEFINE rows == RowOf(Rows(versions[i], versions[i + 1]), id, side)
<1>1. NodeOutcome(versions[i], versions[i + 1], id, side).status \in PairStatus
  <2>1. CASE rows = {}
    BY <2>1 DEF NodeOutcome, Outcome, PairStatus
  <2>2. CASE rows # {}
    <3>1. (CHOOSE x \in rows : TRUE) \in rows
      BY <2>2
    <3>2. \A x \in rows : x.status \in PairStatus
      BY DEF RowOf, Rows, PairStatus
    <3> QED
      BY <2>2, <3>1, <3>2 DEF NodeOutcome, Outcome
  <2> QED
    BY <2>1, <2>2
<1> QED
  BY <1>1 DEF Transition, Outcome, PairStatus

-----------------------------------------------------------------------------
\* One comparison: what is told at b is mapped to a, the next one reached.
LEMMA CompareKeeps ==
    ASSUME HistoryInv, ListInv', req' = req, Walking, phase' = phase,
           told + 1 \in 1 .. Len(versions) - 1,
           NEW i, i = PairOf(told + 1), NEW a, NEW b, NEW side,
           \/ side = "older" /\ a = i /\ b = i + 1 /\ told < CurrentAt - 1
           \/ side = "newer" /\ a = i + 1 /\ b = i /\ told >= CurrentAt - 1,
           Compare(i, Transition(i, nodes[b], side), a)
    PROVE  HistoryInv'
<1> DEFINE out == Transition(i, nodes[b], side)
<1>1. /\ outcomes' = Append(outcomes, [at |-> i, status |-> out.status])
      /\ nodes' = [nodes EXCEPT ![a] = out.node]
      /\ told' = told + 1 /\ versions' = versions
  BY DEF Compare
<1>2. /\ told \in 0 .. Len(versions) - 1 /\ DOMAIN nodes = DOMAIN versions
      /\ outcomes \in Seq(PairOutcomes) /\ Len(outcomes) = told
      /\ \A k \in 1 .. told : outcomes[k].at = PairOf(k)
  BY DEF HistoryInv, WalkInv
<1>3. /\ Len(versions) \in Nat /\ DOMAIN versions = 1 .. Len(versions)
      /\ CurrentAt \in 1 .. Len(versions)
      /\ \A j \in DOMAIN versions : versions[j] \in Ref
  BY CurrentIs DEF HistoryInv, ListInv
<1>4. CurrentAt' = CurrentAt /\ Walking'
  BY <1>1 DEF CurrentAt, Walking
<1>5. \A k : PairOf(k)' = PairOf(k)
  BY <1>4 DEF PairOf
<1>6. /\ i \in 1 .. Len(versions) - 1 /\ a \in DOMAIN versions /\ b \in DOMAIN versions
      /\ a \notin Reached /\ b \in Reached /\ Reached' = Reached \cup {a}
  <2>1. told \in Nat /\ told + 1 <= Len(versions) - 1
    BY <1>2, <1>3
  <2>2. CASE side = "older" /\ a = i /\ b = i + 1 /\ told < CurrentAt - 1
    BY <1>1, <1>3, <1>4, <2>1, <2>2 DEF PairOf, Reached
  <2>3. CASE side = "newer" /\ a = i + 1 /\ b = i /\ told >= CurrentAt - 1
    BY <1>1, <1>3, <1>4, <2>1, <2>3 DEF PairOf, Reached
  <2> QED
    BY <2>2, <2>3
<1>7. \A k \in 1 .. told : PairOf(k) \in Reached /\ PairOf(k) + 1 \in Reached
  BY <1>2, PairsAre DEF HistoryInv, ListInv
<1>8. side \in {"newer", "older"} /\ {a, b} = {i, i + 1}
  OBVIOUS
<1>9. out.status \in PairStatus
  BY <1>8, StatusKind DEF HistoryInv
<1> HIDE DEF out
<1>10. /\ outcomes' \in Seq(PairOutcomes) /\ Len(outcomes') = told'
       /\ \A k \in 1 .. told : outcomes'[k] = outcomes[k]
       /\ outcomes'[told + 1] = [at |-> i, status |-> out.status]
  <2>1. [at |-> i, status |-> out.status] \in PairOutcomes
    BY <1>3, <1>6, <1>9 DEF PairOutcomes
  <2> QED
    BY <1>1, <1>2, <2>1
<1>11. 1 .. told' = (1 .. told) \cup {told + 1}
  BY <1>1, <1>2, <1>3
<1>12. /\ DOMAIN nodes' = DOMAIN nodes /\ nodes'[a] = out.node
       /\ \A j \in DOMAIN nodes : j # a => nodes'[j] = nodes[j]
  BY <1>1, <1>2, <1>6
<1>13. \A k \in 1 .. told' : outcomes'[k].at = PairOf(k)
  BY <1>2, <1>10, <1>11
<1>14. WalkInv'
  <2>1. told' \in 0 .. Len(versions') - 1
    BY <1>1, <1>2, <1>3
  <2>2. phase' = "sent" => told' = Len(versions') - 1
    BY <1>1, <1>2, <1>3 DEF HistoryInv, WalkInv
  <2> QED
    BY <1>1, <1>2, <1>5, <1>10, <1>12, <1>13, <2>1, <2>2 DEF WalkInv
<1>15. FilePairs'
  <2> SUFFICES ASSUME req.node = NoNode PROVE FilePairs'
    BY DEF FilePairs
  <2>1. /\ \A j \in DOMAIN nodes : nodes[j] = NoNode
        /\ \A k \in 1 .. told :
             outcomes[k].status = PairChange(versions[PairOf(k)], versions[PairOf(k) + 1])
    BY DEF HistoryInv, FilePairs
  <2>2. out.node = NoNode /\ out.status = PairChange(versions[i], versions[i + 1])
    BY <1>2, <1>6, <2>1, FileTransition DEF out
  <2>3. \A j \in DOMAIN nodes' : nodes'[j] = NoNode
    BY <1>12, <2>1, <2>2
  <2>4. ASSUME NEW k \in 1 .. told'
        PROVE  outcomes'[k].status = PairChange(versions[PairOf(k)], versions[PairOf(k) + 1])
    <3>1. CASE k \in 1 .. told
      BY <1>10, <2>1, <3>1
    <3>2. CASE k = told + 1
      BY <1>10, <2>2, <3>2
    <3> QED
      BY <1>11, <3>1, <3>2
  <2>5. \A v, w : PairChange(v, w)' = PairChange(v, w)
    BY DEF PairChange, FileIn
  <2> QED
    BY <1>1, <1>5, <2>3, <2>4, <2>5 DEF FilePairs
<1>16. NodePairs'
  <2>1. Followed' = Followed
    BY DEF Followed
  <2> SUFFICES ASSUME NEW n \in Followed
               PROVE  NodeNamed(n)' /\ NodeSaid(n)' /\ NodeKept(n)'
    BY <2>1 DEF NodePairs
  <2>2. NodeNamed(n) /\ NodeSaid(n) /\ NodeKept(n)
    BY DEF HistoryInv, NodePairs
  <2>3. /\ n \in Node /\ KeepsId(n) /\ OwnId(n) /\ req.node # NoNode
        /\ SameTrees(req.path)
    BY DEF Followed, HistoryInv, ListInv, RouteInv, Legal, Walking
  <2>4. i \in DOMAIN versions /\ i + 1 \in DOMAIN versions
    BY <1>3, <1>6
  <2>5. nodes[b] # NoNode =>
          /\ out.node # NoNode =>
               /\ out.node = IdOf[versions[a]][n]
               /\ out.status = "unchanged"
                    <=> BodyOf[versions[i]][n] = BodyOf[versions[i + 1]][n]
          /\ /\ IdOf[versions[i]][n] # NoNode /\ IdOf[versions[i + 1]][n] # NoNode
             /\ FileIn(versions[i + 1]) # {}
             /\ \E f \in FileIn(versions[i]) : f.kind # "plain"
             => out.node # NoNode
    <3> SUFFICES ASSUME nodes[b] # NoNode
                 PROVE /\ out.node # NoNode =>
                            /\ out.node = IdOf[versions[a]][n]
                            /\ out.status = "unchanged"
                                 <=> BodyOf[versions[i]][n] = BodyOf[versions[i + 1]][n]
                       /\ /\ IdOf[versions[i]][n] # NoNode /\ IdOf[versions[i + 1]][n] # NoNode
                          /\ FileIn(versions[i + 1]) # {}
                          /\ \E f \in FileIn(versions[i]) : f.kind # "plain"
                          => out.node # NoNode
      OBVIOUS
    <3>1. nodes[b] = IdOf[versions[b]][n]
      BY <1>2, <1>6, <2>2 DEF NodeNamed
    <3>2. nodes[b] = IF side = "newer" THEN IdOf[versions[i]][n] ELSE IdOf[versions[i + 1]][n]
      BY <3>1
    <3>3. versions[i] \in Ref /\ versions[i + 1] \in Ref
      BY <1>3, <2>4
    <3>4. /\ out.node # NoNode =>
                /\ out.node = IF side = "newer" THEN IdOf[versions[i + 1]][n]
                              ELSE IdOf[versions[i]][n]
                /\ out.status = "unchanged"
                     <=> BodyOf[versions[i]][n] = BodyOf[versions[i + 1]][n]
          /\ /\ IdOf[versions[i]][n] # NoNode /\ IdOf[versions[i + 1]][n] # NoNode
             /\ FileIn(versions[i + 1]) # {}
             /\ \E f \in FileIn(versions[i]) : f.kind # "plain"
             => out.node # NoNode
      <4> DEFINE id == nodes[b]
      <4>1. id # NoNode
        OBVIOUS
      <4>2. id = IF side = "newer" THEN IdOf[versions[i]][n] ELSE IdOf[versions[i + 1]][n]
        BY <3>2
      <4>3. out = Transition(i, id, side)
        BY DEF out
      <4> HIDE DEF id
      <4> QED
        <5>1. side \in {"newer", "older"} /\ n \in Node /\ KeepsId(n) /\ OwnId(n)
          BY <1>8, <2>3
        <5>2. /\ out.node # NoNode =>
                   /\ out.node = IF side = "newer" THEN IdOf[versions[i + 1]][n]
                                 ELSE IdOf[versions[i]][n]
                   /\ out.status = "unchanged"
                        <=> BodyOf[versions[i]][n] = BodyOf[versions[i + 1]][n]
          BY <2>3, <3>3, <4>1, <4>2, <4>3, <5>1, NodeTransition
        <5>3. /\ IdOf[versions[i]][n] # NoNode /\ IdOf[versions[i + 1]][n] # NoNode
              /\ FileIn(versions[i + 1]) # {}
              /\ \E f \in FileIn(versions[i]) : f.kind # "plain"
              => out.node # NoNode
          <6> SUFFICES ASSUME IdOf[versions[i]][n] # NoNode, IdOf[versions[i + 1]][n] # NoNode,
                              FileIn(versions[i + 1]) # {},
                              NEW f \in FileIn(versions[i]), f.kind # "plain"
                       PROVE  out.node # NoNode
            OBVIOUS
          <6> QED
            BY <2>3, <3>3, <4>1, <4>2, <4>3, <5>1, NodeStays
        <5> QED
          BY <5>2, <5>3
    <3>5. IdOf[versions[a]][n] = IF side = "newer" THEN IdOf[versions[i + 1]][n]
                                 ELSE IdOf[versions[i]][n]
      OBVIOUS
    <3> QED
      BY <3>4, <3>5
  <2>6. nodes[b] = NoNode => out.node = NoNode
    BY FileTransition DEF out
  <2>7. nodes'[a] = out.node /\ nodes'[b] = nodes[b]
    BY <1>2, <1>6, <1>12
  <2>8. \A j \in DOMAIN nodes' : nodes'[j] # NoNode => nodes'[j] = IdOf[versions[j]][n]
    BY <1>2, <1>6, <1>12, <2>2, <2>5, <2>6 DEF NodeNamed
  <2>9. ASSUME NEW k \in 1 .. told', nodes'[PairOf(k)] # NoNode, nodes'[PairOf(k) + 1] # NoNode
        PROVE  outcomes'[k].status = "unchanged"
                 <=> BodyOf[versions[PairOf(k)]][n] = BodyOf[versions[PairOf(k) + 1]][n]
    <3>1. CASE k \in 1 .. told
      <4>1. /\ PairOf(k) \in DOMAIN nodes /\ PairOf(k) + 1 \in DOMAIN nodes
            /\ PairOf(k) # a /\ PairOf(k) + 1 # a
        BY <1>2, <1>6, <1>7, <3>1, PairsAre DEF HistoryInv, ListInv
      <4>2. nodes[PairOf(k)] # NoNode /\ nodes[PairOf(k) + 1] # NoNode
        BY <1>12, <2>9, <4>1
      <4> QED
        BY <1>10, <2>2, <3>1, <4>2 DEF NodeSaid
    <3>2. CASE k = told + 1
      BY <1>10, <2>5, <2>6, <2>7, <2>9, <3>2
    <3> QED
      BY <1>11, <3>1, <3>2
  <2>10. ASSUME NEW j \in Reached', ContinuesTo(n, j) PROVE nodes'[j] # NoNode
    <3>2. CASE j \in Reached
      <4>1. j \in DOMAIN nodes /\ j # a
        BY <1>2, <1>6, <3>2, PairsAre DEF HistoryInv, ListInv
      <4> QED
        BY <1>12, <2>2, <2>10, <3>2, <4>1 DEF NodeKept
    <3>3. CASE j = a
      <4>1. ContinuesTo(n, b) /\ \A l \in {a, b} : l \in j .. CurrentAt \/ l \in CurrentAt .. j
        <5>1. told \in Nat /\ i \in Nat /\ CurrentAt \in Nat
          BY <1>2, <1>3, <1>6
        <5>2. CASE side = "older" /\ a = i /\ b = i + 1 /\ told < CurrentAt - 1
          <6>1. i < CurrentAt
            BY <5>1, <5>2 DEF PairOf
          <6> QED
            BY <2>10, <3>3, <5>1, <5>2, <6>1 DEF ContinuesTo
        <5>3. CASE side = "newer" /\ a = i + 1 /\ b = i /\ told >= CurrentAt - 1
          <6>1. i >= CurrentAt
            BY <5>1, <5>3 DEF PairOf
          <6> QED
            BY <2>10, <3>3, <5>1, <5>3, <6>1 DEF ContinuesTo
        <5> QED
          BY <5>2, <5>3
      <4>2. nodes[b] # NoNode
        BY <1>6, <2>2, <4>1 DEF NodeKept
      <4>3. \A l \in {i, i + 1} : /\ IdOf[versions[l]][n] # NoNode
                                  /\ \E f \in FileIn(versions[l]) : f.kind # "plain"
        BY <1>6, <1>8, <2>10, <4>1 DEF ContinuesTo
      <4> QED
        BY <2>5, <2>7, <3>3, <4>2, <4>3
    <3> QED
      BY <1>6, <3>2, <3>3
  <2>11. NodeNamed(n)'
    BY <1>1, <2>8 DEF NodeNamed
  <2>12. NodeSaid(n)'
    BY <1>1, <1>5, <2>9 DEF NodeSaid
  <2>13. NodeKept(n)'
    <3> SUFFICES ASSUME NEW j \in Reached', ContinuesTo(n, j)' PROVE nodes'[j] # NoNode
      BY DEF NodeKept
    <3>1. ContinuesTo(n, j)
      BY <1>1, <1>4 DEF ContinuesTo, FileIn
    <3> QED
      BY <2>10, <3>1
  <2> QED
    BY <2>11, <2>12, <2>13
<1> QED
  BY <1>14, <1>15, <1>16 DEF HistoryInv

LEMMA SortStarts ==
    ASSUME HistoryInv, ListInv', req' = req, Sort
    PROVE  HistoryInv'
<1>1. /\ phase = "previous" /\ phase' = "walk" /\ req.route = "history"
      /\ versions' = NewestFirst(versions) /\ outcomes' = outcomes /\ told' = told
      /\ nodes' = [i \in DOMAIN versions |->
                     IF NewestFirst(versions)[i] = req.base THEN req.node ELSE NoNode]
  BY DEF Sort, HistoryInv, ListInv, RouteInv
<1>2. versions \in Seq(Ref) /\ told = 0 /\ outcomes = <<>>
  BY <1>1 DEF HistoryInv, ListInv, GatherInv, StartInv
<1>3. DOMAIN versions' = DOMAIN versions
  BY <1>1, <1>2, SortIs
<1>4. /\ versions' \in Seq(Ref) /\ Apart(versions') /\ Members(versions') = VersionSet'
      /\ req.base \in VersionSet'
  BY <1>1 DEF ListInv, SortedInv, Apart, Members, VersionSet
<1>5. PICK c \in DOMAIN versions' : versions'[c] = req.base
  BY <1>4 DEF Members
<1>6. CurrentAt' \in DOMAIN versions' /\ versions'[CurrentAt'] = req.base
  BY <1>5 DEF CurrentAt
<1>7. /\ Len(versions') \in Nat \ {0} /\ DOMAIN versions' = 1 .. Len(versions')
      /\ CurrentAt' \in Nat \ {0}
  <2>1. Len(versions') \in Nat /\ DOMAIN versions' = 1 .. Len(versions')
    BY <1>4
  <2> QED
    BY <1>5, <1>6, <2>1
<1>8. /\ DOMAIN nodes' = DOMAIN versions'
      /\ \A i \in DOMAIN nodes' : nodes'[i] = IF versions'[i] = req.base THEN req.node ELSE NoNode
  BY <1>1, <1>3
<1>9. Reached' = {CurrentAt'}
  BY <1>1, <1>2, <1>7 DEF Reached
<1>10. WalkInv'
  BY <1>1, <1>2, <1>7, <1>8 DEF WalkInv
<1>11. FilePairs'
  BY <1>1, <1>2, <1>8 DEF FilePairs
<1>12. NodePairs'
  <2>1. Followed' = Followed
    BY DEF Followed
  <2> SUFFICES ASSUME NEW n \in Followed
               PROVE  NodeNamed(n)' /\ NodeSaid(n)' /\ NodeKept(n)'
    BY <2>1 DEF NodePairs
  <2>2. req.node # NoNode /\ IdOf[req.base][n] = req.node
    BY DEF Followed
  <2>3. NodeNamed(n)'
    BY <1>8, <2>2 DEF NodeNamed
  <2>4. NodeSaid(n)'
    BY <1>1, <1>2 DEF NodeSaid
  <2>5. NodeKept(n)'
    BY <1>6, <1>8, <1>9, <2>2 DEF NodeKept
  <2> QED
    BY <2>3, <2>4, <2>5
<1> QED
  BY <1>10, <1>11, <1>12 DEF HistoryInv

LEMMA UpKeeps ==
    ASSUME HistoryInv, ListInv', req' = req, Up
    PROVE  HistoryInv'
<1> DEFINE i == CurrentAt - 1 - told
<1>1. /\ phase = "walk" /\ phase' = phase /\ told < CurrentAt - 1
      /\ Compare(i, Transition(i, nodes[i + 1], "older"), i)
  BY DEF Up, Compare, KnownOlder
<1>2. Walking
  BY <1>1 DEF HistoryInv, ListInv, RouteInv, Walking
<1>3. Len(versions) \in Nat /\ CurrentAt \in 1 .. Len(versions) /\ told \in Nat
  BY <1>2, CurrentIs DEF HistoryInv, ListInv, WalkInv
<1>4. told + 1 \in 1 .. Len(versions) - 1 /\ i = PairOf(told + 1)
  BY <1>1, <1>3 DEF PairOf
<1> HIDE DEF i
<1>5. PICK j, b : j = i /\ b = i + 1
  OBVIOUS
<1> QED
  BY <1>1, <1>2, <1>4, <1>5, CompareKeeps

LEMMA DownKeeps ==
    ASSUME HistoryInv, ListInv', req' = req, Down
    PROVE  HistoryInv'
<1> DEFINE i == told + 1
<1>1. /\ phase = "walk" /\ phase' = phase /\ told >= CurrentAt - 1 /\ told < Len(versions) - 1
      /\ Compare(i, Transition(i, nodes[i], "newer"), i + 1)
  BY DEF Down, Compare
<1>2. Walking
  BY <1>1 DEF HistoryInv, ListInv, RouteInv, Walking
<1>3. Len(versions) \in Nat /\ CurrentAt \in 1 .. Len(versions) /\ told \in Nat
  BY <1>2, CurrentIs DEF HistoryInv, ListInv, WalkInv
<1>4. told + 1 \in 1 .. Len(versions) - 1 /\ i = PairOf(told + 1)
  BY <1>1, <1>3 DEF PairOf
<1> HIDE DEF i
<1>5. PICK j, a : j = i /\ a = i + 1
  OBVIOUS
<1> QED
  BY <1>1, <1>2, <1>4, <1>5, CompareKeeps

LEMMA HistoryInvNext == HistoryInv /\ [CompareNext]_allVars => HistoryInv'
<1> SUFFICES ASSUME HistoryInv, [CompareNext]_allVars PROVE HistoryInv'
  OBVIOUS
<1>1. req' = req /\ ListInv' /\ RouteInv
  BY RequestStays, ListNext DEF HistoryInv, ListInv
<1>2. CASE ~ Walking'
  BY <1>1, <1>2 DEF HistoryInv, WalkInv, FilePairs, NodePairs
<1>3. ASSUME Walking, UNCHANGED historyVars, phase' = "sent" => told = Len(versions) - 1,
             phase' \in {"walk", "sent"}
      PROVE  HistoryInv'
  <2>1. CurrentAt' = CurrentAt /\ Reached' = Reached /\ \A k : PairOf(k)' = PairOf(k)
    BY <1>1, <1>3 DEF historyVars, CurrentAt, Reached, PairOf
  <2>2. WalkInv'
    BY <1>1, <1>3, <2>1 DEF HistoryInv, WalkInv, historyVars
  <2>3. FilePairs'
    <3>1. \A v, w : PairChange(v, w)' = PairChange(v, w)
      BY <1>1 DEF PairChange, FileIn
    <3> QED
      BY <1>1, <1>3, <2>1, <3>1 DEF HistoryInv, FilePairs, historyVars
  <2>4. NodePairs'
    <3>1. Followed' = Followed
      BY <1>1 DEF Followed
    <3> SUFFICES ASSUME NEW n \in Followed
                 PROVE  NodeNamed(n)' /\ NodeSaid(n)' /\ NodeKept(n)'
      BY <3>1 DEF NodePairs
    <3>2. NodeNamed(n) /\ NodeSaid(n) /\ NodeKept(n)
      BY <1>3 DEF HistoryInv, NodePairs
    <3>3. NodeNamed(n)' /\ NodeSaid(n)'
      BY <1>3, <2>1, <3>2 DEF NodeNamed, NodeSaid, historyVars
    <3>4. NodeKept(n)'
      <4> SUFFICES ASSUME NEW j \in Reached', ContinuesTo(n, j)' PROVE nodes'[j] # NoNode
        BY DEF NodeKept
      <4>1. ContinuesTo(n, j)
        BY <1>1, <1>3, <2>1 DEF ContinuesTo, FileIn, historyVars
      <4> QED
        BY <1>3, <2>1, <3>2, <4>1 DEF NodeKept, historyVars
    <3> QED
      BY <3>3, <3>4
  <2> QED
    BY <1>1, <2>2, <2>3, <2>4 DEF HistoryInv
<1>4. CASE Walking' /\ UNCHANGED allVars
  <2>1. Walking /\ UNCHANGED historyVars /\ phase' = phase
    BY <1>4 DEF Walking, allVars, diffVars
  <2>2. phase' = "sent" => told = Len(versions) - 1
    BY <2>1 DEF HistoryInv, WalkInv
  <2> QED
    BY <1>3, <2>1, <2>2 DEF Walking
<1>5. CASE WalkEnds
  <2>1. Walking
    BY <1>1, <1>5 DEF WalkEnds, Walking, RouteInv
  <2> QED
    BY <1>3, <1>5, <2>1 DEF WalkEnds
<1>6. CASE Walking' /\ CompareNext /\ ~ (WalkEnds \/ Sort \/ Up \/ Down)
  <2>1. req.route = "history" /\ phase' \in {"walk", "sent"}
    BY <1>1, <1>6 DEF Walking
  <2>2. phase # "collect"
    BY <1>1, <2>1 DEF RouteInv, Asking
  <2>3. ~ \E r \in Ref : Open(r)
    BY <2>2 DEF Open
  <2>4. HistoryNext
    BY <1>1, <1>6, <2>1, <2>3, HistorySteps DEF HistoryRoute
  <2>5. ~ (OpenCurrent \/ HistoryFails \/ OpenPrevious)
    BY <2>1 DEF OpenCurrent, HistoryFails, OpenPrevious, Abort
  <2>6. ~ (OpenVersions \/ ListVersions \/ \E r \in Ref : VersionAnswer(r) \/ VersionRefused(r))
    BY <2>1, <2>2 DEF OpenVersions, ListVersions, VersionAnswer, VersionRefused
  <2> QED
    BY <1>6, <2>4, <2>5, <2>6 DEF HistoryNext
<1> QED
  BY <1>1, <1>2, <1>4, <1>5, <1>6, SortStarts, UpKeeps, DownKeeps

-----------------------------------------------------------------------------
\* What the rows say, once every pair is compared.
LEMMA StatusIs ==
    ASSUME HistoryInv, Walking
    PROVE  /\ \A i \in PairsDone : \E k \in 1 .. told :
                PairOf(k) = i /\ StatusAt(i) = outcomes[k].status
           /\ PairsDone = {PairOf(k) : k \in 1 .. told}
<1>1. DOMAIN outcomes = 1 .. told /\ \A k \in 1 .. told : outcomes[k].at = PairOf(k)
  BY DEF HistoryInv, WalkInv
<1>2. PairsDone = {PairOf(k) : k \in 1 .. told}
  BY <1>1 DEF PairsDone
<1>3. ASSUME NEW i \in PairsDone
      PROVE  \E k \in 1 .. told : PairOf(k) = i /\ StatusAt(i) = outcomes[k].status
  <2> DEFINE k == CHOOSE k \in DOMAIN outcomes : outcomes[k].at = i
  <2>1. \E l \in DOMAIN outcomes : outcomes[l].at = i
    BY DEF PairsDone
  <2>2. k \in DOMAIN outcomes /\ outcomes[k].at = i
    BY <2>1
  <2>3. StatusAt(i) = outcomes[k].status
    BY DEF StatusAt
  <2> HIDE DEF k
  <2> QED
    BY <1>1, <2>2, <2>3
<1> QED
  BY <1>2, <1>3

LEMMA EachOnce ==
    ASSUME NEW s \in Seq(Ref), Apart(s)
    PROVE  Len(s) = Cardinality(Members(s))
<1> DEFINE f == [i \in 1 .. Len(s) |-> s[i]]
           R == Members(s)
<1>1. Len(s) \in Nat /\ DOMAIN s = 1 .. Len(s)
  OBVIOUS
<1>2. R = {s[i] : i \in 1 .. Len(s)}
  BY <1>1 DEF Members
<1>3. f \in Surjection(1 .. Len(s), R)
  BY <1>2 DEF Surjection
<1>4. f \in Injection(1 .. Len(s), R)
  BY <1>1, <1>2 DEF Injection, IsInjective, Apart
<1>5. IsFiniteSet(1 .. Len(s)) /\ Cardinality(1 .. Len(s)) = Len(s)
  BY <1>1, FS_Interval
<1> HIDE DEF f, R
<1>6. Cardinality(R) = Cardinality(1 .. Len(s))
  BY <1>3, <1>4, <1>5, FS_Surjection
<1> QED
  BY <1>5, <1>6 DEF R

LEMMA NextOlderIs ==
    ASSUME SortedInv, Walking, DistinctTimes, NEW i \in DOMAIN versions
    PROVE  /\ i = Len(versions) => Older(versions[i]) = {}
           /\ i # Len(versions) => /\ i + 1 \in DOMAIN versions
                                   /\ Older(versions[i]) # {}
                                   /\ NextOlder(versions[i]) = versions[i + 1]
<1>1. /\ versions \in Seq(Ref) /\ Apart(versions) /\ Descending(versions)
      /\ Members(versions) = VersionSet
  BY DEF SortedInv, Walking
<1>2. Len(versions) \in Nat /\ DOMAIN versions = 1 .. Len(versions)
  BY <1>1
<1>3. \A j \in DOMAIN versions : /\ versions[j] \in Ref /\ versions[j] \in VersionSet
                                 /\ Time[versions[j]] \in Nat
  BY <1>1, TimeAssumption DEF Members
<1>4. \A j, k \in DOMAIN versions : j < k => Time[versions[j]] > Time[versions[k]]
  BY <1>1, <1>2, <1>3 DEF Apart, Descending, DistinctTimes
<1>5. Older(versions[i]) = {versions[j] : j \in {j \in DOMAIN versions : i < j}}
  <2>1. \A j \in DOMAIN versions : Time[versions[j]] < Time[versions[i]] <=> i < j
    BY <1>2, <1>3, <1>4
  <2>2. VersionSet = {versions[j] : j \in DOMAIN versions}
    BY <1>1 DEF Members
  <2>3. \A w \in Older(versions[i]) : \E j \in DOMAIN versions : w = versions[j] /\ i < j
    BY <2>1, <2>2 DEF Older
  <2>4. \A j \in DOMAIN versions : i < j => versions[j] \in Older(versions[i])
    BY <1>3, <2>1 DEF Older
  <2> QED
    BY <2>3, <2>4
<1>6. CASE i = Len(versions)
  BY <1>2, <1>5, <1>6
<1>7. CASE i # Len(versions)
  <2>1. i + 1 \in DOMAIN versions /\ i < i + 1
    BY <1>2, <1>7
  <2>2. versions[i + 1] \in Older(versions[i])
    BY <1>5, <2>1
  <2>3. \A x \in Older(versions[i]) : Time[x] <= Time[versions[i + 1]]
    <3> SUFFICES ASSUME NEW j \in DOMAIN versions, i < j
                 PROVE  Time[versions[j]] <= Time[versions[i + 1]]
      BY <1>5
    <3>1. j = i + 1 \/ i + 1 < j
      BY <1>2
    <3> QED
      BY <1>3, <1>4, <2>1, <3>1
  <2>4. \A w \in Older(versions[i]) :
          (\A x \in Older(versions[i]) : Time[x] <= Time[w]) => w = versions[i + 1]
    <3> SUFFICES ASSUME NEW w \in Older(versions[i]),
                        \A x \in Older(versions[i]) : Time[x] <= Time[w]
                 PROVE  w = versions[i + 1]
      OBVIOUS
    <3>1. w \in VersionSet /\ Time[w] \in Nat
      BY <1>3, <1>5
    <3>2. Time[versions[i + 1]] <= Time[w] /\ Time[w] <= Time[versions[i + 1]]
      BY <2>2, <2>3
    <3> QED
      BY <1>3, <2>1, <3>1, <3>2 DEF DistinctTimes
  <2>5. NextOlder(versions[i]) = versions[i + 1]
    BY <2>2, <2>3, <2>4 DEF NextOlder
  <2> QED
    BY <1>7, <2>1, <2>2, <2>5
<1> QED
  BY <1>6, <1>7

LEMMA SameShas ==
    ASSUME NEW v \in Ref, NEW w \in Ref, FileIn(v) # {}, FileIn(w) # {}
    PROVE  (\A f \in FileIn(v), g \in FileIn(w) : Sha(f) = Sha(g))
             <=> {Sha(f) : f \in FileIn(v)} = {Sha(f) : f \in FileIn(w)}
<1>1. PICK f \in FileIn(v) : \A x \in FileIn(v) : x = f
  BY FirstListed DEF FileIn
<1>2. PICK g \in FileIn(w) : \A x \in FileIn(w) : x = g
  BY FirstListed DEF FileIn
<1>3. FileIn(v) = {f} /\ FileIn(w) = {g}
  BY <1>1, <1>2
<1>4. {Sha(x) : x \in FileIn(v)} = {Sha(f)} /\ {Sha(x) : x \in FileIn(w)} = {Sha(g)}
  BY <1>3
<1> QED
  BY <1>3, <1>4

LEMMA FileRowsAreRight == HistoryInv => FileRowsRight
<1> SUFFICES ASSUME HistoryInv, phase = "sent", req.route = "history", DistinctTimes
             PROVE  FileRowsRight
  BY DEF FileRowsRight
<1>1. Walking /\ SortedInv
  BY DEF Walking, HistoryInv, ListInv
<1>2. /\ versions \in Seq(Ref) /\ Apart(versions) /\ Descending(versions)
      /\ Members(versions) = VersionSet
  BY <1>1 DEF SortedInv, Walking
<1>3. /\ Len(versions) \in Nat \ {0} /\ DOMAIN versions = 1 .. Len(versions)
      /\ \A i \in DOMAIN versions : versions[i] \in Ref
  BY <1>1, CurrentIs
<1>4. {versions[i] : i \in DOMAIN versions} = VersionSet
  BY <1>2 DEF Members
<1>5. Len(versions) = Cardinality(VersionSet)
  BY <1>2, EachOnce
<1>6. \A i \in 1 .. Len(versions) - 1 : Time[versions[i]] > Time[versions[i + 1]]
  <2> SUFFICES ASSUME NEW i \in 1 .. Len(versions) - 1
               PROVE  Time[versions[i]] > Time[versions[i + 1]]
    OBVIOUS
  <2>1. i \in DOMAIN versions /\ i + 1 \in DOMAIN versions /\ i < i + 1
    BY <1>3
  <2>2. Time[versions[i]] \in Nat /\ Time[versions[i + 1]] \in Nat
    BY <1>3, <2>1, TimeAssumption
  <2>3. Time[versions[i]] # Time[versions[i + 1]]
    BY <1>2, <1>4, <2>1 DEF DistinctTimes, Apart
  <2> QED
    BY <1>2, <2>1, <2>2, <2>3 DEF Descending
<1>7. ASSUME req.node = NoNode, NEW i \in DOMAIN versions
      PROVE  StatusAt(i) = FileChange(versions[i])
  <2>1. told = Len(versions) - 1
    BY <1>1 DEF HistoryInv, WalkInv
  <2>2. PairsDone = {PairOf(k) : k \in 1 .. told}
    BY <1>1, StatusIs
  <2>3. \A k \in 1 .. told : PairOf(k) \in 1 .. told /\ PairOf(PairOf(k)) = k
    BY <1>1, <1>3, <2>1, PairsAre
  <2>4. PairsDone = 1 .. told
    BY <2>2, <2>3
  <2>5. CASE i = Len(versions)
    <3>1. StatusAt(i) = "initial"
      BY <1>3, <2>1, <2>4, <2>5 DEF StatusAt
    <3>2. Older(versions[i]) = {}
      BY <1>1, <2>5, NextOlderIs
    <3> QED
      BY <3>1, <3>2 DEF FileChange
  <2>6. CASE i # Len(versions)
    <3>1. i \in PairsDone /\ i + 1 \in DOMAIN versions
      BY <1>3, <2>1, <2>4, <2>6
    <3>2. PICK k \in 1 .. told : PairOf(k) = i /\ StatusAt(i) = outcomes[k].status
      BY <1>1, <3>1, StatusIs
    <3>3. StatusAt(i) = PairChange(versions[i], versions[i + 1])
      BY <1>1, <1>7, <3>2 DEF HistoryInv, FilePairs
    <3>4. Older(versions[i]) # {} /\ NextOlder(versions[i]) = versions[i + 1]
      BY <1>1, <2>6, NextOlderIs
    <3>5. versions[i] \in Ref /\ versions[i + 1] \in Ref
      BY <1>3, <3>1
    <3>6. FileIn(versions[i]) # {} /\ FileIn(versions[i + 1]) # {} =>
            ((\A f \in FileIn(versions[i]), g \in FileIn(versions[i + 1]) : Sha(f) = Sha(g))
               <=> {Sha(f) : f \in FileIn(versions[i])}
                     = {Sha(f) : f \in FileIn(versions[i + 1])})
      BY <3>5, SameShas
    <3> QED
      BY <3>3, <3>4, <3>6 DEF PairChange, FileChange
  <2> QED
    BY <2>5, <2>6
<1> QED
  BY <1>4, <1>5, <1>6, <1>7 DEF FileRowsRight

LEMMA NodeIsFollowed == HistoryInv => NodeFollowed
<1> SUFFICES ASSUME HistoryInv, Walking, NEW n \in Followed
             PROVE  /\ \A i \in DOMAIN versions :
                         nodes[i] # NoNode => nodes[i] = IdOf[versions[i]][n]
                    /\ \A i \in PairsDone :
                         nodes[i] # NoNode /\ nodes[i + 1] # NoNode =>
                           (StatusAt(i) = "unchanged"
                              <=> BodyOf[versions[i]][n] = BodyOf[versions[i + 1]][n])
                    /\ \A i \in DOMAIN versions :
                         phase = "sent" /\ ContinuesTo(n, i) => nodes[i] # NoNode
  BY DEF NodeFollowed, Walking
<1>1. NodeNamed(n) /\ NodeSaid(n) /\ NodeKept(n) /\ DOMAIN nodes = DOMAIN versions
  BY DEF HistoryInv, NodePairs, WalkInv
<1>2. ASSUME NEW i \in PairsDone, nodes[i] # NoNode, nodes[i + 1] # NoNode
      PROVE  StatusAt(i) = "unchanged" <=> BodyOf[versions[i]][n] = BodyOf[versions[i + 1]][n]
  <2>1. PICK k \in 1 .. told : PairOf(k) = i /\ StatusAt(i) = outcomes[k].status
    BY StatusIs
  <2> QED
    BY <1>1, <1>2, <2>1 DEF NodeSaid
<1>3. ASSUME NEW i \in DOMAIN versions, phase = "sent", ContinuesTo(n, i) PROVE nodes[i] # NoNode
  <2>1. told = Len(versions) - 1 /\ told \in 0 .. Len(versions) - 1
    BY <1>3 DEF HistoryInv, WalkInv
  <2>2. Reached = DOMAIN versions
    BY <2>1, PairsAre DEF HistoryInv, ListInv
  <2> QED
    BY <1>1, <1>3, <2>2 DEF NodeKept
<1> QED
  BY <1>1, <1>2, <1>3 DEF NodeNamed

-----------------------------------------------------------------------------
\* The counts of two versions.
LEMMA CountByPath ==
    ASSUME NEW r \in Ref, ListedOnce(r), NEW S \in SUBSET FileAt(FilesOf[r])
    PROVE  /\ IsFiniteSet({FilesOf[r][i].path : i \in S})
           /\ Cardinality({FilesOf[r][i].path : i \in S}) = Cardinality(S)
<1> DEFINE P == {FilesOf[r][i].path : i \in S}
           f == [i \in S |-> FilesOf[r][i].path]
<1>1. IsFiniteSet(S)
  <2>1. Len(FilesOf[r]) \in Nat /\ FileAt(FilesOf[r]) \subseteq 1 .. Len(FilesOf[r])
    BY Listed
  <2>2. IsFiniteSet(1 .. Len(FilesOf[r])) /\ S \in SUBSET (1 .. Len(FilesOf[r]))
    BY <2>1, FS_Interval
  <2> QED
    BY <2>2, FS_Subset
<1>2. f \in Surjection(S, P)
  BY DEF Surjection
<1>3. f \in Injection(S, P)
  BY DEF Injection, IsInjective, ListedOnce
<1> HIDE DEF P, f
<1>4. IsFiniteSet(P) /\ Cardinality(P) = Cardinality(S)
  BY <1>1, <1>2, <1>3, FS_Surjection
<1> QED
  BY <1>4 DEF P

LEMMA FilesFinite ==
    ASSUME NEW r \in Ref
    PROVE  IsFiniteSet(FileAt(FilesOf[r])) /\ IsFiniteSet(PathsOf(r))
<1> DEFINE A == FileAt(FilesOf[r])
           f == [i \in A |-> FilesOf[r][i].path]
<1>1. IsFiniteSet(A)
  <2>1. Len(FilesOf[r]) \in Nat /\ A \in SUBSET (1 .. Len(FilesOf[r]))
    BY Listed
  <2> HIDE DEF A
  <2>2. IsFiniteSet(1 .. Len(FilesOf[r]))
    BY <2>1, FS_Interval
  <2> QED
    BY <2>1, <2>2, FS_Subset
<1>2. f \in Surjection(A, PathsOf(r))
  BY DEF Surjection, PathsOf, FilesIn
<1> HIDE DEF A, f
<1>3. IsFiniteSet(PathsOf(r))
  BY <1>1, <1>2, FS_Surjection
<1> QED
  BY <1>1, <1>3 DEF A

LEMMA Balance ==
    ASSUME NEW A, NEW B, IsFiniteSet(A), IsFiniteSet(B)
    PROVE  Cardinality(A) + Cardinality(B \ A) = Cardinality(B) + Cardinality(A \ B)
<1>1. /\ Cardinality(A \ B) = Cardinality(A) - Cardinality(A \cap B)
      /\ Cardinality(B \ A) = Cardinality(B) - Cardinality(B \cap A)
  BY FS_Difference
<1>2. A \cap B = B \cap A
  OBVIOUS
<1>3. Cardinality(A) \in Nat /\ Cardinality(B) \in Nat
  BY FS_CardinalityType
<1>4. IsFiniteSet(A \cap B)
  BY FS_Intersection
<1>5. Cardinality(A \cap B) \in Nat
  BY <1>4, FS_CardinalityType
<1>6. /\ Cardinality(A \ B) = Cardinality(A) - Cardinality(A \cap B)
      /\ Cardinality(B \ A) = Cardinality(B) - Cardinality(A \cap B)
  BY <1>1, <1>2
<1> QED
  BY <1>3, <1>5, <1>6

LEMMA ContentIs ==
    ASSUME NEW r \in Ref, ListedOnce(r), NEW j \in FileAt(FilesOf[r])
    PROVE  ContentAt(r, FilesOf[r][j].path) = FilesOf[r][j].id
<1> DEFINE at == {i \in FileAt(FilesOf[r]) : FilesOf[r][i].path = FilesOf[r][j].path}
<1>1. at = {j}
  BY DEF ListedOnce
<1>2. j \in Nat
  BY Listed
<1>3. (CHOOSE i \in at : \A k \in at : k <= i) = j
  BY <1>1, <1>2
<1> QED
  BY <1>3 DEF ContentAt

LEMMA CountsAreRight == HistoryInv => CountsRight
<1> SUFFICES ASSUME HistoryInv, phase = "sent", req.route = "versions",
                    NEW i \in 1 .. Len(versions) - 1
             PROVE  LET new == versions[i]
                        old == versions[i + 1]
                        c   == TransitionCounts(new, old)
                    IN  /\ Time[new] >= Time[old]
                        /\ ListedOnce(new) =>
                              Cardinality(PathsOf(new)) + c.removed
                                  = Cardinality(PathsOf(old)) + c.added
                        /\ ListedOnce(new) /\ ListedOnce(old) =>
                              ((c.added + c.removed + c.changed = 0) <=>
                                 {<<f.path, f.id>> : f \in FilesIn(FilesOf[new])}
                                    = {<<f.path, f.id>> : f \in FilesIn(FilesOf[old])})
  BY DEF CountsRight
<1>1. versions \in Seq(Ref) /\ Descending(versions)
  BY DEF HistoryInv, ListInv, VersionsInv
<1>2. i \in DOMAIN versions /\ i + 1 \in DOMAIN versions /\ i < i + 1
  BY <1>1
<1>3. versions[i] \in Ref /\ versions[i + 1] \in Ref
  BY <1>1, <1>2
<1>4. Time[versions[i]] >= Time[versions[i + 1]]
  BY <1>1, <1>2 DEF Descending
<1> DEFINE new == versions[i]
           old == versions[i + 1]
           mine == FileAt(FilesOf[new])
           at(k) == FilesOf[new][k]
           fresh == {k \in mine : at(k).path \notin PathsOf(old)}
           gone == PathsOf(old) \ PathsOf(new)
           other == {k \in mine : /\ at(k).path \in PathsOf(old)
                                  /\ at(k).id # ContentAt(old, at(k).path)}
           c == TransitionCounts(new, old)
<1>5. /\ c.added = Cardinality(fresh) /\ c.removed = Cardinality(gone)
      /\ c.changed = Cardinality(other)
  BY DEF TransitionCounts
<1>6. /\ IsFiniteSet(PathsOf(new)) /\ IsFiniteSet(PathsOf(old)) /\ IsFiniteSet(mine)
      /\ fresh \in SUBSET mine /\ other \in SUBSET mine
      /\ gone = PathsOf(old) \ PathsOf(new)
  BY <1>3, FilesFinite
<1>7. ASSUME ListedOnce(new)
      PROVE  Cardinality(PathsOf(new)) + c.removed = Cardinality(PathsOf(old)) + c.added
  <2>1. {at(k).path : k \in fresh} = PathsOf(new) \ PathsOf(old)
    BY DEF PathsOf, FilesIn
  <2>2. Cardinality({at(k).path : k \in fresh}) = Cardinality(fresh)
    BY <1>3, <1>7, CountByPath
  <2>3. Cardinality(PathsOf(new) \ PathsOf(old)) = Cardinality(fresh)
    BY <2>1, <2>2
  <2> HIDE DEF fresh, gone, c, new, old
  <2> QED
    BY <1>5, <1>6, <2>3, Balance
<1>8. ASSUME ListedOnce(new), ListedOnce(old)
      PROVE  (c.added + c.removed + c.changed = 0) <=>
               {<<f.path, f.id>> : f \in FilesIn(FilesOf[new])}
                  = {<<f.path, f.id>> : f \in FilesIn(FilesOf[old])}
  <2> DEFINE its == FileAt(FilesOf[old])
             of(k) == FilesOf[old][k]
  <2>1. (c.added + c.removed + c.changed = 0) <=> fresh = {} /\ gone = {} /\ other = {}
    <3> HIDE DEF fresh, gone, other, c, mine
    <3>1. IsFiniteSet(fresh) /\ IsFiniteSet(other)
      BY <1>6, FS_Subset
    <3>2. IsFiniteSet(gone)
      BY <1>6, FS_Difference
    <3>3. Cardinality(fresh) \in Nat /\ (Cardinality(fresh) = 0 <=> fresh = {})
      BY <3>1, FS_CardinalityType, FS_EmptySet
    <3>4. Cardinality(other) \in Nat /\ (Cardinality(other) = 0 <=> other = {})
      BY <3>1, FS_CardinalityType, FS_EmptySet
    <3>5. Cardinality(gone) \in Nat /\ (Cardinality(gone) = 0 <=> gone = {})
      BY <3>2, FS_CardinalityType, FS_EmptySet
    <3> QED
      BY <1>5, <3>3, <3>4, <3>5
  <2>2. /\ PathsOf(new) = {at(k).path : k \in mine}
        /\ PathsOf(old) = {of(k).path : k \in its}
    BY DEF PathsOf, FilesIn
  <2>3. \A k \in its : ContentAt(old, of(k).path) = of(k).id
    BY <1>3, <1>8, ContentIs
  <2>4. /\ {<<f.path, f.id>> : f \in FilesIn(FilesOf[new])} = {<<at(k).path, at(k).id>> : k \in mine}
        /\ {<<f.path, f.id>> : f \in FilesIn(FilesOf[old])} = {<<of(k).path, of(k).id>> : k \in its}
    BY DEF FilesIn
  <2> HIDE DEF mine, its, at, of, new, old, c
  <2>5. ASSUME fresh = {}, gone = {}, other = {}
        PROVE  {<<at(k).path, at(k).id>> : k \in mine} = {<<of(k).path, of(k).id>> : k \in its}
    <3>1. ASSUME NEW k \in mine PROVE \E l \in its : at(k).path = of(l).path /\ at(k).id = of(l).id
      <4>1. at(k).path \in PathsOf(old) /\ at(k).id = ContentAt(old, at(k).path)
        BY <2>5
      <4>2. PICK l \in its : at(k).path = of(l).path
        BY <2>2, <4>1
      <4> QED
        BY <2>3, <4>1, <4>2
    <3>2. ASSUME NEW l \in its PROVE \E k \in mine : at(k).path = of(l).path /\ at(k).id = of(l).id
      <4>1. of(l).path \in PathsOf(new)
        BY <2>2, <2>5
      <4>2. PICK k \in mine : at(k).path = of(l).path
        BY <2>2, <4>1
      <4>3. at(k).id = ContentAt(old, at(k).path)
        BY <2>5
      <4> QED
        BY <2>3, <4>2, <4>3
    <3> QED
      BY <3>1, <3>2
  <2>6. ASSUME {<<at(k).path, at(k).id>> : k \in mine} = {<<of(k).path, of(k).id>> : k \in its}
        PROVE  fresh = {} /\ gone = {} /\ other = {}
    <3>1. ASSUME NEW k \in mine PROVE \E l \in its : at(k).path = of(l).path /\ at(k).id = of(l).id
      <4>1. <<at(k).path, at(k).id>> \in {<<of(l).path, of(l).id>> : l \in its}
        BY <2>6
      <4>2. PICK l \in its : <<at(k).path, at(k).id>> = <<of(l).path, of(l).id>>
        BY <4>1
      <4> QED
        BY <4>2
    <3>2. ASSUME NEW l \in its PROVE \E k \in mine : at(k).path = of(l).path /\ at(k).id = of(l).id
      <4>1. <<of(l).path, of(l).id>> \in {<<at(k).path, at(k).id>> : k \in mine}
        BY <2>6
      <4>2. PICK k \in mine : <<of(l).path, of(l).id>> = <<at(k).path, at(k).id>>
        BY <4>1
      <4> QED
        BY <4>2
    <3> QED
      BY <2>2, <2>3, <3>1, <3>2
  <2> QED
    BY <2>1, <2>4, <2>5, <2>6
<1> QED
  BY <1>4, <1>7, <1>8

\* The rows of a file's history, the node that is followed through it, and the
\* counts of the versions' history.
THEOREM HistoryIsRight ==
    ASSUME NEW CONSTANT requests, \A q \in requests : Legal(q)
    PROVE  CompareSpec(requests) => []HistoryRight
<1>1. CompareInit(requests) => HistoryInv
  <2> SUFFICES ASSUME CompareInit(requests) PROVE HistoryInv
    OBVIOUS
  <2>1. phase = "base"
    BY DEF CompareInit, DiffInit
  <2> QED
    BY <2>1, ListInit DEF HistoryInv, WalkInv, FilePairs, NodePairs, Walking
<1>2. HistoryInv => HistoryRight
  BY FileRowsAreRight, NodeIsFollowed, CountsAreRight DEF HistoryRight
<1> QED
  BY <1>1, <1>2, HistoryInvNext, PTL DEF CompareSpec
==============================================================================
