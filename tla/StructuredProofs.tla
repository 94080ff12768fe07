-------------------------- MODULE StructuredProofs --------------------------
(* Proofs about the structured views, for any viewers, versions and trees:   *)
(* the scratch spaces that pages share stay those of their own manifests,    *)
(* every page is served what its own request asked for, the id of a row      *)
(* leads back to the objects that the row was made of, and the objects of    *)
(* two files are paired one with one, whichever of the two is the base.      *)
EXTENDS Structured, UnityPairs, SequenceTheorems, FiniteSetTheorems, WellFoundedInduction, TLAPS

(* The invariant.  Scratch spaces are shared by reference: a page may hold   *)
(* one that the cache has given up, while another page fills a second one    *)
(* for the same manifest.  What keeps a page right is that a handle, a cache *)
(* entry and an environment all carry one manifest from the moment each is   *)
(* made, and that a side is opened only once it is known to be wanted.       *)

\* A handle is of the manifest that its page and side asked for.
VersionOf(h) == Asked(h[1], h[2])

Held == {"held", "ready"}

\* How far a side is: what is wanted, opens, and is found.
SidesInv(v) ==
    /\ \A s \in Sides : side[v][s] = "unneeded" <=> ~Wants(page[v], s)
    /\ \A s \in Sides : side[v][s] \in {"open"} \cup Held => Opens(page[v], s) /\ Finds(page[v], s)
    /\ \A s \in Sides : side[v][s] \in Held => Unity(page[v]) /\ ~Bodiless(page[v]) /\ AllOpen(v)

\* Whoever holds a scratch holds one of the manifest that it asked for.
HandlesInv(v) ==
    \A s \in Sides :
      /\ side[v][s] \in Held =>
           handle[v][s] \in Handles /\ VersionOf(handle[v][s]) = Asked(v, s)
      /\ side[v][s] = "ready" =>
           scratch[handle[v][s]].probed /\ Asked(v, s) \in UnityVersions

\* An environment, once there, is the manifest's own.
EnvInv == \A h \in Handles : scratch[h].probed => scratch[h].env = EnvFor(VersionOf(h))

\* The cache gives a manifest's scratch, has one of each, and no more than Cap.
CacheInv ==
    /\ \A i \in DOMAIN scratchCache : VersionOf(scratchCache[i].scratch) = scratchCache[i].of
    /\ \A i, j \in DOMAIN scratchCache : scratchCache[i].of = scratchCache[j].of => i = j
    /\ Len(scratchCache) <= Cap

PagesInv ==
    /\ StructuredTypeOK /\ EnvInv /\ CacheInv
    /\ \A v \in Viewers : SidesInv(v) /\ HandlesInv(v)

-----------------------------------------------------------------------------
\* It holds at the start.
LEMMA PagesInvInit ==
    ASSUME NEW batches, \A b \in batches : \A v \in Viewers : LegalPage(b[v]),
           StructuredInit(batches)
    PROVE  PagesInv
<1> USE DEF StructuredInit
<1>1. StructuredTypeOK
  BY DEF StructuredTypeOK, Progress
<1>2. EnvInv /\ CacheInv
  BY StructuredAssumption DEF EnvInv, CacheInv
<1>3. ASSUME NEW v \in Viewers PROVE SidesInv(v) /\ HandlesInv(v)
  BY DEF SidesInv, HandlesInv, Held, Sides
<1> QED
  BY <1>1, <1>2, <1>3 DEF PagesInv

\* A step that only answers a page.
LEMMA RepliesKeep ==
    ASSUME PagesInv, UNCHANGED <<page, side, handle, scratch, scratchCache>>
    PROVE  PagesInv'
<1> USE DEF PagesInv
<1>1. StructuredTypeOK'
  BY DEF StructuredTypeOK
<1>2. EnvInv' /\ CacheInv'
  BY DEF EnvInv, CacheInv, VersionOf, Asked
<1>3. ASSUME NEW v \in Viewers PROVE SidesInv(v)' /\ HandlesInv(v)'
  BY DEF SidesInv, HandlesInv, VersionOf, Asked, AllOpen
<1> QED
  BY <1>1, <1>2, <1>3

\* Opening a side takes nothing from the cache.
LEMMA OpenSideKeeps ==
    ASSUME PagesInv, NEW v \in Viewers, NEW s \in Sides, OpenSide(v, s)
    PROVE  PagesInv'
<1>1. CASE Reply(v, OpenFailure(page[v], s))
  BY <1>1, RepliesKeep DEF Reply
<1>2. CASE /\ Opens(page[v], s) /\ Finds(page[v], s)
           /\ side' = [side EXCEPT ![v][s] = "open"]
           /\ UNCHANGED <<page, handle, scratch, scratchCache, answer>>
  <2>1. StructuredTypeOK'
    BY <1>2 DEF PagesInv, StructuredTypeOK, Progress
  <2>2. EnvInv' /\ CacheInv'
    BY <1>2 DEF PagesInv, EnvInv, CacheInv, VersionOf, Asked
  <2>3. ASSUME NEW w \in Viewers PROVE SidesInv(w)' /\ HandlesInv(w)'
    <3>1. SidesInv(w) /\ HandlesInv(w) /\ side \in [Viewers -> [Sides -> Progress]]
      BY DEF PagesInv, StructuredTypeOK
    <3>2. side[v][s] = "closed"
      BY DEF OpenSide
    <3>3. HandlesInv(w)'
      BY <1>2, <3>1, <3>2 DEF HandlesInv, Held, VersionOf, Asked
    <3>4. SidesInv(w)'
      BY <1>2, <3>1, <3>2 DEF SidesInv, Held, AllOpen
    <3> QED
      BY <3>3, <3>4
  <2> QED
    BY <2>1, <2>2, <2>3 DEF PagesInv
<1> QED
  BY <1>1, <1>2 DEF OpenSide

\* What the cache is after a lookup.
LEMMA CacheAfterHold ==
    ASSUME PagesInv, NEW v \in Viewers, NEW s \in Sides, Hold(v, s)
    PROVE  /\ scratchCache' \in Seq([of : Versions, scratch : Handles])
           /\ CacheInv'
           /\ handle'[v][s] \in Handles /\ VersionOf(handle'[v][s]) = Asked(v, s)
<1> DEFINE hits == EntryOf(Asked(v, s))
           i == CHOOSE i \in hits : TRUE
           entry == IF hits = {} THEN [of |-> Asked(v, s), scratch |-> <<v, s>>] ELSE scratchCache[i]
           rest == IF hits = {} THEN scratchCache ELSE WithoutEntry(i)
           Entry == [of : Versions, scratch : Handles]
           all == Append(rest, entry)
<1>1. /\ scratchCache' = Capped(all) /\ handle' = [handle EXCEPT ![v][s] = entry.scratch]
      /\ UNCHANGED page
  BY DEF Hold
<1>2. /\ scratchCache \in Seq(Entry) /\ LegalPage(page[v])
      /\ handle \in [Viewers -> [Sides -> Handles \cup {NoHandle}]] /\ CacheInv
  BY DEF PagesInv, StructuredTypeOK
<1>3. /\ Asked(v, s) \in Versions /\ <<v, s>> \in Handles /\ VersionOf(<<v, s>>) = Asked(v, s)
      /\ Cap \in Nat \ {0}
  BY <1>2, StructuredAssumption DEF Asked, LegalPage, Handles, VersionOf
<1>4. ASSUME hits # {} PROVE i \in DOMAIN scratchCache /\ scratchCache[i].of = Asked(v, s)
  BY <1>4 DEF EntryOf
<1>5. /\ entry \in Entry /\ entry.of = Asked(v, s) /\ VersionOf(entry.scratch) = entry.of
  <2>1. CASE hits = {}
    BY <1>3, <2>1
  <2>2. CASE hits # {}
    <3>1. i \in 1..Len(scratchCache) /\ scratchCache[i].of = Asked(v, s) /\ entry = scratchCache[i]
      BY <1>2, <1>4, <2>2
    <3>2. VersionOf(scratchCache[i].scratch) = scratchCache[i].of
      BY <1>2, <3>1 DEF CacheInv
    <3> HIDE DEF i, entry
    <3>3. scratchCache[i] \in Entry
      BY <1>2, <3>1, ElementOfSeq
    <3> QED
      BY <3>1, <3>2, <3>3
  <2> QED
    BY <2>1, <2>2
<1> HIDE DEF i
\* The entries of the rest are among the old ones, and none is of this manifest.
<1>6. /\ rest \in Seq(Entry) /\ Len(rest) <= Cap
      /\ \A j \in DOMAIN rest : VersionOf(rest[j].scratch) = rest[j].of /\ rest[j].of # Asked(v, s)
      /\ \A j, k \in DOMAIN rest : rest[j].of = rest[k].of => j = k
  <2>1. CASE hits = {}
    <3>1. \A j \in DOMAIN scratchCache : scratchCache[j].of # Asked(v, s)
      BY <2>1 DEF EntryOf
    <3> QED
      BY <1>2, <2>1, <3>1 DEF CacheInv
  <2>2. CASE hits # {}
    <3>1. i \in 1..Len(scratchCache)
      BY <1>2, <1>4, <2>2
    <3> DEFINE left == SubSeq(scratchCache, 1, i - 1)
               right == SubSeq(scratchCache, i + 1, Len(scratchCache))
               n == Len(scratchCache)
    <3>0. n \in Nat /\ \A k \in 1..n : scratchCache[k] \in Entry
      BY <1>2, ElementOfSeq, LenProperties
    <3>2. /\ left \in Seq(Entry) /\ Len(left) = i - 1
          /\ \A k \in 1..(i - 1) : left[k] = scratchCache[k]
      <4>1. \A k \in 1..(i - 1) : scratchCache[k] \in Entry
        BY <3>0, <3>1
      <4>2. /\ left \in Seq(Entry) /\ Len(left) = IF 1 <= i - 1 THEN (i - 1) - 1 + 1 ELSE 0
            /\ \A k \in 1..((i - 1) - 1 + 1) : left[k] = scratchCache[1 + k - 1]
        BY <3>0, <3>1, <4>1, SubSeqProperties
      <4> HIDE DEF left
      <4> QED
        BY <3>0, <3>1, <4>2
    <3>3. /\ right \in Seq(Entry) /\ Len(right) = n - i
          /\ \A k \in 1..(n - i) : right[k] = scratchCache[i + k]
      <4>1. \A k \in (i + 1)..n : scratchCache[k] \in Entry
        BY <3>0, <3>1
      <4>2. /\ right \in Seq(Entry) /\ Len(right) = IF i + 1 <= n THEN n - (i + 1) + 1 ELSE 0
            /\ \A k \in 1..(n - (i + 1) + 1) : right[k] = scratchCache[(i + 1) + k - 1]
        BY <3>0, <3>1, <4>1, SubSeqProperties
      <4>3. \A k \in 1..(n - i) : (i + 1) + k - 1 = i + k
        BY <3>0, <3>1
      <4> HIDE DEF right
      <4> QED
        BY <3>0, <3>1, <4>2, <4>3
    <3>4. rest = left \o right
      BY <2>2 DEF WithoutEntry
    <3>5. n \in Nat /\ n <= Cap
      BY <1>2, LenProperties DEF CacheInv
    <3> HIDE DEF left, right, n, rest
    <3>6. rest \in Seq(Entry) /\ Len(rest) = n - 1 /\ DOMAIN rest = 1..(n - 1)
      BY <3>1, <3>2, <3>3, <3>4, <3>5, ConcatProperties, LenProperties DEF n
    <3> DEFINE at(k) == IF k < i THEN k ELSE k + 1
    <3>7. \A k \in 1..(n - 1) : at(k) \in 1..n /\ at(k) # i /\ rest[k] = scratchCache[at(k)]
      <4> SUFFICES ASSUME NEW k \in 1..(n - 1)
                   PROVE  at(k) \in 1..n /\ at(k) # i /\ rest[k] = scratchCache[at(k)]
        OBVIOUS
      <4>1. CASE k < i
        BY <3>1, <3>2, <3>3, <3>4, <3>5, <4>1, ConcatProperties DEF n
      <4>2. CASE ~(k < i)
        <5>1. k - (i - 1) \in 1..(n - i)
          BY <3>1, <3>5, <4>2 DEF n
        <5>2. rest[k] = right[k - (i - 1)]
          BY <3>1, <3>2, <3>3, <3>4, <3>5, <4>2, ConcatProperties DEF n
        <5>3. right[k - (i - 1)] = scratchCache[i + (k - (i - 1))]
          BY <3>3, <5>1
        <5>4. i + (k - (i - 1)) = k + 1
          BY <3>1 DEF n
        <5> QED
          BY <3>1, <3>5, <4>2, <5>2, <5>3, <5>4 DEF n
      <4> QED
        BY <4>1, <4>2
    <3>8. /\ \A k \in 1..n : VersionOf(scratchCache[k].scratch) = scratchCache[k].of
          /\ \A j, k \in 1..n : scratchCache[j].of = scratchCache[k].of => j = k
          /\ i \in 1..n
      BY <1>2, <3>1 DEF CacheInv, n
    <3>9. scratchCache[i].of = Asked(v, s)
      BY <1>4, <2>2
    <3>10. \A j, k \in 1..(n - 1) : at(j) = at(k) => j = k
      BY <3>5, <3>8
    <3> HIDE DEF at
    <3>11. \A k \in DOMAIN rest : VersionOf(rest[k].scratch) = rest[k].of /\ rest[k].of # Asked(v, s)
      <4> SUFFICES ASSUME NEW k \in 1..(n - 1)
                   PROVE  VersionOf(rest[k].scratch) = rest[k].of /\ rest[k].of # Asked(v, s)
        BY <3>6
      <4>1. at(k) \in 1..n /\ at(k) # i /\ rest[k] = scratchCache[at(k)]
        BY <3>7
      <4> QED
        BY <3>8, <3>9, <4>1
    <3>12. \A j, k \in DOMAIN rest : rest[j].of = rest[k].of => j = k
      <4> SUFFICES ASSUME NEW j \in 1..(n - 1), NEW k \in 1..(n - 1), rest[j].of = rest[k].of
                   PROVE  j = k
        BY <3>6
      <4>1. /\ at(j) \in 1..n /\ rest[j] = scratchCache[at(j)]
            /\ at(k) \in 1..n /\ rest[k] = scratchCache[at(k)]
        BY <3>7
      <4>2. at(j) = at(k)
        BY <3>8, <4>1
      <4> QED
        BY <3>10, <4>2
    <3>13. n - 1 <= Cap
      BY <1>3, <3>5
    <3> QED
      BY <3>6, <3>11, <3>12, <3>13
  <2> QED
    BY <2>1, <2>2
<1> HIDE DEF hits, entry, rest
<1>7. /\ all \in Seq(Entry) /\ Len(all) = Len(rest) + 1 /\ Len(rest) \in Nat
      /\ \A k \in 1..Len(rest) : all[k] = rest[k]
      /\ all[Len(rest) + 1] = entry
      /\ DOMAIN all = 1..(Len(rest) + 1)
  BY <1>5, <1>6, AppendProperties, LenProperties
<1>8. /\ \A k \in DOMAIN all : VersionOf(all[k].scratch) = all[k].of
      /\ \A j, k \in DOMAIN all : all[j].of = all[k].of => j = k
  <2>1. \A k \in 1..Len(rest) : VersionOf(rest[k].scratch) = rest[k].of /\ rest[k].of # entry.of
    BY <1>5, <1>6
  <2>2. \A j, k \in 1..Len(rest) : rest[j].of = rest[k].of => j = k
    BY <1>6
  <2> HIDE DEF all
  <2> QED
    BY <1>5, <1>7, <2>1, <2>2
<1> HIDE DEF all
<1>9. /\ Capped(all) \in Seq(Entry) /\ Len(Capped(all)) <= Cap
      /\ \A k \in DOMAIN Capped(all) : VersionOf(Capped(all)[k].scratch) = Capped(all)[k].of
      /\ \A j, k \in DOMAIN Capped(all) : Capped(all)[j].of = Capped(all)[k].of => j = k
  <2>1. CASE Len(all) > Cap
    <3>1. Capped(all) = Tail(all)
      BY <2>1 DEF Capped
    <3>2. all # <<>> /\ Len(all) = Len(rest) + 1 /\ Len(rest) = Cap
      BY <1>3, <1>6, <1>7, <2>1
    <3>3. /\ Tail(all) \in Seq(Entry) /\ Len(Tail(all)) = Cap
          /\ \A k \in 1..Cap : Tail(all)[k] = all[k + 1]
      BY <1>3, <1>7, <3>2, HeadTailProperties
    <3>4. DOMAIN Tail(all) = 1..Cap /\ DOMAIN all = 1..(Cap + 1)
      BY <1>7, <3>2, <3>3, LenProperties
    <3>5. \A k \in 1..Cap : k + 1 \in 1..(Cap + 1)
      BY <1>3
    <3>6. \A j, k \in 1..Cap : j + 1 = k + 1 => j = k
      BY <1>3
    <3> QED
      BY <1>3, <1>8, <3>1, <3>3, <3>4, <3>5, <3>6
  <2>2. CASE ~(Len(all) > Cap)
    BY <1>3, <1>7, <1>8, <2>2 DEF Capped
  <2> QED
    BY <2>1, <2>2
<1>10. \A h : VersionOf(h)' = VersionOf(h)
  BY <1>1 DEF VersionOf, Asked
<1>11. CacheInv'
  BY <1>1, <1>9, <1>10 DEF CacheInv
<1>12. handle'[v][s] = entry.scratch
  BY <1>1, <1>2
<1> QED
  BY <1>1, <1>5, <1>9, <1>11, <1>12

\* Finding or making the scratch space of a manifest, which may evict another.
LEMMA HoldKeeps ==
    ASSUME PagesInv, NEW v \in Viewers, NEW s \in Sides, Hold(v, s)
    PROVE  PagesInv'
<1>1. /\ UNCHANGED <<page, scratch, answer>>
      /\ side' = [side EXCEPT ![v][s] = "held"]
      /\ \E h : handle' = [handle EXCEPT ![v][s] = h]
      /\ Unity(page[v]) /\ AllOpen(v) /\ ~Bodiless(page[v]) /\ side[v][s] = "open"
  BY DEF Hold
<1>2. /\ scratchCache' \in Seq([of : Versions, scratch : Handles]) /\ CacheInv'
      /\ handle'[v][s] \in Handles /\ VersionOf(handle'[v][s]) = Asked(v, s)
  BY CacheAfterHold
<1>3. /\ side \in [Viewers -> [Sides -> Progress]]
      /\ handle \in [Viewers -> [Sides -> Handles \cup {NoHandle}]]
      /\ StructuredTypeOK /\ EnvInv
  BY DEF PagesInv, StructuredTypeOK
<1>4. \A h : VersionOf(h)' = VersionOf(h)
  BY <1>1 DEF VersionOf, Asked
<1>5. StructuredTypeOK'
  <2>1. handle' \in [Viewers -> [Sides -> Handles \cup {NoHandle}]]
    BY <1>1, <1>2, <1>3
  <2> QED
    BY <1>1, <1>2, <1>3, <2>1 DEF StructuredTypeOK, Progress
<1>6. EnvInv'
  BY <1>1, <1>3, <1>4 DEF EnvInv
<1>7. ASSUME NEW w \in Viewers PROVE SidesInv(w)' /\ HandlesInv(w)'
  <2>1. SidesInv(w) /\ HandlesInv(w)
    BY DEF PagesInv
  <2>2. SidesInv(w)'
    BY <1>1, <1>3, <2>1 DEF SidesInv, Held, AllOpen
  <2>3. ASSUME NEW r \in Sides
        PROVE  /\ side'[w][r] \in Held =>
                    handle'[w][r] \in Handles /\ VersionOf(handle'[w][r]) = Asked(w, r)
               /\ side'[w][r] = "ready" =>
                    scratch[handle'[w][r]].probed /\ Asked(w, r) \in UnityVersions
    <3>1. CASE w = v /\ r = s
      BY <1>1, <1>2, <1>3, <3>1
    <3>2. CASE ~(w = v /\ r = s)
      <4>1. side'[w][r] = side[w][r] /\ handle'[w][r] = handle[w][r]
        BY <1>1, <1>3, <3>2
      <4> QED
        BY <2>1, <4>1 DEF HandlesInv
    <3> QED
      BY <3>1, <3>2
  <2>4. HandlesInv(w)'
    BY <1>1, <1>4, <2>3 DEF HandlesInv, Asked
  <2> QED
    BY <2>2, <2>4
<1> QED
  BY <1>2, <1>5, <1>6, <1>7 DEF PagesInv

\* Probing fills the scratch space that the side holds, for all who share it.
LEMMA ProbeKeeps ==
    ASSUME PagesInv, NEW v \in Viewers, NEW s \in Sides, Probe(v, s)
    PROVE  /\ PagesInv'
           /\ UNCHANGED answer \/ (/\ Asked(v, s) \notin UnityVersions
                                   /\ answer' = [answer EXCEPT ![v] = Refused("unsupported")])
<1> DEFINE h == handle[v][s]
           env == IF scratch[h].probed THEN scratch[h].env ELSE EnvFor(Asked(v, s))
<1>1. /\ scratch' = [scratch EXCEPT ![h] = [probed |-> TRUE, env |-> env]]
      /\ UNCHANGED <<page, handle, scratchCache>> /\ side[v][s] = "held"
      /\ \/ /\ env = NoVersion /\ UNCHANGED side
            /\ answer' = [answer EXCEPT ![v] = Refused("unsupported")]
         \/ /\ env # NoVersion /\ side' = [side EXCEPT ![v][s] = "ready"]
            /\ UNCHANGED answer
  BY DEF Probe
<1>2. /\ side \in [Viewers -> [Sides -> Progress]]
      /\ scratch \in [Handles -> [probed : BOOLEAN, env : Versions \cup {NoVersion}]]
      /\ StructuredTypeOK /\ EnvInv /\ CacheInv /\ SidesInv(v) /\ HandlesInv(v)
  BY DEF PagesInv, StructuredTypeOK
<1>3. h \in Handles /\ VersionOf(h) = Asked(v, s) /\ Asked(v, s) \in Versions
  BY <1>1, <1>2 DEF HandlesInv, Held, StructuredTypeOK, LegalPage, Asked
<1>4. env = EnvFor(Asked(v, s))
  BY <1>2, <1>3 DEF EnvInv
<1> HIDE DEF env, h
<1>5. env \in Versions \cup {NoVersion} /\ (env = NoVersion <=> Asked(v, s) \notin UnityVersions)
  BY <1>3, <1>4, PagesAssumption DEF EnvFor
<1>6. \A g : VersionOf(g)' = VersionOf(g)
  BY <1>1 DEF VersionOf, Asked
<1>7. StructuredTypeOK'
  <2>1. scratch' \in [Handles -> [probed : BOOLEAN, env : Versions \cup {NoVersion}]]
    BY <1>1, <1>2, <1>3, <1>5
  <2>2. side' \in [Viewers -> [Sides -> Progress]]
    BY <1>1, <1>2 DEF Progress
  <2> QED
    BY <1>1, <1>2, <2>1, <2>2 DEF StructuredTypeOK
<1>8. EnvInv' /\ CacheInv'
  BY <1>1, <1>2, <1>3, <1>4, <1>6 DEF EnvInv, CacheInv
<1>9. ASSUME NEW w \in Viewers PROVE SidesInv(w)' /\ HandlesInv(w)'
  <2>1. SidesInv(w) /\ HandlesInv(w)
    BY DEF PagesInv
  <2>2. SidesInv(w)'
    BY <1>1, <1>2, <2>1 DEF SidesInv, Held, AllOpen
  <2>3. ASSUME NEW r \in Sides
        PROVE  /\ side'[w][r] \in Held =>
                    handle[w][r] \in Handles /\ VersionOf(handle[w][r]) = Asked(w, r)
               /\ side'[w][r] = "ready" =>
                    scratch'[handle[w][r]].probed /\ Asked(w, r) \in UnityVersions
    <3>1. CASE w = v /\ r = s
      BY <1>1, <1>2, <1>3, <1>5, <3>1 DEF h
    <3>2. CASE ~(w = v /\ r = s)
      <4>1. side'[w][r] = side[w][r]
        BY <1>1, <1>2, <3>2
      <4>2. \A g \in Handles : scratch[g].probed => scratch'[g].probed
        BY <1>1, <1>2, <1>3
      <4>3. side[w][r] = "ready" => handle[w][r] \in Handles
        BY <2>1 DEF HandlesInv, Held
      <4> QED
        BY <2>1, <4>1, <4>2, <4>3 DEF HandlesInv
    <3> QED
      BY <3>1, <3>2
  <2>4. HandlesInv(w)'
    BY <1>1, <1>6, <2>3 DEF HandlesInv, Asked
  <2> QED
    BY <2>2, <2>4
<1> QED
  BY <1>1, <1>5, <1>7, <1>8, <1>9 DEF PagesInv

\* What is read is what was asked for.
LEMMA ReadyReads ==
    ASSUME PagesInv, NEW v \in Viewers, Ready(v)
    PROVE  /\ Read(v) = page[v].versions
           /\ \A s \in Sides : Wants(page[v], s) => Opens(page[v], s) /\ Finds(page[v], s)
           /\ Unity(page[v]) => \A s \in Sides : Wants(page[v], s) => Asked(v, s) \in UnityVersions
           /\ ~(Unity(page[v]) /\ Bodiless(page[v]))
           /\ \E s \in Sides : Wants(page[v], s)
           /\ KindAsked(page[v]) # "other"
<1>1. /\ SidesInv(v) /\ HandlesInv(v) /\ EnvInv
      /\ page[v].versions \in [Sides -> Versions]
  BY DEF PagesInv, StructuredTypeOK, LegalPage
<1>2. \A s \in Sides : Wants(page[v], s) => side[v][s] = IF Unity(page[v]) THEN "ready" ELSE "open"
  BY <1>1 DEF Ready, Needed, SidesInv
<1>3. \E s \in Sides : Wants(page[v], s)
  BY <1>1 DEF Ready, Needed, SidesInv
<1>4. ASSUME NEW s \in Sides, Unity(page[v]), s \in Needed(v)
      PROVE  EnvOf(v, s) = Asked(v, s)
  <2>1. side[v][s] = "ready"
    BY <1>4 DEF Ready
  <2>2. handle[v][s] \in Handles /\ VersionOf(handle[v][s]) = Asked(v, s)
    BY <1>1, <2>1 DEF HandlesInv, Held
  <2>3. scratch[handle[v][s]].probed /\ Asked(v, s) \in UnityVersions
    BY <1>1, <2>1 DEF HandlesInv
  <2> QED
    BY <1>1, <2>2, <2>3 DEF EnvInv, EnvFor, EnvOf
<1>5. Read(v) = page[v].versions
  BY <1>1, <1>4 DEF Read, Asked
<1>6. \A s \in Sides : Wants(page[v], s) => Opens(page[v], s) /\ Finds(page[v], s)
  BY <1>1, <1>2 DEF SidesInv, Held
<1>7. Unity(page[v]) => \A s \in Sides : Wants(page[v], s) => Asked(v, s) \in UnityVersions
  BY <1>1, <1>2 DEF HandlesInv
<1>8. ~(Unity(page[v]) /\ Bodiless(page[v]))
  BY <1>1, <1>2, <1>3 DEF SidesInv, Held
<1> QED
  BY <1>3, <1>5, <1>6, <1>7, <1>8 DEF Ready

-----------------------------------------------------------------------------
(* Every step is one answer of the contract, or none.                        *)

\* An answer that is an outcome of the page's own request.
LEMMA RepliesServe ==
    ASSUME NEW v \in Viewers, NEW a, Waiting(v), Reply(v, a), a \in Outcomes(page[v])
    PROVE  Contract!Next
BY DEF Contract!Next, Contract!Serve, Waiting, Reply

\* The sides that fail to open are none of those that were opened.
LEMMA NoneFailing ==
    ASSUME NEW q, \A s \in Sides : Wants(q, s) => Opens(q, s) /\ Finds(q, s)
    PROVE  SidesFailing(q) = {}
BY DEF SidesFailing, Wanted

\* A side that does not open is answered with its own failure.
LEMMA OpenSideServes ==
    ASSUME PagesInv, NEW v \in Viewers, NEW s \in Sides, OpenSide(v, s)
    PROVE  Contract!Next \/ UNCHANGED Contract!vars
<1> DEFINE q == page[v]
<1>1. CASE Opens(q, s) /\ Finds(q, s)
  BY <1>1 DEF OpenSide, Contract!vars
<1>2. CASE ~(Opens(q, s) /\ Finds(q, s))
  <2>1. Waiting(v) /\ Reply(v, OpenFailure(q, s)) /\ side[v][s] = "closed" /\ InTurn(v, s)
    BY <1>2 DEF OpenSide
  <2>2. SidesInv(v) /\ side \in [Viewers -> [Sides -> Progress]]
    BY DEF PagesInv, StructuredTypeOK
  <2>3. s \in SidesFailing(q)
    BY <1>2, <2>1, <2>2 DEF SidesInv, SidesFailing, Wanted
  <2>4. s \in Reported(q)
    <3>1. CASE q.route = "diffNode" /\ Unity(q) /\ "base" \in SidesFailing(q)
      <4>1. side[v]["base"] \notin {"open"} \cup Held /\ side[v]["base"] # "unneeded"
        BY <2>2, <3>1 DEF SidesInv, Sides, SidesFailing, Wanted
      <4>2. side[v]["base"] = "closed"
        BY <2>2, <4>1 DEF Progress, Held, Sides
      <4>3. s = "base"
        BY <2>1, <3>1, <4>2 DEF InTurn, Sides
      <4> QED
        BY <3>1, <4>3 DEF Reported
    <3>2. CASE ~(q.route = "diffNode" /\ Unity(q) /\ "base" \in SidesFailing(q))
      BY <2>3, <3>2 DEF Reported
    <3> QED
      BY <3>1, <3>2
  <2>5. OpenFailure(q, s) \in Outcomes(q)
    BY <2>3, <2>4 DEF Outcomes
  <2> QED
    BY <2>1, <2>5, RepliesServe
<1> QED
  BY <1>1, <1>2

\* A version without Unity data is answered so.
LEMMA ProbeServes ==
    ASSUME PagesInv, NEW v \in Viewers, NEW s \in Sides, Probe(v, s)
    PROVE  Contract!Next \/ UNCHANGED Contract!vars
<1> DEFINE q == page[v]
<1>1. UNCHANGED page /\ Waiting(v) /\ side[v][s] = "held"
  BY DEF Probe
<1>2. CASE UNCHANGED answer
  BY <1>1, <1>2 DEF Contract!vars
<1>3. CASE /\ Asked(v, s) \notin UnityVersions
           /\ answer' = [answer EXCEPT ![v] = Refused("unsupported")]
  <2>1. SidesInv(v) /\ side \in [Viewers -> [Sides -> Progress]]
    BY DEF PagesInv, StructuredTypeOK
  <2>2. Unity(q) /\ ~Bodiless(q) /\ AllOpen(v)
    BY <1>1, <2>1 DEF SidesInv, Held
  <2>3. \A r \in Sides : Wants(q, r) => Opens(q, r) /\ Finds(q, r)
    BY <2>1, <2>2 DEF SidesInv, AllOpen, Progress, Held
  <2>4. SidesFailing(q) = {}
    BY <2>3, NoneFailing
  <2>5. s \in Wanted(q)
    BY <1>1, <2>1 DEF SidesInv, Wanted
  <2>6. KindAsked(q) # "other"
    BY <2>2 DEF Unity
  <2>7. Refused("unsupported") \in Outcomes(q)
    BY <1>3, <2>2, <2>4, <2>5, <2>6 DEF Outcomes, Asked
  <2> QED
    BY <1>1, <1>3, <2>7 DEF Contract!Next, Contract!Serve, Waiting
<1> QED
  BY <1>2, <1>3, ProbeKeeps

\* A page that is ready is given what its route answers of its own versions.
LEMMA ReadyServes ==
    ASSUME PagesInv, NEW v \in Viewers, Ready(v), ~Bodiless(page[v]),
           Reply(v, AnswerTo(page[v]))
    PROVE  Contract!Next
<1> DEFINE q == page[v]
<1>1. SidesFailing(q) = {}
  BY ReadyReads, NoneFailing
<1>2. Wanted(q) # {} /\ KindAsked(q) # "other"
  BY ReadyReads DEF Wanted
<1>3. ~(Unity(q) /\ \E s \in Wanted(q) : q.versions[s] \notin UnityVersions)
  BY ReadyReads DEF Wanted, Asked
<1>4. AnswerTo(q) \in Outcomes(q)
  BY <1>1, <1>2, <1>3 DEF Outcomes
<1> QED
  BY <1>4, RepliesServe DEF Ready

\* Each route's build answers from what its page asked for.
LEMMA BuildsServe ==
    ASSUME PagesInv, NEW v \in Viewers,
           \/ BuildDiff(v) \/ BuildDeepDll(v) \/ BuildTree(v)
           \/ BuildUnityBody(v) \/ BuildDllBody(v) \/ BuildNode(v)
    PROVE  Contract!Next
<1> DEFINE q == page[v]
<1>1. Ready(v)
  BY DEF BuildDiff, BuildDeepDll, BuildTree, BuildUnityBody, BuildDllBody, BuildNode
<1>2. Read(v) = q.versions /\ LegalPage(q)
  BY <1>1, ReadyReads DEF PagesInv, StructuredTypeOK
<1>3. ~Bodiless(q)
  <2>1. q.route = "node" => Unity(q)
    BY <1>2 DEF LegalPage
  <2> QED
    BY <1>1, <2>1, ReadyReads DEF Bodiless
<1>4. Reply(v, AnswerTo(q))
  <2>1. CASE BuildDiff(v)
    BY <1>2, <2>1 DEF BuildDiff, AnswerTo
  <2>2. CASE BuildDeepDll(v)
    BY <1>2, <2>2 DEF BuildDeepDll, AnswerTo
  <2>3. CASE BuildTree(v)
    BY <1>2, <2>3 DEF BuildTree, AnswerTo
  <2>4. CASE BuildUnityBody(v)
    BY <1>2, <2>4 DEF BuildUnityBody, AnswerTo
  <2>5. CASE BuildDllBody(v)
    BY <1>2, <2>5 DEF BuildDllBody, AnswerTo
  <2>6. CASE BuildNode(v)
    BY <1>2, <2>6 DEF BuildNode, AnswerTo
  <2> QED
    BY <2>1, <2>2, <2>3, <2>4, <2>5, <2>6
<1> QED
  BY <1>1, <1>3, <1>4, ReadyServes

\* The answers that need nothing read.
LEMMA RefusalsServe ==
    ASSUME PagesInv, NEW v \in Viewers, NoBody(v) \/ Unsupported(v) \/ EmptyNode(v)
    PROVE  Contract!Next
<1> DEFINE q == page[v]
<1>1. SidesInv(v) /\ side \in [Viewers -> [Sides -> Progress]] /\ LegalPage(q)
  BY DEF PagesInv, StructuredTypeOK
<1>2. ASSUME AllOpen(v) PROVE SidesFailing(q) = {}
  <2>1. \A s \in Sides : Wants(q, s) => Opens(q, s) /\ Finds(q, s)
    BY <1>1, <1>2 DEF SidesInv, AllOpen, Progress, Held
  <2> QED
    BY <2>1, NoneFailing
<1>3. CASE NoBody(v)
  <2>1. Wanted(q) = {} /\ SidesFailing(q) = {}
    BY <1>1, <1>3 DEF NoBody, Needed, SidesInv, Wanted, SidesFailing
  <2>2. Refused("bad request") \in Outcomes(q)
    BY <1>3, <2>1 DEF NoBody, Outcomes
  <2> QED
    BY <1>3, <2>2, RepliesServe DEF NoBody
<1>4. CASE Unsupported(v)
  <2>1. Refused("unsupported") \in Outcomes(q)
    BY <1>2, <1>4 DEF Unsupported, Outcomes
  <2> QED
    BY <1>4, <2>1, RepliesServe DEF Unsupported
<1>5. CASE EmptyNode(v)
  <2>1. Unity(q) /\ q.route = "node"
    BY <1>1, <1>5 DEF EmptyNode, Bodiless, LegalPage
  <2>2. KindAsked(q) # "other" /\ "base" \in Wanted(q)
    BY <2>1 DEF Unity, Wanted, Wants, Sides
  <2>3. EmptyPage \in Outcomes(q)
    BY <1>2, <1>5, <2>2 DEF EmptyNode, Outcomes
  <2> QED
    BY <1>5, <2>3, RepliesServe DEF EmptyNode
<1> QED
  BY <1>3, <1>4, <1>5

\* Every step keeps the invariant, and is one of the contract or invisible to it.
LEMMA StructuredStep ==
    ASSUME PagesInv, [StructuredNext]_structuredVars
    PROVE  PagesInv' /\ [Contract!Next]_(Contract!vars)
<1>1. CASE UNCHANGED structuredVars
  BY <1>1, RepliesKeep DEF structuredVars, Contract!vars
<1>2. CASE StructuredNext
  <2> PICK v \in Viewers :
        \/ NoBody(v) \/ Unsupported(v)
        \/ \E s \in Sides : OpenSide(v, s) \/ Hold(v, s) \/ Probe(v, s)
        \/ BuildDiff(v) \/ BuildDeepDll(v) \/ BuildTree(v)
        \/ BuildUnityBody(v) \/ BuildDllBody(v) \/ EmptyNode(v) \/ BuildNode(v)
    BY <1>2 DEF StructuredNext
  <2>1. CASE NoBody(v) \/ Unsupported(v) \/ EmptyNode(v)
    BY <2>1, RepliesKeep, RefusalsServe DEF NoBody, Unsupported, EmptyNode, Reply
  <2>2. ASSUME NEW s \in Sides, OpenSide(v, s)
        PROVE  PagesInv' /\ [Contract!Next]_(Contract!vars)
    BY <2>2, OpenSideKeeps, OpenSideServes
  <2>3. ASSUME NEW s \in Sides, Hold(v, s)
        PROVE  PagesInv' /\ [Contract!Next]_(Contract!vars)
    BY <2>3, HoldKeeps DEF Hold, Contract!vars
  <2>4. ASSUME NEW s \in Sides, Probe(v, s)
        PROVE  PagesInv' /\ [Contract!Next]_(Contract!vars)
    BY <2>4, ProbeKeeps, ProbeServes
  <2>5. CASE \/ BuildDiff(v) \/ BuildDeepDll(v) \/ BuildTree(v)
             \/ BuildUnityBody(v) \/ BuildDllBody(v) \/ BuildNode(v)
    <3>1. UNCHANGED <<page, side, handle, scratch, scratchCache>>
      BY <2>5 DEF BuildDiff, BuildDeepDll, BuildTree, BuildUnityBody, BuildDllBody, BuildNode, Reply
    <3> QED
      BY <2>5, <3>1, RepliesKeep, BuildsServe
  <2> QED
    BY <2>1, <2>2, <2>3, <2>4, <2>5
<1> QED
  BY <1>1, <1>2

-----------------------------------------------------------------------------
\* Whatever pages share, evict and probe again, every page holds the scratch
\* space of the manifest that it asked for, the cache gives a manifest its own
\* one and never two, and an environment is its manifest's (state/
\* manifest_cache.rs, routes/diff/structured/node.rs).
THEOREM ScratchesHonest ==
    ASSUME NEW CONSTANT batches, \A b \in batches : \A v \in Viewers : LegalPage(b[v])
    PROVE  StructuredSpec(batches) => []PagesInv
<1>1. StructuredInit(batches) => PagesInv
  BY PagesInvInit
<1> QED
  BY <1>1, StructuredStep, PTL DEF StructuredSpec

\* The structured routes, with their cache of scratch spaces, implement their
\* contract: a page is answered once, with an outcome of its own request, and
\* every other step is invisible to it.
THEOREM PagesAreServed ==
    ASSUME NEW CONSTANT batches, \A b \in batches : \A v \in Viewers : LegalPage(b[v])
    PROVE  StructuredSpec(batches) => PagesServed
<1>1. StructuredInit(batches) => Contract!Init
  BY DEF StructuredInit, Contract!Init
<1> QED
  BY <1>1, ScratchesHonest, StructuredStep, PTL DEF StructuredSpec, PagesServed, Contract!Spec

-----------------------------------------------------------------------------
(* The ids of rows: made by the diff, cut apart again by the node routes.    *)

\* What stands around the first token.
LEMMA SplitAtFirst ==
    ASSUME NEW S, NEW x \in Seq(S), NEW y \in Seq(S), NEW token \in S,
           \A i \in DOMAIN x : x[i] # token
    PROVE  SplitOnce(x \o <<token>> \o y, token) = [before |-> x, after |-> y]
<1> DEFINE id == x \o <<token>> \o y
           n == Len(x) + 1
           at == {i \in DOMAIN id : id[i] = token /\ \A j \in 1..(i - 1) : id[j] # token}
<1>1. x \o <<token>> \in Seq(S) /\ Len(x \o <<token>>) = n /\ Len(x) \in Nat /\ Len(y) \in Nat
  OBVIOUS
<1>2. /\ id \in Seq(S) /\ Len(id) = n + Len(y)
      /\ \A i \in 1..Len(x) : id[i] = x[i]
      /\ id[n] = token
      /\ \A i \in 1..Len(y) : id[n + i] = y[i]
  OBVIOUS
<1> HIDE DEF id
<1>3. at = {n}
  <2>1. n \in at
    <3>1. \A j \in 1..(n - 1) : j \in 1..Len(x) /\ id[j] # token
      BY <1>1, <1>2
    <3> QED
      BY <1>1, <1>2, <3>1
  <2>2. ASSUME NEW i \in at PROVE i = n
    <3>1. i \in 1..(n + Len(y)) /\ id[i] = token /\ \A j \in 1..(i - 1) : id[j] # token
      BY <1>1, <1>2
    <3>2. ~(n \in 1..(i - 1))
      BY <1>2, <3>1
    <3>3. ~(i \in 1..Len(x))
      BY <1>2, <3>1
    <3> QED
      BY <1>1, <3>1, <3>2, <3>3
  <2> QED
    BY <2>1, <2>2
<1>4. (CHOOSE i \in at : TRUE) = n
  BY <1>3
<1>5. SplitOnce(id, token) = [before |-> SubSeq(id, 1, n - 1), after |-> SubSeq(id, n + 1, Len(id))]
  BY <1>3, <1>4 DEF SplitOnce
<1>6. SubSeq(id, 1, n - 1) = x
  BY <1>1, <1>2
<1>7. SubSeq(id, n + 1, Len(id)) = y
  BY <1>1, <1>2
<1> QED
  BY <1>5, <1>6, <1>7 DEF id

\* A token in front is the head, and the rest is the tail.
LEMMA TokenInFront ==
    ASSUME NEW S, NEW a \in S, NEW x \in Seq(S)
    PROVE  /\ <<a>> \o x \in Seq(S) /\ Len(<<a>> \o x) = Len(x) + 1 /\ (<<a>> \o x)[1] = a
           /\ Head(<<a>> \o x) = a /\ Tail(<<a>> \o x) = x
           /\ \A i \in 1..Len(x) : (<<a>> \o x)[i + 1] = x[i]
<1> DEFINE u == <<a>>
           id == u \o x
<1>1. u \in Seq(S) /\ Len(u) = 1 /\ u[1] = a /\ Len(x) \in Nat
  OBVIOUS
<1> HIDE DEF u
<1>2. /\ id \in Seq(S) /\ Len(id) = 1 + Len(x)
      /\ \A i \in 1..(1 + Len(x)) : id[i] = IF i <= 1 THEN u[i] ELSE x[i - 1]
  <2>1. /\ u \o x \in Seq(S) /\ Len(u \o x) = Len(u) + Len(x)
        /\ \A i \in 1..(Len(u) + Len(x)) : (u \o x)[i] = IF i <= Len(u) THEN u[i] ELSE x[i - Len(u)]
    BY <1>1, ConcatProperties
  <2> QED
    BY <1>1, <2>1
<1> HIDE DEF id
<1>3. id[1] = a /\ \A i \in 1..Len(x) : id[i + 1] = x[i]
  BY <1>1, <1>2
<1>4. Head(id) = a
  BY <1>3
<1>5. Tail(id) = x
  <2>1. Tail(id) \in Seq(S) /\ Len(Tail(id)) = Len(x) /\ \A i \in 1..Len(x) : Tail(id)[i] = id[i + 1]
    BY <1>1, <1>2, HeadTailProperties
  <2> QED
    BY <1>3, <2>1, SeqEqual
<1> QED
  BY <1>1, <1>2, <1>3, <1>4, <1>5 DEF id, u

Token == {"obj", "mod", "archive", "base", "target", Slash, Comma} \cup Int

\* An object's id names the object, and holds nothing that ids are cut at.
LEMMA ObjectIds ==
    ASSUME NEW p \in Int
    PROVE  /\ ObjectId(p) \in Seq(Token) /\ Len(ObjectId(p)) = 2
           /\ ObjectId(p)[1] = "obj" /\ ObjectId(p)[2] = p /\ Head(ObjectId(p)) = "obj"
           /\ IsObjectId(ObjectId(p)) /\ ObjectId(p) # NoId
           /\ \A i \in DOMAIN ObjectId(p) : ObjectId(p)[i] \notin {Slash, Comma}
<1>1. /\ ObjectId(p) \in Seq(Token) /\ Len(ObjectId(p)) = 2
      /\ ObjectId(p)[1] = "obj" /\ ObjectId(p)[2] = p /\ Head(ObjectId(p)) = "obj"
      /\ ObjectId(p) # NoId /\ DOMAIN ObjectId(p) = 1..2
  BY DEF ObjectId, Token, NoId
<1>2. IsObjectId(ObjectId(p))
  BY <1>1 DEF IsObjectId
<1>3. \A i \in DOMAIN ObjectId(p) : ObjectId(p)[i] \notin {Slash, Comma}
  <2>1. "obj" \notin {Slash, Comma} /\ p \notin {Slash, Comma}
    BY TokensAssumption
  <2> QED
    BY <1>1, <2>1
<1> QED
  BY <1>1, <1>2, <1>3

\* The id of a pair of different objects.
LEMMA PairIds ==
    ASSUME NEW p \in Int, NEW q \in Int, p # q
    PROVE  /\ MatchedPairId(p, q) \in Seq(Token)
           /\ MatchedPairId(p, q)[1] = "mod" /\ Head(MatchedPairId(p, q)) = "mod"
           /\ SplitOnce(Tail(MatchedPairId(p, q)), Comma)
              = [before |-> ObjectId(p), after |-> ObjectId(q)]
           /\ Len(MatchedPairId(p, q)) > 0
<1> DEFINE x == ObjectId(p)
           y == ObjectId(q)
<1>1. /\ x \in Seq(Token) /\ y \in Seq(Token) /\ \A i \in DOMAIN x : x[i] # Comma
      /\ Comma \in Token /\ "mod" \in Token
  BY ObjectIds DEF Token
<1>2. MatchedPairId(p, q) = <<"mod">> \o x \o <<Comma>> \o y
  BY DEF MatchedPairId
<1> HIDE DEF x, y
<1>3. <<"mod">> \in Seq(Token) /\ <<Comma>> \in Seq(Token) /\ x \o <<Comma>> \in Seq(Token)
  BY <1>1
<1>4. <<"mod">> \o x \o <<Comma>> \o y = <<"mod">> \o (x \o <<Comma>> \o y)
  <2>1. <<"mod">> \o x \o <<Comma>> = <<"mod">> \o (x \o <<Comma>>)
    BY <1>1, <1>3, ConcatAssociative
  <2>2. (<<"mod">> \o (x \o <<Comma>>)) \o y = <<"mod">> \o ((x \o <<Comma>>) \o y)
    BY <1>1, <1>3, ConcatAssociative
  <2> QED
    BY <2>1, <2>2
<1>5. x \o <<Comma>> \o y \in Seq(Token)
  BY <1>1, <1>3, ConcatProperties
<1>6. SplitOnce(x \o <<Comma>> \o y, Comma) = [before |-> x, after |-> y]
  BY <1>1, SplitAtFirst
<1> DEFINE rest == x \o <<Comma>> \o y
<1> HIDE DEF rest
<1>7. /\ <<"mod">> \o rest \in Seq(Token) /\ Len(<<"mod">> \o rest) = Len(rest) + 1
      /\ (<<"mod">> \o rest)[1] = "mod"
      /\ Head(<<"mod">> \o rest) = "mod" /\ Tail(<<"mod">> \o rest) = rest /\ Len(rest) \in Nat
  BY <1>1, <1>5, TokenInFront, LenProperties DEF rest
<1>8. MatchedPairId(p, q) = <<"mod">> \o rest
  BY <1>2, <1>4 DEF rest
<1>9. SplitOnce(rest, Comma) = [before |-> ObjectId(p), after |-> ObjectId(q)]
  BY <1>6 DEF rest, x, y
<1>10. Len(<<"mod">> \o rest) > 0
  BY <1>7
<1> HIDE DEF rest
<1> QED
  BY <1>7, <1>8, <1>9, <1>10

\* The id of an object that one side alone has.
LEMMA SideIds ==
    ASSUME NEW p \in Int, NEW owner \in Sides
    PROVE  /\ OneSidedId(owner, p) \in Seq(Token) /\ OneSidedId(owner, p)[1] = owner
           /\ Head(OneSidedId(owner, p)) = owner /\ Tail(OneSidedId(owner, p)) = ObjectId(p)
<1>1. owner \in Token /\ ObjectId(p) \in Seq(Token)
  BY ObjectIds DEF Token, Sides
<1> QED
  BY <1>1, TokenInFront DEF OneSidedId

\* The ids of either side that a row compares.
LEMMA SplitPair ==
    ASSUME NEW p \in Int, NEW q \in Int
    PROVE  /\ SplitDiffId(MatchedPairId(p, q))
                = [s \in Sides |-> IF s = "base" THEN ObjectId(p) ELSE ObjectId(q)]
           /\ MatchedPairId(p, q) \in Seq(Token) /\ MatchedPairId(p, q)[1] # "archive"
           /\ MatchedPairId(p, q) # NoId
<1>1. CASE p = q
  <2>1. MatchedPairId(p, q) = ObjectId(p)
    BY <1>1 DEF MatchedPairId
  <2> QED
    BY <1>1, <2>1, ObjectIds DEF SplitDiffId, Sides
<1>2. CASE p # q
  <2> DEFINE pair == MatchedPairId(p, q)
             cut == SplitOnce(Tail(pair), Comma)
  <2>1. /\ pair \in Seq(Token) /\ pair[1] = "mod" /\ Head(pair) = "mod" /\ Len(pair) > 0
        /\ cut = [before |-> ObjectId(p), after |-> ObjectId(q)]
    BY <1>2, PairIds
  <2>2. ObjectId(q) # NoId
    BY ObjectIds
  <2>3. pair # NoId
    <3> HIDE DEF pair
    <3> QED
      BY <2>1 DEF NoId
  <2> HIDE DEF pair
  <2>4. SplitDiffId(pair) = [s \in Sides |-> IF s = "base" THEN ObjectId(p) ELSE ObjectId(q)]
    BY <2>1, <2>2 DEF SplitDiffId, Sides
  <2> QED
    BY <2>1, <2>3, <2>4 DEF pair
<1> QED
  BY <1>1, <1>2

\* The same for an object that one side alone has.
LEMMA SplitSide ==
    ASSUME NEW p \in Int, NEW owner \in Sides
    PROVE  /\ SplitDiffId(OneSidedId(owner, p))
                = [s \in Sides |-> IF s = owner THEN ObjectId(p) ELSE NoId]
           /\ OneSidedId(owner, p) \in Seq(Token) /\ OneSidedId(owner, p)[1] # "archive"
           /\ OneSidedId(owner, p) # NoId
<1>1. OneSidedId(owner, p) # NoId
  BY DEF OneSidedId, ObjectId, NoId
<1> QED
  BY <1>1, SideIds DEF SplitDiffId, Sides

\* An id behind the prefix of an entry is found again, with its entry.
LEMMA PrefixedIds ==
    ASSUME NEW Letters, Slash \notin Letters, NEW entry \in Seq(Letters), NEW id \in Seq(Token)
    PROVE  /\ IsArchiveId(ArchivePrefix(entry) \o id)
           /\ ParseArchiveId(ArchivePrefix(entry) \o id) = [entry |-> entry, inner |-> id]
<1> DEFINE S == Letters \cup Token
           rest == entry \o <<Slash>> \o id
<1>1. /\ entry \in Seq(S) /\ id \in Seq(S) /\ Slash \in S /\ "archive" \in S
      /\ \A i \in DOMAIN entry : entry[i] # Slash
  BY ElementOfSeq DEF Token
<1> HIDE DEF S
<1>2. <<"archive">> \in Seq(S) /\ <<Slash>> \in Seq(S) /\ entry \o <<Slash>> \in Seq(S)
  BY <1>1
<1>3. rest \in Seq(S) /\ Len(entry) \in Nat
  BY <1>1, <1>2, ConcatProperties, LenProperties
<1>4. ArchivePrefix(entry) \o id = <<"archive">> \o rest
  <2>1. <<"archive">> \o entry \o <<Slash>> = <<"archive">> \o (entry \o <<Slash>>)
    BY <1>1, <1>2, ConcatAssociative
  <2>2. (<<"archive">> \o (entry \o <<Slash>>)) \o id = <<"archive">> \o rest
    BY <1>1, <1>2, ConcatAssociative
  <2> QED
    BY <2>1, <2>2 DEF ArchivePrefix, ArchiveId
<1>5. SplitOnce(rest, Slash) = [before |-> entry, after |-> id]
  BY <1>1, SplitAtFirst
<1>6. Len(entry) + 1 \in 1..Len(rest) /\ rest[Len(entry) + 1] = Slash
  <2>1. Len(id) \in Nat
    BY <1>1, LenProperties
  <2>2. Len(entry \o <<Slash>>) = Len(entry) + 1 /\ (entry \o <<Slash>>)[Len(entry) + 1] = Slash
    BY <1>1
  <2> QED
    BY <1>1, <1>2, <1>3, <2>1, <2>2, ConcatProperties
<1> HIDE DEF rest
<1>7. /\ <<"archive">> \o rest \in Seq(S) /\ Len(<<"archive">> \o rest) = Len(rest) + 1
      /\ (<<"archive">> \o rest)[1] = "archive" /\ Tail(<<"archive">> \o rest) = rest
      /\ \A i \in 1..Len(rest) : (<<"archive">> \o rest)[i + 1] = rest[i]
      /\ Len(rest) \in Nat
  BY <1>1, <1>3, TokenInFront, LenProperties
<1>8. IsArchiveId(<<"archive">> \o rest)
  <2>1. DOMAIN (<<"archive">> \o rest) = 1..(Len(rest) + 1)
    BY <1>7
  <2>2. (Len(entry) + 1) + 1 \in 1..(Len(rest) + 1)
    BY <1>3, <1>6, <1>7
  <2> QED
    BY <1>6, <1>7, <2>1, <2>2 DEF IsArchiveId
<1>9. ParseArchiveId(<<"archive">> \o rest) = [entry |-> entry, inner |-> id]
  <2>1. SplitOnce(Tail(<<"archive">> \o rest), Slash) = [before |-> entry, after |-> id]
    BY <1>5, <1>7
  <2> QED
    BY <2>1 DEF ParseArchiveId
<1> QED
  BY <1>4, <1>8, <1>9

\* Per side, the ids behind the prefix of an entry.
IdsBehind(ids, entry) == [s \in Sides |-> IF ids[s] = NoId THEN NoId ELSE ArchivePrefix(entry) \o ids[s]]

\* The places an id stands for, with the entry of a bundle or with none.
LEMMA DumpsOf ==
    ASSUME NEW Letters, Slash \notin Letters, NEW entry \in Seq(Letters), NEW id \in Seq(Token),
           id[1] # "archive", id # NoId
    PROVE  /\ Dumps(id) = PlacesOf(SplitDiffId(id), NoId)
           /\ Dumps(ArchivePrefix(entry) \o id) = PlacesOf(SplitDiffId(id), entry)
           /\ DiffMatch(id) = SplitDiffId(id)
           /\ DiffMatch(ArchivePrefix(entry) \o id) = IdsBehind(SplitDiffId(id), entry)
<1>1. ~IsArchiveId(id)
  BY DEF IsArchiveId
<1> DEFINE long == ArchivePrefix(entry) \o id
<1>2. IsArchiveId(long) /\ ParseArchiveId(long) = [entry |-> entry, inner |-> id]
  BY PrefixedIds
<1> HIDE DEF long
<1> QED
  BY <1>1, <1>2 DEF Dumps, DiffMatch, PlacesOf, IdsBehind, long

\* A row's id leads back to the objects it was made of: each side's body is
\* that of the side's own object, history follows that object, and an entry's
\* prefix changes neither.  Only an entry whose name holds the separator is lost.
THEOREM IdsLeadBack ==
    ASSUME NEW p \in Int, NEW q \in Int, NEW owner \in Sides,
           NEW Letters, Slash \notin Letters, NEW entry \in Seq(Letters)
    PROVE  LET pair == MatchedPairId(p, q)
               alone == OneSidedId(owner, p)
               OfPair(e) == [s \in Sides |-> [entry |-> e, pid |-> IF s = "base" THEN p ELSE q]]
               OfOne(e) == [s \in Sides |-> IF s = owner THEN [entry |-> e, pid |-> p] ELSE NoDump]
           IN /\ Dumps(pair) = OfPair(NoId) /\ Dumps(ArchivePrefix(entry) \o pair) = OfPair(entry)
              /\ Dumps(alone) = OfOne(NoId) /\ Dumps(ArchivePrefix(entry) \o alone) = OfOne(entry)
              /\ DiffMatch(pair) = [s \in Sides |-> ObjectId(IF s = "base" THEN p ELSE q)]
              /\ DiffMatch(alone) = [s \in Sides |-> IF s = owner THEN ObjectId(p) ELSE NoId]
              /\ DiffMatch(ArchivePrefix(entry) \o pair)
                   = [s \in Sides |-> ArchivePrefix(entry) \o ObjectId(IF s = "base" THEN p ELSE q)]
              /\ DiffMatch(ArchivePrefix(entry) \o alone)
                   = [s \in Sides |-> IF s = owner THEN ArchivePrefix(entry) \o ObjectId(p) ELSE NoId]
<1> DEFINE pair == MatchedPairId(p, q)
           alone == OneSidedId(owner, p)
           two == [s \in Sides |-> IF s = "base" THEN ObjectId(p) ELSE ObjectId(q)]
           one == [s \in Sides |-> IF s = owner THEN ObjectId(p) ELSE NoId]
<1>1. SplitDiffId(pair) = two /\ pair \in Seq(Token) /\ pair[1] # "archive" /\ pair # NoId
  BY SplitPair
<1>2. SplitDiffId(alone) = one /\ alone \in Seq(Token) /\ alone[1] # "archive" /\ alone # NoId
  BY SplitSide
<1> HIDE DEF pair, alone
<1>3. /\ Dumps(pair) = PlacesOf(two, NoId) /\ Dumps(ArchivePrefix(entry) \o pair) = PlacesOf(two, entry)
      /\ DiffMatch(pair) = two /\ DiffMatch(ArchivePrefix(entry) \o pair) = IdsBehind(two, entry)
  BY <1>1, DumpsOf
<1>4. /\ Dumps(alone) = PlacesOf(one, NoId) 
      /\ Dumps(ArchivePrefix(entry) \o alone) = PlacesOf(one, entry)
      /\ DiffMatch(alone) = one /\ DiffMatch(ArchivePrefix(entry) \o alone) = IdsBehind(one, entry)
  BY <1>2, DumpsOf
<1>5. /\ IsObjectId(ObjectId(p)) /\ IsObjectId(ObjectId(q)) /\ ~IsObjectId(NoId)
      /\ ObjectId(p)[2] = p /\ ObjectId(q)[2] = q /\ ObjectId(p) # NoId /\ ObjectId(q) # NoId
  BY ObjectIds DEF IsObjectId, NoId
<1>6. \A e : /\ PlacesOf(two, e) = [s \in Sides |-> [entry |-> e, pid |-> IF s = "base" THEN p ELSE q]]
             /\ PlacesOf(one, e)
                   = [s \in Sides |-> IF s = owner THEN [entry |-> e, pid |-> p] ELSE NoDump]
  BY <1>5 DEF PlacesOf
<1>7. /\ two = [s \in Sides |-> ObjectId(IF s = "base" THEN p ELSE q)]
      /\ IdsBehind(two, entry)
           = [s \in Sides |-> ArchivePrefix(entry) \o ObjectId(IF s = "base" THEN p ELSE q)]
      /\ IdsBehind(one, entry)
           = [s \in Sides |-> IF s = owner THEN ArchivePrefix(entry) \o ObjectId(p) ELSE NoId]
  BY <1>5 DEF IdsBehind
<1> HIDE DEF two, one
<1> QED
  BY <1>3, <1>4, <1>6, <1>7 DEF pair, alone, one

-----------------------------------------------------------------------------
(* The pairing of siblings by name (hierarchy.rs, pair_by_key).              *)

\* A set of numbers that is not empty has a least one.
LEMMA Least ==
    ASSUME NEW S, S \subseteq Nat, S # {}
    PROVE  \E i \in S : \A j \in S : i <= j
<1>1. PICK i \in S : \A j \in S : ~ (<<j, i>> \in OpToRel(<, Nat))
  BY WFMin, NatLessThanWellFounded, Zenon
<1>2. \A j \in S : i <= j
  <2> TAKE j \in S
  <2>1. ~ (j < i)
    BY <1>1, Zenon DEF OpToRel
  <2> QED
    BY <2>1
<1> QED
  BY <1>2

\* One more base, and the matches so far.
NextMatch(m, key, targets) ==
    LET free == FreeTarget(m, key, targets)
    IN Append(m, IF free = {} THEN 0 ELSE Min(free))

\* The matches after each base.
Steps(g, n, bases, targets) ==
    g = [i \in 0..n |-> IF i = 0 THEN <<>> ELSE NextMatch(g[i - 1], bases[i], targets)]

\* The matches of the first n bases exist, for every n.
LEMMA StepsExist ==
    ASSUME NEW bases, NEW targets
    PROVE  \A n \in Nat : \E g : Steps(g, n, bases, targets)
<1> DEFINE Bad == {n \in Nat : ~ \E g : Steps(g, n, bases, targets)}
<1>1. SUFFICES ASSUME Bad # {} PROVE FALSE
  OBVIOUS
<1>2. PICK n \in Bad : \A j \in Bad : n <= j
  BY <1>1, Least
<1>3. CASE n = 0
  <2>1. Steps([i \in 0..0 |-> <<>>], 0, bases, targets)
    BY DEF Steps
  <2> QED
    BY <1>2, <1>3, <2>1
<1>4. CASE n # 0
  <2>1. n \in Nat /\ n - 1 \in Nat /\ n - 1 \notin Bad
    BY <1>2, <1>4
  <2>2. PICK g : Steps(g, n - 1, bases, targets)
    BY <2>1
  <2> DEFINE h == [i \in 0..n |-> IF i = n THEN NextMatch(g[n - 1], bases[n], targets) ELSE g[i]]
  <2>3. ASSUME NEW i \in 0..n
        PROVE  h[i] = IF i = 0 THEN <<>> ELSE NextMatch(h[i - 1], bases[i], targets)
    <3>1. CASE i = n
      <4>1. h[i] = NextMatch(g[n - 1], bases[n], targets) /\ h[n - 1] = g[n - 1]
        BY <2>1, <3>1
      <4> QED
        BY <1>4, <3>1, <4>1
    <3>2. CASE i # n
      <4>1. i \in 0..(n - 1) /\ h[i] = g[i] /\ (i # 0 => h[i - 1] = g[i - 1])
        BY <2>1, <3>2
      <4>2. g[i] = IF i = 0 THEN <<>> ELSE NextMatch(g[i - 1], bases[i], targets)
        BY <2>2, <4>1 DEF Steps
      <4> QED
        BY <4>1, <4>2
    <3> QED
      BY <3>1, <3>2
  <2>4. Steps(h, n, bases, targets)
    <3>1. h = [i \in 0..n |-> h[i]]
      OBVIOUS
    <3> HIDE DEF h
    <3> QED
      BY <2>3, <3>1 DEF Steps
  <2> QED
    BY <1>2, <2>4
<1> QED
  BY <1>3, <1>4

\* Pairing by key ends with the matches after its last base.
LEMMA PairByKeySteps ==
    ASSUME NEW S, NEW bases \in Seq(S), NEW targets
    PROVE  \E g : Steps(g, Len(bases), bases, targets) /\ PairByKey(bases, targets) = g[Len(bases)]
<1>1. \E g : Steps(g, Len(bases), bases, targets)
  BY StepsExist
<1> QED
  BY <1>1, Zenon DEF PairByKey, Steps, NextMatch

\* What holds of the matches of the first n bases.
Matched(m, n, bases, targets) ==
    /\ m \in Seq(0..Len(targets)) /\ Len(m) = n
    /\ \A i \in 1..n : m[i] # 0 => targets[m[i]] = bases[i]
    /\ \A i, j \in 1..n : m[i] = m[j] /\ m[i] # 0 => i = j
    /\ \A i \in 1..n, k \in 1..Len(targets) :
         targets[k] = bases[i] /\ (m[i] = 0 \/ k < m[i]) => \E j \in 1..(i - 1) : m[j] = k

\* One more base: a match is the first free target of its key.
LEMMA NextMatched ==
    ASSUME NEW S, NEW bases \in Seq(S), NEW targets \in Seq(S), NEW n \in Nat, n < Len(bases),
           NEW m, Matched(m, n, bases, targets)
    PROVE  Matched(NextMatch(m, bases[n + 1], targets), n + 1, bases, targets)
<1> DEFINE key == bases[n + 1]
           free == FreeTarget(m, key, targets)
           x == IF free = {} THEN 0 ELSE Min(free)
           w == Append(m, x)
<1>1. NextMatch(m, key, targets) = w
  BY DEF NextMatch
<1>2. /\ Len(targets) \in Nat /\ DOMAIN targets = 1..Len(targets)
      /\ m \in Seq(0..Len(targets)) /\ Len(m) = n /\ DOMAIN m = 1..n
  BY DEF Matched
<1>3. free = {k \in 1..Len(targets) : targets[k] = key /\ \A j \in 1..n : m[j] # k}
  BY <1>2 DEF FreeTarget
<1>4. /\ x \in 0..Len(targets)
      /\ x # 0 => x \in free /\ \A k \in free : x <= k
      /\ x = 0 => free = {}
  <2>1. CASE free = {}
    BY <2>1, <1>2
  <2>2. CASE free # {}
    <3>1. \E i \in free : \A j \in free : i <= j
      <4>1. free \subseteq Nat
        BY <1>3
      <4> HIDE DEF free
      <4> QED
        BY <2>2, <4>1, Least
    <3>2. Min(free) \in free /\ \A j \in free : Min(free) <= j
      <4> HIDE DEF free
      <4> QED
        BY <3>1 DEF Min
    <3>3. x = Min(free)
      BY <2>2
    <3>4. free \subseteq 1..Len(targets)
      BY <1>3
    <3>5. x \in free /\ \A j \in free : x <= j
      BY <3>2, <3>3
    <3> HIDE DEF x, free
    <3>6. x \in 1..Len(targets) /\ x # 0
      BY <1>2, <3>4, <3>5
    <3> QED
      BY <3>5, <3>6
  <2> QED
    BY <2>1, <2>2
<1> HIDE DEF x, free
<1>5. /\ w \in Seq(0..Len(targets)) /\ Len(w) = n + 1 /\ w[n + 1] = x
      /\ \A i \in 1..n : w[i] = m[i]
  BY <1>2, <1>4, AppendProperties
<1> HIDE DEF w
<1>6. \A i \in 1..(n + 1) : i \in 1..n \/ i = n + 1
  OBVIOUS
<1>7. \A i \in 1..(n + 1) : w[i] # 0 => targets[w[i]] = bases[i]
  BY <1>3, <1>4, <1>5, <1>6 DEF Matched
<1>8. ASSUME NEW i \in 1..(n + 1), NEW j \in 1..(n + 1), w[i] = w[j], w[i] # 0
      PROVE  i = j
  <2>1. x # 0 => \A l \in 1..n : m[l] # x
    BY <1>3, <1>4
  <2>2. CASE i \in 1..n /\ j \in 1..n
    BY <1>5, <1>8, <2>2 DEF Matched
  <2>3. CASE i \in 1..n /\ j = n + 1
    BY <1>5, <1>8, <2>1, <2>3
  <2>4. CASE i = n + 1 /\ j \in 1..n
    BY <1>5, <1>8, <2>1, <2>4
  <2> QED
    BY <1>6, <2>2, <2>3, <2>4
<1>9. ASSUME NEW i \in 1..(n + 1), NEW k \in 1..Len(targets), targets[k] = bases[i], w[i] = 0 \/ k < w[i]
      PROVE  \E j \in 1..(i - 1) : w[j] = k
  <2>1. CASE i \in 1..n
    <3>1. PICK j \in 1..(i - 1) : m[j] = k
      BY <1>5, <1>9, <2>1 DEF Matched
    <3>2. w[j] = k
      BY <1>5, <2>1, <3>1
    <3> QED
      BY <3>2
  <2>2. CASE i = n + 1
    <3>1. k \notin free
      <4>1. x = 0 \/ k < x
        BY <1>5, <1>9, <2>2
      <4>2. x = 0 => k \notin free
        BY <1>4
      <4>3. x # 0 /\ k \in free => x <= k /\ x \in Nat
        BY <1>2, <1>4
      <4> QED
        BY <4>1, <4>2, <4>3
    <3>2. PICK j \in 1..n : m[j] = k
      BY <1>3, <1>9, <2>2, <3>1
    <3>3. j \in 1..(i - 1) /\ w[j] = k
      BY <1>5, <2>2, <3>2
    <3> QED
      BY <3>3
  <2> QED
    BY <1>6, <2>1, <2>2
<1> QED
  BY <1>1, <1>5, <1>7, <1>8, <1>9 DEF Matched

\* The matches of all the bases are as those of each one more.
LEMMA AllMatched ==
    ASSUME NEW S, NEW bases \in Seq(S), NEW targets \in Seq(S)
    PROVE  Matched(PairByKey(bases, targets), Len(bases), bases, targets)
<1>1. PICK g : Steps(g, Len(bases), bases, targets) /\ PairByKey(bases, targets) = g[Len(bases)]
  BY PairByKeySteps
<1>2. Len(bases) \in Nat
  OBVIOUS
<1> DEFINE Bad == {n \in 0..Len(bases) : ~ Matched(g[n], n, bases, targets)}
<1>3. SUFFICES ASSUME Bad # {} PROVE FALSE
  BY <1>1, <1>2
<1>4. PICK n \in Bad : \A j \in Bad : n <= j
  <2>1. Bad \subseteq Nat
    BY <1>2
  <2> HIDE DEF Bad
  <2> QED
    BY <1>3, <2>1, Least
<1>5. n \in 0..Len(bases) /\ g[n] = IF n = 0 THEN <<>> ELSE NextMatch(g[n - 1], bases[n], targets)
  BY <1>1 DEF Steps
<1>6. CASE n = 0
  <2>1. Matched(<<>>, 0, bases, targets)
    BY DEF Matched
  <2> QED
    BY <1>4, <1>5, <1>6, <2>1
<1>7. CASE n # 0
  <2>1. n - 1 \in Nat /\ n - 1 < Len(bases) /\ n - 1 \notin Bad /\ (n - 1) + 1 = n
    BY <1>2, <1>4, <1>5, <1>7
  <2>2. Matched(g[n - 1], n - 1, bases, targets)
    BY <1>2, <1>5, <2>1
  <2>3. Matched(NextMatch(g[n - 1], bases[(n - 1) + 1], targets), (n - 1) + 1, bases, targets)
    BY <2>1, <2>2, NextMatched
  <2> QED
    BY <1>4, <1>5, <1>7, <2>1, <2>3
<1> QED
  BY <1>6, <1>7

\* Siblings of one name are paired in their order.
LEMMA InOrder ==
    ASSUME NEW S, NEW bases \in Seq(S), NEW targets \in Seq(S), NEW m,
           Matched(m, Len(bases), bases, targets),
           NEW i \in 1..Len(bases), NEW j \in 1..Len(bases), i < j, bases[i] = bases[j], m[j] # 0
    PROVE  m[i] # 0 /\ m[i] < m[j]
<1>1. m[i] \in 0..Len(targets) /\ m[j] \in 1..Len(targets) 
      /\ targets[m[j]] = bases[i] /\ Len(targets) \in Nat
  BY DEF Matched
<1>2. ASSUME m[i] = 0 \/ m[j] <= m[i] PROVE FALSE
  <2>1. m[j] # m[i]
    <3>1. i # j
      OBVIOUS
    <3> QED
      BY <1>1, <3>1 DEF Matched
  <2>2. PICK l \in 1..(i - 1) : m[l] = m[j]
    <3>1. m[i] = 0 \/ m[j] < m[i]
      BY <1>1, <1>2, <2>1
    <3> QED
      BY <1>1, <3>1 DEF Matched
  <2>3. l \in 1..Len(bases) /\ l # j
    OBVIOUS
  <2> QED
    BY <1>1, <2>2, <2>3 DEF Matched
<1> QED
  BY <1>1, <1>2

\* A match is one from either side.
LEMMA MatchedBack ==
    ASSUME NEW S, NEW bases \in Seq(S), NEW targets \in Seq(S), NEW m, NEW w,
           Matched(m, Len(bases), bases, targets), Matched(w, Len(targets), targets, bases)
    PROVE  \A i \in 1..Len(bases) : m[i] # 0 => w[m[i]] = i
<1> DEFINE Bad == {i \in 1..Len(bases) : m[i] # 0 /\ w[m[i]] # i}
<1>1. SUFFICES ASSUME Bad # {} PROVE FALSE
  OBVIOUS
<1>2. Len(bases) \in Nat /\ Len(targets) \in Nat
  OBVIOUS
<1>3. PICK i \in Bad : \A j \in Bad : i <= j
  <2>1. Bad \subseteq Nat
    BY <1>2
  <2> HIDE DEF Bad
  <2> QED
    BY <1>1, <2>1, Least
<1> DEFINE k == m[i]
<1>4. i \in 1..Len(bases) /\ k \in 1..Len(targets) /\ w[k] # i /\ targets[k] = bases[i]
  BY <1>2 DEF Matched
<1>5. ASSUME NEW j \in 1..Len(bases), j < i, m[j] # 0 PROVE w[m[j]] = j
  BY <1>2, <1>3, <1>5
<1> HIDE DEF Bad
<1>6. w[k] \in 0..Len(bases)
  BY <1>2, <1>4 DEF Matched
<1>7. CASE w[k] = 0 \/ i < w[k]
  <2>1. PICK j \in 1..(k - 1) : w[j] = i
    BY <1>4, <1>7 DEF Matched
  <2>2. j \in 1..Len(targets) /\ targets[j] = bases[i] /\ j < m[i]
    <3>1. j \in 1..Len(targets) /\ j < k /\ w[j] # 0
      BY <1>2, <1>4, <2>1
    <3>2. bases[w[j]] = targets[j]
      BY <1>1, <3>1 DEF Matched
    <3> QED
      BY <2>1, <3>1, <3>2
  <2>3. PICK l \in 1..(i - 1) : m[l] = j
    BY <1>4, <2>2 DEF Matched
  <2>4. l \in 1..Len(bases) /\ l < i
    BY <1>2, <1>4, <2>3
  <2>5. w[j] = l
    BY <1>5, <2>2, <2>3, <2>4
  <2> QED
    BY <2>1, <2>4, <2>5
<1>8. CASE w[k] # 0 /\ ~ (i < w[k])
  <2>1. w[k] \in 1..Len(bases) /\ w[k] < i /\ bases[w[k]] = bases[i]
    BY <1>2, <1>4, <1>6, <1>8 DEF Matched
  <2>2. m[w[k]] # 0 /\ m[w[k]] < k
    BY <1>4, <2>1, InOrder
  <2>3. w[m[w[k]]] = w[k]
    BY <1>5, <2>1, <2>2
  <2>4. m[w[k]] \in 1..Len(targets)
    BY <1>2, <2>1, <2>2 DEF Matched
  <2> QED
    BY <1>2, <1>4, <1>8, <2>2, <2>3, <2>4 DEF Matched
<1> QED
  BY <1>7, <1>8

\* Siblings are paired by name, the first with the first: no target is taken
\* twice, none is passed over while a base of its name goes without, and the
\* other way round the pairs are the same.
THEOREM SiblingsPaired ==
    ASSUME NEW S, NEW bases \in Seq(S), NEW targets \in Seq(S)
    PROVE  LET m == PairByKey(bases, targets)
               w == PairByKey(targets, bases)
           IN /\ m \in Seq(0..Len(targets)) /\ Len(m) = Len(bases)
              /\ \A i \in 1..Len(bases) : m[i] # 0 => targets[m[i]] = bases[i]
              /\ \A i, j \in 1..Len(bases) :
                   bases[i] = bases[j] /\ i < j /\ m[j] # 0 => m[i] # 0 /\ m[i] < m[j]
              /\ \A i \in 1..Len(bases), k \in 1..Len(targets) :
                   /\ m[i] = k <=> w[k] = i
                   /\ m[i] = 0 /\ w[k] = 0 => bases[i] # targets[k]
<1> DEFINE m == PairByKey(bases, targets)
           w == PairByKey(targets, bases)
<1>1. Matched(m, Len(bases), bases, targets) /\ Matched(w, Len(targets), targets, bases)
  BY AllMatched
<1> HIDE DEF m, w
<1>2. Len(bases) \in Nat /\ Len(targets) \in Nat
  OBVIOUS
<1>3. \A i, j \in 1..Len(bases) : bases[i] = bases[j] /\ i < j /\ m[j] # 0 => m[i] # 0 /\ m[i] < m[j]
  BY <1>1, InOrder
<1>4. \A i \in 1..Len(bases) : m[i] # 0 => w[m[i]] = i
  BY <1>1, MatchedBack
<1>5. \A k \in 1..Len(targets) : w[k] # 0 => m[w[k]] = k
  BY <1>1, MatchedBack
<1>6. ASSUME NEW i \in 1..Len(bases), NEW k \in 1..Len(targets)
      PROVE  /\ m[i] = k <=> w[k] = i
             /\ m[i] = 0 /\ w[k] = 0 => bases[i] # targets[k]
  <2>1. (m[i] = k) <=> (w[k] = i)
    BY <1>2, <1>4, <1>5
  <2>2. ASSUME m[i] = 0, w[k] = 0, bases[i] = targets[k] PROVE FALSE
    <3>1. PICK j \in 1..(i - 1) : m[j] = k
      BY <1>1, <2>2 DEF Matched
    <3>2. j \in 1..Len(bases) /\ j # 0
      BY <1>2
    <3> QED
      BY <1>4, <2>2, <3>1, <3>2
  <2> QED
    BY <2>1, <2>2
<1>7. /\ m \in Seq(0..Len(targets)) /\ Len(m) = Len(bases)
      /\ \A i \in 1..Len(bases) : m[i] # 0 => targets[m[i]] = bases[i]
  BY <1>1 DEF Matched
<1> QED
  BY <1>3, <1>6, <1>7 DEF m, w

-----------------------------------------------------------------------------
(* The rows of objects that are paired by a key: components and the loose.   *)

\* A finite set of numbers that is not empty has a greatest one.
LEMMA Greatest ==
    ASSUME NEW S, S \subseteq Int, S # {}, IsFiniteSet(S)
    PROVE  Max(S) \in S /\ \A x \in S : Max(S) >= x
<1>1. PICK n \in Nat : ExistsBijection(1..n, S)
  BY FS_NatBijection
<1>2. PICK g \in Bijection(1..n, S) : TRUE
  BY <1>1 DEF ExistsBijection
<1>3. (\A i \in 1..n : g[i] \in S) /\ (\A x \in S : \E i \in 1..n : g[i] = x)
  BY <1>2 DEF Bijection, Injection, Surjection
<1> DEFINE Over1(i, x) == \A j \in 1..i : g[j] <= x
           Bad == {i \in 1..n : ~ \E x \in S : Over1(i, x)}
<1>4. Bad = {}
  <2>1. SUFFICES ASSUME Bad # {} PROVE FALSE
    OBVIOUS
  <2>2. PICK i \in Bad : \A j \in Bad : i <= j
    <3>1. Bad \subseteq Nat
      OBVIOUS
    <3> HIDE DEF Bad
    <3> QED
      BY <2>1, <3>1, Least
  <2>3. i \in 1..n /\ g[i] \in S /\ g[i] \in Int
    BY <1>3, <2>2
  <2>4. CASE i = 1
    <3>1. Over1(i, g[i])
      BY <2>3, <2>4
    <3> QED
      BY <2>2, <2>3, <3>1
  <2>5. CASE i # 1
    <3>1. i - 1 \in 1..n /\ i - 1 \notin Bad
      <4>1. i - 1 \in 1..n /\ ~ (i <= i - 1)
        BY <1>1, <2>3, <2>5
      <4> HIDE DEF Bad
      <4> QED
        BY <2>2, <4>1
    <3>2. PICK x \in S : Over1(i - 1, x)
      BY <3>1
    <3>3. x \in Int /\ \A j \in 1..i : j \in 1..(i - 1) \/ j = i
      BY <2>3
    <3>4. CASE g[i] <= x
      <4>1. Over1(i, x)
        BY <3>2, <3>3, <3>4
      <4> QED
        BY <2>2, <4>1
    <3>5. CASE x <= g[i]
      <4>1. \A j \in 1..i : g[j] \in Int
        <5> TAKE j \in 1..i
        <5>1. j \in 1..n
          BY <1>1, <2>3
        <5>2. g[j] \in S
          BY <1>3, <5>1
        <5> QED
          BY <5>2
      <4>2. Over1(i, g[i])
        BY <2>3, <3>2, <3>3, <3>5, <4>1
      <4> QED
        BY <2>2, <2>3, <4>2
    <3> QED
      BY <2>3, <3>3, <3>4, <3>5
  <2> QED
    BY <2>4, <2>5
<1>5. n \in 1..n
  <2>1. PICK i \in 1..n : TRUE
    BY <1>3
  <2> QED
    BY <1>1, <2>1
<1>6. PICK x \in S : Over1(n, x)
  BY <1>4, <1>5
<1>7. \A y \in S : x >= y
  BY <1>3, <1>6
<1> QED
  BY <1>7 DEF Max

\* Keys lead to objects, different ones to different objects.
Keyed(f) ==
    /\ \A k \in DOMAIN f : f[k] \in Int
    /\ \A k, l \in DOMAIN f : f[k] = f[l] => k = l

\* The row of a key, and the object that it shows on a side.
RowAt(b, bs, t, ts, k) ==
    IF k \in DOMAIN bs /\ k \in DOMAIN ts THEN PairRow(b, bs[k], t, ts[k])
    ELSE IF k \in DOMAIN bs THEN SideRow("base", bs[k]) ELSE SideRow("target", ts[k])

ObjectAt(f, k) == IF k \in DOMAIN f THEN [entry |-> NoId, pid |-> f[k]] ELSE NoDump

\* A page finds the objects of a row outside an archive by the id of the row.
LEMMA DumpsOfIds ==
    ASSUME NEW p \in Int, NEW q \in Int, NEW s \in Sides
    PROVE  /\ Dumps(MatchedPairId(p, q))
                = [r \in Sides |-> [entry |-> NoId, pid |-> IF r = "base" THEN p ELSE q]]
           /\ Dumps(OneSidedId(s, p))
                = [r \in Sides |-> IF r = s THEN [entry |-> NoId, pid |-> p] ELSE NoDump]
<1>1. <<>> \in Seq({}) /\ Slash \notin {}
  OBVIOUS
<1> QED
  BY <1>1, IdsLeadBack

\* The rows by key are one for each key that a side leads from.
LEMMA RowsAt ==
    ASSUME NEW b, NEW bs, NEW t, NEW ts
    PROVE  RowsByKey(b, bs, t, ts) = {RowAt(b, bs, t, ts, k) : k \in DOMAIN bs \cup DOMAIN ts}
BY DEF RowsByKey, RowAt

\* A row shows the object that its key leads to, on each side.
LEMMA ShownAt ==
    ASSUME NEW b, NEW bs, NEW t, NEW ts, Keyed(bs), Keyed(ts), NEW k \in DOMAIN bs \cup DOMAIN ts
    PROVE  LET r == RowAt(b, bs, t, ts, k)
           IN /\ Dumps(r.id) = [s \in Sides |-> ObjectAt(IF s = "base" THEN bs ELSE ts, k)]
              /\ r.kind = "component" /\ r.children = {}
              /\ r.status = IF k \notin DOMAIN ts THEN "added"
                            ELSE IF k \notin DOMAIN bs THEN "removed"
                            ELSE MatchedStatus(b, bs[k], t, ts[k])
<1>1. CASE k \in DOMAIN bs /\ k \in DOMAIN ts
  <2>1. RowAt(b, bs, t, ts, k) = PairRow(b, bs[k], t, ts[k])
    BY <1>1 DEF RowAt
  <2>2. Dumps(MatchedPairId(bs[k], ts[k]))
          = [s \in Sides |-> [entry |-> NoId, pid |-> IF s = "base" THEN bs[k] ELSE ts[k]]]
    BY <1>1, DumpsOfIds DEF Keyed, Sides
  <2>3. [s \in Sides |-> [entry |-> NoId, pid |-> IF s = "base" THEN bs[k] ELSE ts[k]]]
          = [s \in Sides |-> ObjectAt(IF s = "base" THEN bs ELSE ts, k)]
    BY <1>1 DEF ObjectAt
  <2> QED
    BY <1>1, <2>1, <2>2, <2>3 DEF PairRow, Row
<1>2. CASE k \in DOMAIN bs /\ k \notin DOMAIN ts
  <2>1. RowAt(b, bs, t, ts, k) = SideRow("base", bs[k])
    BY <1>2 DEF RowAt
  <2>2. Dumps(OneSidedId("base", bs[k]))
          = [s \in Sides |-> IF s = "base" THEN [entry |-> NoId, pid |-> bs[k]] ELSE NoDump]
    BY <1>2, DumpsOfIds DEF Keyed, Sides
  <2>3. [s \in Sides |-> IF s = "base" THEN [entry |-> NoId, pid |-> bs[k]] ELSE NoDump]
          = [s \in Sides |-> ObjectAt(IF s = "base" THEN bs ELSE ts, k)]
    BY <1>2 DEF ObjectAt
  <2> QED
    BY <1>2, <2>1, <2>2, <2>3 DEF SideRow, SideStatus, Row
<1>3. CASE k \notin DOMAIN bs
  <2>1. RowAt(b, bs, t, ts, k) = SideRow("target", ts[k]) /\ k \in DOMAIN ts
    BY <1>3 DEF RowAt
  <2>2. Dumps(OneSidedId("target", ts[k]))
          = [s \in Sides |-> IF s = "target" THEN [entry |-> NoId, pid |-> ts[k]] ELSE NoDump]
    BY <2>1, DumpsOfIds DEF Keyed, Sides
  <2>3. [s \in Sides |-> IF s = "target" THEN [entry |-> NoId, pid |-> ts[k]] ELSE NoDump]
          = [s \in Sides |-> ObjectAt(IF s = "base" THEN bs ELSE ts, k)]
    BY <1>3, <2>1 DEF ObjectAt, Sides
  <2> QED
    BY <1>3, <2>1, <2>2, <2>3 DEF SideRow, SideStatus, Row
<1> QED
  BY <1>1, <1>2, <1>3

\* No object is in two rows.
LEMMA RowsApart ==
    ASSUME NEW b, NEW bs, NEW t, NEW ts, Keyed(bs), Keyed(ts)
    PROVE  Apart(RowsByKey(b, bs, t, ts))
<1> SUFFICES ASSUME NEW s \in Sides, NEW k \in DOMAIN bs \cup DOMAIN ts, 
                        NEW l \in DOMAIN bs \cup DOMAIN ts,
                    Dumps(RowAt(b, bs, t, ts, k).id)[s] = Dumps(RowAt(b, bs, t, ts, l).id)[s],
                    Dumps(RowAt(b, bs, t, ts, k).id)[s] # NoDump
             PROVE  k = l
  BY RowsAt DEF Apart
<1> DEFINE f == IF s = "base" THEN bs ELSE ts
<1>1. ObjectAt(f, k) = ObjectAt(f, l) /\ ObjectAt(f, k) # NoDump
  <2>1. Dumps(RowAt(b, bs, t, ts, k).id) = [r \in Sides |-> ObjectAt(IF r = "base" THEN bs ELSE ts, k)]
    BY ShownAt
  <2>2. Dumps(RowAt(b, bs, t, ts, l).id) = [r \in Sides |-> ObjectAt(IF r = "base" THEN bs ELSE ts, l)]
    BY ShownAt
  <2> QED
    BY <2>1, <2>2
<1>2. Keyed(f)
  OBVIOUS
<1> HIDE DEF f
<1> QED
  BY <1>1, <1>2 DEF ObjectAt, Keyed

\* Two objects differ or not whichever is compared with the other.
LEMMA StatusMirrored ==
    ASSUME NEW b, NEW p, NEW t, NEW q, \A x, y : CloseFloats(x, y) <=> CloseFloats(y, x)
    PROVE  MatchedStatus(t, q, b, p) = MatchedStatus(b, p, t, q)
<1>1. RefsEqual(t, t[q].ref, b, b[p].ref) <=> RefsEqual(b, b[p].ref, t, t[q].ref)
  BY DEF RefsEqual
<1>2. BytesEqual(b[p], t[q]) <=> BytesEqual(t[q], b[p])
  BY DEF BytesEqual
<1>3. EqualModuloPPtr(t, q, b, p) <=> EqualModuloPPtr(b, p, t, q)
  BY <1>1 DEF EqualModuloPPtr
<1> QED
  BY <1>2, <1>3 DEF MatchedStatus

\* The rows the other way round are the same rows, seen from the other side.
LEMMA RowsMirrored ==
    ASSUME NEW b, NEW bs, NEW t, NEW ts, Keyed(bs), Keyed(ts),
           \A x, y : CloseFloats(x, y) <=> CloseFloats(y, x)
    PROVE  Shown(RowsByKey(t, ts, b, bs)) = FromOtherSide(RowsByKey(b, bs, t, ts))
<1> DEFINE keys == DOMAIN bs \cup DOMAIN ts
           there(k) == RowAt(b, bs, t, ts, k)
           back(k) == RowAt(t, ts, b, bs, k)
<1>1. ASSUME NEW k \in keys
      PROVE  <<Dumps(back(k).id), back(k).kind, back(k).status>>
               = <<[s \in Sides |-> Dumps(there(k).id)[Other(s)]],
                    there(k).kind, Swapped(there(k).status)>>
  <2>1. /\ Dumps(back(k).id) = [s \in Sides |-> ObjectAt(IF s = "base" THEN ts ELSE bs, k)]
        /\ back(k).kind = "component"
        /\ back(k).status = IF k \notin DOMAIN bs THEN "added"
                            ELSE IF k \notin DOMAIN ts THEN "removed"
                            ELSE MatchedStatus(t, ts[k], b, bs[k])
    BY ShownAt
  <2>2. /\ Dumps(there(k).id) = [s \in Sides |-> ObjectAt(IF s = "base" THEN bs ELSE ts, k)]
        /\ there(k).kind = "component"
        /\ there(k).status = IF k \notin DOMAIN ts THEN "added"
                             ELSE IF k \notin DOMAIN bs THEN "removed"
                             ELSE MatchedStatus(b, bs[k], t, ts[k])
    BY ShownAt
  <2> HIDE DEF there, back
  <2>3. Dumps(back(k).id) = [s \in Sides |-> Dumps(there(k).id)[Other(s)]]
    BY <2>1, <2>2 DEF Other, Sides
  <2>4. back(k).status = Swapped(there(k).status)
    <3>1. MatchedStatus(t, ts[k], b, bs[k]) = MatchedStatus(b, bs[k], t, ts[k])
      BY StatusMirrored
    <3>2. MatchedStatus(b, bs[k], t, ts[k]) \in {"unchanged", "changed"}
      BY DEF MatchedStatus
    <3> QED
      BY <2>1, <2>2, <3>1, <3>2 DEF Swapped
  <2> QED
    BY <2>1, <2>2, <2>3, <2>4
<1>2. /\ RowsByKey(t, ts, b, bs) = {back(k) : k \in keys}
      /\ RowsByKey(b, bs, t, ts) = {there(k) : k \in keys}
  BY RowsAt
<1> HIDE DEF there, back, keys
<1>3. /\ Shown(RowsByKey(t, ts, b, bs))
           = {<<Dumps(back(k).id), back(k).kind, back(k).status>> : k \in keys}
      /\ FromOtherSide(RowsByKey(b, bs, t, ts))
           = {<<[s \in Sides |-> Dumps(there(k).id)[Other(s)]],
                there(k).kind, Swapped(there(k).status)>> : k \in keys}
  BY <1>2 DEF Shown, FromOtherSide
<1> DEFINE seen(k) == <<Dumps(back(k).id), back(k).kind, back(k).status>>
           turned(k) ==
             <<[s \in Sides |-> Dumps(there(k).id)[Other(s)]], there(k).kind, Swapped(there(k).status)>>
<1>4. \A k \in keys : seen(k) = turned(k)
  BY <1>1
<1>5. /\ Shown(RowsByKey(t, ts, b, bs)) = {seen(k) : k \in keys}
      /\ FromOtherSide(RowsByKey(b, bs, t, ts)) = {turned(k) : k \in keys}
  BY <1>3
<1> HIDE DEF seen, turned
<1> QED
  BY <1>4, <1>5

\* Objects compared with themselves leave no row.
LEMMA RowsOfSame ==
    ASSUME NEW f, NEW fs, Keyed(fs)
    PROVE  PruneUnchanged(RowsByKey(f, fs, f, fs)) = {}
<1>1. \A k \in DOMAIN fs : MatchedStatus(f, fs[k], f, fs[k]) = "unchanged"
  BY DEF MatchedStatus, BytesEqual
<1>2. \A k \in DOMAIN fs : RowAt(f, fs, f, fs, k).status = "unchanged" 
      /\ RowAt(f, fs, f, fs, k).children = {}
  <2> TAKE k \in DOMAIN fs
  <2>1. ASSUME NEW gs, Keyed(gs), k \in DOMAIN gs
        PROVE  /\ RowAt(f, fs, f, gs, k).children = {}
               /\ RowAt(f, fs, f, gs, k).status = MatchedStatus(f, fs[k], f, gs[k])
    <3>1. k \in DOMAIN fs \cup DOMAIN gs
      OBVIOUS
    <3>2. LET r == RowAt(f, fs, f, gs, k)
          IN /\ Dumps(r.id) = [s \in Sides |-> ObjectAt(IF s = "base" THEN fs ELSE gs, k)]
             /\ r.kind = "component" /\ r.children = {}
             /\ r.status = IF k \notin DOMAIN gs THEN "added"
                           ELSE IF k \notin DOMAIN fs THEN "removed"
                           ELSE MatchedStatus(f, fs[k], f, gs[k])
      BY <2>1, <3>1, ShownAt
    <3> QED
      BY <2>1, <3>2
  <2> QED
    BY <1>1, <2>1
<1> QED
  BY <1>2, RowsAt DEF PruneUnchanged, Kept

\* Every object that has a key has a row.
LEMMA EachShown ==
    ASSUME NEW b, NEW bs, NEW t, NEW ts, Keyed(bs), Keyed(ts)
    PROVE  /\ \A k \in DOMAIN bs : \E r \in RowsByKey(b, bs, t, ts) :
                Dumps(r.id)["base"] = [entry |-> NoId, pid |-> bs[k]]
           /\ \A k \in DOMAIN ts : \E r \in RowsByKey(b, bs, t, ts) :
                Dumps(r.id)["target"] = [entry |-> NoId, pid |-> ts[k]]
<1>1. ASSUME NEW k \in DOMAIN bs \cup DOMAIN ts
      PROVE  /\ RowAt(b, bs, t, ts, k) \in RowsByKey(b, bs, t, ts)
             /\ Dumps(RowAt(b, bs, t, ts, k).id)["base"] = ObjectAt(bs, k)
             /\ Dumps(RowAt(b, bs, t, ts, k).id)["target"] = ObjectAt(ts, k)
  <2>1. Dumps(RowAt(b, bs, t, ts, k).id) = [s \in Sides |-> ObjectAt(IF s = "base" THEN bs ELSE ts, k)]
    BY ShownAt
  <2>2. RowAt(b, bs, t, ts, k) \in RowsByKey(b, bs, t, ts)
    BY RowsAt
  <2> QED
    BY <2>1, <2>2 DEF Sides
<1> QED
  BY <1>1 DEF ObjectAt

\* A game object that lists each of its components once.
ListsOnce(f, p) ==
    /\ Components(f, p) \in Seq(Int)
    /\ \A i, j \in DOMAIN Components(f, p) : Components(f, p)[i] = Components(f, p)[j] => i = j

\* Of two components with one label, the later has the higher number.
LEMMA KeysApart ==
    ASSUME NEW f, NEW p, ListsOnce(f, p), NEW i \in Listed(f, p), NEW j \in Listed(f, p),
           ComponentKey(f, p, i) = ComponentKey(f, p, j)
    PROVE  i = j
<1> DEFINE label(k) == f[Components(f, p)[k]].label
           Before(k) == {l \in Listed(f, p) : l < k /\ label(l) = label(k)}
<1>1. \A k : ComponentKey(f, p, k) = <<label(k), Cardinality(Before(k))>>
  BY DEF ComponentKey
<1>2. label(i) = label(j) /\ Cardinality(Before(i)) = Cardinality(Before(j))
  BY <1>1
<1> HIDE DEF label
<1>3. \A k \in Listed(f, p) : k \in Nat /\ k > 0
  BY DEF Listed, ListsOnce
<1>4. ASSUME NEW k \in Listed(f, p), NEW m \in Listed(f, p), k < m, label(k) = label(m)
      PROVE  Cardinality(Before(k)) < Cardinality(Before(m))
  <2>1. m \in Nat /\ k \in Nat /\ IsFiniteSet(1..(m - 1))
    BY <1>3, FS_Interval
  <2>2. Before(m) \subseteq 1..(m - 1)
    <3>1. ASSUME NEW l \in Before(m) PROVE l \in 1..(m - 1)
      <4>1. l \in Listed(f, p) /\ l < m
        OBVIOUS
      <4>2. l \in Nat /\ l > 0
        BY <1>3, <4>1
      <4> QED
        BY <2>1, <4>1, <4>2
    <3> HIDE DEF Before
    <3> QED
      BY <3>1
  <2>3. Before(k) \subseteq Before(m) /\ k \in Before(m) /\ k \notin Before(k)
    <3>1. ASSUME NEW l \in Before(k) PROVE l \in Before(m)
      <4>1. l \in Listed(f, p) /\ l < k /\ label(l) = label(k)
        OBVIOUS
      <4>2. l \in Nat
        BY <1>3, <4>1
      <4>3. l < m
        BY <1>4, <2>1, <4>1, <4>2
      <4> QED
        BY <1>4, <4>1, <4>3
    <3>2. k \in Before(m)
      BY <1>4
    <3>3. k \notin Before(k)
      BY <2>1
    <3> HIDE DEF Before
    <3> QED
      BY <3>1, <3>2, <3>3
  <2> HIDE DEF Before
  <2>4. IsFiniteSet(Before(m))
    BY <2>1, <2>2, FS_Subset
  <2>5. Cardinality(Before(k)) <= Cardinality(Before(m))
        /\ (Cardinality(Before(k)) = Cardinality(Before(m)) => Before(k) = Before(m))
    BY <2>3, <2>4, FS_Subset
  <2>6. Cardinality(Before(m)) \in Nat /\ Cardinality(Before(k)) \in Nat
    BY <2>3, <2>4, FS_Subset, FS_CardinalityType
  <2> QED
    BY <2>3, <2>5, <2>6
<1>5. Cardinality(Before(i)) \in Nat
  <2>1. Before(i) \subseteq 1..(i - 1) /\ i \in Nat /\ IsFiniteSet(1..(i - 1))
    <3>1. i \in Nat /\ IsFiniteSet(1..(i - 1))
      BY <1>3, FS_Interval
    <3>2. ASSUME NEW l \in Before(i) PROVE l \in 1..(i - 1)
      <4>1. l \in Listed(f, p) /\ l < i
        OBVIOUS
      <4>2. l \in Nat /\ l > 0
        BY <1>3, <4>1
      <4> QED
        BY <3>1, <4>1, <4>2
    <3> HIDE DEF Before
    <3> QED
      BY <3>1, <3>2
  <2> HIDE DEF Before
  <2> QED
    BY <2>1, FS_Subset, FS_CardinalityType
<1> HIDE DEF Before
<1>6. i \in Nat /\ j \in Nat
  BY <1>3
<1> QED
  BY <1>2, <1>4, <1>5, <1>6

\* Every listed component has a key of its own.
LEMMA ComponentsKeyed ==
    ASSUME NEW f, NEW p, ListsOnce(f, p)
    PROVE  /\ Keyed(CollectComponents(f, p))
           /\ DOMAIN CollectComponents(f, p) = {ComponentKey(f, p, i) : i \in Listed(f, p)}
           /\ \A i \in Listed(f, p) :
                CollectComponents(f, p)[ComponentKey(f, p, i)] = Components(f, p)[i]
<1> DEFINE cc == CollectComponents(f, p)
           comps == Components(f, p)
<1>1. DOMAIN cc = {ComponentKey(f, p, i) : i \in Listed(f, p)}
  BY DEF CollectComponents
<1>2. ASSUME NEW i \in Listed(f, p)
      PROVE  cc[ComponentKey(f, p, i)] = comps[i]
  <2> DEFINE j == CHOOSE j \in Listed(f, p) : ComponentKey(f, p, j) = ComponentKey(f, p, i)
  <2>1. cc[ComponentKey(f, p, i)] = comps[j]
    BY <1>1 DEF CollectComponents
  <2>2. j \in Listed(f, p) /\ ComponentKey(f, p, j) = ComponentKey(f, p, i)
    OBVIOUS
  <2> HIDE DEF j
  <2>3. j = i
    BY <2>2, KeysApart
  <2> QED
    BY <2>1, <2>3
<1>3. \A i \in Listed(f, p) : comps[i] \in Int /\ i \in DOMAIN comps
  BY DEF Listed, ListsOnce
<1>4. Keyed(cc)
  <2>1. \A i, j \in Listed(f, p) : comps[i] = comps[j] => i = j
    BY <1>3 DEF ListsOnce
  <2> HIDE DEF cc, comps
  <2>2. \A k \in DOMAIN cc : \E i \in Listed(f, p) : k = ComponentKey(f, p, i) /\ cc[k] = comps[i]
    BY <1>1, <1>2
  <2> QED
    BY <1>3, <2>1, <2>2 DEF Keyed
<1> QED
  BY <1>1, <1>2, <1>4

\* The rows of two game objects' components: each component of either has one
\* row and no other has, the rows are the same seen from the other side, and a
\* game object compared with itself has none that differs.
THEOREM ComponentsOnce ==
    ASSUME NEW b, NEW p, NEW t, NEW q, ListsOnce(b, p), ListsOnce(t, q),
           \A x, y : CloseFloats(x, y) <=> CloseFloats(y, x)
    PROVE  LET rows == ComponentRows(b, p, t, q)
           IN /\ Apart(rows)
              /\ \A i \in Listed(b, p) : \E r \in rows :
                   Dumps(r.id)["base"] = [entry |-> NoId, pid |-> Components(b, p)[i]]
              /\ \A i \in Listed(t, q) : \E r \in rows :
                   Dumps(r.id)["target"] = [entry |-> NoId, pid |-> Components(t, q)[i]]
              /\ Shown(ComponentRows(t, q, b, p)) = FromOtherSide(rows)
              /\ PruneUnchanged(ComponentRows(b, p, b, p)) = {}
<1> DEFINE bs == CollectComponents(b, p)
           ts == CollectComponents(t, q)
<1>1. Keyed(bs) /\ Keyed(ts)
  BY ComponentsKeyed
<1>2. /\ ComponentRows(b, p, t, q) = RowsByKey(b, bs, t, ts)
      /\ ComponentRows(t, q, b, p) = RowsByKey(t, ts, b, bs)
      /\ ComponentRows(b, p, b, p) = RowsByKey(b, bs, b, bs)
  BY DEF ComponentRows
<1>3. /\ \A i \in Listed(b, p) : \E k \in DOMAIN bs : bs[k] = Components(b, p)[i]
      /\ \A i \in Listed(t, q) : \E k \in DOMAIN ts : ts[k] = Components(t, q)[i]
  <2>1. /\ DOMAIN bs = {ComponentKey(b, p, i) : i \in Listed(b, p)}
        /\ \A i \in Listed(b, p) : bs[ComponentKey(b, p, i)] = Components(b, p)[i]
    BY ComponentsKeyed
  <2>2. /\ DOMAIN ts = {ComponentKey(t, q, i) : i \in Listed(t, q)}
        /\ \A i \in Listed(t, q) : ts[ComponentKey(t, q, i)] = Components(t, q)[i]
    BY ComponentsKeyed
  <2> HIDE DEF bs, ts
  <2> QED
    BY <2>1, <2>2
<1> HIDE DEF bs, ts
<1>4. /\ \A k \in DOMAIN bs : \E r \in RowsByKey(b, bs, t, ts) :
           Dumps(r.id)["base"] = [entry |-> NoId, pid |-> bs[k]]
      /\ \A k \in DOMAIN ts : \E r \in RowsByKey(b, bs, t, ts) :
           Dumps(r.id)["target"] = [entry |-> NoId, pid |-> ts[k]]
  BY <1>1, EachShown
<1>5. Apart(RowsByKey(b, bs, t, ts))
  BY <1>1, RowsApart
<1>6. Shown(RowsByKey(t, ts, b, bs)) = FromOtherSide(RowsByKey(b, bs, t, ts))
  BY <1>1, RowsMirrored
<1>7. PruneUnchanged(RowsByKey(b, bs, b, bs)) = {}
  BY <1>1, RowsOfSame
<1> QED
  BY <1>2, <1>3, <1>4, <1>5, <1>6, <1>7

\* Object x stands for p: it is p, or a later one with the same key.
KeyIn(f, alone, p) == LooseKey(f, p, f[p].class \in alone)

StandsFor(f, alone, x, p) == x >= p /\ KeyIn(f, alone, x) = KeyIn(f, alone, p)

\* The key of a loose object leads to an object with that key.
LEMMA LooseKeyed ==
    ASSUME NEW f, NEW loose, loose \subseteq Int, IsFiniteSet(loose), NEW alone
    PROVE  /\ Keyed(LooseItems(f, loose, alone))
           /\ \A k \in DOMAIN LooseItems(f, loose, alone) : LooseItems(f, loose, alone)[k] \in loose
           /\ \A p \in loose : \E k \in DOMAIN LooseItems(f, loose, alone) :
                StandsFor(f, alone, LooseItems(f, loose, alone)[k], p)
<1> DEFINE KeyOf(p) == KeyIn(f, alone, p)
           Of(k) == {p \in loose : KeyOf(p) = k}
           items == [k \in {KeyOf(p) : p \in loose} |-> Max(Of(k))]
<1>1. LooseItems(f, loose, alone) = items
  BY DEF LooseItems, KeyIn
<1> HIDE DEF KeyOf
<1>2. ASSUME NEW p \in loose
      PROVE  /\ Max(Of(KeyOf(p))) \in loose /\ Max(Of(KeyOf(p))) \in Int
             /\ KeyOf(Max(Of(KeyOf(p)))) = KeyOf(p) /\ Max(Of(KeyOf(p))) >= p
  <2> DEFINE S == Of(KeyOf(p))
  <2>1. S \subseteq Int /\ p \in S /\ S \in SUBSET loose
    OBVIOUS
  <2>2. \A x \in S : x \in loose /\ KeyOf(x) = KeyOf(p)
    OBVIOUS
  <2> HIDE DEF S
  <2>3. IsFiniteSet(S)
    BY <2>1, FS_Subset
  <2>4. Max(S) \in S /\ \A x \in S : Max(S) >= x
    <3>1. S # {}
      BY <2>1
    <3> QED
      BY <2>1, <2>3, <3>1, Greatest
  <2>5. Max(S) \in loose /\ Max(S) \in Int /\ KeyOf(Max(S)) = KeyOf(p) /\ Max(S) >= p
    BY <2>1, <2>2, <2>4
  <2> QED
    BY <2>5 DEF S
<1>3. /\ DOMAIN items = {KeyOf(p) : p \in loose}
      /\ \A p \in loose : items[KeyOf(p)] = Max(Of(KeyOf(p)))
  OBVIOUS
<1> HIDE DEF items, Of
<1>4. \A k \in DOMAIN items : items[k] \in loose /\ items[k] \in Int /\ KeyOf(items[k]) = k
  <2> TAKE k \in DOMAIN items
  <2>1. PICK p \in loose : k = KeyOf(p)
    BY <1>3
  <2> QED
    BY <1>2, <1>3, <2>1
<1>5. Keyed(items)
  BY <1>4 DEF Keyed
<1>6. \A p \in loose : KeyOf(p) \in DOMAIN items /\ items[KeyOf(p)] >= p
                        /\ KeyOf(items[KeyOf(p)]) = KeyOf(p)
  BY <1>2, <1>3
<1>7. \A p \in loose : \E k \in DOMAIN items : StandsFor(f, alone, items[k], p)
  BY <1>6 DEF StandsFor, KeyOf
<1> QED
  BY <1>1, <1>4, <1>5, <1>7

\* An object has a row, or a later one of its label has.
LaterAlike(f, x, p) == x >= p /\ f[x].label = f[p].label

\* The key of every loose object leads to it or to a later one of its label.
LEMMA LooseFound ==
    ASSUME NEW f, NEW loose, loose \subseteq Int, IsFiniteSet(loose), NEW alone, NEW p \in loose
    PROVE  \E k \in DOMAIN LooseItems(f, loose, alone) :
             LaterAlike(f, LooseItems(f, loose, alone)[k], p)
<1> DEFINE items == LooseItems(f, loose, alone)
<1>1. \A x \in loose : \E k \in DOMAIN items : StandsFor(f, alone, items[k], x)
  BY LooseKeyed
<1>2. \A x : KeyIn(f, alone, x)[1] = f[x].label
  BY DEF KeyIn, LooseKey
<1> HIDE DEF items
<1>3. PICK k \in DOMAIN items : items[k] >= p /\ KeyIn(f, alone, items[k]) = KeyIn(f, alone, p)
  BY <1>1 DEF StandsFor
<1>4. f[items[k]].label = f[p].label
  BY <1>2, <1>3
<1> QED
  BY <1>3, <1>4 DEF items, LaterAlike

\* What is shown of a side is an object that a key of that side leads to.
LEMMA ShownOfKeys ==
    ASSUME NEW b, NEW bs, NEW t, NEW ts, Keyed(bs), Keyed(ts), NEW r \in RowsByKey(b, bs, t, ts)
    PROVE  /\ Dumps(r.id)["base"] # NoDump =>
                \E k \in DOMAIN bs : Dumps(r.id)["base"] = [entry |-> NoId, pid |-> bs[k]]
           /\ Dumps(r.id)["target"] # NoDump =>
                \E k \in DOMAIN ts : Dumps(r.id)["target"] = [entry |-> NoId, pid |-> ts[k]]
<1>1. PICK k \in DOMAIN bs \cup DOMAIN ts : r = RowAt(b, bs, t, ts, k)
  BY RowsAt
<1>2. Dumps(RowAt(b, bs, t, ts, k).id) = [s \in Sides |-> ObjectAt(IF s = "base" THEN bs ELSE ts, k)]
  BY ShownAt
<1>3. Dumps(r.id)["base"] = ObjectAt(bs, k) /\ Dumps(r.id)["target"] = ObjectAt(ts, k)
  BY <1>1, <1>2 DEF Sides
<1> QED
  BY <1>3 DEF ObjectAt

\* A file of objects, and the parts of a diff of loose objects.
File(f) == DOMAIN f \subseteq Int /\ IsFiniteSet(DOMAIN f)
Loose(f, covered) == DOMAIN f \ covered
AloneIn(b, bl, t, tl) ==
    {c \in {b[p].class : p \in bl} \cap {t[q].class : q \in tl} :
       Cardinality(OfClass(b, bl, c)) = 1 /\ Cardinality(OfClass(t, tl, c)) = 1}

\* The rows of the loose objects are rows by key.
LEMMA DiffLooseKeys ==
    ASSUME NEW b, NEW t, NEW cb, NEW ct, NEW covered, covered.base = cb, covered.target = ct
    PROVE  LET bl == Loose(b, cb)
               tl == Loose(t, ct)
               alone == AloneIn(b, bl, t, tl)
           IN DiffLoose(b, t, covered)
                 = RowsByKey(b, LooseItems(b, bl, alone), t, LooseItems(t, tl, alone))
BY DEF DiffLoose, Loose, AloneIn

\* The rows of the objects that no walk covered: none is in two rows, none is
\* one that a walk covered, whatever has no row of its own shares its label
\* with a later object that has, the rows are the same seen from the other
\* side, and a file compared with itself has none that differs.
THEOREM LooseOnce ==
    ASSUME NEW b, NEW t, File(b), File(t), NEW cb, NEW ct, NEW rows1, NEW rows2,
           \A x, y : CloseFloats(x, y) <=> CloseFloats(y, x)
    PROVE  LET rows == DiffLoose(b, t, [rows |-> rows1, base |-> cb, target |-> ct])
           IN /\ Apart(rows)
              /\ \A r \in rows :
                   /\ Dumps(r.id)["base"] # NoDump => Dumps(r.id)["base"].pid \in DOMAIN b \ cb
                   /\ Dumps(r.id)["target"] # NoDump => Dumps(r.id)["target"].pid \in DOMAIN t \ ct
              /\ \A p \in DOMAIN b \ cb : \E r \in rows :
                   LET x == Dumps(r.id)["base"] IN x.entry = NoId /\ x.pid >= p /\ b[x.pid].label = b[p].label
              /\ Shown(DiffLoose(t, b, [rows |-> rows2, base |-> ct, target |-> cb])) = FromOtherSide(rows)
              /\ PruneUnchanged(DiffLoose(b, b, [rows |-> rows2, base |-> cb, target |-> cb])) = {}
<1> DEFINE bl == Loose(b, cb)
           tl == Loose(t, ct)
           alone == AloneIn(b, bl, t, tl)
           self == AloneIn(b, bl, b, bl)
           bs == LooseItems(b, bl, alone)
           ts == LooseItems(t, tl, alone)
           own == LooseItems(b, bl, self)
           rows == DiffLoose(b, t, [rows |-> rows1, base |-> cb, target |-> ct])
<1>1. bl \subseteq Int /\ IsFiniteSet(bl) /\ tl \subseteq Int /\ IsFiniteSet(tl)
  <2>1. bl \in SUBSET DOMAIN b /\ tl \in SUBSET DOMAIN t
    BY DEF Loose
  <2> HIDE DEF bl, tl
  <2> QED
    BY <2>1, FS_Subset DEF File
<1>2. /\ rows = RowsByKey(b, bs, t, ts)
      /\ DiffLoose(b, b, [rows |-> rows2, base |-> cb, target |-> cb]) = RowsByKey(b, own, b, own)
  BY DiffLooseKeys
<1>3. DiffLoose(t, b, [rows |-> rows2, base |-> ct, target |-> cb]) = RowsByKey(t, ts, b, bs)
  <2>1. AloneIn(t, tl, b, bl) = alone
    BY DEF AloneIn
  <2>2. LET m == AloneIn(t, tl, b, bl)
        IN DiffLoose(t, b, [rows |-> rows2, base |-> ct, target |-> cb])
             = RowsByKey(t, LooseItems(t, tl, m), b, LooseItems(b, bl, m))
    BY DiffLooseKeys
  <2> HIDE DEF alone
  <2> QED
    BY <2>1, <2>2
<1> HIDE DEF bl, tl, alone, self, rows
<1>4. /\ Keyed(bs) /\ Keyed(ts) /\ Keyed(own)
      /\ (\A k \in DOMAIN bs : bs[k] \in bl) /\ (\A k \in DOMAIN ts : ts[k] \in tl)
  BY <1>1, LooseKeyed
<1>5. ASSUME NEW p \in bl
      PROVE  \E k \in DOMAIN bs : LaterAlike(b, bs[k], p)
  BY <1>1, LooseFound
<1> HIDE DEF bs, ts, own
<1>6. Apart(rows)
  BY <1>2, <1>4, RowsApart
<1>7. ASSUME NEW r \in rows
      PROVE  /\ Dumps(r.id)["base"] # NoDump => Dumps(r.id)["base"].pid \in bl
             /\ Dumps(r.id)["target"] # NoDump => Dumps(r.id)["target"].pid \in tl
  <2>1. /\ Dumps(r.id)["base"] # NoDump =>
               \E k \in DOMAIN bs : Dumps(r.id)["base"] = [entry |-> NoId, pid |-> bs[k]]
        /\ Dumps(r.id)["target"] # NoDump =>
             \E k \in DOMAIN ts : Dumps(r.id)["target"] = [entry |-> NoId, pid |-> ts[k]]
    <3>1. r \in RowsByKey(b, bs, t, ts)
      BY <1>2
    <3> QED
      BY <1>4, <3>1, ShownOfKeys
  <2>2. \A k \in DOMAIN bs : [entry |-> NoId, pid |-> bs[k]].pid \in bl
    BY <1>4
  <2>3. \A k \in DOMAIN ts : [entry |-> NoId, pid |-> ts[k]].pid \in tl
    BY <1>4
  <2> QED
    BY <2>1, <2>2, <2>3
<1>8. ASSUME NEW p \in bl
      PROVE  \E r \in rows :
               LET x == Dumps(r.id)["base"] IN x.entry = NoId /\ x.pid >= p /\ b[x.pid].label = b[p].label
  <2>1. PICK k \in DOMAIN bs : bs[k] >= p /\ b[bs[k]].label = b[p].label
    BY <1>5 DEF LaterAlike
  <2>2. PICK r \in rows : Dumps(r.id)["base"] = [entry |-> NoId, pid |-> bs[k]]
    BY <1>2, <1>4, EachShown
  <2> QED
    BY <2>1, <2>2
<1>9. Shown(RowsByKey(t, ts, b, bs)) = FromOtherSide(rows)
  BY <1>2, <1>4, RowsMirrored
<1>10. PruneUnchanged(RowsByKey(b, own, b, own)) = {}
  BY <1>4, RowsOfSame
<1> QED
  BY <1>2, <1>3, <1>6, <1>7, <1>8, <1>9, <1>10 DEF bl, tl, rows, Loose
=============================================================================
