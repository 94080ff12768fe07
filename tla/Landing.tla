------------------------------- MODULE Landing -------------------------------
(* How landed chunks reach a page (backend/src/state/downloads.rs 471-598).  *)
(*                                                                           *)
(* settle marks a chunk in the index and records it in a batch per manifest. *)
(* One flush is scheduled at a time: it sleeps, lowers the flag, takes the   *)
(* batches and sends, for every file that a recorded chunk belongs to, how   *)
(* many of its chunks the index has.  It holds the index's read lock from    *)
(* the first count to the last send.  A page applies what it is sent in the  *)
(* order of the sends.  A cancel drops the batches, and a read that nobody   *)
(* queued marks its chunk without recording it.  A count is modelled as the  *)
(* set of the chunks counted.                                                *)
EXTENDS Naturals, FiniteSets

CONSTANTS Chunks,
          Files,
          ChunksOf,    \* file -> its chunks; files may share chunks
          ManifestOf,  \* file -> its manifest
          QueuedFor,   \* chunk -> the manifest of the job that fetches it
          Flushes,     \* tasks that record_chunk_landed spawns
          Unshown      \* the page was sent nothing of a file

ASSUME LandingAssumption ==
    /\ ChunksOf \in [Files -> SUBSET Chunks]
    /\ \A c \in Chunks : \E f \in Files :
         c \in ChunksOf[f] /\ ManifestOf[f] = QueuedFor[c]
    /\ \A S \in SUBSET Chunks : S # Unshown

VARIABLES present,    \* chunks of the index
          settling,   \* chunk -> how far its settle is
          recorded,   \* pending_chunks, all batches
          scheduled,  \* flush_scheduled
          flush,      \* flush task -> where it is
          batch,      \* flush task -> what it took and has yet to send
          owed,       \* chunks recorded and not cancelled since
          shown       \* file -> the last count the page was sent, or Unshown

landingVars ==
    <<present, settling, recorded, scheduled, flush, batch, owed, shown>>

LandingTypeOK ==
    /\ present \subseteq Chunks
    /\ settling \in [Chunks -> {"no", "marked", "inserted"}]
    /\ recorded \subseteq Chunks /\ owed \subseteq Chunks
    /\ scheduled \in BOOLEAN
    /\ flush \in [Flushes -> {"unborn", "asleep", "awake", "sending", "ended"}]
    /\ batch \in [Flushes -> SUBSET Chunks]
    /\ shown \in [Files -> (SUBSET Chunks) \cup {Unshown}]

LandingInit ==
    /\ present = {} /\ recorded = {} /\ owed = {}
    /\ settling = [c \in Chunks |-> "no"]
    /\ scheduled = FALSE
    /\ flush = [k \in Flushes |-> "unborn"]
    /\ batch = [k \in Flushes |-> {}]
    /\ shown = [f \in Files |-> Unshown]

\* The index's lock: whoever marks waits for the flushes that read.
Unread == \A k \in Flushes : flush[k] # "sending"

Mark(c) ==
    /\ Unread
    /\ present' = present \cup {c}
    /\ UNCHANGED <<recorded, scheduled, flush, batch, owed, shown>>

\* A chunk that the index has already is marked, and recorded, once more.
MarkQueued(c) ==
    /\ settling[c] = "no"
    /\ Mark(c)
    /\ settling' = [settling EXCEPT ![c] = "marked"]

MarkUnqueued(c) == Mark(c) /\ UNCHANGED settling

Record(c) ==
    /\ settling[c] = "marked"
    /\ recorded' = recorded \cup {c}
    /\ owed' = owed \cup {c}
    /\ settling' = [settling EXCEPT ![c] = "inserted"]
    /\ UNCHANGED <<present, scheduled, flush, batch, shown>>

\* Whoever finds the flag down raises it and spawns a flush.
Schedule(c) ==
    /\ settling[c] = "inserted"
    /\ settling' = [settling EXCEPT ![c] = "no"]
    /\ \/ /\ scheduled
          /\ UNCHANGED <<scheduled, flush>>
       \/ /\ ~scheduled
          /\ scheduled' = TRUE
          /\ \E k \in Flushes : /\ flush[k] \in {"unborn", "ended"}
                                /\ flush' = [flush EXCEPT ![k] = "asleep"]
    /\ UNCHANGED <<present, recorded, batch, owed, shown>>

StillRaised(k) == TRUE

\* The flag is lowered before the batches are taken.
Lowered(k) == FALSE

Wake(k) ==
    /\ flush[k] = "asleep"
    /\ flush' = [flush EXCEPT ![k] = "awake"]
    /\ scheduled' = Lowered(k)
    /\ UNCHANGED <<present, settling, recorded, batch, owed, shown>>

Take(k) ==
    /\ flush[k] = "awake"
    /\ batch' = [batch EXCEPT ![k] = recorded]
    /\ recorded' = {}
    /\ flush' = [flush EXCEPT ![k] = IF recorded = {} THEN "ended" ELSE "sending"]
    /\ UNCHANGED <<present, settling, scheduled, owed, shown>>

\* One event per manifest of the batch, with its touched files.
BatchOf(k, m) == {c \in batch[k] : QueuedFor[c] = m}

Touched(k, m) ==
    {f \in Files : ManifestOf[f] = m /\ ChunksOf[f] \cap BatchOf(k, m) # {}}

\* A file is sent with every chunk the index has, whoever fetched it.
Count(k, f) == ChunksOf[f] \cap present

Send(k) ==
    /\ flush[k] = "sending"
    /\ \E m \in {QueuedFor[c] : c \in batch[k]} :
         /\ shown' = [f \in Files |-> IF f \in Touched(k, m) THEN Count(k, f)
                                                            ELSE shown[f]]
         /\ batch' = [batch EXCEPT ![k] = @ \ BatchOf(k, m)]
    /\ flush' = [flush EXCEPT ![k] = IF batch'[k] = {} THEN "ended" ELSE @]
    /\ UNCHANGED <<present, settling, recorded, scheduled, owed>>

Cancel ==
    /\ recorded # {}
    /\ recorded' = {} /\ owed' = {}
    /\ UNCHANGED <<present, settling, scheduled, flush, batch, shown>>

LandingNext ==
    \/ \E c \in Chunks : MarkQueued(c) \/ MarkUnqueued(c) \/ Record(c) \/ Schedule(c)
    \/ \E k \in Flushes : Wake(k) \/ Take(k) \/ Send(k)
    \/ Cancel

LandingSpec == LandingInit /\ [][LandingNext]_landingVars

-----------------------------------------------------------------------------
AtRest == /\ \A c \in Chunks : settling[c] = "no"
          /\ \A k \in Flushes : flush[k] \in {"unborn", "ended"}

\* Once settles and flushes are through, every recorded chunk is counted in
\* what the page was last sent for its files: no landing falls between a
\* flush that has taken the batch and one that is yet to be scheduled, and
\* no older count is sent after a newer one.
LandedShown ==
    AtRest => \A c \in owed : \A f \in Files :
      c \in ChunksOf[f] /\ ManifestOf[f] = QueuedFor[c] =>
        shown[f] # Unshown /\ c \in shown[f]

\* The contrary claim of the comment at downloads.rs 557-558, "broadcast one ChunkUpdate
\* per affected manifest": a manifest that shares a recorded chunk with the
\* one it was queued for is affected too.
AffectedTold ==
    AtRest => \A c \in owed : \A f \in Files :
      c \in ChunksOf[f] => shown[f] # Unshown /\ c \in shown[f]
==============================================================================
