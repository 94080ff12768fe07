---------------------------- MODULE ChunkContract ----------------------------
(***************************************************************************)
(* What the chunk service promises the tasks around it, whatever the       *)
(* queue, the workers and the single-flight map look like inside:          *)
(*                                                                         *)
(*   - the CDN is asked for a chunk by at most one request at a time,      *)
(*   - a call that waits comes back when nothing is owed to it any more,   *)
(*   - a chunk owed to a caller is struck off only once the index has it,  *)
(*     once its fetch is known to have failed, or because of a cancel.     *)
(***************************************************************************)
CONSTANTS Sha, Client

VARIABLES
    fetching,   \* chunks a CDN request is running for
    index,      \* chunks the index says are on disk
    failing,    \* chunks whose failure is being reported
    busy,       \* clients inside a call
    owed,       \* chunks each client waits for
    cancelling

vars == <<fetching, index, failing, busy, owed, cancelling>>

Init ==
    /\ fetching = {}
    /\ index \in SUBSET Sha
    /\ failing = {}
    /\ busy = {}
    /\ owed = [c \in Client |-> {}]
    /\ cancelling = FALSE

\* A call that waits; a bulk call owes nothing.
Ask(c) ==
    /\ c \notin busy
    /\ busy' = busy \cup {c}
    /\ \E S \in SUBSET Sha : owed' = [owed EXCEPT ![c] = S \ index]
    /\ UNCHANGED <<fetching, index, failing, cancelling>>

Return(c) ==
    /\ c \in busy
    /\ owed[c] = {}
    /\ busy' = busy \ {c}
    /\ UNCHANGED <<fetching, index, failing, owed, cancelling>>

HangUp(c) ==
    /\ c \in busy
    /\ busy' = busy \ {c}
    /\ owed' = [owed EXCEPT ![c] = {}]
    /\ UNCHANGED <<fetching, index, failing, cancelling>>

BeginFetch(s) ==
    /\ s \notin fetching
    /\ fetching' = fetching \cup {s}
    /\ UNCHANGED <<index, failing, busy, owed, cancelling>>

EndFetch(s) ==
    /\ s \in fetching
    /\ fetching' = fetching \ {s}
    /\ UNCHANGED <<index, failing, busy, owed, cancelling>>

Land(s) ==
    /\ index' = index \cup {s}
    /\ UNCHANGED <<fetching, failing, busy, owed, cancelling>>

Fail(s) ==
    /\ failing' = failing \cup {s}
    /\ UNCHANGED <<fetching, index, busy, owed, cancelling>>

\* Strike s off for the clients in D.
Answer(s, D) ==
    /\ s \in index \cup failing
    /\ owed' = [c \in Client |-> IF c \in D THEN owed[c] \ {s} ELSE owed[c]]
    /\ failing' \in {failing, failing \ {s}}
    /\ UNCHANGED <<fetching, index, busy, cancelling>>

Cancel ==
    /\ ~cancelling
    /\ cancelling' = TRUE
    /\ owed' \in [Client -> SUBSET Sha]
    /\ \A c \in Client : owed'[c] \subseteq owed[c]
    /\ UNCHANGED <<fetching, index, failing, busy>>

CancelDone ==
    /\ cancelling
    /\ cancelling' = FALSE
    /\ UNCHANGED <<fetching, index, failing, busy, owed>>

Next ==
    \/ \E c \in Client : Ask(c) \/ Return(c) \/ HangUp(c)
    \/ \E s \in Sha : BeginFetch(s) \/ EndFetch(s) \/ Land(s) \/ Fail(s)
    \/ \E s \in Sha, D \in SUBSET Client : Answer(s, D)
    \/ Cancel
    \/ CancelDone

Spec == Init /\ [][Next]_vars
=============================================================================
