------------------------------- MODULE MCPages -------------------------------
(* A small library with its status batches, and a small landing of chunks.   *)
EXTENDS Library, Landing, TLC

CONSTANTS q1, m1, m2, c1, u1, u2,
          k1, k2, d1, d2, d3, f1, f2, f3, ma, mb

Entry(m, branch) == [manifest |-> m, branch |-> branch]

\* Two manifests share the one chunk; a new build becomes the head of the
\* public branch; the user's list names that build twice.
MCChunksIn == m1 :> {c1} @@ m2 :> {c1}
MCAppInfos == << <<Entry(m1, "public")>>, <<Entry(m2, "public"), Entry(m1, "beta")>> >>
MCLists == {<<>>, <<Entry(m2, "old"), Entry(m2, "public")>>}
AccountsAlike == Permutations({u1, u2})

\* d2 is in two files of the manifest it is queued for, d3 in a file of that
\* manifest and in one of the manifest it is queued for.
MCChunksOf == f1 :> {d1, d2} @@ f2 :> {d2, d3} @@ f3 :> {d3}
MCManifestOf == f1 :> ma @@ f2 :> ma @@ f3 :> mb
MCQueuedFor == d1 :> ma @@ d2 :> ma @@ d3 :> mb
==============================================================================
