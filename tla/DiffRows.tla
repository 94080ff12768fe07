----------------------------- MODULE DiffRows -----------------------------
(* The rows of a structured diff (transform/src/structured/mod.rs) and the   *)
(* ids that tie a row to what it stands for (unity/serializedfile/diff/      *)
(* mod.rs, unity/bundle/mod.rs, backend/src/routes/diff/structured/node.rs). *)
(* An id is a string in the code and the sequence of its tokens here: what   *)
(* matters is where it is cut apart again, at the first "/" or ",".  The     *)
(* rows below a row are a set: their order, labels and badges are left out.  *)
EXTENDS Integers, Sequences, FiniteSets, SequencesExt

CONSTANTS Slash, Comma  \* the characters that ids are cut at

ASSUME TokensAssumption ==
    /\ Slash # Comma
    /\ {Slash, Comma} \cap ({"obj", "mod", "archive", "base", "target"} \cup Int) = {}

\* F of a value that F mentions more than once, worked out once.
With(value, F(_)) == CHOOSE result \in {F(x) : x \in {value}} : TRUE

Row(id, kind, status, children) ==
    [id |-> id, kind |-> kind, status |-> status, children |-> children]

Kept(row) == row.status # "unchanged" \/ row.children # {}
PruneUnchanged(rows) == {r \in rows : Kept(r)}

AggregateStatus(rows) ==
    IF \E r \in rows : r.status # "unchanged" THEN "changed" ELSE "unchanged"

\* A row that sums up the rows below it.
Over(id, kind, rows) == With(rows, LAMBDA below : Row(id, kind, AggregateStatus(below), below))

HasNoChanges(tree) == tree.children = {} /\ tree.status = "unchanged"

Sides == {"base", "target"}
Other(side) == IF side = "base" THEN "target" ELSE "base"

NoId == <<>>

ObjectId(pid) == <<"obj", pid>>
IsObjectId(id) == Len(id) = 2 /\ id[1] = "obj"

MatchedPairId(base, target) ==
    IF base = target THEN ObjectId(base)
                     ELSE <<"mod">> \o ObjectId(base) \o <<Comma>> \o ObjectId(target)
OneSidedId(side, pid) == <<side>> \o ObjectId(pid)

\* What stands before and after the first `token`; both NoId when there is none.
SplitOnce(id, token) ==
    LET at == {i \in DOMAIN id : id[i] = token /\ \A j \in 1..(i - 1) : id[j] # token}
    IN IF at = {} THEN [before |-> NoId, after |-> NoId]
       ELSE LET i == CHOOSE i \in at : TRUE
            IN [before |-> SubSeq(id, 1, i - 1), after |-> SubSeq(id, i + 1, Len(id))]

\* A bundle's entry is named by a path, itself several tokens.
ArchiveId(entry) == <<"archive">> \o entry
ArchivePrefix(entry) == ArchiveId(entry) \o <<Slash>>
IsArchiveId(id) == Len(id) > 0 /\ id[1] = "archive" /\ \E i \in DOMAIN id : id[i] = Slash
ParseArchiveId(id) ==
    LET cut == SplitOnce(Tail(id), Slash) IN [entry |-> cut.before, inner |-> cut.after]

\* split_diff_id: the ids of either side that the row compares.
SplitDiffId(id) ==
    LET mod == SplitOnce(Tail(id), Comma)
        side == Head(id)
    IN IF side \in Sides
       THEN [s \in Sides |-> IF s = side THEN Tail(id) ELSE NoId]
       ELSE IF side = "mod" /\ mod.after # NoId
       THEN [s \in Sides |-> IF s = "base" THEN mod.before ELSE mod.after]
       ELSE [s \in Sides |-> id]

\* attach_diff_matches: the ids that history follows, per side, prefix kept.
DiffMatch(id) ==
    IF IsArchiveId(id)
    THEN LET parsed == ParseArchiveId(id)
             ids == SplitDiffId(parsed.inner)
         IN [s \in Sides |-> IF ids[s] = NoId THEN NoId
                             ELSE ArchivePrefix(parsed.entry) \o ids[s]]
    ELSE SplitDiffId(id)

NoDump == [entry |-> NoId, pid |-> 0]

\* Per side the object that an id names, with the entry that holds it.
PlacesOf(ids, entry) ==
    [s \in Sides |-> IF IsObjectId(ids[s]) THEN [entry |-> entry, pid |-> ids[s][2]] ELSE NoDump]

\* parse_bundle_node_id, and its like for a file of its own.
Dumps(id) ==
    LET parsed == IF IsArchiveId(id) THEN ParseArchiveId(id) ELSE [entry |-> NoId, inner |-> id]
    IN IF parsed.inner = NoId THEN [s \in Sides |-> NoDump]
       ELSE PlacesOf(SplitDiffId(parsed.inner), parsed.entry)

-----------------------------------------------------------------------------
\* What the rows of a diff must say, whatever was compared: no object is in
\* two rows, and none is both in the hierarchy and loose.
Apart(rows) ==
    \A s \in Sides : \A r1, r2 \in rows :
      Dumps(r1.id)[s] = Dumps(r2.id)[s] /\ Dumps(r1.id)[s] # NoDump => r1 = r2

\* The objects a row compares, as they are and as seen from the other side.
Swapped(status) ==
    CASE status = "added" -> "removed" [] status = "removed" -> "added" [] OTHER -> status
Shown(rows) == {<<Dumps(r.id), r.kind, r.status>> : r \in rows}
FromOtherSide(rows) ==
    {<<[s \in Sides |-> Dumps(r.id)[Other(s)]], r.kind, Swapped(r.status)>> : r \in rows}
=============================================================================
