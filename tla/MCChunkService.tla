--------------------------- MODULE MCChunkService ---------------------------
(* ChunkService for TLC.  No behaviour has a cancel, a drop and two reads.   *)
(* Liveness is checked without symmetry, so there a fresh channel is always  *)
(* the same free one, a read is always made by the same idle reader, and no  *)
(* behaviour has both a cancel and a second read.                            *)
EXTENDS ChunkService, TLC

Symmetry == Permutations(Sha) \cup Permutations(Client) \cup
            Permutations(Worker) \cup Permutations(Reader) \cup Permutations(Chan)

AtMostThree == used'.cancels + used'.drops + used'.reads <= 3

SafeNext == Next /\ AtMostThree

SafeSpec == Init /\ [][SafeNext]_vars

SameFreeChannel ==
    FreeChan # {} =>
      LET fresh == CHOOSE h \in FreeChan : TRUE
      IN \A s \in Sha : inflight'[s] \in {inflight[s], NoChan, fresh}

SameIdleReader ==
    LET idle == {r \in Reader : pc[r] = "idle"}
    IN \A r \in idle : pc'[r] # "idle" => r = CHOOSE i \in idle : TRUE

CancelOrSecondRead == used'.cancels = 0 \/ used'.reads <= 1

LiveNext == Next /\ SameFreeChannel /\ SameIdleReader /\ CancelOrSecondRead

LiveSpec == Init /\ [][LiveNext]_vars /\ Fairness
=============================================================================
