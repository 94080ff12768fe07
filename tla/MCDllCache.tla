----------------------------- MODULE MCDllCache -----------------------------
(* DllCache for TLC: a build of three DLLs, one of them native, and an older *)
(* one that has only `db`, with the same content; a type nested in another,  *)
(* and a third one whose name differs from the outer one's in a letter       *)
(* outside ASCII, so that the two have one file name.  Clicks ask for the    *)
(* nested type, so the text of the third comes from the warmers.  The tree   *)
(* that is opened, and warms its DLL, is that of `db`, in either build; a    *)
(* behaviour has one failure or one restart.                                 *)
EXTENDS DllCache, TLC

CONSTANTS t1, t2, m1, m2, da, db, dc, x, y, z

MCShaIn == m1 :> (da :> x @@ db :> y @@ dc :> z)
           @@ m2 :> (da :> NoFile @@ db :> y @@ dc :> NoFile)
Outer == <<"N", "O">>
Nested == <<"N", "O", "I">>
Alike == <<"N", "U">>
MCEntities == {Outer, Nested, Alike}
MCAsked == {Nested}
MCOnDisk == [name \in MCEntities |-> IF name = Alike THEN Outer ELSE name]
TasksAlike == Permutations({t1, t2})

TreeOfOne ==
    \A t \in Tasks :
      (/\ At(t, "idle") /\ task'[t].at = "ensure"
       /\ task'[t].kind = "warm") => task'[t].dll = db

MCNext == Next /\ TreeOfOne /\ failures' + crashes' <= 1

MCSpec == Init /\ [][MCNext]_vars
==============================================================================
