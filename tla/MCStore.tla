------------------------------ MODULE MCStore ------------------------------
EXTENDS Store, TLC

CONSTANTS m1, m2, x, y

\* Two manifests share y; x is only in the first.
Shared == m1 :> {x, y} @@ m2 :> {y}

\* The overview, and one prune of each kind and of the kinds together.
Kinds == {[free |-> {}, delete |-> {}, sweep |-> FALSE],
          [free |-> {m1}, delete |-> {}, sweep |-> FALSE],
          [free |-> {}, delete |-> {m1}, sweep |-> TRUE],
          [free |-> {m2}, delete |-> {m2}, sweep |-> TRUE]}

Symmetry == Permutations(Opener) \cup Permutations(Admin) \cup
            Permutations(Fetcher)
=============================================================================
