----------------------------- MODULE MCSession -----------------------------
EXTENDS Session, TLC

CONSTANTS alice, bob, a1, a2

\* Two users, who log in once each.
Users == a1 :> alice @@ a2 :> bob

\* One of them.
User == a1 :> alice
=============================================================================
