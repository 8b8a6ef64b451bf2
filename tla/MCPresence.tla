----------------------------- MODULE MCPresence -----------------------------
EXTENDS Presence, TLC

\* A subject and a viewer: each protocol in each role.
ThreePairs == {<<"v5", "v3">>, <<"v7", "v5">>, <<"v3", "v7">>}
Symmetry   == Permutations(PPs)
=============================================================================
