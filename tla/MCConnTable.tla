---------------------------- MODULE MCConnTable ----------------------------
(* Instances of ConnTable for TLC. *)
EXTENDS ConnTable, TLC

\* Packet processors run the same code, users behave alike, and no property names one.
Alike == Permutations(PPs) \cup Permutations(Uins)
Both  == {FALSE, TRUE}
=============================================================================
