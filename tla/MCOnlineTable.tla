--------------------------- MODULE MCOnlineTable ---------------------------
(* Instances of OnlineTable for TLC. *)
EXTENDS OnlineTable, TLC

\* Packet processors run the same code and no property names one.
Alike == Permutations(PPs)
=============================================================================
