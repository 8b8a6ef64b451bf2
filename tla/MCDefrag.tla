------------------------------ MODULE MCDefrag ------------------------------
(* Values for TLC. *)
EXTENDS Defrag

\* Two packets of one session, and one of the next that has the same number.
ThreePackets == {[sid |-> 1, seq |-> 1], [sid |-> 1, seq |-> 2], [sid |-> 2, seq |-> 1]}
\* The check is due.
OneSchedule == {<<2, 2>>}
=============================================================================
