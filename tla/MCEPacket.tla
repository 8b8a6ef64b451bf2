----------------------------- MODULE MCEPacket -----------------------------
(* Instances of EPacket for TLC. *)
EXTENDS EPacket
=============================================================================
