---------------------------- MODULE MCSupervisor ----------------------------
(* Instances of Supervisor for TLC. *)
EXTENDS Supervisor

\* Two packet processors and one event processor.
RoleOrder == <<"packet", "epacket">>
RoleNeed == [r \in {"packet", "epacket"} |-> IF r = "packet" THEN 2 ELSE 1]
=============================================================================
