------------------------------ MODULE PipeNet ------------------------------
(***************************************************************************)
(* Who waits for whom: the processes of the server and the datagram pipes  *)
(* between them (system/util_pipe.cpp).  A pipe holds a bounded number of  *)
(* datagrams; sendto blocks while it is full, recvfrom while it is empty   *)
(* (only the socket processor's end of toutgoing is non-blocking).         *)
(*                                                                         *)
(* A process is its list of datagrams still to be written for the input in *)
(* hand; it reads the next input when the list is empty.  What a datagram  *)
(* says is abstracted to what decides which pipes its reader writes to.    *)
(*                                                                         *)
(*   incoming    SP, DF -> PPs      requests of clients                    *)
(*   toutgoing   PPs, EU -> SP      replies over TCP, orders to close      *)
(*   outgoing    PPs, EU -> EP      V3/V5 packets to be confirmed          *)
(*   epacket     SP, ET -> EP       acknowledgements, heartbeats           *)
(*   euser       PPs, EU, ET -> EU  online, offline, keepalive, heartbeat  *)
(*   defrag      PPs, EU -> DF      fragments, heartbeats of the scheduler *)
(***************************************************************************)
EXTENDS Naturals, Sequences

CONSTANTS PPs,                  \* packet processors
          SP, EP, EU, ET, DF,   \* socket, epacket, euser, etimer, defrag processors
          Capacity              \* datagrams a pipe holds (net.unix.max_dgram_qlen)

ASSUME ProcsAssumption ==
  /\ {SP, EP, EU, ET, DF} \cap PPs = {}
  /\ SP \notin {EP, EU, ET, DF} /\ EP \notin {EU, ET, DF} /\ EU \notin {ET, DF} /\ ET # DF
ASSUME CapacityAssumption == Capacity \in Nat \ {0}

VARIABLES pipe,   \* the datagrams in each pipe
          todo,   \* what each process has still to write
          beat    \* is EU inside online_cache_decrement

vars == <<pipe, todo, beat>>

Procs == PPs \cup {SP, EP, EU, ET, DF}
Pipes == {"incoming", "toutgoing", "outgoing", "epacket", "euser", "defrag"}

\* The processes that read a pipe.
Readers(q) ==
  CASE q = "incoming" -> PPs
    [] q = "toutgoing" -> {SP}
    [] q \in {"outgoing", "epacket"} -> {EP}
    [] q = "euser" -> {EU}
    [] q = "defrag" -> {DF}

Request   == [to |-> "incoming", what |-> "packet"]    \* data, SOCK_NEW or SOCK_TERM
Reply     == [to |-> "toutgoing", what |-> "packet"]   \* data or an order to close
Confirmed == [to |-> "outgoing", what |-> "pack"]
AckEvent  == [to |-> "epacket", what |-> "event"]      \* MESS_ACK, MESS_TIMEOUT
UserEvent == [to |-> "euser", what |-> "user"]         \* MESS_ONLINE, _OFFLINE, _UPDATE
Heartbeat == [to |-> "euser", what |-> "timeout"]
Fragment  == [to |-> "defrag", what |-> "defrag"]      \* MESS_DEFRAG, MESS_FRGCHECK
Datagrams == {Request, Reply, Confirmed, AckEvent, UserEvent, Heartbeat, Fragment}

Init ==
  /\ pipe = [q \in Pipes |-> <<>>]
  /\ todo = [p \in Procs |-> <<>>]
  /\ beat = FALSE

Full(q) == Len(pipe[q]) >= Capacity
Free(p) == todo[p] = <<>>

\* The next datagram of pipe q is handed to p, who will then write one of plans.
Take(p, q, plans) ==
  /\ Free(p) /\ pipe[q] # <<>>
  /\ pipe' = [pipe EXCEPT ![q] = Tail(@)]
  /\ \E plan \in plans : todo' = [todo EXCEPT ![p] = plan]

\* sendto: the writer waits while the pipe is full.
Send(p) ==
  /\ todo[p] # <<>>
  /\ ~Full(Head(todo[p]).to)
  /\ pipe' = [pipe EXCEPT ![Head(todo[p]).to] = Append(@, Head(todo[p]))]
  /\ todo' = [todo EXCEPT ![p] = Tail(@)]
  /\ UNCHANGED beat

----------------------------------------------------------------------------
(* The socket processor. *)

\* udp_process, aim_accept_connect, tcp_process, check_accepted_connections: something
\* from the network.  An ack packet becomes an event for EPacket, the rest goes to PPs.
NetworkInput ==
  /\ Free(SP)
  /\ \E d \in {Request, AckEvent} : todo' = [todo EXCEPT ![SP] = <<d>>]
  /\ UNCHANGED <<pipe, beat>>

\* tog_process: a reply is written to its connection.  When that fails, or when the
\* connection is to be closed, the PPs are told first (close_socket_index).
tog_process ==
  /\ Take(SP, "toutgoing", {<<>>, <<Request>>})
  /\ UNCHANGED beat

----------------------------------------------------------------------------
(* Packet processors. *)

\* A packet for another user: by EPacket to a V3/V5 client, by SP to a V7 client.
Notes == {<<>>, <<Confirmed>>, <<Reply>>}

\* What a command makes a PP write: keepalives, logins and logoffs tell EUser and then
\* one contact; messages go to one user; a V7 client is answered or disconnected; a
\* fragment goes to the defragmentor.  A handler that writes more takes several turns.
Plans == {t[1] \o t[2] \o t[3] : t \in {<<>>, <<UserEvent>>} \X Notes \X {<<>>, <<Reply>>}}
           \cup {<<Fragment>>}

\* pipe_receive_packet and handle_icq_packet.
process_packet(p) ==
  /\ Take(p, "incoming", Plans)
  /\ UNCHANGED beat

----------------------------------------------------------------------------
(* EPacket, ETimer, Defrag, EUser. *)

\* Mutant: EPacket answers through the TCP pipe.
process_epacketReplies(q) ==
  /\ Take(EP, q, {<<>>, <<Reply>>})
  /\ UNCHANGED beat

\* EPacket writes to the UDP socket only; each turn of its loop looks at both pipes.
process_epacket(q) ==
  /\ Take(EP, q, {<<>>})
  /\ UNCHANGED beat

\* etimerSIGALRMHandler: send_timeout2cache, then send_timeout2epacket.
etimerSIGALRMHandler ==
  /\ Free(ET)
  /\ todo' = [todo EXCEPT ![ET] = <<Heartbeat, AckEvent>>]
  /\ UNCHANGED <<pipe, beat>>

\* db_defrag_check: a packet whose fragments have all arrived is put into incoming.
process_defrag ==
  /\ Take(DF, "defrag", {<<>>, <<Request>>})
  /\ UNCHANGED beat

\* euser_process_event: only a heartbeat makes EUser write.
euser_process_event ==
  /\ ~beat
  /\ Take(EU, "euser", {<<>>})
  /\ beat' = (Head(pipe["euser"]) = Heartbeat)

\* online_cache_decrement expires a user: move_user_offline writes MESS_OFFLINE to
\* the pipe that EUser itself reads, and tells one contact.
move_user_offline ==
  /\ beat /\ Free(EU)
  /\ \E n \in Notes : todo' = [todo EXCEPT ![EU] = <<UserEvent>> \o n]
  /\ UNCHANGED <<pipe, beat>>

\* scheduler_timer, after the last user: it may be time to check the fragments.
scheduler_timer ==
  /\ beat /\ Free(EU)
  /\ \E plan \in {<<>>, <<Fragment>>} : todo' = [todo EXCEPT ![EU] = plan]
  /\ beat' = FALSE
  /\ UNCHANGED pipe

----------------------------------------------------------------------------
Next ==
  \/ \E p \in Procs : Send(p)
  \/ NetworkInput \/ tog_process
  \/ \E p \in PPs : process_packet(p)
  \/ \E q \in {"outgoing", "epacket"} : process_epacket(q)
  \/ etimerSIGALRMHandler \/ process_defrag
  \/ euser_process_event \/ move_user_offline \/ scheduler_timer

Spec == Init /\ [][Next]_vars

----------------------------------------------------------------------------
(* Properties. *)

\* The pipes a process writes to, and what it may still have to write.
WritesTo(p) ==
  CASE p \in PPs \cup {EU} -> {"toutgoing", "outgoing", "euser", "defrag"}
    [] p = SP -> {"incoming", "epacket"}
    [] p = EP -> {}
    [] p = ET -> {"euser", "epacket"}
    [] p = DF -> {"incoming"}
Writes(p) == {d \in Datagrams : d.to \in WritesTo(p)}

\* No pipe ever holds more datagrams than it can (sendto waits).
TypeOK ==
  /\ pipe \in [Pipes -> Seq(Datagrams)]
  /\ todo \in [Procs -> Seq(Datagrams)]
  /\ beat \in BOOLEAN
  /\ \A q \in Pipes : Len(pipe[q]) <= Capacity

\* What the freezes rest on: each process writes to its own pipes only.
OwnPipes == \A p \in Procs : todo[p] \in Seq(Writes(p))
IInv == TypeOK /\ OwnPipes

WaitsFor(p, q) == todo[p] # <<>> /\ Head(todo[p]).to = q /\ Full(q)
Waiting == {p \in Procs : todo[p] # <<>> /\ Full(Head(todo[p]).to)}

\* The members of D will never move again: each waits for room in a pipe that only
\* members of D read.
Dead(D) ==
  \A p \in D : \E q \in Pipes : WaitsFor(p, q) /\ Readers(q) \subseteq D

\* The server can only freeze in two ways: EUser waits for room in its own pipe, or
\* all packet processors are frozen together with a writer of the incoming pipe.
\* EPacket and ETimer are never what the others wait for.
FreezesOnlyHere ==
  \A D \in SUBSET Waiting : Dead(D) /\ D # {} =>
    \/ EU \in D /\ WaitsFor(EU, "euser")
    \/ PPs \subseteq D /\ \E w \in {SP, DF} \cap D : WaitsFor(w, "incoming")
=============================================================================
