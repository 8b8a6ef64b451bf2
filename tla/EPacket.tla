------------------------------ MODULE EPacket ------------------------------
(***************************************************************************)
(* The EPacket process (event/epacket.cpp): delivery of V3/V5 datagrams    *)
(* that the client has to confirm.                                         *)
(*                                                                         *)
(* A packet processor (PP) looks a user up in shared memory, builds a      *)
(* packet whose header carries the servseq of its copy of the record, and  *)
(* writes it to the outgoing pipe.  EPacket finds the user's record again, *)
(* numbers the packet with the record's current servseq, computes the ack  *)
(* stamp it will wait for, links the packet into the user's queue and      *)
(* sends it over UDP.  A MESS_ACK removes the packet with that stamp; each *)
(* MESS_TIMEOUT (one per second) retransmits or expires packets.           *)
(*                                                                         *)
(* epacket_process_packet works on the record in shared memory through the *)
(* pointer that shm_iget_user returned, without a lock: logins and logoffs *)
(* may rewrite the record between any two of its steps.  raced remembers   *)
(* the packets that this happened to.  A step reads or writes the record   *)
(* whole: torn copies, and a change of the record in the middle of         *)
(* add_packet_to_list, are not modelled.                                   *)
(*                                                                         *)
(* A session number stands for usid and for the client's address: login    *)
(* creates both.  owner[s] is the user that opened session s.  The network *)
(* loses, duplicates, delays and reorders: every datagram ever sent stays  *)
(* in sent and may be acknowledged at any later time, any number of times. *)
(***************************************************************************)
EXTENDS Integers, FiniteSets, Sequences

CONSTANTS Uins,          \* user numbers (a set of positive naturals)
          MaxUserCnt,    \* max_user_cnt: records in shared memory
          PPs,           \* packet processors
          Retries,       \* v3_retries / v5_retries
          TimeOut,       \* v3_timeout / v5_timeout, in ticks
          SeqMod,        \* 2^16: the header's sequence is an unsigned short
          SecondSeqs,    \* second sequence numbers that clients put into an ack
          MaxSessions,   \* bound: logins in a behaviour
          MaxPosts,      \* bound: packets posted in a behaviour
          PipeMax        \* bound: datagrams a pipe holds (net.unix.max_dgram_qlen)

ASSUME UinsAssumption  == Uins \subseteq Nat \ {0}
ASSUME ConfAssumption  == MaxUserCnt \in Nat /\ Retries \in Nat /\ TimeOut \in Nat /\ SeqMod \in Nat \ {0}
ASSUME BoundAssumption == MaxSessions \in Nat /\ MaxPosts \in Nat /\ PipeMax \in Nat \ {0}
ASSUME SeqsAssumption  == SecondSeqs \subseteq Nat

VARIABLES usr_shm,    \* shared memory: the online users' records
          owner,      \* owner[s]: the user of session s (one entry per login)
          copy,       \* each PP's private copy of a record (db_online_lookup)
          npost,      \* packets posted so far; a packet's id is its number
          outgoing,   \* the outgoing pipe (PPs to EPacket)
          events,     \* the epacket pipe (ETimer and SP to EPacket)
          cur,        \* the packet EPacket is processing: the slot its pointer
                      \* shows to, how far it has come (pc), the numbers it got
          uqueue,     \* the unconfirmed packets, by user
          sent,       \* every datagram put on the network so far
          got,        \* acks that clients have sent: the sums of their two numbers
          confirmed,  \* ids EPacket removed because of an ack
          expired,    \* ids EPacket gave up
          raced       \* ids of packets whose user's record was rewritten while
                      \* EPacket held a pointer to it

envVars == <<usr_shm, owner, copy, npost>>
vars == <<usr_shm, owner, copy, npost, outgoing, events, cur, uqueue,
          sent, got, confirmed, expired, raced>>

Slots   == 0 .. MaxUserCnt - 1
NoSlot  == MaxUserCnt
NoUin   == 0
Hole    == [uin |-> NoUin, usid |-> 0, servseq |-> 0]
NoCopy  == [slot |-> NoSlot, rec |-> Hole]
NoPack  == [id |-> 0, to_uin |-> NoUin, shm_index |-> NoSlot, to |-> 0, seq |-> 0]
Found(slot, pack) == [slot |-> slot, pc |-> "found", pack |-> pack, stamp |-> 0, seq |-> 0]
NoWork  == Found(NoSlot, NoPack)
NoQueue == [usid |-> 0, pqueue |-> {}]
Sessions == 1 .. Len(owner)
Idle == cur.slot = NoSlot

\* The ids that are in EPacket's list.
Queued == {p.id : p \in UNION {uqueue[u].pqueue : u \in DOMAIN uqueue}}

\* The stamp of a packet and of its ack (generate_ack_number).
AckNumber(puin, pseq1, pseq2) == puin + pseq2 + pseq1

Init ==
  /\ usr_shm = [i \in Slots |-> Hole]
  /\ owner = <<>>
  /\ copy = [p \in PPs |-> NoCopy]
  /\ npost = 0
  /\ outgoing = <<>> /\ events = <<>>
  /\ cur = NoWork
  /\ uqueue = [u \in Uins \cup {NoUin} |-> NoQueue]
  /\ sent = {} /\ got = {} /\ confirmed = {} /\ expired = {} /\ raced = {}

----------------------------------------------------------------------------
(* The environment of EPacket: logins, logoffs, PPs, the timer, the network. *)

\* The packet, if any, that EPacket is processing through a pointer to slot i.
Through(i) == IF cur.slot = i THEN {cur.pack.id} ELSE {}

\* A V3/V5 login: nobody with this uin is online and a slot is free (shm_add).
Login(u) ==
  /\ Len(owner) < MaxSessions
  /\ \A i \in Slots : usr_shm[i].uin # u
  /\ \E i \in Slots :
       /\ usr_shm[i].uin = NoUin
       /\ usr_shm' = [usr_shm EXCEPT ![i] =
                        [uin |-> u, usid |-> Len(owner) + 1, servseq |-> 0]]
       /\ raced' = raced \cup Through(i)
  /\ owner' = Append(owner, u)
  /\ UNCHANGED <<copy, npost, outgoing, events, cur, uqueue, sent, got, confirmed, expired>>

\* Logoff or expiry of a user: shm_delete zeroes the record.
Logoff(u) ==
  /\ \E i \in Slots :
       /\ usr_shm[i].uin = u
       /\ usr_shm' = [usr_shm EXCEPT ![i] = Hole]
       /\ raced' = raced \cup Through(i)
  /\ UNCHANGED <<owner, copy, npost, outgoing, events, cur, uqueue, sent, got, confirmed, expired>>

\* db_online_lookup: a PP copies the record of a user it will write to (within the bound:
\* a copy that no packet follows is not made).
PPLookup(p, u) ==
  /\ npost < MaxPosts
  /\ \E i \in Slots :
       /\ usr_shm[i].uin = u
       /\ copy' = [copy EXCEPT ![p] = [slot |-> i, rec |-> usr_shm[i]]]
  /\ UNCHANGED <<usr_shm, owner, npost, outgoing, events, cur, uqueue, sent, got, confirmed, expired, raced>>

\* v3_send_indirect / v5_send_indirect: a packet built from the copy goes to the
\* pipe (sendto blocks while the pipe is full).  Its header has the copy's servseq.
event_send_packet(p) ==
  /\ copy[p].slot # NoSlot
  /\ npost < MaxPosts
  /\ Len(outgoing) < PipeMax
  /\ npost' = npost + 1
  /\ outgoing' = Append(outgoing,
       [id |-> npost + 1, to_uin |-> copy[p].rec.uin, shm_index |-> copy[p].slot,
        to |-> copy[p].rec.usid, seq |-> copy[p].rec.servseq % SeqMod])
  /\ UNCHANGED <<usr_shm, owner, copy, events, cur, uqueue, sent, got, confirmed, expired, raced>>

\* ETimer's SIGALRM handler: a heartbeat each second.
ETimerTick ==
  /\ Len(events) < PipeMax
  /\ events' = Append(events, [mtype |-> "MESS_TIMEOUT"])
  /\ UNCHANGED <<usr_shm, owner, copy, npost, outgoing, cur, uqueue, sent, got, confirmed, expired, raced>>

\* The client at d's address acknowledges d, with its own uin, d's sequence and a
\* second one ("second can be zero"), and SP turns the ack packet into an event
\* (udp_process, process_ack_event).
UdpAck(d) ==
  /\ d.to \in Sessions
  /\ Len(events) < PipeMax
  /\ \E seq2 \in SecondSeqs :
       /\ got' = got \cup {[uin_number |-> owner[d.to], sum |-> d.seq + seq2]}
       /\ events' = Append(events,
            [mtype |-> "MESS_ACK", uin_number |-> owner[d.to],
             ack_stamp |-> AckNumber(owner[d.to], d.seq, seq2)])
  /\ UNCHANGED <<usr_shm, owner, copy, npost, outgoing, cur, uqueue, sent, confirmed, expired, raced>>

----------------------------------------------------------------------------
(* EPacket itself. *)

\* Mutant: the index is trusted without comparing the uin.
SlotsOfIndexOnly(uin, index) ==
  IF index \in Slots THEN {index} ELSE {i \in Slots : usr_shm[i].uin = uin}

\* The slot shm_iget_user finds: the packet's index if it still holds the user,
\* else any slot that does; none if the user has gone.
SlotsOf(uin, index) ==
  IF index \in Slots /\ usr_shm[index].uin = uin
    THEN {index}
    ELSE {i \in Slots : usr_shm[i].uin = uin}

\* epacket_receive_packet, then shm_iget_user: a packet for an absent user is dropped.
ReceivePacket ==
  /\ Idle
  /\ outgoing # <<>>
  /\ outgoing' = Tail(outgoing)
  /\ LET pack == Head(outgoing)
         slots == SlotsOf(pack.to_uin, pack.shm_index)
     IN  IF slots = {} THEN cur' = cur
         ELSE \E i \in slots : cur' = Found(i, pack)
  /\ UNCHANGED <<usr_shm, owner, copy, npost, events, uqueue, sent, got, confirmed, expired, raced>>

\* The record that EPacket's pointer shows to: the user found, or what came after.
user == usr_shm[cur.slot]
At(pc) == cur.slot # NoSlot /\ cur.pc = pc

\* epacket_process_packet reads the record's servseq for the stamp ...
StampPacket ==
  /\ At("found")
  /\ cur' = [cur EXCEPT !.pc = "stamped",
                        !.stamp = AckNumber(cur.pack.to_uin, user.servseq, 0)]
  /\ UNCHANGED <<usr_shm, owner, copy, npost, outgoing, events, uqueue, sent, got, confirmed, expired, raced>>

\* ... once more for the header (PutSeq3, PutSeq) ...
PutSeq ==
  /\ At("stamped")
  /\ cur' = [cur EXCEPT !.pc = "numbered", !.seq = user.servseq % SeqMod]
  /\ UNCHANGED <<usr_shm, owner, copy, npost, outgoing, events, uqueue, sent, got, confirmed, expired, raced>>

\* ... and increments it.
CountUp ==
  /\ At("numbered")
  /\ usr_shm' = [usr_shm EXCEPT ![cur.slot].servseq = @ + 1]
  /\ cur' = [cur EXCEPT !.pc = "counted"]
  /\ UNCHANGED <<owner, copy, npost, outgoing, events, uqueue, sent, got, confirmed, expired, raced>>

\* The packet as it is linked into the queue: the buffer keeps the PP's sequence,
\* the stamp is computed from the sequence EPacket assigns.
QueueRecord(pack, stamp) ==
  [id |-> pack.id, to_uin |-> pack.to_uin, seq |-> pack.seq,
   ack_stamp |-> stamp, retry_num |-> Retries, ctime_out |-> TimeOut]

\* Mutant: a relogin does not empty the queue.
AddToListKeepsOld(queue, usid, rec) ==
  [usid |-> usid, pqueue |-> queue.pqueue \cup {rec}]

\* add_packet_to_list: the user's queue, emptied first if it is of another session.
AddToList(queue, usid, rec) ==
  [usid |-> usid,
   pqueue |-> (IF queue.usid = usid THEN queue.pqueue ELSE {}) \cup {rec}]

Datagram(pack, to, seq, try) ==
  [id |-> pack.id, to_uin |-> pack.to_uin, to |-> to, seq |-> seq, try |-> try]

\* The packet is linked into the queue of the record's user (add_packet_to_list), and
\* goes to the address that the PP has put on it (udp_send_direct_packet).
LinkAndSend ==
  /\ At("counted")
  /\ uqueue' = [uqueue EXCEPT ![user.uin] =
                  AddToList(@, user.usid, QueueRecord(cur.pack, cur.stamp))]
  /\ sent' = sent \cup {Datagram(cur.pack, cur.pack.to, cur.seq, 0)}
  /\ cur' = NoWork
  /\ UNCHANGED <<usr_shm, owner, copy, npost, outgoing, events, got, confirmed, expired, raced>>

\* A queue without packets is unlinked and freed.
Trim(queue) == IF queue.pqueue = {} THEN NoQueue ELSE queue

\* Mutant: an acknowledgement covers all earlier packets, too.
AckedCumulative(queue, stamp) == {p \in queue.pqueue : p.ack_stamp <= stamp}

\* The packets of a queue that an acknowledgement confirms.
Acked(queue, stamp) == {p \in queue.pqueue : p.ack_stamp = stamp}

\* remove_packet_from_list: what is left of a queue once stamp is acknowledged.
RemoveFromList(queue, stamp) ==
  Trim([queue EXCEPT !.pqueue = @ \ Acked(queue, stamp)])

\* MESS_ACK.
ProcessAck ==
  /\ Idle
  /\ events # <<>> /\ Head(events).mtype = "MESS_ACK"
  /\ events' = Tail(events)
  /\ LET u == Head(events).uin_number
         stamp == Head(events).ack_stamp
     IN  /\ uqueue' = [uqueue EXCEPT ![u] = RemoveFromList(@, stamp)]
         /\ confirmed' = confirmed \cup {p.id : p \in Acked(uqueue[u], stamp)}
  /\ UNCHANGED <<usr_shm, owner, copy, npost, outgoing, cur, sent, got, expired, raced>>

\* user_pqueue_check for one packet: retransmit, or expire, or count down.
MustResend(p) == p.ctime_out = 0 /\ p.retry_num # 0

\* Mutant: retry_num is not decremented.
AfterResendForever(p) ==
  IF MustResend(p) THEN [p EXCEPT !.ctime_out = TimeOut] ELSE p
AfterResend(p) ==
  IF MustResend(p) THEN [p EXCEPT !.retry_num = @ - 1, !.ctime_out = TimeOut] ELSE p
IsExpired(p) == AfterResend(p).ctime_out = 0 /\ AfterResend(p).retry_num = 0
CountDown(p) ==
  LET q == AfterResend(p)
  IN  [q EXCEPT !.ctime_out = IF @ # 0 THEN @ - 1 ELSE @]

\* Mutant: an expired packet stays linked.
CheckedQueueKeepsExpired(queue) ==
  [queue EXCEPT !.pqueue = {CountDown(p) : p \in @}]

CheckedQueue(queue) ==
  [queue EXCEPT !.pqueue = {CountDown(p) : p \in {q \in @ : ~IsExpired(q)}}]

\* MESS_TIMEOUT: check_ack_list.
ProcessTimeout ==
  /\ Idle
  /\ events # <<>> /\ Head(events).mtype = "MESS_TIMEOUT"
  /\ events' = Tail(events)
  /\ uqueue' = [u \in DOMAIN uqueue |-> Trim(CheckedQueue(uqueue[u]))]
  /\ sent' = sent \cup UNION {
       {Datagram(p, uqueue[u].usid, p.seq, Retries - p.retry_num + 1) :
          p \in {q \in uqueue[u].pqueue : MustResend(q)}} : u \in DOMAIN uqueue}
  /\ expired' = expired \cup
       {p.id : p \in {q \in UNION {uqueue[u].pqueue : u \in DOMAIN uqueue} : IsExpired(q)}}
  /\ UNCHANGED <<usr_shm, owner, copy, npost, outgoing, cur, got, confirmed, raced>>

\* EPacket dies and SP forks a new one, which starts with an empty list
\* (init_packets_list).  Pipes and shared memory survive.
Restart ==
  /\ cur' = NoWork
  /\ uqueue' = [u \in DOMAIN uqueue |-> NoQueue]
  /\ UNCHANGED <<usr_shm, owner, copy, npost, outgoing, events, sent, got, confirmed, expired, raced>>

----------------------------------------------------------------------------
Next ==
  \/ \E u \in Uins : Login(u) \/ Logoff(u)
  \/ \E p \in PPs : event_send_packet(p) \/ \E u \in Uins : PPLookup(p, u)
  \/ ETimerTick
  \/ \E d \in sent : UdpAck(d)
  \/ ReceivePacket \/ StampPacket \/ PutSeq \/ CountUp \/ LinkAndSend
  \/ ProcessAck \/ ProcessTimeout
  \/ Restart

Spec == Init /\ [][Next]_vars

\* EPacket's loop never stops while it has input; the alarm fires each second and
\* its blocked write proceeds when the pipe has room.
Fairness ==
  /\ WF_vars(ReceivePacket) /\ WF_vars(StampPacket \/ PutSeq \/ CountUp \/ LinkAndSend)
  /\ WF_vars(ProcessAck) /\ WF_vars(ProcessTimeout)
  /\ SF_vars(ETimerTick)

FairSpec == Spec /\ Fairness

----------------------------------------------------------------------------
(* Types and properties. *)

Records == [uin : Uins \cup {NoUin}, usid : Nat, servseq : Nat]
Packs   == [id : Nat, to_uin : Uins \cup {NoUin}, shm_index : Slots \cup {NoSlot},
            to : Nat, seq : Nat]
QRecords == [id : Nat, to_uin : Uins \cup {NoUin}, seq : Nat, ack_stamp : Nat,
             retry_num : 0 .. Retries, ctime_out : 0 .. TimeOut]
Events == [mtype : {"MESS_TIMEOUT"}]
          \cup [mtype : {"MESS_ACK"}, uin_number : Uins, ack_stamp : Nat]

Datagrams == [id : Nat, to_uin : Uins \cup {NoUin}, to : Nat, seq : Nat, try : Nat]

Work == [slot : Slots \cup {NoSlot}, pc : {"found", "stamped", "numbered", "counted"},
         pack : Packs, stamp : Nat, seq : Nat]
Acks == [uin_number : Uins, sum : Nat]

\* Type invariant of the EPacket model.
TypeOK ==
  /\ usr_shm \in [Slots -> Records]
  /\ owner \in Seq(Uins)
  /\ copy \in [PPs -> [slot : Slots \cup {NoSlot}, rec : Records]]
  /\ npost \in Nat
  /\ outgoing \in Seq(Packs)
  /\ events \in Seq(Events)
  /\ cur \in Work
  /\ uqueue \in [Uins \cup {NoUin} -> [usid : Nat, pqueue : SUBSET QRecords]]
  /\ sent \subseteq Datagrams
  /\ got \subseteq Acks /\ confirmed \subseteq Nat /\ expired \subseteq Nat /\ raced \subseteq Nat

\* Two packets that wait for an ack of the same user never wait for the same stamp,
\* across relogins (servseq restarts at 0) and restarts of EPacket: one ack removes
\* at most one packet (generate_ack_number with add_packet_to_list's session check).
\* The exception: the user's record was rewritten while EPacket numbered one of them.
StampsDistinct ==
  \A u \in DOMAIN uqueue : \A p, q \in uqueue[u].pqueue :
    p.ack_stamp = q.ack_stamp /\ {p.id, q.id} \cap raced = {} => p = q

\* A datagram, first or retransmitted, only ever goes to an address of the user it was
\* written for (usr_queue_s.uin, "to whom we send pack"), however slots are reused
\* while the packet waits in the pipe or in the list, and also when another packet is
\* being processed with a record that is rewritten.  The exception are the
\* retransmissions of that other packet.
NoMisdelivery ==
  \A d \in sent : d.to \in Sessions /\ ~(d.id \in raced /\ d.try > 0) => owner[d.to] = d.to_uin

\* The inductive invariant behind the two properties above: session s belongs to
\* owner[s] wherever it is named.
OwnedBy(s, u) == s \in Sessions /\ owner[s] = u

ShmOwned ==
  /\ \A i \in Slots : IF usr_shm[i].uin = NoUin THEN usr_shm[i].usid = 0
                       ELSE OwnedBy(usr_shm[i].usid, usr_shm[i].uin)
  /\ \A i, j \in Slots : usr_shm[i].uin = usr_shm[j].uin /\ usr_shm[i].uin # NoUin => i = j

\* The packet being processed is of the user found, and its numbers are the record's,
\* unless the record was rewritten.
NumbersKept ==
  LET n == IF cur.pc = "counted" THEN user.servseq - 1 ELSE user.servseq
  IN  /\ n >= 0
      /\ user.uin = cur.pack.to_uin
      /\ cur.pc # "found" => cur.stamp = AckNumber(cur.pack.to_uin, n, 0)
      /\ cur.pc \in {"numbered", "counted"} => cur.seq = n % SeqMod
PacksOwned ==
  /\ \A p \in PPs : copy[p].slot # NoSlot => OwnedBy(copy[p].rec.usid, copy[p].rec.uin)
  /\ \A k \in 1 .. Len(outgoing) : OwnedBy(outgoing[k].to, outgoing[k].to_uin)
  /\ cur.slot # NoSlot => /\ OwnedBy(cur.pack.to, cur.pack.to_uin)
                          /\ cur.pack.id \notin raced => NumbersKept
QueuesOwned ==
  \A u \in DOMAIN uqueue :
    /\ uqueue[u].usid = 0 \/ OwnedBy(uqueue[u].usid, u)
    /\ \A p \in uqueue[u].pqueue :
         p.id \notin raced => p.to_uin = u /\ OwnedBy(uqueue[u].usid, u)
SentOwned == \A d \in sent : d.id \notin raced \/ d.try = 0 => OwnedBy(d.to, d.to_uin)

\* The packets in a queue were all numbered in the session the queue is for: no
\* stamp exceeds the servseq that session has reached, nor is it the stamp of the
\* packet being processed.
QueueOfOneSession ==
  \A u \in Uins : \A p \in uqueue[u].pqueue : \A i \in Slots :
    p.id \notin raced /\ usr_shm[i].usid = uqueue[u].usid /\ uqueue[u].usid # 0 =>
      /\ usr_shm[i].uin = u
      /\ p.ack_stamp < AckNumber(u, usr_shm[i].servseq, 0)
      /\ At("counted") /\ cur.slot = i /\ cur.pack.id \notin raced => p.ack_stamp < cur.stamp

DeliveryInv ==
  ShmOwned /\ PacksOwned /\ QueuesOwned /\ SentOwned /\ QueueOfOneSession /\ StampsDistinct

\* A packet is given up only after it was sent once and retransmitted v3_retries
\* times, and never after its ack was processed (user_pqueue_check).
ExpiredWasExhausted ==
  \A k \in expired : /\ {d.try : d \in {e \in sent : e.id = k}} = 0 .. Retries
                     /\ k \notin confirmed

\* A packet is removed by an ack only if its user received some datagram and answered
\* it with two numbers whose sum is that of the packet's first transmission
\* (epacket_process_event: "we should remove confirmed packet from list").  It need
\* not be a datagram of that packet: servseq restarts with each session,
\* retransmissions carry the number of another, and so does an ack whose second
\* sequence is not zero.  The exception: the packet's record was rewritten while
\* EPacket numbered it.
ConfirmedByItsNumber ==
  \A k \in confirmed \ raced : \E d \in sent, a \in got :
    /\ d.id = k /\ d.try = 0
    /\ a.uin_number = d.to_uin /\ a.sum % SeqMod = d.seq

\* What was confirmed or expired is never transmitted again, nor relinked.
DoneIsDone ==
  [][\A k \in confirmed \cup expired :
       /\ k \notin {p.id : p \in UNION {uqueue'[u].pqueue : u \in DOMAIN uqueue'}}
       /\ \A d \in sent' \ sent : d.id # k]_vars

\* Every packet leaves the list: it is confirmed, expires, or its session ends.
EveryPacketLeaves == \A k \in 1 .. MaxPosts : k \in Queued ~> k \notin Queued

=============================================================================
