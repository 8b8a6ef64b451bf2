--------------------------- MODULE EPacketProofs ---------------------------
(***************************************************************************)
(* Proofs about EPacket: type correctness; that a packet is given up only  *)
(* when it was transmitted as often as configured, and is not transmitted  *)
(* once it is done; and, with logins and logoffs that rewrite the records  *)
(* EPacket is working on at any moment, that stamps identify packets, that *)
(* what an ack removes was transmitted with the number received, and that  *)
(* no datagram goes to another user's address, of every packet but those   *)
(* whose own record was rewritten.                                         *)
(***************************************************************************)
EXTENDS EPacket, TLAPS, SequenceTheorems

USE DEF NoUin, Hole

----------------------------------------------------------------------------
(* What the helpers return. *)

LEMMA SlotFacts ==
  /\ NoSlot \notin Slots
  /\ NoSlot \in Nat /\ Slots \subseteq Nat
BY ConfAssumption DEF NoSlot, Slots

LEMMA AfterResendType ==
  ASSUME NEW p \in QRecords
  PROVE  /\ AfterResend(p) \in QRecords
         /\ CountDown(p) \in QRecords
         /\ CountDown(p).id = p.id /\ CountDown(p).to_uin = p.to_uin
         /\ CountDown(p).seq = p.seq /\ CountDown(p).ack_stamp = p.ack_stamp
<1>1. AfterResend(p) \in QRecords
  <2>1. CASE MustResend(p)
    <3>1. p.retry_num - 1 \in 0 .. Retries /\ TimeOut \in 0 .. TimeOut
      BY <2>1, ConfAssumption DEF MustResend, QRecords
    <3>2. AfterResend(p) = [p EXCEPT !.retry_num = p.retry_num - 1, !.ctime_out = TimeOut]
      BY <2>1 DEF AfterResend
    <3> QED BY <3>1, <3>2 DEF QRecords
  <2>2. CASE ~MustResend(p)
    BY <2>2 DEF AfterResend
  <2> QED BY <2>1, <2>2
<1>2. /\ AfterResend(p).id = p.id /\ AfterResend(p).to_uin = p.to_uin
      /\ AfterResend(p).seq = p.seq /\ AfterResend(p).ack_stamp = p.ack_stamp
  BY DEF AfterResend, QRecords
<1>3. ASSUME NEW q \in QRecords
      PROVE  [q EXCEPT !.ctime_out = IF @ # 0 THEN @ - 1 ELSE @] \in QRecords
  BY <1>3, ConfAssumption DEF QRecords
<1>4. CountDown(p) = [AfterResend(p) EXCEPT !.ctime_out = IF @ # 0 THEN @ - 1 ELSE @]
  BY DEF CountDown
<1>5. CountDown(p) \in QRecords
  BY <1>1, <1>3, <1>4
<1>6. /\ CountDown(p).id = AfterResend(p).id
      /\ CountDown(p).to_uin = AfterResend(p).to_uin
      /\ CountDown(p).seq = AfterResend(p).seq
      /\ CountDown(p).ack_stamp = AfterResend(p).ack_stamp
  BY <1>1, <1>4 DEF QRecords
<1> QED BY <1>1, <1>2, <1>5, <1>6

LEMMA UinsNat == Uins \cup {NoUin} \subseteq Nat
BY UinsAssumption

LEMMA ModType ==
  ASSUME NEW n \in Nat PROVE n % SeqMod \in Nat
BY ConfAssumption

LEMMA StampType ==
  ASSUME NEW u \in Uins \cup {NoUin}, NEW s \in Nat
  PROVE  AckNumber(u, s, 0) \in Nat
BY UinsNat DEF AckNumber

LEMMA QueueRecordType ==
  ASSUME NEW pack \in Packs, NEW stamp \in Nat
  PROVE  QueueRecord(pack, stamp) \in QRecords
<1>1. Retries \in 0 .. Retries /\ TimeOut \in 0 .. TimeOut
  BY ConfAssumption
<1> QED BY <1>1 DEF QueueRecord, QRecords, Packs

LEMMA NoWorkType == NoWork \in Work
BY ConfAssumption DEF NoWork, Found, NoPack, Packs, Work

\* What EPacket works on, and what Login and Logoff add to raced.
LEMMA WorkFacts ==
  ASSUME TypeOK
  PROVE  /\ cur.pack \in Packs /\ cur.pack.id \in Nat /\ cur.stamp \in Nat /\ cur.seq \in Nat
         /\ cur.slot # NoSlot => cur.slot \in Slots /\ user \in Records
         /\ \A i : Through(i) \subseteq Nat
BY DEF TypeOK, Work, Packs, user, Through

Queues == [usid : Nat, pqueue : SUBSET QRecords]

LEMMA QueueOps ==
  ASSUME NEW q \in Queues
  PROVE  /\ Trim(q) \in Queues
         /\ Trim(q).pqueue = q.pqueue
         /\ Trim(q) = q \/ Trim(q) = NoQueue
         /\ CheckedQueue(q) \in Queues
         /\ CheckedQueue(q).usid = q.usid
         /\ \A r \in CheckedQueue(q).pqueue :
              \E p \in q.pqueue : r = CountDown(p)
         /\ \A stamp : /\ RemoveFromList(q, stamp) \in Queues
                       /\ RemoveFromList(q, stamp).pqueue \subseteq q.pqueue
                       /\ RemoveFromList(q, stamp).usid \in {q.usid, 0}
BY AfterResendType DEF Queues, Trim, NoQueue, CheckedQueue, RemoveFromList

LEMMA TypeStep == TypeOK /\ [Next]_vars => TypeOK'
<1> SUFFICES ASSUME TypeOK, [Next]_vars PROVE TypeOK'
  OBVIOUS
<1> USE DEF TypeOK
<1>1. ASSUME NEW u \in Uins, Login(u) PROVE TypeOK'
  <2>1. PICK i \in Slots :
          /\ usr_shm' = [usr_shm EXCEPT ![i] = [uin |-> u, usid |-> Len(owner) + 1, servseq |-> 0]]
          /\ raced' = raced \cup Through(i)
    BY <1>1 DEF Login
  <2>2. Len(owner) + 1 \in Nat
    OBVIOUS
  <2>3. [uin |-> u, usid |-> Len(owner) + 1, servseq |-> 0] \in Records
    BY <2>2 DEF Records
  <2>4. usr_shm' \in [Slots -> Records]
    BY <2>1, <2>3
  <2>5. raced' \subseteq Nat
    BY <2>1, WorkFacts
  <2>6. owner' \in Seq(Uins)
    BY <1>1 DEF Login
  <2>7. UNCHANGED <<copy, npost, outgoing, events, cur, uqueue, sent, got, confirmed, expired>>
    BY <1>1 DEF Login
  <2> QED BY <2>4, <2>5, <2>6, <2>7
<1>2. ASSUME NEW u \in Uins, Logoff(u) PROVE TypeOK'
  <2>1. PICK i \in Slots : /\ usr_shm' = [usr_shm EXCEPT ![i] = Hole]
                           /\ raced' = raced \cup Through(i)
    BY <1>2 DEF Logoff
  <2>2. Hole \in Records
    BY DEF Hole, Records
  <2>3. usr_shm' \in [Slots -> Records]
    BY <2>1, <2>2
  <2>4. raced' \subseteq Nat
    BY <2>1, WorkFacts
  <2>5. UNCHANGED <<owner, copy, npost, outgoing, events, cur, uqueue, sent, got, confirmed, expired>>
    BY <1>2 DEF Logoff
  <2> QED BY <2>3, <2>4, <2>5
<1>3. ASSUME NEW p \in PPs, event_send_packet(p) PROVE TypeOK'
  <2>1. copy[p] \in [slot : Slots \cup {NoSlot}, rec : Records]
    OBVIOUS
  <2>2. /\ copy[p].rec.servseq \in Nat /\ copy[p].rec.usid \in Nat
        /\ copy[p].rec.uin \in Uins \cup {NoUin}
        /\ copy[p].slot \in Slots \cup {NoSlot}
    BY <2>1 DEF Records
  <2>3. copy[p].rec.servseq % SeqMod \in Nat /\ npost + 1 \in Nat
    <3>1. copy[p].rec.servseq % SeqMod \in Nat
      BY <2>2, ModType
    <3> QED BY <3>1
  <2>4. [id |-> npost + 1, to_uin |-> copy[p].rec.uin, shm_index |-> copy[p].slot,
         to |-> copy[p].rec.usid, seq |-> copy[p].rec.servseq % SeqMod] \in Packs
    BY <2>2, <2>3 DEF Packs
  <2> QED BY <1>3, <2>3, <2>4 DEF event_send_packet
<1>4. ASSUME NEW p \in PPs, NEW u \in Uins, PPLookup(p, u) PROVE TypeOK'
  BY <1>4 DEF PPLookup
<1>5. CASE ETimerTick
  <2>1. [mtype |-> "MESS_TIMEOUT"] \in Events
    BY DEF Events
  <2> QED BY <1>5, <2>1 DEF ETimerTick
<1>6. ASSUME NEW d \in sent, UdpAck(d) PROVE TypeOK'
  <2>0. d \in Datagrams
    OBVIOUS
  <2>1. owner[d.to] \in Uins /\ d.seq \in Nat
    BY <1>6, <2>0 DEF UdpAck, Sessions, Datagrams
  <2>2. PICK seq2 \in SecondSeqs :
          /\ got' = got \cup {[uin_number |-> owner[d.to], sum |-> d.seq + seq2]}
          /\ events' = Append(events,
               [mtype |-> "MESS_ACK", uin_number |-> owner[d.to],
                ack_stamp |-> AckNumber(owner[d.to], d.seq, seq2)])
    BY <1>6 DEF UdpAck
  <2>3. seq2 \in Nat /\ AckNumber(owner[d.to], d.seq, seq2) \in Nat
    BY <2>1, UinsNat, SeqsAssumption DEF AckNumber
  <2>4. [mtype |-> "MESS_ACK", uin_number |-> owner[d.to],
         ack_stamp |-> AckNumber(owner[d.to], d.seq, seq2)] \in Events
    BY <2>1, <2>3 DEF Events
  <2>5. events' \in Seq(Events)
    BY <2>2, <2>4
  <2>6. got' \subseteq Acks
    BY <2>1, <2>2, <2>3 DEF Acks
  <2> QED BY <1>6, <2>5, <2>6 DEF UdpAck
<1>7. CASE ReceivePacket
  <2>0. outgoing # <<>>
    BY <1>7 DEF ReceivePacket
  <2>1. Head(outgoing) \in Packs /\ Tail(outgoing) \in Seq(Packs)
    BY <2>0
  <2>2. SlotsOf(Head(outgoing).to_uin, Head(outgoing).shm_index) \subseteq Slots
    BY DEF SlotsOf
  <2>3. \A i \in Slots : Found(i, Head(outgoing)) \in Work
    BY <2>1 DEF Work, Found
  <2> QED BY <1>7, <2>1, <2>2, <2>3 DEF ReceivePacket
<1>8a. CASE StampPacket
  <2>1. AckNumber(cur.pack.to_uin, user.servseq, 0) \in Nat
    BY <1>8a, WorkFacts, StampType DEF StampPacket, At, Packs, Records
  <2>2. cur' \in Work
    BY <1>8a, <2>1 DEF StampPacket, Work
  <2> QED BY <1>8a, <2>2 DEF StampPacket
<1>8b. CASE PutSeq
  <2>1. user.servseq % SeqMod \in Nat
    BY <1>8b, WorkFacts, ModType DEF PutSeq, At, Records
  <2>2. cur' \in Work
    BY <1>8b, <2>1 DEF PutSeq, Work
  <2> QED BY <1>8b, <2>2 DEF PutSeq
<1>8c. CASE CountUp
  <2>1. cur.slot \in Slots /\ user \in Records
    BY <1>8c, WorkFacts DEF CountUp, At
  <2>2. [user EXCEPT !.servseq = @ + 1] \in Records
    <3>1. user.servseq + 1 \in Nat
      BY <2>1 DEF Records
    <3> QED BY <2>1, <3>1 DEF Records
  <2>3. usr_shm' = [usr_shm EXCEPT ![cur.slot] = [user EXCEPT !.servseq = @ + 1]]
    BY <1>8c DEF CountUp, user
  <2>4. usr_shm' \in [Slots -> Records]
    BY <2>1, <2>2, <2>3
  <2>5. cur' \in Work
    BY <1>8c DEF CountUp, Work
  <2> QED BY <1>8c, <2>4, <2>5 DEF CountUp
<1>8d. CASE LinkAndSend
  <2> DEFINE rec == QueueRecord(cur.pack, cur.stamp)
  <2>1. user \in Records /\ cur.pack \in Packs /\ cur.seq \in Nat
    BY <1>8d, WorkFacts DEF LinkAndSend, At
  <2>2. rec \in QRecords
    BY WorkFacts, QueueRecordType
  <2>3. AddToList(uqueue[user.uin], user.usid, rec) \in Queues
    BY <2>1, <2>2 DEF AddToList, Queues, Records
  <2>4. Datagram(cur.pack, cur.pack.to, cur.seq, 0) \in Datagrams
    BY <2>1 DEF Datagram, Datagrams, Packs
  <2>5. uqueue' \in [Uins \cup {NoUin} -> Queues]
    BY <1>8d, <2>1, <2>3 DEF LinkAndSend, Queues
  <2> QED BY <1>8d, <2>4, <2>5, NoWorkType DEF LinkAndSend, Queues
<1>9. CASE ProcessAck
  <2> DEFINE u == Head(events).uin_number
             stamp == Head(events).ack_stamp
             acked == Acked(uqueue[u], stamp)
  <2>1. Head(events) \in Events /\ Tail(events) \in Seq(Events)
    BY <1>9 DEF ProcessAck
  <2>2. u \in Uins
    BY <1>9, <2>1 DEF ProcessAck, Events
  <2>3. uqueue[u] \in Queues
    BY <2>2 DEF Queues
  <2>4. RemoveFromList(uqueue[u], stamp) \in Queues
    BY <2>3, QueueOps
  <2>5. uqueue' = [uqueue EXCEPT ![u] = RemoveFromList(uqueue[u], stamp)]
    BY <1>9 DEF ProcessAck
  <2>6. uqueue \in [Uins \cup {NoUin} -> Queues]
    BY DEF Queues
  <2>7. uqueue' \in [Uins \cup {NoUin} -> Queues]
    BY <2>2, <2>4, <2>5, <2>6
  <2>8. {p.id : p \in acked} \subseteq Nat
    BY <2>3 DEF Queues, QRecords, Acked
  <2> QED BY <1>9, <2>1, <2>7, <2>8 DEF ProcessAck, Queues
<1>10. CASE ProcessTimeout
  <2>1. \A u \in Uins \cup {NoUin} : Trim(CheckedQueue(uqueue[u])) \in Queues
    BY QueueOps DEF Queues
  <2>2. uqueue' \in [Uins \cup {NoUin} -> Queues]
    BY <1>10, <2>1 DEF ProcessTimeout
  <2>3. ASSUME NEW u \in Uins \cup {NoUin}, NEW p \in uqueue[u].pqueue
        PROVE  /\ p.id \in Nat
               /\ Datagram(p, uqueue[u].usid, p.seq, Retries - p.retry_num + 1)
                    \in Datagrams
    BY SMTT(30), <2>3, ConfAssumption DEF QRecords, Datagram, Datagrams
  <2>4. sent' \subseteq Datagrams
    BY <1>10, <2>3 DEF ProcessTimeout
  <2>5. expired' \subseteq Nat
    <3>1. \A q \in UNION {uqueue[u].pqueue : u \in DOMAIN uqueue} : q.id \in Nat
      BY <2>3
    <3>2. expired' = expired \cup {p.id : p \in
            {q \in UNION {uqueue[u].pqueue : u \in DOMAIN uqueue} : IsExpired(q)}}
      BY <1>10 DEF ProcessTimeout
    <3> QED BY <3>1, <3>2
  <2>6. Tail(events) \in Seq(Events)
    BY <1>10 DEF ProcessTimeout
  <2> QED BY <1>10, <2>2, <2>4, <2>5, <2>6 DEF ProcessTimeout, Queues
<1>11. CASE Restart
  <2> QED BY <1>11, NoWorkType DEF Restart, NoQueue
<1>12. CASE UNCHANGED vars
  BY <1>12 DEF vars
<1> QED BY <1>1, <1>2, <1>3, <1>4, <1>5, <1>6, <1>7, <1>8a, <1>8b, <1>8c, <1>8d,
           <1>9, <1>10, <1>11, <1>12 DEF Next

\* TypeOK holds in every behaviour of Spec, for all constants: the model's state
\* keeps the shape of the C structures it stands for (usr_shm, usr_queue_s, pipes).
THEOREM TypeCorrect == Spec => []TypeOK
<1>1. Init => TypeOK
  BY SlotFacts, NoWorkType, ConfAssumption, UinsAssumption
  DEF Init, TypeOK, Records, NoCopy, NoQueue
<1> QED BY <1>1, TypeStep, PTL DEF Spec

----------------------------------------------------------------------------
(* The delivery invariant. *)

LEMMA OwnedGrows ==
  ASSUME TypeOK, NEW s, NEW u, OwnedBy(s, u),
         owner' = owner \/ \E w \in Uins : owner' = Append(owner, w)
  PROVE  OwnedBy(s, u)'
<1>1. s \in 1 .. Len(owner) /\ owner[s] = u /\ owner \in Seq(Uins)
  BY DEF OwnedBy, Sessions, TypeOK
<1>2. CASE owner' = owner
  BY <1>1, <1>2 DEF OwnedBy, Sessions
<1>3. ASSUME NEW w \in Uins, owner' = Append(owner, w)
      PROVE  OwnedBy(s, u)'
  <2>1. Len(owner') = Len(owner) + 1 /\ owner'[s] = owner[s]
    BY <1>1, <1>3
  <2> QED BY <1>1, <2>1 DEF OwnedBy, Sessions
<1> QED BY <1>2, <1>3

LEMMA DeliveryInit == Init => DeliveryInv
BY DEF Init, DeliveryInv, ShmOwned, PacksOwned, QueuesOwned, SentOwned,
       QueueOfOneSession, StampsDistinct, NoCopy, NoWork, Found, NoQueue, OwnedBy

\* Actions that touch neither a record, the list nor the datagrams, and do not take
\* EPacket past the increment.
LEMMA DeliveryFrame ==
  ASSUME TypeOK, DeliveryInv, UNCHANGED <<usr_shm, owner, uqueue, sent, raced>>,
         cur' = cur \/ cur'.pc # "counted"
  PROVE  ShmOwned' /\ QueuesOwned' /\ SentOwned' /\ QueueOfOneSession' /\ StampsDistinct'
BY DEF DeliveryInv, ShmOwned, QueuesOwned, SentOwned, QueueOfOneSession,
       StampsDistinct, OwnedBy, Sessions, At

\* What is known of a packet while its record is left alone.
LEMMA NumbersStay ==
  ASSUME NumbersKept, UNCHANGED cur, usr_shm'[cur.slot] = usr_shm[cur.slot]
  PROVE  NumbersKept'
BY DEF NumbersKept, user

LEMMA DeliveryStep == TypeOK /\ DeliveryInv /\ [Next]_vars => DeliveryInv'
<1> SUFFICES ASSUME TypeOK, DeliveryInv, [Next]_vars PROVE DeliveryInv'
  OBVIOUS
<1>t. TypeOK'
  BY TypeStep
<1>1. ASSUME NEW u \in Uins, Login(u) PROVE DeliveryInv'
  <2>1. PICK i \in Slots :
          /\ usr_shm[i].uin = NoUin
          /\ usr_shm' = [usr_shm EXCEPT ![i] =
                           [uin |-> u, usid |-> Len(owner) + 1, servseq |-> 0]]
          /\ raced' = raced \cup Through(i)
    BY <1>1 DEF Login
  <2> PICK n \in Nat : n = Len(owner) + 1
    BY DEF TypeOK
  <2>2. owner' = Append(owner, u) /\ \A j \in Slots : usr_shm[j].uin # u
    BY <1>1 DEF Login
  <2>3. OwnedBy(n, u)' /\ n \notin Sessions /\ n # 0
    <3>1. Len(owner') = n /\ owner'[n] = u
      BY <2>2 DEF TypeOK
    <3> QED BY <3>1 DEF OwnedBy, Sessions, TypeOK
  <2>4. \A s, w : OwnedBy(s, w) => OwnedBy(s, w)'
    BY <2>2, OwnedGrows
  <2>5. u # NoUin
    BY UinsAssumption
  <2>6. ShmOwned'
    <3>1. /\ usr_shm'[i].uin = u /\ usr_shm'[i].usid = n
          /\ \A j \in Slots : j # i => usr_shm'[j] = usr_shm[j]
      BY <2>1 DEF TypeOK
    <3> QED BY <2>2, <2>3, <2>4, <2>5, <3>1 DEF DeliveryInv, ShmOwned
  <2>7. PacksOwned'
    <3>1. ASSUME cur.slot # NoSlot, cur.pack.id \notin raced'
          PROVE  cur.slot # i /\ cur.pack.id \notin raced /\ cur.slot \in Slots
      BY <2>1, <3>1, WorkFacts DEF Through
    <3>2. ASSUME cur.slot # NoSlot, cur.pack.id \notin raced' PROVE NumbersKept'
      <4>1. usr_shm'[cur.slot] = usr_shm[cur.slot]
        BY <2>1, <3>1, <3>2 DEF TypeOK
      <4>2. NumbersKept
        BY <3>1, <3>2 DEF DeliveryInv, PacksOwned
      <4> QED BY <1>1, <4>1, <4>2, NumbersStay DEF Login
    <3> QED BY <1>1, <2>4, <3>2 DEF Login, DeliveryInv, PacksOwned
  <2>8. QueuesOwned'
    BY <1>1, <2>1, <2>4 DEF Login, DeliveryInv, QueuesOwned
  <2>9. SentOwned'
    BY <1>1, <2>1, <2>4 DEF Login, DeliveryInv, SentOwned
  <2>10. QueueOfOneSession'
    <3>1. \A v \in Uins : uqueue[v].usid # 0 => uqueue[v].usid \in Sessions
      BY DEF DeliveryInv, QueuesOwned, OwnedBy, TypeOK
    <3>2. uqueue' = uqueue /\ usr_shm'[i].usid = n /\ cur' = cur /\ raced \subseteq raced'
          /\ \A j \in Slots : j # i => usr_shm'[j] = usr_shm[j]
      BY <1>1, <2>1 DEF Login, TypeOK
    <3> QED BY <2>3, <3>1, <3>2 DEF DeliveryInv, QueueOfOneSession, At
  <2>11. StampsDistinct'
    BY <1>1, <2>1 DEF Login, DeliveryInv, StampsDistinct
  <2> QED BY <2>6, <2>7, <2>8, <2>9, <2>10, <2>11 DEF DeliveryInv
<1>2. ASSUME NEW u \in Uins, Logoff(u) PROVE DeliveryInv'
  <2>1. PICK i \in Slots : /\ usr_shm' = [usr_shm EXCEPT ![i] = Hole]
                           /\ raced' = raced \cup Through(i)
    BY <1>2 DEF Logoff
  <2>2. UNCHANGED <<owner, copy, outgoing, uqueue, sent, cur>>
    BY <1>2 DEF Logoff
  <2>3. /\ usr_shm'[i].usid = 0 /\ usr_shm'[i].uin = NoUin /\ raced \subseteq raced'
        /\ \A j \in Slots : j # i => usr_shm'[j] = usr_shm[j]
    BY <2>1 DEF TypeOK
  <2>4. \A s, w : OwnedBy(s, w) => OwnedBy(s, w)'
    BY <2>2 DEF OwnedBy, Sessions
  <2>5. ShmOwned'
    BY <2>3, <2>4 DEF DeliveryInv, ShmOwned
  <2>6. PacksOwned'
    <3>1. ASSUME cur.slot # NoSlot, cur.pack.id \notin raced' PROVE NumbersKept'
      <4>1. cur.slot # i /\ cur.pack.id \notin raced /\ cur.slot \in Slots
        BY <2>1, <3>1, WorkFacts DEF Through
      <4>2. NumbersKept
        BY <3>1, <4>1 DEF DeliveryInv, PacksOwned
      <4> QED BY <2>2, <2>3, <4>1, <4>2, NumbersStay
    <3> QED BY <2>2, <2>4, <3>1 DEF DeliveryInv, PacksOwned
  <2>7. QueuesOwned' /\ SentOwned'
    BY <2>2, <2>3, <2>4 DEF DeliveryInv, QueuesOwned, SentOwned
  <2>8. QueueOfOneSession'
    BY <2>2, <2>3 DEF DeliveryInv, QueueOfOneSession, At
  <2>9. StampsDistinct'
    BY <2>2, <2>3 DEF DeliveryInv, StampsDistinct
  <2> QED BY <2>5, <2>6, <2>7, <2>8, <2>9 DEF DeliveryInv
<1>3. ASSUME NEW p \in PPs, event_send_packet(p) PROVE DeliveryInv'
  <2> DEFINE pack == [id |-> npost + 1, to_uin |-> copy[p].rec.uin,
                      shm_index |-> copy[p].slot, to |-> copy[p].rec.usid,
                      seq |-> copy[p].rec.servseq % SeqMod]
  <2>1. outgoing' = Append(outgoing, pack) /\ OwnedBy(pack.to, pack.to_uin)
    BY <1>3 DEF event_send_packet, DeliveryInv, PacksOwned
  <2>2. UNCHANGED <<usr_shm, owner, copy, cur, uqueue, sent, raced>>
    BY <1>3 DEF event_send_packet
  <2>3. \A k \in 1 .. Len(outgoing') : OwnedBy(outgoing'[k].to, outgoing'[k].to_uin)
    <3> HIDE DEF pack
    <3> SUFFICES ASSUME NEW k \in 1 .. Len(outgoing')
                 PROVE  OwnedBy(outgoing'[k].to, outgoing'[k].to_uin)
      OBVIOUS
    <3>1. CASE k = Len(outgoing) + 1
      BY <2>1, <3>1 DEF TypeOK
    <3>2. CASE k \in 1 .. Len(outgoing)
      BY <2>1, <3>2 DEF TypeOK, DeliveryInv, PacksOwned
    <3> QED BY <2>1, <3>1, <3>2 DEF TypeOK
  <2>4. PacksOwned'
    BY <2>2, <2>3, NumbersStay DEF DeliveryInv, PacksOwned, OwnedBy, Sessions
  <2> QED BY <2>2, <2>4, DeliveryFrame DEF DeliveryInv
<1>4. ASSUME NEW p \in PPs, NEW u \in Uins, PPLookup(p, u) PROVE DeliveryInv'
  <2>1. UNCHANGED <<usr_shm, owner, outgoing, cur, uqueue, sent, raced>>
    BY <1>4 DEF PPLookup
  <2>2. PICK i \in Slots : /\ usr_shm[i].uin = u
                           /\ copy' = [copy EXCEPT ![p] = [slot |-> i, rec |-> usr_shm[i]]]
    BY <1>4 DEF PPLookup
  <2>3. OwnedBy(usr_shm[i].usid, u)
    BY <2>2, UinsAssumption DEF DeliveryInv, ShmOwned
  <2>4. PacksOwned'
    BY <2>1, <2>2, <2>3, NumbersStay DEF DeliveryInv, PacksOwned, OwnedBy, Sessions, TypeOK
  <2> QED BY <2>1, <2>4, DeliveryFrame DEF DeliveryInv
<1>5. ASSUME UNCHANGED <<usr_shm, owner, copy, outgoing, cur, uqueue, sent, raced>>
      PROVE  DeliveryInv'
  <2>1. PacksOwned'
    BY <1>5, NumbersStay DEF DeliveryInv, PacksOwned, OwnedBy, Sessions
  <2> QED BY <1>5, <2>1, DeliveryFrame DEF DeliveryInv
<1>5a. CASE ETimerTick
  BY <1>5, <1>5a DEF ETimerTick
<1>5b. ASSUME NEW d \in sent, UdpAck(d) PROVE DeliveryInv'
  BY <1>5, <1>5b DEF UdpAck
<1>5c. CASE UNCHANGED vars
  BY <1>5, <1>5c DEF vars
<1>6. CASE ReceivePacket
  <2>1. UNCHANGED <<usr_shm, owner, copy, uqueue, sent, raced>>
    BY <1>6 DEF ReceivePacket
  <2>0. outgoing # <<>>
    BY <1>6 DEF ReceivePacket
  <2>2. Len(outgoing) >= 1 /\ Head(outgoing) = outgoing[1]
    BY <2>0 DEF TypeOK
  <2>3. OwnedBy(Head(outgoing).to, Head(outgoing).to_uin)
    <3>1. \A k \in 1 .. Len(outgoing) : OwnedBy(outgoing[k].to, outgoing[k].to_uin)
      BY DEF DeliveryInv, PacksOwned
    <3>2. Len(outgoing) \in Nat
      BY DEF TypeOK
    <3>3. 1 \in 1 .. Len(outgoing)
      BY <2>2, <3>2
    <3> QED BY <2>2, <3>1, <3>3
  <2>4. \A k \in 1 .. Len(outgoing') : OwnedBy(outgoing'[k].to, outgoing'[k].to_uin)
    <3>1. outgoing' = Tail(outgoing) /\ outgoing # <<>>
      BY <1>6 DEF ReceivePacket
    <3>2. \A k \in 1 .. Len(outgoing') : outgoing'[k] = outgoing[k + 1]
                                         /\ k + 1 \in 1 .. Len(outgoing)
      BY <3>1 DEF TypeOK
    <3> QED BY <3>2 DEF DeliveryInv, PacksOwned
  <2>5. cur' = cur \/ cur'.pc = "found"
    BY <1>6 DEF ReceivePacket, NoWork, Found
  <2>6. cur'.slot # NoSlot => /\ OwnedBy(cur'.pack.to, cur'.pack.to_uin)
                              /\ usr_shm[cur'.slot].uin = cur'.pack.to_uin
                              /\ cur'.slot \in Slots /\ cur'.pc = "found"
    <3>1. \A i \in SlotsOf(Head(outgoing).to_uin, Head(outgoing).shm_index) :
             usr_shm[i].uin = Head(outgoing).to_uin /\ i \in Slots
      BY DEF SlotsOf
    <3>2. cur.slot = NoSlot
      BY <1>6 DEF ReceivePacket, Idle
    <3>3. CASE cur' = cur
      BY <3>2, <3>3
    <3>4. ASSUME NEW i \in SlotsOf(Head(outgoing).to_uin, Head(outgoing).shm_index),
                 cur' = Found(i, Head(outgoing))
          PROVE  /\ cur'.slot = i /\ cur'.pack = Head(outgoing) /\ cur'.pc = "found"
      BY <3>4 DEF NoWork, Found
    <3> QED BY <1>6, <2>3, <3>1, <3>3, <3>4 DEF ReceivePacket
  <2>7. cur'.slot # NoSlot => NumbersKept'
    <3> SUFFICES ASSUME cur'.slot # NoSlot PROVE NumbersKept'
      OBVIOUS
    <3>1. usr_shm[cur'.slot] \in Records
      BY <2>6 DEF TypeOK
    <3> QED BY <2>1, <2>6, <3>1 DEF NumbersKept, user, Records
  <2>8. PacksOwned'
    BY <2>1, <2>4, <2>6, <2>7 DEF DeliveryInv, PacksOwned, OwnedBy, Sessions
  <2> QED BY <2>1, <2>5, <2>8, DeliveryFrame DEF DeliveryInv
\* EPacket reads the record.
<1>6a. ASSUME UNCHANGED <<usr_shm, owner, copy, outgoing, uqueue, sent, raced>>,
              cur'.slot = cur.slot, cur'.pack = cur.pack, cur'.pc # "counted",
              NumbersKept => NumbersKept'
       PROVE  DeliveryInv'
  <2>1. PacksOwned'
    BY <1>6a DEF DeliveryInv, PacksOwned, OwnedBy, Sessions
  <2> QED BY <1>6a, <2>1, DeliveryFrame DEF DeliveryInv
<1>6b. CASE StampPacket
  <2>1. cur' = [cur EXCEPT !.pc = "stamped", !.stamp = AckNumber(cur.pack.to_uin, user.servseq, 0)]
        /\ cur.pc = "found" /\ cur.slot \in Slots /\ user \in Records
    BY <1>6b, WorkFacts DEF StampPacket, At
  <2>2. /\ cur'.slot = cur.slot /\ cur'.pack = cur.pack /\ cur'.pc = "stamped"
        /\ cur'.stamp = AckNumber(cur.pack.to_uin, user.servseq, 0)
    BY <2>1 DEF TypeOK, Work
  <2>3. UNCHANGED <<usr_shm, owner, copy, outgoing, uqueue, sent, raced>>
    BY <1>6b DEF StampPacket
  <2>4. NumbersKept => NumbersKept'
    BY <2>1, <2>2, <2>3 DEF NumbersKept, user
  <2> QED BY <1>6a, <2>2, <2>3, <2>4
<1>6c. CASE PutSeq
  <2>1. cur' = [cur EXCEPT !.pc = "numbered", !.seq = user.servseq % SeqMod]
        /\ cur.pc = "stamped"
    BY <1>6c DEF PutSeq, At
  <2>2. /\ cur'.slot = cur.slot /\ cur'.pack = cur.pack /\ cur'.pc = "numbered"
        /\ cur'.stamp = cur.stamp /\ cur'.seq = user.servseq % SeqMod
    BY <2>1 DEF TypeOK, Work
  <2>3. UNCHANGED <<usr_shm, owner, copy, outgoing, uqueue, sent, raced>>
    BY <1>6c DEF PutSeq
  <2>4. NumbersKept => NumbersKept'
    BY <2>1, <2>2, <2>3 DEF NumbersKept, user
  <2> QED BY <1>6a, <2>2, <2>3, <2>4
<1>6d. CASE CountUp
  <2>1. /\ cur.pc = "numbered" /\ cur.slot # NoSlot /\ cur.slot \in Slots /\ user \in Records
        /\ usr_shm' = [usr_shm EXCEPT ![cur.slot].servseq = @ + 1]
        /\ cur' = [cur EXCEPT !.pc = "counted"]
        /\ UNCHANGED <<owner, copy, outgoing, uqueue, sent, raced>>
    BY <1>6d, WorkFacts DEF CountUp, At
  <2>2. /\ cur'.slot = cur.slot /\ cur'.pack = cur.pack /\ cur'.pc = "counted"
        /\ cur'.stamp = cur.stamp /\ cur'.seq = cur.seq
    BY <2>1 DEF TypeOK, Work
  <2>3. /\ usr_shm'[cur.slot].usid = user.usid /\ usr_shm'[cur.slot].uin = user.uin
        /\ usr_shm'[cur.slot].servseq = user.servseq + 1 /\ user.servseq \in Nat
        /\ \A j \in Slots : j # cur.slot => usr_shm'[j] = usr_shm[j]
    BY <2>1 DEF TypeOK, Records, user
  <2>4. \A s, w : OwnedBy(s, w) <=> OwnedBy(s, w)'
    BY <2>1 DEF OwnedBy, Sessions
  <2>5. ShmOwned'
    BY <2>1, <2>3, <2>4 DEF DeliveryInv, ShmOwned, user
  <2>6. NumbersKept => NumbersKept'
    <3>1. (user.servseq + 1) - 1 = user.servseq
      BY <2>3
    <3> QED BY <2>1, <2>2, <2>3, <3>1 DEF NumbersKept, user
  <2>7. PacksOwned'
    BY <2>1, <2>2, <2>4, <2>6 DEF DeliveryInv, PacksOwned
  <2>8. QueuesOwned' /\ SentOwned' /\ StampsDistinct'
    BY <2>1, <2>4 DEF DeliveryInv, QueuesOwned, SentOwned, StampsDistinct
  <2>9. QueueOfOneSession'
    <3> SUFFICES ASSUME NEW v \in Uins, NEW q \in uqueue[v].pqueue, NEW i \in Slots,
                        q.id \notin raced,
                        usr_shm'[i].usid = uqueue[v].usid, uqueue[v].usid # 0
                 PROVE  /\ usr_shm'[i].uin = v
                        /\ q.ack_stamp < AckNumber(v, usr_shm'[i].servseq, 0)
                        /\ cur.slot = i /\ cur.pack.id \notin raced => q.ack_stamp < cur.stamp
      BY <2>1, <2>2 DEF QueueOfOneSession, At
    <3>1. usr_shm[i].usid = uqueue[v].usid
      BY <2>3 DEF user
    <3>2. usr_shm[i].uin = v /\ q.ack_stamp < AckNumber(v, usr_shm[i].servseq, 0)
      BY <3>1 DEF DeliveryInv, QueueOfOneSession
    <3>3. q.ack_stamp \in Nat /\ v \in Nat
      BY UinsNat DEF TypeOK, QRecords
    <3>4. CASE i # cur.slot
      BY <2>3, <3>2, <3>4
    <3>5. CASE i = cur.slot
      <4>1. AckNumber(v, user.servseq, 0) \in Nat
            /\ AckNumber(v, user.servseq, 0) < AckNumber(v, user.servseq + 1, 0)
            /\ AckNumber(v, user.servseq + 1, 0) \in Nat
        BY <2>3, <3>3 DEF AckNumber
      <4>2. q.ack_stamp < AckNumber(v, user.servseq + 1, 0)
        BY <3>2, <3>3, <3>5, <4>1 DEF user
      <4>3. cur.pack.id \notin raced => q.ack_stamp < cur.stamp
        <5>1. cur.pack.id \notin raced => NumbersKept
          BY <2>1 DEF DeliveryInv, PacksOwned
        <5> QED BY <2>1, <3>2, <3>5, <5>1 DEF NumbersKept, user
      <4> QED BY <2>3, <3>2, <3>5, <4>2, <4>3 DEF user
    <3> QED BY <3>4, <3>5
  <2> QED BY <2>5, <2>7, <2>8, <2>9 DEF DeliveryInv
<1>7. CASE LinkAndSend
  <2> DEFINE pack == cur.pack
             u == user.uin
             rec == QueueRecord(pack, cur.stamp)
  <2>1. cur.slot \in Slots /\ cur.slot # NoSlot /\ user \in Records /\ pack \in Packs
        /\ cur.pc = "counted" /\ At("counted")
    BY <1>7, WorkFacts DEF LinkAndSend, At
  <2>2. u \in Uins \cup {NoUin} /\ u \in DOMAIN uqueue /\ user.servseq \in Nat /\ user.usid \in Nat
    BY <2>1 DEF TypeOK, Records
  <2>3. user.usid = 0 \/ OwnedBy(user.usid, u)
    BY <2>1 DEF DeliveryInv, ShmOwned, user
  <2>4. OwnedBy(pack.to, pack.to_uin)
    BY <2>1 DEF DeliveryInv, PacksOwned
  <2>5. pack.id \notin raced => NumbersKept
    BY <2>1 DEF DeliveryInv, PacksOwned
  <2>6. /\ uqueue' = [uqueue EXCEPT ![u] = AddToList(uqueue[u], user.usid, rec)]
        /\ sent' = sent \cup {Datagram(pack, pack.to, cur.seq, 0)}
        /\ cur' = NoWork
        /\ UNCHANGED <<usr_shm, owner, copy, outgoing, raced>>
    BY <1>7 DEF LinkAndSend
  <2>7. /\ uqueue'[u] = AddToList(uqueue[u], user.usid, rec)
        /\ \A v \in DOMAIN uqueue : v # u => uqueue'[v] = uqueue[v]
        /\ DOMAIN uqueue' = DOMAIN uqueue
    BY <2>2, <2>6 DEF TypeOK
  <2>8. \A s, w : OwnedBy(s, w) <=> OwnedBy(s, w)'
    BY <2>6 DEF OwnedBy, Sessions
  <2>9. rec.id = pack.id /\ rec.to_uin = pack.to_uin /\ rec.ack_stamp = cur.stamp
    BY DEF QueueRecord
  <2>10. /\ uqueue'[u].usid = user.usid
         /\ \A q \in uqueue'[u].pqueue :
              q = rec \/ (q \in uqueue[u].pqueue /\ uqueue[u].usid = user.usid)
    BY <2>7 DEF AddToList
  <2> HIDE DEF rec
  \* While the record is left alone, it is that of the packet's user.
  <2>11. ASSUME pack.id \notin raced
         PROVE  /\ u = pack.to_uin /\ u \in Uins /\ OwnedBy(user.usid, u) /\ user.usid # 0
                /\ cur.stamp < AckNumber(u, user.servseq, 0)
    <3>1. u = pack.to_uin
      BY <2>5, <2>11 DEF NumbersKept
    <3>a. owner \in Seq(Uins)
      BY DEF TypeOK
    <3>b. owner[pack.to] \in Uins /\ owner[pack.to] = pack.to_uin
      BY <2>4, <3>a DEF OwnedBy, Sessions
    <3>2. u \in Uins /\ u # NoUin /\ u \in Nat
      BY <3>1, <3>b, UinsAssumption DEF NoUin
    <3>3. OwnedBy(user.usid, u)
      BY <2>1, <3>2 DEF DeliveryInv, ShmOwned, user
    <3>4. user.usid # 0
      BY <2>1, <3>3 DEF OwnedBy, Sessions
    <3>5. cur.stamp = AckNumber(u, user.servseq - 1, 0)
      BY <2>1, <2>5, <2>11, <3>1 DEF NumbersKept
    <3>6. AckNumber(u, user.servseq - 1, 0) < AckNumber(u, user.servseq, 0)
      BY <2>2, <3>2 DEF AckNumber
    <3> QED BY <3>1, <3>2, <3>3, <3>4, <3>5, <3>6
  <2>12. ShmOwned'
    BY <2>6, <2>8 DEF DeliveryInv, ShmOwned
  <2>13. PacksOwned'
    BY <2>6, <2>8 DEF DeliveryInv, PacksOwned, NoWork, Found
  <2>14. QueuesOwned'
    BY <2>3, <2>7, <2>6, <2>8, <2>9, <2>10, <2>11 DEF DeliveryInv, QueuesOwned
  <2>15. SentOwned'
    BY <2>4, <2>6, <2>8 DEF DeliveryInv, SentOwned, Datagram
  <2>16. QueueOfOneSession'
    <3> SUFFICES ASSUME NEW v \in Uins, NEW q \in uqueue'[v].pqueue, NEW i \in Slots,
                        q.id \notin raced,
                        usr_shm[i].usid = uqueue'[v].usid, uqueue'[v].usid # 0
                 PROVE  /\ usr_shm[i].uin = v
                        /\ q.ack_stamp < AckNumber(v, usr_shm[i].servseq, 0)
      BY <2>6 DEF QueueOfOneSession, At, NoWork, Found
    <3>1. CASE q \in uqueue[v].pqueue /\ uqueue[v].usid = uqueue'[v].usid
      BY <3>1 DEF DeliveryInv, QueueOfOneSession
    <3>2. CASE v = u /\ q = rec
      <4>1. pack.id \notin raced /\ usr_shm[i].usid = user.usid
        BY <2>9, <2>10, <3>2
      <4>2. usr_shm[i].uin # NoUin
        BY <2>11, <4>1 DEF DeliveryInv, ShmOwned
      <4>3. OwnedBy(usr_shm[i].usid, usr_shm[i].uin)
        BY <4>2 DEF DeliveryInv, ShmOwned
      <4>4. usr_shm[i].uin = u
        BY <2>11, <4>1, <4>3 DEF OwnedBy
      <4>5. i = cur.slot
        BY <2>1, <4>2, <4>4 DEF DeliveryInv, ShmOwned, user
      <4> QED BY <2>9, <2>11, <3>2, <4>1, <4>4, <4>5 DEF user
    <3> QED BY <2>7, <2>10, <3>1, <3>2 DEF TypeOK
  \* An earlier packet of the same session has a lower stamp.
  <2>17. ASSUME NEW q \in uqueue[u].pqueue, uqueue[u].usid = user.usid,
                pack.id \notin raced, q.id \notin raced
         PROVE  q.ack_stamp # rec.ack_stamp
    <3>1. q.ack_stamp < cur.stamp
      BY <2>1, <2>11, <2>17 DEF DeliveryInv, QueueOfOneSession, user
    <3>2. q.ack_stamp \in Nat /\ cur.stamp \in Nat
      BY <2>2, WorkFacts DEF TypeOK, QRecords
    <3> QED BY <2>9, <3>1, <3>2
  <2>18. StampsDistinct'
    <3> SUFFICES ASSUME NEW v \in DOMAIN uqueue, NEW p \in uqueue'[v].pqueue,
                        NEW q \in uqueue'[v].pqueue, p.ack_stamp = q.ack_stamp,
                        p.id \notin raced, q.id \notin raced
                 PROVE  p = q
      BY <2>6, <2>7 DEF StampsDistinct
    <3>1. CASE v # u
      BY <2>7, <3>1 DEF DeliveryInv, StampsDistinct
    <3>2. CASE v = u
      <4>1. CASE p \in uqueue[u].pqueue /\ q \in uqueue[u].pqueue
        BY <2>2, <4>1 DEF DeliveryInv, StampsDistinct
      <4> QED BY <2>9, <2>10, <2>17, <3>2, <4>1
    <3> QED BY <3>1, <3>2
  <2> QED BY <2>12, <2>13, <2>14, <2>15, <2>16, <2>18 DEF DeliveryInv
<1>8. ASSUME UNCHANGED <<usr_shm, owner, copy, outgoing, raced>>, cur' = cur \/ cur' = NoWork,
             SentOwned', uqueue' \in [DOMAIN uqueue -> Queues],
             \A u \in DOMAIN uqueue :
               /\ \/ uqueue'[u].usid = uqueue[u].usid
                  \/ uqueue'[u].usid = 0 /\ uqueue'[u].pqueue = {}
               /\ \A r \in uqueue'[u].pqueue : \E p \in uqueue[u].pqueue :
                    r.id = p.id /\ r.ack_stamp = p.ack_stamp /\ r.to_uin = p.to_uin,
             StampsDistinct'
      PROVE  DeliveryInv'
  <2>1. \A s, w : OwnedBy(s, w) <=> OwnedBy(s, w)'
    BY <1>8 DEF OwnedBy, Sessions
  <2>2. ShmOwned'
    BY <1>8, <2>1 DEF DeliveryInv, ShmOwned
  <2>3. PacksOwned'
    BY <1>8, <2>1, NumbersStay DEF DeliveryInv, PacksOwned, NoWork, Found
  <2>4. QueuesOwned'
    BY <1>8, <2>1 DEF DeliveryInv, QueuesOwned
  <2>5. QueueOfOneSession'
    <3>1. cur' = cur \/ ~At("counted")'
      BY <1>8 DEF At, NoWork, Found
    <3> QED BY <1>8, <3>1 DEF DeliveryInv, QueueOfOneSession, TypeOK, At
  <2> QED BY <1>8, <2>2, <2>3, <2>4, <2>5 DEF DeliveryInv
<1>9. CASE ProcessAck
  <2> DEFINE u == Head(events).uin_number
             stamp == Head(events).ack_stamp
  <2>1. u \in Uins
    BY <1>9 DEF ProcessAck, Events, TypeOK
  <2>2. uqueue' = [uqueue EXCEPT ![u] = RemoveFromList(uqueue[u], stamp)]
    BY <1>9 DEF ProcessAck
  <2>3. UNCHANGED <<usr_shm, owner, copy, outgoing, cur, sent, raced>>
    BY <1>9 DEF ProcessAck
  <2>4. SentOwned'
    BY <2>3 DEF DeliveryInv, SentOwned, OwnedBy, Sessions
  <2>5. \A v \in DOMAIN uqueue : uqueue[v] \in Queues
    BY DEF TypeOK, Queues
  <2>6. /\ RemoveFromList(uqueue[u], stamp).pqueue \subseteq uqueue[u].pqueue
        /\ \/ RemoveFromList(uqueue[u], stamp).usid = uqueue[u].usid
           \/ /\ RemoveFromList(uqueue[u], stamp).usid = 0
              /\ RemoveFromList(uqueue[u], stamp).pqueue = {}
    BY <2>1, <2>5 DEF TypeOK, RemoveFromList, Trim, NoQueue, Queues
  <2> HIDE DEF u, stamp
  <2>7. \A v \in DOMAIN uqueue :
          /\ uqueue'[v].pqueue \subseteq uqueue[v].pqueue
          /\ \/ uqueue'[v].usid = uqueue[v].usid
             \/ uqueue'[v].usid = 0 /\ uqueue'[v].pqueue = {}
    BY <2>1, <2>2, <2>6 DEF TypeOK
  <2>8. StampsDistinct' /\ uqueue' \in [DOMAIN uqueue -> Queues]
    BY <1>t, <2>3, <2>7 DEF DeliveryInv, StampsDistinct, TypeOK, Queues
  <2> QED BY <1>8, <2>3, <2>4, <2>7, <2>8
<1>10. CASE ProcessTimeout
  <2>1. UNCHANGED <<usr_shm, owner, copy, outgoing, cur, raced>>
    BY <1>10 DEF ProcessTimeout
  <2>2. \A v \in DOMAIN uqueue : uqueue[v] \in Queues
    BY DEF TypeOK, Queues
  <2>3. uqueue' = [v \in DOMAIN uqueue |-> Trim(CheckedQueue(uqueue[v]))]
    BY <1>10 DEF ProcessTimeout
  <2>4. ASSUME NEW v \in DOMAIN uqueue
        PROVE  /\ uqueue'[v].pqueue = CheckedQueue(uqueue[v]).pqueue
               /\ \/ uqueue'[v].usid = uqueue[v].usid
                  \/ uqueue'[v].usid = 0 /\ uqueue'[v].pqueue = {}
               /\ \A r \in uqueue'[v].pqueue : \E p \in uqueue[v].pqueue :
                    p \in QRecords /\ r = CountDown(p)
    <3>1. CheckedQueue(uqueue[v]) \in Queues /\ CheckedQueue(uqueue[v]).usid = uqueue[v].usid
      BY <2>2, <2>4, QueueOps
    <3>2. uqueue'[v] = Trim(CheckedQueue(uqueue[v]))
      BY <2>3, <2>4
    <3>3. /\ uqueue'[v].pqueue = CheckedQueue(uqueue[v]).pqueue
          /\ \/ uqueue'[v].usid = uqueue[v].usid
             \/ uqueue'[v].usid = 0 /\ uqueue'[v].pqueue = {}
      BY <3>1, <3>2 DEF Trim, NoQueue
    <3>4. \A r \in CheckedQueue(uqueue[v]).pqueue :
            \E p \in uqueue[v].pqueue : r = CountDown(p)
      BY <2>2, <2>4, QueueOps
    <3> QED BY <2>2, <2>4, <3>3, <3>4 DEF Queues
  <2>5. StampsDistinct'
    BY <2>1, <2>3, <2>4, AfterResendType DEF DeliveryInv, StampsDistinct
  <2>6. SentOwned'
    <3>1. ASSUME NEW v \in DOMAIN uqueue, NEW p \in uqueue[v].pqueue
          PROVE  /\ p.id \notin raced => OwnedBy(uqueue[v].usid, p.to_uin)
                 /\ Retries - p.retry_num + 1 # 0
      <4>1. p.retry_num \in Int /\ p.retry_num <= Retries
        BY <2>2, <3>1, ConfAssumption DEF Queues, QRecords
      <4> QED BY <3>1, <4>1, ConfAssumption DEF DeliveryInv, QueuesOwned
    <3>2. \A d \in sent' : d \in sent \/
            \E v \in DOMAIN uqueue : \E p \in uqueue[v].pqueue :
              d = Datagram(p, uqueue[v].usid, p.seq, Retries - p.retry_num + 1)
      BY <1>10 DEF ProcessTimeout
    <3>3. \A d \in sent' : d.id \notin raced \/ d.try = 0 => OwnedBy(d.to, d.to_uin)
      BY <3>1, <3>2 DEF Datagram, DeliveryInv, SentOwned
    <3> QED BY <2>1, <3>3 DEF SentOwned, OwnedBy, Sessions
  <2>7. uqueue' \in [DOMAIN uqueue -> Queues]
    BY <1>t DEF TypeOK, Queues
  <2>8. \A v \in DOMAIN uqueue :
          /\ \/ uqueue'[v].usid = uqueue[v].usid
             \/ uqueue'[v].usid = 0 /\ uqueue'[v].pqueue = {}
          /\ \A r \in uqueue'[v].pqueue : \E p \in uqueue[v].pqueue :
               r.id = p.id /\ r.ack_stamp = p.ack_stamp /\ r.to_uin = p.to_uin
    BY <2>4, AfterResendType
  <2> QED BY <1>8, <2>1, <2>5, <2>6, <2>7, <2>8
<1>11. CASE Restart
  <2>1. /\ UNCHANGED <<usr_shm, owner, copy, outgoing, sent, raced>> /\ cur' = NoWork
        /\ uqueue' = [v \in DOMAIN uqueue |-> NoQueue]
    BY <1>11 DEF Restart
  <2>2. SentOwned'
    BY <2>1 DEF DeliveryInv, SentOwned, OwnedBy, Sessions
  <2>3. StampsDistinct' /\ uqueue' \in [DOMAIN uqueue -> Queues]
    BY <2>1 DEF StampsDistinct, NoQueue, Queues
  <2> QED BY <1>8, <2>1, <2>2, <2>3 DEF NoQueue
<1> QED BY <1>1, <1>2, <1>3, <1>4, <1>5a, <1>5b, <1>5c, <1>6, <1>6b, <1>6c, <1>6d, <1>7,
           <1>9, <1>10, <1>11 DEF Next

LEMMA DeliveryCorrect == Spec => []DeliveryInv
<1>1. TypeOK /\ DeliveryInv /\ [Next]_vars => DeliveryInv'
  BY DeliveryStep
<1> QED BY <1>1, DeliveryInit, TypeCorrect, PTL DEF Spec

\* For any number of users, slots, packet processors, sessions and packets, and with
\* logins and logoffs between any two steps of EPacket: an ack identifies at most one
\* queued packet of its user, among those whose own record was left alone while they
\* were numbered (generate_ack_number, add_packet_to_list).
THEOREM StampsIdentifyPackets == Spec => []StampsDistinct
<1>1. DeliveryInv => StampsDistinct
  BY DEF DeliveryInv
<1> QED BY <1>1, DeliveryCorrect, PTL

\* Under the same conditions no datagram is sent to an address of a user it was not
\* written for, but for retransmissions of a packet whose own record was rewritten
\* (epacket_process_packet, user_pqueue_check).
THEOREM DeliveredToItsUser == Spec => []NoMisdelivery
<1>1. ASSUME TypeOK, DeliveryInv PROVE NoMisdelivery
  <2> SUFFICES ASSUME NEW d \in sent, ~(d.id \in raced /\ d.try > 0), d.to \in Sessions
               PROVE  owner[d.to] = d.to_uin
    BY DEF NoMisdelivery
  <2>1. d.id \notin raced \/ d.try = 0
    BY <1>1 DEF TypeOK, Datagrams
  <2> QED BY <1>1, <2>1 DEF DeliveryInv, SentOwned, OwnedBy
<1> QED BY <1>1, DeliveryCorrect, TypeCorrect, PTL

----------------------------------------------------------------------------
(* Acknowledgements. *)

\* The first transmission of a packet carries the low 16 bits of the number that the
\* stamp was computed from.
FirstSent(u, p, datagrams) ==
  \E d \in datagrams : \E n \in Nat :
    /\ d.id = p.id /\ d.try = 0 /\ d.to_uin = u
    /\ p.ack_stamp = AckNumber(u, n, 0) /\ d.seq = n % SeqMod
QueuedWereSent ==
  \A u \in DOMAIN uqueue : \A p \in uqueue[u].pqueue :
    p.id \notin raced => FirstSent(u, p, sent)

\* An acknowledgement that waits in the pipe is of numbers that a client has sent.
AckOfReceived(ev, received) ==
  \E a \in received : /\ a.uin_number = ev.uin_number
                      /\ ev.ack_stamp = AckNumber(ev.uin_number, a.sum, 0)
AcksOfReceived ==
  \A k \in 1 .. Len(events) : events[k].mtype = "MESS_ACK" => AckOfReceived(events[k], got)

ConfirmInv == QueuedWereSent /\ AcksOfReceived /\ ConfirmedByItsNumber

\* Receipts, transmissions and races are never forgotten.
LEMMA ConfirmedStays ==
  ASSUME ConfirmedByItsNumber, confirmed' = confirmed, sent \subseteq sent', got \subseteq got',
         raced \subseteq raced'
  PROVE  ConfirmedByItsNumber'
BY DEF ConfirmedByItsNumber

LEMMA AcksStay ==
  ASSUME TypeOK, AcksOfReceived, got \subseteq got',
         \/ events' = events
         \/ events # <<>> /\ events' = Tail(events)
         \/ \E ev : events' = Append(events, ev) /\ ev.mtype # "MESS_ACK"
  PROVE  AcksOfReceived'
<1>1. ASSUME NEW ev, AckOfReceived(ev, got) PROVE AckOfReceived(ev, got')
  BY <1>1 DEF AckOfReceived
<1>2. events \in Seq(Events)
  BY DEF TypeOK
<1>3. CASE events' = events
  BY <1>1, <1>3 DEF AcksOfReceived
<1>4. CASE events # <<>> /\ events' = Tail(events)
  <2>1. \A k \in 1 .. Len(events') : k + 1 \in 1 .. Len(events) /\ events'[k] = events[k + 1]
    BY <1>2, <1>4
  <2> QED BY <1>1, <2>1 DEF AcksOfReceived
<1>5. ASSUME NEW ev, events' = Append(events, ev), ev.mtype # "MESS_ACK"
      PROVE  AcksOfReceived'
  <2>1. \A k \in 1 .. Len(events') :
          \/ k \in 1 .. Len(events) /\ events'[k] = events[k]
          \/ events'[k] = ev
    BY <1>2, <1>5
  <2> QED BY <1>1, <1>5, <2>1 DEF AcksOfReceived
<1> QED BY <1>3, <1>4, <1>5

LEMMA ConfirmStep == TypeOK /\ DeliveryInv /\ ConfirmInv /\ [Next]_vars => ConfirmInv'
<1> SUFFICES ASSUME TypeOK, DeliveryInv, ConfirmInv, [Next]_vars PROVE ConfirmInv'
  OBVIOUS
<1>t. TypeOK'
  BY TypeStep
\* Actions that touch neither the list nor what was transmitted or confirmed.
<1>f. ASSUME UNCHANGED <<uqueue, sent, confirmed>>, got \subseteq got', raced \subseteq raced',
             AcksOfReceived'
      PROVE  ConfirmInv'
  <2>1. QueuedWereSent'
    BY <1>f DEF ConfirmInv, QueuedWereSent, FirstSent
  <2> QED BY <1>f, <2>1, ConfirmedStays DEF ConfirmInv
<1>1. ASSUME UNCHANGED <<uqueue, sent, got, confirmed, events>>, raced \subseteq raced'
      PROVE  ConfirmInv'
  BY <1>1, <1>f, AcksStay DEF ConfirmInv
<1>2. ASSUME NEW p \in PPs, event_send_packet(p) PROVE ConfirmInv'
  BY <1>1, <1>2 DEF event_send_packet
<1>3. CASE ETimerTick
  <2>1. events' = Append(events, [mtype |-> "MESS_TIMEOUT"])
        /\ UNCHANGED <<uqueue, sent, got, confirmed, raced>>
    BY <1>3 DEF ETimerTick
  <2>2. AcksOfReceived'
    BY <2>1, AcksStay DEF ConfirmInv
  <2> QED BY <1>f, <2>1, <2>2
<1>4. ASSUME NEW d \in sent, UdpAck(d) PROVE ConfirmInv'
  <2>1. PICK seq2 \in SecondSeqs :
          /\ got' = got \cup {[uin_number |-> owner[d.to], sum |-> d.seq + seq2]}
          /\ events' = Append(events,
               [mtype |-> "MESS_ACK", uin_number |-> owner[d.to],
                ack_stamp |-> AckNumber(owner[d.to], d.seq, seq2)])
    BY <1>4 DEF UdpAck
  <2> DEFINE ev == [mtype |-> "MESS_ACK", uin_number |-> owner[d.to],
                    ack_stamp |-> AckNumber(owner[d.to], d.seq, seq2)]
             ack == [uin_number |-> owner[d.to], sum |-> d.seq + seq2]
  <2>2. UNCHANGED <<uqueue, sent, confirmed, raced>> /\ events' = Append(events, ev)
        /\ got' = got \cup {ack}
    BY <1>4, <2>1 DEF UdpAck
  <2>3. ack.uin_number = ev.uin_number
        /\ ev.ack_stamp = AckNumber(ev.uin_number, ack.sum, 0)
    <3>1. owner[d.to] \in Nat /\ d.seq \in Nat /\ seq2 \in Nat
      BY <1>4, UinsNat, SeqsAssumption DEF UdpAck, Sessions, TypeOK, Datagrams
    <3> QED BY <3>1 DEF AckNumber
  <2> HIDE DEF ev, ack
  <2>4. AckOfReceived(ev, got')
    BY <2>2, <2>3 DEF AckOfReceived
  <2>5. \A e : AckOfReceived(e, got) => AckOfReceived(e, got')
    BY <2>2 DEF AckOfReceived
  <2>6. \A k \in 1 .. Len(events') : \/ k \in 1 .. Len(events) /\ events'[k] = events[k]
                                     \/ events'[k] = ev
    BY <2>2 DEF TypeOK
  <2>7. AcksOfReceived'
    BY <2>4, <2>5, <2>6 DEF ConfirmInv, AcksOfReceived
  <2> QED BY <1>f, <2>2, <2>7
<1>5. CASE ReceivePacket \/ StampPacket \/ PutSeq \/ CountUp
  BY <1>1, <1>5 DEF ReceivePacket, StampPacket, PutSeq, CountUp
<1>6. CASE LinkAndSend
  <2> DEFINE pack == cur.pack
             u == user.uin
             rec == QueueRecord(pack, cur.stamp)
             dg == Datagram(pack, pack.to, cur.seq, 0)
  <2>1. cur.slot # NoSlot /\ cur.pc = "counted" /\ user \in Records
    BY <1>6, WorkFacts DEF LinkAndSend, At
  <2>2. u \in DOMAIN uqueue
    BY <2>1 DEF Records, TypeOK
  <2>3. /\ uqueue' = [uqueue EXCEPT ![u] = AddToList(uqueue[u], user.usid, rec)]
        /\ sent' = sent \cup {dg}
        /\ UNCHANGED <<events, got, confirmed, raced>>
    BY <1>6 DEF LinkAndSend
  <2>4. \A v \in DOMAIN uqueue : \A q \in uqueue'[v].pqueue :
            q \in uqueue[v].pqueue \/ (v = u /\ q = rec)
    BY <2>2, <2>3 DEF TypeOK, AddToList
  <2>5. /\ rec.id = pack.id /\ rec.ack_stamp = cur.stamp
        /\ dg.id = pack.id /\ dg.try = 0 /\ dg.to_uin = pack.to_uin /\ dg.seq = cur.seq
    BY DEF QueueRecord, Datagram
  <2>6. DOMAIN uqueue' = DOMAIN uqueue
    BY <2>3
  <2> HIDE DEF rec, dg
  <2>7. ASSUME pack.id \notin raced PROVE FirstSent(u, rec, sent')
    <3>1. PICK n \in Int : n = user.servseq - 1
      BY <2>1 DEF Records
    <3>2. n >= 0 /\ u = pack.to_uin /\ cur.stamp = AckNumber(u, n, 0) /\ cur.seq = n % SeqMod
      BY <2>1, <2>7, <3>1 DEF DeliveryInv, PacksOwned, NumbersKept
    <3>3. n \in Nat
      BY <3>1, <3>2
    <3> QED BY <2>3, <2>5, <3>2, <3>3 DEF FirstSent
  <2>8. QueuedWereSent'
    <3> SUFFICES ASSUME NEW v \in DOMAIN uqueue, NEW q \in uqueue'[v].pqueue, q.id \notin raced
                 PROVE  FirstSent(v, q, sent')
      BY <2>3, <2>6 DEF QueuedWereSent
    <3>1. CASE q \in uqueue[v].pqueue
      BY <2>3, <3>1 DEF ConfirmInv, QueuedWereSent, FirstSent
    <3>2. CASE v = u /\ q = rec
      BY <2>5, <2>7, <3>2
    <3> QED BY <2>4, <3>1, <3>2
  <2> QED BY <2>3, <2>8, ConfirmedStays, AcksStay DEF ConfirmInv
<1>7. CASE ProcessAck
  <2> DEFINE u == Head(events).uin_number
             stamp == Head(events).ack_stamp
  <2>1. /\ events # <<>> /\ Head(events) = events[1] /\ 1 \in 1 .. Len(events)
        /\ Head(events).mtype = "MESS_ACK" /\ Head(events) \in Events
    BY <1>7 DEF ProcessAck, TypeOK
  <2>2. u \in Uins /\ u \in Nat /\ u \in DOMAIN uqueue
    BY <2>1, UinsAssumption DEF Events, TypeOK
  <2>3. PICK a \in got : a.uin_number = u /\ stamp = AckNumber(u, a.sum, 0)
    BY <2>1 DEF ConfirmInv, AcksOfReceived, AckOfReceived
  <2>4. a.sum \in Nat
    BY DEF TypeOK, Acks
  <2>5. /\ uqueue' = [uqueue EXCEPT ![u] = RemoveFromList(uqueue[u], stamp)]
        /\ confirmed' = confirmed \cup {p.id : p \in Acked(uqueue[u], stamp)}
        /\ events' = Tail(events)
        /\ UNCHANGED <<sent, got, raced>>
    BY <1>7 DEF ProcessAck
  <2> HIDE DEF u, stamp
  <2>6. \A v \in DOMAIN uqueue : uqueue'[v].pqueue \subseteq uqueue[v].pqueue
        /\ DOMAIN uqueue' = DOMAIN uqueue
    BY <2>2, <2>5 DEF TypeOK, RemoveFromList, Trim, NoQueue
  <2>7. QueuedWereSent'
    BY <2>5, <2>6 DEF ConfirmInv, QueuedWereSent, FirstSent
  <2>8. AcksOfReceived'
    BY <2>1, <2>5, AcksStay DEF ConfirmInv
  <2>9. ASSUME NEW p \in Acked(uqueue[u], stamp), p.id \notin raced
        PROVE  \E d \in sent : /\ d.id = p.id /\ d.try = 0 /\ a.uin_number = d.to_uin
                               /\ a.sum % SeqMod = d.seq
    <3>1. p \in uqueue[u].pqueue /\ p.ack_stamp = stamp
      BY DEF Acked
    <3>2. FirstSent(u, p, sent)
      BY <2>2, <2>9, <3>1 DEF ConfirmInv, QueuedWereSent
    <3>3. PICK d \in sent, n \in Nat :
             /\ d.id = p.id /\ d.try = 0 /\ d.to_uin = u
             /\ p.ack_stamp = AckNumber(u, n, 0) /\ d.seq = n % SeqMod
      BY <3>2 DEF FirstSent
    <3>4. n = a.sum
      BY <2>2, <2>3, <2>4, <3>1, <3>3 DEF AckNumber
    <3> QED BY <2>3, <3>3, <3>4
  <2>10. ConfirmedByItsNumber'
    BY <2>5, <2>9 DEF ConfirmInv, ConfirmedByItsNumber
  <2> QED BY <2>7, <2>8, <2>10 DEF ConfirmInv
<1>8. CASE ProcessTimeout
  <2>1. /\ UNCHANGED <<got, confirmed, raced>>
        /\ events # <<>> /\ events' = Tail(events)
        /\ sent \subseteq sent'
        /\ uqueue' = [v \in DOMAIN uqueue |-> Trim(CheckedQueue(uqueue[v]))]
    BY <1>8 DEF ProcessTimeout
  <2>2. \A v \in DOMAIN uqueue : uqueue[v] \in Queues
    BY DEF TypeOK, Queues
  <2>3. ASSUME NEW v \in DOMAIN uqueue, NEW r \in uqueue'[v].pqueue
        PROVE  \E p \in uqueue[v].pqueue : p.id = r.id /\ p.ack_stamp = r.ack_stamp
    <3>1. CheckedQueue(uqueue[v]) \in Queues
      BY <2>2, <2>3, QueueOps
    <3>2. r \in CheckedQueue(uqueue[v]).pqueue
      BY <2>1, <3>1 DEF Trim, NoQueue
    <3>3. PICK p \in uqueue[v].pqueue : r = CountDown(p)
      BY <2>2, <3>2, QueueOps
    <3>4. p \in QRecords
      BY <2>2 DEF Queues
    <3> QED BY <3>3, <3>4, AfterResendType
  <2>4. DOMAIN uqueue' = DOMAIN uqueue
    BY <2>1
  <2>5. QueuedWereSent'
    <3> SUFFICES ASSUME NEW v \in DOMAIN uqueue, NEW r \in uqueue'[v].pqueue, r.id \notin raced
                 PROVE  FirstSent(v, r, sent')
      BY <2>1, <2>4 DEF QueuedWereSent
    <3>1. PICK p \in uqueue[v].pqueue : p.id = r.id /\ p.ack_stamp = r.ack_stamp
      BY <2>3
    <3>2. FirstSent(v, p, sent)
      BY <3>1 DEF ConfirmInv, QueuedWereSent
    <3> QED BY <2>1, <3>1, <3>2 DEF FirstSent
  <2> QED BY <2>1, <2>5, ConfirmedStays, AcksStay DEF ConfirmInv
<1>9. CASE Restart
  <2>1. /\ UNCHANGED <<events, sent, got, confirmed, raced>>
        /\ uqueue' = [v \in DOMAIN uqueue |-> NoQueue]
    BY <1>9 DEF Restart
  <2>2. QueuedWereSent'
    BY <2>1 DEF QueuedWereSent, NoQueue
  <2> QED BY <2>1, <2>2, ConfirmedStays, AcksStay DEF ConfirmInv
<1>10. ASSUME NEW u \in Uins, Login(u) \/ Logoff(u) PROVE ConfirmInv'
  BY <1>1, <1>10 DEF Login, Logoff
<1>11. ASSUME NEW p \in PPs, NEW u \in Uins, PPLookup(p, u) PROVE ConfirmInv'
  BY <1>1, <1>11 DEF PPLookup
<1>12. CASE UNCHANGED vars
  BY <1>1, <1>12 DEF vars
<1> QED BY <1>2, <1>3, <1>4, <1>5, <1>6, <1>7, <1>8, <1>9, <1>10, <1>11, <1>12 DEF Next

\* For any number of users, slots, sessions and packets, any width of the sequence
\* number and any second sequence numbers in acks: what an ack removes was transmitted
\* with the number that its user has sent back, unless its own record was rewritten
\* while EPacket numbered it (generate_ack_number, epacket_process_event).
THEOREM ConfirmedAsReceived == Spec => []ConfirmedByItsNumber
<1>1. Init => ConfirmInv
  BY DEF Init, ConfirmInv, QueuedWereSent, AcksOfReceived, ConfirmedByItsNumber, NoQueue
<1>2. TypeOK /\ DeliveryInv /\ ConfirmInv /\ [Next]_vars => ConfirmInv'
  BY ConfirmStep
<1>3. ConfirmInv => ConfirmedByItsNumber
  BY DEF ConfirmInv
<1> QED BY <1>1, <1>2, <1>3, DeliveryCorrect, TypeCorrect, PTL DEF Spec
----------------------------------------------------------------------------
(* Numbers of packets, and what is done. *)

\* The id of packet p of the queue of u.
IsQueued(n, q) == \E u \in DOMAIN q : \E p \in q[u].pqueue : p.id = n
WasSent(n, datagrams) == \E d \in datagrams : d.id = n

\* Where EPacket has met an id.
Met(n) == IsQueued(n, uqueue) \/ n \in confirmed \cup expired \/ WasSent(n, sent)

\* Packets wait in the pipe in the order in which they were numbered.
PostedInOrder ==
  \A k \in 1 .. Len(outgoing) :
    /\ outgoing[k].id <= npost
    /\ \A j \in 1 .. k - 1 : outgoing[j].id < outgoing[k].id
    /\ cur.slot # NoSlot => cur.pack.id < outgoing[k].id
    /\ \A n \in Nat : Met(n) => n < outgoing[k].id
CurIsNew ==
  cur.slot # NoSlot => cur.pack.id <= npost /\ \A n \in Nat : Met(n) => n < cur.pack.id

\* An id is in one place of the list, or done with.
OnePlace ==
  /\ \A n \in Nat : Met(n) => n <= npost
  /\ \A u, v \in DOMAIN uqueue : \A p \in uqueue[u].pqueue : \A q \in uqueue[v].pqueue :
       p.id = q.id => p = q /\ u = v
  /\ \A n \in confirmed \cup expired : ~IsQueued(n, uqueue)
  /\ confirmed \cap expired = {}

\* A packet that has m transmissions to go has been transmitted all the other times.
Tried(n, datagrams, m) ==
  \A i \in Nat : (\E d \in datagrams : d.id = n /\ d.try = i) <=> i + m <= Retries
TriesCounted ==
  /\ \A u \in DOMAIN uqueue : \A p \in uqueue[u].pqueue : Tried(p.id, sent, p.retry_num)
  /\ \A n \in expired : Tried(n, sent, 0)

DoneInv == PostedInOrder /\ CurIsNew /\ OnePlace /\ TriesCounted

\* Steps that only take packets out of the list.
LEMMA DoneFrame ==
  ASSUME DoneInv, UNCHANGED <<outgoing, npost, cur>>, \A n \in Nat : Met(n)' => Met(n)
  PROVE  PostedInOrder' /\ CurIsNew' /\ \A n \in Nat : Met(n)' => n <= npost'
BY DEF DoneInv, PostedInOrder, CurIsNew, OnePlace

LEMMA DoneStep == TypeOK /\ DoneInv /\ [Next]_vars => DoneInv'
<1> SUFFICES ASSUME TypeOK, DoneInv, [Next]_vars PROVE DoneInv'
  OBVIOUS
<1>n. /\ Len(outgoing) \in Nat /\ outgoing \in Seq(Packs) /\ npost \in Nat
      /\ \A k \in 1 .. Len(outgoing) : outgoing[k].id \in Nat
      /\ cur.pack.id \in Nat
  <2>1. Len(outgoing) \in Nat /\ outgoing \in Seq(Packs) /\ npost \in Nat /\ cur.pack \in Packs
    BY WorkFacts DEF TypeOK
  <2>2. \A k \in 1 .. Len(outgoing) : outgoing[k] \in Packs
    BY <2>1
  <2>3. \A p \in Packs : p.id \in Nat
    BY DEF Packs
  <2> QED BY <2>1, <2>2, <2>3
<1>q. \A v \in DOMAIN uqueue : uqueue[v] \in Queues
  BY DEF TypeOK, Queues
<1>1. CASE UNCHANGED <<outgoing, npost, cur.slot, cur.pack, uqueue, sent, confirmed, expired>>
  <2>1. \A n : Met(n)' <=> Met(n)
    BY <1>1 DEF Met
  <2> QED BY <1>1, <2>1 DEF DoneInv, PostedInOrder, CurIsNew, OnePlace, TriesCounted
<1>2. ASSUME NEW p \in PPs, event_send_packet(p) PROVE DoneInv'
  <2> DEFINE new == [id |-> npost + 1, to_uin |-> copy[p].rec.uin, shm_index |-> copy[p].slot,
                     to |-> copy[p].rec.usid, seq |-> copy[p].rec.servseq % SeqMod]
  <2>1. outgoing' = Append(outgoing, new) /\ npost' = npost + 1
        /\ UNCHANGED <<cur, uqueue, sent, confirmed, expired>>
    BY <1>2 DEF event_send_packet
  <2>2. new.id = npost + 1
    OBVIOUS
  <2> HIDE DEF new
  <2>3. /\ Len(outgoing') = Len(outgoing) + 1
        /\ \A k \in 1 .. Len(outgoing) : outgoing'[k] = outgoing[k]
        /\ outgoing'[Len(outgoing) + 1] = new
    BY <1>n, <2>1
  <2>4. \A n : Met(n)' <=> Met(n)
    BY <2>1 DEF Met
  <2>5. \A n \in Nat : Met(n) => n <= npost
    BY DEF DoneInv, OnePlace
  <2>6. PostedInOrder'
    <3> SUFFICES ASSUME NEW k \in 1 .. Len(outgoing')
                 PROVE  /\ outgoing'[k].id <= npost'
                        /\ \A j \in 1 .. k - 1 : outgoing'[j].id < outgoing'[k].id
                        /\ cur.slot # NoSlot => cur.pack.id < outgoing'[k].id
                        /\ \A n \in Nat : Met(n) => n < outgoing'[k].id
      BY <2>1, <2>4 DEF PostedInOrder
    <3>1. CASE k \in 1 .. Len(outgoing)
      <4>1. outgoing[k].id <= npost /\ outgoing[k].id \in Nat
        BY <1>n, <3>1 DEF DoneInv, PostedInOrder
      <4>2. \A j \in 1 .. k - 1 : j \in 1 .. Len(outgoing)
        BY <1>n, <3>1
      <4> QED BY <1>n, <2>1, <2>3, <3>1, <4>1, <4>2 DEF DoneInv, PostedInOrder
    <3>2. CASE k = Len(outgoing) + 1
      <4>1. \A j \in 1 .. k - 1 : j \in 1 .. Len(outgoing) /\ outgoing[j].id <= npost
        BY <1>n, <3>2 DEF DoneInv, PostedInOrder
      <4>2. cur.slot # NoSlot => cur.pack.id <= npost
        BY DEF DoneInv, CurIsNew
      <4> QED BY <1>n, <2>1, <2>2, <2>3, <2>5, <3>2, <4>1, <4>2
    <3> QED BY <1>n, <2>3, <3>1, <3>2
  <2>7. CurIsNew'
    <3>1. cur.slot # NoSlot => cur.pack.id <= npost /\ \A n \in Nat : Met(n) => n < cur.pack.id
      BY DEF DoneInv, CurIsNew
    <3>2. cur.slot # NoSlot => cur.pack.id <= npost + 1
      BY <1>n, <3>1
    <3>3. cur'.slot # NoSlot => cur'.pack.id <= npost'
      BY <2>1, <3>2
    <3>4. cur'.slot # NoSlot => \A n \in Nat : Met(n)' => n < cur'.pack.id
      BY <2>1, <2>4, <3>1
    <3> QED BY <3>3, <3>4 DEF CurIsNew
  <2>8. OnePlace'
    <3>1. \A n \in Nat : Met(n)' => n <= npost'
      BY <1>n, <2>1, <2>4, <2>5
    <3> QED BY <2>1, <3>1 DEF DoneInv, OnePlace
  <2>9. TriesCounted'
    BY <2>1 DEF DoneInv, TriesCounted
  <2> QED BY <2>6, <2>7, <2>8, <2>9 DEF DoneInv
<1>3. CASE ReceivePacket
  <2>1. UNCHANGED <<npost, uqueue, sent, confirmed, expired>> /\ outgoing' = Tail(outgoing)
        /\ outgoing # <<>> /\ cur.slot = NoSlot
    BY <1>3 DEF ReceivePacket, Idle
  <2>2. \A k \in 1 .. Len(outgoing') : outgoing'[k] = outgoing[k + 1]
                                       /\ k + 1 \in 1 .. Len(outgoing)
    BY <1>n, <2>1
  <2>3. Head(outgoing) = outgoing[1] /\ 1 \in 1 .. Len(outgoing)
    BY <1>n, <2>1
  <2>4. cur' = cur \/ cur'.pack = outgoing[1]
    BY <1>3, <2>3 DEF ReceivePacket, NoWork, Found
  <2>5. \A n : Met(n)' <=> Met(n)
    BY <2>1 DEF Met
  <2>6. PostedInOrder'
    <3> SUFFICES ASSUME NEW k \in 1 .. Len(outgoing')
                 PROVE  /\ outgoing'[k].id <= npost
                        /\ \A j \in 1 .. k - 1 : outgoing'[j].id < outgoing'[k].id
                        /\ cur'.slot # NoSlot => cur'.pack.id < outgoing'[k].id
                        /\ \A n \in Nat : Met(n) => n < outgoing'[k].id
      BY <2>1, <2>5 DEF PostedInOrder
    <3>1. outgoing'[k] = outgoing[k + 1] /\ k + 1 \in 1 .. Len(outgoing) /\ 1 \in 1 .. k
      BY <2>2, <1>n
    <3>2. \A j \in 1 .. k : outgoing[j].id < outgoing[k + 1].id
      BY <1>n, <3>1 DEF DoneInv, PostedInOrder
    <3>3. \A j \in 1 .. k - 1 : j + 1 \in 1 .. k /\ j \in 1 .. Len(outgoing')
      BY <1>n, <3>1
    <3>4. \A j \in 1 .. k - 1 : outgoing'[j].id < outgoing'[k].id
      BY <2>2, <3>1, <3>2, <3>3
    <3>5. outgoing[1].id < outgoing[k + 1].id
      BY <3>1, <3>2
    <3> QED BY <2>1, <2>4, <3>1, <3>4, <3>5 DEF DoneInv, PostedInOrder
  <2>7. CurIsNew'
    BY <2>1, <2>3, <2>4, <2>5 DEF DoneInv, PostedInOrder, CurIsNew
  <2>8. OnePlace' /\ TriesCounted'
    BY <2>1, <2>5 DEF DoneInv, OnePlace, TriesCounted
  <2> QED BY <2>6, <2>7, <2>8 DEF DoneInv
<1>4a. CASE StampPacket \/ PutSeq \/ CountUp
  <2>1. cur'.slot = cur.slot /\ cur'.pack = cur.pack
    BY <1>4a DEF StampPacket, PutSeq, CountUp, TypeOK, Work
  <2> QED BY <1>1, <1>4a, <2>1 DEF StampPacket, PutSeq, CountUp
<1>4. CASE LinkAndSend
  <2> DEFINE pack == cur.pack
             u == user.uin
             rec == QueueRecord(pack, cur.stamp)
             dg == Datagram(pack, pack.to, cur.seq, 0)
  <2>1. cur.slot \in Slots /\ cur.slot # NoSlot /\ user \in Records
    BY <1>4, WorkFacts DEF LinkAndSend, At
  <2>2. u \in DOMAIN uqueue
    BY <2>1 DEF TypeOK, Records
  <2>3. /\ uqueue' = [uqueue EXCEPT ![u] = AddToList(uqueue[u], user.usid, rec)]
        /\ sent' = sent \cup {dg} /\ cur' = NoWork
        /\ UNCHANGED <<npost, outgoing, expired, confirmed>>
    BY <1>4 DEF LinkAndSend
  <2>4. /\ DOMAIN uqueue' = DOMAIN uqueue
        /\ \A v \in DOMAIN uqueue : \A q \in uqueue'[v].pqueue :
            q \in uqueue[v].pqueue \/ (v = u /\ q = rec)
    BY <2>2, <2>3 DEF TypeOK, AddToList
  <2>5. rec.id = pack.id /\ rec.retry_num = Retries /\ dg.id = pack.id /\ dg.try = 0
    BY DEF QueueRecord, Datagram
  <2> HIDE DEF rec, dg, u
  <2>6. pack.id <= npost /\ pack.id \in Nat /\ \A n \in Nat : Met(n) => n < pack.id
    BY <1>n, <2>1 DEF DoneInv, CurIsNew
  <2>7. ~Met(pack.id)
    BY <2>6
  <2>8. \A n : Met(n)' => Met(n) \/ n = pack.id
    BY <2>3, <2>4, <2>5 DEF Met, IsQueued, WasSent
  <2>9. \A v \in DOMAIN uqueue : \A q \in uqueue[v].pqueue : q.id # pack.id /\ q.id \in Nat
    BY <1>q, <2>7 DEF Met, IsQueued, Queues, QRecords
  <2>10. PostedInOrder'
    BY <1>n, <2>1, <2>3, <2>8 DEF DoneInv, PostedInOrder, NoWork, Found
  <2>11. CurIsNew'
    BY <2>3 DEF CurIsNew, NoWork, Found
  <2>12. OnePlace'
    <3>1. \A n \in Nat : Met(n)' => n <= npost'
      BY <2>3, <2>6, <2>8 DEF DoneInv, OnePlace
    <3>2. \A v, w \in DOMAIN uqueue' : \A p \in uqueue'[v].pqueue : \A q \in uqueue'[w].pqueue :
            p.id = q.id => p = q /\ v = w
      BY <2>4, <2>5, <2>9 DEF DoneInv, OnePlace
    <3>3. \A n \in confirmed \cup expired : n # pack.id
      BY <2>7 DEF Met
    <3>4. \A n \in confirmed \cup expired : ~IsQueued(n, uqueue')
      BY <2>4, <2>5, <3>3 DEF DoneInv, OnePlace, IsQueued
    <3> QED BY <2>3, <3>1, <3>2, <3>4 DEF DoneInv, OnePlace
  <2>13. TriesCounted'
    <3>1. \A n, m : n # pack.id /\ Tried(n, sent, m) => Tried(n, sent', m)
      BY <2>3, <2>5 DEF Tried
    <3>2. \A d \in sent : d.id # pack.id
      BY <2>7 DEF Met, WasSent
    <3>3. Tried(rec.id, sent', rec.retry_num)
      BY <2>3, <2>5, <3>2, ConfAssumption DEF Tried
    <3>4. \A n \in expired : n # pack.id
      BY <2>7 DEF Met
    <3> QED BY <2>3, <2>4, <2>9, <3>1, <3>3, <3>4 DEF DoneInv, TriesCounted
  <2> QED BY <2>10, <2>11, <2>12, <2>13 DEF DoneInv
<1>5. CASE ProcessAck
  <2> DEFINE u == Head(events).uin_number
             stamp == Head(events).ack_stamp
             acked == Acked(uqueue[u], stamp)
  <2>1. Head(events) \in Events /\ Head(events).mtype = "MESS_ACK"
    BY <1>5 DEF ProcessAck, TypeOK
  <2>2. u \in DOMAIN uqueue /\ uqueue[u] \in Queues
    BY <1>q, <2>1 DEF Events, TypeOK
  <2>3. /\ uqueue' = [uqueue EXCEPT ![u] = RemoveFromList(uqueue[u], stamp)]
        /\ confirmed' = confirmed \cup {p.id : p \in acked}
        /\ UNCHANGED <<npost, outgoing, cur, sent, expired>>
    BY <1>5 DEF ProcessAck
  <2>4. /\ acked \subseteq uqueue[u].pqueue
        /\ RemoveFromList(uqueue[u], stamp).pqueue = uqueue[u].pqueue \ acked
    BY <2>2 DEF Acked, RemoveFromList, Trim, NoQueue, Queues
  <2> HIDE DEF u, stamp, acked
  <2>5. /\ DOMAIN uqueue' = DOMAIN uqueue
        /\ uqueue'[u].pqueue = uqueue[u].pqueue \ acked
        /\ \A v \in DOMAIN uqueue : v # u => uqueue'[v] = uqueue[v]
        /\ \A v \in DOMAIN uqueue : uqueue'[v].pqueue \subseteq uqueue[v].pqueue
    BY <2>2, <2>3, <2>4 DEF TypeOK
  <2>6. \A n : IsQueued(n, uqueue') => IsQueued(n, uqueue)
    BY <2>5 DEF IsQueued
  <2>7. \A n \in confirmed' : n \in confirmed \/ \E p \in acked : n = p.id
    BY <2>3
  <2>8. \A p \in acked : IsQueued(p.id, uqueue)
    BY <2>2, <2>4 DEF IsQueued
  <2>9. \A n \in Nat : Met(n)' => Met(n)
    BY <2>3, <2>6, <2>7, <2>8 DEF Met
  <2>10. PostedInOrder' /\ CurIsNew' /\ \A n \in Nat : Met(n)' => n <= npost'
    BY <2>3, <2>9, DoneFrame
  <2>11. \A p \in acked : ~IsQueued(p.id, uqueue')
    <3> SUFFICES ASSUME NEW p \in acked, NEW v \in DOMAIN uqueue', NEW q \in uqueue'[v].pqueue,
                        q.id = p.id
                 PROVE  FALSE
      BY DEF IsQueued
    <3>1. q = p /\ v = u
      BY <2>2, <2>4, <2>5 DEF DoneInv, OnePlace
    <3> QED BY <2>5, <3>1
  <2>12. \A n \in confirmed' \cup expired' : ~IsQueued(n, uqueue')
    BY <2>3, <2>6, <2>7, <2>11 DEF DoneInv, OnePlace
  <2>13. confirmed' \cap expired' = {}
    BY <2>3, <2>7, <2>8 DEF DoneInv, OnePlace
  <2>14. \A v, w \in DOMAIN uqueue' : \A p \in uqueue'[v].pqueue : \A q \in uqueue'[w].pqueue :
            p.id = q.id => p = q /\ v = w
    BY <2>5 DEF DoneInv, OnePlace
  <2>15. OnePlace'
    BY <2>10, <2>12, <2>13, <2>14 DEF OnePlace
  <2>16. TriesCounted'
    BY <2>3, <2>5 DEF DoneInv, TriesCounted
  <2> QED BY <2>10, <2>15, <2>16 DEF DoneInv
<1>6. CASE ProcessTimeout
  <2> DEFINE queued == UNION {uqueue[v].pqueue : v \in DOMAIN uqueue}
             again(p, v) == Datagram(p, uqueue[v].usid, p.seq, Retries - p.retry_num + 1)
  <2>1. /\ UNCHANGED <<npost, outgoing, cur, confirmed>>
        /\ uqueue' = [v \in DOMAIN uqueue |-> Trim(CheckedQueue(uqueue[v]))]
    BY <1>6 DEF ProcessTimeout
  <2>2. /\ sent \subseteq sent'
        /\ \A d \in sent' : d \in sent \/ \E v \in DOMAIN uqueue : \E p \in uqueue[v].pqueue :
              MustResend(p) /\ d = again(p, v)
        /\ \A v \in DOMAIN uqueue : \A p \in uqueue[v].pqueue :
              MustResend(p) => again(p, v) \in sent'
    BY <1>6 DEF ProcessTimeout
  <2>3. expired' = expired \cup {p.id : p \in {q \in queued : IsExpired(q)}}
    BY <1>6 DEF ProcessTimeout
  <2>4. \A n \in expired' : n \in expired \/ \E v \in DOMAIN uqueue : \E p \in uqueue[v].pqueue :
            IsExpired(p) /\ n = p.id
    BY <2>3
  <2>5. \A v \in DOMAIN uqueue : \A p \in uqueue[v].pqueue : p \in QRecords
    BY <1>q DEF Queues
  <2>6. ASSUME NEW v \in DOMAIN uqueue
        PROVE  \A r \in uqueue'[v].pqueue : \E p \in uqueue[v].pqueue :
                  r = CountDown(p) /\ ~IsExpired(p)
    <3>1. uqueue'[v].pqueue = CheckedQueue(uqueue[v]).pqueue
      BY <2>1, <2>6 DEF Trim, NoQueue
    <3>2. CheckedQueue(uqueue[v]).pqueue
            = {CountDown(p) : p \in {q \in uqueue[v].pqueue : ~IsExpired(q)}}
      BY <1>q, <2>6 DEF CheckedQueue, Queues
    <3> QED BY <3>1, <3>2
  <2>7. DOMAIN uqueue' = DOMAIN uqueue
    BY <2>1
  <2>8. ASSUME NEW p \in QRecords
        PROVE  /\ CountDown(p).retry_num = AfterResend(p).retry_num
               /\ CountDown(p).id = p.id
               /\ AfterResend(p).retry_num
                    = (IF MustResend(p) THEN p.retry_num - 1 ELSE p.retry_num)
               /\ IsExpired(p) => AfterResend(p).retry_num = 0
               /\ MustResend(p) => p.retry_num # 0
               /\ p.id \in Nat /\ p.retry_num \in Nat /\ p.retry_num <= Retries
    <3>1. AfterResend(p) \in QRecords /\ CountDown(p).id = p.id
      BY AfterResendType
    <3>2. CountDown(p).retry_num = AfterResend(p).retry_num
      BY <3>1 DEF CountDown, QRecords
    <3>3. AfterResend(p).retry_num = (IF MustResend(p) THEN p.retry_num - 1 ELSE p.retry_num)
      BY DEF AfterResend, QRecords
    <3>4. p.id \in Nat /\ p.retry_num \in Nat /\ p.retry_num <= Retries
      BY ConfAssumption DEF QRecords
    <3> QED BY <3>1, <3>2, <3>3, <3>4 DEF IsExpired, MustResend
  <2>9. \A v \in DOMAIN uqueue : \A p \in uqueue[v].pqueue : IsQueued(p.id, uqueue)
    BY DEF IsQueued
  <2>10. \A n : IsQueued(n, uqueue') => IsQueued(n, uqueue)
    BY <2>5, <2>6, <2>7, <2>8 DEF IsQueued
  <2>11. \A v \in DOMAIN uqueue : \A p \in uqueue[v].pqueue :
            again(p, v).id = p.id /\ again(p, v).try = Retries - p.retry_num + 1
    BY DEF Datagram
  <2> HIDE DEF again, queued
  <2>12. \A n \in Nat : Met(n)' => Met(n)
    <3>1. \A n : WasSent(n, sent') => WasSent(n, sent) \/ IsQueued(n, uqueue)
      BY <2>2, <2>9, <2>11 DEF WasSent
    <3> QED BY <2>1, <2>4, <2>9, <2>10, <3>1 DEF Met
  <2>13. PostedInOrder' /\ CurIsNew' /\ \A n \in Nat : Met(n)' => n <= npost'
    BY <2>1, <2>12, DoneFrame
  <2>14. \A v, w \in DOMAIN uqueue' : \A p \in uqueue'[v].pqueue : \A q \in uqueue'[w].pqueue :
            p.id = q.id => p = q /\ v = w
    <3> SUFFICES ASSUME NEW v \in DOMAIN uqueue, NEW w \in DOMAIN uqueue,
                        NEW p \in uqueue'[v].pqueue, NEW q \in uqueue'[w].pqueue, p.id = q.id
                 PROVE  p = q /\ v = w
      BY <2>7
    <3>1. PICK a \in uqueue[v].pqueue : p = CountDown(a)
      BY <2>6
    <3>2. PICK b \in uqueue[w].pqueue : q = CountDown(b)
      BY <2>6
    <3>3. a.id = b.id
      BY <2>5, <2>8, <3>1, <3>2
    <3>4. a = b /\ v = w
      BY <3>3 DEF DoneInv, OnePlace
    <3> QED BY <3>1, <3>2, <3>4
  <2>15. \A v \in DOMAIN uqueue : \A p \in uqueue[v].pqueue :
            IsExpired(p) => ~IsQueued(p.id, uqueue')
    <3> SUFFICES ASSUME NEW v \in DOMAIN uqueue, NEW p \in uqueue[v].pqueue, IsExpired(p),
                        NEW w \in DOMAIN uqueue, NEW r \in uqueue'[w].pqueue, r.id = p.id
                 PROVE  FALSE
      BY <2>7 DEF IsQueued
    <3>1. PICK q \in uqueue[w].pqueue : r = CountDown(q) /\ ~IsExpired(q)
      BY <2>6
    <3>2. q.id = p.id
      BY <2>5, <2>8, <3>1
    <3>3. q = p
      BY <3>2 DEF DoneInv, OnePlace
    <3> QED BY <3>1, <3>3
  <2>16. \A n \in confirmed' \cup expired' : ~IsQueued(n, uqueue')
    BY <2>1, <2>4, <2>10, <2>15 DEF DoneInv, OnePlace
  <2>17. confirmed' \cap expired' = {}
    BY <2>1, <2>4, <2>9 DEF DoneInv, OnePlace
  <2>18. OnePlace'
    BY <2>13, <2>14, <2>16, <2>17 DEF OnePlace
  <2>19. ASSUME NEW v \in DOMAIN uqueue, NEW p \in uqueue[v].pqueue
         PROVE  Tried(p.id, sent', AfterResend(p).retry_num)
    <3>1. Tried(p.id, sent, p.retry_num) /\ p \in QRecords
      BY <2>5 DEF DoneInv, TriesCounted
    <3>2. \A d \in sent' : d.id = p.id =>
             d \in sent \/ (MustResend(p) /\ d = again(p, v))
      <4> SUFFICES ASSUME NEW d \in sent', d.id = p.id, d \notin sent
                   PROVE  MustResend(p) /\ d = again(p, v)
        OBVIOUS
      <4>0. PICK w \in DOMAIN uqueue : \E q \in uqueue[w].pqueue :
               MustResend(q) /\ d = again(q, w)
        BY <2>2
      <4>1. PICK q \in uqueue[w].pqueue : MustResend(q) /\ d = again(q, w)
        BY <4>0
      <4>2. q.id = p.id
        BY <2>11, <4>1
      <4>3. q = p /\ w = v
        BY <4>2 DEF DoneInv, OnePlace
      <4> QED BY <4>1, <4>3
    <3>3. CASE ~MustResend(p)
      <4>1. AfterResend(p).retry_num = p.retry_num
        BY <2>8, <3>1, <3>3
      <4> QED BY <2>2, <3>1, <3>2, <3>3, <4>1 DEF Tried
    <3>4. CASE MustResend(p)
      <4>1. AfterResend(p).retry_num = p.retry_num - 1 /\ p.retry_num \in Nat \ {0}
            /\ p.retry_num <= Retries
        BY <2>8, <3>1, <3>4
      <4>2. \A i \in Nat : i + (p.retry_num - 1) <= Retries <=>
              i + p.retry_num <= Retries \/ i = Retries - p.retry_num + 1
        BY <4>1, ConfAssumption
      <4>3. again(p, v) \in sent' /\ again(p, v).id = p.id
            /\ again(p, v).try = Retries - p.retry_num + 1
        BY <2>2, <2>11, <3>4
      <4>4. \A i \in Nat : (\E d \in sent' : d.id = p.id /\ d.try = i) <=>
              (\E d \in sent : d.id = p.id /\ d.try = i) \/ i = Retries - p.retry_num + 1
        BY <2>2, <3>2, <4>3
      <4> QED BY <3>1, <4>1, <4>2, <4>4 DEF Tried
    <3> QED BY <3>3, <3>4
  <2>20. TriesCounted'
    <3>1. \A v \in DOMAIN uqueue : \A r \in uqueue'[v].pqueue : Tried(r.id, sent', r.retry_num)
      <4> SUFFICES ASSUME NEW v \in DOMAIN uqueue, NEW r \in uqueue'[v].pqueue
                   PROVE  Tried(r.id, sent', r.retry_num)
        OBVIOUS
      <4>1. PICK p \in uqueue[v].pqueue : r = CountDown(p)
        BY <2>6
      <4>2. r.id = p.id /\ r.retry_num = AfterResend(p).retry_num
        BY <2>5, <2>8, <4>1
      <4> QED BY <2>19, <4>2
    <3>2. \A n \in expired : Tried(n, sent', 0)
      <4> SUFFICES ASSUME NEW n \in expired PROVE Tried(n, sent', 0)
        OBVIOUS
      <4>1. Tried(n, sent, 0) /\ ~IsQueued(n, uqueue)
        BY DEF DoneInv, TriesCounted, OnePlace
      <4>2. \A d \in sent' : d.id = n => d \in sent
        BY <2>2, <2>9, <2>11, <4>1
      <4> QED BY <2>2, <4>1, <4>2 DEF Tried
    <3>3. \A v \in DOMAIN uqueue : \A p \in uqueue[v].pqueue :
             IsExpired(p) => Tried(p.id, sent', 0)
      <4> SUFFICES ASSUME NEW v \in DOMAIN uqueue, NEW p \in uqueue[v].pqueue, IsExpired(p)
                   PROVE  Tried(p.id, sent', 0)
        OBVIOUS
      <4>1. AfterResend(p).retry_num = 0
        BY <2>5, <2>8
      <4> QED BY <2>19, <4>1
    <3> QED BY <2>4, <2>7, <3>1, <3>2, <3>3 DEF TriesCounted
  <2> QED BY <2>13, <2>18, <2>20 DEF DoneInv
<1>7. CASE Restart
  <2>1. /\ UNCHANGED <<npost, outgoing, confirmed, expired, sent>> /\ cur' = NoWork
        /\ uqueue' = [v \in DOMAIN uqueue |-> NoQueue]
    BY <1>7 DEF Restart
  <2>2. \A n : ~IsQueued(n, uqueue')
    BY <2>1 DEF IsQueued, NoQueue
  <2>3. \A n : Met(n)' => Met(n)
    BY <2>1, <2>2 DEF Met
  <2>4. PostedInOrder' /\ CurIsNew'
    BY <2>1, <2>3 DEF DoneInv, PostedInOrder, CurIsNew, NoWork, Found
  <2>5. OnePlace' /\ TriesCounted'
    BY <2>1, <2>2, <2>3 DEF DoneInv, OnePlace, TriesCounted, NoQueue
  <2> QED BY <2>4, <2>5 DEF DoneInv
<1>8. ASSUME NEW u \in Uins, Login(u) \/ Logoff(u) PROVE DoneInv'
  BY <1>1, <1>8 DEF Login, Logoff
<1>9. ASSUME NEW p \in PPs, NEW u \in Uins, PPLookup(p, u) PROVE DoneInv'
  BY <1>1, <1>9 DEF PPLookup
<1>10. ASSUME ETimerTick \/ \E d \in sent : UdpAck(d) PROVE DoneInv'
  BY <1>1, <1>10 DEF ETimerTick, UdpAck
<1>11. CASE UNCHANGED vars
  BY <1>1, <1>11 DEF vars
<1> QED BY <1>2, <1>3, <1>4, <1>4a, <1>5, <1>6, <1>7, <1>8, <1>9, <1>10, <1>11 DEF Next

LEMMA DoneCorrect == Spec => []DoneInv
<1>1. Init => DoneInv
  BY DEF Init, DoneInv, PostedInOrder, CurIsNew, OnePlace, TriesCounted, Met, IsQueued,
         WasSent, NoWork, Found, NoQueue
<1>2. TypeOK /\ DoneInv /\ [Next]_vars => DoneInv'
  BY DoneStep
<1> QED BY <1>1, <1>2, TypeCorrect, PTL DEF Spec

\* For any number of everything, and however records change under EPacket's pointer:
\* a packet is only given up after the first transmission and v3_retries more, all
\* of them made, and never after its ack (user_pqueue_check).
THEOREM GivenUpWhenExhausted == Spec => []ExpiredWasExhausted
<1>1. ASSUME TypeOK, DoneInv PROVE ExpiredWasExhausted
  <2> SUFFICES ASSUME NEW k \in expired
               PROVE  /\ {d.try : d \in {e \in sent : e.id = k}} = 0 .. Retries
                      /\ k \notin confirmed
    BY DEF ExpiredWasExhausted
  <2>1. \A i \in Nat : (\E d \in sent : d.id = k /\ d.try = i) <=> i + 0 <= Retries
    BY <1>1 DEF DoneInv, TriesCounted, Tried
  <2>2. \A d \in sent : d.try \in Nat
    BY <1>1 DEF TypeOK, Datagrams
  <2>3. \A i : i \in {d.try : d \in {e \in sent : e.id = k}} <=>
               \E d \in sent : d.id = k /\ d.try = i
    OBVIOUS
  <2>4. \A i : i \in 0 .. Retries <=> i \in Nat /\ i + 0 <= Retries
    BY ConfAssumption
  <2>5. \A i : i \in {d.try : d \in {e \in sent : e.id = k}} <=> i \in 0 .. Retries
    BY <2>1, <2>2, <2>3, <2>4
  <2>6. k \notin confirmed
    BY <1>1 DEF DoneInv, OnePlace
  <2> QED BY <2>5, <2>6
<1> QED BY <1>1, DoneCorrect, TypeCorrect, PTL

\* Under the same conditions: no step relinks or transmits a packet that was confirmed
\* or given up (epacket_process_packet, add_packet_to_list, user_pqueue_check).
THEOREM DoneForGood == Spec => DoneIsDone
<1>1. ASSUME TypeOK, DoneInv, [Next]_vars, DoneInv'
      PROVE  [\A k \in confirmed \cup expired :
                /\ k \notin {p.id : p \in UNION {uqueue'[u].pqueue : u \in DOMAIN uqueue'}}
                /\ \A d \in sent' \ sent : d.id # k]_vars
  <2> SUFFICES ASSUME NEW k \in confirmed \cup expired
               PROVE  /\ \A u \in DOMAIN uqueue' : \A p \in uqueue'[u].pqueue : p.id # k
                      /\ \A d \in sent' \ sent : d.id # k
    OBVIOUS
  <2>1. k \in confirmed' \cup expired'
    BY <1>1 DEF Next, Login, Logoff, event_send_packet, PPLookup, ETimerTick, UdpAck,
                ReceivePacket, StampPacket, PutSeq, CountUp, LinkAndSend, ProcessAck,
                ProcessTimeout, Restart, vars
  <2>2. \A u \in DOMAIN uqueue' : \A p \in uqueue'[u].pqueue : p.id # k
    BY <1>1, <2>1 DEF DoneInv, OnePlace, IsQueued
  <2>3. Met(k) /\ ~IsQueued(k, uqueue) /\ k \in Nat
    BY <1>1 DEF DoneInv, OnePlace, Met, TypeOK
  <2>4. ASSUME NEW d \in sent' \ sent PROVE d.id # k
    <3>1. LinkAndSend \/ ProcessTimeout
      BY <1>1, <2>4 DEF Next, Login, Logoff, event_send_packet, PPLookup, ETimerTick, UdpAck,
                        ReceivePacket, StampPacket, PutSeq, CountUp, ProcessAck, Restart, vars
    <3>2. CASE LinkAndSend
      <4>1. d.id = cur.pack.id /\ cur.slot # NoSlot
        BY <2>4, <3>2 DEF LinkAndSend, At, Datagram
      <4>2. k < cur.pack.id
        BY <1>1, <2>3, <4>1 DEF DoneInv, CurIsNew
      <4> QED BY <2>3, <4>1, <4>2
    <3>3. CASE ProcessTimeout
      <4>1. \E v \in DOMAIN uqueue : \E p \in uqueue[v].pqueue : d.id = p.id
        BY <2>4, <3>3 DEF ProcessTimeout, Datagram
      <4> QED BY <2>3, <4>1 DEF IsQueued
    <3> QED BY <3>1, <3>2, <3>3
  <2> QED BY <2>2, <2>4
<1> QED BY <1>1, DoneCorrect, TypeCorrect, PTL DEF Spec, DoneIsDone

=============================================================================
