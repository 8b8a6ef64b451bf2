----------------------------- MODULE Messaging -----------------------------
(***************************************************************************)
(* Messages between users: the V3, V5 and V7 handlers that take a message, *)
(* process_message (isdcore/handle.cpp), which sends it to the recipient's *)
(* session or stores it in Users_Messages, the reading and deleting of     *)
(* stored messages, and administrator broadcasts (isdcore/broadcast.cpp).  *)
(*                                                                         *)
(* The handlers run in several packet processors.  V3 and V5 handlers work *)
(* on a copy of the recipient's record, V7 handlers keep a pointer into    *)
(* the shared memory array and read it again later, without a lock: the    *)
(* record may be gone, or belong to another user, by then.                 *)
(*                                                                         *)
(* A session has a record in shared memory and, soon after, a row in       *)
(* Online_Users, the table that only broadcasts ask here: the record comes *)
(* and goes first, the row follows with a statement of its own, which may  *)
(* be late or fail.                                                        *)
(*                                                                         *)
(* A failed SQL statement makes the process open a new database connection *)
(* (handle_database_error, PQreset): an open transaction is rolled back.   *)
(* The contents of a message, its type and the four authorization types    *)
(* that go through the contact list code are left out.                     *)
(***************************************************************************)
EXTENDS Integers, Sequences, FiniteSets, SequencesExt

CONSTANTS Uins,         \* user numbers
          Writers,      \* bound: the users who send messages
          Slots,        \* max_user_cnt records: 1 .. n
          PPs,          \* packet processors
          Clients,      \* which protocols the users' clients speak: functions
                        \* from Uins to {"v3", "v5", "v7"}
          MaxMsgs,      \* bound: messages taken
          MaxSessions,  \* bound: sessions created
          MaxReads,     \* bound: requests for stored messages
          MaxTime,      \* bound: seconds that pass
          MaxErrors,    \* bound: SQL statements that fail
          Late          \* bound: users for whom a statement about the row may be late

ASSUME NamesAssumption == /\ Uins \subseteq Nat \ {0} /\ IsFiniteSet(Uins)
                          /\ Writers \subseteq Uins /\ Late \subseteq Uins
                          /\ Clients \subseteq [Uins -> {"v3", "v5", "v7"}]
ASSUME SizesAssumption == /\ Slots \subseteq Nat \ {0} /\ MaxTime # 0
                          /\ {MaxMsgs, MaxSessions, MaxReads, MaxTime, MaxErrors} \subseteq Nat

VARIABLES proto,        \* the protocol each user's client speaks
          shm,          \* usr_shm
          rows,         \* Online_Users: <<user, active>>
          due,          \* statements about rows to come: <<user, statement>>
          mail,         \* the messages taken, in order
          boxes,        \* Users_Messages: committed rows
          inbox,        \* messages written to a session: <<message, user>>
          st,           \* what each packet processor is doing
          told,         \* sessions that were sent the end of their stored messages
          kept, missed, \* history: rows ever stored; losses and their causes
          nsess, nread, now, nerr

vars == <<proto, shm, rows, due, mail, boxes, inbox, st, told, kept, missed, nsess, nread, now, nerr>>

Hole   == [uin |-> 0, sid |-> 0, active |-> FALSE]
Idle   == [pc |-> "idle", m |-> 0, u |-> 0, slot |-> 0, sid |-> 0, rest |-> <<>>,
           date |-> 0, cut |-> FALSE, tx |-> {}, target |-> 0, moved |-> {}]
Ids    == 1 .. MaxMsgs
All    == MaxTime + 1                  \* 0xFFFFFFFF: later than every date

RecordOf(u)   == {s \in Slots : shm[s].uin = u}        \* shm_get_user(uin)
Online(u)     == RecordOf(u) # {}
SlotOf(u)     == CHOOSE s \in RecordOf(u) : TRUE
Active(u)     == \E s \in RecordOf(u) : shm[s].active
Live(sid)     == \E s \in Slots : shm[s].sid = sid
Udp(u)        == proto[u] \in {"v3", "v5"}
Rows(S, date) == {[m |-> x[1], u |-> x[2], date |-> date] : x \in S}
Row(r)        == <<r.m, r.u>>
Lost(m, u, why) == [m |-> m, u |-> u, why |-> why, tie |-> FALSE]

Init ==
  /\ proto \in Clients
  /\ shm = [s \in Slots |-> Hole] /\ rows = {} /\ due = {}
  /\ mail = <<>> /\ boxes = {} /\ inbox = {} /\ told = {}
  /\ kept = {} /\ missed = {}
  /\ st = [p \in PPs |-> Idle]
  /\ nsess = 0 /\ nread = 0 /\ now = 1 /\ nerr = 0

At(p, pc)  == st[p].pc = pc
Serves(p, v) == st[p].u \in Uins /\ proto[st[p].u] = v
Finish(p)  == st' = [st EXCEPT ![p] = Idle]
DbError    == nerr < MaxErrors /\ nerr' = nerr + 1
DbOk       == UNCHANGED nerr

----------------------------------------------------------------------------
(* Sessions come and go (the module OnlineTable has the details). *)

\* For a broadcast, who moves while it is under way, or is not what his row says.
Moves(u) == [p \in PPs |-> IF st[p].pc \in {"bselect", "bsend", "binsert"}
                             THEN [st[p] EXCEPT !.moved = @ \cup {u}] ELSE st[p]]

\* What a query sees of a user: no row, or one with its "active".
RowsOf(u) == {x[2] : x \in {y \in rows : y[1] = u}}

\* The statements that keep the rows in step with the records.  The table has a unique
\* index: while there is a row of the user, an INSERT changes nothing.
Statements == {"insert", "update", "delete"}
RowsAfter(u, statement) ==
  CASE statement = "insert" -> IF RowsOf(u) = {} THEN rows \cup {<<u, Udp(u)>>} ELSE rows
    [] statement = "update" -> {<<x[1], x[2] \/ x[1] = u>> : x \in rows}
    [] statement = "delete" -> {x \in rows : x[1] # u}

\* A record was changed; the statement follows at once, or is late.
Follows(u, statement) ==
  \/ rows' = RowsAfter(u, statement) /\ UNCHANGED due
  \/ /\ u \in Late /\ \A d \in due : d[1] # u
     /\ due' = due \cup {<<u, statement>>}
     /\ UNCHANGED rows

\* A late statement is executed, or fails.
LateStatement ==
  /\ \E d \in due : /\ due' = due \ {d}
                    /\ \/ rows' = RowsAfter(d[1], d[2]) /\ DbOk
                       \/ UNCHANGED rows /\ DbError
  /\ UNCHANGED <<proto, shm, mail, boxes, inbox, st, told, kept, missed, nsess, nread, now>>

\* db_online_insert: shm_add, the first free record.  A V7 session is not active yet.
Login(u) ==
  /\ ~Online(u)
  /\ nsess < MaxSessions
  /\ \E s \in RecordOf(0) :
       /\ \A x \in RecordOf(0) : s <= x
       /\ shm' = [shm EXCEPT ![s] = [uin |-> u, sid |-> nsess + 1, active |-> Udp(u)]]
  /\ nsess' = nsess + 1
  /\ Follows(u, "insert")
  /\ st' = Moves(u)
  /\ UNCHANGED <<proto, mail, boxes, inbox, told, kept, missed, nread, now, nerr>>

\* process_gen_cli_ready, db_online_activate_user.
Activate(u) ==
  /\ Online(u) /\ ~Active(u)
  /\ shm' = [shm EXCEPT ![SlotOf(u)].active = TRUE]
  /\ Follows(u, "update")
  /\ st' = Moves(u)
  /\ UNCHANGED <<proto, mail, boxes, inbox, told, kept, missed, nsess, nread, now, nerr>>

\* db_online_delete: shm_delete fills the record with zeroes.
Logoff(u) ==
  /\ Online(u)
  /\ shm' = [shm EXCEPT ![SlotOf(u)] = Hole]
  /\ told' = {e \in told : e.sid # shm[SlotOf(u)].sid}
  /\ Follows(u, "delete")
  /\ st' = Moves(u)
  /\ UNCHANGED <<proto, mail, boxes, inbox, kept, missed, nsess, nread, now, nerr>>

\* The clock; it matters once a date has been taken from it.
Tick ==
  /\ now < MaxTime
  /\ kept # {} \/ \E p \in PPs : st[p].pc = "binsert"
  /\ now' = now + 1
  /\ UNCHANGED <<proto, shm, rows, due, mail, boxes, inbox, st, told, kept, missed, nsess, nread, nerr>>

----------------------------------------------------------------------------
(* A message is taken: the sender's record is found by its number and address *)
(* (V3, V5) or by its connection (V7), and the handler looks for the recipient. *)

Log(f, t, way, reply) == mail' = Append(mail, [to |-> t, from |-> f, way |-> way, told |-> reply])
NewId      == Len(mail) + 1
CanTake(p) == At(p, "idle") /\ Len(mail) < MaxMsgs
Start(p, job) == st' = [st EXCEPT ![p] = job]
Job(pc, t)    == [Idle EXCEPT !.pc = pc, !.m = NewId, !.u = t]
TakeRest == <<proto, shm, rows, due, boxes, inbox, told, kept, nsess, nread, now, nerr>>

\* Mutant: V3 and V5 handlers keep a pointer, too.
ProcessMessageByPointer(p, t) ==
  Start(p, IF Active(t) THEN [Job("x1", t) EXCEPT !.slot = SlotOf(t)] ELSE Job("store", t))

\* process_message: db_online_lookup copies the record, which fixes the session.
ProcessMessage(p, t) ==
  Start(p, IF Active(t) THEN [Job("send", t) EXCEPT !.sid = shm[SlotOf(t)].sid]
                        ELSE Job("store", t))

\* v3_process_sysmsg
V3Message(p, f, t) ==
  /\ CanTake(p) /\ Online(f) /\ proto[f] = "v3"
  /\ ProcessMessage(p, t)
  /\ Log(f, t, "udp", "nothing")
  /\ UNCHANGED TakeRest /\ UNCHANGED missed

\* v5_process_sysmsg
V5Message(p, f, t) ==
  /\ CanTake(p) /\ Online(f) /\ proto[f] = "v5"
  /\ ProcessMessage(p, t)
  /\ Log(f, t, "udp", "nothing")
  /\ UNCHANGED TakeRest /\ UNCHANGED missed

\* A message with a wrong length: islen_valid fails and the sender is moved offline.
BadLength(p, f) ==
  /\ At(p, "idle")
  /\ Udp(f)
  /\ Logoff(f)

\* Mutant: what was sent is stored as well.
SendAndStore(p) ==
  /\ At(p, "send")
  /\ LET m == st[p].m  u == st[p].u IN
       IF Live(st[p].sid)
         THEN inbox' = inbox \cup {<<m, u>>} /\ UNCHANGED missed
         ELSE missed' = missed \cup {Lost(m, u, "gone")} /\ UNCHANGED inbox
  /\ st' = [st EXCEPT ![p].pc = "store"]
  /\ UNCHANGED <<proto, shm, rows, due, mail, boxes, told, kept, nsess, nread, now, nerr>>

\* send_online_message, with the copy of the recipient's record: EPacket and
\* flap_send_packet drop what is for a session that is gone.
Send(p) ==
  /\ At(p, "send")
  /\ LET m == st[p].m  u == st[p].u IN
       IF Live(st[p].sid)
         THEN inbox' = inbox \cup {<<m, u>>} /\ UNCHANGED missed
         ELSE missed' = missed \cup {Lost(m, u, "gone")} /\ UNCHANGED inbox
  /\ Finish(p)
  /\ UNCHANGED <<proto, shm, rows, due, mail, boxes, told, kept, nsess, nread, now, nerr>>

\* db_add_message: nobody looks at its result.
AddMessage(p) ==
  /\ At(p, "store")
  /\ LET m == st[p].m  u == st[p].u IN
       \/ /\ boxes' = boxes \cup Rows({<<m, u>>}, now)
          /\ kept' = kept \cup {<<m, u>>}
          /\ DbOk /\ UNCHANGED missed
       \/ /\ missed' = missed \cup {Lost(m, u, "database")}
          /\ DbError /\ UNCHANGED <<boxes, kept>>
  /\ Finish(p)
  /\ UNCHANGED <<proto, shm, rows, due, mail, inbox, told, nsess, nread, now>>

----------------------------------------------------------------------------
(* V7 messages (process_msg_send).  The pointer to the recipient's record is *)
(* kept in st[p].slot.                                                       *)

Refuse(f, t, reply) ==
  /\ Log(f, t, "v7", reply)
  /\ missed' = missed \cup {Lost(NewId, t, "refused")}
  /\ UNCHANGED st

GoOn(p, f, t, pc, reply) ==
  /\ Log(f, t, "v7", reply)
  /\ Start(p, [Job(pc, t) EXCEPT !.slot = IF pc = "store" THEN 0 ELSE SlotOf(t)])
  /\ UNCHANGED missed

Replies == {"nothing", "ack"}          \* did the client ask for an acknowledgement

\* Mutant: the acknowledgement is sent before the limits are looked at.
LimitsAfterAck(p, f, t, pc) == \/ Refuse(f, t, "ack")
                               \/ \E r \in Replies : GoOn(p, f, t, pc, r)

\* The limits of the recipient's channel (size and flags, warning levels), and the
\* acknowledgement, which precedes the message.  The rate limit is never reached,
\* because nothing assigns last_msg.
Limits(p, f, t, pc) == \/ Refuse(f, t, "error")
                   \/ \E r \in Replies : GoOn(p, f, t, pc, r)

\* A txt or sys message to a user who is not online: a text of more than 450 bytes
\* is dropped without a word, another one is stored.
ForLater(p, f, t) == \/ Refuse(f, t, "nothing")
                     \/ \E r \in Replies : GoOn(p, f, t, "store", r)

\* process_txt_message: a chain without the text is refused.
TxtMessage(p, f, t) == \/ Refuse(f, t, "error")
                       \/ Active(t) /\ Limits(p, f, t, "x1")
                       \/ ~Active(t) /\ ForLater(p, f, t)

\* process_sys_message: so is a message that names another sender.
SysMessage(p, f, t) == \/ Refuse(f, t, "error")
                       \/ Active(t) /\ Limits(p, f, t, "x4e")
                       \/ ~Active(t) /\ ForLater(p, f, t)

\* process_adv_message: never stored; the recipient must have the capability.
AdvMessage(p, f, t) == \/ Refuse(f, t, "error")
                       \/ Active(t) /\ Limits(p, f, t, "x2")

\* process_msg_mtn: dropped unless the recipient is a V7 client that wants it.
TypingNotification(p, f, t) ==
  \/ Refuse(f, t, "nothing")
  \/ Online(t) /\ proto[t] = "v7" /\ GoOn(p, f, t, "notice", "nothing")

\* process_msg_ack: a client acknowledges the message of another.
ClientAck(p, f, t) ==
  \/ ~Online(t) /\ Refuse(f, t, "error")
  \/ Online(t) /\ GoOn(p, f, t, "notice", "nothing")

V7Message(p, f, t) ==
  /\ CanTake(p) /\ Online(f) /\ proto[f] = "v7"
  /\ \/ TxtMessage(p, f, t)
     \/ SysMessage(p, f, t)
     \/ AdvMessage(p, f, t)
     \/ TypingNotification(p, f, t)
     \/ ClientAck(p, f, t)
  /\ UNCHANGED TakeRest

\* The address is read through the pointer, when the packet is finished.
WriteByPointer(p) ==
  /\ LET m == st[p].m  u == st[p].u  holder == shm[st[p].slot].uin IN
       /\ inbox'  = IF holder = 0 THEN inbox ELSE inbox \cup {<<m, holder>>}
       /\ missed' = IF holder = u THEN missed
                    ELSE missed \cup {Lost(m, u, IF holder = 0 THEN "gone" ELSE "reused")}
  /\ Finish(p)
  /\ UNCHANGED <<proto, shm, rows, due, mail, boxes, told, kept, nsess, nread, now, nerr>>

\* v7_send_user_message_x1, or send_online_message(*to_user) for an older client;
\* v7_send_user_message_x4e; v7_send_user_message_x2; and the notices.
SendX1(p)  == At(p, "x1") /\ WriteByPointer(p)
SendX4e(p) == At(p, "x4e") /\ WriteByPointer(p)
SendX2(p)  == At(p, "x2") /\ WriteByPointer(p)
Notify(p)  == At(p, "notice") /\ WriteByPointer(p)

----------------------------------------------------------------------------
(* Stored messages are read through a cursor, and deleted when the client says so. *)

Stored(u) == {r \in boxes : r.u = u}

ByDate(set) == {q \in SetToSeqs(set) : \A i, j \in DOMAIN q : i < j => q[i].date <= q[j].date}

Reading(u, q) == [Idle EXCEPT !.pc = "fetch", !.u = u, !.sid = shm[SlotOf(u)].sid,
                              !.rest = q, !.tx = {Row(r) : r \in Stored(u)}]

\* The cursor shows the rows of this moment, in the order of their dates.
Declare(p, u) ==
  /\ At(p, "idle") /\ Online(u)
  /\ nread < MaxReads /\ nread' = nread + 1
  /\ \/ /\ DbOk
        /\ \E q \in ByDate(Stored(u)) : Start(p, Reading(u, q))
     \/ DbError /\ UNCHANGED st
  /\ UNCHANGED <<proto, shm, rows, due, mail, boxes, inbox, told, kept, missed, nsess, now>>

\* v3_process_sysmsg_req; v5_send_offline_messages; process_mr_messages_request.
V3Read(p, u) == proto[u] = "v3" /\ Declare(p, u)
V5Read(p, u) == proto[u] = "v5" /\ Declare(p, u)
V7Read(p, u) == proto[u] = "v7" /\ Declare(p, u)

\* One FETCH.  After an error the loop ends, as after the last row.
Fetch(p) ==
  /\ At(p, "fetch") /\ st[p].rest # <<>>
  /\ LET r == Head(st[p].rest) IN
       \/ /\ DbOk
          /\ inbox' = IF Live(st[p].sid) THEN inbox \cup {Row(r)} ELSE inbox
          /\ st' = [st EXCEPT ![p].rest = Tail(@), ![p].date = r.date]
       \/ DbError /\ st' = [st EXCEPT ![p].rest = <<>>, ![p].cut = TRUE] /\ UNCHANGED inbox
  /\ UNCHANGED <<proto, shm, rows, due, mail, boxes, told, kept, missed, nsess, nread, now>>

\* v3_send_user_sysmsg; v5_send_user_sysmsg; mr_send_offline_message.
V3Fetch(p) == Serves(p, "v3") /\ Fetch(p)
V5Fetch(p) == Serves(p, "v5") /\ Fetch(p)
V7Fetch(p) == Serves(p, "v7") /\ Fetch(p)

\* The end of the list: SYSxMSGxDONE, v5_send_end_sysmsg, mr_send_end_of_messages.
EndOfMessages(p) ==
  /\ At(p, "fetch") /\ st[p].rest = <<>>
  /\ told' = told \cup {[sid |-> x, date |-> st[p].date, cut |-> st[p].cut,
                           rows |-> st[p].tx] : x \in {y \in {st[p].sid} : Live(y)}}
  /\ Finish(p)
  /\ UNCHANGED <<proto, shm, rows, due, mail, boxes, inbox, kept, missed, nsess, nread, now, nerr>>

\* v3_process_sysack: the client sends the date of the last message it got.
V3Delete(p, u, end) ==
  /\ At(p, "idle") /\ Online(u) /\ proto[u] = "v3" /\ end.sid = shm[SlotOf(u)].sid
  /\ st' = [st EXCEPT ![p] = [Idle EXCEPT !.pc = "del", !.u = u, !.target = u,
                                       !.date = end.date, !.cut = end.cut, !.tx = end.rows]]
  /\ told' = told \ {end}
  /\ UNCHANGED <<proto, shm, rows, due, mail, boxes, inbox, kept, missed, nsess, nread, now, nerr>>

\* v5_process_sysmsg_delete: everything.
V5Delete(p, u, end) ==
  /\ At(p, "idle") /\ Online(u) /\ proto[u] = "v5" /\ end.sid = shm[SlotOf(u)].sid
  /\ st' = [st EXCEPT ![p] = [Idle EXCEPT !.pc = "del", !.u = u, !.target = u,
                                       !.date = All, !.cut = end.cut, !.tx = end.rows]]
  /\ told' = told \ {end}
  /\ UNCHANGED <<proto, shm, rows, due, mail, boxes, inbox, kept, missed, nsess, nread, now, nerr>>

\* process_ime_multi_req: the requester is checked against the record, ...
V7Delete(p, u, end) ==
  /\ At(p, "idle") /\ Online(u) /\ proto[u] = "v7" /\ end.sid = shm[SlotOf(u)].sid
  /\ st' = [st EXCEPT ![p] = [Idle EXCEPT !.pc = "v7del", !.u = u,
                                       !.slot = SlotOf(u), !.cut = end.cut, !.tx = end.rows]]
  /\ told' = told \ {end}
  /\ UNCHANGED <<proto, shm, rows, due, mail, boxes, inbox, kept, missed, nsess, nread, now, nerr>>

\* ... and process_mr_delete_messages reads the user number through the pointer.
V7DeleteUin(p) ==
  /\ At(p, "v7del")
  /\ st' = [st EXCEPT ![p].pc = "del", ![p].date = All, ![p].target = shm[st[p].slot].uin]
  /\ UNCHANGED <<proto, shm, rows, due, mail, boxes, inbox, told, kept, missed, nsess, nread, now, nerr>>

\* Mutant: the user is forgotten in the DELETE.
DeletedOfAll(p) == {r \in boxes : r.date <= st[p].date}

\* target is the user whose messages are deleted.
Deleted(p) == {r \in boxes : r.u = st[p].target /\ r.date <= st[p].date}

WhyUnread(p, r) == CASE r.u # st[p].u /\ st[p].slot # 0 -> "stray"
                     [] r.u = st[p].u /\ Row(r) \notin st[p].tx -> "late"
                     [] r.u = st[p].u /\ Row(r) \in st[p].tx /\ st[p].cut -> "cut"
                     [] OTHER -> "unread"

\* db_del_messages; an error is not noticed.
DelMessages(p) ==
  /\ At(p, "del")
  /\ \/ /\ boxes' = boxes \ Deleted(p)
        /\ missed' = missed \cup
             {[m |-> r.m, u |-> r.u, why |-> WhyUnread(p, r), tie |-> r.date = st[p].date] :
                r \in {x \in Deleted(p) : Row(x) \notin inbox}}
        /\ DbOk
     \/ DbError /\ UNCHANGED <<boxes, missed>>
  /\ Finish(p)
  /\ UNCHANGED <<proto, shm, rows, due, mail, inbox, told, kept, nsess, nread, now>>

----------------------------------------------------------------------------
(* broadcast_message *)

\* v3_process_broadcast, by a user who may: to all users (t = 1), or to those
\* online (t = 0).
Broadcast(p, f, t) ==
  /\ CanTake(p) /\ Online(f) /\ proto[f] = "v3"
  /\ Start(p, Job("bselect", t))
  /\ Log(f, t, "broadcast", "nothing")
  /\ UNCHANGED TakeRest /\ UNCHANGED missed

\* What the row of a user would be had it kept in step, and the users for whom it is not.
Records(u) == {shm[s].active : s \in RecordOf(u)}
Behind     == {u \in Uins : RowsOf(u) # Records(u)}

\* Stage 1: the users whose rows are active.
SelectOnline(p) ==
  /\ At(p, "bselect")
  /\ \/ /\ DbOk /\ UNCHANGED missed
        /\ st' = [st EXCEPT ![p].pc = "bsend",
                  ![p].rest = SetToSeq({u \in Uins \ {mail[st[p].m].from} : TRUE \in RowsOf(u)}),
                  ![p].moved = @ \cup Behind]
     \/ /\ DbError /\ Finish(p)
        /\ missed' = missed \cup {Lost(st[p].m, u, "database") : u \in Uins}
  /\ UNCHANGED <<proto, shm, rows, due, mail, boxes, inbox, told, kept, nsess, nread, now>>

\* The record is looked for again (shm_iget_user), copied and written to.
SendOnline(p) ==
  /\ At(p, "bsend") /\ st[p].rest # <<>>
  /\ LET u == Head(st[p].rest) IN
       inbox' = IF Online(u) THEN inbox \cup {<<st[p].m, u>>} ELSE inbox
  /\ st' = [st EXCEPT ![p].rest = Tail(@)]
  /\ UNCHANGED <<proto, shm, rows, due, mail, boxes, told, kept, missed, nsess, nread, now, nerr>>

Addressee(p, u) == u # mail[st[p].m].from /\ (st[p].u = 0 => Online(u))
Unreached(p) == {u \in Uins : Addressee(p, u) /\ <<st[p].m, u>> \notin inbox \cup st[p].tx}
WhyUnreached(p, u) == IF u \in st[p].moved THEN "moved"
                      ELSE IF Online(u) /\ ~Active(u) THEN "inactive" ELSE "unreached"
EndBroadcast(p) ==
  /\ missed' = missed \cup {Lost(st[p].m, u, WhyUnreached(p, u)) : u \in Unreached(p)}
  /\ Finish(p)

\* Stage 2: a second transaction, and a new look, at who has no row.
SelectOffline(p) ==
  /\ At(p, "bsend") /\ st[p].rest = <<>>
  /\ \/ st[p].u = 0 /\ EndBroadcast(p) /\ DbOk
     \/ /\ st[p].u = 1
        /\ st' = [st EXCEPT ![p].pc = "binsert", ![p].date = now,
                            ![p].rest = SetToSeq({u \in Uins : RowsOf(u) = {}}),
                            ![p].moved = @ \cup Behind]
        /\ DbOk /\ UNCHANGED missed
     \/ /\ st[p].u = 1 /\ DbError /\ Finish(p)
        /\ missed' = missed \cup {Lost(st[p].m, u, "database") : u \in Unreached(p)}
  /\ UNCHANGED <<proto, shm, rows, due, mail, boxes, inbox, told, kept, nsess, nread, now>>

\* The first INSERT that fails takes the ones before it with it.
InsertOffline(p) ==
  /\ At(p, "binsert") /\ st[p].rest # <<>>
  /\ \/ /\ st' = [st EXCEPT ![p].rest = Tail(@), ![p].tx = @ \cup {<<st[p].m, Head(st[p].rest)>>}]
        /\ DbOk /\ UNCHANGED missed
     \/ /\ DbError /\ Finish(p)
        /\ missed' = missed \cup {Lost(st[p].m, u, "database") : u \in Uins}
  /\ UNCHANGED <<proto, shm, rows, due, mail, boxes, inbox, told, kept, nsess, nread, now>>

\* END: the rows appear, with the date of the beginning of the stage.
CommitOffline(p) ==
  /\ At(p, "binsert") /\ st[p].rest = <<>>
  /\ boxes' = boxes \cup Rows(st[p].tx, st[p].date)
  /\ kept' = kept \cup st[p].tx
  /\ EndBroadcast(p)
  /\ UNCHANGED <<proto, shm, rows, due, mail, inbox, told, nsess, nread, now, nerr>>

----------------------------------------------------------------------------
TakeOne(p) ==
  \/ \E f \in Writers : \E t \in Uins \ {f} : V3Message(p, f, t) \/ V5Message(p, f, t) \/ V7Message(p, f, t)
  \/ \E f \in Writers : BadLength(p, f) \/ \E t \in {0, 1} : Broadcast(p, f, t)

Deliver(p) == \/ Send(p) \/ AddMessage(p)
              \/ SendX1(p) \/ SendX4e(p) \/ SendX2(p) \/ Notify(p)

Read(p) == \/ \E u \in Uins : V3Read(p, u) \/ V5Read(p, u) \/ V7Read(p, u)
           \/ V3Fetch(p) \/ V5Fetch(p) \/ V7Fetch(p) \/ EndOfMessages(p)
           \/ \E u \in Uins, end \in told : \/ V3Delete(p, u, end) \/ V5Delete(p, u, end)
                                           \/ V7Delete(p, u, end)
           \/ V7DeleteUin(p) \/ DelMessages(p)

Spread(p) == \/ SelectOnline(p) \/ SendOnline(p) \/ SelectOffline(p)
             \/ InsertOffline(p) \/ CommitOffline(p)

Next == \/ \E u \in Uins : Login(u) \/ Activate(u) \/ Logoff(u)
        \/ LateStatement \/ Tick
        \/ \E p \in PPs : TakeOne(p) \/ Deliver(p) \/ Read(p) \/ Spread(p)

Spec == Init /\ [][Next]_vars

----------------------------------------------------------------------------
Pairs == Ids \X Uins

TypeOK ==
  /\ proto \in Clients
  /\ shm \in [Slots -> [uin : Uins \cup {0}, sid : 0 .. MaxSessions, active : BOOLEAN]]
  /\ rows \subseteq Uins \X BOOLEAN /\ due \subseteq Uins \X Statements
  /\ Len(mail) \in 0 .. MaxMsgs
  /\ {Row(r) : r \in boxes} \subseteq kept /\ kept \subseteq Pairs /\ inbox \subseteq Pairs
  /\ \A p \in PPs : /\ st[p].m \in 0 .. Len(mail) /\ st[p].sid \in 0 .. MaxSessions
                    /\ st[p].slot \in Slots \cup {0} /\ st[p].date \in 0 .. All
                    /\ st[p].target \in Uins \cup {0}
                    /\ st[p].tx \subseteq Pairs /\ st[p].moved \subseteq Uins
  /\ nsess \in 0 .. MaxSessions /\ nread \in 0 .. MaxReads /\ now \in 1 .. MaxTime /\ nerr \in 0 .. MaxErrors

\* The date a V3 client sends with its delete protects what it has not read: only a
\* message of the same second, or a broadcast, whose date is older than its rows,
\* is deleted unread.
DateProtects ==
  \A x \in missed : x.why \in {"late", "cut"} /\ proto[x.u] = "v3"
                      => x.tie \/ mail[x.m].way = "broadcast"

\* Every message to a user is being worked on, or in the user's box, or was written
\* to a session of the user, or is lost for one of the reasons the code has: the
\* session ended between the look and the send; the record was given to another
\* user under a V7 handler's pointer; a statement failed; the recipient's limits or
\* the message itself did not allow it; it was stored after the reading began that
\* the client answered with a delete, or by a reading a FETCH error had cut short; a
\* V7 delete went through a stale pointer; a broadcast met a user who was moving,
\* whose row did not agree with his record, or who was not active.  It is never deleted unread for another reason.
Busy(m, u) == \E p \in PPs : st[p].pc # "idle" /\ st[p].m = m
Causes == {"gone", "reused", "database", "refused", "late", "cut", "stray",
           "moved", "inactive"}
LossesAreKnown ==
  /\ DateProtects
  /\ \A x \in missed : x.why \in Causes
  /\ \A m \in DOMAIN mail : mail[m].way # "broadcast" =>
       LET u == mail[m].to IN
         \/ Busy(m, u) \/ <<m, u>> \in inbox \/ \E r \in boxes : Row(r) = <<m, u>>
         \/ \E x \in missed : x.m = m /\ x.u = u

\* Types; and a message is shown to nobody but its recipient, unless a V7 handler's pointer
\* came to another user's record; what is in a user's box is for the user.
OnlyForTheRecipient ==
  /\ TypeOK
  /\ \A x \in inbox \cup kept : mail[x[1]].way # "broadcast" =>
       \/ mail[x[1]].to = x[2]
       \/ /\ mail[x[1]].way = "v7" /\ x \notin kept
          /\ \E y \in missed : y.m = x[1] /\ y.why = "reused"

\* What a V7 sender is told is true: a message that was acknowledged was not refused,
\* one answered with an error was neither shown nor stored.
SenderIsToldTheTruth ==
  \A m \in DOMAIN mail :
    /\ mail[m].told = "ack" => ~\E x \in missed : x.m = m /\ x.why = "refused"
    /\ mail[m].told = "error" => ~\E x \in inbox \cup kept : x[1] = m

\* The messages, without broadcasts and the notices that are never stored, are the
\* letters of the abstract specification.
IsLetter(x) == x[1] \in DOMAIN mail /\ mail[x[1]].way # "broadcast" /\ mail[x[1]].to = x[2]
Letters == INSTANCE Mailbox WITH Letters <- Pairs,
             box  <- {x \in {Row(r) : r \in boxes} : IsLetter(x)},
             used <- {x \in kept : IsLetter(x)},
             got  <- {x \in inbox : IsLetter(x)}
MailboxPromise == Letters!Spec
=============================================================================
