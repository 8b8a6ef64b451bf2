# A verification project for IServerd

IServerd is an ICQ/OSCAR server in C++: one parent process and a set of forked
children that share System V memory, semaphores, unix-domain datagram pipes and a
PostgreSQL database. This directory holds TLA+ models of its core, configurations
that check them with TLC, and proofs checked by TLAPS. Paths below are relative to
the root of the source tree (`src/`).

Contents: 1 the system, 2 its hard behaviours, 3 what is modelled and how, 4 the
runs, 5 the proofs, 6 what is only model-checked and what is not modelled, 7 facts
met on the way, 8 the plan.

## 1. The system

### Processes

| process | code | what it does |
|---|---|---|
| SP, socket processor (the parent) | `isdcore/sprocess.cpp`, `isdcore/sockets-p.cpp` (`-ep`, `-kq`), `isdcore/v7_proto/flap.cpp` | reads the UDP socket, TCP connections and the web-pager socket; forwards packets to PPs, acknowledgements to EPacket; writes replies to TCP connections; restarts dead children |
| PP, packet processors (n = `min_childs`) | `isdcore/process.cpp`, `isdcore/handle.cpp`, `isdcore/v3_proto`, `v5_proto`, `v7_proto` | handle one packet at a time: logins, messages, lists, queries |
| EPacket | `event/epacket.cpp` | sends V3/V5 packets over UDP and resends them until they are confirmed |
| EUser | `event/euser.cpp`, `event/scheduler.cpp` | expires silent V3/V5 users, checks the online table, runs periodic tasks |
| ETimer | `event/etimer.cpp` | SIGALRM every second: MESS_TIMEOUT to EUser (the heartbeat) and to EPacket |
| Defrag | `isdcore/fprocess.cpp`, `database/defrag_db.cpp` | reassembles fragmented V3 packets |
| Actions | `pactions/actions.cpp` | runs configured actions (mail, log, commands) |

### Components, their state, operations and what makes them correct

| component | state | operations | correct when | modules |
|---|---|---|---|---|
| EPacket | `usr_queue` list: per user a session (`usid`) and unconfirmed packets with `ack_stamp`, retries, countdown | number, queue and send; remove by acknowledgement; resend; expire; restart | a packet goes only to its user; one acknowledgement removes one packet; nothing is resent after it is done; everything leaves the list | `EPacket` |
| Online table | `usr_shm[]`, `online_usr_num`, semaphore `lock_ushm`; rows of `Online_Users` | `shm_add`, `shm_delete`, lookups, `db_online_insert/delete` | the counter counts; two records of a user have a cause; stale rows and silent users leave | `OnlineTable` |
| EUser | scan index, `processed_num` | heartbeat scan, expiry, keepalive, `check_online_table` | it drops the session it found expired, whatever changes meanwhile | `OnlineTable` |
| Login and logoff | login cookies, the V7 session fields | V3/V5 login, V7 authorize and cookie, kick, logoff | test and insertion fit together; a session ends with its connection | `OnlineTable`, `ConnTable` |
| Pipes | seven datagram socketpairs | blocking `sendto`, `recvfrom`/`select` | the server does not freeze | `PipeNet` |
| Supervision | children list, `childs_check`, `reload_in_progress` | fork, insert, SIGCHLD, SIGHUP, restart checks | the configured children run; never more | `Supervisor` |
| Connection table (TCP) | `sock_fds`/`sock_inf` arrays, compacted on close; `int_pack` | accept, read, close, timeout, SOCK_NEW, SOCK_RDY, SOCK_TERM | a reply goes to the connection it is for; every end is reported | `ConnTable` |
| Messages | `Users_Messages`, `shm` records | direct delivery, storing, cursor, delete, broadcast | a message reaches its recipient, and only him, or its loss has a known cause | `Messaging`, `Mailbox` |
| Presence | `Online_Contacts`, status and `active` in memory and in rows, the visible and invisible lists, `cloaded` | online, offline and status broadcasts; list uploads; add and delete | a client shows who is there, and nobody who hides | `Presence` |
| Fragments | `Fragment_Storage`, large objects, defrag pipe | add part, check, inject, expire | a packet is assembled once, whole, if it was acknowledged | `Defrag` |
| Scheduler | counters of periodic tasks | tick | each task runs with its period | `Defrag` (its one use) |
| SSI | `users_ssi_data`, `users_perms`, `Online_Contacts` | transactions of add, update, remove; authorization; "list unchanged" | the client's copy is the server's list; grants are not lost | `SSI` |
| User information, registration | `users_info_ext`, `register_requests` | save a field group, show, join, leave, new password | what was saved is shown; rows hold what their owners sent; a number has one owner | `UserInfo`, `Directory` |
| White pages | `users_info_ext`, `Online_Users` | nineteen searches | an answer ends as it says, finds who was asked for, hides hidden addresses | `WhitePages` |
| Semaphores | in, out, incw, shmr, ipcw | lock, unlock, `SEM_UNDO` | released on every way out | `lock_ushm` in `OnlineTable` |
| Actions, administration protocol, web pager, configuration, logging, utilities | – | rules, request and answer, parsing, output | – | not modelled |

### How they interact

* **Pipes** (`system/util_pipe.cpp`): incoming (SP, Defrag → PPs), toutgoing (PPs,
  EUser → SP), outgoing (PPs, EUser → EPacket), epacket (SP, ETimer → EPacket),
  euser (PPs, EUser, ETimer → EUser), defrag (PPs, EUser → Defrag), actions. Only the
  SP's end of toutgoing is non-blocking (`isdcore/sprocess.cpp:405`).
* **Shared memory**: `usr_shm[]` and `ipc_vars`. Adding and deleting take
  `lock_ushm`; lookups, EUser's scan and the V7 handlers' pointers do not.
* **Database**: rows mirror the records of shared memory; each statement is atomic,
  handlers made of several statements are not, but for the transactions of SSI.
  A failed statement makes the process open a new connection, which ends its
  transaction and its cursor.
* **Signals**: SIGCHLD and SIGHUP interrupt the SP anywhere; SIGALRM drives ETimer;
  SIGINT ends a child.

## 2. Hard behaviours

`PROJECT.json` lists the hazards by line, each with the properties that would see it go
wrong. The themes: unlocked reads and test-then-act across processes; a slot index or a
pointer that outlives the record it named; acknowledgements that come late, twice, or
for another session's packet; a network that loses and reorders; blocking writes in a
cycle of pipes; signal handlers that change what they interrupt; a table that is
compacted by the calls of the loop that scans it; kills inside critical sections; two
stores (memory and database) updated one after the other; a client's answer to
something it was shown a while ago; statements that fail in the middle of a handler;
counters that wrap at zero.

## 3. What is modelled

Every action is one atomic step of one process; where the code reads shared state
without a lock, or may be killed or overtaken in between, the handler is split into its
steps. Variables marked *history* record what the properties speak of and are read by
no guard.

### `EPacket` – confirmed delivery

| code | module |
|---|---|
| `usr_shm` records with `uin`, `usid`, `servseq` | `usr_shm` |
| `db_online_lookup` into a PP's private record | `PPLookup`, `copy` |
| `event_send_packet` and the outgoing pipe | `event_send_packet`, `outgoing` |
| `epacket_process_packet`: `shm_iget_user`, stamp, `PutSeq3`/`PutSeq`, `servseq++`, queue and send | `ReceivePacket`, `StampPacket`, `PutSeq`, `CountUp`, `LinkAndSend` (the pointer is used without a lock: anybody may come between) |
| `usr_queue_s`, `ipack_s` | `uqueue`, `QRecords` |
| `epacket_process_event`, `remove_packet_from_list` | `ProcessAck`, `Acked` |
| `check_ack_list`, `user_pqueue_check`, `packet_expire` | `ProcessTimeout`, `MustResend`, `AfterResend`, `IsExpired`, `CheckedQueue` |
| SP's `udp_process` on an acknowledgement | `UdpAck` |
| ETimer's tick | `ETimerTick` |
| fork of a new EPacket | `Restart` |

A session number stands for `usid` and the client's address; `owner` remembers who
opened it. `sent` keeps every datagram, and any of them may be acknowledged at any
later time, any number of times: loss, delay, reordering and repetition are all
there. Logins and logoffs may rewrite the record between any two steps in which EPacket
uses its pointer; `raced` (history) remembers the packets that this happened to, and the
properties make their exceptions for these packets alone, never for others that are queued
with them. A step reads or writes a record whole; a record that changes in the middle of
`add_packet_to_list` is left out. A session number is handed out at login; the code's
`rand()` may repeat, which the module leaves out. `seq` of the header is 16 bits wide
(`SeqMod`), the stamp is computed from the unsigned long. A client may put any second
sequence number of `SecondSeqs` into its acknowledgement, which is added to the stamp
(`isdcore/sprocess.cpp:84`, `generate_ack_number`).

### `OnlineTable` – shared memory, rows, EUser

| code | module |
|---|---|
| `shm_add`: lock, test, count / write, unlock | `ShmAddCount`, `ShmAddWrite` |
| `db_online_insert` after it | `DbInsert` (fails if a row exists) |
| `v3_process_login`, `v5_process_login` | `UdpLogin` |
| `process_authorize_packet`, `process_cookie_packet`, `cookies_db` | `V7Authorize`, `CookieInsert`, `CookieCheck`, `CookieDelete`, `CloseConnection` |
| `shm_delete` and `db_online_delete` | `ShmDeleteCount`, `ShmDeleteZero`, `DbDelete` |
| `online_cache_decrement` | `EUTick`, `EUVisit`, `EUStore`, `EUExpire` |
| MESS_UPDATE | `EUUpdate` |
| `check_online_table` | `EUCheckOpen`, `EUCheckRow` |
| a killed process, `SEM_UNDO`, `process_euser`'s `db_online_clear` | `Crash` |

Abstractions: the deletion and insertion of a user's cookie are one step
(`CookieInsert`); the copy of a record into shared memory is one step; the rows that
the cursor of `check_online_table` has still to fetch are `portal`; `realtime_odb`,
off by default (`config/loadparm.cpp:435`), is off; a session gets its number at
login; the test of the uptime, which a clock set back can spoil, is `ClockJumps`; the
second load of `temp_user->uin`, which a compiler may or may not emit, is `Reload`
(a data race: both outcomes are possible builds). `ttlv--` of 0 wraps to `Wrapped`,
which is never 0 again. `killed` (history) says which processes were ever killed. Three
more history variables tell what excuses a second record of a user: `late`, the PPs whose
user has come online since they found him offline (or kicked one of two records he had);
`stale`, the users who have since they got their cookie; `excused`, the sessions added by
such a PP while the user was online. A kick reads `user->uin` once more through its
pointer: the module takes it as the one it looked up.

### `PipeNet` – who waits for whom

A process is the list of datagrams it has still to write (`todo`); it reads again when
the list is empty. Datagrams are abstracted to what decides the pipes their reader
writes to. `Plans` is what a command makes a PP write: at most a user event, a packet
for another user, and a reply, or one fragment; a handler that writes more takes
several turns, which only adds places where others may come in between. `beat` says
that EUser is inside `online_cache_decrement`, where it writes MESS_OFFLINE to its
own pipe. The module takes the blocking `sendto` of Linux (see 7 for FreeBSD). The
actions pipe, which nobody waits on in a cycle, is left out.

### `Supervisor` – the children

| code | module |
|---|---|
| the list `cl_begin`, `childs_check`, `reload_in_progress` | `childs`, `childs_check`, `reload` |
| `fork_childs` | `Init` (starts it), then `fork_child`, `child_insert`, `reset` with `starting` |
| `prchilds_check`, `check_packet_processors`, `check_event_processors`, ... | `prchilds_check`, `childs_num`, `fork_child`, `child_insert`, `reset` |
| `mySIGCHLDHandler` | `mySIGCHLDHandler`, enabled between any two steps |
| `mySIGHUPHandler` | `mySIGHUPHandler` |

SIGCHLD may also come in the middle of `childs_num`; the walk and the handler share
the cursor `cl_list`, and the handler frees records, so the count is then any number
(`Counts`). A failed fork inserts the pid -1, a record that stands for no process.
Left out: the reuse of pids, the order in which the roles are visited (it differs
between `fork_childs` and the check), signals during the few assignments of
`child_insert`, the shutdown and the death of the parent, and the watchdog, which is
compiled to nothing.

### `ConnTable` – TCP connections from accept to SOCK_TERM

| code | module |
|---|---|
| `sock_fds`, `sock_inf`, `tcp_sock_count` | `tbl`, `cnt` (after the reserved slots) |
| the poll loop: toutgoing, accept, scan, timeouts | `pc`, `idx`, `evs`, `budget`; `Poll`, `RoundTog`, `TogProcess`, `Accept`, `ScanBegin`, `Scan`, `Timeout`, `RoundEnd` |
| `close_socket_index_r` (the last entry moves into the hole) | `RemoveEntry` |
| `spipe_send_packet`: the wait for room, in which replies are written and connections closed | `frames`, `SpipeWait`, `int_pack` (one global packet for all nested calls) |
| SOCK_NEW, SOCK_RDY, SOCK_DATA, SOCK_TERM at the PPs, cookies, `close_connection`, the kick | `PPStep` and its `todo` lists, `online`, `odb`, `cookies` |
| clients | `ClientStep`: connect, send, break the protocol, hang up |

`Platforms` says whether `sendto` on a full datagram socket waits (Linux) or fails
(FreeBSD, ENOBUFS); with SA_RESTART the wait loop of SP is entered only on the latter.
The history variables record *why*: `hurt` (a wait disturbed the connection), `timed`,
`late`, `doubled`, `ended`, `asked`. `rnd_id` is assumed unique. Left out: the epoll and
kqueue loops (which differ in the system call), the UDP socket, the shortcut by
`last_ind` for FLAP channels.

### `Messaging` and `Mailbox` – from the writer to the recipient

`Mailbox` is the abstract specification: a letter to one user is handed to a session or
put into the mailbox, once; it is read any number of times; what was removed does not
come back. `Messaging` implements it (`MailboxPromise`, with `box`, `used`, `got` taken
from `boxes`, `kept`, `inbox`).

| code | module |
|---|---|
| `process_snac_messaging`, `process_msg_*`, the V3 and V5 message commands | `TakeOne`: `V3Message`, `V5Message`, `V7Message` and its kin |
| `process_message`: look, then send or INSERT | `Deliver`: `Send`, `AddMessage` |
| a V7 handler's pointer into `usr_shm`, read again when it writes | `WriteByPointer` in `SendX1`, `SendX2`, `SendX4e`, `Notify` |
| the cursor of `v3_process_sysmsg_req`, `v5_send_offline_messages`, `process_mr_messages_request` | `Declare`, `Fetch`, `EndOfMessages` |
| the client's delete: `v3_process_sysack`, `v5_process_sysmsg_delete`, `process_mr_delete_messages` | `V3Delete`, `V5Delete`, `V7Delete`, `DelMessages` |
| `db_users_setonline`, `db_users_setactive`, `db_users_setoffline`: the record, then the row of `Online_Users` | `Login`, `Activate`, `Logoff` change the record (`shm`); `Statements` and `RowsAfter` say what becomes of `rows`, at once (`Follows`) or later (`due`, `LateStatement`) |
| `broadcast_message`, which asks the rows | `SelectOnline`, `SendOnline`, `SelectOffline`, `InsertOffline`, `CommitOffline` |
| `handle_database_error` | `DbOk` and the failing branch of each statement |

`missed` (history) records each loss with its cause. Contents, encodings and the four
message types that ask for authorization (which `SSI` shows from the list's side) are
left out; nobody writes to himself; the clock moves once a date was taken.

Messages from one to another look at the records, a broadcast at the rows. A row follows
its record with a statement of its own, which may fail, or come after the statement of a
later session: the unique index then refuses an INSERT, and a DELETE takes what it finds.
So a row may be missing, say inactive, or stay behind (`Behind`); that EUser removes those
of silent sessions is in `OnlineTable`. `Late` bounds whose statements may be late.

### `Presence` – who is shown to whom

A handler is a program: a sequence of steps, each one access to shared memory, one
statement, or one packet, so that the programs of several PPs interleave. Programs are
given for login, ready, status change, logoff and expiry, list upload, add and delete,
for each protocol. `view[v][u]` is what v's client was last told of u; `excuses`
(history) says which race or failure may have spoiled it. The queries read
`Online_Users`, the packets carry what shared memory says. Left out: the LIMIT of the
queries, contents and loss of the packets (`EPacket` has it); copying a contact's record
and sending it is one step.

### `Defrag` – V3 packets in fragments

PPs acknowledge and store fragments (`TakeFragment`, `AddPart`, `Notify`), the Defrag
process assembles them (`Receive`, `SelectParts`, `Lookup`, `ReadPart`, `Inject`),
the three `db_defrag_delete` are `DeleteSelect`/`DeleteCommit` for a user, a packet or
the expired ones; `Second` is the scheduler's tick. One user, whose sessions are
numbered; the fragments are those of a correct client, in any order and repeated.

### `SSI` – contact lists kept on the server

One user with several computers, each with its copy of the list (`copy`), edits it inside
and outside transactions; contacts agree to be listed meanwhile. Handlers are programs of
statements, several at once. `why` and `miss` (history) say which known cause may make
the copy differ, or a contact be missing. Left out: other item types, the splitting of a
long list into packets, the texts of relayed requests.

### `UserInfo`, `Directory` – what users say about themselves, and their numbers

`UserInfo` is a table without behaviour: which columns every handler of the three
protocols writes, from which fields, and which columns every reply shows. `Directory`
runs these handlers statement by statement (`Save`, `Read`, `Write`, `Answer`), with V7's
pointers into shared memory, repeated packets (`Again`), refused strings (`TooLong`),
leaving (`Leave` ... `Goodbye`) and registration (`Join` ... `Welcome`). A request to
unregister deletes the number that the packet names, with its password: the session's own,
or that of somebody who uses this client too. In each behaviour one
group of columns is looked at: what is in one decides nothing about another. `told` is what
a user has been told is saved, under the number he has: a new number starts with a fresh
row and forgets it, and whoever gets one while a session, a request or a row of his is of
an earlier time (`Leftovers`) may find anything in it.

### `WhitePages` – searches

Each of nineteen searches as the clauses it builds from its criteria, its LIMIT, and the
packets it sends. A row is the set of columns that hold what was asked for. A V7 search
reads the place of the one who asks while it sends; the session may end and the place
get a new owner. Random search, XML and SMS are left out.

### How the modules fit together

The modules meet where one takes what another provides: `PipeNet` takes from all what
they write to which pipe; `ConnTable` and `OnlineTable` look at the same login from the
connection's and from the table's side; `Messaging` and `Presence` take sessions that
come and go as `OnlineTable` makes them; `Messaging` hands V3/V5 packets to `EPacket`, and
`Defrag` injects into the incoming pipe; `Directory` and `WhitePages` share `UserInfo`'s
columns. Each is checked alone: a composition of two would exceed what TLC can
enumerate, and the interface of each pair is a pipe or a table that the modules treat as
arbitrary input.

## 4. The runs

| run | what it asks | bounds |
|---|---|---|
| `EPacket_users` | what an acknowledgement confirms, who gets a datagram, that done is done, that every packet leaves | 2 users, 2 slots, 2 sessions, 2 packets, 1 retry, pipes of 1, sequence numbers mod 4, second sequence 0 or 1, restarts of EPacket |
| `OnlineTable_count` | counter and capacity; what gives a user two records | 1 user, 2 PPs (symmetric), 2 slots, UDP and V7 logins, kicks, 3 sessions, clock jumps, 1 keepalive |
| `OnlineTable_live` | silent sessions end; stale rows go | 2 users, 1 PP, 2 slots, UDP logins, kills at any step |
| `PipeNet_freeze` | which processes can freeze together | 2 PPs (symmetric), pipes of 1 |
| `Supervisor_check` | list, numbers, forgotten children, recovery | 2 packet processors, 1 EPacket, 3 deaths or reloads, failing forks |
| `ConnTable_wait` | whose reply goes where, why a connection is closed, which sessions outlive it | 2 connections, 2 PPs, 2 users (all symmetric), 2 packets, pipes of 1, both platforms |
| `Messaging_mail` | who is shown a message, what a V7 sender is told, every loss has a cause, `Mailbox` is implemented | 2 users in three pairs of protocols, 2 PPs, 2 messages, 3 sessions, 2 seconds, 1 reading, 1 failing statement, late statements about one user's row |
| `Presence_views` | what a client shows is the truth, or a known race spoiled it | a subject and a viewer in three pairs of protocols, 2 PPs, 5 requests, logins and failing statements |
| `Defrag_parts` | assembled packets are whole, nothing is used twice, acknowledged is assembled, fragments go | 1 PP, 1 mover, 3 packets of 2 parts, 2 sessions, one too long, pipe of 2, 5 events |
| `SSI_lists` | the copy is the server's list, grants are kept, the limit holds, contacts are loaded | 2 PPs and 2 computers (symmetric), 6 contacts, 5 changes, limit 3, 2 seconds, 3 events |
| `Directory_rows` | saved is shown, owners write, hidden is hidden, a number has one owner | 2 users, 2 newcomers (symmetric), 2 slots, 2 PPs, 14 groups of columns, 2 requests and 2 events; with one group users come and go: 3 requests (4 to join again), 1 event |
| `WhitePages_lists` | answers end as they say, find who was asked for, and hide addresses | 19 searches, 2 criteria of any kind, a user with any row and a crowd of 2, limit 2 |

**Why the bounds are enough to meet the cases.** Two sessions are the least with which
a slot changes hands, a queue is taken over and a late acknowledgement belongs to a
former session; two packets the least with which one acknowledgement could take the
other's; one retry separates sent, resent and expired. In the table of online users
one user is enough, because a late login and an old cookie give him a second record: two
slots are full with these, and a third session is a login at the full table, or one after
one of the two records was kicked. Two PPs make every interleaving of two handlers. The
proofs of section 5 cover more users, and the second load of `uin`. Pipes of one datagram are full after one write and
everything that happens to a full pipe happens to them; larger capacities are covered
by the proof. Three deaths allow one that starts a check, one that interrupts it and
one more after it. With two connections an entry is moved into the hole of another, and
a descriptor is used again. Three sessions let a recipient leave, return, and another
user get his record; two messages let one be stored after the reading of the other; the
protocols are paired so that each is a writer and a recipient once. Three packets are two
of a session and one of the next with the same number. Of a user's columns a group is
taken for every way in which some handler treats columns (`EveryKind` in `MCDirectory`
is an assumption that TLC evaluates). A crowd of two exceeds the limit together with the
user looked at. Every mutant in `PROJECT.json` shows that the property would see a
plausible mistake in the code under the very same bounds.

`CHECK_DEADLOCK FALSE` is used where the bounds on sessions, events or requests, or a real
freeze (`PipeNet`), let the system stop.

**Fairness.** `EPacket`: its loop goes on while there is input; the alarm fires and
its blocked write proceeds once the pipe has room (strong fairness of `ETimerTick`).
`OnlineTable`: a process with work goes on and in the end wins a free semaphore
(strong fairness of the steps that take it, since System V semaphores queue their
waiters); the timer makes EUser scan and check again and again. New logins and
keepalives are not fair, and neither are kills. `Supervisor`: a pending signal is
delivered; `poll` wakes again and again, because clients send (the check runs only when
it wakes, `isdcore/sockets-p.cpp:90`). `Defrag`: a process with work goes on and time
passes. No fairness is assumed of deaths, logins or clients, and the other
specifications state none, since their properties are safety properties.

## 5. The proofs

All theorems hold for every value of the constants that satisfies the named `ASSUME`s of
the module (TLC evaluates them on each run): sets of users and processors, numbers of
slots, retries and connections, capacities, roles, timeouts. The bounds of the runs are
constants there, too, and arbitrary naturals. A conditional theorem says so in its
statement (`ASSUME ... PROVE`). Each invariant below was checked with TLC, as an invariant
of the run of its module, before it was proved; none of the properties is inductive as it
stands. Every proof has the same layout: a lemma for what each compound operator of the
model changes, a lemma that each action preserves each part of the invariant it can
disturb, and a theorem that combines them.

**`EPacketProofs`**

* `TypeCorrect`.
* `DeliveredToItsUser` (`[]NoMisdelivery`) and `StampsIdentifyPackets`
  (`[]StampsDistinct`), with logins and logoffs between any two steps. `DeliveryInv` says
  that a session belongs to its owner wherever it is named – in the records, in a PP's
  copy, in the pipe, in EPacket's hand, in the queues and on the network; that the numbers
  of the packet in hand are its record's unless the record was rewritten (`NumbersKept`);
  and that no stamp in a queue exceeds the `servseq` its session has reached
  (`QueueOfOneSession`), so the next stamp is new. A packet whose record was rewritten may
  lie in any queue, with any stamp: the invariant says what it cannot do to the others.
* `ConfirmedAsReceived` (`[]ConfirmedByItsNumber`), likewise. `ConfirmInv` follows a
  number from the wire back to the queue: whatever is acknowledged was received by the
  user with that number (`AcksOfReceived`), whatever is queued was sent with its own.
* `DoneForGood` (`DoneIsDone`, an action property) and `GivenUpWhenExhausted`, without
  exception. `DoneInv` says that packets come out of the pipe in the order of their
  ids, so EPacket never meets one again (`PostedInOrder`, `CurIsNew`); that an id is in
  one place only (`OnePlace`); and that a packet with m retries left was transmitted all
  the other times (`TriesCounted`).

**`OnlineTableProofs`**

* `TypeCorrect` for every build, crashes included: EUser never indexes outside the array.
* `CounterIsExact` and `TestedAddFindsRoom` if nothing is killed inside the critical
  sections (`~Crashes`) and the uin is loaded once (`~Reload`). `CountInv`: at most one
  process is inside, it is the holder of the semaphore, what it is about to zero is a
  record, and the counter is the number of records corrected by the half-finished
  operation. Each critical step is a lemma about cardinalities.
* `TwoRecordsHaveACause` (`[]DoublesAreKnown`) in every build and with crashes.
  `DoubleInv` carries what a login handler has tested, or made so by kicking a session, over
  its statements, the cookie and the wait for the semaphore to the moment at which it adds:
  it still holds (`TestsHold`, `CookiesHold`), or the handler or the cookie is marked. TLC
  checks it without crashes.

**`PipeNetProofs`** – `TypeCorrect` and `FreezeIsKnown` (`[]FreezesOnlyHere`) for any
number of PPs and any capacity. The invariant adds that every process writes only
to its own pipes (`OwnPipes`); the rest is an argument about the wait-for graph:
EPacket never writes, so whoever waits for it is not frozen, and the possible
cycles remain.

**`SupervisorProofs`** – `TypeCorrect`, `NoneUnlisted` (`[]ListedOrNew`),
`NoMoreThanConfigured` (`[]NeverTooMany`) and `ShortForKnownReasons` (`[]ShortIsKnown`) for
any roles, numbers and deaths. `CountInv` adds what is due in the current turn to what is
listed: their sum stays within the configuration, and at the start no role not reached yet
has a record. `FilledInv` is its counterpart from below: unless another check is requested,
no role SP has been through is short, counting the children it is about to insert.

**`ConnTableProofs`** – `TableStaysExact` (`[]TableIsExact`), `RepliesReachTheirOwner`
(`[]RepliesFindTheirOwner`), `ClosingsHaveCauses` (`ClosedForCause`, an action property) and
`GhostsExplained` (`[]GhostsAreKnown`), for any number of connections, processors and
users, any pipe and table size, on both platforms. The properties are about moments
between the steps of SP's round, and what makes them true has to be carried through the
round and through its nested waits. The invariant has a part for each: the stack of
pending calls (`FramesInv`) and what `int_pack` still holds for the innermost one
(`PackInv`); entries and descriptors match (`FdInv`); every undisturbed connection has an
entry, the one being accepted just behind the table (`ListedInv`); the cause of a close is
known while the request, the mark or the call is pending (`CauseInv`); what is in pipes
and handlers names accepted connections (`WorkInv`); a closed connection has been ended,
or its SOCK_TERM is in the pipe, unless it timed out or was disturbed (`SessionInv`).

**`MessagingProofs`** – `LossesHaveCauses` (`[]LossesAreKnown`), `ShownToTheRecipient`
(`[]OnlyForTheRecipient`), `AnswersAreTrue` (`[]SenderIsToldTheTruth`) and `LettersAreKept`
(`MailboxPromise`), for any number of users, records, processors, messages and failing
statements. `IInv` has, besides types and the uniqueness of sessions: a message has one
handler until it is shown or stored (`WorkInv`); what is shown, stored or lost was taken
and is for its recipient (`MailInv`, `ShownInv`); and the part that makes the deletes
safe, which follows a stored message from the opening of a cursor (`CursorInv`) over the
end marker (`ToldInv`) to the delete that answers it (`DeleteInv`): what is in the box and
was not shown is still to be fetched, or the reading was cut before it, or it is dated
later than what was read. `CastInv` does the same for the two looks of a broadcast: it
passes by nobody but those who came, left or became active meanwhile, those whose rows were
behind their records when it looked, and those who are not active. The refinement is proved step by step under `IInv`: each action is mapped to `Put`, `Hand`,
`Show` or `Remove` of `Mailbox`, or to a stutter.

**`DefragProofs`** – `WholeUnlessReusedOrCut` (`[]InjectedWhole`), `UsedAsOftenAsTaken`
(`[]UsedOnce`) and `AcknowledgedAreAssembled` (`[]AckedIsInjected`), for any number of
packet processors, movers, packets, parts, sessions and failing statements. `CopiesInv`:
each received copy of a fragment is being stored by one process or stored once. `HandInv`
follows the packet in the hand of the Defrag process part by part: what was read, and what
is still to be read, are its parts in order, and an object can only be missing if a
deletion cut in. `SpentInv` counts: the uses of a fragment are at most the copies spent on
it, and a spent copy is in the table only while its packet is assembled and removed. What
makes that removal sure is `DeletingInv`: of what a deletion selected either every object
is still there or every row is gone, so a COMMIT that fails has nothing left to do.
`CleanInv` is about the packets that none of the causes concerns: every fragment received
is stored or being stored, and once all are stored a process is about to announce it, the
message is in the pipe, or the Defrag process is at it. Such a packet is complete by count
because no part can be there twice, and it is neither removed without being assembled nor
read with a hole. The theorem follows: at rest nobody is about to do anything.

**`DirectoryProofs`** – `RowsAreTheirOwners` (`[]OwnersWrite`), `NumbersAreTheirOwners`
(`[]UinIsHis`), `HiddenAddresses` (`[]HiddenIsHidden`) and `SavedAreShown`
(`[]SavedIsShown`), for any number of packet processors, users, newcomers, places, requests
and failing statements. For the rows: `SessionsInv` says that the number of a session
never comes back, so a handler whose place has been taken knows it for good; `SavesInv`
that every value belongs to a request that was sent; `OwnersInv` carries what V7 reads
from a row to the moment it is written back, when it is his own, or the handler's place
has gone, or the row was marked at the read. For the numbers: `JoinInv` follows a newcomer
who joins while nobody else does (`Alone`) – the number he has computed exceeds every row,
then every request, and after the insert it stands there under his name – and
`NumbersInv` keeps it there until he has deleted it himself (`Deleted`), and apart from
what others were told; whose number somebody else unregistered is marked. Neither half is inductive alone: that he finds his number free
needs that nobody who joins unmarked leaves, and that nobody else was told it needs that
rows only go with their owners. For the addresses: `AddressInv` says of every row, and of
every row that was read to be written back, that an address of a request which hid it
stands beside the flag of the same or of another request that hid it. It speaks of
`email1`, the only address whose flag the code knows, and of the handlers that write this
flag with the address; the lemmas look at each of the 40 handlers of `UserInfo`. The
others are the exceptions of the property: what is sent for the second and third address
has no flag in the row, whoever writes it, and V7 stores a list of one or two addresses
in `email3` and `email2` and drops all their flags. Which of its columns a handler treats so is
part of its definition (`spoils`) and does not depend on what happens in the run.
That nothing else can part the two – late writers, repeated packets, refused strings,
failing statements, new owners of places and numbers – is what the theorem says.
For what is saved: `SavedIsShown` speaks of users none of whose requests is under way, so
`ShownInv` has to say what is stored while one is. `Stage` says it of a field by the
statements that are still to do. A field that the request carries is what the user was
last told until its write, then the request's, and the answer makes this what the user was
told; if the handler answers first, what he was told is ahead of the row until the write.
A field that the handler only reads to write it back stays, and what was read equals what
is stored. The notes have a write of their own (`half`): a handler that fails after it
denies what is stored, and is marked when it answers. `FieldsInv` claims this only of
fields without a mark (`Clean`), for a row that is the user's own; the other parts say why
marks are there where it would fail: two requests of a user that have a field in common
(`CrossInv`), a handler whose place has another session (`Away`, with `HandlersInv`), a
packet that came again (`ToldInv`), a session or request of an earlier number
(`PlacesInv`, `ComersInv`). That a handler writes each field it carries from the field of
the same name, or is marked as one that spoils it, is `Keeps`, shown for every handler of
`UserInfo`.

## 6. Only model-checked, and not modelled

Only model-checked:

* all liveness (`EveryPacketLeaves`, `SessionEnds`, `StaleRowsGo`, `RecoversUnlessKnown`,
  `FragmentsGo`): the prover handles neither fairness nor `ENABLED`;
* the properties of `Presence`, `SSI` and `WhitePages`. Their handlers
  are programs, sequences of steps that the model interprets, or tables of clauses; what
  a program does in the end is an induction over data, which the installed provers
  cannot instantiate, so each invariant has to be stated about every remainder of every
  program. `ShownInv` of `DirectoryProofs` does this for the seven remainders of a request
  to save; the programs of `Presence` and `SSI` have far more, some with arguments of
  their own, and section 8 says which properties need only few of them.

TLC enumerates these within the bounds of section 4; what it says there is not known for
larger instances.

Not modelled: packet layouts and encryption, SQL text beyond the clauses of the searches,
configuration, logging, mail and command execution, character sets, the administration
protocol (a stateless request and answer), the vendored memory allocator, the
`epoll`/`kqueue` variants, which differ from `sockets-p.cpp` in the system call, the
shutdown and the death of the parent, the semaphores under an interrupted `semop`. What
each module leaves out of the part it models is said with it in section 3.

## 7. Facts met on the way

Where a property names an exception, the code really has it. The properties say exactly
how far these go; the facts are listed here for a reader of the code.

*Delivery, table, processes*

* A retransmission carries another sequence number than the stamp EPacket waits for
  (`event/epacket.cpp:376` stores the packet before it is numbered, against the comment at
  497): its acknowledgement is ignored, or confirms another packet.
* The stamp is an unsigned long, the header 16 bits: from the 65537th packet of a session
  on no acknowledgement matches.
* Between `shm_iget_user` and the uses of its pointer (`event/epacket.cpp:104`–137) the slot
  may get another user: the packet is then queued for him, with a stamp of his or of the
  former one, and retransmitted to his address.
* Two PPs that handle two login requests of one user both log him in
  (`v3_proto/proto_handler.cpp:1222`). A V7 cookie shows that the user was not online when
  it was issued, not when it is redeemed. A kick ends one record of a user who has two, and
  lets the next client in.
* A login whose INSERT fails is answered with an error and leaves its record
  (`database/online_db.cpp:261`).
* A PP killed between the counter and the record leaves the counter wrong for good; with
  EUser killed between storing a `ttlv` of 0 and the deletion it wraps, and the user stays.
  An EUser that is started again clears `Online_Users` while users are online.
* With the second load of `uin` (`Reload`) EUser may drop a user that logged in just now.
* SP waits on a full incoming pipe while all PPs wait for SP to read replies
  (`isdcore/sprocess.cpp:520`). On FreeBSD `sendto` fails with ENOBUFS instead, and replies
  and events are lost silently.
* A child that dies before it is inserted, or during the check of the others, is never
  replaced (`isdcore/process_init.cpp:241`, `isdcore/process.cpp:265`). A child killed
  between `fork` and the assignment of its role runs `Server_cleanup`.
* `semop` is never checked: interrupted by a signal, a process goes on without the
  semaphore.

*Connections*

* The "reliable" `spipe_send_packet` (`isdcore/sprocess.cpp:493`) is not when it waits: a
  nested close overwrites `int_pack`, the connection just accepted may end up behind the
  table, and a moved entry with a stale mark is closed.
* A timeout closes a connection without a word (`isdcore/sprocess.cpp:247`): a login
  completed meanwhile stays. `close_connection` of a logged-in connection moves its user
  offline without telling SP. A kick does not close the old connection. Of two users over
  one connection its SOCK_TERM ends one.

*Messages and presence*

* A failed FETCH still sends the end marker, and the client's delete removes what was not
  shown. V5 and V7 delete all, V3 up to a date. A failed DECLARE sends no end marker.
* A V7 sender is acknowledged before the INSERT. `last_msg` is never assigned, so the rate
  limit never holds. Offline texts of more than 450 bytes are dropped silently.
* A broadcast looks twice at the rows of `Online_Users`, which follow the records
  (`isdcore/broadcast.cpp:503`, `577`): who moves between the looks, or whose row is behind,
  may get it twice or not at all; inactive recipients never get it.
* V7 activation sets the record active before the row. V3 lists ignore privacy. V5's
  deletion from the invisible list while private reveals, the one from the visible list
  while open hides. `need_notification` leaves the address unset. Uploads of lists by V5
  and family 9 tell nobody.
* A fragment is acknowledged before it is stored; one that came twice is never assembled.
  `db_defrag_delete` deletes all rows of the user. A V3 login replies before it wipes. The
  session is not compared. `scheduler_init` is never called.

*Lists, directory, white pages*

* Of a list of several contacts only the last one gets presence (`sn13:555`, `741`); an add
  before the activation sets `cloaded` (`sn13:651`); an update rewrites the authorization
  from the packet; a nickname that is too long is reported as success (`ssi_db.cpp:298`,
  `463`); the ROLLBACK is commented out (`sn13:746`); a grant does not change the revision,
  two changes in a second have one; an item of more than 1400 bytes is never sent.
* V3 answers OK before it looks at the result; V5 saves undefined data after a refused
  string; V7 home and work never save `zip2`; V7 email reads a row and writes it back; a V7 list of one or two
  addresses ends in `email3` and `email2` and drops the flags of both (`sn15:490`); notes
  are saved and answered False; an UPDATE of no row is a success; unregistering with a
  wrong password is answered True; it deletes the number that the packet names, whosesoever
  password it has (`v5_proto/meta_user.cpp:236`); a session goes on after it, so a second request to
  unregister deletes what its user has registered meanwhile, under a number he is told
  (`hasty`: "crossed"); a number may be given twice when two join at once.
* V3 searches "begins" and "ends" find everyone else; a long name cuts the SQL at 64
  characters; the utf8 search of online users is ambiguous and fails; V7 searches by
  address look at `email1` whether or not it may be seen; V3's text lists never say that
  there is more.

## 8. Plan

Done: every module of section 3 with its run; the proofs of section 5.

What could follow:

1. `SSI`: a theorem for `LimitHolds`, which needs only what follows the test in each
   remainder of a program.
2. `WhitePages`: `AddressStaysHidden`; `Presence`: `HiddenStaysHidden` for a single pair.
